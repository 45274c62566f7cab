--------------------------- MODULE TraceWritingProofs ---------------------------
(***************************************************************************)
(* Proofs about TraceWriting, for any threads, Runs, sessions, sizes,      *)
(* limits and faults.                                                      *)
(***************************************************************************)
EXTENDS TraceWriting, FiniteSetTheorems, WellFoundedInduction, TLAPS

-----------------------------------------------------------------------------
(***************************************************************************)
(* The inductive invariant, in parts.                                      *)
(***************************************************************************)

Event == [id: Tokens \X Nat, run: Runs, phase: {"fact", "terminal", "closed"}]

LedgerTypes ==
  /\ created \in Nat
  /\ generation \in [Threads -> Nat]
  /\ log \in [Threads -> Seq(Event)]
  /\ writers \in [Runs -> Writer]
  /\ checkpoints \in [Threads -> SUBSET Checkpoint]

\* A thread without a generation holds nothing.
ThreadSound(t) ==
  /\ generation[t] <= created
  /\ generation[t] = 0 => log[t] = <<>>

WriterSound(r) ==
  /\ writers[r].active => Exists(r)
  /\ Exists(r) => generation[ThreadOf[r]] # 0

CheckpointsSound ==
  \A t \in Threads : \A c \in checkpoints[t] :
    c.of = generation[t] /\ c.as_of \in 1..LastSeq(t)

LedgerSound ==
  /\ LedgerTypes
  /\ \A t \in Threads : ThreadSound(t)
  /\ \A r \in Runs : WriterSound(r)
  /\ EndsHaveRoom
  /\ CheckpointsSound

\* A session that has its writer, and what its worker and its calls still hold.
Begun(s) == session[s].generation # 0

SessionSound(s, x) ==
  /\ x.pc \in {"idle", "opening"} =>
       x = [Idle EXCEPT !.pc = x.pc, !.run = x.run]
  /\ x.pc \notin {"idle", "opening", "closed"} => x.generation # 0
  /\ x.generation # 0 => x.run \in Runs
  /\ x.pc = "closed" => x = Closed(x)
  /\ x.pc # "closed" => x.settled + x.batch <= x.accepted /\ x.accepted <= MaxFacts[s]
  /\ x.pc = "submitting" => x.submission >= 1 /\ x.accepted + x.submission <= MaxFacts[s]
  /\ x.pc \in {"finishing", "notifying"} => x.stage < 2
  /\ x.pc \in {"hydrating", "notifying"} => x.worker = "idle" /\ x.queue = <<>>

\* The queue holds what comes after the batch in flight.
WorkerSound(x) ==
  /\ \A i \in DOMAIN x.queue :
       x.settled + x.batch < x.queue[i] /\ x.queue[i] <= x.accepted
  /\ \A i, j \in DOMAIN x.queue : i < j => x.queue[i] < x.queue[j]
  /\ x.worker \in {"idle", "ended"} => x.batch = 0
  /\ x.worker = "ended" => x.failed
  /\ x.worker \in {"append", "notify"} => x.batch >= 1 /\ ~x.failed
  /\ x.failed => x.queue = <<>>

\* Somebody waits for a catch-up that is under way.
CoreSound(x, c) ==
  c.pc # "none" => x.pc \in {"hydrating", "notifying"} \/ x.worker = "notify"

SessionsSound ==
  /\ session \in [Tokens -> Session]
  /\ core \in [Tokens -> CatchUp]
  /\ query \in Query
  /\ \A s \in Tokens :
       /\ SessionSound(s, session[s])
       /\ WorkerSound(session[s])
       /\ CoreSound(session[s], core[s])
       /\ session[s].generation <= created

\* The k-th event of a thread was appended in its generation, by a session of
\* its Run, whose writer remembers it.
EventSound(t, k) ==
  LET e == log[t][k]
      s == e.id[1]
      r == e.run
  IN  /\ ThreadOf[r] = t
      /\ Exists(r) /\ writers[r].committed_events > 0
      /\ e.phase # "fact" => writers[r].terminal_committed
      /\ e.phase = "closed" => writers[r].closed_committed
      /\ session[s].run = r
      /\ session[s].generation = generation[t]
      /\ e.phase = "fact" <=> e.id[2] \in 1..MaxFacts[s]

\* A session's facts are in order from the first one.
FactOrdered(t, k) ==
  LET s == log[t][k].id[1]
      n == log[t][k].id[2]
  IN  log[t][k].phase = "fact" =>
        /\ ~Stored(t, s, n, k - 1)
        /\ n > 1 => Stored(t, s, n - 1, k - 1)

\* From the owner's first event on, a Run's events are the owner's.
OwnerIsLast(r) ==
  LET e == log[ThreadOf[r]] IN
  \A j, k \in DOMAIN e :
    j < k /\ e[j].run = r /\ e[k].run = r /\ e[j].id[1] = writers[r].owner =>
      e[k].id[1] = writers[r].owner

LogSound ==
  /\ \A t \in Threads : \A k \in DOMAIN log[t] : EventSound(t, k) /\ FactOrdered(t, k)
  /\ \A r \in Runs : OwnerIsLast(r)
  /\ RunEndsOnce

\* Facts of a session, of those up to n or beyond.
AllStored(s, n) == \A i \in 1..n : Stored(Thread(s), s, i, LastSeq(Thread(s)))
NoneBeyond(s, n) ==
  \A k \in DOMAIN log[Thread(s)] :
    LET e == log[Thread(s)][k] IN e.id[1] = s /\ e.phase = "fact" => e.id[2] <= n

\* What was settled is stored; a batch is stored whole or not at all.
FactsSound(s) ==
  LET x == session[s]
      inFlight == x.settled + x.batch
  IN  Begun(s) /\ Current(s) =>
        /\ AllStored(s, x.settled)
        /\ x.worker = "notify" => AllStored(s, inFlight)
        /\ x.worker = "append" => AllStored(s, inFlight) \/ NoneBeyond(s, x.settled)
        /\ x.pc # "closed" /\ ~x.failed => NoneBeyond(s, inFlight)

\* A query asks a session that has begun, and its snapshot holds its target.
QuerySound ==
  LET s == query.session
      t == Thread(s)
  IN  query.pc \in {"forcing", "load", "save"} =>
        /\ s \in Tokens /\ Begun(s)
        /\ query.pc # "forcing" /\ Current(s) /\ query.generation = generation[t] =>
             /\ query.as_of <= LastSeq(t)
             /\ \A n \in 1..query.target : Stored(t, s, n, query.as_of)

WritingInv ==
  /\ LedgerSound
  /\ SessionsSound
  /\ LogSound
  /\ \A s \in Tokens : FactsSound(s)
  /\ QuerySound

-----------------------------------------------------------------------------
(***************************************************************************)
(* Facts about the operators of the model.                                 *)
(***************************************************************************)

\* A set of naturals that is not empty has a least element.
LEMMA LeastExists ==
  ASSUME NEW S \in SUBSET Nat, S # {}
  PROVE  \E y \in S : \A z \in S : y <= z
  <1> DEFINE R == OpToRel(<, Nat)
  <1>1. IsWellFoundedOn(R, Nat)
    BY NatLessThanWellFounded
  <1>2. PICK y \in S : \A z \in S : <<z, y>> \notin R
    BY <1>1, WFMin
  <1>3. ASSUME NEW z \in S PROVE y <= z
    <2>1. ~(z < y)
      BY <1>2, <1>3 DEF OpToRel
    <2> QED
      BY <2>1
  <1> QED
    BY <1>3

\* A bounded set of naturals that is not empty has a greatest element.
LEMMA GreatestExists ==
  ASSUME NEW S \in SUBSET Nat, S # {}, NEW n \in Nat, \A i \in S : i <= n
  PROVE  Max(S) \in S /\ \A i \in S : i <= Max(S)
  <1> DEFINE D == {n - i : i \in S}
  <1>1. D \in SUBSET Nat /\ D # {}
    <2>1. ASSUME NEW i \in S PROVE n - i \in Nat
      OBVIOUS
    <2> QED
      BY <2>1
  <1>2. PICK d \in D : \A c \in D : d <= c
    BY <1>1, LeastExists
  <1>3. PICK z \in S : d = n - z
    OBVIOUS
  <1>4. \A y \in S : z >= y
    <2> SUFFICES ASSUME NEW y \in S PROVE z >= y
      OBVIOUS
    <2>1. n - y \in D
      OBVIOUS
    <2>2. n - z <= n - y
      BY <1>2, <1>3, <2>1
    <2> QED
      BY <2>2
  <1>5. Max(S) \in S /\ \A y \in S : Max(S) >= y
    BY <1>4 DEF Max
  <1> QED
    BY <1>5

\* The position of an event is that of one with its id, and 0 if there is none.
LEMMA PositionFound ==
  ASSUME LedgerTypes, NEW s \in Tokens, session[s].run \in Runs, NEW event
  PROVE  /\ Position(s, event) \in 0 .. LastSeq(Thread(s))
         /\ Position(s, event) > 0 =>
              \E k \in 1 .. LastSeq(Thread(s)) : log[Thread(s)][k].id = event.id
         /\ Position(s, event) = 0 =>
              \A k \in 1 .. LastSeq(Thread(s)) : log[Thread(s)][k].id # event.id
  <1> DEFINE S == {k \in 1 .. LastSeq(Thread(s)) : log[Thread(s)][k].id = event.id}
             T == {0} \cup S
  <1>1. LastSeq(Thread(s)) \in Nat
    BY LimitsAssumption DEF LedgerTypes, LastSeq, Thread
  <1>2. T \in SUBSET Nat /\ T # {} /\ \A i \in T : i <= LastSeq(Thread(s))
    BY <1>1
  <1>3. Max(T) \in T /\ \A i \in T : i <= Max(T)
    BY <1>1, <1>2, GreatestExists
  <1>4. Position(s, event) = Max(T)
    BY DEF Position
  <1>5. \A k : k \in T <=> k = 0 \/ k \in S
    OBVIOUS
  <1>6. \A k : k \in S <=>
          k \in 1 .. LastSeq(Thread(s)) /\ log[Thread(s)][k].id = event.id
    OBVIOUS
  <1> HIDE DEF T, S
  <1>7. Position(s, event) = 0 \/ Position(s, event) \in S
    BY <1>3, <1>4, <1>5
  <1>8. Position(s, event) = 0 => S = {}
    <2> SUFFICES ASSUME Position(s, event) = 0, NEW k \in S PROVE FALSE
      OBVIOUS
    <2>1. k <= 0
      BY <1>3, <1>4, <1>5
    <2> QED
      BY <1>1, <1>6, <2>1
  <1> QED
    BY <1>1, <1>6, <1>7, <1>8

\* The newest checkpoint inside a prefix ends there or before.
LEMMA NewestType ==
  ASSUME NEW t \in Threads, NEW as_of \in Nat
  PROVE  NewestWithin(t, as_of) \in Nat
  <1> DEFINE T == {0} \cup {n \in 1 .. as_of : \E c \in checkpoints[t] : c.as_of = n}
  <1>1. T \in SUBSET Nat /\ T # {} /\ \A i \in T : i <= as_of
    OBVIOUS
  <1>2. Max(T) \in T
    BY <1>1, GreatestExists
  <1>3. NewestWithin(t, as_of) = Max(T)
    BY DEF NewestWithin
  <1> HIDE DEF T
  <1> QED
    BY <1>1, <1>2, <1>3

\* Of a queue that is not empty a positive number of submissions is selected.
LEMMA SelectedType ==
  ASSUME NEW x, x.queue \in Seq(Nat), x.queue # <<>>
  PROVE  Selected(x) \in 1 .. Len(x.queue)
  <1> DEFINE T == {1} \cup {n \in 1 .. Len(x.queue) : FactsUpTo(x, n) <= MaxBatchEvents}
  <1>1. Len(x.queue) \in Nat /\ Len(x.queue) >= 1
    OBVIOUS
  <1>2. T \in SUBSET Nat /\ T # {} /\ \A i \in T : i <= Len(x.queue)
    BY <1>1
  <1>3. Max(T) \in T
    BY <1>1, <1>2, GreatestExists
  <1>4. Selected(x) = Max(T)
    BY DEF Selected
  <1> HIDE DEF T
  <1> QED
    BY <1>1, <1>3, <1>4 DEF T

\* What follows a log leaves its events where they are.
LEMMA Joined ==
  ASSUME NEW S, NEW a \in Seq(S), NEW b \in Seq(S)
  PROVE  /\ a \o b \in Seq(S)
         /\ Len(a \o b) = Len(a) + Len(b)
         /\ \A k \in 1 .. Len(a) : (a \o b)[k] = a[k]
         /\ \A k \in 1 .. Len(b) : (a \o b)[Len(a) + k] = b[k]
  OBVIOUS

\* One event more is a batch of one event.
LEMMA AppendIsJoin ==
  ASSUME NEW S, NEW a \in Seq(S), NEW e \in S
  PROVE  Append(a, e) = a \o <<e>>
  OBVIOUS

\* Nothing more is no change.
LEMMA JoinNothing ==
  ASSUME NEW S, NEW a \in Seq(S)
  PROVE  a \o <<>> = a
  OBVIOUS

-----------------------------------------------------------------------------
(***************************************************************************)
(* What a step does to the ledger.                                         *)
(***************************************************************************)

\* A writer's reserves suffice for the end of its Run.
HasRoom(w) ==
  w.active /\ ~w.closed_committed =>
    LET owed == IF w.terminal_committed THEN 1 ELSE 2 IN
    w.event_reserve >= owed /\ w.byte_reserve >= owed * MaxEventBytes

WriterReplaced(r, w) ==
  /\ writers' = [writers EXCEPT ![r] = w]
  /\ UNCHANGED <<created, generation, checkpoints>>

\* One writer changes and appends some events, or none.
LEMMA LedgerGoesOn ==
  ASSUME LedgerSound, NEW r \in Runs, NEW w \in Writer, NEW events \in Seq(Event),
         WriterReplaced(r, w),
         log' = [log EXCEPT ![ThreadOf[r]] = @ \o events],
         w.active => w.owner # Nobody,
         generation[ThreadOf[r]] # 0,
         HasRoom(w)
  PROVE  LedgerSound'
  <1> DEFINE t == ThreadOf[r]
  <1>1. t \in Threads
    BY LimitsAssumption
  <1> HIDE DEF t
  <1>2. log[t] \in Seq(Event)
    BY <1>1 DEF LedgerSound, LedgerTypes
  <1>3. /\ log[t] \o events \in Seq(Event)
        /\ Len(log[t] \o events) = Len(log[t]) + Len(events)
        /\ Len(log[t]) \in Nat /\ Len(events) \in Nat
    BY <1>2
  <1>4. log' = [log EXCEPT ![t] = log[t] \o events]
    BY DEF t
  <1>5. LedgerTypes'
    BY <1>1, <1>3, <1>4 DEF LedgerSound, LedgerTypes, WriterReplaced
  <1>6. ASSUME NEW u \in Threads PROVE ThreadSound(u)'
    <2>1. log'[u] = IF u = t THEN log[t] \o events ELSE log[u]
      BY <1>1, <1>4 DEF LedgerSound, LedgerTypes
    <2>2. ThreadSound(u)
      BY DEF LedgerSound
    <2> QED
      BY <2>1, <2>2 DEF ThreadSound, WriterReplaced, t
  <1>7. ASSUME NEW q \in Runs PROVE WriterSound(q)'
    <2>1. writers'[q] = IF q = r THEN w ELSE writers[q]
      BY DEF LedgerSound, LedgerTypes, WriterReplaced
    <2>2. WriterSound(q)
      BY DEF LedgerSound
    <2> QED
      BY <2>1, <2>2 DEF WriterSound, Exists, WriterReplaced
  <1>8. EndsHaveRoom'
    <2>1. ASSUME NEW q \in Runs PROVE HasRoom(writers'[q])
      <3>1. writers'[q] = IF q = r THEN w ELSE writers[q]
        BY DEF LedgerSound, LedgerTypes, WriterReplaced
      <3>2. HasRoom(writers[q])
        BY DEF LedgerSound, EndsHaveRoom, HasRoom
      <3> QED
        BY <3>1, <3>2
    <2> QED
      BY <2>1 DEF EndsHaveRoom, HasRoom
  <1>9. CheckpointsSound'
    <2> SUFFICES ASSUME NEW u \in Threads, NEW c \in checkpoints[u]
                 PROVE  c.of = generation[u] /\ c.as_of \in 1 .. Len(log'[u])
      BY DEF CheckpointsSound, LastSeq, WriterReplaced
    <2>1. c.of = generation[u] /\ c.as_of \in 1 .. Len(log[u])
      BY DEF LedgerSound, CheckpointsSound, LastSeq
    <2>2. log'[u] = IF u = t THEN log[t] \o events ELSE log[u]
      BY <1>1, <1>4 DEF LedgerSound, LedgerTypes
    <2> QED
      BY <1>3, <2>1, <2>2
  <1> QED
    BY <1>5, <1>6, <1>7, <1>8, <1>9 DEF LedgerSound

\* ... none.
LEMMA LedgerKeepsLog ==
  ASSUME LedgerSound, NEW r \in Runs, NEW w \in Writer,
         WriterReplaced(r, w), UNCHANGED log,
         w.active => w.owner # Nobody,
         generation[ThreadOf[r]] # 0,
         HasRoom(w)
  PROVE  LedgerSound'
  <1>1. ThreadOf[r] \in Threads
    BY LimitsAssumption
  <1>2. log[ThreadOf[r]] \in Seq(Event) /\ log \in [Threads -> Seq(Event)]
    BY <1>1 DEF LedgerSound, LedgerTypes
  <1>3. log[ThreadOf[r]] \o <<>> = log[ThreadOf[r]]
    BY <1>2, JoinNothing
  <1>4. log' = [log EXCEPT ![ThreadOf[r]] = log[ThreadOf[r]]]
    BY <1>2
  <1>5. log' = [log EXCEPT ![ThreadOf[r]] = @ \o <<>>]
    BY <1>3, <1>4
  <1>6. <<>> \in Seq(Event)
    OBVIOUS
  <1> QED
    BY <1>5, <1>6, LedgerGoesOn

\* A thread loses its generation and what is in it.
LEMMA LedgerDrops ==
  ASSUME LedgerSound, NEW t \in Threads, Dropped(t), UNCHANGED created,
         writers' \in [Runs -> Writer],
         \A q \in Runs :
           IF ThreadOf[q] = t THEN writers'[q].owner = Nobody /\ ~writers'[q].active
           ELSE writers'[q] = writers[q]
  PROVE  LedgerSound'
  <1>1. LedgerTypes'
    BY DEF LedgerSound, LedgerTypes, Dropped
  <1>2. ASSUME NEW u \in Threads PROVE ThreadSound(u)'
    BY DEF LedgerSound, LedgerTypes, Dropped, ThreadSound
  <1>3. ASSUME NEW q \in Runs PROVE WriterSound(q)'
    <2>1. WriterSound(q) /\ ThreadOf[q] \in Threads
      BY LimitsAssumption DEF LedgerSound
    <2> QED
      BY <2>1 DEF WriterSound, Exists, Dropped, LedgerSound, LedgerTypes
  <1>4. EndsHaveRoom'
    BY DEF LedgerSound, EndsHaveRoom
  <1>5. CheckpointsSound'
    BY DEF LedgerSound, LedgerTypes, CheckpointsSound, LastSeq, Dropped
  <1> QED
    BY <1>1, <1>2, <1>3, <1>4, <1>5 DEF LedgerSound

\* A new writer's reserve is enough for two facts of any size.
LEMMA NewWriterSound ==
  ASSUME NEW s \in Tokens
  PROVE  /\ NewWriter(s) \in Writer /\ HasRoom(NewWriter(s))
         /\ NewWriter(s).owner = s /\ s # Nobody
         /\ NewWriter(s).terminal_committed = FALSE
         /\ NewWriter(s).closed_committed = FALSE
         /\ NewWriter(s).committed_events = 0
  <1>1. NewWriter(s) =
          [owner |-> s, fence |-> 1, leased |-> TRUE, active |-> TRUE,
           terminal_committed |-> FALSE, closed_committed |-> FALSE,
           committed_events |-> 0, event_reserve |-> TerminalReserveEvents,
           byte_reserve |-> TerminalReserveBytes]
    BY DEF NewWriter
  <1>2. TerminalReserveEvents * MaxEventBytes >= 2 * MaxEventBytes
    <2>1. ASSUME NEW n \in Nat, n >= 2, NEW m \in Nat PROVE n * m >= 2 * m
      <3>1. (n - 2) * m >= 0
        BY <2>1
      <3>2. (n - 2) * m = n * m - 2 * m
        BY <2>1
      <3> QED
        BY <3>1, <3>2, <2>1
    <2> QED
      BY <2>1, LimitsAssumption
  <1>3. TerminalReserveBytes >= 2 * MaxEventBytes
    <2>1. TerminalReserveEvents * MaxEventBytes \in Nat /\ 2 * MaxEventBytes \in Nat
      BY LimitsAssumption
    <2> QED
      BY <1>2, <2>1, LimitsAssumption
  <1>4. NewWriter(s) \in Writer
    BY <1>1, LimitsAssumption DEF Writer
  <1>5. HasRoom(NewWriter(s))
    BY <1>1, <1>3, LimitsAssumption DEF HasRoom
  <1> QED
    BY <1>1, <1>4, <1>5, LimitsAssumption

\* A thread begins its next generation with its first Run.
LEMMA LedgerBegins ==
  ASSUME LedgerSound, NEW r \in Runs, NEW w \in Writer,
         writers' = [writers EXCEPT ![r] = w],
         generation[ThreadOf[r]] = 0,
         created' = created + 1,
         generation' = [generation EXCEPT ![ThreadOf[r]] = created + 1],
         UNCHANGED <<log, checkpoints>>,
         w.active => w.owner # Nobody,
         HasRoom(w)
  PROVE  LedgerSound'
  <1> DEFINE t == ThreadOf[r]
  <1>1. t \in Threads /\ created \in Nat
    BY LimitsAssumption DEF LedgerSound, LedgerTypes
  <1> HIDE DEF t
  <1>2. LedgerTypes'
    BY <1>1 DEF LedgerSound, LedgerTypes, t
  <1>3. ASSUME NEW u \in Threads
        PROVE  generation'[u] = IF u = t THEN created + 1 ELSE generation[u]
    BY <1>1, <1>3 DEF LedgerSound, LedgerTypes, t
  <1>4. ASSUME NEW u \in Threads PROVE ThreadSound(u)'
    <2>1. ThreadSound(u) /\ generation[u] \in Nat
      BY DEF LedgerSound, LedgerTypes
    <2> QED
      BY <1>1, <1>3, <2>1 DEF ThreadSound
  <1>5. ASSUME NEW q \in Runs PROVE WriterSound(q)'
    <2>1. writers'[q] = IF q = r THEN w ELSE writers[q]
      BY DEF LedgerSound, LedgerTypes
    <2>2. WriterSound(q) /\ ThreadOf[q] \in Threads
      BY LimitsAssumption DEF LedgerSound
    <2>3. CASE ThreadOf[q] = t
      <3>1. generation'[ThreadOf[q]] # 0
        BY <1>1, <1>3, <2>3
      <3>2. q # r => ~Exists(q)
        BY <2>2, <2>3 DEF WriterSound, t
      <3> QED
        BY <2>1, <2>2, <3>1, <3>2 DEF WriterSound, Exists
    <2>4. CASE ThreadOf[q] # t
      <3>1. q # r /\ generation'[ThreadOf[q]] = generation[ThreadOf[q]]
        BY <1>3, <2>2, <2>4 DEF t
      <3> QED
        BY <2>1, <2>2, <3>1 DEF WriterSound, Exists
    <2> QED
      BY <2>3, <2>4
  <1>6. EndsHaveRoom'
    <2>1. ASSUME NEW q \in Runs PROVE HasRoom(writers'[q])
      <3>1. writers'[q] = IF q = r THEN w ELSE writers[q]
        BY DEF LedgerSound, LedgerTypes
      <3>2. HasRoom(writers[q])
        BY DEF LedgerSound, EndsHaveRoom, HasRoom
      <3> QED
        BY <3>1, <3>2
    <2> QED
      BY <2>1 DEF EndsHaveRoom, HasRoom
  <1>7. CheckpointsSound'
    <2> SUFFICES ASSUME NEW u \in Threads, NEW c \in checkpoints[u]
                 PROVE  c.of = generation'[u] /\ c.as_of \in 1 .. Len(log[u])
      BY DEF CheckpointsSound, LastSeq
    <2>1. c.of = generation[u] /\ c.as_of \in 1 .. Len(log[u])
      BY DEF LedgerSound, CheckpointsSound, LastSeq
    <2>2. u # t
      <3> SUFFICES ASSUME u = t PROVE FALSE
        OBVIOUS
      <3>1. ThreadSound(t)
        BY <1>1 DEF LedgerSound
      <3>2. log[u] = <<>>
        BY <3>1 DEF ThreadSound, t
      <3> QED
        BY <2>1, <3>2
    <2> QED
      BY <1>3, <2>1, <2>2
  <1> QED
    BY <1>2, <1>4, <1>5, <1>6, <1>7 DEF LedgerSound

\* open_writer.
LEMMA OpenNewLedger ==
  ASSUME LedgerSound, NEW r \in Runs, NEW s \in Tokens, OpenNew(r, s)
  PROVE  LedgerSound'
  <1>1. /\ NewWriter(s) \in Writer /\ HasRoom(NewWriter(s))
        /\ NewWriter(s).owner # Nobody
    BY NewWriterSound
  <1>2. CASE generation[ThreadOf[r]] # 0
    BY <1>1, <1>2, LedgerKeepsLog DEF OpenNew, WriterReplaced
  <1>3. CASE generation[ThreadOf[r]] = 0
    BY <1>1, <1>3, LedgerBegins DEF OpenNew
  <1> QED
    BY <1>2, <1>3

\* A writer as another session, with or without its lease, has it.
Passed(r, owner, fence, leased) ==
  [writers[r] EXCEPT !.owner = owner, !.fence = fence, !.leased = leased]

\* A writer that passes to an owner keeps the ledger sound.
LEMMA LedgerPasses ==
  ASSUME LedgerSound, NEW r \in Runs, NEW owner \in Tokens \cup {Nobody},
         NEW fence \in Nat, NEW leased \in BOOLEAN,
         WriterReplaced(r, Passed(r, owner, fence, leased)), UNCHANGED log,
         Exists(r), owner # Nobody
  PROVE  LedgerSound'
  <1>1. writers[r] \in Writer /\ WriterSound(r) /\ HasRoom(writers[r])
    BY DEF LedgerSound, LedgerTypes, EndsHaveRoom, HasRoom
  <1> DEFINE w == Passed(r, owner, fence, leased)
  <1>2. w \in Writer /\ w.owner = owner
    BY <1>1 DEF Passed, Writer
  <1>3. HasRoom(w)
    BY <1>1 DEF Passed, Writer, HasRoom
  <1>4. generation[ThreadOf[r]] # 0
    BY <1>1 DEF WriterSound
  <1> QED
    BY <1>2, <1>3, <1>4, LedgerKeepsLog

\* A writer changes hands, or its lease only is renewed or lost.
Hands(r, owner) ==
  /\ Exists(r) /\ owner # Nobody
  /\ UNCHANGED log
  /\ \E fence \in Nat, leased \in BOOLEAN :
       WriterReplaced(r, Passed(r, owner, fence, leased))

\* So does one that changes hands, or whose lease is renewed or lost.
LEMMA HandsLedger ==
  ASSUME LedgerSound, NEW r \in Runs, NEW owner \in Tokens \cup {Nobody}, Hands(r, owner)
  PROVE  LedgerSound'
  BY LedgerPasses DEF Hands

\* A writer that is active belongs to a session.
LEMMA WriterOwned ==
  ASSUME LedgerSound, NEW r \in Runs
  PROVE  /\ writers[r] \in Writer
         /\ writers[r].owner \in Tokens \cup {Nobody}
         /\ writers[r].active => Exists(r)
         /\ Exists(r) => generation[ThreadOf[r]] # 0
         /\ ThreadOf[r] \in Threads
  <1>1. writers[r] \in Writer /\ WriterSound(r)
    BY DEF LedgerSound, LedgerTypes
  <1> QED
    BY <1>1, LimitsAssumption DEF WriterSound, Writer

\* A token that asks for a Run is nobody's but its own.
LEMMA OpenHands ==
  ASSUME LedgerSound, NEW r \in Runs, NEW s \in Tokens, OpenAgain(r, s) \/ TakeOver(r, s)
  PROVE  Hands(r, s)
  <1>1. /\ writers[r] \in Writer /\ writers \in [Runs -> Writer] /\ Exists(r)
        /\ s # Nobody
    BY WriterOwned, LimitsAssumption DEF LedgerSound, LedgerTypes, OpenAgain, TakeOver,
       Unfinished
  <1>2. CASE OpenAgain(r, s)
    <2>1. writers' = [writers EXCEPT ![r] = Passed(r, s, writers[r].fence, TRUE)]
      BY <1>1, <1>2 DEF OpenAgain, Passed, Writer
    <2>2. WriterReplaced(r, Passed(r, s, writers[r].fence, TRUE)) /\ UNCHANGED log
      BY <1>2, <2>1 DEF OpenAgain, WriterReplaced
    <2>3. writers[r].fence \in Nat
      BY <1>1 DEF Writer
    <2> QED
      BY <1>1, <2>2, <2>3 DEF Hands
  <1>3. CASE TakeOver(r, s)
    <2>1. writers' = [writers EXCEPT ![r] = Passed(r, s, writers[r].fence + 1, TRUE)]
      BY <1>1, <1>3 DEF TakeOver, Passed, Writer
    <2>2. WriterReplaced(r, Passed(r, s, writers[r].fence + 1, TRUE)) /\ UNCHANGED log
      BY <1>3, <2>1 DEF TakeOver, WriterReplaced
    <2>3. writers[r].fence + 1 \in Nat
      BY <1>1 DEF Writer
    <2> QED
      BY <1>1, <2>2, <2>3 DEF Hands
  <1> QED
    BY <1>2, <1>3

\* A lease that is renewed or lost leaves the writer with its owner.
LEMMA LeaseHands ==
  ASSUME LedgerSound, NEW r \in Runs, NEW leased \in BOOLEAN, Exists(r),
         writers' = [writers EXCEPT ![r].leased = leased],
         UNCHANGED <<created, generation, log, checkpoints>>
  PROVE  Hands(r, writers[r].owner)
  <1>1. writers[r] \in Writer /\ writers \in [Runs -> Writer]
    BY DEF LedgerSound, LedgerTypes
  <1>2. writers[r].fence \in Nat
    BY <1>1 DEF Writer
  <1>3. writers' =
          [writers EXCEPT ![r] = Passed(r, writers[r].owner, writers[r].fence, leased)]
    BY <1>1 DEF Passed, Writer
  <1> QED
    BY <1>2, <1>3 DEF Hands, WriterReplaced, Exists

\* A renewal that was committed before.
LEMMA ProvenRenewalHands ==
  ASSUME LedgerSound, NEW r \in Runs, NEW g, NEW s \in Tokens, NEW f,
         ProvenRenewal(r, g, s, f)
  PROVE  Hands(r, writers[r].owner)
  <1>1. Exists(r)
    BY WriterOwned DEF ProvenRenewal, Holds
  <1>2. writers' = [writers EXCEPT ![r].leased = TRUE]
    BY DEF ProvenRenewal
  <1> QED
    BY <1>1, <1>2, LeaseHands DEF ProvenRenewal

\* A lease that elapses.
LEMMA LeaseExpiresHands ==
  ASSUME LedgerSound, NEW r \in Runs, LeaseExpires(r)
  PROVE  Hands(r, writers[r].owner)
  <1>1. Exists(r)
    BY WriterOwned DEF LeaseExpires
  <1>2. writers' = [writers EXCEPT ![r].leased = FALSE]
    BY DEF LeaseExpires
  <1> QED
    BY <1>1, <1>2, LeaseHands DEF LeaseExpires

\* An append that was committed before; it may renew the lease.
LEMMA ProvenAppendHands ==
  ASSUME LedgerSound, NEW r \in Runs, NEW g, NEW s \in Tokens, NEW f,
         ProvenAppend(r, g, s, f)
  PROVE  UNCHANGED ledgerVars \/ Hands(r, writers[r].owner)
  <1>1. writers[r] \in Writer /\ writers \in [Runs -> Writer]
    BY DEF LedgerSound, LedgerTypes
  <1>2. CASE Holds(r, g, s, f)
    <2>1. Exists(r)
      BY <1>2, WriterOwned DEF Holds
    <2>2. writers' = [writers EXCEPT ![r].leased = TRUE]
      BY <1>1, <1>2 DEF ProvenAppend, Writer
    <2> QED
      BY <2>1, <2>2, LeaseHands DEF ProvenAppend
  <1>3. CASE ~Holds(r, g, s, f)
    <2>1. PICK b \in BOOLEAN : b = writers[r].leased
      BY <1>1 DEF Writer
    <2>2. (writers[r].leased \/ Holds(r, g, s, f)) = b
      BY <1>3, <2>1
    <2>3. writers' = [writers EXCEPT ![r].leased = b]
      BY <2>2 DEF ProvenAppend
    <2>4. writers' = writers
      BY <1>1, <2>1, <2>3 DEF Writer
    <2> QED
      BY <2>4 DEF ProvenAppend, ledgerVars
  <1> QED
    BY <1>2, <1>3

\* The owner of a Run appends facts, or one of the two that end the Run.
Adds(r, g, s, events, w) ==
  /\ generation[ThreadOf[r]] = g
  /\ Exists(r) /\ writers[r].owner = s
  /\ ~writers[r].closed_committed
  /\ events # <<>>
  /\ \A k \in DOMAIN events : events[k].run = r /\ events[k].id[1] = s
  /\ \/ ~writers[r].terminal_committed /\ \A k \in DOMAIN events : events[k].phase = "fact"
     \/ ~writers[r].terminal_committed /\ Len(events) = 1 /\ events[1].phase = "terminal"
     \/ writers[r].terminal_committed /\ Len(events) = 1 /\ events[1].phase = "closed"
  /\ \A k \in DOMAIN events : events[k].phase # "fact" => w.terminal_committed
  /\ \A k \in DOMAIN events : events[k].phase = "closed" => w.closed_committed
  /\ writers[r].terminal_committed => w.terminal_committed
  /\ w \in Writer /\ w.active /\ w.owner = s /\ w.committed_events > 0 /\ HasRoom(w)
  /\ WriterReplaced(r, w)
  /\ log' = [log EXCEPT ![ThreadOf[r]] = @ \o events]

\* An owner's facts keep the ledger sound.
LEMMA AddsLedger ==
  ASSUME LedgerSound, NEW r \in Runs, NEW g, NEW s \in Tokens, NEW events \in Seq(Event),
         NEW w, Adds(r, g, s, events, w)
  PROVE  LedgerSound'
  <1>1. generation[ThreadOf[r]] # 0
    BY WriterOwned DEF Adds
  <1>2. /\ w \in Writer /\ w.owner # Nobody /\ HasRoom(w) /\ WriterReplaced(r, w)
        /\ log' = [log EXCEPT ![ThreadOf[r]] = @ \o events]
    BY LimitsAssumption DEF Adds
  <1> QED
    BY <1>1, <1>2, LedgerGoesOn

\* A writer that counts some more events.
LEMMA WriterCounts ==
  ASSUME NEW v \in Writer, NEW n \in Nat, n > 0, v.active
  PROVE  LET w == [v EXCEPT !.committed_events = @ + n] IN
         /\ w \in Writer /\ w.active /\ w.owner = v.owner /\ w.committed_events > 0
         /\ HasRoom(v) => HasRoom(w)
  <1> DEFINE w == [v EXCEPT !.committed_events = @ + n]
  <1>1. w \in Writer
    BY DEF Writer
  <1>2. /\ w.active = v.active /\ w.owner = v.owner
        /\ w.committed_events = v.committed_events + n
        /\ w.event_reserve = v.event_reserve /\ w.byte_reserve = v.byte_reserve
        /\ w.terminal_committed = v.terminal_committed
        /\ w.closed_committed = v.closed_committed
    BY DEF Writer
  <1>3. v.committed_events \in Nat
    BY DEF Writer
  <1> HIDE DEF w
  <1>4. HasRoom(v) => HasRoom(w)
    BY <1>2 DEF HasRoom
  <1>5. w.committed_events > 0 /\ w.active
    BY <1>2, <1>3
  <1> QED
    BY <1>1, <1>2, <1>4, <1>5 DEF w

\* A writer after its terminal and after its closed fact.
LEMMA WriterEnds ==
  ASSUME NEW v \in Writer, NEW event \in Event, event.phase # "fact", v.active,
         HasRoom(v), ~v.closed_committed,
         v.terminal_committed <=> event.phase = "closed",
         v.event_reserve >= 1,
         SizeOf(event.id) \in Nat, SizeOf(event.id) <= MaxEventBytes,
         v.byte_reserve >= SizeOf(event.id)
  PROVE  LET w == AfterMandatory(v, event) IN
         /\ w \in Writer /\ w.active /\ w.owner = v.owner /\ w.committed_events > 0
         /\ w.terminal_committed
         /\ event.phase = "closed" => w.closed_committed
         /\ HasRoom(w)
  <1> DEFINE w == AfterMandatory(v, event)
  <1>1. PICK size \in Nat : size = SizeOf(event.id)
    OBVIOUS
  <1>2. event.phase \in {"terminal", "closed"}
    BY DEF Event
  <1>3. v.event_reserve \in Nat /\ v.byte_reserve \in Nat /\ v.committed_events \in Nat
    BY DEF Writer
  <1> DEFINE Ended == /\ w \in Writer /\ w.active /\ w.owner = v.owner
                      /\ w.committed_events > 0 /\ w.terminal_committed
                      /\ event.phase = "closed" => w.closed_committed
                      /\ HasRoom(w)
  <1>4. ASSUME event.phase = "closed" PROVE Ended
    <2>1. w = [v EXCEPT !.terminal_committed = TRUE, !.closed_committed = TRUE,
                        !.committed_events = @ + 1, !.event_reserve = 0,
                        !.byte_reserve = 0]
      BY <1>4 DEF AfterMandatory
    <2> HIDE DEF w
    <2>2. w \in Writer
      <3>1. PICK n \in Nat : n = v.committed_events + 1
        BY <1>3
      <3>2. w = [v EXCEPT !.terminal_committed = TRUE, !.closed_committed = TRUE,
                          !.committed_events = n, !.event_reserve = 0,
                          !.byte_reserve = 0]
        BY <2>1, <3>1
      <3> QED
        BY <3>2 DEF Writer
    <2>3. /\ w.active = v.active /\ w.owner = v.owner
          /\ w.committed_events = v.committed_events + 1
          /\ w.terminal_committed = TRUE /\ w.closed_committed = TRUE
      BY <2>1 DEF Writer
    <2>4. w.active /\ w.terminal_committed /\ w.closed_committed
      BY <2>3
    <2> QED
      BY <1>3, <2>2, <2>3, <2>4 DEF HasRoom
  <1>5. ASSUME event.phase = "terminal" PROVE Ended
    <2>1. w = [v EXCEPT !.terminal_committed = TRUE, !.closed_committed = FALSE,
                        !.committed_events = @ + 1, !.event_reserve = @ - 1,
                        !.byte_reserve = @ - size]
      BY <1>1, <1>5 DEF AfterMandatory
    <2>2. v.event_reserve >= 2 /\ v.byte_reserve >= 2 * MaxEventBytes
      BY <1>5 DEF HasRoom
    <2> HIDE DEF w
    <2>3. w \in Writer
      <3>1. PICK n \in Nat, e \in Nat, b \in Nat :
              /\ n = v.committed_events + 1
              /\ e = v.event_reserve - 1 /\ b = v.byte_reserve - size
        BY <1>1, <1>3
      <3>2. w = [v EXCEPT !.terminal_committed = TRUE, !.closed_committed = FALSE,
                          !.committed_events = n, !.event_reserve = e,
                          !.byte_reserve = b]
        BY <2>1, <3>1
      <3> QED
        BY <3>2 DEF Writer
    <2>4. /\ w.active = v.active /\ w.owner = v.owner
          /\ w.committed_events = v.committed_events + 1
          /\ w.event_reserve = v.event_reserve - 1
          /\ w.byte_reserve = v.byte_reserve - size
          /\ w.terminal_committed = TRUE
      BY <2>1 DEF Writer
    <2>5. w.active /\ w.terminal_committed
      BY <2>4
    <2>6. w.event_reserve >= 1 /\ w.byte_reserve >= MaxEventBytes
      BY <1>1, <1>3, <2>2, <2>4, LimitsAssumption
    <2>7. HasRoom(w)
      BY <2>5, <2>6, LimitsAssumption DEF HasRoom
    <2> QED
      BY <1>3, <1>5, <2>3, <2>4, <2>5, <2>7
  <1> QED
    BY <1>2, <1>4, <1>5

\* append_events with ordinary facts.
LEMMA AppendFactsAdds ==
  ASSUME LedgerSound, NEW r \in Runs, NEW g, NEW s \in Tokens, NEW f,
         NEW events \in Seq(Event), events # <<>>,
         \A k \in DOMAIN events :
           events[k].run = r /\ events[k].id[1] = s /\ events[k].phase = "fact",
         AppendFacts(r, g, s, f, events)
  PROVE  \E w : Adds(r, g, s, events, w)
  <1> DEFINE w == [writers[r] EXCEPT !.committed_events = @ + Len(events)]
  <1>1. /\ writers[r] \in Writer /\ writers \in [Runs -> Writer] /\ HasRoom(writers[r])
        /\ Len(events) \in Nat /\ Len(events) > 0
    BY DEF LedgerSound, LedgerTypes, EndsHaveRoom, HasRoom
  <1>2. /\ generation[ThreadOf[r]] = g
        /\ writers[r].active /\ writers[r].owner = s
        /\ ~writers[r].terminal_committed /\ ~writers[r].closed_committed
    BY DEF AppendFacts, MayAppendFacts, Owned, Holds
  <1>3. /\ w \in Writer /\ w.active /\ w.owner = s /\ w.committed_events > 0
        /\ HasRoom(w)
    BY <1>1, <1>2, WriterCounts
  <1>5. writers' = [writers EXCEPT ![r] = w]
    BY <1>1 DEF AppendFacts, Writer
  <1>6. WriterReplaced(r, w) /\ log' = [log EXCEPT ![ThreadOf[r]] = @ \o events]
    BY <1>5 DEF AppendFacts, WriterReplaced
  <1>7. Exists(r)
    BY <1>2, WriterOwned
  <1> HIDE DEF w
  <1>8. Adds(r, g, s, events, w)
    BY <1>2, <1>3, <1>6, <1>7 DEF Adds
  <1> QED
    BY <1>8

\* ... with one of the two last facts of a Run.
LEMMA AppendMandatoryAdds ==
  ASSUME LedgerSound, NEW r \in Runs, NEW g, NEW s \in Tokens, NEW f, NEW event \in Event,
         event.run = r, event.id[1] = s, event.phase # "fact",
         SizeOf(event.id) \in Nat,
         AppendMandatory(r, g, s, f, event)
  PROVE  \E w : Adds(r, g, s, <<event>>, w)
  <1> DEFINE w == AfterMandatory(writers[r], event)
             size == SizeOf(event.id)
  <1>1. /\ writers[r] \in Writer /\ writers \in [Runs -> Writer] /\ HasRoom(writers[r])
        /\ log \in [Threads -> Seq(Event)] /\ ThreadOf[r] \in Threads
    BY LimitsAssumption DEF LedgerSound, LedgerTypes, EndsHaveRoom, HasRoom
  <1>2. /\ generation[ThreadOf[r]] = g
        /\ writers[r].active /\ writers[r].owner = s
        /\ ~writers[r].closed_committed
        /\ writers[r].terminal_committed <=> event.phase = "closed"
        /\ writers[r].event_reserve >= 1 /\ writers[r].byte_reserve >= size
    BY DEF AppendMandatory, MayAppendMandatory, MandatoryAllowed, Owned, Holds
  <1>3. size <= MaxEventBytes
    BY DEF AppendMandatory, MayAppendMandatory, SizesAllowed
  <1>4. event.phase \in {"terminal", "closed"}
    BY DEF Event
  <1>7. /\ w \in Writer /\ w.active /\ w.owner = s /\ w.committed_events > 0 /\ HasRoom(w)
        /\ w.terminal_committed
        /\ event.phase = "closed" => w.closed_committed
    BY <1>1, <1>2, <1>3, WriterEnds DEF size
  <1>8. writers' = [writers EXCEPT ![r] = w]
    BY DEF AppendMandatory
  <1>9. log' = [log EXCEPT ![ThreadOf[r]] = @ \o <<event>>]
    <2>1. log' = [log EXCEPT ![ThreadOf[r]] = Append(log[ThreadOf[r]], event)]
      BY DEF AppendMandatory
    <2>2. Append(log[ThreadOf[r]], event) = log[ThreadOf[r]] \o <<event>>
      BY <1>1, AppendIsJoin
    <2> QED
      BY <2>1, <2>2
  <1>10. WriterReplaced(r, w)
    BY <1>8 DEF AppendMandatory, WriterReplaced
  <1>11. Exists(r)
    BY <1>2, WriterOwned
  <1>12. PICK v : v = w
    OBVIOUS
  <1> HIDE DEF w
  <1>13. Adds(r, g, s, <<event>>, v)
    <2>1. /\ <<event>> # <<>> /\ DOMAIN <<event>> = {1} /\ <<event>>[1] = event
          /\ Len(<<event>>) = 1
      OBVIOUS
    <2>2. PICK es : es = <<event>>
      OBVIOUS
    <2>3. log' = [log EXCEPT ![ThreadOf[r]] = @ \o es] /\ WriterReplaced(r, v)
      BY <1>9, <1>10, <1>12, <2>2
    <2>4. Adds(r, g, s, es, v)
      BY <1>2, <1>4, <1>7, <1>11, <1>12, <2>1, <2>2, <2>3 DEF Adds
    <2> QED
      BY <2>2, <2>4
  <1> QED
    BY <1>13

\* A writer that nobody renews is removed, or retired with what it committed.
Retired(w) == [w EXCEPT !.active = FALSE, !.event_reserve = 0, !.byte_reserve = 0]

Retires(r) == Exists(r) /\ WriterReplaced(r, Retired(writers[r])) /\ UNCHANGED log

Removes(r) ==
  /\ Exists(r) /\ writers[r].committed_events = 0
  /\ WriterReplaced(r, NoWriter) /\ UNCHANGED log

\* A thread loses its generation.
Drops(t) ==
  /\ generation[t] # 0
  /\ Dropped(t) /\ UNCHANGED created
  /\ writers' \in [Runs -> Writer]
  /\ \A q \in Runs :
       IF ThreadOf[q] = t THEN writers'[q].owner = Nobody /\ ~writers'[q].active
       ELSE writers'[q] = writers[q]

\* A Run that has no writer.
LEMMA NoWriterSound == NoWriter \in Writer /\ HasRoom(NoWriter) /\ ~NoWriter.active
  BY DEF NoWriter, Writer, HasRoom

\* A writer that was closed keeps what it committed.
LEMMA RetiredSound ==
  ASSUME NEW v \in Writer
  PROVE  /\ Retired(v) \in Writer /\ HasRoom(Retired(v)) /\ ~Retired(v).active
         /\ Retired(v).owner = v.owner
         /\ Retired(v).committed_events = v.committed_events
         /\ Retired(v).terminal_committed = v.terminal_committed
         /\ Retired(v).closed_committed = v.closed_committed
  BY DEF Retired, Writer, HasRoom

\* close_writer of a Run that does not take its generation with it.
LEMMA CloseLedger ==
  ASSUME LedgerSound, NEW r \in Runs, Retires(r) \/ Removes(r)
  PROVE  LedgerSound'
  <1>1. writers[r] \in Writer /\ generation[ThreadOf[r]] # 0
    BY WriterOwned DEF Retires, Removes
  <1>2. CASE Retires(r)
    BY <1>1, <1>2, RetiredSound, LedgerKeepsLog DEF Retires
  <1>3. CASE Removes(r)
    BY <1>1, <1>3, NoWriterSound, LedgerKeepsLog DEF Removes
  <1> QED
    BY <1>2, <1>3

\* A generation that is dropped with its log, writers and checkpoints.
LEMMA DropsLedger ==
  ASSUME LedgerSound, NEW t \in Threads, Drops(t)
  PROVE  LedgerSound'
  BY LedgerDrops DEF Drops

\* close_writer.
LEMMA CloseWriterEnds ==
  ASSUME LedgerSound, NEW r \in Runs, NEW g, NEW s \in Tokens, NEW f,
         CloseWriter(r, g, s, f)
  PROVE  Retires(r) \/ Removes(r) \/ Drops(ThreadOf[r])
  <1> DEFINE t == ThreadOf[r]
  <1>1. /\ writers[r] \in Writer /\ writers \in [Runs -> Writer] /\ Exists(r)
        /\ generation[t] # 0
    BY WriterOwned DEF LedgerSound, LedgerTypes, CloseWriter, Holds
  <1> DEFINE dropped == LastSeq(t) = 0 /\ Cardinality({q \in RunsOf(t) : Exists(q)}) = 1
  <1>2. CASE writers[r].committed_events # 0
    <2>1. writers' = [writers EXCEPT ![r] = Retired(writers[r])]
      BY <1>1, <1>2 DEF CloseWriter, Retired, Writer
    <2> QED
      BY <1>1, <1>2, <2>1 DEF CloseWriter, Retires, WriterReplaced
  <1>3. CASE writers[r].committed_events = 0 /\ ~dropped
    BY <1>1, <1>3 DEF CloseWriter, Removes, WriterReplaced
  <1>4. CASE writers[r].committed_events = 0 /\ dropped
    <2> DEFINE E == {q \in RunsOf(t) : Exists(q)}
    <2>1. Dropped(t) /\ UNCHANGED created /\ writers' = [writers EXCEPT ![r] = NoWriter]
      BY <1>4 DEF CloseWriter
    <2>2. E \in SUBSET Runs
      BY DEF RunsOf
    <2>3. IsFiniteSet(E)
      BY <2>2, LimitsAssumption, FS_Subset
    <2>4. Cardinality(E) = 1
      BY <1>4
    <2>5. r \in E
      BY <1>1 DEF RunsOf
    <2> HIDE DEF E
    <2>6. PICK x : E = {x}
      BY <2>3, <2>4, FS_Singleton
    <2>7. E = {r}
      BY <2>5, <2>6
    <2>8. ASSUME NEW q \in Runs, ThreadOf[q] = t, q # r PROVE ~Exists(q)
      BY <2>7, <2>8 DEF E, RunsOf
    <2>9. writers' \in [Runs -> Writer]
      BY <1>1, <2>1, NoWriterSound
    <2>10. ASSUME NEW q \in Runs
           PROVE  IF ThreadOf[q] = t THEN writers'[q].owner = Nobody /\ ~writers'[q].active
                  ELSE writers'[q] = writers[q]
      <3>1. CASE q = r
        BY <1>1, <2>1, <3>1, NoWriterSound DEF NoWriter
      <3>2. CASE q # r
        <4>1. writers'[q] = writers[q]
          BY <1>1, <2>1, <3>2
        <4>2. writers[q].active => Exists(q)
          BY WriterOwned
        <4> QED
          BY <2>8, <3>2, <4>1, <4>2 DEF Exists
      <3> QED
        BY <3>1, <3>2
    <2> QED
      BY <1>1, <2>1, <2>9, <2>10 DEF Drops
  <1> QED
    BY <1>2, <1>3, <1>4

\* delete_generation.
LEMMA DeleteDrops ==
  ASSUME LedgerSound, NEW t \in Threads, NEW g, DeleteGeneration(t, g)
  PROVE  Drops(t)
  <1>1. writers \in [Runs -> Writer]
    BY DEF LedgerSound, LedgerTypes
  <1>2. writers' = [r \in Runs |-> IF r \in RunsOf(t) THEN NoWriter ELSE writers[r]]
    BY DEF DeleteGeneration
  <1>3. writers' \in [Runs -> Writer]
    BY <1>1, <1>2, NoWriterSound
  <1>4. ASSUME NEW q \in Runs
        PROVE  IF ThreadOf[q] = t THEN writers'[q].owner = Nobody /\ ~writers'[q].active
               ELSE writers'[q] = writers[q]
    BY <1>2, NoWriterSound DEF RunsOf, NoWriter
  <1> QED
    BY <1>3, <1>4 DEF Drops, DeleteGeneration

\* save_projection_checkpoint of a prefix that is not empty.
LEMMA SaveLedger ==
  ASSUME LedgerSound, NEW t \in Threads, NEW g \in Nat, NEW as_of \in Nat, as_of > 0,
         SaveCheckpoint(t, g, as_of)
  PROVE  LedgerSound'
  <1> DEFINE c == [of |-> g, as_of |-> as_of]
  <1>1. c \in Checkpoint
    BY DEF Checkpoint
  <1>2. checkpoints' = [checkpoints EXCEPT ![t] = @ \cup {c}]
    BY DEF SaveCheckpoint
  <1>3. g = generation[t] /\ as_of <= LastSeq(t) /\ LastSeq(t) \in Nat
    BY DEF SaveCheckpoint, LedgerSound, LedgerTypes, LastSeq
  <1>4. c.of = generation[t] /\ c.as_of \in 1 .. LastSeq(t)
    BY <1>3
  <1> HIDE DEF c
  <1>5. LedgerTypes'
    BY <1>1, <1>2 DEF LedgerSound, LedgerTypes, SaveCheckpoint
  <1>6. ASSUME NEW u \in Threads, NEW d, d \in checkpoints'[u]
        PROVE  d.of = generation[u] /\ d.as_of \in 1 .. LastSeq(u)
    <2>1. d \in checkpoints[u] \/ (u = t /\ d = c)
      <3>1. checkpoints \in [Threads -> SUBSET Checkpoint]
        BY DEF LedgerSound, LedgerTypes
      <3>2. checkpoints'[u] = IF u = t THEN checkpoints[t] \cup {c} ELSE checkpoints[u]
        BY <1>2, <3>1
      <3> QED
        BY <1>6, <3>2
    <2>2. CASE d \in checkpoints[u]
      BY <2>2 DEF LedgerSound, CheckpointsSound
    <2>3. CASE u = t /\ d = c
      BY <1>4, <2>3
    <2> QED
      BY <2>1, <2>2, <2>3
  <1>7. CheckpointsSound'
    BY <1>6 DEF CheckpointsSound, SaveCheckpoint, LastSeq
  <1>8. \A u \in Threads : ThreadSound(u)'
    BY DEF LedgerSound, ThreadSound, SaveCheckpoint
  <1>9. (\A r \in Runs : WriterSound(r)') /\ EndsHaveRoom'
    BY DEF LedgerSound, WriterSound, Exists, EndsHaveRoom, SaveCheckpoint
  <1> QED
    BY <1>5, <1>7, <1>8, <1>9 DEF LedgerSound

-----------------------------------------------------------------------------
(***************************************************************************)
(* What a step does to the logs.                                           *)
(***************************************************************************)

\* A session that has begun keeps its Run and its generation.
Keeping ==
  \A s \in Tokens : Begun(s) =>
    session'[s].run = session[s].run /\ session'[s].generation = session[s].generation

\* A Run that has events keeps what its writer remembers of them, and is handed
\* to a session that begins.
RunKept(r) ==
  Exists(r) /\ writers[r].committed_events > 0 =>
    /\ Exists(r)'
    /\ writers'[r].committed_events = writers[r].committed_events
    /\ writers'[r].terminal_committed = writers[r].terminal_committed
    /\ writers'[r].closed_committed = writers[r].closed_committed
    /\ \/ writers'[r].owner = writers[r].owner
       \/ writers'[r].owner \in Tokens /\ ~Begun(writers'[r].owner)

\* What an event says of its Run and of its session.
LEMMA EventFacts ==
  ASSUME LedgerSound, SessionsSound, LogSound, NEW t \in Threads, NEW k \in DOMAIN log[t]
  PROVE  /\ log[t] \in Seq(Event) /\ k \in 1 .. LastSeq(t) /\ LastSeq(t) \in Nat
         /\ log[t][k] \in Event
         /\ EventSound(t, k) /\ FactOrdered(t, k)
         /\ generation[t] # 0
         /\ log[t][k].id[1] \in Tokens /\ log[t][k].id[2] \in Nat
         /\ log[t][k].run \in Runs
         /\ Begun(log[t][k].id[1])
  <1>1. log[t] \in Seq(Event) /\ k \in 1 .. LastSeq(t) /\ LastSeq(t) \in Nat
    BY DEF LedgerSound, LedgerTypes, LastSeq
  <1>2. log[t][k] \in Event
    BY <1>1 DEF LastSeq
  <1>3. EventSound(t, k) /\ FactOrdered(t, k)
    BY DEF LogSound
  <1>4. generation[t] # 0
    <2>1. ThreadSound(t)
      BY DEF LedgerSound
    <2>2. log[t] # <<>>
      BY <1>1 DEF LastSeq
    <2> QED
      BY <2>1, <2>2 DEF ThreadSound
  <1>5. /\ log[t][k].id[1] \in Tokens /\ log[t][k].id[2] \in Nat /\ log[t][k].run \in Runs
    BY <1>2 DEF Event
  <1>6. Begun(log[t][k].id[1])
    BY <1>3, <1>4 DEF EventSound, Begun
  <1> QED
    BY <1>1, <1>2, <1>3, <1>4, <1>5, <1>6

\* A log that stays as it is, or is emptied.
LogStays(t) ==
  log'[t] = <<>> \/ (log'[t] = log[t] /\ generation'[t] = generation[t])

\* A step that appends nothing keeps the logs sound.
LEMMA LogRests ==
  ASSUME LedgerSound, SessionsSound, LogSound, Keeping,
         \A t \in Threads : LogStays(t),
         \A r \in Runs : log'[ThreadOf[r]] # <<>> => RunKept(r)
  PROVE  LogSound'
  <1>1. ASSUME NEW t \in Threads, NEW k, k \in DOMAIN log'[t]
        PROVE  /\ log'[t] # <<>> /\ log'[t] = log[t] /\ generation'[t] = generation[t]
               /\ k \in DOMAIN log[t]
    BY <1>1 DEF LogStays
  <1>2. ASSUME NEW t \in Threads, NEW k, k \in DOMAIN log'[t] PROVE EventSound(t, k)'
    <2>1. /\ log'[t] # <<>> /\ log'[t] = log[t] /\ generation'[t] = generation[t]
          /\ k \in DOMAIN log[t]
      BY <1>1, <1>2
    <2>2. PICK e \in Event, s \in Tokens, r \in Runs :
            e = log[t][k] /\ s = e.id[1] /\ r = e.run
      BY <2>1, EventFacts
    <2>3. EventSound(t, k) /\ Begun(s)
      BY <2>1, <2>2, EventFacts
    <2>4. ThreadOf[r] = t /\ Exists(r) /\ writers[r].committed_events > 0
      BY <2>2, <2>3 DEF EventSound
    <2>5. RunKept(r) /\ writers'[r].committed_events > 0
      BY <2>1, <2>4 DEF RunKept
    <2>6. session'[s].run = r /\ session'[s].generation = generation'[t]
      BY <2>1, <2>2, <2>3 DEF EventSound, Keeping
    <2> QED
      BY <2>1, <2>2, <2>3, <2>4, <2>5, <2>6 DEF EventSound, RunKept
  <1>3. ASSUME NEW t \in Threads, NEW k, k \in DOMAIN log'[t] PROVE FactOrdered(t, k)'
    <2>1. log'[t] = log[t] /\ k \in DOMAIN log[t]
      BY <1>1, <1>3
    <2>2. FactOrdered(t, k)
      BY <2>1, EventFacts
    <2> QED
      BY <2>1, <2>2 DEF FactOrdered, Stored
  <1>4. ASSUME NEW r \in Runs PROVE OwnerIsLast(r)'
    <2> DEFINE t == ThreadOf[r]
    <2>1. t \in Threads
      BY LimitsAssumption
    <2>2. SUFFICES ASSUME NEW j, j \in DOMAIN log'[t], NEW k, k \in DOMAIN log'[t], j < k,
                          log'[t][j].run = r, log'[t][k].run = r,
                          log'[t][j].id[1] = writers'[r].owner
                   PROVE  log'[t][k].id[1] = writers'[r].owner
      BY Zenon DEF OwnerIsLast
    <2>3. log'[t] # <<>> /\ log'[t] = log[t] /\ j \in DOMAIN log[t] /\ k \in DOMAIN log[t]
      BY <1>1, <2>1, <2>2
    <2>4. EventSound(t, j) /\ Begun(log[t][j].id[1])
      BY <2>1, <2>3, EventFacts
    <2>5. Exists(r) /\ writers[r].committed_events > 0
      BY <2>2, <2>3, <2>4 DEF EventSound
    <2>6. writers'[r].owner = writers[r].owner
      BY <2>2, <2>3, <2>4, <2>5 DEF RunKept
    <2>7. OwnerIsLast(r)
      BY DEF LogSound
    <2> QED
      BY <2>2, <2>3, <2>6, <2>7 DEF OwnerIsLast
  <1>5. RunEndsOnce'
    <2>1. \A r \in Runs : ThreadOf[r] \in Threads
      BY LimitsAssumption
    <2>2. \A r \in Runs : log'[ThreadOf[r]] = <<>> \/ log'[ThreadOf[r]] = log[ThreadOf[r]]
      BY <2>1 DEF LogStays
    <2>3. RunEndsOnce
      BY DEF LogSound
    <2> QED
      BY <2>2, <2>3 DEF RunEndsOnce
  <1> QED
    BY <1>2, <1>3, <1>4, <1>5 DEF LogSound

\* The log of a thread is followed by a batch; l events come before it.
Joins(t, events, l) ==
  /\ log'[t] = log[t] \o events
  /\ log[t] \in Seq(Event) /\ l = Len(log[t])

\* Where the events of both are then.
Longer(t, events, l) ==
  /\ log'[t] \in Seq(Event) /\ Len(log'[t]) = l + Len(events)
  /\ \A k \in 1 .. l : log'[t][k] = log[t][k]
  /\ \A k \in 1 .. Len(events) : l + k \in Nat /\ log'[t][l + k] = events[k]
  /\ \A k \in DOMAIN log'[t] :
       (k \in 1 .. l /\ k \in DOMAIN log[t]) \/ \E i \in 1 .. Len(events) : k = l + i

\* The events of a log and of the batch that joined it, by their places.
LEMMA JoinedLog ==
  ASSUME NEW t, NEW events \in Seq(Event), NEW l \in Nat, Joins(t, events, l)
  PROVE  Longer(t, events, l)
  <1>1. log[t] \in Seq(Event) /\ l = Len(log[t]) /\ log'[t] = log[t] \o events
    BY DEF Joins
  <1>2. /\ log'[t] \in Seq(Event) /\ Len(log'[t]) = l + Len(events)
        /\ \A k \in 1 .. l : log'[t][k] = log[t][k]
        /\ \A k \in 1 .. Len(events) : log'[t][l + k] = events[k]
    BY <1>1, Joined
  <1>3. \A k \in 1 .. Len(events) : l + k \in Nat
    OBVIOUS
  <1>4. ASSUME NEW k, k \in DOMAIN log'[t], ~(k \in 1 .. l)
        PROVE  \E i \in 1 .. Len(events) : k = l + i
    <2>1. k \in 1 .. l + Len(events)
      BY <1>2, <1>4
    <2>2. k - l \in 1 .. Len(events) /\ k = l + (k - l)
      BY <1>4, <2>1
    <2> QED
      BY <2>2
  <1> QED
    BY <1>1, <1>2, <1>3, <1>4 DEF Longer

\* What is stored in the log stays stored there.
LEMMA StoredStays ==
  ASSUME NEW t, NEW events \in Seq(Event), NEW l \in Nat, Joins(t, events, l),
         NEW s, NEW n, NEW last \in Nat, last <= l
  PROVE  Stored(t, s, n, last)' <=> Stored(t, s, n, last)
  <1>1. Longer(t, events, l)
    BY JoinedLog
  <1>2. \A k \in 1 .. last : log'[t][k] = log[t][k]
    BY <1>1 DEF Longer
  <1> QED
    BY <1>2 DEF Stored

\* A fact of a prefix is in every longer one.
LEMMA StoredLonger ==
  ASSUME NEW t, NEW s, NEW n, NEW last \in Nat, NEW l \in Nat, l <= last, Stored(t, s, n, l)
  PROVE  Stored(t, s, n, last)
  <1>1. \A k \in 1 .. l : k \in 1 .. last
    OBVIOUS
  <1> QED
    BY <1>1 DEF Stored

\* It is there after an append as well.
LEMMA StoredStaysLonger ==
  ASSUME NEW t, NEW events \in Seq(Event), NEW l \in Nat, Joins(t, events, l),
         NEW s, NEW n, NEW last \in Nat, l <= last, Stored(t, s, n, l)
  PROVE  Stored(t, s, n, last)'
  <1>1. PICK k \in 1 .. l : log[t][k].id = <<s, n>> /\ log[t][k].phase = "fact"
    BY DEF Stored
  <1>2. Longer(t, events, l)
    BY JoinedLog
  <1>3. k \in 1 .. last /\ log'[t][k] = log[t][k]
    BY <1>2 DEF Longer
  <1> QED
    BY <1>1, <1>3 DEF Stored

\* ... and what comes after is stored after it.
LEMMA StoredAfter ==
  ASSUME NEW t, NEW events \in Seq(Event), NEW l \in Nat, Joins(t, events, l),
         NEW s, NEW n, NEW last \in Nat, NEW k \in 1 .. Len(events), l + k <= last,
         events[k].id = <<s, n>>, events[k].phase = "fact"
  PROVE  Stored(t, s, n, last)'
  <1>1. Longer(t, events, l)
    BY JoinedLog
  <1>2. l + k \in 1 .. last /\ log'[t][l + k] = events[k]
    BY <1>1 DEF Longer
  <1> QED
    BY <1>2 DEF Stored

HasWithin(events, l, s, n, last) ==
  \E k \in 1 .. Len(events) :
    l + k <= last /\ events[k].id = <<s, n>> /\ events[k].phase = "fact"

\* A fact that an append brought is in the batch.
LEMMA StoredWhere ==
  ASSUME NEW t, NEW events \in Seq(Event), NEW l \in Nat, Joins(t, events, l),
         NEW s, NEW n, NEW last \in Nat, last <= l + Len(events), Stored(t, s, n, last)',
         ~Stored(t, s, n, l)
  PROVE  HasWithin(events, l, s, n, last)
  <1>1. PICK j \in 1 .. last : log'[t][j].id = <<s, n>> /\ log'[t][j].phase = "fact"
    BY DEF Stored
  <1>2. ~(j \in 1 .. l)
    <2>1. Longer(t, events, l)
      BY JoinedLog
    <2>2. \A k \in 1 .. l : log'[t][k] = log[t][k]
      BY <2>1 DEF Longer
    <2> QED
      BY <1>1, <2>2 DEF Stored
  <1>3. j \in DOMAIN log'[t]
    <2>1. Longer(t, events, l)
      BY JoinedLog
    <2>2. log'[t] \in Seq(Event) /\ Len(log'[t]) = l + Len(events) /\ Len(events) \in Nat
      BY <2>1 DEF Longer
    <2> QED
      BY <2>2
  <1>4. Longer(t, events, l)
    BY JoinedLog
  <1>5. PICK i \in 1 .. Len(events) : j = l + i
    BY <1>2, <1>3, <1>4 DEF Longer
  <1>6. log'[t][l + i] = events[i]
    BY <1>4 DEF Longer
  <1> QED
    BY <1>1, <1>5, <1>6 DEF HasWithin

\* The events are facts that follow those of a session in the log.
Follows(t, s, events, m) ==
  /\ m > 0 => Stored(t, s, m, LastSeq(t))
  /\ \A k \in DOMAIN events :
       events[k].id = <<s, m + k>> /\ events[k].phase = "fact"
       /\ ~Stored(t, s, m + k, LastSeq(t))

\* A batch that follows leaves the facts in order.
LEMMA FollowsInOrder ==
  ASSUME NEW t \in Threads, NEW s \in Tokens, NEW events \in Seq(Event),
         NEW l \in Nat, Joins(t, events, l),
         NEW m \in Nat, Follows(t, s, events, m), NEW i \in 1 .. Len(events)
  PROVE  FactOrdered(t, l + i)'
  <1>1. /\ LastSeq(t) = l /\ Len(events) \in Nat /\ DOMAIN events = 1 .. Len(events)
        /\ i \in Nat /\ i >= 1 /\ i <= Len(events)
    BY DEF Joins, LastSeq
  <1>2. log'[t][l + i] = events[i]
    BY JoinedLog DEF Longer
  <1>3. PICK n \in Nat : n = m + i
    OBVIOUS
  <1>4. PICK p \in Nat : p = l + i - 1
    BY <1>1
  <1>5. events[i].id = <<s, n>> /\ ~Stored(t, s, n, l)
    BY <1>1, <1>3 DEF Follows
  <1>6. ~Stored(t, s, n, p)'
    <2> SUFFICES ASSUME Stored(t, s, n, p)' PROVE FALSE
      OBVIOUS
    <2>1. p <= l + Len(events)
      BY <1>1, <1>4
    <2>2. PICK k \in 1 .. Len(events) :
            l + k <= p /\ events[k].id = <<s, n>> /\ events[k].phase = "fact"
      <3>1. HasWithin(events, l, s, n, p)
        BY <1>5, <2>1, StoredWhere
      <3> QED
        BY <3>1 DEF HasWithin
    <2>3. events[k].id = <<s, m + k>>
      BY <1>1 DEF Follows
    <2>4. m + k = n
      BY <2>2, <2>3
    <2> QED
      BY <1>3, <1>4, <2>2, <2>4
  <1>7. ASSUME n > 1 PROVE Stored(t, s, n - 1, p)'
    <2>1. PICK o \in Nat : o = n - 1
      BY <1>7
    <2>2. CASE i = 1
      <3>1. o = m /\ m > 0 /\ p = l
        BY <1>3, <1>4, <1>7, <2>1, <2>2
      <3>2. Stored(t, s, o, l)
        BY <1>1, <3>1 DEF Follows
      <3>3. Stored(t, s, o, p)'
        BY <3>1, <3>2, StoredStaysLonger
      <3> QED
        BY <2>1, <3>3
    <2>3. CASE i > 1
      <3>1. PICK k \in 1 .. Len(events) : k = i - 1
        BY <1>1, <2>3
      <3>2. m + k = o /\ l + k <= p
        BY <1>3, <1>4, <2>1, <3>1
      <3>3. events[k].id = <<s, m + k>> /\ events[k].phase = "fact"
        BY <1>1 DEF Follows
      <3>4. Stored(t, s, o, p)'
        BY <3>2, <3>3, StoredAfter
      <3> QED
        BY <2>1, <3>4
    <2> QED
      BY <1>1, <2>2, <2>3
  <1>8. PICK k \in Nat : k = l + i /\ k - 1 = p
    BY <1>1, <1>4
  <1>9. log'[t][k].id[1] = s /\ log'[t][k].id[2] = n
    BY <1>2, <1>5, <1>8
  <1>10. FactOrdered(t, k)'
    BY <1>4, <1>6, <1>7, <1>8, <1>9 DEF FactOrdered
  <1> QED
    BY <1>8, <1>10

\* What an append does, for those who look at a thread's events.
Appends(r, s, events, w, l) ==
  /\ Joins(ThreadOf[r], events, l) /\ LastSeq(ThreadOf[r]) = l
  /\ DOMAIN events = 1 .. Len(events) /\ Len(events) \in Nat
  /\ \A u \in Threads : u # ThreadOf[r] => log'[u] = log[u]
  /\ \A u \in Threads : generation'[u] = generation[u]
  /\ \A q \in Runs : writers'[q] = IF q = r THEN w ELSE writers[q]

\* The owner's append, by its effect on each thread and writer.
LEMMA AddsAppends ==
  ASSUME LedgerSound, NEW r \in Runs, NEW g, NEW s \in Tokens, NEW events \in Seq(Event),
         NEW w, Adds(r, g, s, events, w)
  PROVE  \E l \in Nat : Appends(r, s, events, w, l)
  <1> DEFINE t == ThreadOf[r]
  <1>1. /\ t \in Threads /\ log \in [Threads -> Seq(Event)]
        /\ writers \in [Runs -> Writer]
    BY LimitsAssumption DEF LedgerSound, LedgerTypes
  <1>2. PICK l \in Nat : l = Len(log[t])
    BY <1>1
  <1>3. log' = [log EXCEPT ![t] = log[t] \o events]
    BY DEF Adds
  <1> HIDE DEF t
  <1>4. Joins(t, events, l) /\ LastSeq(t) = l
    BY <1>1, <1>2, <1>3 DEF Joins, LastSeq
  <1>5. \A u \in Threads : u # t => log'[u] = log[u]
    BY <1>1, <1>3
  <1>6. DOMAIN events = 1 .. Len(events) /\ Len(events) \in Nat
    OBVIOUS
  <1>7. \A q \in Runs : writers'[q] = IF q = r THEN w ELSE writers[q]
    BY <1>1 DEF Adds, WriterReplaced
  <1>8. \A u \in Threads : generation'[u] = generation[u]
    BY DEF Adds, WriterReplaced
  <1> QED
    BY <1>4, <1>5, <1>6, <1>7, <1>8 DEF Appends, t

\* Events that were there, or are among those appended.
OldAt(t, l, k) == k \in 1 .. l /\ k \in DOMAIN log[t] /\ log'[t][k] = log[t][k]
NewAt(t, events, l, k) ==
  \E i \in 1 .. Len(events) : k = l + i /\ log'[t][k] = events[i]

\* An event of the longer log was there, or is of the batch.
LEMMA OldOrNew ==
  ASSUME NEW r \in Runs, NEW s, NEW events \in Seq(Event), NEW w, NEW l \in Nat,
         Appends(r, s, events, w, l), NEW k, k \in DOMAIN log'[ThreadOf[r]]
  PROVE  OldAt(ThreadOf[r], l, k) \/ NewAt(ThreadOf[r], events, l, k)
  <1>1. Longer(ThreadOf[r], events, l)
    BY JoinedLog DEF Appends
  <1> QED
    BY <1>1 DEF Longer, OldAt, NewAt

\* What was sound is sound when more is appended.
LEMMA OldEventSound ==
  ASSUME LedgerSound, SessionsSound, LogSound, Keeping,
         NEW r \in Runs, NEW g, NEW s \in Tokens, NEW events \in Seq(Event), NEW w,
         NEW l \in Nat, Adds(r, g, s, events, w), Appends(r, s, events, w, l),
         NEW t \in Threads, NEW k, k \in DOMAIN log[t], log'[t][k] = log[t][k]
  PROVE  EventSound(t, k)'
  <1>1. PICK e \in Event, o \in Tokens, q \in Runs :
          e = log[t][k] /\ o = e.id[1] /\ q = e.run
    BY EventFacts
  <1>2. EventSound(t, k) /\ Begun(o)
    BY <1>1, EventFacts
  <1>3. session'[o].run = q /\ session'[o].generation = generation'[t]
    BY <1>1, <1>2 DEF EventSound, Keeping, Appends
  <1>4. ThreadOf[q] = t /\ Exists(q) /\ writers[q].committed_events > 0
    BY <1>1, <1>2 DEF EventSound
  <1>5. CASE q # r
    <2>1. writers'[q] = writers[q]
      BY <1>5 DEF Appends
    <2> QED
      BY <1>1, <1>2, <1>3, <2>1 DEF EventSound, Exists
  <1>6. CASE q = r
    <2>1. writers'[q] = w
      BY <1>6 DEF Appends
    <2>2. /\ w.owner # Nobody /\ w.committed_events > 0 /\ ~writers[q].closed_committed
          /\ writers[q].terminal_committed => w.terminal_committed
      BY <1>6, LimitsAssumption DEF Adds
    <2>3. e.phase # "closed"
      BY <1>1, <1>2, <2>2 DEF EventSound
    <2>4. e.phase # "fact" => w.terminal_committed
      BY <1>1, <1>2, <2>2 DEF EventSound
    <2>5. e.phase = "fact" <=> e.id[2] \in 1 .. MaxFacts[o]
      BY <1>1, <1>2 DEF EventSound
    <2> QED
      BY <1>1, <1>3, <1>4, <2>1, <2>2, <2>3, <2>4, <2>5 DEF EventSound, Exists
  <1> QED
    BY <1>5, <1>6

\* What a session of the Run appends is sound.
LEMMA NewEventSound ==
  ASSUME LedgerSound, Keeping,
         NEW r \in Runs, NEW g, NEW s \in Tokens, NEW events \in Seq(Event), NEW w,
         NEW l \in Nat, Adds(r, g, s, events, w), Appends(r, s, events, w, l),
         session[s].run = r, session[s].generation = g,
         NEW i \in 1 .. Len(events),
         events[i].phase = "fact" <=> events[i].id[2] \in 1 .. MaxFacts[s]
  PROVE  EventSound(ThreadOf[r], l + i)'
  <1> DEFINE t == ThreadOf[r]
  <1>1. log'[t][l + i] = events[i]
    <2>1. Joins(t, events, l)
      BY DEF Appends
    <2>2. Longer(t, events, l)
      BY <2>1, JoinedLog
    <2> QED
      BY <2>2 DEF Longer
  <1>2. events[i].run = r /\ events[i].id[1] = s
    BY DEF Adds, Appends
  <1>3. t \in Threads /\ generation[t] = g /\ g # 0
    BY WriterOwned DEF Adds
  <1>4. session'[s].run = r /\ session'[s].generation = generation'[t]
    BY <1>3 DEF Keeping, Begun, Appends
  <1>5. writers'[r] = w
    BY DEF Appends
  <1>6. /\ w.owner # Nobody /\ w.committed_events > 0
        /\ events[i].phase # "fact" => w.terminal_committed
        /\ events[i].phase = "closed" => w.closed_committed
    BY LimitsAssumption DEF Adds, Appends
  <1> QED
    BY <1>1, <1>2, <1>4, <1>5, <1>6 DEF EventSound, Exists

\* The Run's events end with its owner's.
LEMMA OwnerStaysLast ==
  ASSUME LedgerSound, SessionsSound, LogSound,
         NEW r \in Runs, NEW g, NEW s \in Tokens, NEW events \in Seq(Event), NEW w,
         NEW l \in Nat, Adds(r, g, s, events, w), Appends(r, s, events, w, l),
         NEW q \in Runs
  PROVE  OwnerIsLast(q)'
  <1> DEFINE u == ThreadOf[q]
             t == ThreadOf[r]
  <1>1. u \in Threads /\ t \in Threads /\ OwnerIsLast(q)
    BY LimitsAssumption DEF LogSound
  <1>2. /\ \A i \in 1 .. Len(events) : events[i].run = r /\ events[i].id[1] = s
        /\ w.owner = s /\ writers[r].owner = s
    BY DEF Adds, Appends
  <1>3. writers'[q] = IF q = r THEN w ELSE writers[q]
    BY DEF Appends
  <1>4. writers'[q].owner = writers[q].owner
    BY <1>2, <1>3
  <1> SUFFICES ASSUME NEW j, j \in DOMAIN log'[u], NEW k, k \in DOMAIN log'[u], j < k,
                      log'[u][j].run = q, log'[u][k].run = q,
                      log'[u][j].id[1] = writers'[q].owner
               PROVE  log'[u][k].id[1] = writers'[q].owner
    BY Zenon DEF OwnerIsLast
  <1>5. CASE u # t
    <2>1. log'[u] = log[u]
      BY <1>1, <1>5 DEF Appends
    <2> QED
      BY <1>1, <1>4, <2>1 DEF OwnerIsLast
  <1>6. CASE u = t
    <2>1. \A i \in DOMAIN log'[t] : OldAt(t, l, i) \/ NewAt(t, events, l, i)
      BY OldOrNew
    <2>2. CASE OldAt(t, l, k)
      <3>1. OldAt(t, l, j)
        BY <1>6, <2>1, <2>2 DEF OldAt, NewAt
      <3> QED
        BY <1>1, <1>4, <1>6, <2>2, <3>1 DEF OwnerIsLast, OldAt
    <2>3. CASE NewAt(t, events, l, k)
      BY <1>2, <1>4, <1>6, <2>3 DEF NewAt
    <2> QED
      BY <1>6, <2>1, <2>2, <2>3
  <1> QED
    BY <1>5, <1>6

\* What RunEndsOnce says of two events of a Run.
EndsAt(e, r, j, k) ==
  /\ e[j].phase # "closed"
  /\ e[j].phase = "terminal" => e[k].phase = "closed"
  /\ e[k].id[1] = e[j].id[1] =>
       \A i \in j .. k : e[i].run = r => e[i].id[1] = e[j].id[1]

\* RunEndsOnce at two events of a Run.
LEMMA RunEndsAt ==
  ASSUME RunEndsOnce, NEW r \in Runs, NEW e, e = log[ThreadOf[r]],
         NEW j \in DOMAIN e, NEW k \in DOMAIN e, j < k, e[j].run = r, e[k].run = r
  PROVE  EndsAt(e, r, j, k)
  BY Zenon DEF RunEndsOnce, EndsAt

\* A Run that has not ended goes on, or ends.
LEMMA RunStillEndsOnce ==
  ASSUME LedgerSound, SessionsSound, LogSound,
         NEW r \in Runs, NEW g, NEW s \in Tokens, NEW events \in Seq(Event), NEW w,
         NEW l \in Nat, Adds(r, g, s, events, w), Appends(r, s, events, w, l)
  PROVE  RunEndsOnce'
  <1> SUFFICES ASSUME NEW q \in Runs,
                      NEW j, j \in DOMAIN log'[ThreadOf[q]],
                      NEW k, k \in DOMAIN log'[ThreadOf[q]], j < k,
                      log'[ThreadOf[q]][j].run = q, log'[ThreadOf[q]][k].run = q
               PROVE  LET e == log'[ThreadOf[q]] IN
                      /\ e[j].phase # "closed"
                      /\ e[j].phase = "terminal" => e[k].phase = "closed"
                      /\ e[k].id[1] = e[j].id[1] =>
                           \A i \in j .. k : e[i].run = q => e[i].id[1] = e[j].id[1]
    BY DEF RunEndsOnce
  <1> DEFINE u == ThreadOf[q]
             t == ThreadOf[r]
             e == log'[u]
  <1>1. u \in Threads /\ t \in Threads /\ RunEndsOnce /\ OwnerIsLast(r)
    BY LimitsAssumption DEF LogSound
  <1>2. CASE u # t
    <2>1. log'[u] = log[u]
      BY <1>1, <1>2 DEF Appends
    <2> QED
      BY <1>1, <2>1 DEF RunEndsOnce
  <1>3. CASE u = t
    <2>1. \A i \in DOMAIN log'[t] : OldAt(t, l, i) \/ NewAt(t, events, l, i)
      BY OldOrNew
    <2>2. /\ \A n \in 1 .. Len(events) : events[n].run = r /\ events[n].id[1] = s
          /\ writers[r].owner = s /\ ~writers[r].closed_committed
      BY DEF Adds, Appends
    <2>3. /\ DOMAIN log'[t] = 1 .. l + Len(events) /\ Len(events) \in Nat
          /\ j \in Nat /\ k \in Nat /\ j >= 1 /\ k <= l + Len(events)
      <3>1. Joins(t, events, l)
        BY DEF Appends
      <3>2. Longer(t, events, l)
        BY <3>1, JoinedLog
      <3>3. DOMAIN log'[t] = 1 .. l + Len(events) /\ Len(events) \in Nat
        BY <3>2 DEF Longer
      <3> QED
        BY <1>3, <3>3
    <2>4. ASSUME NEW i \in j .. k PROVE i \in DOMAIN log'[t] /\ i \in Nat
      BY <2>3
    <2>5. CASE OldAt(t, l, k)
      <3>1. ASSUME NEW i \in j .. k PROVE OldAt(t, l, i)
        <4>1. i <= l
          BY <2>3, <2>5 DEF OldAt
        <4>2. ~NewAt(t, events, l, i)
          BY <2>4, <4>1 DEF NewAt
        <4> QED
          BY <2>1, <2>4, <4>2
      <3>2. /\ j \in DOMAIN log[t] /\ k \in DOMAIN log[t]
            /\ \A i \in j .. k : log'[t][i] = log[t][i]
        BY <2>3, <3>1 DEF OldAt
      <3>3. j \in j .. k /\ k \in j .. k
        BY <2>3
      <3>4. PICK o : o = log[t]
        OBVIOUS
      <3>5. PICK n : n = log'[t]
        OBVIOUS
      <3>6. \A i \in j .. k : o[i] = n[i]
        BY <3>2, <3>4, <3>5
      <3>7. /\ j \in DOMAIN o /\ k \in DOMAIN o /\ j < k
            /\ o[j].run = q /\ o[k].run = q
        BY <1>3, <3>2, <3>3, <3>4, <3>5, <3>6
      <3>8. EndsAt(o, q, j, k)
        BY <1>1, <1>3, <3>4, <3>7, RunEndsAt
      <3>9. EndsAt(n, q, j, k)
        BY <3>3, <3>6, <3>8 DEF EndsAt
      <3> QED
        BY <1>3, <3>5, <3>9 DEF EndsAt
    <2>6. CASE NewAt(t, events, l, k)
      <3>1. PICK n \in 1 .. Len(events) : k = l + n /\ log'[t][k] = events[n]
        BY <2>6 DEF NewAt
      <3>2. q = r /\ e[k].id[1] = s
        BY <1>3, <2>2, <3>1
      <3>3. CASE OldAt(t, l, j)
        <4>1. j \in DOMAIN log[t] /\ log'[t][j] = log[t][j] /\ log[t][j].run = r
          BY <1>3, <3>2, <3>3 DEF OldAt
        <4>2. EventSound(t, j)
          BY <1>1, <4>1, EventFacts
        <4>3. e[j].phase # "closed"
          BY <1>3, <2>2, <4>1, <4>2 DEF EventSound
        <4>4. e[j].phase = "terminal" => e[k].phase = "closed"
          <5>1. e[j].phase = "terminal" => writers[r].terminal_committed
            BY <1>3, <4>1, <4>2 DEF EventSound
          <5>2. writers[r].terminal_committed => events[n].phase = "closed"
            BY DEF Adds, Appends
          <5> QED
            BY <1>3, <3>1, <5>1, <5>2
        <4>5. ASSUME e[k].id[1] = e[j].id[1], NEW i \in j .. k, e[i].run = q
              PROVE  e[i].id[1] = e[j].id[1]
          <5>1. log[t][j].id[1] = s /\ e[j].id[1] = s
            BY <1>3, <3>2, <4>1, <4>5
          <5>2. i \in DOMAIN log'[t] /\ i \in Nat
            BY <2>4
          <5>3. CASE OldAt(t, l, i)
            <6>1. i \in DOMAIN log[t] /\ log'[t][i] = log[t][i] /\ log[t][i].run = r
              BY <1>3, <3>2, <4>5, <5>3 DEF OldAt
            <6>2. i = j \/ j < i
              BY <2>3, <5>2
            <6>3. i = j \/ log[t][i].id[1] = s
              BY <1>1, <2>2, <4>1, <5>1, <6>1, <6>2 DEF OwnerIsLast
            <6> QED
              BY <1>3, <5>1, <6>1, <6>3
          <5>4. CASE NewAt(t, events, l, i)
            BY <1>3, <2>2, <5>1, <5>4 DEF NewAt
          <5> QED
            BY <2>1, <5>2, <5>3, <5>4
        <4> QED
          BY <4>3, <4>4, <4>5
      <3>4. CASE NewAt(t, events, l, j)
        <4>1. PICK m \in 1 .. Len(events) : j = l + m /\ log'[t][j] = events[m]
          BY <3>4 DEF NewAt
        <4>2. Len(events) # 1
          BY <3>1, <4>1
        <4>3. events[m].phase = "fact"
          BY <4>2 DEF Adds, Appends
        <4>4. ASSUME NEW i \in j .. k PROVE e[i].id[1] = s
          <5>1. i \in DOMAIN log'[t] /\ ~(i \in 1 .. l)
            BY <2>4, <4>1
          <5>2. NewAt(t, events, l, i)
            BY <2>1, <5>1 DEF OldAt
          <5> QED
            BY <1>3, <2>2, <5>2 DEF NewAt
        <4> QED
          BY <1>3, <2>2, <4>1, <4>3, <4>4
      <3> QED
        BY <1>3, <2>1, <3>3, <3>4
    <2> QED
      BY <1>3, <2>1, <2>5, <2>6
  <1> QED
    BY <1>2, <1>3

\* Facts in order stay in order when more is appended.
LEMMA OldFactOrdered ==
  ASSUME NEW t \in Threads, NEW events \in Seq(Event), NEW l \in Nat,
         Joins(t, events, l), NEW k \in 1 .. l, FactOrdered(t, k)
  PROVE  FactOrdered(t, k)'
  <1>1. Longer(t, events, l)
    BY JoinedLog
  <1>2. log'[t][k] = log[t][k]
    BY <1>1 DEF Longer
  <1>3. PICK s : s = log[t][k].id[1]
    OBVIOUS
  <1>4. PICK n : n = log[t][k].id[2]
    OBVIOUS
  <1>5. PICK last \in Nat : last = k - 1 /\ last <= l
    OBVIOUS
  <1>6. PICK m : m = n - 1
    OBVIOUS
  <1>7. Stored(t, s, n, last)' <=> Stored(t, s, n, last)
    BY <1>5, StoredStays
  <1>8. Stored(t, s, m, last)' <=> Stored(t, s, m, last)
    BY <1>5, StoredStays
  <1>9. log[t][k].phase = "fact" =>
          ~Stored(t, s, n, last) /\ (n > 1 => Stored(t, s, m, last))
    BY <1>3, <1>4, <1>5, <1>6 DEF FactOrdered
  <1>10. log[t][k].phase = "fact" =>
          ~Stored(t, s, n, last)' /\ (n > 1 => Stored(t, s, m, last)')
    BY <1>7, <1>8, <1>9
  <1> QED
    BY <1>2, <1>3, <1>4, <1>5, <1>6, <1>10 DEF FactOrdered

\* The owner of a Run appends what comes next.
LEMMA LogAdds ==
  ASSUME LedgerSound, SessionsSound, LogSound, Keeping,
         NEW r \in Runs, NEW g, NEW s \in Tokens, NEW events \in Seq(Event), NEW w,
         NEW l \in Nat, Adds(r, g, s, events, w), Appends(r, s, events, w, l),
         session[s].run = r, session[s].generation = g,
         \A i \in DOMAIN events :
           events[i].phase = "fact" <=> events[i].id[2] \in 1 .. MaxFacts[s],
         NEW m \in Nat,
         \/ \A i \in DOMAIN events : events[i].phase # "fact"
         \/ Follows(ThreadOf[r], s, events, m)
  PROVE  LogSound'
  <1> DEFINE t == ThreadOf[r]
  <1>1. t \in Threads
    BY LimitsAssumption
  <1>2. Joins(t, events, l) /\ DOMAIN events = 1 .. Len(events)
    BY DEF Appends
  <1>3. ASSUME NEW u \in Threads, NEW k, k \in DOMAIN log'[u]
        PROVE  EventSound(u, k)' /\ FactOrdered(u, k)'
    <2>1. CASE u # t
      <3>1. log'[u] = log[u]
        BY <2>1 DEF Appends
      <3>2. EventSound(u, k)'
        BY <1>3, <3>1, OldEventSound
      <3>3. FactOrdered(u, k)
        BY <1>3, <3>1, EventFacts
      <3>4. FactOrdered(u, k)'
        BY <3>1, <3>3 DEF FactOrdered, Stored
      <3> QED
        BY <3>2, <3>4
    <2>2. CASE u = t /\ OldAt(t, l, k)
      <3>1. k \in 1 .. l /\ k \in DOMAIN log[t] /\ log'[t][k] = log[t][k]
        BY <2>2 DEF OldAt
      <3>2. EventSound(t, k)'
        BY <1>1, <3>1, OldEventSound
      <3>3. FactOrdered(t, k)
        BY <1>1, <3>1, EventFacts
      <3>4. FactOrdered(t, k)'
        BY <1>1, <1>2, <3>1, <3>3, OldFactOrdered
      <3> QED
        BY <2>2, <3>2, <3>4
    <2>3. CASE u = t /\ NewAt(t, events, l, k)
      <3>1. PICK i \in 1 .. Len(events) : k = l + i /\ log'[t][k] = events[i]
        BY <2>3 DEF NewAt
      <3>2. events[i].phase = "fact" <=> events[i].id[2] \in 1 .. MaxFacts[s]
        BY <1>2
      <3>3. EventSound(t, l + i)'
        BY <3>2, NewEventSound
      <3>4. FactOrdered(t, l + i)'
        <4>1. CASE Follows(t, s, events, m)
          BY <1>1, <1>2, <4>1, FollowsInOrder
        <4>2. CASE \A j \in DOMAIN events : events[j].phase # "fact"
          <5>1. log'[t][l + i].phase # "fact"
            BY <1>2, <3>1, <4>2
          <5> QED
            BY <5>1 DEF FactOrdered
        <4> QED
          BY <4>1, <4>2
      <3> QED
        BY <2>3, <3>1, <3>3, <3>4
    <2>4. u = t => OldAt(t, l, k) \/ NewAt(t, events, l, k)
      BY <1>3, OldOrNew
    <2> QED
      BY <2>1, <2>2, <2>3, <2>4
  <1>4. \A q \in Runs : OwnerIsLast(q)'
    BY OwnerStaysLast
  <1>5. RunEndsOnce'
    BY RunStillEndsOnce
  <1> QED
    BY <1>3, <1>4, <1>5 DEF LogSound

-----------------------------------------------------------------------------
(***************************************************************************)
(* Steps of the ledger, as sessions and queries see them.                  *)
(***************************************************************************)

\* A thread whose sessions are all past, or one whose log may have grown.
Fresh(t) == generation'[t] = 0 \/ generation'[t] > created

Same(t) ==
  /\ generation'[t] = generation[t]
  /\ LastSeq(t) \in Nat /\ LastSeq(t)' \in Nat /\ LastSeq(t) <= LastSeq(t)'
  /\ DOMAIN log[t] = 1 .. LastSeq(t) /\ DOMAIN log'[t] = 1 .. LastSeq(t)'
  /\ \A k \in 1 .. LastSeq(t) : log'[t][k] = log[t][k]

NoNewFact(t, s) ==
  \A k \in DOMAIN log'[t] :
    k \in DOMAIN log[t] \/ ~(log'[t][k].id[1] = s /\ log'[t][k].phase = "fact")

Grows(t) == Fresh(t) \/ Same(t)
GrowsFor(t, s) == Fresh(t) \/ (Same(t) /\ NoNewFact(t, s))

\* A step that appends nothing.
Rests(t) ==
  \/ log'[t] = log[t] /\ generation'[t] = generation[t]
  \/ log'[t] = <<>> /\ Fresh(t)

RestsAll ==
  /\ LedgerSound'
  /\ created' >= created
  /\ \A t \in Threads : Rests(t)
  /\ \A r \in Runs : log'[ThreadOf[r]] # <<>> => RunKept(r)

\* Nothing changes.
LEMMA UnchangedRests ==
  ASSUME LedgerSound, UNCHANGED ledgerVars
  PROVE  RestsAll
  <1>1. LedgerSound'
    BY DEF LedgerSound, LedgerTypes, ThreadSound, WriterSound, Exists, EndsHaveRoom,
       CheckpointsSound, LastSeq, ledgerVars
  <1>2. created' >= created
    BY DEF LedgerSound, LedgerTypes, ledgerVars
  <1>3. \A t \in Threads : Rests(t)
    BY DEF Rests, ledgerVars
  <1>4. \A r \in Runs : RunKept(r)
    BY DEF RunKept, Exists, ledgerVars
  <1> QED
    BY <1>1, <1>2, <1>3, <1>4 DEF RestsAll

\* A new writer has no events yet, nor has a new generation.
LEMMA OpenNewRests ==
  ASSUME LedgerSound, NEW r \in Runs, NEW s \in Tokens, OpenNew(r, s)
  PROVE  RestsAll
  <1> DEFINE t == ThreadOf[r]
  <1>1. LedgerSound'
    BY OpenNewLedger
  <1>2. /\ t \in Threads /\ created \in Nat /\ generation \in [Threads -> Nat]
        /\ writers \in [Runs -> Writer]
    BY LimitsAssumption DEF LedgerSound, LedgerTypes
  <1>3. created' >= created
    BY <1>2 DEF OpenNew
  <1>4. ASSUME NEW u \in Threads PROVE Rests(u)
    <2>1. CASE generation[t] # 0
      BY <2>1 DEF OpenNew, Rests
    <2>2. CASE generation[t] = 0 /\ u = t
      <3>1. generation'[t] = created + 1
        BY <1>2, <2>2 DEF OpenNew
      <3>2. log'[t] = <<>>
        <4>1. ThreadSound(t)
          BY <1>2 DEF LedgerSound
        <4> QED
          BY <2>2, <4>1 DEF ThreadSound, OpenNew
      <3> QED
        BY <1>2, <2>2, <3>1, <3>2 DEF Rests, Fresh
    <2>3. CASE generation[t] = 0 /\ u # t
      BY <1>2, <2>3 DEF OpenNew, Rests
    <2> QED
      BY <2>1, <2>2, <2>3
  <1>5. ASSUME NEW q \in Runs PROVE RunKept(q)
    <2>1. q # r => writers'[q] = writers[q]
      BY <1>2 DEF OpenNew
    <2>2. ~Exists(r)
      BY DEF OpenNew, MayOpenNew
    <2> QED
      BY <2>1, <2>2 DEF RunKept, Exists
  <1> QED
    BY <1>1, <1>3, <1>4, <1>5 DEF RestsAll

\* A writer goes to a session that begins, or stays where it is.
LEMMA HandsRests ==
  ASSUME LedgerSound, NEW r \in Runs, NEW owner \in Tokens \cup {Nobody},
         Hands(r, owner),
         owner = writers[r].owner \/ (owner \in Tokens /\ ~Begun(owner))
  PROVE  RestsAll
  <1>1. LedgerSound'
    BY HandsLedger
  <1>2. PICK fence \in Nat, leased \in BOOLEAN :
          WriterReplaced(r, Passed(r, owner, fence, leased))
    BY DEF Hands
  <1>3. UNCHANGED <<created, generation, log>> /\ owner # Nobody
    BY <1>2 DEF Hands, WriterReplaced
  <1>4. writers \in [Runs -> Writer] /\ writers[r] \in Writer /\ created \in Nat
    BY DEF LedgerSound, LedgerTypes
  <1>5. \A q \in Runs :
          writers'[q] = IF q = r THEN Passed(r, owner, fence, leased) ELSE writers[q]
    BY <1>2, <1>4 DEF WriterReplaced
  <1>6. /\ writers'[r].owner = owner
        /\ writers'[r].committed_events = writers[r].committed_events
        /\ writers'[r].terminal_committed = writers[r].terminal_committed
        /\ writers'[r].closed_committed = writers[r].closed_committed
    BY <1>4, <1>5 DEF Passed, Writer
  <1>7. ASSUME NEW q \in Runs PROVE RunKept(q)
    <2>1. CASE q = r
      BY <1>3, <1>6, <2>1 DEF RunKept, Exists
    <2>2. CASE q # r
      BY <1>5, <2>2 DEF RunKept, Exists
    <2> QED
      BY <2>1, <2>2
  <1> QED
    BY <1>1, <1>3, <1>4, <1>7 DEF RestsAll, Rests

\* A writer that ends leaves what it committed, if it committed anything.
LEMMA CloseRests ==
  ASSUME LedgerSound, NEW r \in Runs, Retires(r) \/ Removes(r)
  PROVE  RestsAll
  <1>1. LedgerSound'
    BY CloseLedger
  <1>2. UNCHANGED <<created, generation, log>>
    BY DEF Retires, Removes, WriterReplaced
  <1>3. writers \in [Runs -> Writer] /\ writers[r] \in Writer /\ created \in Nat
    BY DEF LedgerSound, LedgerTypes
  <1>4. ASSUME NEW q \in Runs PROVE RunKept(q)
    <2>1. CASE q # r
      <3>1. writers'[q] = writers[q]
        BY <1>3, <2>1 DEF Retires, Removes, WriterReplaced
      <3> QED
        BY <3>1 DEF RunKept, Exists
    <2>2. CASE q = r /\ Retires(r)
      <3>1. writers'[r] = Retired(writers[r])
        BY <1>3, <2>2 DEF Retires, WriterReplaced
      <3> QED
        BY <1>3, <2>2, <3>1, RetiredSound DEF RunKept, Exists
    <2>3. CASE q = r /\ Removes(r)
      BY <2>3 DEF Removes, RunKept
    <2> QED
      BY <2>1, <2>2, <2>3
  <1> QED
    BY <1>1, <1>2, <1>3, <1>4 DEF RestsAll, Rests

\* A generation goes with all that is in it.
LEMMA DropsRests ==
  ASSUME LedgerSound, NEW t \in Threads, Drops(t)
  PROVE  RestsAll
  <1>1. LedgerSound'
    BY DropsLedger
  <1>2. /\ created \in Nat /\ UNCHANGED created /\ Dropped(t)
        /\ generation \in [Threads -> Nat] /\ log \in [Threads -> Seq(Event)]
    BY DEF LedgerSound, LedgerTypes, Drops
  <1>3. ASSUME NEW u \in Threads PROVE Rests(u)
    BY <1>2 DEF Rests, Fresh, Dropped
  <1>4. ASSUME NEW q \in Runs, log'[ThreadOf[q]] # <<>> PROVE RunKept(q)
    <2>1. ThreadOf[q] # t
      BY <1>2, <1>4 DEF Dropped
    <2>2. writers'[q] = writers[q]
      BY <2>1 DEF Drops
    <2> QED
      BY <2>2 DEF RunKept, Exists
  <1> QED
    BY <1>1, <1>2, <1>3, <1>4 DEF RestsAll

\* A checkpoint says nothing new of the log.
LEMMA SaveRests ==
  ASSUME LedgerSound, NEW t \in Threads, NEW g \in Nat, NEW as_of \in Nat, as_of > 0,
         SaveCheckpoint(t, g, as_of)
  PROVE  RestsAll
  <1>1. LedgerSound'
    BY SaveLedger
  <1>2. UNCHANGED <<created, generation, log, writers>> /\ created \in Nat
    BY DEF SaveCheckpoint, LedgerSound, LedgerTypes
  <1>3. \A r \in Runs : RunKept(r)
    BY <1>2 DEF RunKept, Exists
  <1> QED
    BY <1>1, <1>2, <1>3 DEF RestsAll, Rests

\* The log is as sound as it was.
LEMMA RestsLog ==
  ASSUME LedgerSound, SessionsSound, LogSound, Keeping, RestsAll
  PROVE  LogSound'
  <1>1. \A t \in Threads : LogStays(t)
    BY DEF RestsAll, Rests, LogStays
  <1>2. \A r \in Runs : log'[ThreadOf[r]] # <<>> => RunKept(r)
    BY DEF RestsAll
  <1> QED
    BY <1>1, <1>2, LogRests

\* Nobody's facts are new.
LEMMA RestsGrows ==
  ASSUME LedgerSound, RestsAll, NEW t \in Threads, NEW s
  PROVE  Grows(t) /\ GrowsFor(t, s)
  <1>1. Rests(t)
    BY DEF RestsAll
  <1>2. log[t] \in Seq(Event)
    BY DEF LedgerSound, LedgerTypes
  <1>3. LastSeq(t) \in Nat /\ DOMAIN log[t] = 1 .. LastSeq(t)
    BY <1>2 DEF LastSeq
  <1>4. CASE log'[t] = log[t] /\ generation'[t] = generation[t]
    <2>1. LastSeq(t)' = LastSeq(t)
      BY <1>4 DEF LastSeq
    <2>2. Same(t)
      BY <1>3, <1>4, <2>1 DEF Same
    <2> QED
      BY <1>4, <2>2 DEF NoNewFact, Grows, GrowsFor
  <1>5. CASE Fresh(t)
    BY <1>5 DEF Grows, GrowsFor
  <1> QED
    BY <1>1, <1>4, <1>5 DEF Rests

\* Those of the session that appends are.
LEMMA AppendsGrows ==
  ASSUME LedgerSound, NEW r \in Runs, NEW g, NEW s \in Tokens, NEW events \in Seq(Event),
         NEW w, NEW l \in Nat, Adds(r, g, s, events, w), Appends(r, s, events, w, l),
         NEW t \in Threads
  PROVE  /\ Grows(t)
         /\ \A o : (o # s \/ \A i \in DOMAIN events : events[i].phase # "fact")
              => GrowsFor(t, o)
  <1>1. log[t] \in Seq(Event)
    BY DEF LedgerSound, LedgerTypes
  <1>2. LastSeq(t) \in Nat /\ DOMAIN log[t] = 1 .. LastSeq(t)
    BY <1>1 DEF LastSeq
  <1>3. generation'[t] = generation[t]
    BY DEF Appends
  <1>4. CASE t # ThreadOf[r]
    <2>1. log'[t] = log[t] /\ LastSeq(t)' = LastSeq(t)
      BY <1>4 DEF Appends, LastSeq
    <2>2. Same(t)
      BY <1>2, <1>3, <2>1 DEF Same
    <2> QED
      BY <2>1, <2>2 DEF NoNewFact, Grows, GrowsFor
  <1>5. CASE t = ThreadOf[r]
    <2>1. Joins(t, events, l) /\ LastSeq(t) = l /\ DOMAIN events = 1 .. Len(events)
      BY <1>5 DEF Appends
    <2>2. Longer(t, events, l)
      BY <2>1, JoinedLog
    <2>3. /\ log'[t] \in Seq(Event) /\ Len(log'[t]) = l + Len(events)
          /\ \A k \in 1 .. l : log'[t][k] = log[t][k]
      BY <2>2 DEF Longer
    <2>4. LastSeq(t)' = l + Len(events) /\ Len(events) \in Nat
      BY <2>3 DEF LastSeq
    <2>5. Same(t)
      BY <1>2, <1>3, <2>1, <2>3, <2>4 DEF Same, LastSeq
    <2>6. ASSUME NEW o, o # s \/ \A i \in DOMAIN events : events[i].phase # "fact"
          PROVE  NoNewFact(t, o)
      <3> SUFFICES ASSUME NEW k, k \in DOMAIN log'[t], ~(k \in DOMAIN log[t])
                   PROVE  ~(log'[t][k].id[1] = o /\ log'[t][k].phase = "fact")
        BY DEF NoNewFact
      <3>1. PICK i \in 1 .. Len(events) : k = l + i
        BY <2>2 DEF Longer
      <3>2. log'[t][k] = events[i]
        BY <2>2, <3>1 DEF Longer
      <3>3. events[i].id[1] = s
        BY <2>1 DEF Adds
      <3> QED
        BY <2>1, <2>6, <3>2, <3>3
    <2> QED
      BY <2>5, <2>6 DEF Grows, GrowsFor
  <1> QED
    BY <1>4, <1>5

-----------------------------------------------------------------------------
(***************************************************************************)
(* What a step does to the sessions and to the query.                      *)
(***************************************************************************)

\* What the frame of a session's facts needs of its next state y.
Loosens(s, y) ==
  LET x == session[s] IN
  /\ y.run = x.run /\ y.generation = x.generation
  /\ \/ y.settled = x.settled
     \/ x.worker = "notify" /\ y.settled = x.settled + x.batch
  /\ y.worker = "notify" =>
       /\ y.settled = x.settled /\ y.batch = x.batch
       /\ x.worker = "notify" \/ (Current(s) => AllStored(s, x.settled + x.batch))
  /\ y.worker = "append" =>
       /\ y.settled = x.settled
       /\ \/ x.worker = "append" /\ y.batch = x.batch
          \/ x.batch = 0 /\ x.pc # "closed" /\ ~x.failed
  /\ y.pc # "closed" /\ ~y.failed =>
       x.pc # "closed" /\ ~x.failed /\ y.settled + y.batch >= x.settled + x.batch

\* A session that is left alone.
LEMMA LoosensItself ==
  ASSUME NEW s \in Tokens, SessionsSound
  PROVE  Loosens(s, session[s])
  <1>1. session[s] \in Session
    BY DEF SessionsSound
  <1>2. session[s].settled + session[s].batch \in Nat
    BY <1>1 DEF Session
  <1> QED
    BY <1>2 DEF Loosens

\* The thread of a session that has begun.
LEMMA BegunThread ==
  ASSUME SessionsSound, NEW s \in Tokens, Begun(s)
  PROVE  /\ session[s] \in Session
         /\ session[s].run \in Runs /\ Thread(s) \in Threads
         /\ session[s].generation \in Nat /\ session[s].generation # 0
         /\ session[s].generation <= created
  <1>1. session[s] \in Session /\ SessionSound(s, session[s])
        /\ session[s].generation <= created
    BY DEF SessionsSound
  <1>2. session[s].run \in Runs
    BY <1>1 DEF SessionSound, Begun
  <1> QED
    BY <1>1, <1>2, LimitsAssumption DEF Begun, Session, Thread

\* A session that is current after a step was current before it.
LEMMA StillCurrent ==
  ASSUME LedgerSound, SessionsSound, Keeping, NEW s \in Tokens, Begun(s),
         Grows(Thread(s)), Current(s)'
  PROVE  /\ Thread(s)' = Thread(s) /\ Current(s) /\ Same(Thread(s))
         /\ generation'[Thread(s)] = generation[Thread(s)]
  <1> DEFINE t == Thread(s)
  <1>1. /\ session'[s].run = session[s].run
        /\ session'[s].generation = session[s].generation
    BY DEF Keeping
  <1>2. Thread(s)' = t
    BY <1>1 DEF Thread
  <1>3. generation'[t] = session[s].generation
    BY <1>1, <1>2 DEF Current
  <1>4. ~Fresh(t)
    <2>1. created \in Nat
      BY DEF LedgerSound, LedgerTypes
    <2> QED
      BY <1>3, <2>1, BegunThread DEF Fresh
  <1>5. Same(t)
    BY <1>4 DEF Grows
  <1>6. generation'[t] = generation[t]
    BY <1>5 DEF Same
  <1> QED
    BY <1>2, <1>3, <1>5, <1>6 DEF Current

\* What is stored in a log that grows stays stored in it.
LEMMA GrowsStored ==
  ASSUME NEW t, Same(t), NEW s, NEW n, NEW last \in Nat, last <= LastSeq(t),
         Stored(t, s, n, last)
  PROVE  Stored(t, s, n, last)' /\ Stored(t, s, n, LastSeq(t))'
  <1>1. PICK k \in 1 .. last : log[t][k].id = <<s, n>> /\ log[t][k].phase = "fact"
    BY DEF Stored
  <1>2. LastSeq(t) \in Nat /\ LastSeq(t)' \in Nat /\ LastSeq(t) <= LastSeq(t)'
    BY DEF Same
  <1>3. k \in 1 .. LastSeq(t) /\ k \in 1 .. LastSeq(t)'
    BY <1>2
  <1>4. log'[t][k] = log[t][k]
    BY <1>3 DEF Same
  <1>5. Stored(t, s, n, last)'
    BY <1>1, <1>4 DEF Stored
  <1>6. Stored(t, s, n, LastSeq(t))'
    BY <1>1, <1>3, <1>4 DEF Stored
  <1> QED
    BY <1>5, <1>6

\* A session's facts stay as they are; n is any number of them.
LEMMA AllStoredStays ==
  ASSUME NEW s \in Tokens, Same(Thread(s)), Thread(s)' = Thread(s), NEW n \in Nat,
         AllStored(s, n)
  PROVE  AllStored(s, n)'
  <1>1. LastSeq(Thread(s)) \in Nat
    BY DEF Same
  <1>2. ASSUME NEW i \in 1 .. n PROVE Stored(Thread(s), s, i, LastSeq(Thread(s)))'
    <2>1. Stored(Thread(s), s, i, LastSeq(Thread(s)))
      BY DEF AllStored
    <2> QED
      BY <1>1, <2>1, GrowsStored
  <1> QED
    BY <1>2 DEF AllStored

\* No fact beyond an ordinal, as long as the session adds none.
LEMMA NoneBeyondStays ==
  ASSUME NEW s \in Tokens, Same(Thread(s)), Thread(s)' = Thread(s),
         NoNewFact(Thread(s), s), NEW n, NoneBeyond(s, n)
  PROVE  NoneBeyond(s, n)'
  <1> DEFINE t == Thread(s)
  <1> SUFFICES ASSUME NEW k, k \in DOMAIN log'[t],
                      log'[t][k].id[1] = s, log'[t][k].phase = "fact"
               PROVE  log'[t][k].id[2] <= n
    BY DEF NoneBeyond
  <1>1. k \in DOMAIN log[t]
    BY DEF NoNewFact
  <1>2. log'[t][k] = log[t][k]
    BY <1>1 DEF Same
  <1> QED
    BY <1>1, <1>2 DEF NoneBeyond

\* Facts are not lost sight of.
LEMMA NoneBeyondMore ==
  ASSUME LedgerSound, SessionsSound, LogSound, NEW s \in Tokens, Begun(s),
         NEW n \in Nat, NEW m \in Nat, n <= m, NoneBeyond(s, n)
  PROVE  NoneBeyond(s, m)
  <1>1. Thread(s) \in Threads
    BY BegunThread
  <1> SUFFICES ASSUME NEW k \in DOMAIN log[Thread(s)],
                      log[Thread(s)][k].id[1] = s, log[Thread(s)][k].phase = "fact"
               PROVE  log[Thread(s)][k].id[2] <= m
    BY DEF NoneBeyond
  <1>2. log[Thread(s)][k].id[2] <= n
    BY DEF NoneBeyond
  <1>3. log[Thread(s)][k].id[2] \in Nat
    BY <1>1, EventFacts
  <1> QED
    BY <1>2, <1>3

\* Facts of a session that appends none.
LEMMA FactsFrame ==
  ASSUME LedgerSound, SessionsSound, LogSound, Keeping, NEW s \in Tokens, Begun(s),
         GrowsFor(Thread(s), s), FactsSound(s), Loosens(s, session'[s]),
         session'[s] \in Session
  PROVE  FactsSound(s)'
  <1> SUFFICES ASSUME Current(s)'
               PROVE  /\ AllStored(s, session[s].settled)'
                      /\ session'[s].worker = "notify" =>
                           AllStored(s, session[s].settled + session[s].batch)'
                      /\ session'[s].worker = "append" =>
                           \/ AllStored(s, session[s].settled + session[s].batch)'
                           \/ NoneBeyond(s, session[s].settled)'
                      /\ session'[s].pc # "closed" /\ ~session'[s].failed =>
                           NoneBeyond(s, session[s].settled + session[s].batch)'
    BY DEF FactsSound
  <1> DEFINE x == session[s]
             y == session'[s]
  <1>1. Grows(Thread(s))
    BY DEF GrowsFor, Grows
  <1>2. /\ Thread(s)' = Thread(s) /\ Current(s) /\ Same(Thread(s))
        /\ generation'[Thread(s)] = generation[Thread(s)]
    BY <1>1, StillCurrent
  <1>3. NoNewFact(Thread(s), s)
    <2>1. created \in Nat
      BY DEF LedgerSound, LedgerTypes
    <2>2. ~Fresh(Thread(s))
      BY <1>2, <2>1, BegunThread DEF Fresh, Current
    <2> QED
      BY <2>2 DEF GrowsFor
  <1>4. /\ x.settled \in Nat /\ x.batch \in Nat /\ y.settled \in Nat /\ y.batch \in Nat
    <2>1. x \in Session /\ y \in Session
      BY BegunThread
    <2> QED
      BY <2>1 DEF Session
  <1>5. PICK m \in Nat, i \in Nat, n \in Nat, j \in Nat :
          m = x.settled /\ i = x.settled + x.batch
          /\ n = y.settled /\ j = y.settled + y.batch
    <2>1. x.settled + x.batch \in Nat /\ y.settled + y.batch \in Nat
      BY <1>4
    <2> HIDE DEF x, y
    <2> QED
      BY <1>4, <2>1
  <1>6. /\ AllStored(s, m)
        /\ x.worker = "notify" => AllStored(s, i)
        /\ x.worker = "append" => AllStored(s, i) \/ NoneBeyond(s, m)
        /\ x.pc # "closed" /\ ~x.failed => NoneBeyond(s, i)
    BY <1>2, <1>5 DEF FactsSound
  <1>7. AllStored(s, n)
    BY <1>5, <1>6 DEF Loosens
  <1>8. y.worker = "notify" => AllStored(s, j)
    BY <1>2, <1>4, <1>5, <1>6 DEF Loosens
  <1>9. y.worker = "append" => AllStored(s, j) \/ NoneBeyond(s, n)
    <2>1. SUFFICES ASSUME y.worker = "append" PROVE AllStored(s, j) \/ NoneBeyond(s, n)
      OBVIOUS
    <2>2. n = m
      BY <1>5, <2>1 DEF Loosens
    <2>3. CASE x.worker = "append" /\ y.batch = x.batch
      <3>1. j = i
        BY <1>4, <1>5, <2>2, <2>3
      <3> QED
        BY <1>6, <2>2, <2>3, <3>1
    <2>4. CASE x.batch = 0 /\ x.pc # "closed" /\ ~x.failed
      <3>1. i = n
        BY <1>4, <1>5, <2>2, <2>4
      <3> QED
        BY <1>6, <2>4, <3>1
    <2> QED
      BY <2>1, <2>3, <2>4 DEF Loosens
  <1>10. y.pc # "closed" /\ ~y.failed => NoneBeyond(s, j)
    <2>1. SUFFICES ASSUME y.pc # "closed", ~y.failed PROVE NoneBeyond(s, j)
      OBVIOUS
    <2>2. NoneBeyond(s, i) /\ i <= j
      BY <1>5, <1>6, <2>1 DEF Loosens
    <2> QED
      BY <2>2, NoneBeyondMore
  <1>11. AllStored(s, n)'
    BY <1>2, <1>7, AllStoredStays
  <1>12. y.worker = "notify" => AllStored(s, j)'
    BY <1>2, <1>8, AllStoredStays
  <1>13. y.worker = "append" => AllStored(s, j)' \/ NoneBeyond(s, n)'
    BY <1>2, <1>3, <1>9, AllStoredStays, NoneBeyondStays
  <1>14. y.pc # "closed" /\ ~y.failed => NoneBeyond(s, j)'
    BY <1>2, <1>3, <1>10, NoneBeyondStays
  <1> QED
    BY <1>5, <1>11, <1>12, <1>13, <1>14

\* A query that nobody disturbs.
LEMMA QueryFrame ==
  ASSUME LedgerSound, SessionsSound, Keeping, QuerySound, UNCHANGED query,
         \A t \in Threads : Grows(t)
  PROVE  QuerySound'
  <1> SUFFICES ASSUME query.pc \in {"forcing", "load", "save"}
               PROVE  QuerySound'
    BY DEF QuerySound
  <1>1. PICK s : s = query.session
    OBVIOUS
  <1>2. s \in Tokens /\ Begun(s)
    BY <1>1 DEF QuerySound
  <1>3. Begun(s)'
    BY <1>2 DEF Keeping, Begun
  <1>4. ASSUME query.pc # "forcing", Current(s)', query.generation = generation'[Thread(s)']
        PROVE  /\ query.as_of <= LastSeq(Thread(s))'
               /\ \A n \in 1 .. query.target : Stored(Thread(s), s, n, query.as_of)'
    <2>1. Thread(s) \in Threads
      BY <1>2, BegunThread
    <2>2. /\ Thread(s)' = Thread(s) /\ Current(s) /\ Same(Thread(s))
          /\ generation'[Thread(s)] = generation[Thread(s)]
      BY <1>2, <1>4, <2>1, StillCurrent
    <2>3. /\ query.as_of <= LastSeq(Thread(s))
          /\ \A n \in 1 .. query.target : Stored(Thread(s), s, n, query.as_of)
      BY <1>1, <1>4, <2>2 DEF QuerySound
    <2>4. PICK last \in Nat : last = query.as_of
      BY DEF SessionsSound, Query
    <2>5. query.as_of <= LastSeq(Thread(s))'
      BY <2>2, <2>3, <2>4 DEF Same
    <2>6. ASSUME NEW n \in 1 .. query.target
          PROVE  Stored(Thread(s), s, n, query.as_of)'
      <3>1. Stored(Thread(s), s, n, last) /\ last <= LastSeq(Thread(s))
        BY <2>3, <2>4
      <3>2. PICK t : t = Thread(s)
        OBVIOUS
      <3>3. Stored(t, s, n, last)'
        BY <2>2, <3>1, <3>2, GrowsStored
      <3>4. t = Thread(s)' /\ last = query.as_of'
        BY <2>2, <2>4, <3>2
      <3> QED
        BY <3>3, <3>4 DEF Stored
    <2> QED
      BY <2>5, <2>6
  <1> QED
    BY <1>1, <1>2, <1>3, <1>4 DEF QuerySound

-----------------------------------------------------------------------------
(***************************************************************************)
(* The states a session moves to.                                          *)
(***************************************************************************)

Sound(s, x) == x \in Session /\ SessionSound(s, x) /\ WorkerSound(x)
Live(x) == x.pc \notin {"idle", "opening", "closed"}

\* They are sessions.
LEMMA FailedTyped ==
  ASSUME NEW x \in Session
  PROVE  Failed(x) \in Session
  <1>1. \A e \in Seq(Nat) :
          [x EXCEPT !.failed = TRUE, !.queue = e, !.batch = 0, !.worker = "ended"]
            \in Session
    BY DEF Session
  <1>2. <<>> \in Seq(Nat)
    OBVIOUS
  <1> QED
    BY <1>1, <1>2 DEF Failed

\* A session that is over is a session.
LEMMA ClosedTyped ==
  ASSUME NEW x \in Session
  PROVE  Closed(x) \in Session
  <1>1. ASSUME NEW e \in Seq(Nat)
        PROVE  [pc |-> "closed", run |-> x.run, generation |-> x.generation, fence |-> 0,
                submission |-> 0, queue |-> e, batch |-> 0, accepted |-> 0,
                settled |-> x.settled, worker |-> "idle", failed |-> x.failed,
                stage |-> 0] \in Session
    BY DEF Session
  <1>2. PICK e \in Seq(Nat) : e = <<>>
    <2>1. <<>> \in Seq(Nat)
      OBVIOUS
    <2> QED
      BY <2>1
  <1>3. PICK y : y = Closed(x)
    OBVIOUS
  <1>4. y =
          [pc |-> "closed", run |-> x.run, generation |-> x.generation, fence |-> 0,
           submission |-> 0, queue |-> e, batch |-> 0, accepted |-> 0,
           settled |-> x.settled, worker |-> "idle", failed |-> x.failed, stage |-> 0]
    BY <1>2, <1>3 DEF Closed, Idle
  <1> QED
    BY <1>1, <1>3, <1>4

\* So is one that accepted a submission.
LEMMA AcceptsTyped ==
  ASSUME NEW x \in Session, NEW n \in Nat
  PROVE  Accepts(x, n) \in Session
  <1>1. \A q \in Seq(Nat), a \in Nat :
          [x EXCEPT !.pc = "open", !.submission = 0, !.accepted = a, !.queue = q]
            \in Session
    BY DEF Session
  <1>2. x.accepted \in Nat /\ x.queue \in Seq(Nat)
    BY DEF Session
  <1>3. x.accepted + n \in Nat /\ Append(x.queue, x.accepted + n) \in Seq(Nat)
    BY <1>2
  <1> QED
    BY <1>1, <1>3, Zenon DEF Accepts

\* What is queued was accepted and is not in flight.
LEMMA QueueSound ==
  ASSUME NEW x, x \in Session, WorkerSound(x), NEW i \in DOMAIN x.queue
  PROVE  x.settled + x.batch < x.queue[i] /\ x.queue[i] <= x.accepted /\ x.queue[i] \in Nat
  <1>1. x.settled + x.batch < x.queue[i] /\ x.queue[i] <= x.accepted
    BY DEF WorkerSound
  <1>2. x.queue \in Seq(Nat)
    BY DEF Session
  <1>3. x.queue[i] \in Nat
    BY <1>2
  <1> QED
    BY <1>1, <1>3

\* A live session goes to another of its calls.
LEMMA PcMoves ==
  ASSUME NEW s \in Tokens, NEW x, Sound(s, x), Live(x),
         NEW p \in {"open", "finishing", "notifying", "closing"},
         p \in {"finishing", "notifying"} => x.stage < 2,
         p = "notifying" => x.worker = "idle" /\ x.queue = <<>>
  PROVE  LET y == [x EXCEPT !.pc = p] IN Sound(s, y) /\ Live(y)
  <1> DEFINE y == [x EXCEPT !.pc = p]
  <1>1. x \in Session
    BY DEF Sound
  <1>2. y \in Session
    BY <1>1 DEF Session
  <1>3. /\ y.pc = p /\ y.run = x.run /\ y.generation = x.generation
        /\ y.submission = x.submission /\ y.queue = x.queue /\ y.batch = x.batch
        /\ y.accepted = x.accepted /\ y.settled = x.settled /\ y.worker = x.worker
        /\ y.failed = x.failed /\ y.stage = x.stage
    BY <1>1 DEF Session
  <1> HIDE DEF y
  <1>4. SessionSound(s, y)
    BY <1>3 DEF Sound, SessionSound, Live
  <1>5. WorkerSound(y)
    BY <1>3 DEF Sound, WorkerSound
  <1> QED
    BY <1>2, <1>3, <1>4, <1>5 DEF Sound, Live, y

\* The mandatory fact or the catch-up behind it raised.
LEMMA FailsOpen ==
  ASSUME NEW s \in Tokens, NEW x, Sound(s, x), Live(x),
         x.worker = "idle", x.queue = <<>>
  PROVE  LET y == [x EXCEPT !.pc = "open", !.failed = TRUE] IN Sound(s, y) /\ Live(y)
  <1> DEFINE y == [x EXCEPT !.pc = "open", !.failed = TRUE]
  <1>1. x \in Session
    BY DEF Sound
  <1>2. y \in Session
    BY <1>1 DEF Session
  <1>3. /\ y.pc = "open" /\ y.run = x.run /\ y.generation = x.generation
        /\ y.submission = x.submission /\ y.queue = x.queue /\ y.batch = x.batch
        /\ y.accepted = x.accepted /\ y.settled = x.settled /\ y.worker = x.worker
        /\ y.failed = TRUE /\ y.stage = x.stage
    BY <1>1 DEF Session
  <1> HIDE DEF y
  <1>4. SessionSound(s, y)
    BY <1>3 DEF Sound, SessionSound, Live
  <1>5. WorkerSound(y)
    BY <1>3 DEF Sound, WorkerSound
  <1> QED
    BY <1>2, <1>3, <1>4, <1>5 DEF Sound, Live, y

\* The worker failed.
LEMMA FailedSound ==
  ASSUME NEW s \in Tokens, NEW x, Sound(s, x), Live(x),
         x.worker \in {"append", "notify"}
  PROVE  Sound(s, Failed(x)) /\ Live(Failed(x))
  <1> DEFINE y == Failed(x)
  <1>1. x \in Session
    BY DEF Sound
  <1>2. y \in Session
    BY <1>1, FailedTyped
  <1>3. /\ y.pc = x.pc /\ y.run = x.run /\ y.generation = x.generation
        /\ y.submission = x.submission /\ y.queue = <<>> /\ y.batch = 0
        /\ y.accepted = x.accepted /\ y.settled = x.settled /\ y.worker = "ended"
        /\ y.failed = TRUE /\ y.stage = x.stage
    BY <1>1 DEF Session, Failed
  <1>4. x.settled \in Nat /\ x.batch \in Nat /\ x.accepted \in Nat
    BY <1>1 DEF Session
  <1> HIDE DEF y
  <1>5. SessionSound(s, y)
    BY <1>3, <1>4 DEF Sound, SessionSound, Live
  <1>6. WorkerSound(y)
    BY <1>3 DEF Sound, WorkerSound
  <1> QED
    BY <1>2, <1>3, <1>5, <1>6 DEF Sound, Live, y

\* A session is over, from any state.
LEMMA ClosedSound ==
  ASSUME NEW s \in Tokens, NEW x \in Session, x.generation # 0 => x.run \in Runs
  PROVE  Sound(s, Closed(x))
  <1> DEFINE y == Closed(x)
  <1>1. /\ y.pc = "closed" /\ y.run = x.run /\ y.generation = x.generation
        /\ y.fence = 0 /\ y.submission = 0 /\ y.queue = <<>> /\ y.batch = 0
        /\ y.accepted = 0 /\ y.settled = x.settled /\ y.worker = "idle"
        /\ y.failed = x.failed /\ y.stage = 0
    BY DEF Closed, Idle
  <1>2. y \in Session
    BY ClosedTyped
  <1>3. y = Closed(y)
    BY DEF Closed, Idle
  <1> HIDE DEF y
  <1>4. SessionSound(s, y)
    BY <1>1, <1>3 DEF SessionSound
  <1>5. WorkerSound(y)
    BY <1>1 DEF WorkerSound
  <1> QED
    BY <1>2, <1>4, <1>5 DEF Sound, y

\* A submission waits for room, or raises.
LEMMA SubmissionMoves ==
  ASSUME NEW s \in Tokens, NEW x, Sound(s, x), Live(x),
         NEW p \in {"open", "submitting"}, NEW n \in Nat,
         p = "submitting" => n >= 1 /\ x.accepted + n <= MaxFacts[s]
  PROVE  LET y == [x EXCEPT !.pc = p, !.submission = n] IN Sound(s, y) /\ Live(y)
  <1> DEFINE y == [x EXCEPT !.pc = p, !.submission = n]
  <1>1. x \in Session
    BY DEF Sound
  <1>2. y \in Session
    BY <1>1 DEF Session
  <1>3. /\ y.pc = p /\ y.run = x.run /\ y.generation = x.generation
        /\ y.submission = n /\ y.queue = x.queue /\ y.batch = x.batch
        /\ y.accepted = x.accepted /\ y.settled = x.settled /\ y.worker = x.worker
        /\ y.failed = x.failed /\ y.stage = x.stage
    BY <1>1 DEF Session
  <1> HIDE DEF y
  <1>4. SessionSound(s, y)
    BY <1>3 DEF Sound, SessionSound, Live
  <1>5. WorkerSound(y)
    BY <1>3 DEF Sound, WorkerSound
  <1> QED
    BY <1>2, <1>3, <1>4, <1>5 DEF Sound, Live, y

\* A submission is accepted, behind those that were.
LEMMA AcceptsSound ==
  ASSUME NEW s \in Tokens, NEW x, Sound(s, x), Live(x), ~x.failed, NEW n \in Nat, n >= 1,
         x.accepted + n <= MaxFacts[s]
  PROVE  Sound(s, Accepts(x, n)) /\ Live(Accepts(x, n))
  <1> DEFINE y == Accepts(x, n)
  <1>1. x \in Session
    BY DEF Sound
  <1>2. x.settled \in Nat /\ x.batch \in Nat /\ x.accepted \in Nat /\ x.queue \in Seq(Nat)
    BY <1>1 DEF Session
  <1>3. PICK a \in Nat : a = x.accepted + n
    BY <1>2
  <1>4. y = [x EXCEPT !.pc = "open", !.submission = 0, !.accepted = a,
                      !.queue = Append(x.queue, a)]
    BY <1>3, Zenon DEF Accepts
  <1>5. PICK q \in Seq(Nat) : q = Append(x.queue, a)
    <2>1. Append(x.queue, a) \in Seq(Nat)
      BY <1>2, <1>3
    <2> QED
      BY <2>1
  <1>6. y \in Session
    BY <1>1, AcceptsTyped
  <1>7. /\ y.pc = "open" /\ y.run = x.run /\ y.generation = x.generation
        /\ y.submission = 0 /\ y.queue = q /\ y.batch = x.batch
        /\ y.accepted = a /\ y.settled = x.settled /\ y.worker = x.worker
        /\ y.failed = x.failed /\ y.stage = x.stage
    BY <1>1, <1>4, <1>5 DEF Session
  <1> HIDE DEF y
  <1>8. x.settled + x.batch <= x.accepted
    BY DEF Sound, SessionSound, Live
  <1>9. SessionSound(s, y)
    BY <1>2, <1>3, <1>7, <1>8 DEF Sound, SessionSound, Live
  <1>10. /\ \A i \in DOMAIN q :
              \/ i \in DOMAIN x.queue /\ q[i] = x.queue[i]
              \/ i = Len(x.queue) + 1 /\ q[i] = a
         /\ \A i \in DOMAIN x.queue : i <= Len(x.queue)
    BY <1>2, <1>5
  <1>11. \A i \in DOMAIN x.queue :
           x.settled + x.batch < x.queue[i] /\ x.queue[i] <= x.accepted /\ x.queue[i] \in Nat
    BY <1>1, QueueSound DEF Sound
  <1>12. \A i \in DOMAIN q : x.settled + x.batch < q[i] /\ q[i] <= a
    <2> SUFFICES ASSUME NEW i, i \in DOMAIN q
                 PROVE  x.settled + x.batch < q[i] /\ q[i] <= a
      OBVIOUS
    <2>1. x.accepted < a
      BY <1>2, <1>3
    <2>2. CASE i \in DOMAIN x.queue /\ q[i] = x.queue[i]
      <3>1. PICK o \in Nat : o = x.queue[i]
        BY <1>11, <2>2
      <3>2. x.settled + x.batch < o /\ o <= x.accepted
        BY <1>11, <2>2, <3>1
      <3> QED
        BY <1>2, <2>1, <2>2, <3>1, <3>2
    <2>3. CASE q[i] = a
      BY <1>2, <1>8, <2>1, <2>3
    <2> QED
      BY <1>10, <2>2, <2>3
  <1>13. \A i, j \in DOMAIN q : i < j => q[i] < q[j]
    <2> SUFFICES ASSUME NEW i \in DOMAIN q, NEW j \in DOMAIN q, i < j PROVE q[i] < q[j]
      OBVIOUS
    <2>1. Len(x.queue) \in Nat /\ i \in Nat /\ j \in Nat /\ j <= Len(x.queue) + 1
      BY <1>2, <1>5
    <2>2. i \in DOMAIN x.queue /\ q[i] = x.queue[i]
      BY <1>2, <1>5, <2>1
    <2>3. CASE j \in DOMAIN x.queue /\ q[j] = x.queue[j]
      BY <2>2, <2>3 DEF Sound, WorkerSound
    <2>4. CASE q[j] = a
      BY <1>2, <1>3, <1>11, <2>2, <2>4
    <2> QED
      BY <1>10, <2>3, <2>4
  <1>14. WorkerSound(y)
    BY <1>7, <1>12, <1>13 DEF Sound, WorkerSound
  <1> QED
    BY <1>6, <1>7, <1>9, <1>14 DEF Sound, Live, y

\* The rest of a queue.
LEMMA RestAt ==
  ASSUME NEW q \in Seq(Nat), NEW m \in Nat, NEW l \in Nat, 1 <= m, m <= l + 1,
         l <= Len(q)
  PROVE  /\ SubSeq(q, m, l) \in Seq(Nat)
         /\ \A i \in DOMAIN SubSeq(q, m, l) :
              i \in 1 .. l - m + 1 /\ SubSeq(q, m, l)[i] = q[m + i - 1]
  OBVIOUS

\* What a queue holds after its first n submissions were taken.
LEMMA RestOfQueue ==
  ASSUME NEW q \in Seq(Nat), NEW n \in 1 .. Len(q), NEW u,
         u = SubSeq(q, n + 1, Len(q))
  PROVE  /\ u \in Seq(Nat)
         /\ \A i \in DOMAIN u : n + i \in DOMAIN q /\ i \in Nat /\ n < n + i /\ u[i] = q[n + i]
  <1>1. PICK l \in Nat : l = Len(q)
    OBVIOUS
  <1>2. PICK m \in Nat : m = n + 1
    OBVIOUS
  <1>3. n \in Nat /\ n >= 1 /\ n <= l /\ DOMAIN q = 1 .. l
    BY <1>1
  <1>4. u = SubSeq(q, m, l) /\ 1 <= m /\ m <= l + 1 /\ l <= Len(q)
    BY <1>1, <1>2, <1>3
  <1>5. /\ u \in Seq(Nat)
        /\ \A i \in DOMAIN u : i \in 1 .. l - m + 1 /\ u[i] = q[m + i - 1]
    <2>1. SubSeq(q, m, l) \in Seq(Nat)
      BY <1>4, RestAt
    <2>2. \A i \in DOMAIN SubSeq(q, m, l) :
            i \in 1 .. l - m + 1 /\ SubSeq(q, m, l)[i] = q[m + i - 1]
      BY <1>4, RestAt
    <2> QED
      BY <1>4, <2>1, <2>2
  <1>6. ASSUME NEW i, i \in DOMAIN u
        PROVE  n + i \in DOMAIN q /\ i \in Nat /\ n < n + i /\ u[i] = q[n + i]
    <2>1. i \in 1 .. l - m + 1 /\ u[i] = q[m + i - 1]
      BY <1>5, <1>6
    <2>2. m + i - 1 = n + i /\ i \in Nat /\ i >= 1 /\ n + i <= l /\ n + i \in Nat
      BY <1>2, <1>3, <2>1
    <2> QED
      BY <1>3, <2>1, <2>2
  <1> QED
    BY <1>5, <1>6

\* What NextBatch makes of a session.
TakesBatch(x) ==
  LET n == Selected(x) IN
  [x EXCEPT !.worker = "append", !.queue = SubSeq(@, n + 1, Len(@)),
            !.batch = FactsUpTo(x, n)]

\* A batch is what the first submissions of the queue hold.
LEMMA TakesBatchSound ==
  ASSUME NEW s \in Tokens, NEW x, Sound(s, x), x.worker = "idle", x.queue # <<>>
  PROVE  /\ Sound(s, TakesBatch(x)) /\ Live(TakesBatch(x)) /\ Live(x) /\ ~x.failed
         /\ x.batch = 0
         /\ TakesBatch(x).pc = x.pc /\ TakesBatch(x).run = x.run
         /\ TakesBatch(x).generation = x.generation
         /\ TakesBatch(x).settled = x.settled /\ TakesBatch(x).failed = x.failed
         /\ TakesBatch(x).worker = "append" /\ TakesBatch(x).batch \in Nat
  <1>1. x \in Session
    BY DEF Sound
  <1>2. /\ x.settled \in Nat /\ x.batch \in Nat /\ x.accepted \in Nat
        /\ x.queue \in Seq(Nat)
    BY <1>1 DEF Session
  <1>3. Selected(x) \in 1 .. Len(x.queue)
    BY <1>2, SelectedType
  <1>4. PICK n \in 1 .. Len(x.queue) : n = Selected(x)
    BY <1>3
  <1>5. x.batch = 0 /\ ~x.failed
    BY DEF Sound, WorkerSound
  <1>6. n \in DOMAIN x.queue
    BY <1>2, <1>4
  <1>7. x.settled + x.batch < x.queue[n] /\ x.queue[n] <= x.accepted /\ x.queue[n] \in Nat
    BY <1>1, <1>6, QueueSound DEF Sound
  <1>8. PICK b \in Nat : b = x.queue[n] - x.settled /\ b >= 1
    BY <1>2, <1>5, <1>7
  <1>9. PICK q \in Seq(Nat) : q = SubSeq(x.queue, n + 1, Len(x.queue))
    <2>1. PICK u : u = SubSeq(x.queue, n + 1, Len(x.queue))
      OBVIOUS
    <2>2. u \in Seq(Nat)
      BY <1>2, <2>1, RestOfQueue
    <2> QED
      BY <2>1, <2>2
  <1>10. PICK y : y = TakesBatch(x)
    OBVIOUS
  <1>11. y = [x EXCEPT !.worker = "append", !.queue = q, !.batch = b]
    BY <1>4, <1>8, <1>9, <1>10, Zenon DEF TakesBatch, FactsUpTo
  <1>12. y \in Session
    BY <1>1, <1>11 DEF Session
  <1>13. /\ y.pc = x.pc /\ y.run = x.run /\ y.generation = x.generation
         /\ y.submission = x.submission /\ y.queue = q /\ y.batch = b
         /\ y.accepted = x.accepted /\ y.settled = x.settled /\ y.worker = "append"
         /\ y.failed = x.failed /\ y.stage = x.stage
    BY <1>1, <1>11 DEF Session
  <1>14. Live(x)
    BY DEF Sound, SessionSound, Closed, Idle, Live
  <1>15. y.settled + y.batch = x.queue[n]
    BY <1>2, <1>7, <1>8, <1>13
  <1>16. SessionSound(s, y)
    BY <1>7, <1>13, <1>14, <1>15 DEF Sound, SessionSound, Live
  <1>17. \A i \in DOMAIN q :
           n + i \in DOMAIN x.queue /\ i \in Nat /\ n < n + i /\ q[i] = x.queue[n + i]
    <2>1. PICK p \in Seq(Nat) : p = x.queue
      BY <1>2
    <2>2. n \in 1 .. Len(p) /\ q = SubSeq(p, n + 1, Len(p))
      BY <1>4, <1>9, <2>1
    <2>3. \A i \in DOMAIN q :
            n + i \in DOMAIN p /\ i \in Nat /\ n < n + i /\ q[i] = p[n + i]
      BY <2>2, RestOfQueue
    <2> QED
      BY <2>1, <2>3
  <1>18. \A i, j \in DOMAIN x.queue : i < j => x.queue[i] < x.queue[j]
    BY DEF Sound, WorkerSound
  <1>19. ASSUME NEW i, i \in DOMAIN q
         PROVE  y.settled + y.batch < q[i] /\ q[i] <= y.accepted
    <2>1. PICK k \in DOMAIN x.queue : k = n + i /\ n < k /\ q[i] = x.queue[k]
      BY <1>17, <1>19
    <2>2. x.queue[n] < x.queue[k] /\ x.queue[k] <= x.accepted
      BY <1>1, <1>6, <1>18, <2>1, QueueSound DEF Sound
    <2> QED
      BY <1>13, <1>15, <2>1, <2>2
  <1>20. ASSUME NEW i, i \in DOMAIN q, NEW j, j \in DOMAIN q, i < j PROVE q[i] < q[j]
    <2>1. PICK k \in DOMAIN x.queue : k = n + i /\ q[i] = x.queue[k]
      BY <1>17, <1>20
    <2>2. PICK o \in DOMAIN x.queue : o = n + j /\ q[j] = x.queue[o]
      BY <1>17, <1>20
    <2>3. k < o
      BY <1>4, <1>17, <1>20, <2>1, <2>2
    <2> QED
      BY <1>18, <2>1, <2>2, <2>3
  <1>21. WorkerSound(y)
    BY <1>5, <1>8, <1>13, <1>19, <1>20 DEF WorkerSound
  <1> QED
    BY <1>5, <1>10, <1>12, <1>13, <1>14, <1>16, <1>21 DEF Sound, Live

\* A session that waited for its catch-up goes on.
LEMMA CaughtSound ==
  ASSUME NEW s \in Tokens, NEW x, Sound(s, x), NEW c, CoreSound(x, c), c.pc # "none"
  PROVE  /\ Sound(s, Caught(x)) /\ Live(x) /\ Live(Caught(x))
         /\ Caught(x).run = x.run /\ Caught(x).generation = x.generation
         /\ Caught(x).failed = x.failed /\ Caught(x).worker \notin {"append", "notify"}
         /\ Caught(x).settled + Caught(x).batch = x.settled + x.batch
         /\ \/ Caught(x).settled = x.settled
            \/ x.worker = "notify" /\ Caught(x).settled = x.settled + x.batch
  <1>1. x \in Session
    BY DEF Sound
  <1>2. /\ x.settled \in Nat /\ x.batch \in Nat /\ x.accepted \in Nat /\ x.stage \in 0 .. 2
    BY <1>1 DEF Session
  <1>3. x.pc \in {"hydrating", "notifying"} \/ x.worker = "notify"
    BY DEF CoreSound
  <1>4. Live(x)
    BY <1>3 DEF Sound, SessionSound, Closed, Idle, Live
  <1>5. x.pc \in {"hydrating", "notifying"} => x.worker = "idle" /\ x.queue = <<>>
    BY DEF Sound, SessionSound
  <1>6. PICK y : y = Caught(x)
    OBVIOUS
  <1> DEFINE Goes ==
        /\ Sound(s, y) /\ Live(y)
        /\ y.run = x.run /\ y.generation = x.generation
        /\ y.failed = x.failed /\ y.worker \notin {"append", "notify"}
        /\ y.settled + y.batch = x.settled + x.batch
        /\ y.settled = x.settled \/ (x.worker = "notify" /\ y.settled = x.settled + x.batch)
  <1>7. ASSUME x.pc = "hydrating" PROVE Goes
    <2>1. y = [x EXCEPT !.pc = "open"]
      BY <1>6, <1>7 DEF Caught
    <2>2. Sound(s, y) /\ Live(y)
      BY <1>4, <2>1, PcMoves
    <2>3. /\ y.run = x.run /\ y.generation = x.generation /\ y.batch = x.batch
          /\ y.settled = x.settled /\ y.worker = x.worker /\ y.failed = x.failed
      BY <1>1, <2>1 DEF Session
    <2> QED
      BY <1>5, <1>7, <2>2, <2>3
  <1>8. ASSUME x.pc = "notifying" PROVE Goes
    <2>1. PICK n \in 0 .. 2 : n = x.stage + 1
      BY <1>2, <1>8 DEF Sound, SessionSound
    <2>2. y = [x EXCEPT !.pc = "open", !.stage = n]
      BY <1>6, <1>8, <2>1 DEF Caught
    <2>3. y \in Session
      BY <1>1, <2>2 DEF Session
    <2>4. /\ y.pc = "open" /\ y.run = x.run /\ y.generation = x.generation
          /\ y.submission = x.submission /\ y.queue = x.queue /\ y.batch = x.batch
          /\ y.accepted = x.accepted /\ y.settled = x.settled /\ y.worker = x.worker
          /\ y.failed = x.failed /\ y.stage = n
      BY <1>1, <2>2 DEF Session
    <2>5. SessionSound(s, y)
      BY <1>4, <2>4 DEF Sound, SessionSound, Live
    <2>6. WorkerSound(y)
      BY <2>4 DEF Sound, WorkerSound
    <2> QED
      BY <1>5, <1>8, <2>3, <2>4, <2>5, <2>6 DEF Sound, Live
  <1>9. ASSUME x.pc \notin {"hydrating", "notifying"} PROVE Goes
    <2>1. x.worker = "notify"
      BY <1>3, <1>9
    <2>2. PICK n \in Nat : n = x.settled + x.batch
      BY <1>2
    <2>3. y = [x EXCEPT !.worker = "idle", !.settled = n, !.batch = 0]
      BY <1>6, <1>9, <2>2 DEF Caught
    <2>4. y \in Session
      BY <1>1, <2>3 DEF Session
    <2>5. /\ y.pc = x.pc /\ y.run = x.run /\ y.generation = x.generation
          /\ y.submission = x.submission /\ y.queue = x.queue /\ y.batch = 0
          /\ y.accepted = x.accepted /\ y.settled = n /\ y.worker = "idle"
          /\ y.failed = x.failed /\ y.stage = x.stage
      BY <1>1, <2>3 DEF Session
    <2>6. n + 0 = n /\ n <= x.accepted
      BY <1>4, <2>2 DEF Sound, SessionSound, Live
    <2>7. SessionSound(s, y)
      BY <1>4, <1>9, <2>5, <2>6 DEF Sound, SessionSound, Live
    <2>8. WorkerSound(y)
      BY <2>1, <2>2, <2>5, <2>6 DEF Sound, WorkerSound
    <2> QED
      BY <1>4, <2>1, <2>2, <2>4, <2>5, <2>6, <2>7, <2>8 DEF Sound, Live
  <1>10. Goes
    BY <1>7, <1>8, <1>9
  <1> QED
    BY <1>4, <1>6, <1>10

\* ... or raises.
LEMMA RaisedSound ==
  ASSUME NEW s \in Tokens, NEW x, Sound(s, x), NEW c, CoreSound(x, c), c.pc # "none"
  PROVE  /\ Sound(s, CatchUpRaised(x)) /\ Live(x) /\ Live(CatchUpRaised(x))
         /\ CatchUpRaised(x).run = x.run /\ CatchUpRaised(x).generation = x.generation
         /\ CatchUpRaised(x).worker \notin {"append", "notify"}
         /\ CatchUpRaised(x).settled = x.settled
         /\ ~CatchUpRaised(x).failed => ~x.failed /\ CatchUpRaised(x).batch = x.batch
  <1>1. x \in Session
    BY DEF Sound
  <1>3. x.pc \in {"hydrating", "notifying"} \/ x.worker = "notify"
    BY DEF CoreSound
  <1>4. Live(x)
    BY <1>3 DEF Sound, SessionSound, Closed, Idle, Live
  <1>5. x.pc \in {"hydrating", "notifying"} => x.worker = "idle" /\ x.queue = <<>>
    BY DEF Sound, SessionSound
  <1>6. PICK y : y = CatchUpRaised(x)
    OBVIOUS
  <1> DEFINE Goes ==
        /\ Sound(s, y) /\ Live(y)
        /\ y.run = x.run /\ y.generation = x.generation
        /\ y.worker \notin {"append", "notify"}
        /\ y.settled = x.settled
        /\ ~y.failed => ~x.failed /\ y.batch = x.batch
  <1>7. ASSUME x.pc = "hydrating" PROVE Goes
    <2>1. y = [x EXCEPT !.pc = "closing"]
      BY <1>6, <1>7 DEF CatchUpRaised
    <2>2. Sound(s, y) /\ Live(y)
      BY <1>4, <2>1, PcMoves
    <2>3. /\ y.run = x.run /\ y.generation = x.generation /\ y.batch = x.batch
          /\ y.settled = x.settled /\ y.worker = x.worker /\ y.failed = x.failed
      BY <1>1, <2>1 DEF Session
    <2> QED
      BY <1>5, <1>7, <2>2, <2>3
  <1>8. ASSUME x.pc = "notifying" PROVE Goes
    <2>1. y = [x EXCEPT !.pc = "open", !.failed = TRUE]
      BY <1>6, <1>8 DEF CatchUpRaised
    <2>2. Sound(s, y) /\ Live(y)
      BY <1>4, <1>5, <1>8, <2>1, FailsOpen
    <2>3. /\ y.run = x.run /\ y.generation = x.generation /\ y.batch = x.batch
          /\ y.settled = x.settled /\ y.worker = x.worker /\ y.failed = TRUE
      BY <1>1, <2>1 DEF Session
    <2>4. y.failed
      BY <2>3
    <2> QED
      BY <1>5, <1>8, <2>2, <2>3, <2>4
  <1>9. ASSUME x.pc \notin {"hydrating", "notifying"} PROVE Goes
    <2>1. x.worker = "notify" /\ y = Failed(x)
      BY <1>3, <1>6, <1>9 DEF CatchUpRaised
    <2>2. Sound(s, y) /\ Live(y)
      BY <1>4, <2>1, FailedSound
    <2>3. /\ y.run = x.run /\ y.generation = x.generation
          /\ y.settled = x.settled /\ y.worker = "ended" /\ y.failed = TRUE
      BY <1>1, <2>1 DEF Session, Failed
    <2>4. y.failed
      BY <2>3
    <2> QED
      BY <2>2, <2>3, <2>4
  <1>10. Goes
    BY <1>7, <1>8, <1>9
  <1> QED
    BY <1>4, <1>6, <1>10

-----------------------------------------------------------------------------
(***************************************************************************)
(* Steps of a session, of the query, and of neither.                       *)
(***************************************************************************)

\* A session moves; the catch-ups of the others and their states stay.
SessionMoves(s, x) ==
  /\ Becomes(s, x)
  /\ Sound(s, x) /\ CoreSound(x, core'[s]) /\ x.generation <= created'
  /\ Begun(s) => x.run = session[s].run /\ x.generation = session[s].generation
  /\ core' \in [Tokens -> CatchUp]
  /\ \A o \in Tokens : o # s => core'[o] = core[o]

\* One session that moves leaves the sessions sound.
LEMMA MovesSound ==
  ASSUME LedgerSound, SessionsSound, LedgerSound', created' >= created,
         NEW s \in Tokens, NEW x, SessionMoves(s, x), query' \in Query
  PROVE  /\ SessionsSound' /\ Keeping
         /\ session'[s] = x /\ x \in Session
         /\ \A o \in Tokens : o # s => session'[o] = session[o]
  <1>1. session \in [Tokens -> Session]
    BY DEF SessionsSound
  <1>2. x \in Session /\ SessionSound(s, x) /\ WorkerSound(x)
    BY DEF SessionMoves, Sound
  <1>3. \A o \in Tokens : session'[o] = IF o = s THEN x ELSE session[o]
    BY <1>1 DEF SessionMoves, Becomes
  <1>4. session' \in [Tokens -> Session]
    BY <1>1, <1>2 DEF SessionMoves, Becomes
  <1>5. created \in Nat /\ created' \in Nat
    BY DEF LedgerSound, LedgerTypes
  <1>6. ASSUME NEW o \in Tokens
        PROVE  /\ SessionSound(o, session'[o]) /\ WorkerSound(session'[o])
               /\ CoreSound(session'[o], core'[o]) /\ session'[o].generation <= created'
    <2>1. CASE o = s
      BY <1>2, <1>3, <2>1 DEF SessionMoves
    <2>2. CASE o # s
      <3>1. session'[o] = session[o] /\ core'[o] = core[o]
        BY <1>3, <2>2 DEF SessionMoves
      <3>2. /\ SessionSound(o, session[o]) /\ WorkerSound(session[o])
            /\ CoreSound(session[o], core[o])
            /\ session[o].generation <= created
        BY DEF SessionsSound
      <3>3. session[o].generation \in Nat
        BY <1>1 DEF Session
      <3> QED
        BY <1>5, <3>1, <3>2, <3>3
    <2> QED
      BY <2>1, <2>2
  <1>7. core' \in [Tokens -> CatchUp]
    BY DEF SessionMoves
  <1>8. SessionsSound'
    BY <1>4, <1>6, <1>7 DEF SessionsSound, SessionSound, WorkerSound, CoreSound
  <1>9. Keeping
    BY <1>3 DEF Keeping, SessionMoves
  <1> QED
    BY <1>2, <1>3, <1>8, <1>9

\* The facts of a session that is left alone.
LEMMA OthersFacts ==
  ASSUME WritingInv, Keeping, NEW o \in Tokens, \A t \in Threads : GrowsFor(t, o),
         session'[o] = session[o]
  PROVE  FactsSound(o)'
  <1>1. CASE ~Begun(o)
    BY <1>1 DEF FactsSound, Begun
  <1>2. CASE Begun(o)
    <2>1. Thread(o) \in Threads /\ session[o] \in Session
      BY <1>2, BegunThread DEF WritingInv
    <2>2. Loosens(o, session'[o])
      BY LoosensItself DEF WritingInv
    <2>3. GrowsFor(Thread(o), o) /\ session'[o] \in Session
      BY <2>1
    <2>4. LedgerSound /\ SessionsSound /\ LogSound /\ FactsSound(o)
      BY DEF WritingInv
    <2> QED
      BY <1>2, <2>2, <2>3, <2>4, FactsFrame
  <1> QED
    BY <1>1, <1>2

\* A session moves and nothing is appended.
LEMMA QuietStep ==
  ASSUME WritingInv, RestsAll, NEW s \in Tokens, NEW x, SessionMoves(s, x),
         x.generation = 0 \/ Loosens(s, x) \/ FactsSound(s)',
         query' \in Query, UNCHANGED query \/ QuerySound'
  PROVE  WritingInv'
  <1>1. LedgerSound /\ SessionsSound /\ LogSound /\ QuerySound
    BY DEF WritingInv
  <1>2. LedgerSound' /\ created' >= created
    BY DEF RestsAll
  <1>3. /\ SessionsSound' /\ Keeping /\ session'[s] = x /\ x \in Session
        /\ \A o \in Tokens : o # s => session'[o] = session[o]
    BY <1>1, <1>2, MovesSound
  <1>4. LogSound'
    BY <1>1, <1>3, RestsLog
  <1>5. \A t \in Threads, o \in Tokens : Grows(t) /\ GrowsFor(t, o)
    BY <1>1, RestsGrows
  <1>6. ASSUME NEW o \in Tokens PROVE FactsSound(o)'
    <2>1. CASE o # s
      BY <1>3, <1>5, <2>1, OthersFacts
    <2>2. CASE o = s /\ (x.generation = 0 \/ ~Begun(s))
      <3>1. CASE x.generation = 0
        BY <1>3, <2>2, <3>1 DEF FactsSound, Begun
      <3>2. CASE FactsSound(s)'
        BY <2>2, <3>2
      <3>3. CASE Loosens(s, x) /\ ~Begun(s)
        BY <1>3, <2>2, <3>3 DEF FactsSound, Begun, Loosens
      <3> QED
        BY <2>2, <3>1, <3>2, <3>3
    <2>3. CASE o = s /\ Begun(s) /\ Loosens(s, x)
      <3>1. Thread(s) \in Threads
        BY <1>1, <2>3, BegunThread
      <3>2. GrowsFor(Thread(s), s) /\ FactsSound(s)
        BY <1>5, <3>1 DEF WritingInv
      <3> QED
        BY <1>1, <1>3, <2>3, <3>2, FactsFrame
    <2> QED
      BY <2>1, <2>2, <2>3
  <1>7. QuerySound'
    BY <1>1, <1>3, <1>5, QueryFrame
  <1> QED
    BY <1>2, <1>3, <1>4, <1>6, <1>7 DEF WritingInv

\* Nothing is appended and no session moves.
LEMMA RestStep ==
  ASSUME WritingInv, RestsAll, UNCHANGED <<session, core>>,
         query' \in Query, UNCHANGED query \/ QuerySound'
  PROVE  WritingInv'
  <1>1. LedgerSound /\ SessionsSound /\ LogSound /\ QuerySound
    BY DEF WritingInv
  <1>2. LedgerSound' /\ created' >= created /\ created \in Nat /\ created' \in Nat
    <2>1. LedgerSound' /\ created' >= created
      BY DEF RestsAll
    <2> QED
      BY <1>1, <2>1 DEF LedgerSound, LedgerTypes
  <1>3. Keeping
    BY DEF Keeping
  <1>4. SessionsSound'
    <2>1. ASSUME NEW o \in Tokens PROVE session[o].generation <= created'
      <3>1. session[o].generation \in Nat /\ session[o].generation <= created
        BY <1>1 DEF SessionsSound, Session
      <3> QED
        BY <1>2, <3>1
    <2> QED
      BY <1>1, <2>1 DEF SessionsSound
  <1>5. LogSound'
    BY <1>1, <1>3, RestsLog
  <1>6. \A t \in Threads : Grows(t) /\ \A o \in Tokens : GrowsFor(t, o)
    BY <1>1, RestsGrows
  <1>7. ASSUME NEW o \in Tokens PROVE FactsSound(o)'
    <2>1. session'[o] = session[o]
      OBVIOUS
    <2> QED
      BY <1>3, <1>6, <2>1, OthersFacts
  <1>8. QuerySound'
    BY <1>1, <1>3, <1>6, QueryFrame
  <1> QED
    BY <1>2, <1>4, <1>5, <1>7, <1>8 DEF WritingInv

\* A session appends facts, or one of the last two of its Run.
LEMMA AppendStep ==
  ASSUME WritingInv, NEW s \in Tokens, NEW x, SessionMoves(s, x), UNCHANGED query,
         NEW events \in Seq(Event), NEW w,
         Adds(session[s].run, session[s].generation, s, events, w),
         session[s].run \in Runs,
         \A i \in DOMAIN events :
           events[i].phase = "fact" <=> events[i].id[2] \in 1 .. MaxFacts[s],
         NEW m \in Nat,
         \/ (\A i \in DOMAIN events : events[i].phase # "fact") /\ Loosens(s, x)
         \/ Follows(ThreadOf[session[s].run], s, events, m) /\ FactsSound(s)'
  PROVE  WritingInv'
  <1>1. LedgerSound /\ SessionsSound /\ LogSound /\ QuerySound
    BY DEF WritingInv
  <1>2. PICK r \in Runs : r = session[s].run
    OBVIOUS
  <1>3. PICK g : g = session[s].generation
    OBVIOUS
  <1>4. Adds(r, g, s, events, w)
    BY <1>2, <1>3
  <1>5. PICK l \in Nat : Appends(r, s, events, w, l)
    BY <1>1, <1>4, AddsAppends
  <1>6. LedgerSound'
    BY <1>1, <1>4, AddsLedger
  <1>7. created' >= created
    BY <1>1, <1>4 DEF Adds, WriterReplaced, LedgerSound, LedgerTypes
  <1>8. query' \in Query
    BY <1>1 DEF SessionsSound
  <1>9. /\ SessionsSound' /\ Keeping /\ session'[s] = x /\ x \in Session
        /\ \A o \in Tokens : o # s => session'[o] = session[o]
    BY <1>1, <1>6, <1>7, <1>8, MovesSound
  <1>10. \/ \A i \in DOMAIN events : events[i].phase # "fact"
         \/ Follows(ThreadOf[r], s, events, m)
    BY <1>2
  <1>11. LogSound'
    BY <1>1, <1>2, <1>3, <1>4, <1>5, <1>9, <1>10, LogAdds
  <1>12. ASSUME NEW t \in Threads
         PROVE  /\ Grows(t)
                /\ \A o \in Tokens :
                     (o # s \/ \A i \in DOMAIN events : events[i].phase # "fact")
                       => GrowsFor(t, o)
    BY <1>1, <1>4, <1>5, AppendsGrows
  <1>13. \A o \in Tokens : o # s => FactsSound(o)'
    BY <1>9, <1>12, OthersFacts
  <1>14. FactsSound(s)'
    <2>1. SUFFICES ASSUME \A i \in DOMAIN events : events[i].phase # "fact",
                          Loosens(s, x)
                   PROVE  FactsSound(s)'
      OBVIOUS
    <2>2. Begun(s)
      <3>1. generation[ThreadOf[r]] = g /\ Exists(r)
        BY <1>4 DEF Adds
      <3>2. g # 0
        BY <1>1, <3>1, WriterOwned
      <3> QED
        BY <1>3, <3>2 DEF Begun
    <2>3. Thread(s) \in Threads
      BY <1>1, <2>2, BegunThread
    <2>4. GrowsFor(Thread(s), s) /\ FactsSound(s)
      BY <1>12, <2>1, <2>3 DEF WritingInv
    <2> QED
      BY <1>1, <1>9, <2>1, <2>2, <2>4, FactsFrame
  <1>15. QuerySound'
    BY <1>1, <1>9, <1>12, QueryFrame
  <1> QED
    BY <1>6, <1>9, <1>11, <1>13, <1>14, <1>15 DEF WritingInv

\* What is known of a session.
LEMMA SessionFacts ==
  ASSUME WritingInv, NEW s \in Tokens
  PROVE  /\ LedgerSound /\ SessionsSound /\ LogSound
         /\ session[s] \in Session /\ Sound(s, session[s])
         /\ CoreSound(session[s], core[s]) /\ core[s] \in CatchUp
         /\ session[s].generation <= created /\ session[s].generation \in Nat
         /\ query \in Query /\ core \in [Tokens -> CatchUp]
         /\ Live(session[s]) =>
              /\ session[s].run \in Runs /\ Begun(s) /\ Thread(s) \in Threads
              /\ Thread(s) = ThreadOf[session[s].run]
         /\ created \in Nat
  <1>1. LedgerSound /\ SessionsSound /\ LogSound
    BY DEF WritingInv
  <1>2. /\ session[s] \in Session /\ SessionSound(s, session[s]) /\ WorkerSound(session[s])
        /\ CoreSound(session[s], core[s]) /\ core[s] \in CatchUp
        /\ session[s].generation <= created
        /\ query \in Query /\ core \in [Tokens -> CatchUp]
    BY <1>1 DEF SessionsSound
  <1>3. Sound(s, session[s])
    BY <1>2 DEF Sound
  <1>4. Live(session[s]) =>
              /\ session[s].run \in Runs /\ Begun(s) /\ Thread(s) \in Threads
              /\ Thread(s) = ThreadOf[session[s].run]
    BY <1>2, LimitsAssumption DEF SessionSound, Live, Begun, Thread
  <1>5. session[s].generation \in Nat
    BY <1>2 DEF Session
  <1>6. created \in Nat
    BY <1>1 DEF LedgerSound, LedgerTypes
  <1> QED
    BY <1>1, <1>2, <1>3, <1>4, <1>5, <1>6

\* A live session moves, nobody's catch-up does.
LEMMA QuietMove ==
  ASSUME WritingInv, RestsAll, NEW s \in Tokens, NEW x, Becomes(s, x), Sound(s, x),
         CoreSound(x, core[s]), UNCHANGED <<core, query>>, Loosens(s, x)
  PROVE  WritingInv'
  <1>1. /\ session[s].generation <= created /\ session[s].generation \in Nat
        /\ query \in Query /\ core \in [Tokens -> CatchUp] /\ created \in Nat
    BY SessionFacts
  <1>2. created' >= created /\ created' \in Nat
    <2>1. LedgerSound' /\ created' >= created
      BY DEF RestsAll
    <2> QED
      BY <2>1 DEF LedgerSound, LedgerTypes
  <1>3. x.run = session[s].run /\ x.generation = session[s].generation
    BY DEF Loosens
  <1>4. SessionMoves(s, x)
    BY <1>1, <1>2, <1>3 DEF SessionMoves
  <1>5. query' \in Query
    BY <1>1
  <1> QED
    BY <1>4, <1>5, QuietStep

\* A session goes from one of its calls to another.
LEMMA PcStep ==
  ASSUME WritingInv, RestsAll, NEW s \in Tokens, Live(session[s]),
         session[s].pc \notin {"hydrating", "notifying"},
         NEW p \in {"open", "finishing", "closing"},
         p = "finishing" => session[s].stage < 2,
         Becomes(s, [session[s] EXCEPT !.pc = p]), UNCHANGED <<core, query>>
  PROVE  WritingInv'
  <1>1. PICK x : x = [session[s] EXCEPT !.pc = p]
    OBVIOUS
  <1>2. session[s] \in Session /\ Sound(s, session[s]) /\ CoreSound(session[s], core[s])
    BY SessionFacts
  <1>3. Sound(s, x) /\ Live(x)
    BY <1>1, <1>2, PcMoves
  <1>4. /\ x.run = session[s].run /\ x.generation = session[s].generation
        /\ x.settled = session[s].settled /\ x.batch = session[s].batch
        /\ x.worker = session[s].worker /\ x.failed = session[s].failed
    BY <1>1, <1>2 DEF Session
  <1>5. CoreSound(x, core[s])
    BY <1>2, <1>4 DEF CoreSound
  <1>6. session[s].settled + session[s].batch \in Nat
    BY <1>2 DEF Session
  <1>7. Loosens(s, x)
    BY <1>4, <1>6 DEF Loosens, Live
  <1> QED
    BY <1>1, <1>3, <1>5, <1>7, QuietMove

\* All that a session accepted is settled.
LEMMA ForcedIdle ==
  ASSUME NEW s \in Tokens, NEW x, Sound(s, x), Live(x), ~x.failed,
         x.settled >= x.accepted
  PROVE  x.worker = "idle" /\ x.queue = <<>> /\ x.batch = 0
  <1>1. x \in Session /\ WorkerSound(x)
    BY DEF Sound
  <1>2. /\ x.settled \in Nat /\ x.batch \in Nat /\ x.accepted \in Nat
        /\ x.queue \in Seq(Nat) /\ x.worker \in {"idle", "append", "notify", "ended"}
    BY <1>1 DEF Session
  <1>3. x.settled + x.batch <= x.accepted
    BY DEF Sound, SessionSound, Live
  <1>4. x.batch = 0
    BY <1>2, <1>3
  <1>5. x.worker = "idle"
    BY <1>1, <1>2, <1>4 DEF WorkerSound
  <1>6. x.queue = <<>>
    <2> SUFFICES ASSUME x.queue # <<>> PROVE FALSE
      OBVIOUS
    <2>1. 1 \in DOMAIN x.queue
      BY <1>2
    <2>2. x.settled + x.batch < x.queue[1] /\ x.queue[1] <= x.accepted
          /\ x.queue[1] \in Nat
      BY <1>1, <2>1, QueueSound
    <2> QED
      BY <1>2, <1>4, <2>2
  <1> QED
    BY <1>4, <1>5, <1>6

\* What a call that finishes finds.
LEMMA FinishesFacts ==
  ASSUME WritingInv, NEW s \in Tokens, Finishes(s)
  PROVE  /\ Live(session[s]) /\ session[s].pc \in {"open", "finishing"}
         /\ session[s].stage < 2 /\ session[s].stage \in Nat
         /\ ~session[s].failed
         /\ session[s].worker = "idle" /\ session[s].queue = <<>>
         /\ session[s].batch = 0
         /\ core[s].pc = "none"
  <1>1. session[s] \in Session /\ Sound(s, session[s]) /\ CoreSound(session[s], core[s])
    BY SessionFacts
  <1>2. session[s].pc \in {"open", "finishing"}
    BY DEF Finishes, At
  <1>3. Live(session[s])
    BY <1>2 DEF Live
  <1>4. session[s].stage < 2
    BY <1>1 DEF Finishes, At, Sound, SessionSound
  <1>5. ~session[s].failed /\ session[s].settled >= session[s].accepted
    BY DEF Finishes, Forced, ForceReturns
  <1>6. session[s].worker = "idle" /\ session[s].queue = <<>> /\ session[s].batch = 0
    BY <1>1, <1>3, <1>5, ForcedIdle
  <1>7. core[s].pc = "none"
    BY <1>1, <1>2, <1>6 DEF CoreSound
  <1>8. session[s].stage \in Nat
    BY <1>1 DEF Session
  <1> QED
    BY <1>2, <1>3, <1>4, <1>5, <1>6, <1>7, <1>8

\* What a call that releases the writer finds.
LEMMA ReleaseFacts ==
  ASSUME WritingInv, NEW s \in Tokens, session[s].pc \in {"open", "closing"},
         Forced(s) \/ ForceRaises(s)
  PROVE  /\ Live(session[s]) /\ session[s].worker \in {"idle", "ended"}
         /\ core[s].pc = "none"
  <1>1. session[s] \in Session /\ Sound(s, session[s]) /\ CoreSound(session[s], core[s])
    BY SessionFacts
  <1>2. Live(session[s])
    BY DEF Live
  <1>3. session[s].worker \in {"idle", "ended"}
    <2>1. CASE session[s].failed
      <3>1. session[s].worker \in {"idle", "append", "notify", "ended"}
        BY <1>1 DEF Session
      <3> QED
        BY <1>1, <2>1, <3>1 DEF Sound, WorkerSound
    <2>2. CASE ~session[s].failed
      <3>1. session[s].settled >= session[s].accepted
        BY <2>2 DEF Forced, ForceReturns, ForceRaises
      <3> QED
        BY <1>1, <1>2, <2>2, <3>1, ForcedIdle
    <2> QED
      BY <2>1, <2>2
  <1>4. core[s].pc = "none"
    BY <1>1, <1>3 DEF CoreSound
  <1> QED
    BY <1>2, <1>3, <1>4

-----------------------------------------------------------------------------
(***************************************************************************)
(* Every action keeps the invariant.                                       *)
(***************************************************************************)

\* Submit, and a submission that waited.
LEMMA AcceptsStep ==
  ASSUME WritingInv, NEW s \in Tokens, Live(session[s]), ~session[s].failed,
         session[s].pc \notin {"hydrating", "notifying"},
         NEW n \in Nat, n >= 1, session[s].accepted + n <= MaxFacts[s],
         Becomes(s, Accepts(session[s], n)), UNCHANGED <<ledgerVars, core, query>>
  PROVE  WritingInv'
  <1>1. PICK x : x = Accepts(session[s], n)
    OBVIOUS
  <1>2. /\ session[s] \in Session /\ Sound(s, session[s])
        /\ CoreSound(session[s], core[s]) /\ LedgerSound
    BY SessionFacts
  <1>3. Sound(s, x) /\ Live(x)
    BY <1>1, <1>2, AcceptsSound
  <1>4. /\ x.run = session[s].run /\ x.generation = session[s].generation
        /\ x.settled = session[s].settled /\ x.batch = session[s].batch
        /\ x.worker = session[s].worker /\ x.failed = session[s].failed
    BY <1>1, <1>2 DEF Session, Accepts
  <1>5. CoreSound(x, core[s])
    BY <1>2, <1>4 DEF CoreSound
  <1>6. session[s].settled + session[s].batch \in Nat
    BY <1>2 DEF Session
  <1>7. Loosens(s, x)
    BY <1>4, <1>6 DEF Loosens, Live
  <1>8. RestsAll
    BY <1>2, UnchangedRests
  <1> QED
    BY <1>1, <1>3, <1>5, <1>7, <1>8, QuietMove

\* A submission that waits, or is released by a failure.
LEMMA SubmissionStep ==
  ASSUME WritingInv, NEW s \in Tokens, Live(session[s]),
         session[s].pc \notin {"hydrating", "notifying"},
         NEW p \in {"open", "submitting"}, NEW n \in Nat,
         p = "submitting" => n >= 1 /\ session[s].accepted + n <= MaxFacts[s],
         Becomes(s, [session[s] EXCEPT !.pc = p, !.submission = n]),
         UNCHANGED <<ledgerVars, core, query>>
  PROVE  WritingInv'
  <1>1. PICK x : x = [session[s] EXCEPT !.pc = p, !.submission = n]
    OBVIOUS
  <1>2. /\ session[s] \in Session /\ Sound(s, session[s])
        /\ CoreSound(session[s], core[s]) /\ LedgerSound
    BY SessionFacts
  <1>3. Sound(s, x) /\ Live(x)
    BY <1>1, <1>2, SubmissionMoves
  <1>4. /\ x.run = session[s].run /\ x.generation = session[s].generation
        /\ x.settled = session[s].settled /\ x.batch = session[s].batch
        /\ x.worker = session[s].worker /\ x.failed = session[s].failed
    BY <1>1, <1>2 DEF Session
  <1>5. CoreSound(x, core[s])
    BY <1>2, <1>4 DEF CoreSound
  <1>6. session[s].settled + session[s].batch \in Nat
    BY <1>2 DEF Session
  <1>7. Loosens(s, x)
    BY <1>4, <1>6 DEF Loosens, Live
  <1>8. RestsAll
    BY <1>2, UnchangedRests
  <1> QED
    BY <1>1, <1>3, <1>5, <1>7, <1>8, QuietMove

\* submit.
LEMMA SubmitStep ==
  ASSUME WritingInv, NEW s \in Tokens, NEW n \in Submissions, Submit(s, n)
  PROVE  WritingInv'
  <1>1. n \in Nat /\ n >= 1
    BY WritingAssumption
  <1>2. /\ Live(session[s]) /\ session[s].pc \notin {"hydrating", "notifying"}
        /\ ~session[s].failed /\ session[s].accepted + n <= MaxFacts[s]
        /\ UNCHANGED <<ledgerVars, core, query>>
    BY DEF Submit, At, Live
  <1>3. CASE Becomes(s, Accepts(session[s], n))
    BY <1>1, <1>2, <1>3, AcceptsStep
  <1>4. CASE Becomes(s, [session[s] EXCEPT !.pc = "submitting", !.submission = n])
    BY <1>1, <1>2, <1>4, SubmissionStep
  <1> QED
    BY <1>3, <1>4 DEF Submit

\* A submission that found room, or raises.
LEMMA SubmittedStep ==
  ASSUME WritingInv, NEW s \in Tokens, Submitted(s)
  PROVE  WritingInv'
  <1>1. /\ Live(session[s]) /\ session[s].pc = "submitting"
        /\ UNCHANGED <<ledgerVars, core, query>>
    BY DEF Submitted, At, Live
  <1>2. session[s] \in Session /\ Sound(s, session[s])
    BY SessionFacts
  <1>3. CASE session[s].failed
    <2>1. Becomes(s, [session[s] EXCEPT !.pc = "open", !.submission = 0])
      BY <1>3 DEF Submitted
    <2> QED
      BY <1>1, <2>1, SubmissionStep
  <1>4. CASE ~session[s].failed
    <2>1. PICK n \in Nat : n = session[s].submission
      BY <1>2 DEF Session
    <2>2. n >= 1 /\ session[s].accepted + n <= MaxFacts[s]
      BY <1>1, <1>2, <2>1 DEF Sound, SessionSound
    <2>3. Becomes(s, Accepts(session[s], n))
      BY <1>4, <2>1 DEF Submitted
    <2> QED
      BY <1>1, <1>4, <2>2, <2>3, AcceptsStep
  <1> QED
    BY <1>3, <1>4

\* The worker takes a batch off the queue.
LEMMA NextBatchStep ==
  ASSUME WritingInv, NEW s \in Tokens, NextBatch(s)
  PROVE  WritingInv'
  <1>1. PICK x : x = TakesBatch(session[s])
    OBVIOUS
  <1>2. /\ session[s] \in Session /\ Sound(s, session[s])
        /\ CoreSound(session[s], core[s]) /\ LedgerSound
    BY SessionFacts
  <1>3. session[s].worker = "idle" /\ session[s].queue # <<>>
    BY DEF NextBatch
  <1>4. Becomes(s, x)
    BY <1>1, Zenon DEF NextBatch, TakesBatch
  <1>5. /\ Sound(s, x) /\ Live(x) /\ Live(session[s]) /\ ~session[s].failed
        /\ session[s].batch = 0
        /\ x.pc = session[s].pc /\ x.run = session[s].run
        /\ x.generation = session[s].generation
        /\ x.settled = session[s].settled /\ x.failed = session[s].failed
        /\ x.worker = "append" /\ x.batch \in Nat
    BY <1>1, <1>2, <1>3, TakesBatchSound
  <1>6. CoreSound(x, core[s])
    BY <1>2, <1>3, <1>5 DEF CoreSound
  <1>7. session[s].settled \in Nat
    BY <1>2 DEF Session
  <1>8. Loosens(s, x)
    BY <1>5, <1>7 DEF Loosens, Live
  <1>9. RestsAll /\ UNCHANGED <<core, query>>
    BY <1>2, UnchangedRests DEF NextBatch
  <1> QED
    BY <1>4, <1>5, <1>6, <1>8, <1>9, QuietMove

\* The worker's append raises.
LEMMA WorkerFailsStep ==
  ASSUME WritingInv, NEW s \in Tokens, WorkerFails(s)
  PROVE  WritingInv'
  <1>1. PICK x : x = Failed(session[s])
    OBVIOUS
  <1>2. /\ session[s] \in Session /\ Sound(s, session[s])
        /\ CoreSound(session[s], core[s]) /\ LedgerSound
    BY SessionFacts
  <1>3. session[s].worker = "append" /\ Becomes(s, x)
    BY <1>1 DEF WorkerFails
  <1>4. Live(session[s])
    BY <1>2, <1>3 DEF Sound, SessionSound, Closed, Idle, Live
  <1>5. Sound(s, x) /\ Live(x)
    BY <1>1, <1>2, <1>3, <1>4, FailedSound
  <1>6. /\ x.run = session[s].run /\ x.generation = session[s].generation
        /\ x.settled = session[s].settled /\ x.worker = "ended" /\ x.failed = TRUE
    BY <1>1, <1>2 DEF Session, Failed
  <1>7. core[s].pc = "none"
    BY <1>2, <1>3 DEF CoreSound, Sound, SessionSound
  <1>8. CoreSound(x, core[s])
    BY <1>7 DEF CoreSound
  <1>9. Loosens(s, x)
    BY <1>6 DEF Loosens
  <1>10. RestsAll /\ UNCHANGED <<core, query>>
    BY <1>2, UnchangedRests DEF WorkerFails
  <1> QED
    BY <1>3, <1>5, <1>8, <1>9, <1>10, QuietMove

\* Calls that wait for a force, and one that it lets raise.
LEMMA WaitingSteps ==
  ASSUME WritingInv, NEW s \in Tokens,
         FinishWaits(s) \/ FinishRaises(s) \/ CloseWaits(s)
  PROVE  WritingInv'
  <1>1. LedgerSound
    BY DEF WritingInv
  <1>2. RestsAll
    BY <1>1, UnchangedRests DEF FinishWaits, FinishRaises, CloseWaits
  <1>3. CASE FinishWaits(s)
    BY <1>2, <1>3, PcStep DEF FinishWaits, At, Live
  <1>4. CASE FinishRaises(s)
    BY <1>2, <1>4, PcStep DEF FinishRaises, At, Live
  <1>5. CASE CloseWaits(s)
    BY <1>2, <1>5, PcStep DEF CloseWaits, At, Live
  <1> QED
    BY <1>3, <1>4, <1>5

\* The append of a mandatory fact raises.
LEMMA MandatoryFailsStep ==
  ASSUME WritingInv, NEW s \in Tokens, MandatoryFails(s)
  PROVE  WritingInv'
  <1>1. PICK x : x = [session[s] EXCEPT !.pc = "open", !.failed = TRUE]
    OBVIOUS
  <1>2. /\ session[s] \in Session /\ Sound(s, session[s]) /\ LedgerSound
    BY SessionFacts
  <1>3. /\ Live(session[s]) /\ session[s].worker = "idle" /\ session[s].queue = <<>>
        /\ core[s].pc = "none"
    BY FinishesFacts DEF MandatoryFails
  <1>4. Sound(s, x) /\ Live(x)
    BY <1>1, <1>2, <1>3, FailsOpen
  <1>5. /\ x.run = session[s].run /\ x.generation = session[s].generation
        /\ x.settled = session[s].settled /\ x.batch = session[s].batch
        /\ x.worker = session[s].worker /\ x.failed = TRUE
    BY <1>1, <1>2 DEF Session
  <1>6. CoreSound(x, core[s])
    BY <1>3 DEF CoreSound
  <1>7. Loosens(s, x)
    BY <1>3, <1>5 DEF Loosens
  <1>8. RestsAll /\ UNCHANGED <<core, query>> /\ Becomes(s, x)
    BY <1>1, <1>2, UnchangedRests DEF MandatoryFails
  <1> QED
    BY <1>4, <1>6, <1>7, <1>8, QuietMove

\* A session is over, whatever it was about.
LEMMA OverStep ==
  ASSUME WritingInv, RestsAll, NEW s \in Tokens, Becomes(s, Closed(session[s])),
         core' \in [Tokens -> CatchUp], core'[s].pc = "none",
         \A o \in Tokens : o # s => core'[o] = core[o],
         query' \in Query, UNCHANGED query \/ QuerySound'
  PROVE  WritingInv'
  <1>1. PICK x : x = Closed(session[s])
    OBVIOUS
  <1>2. /\ session[s] \in Session /\ Sound(s, session[s])
        /\ session[s].generation <= created /\ session[s].generation \in Nat
        /\ created \in Nat
    BY SessionFacts
  <1>3. created' >= created /\ created' \in Nat
    <2>1. LedgerSound' /\ created' >= created
      BY DEF RestsAll
    <2> QED
      BY <2>1 DEF LedgerSound, LedgerTypes
  <1>4. session[s].generation # 0 => session[s].run \in Runs
    BY <1>2 DEF Sound, SessionSound
  <1>5. Sound(s, x)
    BY <1>1, <1>2, <1>4, ClosedSound
  <1>6. /\ x.run = session[s].run /\ x.generation = session[s].generation
        /\ x.settled = session[s].settled /\ x.worker = "idle" /\ x.pc = "closed"
    BY <1>1 DEF Closed, Idle
  <1>7. CoreSound(x, core'[s])
    BY DEF CoreSound
  <1>8. SessionMoves(s, x)
    BY <1>1, <1>2, <1>3, <1>5, <1>6, <1>7 DEF SessionMoves
  <1>9. Loosens(s, x)
    BY <1>6 DEF Loosens
  <1> QED
    BY <1>8, <1>9, QuietStep

\* The process of a session dies.
LEMMA CrashStep ==
  ASSUME WritingInv, NEW s \in Tokens, Crash(s)
  PROVE  WritingInv'
  <1>1. /\ LedgerSound /\ query \in Query /\ core \in [Tokens -> CatchUp]
    BY SessionFacts
  <1>2. RestsAll
    BY <1>1, UnchangedRests DEF Crash
  <1>3. NoCatchUp \in CatchUp /\ NoCatchUp.pc = "none"
    BY DEF NoCatchUp, CatchUp
  <1>4. /\ core' \in [Tokens -> CatchUp] /\ core'[s].pc = "none"
        /\ \A o \in Tokens : o # s => core'[o] = core[o]
    BY <1>1, <1>3 DEF Crash
  <1>5. Answered \in Query /\ Answered.pc = "done"
    BY DEF Answered, NoQuery, Query
  <1>6. query' \in Query
    BY <1>1, <1>5 DEF Crash
  <1>7. UNCHANGED query \/ QuerySound'
    BY <1>5 DEF Crash, QuerySound
  <1>8. Becomes(s, Closed(session[s]))
    BY DEF Crash
  <1> QED
    BY <1>2, <1>4, <1>6, <1>7, <1>8, OverStep

\* close_writer, and the end of its session.
LEMMA ReleaseRests ==
  ASSUME WritingInv, NEW s \in Tokens, Release(s)
  PROVE  RestsAll
  <1>1. LedgerSound /\ Live(session[s]) /\ session[s].run \in Runs
    BY SessionFacts, ReleaseFacts DEF Release
  <1>2. PICK r \in Runs : r = session[s].run
    BY <1>1
  <1>3. CASE UNCHANGED ledgerVars
    BY <1>1, <1>3, UnchangedRests
  <1>4. CASE CloseWriter(r, session[s].generation, s, session[s].fence)
    <2>1. Retires(r) \/ Removes(r) \/ Drops(ThreadOf[r])
      BY <1>1, <1>4, CloseWriterEnds
    <2>2. ThreadOf[r] \in Threads
      BY LimitsAssumption
    <2> QED
      BY <1>1, <2>1, <2>2, CloseRests, DropsRests
  <1> QED
    BY <1>2, <1>3, <1>4 DEF Release, NothingClosed

\* aclose and close_writer.
LEMMA ReleaseSteps ==
  ASSUME WritingInv, NEW s \in Tokens,
         Released(s) \/ ReleaseInDoubt(s) \/ ReleaseFails(s)
  PROVE  WritingInv'
  <1>1. /\ Live(session[s]) /\ core[s].pc = "none"
        /\ session[s].pc \in {"open", "closing"}
    BY ReleaseFacts DEF Released, ReleaseInDoubt, ReleaseFails, Release
  <1>2. LedgerSound /\ core \in [Tokens -> CatchUp] /\ query \in Query
    BY SessionFacts
  <1>3. CASE Released(s)
    <2>1. RestsAll /\ UNCHANGED <<core, query>> /\ Becomes(s, Closed(session[s]))
      BY <1>3, ReleaseRests DEF Released
    <2> QED
      BY <1>1, <1>2, <2>1, OverStep
  <1>4. CASE ReleaseInDoubt(s)
    <2>1. /\ RestsAll /\ UNCHANGED <<core, query>>
          /\ Becomes(s, [session[s] EXCEPT !.pc = "closing"])
      BY <1>4, ReleaseRests DEF ReleaseInDoubt
    <2> QED
      BY <1>1, <2>1, PcStep
  <1>5. CASE ReleaseFails(s)
    <2>1. RestsAll /\ UNCHANGED <<core, query>> /\ Becomes(s, Closed(session[s]))
      BY <1>2, <1>5, UnchangedRests DEF ReleaseFails
    <2> QED
      BY <1>1, <1>2, <2>1, OverStep
  <1> QED
    BY <1>3, <1>4, <1>5

\* What a call that opens a Run finds.
LEMMA OpensFacts ==
  ASSUME WritingInv, NEW s \in Tokens, NEW r, OpensRun(s, r)
  PROVE  /\ session[s].generation = 0 /\ ~Begun(s)
         /\ session[s].pc \in {"idle", "opening"}
         /\ session[s] = [Idle EXCEPT !.pc = session[s].pc, !.run = session[s].run]
         /\ session[s].worker = "idle" /\ session[s].queue = <<>>
         /\ session[s].batch = 0 /\ session[s].settled = 0 /\ session[s].accepted = 0
         /\ core[s].pc = "none"
  <1>1. /\ session[s] \in Session /\ Sound(s, session[s])
        /\ CoreSound(session[s], core[s])
    BY SessionFacts
  <1>2. session[s].pc \in {"idle", "opening"}
    BY DEF OpensRun, At
  <1>3. PICK x : x = session[s]
    OBVIOUS
  <1>4. x = [Idle EXCEPT !.pc = x.pc, !.run = x.run]
    BY <1>1, <1>2, <1>3 DEF Sound, SessionSound
  <1>5. /\ x.generation = 0 /\ x.worker = "idle" /\ x.queue = <<>>
        /\ x.batch = 0 /\ x.settled = 0 /\ x.accepted = 0
    BY <1>4 DEF Idle
  <1>6. core[s].pc = "none"
    BY <1>1, <1>2, <1>3, <1>5 DEF CoreSound
  <1> QED
    BY <1>2, <1>3, <1>4, <1>5, <1>6 DEF Begun

\* open_writer gives the Run to the session that asks.
LEMMA OpenWriterRests ==
  ASSUME WritingInv, NEW s \in Tokens, NEW r \in Runs, OpensRun(s, r), OpenWriter(r, s)
  PROVE  /\ RestsAll
         /\ generation'[ThreadOf[r]] # 0 /\ generation'[ThreadOf[r]] \in Nat
         /\ generation'[ThreadOf[r]] <= created'
         /\ writers'[r].fence \in Nat
         /\ UNCHANGED log
  <1>1. LedgerSound /\ ~Begun(s) /\ s # Nobody /\ ThreadOf[r] \in Threads
    BY OpensFacts, LimitsAssumption DEF WritingInv
  <1>2. writers \in [Runs -> Writer] /\ writers[r] \in Writer
    BY <1>1 DEF LedgerSound, LedgerTypes
  <1>3. RestsAll /\ UNCHANGED log /\ writers'[r].owner = s
    <2>1. CASE OpenNew(r, s)
      <3>1. writers'[r].owner = s
        BY <1>2, <2>1, NewWriterSound DEF OpenNew
      <3> QED
        BY <1>1, <2>1, <3>1, OpenNewRests DEF OpenNew
    <2>2. CASE OpenAgain(r, s) \/ TakeOver(r, s)
      <3>1. Hands(r, s)
        BY <1>1, <2>2, OpenHands
      <3>2. RestsAll
        BY <1>1, <3>1, HandsRests
      <3>3. PICK fence \in Nat, leased \in BOOLEAN :
              WriterReplaced(r, Passed(r, s, fence, leased))
        BY <3>1 DEF Hands
      <3>4. writers'[r] = Passed(r, s, fence, leased)
        BY <1>2, <3>3 DEF WriterReplaced
      <3>5. writers'[r].owner = s
        BY <1>2, <3>4 DEF Passed, Writer
      <3> QED
        BY <3>1, <3>2, <3>5 DEF Hands
    <2> QED
      BY <2>1, <2>2 DEF OpenWriter
  <1>4. LedgerSound'
    BY <1>3 DEF RestsAll
  <1>5. /\ WriterSound(r)' /\ ThreadSound(ThreadOf[r])' /\ writers'[r] \in Writer
        /\ generation'[ThreadOf[r]] \in Nat
    BY <1>1, <1>4 DEF LedgerSound, LedgerTypes
  <1>6. generation'[ThreadOf[r]] # 0 /\ generation'[ThreadOf[r]] <= created'
    BY <1>1, <1>3, <1>5 DEF WriterSound, ThreadSound, Exists
  <1>7. writers'[r].fence \in Nat
    BY <1>5 DEF Writer
  <1> QED
    BY <1>3, <1>5, <1>6, <1>7

\* An open whose reply is lost.
LEMMA OpenInDoubtStep ==
  ASSUME WritingInv, NEW s \in Tokens, NEW r \in Runs, OpenInDoubt(s, r)
  PROVE  WritingInv'
  <1>1. PICK x : x = [session[s] EXCEPT !.pc = "opening", !.run = r]
    OBVIOUS
  <1>2. OpensRun(s, r) /\ OpenWriter(r, s) /\ Becomes(s, x) /\ UNCHANGED <<core, query>>
    BY <1>1 DEF OpenInDoubt
  <1>3. RestsAll
    BY <1>2, OpenWriterRests
  <1>4. /\ session[s].generation = 0 /\ ~Begun(s)
        /\ session[s] = [Idle EXCEPT !.pc = session[s].pc, !.run = session[s].run]
        /\ core[s].pc = "none"
    BY <1>2, OpensFacts
  <1>5. /\ session[s] \in Session /\ query \in Query /\ core \in [Tokens -> CatchUp]
    BY SessionFacts
  <1>6. x = [Idle EXCEPT !.pc = "opening", !.run = r]
    BY <1>1, <1>4 DEF Idle
  <1>7. x \in Session
    BY <1>1, <1>5 DEF Session
  <1>8. /\ x.pc = "opening" /\ x.run = r /\ x.generation = 0 /\ x.queue = <<>>
        /\ x.batch = 0 /\ x.settled = 0 /\ x.accepted = 0 /\ x.worker = "idle"
    BY <1>6 DEF Idle
  <1>9. Sound(s, x)
    <2>1. x.failed = FALSE
      BY <1>6 DEF Idle
    <2>2. MaxFacts[s] \in Nat
      BY WritingAssumption
    <2>3. SessionSound(s, x)
      BY <1>6, <1>8, <2>2 DEF SessionSound
    <2>4. WorkerSound(x)
      BY <1>8, <2>1 DEF WorkerSound
    <2> QED
      BY <1>7, <2>3, <2>4 DEF Sound
  <1>10. x.generation <= created'
    <2>1. LedgerSound'
      BY <1>3 DEF RestsAll
    <2>2. created' \in Nat
      BY <2>1 DEF LedgerSound, LedgerTypes
    <2> QED
      BY <1>8, <2>2
  <1>11. SessionMoves(s, x)
    BY <1>2, <1>4, <1>5, <1>9, <1>10 DEF SessionMoves, CoreSound
  <1>12. query' \in Query
    BY <1>2, <1>5
  <1> QED
    BY <1>2, <1>3, <1>8, <1>11, <1>12, QuietStep

\* An open that raises.
LEMMA OpenFailsStep ==
  ASSUME WritingInv, NEW s \in Tokens, NEW r \in Runs, OpenFails(s, r)
  PROVE  WritingInv'
  <1>1. PICK z : z = [session[s] EXCEPT !.run = r]
    OBVIOUS
  <1>2. PICK x : x = Closed(z)
    OBVIOUS
  <1>3. OpensRun(s, r) /\ Becomes(s, x) /\ UNCHANGED <<ledgerVars, core, query>>
    BY <1>1, <1>2 DEF OpenFails
  <1>4. session[s].generation = 0 /\ ~Begun(s) /\ core[s].pc = "none"
    BY <1>3, OpensFacts
  <1>5. /\ session[s] \in Session /\ query \in Query /\ core \in [Tokens -> CatchUp]
        /\ LedgerSound /\ created \in Nat
    BY SessionFacts
  <1>6. z \in Session /\ z.generation = 0
    BY <1>1, <1>4, <1>5 DEF Session
  <1>7. Sound(s, x)
    BY <1>2, <1>6, ClosedSound
  <1>8. x.generation = 0
    BY <1>2, <1>6 DEF Closed, Idle
  <1>9. RestsAll
    BY <1>3, <1>5, UnchangedRests
  <1>10. x.generation <= created' /\ core' = core
    BY <1>3, <1>5, <1>8 DEF ledgerVars
  <1>11. SessionMoves(s, x)
    BY <1>3, <1>4, <1>5, <1>7, <1>10 DEF SessionMoves, CoreSound
  <1>12. query' \in Query
    BY <1>3, <1>5
  <1> QED
    BY <1>3, <1>8, <1>9, <1>11, <1>12, QuietStep

\* A catch-up that begins.
LEMMA NotifyTyped ==
  ASSUME WritingInv, NEW s \in Tokens, NEW t \in Threads, NEW as_of \in Nat,
         Notify(s, t, as_of)
  PROVE  /\ core' \in [Tokens -> CatchUp] /\ core'[s].pc = "save"
         /\ \A o \in Tokens : o # s => core'[o] = core[o]
  <1>1. PICK expected \in Nat : expected = NewestWithin(t, as_of)
    BY NewestType
  <1>2. PICK c : c = [pc |-> "save", as_of |-> as_of, expected |-> expected]
    OBVIOUS
  <1>3. c \in CatchUp /\ c.pc = "save"
    BY <1>2 DEF CatchUp
  <1>4. core' = [core EXCEPT ![s] = c]
    BY <1>1, <1>2 DEF Notify
  <1>5. core \in [Tokens -> CatchUp]
    BY SessionFacts
  <1> QED
    BY <1>3, <1>4, <1>5

\* An open that returns: the session has its writer and hydrates.
LEMMA OpenedStep ==
  ASSUME WritingInv, NEW s \in Tokens, NEW r \in Runs, Opened(s, r)
  PROVE  WritingInv'
  <1> DEFINE t == ThreadOf[r]
  <1>1. /\ OpensRun(s, r) /\ OpenWriter(r, s) /\ Notify(s, t, LastSeq(t))
        /\ UNCHANGED query
    BY DEF Opened
  <1>2. /\ RestsAll
        /\ generation'[t] # 0 /\ generation'[t] \in Nat /\ generation'[t] <= created'
        /\ writers'[r].fence \in Nat /\ UNCHANGED log
    BY <1>1, OpenWriterRests
  <1>3. PICK g \in Nat : g = generation'[t]
    BY <1>2
  <1>4. PICK f \in Nat : f = writers'[r].fence
    BY <1>2
  <1>5. PICK x : x = [session[s] EXCEPT !.pc = "hydrating", !.run = r,
                                        !.generation = g, !.fence = f]
    OBVIOUS
  <1>6. Becomes(s, x)
    BY <1>3, <1>4, <1>5 DEF Opened
  <1>7. /\ session[s].generation = 0 /\ ~Begun(s)
        /\ session[s] = [Idle EXCEPT !.pc = session[s].pc, !.run = session[s].run]
        /\ session[s].worker = "idle" /\ session[s].queue = <<>>
        /\ session[s].batch = 0 /\ session[s].settled = 0 /\ session[s].accepted = 0
    BY <1>1, OpensFacts
  <1>8. /\ session[s] \in Session /\ query \in Query /\ Sound(s, session[s])
        /\ LedgerSound /\ SessionsSound /\ LogSound
    BY SessionFacts
  <1>9. x \in Session
    BY <1>5, <1>8 DEF Session
  <1>10. /\ x.pc = "hydrating" /\ x.run = r /\ x.generation = g
         /\ x.queue = session[s].queue /\ x.batch = session[s].batch
         /\ x.settled = session[s].settled /\ x.accepted = session[s].accepted
         /\ x.worker = session[s].worker /\ x.failed = session[s].failed
         /\ x.stage = session[s].stage
    BY <1>5, <1>8 DEF Session
  <1>11. Sound(s, x)
    <2>1. MaxFacts[s] \in Nat
      BY WritingAssumption
    <2>2. SessionSound(s, x)
      BY <1>2, <1>3, <1>7, <1>10, <2>1 DEF SessionSound
    <2>3. WorkerSound(x)
      BY <1>8, <1>10 DEF Sound, WorkerSound
    <2> QED
      BY <1>9, <2>2, <2>3 DEF Sound
  <1>12. t \in Threads /\ LastSeq(t) \in Nat
    <2>1. t \in Threads
      BY LimitsAssumption
    <2> QED
      BY <1>8, <2>1 DEF LedgerSound, LedgerTypes, LastSeq
  <1>13. /\ core' \in [Tokens -> CatchUp] /\ core'[s].pc = "save"
         /\ \A o \in Tokens : o # s => core'[o] = core[o]
    BY <1>1, <1>12, NotifyTyped
  <1>14. SessionMoves(s, x)
    BY <1>2, <1>3, <1>6, <1>7, <1>10, <1>11, <1>13 DEF SessionMoves, CoreSound
  <1>15. session'[s] = x
    BY <1>6, <1>8 DEF Becomes, SessionsSound
  <1>16. FactsSound(s)'
    <2>1. Thread(s)' = t
      BY <1>10, <1>15 DEF Thread
    <2>2. ASSUME NEW k, k \in DOMAIN log[t] PROVE log[t][k].id[1] # s
      BY <1>7, <1>8, <1>12, <2>2, EventFacts
    <2>3. AllStored(s, 0)'
      BY DEF AllStored
    <2>4. NoneBeyond(s, 0)'
      BY <1>2, <2>1, <2>2 DEF NoneBeyond
    <2>5. session'[s].settled = 0 /\ session'[s].batch = 0 /\ session'[s].worker = "idle"
      BY <1>7, <1>10, <1>15
    <2>6. session'[s].settled + session'[s].batch = 0
      BY <2>5
    <2> QED
      BY <2>3, <2>4, <2>5, <2>6 DEF FactsSound
  <1>17. query' \in Query
    BY <1>1, <1>8
  <1> QED
    BY <1>1, <1>2, <1>14, <1>16, <1>17, QuietStep

\* A worker that appends has a batch, and its session is alive.
LEMMA AppendingFacts ==
  ASSUME WritingInv, NEW s \in Tokens, session[s].worker = "append"
  PROVE  /\ Live(session[s]) /\ ~session[s].failed
         /\ session[s].pc \notin {"hydrating", "notifying"}
         /\ session[s].batch \in Nat /\ session[s].batch >= 1
         /\ session[s].settled \in Nat
         /\ session[s].settled + session[s].batch <= MaxFacts[s]
         /\ session[s].accepted \in Nat /\ MaxFacts[s] \in Nat
         /\ core[s].pc = "none"
  <1>1. /\ session[s] \in Session /\ Sound(s, session[s])
        /\ CoreSound(session[s], core[s])
    BY SessionFacts
  <1>2. Live(session[s])
    BY <1>1 DEF Sound, SessionSound, Closed, Idle, Live
  <1>3. /\ ~session[s].failed /\ session[s].batch >= 1
        /\ session[s].pc \notin {"hydrating", "notifying"}
    BY <1>1 DEF Sound, SessionSound, WorkerSound
  <1>4. /\ session[s].batch \in Nat /\ session[s].settled \in Nat
        /\ session[s].accepted \in Nat
    BY <1>1 DEF Session
  <1>5. MaxFacts[s] \in Nat
    BY WritingAssumption
  <1>6. session[s].settled + session[s].batch <= session[s].accepted
        /\ session[s].accepted <= MaxFacts[s]
    BY <1>1, <1>2 DEF Sound, SessionSound, Live
  <1>7. core[s].pc = "none"
    BY <1>1, <1>3 DEF CoreSound
  <1> QED
    BY <1>2, <1>3, <1>4, <1>5, <1>6, <1>7

\* The batch in flight is the facts that follow what was settled.
LEMMA BatchFacts ==
  ASSUME WritingInv, NEW s \in Tokens, session[s].worker = "append"
  PROVE  /\ Batch(s) \in Seq(Event) /\ Batch(s) # <<>>
         /\ DOMAIN Batch(s) = 1 .. session[s].batch /\ Len(Batch(s)) = session[s].batch
         /\ \A k \in 1 .. session[s].batch :
              /\ Batch(s)[k].id = <<s, session[s].settled + k>>
              /\ Batch(s)[k].id[1] = s
              /\ Batch(s)[k].run = session[s].run
              /\ Batch(s)[k].phase = "fact"
              /\ Batch(s)[k].id[2] = session[s].settled + k
              /\ Batch(s)[k].id[2] \in 1 .. MaxFacts[s]
  <1>1. PICK n \in Nat, b \in Nat, m \in Nat :
          n = session[s].settled /\ b = session[s].batch /\ m = MaxFacts[s]
    BY AppendingFacts
  <1>2. n + b <= m /\ b >= 1
    BY <1>1, AppendingFacts
  <1>3. PICK r \in Runs : r = session[s].run
    BY AppendingFacts, SessionFacts
  <1>4. PICK f : f = [k \in 1 .. b |-> [id |-> <<s, n + k>>, run |-> r, phase |-> "fact"]]
    OBVIOUS
  <1>5. Batch(s) = f
    BY <1>1, <1>3, <1>4 DEF Batch, Fact
  <1>6. \A k \in 1 .. b : f[k] = [id |-> <<s, n + k>>, run |-> r, phase |-> "fact"]
    BY <1>4
  <1>7. \A k \in 1 .. b : f[k] \in Event
    <2> SUFFICES ASSUME NEW k \in 1 .. b PROVE f[k] \in Event
      OBVIOUS
    <2>1. PICK i \in Nat : i = n + k
      OBVIOUS
    <2>2. PICK e : e = [id |-> <<s, i>>, run |-> r, phase |-> "fact"]
      OBVIOUS
    <2>3. e \in Event
      BY <2>2 DEF Event
    <2> QED
      BY <1>6, <2>1, <2>2, <2>3
  <1>8. f \in Seq(Event) /\ Len(f) = b /\ DOMAIN f = 1 .. b
    <2>1. f \in [1 .. b -> Event]
      BY <1>4, <1>7
    <2>2. f \in Seq(Event)
      BY <2>1
    <2>3. DOMAIN f = 1 .. b
      BY <2>1
    <2> QED
      BY <2>2, <2>3
  <1>9. f # <<>>
    BY <1>2, <1>8
  <1>10. \A k \in 1 .. b : n + k \in 1 .. m
    BY <1>2
  <1>11. ASSUME NEW k \in 1 .. b
         PROVE  /\ f[k].id = <<s, n + k>> /\ f[k].id[1] = s /\ f[k].run = r
                /\ f[k].phase = "fact" /\ f[k].id[2] = n + k
                /\ f[k].id[2] \in 1 .. m
    <2>1. PICK i : i = n + k
      OBVIOUS
    <2>2. f[k] = [id |-> <<s, i>>, run |-> r, phase |-> "fact"]
      BY <1>6, <2>1
    <2>3. i \in 1 .. m
      BY <1>10, <2>1
    <2> QED
      BY <2>1, <2>2, <2>3
  <1> QED
    BY <1>1, <1>3, <1>5, <1>8, <1>9, <1>11

\* A batch that was not found in the log follows what the log holds.
LEMMA BatchFollows ==
  ASSUME WritingInv, NEW s \in Tokens, AppendBatch(s)
  PROVE  /\ Current(s) /\ AllStored(s, session[s].settled)
         /\ Follows(Thread(s), s, Batch(s), session[s].settled)
  <1> DEFINE t == Thread(s)
  <1>1. session[s].worker = "append" /\ ~Recorded(s, Batch(s)[1])
    BY DEF AppendBatch
  <1>2. Live(session[s]) /\ session[s].run \in Runs /\ Begun(s) /\ t \in Threads
        /\ LedgerSound /\ t = ThreadOf[session[s].run]
    BY <1>1, AppendingFacts, SessionFacts
  <1>3. Current(s)
    BY <1>2 DEF AppendBatch, AppendFacts, MayAppendFacts, Owned, Holds, Current
  <1>4. PICK n \in Nat, b \in Nat : n = session[s].settled /\ b = session[s].batch /\ b >= 1
    BY <1>1, AppendingFacts
  <1>5. Batch(s)[1].id = <<s, n + 1>> /\ DOMAIN Batch(s) = 1 .. b
    BY <1>1, <1>4, BatchFacts
  <1>6. PICK e : e = Batch(s)[1]
    OBVIOUS
  <1>7. \A k \in 1 .. LastSeq(t) : log[t][k].id # <<s, n + 1>>
    <2>1. LedgerTypes
      BY <1>2 DEF LedgerSound
    <2>2. /\ Position(s, e) \in 0 .. LastSeq(t)
          /\ Position(s, e) = 0 => \A k \in 1 .. LastSeq(t) : log[t][k].id # e.id
      BY <1>2, <2>1, PositionFound
    <2>3. LastSeq(t) \in Nat
      BY <1>2, <2>1 DEF LedgerTypes, LastSeq
    <2>4. ~(Position(s, e) > 0)
      BY <1>1, <1>3, <1>6 DEF Recorded
    <2>5. Position(s, e) = 0
      BY <2>2, <2>3, <2>4
    <2> QED
      BY <1>5, <1>6, <2>2, <2>5
  <1>8. FactsSound(s)
    BY DEF WritingInv
  <1>9. AllStored(s, n) /\ (AllStored(s, n + b) \/ NoneBeyond(s, n))
    BY <1>1, <1>2, <1>3, <1>4, <1>8 DEF FactsSound
  <1>10. NoneBeyond(s, n)
    <2>1. n + 1 \in 1 .. n + b
      BY <1>4
    <2> QED
      BY <1>7, <1>9, <2>1 DEF AllStored, Stored
  <1>11. ASSUME NEW k \in 1 .. b PROVE ~Stored(t, s, n + k, LastSeq(t))
    <2>1. log[t] \in Seq(Event)
      BY <1>2 DEF LedgerSound, LedgerTypes
    <2>2. DOMAIN log[t] = 1 .. LastSeq(t)
      BY <2>1 DEF LastSeq
    <2>3. SUFFICES ASSUME NEW j \in 1 .. LastSeq(t), log[t][j].id = <<s, n + k>>,
                          log[t][j].phase = "fact"
                   PROVE FALSE
      BY DEF Stored
    <2>4. log[t][j].id[1] = s /\ log[t][j].id[2] = n + k
      BY <2>3
    <2>5. n + k <= n
      BY <1>10, <2>2, <2>3, <2>4 DEF NoneBeyond
    <2> QED
      BY <2>5
  <1>12. n > 0 => Stored(t, s, n, LastSeq(t))
    BY <1>9 DEF AllStored
  <1>13. \A k \in 1 .. b : Batch(s)[k].id = <<s, n + k>> /\ Batch(s)[k].phase = "fact"
    BY <1>1, <1>4, BatchFacts
  <1>14. Follows(t, s, Batch(s), n)
    BY <1>5, <1>11, <1>12, <1>13 DEF Follows
  <1> QED
    BY <1>3, <1>4, <1>9, <1>14

\* What a session knows of its facts after its batch was appended.
LEMMA BatchStored ==
  ASSUME WritingInv, NEW s \in Tokens, AppendBatch(s),
         session'[s].run = session[s].run,
         session'[s].settled = session[s].settled, session'[s].batch = session[s].batch
  PROVE  FactsSound(s)'
  <1>1. session[s].worker = "append"
    BY DEF AppendBatch
  <1> PICK r \in Runs : r = session[s].run
    BY <1>1, AppendingFacts, SessionFacts
  <1> PICK t \in Threads : t = Thread(s)
    BY <1>1, AppendingFacts, SessionFacts
  <1> PICK events \in Seq(Event) : events = Batch(s)
    BY <1>1, BatchFacts
  <1>2. Live(session[s]) /\ Begun(s)
        /\ LedgerSound /\ SessionsSound /\ LogSound /\ t = ThreadOf[r]
        /\ session[s].pc # "closed" /\ ~session[s].failed
    BY <1>1, AppendingFacts, SessionFacts DEF Live
  <1>3. Current(s) /\ AllStored(s, session[s].settled)
    BY BatchFollows
  <1>4. PICK n \in Nat, b \in Nat : n = session[s].settled /\ b = session[s].batch /\ b >= 1
    BY <1>1, AppendingFacts
  <1>5. /\ events \in Seq(Event) /\ DOMAIN events = 1 .. b /\ Len(events) = b
        /\ \A k \in 1 .. b : events[k].id = <<s, n + k>> /\ events[k].phase = "fact"
                             /\ events[k].id[2] = n + k
    BY <1>1, <1>4, BatchFacts
  <1>6. log' = [log EXCEPT ![t] = @ \o events]
    BY <1>2 DEF AppendBatch, AppendFacts
  <1>7. log \in [Threads -> Seq(Event)]
    BY <1>2 DEF LedgerSound, LedgerTypes
  <1>8. PICK l \in Nat : l = LastSeq(t)
    BY <1>7 DEF LastSeq
  <1>9. Joins(t, events, l)
    BY <1>6, <1>7, <1>8 DEF Joins, LastSeq
  <1>10. Longer(t, events, l)
    BY <1>5, <1>9, JoinedLog
  <1>11. Thread(s)' = t
    BY DEF Thread
  <1>12. LastSeq(t)' = l + b
    BY <1>5, <1>10 DEF Longer, LastSeq
  <1>13. ASSUME NEW i \in 1 .. n + b PROVE Stored(t, s, i, l + b)'
    <2>1. CASE i \in 1 .. n
      <3>1. Stored(t, s, i, l)
        BY <1>3, <1>4, <1>8, <2>1 DEF AllStored
      <3> QED
        BY <1>5, <1>9, <3>1, StoredStaysLonger
    <2>2. CASE i \notin 1 .. n
      <3>1. PICK k \in 1 .. b : i = n + k
        <4>1. i - n \in 1 .. b /\ i = n + (i - n)
          BY <2>2
        <4> QED
          BY <4>1
      <3>2. events[k].id = <<s, i>> /\ events[k].phase = "fact" /\ k \in 1 .. Len(events)
        BY <1>5, <3>1
      <3>3. l + k <= l + b /\ l + b \in Nat
        OBVIOUS
      <3> QED
        BY <1>5, <1>9, <3>2, <3>3, StoredAfter
    <2> QED
      BY <2>1, <2>2
  <1>14. AllStored(s, n)' /\ AllStored(s, n + b)'
    <2>1. \A i \in 1 .. n : i \in 1 .. n + b
      OBVIOUS
    <2> QED
      BY <1>11, <1>12, <1>13, <2>1 DEF AllStored
  <1>15. NoneBeyond(s, n + b)'
    <2>1. NoneBeyond(s, n + b)
      BY <1>2, <1>3, <1>4 DEF WritingInv, FactsSound
    <2>2. SUFFICES ASSUME NEW k, k \in DOMAIN log'[t],
                          log'[t][k].id[1] = s, log'[t][k].phase = "fact"
                   PROVE log'[t][k].id[2] <= n + b
      BY <1>11 DEF NoneBeyond
    <2>3. \/ k \in 1 .. l /\ k \in DOMAIN log[t]
          \/ \E i \in 1 .. Len(events) : k = l + i
      BY <1>10, <2>2 DEF Longer
    <2>4. CASE k \in 1 .. l /\ k \in DOMAIN log[t]
      <3>1. log'[t][k] = log[t][k]
        BY <1>10, <2>4 DEF Longer
      <3> QED
        BY <2>1, <2>2, <2>4, <3>1 DEF NoneBeyond
    <2>5. CASE \E i \in 1 .. Len(events) : k = l + i
      <3>1. PICK i \in 1 .. b : k = l + i
        BY <1>5, <2>5
      <3>2. log'[t][k] = events[i]
        BY <1>5, <1>10, <3>1 DEF Longer
      <3>3. log'[t][k].id[2] = n + i
        BY <1>5, <3>2
      <3> QED
        BY <3>3
    <2> QED
      BY <2>3, <2>4, <2>5
  <1>16. session'[s].settled = n /\ session'[s].settled + session'[s].batch = n + b
    BY <1>4
  <1> QED
    BY <1>14, <1>15, <1>16 DEF FactsSound

\* The worker's commit, or one whose reply is lost.
LEMMA WorkerAppends ==
  ASSUME WritingInv, NEW s \in Tokens, AppendBatch(s), UNCHANGED query,
         NEW x, SessionMoves(s, x),
         x.settled = session[s].settled, x.batch = session[s].batch
  PROVE  WritingInv'
  <1> DEFINE r == session[s].run
             g == session[s].generation
  <1>1. session[s].worker = "append"
    BY DEF AppendBatch
  <1>2. Live(session[s]) /\ r \in Runs /\ Begun(s) /\ Thread(s) = ThreadOf[r]
        /\ LedgerSound /\ session \in [Tokens -> Session]
    BY <1>1, AppendingFacts, SessionFacts DEF SessionsSound
  <1>3. session'[s] = x
    BY <1>2 DEF SessionMoves, Becomes
  <1>4. x.run = r
    BY <1>2 DEF SessionMoves
  <1>5. FactsSound(s)'
    BY <1>3, <1>4, BatchStored
  <1>6. PICK events \in Seq(Event) : events = Batch(s)
    BY <1>1, BatchFacts
  <1>7. /\ events # <<>>
        /\ \A k \in DOMAIN events :
             /\ events[k].run = r /\ events[k].id[1] = s /\ events[k].phase = "fact"
             /\ events[k].id[2] \in 1 .. MaxFacts[s]
    BY <1>1, <1>6, BatchFacts
  <1>8. AppendFacts(r, g, s, session[s].fence, events)
    BY <1>6 DEF AppendBatch
  <1>9. PICK w : Adds(r, g, s, events, w)
    BY <1>2, <1>7, <1>8, AppendFactsAdds
  <1>10. PICK m \in Nat : m = session[s].settled
    BY <1>1, AppendingFacts
  <1>11. Follows(ThreadOf[r], s, events, m)
    BY <1>2, <1>6, <1>10, BatchFollows
  <1> QED
    BY <1>2, <1>5, <1>7, <1>9, <1>11, AppendStep

\* A session stays, and its catch-up begins, goes on or is left alone.
LEMMA StaysMoves ==
  ASSUME WritingInv, NEW s \in Tokens, UNCHANGED session, created' >= created,
         created' \in Nat,
         core' \in [Tokens -> CatchUp], CoreSound(session[s], core'[s]),
         \A o \in Tokens : o # s => core'[o] = core[o]
  PROVE  SessionMoves(s, session[s])
  <1>1. session \in [Tokens -> Session]
    BY DEF WritingInv, SessionsSound
  <1>2. /\ Sound(s, session[s]) /\ session[s].generation <= created
        /\ session[s].generation \in Nat /\ created \in Nat
    BY SessionFacts
  <1>3. Becomes(s, session[s])
    BY <1>1 DEF Becomes
  <1> QED
    BY <1>2, <1>3 DEF SessionMoves

\* The append is over and somebody tells the catch-up.
LEMMA WorkerNotifies ==
  ASSUME WritingInv, NEW s \in Tokens, session[s].worker = "append",
         NEW x, x = [session[s] EXCEPT !.worker = "notify"],
         Becomes(s, x), created' >= created, created' \in Nat,
         NEW t \in Threads, NEW as_of \in Nat, Notify(s, t, as_of)
  PROVE  /\ SessionMoves(s, x)
         /\ x.settled = session[s].settled /\ x.batch = session[s].batch
         /\ x.run = session[s].run /\ x.generation = session[s].generation
         /\ x.worker = "notify" /\ x.pc = session[s].pc /\ x.failed = session[s].failed
  <1>1. /\ session[s] \in Session /\ Sound(s, session[s])
        /\ session[s].generation <= created
        /\ session[s].generation \in Nat /\ created \in Nat
    BY SessionFacts
  <1>2. /\ x.pc = session[s].pc /\ x.run = session[s].run
        /\ x.generation = session[s].generation /\ x.fence = session[s].fence
        /\ x.submission = session[s].submission /\ x.queue = session[s].queue
        /\ x.batch = session[s].batch /\ x.accepted = session[s].accepted
        /\ x.settled = session[s].settled /\ x.worker = "notify"
        /\ x.failed = session[s].failed /\ x.stage = session[s].stage
    BY <1>1 DEF Session
  <1>3. x \in Session
    BY <1>1 DEF Session
  <1>4. /\ Live(session[s]) /\ session[s].pc \notin {"hydrating", "notifying"}
        /\ ~session[s].failed /\ session[s].batch >= 1
    BY AppendingFacts
  <1>5. SessionSound(s, x)
    BY <1>1, <1>2, <1>4 DEF Sound, SessionSound, Live
  <1>6. WorkerSound(x)
    BY <1>1, <1>2, <1>4 DEF Sound, WorkerSound
  <1>7. /\ core' \in [Tokens -> CatchUp]
        /\ \A o \in Tokens : o # s => core'[o] = core[o]
    BY NotifyTyped
  <1>8. CoreSound(x, core'[s])
    BY <1>2 DEF CoreSound
  <1> QED
    BY <1>1, <1>2, <1>3, <1>5, <1>6, <1>7, <1>8 DEF SessionMoves, Sound

\* A batch whose first event is in the log is there whole.
LEMMA RecordedBatch ==
  ASSUME WritingInv, NEW s \in Tokens, session[s].worker = "append",
         Recorded(s, Batch(s)[1])
  PROVE  AllStored(s, session[s].settled + session[s].batch)
  <1> PICK t \in Threads : t = Thread(s)
    BY AppendingFacts, SessionFacts
  <1>1. /\ session[s].run \in Runs /\ Begun(s) /\ LedgerSound /\ SessionsSound
        /\ LogSound
    BY AppendingFacts, SessionFacts
  <1>2. LedgerTypes
    BY <1>1 DEF LedgerSound
  <1>3. PICK n \in Nat, b \in Nat : n = session[s].settled /\ b = session[s].batch /\ b >= 1
    BY AppendingFacts
  <1>4. PICK e : e = Batch(s)[1]
    OBVIOUS
  <1>5. e.id = <<s, n + 1>> /\ n + 1 \in 1 .. MaxFacts[s]
    <2>1. 1 \in 1 .. b
      BY <1>3
    <2> QED
      BY <1>3, <1>4, <2>1, BatchFacts
  <1>6. Current(s) /\ Position(s, e) > 0
    BY <1>4 DEF Recorded
  <1>7. PICK k \in 1 .. LastSeq(t) : log[t][k].id = <<s, n + 1>>
    BY <1>1, <1>2, <1>5, <1>6, PositionFound
  <1>8. k \in DOMAIN log[t]
    <2>1. log[t] \in Seq(Event)
      BY <1>2 DEF LedgerTypes
    <2> QED
      BY <1>7, <2>1 DEF LastSeq
  <1>9. log[t][k].id[1] = s /\ log[t][k].id[2] = n + 1
    BY <1>7
  <1>10. log[t][k].phase = "fact"
    <2>1. EventSound(t, k)
      BY <1>1, <1>8, EventFacts
    <2> QED
      BY <1>5, <1>9, <2>1 DEF EventSound
  <1>11. ~NoneBeyond(s, n)
    BY <1>8, <1>9, <1>10 DEF NoneBeyond
  <1>12. FactsSound(s)
    BY DEF WritingInv
  <1> QED
    BY <1>1, <1>3, <1>6, <1>11, <1>12 DEF FactsSound

\* An append that was proved to be committed leaves the log alone.
LEMMA ProvenAppendRests ==
  ASSUME WritingInv, NEW s \in Tokens, NEW r \in Runs, NEW g, NEW f, ProvenAppend(r, g, s, f)
  PROVE  RestsAll /\ UNCHANGED created
  <1>1. LedgerSound
    BY SessionFacts
  <1>2. UNCHANGED ledgerVars \/ Hands(r, writers[r].owner)
    BY <1>1, ProvenAppendHands
  <1>3. writers[r].owner \in Tokens \cup {Nobody}
    BY <1>1, WriterOwned
  <1>4. RestsAll
    BY <1>1, <1>2, <1>3, UnchangedRests, HandsRests
  <1> QED
    BY <1>4 DEF ProvenAppend

\* The worker's append returns, a new one or one found in the log.
LEMMA WorkerCommitsStep ==
  ASSUME WritingInv, NEW s \in Tokens, WorkerCommits(s)
  PROVE  WritingInv'
  <1>1. session[s].worker = "append"
    BY DEF WorkerCommits, AppendBatch
  <1> PICK r \in Runs : r = session[s].run
    BY <1>1, AppendingFacts, SessionFacts
  <1> PICK t \in Threads : t = Thread(s)
    BY <1>1, AppendingFacts, SessionFacts
  <1>2. /\ LedgerSound /\ created \in Nat /\ query \in Query
        /\ session[s].settled \in Nat /\ session[s].batch \in Nat
        /\ ~session[s].failed /\ session[s].pc # "closed"
    BY <1>1, AppendingFacts, SessionFacts DEF Live
  <1>3. PICK x : x = [session[s] EXCEPT !.worker = "notify"]
    OBVIOUS
  <1>4. Becomes(s, x) /\ UNCHANGED query
    BY <1>3 DEF WorkerCommits
  <1>5. CASE AppendBatch(s) /\ Notify(s, t, LastSeq(t) + session[s].batch)
    <2>1. UNCHANGED created
      BY <1>5 DEF AppendBatch, AppendFacts
    <2>2. LastSeq(t) + session[s].batch \in Nat
      BY <1>2 DEF LedgerSound, LedgerTypes, LastSeq
    <2>3. SessionMoves(s, x) /\ x.settled = session[s].settled /\ x.batch = session[s].batch
      BY <1>1, <1>2, <1>3, <1>4, <1>5, <2>1, <2>2, WorkerNotifies
    <2> QED
      BY <1>4, <1>5, <2>3, WorkerAppends
  <1>6. CASE /\ Recorded(s, Batch(s)[1])
             /\ ProvenAppend(r, session[s].generation, s, session[s].fence)
             /\ Notify(s, t, Position(s, Batch(s)[session[s].batch]))
    <2>1. RestsAll /\ UNCHANGED created
      BY <1>6, ProvenAppendRests
    <2>2. Position(s, Batch(s)[session[s].batch]) \in Nat
      BY <1>2, PositionFound DEF LedgerSound
    <2>3. /\ SessionMoves(s, x)
          /\ x.settled = session[s].settled /\ x.batch = session[s].batch
          /\ x.run = session[s].run /\ x.generation = session[s].generation
          /\ x.worker = "notify" /\ x.pc = session[s].pc /\ x.failed = session[s].failed
      BY <1>1, <1>2, <1>3, <1>4, <1>6, <2>1, <2>2, WorkerNotifies
    <2>4. AllStored(s, session[s].settled + session[s].batch)
      BY <1>1, <1>6, RecordedBatch
    <2>5. Loosens(s, x)
      BY <1>1, <1>2, <2>3, <2>4 DEF Loosens
    <2> QED
      BY <1>2, <1>4, <2>1, <2>3, <2>5, QuietStep
  <1> QED
    BY <1>5, <1>6 DEF WorkerCommits

\* The worker's append is committed and its reply is lost.
LEMMA WorkerInDoubtStep ==
  ASSUME WritingInv, NEW s \in Tokens, WorkerInDoubt(s)
  PROVE  WritingInv'
  <1>1. AppendBatch(s) /\ UNCHANGED <<session, core, query>>
    BY DEF WorkerInDoubt
  <1>2. UNCHANGED created
    BY <1>1 DEF AppendBatch, AppendFacts
  <1>3. /\ created \in Nat /\ core \in [Tokens -> CatchUp]
        /\ CoreSound(session[s], core[s])
    BY SessionFacts
  <1>4. SessionMoves(s, session[s])
    BY <1>1, <1>2, <1>3, StaysMoves
  <1> QED
    BY <1>1, <1>4, WorkerAppends

\* A terminal or closed fact stands beyond the ordinary ones.
LEMMA LastFacts ==
  ASSUME WritingInv, NEW s \in Tokens, Finishes(s)
  PROVE  /\ LastFact(s) \in Event
         /\ LastFact(s).run = session[s].run /\ LastFact(s).id[1] = s
         /\ LastFact(s).phase # "fact"
         /\ LastFact(s).id[2] \notin 1 .. MaxFacts[s]
         /\ SizeOf(LastFact(s).id) \in Nat
  <1>1. PICK m \in Nat : m = MaxFacts[s]
    BY WritingAssumption
  <1>2. PICK g \in Nat : g = session[s].stage /\ g < 2
    BY FinishesFacts
  <1>3. PICK r \in Runs : r = session[s].run
    BY FinishesFacts, SessionFacts
  <1>4. PICK p \in {"terminal", "closed"} : p = IF g = 0 THEN "terminal" ELSE "closed"
    OBVIOUS
  <1>5. PICK n \in Nat : n = m + g + 1
    OBVIOUS
  <1>6. PICK e : e = [id |-> <<s, n>>, run |-> r, phase |-> p]
    OBVIOUS
  <1>7. LastFact(s) = e
    BY <1>1, <1>2, <1>3, <1>4, <1>5, <1>6 DEF LastFact
  <1>8. e \in Event /\ e.run = r /\ e.id = <<s, n>> /\ e.phase # "fact"
    BY <1>6 DEF Event
  <1>9. n \in 1 .. m + 2 /\ n \notin 1 .. m
    BY <1>2, <1>5
  <1>10. SizeOf(<<s, n>>) \in Nat
    BY <1>1, <1>9, WritingAssumption
  <1> QED
    BY <1>1, <1>3, <1>7, <1>8, <1>9, <1>10

\* A call that finishes its session moves on.
LEMMA FinishMoves ==
  ASSUME WritingInv, NEW s \in Tokens, Finishes(s),
         NEW p \in {"finishing", "notifying"},
         NEW x, x = [session[s] EXCEPT !.pc = p], Becomes(s, x),
         created' >= created, created' \in Nat,
         core' \in [Tokens -> CatchUp],
         \A o \in Tokens : o # s => core'[o] = core[o],
         p = "finishing" => core'[s].pc = "none"
  PROVE  SessionMoves(s, x) /\ Loosens(s, x)
  <1>1. /\ session[s] \in Session /\ Sound(s, session[s])
        /\ session[s].generation <= created
        /\ session[s].generation \in Nat /\ created \in Nat
    BY SessionFacts
  <1>2. /\ Live(session[s]) /\ session[s].pc \in {"open", "finishing"}
        /\ session[s].stage < 2 /\ ~session[s].failed
        /\ session[s].worker = "idle" /\ session[s].queue = <<>>
    BY FinishesFacts
  <1>3. Sound(s, x)
    BY <1>1, <1>2, PcMoves
  <1>4. /\ x.pc = p /\ x.run = session[s].run /\ x.generation = session[s].generation
        /\ x.settled = session[s].settled /\ x.batch = session[s].batch
        /\ x.worker = session[s].worker /\ x.failed = session[s].failed
    BY <1>1 DEF Session
  <1>5. CoreSound(x, core'[s])
    BY <1>4 DEF CoreSound
  <1>6. SessionMoves(s, x)
    BY <1>1, <1>3, <1>4, <1>5 DEF SessionMoves
  <1>7. session[s].settled \in Nat /\ session[s].batch \in Nat
    BY <1>1 DEF Session
  <1>8. Loosens(s, x)
    BY <1>2, <1>4, <1>7 DEF Loosens
  <1> QED
    BY <1>6, <1>8

\* The commit of a mandatory fact, or one whose reply is lost.
LEMMA LastAppends ==
  ASSUME WritingInv, NEW s \in Tokens, AppendLast(s), UNCHANGED query,
         NEW x, SessionMoves(s, x), Loosens(s, x)
  PROVE  WritingInv'
  <1> PICK r \in Runs : r = session[s].run
    BY FinishesFacts, SessionFacts DEF AppendLast
  <1> PICK g : g = session[s].generation
    OBVIOUS
  <1>1. LedgerSound
    BY SessionFacts
  <1>2. PICK e \in Event : e = LastFact(s)
    BY LastFacts DEF AppendLast
  <1>3. /\ e.run = r /\ e.id[1] = s /\ e.phase # "fact"
        /\ e.id[2] \notin 1 .. MaxFacts[s] /\ SizeOf(e.id) \in Nat
    BY <1>2, LastFacts DEF AppendLast
  <1>4. AppendMandatory(r, g, s, session[s].fence, e)
    BY <1>2 DEF AppendLast
  <1>5. PICK events \in Seq(Event) : events = <<e>>
    <2>1. <<e>> \in Seq(Event)
      OBVIOUS
    <2> QED
      BY <2>1
  <1>6. PICK w : Adds(r, g, s, events, w)
    BY <1>1, <1>3, <1>4, <1>5, AppendMandatoryAdds
  <1>7. \A i \in DOMAIN events : events[i] = e
    BY <1>5
  <1>8. \A i \in DOMAIN events : events[i].phase # "fact"
    BY <1>3, <1>7
  <1>9. \A i \in DOMAIN events :
          events[i].phase = "fact" <=> events[i].id[2] \in 1 .. MaxFacts[s]
    BY <1>3, <1>7
  <1> QED
    BY <1>6, <1>8, <1>9, AppendStep

\* The append of a mandatory fact returns.
LEMMA MandatoryCommitsStep ==
  ASSUME WritingInv, NEW s \in Tokens, MandatoryCommits(s)
  PROVE  WritingInv'
  <1>1. Finishes(s)
    BY DEF MandatoryCommits, AppendLast
  <1> PICK r \in Runs : r = session[s].run
    BY <1>1, FinishesFacts, SessionFacts
  <1> PICK t \in Threads : t = Thread(s)
    BY <1>1, FinishesFacts, SessionFacts
  <1>2. LedgerSound /\ created \in Nat /\ query \in Query
    BY SessionFacts
  <1>3. PICK x : x = [session[s] EXCEPT !.pc = "notifying"]
    OBVIOUS
  <1>4. Becomes(s, x) /\ UNCHANGED query
    BY <1>3 DEF MandatoryCommits
  <1>5. CASE AppendLast(s) /\ Notify(s, t, LastSeq(t) + 1)
    <2>1. UNCHANGED created
      BY <1>5 DEF AppendLast, AppendMandatory
    <2>2. LastSeq(t) + 1 \in Nat
      BY <1>2 DEF LedgerSound, LedgerTypes, LastSeq
    <2>3. /\ core' \in [Tokens -> CatchUp]
          /\ \A o \in Tokens : o # s => core'[o] = core[o]
      BY <1>5, <2>2, NotifyTyped
    <2>4. SessionMoves(s, x) /\ Loosens(s, x)
      BY <1>1, <1>2, <1>3, <1>4, <2>1, <2>3, FinishMoves
    <2> QED
      BY <1>4, <1>5, <2>4, LastAppends
  <1>6. CASE /\ ProvenAppend(r, session[s].generation, s, session[s].fence)
             /\ Notify(s, t, Position(s, LastFact(s)))
    <2>1. RestsAll /\ UNCHANGED created
      BY <1>6, ProvenAppendRests
    <2>2. Position(s, LastFact(s)) \in Nat
      BY <1>2, PositionFound DEF LedgerSound
    <2>3. /\ core' \in [Tokens -> CatchUp]
          /\ \A o \in Tokens : o # s => core'[o] = core[o]
      BY <1>6, <2>2, NotifyTyped
    <2>4. SessionMoves(s, x) /\ Loosens(s, x)
      BY <1>1, <1>2, <1>3, <1>4, <2>1, <2>3, FinishMoves
    <2> QED
      BY <1>2, <1>4, <2>1, <2>4, QuietStep
  <1> QED
    BY <1>5, <1>6 DEF MandatoryCommits

\* The append of a mandatory fact is committed and its reply is lost.
LEMMA MandatoryInDoubtStep ==
  ASSUME WritingInv, NEW s \in Tokens, MandatoryInDoubt(s)
  PROVE  WritingInv'
  <1>1. AppendLast(s) /\ UNCHANGED <<core, query>> /\ Finishes(s)
    BY DEF MandatoryInDoubt, AppendLast
  <1>2. PICK x : x = [session[s] EXCEPT !.pc = "finishing"]
    OBVIOUS
  <1>3. Becomes(s, x)
    BY <1>2 DEF MandatoryInDoubt
  <1>4. UNCHANGED created
    BY <1>1 DEF AppendLast, AppendMandatory
  <1>5. created \in Nat /\ core \in [Tokens -> CatchUp]
    BY SessionFacts
  <1>6. core[s].pc = "none"
    BY <1>1, FinishesFacts
  <1>7. SessionMoves(s, x) /\ Loosens(s, x)
    BY <1>1, <1>2, <1>3, <1>4, <1>5, <1>6, FinishMoves
  <1> QED
    BY <1>1, <1>7, LastAppends

\* Where a catch-up is under way.
LEMMA CatchingFacts ==
  ASSUME WritingInv, NEW s \in Tokens, core[s].pc # "none"
  PROVE  /\ Live(session[s]) /\ Thread(s) \in Threads
         /\ core[s] \in CatchUp /\ core[s].as_of \in Nat /\ core[s].expected \in Nat
         /\ session[s].generation \in Nat
  <1>1. /\ Sound(s, session[s]) /\ CoreSound(session[s], core[s])
        /\ core[s] \in CatchUp /\ session[s].generation \in Nat
    BY SessionFacts
  <1>2. Live(session[s])
    BY <1>1, CaughtSound
  <1> QED
    BY <1>1, <1>2, SessionFacts DEF CatchUp

\* A catch-up is over and the session that waited for it moves.
LEMMA CatchUpEndsStep ==
  ASSUME WritingInv, RestsAll, NEW s \in Tokens, core[s].pc # "none", UNCHANGED query,
         CatchUpEnds(s, Caught(session[s])) \/ CatchUpEnds(s, CatchUpRaised(session[s]))
  PROVE  WritingInv'
  <1>1. /\ session[s] \in Session /\ Sound(s, session[s]) /\ CoreSound(session[s], core[s])
        /\ session[s].generation <= created /\ session[s].generation \in Nat
        /\ created \in Nat
        /\ core \in [Tokens -> CatchUp] /\ query \in Query
    BY SessionFacts
  <1>2. created' >= created /\ created' \in Nat
    BY DEF RestsAll, LedgerSound, LedgerTypes
  <1>3. NoCatchUp \in CatchUp /\ NoCatchUp.pc = "none"
    BY DEF NoCatchUp, CatchUp
  <1>4. core' = [core EXCEPT ![s] = NoCatchUp]
    BY DEF CatchUpEnds
  <1>5. /\ core' \in [Tokens -> CatchUp] /\ core'[s].pc = "none"
        /\ \A o \in Tokens : o # s => core'[o] = core[o]
    BY <1>1, <1>3, <1>4
  <1>6. session[s].settled \in Nat /\ session[s].batch \in Nat
    BY <1>1 DEF Session
  <1>7. CASE CatchUpEnds(s, Caught(session[s]))
    <2>1. PICK y : y = Caught(session[s])
      OBVIOUS
    <2>2. Becomes(s, y)
      BY <1>7, <2>1 DEF CatchUpEnds
    <2>3. /\ Sound(s, y) /\ y.run = session[s].run
          /\ y.generation = session[s].generation
          /\ y.failed = session[s].failed /\ y.worker \notin {"append", "notify"}
          /\ y.settled + y.batch = session[s].settled + session[s].batch
          /\ \/ y.settled = session[s].settled
             \/ session[s].worker = "notify"
                /\ y.settled = session[s].settled + session[s].batch
          /\ Live(session[s])
      BY <1>1, <2>1, CaughtSound
    <2>4. SessionMoves(s, y)
      BY <1>1, <1>2, <1>5, <2>2, <2>3 DEF SessionMoves, CoreSound
    <2>5. Loosens(s, y)
      BY <1>6, <2>3 DEF Loosens, Live
    <2> QED
      BY <1>1, <2>4, <2>5, QuietStep
  <1>8. CASE CatchUpEnds(s, CatchUpRaised(session[s]))
    <2>1. PICK y : y = CatchUpRaised(session[s])
      OBVIOUS
    <2>2. Becomes(s, y)
      BY <1>8, <2>1 DEF CatchUpEnds
    <2>3. /\ Sound(s, y) /\ y.run = session[s].run
          /\ y.generation = session[s].generation
          /\ y.worker \notin {"append", "notify"}
          /\ y.settled = session[s].settled
          /\ ~y.failed => ~session[s].failed /\ y.batch = session[s].batch
          /\ Live(session[s])
      BY <1>1, <2>1, RaisedSound
    <2>4. SessionMoves(s, y)
      BY <1>1, <1>2, <1>5, <2>2, <2>3 DEF SessionMoves, CoreSound
    <2>5. Loosens(s, y)
      BY <1>6, <2>3 DEF Loosens, Live
    <2> QED
      BY <1>1, <2>4, <2>5, QuietStep
  <1> QED
    BY <1>7, <1>8

\* A catch-up goes on.
LEMMA CatchUpGoesStep ==
  ASSUME WritingInv, RestsAll, NEW s \in Tokens, core[s].pc # "none",
         UNCHANGED <<session, query>>,
         NEW c \in CatchUp, core' = [core EXCEPT ![s] = c]
  PROVE  WritingInv'
  <1>1. /\ CoreSound(session[s], core[s]) /\ SessionsSound
        /\ core \in [Tokens -> CatchUp] /\ query \in Query
    BY SessionFacts
  <1>2. created' >= created /\ created' \in Nat
    BY DEF RestsAll, LedgerSound, LedgerTypes
  <1>3. /\ core' \in [Tokens -> CatchUp] /\ core'[s] = c
        /\ \A o \in Tokens : o # s => core'[o] = core[o]
    BY <1>1
  <1>4. CoreSound(session[s], core'[s])
    BY <1>1 DEF CoreSound
  <1>5. SessionMoves(s, session[s])
    BY <1>2, <1>3, <1>4, StaysMoves
  <1>6. Loosens(s, session[s])
    BY <1>1, LoosensItself
  <1> QED
    BY <1>1, <1>5, <1>6, QuietStep

\* load_core_projection_state reads.
LEMMA CatchUpLoadsStep ==
  ASSUME WritingInv, NEW s \in Tokens, CatchUpLoads(s)
  PROVE  WritingInv'
  <1>1. core[s].pc # "none" /\ UNCHANGED <<ledgerVars, query>>
    BY DEF CatchUpLoads
  <1>2. LedgerSound /\ core[s] \in CatchUp /\ core[s].as_of \in Nat /\ Thread(s) \in Threads
    BY <1>1, SessionFacts, CatchingFacts
  <1>3. RestsAll
    BY <1>1, <1>2, UnchangedRests
  <1> PICK t \in Threads : t = Thread(s)
    BY <1>2
  <1>4. CASE core' = [core EXCEPT ![s] = Loaded(core[s], t)] /\ UNCHANGED session
    <2>1. PICK expected \in Nat : expected = NewestWithin(t, core[s].as_of)
      BY <1>2, NewestType
    <2>2. PICK c : c = [core[s] EXCEPT !.pc = "save", !.expected = expected]
      OBVIOUS
    <2>3. c \in CatchUp
      BY <1>2, <2>2 DEF CatchUp
    <2>4. core' = [core EXCEPT ![s] = c]
      BY <1>4, <2>1, <2>2 DEF Loaded
    <2> QED
      BY <1>1, <1>3, <1>4, <2>3, <2>4, CatchUpGoesStep
  <1>5. CASE CatchUpEnds(s, Caught(session[s])) \/ CatchUpEnds(s, CatchUpRaised(session[s]))
    BY <1>1, <1>3, <1>5, CatchUpEndsStep
  <1> QED
    BY <1>4, <1>5, Zenon DEF CatchUpLoads

\* load_core_projection_state saves.
LEMMA CatchUpSavesStep ==
  ASSUME WritingInv, NEW s \in Tokens, CatchUpSaves(s)
  PROVE  WritingInv'
  <1>1. core[s].pc # "none" /\ UNCHANGED query
    BY DEF CatchUpSaves
  <1>2. /\ LedgerSound /\ core[s] \in CatchUp /\ Thread(s) \in Threads
        /\ session[s].generation \in Nat
        /\ core[s].as_of \in Nat /\ core[s].expected \in Nat
    BY <1>1, SessionFacts, CatchingFacts
  <1> PICK t \in Threads : t = Thread(s)
    BY <1>2
  <1>3. CASE /\ Saves(core[s], t)
             /\ SaveCheckpoint(t, session[s].generation, core[s].as_of)
             /\ CatchUpEnds(s, Caught(session[s]))
    <2>1. core[s].as_of > 0
      BY <1>2, <1>3 DEF Saves
    <2>2. RestsAll
      BY <1>2, <1>3, <2>1, SaveRests
    <2> QED
      BY <1>1, <1>3, <2>2, CatchUpEndsStep
  <1>4. CASE /\ UNCHANGED ledgerVars
             /\ CatchUpEnds(s, Caught(session[s])) \/ CatchUpEnds(s, CatchUpRaised(session[s]))
    BY <1>1, <1>2, <1>4, UnchangedRests, CatchUpEndsStep
  <1>5. CASE core' = [core EXCEPT ![s].pc = "load"] /\ UNCHANGED <<session, ledgerVars>>
    <2>1. PICK c : c = [core[s] EXCEPT !.pc = "load"]
      OBVIOUS
    <2>2. c \in CatchUp
      BY <1>2, <2>1 DEF CatchUp
    <2>3. core' = [core EXCEPT ![s] = c]
      BY <1>5, <2>1
    <2> QED
      BY <1>1, <1>2, <1>5, <2>2, <2>3, UnchangedRests, CatchUpGoesStep
  <1> QED
    BY <1>3, <1>4, <1>5, Zenon DEF CatchUpSaves

\* A query that was answered asks for nothing.
LEMMA AnsweredSound ==
  ASSUME query' = Answered
  PROVE  query' \in Query /\ QuerySound'
  <1>1. PICK a : a = [pc |-> "done", session |-> Nobody, target |-> 0, generation |-> 0,
                      as_of |-> 0, expected |-> 0]
    OBVIOUS
  <1>2. a = Answered
    BY <1>1 DEF Answered, NoQuery
  <1>3. a \in Query /\ a.pc = "done"
    BY <1>1 DEF Query
  <1> QED
    BY <1>2, <1>3 DEF QuerySound

\* A query that has its snapshot keeps it.
LEMMA SnapshotKept ==
  ASSUME WritingInv, UNCHANGED <<ledgerVars, session>>, query.pc \in {"load", "save"},
         NEW q \in Query, query' = q, q.pc \in {"load", "save"},
         q.session = query.session, q.target = query.target,
         q.generation = query.generation, q.as_of = query.as_of
  PROVE  QuerySound'
  <1>1. QuerySound
    BY DEF WritingInv
  <1>2. PICK s : s = query.session
    OBVIOUS
  <1>3. s \in Tokens /\ Begun(s) /\ q.session = s
    BY <1>1, <1>2 DEF QuerySound
  <1>4. PICK t : t = Thread(s)
    OBVIOUS
  <1>5. Thread(s)' = t /\ Current(s)' = Current(s) /\ LastSeq(t)' = LastSeq(t)
        /\ generation'[t] = generation[t] /\ Begun(s)'
    BY <1>3, <1>4 DEF Thread, Current, LastSeq, Begun, ledgerVars
  <1>6. \A n, last : Stored(t, s, n, last)' <=> Stored(t, s, n, last)
    BY DEF Stored, ledgerVars
  <1>7. Current(s) /\ q.generation = generation[t] =>
          /\ q.as_of <= LastSeq(t)
          /\ \A n \in 1 .. q.target : Stored(t, s, n, q.as_of)
    BY <1>1, <1>2, <1>4 DEF QuerySound
  <1> QED
    BY <1>3, <1>5, <1>6, <1>7 DEF QuerySound

\* Tracer.get begins to flush a session.
LEMMA QueryBeginsStep ==
  ASSUME WritingInv, NEW s \in Tokens, QueryBegins(s)
  PROVE  WritingInv'
  <1>1. LedgerSound /\ query \in Query /\ session[s] \in Session
    BY SessionFacts
  <1>2. Live(session[s]) /\ UNCHANGED <<ledgerVars, session, core>>
    BY DEF QueryBegins, Flushable, Live
  <1>3. Begun(s)
    BY <1>2, SessionFacts
  <1>4. PICK n \in Nat : n = session[s].accepted
    BY <1>1 DEF Session
  <1>5. PICK q : q = [query EXCEPT !.pc = "forcing", !.session = s, !.target = n]
    OBVIOUS
  <1>6. q \in Query /\ q.pc = "forcing" /\ q.session = s
    BY <1>1, <1>5 DEF Query
  <1>7. query' = q
    BY <1>4, <1>5 DEF QueryBegins
  <1>8. Begun(s)'
    BY <1>2, <1>3 DEF Begun
  <1>9. QuerySound'
    BY <1>6, <1>7, <1>8 DEF QuerySound
  <1>10. RestsAll
    BY <1>1, <1>2, UnchangedRests
  <1> QED
    BY <1>2, <1>6, <1>7, <1>9, <1>10, RestStep

\* The flush is over and the snapshot is taken.
LEMMA QueryFlushedStep ==
  ASSUME WritingInv, QueryFlushed
  PROVE  WritingInv'
  <1> PICK s : s = query.session
    OBVIOUS
  <1>1. query.pc = "forcing" /\ UNCHANGED <<ledgerVars, session, core>>
    BY DEF QueryFlushed
  <1>2. QuerySound /\ query \in Query /\ LedgerSound /\ SessionsSound
    BY DEF WritingInv, SessionsSound
  <1>3. s \in Tokens /\ Begun(s)
    BY <1>1, <1>2 DEF QuerySound
  <1>4. RestsAll
    BY <1>1, <1>2, UnchangedRests
  <1>5. CASE query' = Answered
    BY <1>1, <1>4, <1>5, AnsweredSound, RestStep
  <1>6. CASE /\ ForceReturns(s, query.target)
             /\ query' = [query EXCEPT !.pc = "load", !.generation = generation[Thread(s)],
                                       !.as_of = LastSeq(Thread(s))]
    <2> PICK t \in Threads : t = Thread(s)
      BY <1>2, <1>3, BegunThread
    <2>1. PICK g \in Nat, l \in Nat : g = generation[t] /\ l = LastSeq(t)
      BY <1>2 DEF LedgerSound, LedgerTypes, LastSeq
    <2>2. PICK q : q = [query EXCEPT !.pc = "load", !.generation = g, !.as_of = l]
      OBVIOUS
    <2>3. query' = q
      BY <1>6, <2>1, <2>2
    <2>4. /\ q \in Query /\ q.pc = "load" /\ q.session = s /\ q.target = query.target
          /\ q.generation = g /\ q.as_of = l
      BY <1>2, <2>2 DEF Query
    <2>5. PICK n \in Nat, m \in Nat : n = query.target /\ m = session[s].settled /\ n <= m
      <3>1. query.target \in Nat
        BY <1>2 DEF Query
      <3>2. session[s].settled \in Nat
        BY <1>3, SessionFacts DEF Session
      <3> QED
        BY <1>6, <3>1, <3>2 DEF ForceReturns
    <2>6. Thread(s)' = t /\ Current(s)' = Current(s) /\ LastSeq(t)' = l /\ Begun(s)'
      BY <1>1, <1>3, <2>1 DEF Thread, Current, LastSeq, Begun, ledgerVars
    <2>7. ASSUME Current(s), NEW i \in 1 .. n PROVE Stored(t, s, i, l)'
      <3>1. FactsSound(s)
        BY <1>3 DEF WritingInv
      <3>2. AllStored(s, m)
        BY <1>3, <2>5, <2>7, <3>1 DEF FactsSound
      <3>3. i \in 1 .. m
        BY <2>5
      <3>4. Stored(t, s, i, l)
        BY <2>1, <3>2, <3>3 DEF AllStored
      <3> QED
        BY <1>1, <3>4 DEF Stored, ledgerVars
    <2>8. QuerySound'
      BY <1>3, <2>3, <2>4, <2>5, <2>6, <2>7 DEF QuerySound
    <2> QED
      BY <1>1, <1>4, <2>3, <2>4, <2>8, RestStep
  <1> QED
    BY <1>5, <1>6 DEF QueryFlushed

\* The query's catch-up reads.
LEMMA QueryLoadsStep ==
  ASSUME WritingInv, QueryLoads
  PROVE  WritingInv'
  <1>1. query.pc = "load" /\ UNCHANGED <<ledgerVars, session, core>>
    BY DEF QueryLoads
  <1>2. QuerySound /\ query \in Query /\ LedgerSound /\ SessionsSound
    BY DEF WritingInv, SessionsSound
  <1>3. RestsAll
    BY <1>1, <1>2, UnchangedRests
  <1> PICK t \in Threads : t = Thread(query.session)
    BY <1>1, <1>2, BegunThread DEF QuerySound
  <1>4. CASE query' = Answered
    BY <1>1, <1>3, <1>4, AnsweredSound, RestStep
  <1>5. CASE query' = Loaded(query, t)
    <2>1. query.as_of \in Nat
      BY <1>2 DEF Query
    <2>2. PICK expected \in Nat : expected = NewestWithin(t, query.as_of)
      BY <2>1, NewestType
    <2>3. PICK q : q = [query EXCEPT !.pc = "save", !.expected = expected]
      OBVIOUS
    <2>4. query' = q
      BY <1>5, <2>2, <2>3 DEF Loaded
    <2>5. /\ q \in Query /\ q.pc = "save" /\ q.session = query.session
          /\ q.target = query.target /\ q.generation = query.generation
          /\ q.as_of = query.as_of
      BY <1>2, <2>3 DEF Query
    <2>6. QuerySound'
      BY <1>1, <2>4, <2>5, SnapshotKept
    <2> QED
      BY <1>1, <1>3, <2>4, <2>5, <2>6, RestStep
  <1> QED
    BY <1>4, <1>5 DEF QueryLoads

\* The query's catch-up saves, and the query is answered.
LEMMA QuerySavesStep ==
  ASSUME WritingInv, QuerySaves
  PROVE  WritingInv'
  <1>1. query.pc = "save" /\ UNCHANGED <<session, core>>
    BY DEF QuerySaves
  <1>2. QuerySound /\ query \in Query /\ LedgerSound /\ SessionsSound
    BY DEF WritingInv, SessionsSound
  <1> PICK t \in Threads : t = Thread(query.session)
    BY <1>1, <1>2, BegunThread DEF QuerySound
  <1>3. query.generation \in Nat /\ query.as_of \in Nat /\ query.expected \in Nat
    BY <1>2 DEF Query
  <1>4. CASE /\ Saves(query, t) /\ query' = Answered
             /\ SaveCheckpoint(t, query.generation, query.as_of)
    <2>1. query.as_of > 0
      BY <1>3, <1>4 DEF Saves
    <2>2. RestsAll
      BY <1>2, <1>3, <1>4, <2>1, SaveRests
    <2> QED
      BY <1>1, <1>4, <2>2, AnsweredSound, RestStep
  <1>5. CASE query' = Answered /\ UNCHANGED ledgerVars
    BY <1>1, <1>2, <1>5, UnchangedRests, AnsweredSound, RestStep
  <1>6. CASE query' = [query EXCEPT !.pc = "load"] /\ UNCHANGED ledgerVars
    <2>1. PICK q : q = [query EXCEPT !.pc = "load"]
      OBVIOUS
    <2>2. /\ q \in Query /\ q.pc = "load" /\ q.session = query.session
          /\ q.target = query.target /\ q.generation = query.generation
          /\ q.as_of = query.as_of
      BY <1>2, <2>1 DEF Query
    <2>3. QuerySound'
      BY <1>1, <1>6, <2>1, <2>2, SnapshotKept
    <2>4. RestsAll
      BY <1>2, <1>6, UnchangedRests
    <2> QED
      BY <1>1, <1>6, <2>1, <2>2, <2>3, <2>4, RestStep
  <1> QED
    BY <1>4, <1>5, <1>6 DEF QuerySaves

\* Leases and deletions: sessions and queries are not told.
LEMMA OutsideSteps ==
  ASSUME WritingInv, UNCHANGED <<session, core, query>>, RestsAll
  PROVE  WritingInv'
  <1>1. query' \in Query
    BY DEF WritingInv, SessionsSound
  <1> QED
    BY <1>1, RestStep

\* A heartbeat that revives its lease.
LEMMA HeartbeatStep ==
  ASSUME WritingInv, NEW s \in Tokens, HeartbeatRevives(s)
  PROVE  WritingInv'
  <1>1. LedgerSound /\ Live(session[s])
    BY SessionFacts DEF HeartbeatRevives, Live
  <1> PICK r \in Runs : r = session[s].run
    BY <1>1, SessionFacts
  <1>2. ProvenRenewal(r, session[s].generation, s, session[s].fence)
    BY DEF HeartbeatRevives
  <1>3. Hands(r, writers[r].owner) /\ writers[r].owner \in Tokens \cup {Nobody}
    BY <1>1, <1>2, ProvenRenewalHands, WriterOwned
  <1>4. RestsAll
    BY <1>1, <1>3, HandsRests
  <1> QED
    BY <1>4, OutsideSteps DEF HeartbeatRevives

\* A lease runs out.
LEMMA ExpiresStep ==
  ASSUME WritingInv, NEW r \in Runs, Expires(r)
  PROVE  WritingInv'
  <1>1. LedgerSound
    BY DEF WritingInv
  <1>2. Hands(r, writers[r].owner) /\ writers[r].owner \in Tokens \cup {Nobody}
    BY <1>1, LeaseExpiresHands, WriterOwned DEF Expires
  <1>3. RestsAll
    BY <1>1, <1>2, HandsRests
  <1> QED
    BY <1>3, OutsideSteps DEF Expires

\* A user deletes a thread.
LEMMA DeletedStep ==
  ASSUME WritingInv, NEW t \in Threads, Deleted(t)
  PROVE  WritingInv'
  <1>1. LedgerSound
    BY DEF WritingInv
  <1>2. RestsAll
    BY <1>1, DeleteDrops, DropsRests DEF Deleted
  <1> QED
    BY <1>2, OutsideSteps DEF Deleted

\* The initial state.
LEMMA InitHolds == Init => WritingInv
  <1> SUFFICES ASSUME Init PROVE WritingInv
    OBVIOUS
  <1>1. /\ created = 0 /\ generation = [t \in Threads |-> 0]
        /\ log = [t \in Threads |-> <<>>] /\ writers = [r \in Runs |-> NoWriter]
        /\ checkpoints = [t \in Threads |-> {}]
        /\ session = [s \in Tokens |-> Idle] /\ core = [s \in Tokens |-> NoCatchUp]
        /\ query = NoQuery
    BY DEF Init, LedgerInit
  <1>2. <<>> \in Seq(Event) /\ <<>> \in Seq(Nat)
    OBVIOUS
  <1>3. \A t \in Threads : log[t] = <<>> /\ generation[t] = 0 /\ checkpoints[t] = {}
    BY <1>1
  <1>4. \A r \in Runs : writers[r] = NoWriter /\ ThreadOf[r] \in Threads
    BY <1>1, LimitsAssumption
  <1>5. LedgerTypes
    BY <1>1, <1>2, NoWriterSound DEF LedgerTypes
  <1>6. \A t \in Threads : ThreadSound(t)
    BY <1>1, <1>3 DEF ThreadSound
  <1>7. \A r \in Runs : ~writers[r].active /\ ~Exists(r)
    BY <1>4 DEF NoWriter, Exists
  <1>8. EndsHaveRoom
    BY <1>7 DEF EndsHaveRoom
  <1>9. CheckpointsSound
    BY <1>3 DEF CheckpointsSound
  <1>10. LedgerSound
    BY <1>5, <1>6, <1>7, <1>8, <1>9 DEF LedgerSound, WriterSound
  <1>11. LogSound
    <2>1. \A t \in Threads : DOMAIN log[t] = {}
      BY <1>3
    <2>2. \A r \in Runs : DOMAIN log[ThreadOf[r]] = {}
      BY <1>4, <2>1
    <2> QED
      BY <2>1, <2>2 DEF LogSound, OwnerIsLast, RunEndsOnce
  <1>12. PICK x : x = Idle
    OBVIOUS
  <1>13. /\ x.pc = "idle" /\ x.run = Nobody /\ x.generation = 0 /\ x.fence = 0
         /\ x.submission = 0 /\ x.queue = <<>> /\ x.batch = 0 /\ x.accepted = 0
         /\ x.settled = 0 /\ x.worker = "idle" /\ x.failed = FALSE /\ x.stage = 0
    BY <1>12 DEF Idle
  <1>14. x \in Session
    <2> PICK q \in Seq(Nat) : q = <<>>
      BY <1>2
    <2>1. x = [pc |-> "idle", run |-> Nobody, generation |-> 0, fence |-> 0,
               submission |-> 0, queue |-> q, batch |-> 0, accepted |-> 0, settled |-> 0,
               worker |-> "idle", failed |-> FALSE, stage |-> 0]
      BY <1>12 DEF Idle
    <2> QED
      BY <2>1 DEF Session
  <1>15. x = [Idle EXCEPT !.pc = x.pc, !.run = x.run]
    BY <1>12 DEF Idle
  <1>16. ASSUME NEW s \in Tokens PROVE SessionSound(s, x)
    <2>1. MaxFacts[s] \in Nat
      BY WritingAssumption
    <2> QED
      BY <1>13, <1>15, <2>1 DEF SessionSound
  <1>17. WorkerSound(x)
    BY <1>13 DEF WorkerSound
  <1>18. PICK c : c = NoCatchUp
    OBVIOUS
  <1>19. c \in CatchUp /\ c.pc = "none"
    BY <1>18 DEF NoCatchUp, CatchUp
  <1>20. query \in Query /\ query.pc = "idle"
    BY <1>1 DEF NoQuery, Query
  <1>21. \A s \in Tokens : session[s] = x /\ core[s] = c
    BY <1>1, <1>12, <1>18
  <1>22. session \in [Tokens -> Session] /\ core \in [Tokens -> CatchUp]
    BY <1>1, <1>12, <1>14, <1>18, <1>19
  <1>23. x.generation <= created
    BY <1>1, <1>13
  <1>24. SessionsSound
    BY <1>16, <1>17, <1>19, <1>20, <1>21, <1>22, <1>23 DEF SessionsSound, CoreSound
  <1>25. \A s \in Tokens : FactsSound(s)
    BY <1>13, <1>21 DEF FactsSound, Begun
  <1>26. QuerySound
    BY <1>20 DEF QuerySound
  <1> QED
    BY <1>10, <1>11, <1>24, <1>25, <1>26 DEF WritingInv

\* Every step keeps the invariant.
LEMMA StepHolds == WritingInv /\ [Next]_vars => WritingInv'
  <1> SUFFICES ASSUME WritingInv, [Next]_vars PROVE WritingInv'
    OBVIOUS
  <1>1. CASE UNCHANGED vars
    <2>1. LedgerSound /\ UNCHANGED <<ledgerVars, session, core, query>>
      BY <1>1 DEF WritingInv, vars
    <2> QED
      BY <2>1, UnchangedRests, OutsideSteps
  <1>2. ASSUME NEW s \in Tokens, Calls(s) PROVE WritingInv'
    <2>1. CASE \E r \in Runs : Opened(s, r) \/ OpenFails(s, r)
      BY <2>1, OpenedStep, OpenFailsStep
    <2>2. CASE \E n \in Submissions : Submit(s, n)
      BY <2>2, SubmitStep
    <2>3. CASE FinishWaits(s) \/ FinishRaises(s) \/ CloseWaits(s)
      BY <2>3, WaitingSteps
    <2>4. CASE MandatoryCommits(s)
      BY <2>4, MandatoryCommitsStep
    <2>5. CASE MandatoryFails(s)
      BY <2>5, MandatoryFailsStep
    <2>6. CASE Close(s)
      BY <2>6, ReleaseSteps DEF Close
    <2>7. CASE QueryBegins(s)
      BY <2>7, QueryBeginsStep
    <2> QED
      BY <1>2, <2>1, <2>2, <2>3, <2>4, <2>5, <2>6, <2>7 DEF Calls, Finish
  <1>3. ASSUME NEW s \in Tokens, Work(s) PROVE WritingInv'
    BY <1>3, SubmittedStep, NextBatchStep, WorkerCommitsStep, WorkerFailsStep,
       CatchUpLoadsStep, CatchUpSavesStep DEF Work
  <1>4. ASSUME NEW s \in Tokens, Faulty(s) PROVE WritingInv'
    BY <1>4, OpenInDoubtStep, WorkerInDoubtStep, MandatoryInDoubtStep, ReleaseSteps,
       HeartbeatStep, CrashStep DEF Faulty
  <1>5. ASSUME QueryStep PROVE WritingInv'
    BY <1>5, QueryFlushedStep, QueryLoadsStep, QuerySavesStep DEF QueryStep
  <1> QED
    BY <1>1, <1>2, <1>3, <1>4, <1>5, ExpiresStep, DeletedStep DEF Next

-----------------------------------------------------------------------------
(***************************************************************************)
(* The limits: sums over finite sets.                                      *)
(***************************************************************************)

\* The element that a sum takes first.
Choice(s) == CHOOSE x \in s : TRUE

\* The recursion by which SumFunctionOnSet is defined.
Iterates(h, f, T) ==
  h = [s \in SUBSET T |->
        IF s = {} THEN 0 ELSE f[Choice(s)] + h[s \ {Choice(s)}]]

\* Induction on finite sets, as the absence of a counterexample from which no
\* element can be taken.
LEMMA MinimalSet ==
  ASSUME NEW S, IsFiniteSet(S), NEW Bad \in SUBSET SUBSET S, Bad # {}
  PROVE  \E s \in Bad : IsFiniteSet(s) /\ \A x \in s : s \ {x} \notin Bad
  <1> DEFINE C == {Cardinality(s) : s \in Bad}
  <1>1. \A s \in Bad : IsFiniteSet(s) /\ Cardinality(s) \in Nat
    BY FS_Subset, FS_CardinalityType
  <1>2. C \in SUBSET Nat /\ C # {}
    BY <1>1
  <1>3. PICK n \in C : \A m \in C : n <= m
    BY <1>2, LeastExists
  <1>4. PICK s \in Bad : Cardinality(s) = n
    BY <1>3
  <1>5. ASSUME NEW x \in s, s \ {x} \in Bad PROVE FALSE
    <2>1. Cardinality(s \ {x}) = n - 1
      BY <1>1, <1>4, FS_RemoveElement
    <2>2. n <= Cardinality(s \ {x}) /\ n \in Nat
      BY <1>1, <1>3, <1>4, <1>5
    <2> QED
      BY <2>1, <2>2
  <1> QED
    BY <1>1, <1>4, <1>5

\* One step of the recursion.
LEMMA IterateAt ==
  ASSUME NEW h, NEW f, NEW T, Iterates(h, f, T), NEW s \in SUBSET T
  PROVE  /\ s = {} => h[s] = 0
         /\ s # {} => /\ Choice(s) \in s /\ s \ {Choice(s)} \in SUBSET T
                      /\ h[s] = f[Choice(s)] + h[s \ {Choice(s)}]
  <1>1. h[s] = IF s = {} THEN 0 ELSE f[Choice(s)] + h[s \ {Choice(s)}]
    BY Zenon DEF Iterates
  <1>2. s # {} => Choice(s) \in s
    BY DEF Choice
  <1> QED
    BY <1>1, <1>2

\* It has one solution.
LEMMA IterateOnce ==
  ASSUME NEW f, NEW T, NEW U, NEW h, NEW g, Iterates(h, f, T), Iterates(g, f, U),
         NEW S, S \subseteq T, S \subseteq U, IsFiniteSet(S)
  PROVE  h[S] = g[S]
  <1> DEFINE Bad == {s \in SUBSET S : h[s] # g[s]}
  <1> SUFFICES ASSUME Bad # {} PROVE FALSE
    OBVIOUS
  <1>1. PICK s \in Bad : IsFiniteSet(s) /\ \A x \in s : s \ {x} \notin Bad
    BY MinimalSet
  <1>2. s \in SUBSET T /\ s \in SUBSET U /\ h[s] # g[s] /\ s \in SUBSET S
    OBVIOUS
  <1>3. CASE s = {}
    BY <1>2, <1>3, IterateAt
  <1>4. CASE s # {}
    <2> PICK x : x = Choice(s)
      OBVIOUS
    <2>1. x \in s /\ h[s] = f[x] + h[s \ {x}]
      BY <1>2, <1>4, IterateAt
    <2>2. g[s] = f[x] + g[s \ {x}]
      BY <1>2, <1>4, IterateAt
    <2>3. s \ {x} \in SUBSET S /\ s \ {x} \notin Bad
      BY <1>1, <1>2, <2>1
    <2>4. h[s \ {x}] = g[s \ {x}]
      BY <2>3
    <2> QED
      BY <1>2, <2>1, <2>2, <2>4
  <1> QED
    BY <1>3, <1>4

\* A solution for a set is one for its subsets.
LEMMA IterateWithin ==
  ASSUME NEW f, NEW T, NEW h, Iterates(h, f, T), NEW U \in SUBSET T
  PROVE  \E g : Iterates(g, f, U)
  <1> DEFINE g == [s \in SUBSET U |-> h[s]]
  <1>1. \A s \in SUBSET U : g[s] = h[s]
    OBVIOUS
  <1>2. ASSUME NEW s \in SUBSET U
        PROVE  h[s] = IF s = {} THEN 0 ELSE f[Choice(s)] + g[s \ {Choice(s)}]
    <2> PICK u : u = s \ {Choice(s)}
      OBVIOUS
    <2>1. s \in SUBSET T /\ u \in SUBSET U
      OBVIOUS
    <2>2. h[s] = IF s = {} THEN 0 ELSE f[Choice(s)] + h[u]
      BY <2>1, IterateAt
    <2>3. g[u] = h[u]
      BY <1>1, <2>1
    <2> QED
      BY <2>2, <2>3
  <1>3. g = [s \in SUBSET U |-> IF s = {} THEN 0 ELSE f[Choice(s)] + g[s \ {Choice(s)}]]
    BY <1>2
  <1>4. Iterates(g, f, U)
    BY <1>3 DEF Iterates
  <1> HIDE DEF g
  <1> QED
    BY <1>4

\* The one that SumFunctionOnSet takes.
Solution(f, T) == CHOOSE h : Iterates(h, f, T)

\* Every finite set has one.
LEMMA IterateExists ==
  ASSUME NEW f, NEW S, IsFiniteSet(S)
  PROVE  Iterates(Solution(f, S), f, S)
  <1> DEFINE Bad == {s \in SUBSET S : ~\E h : Iterates(h, f, s)}
  <1> SUFFICES ASSUME Bad # {} PROVE FALSE
    <2>1. S \in SUBSET S
      OBVIOUS
    <2>2. \E h : Iterates(h, f, S)
      BY <2>1
    <2> QED
      BY <2>2 DEF Solution
  <1>1. PICK T \in Bad : IsFiniteSet(T) /\ \A x \in T : T \ {x} \notin Bad
    BY MinimalSet
  <1>2. ASSUME NEW U \in SUBSET T, U # T PROVE Iterates(Solution(f, U), f, U)
    <2>1. PICK x \in T : x \notin U
      BY <1>2
    <2>2. T \ {x} \in SUBSET S /\ U \in SUBSET (T \ {x})
      BY <2>1
    <2>3. \E h : Iterates(h, f, T \ {x})
      BY <1>1, <2>2
    <2>4. \E h : Iterates(h, f, U)
      BY <2>2, <2>3, IterateWithin
    <2> QED
      BY <2>4 DEF Solution
  <1> DEFINE Own(s) == Solution(f, s)[s]
             h == [s \in SUBSET T |->
                    IF s = {} THEN 0 ELSE f[Choice(s)] + Own(s \ {Choice(s)})]
  <1>3. \A s \in SUBSET T : h[s] = IF s = {} THEN 0 ELSE f[Choice(s)] + Own(s \ {Choice(s)})
    OBVIOUS
  <1> HIDE DEF h
  <1>4. ASSUME NEW U \in SUBSET T, U # T PROVE h[U] = Own(U)
    <2>1. Iterates(Solution(f, U), f, U) /\ U \in SUBSET U
      BY <1>2, <1>4
    <2>2. CASE U = {}
      BY <1>3, <2>1, <2>2, IterateAt
    <2>3. CASE U # {}
      <3> PICK W : W = U \ {Choice(U)}
        OBVIOUS
      <3>1. /\ Own(U) = f[Choice(U)] + Solution(f, U)[W] /\ Choice(U) \in U
        BY <2>1, <2>3, IterateAt
      <3>2. W \in SUBSET T /\ W # T /\ W \subseteq U
        BY <3>1
      <3>3. Iterates(Solution(f, W), f, W) /\ IsFiniteSet(W)
        BY <1>1, <1>2, <3>2, FS_Subset
      <3>4. Solution(f, U)[W] = Solution(f, W)[W]
        BY <2>1, <3>2, <3>3, IterateOnce
      <3> QED
        BY <1>3, <2>3, <3>1, <3>4
    <2> QED
      BY <2>2, <2>3
  <1>5. ASSUME NEW s \in SUBSET T
        PROVE  h[s] = IF s = {} THEN 0 ELSE f[Choice(s)] + h[s \ {Choice(s)}]
    <2>1. CASE s = {}
      BY <1>3, <2>1
    <2>2. CASE s # {}
      <3>1. Choice(s) \in s
        BY <2>2 DEF Choice
      <3>2. s \ {Choice(s)} \in SUBSET T /\ s \ {Choice(s)} # T
        BY <3>1
      <3>3. h[s \ {Choice(s)}] = Own(s \ {Choice(s)})
        BY <1>4, <3>2
      <3> QED
        BY <1>3, <2>2, <3>3
    <2> QED
      BY <2>1, <2>2
  <1>6. h = [s \in SUBSET T |-> IF s = {} THEN 0 ELSE f[Choice(s)] + h[s \ {Choice(s)}]]
    BY <1>3, <1>5 DEF h
  <1>7. Iterates(h, f, T)
    BY <1>6 DEF Iterates
  <1> QED
    BY <1>7

\* A sum is what the recursion ends with.
LEMMA SumUnfolds ==
  ASSUME NEW f, NEW S
  PROVE  SumFunctionOnSet(f, S) = Solution(f, S)[S]
  BY Zenon DEF SumFunctionOnSet, FoldFunctionOnSet, MapThenFoldSet, Iterates, Choice,
               Solution

\* The sum over nothing.
LEMMA SumOfNone ==
  ASSUME NEW f
  PROVE  SumFunctionOnSet(f, {}) = 0
  <1>1. IsFiniteSet({})
    BY FS_EmptySet
  <1>2. Iterates(Solution(f, {}), f, {}) /\ {} \in SUBSET {}
    BY <1>1, IterateExists
  <1> QED
    BY <1>2, IterateAt, SumUnfolds

\* One step of a sum.
LEMMA SumOfChoice ==
  ASSUME NEW f, NEW S, IsFiniteSet(S), S # {}
  PROVE  /\ Choice(S) \in S
         /\ SumFunctionOnSet(f, S) = f[Choice(S)] + SumFunctionOnSet(f, S \ {Choice(S)})
  <1> PICK x : x = Choice(S)
    OBVIOUS
  <1> PICK U : U = S \ {x}
    OBVIOUS
  <1>1. Iterates(Solution(f, S), f, S) /\ S \in SUBSET S
    BY IterateExists
  <1>2. x \in S /\ Solution(f, S)[S] = f[x] + Solution(f, S)[U]
    BY <1>1, IterateAt
  <1>3. IsFiniteSet(U) /\ U \subseteq S
    BY FS_Subset
  <1>4. Iterates(Solution(f, U), f, U)
    BY <1>3, IterateExists
  <1>5. Solution(f, S)[U] = Solution(f, U)[U]
    BY <1>1, <1>3, <1>4, IterateOnce
  <1> QED
    BY <1>2, <1>5, SumUnfolds

\* A sum of naturals is a natural.
LEMMA SumTyped ==
  ASSUME NEW f, NEW S, IsFiniteSet(S), \A x \in S : f[x] \in Nat
  PROVE  SumFunctionOnSet(f, S) \in Nat
  <1> DEFINE Bad == {s \in SUBSET S : SumFunctionOnSet(f, s) \notin Nat}
  <1> SUFFICES ASSUME Bad # {} PROVE FALSE
    OBVIOUS
  <1>1. PICK s \in Bad : IsFiniteSet(s) /\ \A x \in s : s \ {x} \notin Bad
    BY MinimalSet
  <1>2. CASE s = {}
    BY <1>1, <1>2, SumOfNone
  <1>3. CASE s # {}
    <2> PICK x : x = Choice(s)
      OBVIOUS
    <2>1. x \in s /\ SumFunctionOnSet(f, s) = f[x] + SumFunctionOnSet(f, s \ {x})
      BY <1>1, <1>3, SumOfChoice
    <2>2. SumFunctionOnSet(f, s \ {x}) \in Nat
      <3>1. s \ {x} \in SUBSET S /\ s \ {x} \notin Bad
        BY <1>1, <2>1
      <3> QED
        BY <3>1
    <2>3. f[x] \in Nat
      BY <2>1
    <2>4. SumFunctionOnSet(f, s) \in Nat
      BY <2>1, <2>2, <2>3
    <2> QED
      BY <2>4
  <1> QED
    BY <1>2, <1>3

\* Any element can be taken first.
LEMMA SumTakes ==
  ASSUME NEW f, NEW S, IsFiniteSet(S), \A x \in S : f[x] \in Nat, NEW e \in S
  PROVE  SumFunctionOnSet(f, S) = f[e] + SumFunctionOnSet(f, S \ {e})
  <1> DEFINE Takes(s) == \A x \in s :
                 SumFunctionOnSet(f, s) = f[x] + SumFunctionOnSet(f, s \ {x})
             Bad == {s \in SUBSET S : ~Takes(s)}
  <1> SUFFICES ASSUME Bad # {} PROVE FALSE
    <2>1. S \notin Bad
      OBVIOUS
    <2> QED
      BY <2>1
  <1>1. PICK s \in Bad : IsFiniteSet(s) /\ \A x \in s : s \ {x} \notin Bad
    BY MinimalSet
  <1>2. PICK x \in s : SumFunctionOnSet(f, s) # f[x] + SumFunctionOnSet(f, s \ {x})
    OBVIOUS
  <1> PICK c : c = Choice(s)
    OBVIOUS
  <1>3. c \in s /\ SumFunctionOnSet(f, s) = f[c] + SumFunctionOnSet(f, s \ {c})
    BY <1>1, <1>2, SumOfChoice
  <1>4. c # x
    BY <1>2, <1>3
  <1> PICK rest : rest = (s \ {c}) \ {x}
    OBVIOUS
  <1>5. rest = (s \ {x}) \ {c}
    OBVIOUS
  <1>6. SumFunctionOnSet(f, s \ {c}) = f[x] + SumFunctionOnSet(f, rest)
    <2>1. s \ {c} \in SUBSET S /\ x \in s \ {c}
      BY <1>4
    <2>2. Takes(s \ {c})
      BY <1>1, <1>3, <2>1
    <2> QED
      BY <2>1, <2>2
  <1>7. SumFunctionOnSet(f, s \ {x}) = f[c] + SumFunctionOnSet(f, rest)
    <2>1. s \ {x} \in SUBSET S /\ c \in s \ {x}
      BY <1>3, <1>4
    <2>2. Takes(s \ {x})
      BY <1>1, <2>1
    <2> QED
      BY <1>5, <2>1, <2>2
  <1>8. f[x] \in Nat /\ f[c] \in Nat
    BY <1>3
  <1>9. SumFunctionOnSet(f, rest) \in Nat
    <2>1. IsFiniteSet(rest) /\ rest \subseteq S
      BY <1>1, FS_Subset
    <2> QED
      BY <2>1, SumTyped
  <1> QED
    BY <1>2, <1>3, <1>6, <1>7, <1>8, <1>9

\* Smaller terms have a smaller sum.
LEMMA SumMonotone ==
  ASSUME NEW f, NEW g, NEW S, IsFiniteSet(S),
         \A x \in S : f[x] \in Nat /\ g[x] \in Nat /\ f[x] <= g[x]
  PROVE  SumFunctionOnSet(f, S) <= SumFunctionOnSet(g, S)
  <1> DEFINE Bad == {s \in SUBSET S : ~(SumFunctionOnSet(f, s) <= SumFunctionOnSet(g, s))}
  <1> SUFFICES ASSUME Bad # {} PROVE FALSE
    OBVIOUS
  <1>1. PICK s \in Bad : IsFiniteSet(s) /\ \A x \in s : s \ {x} \notin Bad
    BY MinimalSet
  <1>2. CASE s = {}
    <2>1. SumFunctionOnSet(f, s) = 0 /\ SumFunctionOnSet(g, s) = 0
      BY <1>2, SumOfNone
    <2> QED
      BY <2>1
  <1>3. CASE s # {}
    <2> PICK x \in s : TRUE
      BY <1>3
    <2> PICK u : u = s \ {x}
      OBVIOUS
    <2>1. u \in SUBSET S /\ u \notin Bad /\ IsFiniteSet(u)
      BY <1>1, FS_Subset
    <2>2. SumFunctionOnSet(f, u) <= SumFunctionOnSet(g, u)
      BY <2>1
    <2>3. SumFunctionOnSet(f, u) \in Nat /\ SumFunctionOnSet(g, u) \in Nat
      BY <2>1, SumTyped
    <2>4. \A y \in s : y \in S /\ f[y] \in Nat /\ g[y] \in Nat /\ f[y] <= g[y]
      OBVIOUS
    <2>5. SumFunctionOnSet(f, s) = f[x] + SumFunctionOnSet(f, u)
      BY <1>1, <2>4, SumTakes
    <2>6. SumFunctionOnSet(g, s) = g[x] + SumFunctionOnSet(g, u)
      BY <1>1, <2>4, SumTakes
    <2>7. SumFunctionOnSet(f, s) <= SumFunctionOnSet(g, s)
      BY <2>2, <2>3, <2>4, <2>5, <2>6
    <2> QED
      BY <2>7
  <1> QED
    BY <1>2, <1>3

\* Equal terms have equal sums.
LEMMA SumSame ==
  ASSUME NEW f, NEW g, NEW S, IsFiniteSet(S),
         \A x \in S : f[x] \in Nat /\ f[x] = g[x]
  PROVE  SumFunctionOnSet(f, S) = SumFunctionOnSet(g, S)
  <1>1. \A x \in S : f[x] \in Nat /\ g[x] \in Nat /\ f[x] <= g[x] /\ g[x] <= f[x]
    OBVIOUS
  <1>2. SumFunctionOnSet(f, S) <= SumFunctionOnSet(g, S)
    BY <1>1, SumMonotone
  <1>3. SumFunctionOnSet(g, S) <= SumFunctionOnSet(f, S)
    BY <1>1, SumMonotone
  <1>4. SumFunctionOnSet(f, S) \in Nat /\ SumFunctionOnSet(g, S) \in Nat
    BY <1>1, SumTyped
  <1> QED
    BY <1>2, <1>3, <1>4

\* One term changes.
LEMMA SumChanges ==
  ASSUME NEW f, NEW g, NEW S, IsFiniteSet(S), NEW e \in S,
         \A x \in S : f[x] \in Nat /\ g[x] \in Nat /\ (x # e => f[x] = g[x])
  PROVE  /\ SumFunctionOnSet(f, S) \in Nat /\ SumFunctionOnSet(g, S) \in Nat
         /\ f[e] \in Nat /\ g[e] \in Nat
         /\ SumFunctionOnSet(g, S) + f[e] = SumFunctionOnSet(f, S) + g[e]
  <1> PICK U : U = S \ {e}
    OBVIOUS
  <1>1. IsFiniteSet(U) /\ U \subseteq S
    BY FS_Subset
  <1>2. \A x \in U : f[x] \in Nat /\ f[x] = g[x]
    OBVIOUS
  <1>3. SumFunctionOnSet(f, U) = SumFunctionOnSet(g, U)
    BY <1>1, <1>2, SumSame
  <1>4. SumFunctionOnSet(f, S) = f[e] + SumFunctionOnSet(f, U)
    BY SumTakes
  <1>5. SumFunctionOnSet(g, S) = g[e] + SumFunctionOnSet(g, U)
    BY SumTakes
  <1>6. SumFunctionOnSet(f, U) \in Nat
    BY <1>1, <1>2, SumTyped
  <1> QED
    BY <1>3, <1>4, <1>5, <1>6

-----------------------------------------------------------------------------
(***************************************************************************)
(* The bytes of a log.                                                     *)
(***************************************************************************)

\* The last summand of an interval.
LEMMA SumOfInterval ==
  ASSUME NEW f, NEW n \in Nat, n # 0, \A k \in 1 .. n : f[k] \in Nat
  PROVE  SumFunctionOnSet(f, 1 .. n) = f[n] + SumFunctionOnSet(f, 1 .. n - 1)
  <1> PICK S : S = 1 .. n
    OBVIOUS
  <1> PICK R : R = 1 .. n - 1
    OBVIOUS
  <1>1. IsFiniteSet(S)
    <2>1. IsFiniteSet(1 .. n)
      BY FS_Interval
    <2> QED
      BY <2>1
  <1>2. n \in S /\ S \ {n} = R
    OBVIOUS
  <1>3. \A k \in S : f[k] \in Nat
    OBVIOUS
  <1>4. SumFunctionOnSet(f, S) = f[n] + SumFunctionOnSet(f, S \ {n})
    BY <1>1, <1>2, <1>3, SumTakes
  <1> QED
    BY <1>2, <1>4

\* Events whose encoded size is known.
Sized(events) == \A k \in DOMAIN events : SizeOf(events[k].id) \in Nat
Sizes(events) == [k \in DOMAIN events |-> SizeOf(events[k].id)]

\* The bytes of a log are a sum over its places.
LEMMA BytesUnfold ==
  ASSUME NEW events \in Seq(Event), Sized(events)
  PROVE  /\ SizeOfAll(events) = SumFunctionOnSet(Sizes(events), 1 .. Len(events))
         /\ IsFiniteSet(1 .. Len(events)) /\ DOMAIN events = 1 .. Len(events)
         /\ \A k \in 1 .. Len(events) :
              Sizes(events)[k] = SizeOf(events[k].id) /\ Sizes(events)[k] \in Nat
         /\ SizeOfAll(events) \in Nat
  <1>1. DOMAIN events = 1 .. Len(events) /\ Len(events) \in Nat
    OBVIOUS
  <1>2. IsFiniteSet(1 .. Len(events))
    BY <1>1, FS_Interval
  <1>3. \A k \in DOMAIN events :
          Sizes(events)[k] = SizeOf(events[k].id) /\ Sizes(events)[k] \in Nat
    BY DEF Sizes, Sized
  <1>4. SizeOfAll(events) = SumFunctionOnSet(Sizes(events), DOMAIN Sizes(events))
    BY Zenon DEF SizeOfAll, SumFunction, Sizes
  <1>5. DOMAIN Sizes(events) = 1 .. Len(events)
    BY <1>1 DEF Sizes
  <1>6. SumFunctionOnSet(Sizes(events), 1 .. Len(events)) \in Nat
    BY <1>1, <1>2, <1>3, SumTyped
  <1> QED
    BY <1>1, <1>2, <1>3, <1>4, <1>5, <1>6

\* The bytes of a log and of what is appended to it.
LEMMA BytesJoin ==
  ASSUME NEW a \in Seq(Event), NEW b \in Seq(Event), Sized(a), Sized(b)
  PROVE  Sized(a \o b) /\ SizeOfAll(a \o b) = SizeOfAll(a) + SizeOfAll(b)
  <1> PICK l \in Nat, m \in Nat : l = Len(a) /\ m = Len(b)
    OBVIOUS
  <1> PICK c : c = a \o b
    OBVIOUS
  <1>1. /\ c \in Seq(Event) /\ Len(c) = l + m
        /\ \A k \in 1 .. l : c[k] = a[k]
        /\ \A k \in 1 .. m : c[l + k] = b[k]
    BY Joined
  <1>2. DOMAIN a = 1 .. l /\ DOMAIN b = 1 .. m /\ DOMAIN c = 1 .. l + m
    BY <1>1
  <1>3. Sized(c)
    <2> SUFFICES ASSUME NEW k \in 1 .. l + m PROVE SizeOf(c[k].id) \in Nat
      BY <1>2 DEF Sized
    <2>1. CASE k \in 1 .. l
      BY <1>1, <1>2, <2>1 DEF Sized
    <2>2. CASE k \notin 1 .. l
      <3>1. k - l \in 1 .. m /\ k = l + (k - l)
        BY <2>2
      <3>2. c[k] = b[k - l]
        BY <1>1, <3>1
      <3> QED
        BY <1>2, <3>1, <3>2 DEF Sized
    <2> QED
      BY <2>1, <2>2
  <1> PICK f, g, h : f = Sizes(a) /\ g = Sizes(b) /\ h = Sizes(c)
    OBVIOUS
  <1>4. /\ SizeOfAll(a) = SumFunctionOnSet(f, 1 .. l)
        /\ \A k \in 1 .. l : f[k] = SizeOf(a[k].id) /\ f[k] \in Nat
        /\ SizeOfAll(a) \in Nat /\ IsFiniteSet(1 .. l)
    BY BytesUnfold
  <1>5. /\ SizeOfAll(b) = SumFunctionOnSet(g, 1 .. m)
        /\ \A k \in 1 .. m : g[k] = SizeOf(b[k].id) /\ g[k] \in Nat
    BY BytesUnfold
  <1>6. /\ SizeOfAll(c) = SumFunctionOnSet(h, 1 .. l + m)
        /\ \A k \in 1 .. l + m : h[k] = SizeOf(c[k].id) /\ h[k] \in Nat
    BY <1>1, <1>3, BytesUnfold
  <1> DEFINE Bad == {n \in 0 .. m : SumFunctionOnSet(h, 1 .. l + n) #
                                    SumFunctionOnSet(f, 1 .. l) + SumFunctionOnSet(g, 1 .. n)}
  <1>7. Bad = {}
    <2> SUFFICES ASSUME Bad # {} PROVE FALSE
      OBVIOUS
    <2>1. PICK n \in Bad : \A i \in Bad : n <= i
      <3>1. Bad \in SUBSET Nat
        OBVIOUS
      <3> QED
        BY <3>1, LeastExists
    <2>2. n \in 0 .. m
      OBVIOUS
    <2>4. CASE n = 0
      <3>1. \A k \in 1 .. l : f[k] \in Nat /\ f[k] = h[k]
        BY <1>1, <1>4, <1>6
      <3>2. SumFunctionOnSet(f, 1 .. l) = SumFunctionOnSet(h, 1 .. l)
        <4>1. PICK S : S = 1 .. l
          OBVIOUS
        <4>2. IsFiniteSet(S) /\ \A k \in S : f[k] \in Nat /\ f[k] = h[k]
          BY <1>4, <3>1, <4>1
        <4>3. SumFunctionOnSet(f, S) = SumFunctionOnSet(h, S)
          BY <4>2, SumSame
        <4> QED
          BY <4>1, <4>3
      <3>3. 1 .. 0 = {}
        OBVIOUS
      <3>4. SumFunctionOnSet(g, 1 .. 0) = 0
        BY <3>3, SumOfNone
      <3>5. SumFunctionOnSet(f, 1 .. l) \in Nat
        BY <1>4
      <3>6. l + 0 = l
        OBVIOUS
      <3> QED
        BY <2>4, <3>2, <3>4, <3>5, <3>6
    <2>5. CASE n # 0
      <3>1. n \in 1 .. m /\ n - 1 \in 0 .. m
        BY <2>2, <2>5
      <3>2. n - 1 \notin Bad
        <4>1. ~(n <= n - 1)
          BY <2>2
        <4> QED
          BY <2>1, <4>1
      <3>3. SumFunctionOnSet(h, 1 .. l + (n - 1)) =
              SumFunctionOnSet(f, 1 .. l) + SumFunctionOnSet(g, 1 .. n - 1)
        BY <3>1, <3>2
      <3>4. PICK p \in Nat : p = l + n
        BY <2>2
      <3>5. p # 0 /\ p - 1 = l + (n - 1) /\ p \in 1 .. l + m
        BY <2>2, <2>5, <3>4
      <3>6. \A k \in 1 .. p : h[k] \in Nat
        BY <1>6, <3>4, <3>5
      <3>7. SumFunctionOnSet(h, 1 .. l + n) = h[l + n] + SumFunctionOnSet(h, 1 .. l + (n - 1))
        <4>1. SumFunctionOnSet(h, 1 .. p) = h[p] + SumFunctionOnSet(h, 1 .. p - 1)
          BY <3>4, <3>5, <3>6, SumOfInterval
        <4> QED
          BY <4>1, <3>4, <3>5
      <3>8. SumFunctionOnSet(g, 1 .. n) = g[n] + SumFunctionOnSet(g, 1 .. n - 1)
        <4>1. n \in Nat /\ \A k \in 1 .. n : g[k] \in Nat
          BY <1>5, <2>2
        <4> QED
          BY <2>5, <4>1, SumOfInterval
      <3>9. h[l + n] = g[n] /\ g[n] \in Nat
        <4>1. l + n \in 1 .. l + m
          BY <3>1
        <4> QED
          BY <1>1, <1>5, <1>6, <3>1, <4>1
      <3>10. SumFunctionOnSet(g, 1 .. n - 1) \in Nat
        <4>1. IsFiniteSet(1 .. n - 1)
          <5>1. PICK q \in Nat : q = n - 1
            BY <2>2, <2>5
          <5>2. IsFiniteSet(1 .. q)
            BY <5>1, FS_Interval
          <5> QED
            BY <5>1, <5>2
        <4>2. \A k \in 1 .. n - 1 : g[k] \in Nat
          BY <1>5, <2>2
        <4> QED
          BY <4>1, <4>2, SumTyped
      <3>11. SumFunctionOnSet(f, 1 .. l) \in Nat
        BY <1>4
      <3> QED
        BY <3>3, <3>7, <3>8, <3>9, <3>10, <3>11
    <2> QED
      BY <2>4, <2>5
  <1>8. SumFunctionOnSet(h, 1 .. l + m) =
          SumFunctionOnSet(f, 1 .. l) + SumFunctionOnSet(g, 1 .. m)
    <2>1. m \in 0 .. m
      OBVIOUS
    <2> QED
      BY <1>7, <2>1
  <1> QED
    BY <1>3, <1>4, <1>5, <1>6, <1>8

-----------------------------------------------------------------------------
(***************************************************************************)
(* The limits as a relation of a log and its writers.                      *)
(***************************************************************************)

EventsOwed(w) == [r \in Runs |-> IF w[r].active THEN w[r].event_reserve ELSE 0]
BytesOwed(w) == [r \in Runs |-> IF w[r].active THEN w[r].byte_reserve ELSE 0]
ThreadsOwed(w) == [t \in Threads |-> SumFunctionOnSet(BytesOwed(w), RunsOf(t))]
Held(l) == [t \in Threads |-> SizeOfAll(l[t])]

Fits(l, w) ==
  /\ \A t \in Threads :
       /\ Len(l[t]) + SumFunctionOnSet(EventsOwed(w), RunsOf(t)) <= MaxThreadEvents
       /\ Held(l)[t] + ThreadsOwed(w)[t] <= MaxThreadBytes
  /\ SumFunctionOnSet(Held(l), Threads) + SumFunctionOnSet(ThreadsOwed(w), Threads)
       <= MaxTracerBytes

SizedLog(l) == l \in [Threads -> Seq(Event)] /\ \A t \in Threads : Sized(l[t])

\* They are the aggregates that the ledger computes.
LEMMA Amounts ==
  /\ \A t \in Threads :
       /\ ReservedEvents(t) = SumFunctionOnSet(EventsOwed(writers), RunsOf(t))
       /\ ReservedBytes(t) = ThreadsOwed(writers)[t]
       /\ ThreadBytes(t) = Held(log)[t]
       /\ LastSeq(t) = Len(log[t])
  /\ TracerBytes = SumFunctionOnSet(Held(log), Threads)
  /\ TracerReserved = SumFunctionOnSet(ThreadsOwed(writers), Threads)
  <1>1. EventReserves = EventsOwed(writers) /\ ByteReserves = BytesOwed(writers)
    BY Zenon DEF EventReserves, EventsOwed, ByteReserves, BytesOwed
  <1>2. \A t : /\ ReservedEvents(t) = SumFunctionOnSet(EventsOwed(writers), RunsOf(t))
               /\ ReservedBytes(t) = SumFunctionOnSet(BytesOwed(writers), RunsOf(t))
    BY <1>1 DEF ReservedEvents, ReservedBytes
  <1>3. \A t \in Threads : /\ ReservedBytes(t) = ThreadsOwed(writers)[t]
                           /\ ThreadBytes(t) = Held(log)[t]
    BY <1>2 DEF ThreadsOwed, Held, ThreadBytes
  <1>4. TracerBytes = SumFunctionOnSet(Held(log), Threads)
    <2>1. TracerBytes = SumFunction(Held(log)) /\ DOMAIN Held(log) = Threads
      BY DEF TracerBytes, Held, ThreadBytes
    <2> QED
      BY <2>1, Zenon DEF SumFunction
  <1>5. TracerReserved = SumFunctionOnSet(ThreadsOwed(writers), Threads)
    <2>1. [t \in Threads |-> ReservedBytes(t)] = ThreadsOwed(writers)
      BY <1>2, Zenon DEF ThreadsOwed
    <2>2. TracerReserved = SumFunction(ThreadsOwed(writers))
      BY <2>1, Zenon DEF TracerReserved
    <2>3. DOMAIN ThreadsOwed(writers) = Threads
      BY DEF ThreadsOwed
    <2> QED
      BY <2>2, <2>3, Zenon DEF SumFunction
  <1> QED
    BY <1>2, <1>3, <1>4, <1>5 DEF LastSeq

\* WithinLimits says of the ledger that its log and its writers fit.
LEMMA FitsIsWithin == WithinLimits <=> Fits(log, writers)
  BY Amounts, Zenon DEF WithinLimits, Fits

\* The Runs of a thread are finitely many.
LEMMA RunsOfThread ==
  ASSUME NEW t
  PROVE  IsFiniteSet(RunsOf(t)) /\ RunsOf(t) \subseteq Runs
  <1>1. RunsOf(t) \subseteq Runs
    BY DEF RunsOf
  <1> QED
    BY <1>1, LimitsAssumption, FS_Subset

\* What is reserved is a number.
LEMMA OwedTyped ==
  ASSUME NEW w \in [Runs -> Writer]
  PROVE  /\ \A r \in Runs : EventsOwed(w)[r] \in Nat /\ BytesOwed(w)[r] \in Nat
         /\ \A t \in Threads :
              /\ SumFunctionOnSet(EventsOwed(w), RunsOf(t)) \in Nat
              /\ SumFunctionOnSet(BytesOwed(w), RunsOf(t)) \in Nat
              /\ ThreadsOwed(w)[t] = SumFunctionOnSet(BytesOwed(w), RunsOf(t))
              /\ ThreadsOwed(w)[t] \in Nat
         /\ SumFunctionOnSet(ThreadsOwed(w), Threads) \in Nat
  <1>1. ASSUME NEW r \in Runs PROVE EventsOwed(w)[r] \in Nat /\ BytesOwed(w)[r] \in Nat
    BY DEF EventsOwed, BytesOwed, Writer
  <1>2. PICK f, g : f = EventsOwed(w) /\ g = BytesOwed(w)
    OBVIOUS
  <1>3. ASSUME NEW t \in Threads
        PROVE  SumFunctionOnSet(f, RunsOf(t)) \in Nat /\ SumFunctionOnSet(g, RunsOf(t)) \in Nat
    <2>1. PICK S : S = RunsOf(t) /\ IsFiniteSet(S) /\ S \subseteq Runs
      BY RunsOfThread
    <2>2. \A r \in S : f[r] \in Nat /\ g[r] \in Nat
      BY <1>1, <1>2, <2>1
    <2>3. SumFunctionOnSet(f, S) \in Nat
      BY <2>1, <2>2, SumTyped
    <2>4. SumFunctionOnSet(g, S) \in Nat
      BY <2>1, <2>2, SumTyped
    <2> QED
      BY <2>1, <2>3, <2>4
  <1>4. PICK h : h = ThreadsOwed(w)
    OBVIOUS
  <1>5. \A t \in Threads : h[t] = SumFunctionOnSet(g, RunsOf(t)) /\ h[t] \in Nat
    BY <1>2, <1>3, <1>4 DEF ThreadsOwed
  <1>6. SumFunctionOnSet(h, Threads) \in Nat
    BY <1>5, LimitsAssumption, SumTyped
  <1> QED
    BY <1>1, <1>2, <1>3, <1>4, <1>5, <1>6

\* What is stored is a number.
LEMMA HeldTyped ==
  ASSUME NEW l, SizedLog(l)
  PROVE  /\ \A t \in Threads : /\ Held(l)[t] = SizeOfAll(l[t]) /\ Held(l)[t] \in Nat
                               /\ Len(l[t]) \in Nat /\ l[t] \in Seq(Event) /\ Sized(l[t])
         /\ SumFunctionOnSet(Held(l), Threads) \in Nat
  <1>1. ASSUME NEW t \in Threads
        PROVE  /\ Held(l)[t] = SizeOfAll(l[t]) /\ Held(l)[t] \in Nat
               /\ Len(l[t]) \in Nat /\ l[t] \in Seq(Event) /\ Sized(l[t])
    <2>1. l[t] \in Seq(Event) /\ Sized(l[t])
      BY DEF SizedLog
    <2>2. Held(l)[t] = SizeOfAll(l[t])
      BY DEF Held
    <2>3. SizeOfAll(l[t]) \in Nat
      BY <2>1, BytesUnfold
    <2> QED
      BY <2>1, <2>2, <2>3
  <1>2. PICK h : h = Held(l)
    OBVIOUS
  <1>3. \A t \in Threads : h[t] \in Nat
    BY <1>1, <1>2
  <1>4. SumFunctionOnSet(h, Threads) \in Nat
    BY <1>3, LimitsAssumption, SumTyped
  <1> QED
    BY <1>1, <1>2, <1>4

\* An empty log takes no room.
LEMMA BytesOfNothing == <<>> \in Seq(Event) /\ Sized(<<>>) /\ SizeOfAll(<<>>) = 0 /\ Len(<<>>) = 0
  <1> PICK e : e = <<>>
    OBVIOUS
  <1>1. e \in Seq(Event) /\ Len(e) = 0 /\ Sized(e)
    BY DEF Sized
  <1>2. PICK f : f = Sizes(e)
    OBVIOUS
  <1>3. SizeOfAll(e) = SumFunctionOnSet(f, 1 .. Len(e))
    BY <1>1, <1>2, BytesUnfold
  <1>4. 1 .. Len(e) = {}
    BY <1>1
  <1> QED
    BY <1>1, <1>3, <1>4, SumOfNone

\* A step after which no thread holds and no writer has reserved more.
Lightens(l, w, m, v) ==
  /\ \A t \in Threads : m[t] = l[t] \/ m[t] = <<>>
  /\ \A r \in Runs : v[r].active => /\ w[r].active
                                    /\ v[r].event_reserve <= w[r].event_reserve
                                    /\ v[r].byte_reserve <= w[r].byte_reserve

\* Such a step stays within the limits.
LEMMA LighterFits ==
  ASSUME NEW l, NEW m, SizedLog(l), m \in [Threads -> Seq(Event)],
         NEW w \in [Runs -> Writer], NEW v \in [Runs -> Writer],
         Fits(l, w), Lightens(l, w, m, v)
  PROVE  SizedLog(m) /\ Fits(m, v)
  <1>1. SizedLog(m)
    BY BytesOfNothing DEF SizedLog, Lightens
  <1>2. PICK a, b, c, d : /\ a = EventsOwed(w) /\ b = EventsOwed(v)
                          /\ c = BytesOwed(w) /\ d = BytesOwed(v)
    OBVIOUS
  <1>3. ASSUME NEW r \in Runs
        PROVE  /\ a[r] \in Nat /\ b[r] \in Nat /\ b[r] <= a[r]
               /\ c[r] \in Nat /\ d[r] \in Nat /\ d[r] <= c[r]
    <2>1. a[r] \in Nat /\ b[r] \in Nat /\ c[r] \in Nat /\ d[r] \in Nat
      BY <1>2, OwedTyped
    <2>2. /\ a[r] = IF w[r].active THEN w[r].event_reserve ELSE 0
          /\ b[r] = IF v[r].active THEN v[r].event_reserve ELSE 0
          /\ c[r] = IF w[r].active THEN w[r].byte_reserve ELSE 0
          /\ d[r] = IF v[r].active THEN v[r].byte_reserve ELSE 0
      BY <1>2 DEF EventsOwed, BytesOwed
    <2>3. CASE v[r].active
      BY <2>1, <2>2, <2>3 DEF Lightens
    <2>4. CASE ~v[r].active
      BY <2>1, <2>2, <2>4
    <2> QED
      BY <2>3, <2>4
  <1>4. ASSUME NEW t \in Threads
        PROVE  /\ SumFunctionOnSet(b, RunsOf(t)) <= SumFunctionOnSet(a, RunsOf(t))
               /\ SumFunctionOnSet(d, RunsOf(t)) <= SumFunctionOnSet(c, RunsOf(t))
    <2>1. PICK S : S = RunsOf(t) /\ IsFiniteSet(S) /\ S \subseteq Runs
      BY RunsOfThread
    <2>2. SumFunctionOnSet(b, S) <= SumFunctionOnSet(a, S)
      BY <1>3, <2>1, SumMonotone
    <2>3. SumFunctionOnSet(d, S) <= SumFunctionOnSet(c, S)
      BY <1>3, <2>1, SumMonotone
    <2> QED
      BY <2>1, <2>2, <2>3
  <1>5. PICK f, g, h, k : /\ f = Held(l) /\ g = Held(m)
                          /\ h = ThreadsOwed(w) /\ k = ThreadsOwed(v)
    OBVIOUS
  <1>6. ASSUME NEW t \in Threads
        PROVE  /\ f[t] \in Nat /\ g[t] \in Nat /\ g[t] <= f[t]
               /\ Len(l[t]) \in Nat /\ Len(m[t]) \in Nat /\ Len(m[t]) <= Len(l[t])
    <2>1. /\ f[t] \in Nat /\ g[t] \in Nat /\ Len(l[t]) \in Nat /\ Len(m[t]) \in Nat
          /\ f[t] = SizeOfAll(l[t]) /\ g[t] = SizeOfAll(m[t])
      BY <1>1, <1>5, HeldTyped
    <2>2. m[t] = l[t] \/ m[t] = <<>>
      BY DEF Lightens
    <2> QED
      BY <2>1, <2>2, BytesOfNothing
  <1>7. \A t \in Threads : h[t] \in Nat /\ k[t] \in Nat /\ k[t] <= h[t]
    BY <1>2, <1>4, <1>5, OwedTyped
  <1>8. SumFunctionOnSet(g, Threads) <= SumFunctionOnSet(f, Threads)
    BY <1>6, LimitsAssumption, SumMonotone
  <1>9. SumFunctionOnSet(k, Threads) <= SumFunctionOnSet(h, Threads)
    BY <1>7, LimitsAssumption, SumMonotone
  <1>10. /\ SumFunctionOnSet(g, Threads) \in Nat /\ SumFunctionOnSet(f, Threads) \in Nat
         /\ SumFunctionOnSet(k, Threads) \in Nat /\ SumFunctionOnSet(h, Threads) \in Nat
    BY <1>1, <1>5, HeldTyped, OwedTyped
  <1>11. SumFunctionOnSet(g, Threads) + SumFunctionOnSet(k, Threads) <= MaxTracerBytes
    <2>1. SumFunctionOnSet(f, Threads) + SumFunctionOnSet(h, Threads) <= MaxTracerBytes
      BY <1>5 DEF Fits
    <2> QED
      BY <2>1, <1>8, <1>9, <1>10, LimitsAssumption
  <1>12. ASSUME NEW t \in Threads
         PROVE  /\ Len(m[t]) + SumFunctionOnSet(b, RunsOf(t)) <= MaxThreadEvents
                /\ g[t] + k[t] <= MaxThreadBytes
    <2>1. /\ Len(l[t]) + SumFunctionOnSet(a, RunsOf(t)) <= MaxThreadEvents
          /\ f[t] + h[t] <= MaxThreadBytes
      BY <1>2, <1>5 DEF Fits
    <2>2. SumFunctionOnSet(a, RunsOf(t)) \in Nat /\ SumFunctionOnSet(b, RunsOf(t)) \in Nat
      BY <1>2, OwedTyped
    <2>3. SumFunctionOnSet(b, RunsOf(t)) <= SumFunctionOnSet(a, RunsOf(t))
      BY <1>4
    <2>4. Len(m[t]) + SumFunctionOnSet(b, RunsOf(t)) <= MaxThreadEvents
      <3>1. Len(l[t]) \in Nat /\ Len(m[t]) \in Nat /\ Len(m[t]) <= Len(l[t])
        BY <1>6
      <3>2. MaxThreadEvents \in Nat
        BY LimitsAssumption
      <3> QED
        BY <2>1, <2>2, <2>3, <3>1, <3>2
    <2>5. g[t] + k[t] <= MaxThreadBytes
      <3>1. MaxThreadBytes \in Nat
        BY LimitsAssumption
      <3> QED
        BY <1>6, <1>7, <2>1, <3>1
    <2> QED
      BY <2>4, <2>5
  <1> QED
    BY <1>1, <1>2, <1>5, <1>11, <1>12 DEF Fits

\* The reserves of a Run change: those of its thread change by as much, and so
\* do those of the Tracer.
OwedMoves(w, v, r) ==
  /\ \A t \in Threads : t # ThreadOf[r] =>
       /\ SumFunctionOnSet(EventsOwed(v), RunsOf(t)) =
            SumFunctionOnSet(EventsOwed(w), RunsOf(t))
       /\ ThreadsOwed(v)[t] = ThreadsOwed(w)[t]
  /\ SumFunctionOnSet(EventsOwed(v), RunsOf(ThreadOf[r])) + EventsOwed(w)[r] =
       SumFunctionOnSet(EventsOwed(w), RunsOf(ThreadOf[r])) + EventsOwed(v)[r]
  /\ ThreadsOwed(v)[ThreadOf[r]] + BytesOwed(w)[r] =
       ThreadsOwed(w)[ThreadOf[r]] + BytesOwed(v)[r]
  /\ SumFunctionOnSet(ThreadsOwed(v), Threads) + BytesOwed(w)[r] =
       SumFunctionOnSet(ThreadsOwed(w), Threads) + BytesOwed(v)[r]

\* So it is when one writer changes.
LEMMA OwedChanges ==
  ASSUME NEW w \in [Runs -> Writer], NEW v \in [Runs -> Writer], NEW r \in Runs,
         \A q \in Runs : q # r => v[q] = w[q]
  PROVE  OwedMoves(w, v, r)
  <1> PICK u \in Threads : u = ThreadOf[r]
    BY LimitsAssumption
  <1>1. PICK a, b, c, d : /\ a = EventsOwed(w) /\ b = EventsOwed(v)
                          /\ c = BytesOwed(w) /\ d = BytesOwed(v)
    OBVIOUS
  <1>2. \A q \in Runs : /\ a[q] \in Nat /\ b[q] \in Nat /\ c[q] \in Nat /\ d[q] \in Nat
                        /\ q # r => a[q] = b[q] /\ c[q] = d[q]
    <2>1. \A q \in Runs : a[q] \in Nat /\ b[q] \in Nat /\ c[q] \in Nat /\ d[q] \in Nat
      BY <1>1, OwedTyped
    <2>2. \A q \in Runs : q # r => a[q] = b[q] /\ c[q] = d[q]
      BY <1>1 DEF EventsOwed, BytesOwed
    <2> QED
      BY <2>1, <2>2
  <1>3. PICK h, k : h = ThreadsOwed(w) /\ k = ThreadsOwed(v)
    OBVIOUS
  <1>4. \A t \in Threads : /\ h[t] = SumFunctionOnSet(c, RunsOf(t)) /\ h[t] \in Nat
                           /\ k[t] = SumFunctionOnSet(d, RunsOf(t)) /\ k[t] \in Nat
    BY <1>1, <1>3, OwedTyped
  <1>5. ASSUME NEW t \in Threads, t # u
        PROVE  SumFunctionOnSet(b, RunsOf(t)) = SumFunctionOnSet(a, RunsOf(t)) /\ k[t] = h[t]
    <2>1. PICK S : S = RunsOf(t) /\ IsFiniteSet(S) /\ S \subseteq Runs
      BY RunsOfThread
    <2>2. r \notin S
      BY <1>5, <2>1 DEF RunsOf
    <2>3. SumFunctionOnSet(a, S) = SumFunctionOnSet(b, S)
      BY <1>2, <2>1, <2>2, SumSame
    <2>4. SumFunctionOnSet(c, S) = SumFunctionOnSet(d, S)
      BY <1>2, <2>1, <2>2, SumSame
    <2> QED
      BY <1>4, <2>1, <2>3, <2>4
  <1>6. /\ SumFunctionOnSet(b, RunsOf(u)) + a[r] = SumFunctionOnSet(a, RunsOf(u)) + b[r]
        /\ k[u] + c[r] = h[u] + d[r]
    <2>1. PICK S : S = RunsOf(u) /\ IsFiniteSet(S) /\ S \subseteq Runs
      BY RunsOfThread
    <2>2. r \in S
      BY <2>1 DEF RunsOf
    <2>3. SumFunctionOnSet(b, S) + a[r] = SumFunctionOnSet(a, S) + b[r]
      BY <1>2, <2>1, <2>2, SumChanges
    <2>4. SumFunctionOnSet(d, S) + c[r] = SumFunctionOnSet(c, S) + d[r]
      BY <1>2, <2>1, <2>2, SumChanges
    <2> QED
      BY <1>4, <2>1, <2>3, <2>4
  <1>7. SumFunctionOnSet(k, Threads) + c[r] = SumFunctionOnSet(h, Threads) + d[r]
    <2>1. \A t \in Threads : h[t] \in Nat /\ k[t] \in Nat /\ (t # u => h[t] = k[t])
      BY <1>4, <1>5
    <2>2. /\ SumFunctionOnSet(h, Threads) \in Nat /\ SumFunctionOnSet(k, Threads) \in Nat
          /\ SumFunctionOnSet(k, Threads) + h[u] = SumFunctionOnSet(h, Threads) + k[u]
      BY <2>1, LimitsAssumption, SumChanges
    <2>3. c[r] \in Nat /\ d[r] \in Nat /\ h[u] \in Nat /\ k[u] \in Nat
      BY <1>2, <1>4
    <2> QED
      BY <1>6, <2>2, <2>3
  <1> QED
    BY <1>1, <1>3, <1>5, <1>6, <1>7 DEF OwedMoves

\* A thread's log grows by some events, and the Tracer's bytes with it.
HeldMoves(l, m, t, events) ==
  /\ \A u \in Threads : u # t => m[u] = l[u] /\ Held(m)[u] = Held(l)[u]
  /\ Len(m[t]) = Len(l[t]) + Len(events)
  /\ Held(m)[t] = Held(l)[t] + SizeOfAll(events)
  /\ SumFunctionOnSet(Held(m), Threads) =
       SumFunctionOnSet(Held(l), Threads) + SizeOfAll(events)

\* So it is when they are appended.
LEMMA HeldGrows ==
  ASSUME NEW l, SizedLog(l), NEW t \in Threads, NEW events \in Seq(Event), Sized(events),
         NEW m, m = [l EXCEPT ![t] = l[t] \o events]
  PROVE  SizedLog(m) /\ HeldMoves(l, m, t, events)
  <1>1. l \in [Threads -> Seq(Event)] /\ l[t] \in Seq(Event) /\ Sized(l[t])
    BY DEF SizedLog
  <1>2. PICK e : e = l[t] \o events
    OBVIOUS
  <1>3. /\ e \in Seq(Event) /\ Len(e) = Len(l[t]) + Len(events) /\ Sized(e)
        /\ SizeOfAll(e) = SizeOfAll(l[t]) + SizeOfAll(events)
    BY <1>1, <1>2, BytesJoin
  <1>4. m \in [Threads -> Seq(Event)] /\ m[t] = e /\ \A u \in Threads : u # t => m[u] = l[u]
    BY <1>1, <1>2, <1>3
  <1>5. SizedLog(m)
    BY <1>3, <1>4 DEF SizedLog
  <1>6. PICK f, g : f = Held(l) /\ g = Held(m)
    OBVIOUS
  <1>7. \A u \in Threads : /\ f[u] \in Nat /\ g[u] \in Nat
                           /\ f[u] = SizeOfAll(l[u]) /\ g[u] = SizeOfAll(m[u])
    BY <1>5, <1>6, HeldTyped
  <1>8. \A u \in Threads : f[u] \in Nat /\ g[u] \in Nat /\ (u # t => f[u] = g[u])
    BY <1>4, <1>7
  <1>9. /\ SumFunctionOnSet(f, Threads) \in Nat /\ SumFunctionOnSet(g, Threads) \in Nat
        /\ SumFunctionOnSet(g, Threads) + f[t] = SumFunctionOnSet(f, Threads) + g[t]
    BY <1>8, LimitsAssumption, SumChanges
  <1>10. SizeOfAll(events) \in Nat /\ Len(events) \in Nat
    BY BytesUnfold
  <1>11. g[t] = f[t] + SizeOfAll(events)
    BY <1>3, <1>4, <1>7
  <1>12. SumFunctionOnSet(g, Threads) = SumFunctionOnSet(f, Threads) + SizeOfAll(events)
    <2>1. PICK p \in Nat, q \in Nat, y \in Nat, z \in Nat, n \in Nat :
            /\ p = SumFunctionOnSet(f, Threads) /\ q = SumFunctionOnSet(g, Threads)
            /\ y = f[t] /\ z = g[t] /\ n = SizeOfAll(events)
      BY <1>7, <1>9, <1>10
    <2>2. q + y = p + z /\ z = y + n
      BY <1>9, <1>11, <2>1
    <2>3. q = p + n
      BY <2>2
    <2> QED
      BY <2>1, <2>3
  <1> QED
    BY <1>3, <1>4, <1>5, <1>6, <1>8, <1>11, <1>12 DEF HeldMoves

\* The owner of a Run appends events, and its reserves become what they are
\* afterwards: everything fits if it fits in this thread and in the Tracer.
RoomFor(l, w, r, events, x) ==
  LET t == ThreadOf[r] IN
  /\ Len(l[t]) + Len(events) + SumFunctionOnSet(EventsOwed(w), RunsOf(t)) + x.event_reserve
       <= MaxThreadEvents + EventsOwed(w)[r]
  /\ Held(l)[t] + SizeOfAll(events) + ThreadsOwed(w)[t] + x.byte_reserve
       <= MaxThreadBytes + BytesOwed(w)[r]
  /\ SumFunctionOnSet(Held(l), Threads) + SizeOfAll(events)
       + SumFunctionOnSet(ThreadsOwed(w), Threads) + x.byte_reserve
       <= MaxTracerBytes + BytesOwed(w)[r]

\* What was appended where there was room fits.
LEMMA AddedFits ==
  ASSUME NEW l, SizedLog(l), NEW w \in [Runs -> Writer], Fits(l, w),
         NEW r \in Runs, NEW x \in Writer, NEW events \in Seq(Event), Sized(events),
         NEW m, NEW v,
         m = [l EXCEPT ![ThreadOf[r]] = l[ThreadOf[r]] \o events],
         v = [w EXCEPT ![r] = x],
         RoomFor(l, w, r, events, x)
  PROVE  SizedLog(m) /\ Fits(m, v)
  <1> PICK t \in Threads : t = ThreadOf[r]
    BY LimitsAssumption
  <1>1. v \in [Runs -> Writer] /\ v[r] = x /\ \A q \in Runs : q # r => v[q] = w[q]
    OBVIOUS
  <1>2. PICK a, b : a = EventsOwed(w) /\ b = EventsOwed(v)
    OBVIOUS
  <1>3. PICK c \in Nat, d \in Nat, i \in Nat, j \in Nat :
          c = EventsOwed(w)[r] /\ d = EventsOwed(v)[r]
          /\ i = BytesOwed(w)[r] /\ j = BytesOwed(v)[r]
    BY <1>1, OwedTyped
  <1>4. d <= x.event_reserve /\ j <= x.byte_reserve
        /\ x.event_reserve \in Nat /\ x.byte_reserve \in Nat
    <2>1. x.event_reserve \in Nat /\ x.byte_reserve \in Nat
      BY DEF Writer
    <2>2. /\ d = IF x.active THEN x.event_reserve ELSE 0
          /\ j = IF x.active THEN x.byte_reserve ELSE 0
      BY <1>1, <1>3 DEF EventsOwed, BytesOwed
    <2> QED
      BY <2>1, <2>2
  <1>5. PICK f, g, h, k : /\ f = Held(l) /\ g = Held(m)
                          /\ h = ThreadsOwed(w) /\ k = ThreadsOwed(v)
    OBVIOUS
  <1>6. PICK n \in Nat, o \in Nat : n = Len(events) /\ o = SizeOfAll(events)
    BY BytesUnfold
  <1>7. /\ SizedLog(m) /\ \A u \in Threads : u # t => m[u] = l[u] /\ g[u] = f[u]
        /\ Len(m[t]) = Len(l[t]) + n
        /\ g[t] = f[t] + o
        /\ SumFunctionOnSet(g, Threads) = SumFunctionOnSet(f, Threads) + o
    <2>1. m = [l EXCEPT ![t] = l[t] \o events]
      OBVIOUS
    <2>2. SizedLog(m) /\ HeldMoves(l, m, t, events)
      BY <2>1, HeldGrows
    <2> QED
      BY <1>5, <1>6, <2>2 DEF HeldMoves
  <1>8. /\ \A u \in Threads : u # t =>
             SumFunctionOnSet(b, RunsOf(u)) = SumFunctionOnSet(a, RunsOf(u)) /\ k[u] = h[u]
        /\ SumFunctionOnSet(b, RunsOf(t)) + c = SumFunctionOnSet(a, RunsOf(t)) + d
        /\ k[t] + i = h[t] + j
        /\ SumFunctionOnSet(k, Threads) + i = SumFunctionOnSet(h, Threads) + j
    <2>1. OwedMoves(w, v, r)
      BY <1>1, OwedChanges
    <2> QED
      BY <1>2, <1>3, <1>5, <2>1 DEF OwedMoves
  <1>9. /\ SumFunctionOnSet(f, Threads) \in Nat /\ SumFunctionOnSet(g, Threads) \in Nat
        /\ \A u \in Threads : f[u] \in Nat /\ g[u] \in Nat /\ Len(l[u]) \in Nat /\ Len(m[u]) \in Nat
    BY <1>5, <1>7, HeldTyped
  <1>10. /\ SumFunctionOnSet(h, Threads) \in Nat /\ SumFunctionOnSet(k, Threads) \in Nat
         /\ \A u \in Threads : /\ h[u] \in Nat /\ k[u] \in Nat
                               /\ SumFunctionOnSet(a, RunsOf(u)) \in Nat
                               /\ SumFunctionOnSet(b, RunsOf(u)) \in Nat
    BY <1>1, <1>2, <1>5, OwedTyped
  <1>11. /\ Len(l[t]) + n + SumFunctionOnSet(a, RunsOf(t)) + x.event_reserve
              <= MaxThreadEvents + c
         /\ f[t] + o + h[t] + x.byte_reserve <= MaxThreadBytes + i
         /\ SumFunctionOnSet(f, Threads) + o + SumFunctionOnSet(h, Threads) + x.byte_reserve
              <= MaxTracerBytes + i
    BY <1>2, <1>3, <1>5, <1>6 DEF RoomFor
  <1>12. MaxThreadEvents \in Nat /\ MaxThreadBytes \in Nat /\ MaxTracerBytes \in Nat
    BY LimitsAssumption
  <1>13. SumFunctionOnSet(g, Threads) + SumFunctionOnSet(k, Threads) <= MaxTracerBytes
    <2>1. PICK p \in Nat, q \in Nat, y \in Nat, z \in Nat, e \in Nat :
            /\ p = SumFunctionOnSet(f, Threads) /\ q = SumFunctionOnSet(g, Threads)
            /\ y = SumFunctionOnSet(h, Threads) /\ z = SumFunctionOnSet(k, Threads)
            /\ e = x.byte_reserve
      BY <1>4, <1>9, <1>10
    <2>2. q = p + o /\ z + i = y + j /\ p + o + y + e <= MaxTracerBytes + i /\ j <= e
      BY <1>4, <1>7, <1>8, <1>11, <2>1
    <2>3. q + z <= MaxTracerBytes
      BY <1>12, <2>2
    <2> QED
      BY <2>1, <2>3
  <1>14. ASSUME NEW u \in Threads
         PROVE  /\ Len(m[u]) + SumFunctionOnSet(b, RunsOf(u)) <= MaxThreadEvents
                /\ g[u] + k[u] <= MaxThreadBytes
    <2>1. CASE u = t
      <3>1. Len(m[t]) + SumFunctionOnSet(b, RunsOf(t)) <= MaxThreadEvents
        <4>1. PICK p \in Nat, q \in Nat, y \in Nat, z \in Nat :
                /\ p = Len(l[t]) /\ q = Len(m[t])
                /\ y = SumFunctionOnSet(a, RunsOf(t)) /\ z = SumFunctionOnSet(b, RunsOf(t))
          BY <1>9, <1>10
        <4>2. q = p + n /\ z + c = y + d /\ p + n + y + x.event_reserve <= MaxThreadEvents + c
          BY <1>7, <1>8, <1>11, <4>1
        <4>3. q + z <= MaxThreadEvents
          BY <1>4, <1>12, <4>2
        <4> QED
          BY <4>1, <4>3
      <3>2. g[t] + k[t] <= MaxThreadBytes
        <4>1. PICK p \in Nat, q \in Nat, y \in Nat, z \in Nat, e \in Nat :
                /\ p = f[t] /\ q = g[t] /\ y = h[t] /\ z = k[t] /\ e = x.byte_reserve
          BY <1>4, <1>9, <1>10
        <4>2. q = p + o /\ z + i = y + j /\ p + o + y + e <= MaxThreadBytes + i /\ j <= e
          BY <1>4, <1>7, <1>8, <1>11, <4>1
        <4>3. q + z <= MaxThreadBytes
          BY <1>12, <4>2
        <4> QED
          BY <4>1, <4>3
      <3> QED
        BY <2>1, <3>1, <3>2
    <2>2. CASE u # t
      <3>1. /\ Len(l[u]) + SumFunctionOnSet(a, RunsOf(u)) <= MaxThreadEvents
            /\ f[u] + h[u] <= MaxThreadBytes
        BY <1>2, <1>5 DEF Fits
      <3>2. /\ m[u] = l[u] /\ g[u] = f[u] /\ k[u] = h[u]
            /\ SumFunctionOnSet(b, RunsOf(u)) = SumFunctionOnSet(a, RunsOf(u))
        BY <1>7, <1>8, <2>2
      <3> QED
        BY <3>1, <3>2
    <2> QED
      BY <2>1, <2>2
  <1> QED
    BY <1>2, <1>5, <1>7, <1>13, <1>14 DEF Fits

-----------------------------------------------------------------------------
(***************************************************************************)
(* The steps.                                                              *)
(***************************************************************************)

\* The limits, with what the sums need of the log: every event has a size.
LimitsInv == SizedLog(log) /\ Fits(log, writers)

\* The aggregates of the ledger are numbers.
LEMMA AmountsTyped ==
  ASSUME LedgerTypes, LimitsInv, NEW t \in Threads
  PROVE  /\ LastSeq(t) \in Nat /\ ReservedEvents(t) \in Nat
         /\ ThreadBytes(t) \in Nat /\ ReservedBytes(t) \in Nat
         /\ TracerBytes \in Nat /\ TracerReserved \in Nat
  <1>1. writers \in [Runs -> Writer] /\ SizedLog(log)
    BY DEF LedgerTypes, LimitsInv
  <1>2. /\ SumFunctionOnSet(EventsOwed(writers), RunsOf(t)) \in Nat
        /\ ThreadsOwed(writers)[t] \in Nat
        /\ SumFunctionOnSet(ThreadsOwed(writers), Threads) \in Nat
    BY <1>1, OwedTyped
  <1>3. /\ Held(log)[t] \in Nat /\ Len(log[t]) \in Nat
        /\ SumFunctionOnSet(Held(log), Threads) \in Nat
    BY <1>1, HeldTyped
  <1> QED
    BY <1>2, <1>3, Amounts

\* A step that makes nothing heavier.
LEMMA LightStep ==
  ASSUME LedgerTypes, LedgerTypes', LimitsInv, Lightens(log, writers, log', writers')
  PROVE  LimitsInv'
  <1>1. PICK m : m = log'
    OBVIOUS
  <1>2. PICK v : v = writers'
    OBVIOUS
  <1>3. m \in [Threads -> Seq(Event)] /\ v \in [Runs -> Writer] /\ writers \in [Runs -> Writer]
    BY <1>1, <1>2 DEF LedgerTypes
  <1>4. Lightens(log, writers, m, v) /\ SizedLog(log) /\ Fits(log, writers)
    BY <1>1, <1>2 DEF LimitsInv
  <1>5. SizedLog(m) /\ Fits(m, v)
    BY <1>3, <1>4, LighterFits
  <1> QED
    BY <1>1, <1>2, <1>5 DEF LimitsInv

\* A step that appends where there is room.
LEMMA RoomStep ==
  ASSUME LedgerTypes, LimitsInv, NEW r \in Runs, NEW x \in Writer,
         NEW events \in Seq(Event), Sized(events),
         log' = [log EXCEPT ![ThreadOf[r]] = log[ThreadOf[r]] \o events],
         writers' = [writers EXCEPT ![r] = x],
         RoomFor(log, writers, r, events, x)
  PROVE  LimitsInv'
  <1>1. PICK m : m = log'
    OBVIOUS
  <1>2. PICK v : v = writers'
    OBVIOUS
  <1>3. PICK l : l = log
    OBVIOUS
  <1>4. PICK w : w = writers
    OBVIOUS
  <1>5. /\ m = [l EXCEPT ![ThreadOf[r]] = l[ThreadOf[r]] \o events]
        /\ v = [w EXCEPT ![r] = x]
    BY <1>1, <1>2, <1>3, <1>4
  <1>6. w \in [Runs -> Writer] /\ SizedLog(l) /\ Fits(l, w) /\ RoomFor(l, w, r, events, x)
    BY <1>3, <1>4 DEF LedgerTypes, LimitsInv
  <1>7. SizedLog(m) /\ Fits(m, v)
    BY <1>5, <1>6, AddedFits
  <1> QED
    BY <1>1, <1>2, <1>7 DEF LimitsInv

\* A writer that passes to somebody keeps its reserves.
LEMMA HandsLightens ==
  ASSUME LedgerTypes, NEW r \in Runs, NEW owner, Hands(r, owner)
  PROVE  Lightens(log, writers, log', writers')
  <1>1. PICK fence \in Nat, leased \in BOOLEAN : WriterReplaced(r, Passed(r, owner, fence, leased))
    BY DEF Hands
  <1>2. PICK x : x = Passed(r, owner, fence, leased)
    OBVIOUS
  <1>3. writers \in [Runs -> Writer] /\ writers[r] \in Writer
    BY DEF LedgerTypes
  <1>4. /\ x.active = writers[r].active /\ x.event_reserve = writers[r].event_reserve
        /\ x.byte_reserve = writers[r].byte_reserve
    BY <1>2, <1>3 DEF Passed, Writer
  <1>5. \A q \in Runs : writers'[q] = IF q = r THEN x ELSE writers[q]
    BY <1>1, <1>2, <1>3 DEF WriterReplaced
  <1>6. \A q \in Runs : /\ writers[q].event_reserve <= writers[q].event_reserve
                        /\ writers[q].byte_reserve <= writers[q].byte_reserve
    BY <1>3 DEF Writer
  <1> QED
    BY <1>4, <1>5, <1>6 DEF Lightens, Hands

\* One that is retired or removed gives them back.
LEMMA CloseLightens ==
  ASSUME LedgerTypes, NEW r \in Runs, Retires(r) \/ Removes(r)
  PROVE  Lightens(log, writers, log', writers')
  <1>1. writers \in [Runs -> Writer] /\ writers[r] \in Writer
    BY DEF LedgerTypes
  <1>2. PICK x : WriterReplaced(r, x) /\ ~x.active
    BY <1>1, RetiredSound, NoWriterSound DEF Retires, Removes
  <1>3. \A q \in Runs : writers'[q] = IF q = r THEN x ELSE writers[q]
    BY <1>1, <1>2 DEF WriterReplaced
  <1>4. \A q \in Runs : /\ writers[q].event_reserve <= writers[q].event_reserve
                        /\ writers[q].byte_reserve <= writers[q].byte_reserve
    BY <1>1 DEF Writer
  <1> QED
    BY <1>2, <1>3, <1>4 DEF Lightens, Retires, Removes

\* A thread that loses its generation loses its log and its reserves.
LEMMA DropsLightens ==
  ASSUME LedgerTypes, NEW t \in Threads, Drops(t)
  PROVE  Lightens(log, writers, log', writers')
  <1>1. writers \in [Runs -> Writer] /\ log \in [Threads -> Seq(Event)]
    BY DEF LedgerTypes
  <1>2. \A u \in Threads : log'[u] = log[u] \/ log'[u] = <<>>
    BY <1>1 DEF Drops, Dropped
  <1>3. \A q \in Runs : ~writers'[q].active \/ writers'[q] = writers[q]
    BY DEF Drops
  <1>4. \A q \in Runs : /\ writers[q].event_reserve <= writers[q].event_reserve
                        /\ writers[q].byte_reserve <= writers[q].byte_reserve
    BY <1>1 DEF Writer
  <1> QED
    BY <1>2, <1>3, <1>4 DEF Lightens

\* open_writer of a new Run: its reserve was found to fit.
LEMMA OpenNewFits ==
  ASSUME LedgerTypes, LimitsInv, NEW r \in Runs, NEW s \in Tokens, WriterSound(r), OpenNew(r, s)
  PROVE  LimitsInv'
  <1> PICK t \in Threads : t = ThreadOf[r]
    BY LimitsAssumption
  <1>1. /\ log \in [Threads -> Seq(Event)] /\ writers \in [Runs -> Writer]
        /\ log[t] \in Seq(Event)
    BY DEF LedgerTypes
  <1>2. PICK x \in Writer : x = NewWriter(s)
    BY NewWriterSound
  <1>3. x.event_reserve = TerminalReserveEvents /\ x.byte_reserve = TerminalReserveBytes
    BY <1>2 DEF NewWriter
  <1>4. ~writers[r].active /\ RoomForReserve(t)
    BY DEF OpenNew, MayOpenNew, WriterSound
  <1>5. EventsOwed(writers)[r] = 0 /\ BytesOwed(writers)[r] = 0
    BY <1>4 DEF EventsOwed, BytesOwed
  <1>6. PICK events \in Seq(Event) : events = <<>>
    BY BytesOfNothing
  <1>7. Sized(events) /\ SizeOfAll(events) = 0 /\ Len(events) = 0
    BY <1>6, BytesOfNothing
  <1>8. log' = [log EXCEPT ![ThreadOf[r]] = log[ThreadOf[r]] \o events]
    <2>1. log[t] \o events = log[t]
      BY <1>1, <1>6
    <2> QED
      BY <1>1, <2>1 DEF OpenNew
  <1>9. writers' = [writers EXCEPT ![r] = x]
    BY <1>2 DEF OpenNew
  <1>10. RoomFor(log, writers, r, events, x)
    <2>1. PICK a \in Nat, b \in Nat, c \in Nat, d \in Nat, e \in Nat, f \in Nat :
            /\ a = LastSeq(t) /\ b = ReservedEvents(t)
            /\ c = ThreadBytes(t) /\ d = ReservedBytes(t)
            /\ e = TracerBytes /\ f = TracerReserved
      BY AmountsTyped
    <2>2. /\ a + b + TerminalReserveEvents <= MaxThreadEvents
          /\ c + d + TerminalReserveBytes <= MaxThreadBytes
          /\ e + f + TerminalReserveBytes <= MaxTracerBytes
      BY <1>4, <2>1 DEF RoomForReserve
    <2>3. /\ MaxThreadEvents \in Nat /\ MaxThreadBytes \in Nat /\ MaxTracerBytes \in Nat
          /\ TerminalReserveEvents \in Nat /\ TerminalReserveBytes \in Nat
      BY LimitsAssumption
    <2>4. /\ a + 0 + b + TerminalReserveEvents <= MaxThreadEvents + 0
          /\ c + 0 + d + TerminalReserveBytes <= MaxThreadBytes + 0
          /\ e + 0 + f + TerminalReserveBytes <= MaxTracerBytes + 0
      BY <2>2, <2>3
    <2>5. /\ a = Len(log[t]) /\ b = SumFunctionOnSet(EventsOwed(writers), RunsOf(t))
          /\ c = Held(log)[t] /\ d = ThreadsOwed(writers)[t]
          /\ e = SumFunctionOnSet(Held(log), Threads)
          /\ f = SumFunctionOnSet(ThreadsOwed(writers), Threads)
      BY <2>1, Amounts
    <2> QED
      BY <1>3, <1>5, <1>7, <2>4, <2>5 DEF RoomFor
  <1> QED
    BY <1>7, <1>8, <1>9, <1>10, RoomStep

\* A writer that was replaced by another.
LEMMA Written ==
  ASSUME writers \in [Runs -> Writer], LedgerTypes', NEW r \in Runs, NEW x,
         writers' = [writers EXCEPT ![r] = x]
  PROVE  x \in Writer
  <1>1. writers'[r] = x
    OBVIOUS
  <1>2. writers'[r] \in Writer
    BY DEF LedgerTypes
  <1> QED
    BY <1>1, <1>2

\* append_events of ordinary facts: they were found to fit beside the reserves.
LEMMA AppendFactsFits ==
  ASSUME LedgerTypes, LedgerTypes', LimitsInv, NEW r \in Runs, NEW g, NEW s, NEW f,
         NEW events \in Seq(Event), Sized(events), AppendFacts(r, g, s, f, events)
  PROVE  LimitsInv'
  <1> PICK t \in Threads : t = ThreadOf[r]
    BY LimitsAssumption
  <1>1. writers \in [Runs -> Writer] /\ writers[r] \in Writer
    BY DEF LedgerTypes
  <1>2. PICK n \in Nat, b \in Nat : n = Len(events) /\ b = SizeOfAll(events)
    BY BytesUnfold
  <1>3. PICK x \in Writer : x = [writers[r] EXCEPT !.committed_events = @ + n]
    <2>1. PICK x : x = [writers[r] EXCEPT !.committed_events = @ + n]
      OBVIOUS
    <2>2. writers' = [writers EXCEPT ![r] = x]
      BY <1>2, <2>1 DEF AppendFacts
    <2>3. x \in Writer
      BY <1>1, <2>2, Written
    <2> QED
      BY <2>1, <2>3
  <1>4. PICK i \in Nat, j \in Nat : i = writers[r].event_reserve /\ j = writers[r].byte_reserve
    BY <1>1 DEF Writer
  <1>5. x.event_reserve = i /\ x.byte_reserve = j
    BY <1>1, <1>3, <1>4 DEF Writer
  <1>6. writers[r].active /\ RoomForFacts(t, events)
    BY DEF AppendFacts, MayAppendFacts, Owned, Holds
  <1>7. EventsOwed(writers)[r] = i /\ BytesOwed(writers)[r] = j
    BY <1>4, <1>6 DEF EventsOwed, BytesOwed
  <1>8. log' = [log EXCEPT ![ThreadOf[r]] = log[ThreadOf[r]] \o events]
    BY DEF AppendFacts
  <1>9. writers' = [writers EXCEPT ![r] = x]
    BY <1>2, <1>3 DEF AppendFacts
  <1>10. RoomFor(log, writers, r, events, x)
    <2>1. PICK k \in Nat, l \in Nat, m \in Nat, o \in Nat, p \in Nat, q \in Nat :
            /\ k = LastSeq(t) /\ l = ReservedEvents(t)
            /\ m = ThreadBytes(t) /\ o = ReservedBytes(t)
            /\ p = TracerBytes /\ q = TracerReserved
      BY AmountsTyped
    <2>2. /\ k + n + l <= MaxThreadEvents
          /\ m + b + o <= MaxThreadBytes
          /\ p + b + q <= MaxTracerBytes
      BY <1>2, <1>6, <2>1 DEF RoomForFacts
    <2>3. MaxThreadEvents \in Nat /\ MaxThreadBytes \in Nat /\ MaxTracerBytes \in Nat
      BY LimitsAssumption
    <2>4. /\ k + n + l + i <= MaxThreadEvents + i
          /\ m + b + o + j <= MaxThreadBytes + j
          /\ p + b + q + j <= MaxTracerBytes + j
      BY <2>2, <2>3
    <2>5. /\ k = Len(log[t]) /\ l = SumFunctionOnSet(EventsOwed(writers), RunsOf(t))
          /\ m = Held(log)[t] /\ o = ThreadsOwed(writers)[t]
          /\ p = SumFunctionOnSet(Held(log), Threads)
          /\ q = SumFunctionOnSet(ThreadsOwed(writers), Threads)
      BY <2>1, Amounts
    <2> QED
      BY <1>2, <1>5, <1>7, <2>4, <2>5 DEF RoomFor
  <1> QED
    BY <1>8, <1>9, <1>10, RoomStep

\* append_events of a mandatory fact: its reserve pays for it.
LEMMA AppendMandatoryFits ==
  ASSUME LedgerTypes, LedgerTypes', LimitsInv, NEW r \in Runs, NEW g, NEW s, NEW f,
         NEW event \in Event, SizeOf(event.id) \in Nat, AppendMandatory(r, g, s, f, event)
  PROVE  LimitsInv'
  <1> PICK t \in Threads : t = ThreadOf[r]
    BY LimitsAssumption
  <1>1. /\ writers \in [Runs -> Writer] /\ writers[r] \in Writer
        /\ log \in [Threads -> Seq(Event)] /\ log[t] \in Seq(Event)
    BY DEF LedgerTypes
  <1>2. PICK b \in Nat : b = SizeOf(event.id)
    OBVIOUS
  <1>3. PICK i \in Nat, j \in Nat : i = writers[r].event_reserve /\ j = writers[r].byte_reserve
    BY <1>1 DEF Writer
  <1>4. writers[r].active /\ i >= 1 /\ j >= b
    BY <1>2, <1>3 DEF AppendMandatory, MayAppendMandatory, Owned, Holds
  <1>5. PICK c \in Nat, d \in Nat : /\ c = IF event.phase = "closed" THEN 0 ELSE i - 1
                                   /\ d = IF event.phase = "closed" THEN 0 ELSE j - b
    <2>1. PICK c \in Nat : c = IF event.phase = "closed" THEN 0 ELSE i - 1
      BY <1>4
    <2>2. j - b \in Nat /\ 0 \in Nat
      BY <1>4
    <2>3. PICK d \in Nat : d = IF event.phase = "closed" THEN 0 ELSE j - b
      BY <2>2, Zenon
    <2> QED
      BY <2>1, <2>3
  <1>6. c + 1 <= i /\ d + b <= j
    BY <1>4, <1>5
  <1>7. PICK x : x = AfterMandatory(writers[r], event)
    OBVIOUS
  <1>8. x \in Writer /\ x.event_reserve = c /\ x.byte_reserve = d
    <2>1. /\ x.event_reserve = IF event.phase = "closed" THEN 0 ELSE writers[r].event_reserve - 1
          /\ x.byte_reserve = IF event.phase = "closed" THEN 0
                              ELSE writers[r].byte_reserve - SizeOf(event.id)
      BY <1>1, <1>7 DEF AfterMandatory, Writer
    <2>2. x.event_reserve = c /\ x.byte_reserve = d
      BY <1>2, <1>3, <1>5, <2>1
    <2>3. x \in Writer
      BY <1>1, <1>7, Written DEF AppendMandatory
    <2> QED
      BY <2>2, <2>3
  <1>9. EventsOwed(writers)[r] = i /\ BytesOwed(writers)[r] = j
    BY <1>3, <1>4 DEF EventsOwed, BytesOwed
  <1>10. PICK events \in Seq(Event) : events = <<event>>
    <2>1. <<event>> \in Seq(Event)
      OBVIOUS
    <2> QED
      BY <2>1
  <1>11. Len(events) = 1 /\ Sized(events) /\ SizeOfAll(events) = b
    <2>1. Len(events) = 1 /\ DOMAIN events = 1 .. 1 /\ events[1] = event
      BY <1>10
    <2>2. Sized(events)
      BY <1>2, <2>1 DEF Sized
    <2>3. PICK h : h = Sizes(events)
      OBVIOUS
    <2>4. /\ SizeOfAll(events) = SumFunctionOnSet(h, 1 .. 1)
          /\ \A k \in 1 .. 1 : h[k] = SizeOf(events[k].id) /\ h[k] \in Nat
      BY <2>1, <2>2, <2>3, BytesUnfold
    <2>5. SumFunctionOnSet(h, 1 .. 1) = h[1] + SumFunctionOnSet(h, 1 .. 0)
      <3>1. 1 \in Nat /\ 1 # 0 /\ 1 - 1 = 0
        OBVIOUS
      <3> QED
        BY <2>4, <3>1, SumOfInterval
    <2>6. SumFunctionOnSet(h, 1 .. 0) = 0
      <3>1. 1 .. 0 = {}
        OBVIOUS
      <3> QED
        BY <3>1, SumOfNone
    <2>7. h[1] = b
      BY <1>2, <2>1, <2>4
    <2> QED
      BY <2>1, <2>2, <2>4, <2>5, <2>6, <2>7
  <1>12. log' = [log EXCEPT ![ThreadOf[r]] = log[ThreadOf[r]] \o events]
    <2>1. Append(log[t], event) = log[t] \o events
      BY <1>1, <1>10, AppendIsJoin
    <2>2. log' = [log EXCEPT ![t] = Append(log[t], event)]
      BY DEF AppendMandatory
    <2> QED
      BY <2>1, <2>2
  <1>13. writers' = [writers EXCEPT ![r] = x]
    BY <1>7 DEF AppendMandatory
  <1>14. RoomFor(log, writers, r, events, x)
    <2>1. PICK k \in Nat, l \in Nat, m \in Nat, o \in Nat, p \in Nat, q \in Nat :
            /\ k = LastSeq(t) /\ l = ReservedEvents(t)
            /\ m = ThreadBytes(t) /\ o = ReservedBytes(t)
            /\ p = TracerBytes /\ q = TracerReserved
      BY AmountsTyped
    <2>2. /\ k = Len(log[t]) /\ l = SumFunctionOnSet(EventsOwed(writers), RunsOf(t))
          /\ m = Held(log)[t] /\ o = ThreadsOwed(writers)[t]
          /\ p = SumFunctionOnSet(Held(log), Threads)
          /\ q = SumFunctionOnSet(ThreadsOwed(writers), Threads)
      BY <2>1, Amounts
    <2>3. k + l <= MaxThreadEvents /\ m + o <= MaxThreadBytes /\ p + q <= MaxTracerBytes
      BY <2>2 DEF LimitsInv, Fits
    <2>4. MaxThreadEvents \in Nat /\ MaxThreadBytes \in Nat /\ MaxTracerBytes \in Nat
      BY LimitsAssumption
    <2>5. /\ k + 1 + l + c <= MaxThreadEvents + i
          /\ m + b + o + d <= MaxThreadBytes + j
          /\ p + b + q + d <= MaxTracerBytes + j
      BY <1>6, <2>3, <2>4
    <2> QED
      BY <1>8, <1>9, <1>11, <2>2, <2>5 DEF RoomFor
  <1> QED
    BY <1>8, <1>11, <1>12, <1>13, <1>14, RoomStep

\* What a step does to the ledger's log and writers.
LedgerMoves ==
  \/ UNCHANGED <<log, writers>>
  \/ \E r \in Runs : \/ \E owner \in Tokens \cup {Nobody} : Hands(r, owner)
                     \/ Retires(r) \/ Removes(r)
                     \/ \E s \in Tokens : OpenNew(r, s)
  \/ \E t \in Threads : Drops(t)
  \/ \E s \in Tokens : AppendBatch(s) \/ AppendLast(s)

\* open_writer.
LEMMA OpenMoves ==
  ASSUME WritingInv, NEW s \in Tokens, NEW r \in Runs, OpenWriter(r, s)
  PROVE  LedgerMoves
  <1>1. LedgerSound
    BY SessionFacts
  <1>2. CASE OpenNew(r, s)
    BY <1>2 DEF LedgerMoves
  <1>3. CASE OpenAgain(r, s) \/ TakeOver(r, s)
    BY <1>1, <1>3, OpenHands DEF LedgerMoves
  <1> QED
    BY <1>2, <1>3 DEF OpenWriter

\* append_events that finds its events stored.
LEMMA ProvenMoves ==
  ASSUME WritingInv, NEW s \in Tokens, NEW r \in Runs, NEW g, NEW f, ProvenAppend(r, g, s, f)
  PROVE  LedgerMoves
  <1>1. LedgerSound
    BY SessionFacts
  <1>2. UNCHANGED ledgerVars \/ Hands(r, writers[r].owner)
    BY <1>1, ProvenAppendHands
  <1>3. writers[r].owner \in Tokens \cup {Nobody}
    BY <1>1, WriterOwned
  <1> QED
    BY <1>2, <1>3 DEF LedgerMoves, ledgerVars

\* close_writer.
LEMMA ReleaseMoves ==
  ASSUME WritingInv, NEW s \in Tokens, Release(s)
  PROVE  LedgerMoves
  <1>1. LedgerSound /\ Live(session[s]) /\ session[s].run \in Runs
    BY SessionFacts, ReleaseFacts DEF Release
  <1>2. PICK r \in Runs : r = session[s].run
    BY <1>1
  <1>3. CASE UNCHANGED ledgerVars
    BY <1>3 DEF LedgerMoves, ledgerVars
  <1>4. CASE CloseWriter(r, session[s].generation, s, session[s].fence)
    <2>1. Retires(r) \/ Removes(r) \/ Drops(ThreadOf[r])
      BY <1>1, <1>4, CloseWriterEnds
    <2>2. ThreadOf[r] \in Threads
      BY LimitsAssumption
    <2> QED
      BY <2>1, <2>2 DEF LedgerMoves
  <1> QED
    BY <1>2, <1>3, <1>4 DEF Release, NothingClosed

\* A worker's append and a mandatory one.
LEMMA CommitMoves ==
  ASSUME WritingInv, NEW s \in Tokens, WorkerCommits(s) \/ MandatoryCommits(s)
  PROVE  LedgerMoves
  <1>1. CASE AppendBatch(s) \/ AppendLast(s)
    BY <1>1 DEF LedgerMoves
  <1>2. CASE /\ session[s].worker = "append"
             /\ ProvenAppend(session[s].run, session[s].generation, s, session[s].fence)
    <2>1. PICK r \in Runs : r = session[s].run
      BY <1>2, AppendingFacts, SessionFacts
    <2> QED
      BY <1>2, <2>1, ProvenMoves
  <1>3. CASE /\ Finishes(s)
             /\ ProvenAppend(session[s].run, session[s].generation, s, session[s].fence)
    <2>1. PICK r \in Runs : r = session[s].run
      BY <1>3, FinishesFacts, SessionFacts
    <2> QED
      BY <1>3, <2>1, ProvenMoves
  <1> QED
    BY <1>1, <1>2, <1>3 DEF WorkerCommits, MandatoryCommits

\* A heartbeat, a lease that elapses, a deletion.
LEMMA OutsideMoves ==
  ASSUME WritingInv,
         \/ \E s \in Tokens : HeartbeatRevives(s)
         \/ \E r \in Runs : Expires(r)
         \/ \E t \in Threads : Deleted(t)
  PROVE  LedgerMoves
  <1>1. LedgerSound
    BY DEF WritingInv
  <1>2. \A r \in Runs : writers[r].owner \in Tokens \cup {Nobody}
    BY <1>1, WriterOwned
  <1>3. ASSUME NEW s \in Tokens, HeartbeatRevives(s) PROVE LedgerMoves
    <2>1. session[s].run \in Runs
      <3>1. Live(session[s])
        BY <1>3 DEF HeartbeatRevives, Live
      <3> QED
        BY <3>1, SessionFacts
    <2>2. PICK r \in Runs : r = session[s].run
      BY <2>1
    <2>3. Hands(r, writers[r].owner)
      BY <1>1, <1>3, <2>2, ProvenRenewalHands DEF HeartbeatRevives
    <2> QED
      BY <1>2, <2>3 DEF LedgerMoves
  <1>4. ASSUME NEW r \in Runs, Expires(r) PROVE LedgerMoves
    <2>1. Hands(r, writers[r].owner)
      BY <1>1, <1>4, LeaseExpiresHands DEF Expires
    <2> QED
      BY <1>2, <2>1 DEF LedgerMoves
  <1>5. ASSUME NEW t \in Threads, Deleted(t) PROVE LedgerMoves
    <2>1. Drops(t)
      BY <1>1, <1>5, DeleteDrops DEF Deleted
    <2> QED
      BY <2>1 DEF LedgerMoves
  <1> QED
    BY <1>3, <1>4, <1>5

\* Every step.
LEMMA NextMoves ==
  ASSUME WritingInv, [Next]_vars
  PROVE  LedgerMoves
  <1>1. ASSUME UNCHANGED <<log, writers>> PROVE LedgerMoves
    BY <1>1 DEF LedgerMoves
  <1>2. CASE UNCHANGED vars
    BY <1>1, <1>2 DEF vars, ledgerVars
  <1>3. ASSUME NEW s \in Tokens, Calls(s) PROVE LedgerMoves
    <2>1. ASSUME NEW r \in Runs, Opened(s, r) PROVE LedgerMoves
      BY <2>1, OpenMoves DEF Opened
    <2>2. CASE \/ \E r \in Runs : OpenFails(s, r)
               \/ \E n \in Submissions : Submit(s, n)
               \/ FinishWaits(s) \/ FinishRaises(s) \/ CloseWaits(s)
               \/ MandatoryFails(s) \/ ReleaseFails(s) \/ QueryBegins(s)
      BY <1>1, <2>2 DEF OpenFails, Submit, FinishWaits, FinishRaises, CloseWaits,
         MandatoryFails, ReleaseFails, QueryBegins, ledgerVars
    <2>3. CASE MandatoryCommits(s)
      BY <2>3, CommitMoves
    <2>4. CASE Released(s)
      BY <2>4, ReleaseMoves DEF Released
    <2> QED
      BY <1>3, <2>1, <2>2, <2>3, <2>4 DEF Calls, Finish, Close
  <1>4. ASSUME NEW s \in Tokens, Work(s) PROVE LedgerMoves
    <2>1. CASE Submitted(s) \/ NextBatch(s) \/ WorkerFails(s) \/ CatchUpLoads(s)
      BY <1>1, <2>1 DEF Submitted, NextBatch, WorkerFails, CatchUpLoads, ledgerVars
    <2>2. CASE CatchUpSaves(s)
      <3>1. UNCHANGED <<log, writers>>
        BY <2>2 DEF CatchUpSaves, SaveCheckpoint, ledgerVars
      <3> QED
        BY <1>1, <3>1
    <2>3. CASE WorkerCommits(s)
      BY <2>3, CommitMoves
    <2> QED
      BY <1>4, <2>1, <2>2, <2>3 DEF Work
  <1>5. ASSUME NEW s \in Tokens, Faulty(s) PROVE LedgerMoves
    <2>1. ASSUME NEW r \in Runs, OpenInDoubt(s, r) PROVE LedgerMoves
      BY <2>1, OpenMoves DEF OpenInDoubt
    <2>2. CASE WorkerInDoubt(s) \/ MandatoryInDoubt(s)
      BY <2>2 DEF WorkerInDoubt, MandatoryInDoubt, LedgerMoves
    <2>3. CASE ReleaseInDoubt(s)
      BY <2>3, ReleaseMoves DEF ReleaseInDoubt
    <2>4. CASE HeartbeatRevives(s)
      BY <2>4, OutsideMoves
    <2>5. CASE Crash(s)
      BY <1>1, <2>5 DEF Crash, ledgerVars
    <2> QED
      BY <1>5, <2>1, <2>2, <2>3, <2>4, <2>5 DEF Faulty
  <1>6. CASE QueryStep
    <2>1. UNCHANGED <<log, writers>>
      BY <1>6 DEF QueryStep, QueryFlushed, QueryLoads, QuerySaves, SaveCheckpoint, ledgerVars
    <2> QED
      BY <1>1, <2>1
  <1> QED
    BY <1>2, <1>3, <1>4, <1>5, <1>6, OutsideMoves DEF Next

\* The facts of a batch, and a mandatory fact, have a size.
LEMMA BatchSized ==
  ASSUME WritingInv, NEW s \in Tokens, session[s].worker = "append"
  PROVE  Batch(s) \in Seq(Event) /\ Sized(Batch(s))
  <1>1. PICK n \in Nat, m \in Nat : n = session[s].batch /\ m = MaxFacts[s]
    BY AppendingFacts
  <1>2. PICK events \in Seq(Event) : events = Batch(s)
    BY BatchFacts
  <1>3. /\ DOMAIN events = 1 .. n
        /\ \A k \in 1 .. n : events[k].id = <<s, session[s].settled + k>>
                           /\ events[k].id[2] \in 1 .. m
    BY <1>1, <1>2, BatchFacts
  <1>4. ASSUME NEW k \in 1 .. n PROVE SizeOf(events[k].id) \in Nat
    <2>1. PICK i : i = session[s].settled + k
      OBVIOUS
    <2>2. events[k].id = <<s, i>> /\ i \in 1 .. m
      BY <1>3, <2>1
    <2>3. i \in 1 .. m + 2
      BY <2>2
    <2>4. SizeOf(<<s, i>>) \in Nat
      BY <1>1, <2>3, WritingAssumption
    <2> QED
      BY <2>2, <2>4
  <1>5. Sized(events)
    BY <1>3, <1>4 DEF Sized
  <1> QED
    BY <1>2, <1>5

\* Nothing and nothing is nothing.
LEMMA SumOfZeros ==
  ASSUME NEW f, NEW S, IsFiniteSet(S), \A x \in S : f[x] = 0
  PROVE  SumFunctionOnSet(f, S) = 0
  <1> DEFINE Bad == {s \in SUBSET S : SumFunctionOnSet(f, s) # 0}
  <1> SUFFICES ASSUME Bad # {} PROVE FALSE
    OBVIOUS
  <1>1. PICK s \in Bad : IsFiniteSet(s) /\ \A x \in s : s \ {x} \notin Bad
    BY MinimalSet
  <1>2. s \in SUBSET S /\ SumFunctionOnSet(f, s) # 0
    OBVIOUS
  <1>3. s # {}
    BY <1>2, SumOfNone
  <1>4. PICK x : x \in s
    BY <1>3
  <1>5. s \ {x} \in SUBSET S /\ s \ {x} \notin Bad
    BY <1>1, <1>2, <1>4
  <1>6. SumFunctionOnSet(f, s \ {x}) = 0
    BY <1>5
  <1>7. \A y \in s : f[y] = 0 /\ f[y] \in Nat
    BY <1>2
  <1>8. SumFunctionOnSet(f, s) = f[x] + SumFunctionOnSet(f, s \ {x})
    BY <1>1, <1>4, <1>7, SumTakes
  <1> QED
    BY <1>2, <1>4, <1>6, <1>7, <1>8

\* The log and the promised ends fit at first.
LEMMA LimitsBegin == Init => LimitsInv
  <1> SUFFICES ASSUME Init PROVE LimitsInv
    OBVIOUS
  <1>1. log = [t \in Threads |-> <<>>] /\ writers = [r \in Runs |-> NoWriter]
    BY DEF Init, LedgerInit
  <1>2. SizedLog(log)
    BY <1>1, BytesOfNothing DEF SizedLog
  <1>3. \A r \in Runs : EventsOwed(writers)[r] = 0 /\ BytesOwed(writers)[r] = 0
    BY <1>1, NoWriterSound DEF EventsOwed, BytesOwed
  <1>4. PICK a, b, f, h : /\ a = EventsOwed(writers) /\ b = BytesOwed(writers)
                          /\ f = Held(log) /\ h = ThreadsOwed(writers)
    OBVIOUS
  <1>5. ASSUME NEW t \in Threads
        PROVE  SumFunctionOnSet(a, RunsOf(t)) = 0 /\ SumFunctionOnSet(b, RunsOf(t)) = 0
    <2>1. PICK S : S = RunsOf(t) /\ IsFiniteSet(S) /\ S \subseteq Runs
      BY RunsOfThread
    <2>2. \A r \in S : a[r] = 0 /\ b[r] = 0
      BY <1>3, <1>4, <2>1
    <2>3. SumFunctionOnSet(a, S) = 0
      BY <2>1, <2>2, SumOfZeros
    <2>4. SumFunctionOnSet(b, S) = 0
      BY <2>1, <2>2, SumOfZeros
    <2> QED
      BY <2>1, <2>3, <2>4
  <1>6. \A t \in Threads : h[t] = 0
    BY <1>4, <1>5 DEF ThreadsOwed
  <1>7. \A t \in Threads : f[t] = 0 /\ Len(log[t]) = 0
    BY <1>1, <1>4, BytesOfNothing DEF Held
  <1>8. SumFunctionOnSet(f, Threads) = 0
    BY <1>7, LimitsAssumption, SumOfZeros
  <1>9. SumFunctionOnSet(h, Threads) = 0
    BY <1>6, LimitsAssumption, SumOfZeros
  <1>10. MaxThreadEvents \in Nat /\ MaxThreadBytes \in Nat /\ MaxTracerBytes \in Nat
    BY LimitsAssumption
  <1>11. Fits(log, writers)
    BY <1>4, <1>5, <1>6, <1>7, <1>8, <1>9, <1>10 DEF Fits
  <1> QED
    BY <1>2, <1>11 DEF LimitsInv

\* Every step keeps to the limits.
LEMMA LimitsStay ==
  ASSUME WritingInv, LimitsInv, [Next]_vars
  PROVE  LimitsInv'
  <1>1. LedgerTypes /\ \A r \in Runs : WriterSound(r)
    BY DEF WritingInv, LedgerSound
  <1>2. LedgerTypes'
    <2>1. WritingInv'
      BY StepHolds
    <2> QED
      BY <2>1 DEF WritingInv, LedgerSound
  <1>3. CASE UNCHANGED <<log, writers>>
    BY <1>3 DEF LimitsInv, SizedLog, Fits
  <1>4. ASSUME NEW r \in Runs, NEW owner, Hands(r, owner) PROVE LimitsInv'
    BY <1>1, <1>2, <1>4, HandsLightens, LightStep
  <1>5. ASSUME NEW r \in Runs, Retires(r) \/ Removes(r) PROVE LimitsInv'
    BY <1>1, <1>2, <1>5, CloseLightens, LightStep
  <1>6. ASSUME NEW t \in Threads, Drops(t) PROVE LimitsInv'
    BY <1>1, <1>2, <1>6, DropsLightens, LightStep
  <1>7. ASSUME NEW r \in Runs, NEW s \in Tokens, OpenNew(r, s) PROVE LimitsInv'
    BY <1>1, <1>7, OpenNewFits
  <1>8. ASSUME NEW s \in Tokens, AppendBatch(s) PROVE LimitsInv'
    <2>1. session[s].worker = "append"
      BY <1>8 DEF AppendBatch
    <2>2. PICK r \in Runs : r = session[s].run
      BY <2>1, AppendingFacts, SessionFacts
    <2>3. PICK events \in Seq(Event) : events = Batch(s) /\ Sized(events)
      BY <2>1, BatchSized
    <2>4. PICK g, f : AppendFacts(r, g, s, f, events)
      BY <1>8, <2>2, <2>3 DEF AppendBatch
    <2> QED
      BY <1>1, <1>2, <2>3, <2>4, AppendFactsFits
  <1>9. ASSUME NEW s \in Tokens, AppendLast(s) PROVE LimitsInv'
    <2>1. Finishes(s)
      BY <1>9 DEF AppendLast
    <2>2. PICK r \in Runs : r = session[s].run
      BY <2>1, FinishesFacts, SessionFacts
    <2>3. PICK event \in Event : event = LastFact(s) /\ SizeOf(event.id) \in Nat
      BY <2>1, LastFacts
    <2>4. PICK g, f : AppendMandatory(r, g, s, f, event)
      BY <1>9, <2>2, <2>3 DEF AppendLast
    <2> QED
      BY <1>1, <1>2, <2>3, <2>4, AppendMandatoryFits
  <1> QED
    BY <1>3, <1>4, <1>5, <1>6, <1>7, <1>8, <1>9, NextMoves DEF LedgerMoves

-----------------------------------------------------------------------------
(***************************************************************************)
(* Theorems.                                                               *)
(***************************************************************************)

\* In every reachable state the ledger, the sessions, the log and the query fit
\* together: whatever the commits in doubt, lapsed leases, takeovers, crashes
\* and deletions before it.
THEOREM WritingInvariant == Spec => []WritingInv
  <1>1. Init => WritingInv
    BY InitHolds
  <1>2. WritingInv /\ [Next]_vars => WritingInv'
    BY StepHolds
  <1> QED
    BY <1>1, <1>2, PTL DEF Spec

\* AcceptedOnceInOrder, read from the order of the log and from what each
\* session knows of its facts.
LEMMA OrderFollows == WritingInv => AcceptedOnceInOrder
  <1> SUFFICES ASSUME WritingInv, NEW s \in Tokens, Begun(s), Current(s)
               PROVE  LET t == Thread(s)
                          events == log[t]
                      IN /\ \A k \in DOMAIN events :
                              events[k].id[1] = s /\ events[k].phase = "fact" =>
                                LET n == events[k].id[2] IN
                                /\ n >= 1 /\ ~Stored(t, s, n, k - 1)
                                /\ n > 1 => Stored(t, s, n - 1, k - 1)
                         /\ \A n \in 1..session[s].settled : Stored(t, s, n, LastSeq(t))
    BY DEF AcceptedOnceInOrder, Begun
  <1>1. LedgerSound /\ SessionsSound /\ LogSound /\ FactsSound(s)
    BY DEF WritingInv
  <1> PICK t \in Threads : t = Thread(s)
    BY <1>1, BegunThread
  <1>2. \A n \in 1 .. session[s].settled : Stored(t, s, n, LastSeq(t))
    BY <1>1 DEF FactsSound, AllStored
  <1>3. ASSUME NEW k \in DOMAIN log[t], log[t][k].id[1] = s, log[t][k].phase = "fact"
        PROVE  LET n == log[t][k].id[2] IN
               /\ n >= 1 /\ ~Stored(t, s, n, k - 1)
               /\ n > 1 => Stored(t, s, n - 1, k - 1)
    <2>1. EventSound(t, k) /\ FactOrdered(t, k)
      BY <1>1, <1>3, EventFacts
    <2>2. log[t][k].id[2] \in 1 .. MaxFacts[s]
      BY <1>3, <2>1 DEF EventSound
    <2> QED
      BY <1>3, <2>1, <2>2 DEF FactOrdered
  <1> QED
    BY <1>2, <1>3

\* SnapshotsAreCurrent, read from the checkpoints and from the query.
LEMMA SnapshotsFollow == WritingInv => SnapshotsAreCurrent
  <1> SUFFICES ASSUME WritingInv PROVE SnapshotsAreCurrent
    OBVIOUS
  <1>1. CheckpointsSound /\ QuerySound
    BY DEF WritingInv, LedgerSound
  <1>2. ASSUME query.pc \in {"load", "save"}, Current(query.session),
               query.generation = generation[Thread(query.session)],
               NEW n \in 1 .. query.target
        PROVE  \E k \in 1 .. query.as_of :
                 log[Thread(query.session)][k].id = <<query.session, n>>
    <2>1. Stored(Thread(query.session), query.session, n, query.as_of)
      BY <1>1, <1>2 DEF QuerySound
    <2> QED
      BY <2>1 DEF Stored
  <1> QED
    BY <1>1, <1>2 DEF CheckpointsSound, SnapshotsAreCurrent

\* No doubt, takeover, crash or deletion stores a fact twice, out of order or
\* with a gap before it, and what a force may have acknowledged is stored.
THEOREM FactsAreStoredOnceInOrder == Spec => []AcceptedOnceInOrder
  BY WritingInvariant, OrderFollows, PTL

\* A Run has one end, and no session writes to it after its successor.
THEOREM RunsEndOnce == Spec => []RunEndsOnce
  <1>1. WritingInv => RunEndsOnce
    BY DEF WritingInv, LogSound
  <1> QED
    BY <1>1, WritingInvariant, PTL

\* The terminal and the closed fact of an admitted Run have the room that was
\* promised to them, whoever writes them.
THEOREM EndsAlwaysHaveRoom == Spec => []EndsHaveRoom
  <1>1. WritingInv => EndsHaveRoom
    BY DEF WritingInv, LedgerSound
  <1> QED
    BY <1>1, WritingInvariant, PTL

\* A checkpoint is of the log its thread has now, and a query reads what was
\* accepted before it.
THEOREM SnapshotsStayCurrent == Spec => []SnapshotsAreCurrent
  BY WritingInvariant, SnapshotsFollow, PTL

\* What every thread stores and what is reserved for the ends of its Runs stay
\* together within the limits of the thread and of the Tracer, whatever Runs
\* are opened, taken over, closed and deleted in between.
THEOREM LimitsHold == Spec => []WithinLimits
  <1>1. Init => WritingInv /\ LimitsInv
    BY InitHolds, LimitsBegin
  <1>2. WritingInv /\ LimitsInv /\ [Next]_vars => (WritingInv /\ LimitsInv)'
    BY StepHolds, LimitsStay
  <1>3. LimitsInv => WithinLimits
    BY FitsIsWithin DEF LimitsInv
  <1> QED
    BY <1>1, <1>2, <1>3, PTL DEF Spec

=============================================================================
