---------------------- MODULE SandboxAvailabilityProofs ----------------------
(***************************************************************************)
(* Proofs about SandboxAvailability for any number of managers, transitions*)
(* and losses.  The intent (claim, availability row, operations, requests, *)
(* remote state) is sound in every behaviour, whatever bindings come and   *)
(* claims lapse.  That a pause finds the sandbox quiet is not: it takes a  *)
(* single binding, and replies to register_holder that come in time.       *)
(***************************************************************************)
EXTENDS SandboxAvailability, TLAPS

-----------------------------------------------------------------------------
\* The invariant of the intent.

IntentTypes ==
  /\ claim \in Managers \cup {Nobody}
  /\ avail \in Availability
  /\ avail.binding # Unbound
  /\ avail.phase # "uncertain"
  /\ remote \in {"running", "paused"}
  /\ wire \subseteq {"pause", "resume"}
  /\ op \in [Managers -> Operation]

Later(s, t) ==
  s.binding < t.binding \/ (s.binding = t.binding /\ s.sequence < t.sequence)

\* A snapshot of the row is the row itself, or older than it.
Known(s) == Later(s, avail) \/ s = avail

Requests == {"dispatch", "sent", "rejected"}
RequestOf(s) == IF s.phase = "pausing" THEN "pause" ELSE "resume"

\* What an operation knows.
OpSound(m) ==
  /\ Known(op[m].snapshot)
  /\ op[m].pc = "drain" => op[m].kind = "pause" /\ op[m].snapshot.phase = "draining"
  /\ op[m].pc \in Requests =>
       Pending(op[m].snapshot) /\ op[m].kind = RequestOf(op[m].snapshot)

\* Whoever is about to send the request of the present intent is the only one
\* that announced it, and nothing of it has happened.
Announced(m) ==
  op[m].pc = "dispatch" =>
    /\ op[m].snapshot = avail
    /\ wire = {}
    /\ remote = Original(avail)
    /\ \A n \in Managers \ {m} : ~(op[n].pc \in Requests /\ op[n].snapshot = avail)

\* A refused request of the present intent is off the wire.
Refused(m) == op[m].pc = "rejected" /\ op[m].snapshot = avail => wire = {}

\* A request on the wire is the one that the present intent announces.
WireSound ==
  wire # {} => Pending(avail) /\ wire = {RequestOf(avail)} /\ remote = Original(avail)

IntentInv ==
  /\ IntentTypes
  /\ \A m \in Managers : OpSound(m) /\ Announced(m) /\ Refused(m)
  /\ WireSound
  /\ PhaseIsRemote

-----------------------------------------------------------------------------
\* The invariant of the holders.

HolderTypes ==
  /\ avail.binding = 1
  /\ holders \in [Managers -> Holder]
  /\ status \in [Managers -> {"up", "closing", "down"}]
  /\ poll \in [Managers -> Poll]
  /\ local \in [Managers -> Availability]
  /\ open \in [Managers -> BOOLEAN]
  /\ connected \in [Managers -> [binding: Nat, connection: Nat]]
  /\ active \in [Managers -> SUBSET Nat]

\* Nothing a manager has is of a later binding than the present one.
Dated(m) ==
  /\ Known(local[m]) /\ Known(poll[m].snapshot)
  /\ holders[m].binding <= avail.binding
  /\ connected[m].binding <= avail.binding
  /\ \A b \in active[m] : b <= avail.binding
  /\ holders[m].binding = avail.binding => holders[m].acknowledged <= avail.sequence

\* The handle admits calls to the sandbox of the present binding.
Exposed(m) == open[m] /\ connected[m].binding = avail.binding

Quiet(m) == avail.binding \notin active[m] /\ ~Exposed(m)

Registered(m) ==
  /\ open[m] => /\ status[m] = "up"
                /\ holders[m].binding = connected[m].binding
                /\ local[m].binding = connected[m].binding
  /\ avail.binding \in active[m] => holders[m].binding = avail.binding
  /\ local[m].binding = avail.binding => connected[m].binding = avail.binding
  /\ connected[m].binding = Unbound => ~open[m]

Registering(m) ==
  /\ op[m].pc = "register" /\ claim = m => connected[m].binding = avail.binding
  /\ op[m].pc = "reopen" =>
       /\ claim = m
       /\ op[m].snapshot = avail
       /\ avail.phase = "running"
       /\ holders[m].binding = avail.binding
       /\ connected[m].binding = avail.binding
  /\ op[m].pc # "idle" => status[m] = "up"

\* An answer on its way to a poll is about a registration that is still there.
Polling(m) ==
  poll[m].pc # "idle" =>
    /\ status[m] = "up" /\ holders[m].binding = avail.binding
    /\ poll[m].snapshot.binding = avail.binding

\* Who acknowledged this drain is quiet and knows of it, so that no older
\* answer reopens its handle.
Acknowledged(m) ==
  avail.phase = "draining" =>
    /\ holders[m].binding = avail.binding /\ holders[m].acknowledged = avail.sequence
         => Quiet(m) /\ (status[m] = "up" => local[m] = avail)
    /\ poll[m].pc = "ack" /\ poll[m].snapshot = avail
         => Quiet(m) /\ local[m] = avail

\* Past the drain, a running row that a poll read before it is too old to apply.
Paused(m) ==
  avail.phase \in {"pausing", "paused", "resuming"} =>
    /\ Quiet(m)
    /\ poll[m].pc = "apply" /\ poll[m].snapshot.phase = "running"
         => poll[m].snapshot.sequence < local[m].sequence

HolderInv ==
  /\ HolderTypes
  /\ \A m \in Managers :
       /\ Dated(m) /\ Registered(m) /\ Registering(m)
       /\ Polling(m) /\ Acknowledged(m) /\ Paused(m)

SandboxInv == IntentInv /\ HolderInv

\* The reply to register_holder comes while the claim is still held.
PromptReplies == \A m \in Managers : op[m].pc = "reopen" => claim = m

-----------------------------------------------------------------------------
\* Facts about snapshots.

\* What was known of a row is older than its successor.
LEMMA KnownIsLater ==
  ASSUME IntentTypes, avail' \in Availability, Later(avail, avail'),
         NEW s \in Availability, Known(s)
  PROVE  Later(s, avail') /\ s # avail' /\ Known(s)'
  BY DEF IntentTypes, Availability, Later, Known

\* The row that follows a change of the intent.
LEMMA ChangedRow ==
  ASSUME IntentTypes, NEW e, NEW phase \in Phases, NEW b \in BOOLEAN,
         ChangeAvailability(e, phase, b)
  PROVE  /\ e = avail /\ holders' = holders
         /\ avail' \in Availability /\ Later(avail, avail')
         /\ avail'.binding = avail.binding /\ avail'.phase = phase
         /\ avail'.sequence = avail.sequence + 1
  <1>1. /\ e = avail /\ holders' = holders
        /\ avail' = NextAvailability(avail, phase, b)
    BY DEF ChangeAvailability
  <1>2. (IF b THEN 1 ELSE 0) \in Nat
    OBVIOUS
  <1>3. /\ avail.binding \in Nat /\ avail.sequence \in Nat /\ avail.connection \in Nat
        /\ avail \in Availability
    BY DEF IntentTypes, Availability
  <1>4. avail' = [avail EXCEPT !.phase = phase, !.sequence = avail.sequence + 1,
                    !.connection = avail.connection + (IF b THEN 1 ELSE 0)]
    BY <1>1 DEF NextAvailability
  <1>5. \E c \in Nat : avail' = [avail EXCEPT !.phase = phase,
                                   !.sequence = avail.sequence + 1, !.connection = c]
    <2> DEFINE d == IF b THEN 1 ELSE 0
    <2>1. d \in Nat
      BY <1>2
    <2>2. avail' = [avail EXCEPT !.phase = phase, !.sequence = avail.sequence + 1,
                                 !.connection = avail.connection + d]
      BY <1>4
    <2> HIDE DEF d
    <2>3. avail.connection + d \in Nat
      BY <1>3, <2>1
    <2> QED
      BY <2>2, <2>3
  <1>6. /\ avail' \in Availability
        /\ avail'.binding = avail.binding /\ avail'.phase = phase
        /\ avail'.sequence = avail.sequence + 1
    <2> PICK c \in Nat : avail' = [avail EXCEPT !.phase = phase,
                                     !.sequence = avail.sequence + 1, !.connection = c]
      BY <1>5
    <2> DEFINE q == avail.sequence + 1
    <2>1. q \in Nat
      BY <1>3
    <2>2. avail' = [avail EXCEPT !.phase = phase, !.sequence = q, !.connection = c]
      OBVIOUS
    <2> HIDE DEF q
    <2>3. avail' \in Availability /\ avail'.binding = avail.binding
      BY <1>3, <2>1, <2>2 DEF Availability
    <2>4. avail'.phase = phase /\ avail'.sequence = q
      BY <1>3, <2>2 DEF Availability
    <2> QED
      BY <2>3, <2>4 DEF q
  <1> QED
    BY <1>1, <1>3, <1>6 DEF Later

\* The row of a new binding.
LEMMA NewRow ==
  ASSUME NEW b \in Nat
  PROVE  /\ NewBinding(b) \in Availability /\ NewBinding(b).binding = b
         /\ NewBinding(b).phase = "running" /\ NewBinding(b).sequence = 0
  BY DEF NewBinding, Availability, Phases

\* An idle operation.
LEMMA IdleFields ==
  /\ Idle \in Operation /\ Idle.pc = "idle" /\ Idle.snapshot = NoSnapshot
  /\ NoSnapshot \in Availability /\ NoSnapshot.binding = Unbound
  BY NewRow DEF Idle, Operation, NoSnapshot, Unbound

-----------------------------------------------------------------------------
(***************************************************************************)
(* The steps of the intent.  A step lets the row be (Keeps), moves it to   *)
(* the next intent (Moves), sends its request, or is the service's.        *)
(***************************************************************************)

OthersKept(m) == \A n \in Managers \ {m} : op'[n] = op[n]

\* The operation of m goes on, or ends, without a request.
Keeps(m) ==
  /\ avail' = avail /\ remote' = remote /\ wire' = wire
  /\ claim' \in Managers \cup {Nobody}
  /\ op' \in [Managers -> Operation]
  /\ OthersKept(m)
  /\ Known(op'[m].snapshot)
  /\ op'[m].pc \notin Requests \cup {"drain"}

\* The next intent.  Nobody else is about to send a request, and none is under
\* way.
Moves(m) ==
  /\ avail' \in Availability /\ Later(avail, avail') /\ avail'.binding # Unbound
  /\ avail'.phase # "uncertain"
  /\ wire' = {} /\ remote' \in {"running", "paused"}
  /\ claim' \in Managers \cup {Nobody}
  /\ op' \in [Managers -> Operation]
  /\ \A n \in Managers \ {m} : op'[n] = op[n] /\ op[n].pc # "dispatch"
  /\ OpSound(m)'
  /\ op'[m].pc \notin {"sent", "rejected"}
  /\ op'[m].pc = "dispatch" => op'[m].snapshot = avail' /\ remote' = Original(avail')
  /\ PhaseIsRemote'

Sends(m) ==
  /\ op[m].pc = "dispatch"
  /\ UNCHANGED <<claim, avail, remote>>
  /\ wire' = wire \cup {Kind(m)}
  /\ Step(m, "sent")

Obeys(r) ==
  /\ r \in wire
  /\ wire' = wire \ {r}
  /\ remote' = IF r = "pause" THEN "paused" ELSE "running"
  /\ UNCHANGED <<claim, avail, op>>

Refuses(r) ==
  /\ r \in wire
  /\ wire' = wire \ {r}
  /\ op' = [m \in Managers |->
       IF op[m].pc = "sent" /\ op[m].kind = r
         THEN [op[m] EXCEPT !.pc = "rejected"] ELSE op[m]]
  /\ UNCHANGED <<claim, avail, remote>>

\* At most the claim changes hands.
Rests ==
  UNCHANGED <<avail, remote, wire, op>> /\ claim' \in Managers \cup {Nobody}

IntentShapes ==
  \/ \E m \in Managers : Keeps(m) \/ Moves(m) \/ Sends(m)
  \/ \E r \in wire : Obeys(r) \/ Refuses(r)
  \/ Rests

\* A step that lets the row be.
LEMMA KeepsIntent ==
  ASSUME IntentInv, NEW m \in Managers, Keeps(m)
  PROVE  IntentInv'
  <1>1. IntentTypes'
    BY DEF IntentInv, IntentTypes, Keeps
  <1>2. WireSound' /\ PhaseIsRemote'
    BY DEF IntentInv, Keeps, WireSound, PhaseIsRemote, Pending, RequestOf, Original
  <1>3. ASSUME NEW n \in Managers PROVE OpSound(n)' /\ Announced(n)' /\ Refused(n)'
    <2>1. CASE n = m
      BY <2>1 DEF Keeps, OpSound, Announced, Refused, Known, Requests
    <2>2. CASE n # m
      <3>1. op'[n] = op[n] /\ OpSound(n) /\ Announced(n) /\ Refused(n)
        BY <2>2 DEF Keeps, OthersKept, IntentInv
      <3>2. OpSound(n)' /\ Refused(n)'
        BY <3>1 DEF Keeps, OpSound, Known, Refused
      <3>3. \A k \in Managers : op'[k].pc \in Requests => op'[k] = op[k]
        BY DEF Keeps, OthersKept
      <3>4. Announced(n)'
        BY <3>1, <3>3 DEF Keeps, Announced
      <3> QED
        BY <3>2, <3>4
    <2> QED
      BY <2>1, <2>2
  <1> QED
    BY <1>1, <1>2, <1>3 DEF IntentInv

\* The next intent.
LEMMA MovesIntent ==
  ASSUME IntentInv, NEW m \in Managers, Moves(m)
  PROVE  IntentInv'
  <1>1. IntentTypes'
    BY DEF IntentTypes, Moves
  <1>2. WireSound' /\ PhaseIsRemote'
    BY DEF Moves, WireSound
  <1>3. \A n \in Managers \ {m} : Known(op[n].snapshot)' /\ op[n].snapshot # avail'
    BY KnownIsLater DEF IntentInv, IntentTypes, Operation, Moves, OpSound
  <1>4. ASSUME NEW n \in Managers PROVE OpSound(n)' /\ Announced(n)' /\ Refused(n)'
    <2>1. CASE n = m
      BY <1>3, <2>1 DEF Moves, OpSound, Announced, Refused
    <2>2. CASE n # m
      <3>1. op'[n] = op[n] /\ OpSound(n) /\ op[n].pc # "dispatch"
        BY <2>2 DEF Moves, IntentInv
      <3>2. OpSound(n)'
        BY <1>3, <2>2, <3>1 DEF OpSound, Known
      <3>3. Announced(n)' /\ Refused(n)'
        BY <3>1 DEF Announced, Refused, Moves
      <3> QED
        BY <3>2, <3>3
    <2> QED
      BY <2>1, <2>2
  <1> QED
    BY <1>1, <1>2, <1>4 DEF IntentInv

\* The request is sent.
LEMMA SendsIntent ==
  ASSUME IntentInv, NEW m \in Managers, Sends(m)
  PROVE  IntentInv'
  <1>1. /\ op[m].snapshot = avail /\ wire = {} /\ remote = Original(avail)
        /\ \A n \in Managers \ {m} : ~(op[n].pc \in Requests /\ op[n].snapshot = avail)
    BY DEF IntentInv, Announced, Sends
  <1>2. Pending(avail) /\ Kind(m) = RequestOf(avail)
    BY <1>1 DEF IntentInv, OpSound, Sends, Requests, Kind
  <1>3. /\ op' \in [Managers -> Operation]
        /\ op'[m].pc = "sent" /\ op'[m].snapshot = op[m].snapshot
        /\ op'[m].kind = op[m].kind
        /\ OthersKept(m)
    BY DEF IntentInv, IntentTypes, Sends, Step, Operation, OthersKept
  <1>4. wire' = {RequestOf(avail)} /\ avail' = avail /\ remote' = remote /\ claim' = claim
    BY <1>1, <1>2 DEF Sends
  <1>5. IntentTypes' /\ WireSound' /\ PhaseIsRemote'
    BY <1>1, <1>2, <1>3, <1>4
       DEF IntentInv, IntentTypes, WireSound, PhaseIsRemote, Pending, RequestOf, Original
  <1>6. ASSUME NEW n \in Managers PROVE OpSound(n)' /\ Announced(n)' /\ Refused(n)'
    <2>0. OpSound(n)
      BY DEF IntentInv
    <2>1. CASE n = m
      BY <1>3, <1>4, <2>0, <2>1 DEF OpSound, Announced, Refused, Known, Requests, Sends
    <2>2. CASE n # m
      BY <1>1, <1>3, <1>4, <2>0, <2>2
         DEF OpSound, Announced, Refused, Known, Requests, OthersKept, IntentInv
    <2> QED
      BY <2>1, <2>2
  <1> QED
    BY <1>5, <1>6 DEF IntentInv

\* The service answers, by obeying or by refusing.
LEMMA AnswersIntent ==
  ASSUME IntentInv, NEW r \in wire, Obeys(r) \/ Refuses(r)
  PROVE  IntentInv'
  <1>1. /\ Pending(avail) /\ wire = {RequestOf(avail)} /\ r = RequestOf(avail)
        /\ wire' = {} /\ avail' = avail /\ claim' = claim
    BY DEF IntentInv, WireSound, Obeys, Refuses
  <1>2. \A n \in Managers : op[n].pc # "dispatch"
    BY DEF IntentInv, Announced
  <1>3. /\ op' \in [Managers -> Operation]
        /\ \A n \in Managers :
             \/ op'[n] = op[n]
             \/ /\ op[n].pc = "sent" /\ op'[n].pc = "rejected"
                /\ op'[n].snapshot = op[n].snapshot /\ op'[n].kind = op[n].kind
    <2>1. CASE Obeys(r)
      BY <2>1 DEF Obeys, IntentInv, IntentTypes
    <2>2. CASE Refuses(r)
      BY <2>2 DEF Refuses, IntentInv, IntentTypes, Operation
    <2> QED
      BY <2>1, <2>2
  <1>4. IntentTypes'
    BY <1>1, <1>3 DEF IntentInv, IntentTypes, Obeys, Refuses
  <1>5. WireSound' /\ PhaseIsRemote'
    BY <1>1 DEF WireSound, PhaseIsRemote, Pending
  <1>6. ASSUME NEW n \in Managers PROVE OpSound(n)' /\ Announced(n)' /\ Refused(n)'
    <2>1. OpSound(n) /\ op'[n].pc # "dispatch"
      BY <1>2, <1>3 DEF IntentInv
    <2>2. OpSound(n)'
      BY <1>1, <1>3, <2>1 DEF OpSound, Known, Requests
    <2> QED
      BY <1>1, <2>1, <2>2 DEF Announced, Refused
  <1> QED
    BY <1>4, <1>5, <1>6 DEF IntentInv

-----------------------------------------------------------------------------
\* The shape of each action.

\* A manager's operation goes on or ends; it may keep or release its claim.
LEMMA FinishShape ==
  ASSUME IntentInv, NEW m \in Managers, Finish(m), UNCHANGED <<avail, remote, wire>>
  PROVE  Keeps(m)
  <1>1. op' = [op EXCEPT ![m] = Idle] /\ claim' \in Managers \cup {Nobody}
    BY DEF Finish, IntentInv, IntentTypes
  <1>2. op' \in [Managers -> Operation] /\ op'[m] = Idle /\ OthersKept(m)
    BY <1>1, IdleFields DEF IntentInv, IntentTypes, OthersKept
  <1>3. Known(NoSnapshot)
    BY IdleFields DEF IntentInv, IntentTypes, Availability, Known, Later, Unbound
  <1> QED
    BY <1>1, <1>2, <1>3, IdleFields DEF Keeps, Requests

\* An operation that begins, and leaves the row alone, begins without a request.
LEMMA BeginShape ==
  ASSUME IntentInv, NEW m \in Managers,
         NEW kind \in {"resume", "get", "refresh"}, NEW pc \in {"connect", "register"},
         Begin(m, kind, pc, avail), UNCHANGED <<avail, remote, wire>>
  PROVE  Keeps(m)
  <1>1. [kind |-> kind, pc |-> pc, snapshot |-> avail] \in Operation
    BY DEF Operation, IntentInv, IntentTypes
  <1>2. /\ op' \in [Managers -> Operation] /\ OthersKept(m)
        /\ op'[m].snapshot = avail /\ op'[m].pc = pc
    BY <1>1 DEF Begin, IntentInv, IntentTypes, OthersKept
  <1> QED
    BY <1>2 DEF Keeps, Begin, Known, Requests

\* When the row of a request that has not been sent or was refused is moved by
\* its own manager, or the row is no request at all, nobody is about to send.
LEMMA NobodySends ==
  ASSUME IntentInv, NEW m \in Managers,
         \/ ~Pending(avail)
         \/ remote = Target(avail)
         \/ op[m].pc \in Requests /\ op[m].snapshot = avail
  PROVE  \A n \in Managers \ {m} : op[n].pc # "dispatch"
  <1> SUFFICES ASSUME NEW n \in Managers \ {m}, op[n].pc = "dispatch"
               PROVE  FALSE
    OBVIOUS
  <1>1. /\ op[n].snapshot = avail /\ remote = Original(avail)
        /\ ~(op[m].pc \in Requests /\ op[m].snapshot = avail)
    BY DEF IntentInv, Announced
  <1>2. Pending(avail)
    BY <1>1 DEF IntentInv, OpSound, Requests
  <1> QED
    BY <1>1, <1>2 DEF Pending, Target, Original

\* The row moves and the manager's operation ends, or it had none.
LEMMA MovesAndEnds ==
  ASSUME IntentInv, NEW m \in Managers, op'[m] = Idle, OthersKept(m),
         op' \in [Managers -> Operation], claim' \in Managers \cup {Nobody},
         NEW e, NEW phase \in Phases, NEW b \in BOOLEAN, phase # "uncertain",
         ChangeAvailability(e, phase, b), wire = {}, UNCHANGED <<remote, wire>>,
         \/ ~Pending(avail)
         \/ remote = Target(avail)
         \/ op[m].pc \in Requests /\ op[m].snapshot = avail,
         phase \in {"running", "draining", "paused"} =>
           remote = IF phase = "paused" THEN "paused" ELSE "running"
  PROVE  Moves(m)
  <1>1. /\ avail' \in Availability /\ Later(avail, avail')
        /\ avail'.binding = avail.binding /\ avail'.phase = phase
    BY ChangedRow DEF IntentInv
  <1>2. \A n \in Managers \ {m} : op'[n] = op[n] /\ op[n].pc # "dispatch"
    BY NobodySends DEF OthersKept
  <1>3. OpSound(m)'
    BY <1>1, IdleFields DEF OpSound, Known, Later, Requests, IntentInv, IntentTypes,
                            Availability, Unbound
  <1>4. PhaseIsRemote'
    BY <1>1 DEF PhaseIsRemote
  <1> QED
    BY <1>1, <1>2, <1>3, <1>4, IdleFields DEF Moves, IntentInv, IntentTypes

\* The row moves and the manager's operation goes on from its new value.
LEMMA MovesAndProceeds ==
  ASSUME IntentInv, NEW m \in Managers, OthersKept(m),
         op' \in [Managers -> Operation], claim' \in Managers \cup {Nobody},
         op'[m].snapshot = avail',
         NEW e, NEW phase \in Phases, NEW b \in BOOLEAN, phase # "uncertain",
         ChangeAvailability(e, phase, b), wire = {}, UNCHANGED <<remote, wire>>,
         ~Pending(avail) \/ remote = Target(avail),
         phase \in {"running", "draining", "paused"} =>
           remote = IF phase = "paused" THEN "paused" ELSE "running",
         \/ op'[m].pc = "drain" /\ op'[m].kind = "pause" /\ phase = "draining"
         \/ op'[m].pc = "connect"
         \/ /\ op'[m].pc = "dispatch"
            /\ \/ phase = "pausing" /\ op'[m].kind = "pause" /\ remote = "running"
               \/ phase = "resuming" /\ op'[m].kind = "resume" /\ remote = "paused"
  PROVE  Moves(m)
  <1>1. /\ avail' \in Availability /\ Later(avail, avail')
        /\ avail'.binding = avail.binding /\ avail'.phase = phase
    BY ChangedRow DEF IntentInv
  <1>2. \A n \in Managers \ {m} : op'[n] = op[n] /\ op[n].pc # "dispatch"
    BY NobodySends DEF OthersKept
  <1>3. OpSound(m)'
    BY <1>1 DEF OpSound, Known, Requests, Pending, RequestOf
  <1>4. PhaseIsRemote'
    BY <1>1 DEF PhaseIsRemote
  <1>5. op'[m].pc = "dispatch" => remote' = Original(avail')
    BY <1>1 DEF Original
  <1> QED
    BY <1>1, <1>2, <1>3, <1>4, <1>5 DEF Moves, IntentInv, IntentTypes

\* The operation that a manager begins.
LEMMA BegunOperation ==
  ASSUME IntentTypes, NEW m \in Managers, NEW kind, NEW pc, NEW s \in Availability,
         Begin(m, kind, pc, s),
         kind \in {"pause", "resume", "get", "recreate", "refresh"},
         pc \in {"drain", "dispatch", "connect", "register"}
  PROVE  /\ claim' \in Managers \cup {Nobody} /\ claim' = m
         /\ op' \in [Managers -> Operation] /\ OthersKept(m)
         /\ op'[m].kind = kind /\ op'[m].pc = pc /\ op'[m].snapshot = s
  <1>1. [kind |-> kind, pc |-> pc, snapshot |-> s] \in Operation
    BY DEF Operation
  <1> QED
    BY <1>1 DEF Begin, IntentTypes, OthersKept

\* The operation that goes on with a new snapshot.
LEMMA ProceededOperation ==
  ASSUME IntentTypes, NEW m \in Managers, NEW pc, NEW s \in Availability,
         Proceed(m, pc, s), pc \in {"dispatch", "connect", "reopen"}
  PROVE  /\ op' \in [Managers -> Operation] /\ OthersKept(m)
         /\ op'[m].kind = op[m].kind /\ op'[m].pc = pc /\ op'[m].snapshot = s
  BY DEF Proceed, IntentTypes, OthersKept, Operation

\* The operation that ends.
LEMMA FinishedOperation ==
  ASSUME IntentTypes, NEW m \in Managers, Finish(m)
  PROVE  /\ claim' \in Managers \cup {Nobody}
         /\ op' \in [Managers -> Operation] /\ OthersKept(m) /\ op'[m] = Idle
  BY IdleFields DEF Finish, IntentTypes, OthersKept

\* The target and the origin of a pending request, and nothing on the wire of
\* one that took effect.
LEMMA Effects ==
  ASSUME IntentInv
  PROVE  /\ Target(avail) \in Phases /\ Target(avail) # "uncertain"
         /\ Original(avail) \in Phases /\ Original(avail) # "uncertain"
         /\ (~Pending(avail) \/ remote = Target(avail)) => wire = {}
  BY DEF IntentInv, WireSound, Target, Original, Phases, Pending

\* How operations begin.
LEMMA BeginsShape ==
  ASSUME IntentInv, NEW m \in Managers, OperationBegins(m)
  PROVE  IntentShapes
  <1> USE DEF IntentShapes
  <1>0. IntentTypes /\ PhaseIsRemote /\ avail \in Availability
    BY DEF IntentInv, IntentTypes
  <1>1. CASE ConfirmPending(m)
    <2>1. /\ Pending(avail) /\ remote = Target(avail)
          /\ ChangeAvailability(avail, Target(avail), Target(avail) = "running")
          /\ op[m] = Idle /\ UNCHANGED <<claim, remote, wire, op>>
      BY <1>1 DEF ConfirmPending, Starts, remoteVars
    <2>2. /\ op' \in [Managers -> Operation] /\ claim' \in Managers \cup {Nobody}
          /\ op'[m] = Idle /\ OthersKept(m)
      BY <1>0, <2>1 DEF IntentTypes, OthersKept
    <2>3. Target(avail) \in {"running", "draining", "paused"} =>
            remote = IF Target(avail) = "paused" THEN "paused" ELSE "running"
      BY <2>1 DEF Target
    <2>4. Moves(m)
      BY <2>1, <2>2, <2>3, Effects, MovesAndEnds
    <2> QED
      BY <2>4
  <1>2. CASE StartDrain(m)
    <2>1. /\ avail.phase = "running" /\ ChangeAvailability(avail, "draining", FALSE)
          /\ Begin(m, "pause", "drain", avail') /\ UNCHANGED <<remote, wire>>
      BY <1>2 DEF StartDrain, remoteVars
    <2>2. avail' \in Availability
      BY <1>0, <2>1, ChangedRow DEF Phases
    <2>3. remote = "running" /\ ~Pending(avail) /\ "draining" \in Phases
      BY <1>0, <2>1 DEF PhaseIsRemote, Pending, Phases
    <2>4. /\ claim' \in Managers \cup {Nobody}
          /\ op' \in [Managers -> Operation] /\ OthersKept(m)
          /\ op'[m].kind = "pause"
          /\ op'[m].pc = "drain" /\ op'[m].snapshot = avail'
      BY <1>0, <2>1, <2>2, BegunOperation
    <2>5. Moves(m)
      BY <2>1, <2>3, <2>4, Effects, MovesAndProceeds
    <2> QED
      BY <2>5
  <1>3. CASE ResumeRunning(m)
    <2>1. Begin(m, "resume", "connect", avail') /\ UNCHANGED <<remote, wire>>
      BY <1>3 DEF ResumeRunning, remoteVars
    <2>2. CASE avail.phase = "draining" /\ ChangeAvailability(avail, "running", FALSE)
      <3>1. avail' \in Availability
        BY <1>0, <2>2, ChangedRow DEF Phases
      <3>2. remote = "running" /\ ~Pending(avail) /\ "running" \in Phases
        BY <1>0, <2>2 DEF PhaseIsRemote, Pending, Phases
      <3>3. /\ claim' \in Managers \cup {Nobody}
            /\ op' \in [Managers -> Operation] /\ OthersKept(m)
            /\ op'[m].pc = "connect" /\ op'[m].snapshot = avail'
        BY <1>0, <2>1, <3>1, BegunOperation
      <3>4. Moves(m)
        BY <2>1, <2>2, <3>2, <3>3, Effects, MovesAndProceeds
      <3> QED
        BY <3>4
    <2>3. CASE avail' = avail
      <3>1. Begin(m, "resume", "connect", avail)
        BY <2>1, <2>3 DEF Begin
      <3>2. Keeps(m)
        BY <2>1, <2>3, <3>1, BeginShape
      <3> QED
        BY <3>2
    <2> QED
      BY <1>3, <2>2, <2>3 DEF ResumeRunning
  <1>4. CASE StartResuming(m)
    <2>1. /\ avail.phase = "paused" /\ ChangeAvailability(avail, "resuming", FALSE)
          /\ Begin(m, "resume", "dispatch", avail') /\ UNCHANGED <<remote, wire>>
      BY <1>4 DEF StartResuming, remoteVars
    <2>2. avail' \in Availability
      BY <1>0, <2>1, ChangedRow DEF Phases
    <2>3. remote = "paused" /\ ~Pending(avail) /\ "resuming" \in Phases
      BY <1>0, <2>1 DEF PhaseIsRemote, Pending, Phases
    <2>4. /\ claim' \in Managers \cup {Nobody}
          /\ op' \in [Managers -> Operation] /\ OthersKept(m)
          /\ op'[m].kind = "resume"
          /\ op'[m].pc = "dispatch" /\ op'[m].snapshot = avail'
      BY <1>0, <2>1, <2>2, BegunOperation
    <2>5. Moves(m)
      BY <2>1, <2>3, <2>4, Effects, MovesAndProceeds
    <2> QED
      BY <2>5
  <1>5. CASE Recreate(m)
    <2>1. /\ ~Pending(avail) /\ avail' = NewBinding(avail.binding + 1)
          /\ remote' = "running" /\ wire' = {}
          /\ Begin(m, "recreate", "register", avail')
      BY <1>5 DEF Recreate
    <2>2. avail.binding \in Nat
      BY <1>0 DEF Availability
    <2>3. /\ avail' \in Availability /\ avail'.binding = avail.binding + 1
          /\ avail'.phase = "running"
      BY <2>1, <2>2, NewRow
    <2>4. Later(avail, avail') /\ avail'.binding # Unbound
      BY <2>2, <2>3 DEF Later, Unbound
    <2>5. /\ claim' \in Managers \cup {Nobody}
          /\ op' \in [Managers -> Operation] /\ OthersKept(m)
          /\ op'[m].pc = "register" /\ op'[m].snapshot = avail'
      BY <1>0, <2>1, <2>3, BegunOperation
    <2>6. \A n \in Managers \ {m} : op'[n] = op[n] /\ op[n].pc # "dispatch"
      BY <2>1, <2>5, NobodySends DEF OthersKept
    <2>7. OpSound(m)' /\ PhaseIsRemote'
      BY <2>1, <2>3, <2>5 DEF OpSound, Known, Requests, PhaseIsRemote
    <2>8. Moves(m)
      BY <2>1, <2>3, <2>4, <2>5, <2>6, <2>7 DEF Moves
    <2> QED
      BY <2>8
  <1>6. CASE Check(m)
    <2>1. Begin(m, "get", "register", avail) /\ UNCHANGED <<avail, remote, wire>>
      BY <1>6 DEF Check, remoteVars
    <2>2. Keeps(m)
      BY <2>1, BeginShape
    <2> QED
      BY <2>2
  <1>7. CASE \E kind \in {"get", "refresh"} : Connect(m, kind)
    <2> PICK kind \in {"get", "refresh"} : Connect(m, kind)
      BY <1>7
    <2>1. Begin(m, kind, "register", avail) /\ UNCHANGED <<avail, remote, wire>>
      BY DEF Connect, remoteVars
    <2>2. Keeps(m)
      BY <2>1, BeginShape
    <2> QED
      BY <2>2
  <1>8. CASE RefreshEnds(m)
    BY <1>0, <1>8 DEF RefreshEnds, Rests, stateVars, remoteVars, IntentTypes
  <1> QED
    BY <1>1, <1>2, <1>3, <1>4, <1>5, <1>6, <1>7, <1>8 DEF OperationBegins

\* How operations go on.
LEMMA StepsShape ==
  ASSUME IntentInv, NEW m \in Managers, OperationStep(m)
  PROVE  IntentShapes
  <1> USE DEF IntentShapes
  <1>0. /\ IntentTypes /\ PhaseIsRemote /\ avail \in Availability
        /\ OpSound(m) /\ Announced(m) /\ Refused(m)
    BY DEF IntentInv, IntentTypes
  <1>1. CASE StartPausing(m)
    <2>1. /\ op[m].pc = "drain" /\ claim' = claim /\ UNCHANGED <<remote, wire>>
          /\ ChangeAvailability(op[m].snapshot, "pausing", FALSE)
          /\ Proceed(m, "dispatch", avail')
      BY <1>1 DEF StartPausing, At, remoteVars
    <2>2. /\ op[m].snapshot = avail /\ avail' \in Availability
          /\ avail'.phase = "pausing" /\ "pausing" \in Phases
      BY <1>0, <2>1, ChangedRow DEF Phases
    <2>3. avail.phase = "draining" /\ remote = "running" /\ ~Pending(avail)
      BY <1>0, <2>1, <2>2 DEF OpSound, PhaseIsRemote, Pending
    <2>4. /\ claim' \in Managers \cup {Nobody}
          /\ op' \in [Managers -> Operation] /\ OthersKept(m)
          /\ op'[m].kind = op[m].kind
          /\ op'[m].pc = "dispatch" /\ op'[m].snapshot = avail'
      BY <1>0, <2>1, <2>2, ProceededOperation DEF IntentTypes
    <2>5. op[m].kind = "pause"
      BY <1>0, <2>1 DEF OpSound
    <2>6. Moves(m)
      BY <2>1, <2>2, <2>3, <2>4, <2>5, Effects, MovesAndProceeds
    <2> QED
      BY <2>6
  <1>2. CASE CancelIntent(m)
    <2>1. /\ op[m].pc \in {"drain", "dispatch"} /\ UNCHANGED <<remote, wire>>
          /\ ChangeAvailability(op[m].snapshot, Original(op[m].snapshot), FALSE)
          /\ Finish(m)
      BY <1>2 DEF CancelIntent, At, remoteVars
    <2>2. op[m].snapshot = avail /\ ChangeAvailability(avail, Original(avail), FALSE)
      BY <2>1 DEF ChangeAvailability
    <2>3. /\ claim' \in Managers \cup {Nobody}
          /\ op' \in [Managers -> Operation] /\ OthersKept(m) /\ op'[m] = Idle
      BY <1>0, <2>1, FinishedOperation
    <2>4. /\ ~Pending(avail) \/ op[m].pc \in Requests
          /\ wire = {} /\ remote = Original(avail)
      BY <1>0, <2>1, <2>2, Effects
         DEF OpSound, Announced, PhaseIsRemote, Pending, Original, Requests
    <2>5. Original(avail) \in {"running", "draining", "paused"} =>
            remote = IF Original(avail) = "paused" THEN "paused" ELSE "running"
      BY <2>4 DEF Original
    <2>6. Moves(m)
      BY <2>1, <2>2, <2>3, <2>4, <2>5, Effects, MovesAndEnds
    <2> QED
      BY <2>6
  <1>3. CASE Dispatch(m)
    BY <1>3 DEF Dispatch, Sends, At, stateVars
  <1>4. CASE Confirmed(m)
    <2>1. /\ op[m].pc = "sent" /\ remote = Target(op[m].snapshot)
          /\ ChangeAvailability(op[m].snapshot, remote, Kind(m) = "resume")
          /\ \/ Kind(m) = "pause" /\ Finish(m)
             \/ Kind(m) = "resume" /\ Proceed(m, "connect", avail') /\ UNCHANGED claim
          /\ UNCHANGED <<remote, wire>>
      BY <1>4 DEF Confirmed, At, remoteVars
    <2>2. /\ op[m].snapshot = avail /\ remote = Target(avail)
          /\ ChangeAvailability(avail, remote, Kind(m) = "resume")
          /\ remote \in Phases
      BY <2>1, Effects DEF ChangeAvailability
    <2>3. avail' \in Availability
      BY <1>0, <2>2, ChangedRow
    <2>4. remote \in {"running", "draining", "paused"} =>
            remote = IF remote = "paused" THEN "paused" ELSE "running"
      BY <2>2 DEF Target
    <2>5. CASE Kind(m) = "pause" /\ Finish(m)
      <3>1. /\ claim' \in Managers \cup {Nobody}
            /\ op' \in [Managers -> Operation] /\ OthersKept(m) /\ op'[m] = Idle
        BY <1>0, <2>5, FinishedOperation
      <3>2. Moves(m)
        BY <2>1, <2>2, <2>4, <3>1, Effects, MovesAndEnds
      <3> QED
        BY <3>2
    <2>6. CASE Kind(m) = "resume" /\ Proceed(m, "connect", avail') /\ UNCHANGED claim
      <3>1. /\ claim' \in Managers \cup {Nobody}
            /\ op' \in [Managers -> Operation] /\ OthersKept(m)
            /\ op'[m].pc = "connect" /\ op'[m].snapshot = avail'
        BY <1>0, <2>3, <2>6, ProceededOperation DEF IntentTypes
      <3>2. Moves(m)
        BY <2>1, <2>2, <2>4, <3>1, Effects, MovesAndProceeds
      <3> QED
        BY <3>2
    <2> QED
      BY <2>1, <2>5, <2>6
  <1>5. CASE RestoreRejected(m)
    <2>1. /\ op[m].pc = "rejected" /\ remote = Original(op[m].snapshot)
          /\ ChangeAvailability(op[m].snapshot, remote, FALSE)
          /\ Finish(m) /\ UNCHANGED <<remote, wire>>
      BY <1>5 DEF RestoreRejected, At, remoteVars
    <2>2. /\ op[m].snapshot = avail /\ remote = Original(avail)
          /\ ChangeAvailability(avail, remote, FALSE) /\ remote \in Phases
      BY <2>1, Effects DEF ChangeAvailability
    <2>3. /\ claim' \in Managers \cup {Nobody}
          /\ op' \in [Managers -> Operation] /\ OthersKept(m) /\ op'[m] = Idle
      BY <1>0, <2>1, FinishedOperation
    <2>4. wire = {} /\ op[m].pc \in Requests
      BY <1>0, <2>1, <2>2 DEF Refused, Requests
    <2>5. remote \in {"running", "draining", "paused"} =>
            remote = IF remote = "paused" THEN "paused" ELSE "running"
      BY <2>2 DEF Original
    <2>6. Moves(m)
      BY <2>1, <2>2, <2>3, <2>4, <2>5, Effects, MovesAndEnds
    <2> QED
      BY <2>6
  <1>6. CASE ConnectResumed(m)
    <2>1. Step(m, "register") /\ UNCHANGED <<claim, avail, remote, wire>>
      BY <1>6 DEF ConnectResumed, stateVars, remoteVars
    <2>2. /\ op' \in [Managers -> Operation] /\ OthersKept(m)
          /\ op'[m].pc = "register" /\ op'[m].snapshot = op[m].snapshot
      BY <1>0, <2>1 DEF Step, IntentTypes, Operation, OthersKept
    <2>3. Keeps(m)
      BY <1>0, <2>1, <2>2 DEF Keeps, OpSound, IntentTypes, Requests
    <2> QED
      BY <2>3
  <1>7. CASE RegisterHolder(m)
    <2>1. Proceed(m, "reopen", avail) /\ UNCHANGED <<claim, avail, remote, wire>>
      BY <1>7 DEF RegisterHolder, remoteVars
    <2>2. /\ op' \in [Managers -> Operation] /\ OthersKept(m)
          /\ op'[m].pc = "reopen" /\ op'[m].snapshot = avail
      BY <1>0, <2>1, ProceededOperation
    <2>3. Keeps(m)
      BY <1>0, <2>1, <2>2 DEF Keeps, Known, IntentTypes, Requests
    <2> QED
      BY <2>3
  <1>8. CASE RegisterFails(m) \/ Reopen(m) \/ GiveUp(m)
    <2>1. Finish(m) /\ UNCHANGED <<avail, remote, wire>>
      BY <1>8 DEF RegisterFails, Reopen, GiveUp, remoteVars
    <2>2. Keeps(m)
      BY <2>1, FinishShape
    <2> QED
      BY <2>2
  <1> QED
    BY <1>1, <1>2, <1>3, <1>4, <1>5, <1>6, <1>7, <1>8 DEF OperationStep

\* What polls, calls, losses and the service do to the intent.
LEMMA OthersShape ==
  ASSUME IntentInv,
         \/ \E m \in Managers :
              \/ Synchronize(m) \/ Admit(m) \/ (\E b \in active[m] : CallEnds(m, b))
              \/ Closed(m) \/ Close(m) \/ Crash(m)
         \/ \E r \in wire : Obey(r) \/ Refuse(r)
         \/ Lapse
         \/ UNCHANGED vars
  PROVE  IntentShapes
  <1> USE DEF IntentShapes
  <1>0. /\ IntentTypes /\ Known(NoSnapshot)
    BY IdleFields DEF IntentInv, IntentTypes, Availability, Known, Later, Unbound
  <1>1. ASSUME NEW m \in Managers,
               \/ Synchronize(m) \/ Admit(m) \/ (\E b \in active[m] : CallEnds(m, b))
               \/ Closed(m) \/ Close(m)
        PROVE  Rests
    <2>1. CASE Synchronize(m)
      BY <1>0, <2>1
         DEF Synchronize, PollReads, Ignored, Suspend, Acknowledge, Allow, StartRefresh,
             Rests, IntentTypes, stateVars, remoteVars
    <2>2. CASE Admit(m) \/ (\E b \in active[m] : CallEnds(m, b))
      BY <1>0, <2>2 DEF Admit, CallEnds, Rests, IntentTypes, stateVars, remoteVars
    <2>3. CASE Closed(m) \/ Close(m)
      BY <1>0, <2>3 DEF Closed, Close, Rests, IntentTypes, stateVars, remoteVars
    <2> QED
      BY <1>1, <2>1, <2>2, <2>3
  <1>2. ASSUME NEW m \in Managers, Crash(m) PROVE Keeps(m)
    <2>1. op' = [op EXCEPT ![m] = Idle] /\ UNCHANGED <<claim, avail, remote, wire>>
      BY <1>2 DEF Crash, stateVars, remoteVars
    <2>2. op' \in [Managers -> Operation] /\ OthersKept(m) /\ op'[m] = Idle
      BY <1>0, <2>1, IdleFields DEF IntentTypes, OthersKept
    <2> QED
      BY <1>0, <2>1, <2>2, IdleFields DEF Keeps, IntentTypes, Requests
  <1>3. CASE \E r \in wire : Obey(r) \/ Refuse(r)
    BY <1>3 DEF Obey, Refuse, Obeys, Refuses, stateVars
  <1>4. CASE Lapse
    <2>1. /\ claim \in Managers /\ claim' = Nobody /\ UNCHANGED <<avail, remote, wire>>
          /\ op' = [op EXCEPT ![claim] = IF RunsOn(claim) THEN @ ELSE Idle]
      BY <1>0, <1>4 DEF Lapse, IntentTypes, remoteVars
    <2>2. CASE RunsOn(claim)
      <3>1. op' = op
        BY <1>0, <2>1, <2>2 DEF IntentTypes
      <3> QED
        BY <2>1, <3>1 DEF Rests
    <2>3. CASE ~RunsOn(claim)
      <3>1. op' = [op EXCEPT ![claim] = Idle]
        BY <2>1, <2>3
      <3>2. op' \in [Managers -> Operation] /\ OthersKept(claim) /\ op'[claim] = Idle
        BY <1>0, <2>1, <3>1, IdleFields DEF IntentTypes, OthersKept
      <3>3. Keeps(claim)
        BY <1>0, <2>1, <3>2, IdleFields DEF Keeps, Requests
      <3> QED
        BY <2>1, <3>3
    <2> QED
      BY <2>2, <2>3
  <1>5. CASE UNCHANGED vars
    BY <1>0, <1>5 DEF vars, Rests, IntentTypes, stateVars, remoteVars
  <1> QED
    BY <1>1, <1>2, <1>3, <1>4, <1>5

-----------------------------------------------------------------------------
(***************************************************************************)
(* What holds in every behaviour.                                          *)
(***************************************************************************)

\* A fresh sandbox runs, and nothing was asked of it.
LEMMA InitIntent ==
  ASSUME Init PROVE IntentInv
  <1>1. /\ avail = NewBinding(1) /\ remote = "running" /\ wire = {} /\ claim = Nobody
        /\ op = [m \in Managers |-> Idle]
    BY DEF Init
  <1>2. avail \in Availability /\ avail.binding = 1 /\ avail.phase = "running"
    BY <1>1, NewRow
  <1>3. IntentTypes
    BY <1>1, <1>2, IdleFields DEF IntentTypes, Unbound
  <1>4. WireSound /\ PhaseIsRemote
    BY <1>1, <1>2 DEF WireSound, PhaseIsRemote
  <1>5. ASSUME NEW m \in Managers PROVE OpSound(m) /\ Announced(m) /\ Refused(m)
    <2>1. op[m].pc = "idle" /\ op[m].snapshot = NoSnapshot
      BY <1>1, IdleFields
    <2>2. Known(NoSnapshot)
      BY <1>2, IdleFields DEF Known, Later, Unbound
    <2> QED
      BY <1>1, <2>1, <2>2 DEF OpSound, Announced, Refused, Requests
  <1> QED
    BY <1>3, <1>4, <1>5 DEF IntentInv

\* Every step keeps the invariant of the intent.
LEMMA IntentStep ==
  ASSUME IntentInv, [Next]_vars PROVE IntentInv'
  <1>1. IntentShapes
    BY BeginsShape, StepsShape, OthersShape DEF Next, ManagerStep
  <1>2. CASE Rests
    <2>1. IntentTypes' /\ WireSound' /\ PhaseIsRemote'
      BY <1>2 DEF Rests, IntentInv, IntentTypes, WireSound, PhaseIsRemote,
                  Pending, RequestOf, Original
    <2>2. ASSUME NEW m \in Managers PROVE OpSound(m)' /\ Announced(m)' /\ Refused(m)'
      BY <1>2 DEF Rests, IntentInv, OpSound, Announced, Refused, Known
    <2> QED
      BY <2>1, <2>2 DEF IntentInv
  <1> QED
    BY <1>1, <1>2, KeepsIntent, MovesIntent, SendsIntent, AnswersIntent DEF IntentShapes

\* The invariant of the intent.
THEOREM IntentInvariant == Spec => []IntentInv
  <1>1. Init => IntentInv
    BY InitIntent
  <1>2. IntentInv /\ [Next]_vars => IntentInv'
    BY IntentStep
  <1> QED
    BY <1>1, <1>2, PTL DEF Spec

\* A request on the wire is always the one the present intent announces: a
\* late pause never hits a sandbox that was declared running again, whatever
\* claims lapse, processes die or calls give up after the request was sent.
THEOREM NoRequestIsLate == Spec => []NoLateRequest
  <1>1. IntentInv => NoLateRequest
    BY DEF IntentInv, WireSound, NoLateRequest
  <1> QED
    BY <1>1, IntentInvariant, PTL

\* The phase that State has recorded is the state of the remote sandbox
\* whenever no request is pending.
THEOREM PhaseAgreesWithRemote == Spec => []PhaseIsRemote
  <1>1. IntentInv => PhaseIsRemote
    BY DEF IntentInv
  <1> QED
    BY <1>1, IntentInvariant, PTL

-----------------------------------------------------------------------------
(***************************************************************************)
(* The holders.  A step is either one of the row, which leaves every       *)
(* holder alone, or one manager's, which leaves the row alone.             *)
(***************************************************************************)

HolderOf(n) ==
  /\ Dated(n) /\ Registered(n) /\ Registering(n)
  /\ Polling(n) /\ Acknowledged(n) /\ Paused(n)

\* A manager whose handle and registration the step does not touch; its
\* operation is not on its way to a registration, unless it already was.
Bystander(n) ==
  /\ avail' = avail
  /\ holders'[n] = holders[n] /\ status'[n] = status[n] /\ poll'[n] = poll[n]
  /\ local'[n] = local[n] /\ open'[n] = open[n] /\ connected'[n] = connected[n]
  /\ active'[n] = active[n]
  /\ \/ /\ op'[n] = op[n]
        /\ claim' = n => claim = n
        /\ op[n].pc = "reopen" => claim' = claim
     \/ /\ op'[n].pc \notin {"register", "reopen"}
        /\ op'[n].pc # "idle" => op[n].pc # "idle"

\* What holds of a bystander goes on holding.
LEMMA BystanderKept ==
  ASSUME NEW n \in Managers, HolderOf(n), Bystander(n)
  PROVE  HolderOf(n)'
  <1>1. Dated(n)'
    BY DEF HolderOf, Bystander, Dated, Known
  <1>2. Registered(n)'
    BY DEF HolderOf, Bystander, Registered
  <1>3. Registering(n)'
    BY DEF HolderOf, Bystander, Registering
  <1>4. Polling(n)' /\ Acknowledged(n)' /\ Paused(n)'
    BY DEF HolderOf, Bystander, Polling, Acknowledged, Paused, Quiet, Exposed
  <1> QED
    BY <1>1, <1>2, <1>3, <1>4 DEF HolderOf

\* The invariant, manager by manager.
LEMMA HolderByManager ==
  HolderInv <=> HolderTypes /\ \A n \in Managers : HolderOf(n)
  BY DEF HolderInv, HolderOf

\* A step of one manager.
LEMMA OneManager ==
  ASSUME HolderInv, HolderTypes', NEW m \in Managers, HolderOf(m)',
         \A n \in Managers \ {m} : Bystander(n)
  PROVE  HolderInv'
  <1>1. ASSUME NEW n \in Managers \ {m} PROVE HolderOf(n)'
    BY BystanderKept, HolderByManager
  <1>2. HolderTypes' /\ \A n \in Managers : HolderOf(n)'
    BY <1>1
  <1> QED
    BY <1>2 DEF HolderInv, HolderOf

\* A step that touches no handle and no registration.
LEMMA NobodyTouched ==
  ASSUME HolderInv, UNCHANGED <<avail, holders, status, poll, local, handleVars>>,
         \A n \in Managers : Bystander(n)
  PROVE  HolderInv'
  <1>1. HolderTypes'
    BY DEF HolderInv, HolderTypes, handleVars
  <1>2. ASSUME NEW n \in Managers PROVE HolderOf(n)'
    BY BystanderKept, HolderByManager
  <1>3. HolderTypes' /\ \A n \in Managers : HolderOf(n)'
    BY <1>1, <1>2
  <1> QED
    BY <1>3 DEF HolderInv, HolderOf

PausedPhases == {"pausing", "paused", "resuming"}

\* The row moves.  It becomes paused only by way of a drain that every holder
\* acknowledged; who did not register has nothing to acknowledge.
LEMMA RowMoves ==
  ASSUME SandboxInv, NEW m \in Managers, claim \in {m, Nobody},
         NEW e, NEW phase \in Phases, NEW b \in BOOLEAN,
         ChangeAvailability(e, phase, b),
         phase \in PausedPhases => phase = "pausing" \/ avail.phase \in PausedPhases,
         UNCHANGED <<status, poll, local, handleVars>>,
         OthersKept(m), claim' \in {claim, m, Nobody},
         op'[m].pc \notin {"register", "reopen"},
         op'[m].pc # "idle" => status[m] = "up"
  PROVE  HolderInv'
  <1>0. IntentTypes /\ HolderTypes /\ \A n \in Managers : HolderOf(n)
    BY HolderByManager DEF SandboxInv, IntentInv
  <1>1. /\ e = avail /\ holders' = holders /\ avail' \in Availability
        /\ Later(avail, avail')
        /\ avail'.binding = avail.binding /\ avail'.phase = phase
        /\ avail'.sequence = avail.sequence + 1
    BY <1>0, ChangedRow
  <1>2. HolderTypes'
    BY <1>0, <1>1 DEF HolderTypes, handleVars
  <1>3. ASSUME NEW n \in Managers PROVE HolderOf(n)'
    <2>0. /\ HolderOf(n) /\ holders[n] \in Holder /\ avail \in Availability
          /\ holders'[n] = holders[n] /\ status'[n] = status[n] /\ poll'[n] = poll[n]
          /\ local'[n] = local[n] /\ open'[n] = open[n] /\ connected'[n] = connected[n]
          /\ active'[n] = active[n]
      BY <1>0, <1>1 DEF HolderTypes, IntentTypes, handleVars
    <2>1. /\ local[n] \in Availability /\ poll[n].snapshot \in Availability
          /\ Known(local[n]) /\ Known(poll[n].snapshot)
      BY <1>0, <2>0 DEF HolderOf, Dated, HolderTypes, Poll
    <2>2. Known(local[n])' /\ Known(poll[n].snapshot)' /\ poll[n].snapshot # avail'
      BY <1>0, <1>1, <2>0, <2>1, KnownIsLater DEF Known
    <2>p. Polling(n)'
      BY <1>1, <2>0 DEF HolderOf, Polling
    <2>3. Dated(n)'
      BY <1>1, <2>0, <2>2 DEF HolderOf, Dated, Availability, Holder
    <2>4. Registered(n)'
      BY <1>1, <2>0 DEF HolderOf, Registered
    <2>5. Registering(n)'
      <3>1. CASE n = m
        BY <1>1, <2>0, <3>1 DEF Registering
      <3>2. CASE n # m
        <4>1. op'[n] = op[n] /\ claim # n /\ claim' # n
          BY <3>2, SandboxAssumption DEF OthersKept
        <4> QED
          BY <2>0, <4>1 DEF HolderOf, Registering
      <3> QED
        BY <3>1, <3>2
    <2>6. Acknowledged(n)'
      BY <1>1, <2>0, <2>2 DEF HolderOf, Dated, Acknowledged, Availability, Holder
    <2>7. Quiet(n)' <=> Quiet(n)
      BY <1>1, <2>0 DEF Quiet, Exposed
    <2>8. Paused(n)'
      <3>1. CASE avail.phase \in PausedPhases
        BY <2>0, <2>7, <3>1 DEF HolderOf, Paused, PausedPhases
      <3>2. CASE phase = "pausing"
        <4>1. AllHoldersIdle(avail) /\ "pausing" \in Transitions[avail.phase]
          BY <1>1, <3>2 DEF ChangeAvailability
        <4>2. avail.phase = "draining"
          BY <2>0, <4>1 DEF Availability, Phases, Transitions
        <4>3. CASE holders[n].binding = avail.binding
          <5>1. Quiet(n) /\ (status[n] = "up" => local[n] = avail)
            BY <2>0, <4>1, <4>2, <4>3
               DEF AllHoldersIdle, HolderMatches, HolderOf, Acknowledged
          <5>2. ASSUME poll[n].pc = "apply", poll[n].snapshot.phase = "running"
                PROVE  poll[n].snapshot.sequence < local[n].sequence
            <6>1. local[n] = avail /\ poll[n].snapshot.binding = avail.binding
              BY <2>0, <5>1, <5>2 DEF HolderOf, Polling
            <6>2. Later(poll[n].snapshot, avail)
              BY <2>1, <4>2, <5>2 DEF Known
            <6> QED
              BY <2>0, <2>1, <6>1, <6>2 DEF Later, Availability
          <5> QED
            BY <2>0, <2>7, <5>1, <5>2 DEF Paused
        <4>4. CASE holders[n].binding # avail.binding
          <5>1. Quiet(n)
            BY <2>0, <4>4 DEF HolderOf, Registered, Quiet, Exposed
          <5>2. poll[n].pc # "apply"
            BY <2>0, <4>4 DEF HolderOf, Polling
          <5> QED
            BY <2>0, <2>7, <5>1, <5>2 DEF Paused
        <4> QED
          BY <4>3, <4>4
      <3>3. CASE phase \notin PausedPhases
        BY <1>1, <3>3 DEF Paused, PausedPhases
      <3> QED
        BY <3>1, <3>2, <3>3
    <2> QED
      BY <2>3, <2>4, <2>5, <2>p, <2>6, <2>8 DEF HolderOf
  <1> QED
    BY <1>2, <1>3 DEF HolderInv, HolderOf

\* Whoever begins or ends an operation takes no claim from another.
LEMMA ClaimOfOthers ==
  ASSUME SandboxInv, NEW m \in Managers, NEW n \in Managers \ {m},
         op'[n] = op[n],
         \/ claim = Nobody /\ claim' = m
         \/ claim' = IF claim = m THEN Nobody ELSE claim
         \/ claim' = claim
  PROVE  (claim' = n => claim = n) /\ (op[n].pc = "reopen" => claim' = claim)
  <1>1. op[n].pc = "reopen" => claim = n
    BY DEF SandboxInv, HolderInv, Registering
  <1> QED
    BY <1>1, SandboxAssumption

\* The handle of m takes the backend of the present binding.
LEMMA TakesPresent ==
  ASSUME SandboxInv, NEW m \in Managers, TakesBackend(m, avail.binding),
         UNCHANGED <<avail, holders, status, poll, local, active>>
  PROVE  /\ HolderTypes' /\ Dated(m)' /\ Registered(m)' /\ Polling(m)' /\ Acknowledged(m)' /\ Paused(m)'
         /\ connected'[m].binding = avail.binding
         /\ \A n \in Managers \ {m} : open'[n] = open[n] /\ connected'[n] = connected[n]
  <1>0. /\ HolderTypes /\ HolderOf(m) /\ avail \in Availability /\ avail.binding # Unbound
    BY HolderByManager DEF SandboxInv, IntentInv, IntentTypes
  <1>1. avail.binding \in Nat /\ avail'.connection \in Nat
    BY <1>0 DEF Availability
  <1>2. /\ connected' \in [Managers -> [binding: Nat, connection: Nat]]
        /\ connected'[m].binding = avail.binding
        /\ \A n \in Managers \ {m} : connected'[n] = connected[n]
    BY <1>0, <1>1 DEF HolderTypes, TakesBackend
  <1>3. /\ open' \in [Managers -> BOOLEAN]
        /\ open'[m] = (open[m] /\ local[m].binding = avail.binding)
        /\ \A n \in Managers \ {m} : open'[n] = open[n]
    BY <1>0 DEF HolderTypes, TakesBackend
  <1>4. HolderTypes'
    BY <1>0, <1>2, <1>3 DEF HolderTypes
  <1>5. Dated(m)'
    BY <1>0, <1>1, <1>2 DEF HolderOf, Dated, Known
  <1>6. Registered(m)'
    BY <1>0, <1>2, <1>3 DEF HolderOf, Registered
  <1>7. Quiet(m) => Quiet(m)'
    BY <1>0, <1>2, <1>3 DEF HolderOf, Registered, Quiet, Exposed
  <1>8. Polling(m)' /\ Acknowledged(m)' /\ Paused(m)'
    BY <1>0, <1>7 DEF HolderOf, Polling, Acknowledged, Paused
  <1> QED
    BY <1>2, <1>3, <1>4, <1>5, <1>6, <1>8

\* Operations that begin.
LEMMA BeginsHolders ==
  ASSUME Len(MaxSequence) = 1, SandboxInv, NEW m \in Managers, OperationBegins(m)
  PROVE  HolderInv'
  <1>0. /\ IntentTypes /\ PhaseIsRemote /\ avail \in Availability
        /\ HolderInv /\ HolderTypes /\ HolderOf(m)
    BY HolderByManager DEF SandboxInv, IntentInv, IntentTypes
  <1>s. Starts(m) /\ status[m] = "up" /\ op[m] = Idle /\ claim = Nobody
    BY DEF OperationBegins, ConfirmPending, StartDrain, ResumeRunning, StartResuming,
           Recreate, Check, Connect, RefreshEnds, Starts
  <1>1. CASE ConfirmPending(m)
    <2>1. /\ Pending(avail)
          /\ ChangeAvailability(avail, Target(avail), Target(avail) = "running")
          /\ UNCHANGED <<claim, op, status, poll, local, handleVars>>
      BY <1>1 DEF ConfirmPending
    <2>2. OthersKept(m) /\ op'[m].pc = "idle" /\ Target(avail) \in Phases
      BY <1>s, <2>1, IdleFields DEF OthersKept, Target, Phases
    <2>3. avail.phase \in PausedPhases
      BY <2>1 DEF Pending, PausedPhases
    <2> QED
      BY <1>s, <2>1, <2>2, <2>3, RowMoves
  <1>2. CASE StartDrain(m)
    <2>1. /\ ChangeAvailability(avail, "draining", FALSE)
          /\ Begin(m, "pause", "drain", avail')
          /\ UNCHANGED <<status, poll, local, handleVars>>
      BY <1>2 DEF StartDrain
    <2>2. avail' \in Availability /\ "draining" \in Phases
      BY <1>0, <2>1, ChangedRow DEF Phases
    <2>3. claim' = m /\ OthersKept(m) /\ op'[m].pc = "drain"
      BY <1>0, <2>1, <2>2, BegunOperation
    <2> QED
      BY <1>s, <2>1, <2>2, <2>3, RowMoves DEF PausedPhases
  <1>3. CASE ResumeRunning(m)
    <2>1. /\ Begin(m, "resume", "connect", avail')
          /\ UNCHANGED <<status, poll, local, handleVars>>
      BY <1>3 DEF ResumeRunning
    <2>2. CASE avail.phase = "draining" /\ ChangeAvailability(avail, "running", FALSE)
      <3>1. avail' \in Availability /\ "running" \in Phases
        BY <1>0, <2>2, ChangedRow DEF Phases
      <3>2. claim' = m /\ OthersKept(m) /\ op'[m].pc = "connect"
        BY <1>0, <2>1, <3>1, BegunOperation
      <3> QED
        BY <1>s, <2>1, <2>2, <3>1, <3>2, RowMoves DEF PausedPhases
    <2>3. CASE UNCHANGED <<avail, holders>>
      <3>1. claim' = m /\ OthersKept(m) /\ op'[m].pc = "connect"
        BY <1>0, <2>1, <2>3, BegunOperation
      <3>2. HolderTypes'
        BY <1>0, <2>1, <2>3 DEF HolderTypes, handleVars
      <3>3. \A n \in Managers \ {m} : Bystander(n)
        BY <1>s, <2>1, <2>3, <3>1, ClaimOfOthers DEF Bystander, OthersKept, handleVars
      <3>4. Dated(m)' /\ Registered(m)' /\ Polling(m)' /\ Acknowledged(m)' /\ Paused(m)'
        BY <1>0, <2>1, <2>3
           DEF HolderOf, Dated, Known, Registered, Polling, Acknowledged, Paused, Quiet, Exposed,
               handleVars
      <3>5. HolderOf(m)'
        BY <1>s, <2>1, <3>1, <3>4 DEF HolderOf, Registering
      <3> QED
        BY <1>0, <3>2, <3>3, <3>5, OneManager
    <2> QED
      BY <1>3, <2>2, <2>3 DEF ResumeRunning
  <1>4. CASE StartResuming(m)
    <2>1. /\ avail.phase = "paused" /\ ChangeAvailability(avail, "resuming", FALSE)
          /\ Begin(m, "resume", "dispatch", avail')
          /\ UNCHANGED <<status, poll, local, handleVars>>
      BY <1>4 DEF StartResuming
    <2>2. avail' \in Availability /\ "resuming" \in Phases
      BY <1>0, <2>1, ChangedRow DEF Phases
    <2>3. claim' = m /\ OthersKept(m) /\ op'[m].pc = "dispatch"
      BY <1>0, <2>1, <2>2, BegunOperation
    <2> QED
      BY <1>s, <2>1, <2>2, <2>3, RowMoves DEF PausedPhases
  <1>5. ~Recreate(m)
    BY <1>0 DEF Recreate, HolderTypes
  <1>6. CASE Check(m)
    <2>1. /\ Begin(m, "get", "register", avail) /\ connected[m].binding = avail.binding
          /\ UNCHANGED <<avail, holders, status, poll, local, handleVars>>
      BY <1>6 DEF Check, Healthy
    <2>2. claim' = m /\ OthersKept(m) /\ op'[m].pc = "register"
      BY <1>0, <2>1, BegunOperation
    <2>3. HolderTypes'
      BY <1>0, <2>1 DEF HolderTypes, handleVars
    <2>4. \A n \in Managers \ {m} : Bystander(n)
      BY <1>s, <2>1, <2>2, ClaimOfOthers DEF Bystander, OthersKept, handleVars
    <2>5. Dated(m)' /\ Registered(m)' /\ Polling(m)' /\ Acknowledged(m)' /\ Paused(m)'
      BY <1>0, <2>1
         DEF HolderOf, Dated, Known, Registered, Polling, Acknowledged, Paused, Quiet, Exposed,
             handleVars
    <2>6. HolderOf(m)'
      BY <1>s, <2>1, <2>2, <2>5 DEF HolderOf, Registering, handleVars
    <2> QED
      BY <1>0, <2>3, <2>4, <2>6, OneManager
  <1>7. CASE \E kind \in {"get", "refresh"} : Connect(m, kind)
    <2> PICK kind \in {"get", "refresh"} : Connect(m, kind)
      BY <1>7
    <2>1. /\ Begin(m, kind, "register", avail) /\ TakesBackend(m, avail.binding)
          /\ UNCHANGED <<avail, holders, status, poll, local, active>>
      BY DEF Connect
    <2>2. claim' = m /\ OthersKept(m) /\ op'[m].pc = "register"
      BY <1>0, <2>1, BegunOperation
    <2>3. /\ HolderTypes' /\ Dated(m)' /\ Registered(m)' /\ Polling(m)' /\ Acknowledged(m)' /\ Paused(m)'
          /\ connected'[m].binding = avail.binding
          /\ \A n \in Managers \ {m} : open'[n] = open[n] /\ connected'[n] = connected[n]
      BY <2>1, TakesPresent
    <2>4. \A n \in Managers \ {m} : Bystander(n)
      BY <1>s, <2>1, <2>2, <2>3, ClaimOfOthers DEF Bystander, OthersKept
    <2>5. HolderOf(m)'
      BY <1>s, <2>1, <2>2, <2>3 DEF HolderOf, Registering
    <2> QED
      BY <1>0, <2>3, <2>4, <2>5, OneManager
  <1>8. CASE RefreshEnds(m)
    <2>1. UNCHANGED <<claim, avail, holders, op, status, poll, local, handleVars>>
      BY <1>8 DEF RefreshEnds, stateVars
    <2>2. \A n \in Managers : Bystander(n)
      BY <2>1 DEF Bystander, handleVars
    <2> QED
      BY <1>0, <2>1, <2>2, NobodyTouched
  <1> QED
    BY <1>1, <1>2, <1>3, <1>4, <1>5, <1>6, <1>7, <1>8 DEF OperationBegins

\* Operations that go on.
LEMMA StepsHolders ==
  ASSUME SandboxInv, NEW m \in Managers, OperationStep(m)
  PROVE  HolderInv'
  <1>0. /\ IntentTypes /\ PhaseIsRemote /\ avail \in Availability /\ avail.binding # Unbound
        /\ OpSound(m) /\ HolderInv /\ HolderTypes /\ HolderOf(m)
    BY HolderByManager DEF SandboxInv, IntentInv, IntentTypes
  <1>u. op[m].pc # "idle" => status[m] = "up"
    BY <1>0 DEF HolderOf, Registering
  <1>1. CASE StartPausing(m)
    <2>1. /\ op[m].pc = "drain" /\ claim = m /\ claim' = claim
          /\ ChangeAvailability(op[m].snapshot, "pausing", FALSE)
          /\ Proceed(m, "dispatch", avail')
          /\ UNCHANGED <<status, poll, local, handleVars>>
      BY <1>1 DEF StartPausing, At
    <2>2. avail' \in Availability /\ "pausing" \in Phases
      BY <1>0, <2>1, ChangedRow DEF Phases
    <2>3. OthersKept(m) /\ op'[m].pc = "dispatch"
      BY <1>0, <2>1, <2>2, ProceededOperation
    <2> QED
      BY <1>u, <2>1, <2>2, <2>3, RowMoves
  <1>2. CASE CancelIntent(m)
    <2>1. /\ op[m].pc \in {"drain", "dispatch"} /\ claim = m
          /\ ChangeAvailability(op[m].snapshot, Original(op[m].snapshot), FALSE)
          /\ Finish(m) /\ UNCHANGED <<status, poll, local, handleVars>>
      BY <1>2 DEF CancelIntent, At
    <2>2. op[m].snapshot = avail /\ ChangeAvailability(avail, Original(avail), FALSE)
      BY <2>1 DEF ChangeAvailability
    <2>3. claim' \in {claim, m, Nobody} /\ OthersKept(m) /\ op'[m].pc = "idle"
      BY <1>0, <2>1, FinishedOperation, IdleFields DEF Finish
    <2>4. /\ Original(avail) \in Phases
          /\ Original(avail) \in PausedPhases => avail.phase \in PausedPhases
      BY DEF Original, Phases, PausedPhases
    <2> QED
      BY <2>1, <2>2, <2>3, <2>4, RowMoves
  <1>3. CASE Dispatch(m)
    <2>1. /\ op[m].pc = "dispatch" /\ Step(m, "sent")
          /\ UNCHANGED <<claim, avail, holders, status, poll, local, handleVars>>
      BY <1>3 DEF Dispatch, At, stateVars
    <2>2. OthersKept(m) /\ op'[m].pc = "sent"
      BY <1>0, <2>1 DEF Step, IntentTypes, Operation, OthersKept
    <2>3. \A n \in Managers : Bystander(n)
      BY <2>1, <2>2 DEF Bystander, OthersKept, handleVars
    <2> QED
      BY <1>0, <2>1, <2>3, NobodyTouched
  <1>4. CASE Confirmed(m)
    <2>1. /\ op[m].pc = "sent" /\ claim = m /\ remote = Target(op[m].snapshot)
          /\ ChangeAvailability(op[m].snapshot, remote, Kind(m) = "resume")
          /\ \/ Finish(m)
             \/ Proceed(m, "connect", avail') /\ UNCHANGED claim
          /\ UNCHANGED <<status, poll, local, handleVars>>
      BY <1>4 DEF Confirmed, At
    <2>2. op[m].snapshot = avail
      BY <2>1 DEF ChangeAvailability
    <2>3. avail.phase \in PausedPhases /\ remote \in Phases
      BY <1>0, <2>1, <2>2 DEF OpSound, Requests, Pending, PausedPhases, Target, Phases
    <2>4. avail' \in Availability
      BY <1>0, <2>1, <2>3, ChangedRow
    <2>5. CASE Finish(m)
      <3>1. claim' \in {claim, m, Nobody} /\ OthersKept(m) /\ op'[m].pc = "idle"
        BY <1>0, <2>5, FinishedOperation, IdleFields DEF Finish
      <3> QED
        BY <2>1, <2>3, <3>1, RowMoves
    <2>6. CASE Proceed(m, "connect", avail') /\ UNCHANGED claim
      <3>1. OthersKept(m) /\ op'[m].pc = "connect"
        BY <1>0, <2>4, <2>6, ProceededOperation
      <3> QED
        BY <1>u, <2>1, <2>3, <2>6, <3>1, RowMoves
    <2> QED
      BY <2>1, <2>5, <2>6
  <1>5. CASE RestoreRejected(m)
    <2>1. /\ op[m].pc = "rejected" /\ claim = m /\ remote = Original(op[m].snapshot)
          /\ ChangeAvailability(op[m].snapshot, remote, FALSE)
          /\ Finish(m) /\ UNCHANGED <<status, poll, local, handleVars>>
      BY <1>5 DEF RestoreRejected, At
    <2>2. op[m].snapshot = avail
      BY <2>1 DEF ChangeAvailability
    <2>3. avail.phase \in PausedPhases /\ remote \in Phases
      BY <1>0, <2>1, <2>2 DEF OpSound, Requests, Pending, PausedPhases, Original, Phases
    <2>4. claim' \in {claim, m, Nobody} /\ OthersKept(m) /\ op'[m].pc = "idle"
      BY <1>0, <2>1, FinishedOperation, IdleFields DEF Finish
    <2> QED
      BY <2>1, <2>3, <2>4, RowMoves
  <1>6. CASE ConnectResumed(m)
    <2>1. /\ op[m].pc = "connect" /\ Step(m, "register") /\ TakesBackend(m, avail.binding)
          /\ UNCHANGED <<claim, avail, holders, status, poll, local, active>>
      BY <1>6 DEF ConnectResumed, At, stateVars
    <2>2. OthersKept(m) /\ op'[m].pc = "register"
      BY <1>0, <2>1 DEF Step, IntentTypes, Operation, OthersKept
    <2>3. /\ HolderTypes' /\ Dated(m)' /\ Registered(m)' /\ Polling(m)' /\ Acknowledged(m)' /\ Paused(m)'
          /\ connected'[m].binding = avail.binding
          /\ \A n \in Managers \ {m} : open'[n] = open[n] /\ connected'[n] = connected[n]
      BY <2>1, TakesPresent
    <2>4. \A n \in Managers \ {m} : Bystander(n)
      BY <2>1, <2>2, <2>3 DEF Bystander, OthersKept
    <2>5. HolderOf(m)'
      BY <1>u, <2>1, <2>2, <2>3 DEF HolderOf, Registering
    <2> QED
      BY <1>0, <2>3, <2>4, <2>5, OneManager
  <1>7. CASE RegisterHolder(m)
    <2>1. /\ op[m].pc = "register" /\ claim = m /\ avail.phase = "running"
          /\ holders' = [holders EXCEPT ![m] = [NoHolder EXCEPT !.binding = avail.binding]]
          /\ local' = [local EXCEPT ![m] = avail]
          /\ Proceed(m, "reopen", avail)
          /\ UNCHANGED <<claim, avail, status, poll, handleVars>>
      BY <1>7 DEF RegisterHolder, At, Running
    <2>2. OthersKept(m) /\ op'[m].pc = "reopen" /\ op'[m].snapshot = avail
      BY <1>0, <2>1, ProceededOperation
    <2>3. connected[m].binding = avail.binding
      BY <1>0, <2>1 DEF HolderOf, Registering
    <2>4. /\ avail.binding \in Nat /\ avail.sequence \in Nat
          /\ [NoHolder EXCEPT !.binding = avail.binding] =
               [binding |-> avail.binding, acknowledged |-> 0]
      BY <1>0 DEF Availability, NoHolder, Unacknowledged
    <2>5. /\ holders' \in [Managers -> Holder]
          /\ holders'[m].binding = avail.binding /\ holders'[m].acknowledged = 0
          /\ \A n \in Managers \ {m} : holders'[n] = holders[n]
      BY <1>0, <2>1, <2>4 DEF HolderTypes, Holder
    <2>6. /\ local' \in [Managers -> Availability] /\ local'[m] = avail
          /\ \A n \in Managers \ {m} : local'[n] = local[n]
      BY <1>0, <2>1 DEF HolderTypes
    <2>7. HolderTypes'
      BY <1>0, <2>1, <2>5, <2>6 DEF HolderTypes, handleVars
    <2>8. \A n \in Managers \ {m} : Bystander(n)
      BY <2>1, <2>2, <2>5, <2>6 DEF Bystander, OthersKept, handleVars
    <2>9. Dated(m)'
      BY <1>0, <2>1, <2>4, <2>5, <2>6 DEF HolderOf, Dated, Known, handleVars
    <2>10. Registered(m)'
      BY <1>0, <2>1, <2>3, <2>5, <2>6 DEF HolderOf, Registered, handleVars
    <2>11. Registering(m)'
      BY <1>u, <2>1, <2>2, <2>3, <2>5 DEF Registering, handleVars
    <2>12. Polling(m)' /\ Acknowledged(m)' /\ Paused(m)'
      BY <1>0, <2>1, <2>5 DEF HolderOf, Polling, Acknowledged, Paused
    <2> QED
      BY <1>0, <2>7, <2>8, <2>9, <2>10, <2>11, <2>12, OneManager DEF HolderOf
  <1>8. CASE RegisterFails(m)
    <2>1. /\ avail.phase = "running" /\ connected[m].binding = avail.binding
          /\ local' = [local EXCEPT ![m] = avail]
          /\ Finish(m)
          /\ UNCHANGED <<avail, holders, status, poll, handleVars>>
      BY <1>8 DEF RegisterFails, Running
    <2>2. /\ OthersKept(m) /\ op'[m].pc = "idle"
          /\ claim' = IF claim = m THEN Nobody ELSE claim
      BY <1>0, <2>1, FinishedOperation, IdleFields DEF Finish
    <2>3. /\ local' \in [Managers -> Availability] /\ local'[m] = avail
          /\ \A n \in Managers \ {m} : local'[n] = local[n]
      BY <1>0, <2>1 DEF HolderTypes
    <2>4. HolderTypes'
      BY <1>0, <2>1, <2>3 DEF HolderTypes, handleVars
    <2>5. \A n \in Managers \ {m} : Bystander(n)
      BY <2>1, <2>2, <2>3, ClaimOfOthers DEF Bystander, OthersKept, handleVars
    <2>6. Dated(m)'
      BY <1>0, <2>1, <2>3 DEF HolderOf, Dated, Known, handleVars
    <2>7. Registered(m)'
      BY <1>0, <2>1, <2>3 DEF HolderOf, Registered, handleVars
    <2>8. Registering(m)' /\ Polling(m)' /\ Acknowledged(m)' /\ Paused(m)'
      BY <1>0, <2>1, <2>2 DEF HolderOf, Registering, Polling, Acknowledged, Paused
    <2> QED
      BY <1>0, <2>4, <2>5, <2>6, <2>7, <2>8, OneManager DEF HolderOf
  <1>9. CASE Reopen(m)
    <2>1. /\ op[m].pc = "reopen" /\ Finish(m)
          /\ \/ /\ local' = [local EXCEPT ![m] = op[m].snapshot]
                /\ open' = [open EXCEPT ![m] = TRUE]
             \/ UNCHANGED <<local, open>>
          /\ UNCHANGED <<avail, holders, status, poll, connected, active>>
      BY <1>9 DEF Reopen, At
    <2>2. /\ OthersKept(m) /\ op'[m].pc = "idle"
          /\ claim' = IF claim = m THEN Nobody ELSE claim
      BY <1>0, <2>1, FinishedOperation, IdleFields DEF Finish
    <2>3. /\ op[m].snapshot = avail /\ avail.phase = "running" /\ status[m] = "up"
          /\ holders[m].binding = avail.binding /\ connected[m].binding = avail.binding
      BY <1>0, <2>1 DEF HolderOf, Registering
    <2>4. /\ local' \in [Managers -> Availability]
          /\ open' \in [Managers -> BOOLEAN]
          /\ \/ local'[m] = avail
             \/ local'[m] = local[m] /\ open'[m] = open[m]
          /\ \A n \in Managers \ {m} : local'[n] = local[n] /\ open'[n] = open[n]
      BY <1>0, <2>1, <2>3 DEF HolderTypes
    <2>5. HolderTypes'
      BY <1>0, <2>1, <2>4 DEF HolderTypes
    <2>6. \A n \in Managers \ {m} : Bystander(n)
      BY <2>1, <2>2, <2>4, ClaimOfOthers DEF Bystander, OthersKept
    <2>7. Dated(m)'
      BY <1>0, <2>1, <2>4 DEF HolderOf, Dated, Known
    <2>8. Registered(m)'
      BY <1>0, <2>1, <2>3, <2>4 DEF HolderOf, Registered
    <2>9. Registering(m)' /\ Polling(m)' /\ Acknowledged(m)' /\ Paused(m)'
      BY <1>0, <2>1, <2>2, <2>3 DEF HolderOf, Registering, Polling, Acknowledged, Paused
    <2> QED
      BY <1>0, <2>5, <2>6, <2>7, <2>8, <2>9, OneManager DEF HolderOf
  <1>10. CASE GiveUp(m)
    <2>1. Finish(m) /\ UNCHANGED <<avail, holders, status, poll, local, handleVars>>
      BY <1>10 DEF GiveUp
    <2>2. /\ OthersKept(m) /\ op'[m].pc = "idle"
          /\ claim' = IF claim = m THEN Nobody ELSE claim
      BY <1>0, <2>1, FinishedOperation, IdleFields DEF Finish
    <2>3. \A n \in Managers : Bystander(n)
      BY <2>1, <2>2, ClaimOfOthers DEF Bystander, OthersKept, handleVars
    <2> QED
      BY <1>0, <2>1, <2>3, NobodyTouched
  <1> QED
    BY <1>1, <1>2, <1>3, <1>4, <1>5, <1>6, <1>7, <1>8, <1>9, <1>10 DEF OperationStep

\* A manager that is not polling.
LEMMA NotPollingFields ==
  /\ NotPolling \in Poll /\ NotPolling.pc = "idle"
  /\ NotPolling.snapshot = NoSnapshot
  BY IdleFields DEF NotPolling, Poll, Unbound

\* Nothing is older than no snapshot.
LEMMA NoSnapshotKnown ==
  ASSUME IntentTypes PROVE Known(NoSnapshot)
  BY IdleFields DEF IntentTypes, Availability, Known, Later, Unbound

\* An update that applies is about the binding that the handle is connected and
\* registered at.  A manager that knows the present row applies no other.
LEMMA PollApplies ==
  ASSUME SandboxInv, NEW m \in Managers, Applies(m)
  PROVE  /\ Update(m) = poll[m].snapshot /\ Update(m) \in Availability
         /\ Known(Update(m)) /\ status[m] = "up" /\ poll[m].pc = "apply"
         /\ Update(m).binding = avail.binding /\ local[m].binding = avail.binding
         /\ holders[m].binding = avail.binding /\ connected[m].binding = avail.binding
         /\ local[m] = avail => Update(m) = avail
         /\ ~(Update(m).sequence < local[m].sequence)
  <1>0. HolderTypes /\ HolderOf(m) /\ avail \in Availability
    BY HolderByManager DEF SandboxInv, IntentInv, IntentTypes
  <1>1. /\ status[m] = "up" /\ poll[m].pc = "apply" /\ Update(m) = poll[m].snapshot
        /\ Update(m).binding = local[m].binding
        /\ Update(m).sequence >= local[m].sequence
    BY DEF Applies, Waits, Update
  <1>2. Update(m) \in Availability /\ local[m] \in Availability
    BY <1>0, <1>1 DEF HolderTypes, Poll
  <1>3. /\ Known(Update(m)) /\ holders[m].binding = avail.binding
        /\ Update(m).binding = avail.binding
    BY <1>0, <1>1 DEF HolderOf, Dated, Polling
  <1>4. connected[m].binding = avail.binding
    BY <1>0, <1>1, <1>3 DEF HolderOf, Registered
  <1>5. ~(Update(m).sequence < local[m].sequence)
    BY <1>1, <1>2 DEF Availability
  <1>6. ASSUME local[m] = avail PROVE Update(m) = avail
    BY <1>0, <1>2, <1>3, <1>5, <1>6 DEF Known, Later, Availability
  <1> QED
    BY <1>1, <1>2, <1>3, <1>4, <1>5, <1>6

\* A poll that ends without having touched its handle.
LEMMA PollsIdle ==
  ASSUME SandboxInv, NEW m \in Managers, PollReads(m) \/ Ignored(m)
  PROVE  HolderInv'
  <1>0. /\ IntentTypes /\ avail \in Availability
        /\ HolderInv /\ HolderTypes /\ HolderOf(m) /\ Known(NoSnapshot)
    BY HolderByManager, NoSnapshotKnown DEF SandboxInv, IntentInv, IntentTypes
  <1>1. UNCHANGED <<claim, avail, holders, status, op, local, open, connected, active>>
    BY DEF PollReads, Ignored, stateVars, handleVars
  <1>2. PICK p \in Poll :
          /\ poll' = [poll EXCEPT ![m] = p]
          /\ \/ p.pc = "idle" /\ p.snapshot = NoSnapshot
             \/ /\ p.pc = "apply" /\ p.snapshot = avail /\ status[m] = "up"
                /\ holders[m].binding # Unbound
    <2>1. CASE PollReads(m)
      <3> DEFINE p == [pc |-> "apply", row |-> holders[m].binding, snapshot |-> avail]
      <3>1. p \in Poll
        BY <1>0 DEF HolderTypes, Holder, Poll
      <3> QED
        BY <2>1, <3>1 DEF PollReads
    <2>2. CASE Ignored(m)
      BY <2>2, NotPollingFields DEF Ignored
    <2> QED
      BY <2>1, <2>2
  <1>3. /\ poll' \in [Managers -> Poll] /\ poll'[m] = p
        /\ \A n \in Managers \ {m} : poll'[n] = poll[n]
    BY <1>0, <1>2 DEF HolderTypes
  <1>4. HolderTypes'
    BY <1>0, <1>1, <1>3 DEF HolderTypes
  <1>5. \A n \in Managers \ {m} : Bystander(n)
    BY <1>1, <1>3 DEF Bystander
  <1>6. Dated(m)' /\ Registered(m)' /\ Registering(m)'
    BY <1>0, <1>1, <1>2, <1>3 DEF HolderOf, Dated, Known, Registered, Registering
  <1>7. Polling(m)'
    <2>1. holders[m].binding # Unbound => holders[m].binding = avail.binding
      <3>1. holders[m].binding \in Nat /\ avail.binding = 1
        BY <1>0 DEF HolderTypes, Holder
      <3>2. holders[m].binding <= avail.binding
        BY <1>0 DEF HolderOf, Dated
      <3> QED
        BY <3>1, <3>2 DEF Unbound
    <2> QED
      BY <1>1, <1>2, <1>3, <2>1 DEF Polling
  <1>8. Acknowledged(m)' /\ Paused(m)'
    BY <1>0, <1>1, <1>2, <1>3 DEF HolderOf, Acknowledged, Paused, Quiet, Exposed
  <1> QED
    BY <1>0, <1>4, <1>5, <1>6, <1>7, <1>8, OneManager DEF HolderOf

\* Polls.
LEMMA PollsHolders ==
  ASSUME SandboxInv, NEW m \in Managers, Synchronize(m)
  PROVE  HolderInv'
  <1>0. /\ IntentTypes /\ avail \in Availability /\ avail.binding # Unbound
        /\ HolderInv /\ HolderTypes /\ HolderOf(m) /\ Known(NoSnapshot)
        /\ poll \in [Managers -> Poll]
    BY HolderByManager, NoSnapshotKnown
       DEF SandboxInv, IntentInv, IntentTypes, HolderTypes
  <1>1. CASE Suspend(m)
    <2>1. /\ Applies(m) /\ UNCHANGED <<claim, avail, holders, status, op, connected, active>>
          /\ open' = [open EXCEPT ![m] = FALSE]
          /\ local' = [local EXCEPT ![m] = Update(m)]
          /\ poll' = [poll EXCEPT ![m] =
               IF Update(m).phase = "draining" /\ HandleIdle(m)
                 THEN [poll[m] EXCEPT !.pc = "ack"] ELSE NotPolling]
      BY <1>1 DEF Suspend, stateVars
    <2>2. /\ Update(m) = poll[m].snapshot /\ Update(m) \in Availability
          /\ Known(Update(m)) /\ status[m] = "up" /\ Update(m).binding = avail.binding
          /\ holders[m].binding = avail.binding /\ connected[m].binding = avail.binding
          /\ local[m] = avail => Update(m) = avail
      BY <2>1, PollApplies
    <2>3. PICK p \in Poll :
            /\ poll' = [poll EXCEPT ![m] = p]
            /\ \/ p.pc = "idle" /\ p.snapshot = NoSnapshot
               \/ p.pc = "ack" /\ p.snapshot = Update(m) /\ HandleIdle(m)
      <3>1. /\ [poll[m] EXCEPT !.pc = "ack"] \in Poll
            /\ [poll[m] EXCEPT !.pc = "ack"].pc = "ack"
            /\ [poll[m] EXCEPT !.pc = "ack"].snapshot = Update(m)
        BY <1>0, <2>2 DEF Poll
      <3> QED
        BY <2>1, <3>1, NotPollingFields
    <2>4. /\ poll' \in [Managers -> Poll] /\ poll'[m] = p
          /\ local' \in [Managers -> Availability] /\ local'[m] = Update(m)
          /\ open' \in [Managers -> BOOLEAN] /\ ~open'[m]
          /\ \A n \in Managers \ {m} :
               poll'[n] = poll[n] /\ local'[n] = local[n] /\ open'[n] = open[n]
      BY <1>0, <2>1, <2>2, <2>3 DEF HolderTypes
    <2>5. HolderTypes'
      BY <1>0, <2>1, <2>4 DEF HolderTypes
    <2>6. \A n \in Managers \ {m} : Bystander(n)
      BY <2>1, <2>4 DEF Bystander
    <2>7. Dated(m)'
      BY <1>0, <2>1, <2>2, <2>3, <2>4 DEF HolderOf, Dated, Known
    <2>8. Registered(m)' /\ Registering(m)' /\ Polling(m)'
      BY <1>0, <2>1, <2>2, <2>3, <2>4 DEF HolderOf, Registered, Registering, Polling
    <2>9. Acknowledged(m)'
      BY <1>0, <2>1, <2>2, <2>3, <2>4
         DEF HolderOf, Acknowledged, Quiet, Exposed, HandleIdle
    <2>10. Paused(m)'
      BY <1>0, <2>1, <2>3, <2>4 DEF HolderOf, Paused, Quiet, Exposed
    <2> QED
      BY <1>0, <2>5, <2>6, <2>7, <2>8, <2>9, <2>10, OneManager DEF HolderOf
  <1>2. CASE Acknowledge(m)
    <2>1. /\ poll[m].pc = "ack" /\ holders' = AcknowledgeIdle(m, poll[m].snapshot)
          /\ poll' = [poll EXCEPT ![m] = NotPolling]
          /\ UNCHANGED <<claim, avail, status, op, local, handleVars>>
      BY <1>2 DEF Acknowledge
    <2>2. /\ poll' \in [Managers -> Poll] /\ poll'[m] = NotPolling
          /\ \A n \in Managers \ {m} : poll'[n] = poll[n]
      BY <1>0, <2>1, NotPollingFields
    <2>3. \/ holders' = holders
          \/ /\ avail.phase = "draining" /\ avail = poll[m].snapshot
             /\ holders' = [holders EXCEPT ![m].acknowledged = avail.sequence]
      BY <2>1 DEF AcknowledgeIdle
    <2>4. avail.sequence \in Nat
      BY <1>0 DEF Availability
    <2>5. /\ holders' \in [Managers -> Holder]
          /\ holders'[m].binding = holders[m].binding
          /\ \A n \in Managers \ {m} : holders'[n] = holders[n]
          /\ \/ holders'[m].acknowledged = holders[m].acknowledged
             \/ /\ avail.phase = "draining" /\ avail = poll[m].snapshot
                /\ holders'[m].acknowledged = avail.sequence
      BY <1>0, <2>3, <2>4 DEF HolderTypes, Holder
    <2>6. HolderTypes'
      BY <1>0, <2>1, <2>2, <2>5 DEF HolderTypes, handleVars
    <2>7. \A n \in Managers \ {m} : Bystander(n)
      BY <2>1, <2>2, <2>5 DEF Bystander, handleVars
    <2>8. Dated(m)'
      BY <1>0, <2>1, <2>2, <2>4, <2>5, NotPollingFields
         DEF HolderOf, Dated, Known, handleVars
    <2>9. Registered(m)' /\ Registering(m)'
      BY <1>0, <2>1, <2>5 DEF HolderOf, Registered, Registering, handleVars
    <2>10. Polling(m)' /\ Acknowledged(m)' /\ Paused(m)'
      BY <1>0, <2>1, <2>2, <2>5, NotPollingFields
         DEF HolderOf, Polling, Acknowledged, Paused, Quiet, Exposed, handleVars
    <2> QED
      BY <1>0, <2>6, <2>7, <2>8, <2>9, <2>10, OneManager DEF HolderOf
  <1>3. CASE Allow(m)
    <2>1. /\ Applies(m) /\ Update(m).phase = "running"
          /\ UNCHANGED <<claim, avail, holders, status, op, connected, active>>
          /\ open' = [open EXCEPT ![m] = TRUE]
          /\ local' = [local EXCEPT ![m] = Update(m)]
          /\ poll' = [poll EXCEPT ![m] = NotPolling]
      BY <1>3 DEF Allow, stateVars
    <2>2. /\ Update(m) = poll[m].snapshot /\ Update(m) \in Availability
          /\ Known(Update(m)) /\ status[m] = "up" /\ poll[m].pc = "apply"
          /\ Update(m).binding = avail.binding
          /\ holders[m].binding = avail.binding /\ connected[m].binding = avail.binding
          /\ local[m] = avail => Update(m) = avail
          /\ ~(Update(m).sequence < local[m].sequence)
      BY <2>1, PollApplies
    <2>3. /\ poll' \in [Managers -> Poll] /\ poll'[m] = NotPolling
          /\ local' \in [Managers -> Availability] /\ local'[m] = Update(m)
          /\ open' \in [Managers -> BOOLEAN]
          /\ \A n \in Managers \ {m} :
               poll'[n] = poll[n] /\ local'[n] = local[n] /\ open'[n] = open[n]
      BY <1>0, <2>1, <2>2, NotPollingFields DEF HolderTypes
    <2>4. HolderTypes'
      BY <1>0, <2>1, <2>3 DEF HolderTypes
    <2>5. \A n \in Managers \ {m} : Bystander(n)
      BY <2>1, <2>3 DEF Bystander
    <2>6. Dated(m)'
      BY <1>0, <2>1, <2>2, <2>3, NotPollingFields DEF HolderOf, Dated, Known
    <2>7. Registered(m)' /\ Registering(m)' /\ Polling(m)'
      BY <1>0, <2>1, <2>2, <2>3, NotPollingFields
         DEF HolderOf, Registered, Registering, Polling
    <2>8. avail.phase \notin PausedPhases
      BY <1>0, <2>1, <2>2 DEF HolderOf, Paused, PausedPhases
    <2>9. ~(avail.phase = "draining" /\ holders[m].acknowledged = avail.sequence)
      BY <1>0, <2>1, <2>2 DEF HolderOf, Acknowledged
    <2>10. Acknowledged(m)' /\ Paused(m)'
      BY <2>1, <2>3, <2>8, <2>9, NotPollingFields DEF Acknowledged, Paused, PausedPhases
    <2> QED
      BY <1>0, <2>4, <2>5, <2>6, <2>7, <2>10, OneManager DEF HolderOf
  <1>4. CASE StartRefresh(m)
    <2>1. /\ UNCHANGED <<claim, avail, holders, status, op, local, connected, active>>
          /\ open' = [open EXCEPT ![m] = FALSE]
          /\ poll' = [poll EXCEPT ![m] = NotPolling]
      BY <1>4 DEF StartRefresh, stateVars
    <2>2. /\ poll' \in [Managers -> Poll] /\ poll'[m] = NotPolling
          /\ open' \in [Managers -> BOOLEAN] /\ ~open'[m]
          /\ \A n \in Managers \ {m} : poll'[n] = poll[n] /\ open'[n] = open[n]
      BY <1>0, <2>1, NotPollingFields DEF HolderTypes
    <2>3. HolderTypes'
      BY <1>0, <2>1, <2>2 DEF HolderTypes
    <2>4. \A n \in Managers \ {m} : Bystander(n)
      BY <2>1, <2>2 DEF Bystander
    <2>5. Dated(m)' /\ Registered(m)' /\ Registering(m)'
      BY <1>0, <2>1, <2>2, NotPollingFields
         DEF HolderOf, Dated, Known, Registered, Registering
    <2>6. Polling(m)' /\ Acknowledged(m)' /\ Paused(m)'
      BY <1>0, <2>1, <2>2, NotPollingFields
         DEF HolderOf, Polling, Acknowledged, Paused, Quiet, Exposed
    <2> QED
      BY <1>0, <2>3, <2>4, <2>5, <2>6, OneManager DEF HolderOf
  <1> QED
    BY <1>1, <1>2, <1>3, <1>4, PollsIdle DEF Synchronize

\* Calls, closing and dying.
LEMMA CallsHolders ==
  ASSUME SandboxInv, NEW m \in Managers,
         \/ Admit(m) \/ (\E b \in active[m] : CallEnds(m, b))
         \/ Closed(m) \/ Close(m) \/ Crash(m)
  PROVE  HolderInv'
  <1>0. /\ IntentTypes /\ avail \in Availability /\ avail.binding # Unbound
        /\ HolderInv /\ HolderTypes /\ HolderOf(m) /\ Known(NoSnapshot)
        /\ poll \in [Managers -> Poll] /\ avail.binding \in Nat
    BY HolderByManager, NoSnapshotKnown
       DEF SandboxInv, IntentInv, IntentTypes, HolderTypes, Availability
  <1>c. NoConnection \in [binding: Nat, connection: Nat] /\ NoConnection.binding = Unbound
    BY DEF NoConnection, Unbound
  <1>1. CASE Admit(m)
    <2>1. /\ status[m] = "up" /\ open[m]
          /\ active' = [active EXCEPT ![m] = @ \cup {connected[m].binding}]
          /\ UNCHANGED <<claim, avail, holders, status, op, poll, local, open, connected>>
      BY <1>1 DEF Admit, stateVars
    <2>2. connected[m].binding \in Nat
      BY <1>0 DEF HolderTypes
    <2>3. /\ active' \in [Managers -> SUBSET Nat]
          /\ active'[m] = active[m] \cup {connected[m].binding}
          /\ \A n \in Managers \ {m} : active'[n] = active[n]
      BY <1>0, <2>1, <2>2 DEF HolderTypes
    <2>4. HolderTypes'
      BY <1>0, <2>1, <2>3 DEF HolderTypes
    <2>5. \A n \in Managers \ {m} : Bystander(n)
      BY <2>1, <2>3 DEF Bystander
    <2>6. Dated(m)' /\ Registered(m)' /\ Registering(m)'
      BY <1>0, <2>1, <2>3 DEF HolderOf, Dated, Known, Registered, Registering
    <2>7. Polling(m)' /\ Acknowledged(m)' /\ Paused(m)'
      BY <1>0, <2>1, <2>3 DEF HolderOf, Polling, Acknowledged, Paused, Quiet, Exposed
    <2> QED
      BY <1>0, <2>4, <2>5, <2>6, <2>7, OneManager DEF HolderOf
  <1>2. CASE \E b \in active[m] : CallEnds(m, b)
    <2> PICK b \in active[m] : CallEnds(m, b)
      BY <1>2
    <2>1. /\ active' = [active EXCEPT ![m] = @ \ {b}]
          /\ UNCHANGED <<claim, avail, holders, status, op, poll, local, open, connected>>
      BY DEF CallEnds, stateVars
    <2>2. /\ active' \in [Managers -> SUBSET Nat] /\ active'[m] = active[m] \ {b}
          /\ \A n \in Managers \ {m} : active'[n] = active[n]
      BY <1>0, <2>1 DEF HolderTypes
    <2>3. HolderTypes'
      BY <1>0, <2>1, <2>2 DEF HolderTypes
    <2>4. \A n \in Managers \ {m} : Bystander(n)
      BY <2>1, <2>2 DEF Bystander
    <2>5. Dated(m)' /\ Registered(m)' /\ Registering(m)'
      BY <1>0, <2>1, <2>2 DEF HolderOf, Dated, Known, Registered, Registering
    <2>6. Polling(m)' /\ Acknowledged(m)' /\ Paused(m)'
      BY <1>0, <2>1, <2>2 DEF HolderOf, Polling, Acknowledged, Paused, Quiet, Exposed
    <2> QED
      BY <1>0, <2>3, <2>4, <2>5, <2>6, OneManager DEF HolderOf
  <1>3. CASE Closed(m)
    <2>1. /\ status[m] = "closing" /\ status' = [status EXCEPT ![m] = "down"]
          /\ holders' = ReleaseIdleHolders(m)
          /\ local' = [local EXCEPT ![m] = NoSnapshot]
          /\ connected' = [connected EXCEPT ![m] = NoConnection]
          /\ UNCHANGED <<claim, avail, op, poll, open, active>>
      BY <1>3 DEF Closed
    <2>2. /\ status' \in [Managers -> {"up", "closing", "down"}]
          /\ local' \in [Managers -> Availability] /\ local'[m] = NoSnapshot
          /\ connected' \in [Managers -> [binding: Nat, connection: Nat]]
          /\ connected'[m] = NoConnection
          /\ \A n \in Managers \ {m} :
               status'[n] = status[n] /\ local'[n] = local[n] /\ connected'[n] = connected[n]
      BY <1>0, <1>c, <2>1, IdleFields DEF HolderTypes
    <2>3. NoHolder \in Holder /\ NoHolder.binding = Unbound
      BY DEF NoHolder, Holder, Unbound, Unacknowledged
    <2>4. holders' = holders \/ (active[m] = {} /\ holders' = [holders EXCEPT ![m] = NoHolder])
      BY <2>1 DEF ReleaseIdleHolders, HandleIdle
    <2>5. /\ holders' \in [Managers -> Holder]
          /\ holders'[m] = holders[m] \/ (active[m] = {} /\ holders'[m] = NoHolder)
          /\ \A n \in Managers \ {m} : holders'[n] = holders[n]
      BY <1>0, <2>3, <2>4 DEF HolderTypes
    <2>6. HolderTypes'
      BY <1>0, <2>1, <2>2, <2>5 DEF HolderTypes
    <2>7. \A n \in Managers \ {m} : Bystander(n)
      BY <2>1, <2>2, <2>5 DEF Bystander
    <2>8. ~open[m] /\ op[m].pc = "idle"
      BY <1>0, <2>1 DEF HolderOf, Registered, Registering
    <2>9. Dated(m)'
      BY <1>0, <1>c, <2>1, <2>2, <2>3, <2>5 DEF HolderOf, Dated, Known, Unbound
    <2>10. Registered(m)' /\ Registering(m)'
      BY <1>0, <1>c, <2>1, <2>2, <2>3, <2>5, <2>8, IdleFields
         DEF HolderOf, Registered, Registering
    <2>11. Polling(m)' /\ Acknowledged(m)' /\ Paused(m)'
      BY <1>0, <2>1, <2>3, <2>5, <2>8
         DEF HolderOf, Polling, Acknowledged, Paused, Quiet, Exposed
    <2> QED
      BY <1>0, <2>6, <2>7, <2>9, <2>10, <2>11, OneManager DEF HolderOf
  <1>4. CASE Close(m)
    <2>1. /\ op[m] = Idle /\ status' = [status EXCEPT ![m] = "closing"]
          /\ open' = [open EXCEPT ![m] = FALSE]
          /\ poll' = [poll EXCEPT ![m] = NotPolling]
          /\ UNCHANGED <<claim, avail, holders, op, local, connected, active>>
      BY <1>4 DEF Close, stateVars
    <2>2. /\ status' \in [Managers -> {"up", "closing", "down"}]
          /\ poll' \in [Managers -> Poll] /\ poll'[m] = NotPolling
          /\ open' \in [Managers -> BOOLEAN] /\ ~open'[m]
          /\ \A n \in Managers \ {m} :
               status'[n] = status[n] /\ poll'[n] = poll[n] /\ open'[n] = open[n]
      BY <1>0, <2>1, NotPollingFields DEF HolderTypes
    <2>3. HolderTypes'
      BY <1>0, <2>1, <2>2 DEF HolderTypes
    <2>4. \A n \in Managers \ {m} : Bystander(n)
      BY <2>1, <2>2 DEF Bystander
    <2>5. Dated(m)' /\ Registered(m)' /\ Registering(m)'
      BY <1>0, <2>1, <2>2, NotPollingFields, IdleFields
         DEF HolderOf, Dated, Known, Registered, Registering
    <2>6. Polling(m)' /\ Acknowledged(m)' /\ Paused(m)'
      BY <1>0, <2>1, <2>2, NotPollingFields
         DEF HolderOf, Polling, Acknowledged, Paused, Quiet, Exposed
    <2> QED
      BY <1>0, <2>3, <2>4, <2>5, <2>6, OneManager DEF HolderOf
  <1>5. CASE Crash(m)
    <2>1. /\ status' = [status EXCEPT ![m] = "down"]
          /\ op' = [op EXCEPT ![m] = Idle]
          /\ poll' = [poll EXCEPT ![m] = NotPolling]
          /\ local' = [local EXCEPT ![m] = NoSnapshot]
          /\ open' = [open EXCEPT ![m] = FALSE]
          /\ connected' = [connected EXCEPT ![m] = NoConnection]
          /\ UNCHANGED <<claim, avail, holders, active>>
      BY <1>5 DEF Crash, stateVars
    <2>2. /\ status' \in [Managers -> {"up", "closing", "down"}]
          /\ op'[m] = Idle
          /\ poll' \in [Managers -> Poll] /\ poll'[m] = NotPolling
          /\ \A n \in Managers \ {m} :
               status'[n] = status[n] /\ poll'[n] = poll[n] /\ op'[n] = op[n]
      BY <1>0, <2>1, NotPollingFields DEF HolderTypes, IntentTypes
    <2>3. /\ local' \in [Managers -> Availability] /\ local'[m] = NoSnapshot
          /\ connected' \in [Managers -> [binding: Nat, connection: Nat]]
          /\ connected'[m] = NoConnection
          /\ open' \in [Managers -> BOOLEAN] /\ ~open'[m]
          /\ \A n \in Managers \ {m} :
               local'[n] = local[n] /\ connected'[n] = connected[n] /\ open'[n] = open[n]
      BY <1>0, <1>c, <2>1, IdleFields DEF HolderTypes
    <2>4. HolderTypes'
      BY <1>0, <2>1, <2>2, <2>3 DEF HolderTypes
    <2>5. \A n \in Managers \ {m} : Bystander(n)
      BY <2>1, <2>2, <2>3 DEF Bystander
    <2>6. Dated(m)'
      BY <1>0, <1>c, <2>1, <2>2, <2>3, NotPollingFields
         DEF HolderOf, Dated, Known, Unbound
    <2>7. Registered(m)' /\ Registering(m)'
      BY <1>0, <1>c, <2>1, <2>2, <2>3, IdleFields DEF HolderOf, Registered, Registering
    <2>8. Polling(m)' /\ Acknowledged(m)' /\ Paused(m)'
      BY <1>0, <2>1, <2>2, <2>3, NotPollingFields
         DEF HolderOf, Polling, Acknowledged, Paused, Quiet, Exposed
    <2> QED
      BY <1>0, <2>4, <2>5, <2>6, <2>7, <2>8, OneManager DEF HolderOf
  <1> QED
    BY <1>1, <1>2, <1>3, <1>4, <1>5

\* The service's answers, and a claim that lapses.
LEMMA AnswersHolders ==
  ASSUME SandboxInv, PromptReplies',
         Lapse \/ (\E r \in wire : Obey(r) \/ Refuse(r)) \/ UNCHANGED vars
  PROVE  HolderInv'
  <1>0. IntentTypes /\ HolderInv
    BY DEF SandboxInv, IntentInv
  <1>1. CASE Lapse
    <2>0. /\ claim \in Managers /\ claim' = Nobody
          /\ op' = [op EXCEPT ![claim] = IF RunsOn(claim) THEN @ ELSE Idle]
          /\ UNCHANGED <<avail, holders, status, poll, local, handleVars>>
      BY <1>0, <1>1 DEF Lapse, IntentTypes
    <2>1. op[claim].pc # "reopen"
      BY <1>0, <2>0, SandboxAssumption DEF PromptReplies, RunsOn, IntentTypes
    <2>2. ASSUME NEW n \in Managers PROVE Bystander(n)
      <3>1. /\ claim' # n /\ op[n].pc # "reopen"
            /\ op'[n] = op[n] \/ op'[n] = Idle
        BY <1>0, <2>0, <2>1, SandboxAssumption DEF HolderInv, Registering, IntentTypes
      <3> QED
        BY <2>0, <3>1, IdleFields DEF Bystander, handleVars
    <2> QED
      BY <1>0, <2>0, <2>2, NobodyTouched
  <1>2. CASE \E r \in wire : Obey(r)
    <2>1. UNCHANGED <<claim, avail, holders, op, status, poll, local, handleVars>>
      BY <1>2 DEF Obey, stateVars
    <2>2. \A n \in Managers : Bystander(n)
      BY <2>1 DEF Bystander, handleVars
    <2> QED
      BY <1>0, <2>1, <2>2, NobodyTouched
  <1>3. CASE \E r \in wire : Refuse(r)
    <2> PICK r \in wire : Refuse(r)
      BY <1>3
    <2>1. /\ UNCHANGED <<claim, avail, holders, status, poll, local, handleVars>>
          /\ op' = [m \in Managers |->
               IF op[m].pc = "sent" /\ op[m].kind = r
                 THEN [op[m] EXCEPT !.pc = "rejected"] ELSE op[m]]
      BY DEF Refuse, stateVars
    <2>2. \A n \in Managers :
            \/ op'[n] = op[n]
            \/ op[n].pc = "sent" /\ op'[n].pc = "rejected"
      BY <1>0, <2>1 DEF IntentTypes, Operation
    <2>3. \A n \in Managers : Bystander(n)
      BY <2>1, <2>2 DEF Bystander, handleVars
    <2> QED
      BY <1>0, <2>1, <2>3, NobodyTouched
  <1>4. CASE UNCHANGED vars
    <2>1. UNCHANGED <<claim, avail, holders, op, status, poll, local, handleVars>>
      BY <1>4 DEF vars, stateVars
    <2>2. \A n \in Managers : Bystander(n)
      BY <2>1 DEF Bystander, handleVars
    <2> QED
      BY <1>0, <2>1, <2>2, NobodyTouched
  <1> QED
    BY <1>1, <1>2, <1>3, <1>4

-----------------------------------------------------------------------------
(***************************************************************************)
(* What holds of one binding, when registrations are answered in time.     *)
(***************************************************************************)

\* No handle is open and nobody is registered.
LEMMA InitHolders ==
  ASSUME Init PROVE HolderInv
  <1>0. IntentTypes /\ avail \in Availability /\ avail.binding # Unbound
    BY InitIntent DEF IntentInv, IntentTypes
  <1>1. NoHolder \in Holder /\ NoHolder.binding = Unbound
    BY DEF NoHolder, Holder, Unbound, Unacknowledged
  <1>2. NoConnection \in [binding: Nat, connection: Nat] /\ NoConnection.binding = Unbound
    BY DEF NoConnection, Unbound
  <1>3. HolderTypes
    BY <1>1, <1>2, IdleFields, NotPollingFields, NewRow DEF Init, HolderTypes
  <1>4. ASSUME NEW m \in Managers PROVE HolderOf(m)
    <2>1. /\ holders[m] = NoHolder /\ poll[m] = NotPolling /\ local[m] = NoSnapshot
          /\ ~open[m] /\ connected[m] = NoConnection /\ active[m] = {} /\ op[m] = Idle
          /\ avail.phase = "running"
      BY NewRow DEF Init
    <2>2. Dated(m)
      BY <1>0, <1>1, <1>2, <2>1, NoSnapshotKnown, NotPollingFields
         DEF Dated, Unbound, Availability
    <2>3. Registered(m) /\ Registering(m)
      BY <1>0, <1>1, <1>2, <2>1, IdleFields DEF Registered, Registering
    <2>4. Polling(m) /\ Acknowledged(m) /\ Paused(m)
      BY <2>1, NotPollingFields DEF Polling, Acknowledged, Paused
    <2> QED
      BY <2>2, <2>3, <2>4 DEF HolderOf
  <1> QED
    BY <1>3, <1>4 DEF HolderInv, HolderOf

\* The invariant of the intent and the holders.
THEOREM SandboxInvariant ==
  ASSUME Len(MaxSequence) = 1
  PROVE  Spec /\ []PromptReplies => []SandboxInv
  <1>1. Init => SandboxInv
    BY InitIntent, InitHolders DEF SandboxInv
  <1>2. SandboxInv /\ PromptReplies' /\ [Next]_vars => SandboxInv'
    <2> SUFFICES ASSUME SandboxInv, PromptReplies', [Next]_vars PROVE SandboxInv'
      OBVIOUS
    <2>1. IntentInv'
      BY IntentStep DEF SandboxInv
    <2>2. HolderInv'
      BY BeginsHolders, StepsHolders, PollsHolders, CallsHolders, AnswersHolders
         DEF Next, ManagerStep
    <2> QED
      BY <2>1, <2>2 DEF SandboxInv
  <1> QED
    BY <1>1, <1>2, PTL DEF Spec

\* "A remote pause is issued only after each persisted holder has closed
\* admission and acknowledged settlement" (_manager_availability.py): while a
\* pause is on its way to the sandbox or has taken effect, no admitted call runs
\* on it, for any number of managers, pauses, lapsed claims and crashes and
\* however late polls are answered, on two conditions.  The sandbox is not
\* recreated, and no claim lapses between the commit of register_holder and
\* its reply.  Both are needed: the model checker shows what happens without.
THEOREM PauseIsQuiet ==
  ASSUME Len(MaxSequence) = 1
  PROVE  Spec /\ []PromptReplies => []PausedWhenQuiet
  <1>1. SandboxInv => PausedWhenQuiet
    <2> SUFFICES ASSUME SandboxInv, "pause" \in wire \/ remote = "paused",
                        NEW m \in Managers
                 PROVE  avail.binding \notin active[m]
      BY DEF PausedWhenQuiet
    <2>1. avail.phase \in {"pausing", "paused", "resuming"} => Quiet(m)
      BY DEF SandboxInv, HolderInv, Paused
    <2>2. avail.phase \in Phases /\ avail.phase # "uncertain"
      BY DEF SandboxInv, IntentInv, IntentTypes, Availability
    <2>3. "pause" \in wire => Pending(avail)
      BY DEF SandboxInv, IntentInv, WireSound
    <2>4. avail.phase \in {"running", "draining"} => remote = "running"
      BY DEF SandboxInv, IntentInv, PhaseIsRemote
    <2> QED
      BY <2>1, <2>2, <2>3, <2>4 DEF Phases, Pending, Quiet
  <1> QED
    BY <1>1, SandboxInvariant, PTL

=============================================================================
