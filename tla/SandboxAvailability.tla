------------------------- MODULE SandboxAvailability -------------------------
(***************************************************************************)
(* Pausing and resuming the sandbox of one owner that several managers     *)
(* (processes) hold handles of: the coordination of                        *)
(* lifecycle/_manager_availability.py over the availability row, the       *)
(* holder rows and the owner claim of an OpenSandboxState.                 *)
(*                                                                         *)
(* A State call is one atomic step: a SQL transaction on the locked rows,  *)
(* or a memory method without an await.  A change of the intent compares   *)
(* the whole row it read before and the claim, so acquiring the claim,     *)
(* reading, observing the remote state and the first change are taken      *)
(* together: whatever comes between them only makes the change fail.  The  *)
(* two awaits after which a manager acts on what State told it earlier are *)
(* steps of their own: the read of the holder rows by a poll, and the reply*)
(* to register_holder.                                                     *)
(*                                                                         *)
(* Abstractions.  A binding is its generation.  A claim is the manager     *)
(* that holds it: a manager starts its next operation when the last ended, *)
(* so an operation whose claim lapsed never finds itself claimant again.   *)
(* The remote service keeps one state; a request on the wire takes effect  *)
(* at any later time, or is refused.  Nobody pauses or resumes the sandbox *)
(* but the managers, and a sandbox never fails by itself: PhaseIsRemote    *)
(* shows that the branches for a sandbox found in another state are not    *)
(* taken then.  reconnect is the resume of a sandbox that runs.            *)
(***************************************************************************)
EXTENDS Naturals, Sequences

CONSTANTS
  Managers,     \* processes with a manager of this owner's sandbox
  Asked,        \* bound: what each manager is asked for, of Services
  MaxSequence,  \* bound: for each binding, its intent transitions
  MaxLosses,    \* bound: managers that close or die
  MaxLapses     \* bound: claims that lapse

Nobody == "nobody"
Services == {"get", "pause", "resume", "recreate", "call"}
Unbound == 0
Unacknowledged == 0 \* no drain has sequence 0

ASSUME SandboxAssumption ==
  /\ Nobody \notin Managers
  /\ Asked \in [Managers -> SUBSET Services]
  /\ MaxSequence \in Seq(Nat) /\ MaxSequence # <<>>
  /\ MaxLosses \in Nat
  /\ MaxLapses \in Nat

VARIABLES
  claim,      \* the owner claim: a manager, or Nobody
  avail,      \* the availability row
  holders,    \* each manager's holder row; binding Unbound: no row
  remote,     \* state of the bound remote sandbox
  wire,       \* lifecycle requests sent to it and not yet settled
  status,     \* of a manager: "up", "closing", "down"
  op,         \* the lifecycle operation of a manager
  poll,       \* its synchronize() in progress
  local,      \* the snapshot of its _LocalHolder; binding Unbound: none
  open,       \* its handle admits calls
  connected,  \* binding and connection generation its backend was opened at
  active,     \* bindings on which it has admitted, unfinished calls
  refresh,    \* its last refresh target, and whether that task is not done
  losses,     \* managers that closed or died
  lapses      \* claims that lapsed

stateVars == <<claim, avail, holders>>
remoteVars == <<remote, wire>>
handleVars == <<open, connected, active>>
vars == <<stateVars, remoteVars, status, op, poll, local, handleVars, refresh, losses, lapses>>

-----------------------------------------------------------------------------
\* Records.

Phases == {"running", "draining", "pausing", "paused", "resuming", "uncertain"}

Availability ==
  [binding: Nat, phase: Phases, sequence: Nat, connection: Nat]

NewBinding(b) ==
  [binding |-> b, phase |-> "running", sequence |-> 0, connection |-> 0]
NoSnapshot == NewBinding(Unbound)

Holder == [binding: Nat, acknowledged: Nat]
NoHolder == [binding |-> Unbound, acknowledged |-> Unacknowledged]

Idle == [kind |-> "none", pc |-> "idle", snapshot |-> NoSnapshot]
Operation ==
  [kind: {"none", "pause", "resume", "get", "recreate", "refresh"},
   pc: {"idle", "drain", "dispatch", "sent", "rejected", "connect", "register",
        "reopen"},
   snapshot: Availability]

NoConnection == [binding |-> Unbound, connection |-> 0]
NoRefresh == [target |-> NoConnection, pending |-> FALSE]

NotPolling == [pc |-> "idle", row |-> Unbound, snapshot |-> NoSnapshot]
Poll == [pc: {"idle", "apply", "ack"}, row: Nat, snapshot: Availability]

-----------------------------------------------------------------------------
\* The availability row.

Transitions ==
  [running |-> {"draining", "resuming"},
   draining |-> {"running", "paused", "pausing"},
   pausing |-> {"paused", "running", "uncertain"},
   paused |-> {"resuming", "draining"},
   resuming |-> {"running", "paused", "uncertain"},
   uncertain |-> {}]

\* The intent that follows expected.
NextAvailability(expected, phase, refreshed) ==
  [expected EXCEPT !.phase = phase, !.sequence = @ + 1,
                   !.connection = @ + (IF refreshed THEN 1 ELSE 0)]

HolderMatches(m, snapshot) == holders[m].binding = snapshot.binding

\* Fault: any acknowledgement counts, whatever drain it answered.
AnyAcknowledged(snapshot) ==
  \A m \in Managers : HolderMatches(m, snapshot) =>
    holders[m].acknowledged # Unacknowledged

\* Every holder of this binding acknowledged exactly this drain.
AllHoldersIdle(snapshot) ==
  \A m \in Managers : HolderMatches(m, snapshot) =>
    holders[m].acknowledged = snapshot.sequence

\* change_availability, from the exact snapshot the claimant holds.
ChangeAvailability(expected, phase, refreshed) ==
  /\ avail = expected
  /\ phase \in Transitions[expected.phase]
  /\ phase = "pausing" => AllHoldersIdle(expected)
  /\ expected.sequence < MaxSequence[expected.binding]
  /\ avail' = NextAvailability(expected, phase, refreshed)
  /\ UNCHANGED holders

\* The holder rows after acknowledge_idle of manager m.
AcknowledgeIdle(m, snapshot) ==
  IF snapshot.phase = "draining" /\ avail = snapshot /\ HolderMatches(m, snapshot)
    THEN [holders EXCEPT ![m].acknowledged = snapshot.sequence]
    ELSE holders

-----------------------------------------------------------------------------
\* An operation of a manager, under its owner claim.

Step(m, pc) == op' = [op EXCEPT ![m].pc = pc]
Proceed(m, pc, snapshot) ==
  op' = [op EXCEPT ![m].pc = pc, ![m].snapshot = snapshot]

\* Leave _claim_owner: a stale release cannot unlock a successor.
Finish(m) ==
  /\ op' = [op EXCEPT ![m] = Idle]
  /\ claim' = IF claim = m THEN Nobody ELSE claim

At(m, pc) == status[m] # "down" /\ op[m].pc = pc
Kind(m) == op[m].kind

Pending(snapshot) == snapshot.phase \in {"pausing", "resuming"}
Target(snapshot) == IF snapshot.phase = "pausing" THEN "paused" ELSE "running"

\* Fault: whatever was not sent is taken back to running.
AlwaysRunning(snapshot) == "running"

\* The phase a request that had no effect goes back to.
Original(snapshot) == IF snapshot.phase = "resuming" THEN "paused" ELSE "running"

Starts(m) == status[m] = "up" /\ op[m] = Idle /\ claim = Nobody
Begin(m, kind, pc, snapshot) ==
  /\ kind \in Asked[m] \cup {"refresh"}
  /\ claim' = m
  /\ op' = [op EXCEPT ![m] = [kind |-> kind, pc |-> pc, snapshot |-> snapshot]]

\* Fault: a request without an answer is taken for one that did nothing.
AssumesNoEffect(m) ==
  /\ Starts(m)
  /\ Pending(avail)
  /\ remote = Original(avail)
  /\ ChangeAvailability(avail, Original(avail), FALSE)
  /\ UNCHANGED <<claim, remoteVars, status, op, poll, local, handleVars, refresh>>

\* _confirm_pending, at the start of pause, resume, recreate and delete: only
\* seeing the requested state settles a pending request.
ConfirmPending(m) ==
  /\ Starts(m)
  /\ Asked[m] \cap {"pause", "resume", "recreate"} # {}
  /\ Pending(avail)
  /\ remote = Target(avail)
  /\ ChangeAvailability(avail, Target(avail), Target(avail) = "running")
  /\ UNCHANGED <<claim, remoteVars, status, op, poll, local, handleVars, refresh>>

\* The refresh task finds nothing to do or the sandbox not running.
RefreshEnds(m) ==
  /\ Starts(m)
  /\ refresh[m].pending
  /\ local[m] = avail \/ avail.phase # "running"
  /\ refresh' = [refresh EXCEPT ![m].pending = FALSE]
  /\ UNCHANGED <<stateVars, remoteVars, status, op, poll, local, handleVars>>

\* Every way an operation ends without its effect: a refused precondition, a
\* timeout, a cancellation, a failed call, a lost claim.  The intent and the
\* requests already sent stay as they are.
GiveUp(m) ==
  /\ status[m] # "down"
  /\ op[m].pc \notin {"idle", "reopen"}
  /\ Finish(m)
  /\ refresh' = [refresh EXCEPT ![m].pending = @ /\ Kind(m) # "refresh"]
  /\ UNCHANGED <<avail, holders, remoteVars, status, poll, local, handleVars>>

-----------------------------------------------------------------------------
\* pause.

StartDrain(m) ==
  /\ Starts(m)
  /\ avail.phase = "running"
  /\ ChangeAvailability(avail, "draining", FALSE)
  /\ Begin(m, "pause", "drain", avail')
  /\ UNCHANGED <<remoteVars, status, poll, local, handleVars, refresh>>

\* holders_are_idle, and the change to pausing, which checks them again.
StartPausing(m) ==
  /\ At(m, "drain") /\ claim = m
  /\ ChangeAvailability(op[m].snapshot, "pausing", FALSE)
  /\ Proceed(m, "dispatch", avail')
  /\ UNCHANGED <<claim, remoteVars, status, poll, local, handleVars, refresh>>

\* _settle_failed_drain: nothing was sent, so the intent returns to what it was.
CancelIntent(m) ==
  /\ At(m, "drain") \/ At(m, "dispatch")
  /\ claim = m
  /\ ChangeAvailability(op[m].snapshot, Original(op[m].snapshot), FALSE)
  /\ Finish(m)
  /\ UNCHANGED <<remoteVars, status, poll, local, handleVars, refresh>>

\* The one request; the claim is not looked at again.
Dispatch(m) ==
  /\ At(m, "dispatch")
  /\ wire' = wire \cup {Kind(m)}
  /\ Step(m, "sent")
  /\ UNCHANGED <<stateVars, remote, status, poll, local, handleVars, refresh>>

\* _wait_remote saw the target; record it.  A resumed sandbox is then connected.
Confirmed(m) ==
  /\ At(m, "sent") /\ claim = m
  /\ remote = Target(op[m].snapshot)
  /\ ChangeAvailability(op[m].snapshot, remote, Kind(m) = "resume")
  /\ \/ Kind(m) = "pause" /\ Finish(m)
     \/ Kind(m) = "resume" /\ Proceed(m, "connect", avail') /\ UNCHANGED claim
  /\ UNCHANGED <<remoteVars, status, poll, local, handleVars, refresh>>

\* _restore_rejected: an explicit refusal and the original remote state.
RestoreRejected(m) ==
  /\ At(m, "rejected") /\ claim = m
  /\ remote = Original(op[m].snapshot)
  /\ ChangeAvailability(op[m].snapshot, remote, FALSE)
  /\ Finish(m)
  /\ UNCHANGED <<remoteVars, status, poll, local, handleVars, refresh>>

-----------------------------------------------------------------------------
\* resume, recreate, and the connection they share with get.

\* A drain nobody finishes is reopened; a sandbox that runs is connected.
ResumeRunning(m) ==
  /\ Starts(m)
  /\ \/ avail.phase = "draining" /\ ChangeAvailability(avail, "running", FALSE)
     \/ avail.phase = "running" /\ UNCHANGED <<avail, holders>>
  /\ Begin(m, "resume", "connect", avail')
  /\ UNCHANGED <<remoteVars, status, poll, local, handleVars, refresh>>

StartResuming(m) ==
  /\ Starts(m)
  /\ avail.phase = "paused"
  /\ ChangeAvailability(avail, "resuming", FALSE)
  /\ Begin(m, "resume", "dispatch", avail')
  /\ UNCHANGED <<remoteVars, status, poll, local, handleVars, refresh>>

\* The handle of m takes the backend of binding b.
TakesBackend(m, b) ==
  /\ connected' = [connected EXCEPT ![m] =
       [binding |-> b, connection |-> avail'.connection]]
  /\ open' = [open EXCEPT ![m] = @ /\ local[m].binding = b]

\* recreate, once nothing is pending: commit a new binding.  This manager's
\* handle takes the new backend; nobody else is told.
Recreate(m) ==
  /\ Starts(m)
  /\ ~Pending(avail)
  /\ avail.binding < Len(MaxSequence)
  /\ avail' = NewBinding(avail.binding + 1)
  /\ remote' = "running"
  /\ wire' = {}
  /\ TakesBackend(m, avail.binding + 1)
  /\ Begin(m, "recreate", "register", avail')
  /\ UNCHANGED <<holders, status, poll, local, active, refresh>>

\* get: a handle of this sandbox that admits calls is only checked.
Healthy(m) == open[m] /\ connected[m].binding = avail.binding

Check(m) ==
  /\ Starts(m)
  /\ avail.phase = "running"
  /\ Healthy(m)
  /\ Begin(m, "get", "register", avail)
  /\ UNCHANGED <<avail, holders, remoteVars, status, poll, local, handleVars, refresh>>

\* _connect_existing for get, and for the refresh of a resumed connection.
Connect(m, kind) ==
  /\ Starts(m)
  /\ avail.phase = "running" /\ remote = "running"
  /\ \/ kind = "get" /\ ~Healthy(m)
     \/ kind = "refresh" /\ refresh[m].pending /\ local[m] # avail
  /\ Begin(m, kind, "register", avail)
  /\ UNCHANGED <<avail, holders>>
  /\ TakesBackend(m, avail.binding)
  /\ UNCHANGED <<remoteVars, status, poll, local, active, refresh>>

\* The same for resume, whose claim may have lapsed since.
ConnectResumed(m) ==
  /\ At(m, "connect")
  /\ remote = "running"
  /\ avail.binding = op[m].snapshot.binding
  /\ Step(m, "register")
  /\ UNCHANGED stateVars
  /\ TakesBackend(m, avail.binding)
  /\ UNCHANGED <<remoteVars, status, poll, local, active, refresh>>

Running == avail.phase = "running"

\* register: the local holder is kept before State is asked, and whether or
\* not State accepts.
RegisterFails(m) ==
  /\ At(m, "register")
  /\ Running /\ connected[m].binding = avail.binding
  /\ local' = [local EXCEPT ![m] = avail]
  /\ Finish(m)
  /\ refresh' = [refresh EXCEPT ![m].pending = @ /\ Kind(m) # "refresh"]
  /\ UNCHANGED <<avail, holders, remoteVars, status, poll, handleVars>>

RegisterHolder(m) ==
  /\ At(m, "register")
  /\ claim = m
  /\ Running
  /\ holders' = [holders EXCEPT ![m] = [NoHolder EXCEPT !.binding = avail.binding]]
  /\ local' = [local EXCEPT ![m] = avail]
  /\ Proceed(m, "reopen", avail)
  /\ UNCHANGED <<claim, avail, remoteVars, status, poll, handleVars, refresh>>

\* register_holder answered, or its answer was lost and nothing is reopened.
Reopen(m) ==
  /\ At(m, "reopen")
  /\ \/ /\ local' = [local EXCEPT ![m] = op[m].snapshot]
        /\ open' = [open EXCEPT ![m] = TRUE]
     \/ UNCHANGED <<local, open>>
  /\ Finish(m)
  /\ refresh' = [refresh EXCEPT ![m].pending = @ /\ Kind(m) # "refresh"]
  /\ UNCHANGED <<avail, holders, remoteVars, status, poll, connected, active>>

-----------------------------------------------------------------------------
\* synchronize, by the poll task or inside an operation; _sync_lock admits one.

\* The read of the holder rows; its answer may come when State and this manager
\* have long moved on.
PollReads(m) ==
  /\ status[m] = "up"
  /\ poll[m].pc = "idle"
  /\ holders[m].binding # Unbound
  /\ poll' = [poll EXCEPT ![m] =
       [pc |-> "apply", row |-> holders[m].binding, snapshot |-> avail]]
  /\ UNCHANGED <<stateVars, remoteVars, status, op, local, handleVars, refresh>>

Waits(m) == status[m] = "up" /\ poll[m].pc = "apply"
Row(m) == poll[m].row
Update(m) == poll[m].snapshot

\* The update is about the binding this manager registered, and not older
\* than what it knows.
Applies(m) ==
  /\ Waits(m)
  /\ Row(m) = local[m].binding
  /\ Update(m).binding = local[m].binding
  /\ Update(m).sequence >= local[m].sequence

Ignored(m) ==
  /\ Waits(m) /\ ~Applies(m)
  /\ poll' = [poll EXCEPT ![m] = NotPolling]
  /\ UNCHANGED <<stateVars, remoteVars, status, op, local, handleVars, refresh>>

HandleIdle(m) == active[m] = {}

\* Not running: close admission, and acknowledge a drain once idle.
Suspend(m) ==
  /\ Applies(m) /\ Update(m).phase # "running"
  /\ open' = [open EXCEPT ![m] = FALSE]
  /\ local' = [local EXCEPT ![m] = Update(m)]
  /\ poll' = [poll EXCEPT ![m] =
       IF Update(m).phase = "draining" /\ HandleIdle(m) THEN [poll[m] EXCEPT !.pc = "ack"] ELSE NotPolling]
  /\ UNCHANGED <<stateVars, remoteVars, status, op, connected, active, refresh>>

Acknowledge(m) ==
  /\ status[m] = "up" /\ poll[m].pc = "ack"
  /\ holders' = AcknowledgeIdle(m, poll[m].snapshot)
  /\ poll' = [poll EXCEPT ![m] = NotPolling]
  /\ UNCHANGED <<claim, avail, remoteVars, status, op, local, handleVars, refresh>>

\* Running on the connection this manager knows: reopen.
Allow(m) ==
  /\ Applies(m) /\ Update(m).phase = "running"
  /\ Update(m).connection = local[m].connection
  /\ local' = [local EXCEPT ![m] = Update(m)]
  /\ open' = [open EXCEPT ![m] = TRUE]
  /\ poll' = [poll EXCEPT ![m] = NotPolling]
  /\ UNCHANGED <<stateVars, remoteVars, status, op, connected, active, refresh>>

\* Running on a newer connection: one refresh attempt for each target.
StartRefresh(m) ==
  /\ Applies(m) /\ Update(m).phase = "running"
  /\ Update(m).connection # local[m].connection
  /\ LET target == [binding |-> Update(m).binding,
                    connection |-> Update(m).connection] IN
     refresh' = [refresh EXCEPT ![m] =
       IF ~@.pending /\ @.target # target
         THEN [target |-> target, pending |-> TRUE] ELSE @]
  /\ open' = [open EXCEPT ![m] = FALSE]
  /\ poll' = [poll EXCEPT ![m] = NotPolling]
  /\ UNCHANGED <<stateVars, remoteVars, status, op, local, connected, active>>

Synchronize(m) ==
  \/ PollReads(m) \/ Ignored(m)
  \/ Suspend(m) \/ Acknowledge(m) \/ Allow(m) \/ StartRefresh(m)

-----------------------------------------------------------------------------
\* Calls, closing and losses.

\* _acquire_backend and _release_backend; the call may outlive its process.
Admit(m) ==
  /\ "call" \in Asked[m]
  /\ status[m] = "up" /\ open[m]
  /\ active' = [active EXCEPT ![m] = @ \cup {connected[m].binding}]
  /\ UNCHANGED <<stateVars, remoteVars, status, op, poll, local, open, connected, refresh>>

CallEnds(m, b) ==
  /\ b \in active[m]
  /\ active' = [active EXCEPT ![m] = @ \ {b}]
  /\ UNCHANGED <<stateVars, remoteVars, status, op, poll, local, open, connected, refresh>>

Loss == losses < MaxLosses /\ losses' = losses + 1

\* aclose: polling stops once the operations are done, and handles close.
Close(m) ==
  /\ status[m] = "up" /\ op[m] = Idle
  /\ Loss
  /\ status' = [status EXCEPT ![m] = "closing"]
  /\ open' = [open EXCEPT ![m] = FALSE]
  /\ poll' = [poll EXCEPT ![m] = NotPolling]
  /\ refresh' = [refresh EXCEPT ![m] = NoRefresh]
  /\ UNCHANGED <<stateVars, remoteVars, op, local, connected, active>>

\* release_idle_holders: a registration with unsettled work stays.
ReleaseIdleHolders(m) ==
  IF HandleIdle(m) /\ HolderMatches(m, local[m])
    THEN [holders EXCEPT ![m] = NoHolder] ELSE holders

\* Closing waits for the calls of the current backend only.
Closed(m) ==
  /\ status[m] = "closing"
  /\ connected[m].binding \notin active[m]
  /\ status' = [status EXCEPT ![m] = "down"]
  /\ holders' = ReleaseIdleHolders(m)
  /\ local' = [local EXCEPT ![m] = NoSnapshot]
  /\ connected' = [connected EXCEPT ![m] = NoConnection]
  /\ UNCHANGED <<claim, avail, remoteVars, op, poll, open, active, refresh>>

\* The process dies: its claim and its registration stay behind.
Crash(m) ==
  /\ status[m] # "down"
  /\ Loss
  /\ status' = [status EXCEPT ![m] = "down"]
  /\ op' = [op EXCEPT ![m] = Idle]
  /\ poll' = [poll EXCEPT ![m] = NotPolling]
  /\ local' = [local EXCEPT ![m] = NoSnapshot]
  /\ open' = [open EXCEPT ![m] = FALSE]
  /\ connected' = [connected EXCEPT ![m] = NoConnection]
  /\ refresh' = [refresh EXCEPT ![m] = NoRefresh]
  /\ UNCHANGED <<stateVars, remoteVars, active>>

\* A lease that was not renewed in time.  An operation whose next step needs
\* the claim can only give up; any other runs on until it is cancelled.
RunsOn(m) == op[m].pc \in {"dispatch", "connect", "register", "reopen"}
Lapse ==
  /\ claim # Nobody
  /\ lapses < MaxLapses /\ lapses' = lapses + 1
  /\ claim' = Nobody
  /\ op' = [op EXCEPT ![claim] = IF RunsOn(claim) THEN @ ELSE Idle]
  /\ UNCHANGED <<avail, holders, remoteVars, status, poll, local, handleVars, refresh, losses>>

\* The remote service obeys, now or long after the caller gave up.
Obey(request) ==
  /\ request \in wire
  /\ wire' = wire \ {request}
  /\ remote' = IF request = "pause" THEN "paused" ELSE "running"
  /\ UNCHANGED <<stateVars, status, op, poll, local, handleVars, refresh>>

\* It refuses, and a caller that still waits is told.
Refuse(request) ==
  /\ request \in wire
  /\ wire' = wire \ {request}
  /\ op' = [m \in Managers |->
       IF op[m].pc = "sent" /\ op[m].kind = request
         THEN [op[m] EXCEPT !.pc = "rejected"] ELSE op[m]]
  /\ UNCHANGED <<stateVars, remote, status, poll, local, handleVars, refresh>>

-----------------------------------------------------------------------------
Init ==
  /\ claim = Nobody
  /\ avail = NewBinding(1)
  /\ holders = [m \in Managers |-> NoHolder]
  /\ remote = "running" /\ wire = {}
  /\ status = [m \in Managers |-> "up"]
  /\ op = [m \in Managers |-> Idle]
  /\ poll = [m \in Managers |-> NotPolling]
  /\ local = [m \in Managers |-> NoSnapshot]
  /\ open = [m \in Managers |-> FALSE]
  /\ connected = [m \in Managers |-> NoConnection]
  /\ active = [m \in Managers |-> {}]
  /\ refresh = [m \in Managers |-> NoRefresh]
  /\ losses = 0 /\ lapses = 0

OperationBegins(m) ==
  \/ ConfirmPending(m) \/ StartDrain(m) \/ ResumeRunning(m) \/ StartResuming(m)
  \/ Recreate(m) \/ Check(m)
  \/ \E kind \in {"get", "refresh"} : Connect(m, kind)
  \/ RefreshEnds(m)

OperationStep(m) ==
  \/ StartPausing(m) \/ CancelIntent(m) \/ Dispatch(m)
  \/ Confirmed(m) \/ RestoreRejected(m)
  \/ ConnectResumed(m) \/ RegisterHolder(m) \/ RegisterFails(m) \/ Reopen(m)
  \/ GiveUp(m)

ManagerStep(m) ==
  \/ OperationBegins(m) \/ OperationStep(m) \/ Synchronize(m)
  \/ Admit(m) \/ (\E b \in active[m] : CallEnds(m, b))
  \/ Closed(m)

Next ==
  \/ \E m \in Managers : ManagerStep(m) /\ UNCHANGED <<losses, lapses>>
  \/ \E request \in wire : (Obey(request) \/ Refuse(request)) /\ UNCHANGED <<losses, lapses>>
  \/ \E m \in Managers : (Close(m) \/ Crash(m)) /\ UNCHANGED lapses
  \/ Lapse

Spec == Init /\ [][Next]_vars

-----------------------------------------------------------------------------
\* "A remote pause is issued only after each persisted holder has closed
\* admission and acknowledged settlement" (_manager_availability.py:3-5), so no
\* call that a manager admitted runs on the sandbox while a request to pause it
\* is under way or has taken effect: not after a stale acknowledgement, a drain
\* that was cancelled and started again, a poll answered late, or a manager
\* that closed or died with work unsettled.  Two late replies break it: that
\* of a poll that read its row before a recreate, and that of register_holder
\* after the claim lapsed.
PausedWhenQuiet ==
  ("pause" \in wire \/ remote = "paused") =>
    \A m \in Managers : avail.binding \notin active[m]

\* A settled phase means no request is left that could still change the
\* sandbox: a late pause can never hit a sandbox that was declared running.
NoLateRequest == wire # {} => Pending(avail)

\* The phase and the remote state agree whenever nothing is pending.
PhaseIsRemote ==
  avail.phase \in {"running", "draining", "paused"} =>
    remote = IF avail.phase = "paused" THEN "paused" ELSE "running"

=============================================================================
