# Tinkerfin in TLA+

A verification project for the parts of tinkerfin in which several processes share
durable state: automation (schedules, executions, engines), messaging (the ledger of a
thread, its producers and followers), the availability of sandboxes, and the tracing
ledger with its writers.

`PROJECT.json` holds the machine-readable side: components, runs, mutants, the map
from definitions to source lines, findings, hazards and theorems. File names below are
those of the package under discussion, `src/packages/<package>/src/<package>/`.

## 1. The system

| Part | State | Operations | What makes it hard |
|---|---|---|---|
| Automation Store (`tinkerfin-automation`: `store.py`, `memory.py`, `sqlalchemy.py`, `_rules.py`) | tasks, executions, work items with a fence and a lease, capacity counters | enqueue, materialise, claim, renew, authorise, interrupt, finish, cancel, resolve, delete | claims that lapse, capacity of work nobody can see, two work items per execution |
| Automation Engine (`engine.py`) | `_owned` asyncio tasks, lifecycle | dispatch, process a claim, renew, reap, close | every `await`: lost claims, calls that fail after they committed, shutdown |
| Automation Service (`service.py`) | none; reads and writes the Store, tells the scheduler | task commands, execution commands, the scheduler's callback | read, write and synchronise are three steps |
| Scheduler (`scheduler.py`) | `_jobs`, one loop | schedule, remove, deliver | one callback's exception ends the loop of all tasks |
| Schedules (`schedules.py`, `policies.py`) | none | next run, missed runs | local time that is skipped or repeated, window boundaries |
| Messaging ledger (`tinkerfin-messaging`: `_messaging_transition.py`, applied by `sqlalchemy.py`, `backend.py`, `redis.py`) | generations, messages, runs with producer fences and leases, retention | prepare, append, publish, settle, finish, cancel, renew, reconcile, clean up | stale references, recovery against settlement, deletion in several transactions |
| Producers and followers (`_message_channel.py`, `_producer_runtime.py`, `_messaging_ledger.py`) | one task per source, a settlement race, a replay cursor | wrap, recover, publish, cancel, follow | a producer that stalls past its lease, a follower that must be told the end |
| Sandbox availability (`tinkerfin-sandbox`: `lifecycle/_manager_availability.py`, `_sql_availability.py`, `_manager_bindings.py`) | an intent row, holder rows, an owner claim; local handles | acquire, pause, resume, recreate, poll, close | a remote request whose reply is lost, holders in other processes |
| Sandbox pool, cleanup, notifications, providers | warm sandboxes, an event queue, remote services | refill, delete, notify | remote I/O |
| Trace ledger (`tinkerfin-tracing`: `_ledger.py`, `sql_store.py`, `durable_store.py`) | generations, facts, leased writers with reserves, checkpoints | open, append, renew, close, delete, save checkpoint | doubtful commits, quotas shared by writers |
| Trace writing and queries (`writing.py`, `tracer.py`, `query.py`) | a bounded queue and a worker per session | submit, force, finish, close, get | everyone waits for one worker; a query reads its own writes |
| Trace capture, projections, Graph index, `follow` | derived data | map, reduce, page | data transformations |
| Agent runtime (`tinkerfin`) | one run's resources, checkpoints, Redis lease locks | start, stream, interrupt, resume, close | cleanup order, lease expiry against a late reply |
| AG-UI adapter, LangGraph store, SQLAlchemy helpers, contracts, native stream | per stream or none | translate, read, write | mostly sequential |
| Studio (`src/apps/studio`) | the example application | HTTP, UI | left aside |

How they interact. *Automation*: the Service of a process writes the Store and then calls
its own scheduler; the scheduler calls the Service back for a due task; that callback
writes queued executions in one Store transaction. The engine of any process claims a work
item, asks the Store to authorise the start, runs the target, and reports the outcome under
its claim. A user cancels or resolves through a Service: the Store is told, and the engine
of that same process, but no other. *Messaging*: `wrap` prepares a run in the ledger and
starts a producer task, which appends what its source yields while another task renews its
lease; followers of any process page through the ledger and wait for its change counters;
whoever observes a lapsed lease commits the loss of the owner. *Sandbox*: managers of one
owner share the availability row; one of them drains, waits until every registered holder
acknowledged, and sends the request; all poll. *Tracing*: the runtime's observations become
facts in a session's queue; its worker appends batches under the Run's leased writer; a
query flushes the sessions of its own Tracer, then loads and saves a projection checkpoint.

What makes each part correct:

* Store: what has to be done has an open work item; a target is started at most
  once; capacity covers everything that may still be running; nothing settled
  changes again; counters are exact and bounds are kept.
* Engine: it does nothing but the Store's contract; two tasks never hold the same
  claim; whatever is unconfirmed keeps its reservation; everything accepted is
  settled or handed to a person.
* Tasks and scheduler: an execution comes from the enabled revision the Store has;
  a wakeup belongs to the schedule; a due task is materialised.
* Schedules: the next run is the first instant after; late wakeups run what the
  policy says, in order and once.
* Messaging: readers see a log that only grows, written by one run at a time whose
  messages are one interval; a source's items are committed once and in order through
  crashes and recoveries; a follower gets exactly its run and is told the end.
* Sandbox: a sandbox is to be paused only when no call is in flight on it, a request never
  to take effect after its phase, a handle to admit calls only on the sandbox and connection
  it registered. The first and the last hold with exceptions, which section 4 shows.
* Tracing: every accepted fact is stored once and in order or its session has failed, a
  Run ends once, every promised terminal fact has room, checkpoints belong to the present
  log, and every call returns.

The hazards behind these, each at its line, are in `PROJECT.json`.

## 2. Modules

| Module | Models | Uses |
|---|---|---|
| `AutomationStore` | executions, work items, capacity, every Store operation on them | |
| `AutomationStoreProofs` | theorems about it | `AutomationStore` |
| `AutomationEngine` | workers, their tasks, targets and callbacks, faults, users | `AutomationStore` |
| `AutomationEngineProofs` | theorems about it, the refinement of the Store | `AutomationEngine`, `AutomationStoreProofs` |
| `AutomationSchedule` | `schedules.py` as operators, with one task's life around them | |
| `AutomationScheduleProofs` | theorems about it | `AutomationSchedule` |
| `AutomationTasks` | task commands, task records, schedulers, materialisation | |
| `AutomationTasksProofs` | theorems about it | `AutomationTasks` |
| `MessageLog` | abstract: what the readers of a thread are promised | |
| `MessagingLedger` | every transition of the messaging ledger, any reference at any time | `MessageLog` |
| `MessagingLedgerProofs` | theorems about it, the refinement of `MessageLog` | `MessagingLedger` |
| `MessagingDelivery` | producers, followers and publishers around the ledger | `MessagingLedger` |
| `MessagingDeliveryProofs` | theorems about it, the refinement of the ledger | `MessagingDelivery`, `MessagingLedgerProofs` |
| `SandboxAvailability` | the managers of one owner's sandbox | |
| `SandboxAvailabilityProofs` | theorems about it | `SandboxAvailability` |
| `TraceLedger` | the changes of the trace ledger | |
| `TraceWriting` | sessions, their batch writers, a query, faults | `TraceLedger` |
| `TraceWritingProofs` | theorems about both | `TraceWriting` |
| `MC...` | instances for TLC | the module of that name |

Operators called "Fault: ..." in a comment are wrong variants of the definition that
follows them; nothing uses them but the mutants of `PROJECT.json`, which replace the
definition by the variant and expect a property to fail.

### AutomationStore

`exec[e]` is `AutomationExecution` reduced to its status, `start_authorized` and two
deadlines; `work[k][e]` is the item of kind `execute` or `expire_interrupt`;
`admitted`, `global_allocated` and `scope_allocated` are the reservations and the
counters. One action is one atomic boundary of the code: the asyncio lock of
`MemoryAutomationStore` or a transaction of `SqlAlchemyAutomationStore`, both of
which apply what `_rules.py` decides. `ClaimWork` is the whole of `claim_work`:
recovery of lapsed leases, the bounded scan in `(available_at, work_item_id)` order,
stale items closed, queue deadlines applied, capacity returned and reserved, and the
first claimable item taken with a new fence.

`ClaimStep` presents *any* fence ever issued at *any* time. The module is therefore
the contract of the Store against arbitrary workers, and the abstract specification
that `AutomationEngine` implements (`StoreSpec` is a property of `engine_safety`, and
theorem `EnginesImplementStore`; the mapping is the identity, since the engine's
state is added to the Store's).

Abstracted: one namespace; token and fence are one; names, inputs, results and errors;
`claim_work` takes one item at a time (a batch is several steps at one instant); the
refresh of the SQL limit columns when `update_task` changes a task's limits; in the order
of items of one instant, `created_at` (`Before` goes on to the item's name).

### AutomationEngine

A member of `tasks` is one `_process_claim` asyncio task: its claim, what it waits for
(`phase`), the status it will finish with, its `cancel_requested` event, and whether
`_owned` still refers to it. `alive` is what the code cannot see, the executions whose
external work may still be going on: a target that is cancelled leaves `alive` only
when it promises `cancellation_is_final`. `invocations` counts calls of `target.run`.

| Code | Action |
|---|---|
| `_dispatch_ready`, `_reap_finished` | `Dispatch`, `Reap` |
| `authorize_start` and the call of the target | `Start`, `StartRefused` |
| `_wait_for_operation`: outcome, deadline, cancellation, renewal | `TargetReturns`, `TargetTimesOut`, `TargetCancelled`, `Renew`, `RenewRefused` |
| the interrupt callback | `CallbackReturns`, `CallbackCut` |
| `_settle_children`, `stop_owned_tasks` | `Stop` into the phases stopping, cutting, giving_up and draining (`Joining`), `ChildJoined`, `CleanupFails` |
| `mark_interrupted`, `finish_execution` | `Mark`, `Finish`, `SettleRefused` |
| `close` | `Close`, `DrainCancel`, `Closed` |
| users | `Enqueue`, `UserCancel`, `UserResolve` |
| faults | `StoreCallFails` (the call may have committed), `DispatchFails`, `Crash`, `Restart` |

A deadline, a cancellation, a failure and a drain all cancel the target or the callback and
then wait for it, without a bound, before the task goes on; its lease is not renewed meanwhile.
`ChildJoined` ends that wait. `CleanupFails` ends it with an error of the child's cleanup, which
replaces the deadline or the cancellation: nothing is recorded, the claim task fails and the
supervisor stops. A child that ignores its cancellation does neither, and its task stays.
`LastRenewal` bounds the instants at which a renewal that was already under way may still commit.

Abstracted: the engine's clock is the Store's; polling and `_wake` only decide when the
supervisor acts; `Dispatch` is atomic, so two dispatches of one engine do not overlap at
their `await`; a target that raises `CancelledError` by itself is not told apart.

### AutomationSchedule

`next_run_after`, `materialize_schedule` and `_latest_interval_due` as operators over
integers. A zone is the map from instants to local wall-clock values, with gaps and
repetitions, and the compiled Cron fields are sets of days and minutes, so the search of
the code (by local value, from the whole local day of `after`) is kept. The reference is
`Instants(s)`, the set of instants at which a schedule runs. The bounded scan of late
instants is a recursive function of the instants it may still collect.

### AutomationTasks

A command is `Begin` (it read the task and made the replacement), `Commit` or `Conflict`
(one transaction with the revision check), and `Sync` (its own process's scheduler is
told); the callback is `CallbackRead`, `CallbackWrite` (`materialize_task`) and
`CallbackSync`. Nothing ties the steps together in the code, and nothing does here.
`Retry` repeats a committed command: the Store returns the record kept for its
`request_id` and the Service synchronises with that. A schedule is the set of its
instants. `MaxTime`, the last instant, stands for all later ones. `Restart` is a new
process's `_sync_all_tasks`, taken as one step. `CallbackRead` reads a task that is
no longer due and removes its job in one step, where the code awaits in between; a delivery whose
materialisation committed and then raised is left out.

### MessageLog and MessagingLedger

`MessageLog` has five variables: the generation, whether it is open, the entries readers can
see, the run that writes, and the outcome of every run. `MessagingLedger` has the rows of
`_sql_schema.py` instead and one action for each transition of `_messaging_transition.py`:

| Code | Action |
|---|---|
| `_resolve_prepare_run` | `PrepareInNewGeneration`, `PrepareNewRun`, `PrepareRecovers`, `PrepareSettlesLostRun`, `PrepareAttaches` |
| `_resolve_append_message` | `AppendMessage`, `PublishMessage` |
| `_resolve_begin_settlement`, `_resolve_finish_run` | `BeginSettlement`, `FinishRun` |
| `_resolve_request_cancellation` | `RequestCancellation` |
| `_resolve_renew_producer_ownership`, `_resolve_reconcile_producer_ownership` | `LeaseExpires` and its absence, `ReconcileOwnership` |
| `_resolve_begin_generation_cleanup`, `_purge`, `_resolve_finish_generation_cleanup`, `_reclaim_expired` | `BeginCleanup`, `Purge`, `FinishCleanup`, `ReclaimExpired` |

One action is one atomic boundary: the SQL transaction under the capacity row's lock or the
channel's asyncio lock of the memory backend. A reference is a generation and a fence, and
any that was ever issued is presented at any time, so the ledger's properties assume nothing
of producers. `PromisedLog` maps a generation that is not active to a closed, empty log: the
several transactions in which a generation is sealed, purged and finished are one `Close`.

Abstracted: one channel, thread and codec; payloads, their digests and the quota in bytes;
clocks are events. The Redis backend decides by the same rules in scripts and is not modelled.

### MessagingDelivery

A producer is one call of `wrap` or `wrap_recoverable`: it prepares, opens its source
(`SourceReady`, `PreflightFails`), commits items (`AppendNext`), stops because the source ends
or fails, the worker shuts down or its renewal is rejected, claims the settlement, settles by
the cancel callback or plainly, commits the tail item and finishes. The cancellation watcher
and the producer race for the settlement (`WatcherClaims`, `ClaimSettlement`). `Crash` loses
the process. A follower binds, reads pages (`FollowPage`), commits the loss of an owner it
observes (`FollowReconciles`) and waits for a change of the counters it read with its page
(`FollowWakes`). The recovered source resumes after the item of the ledger's checkpoint.

### SandboxAvailability

`avail` is the intent row with its sequence, `holders` the registrations, `claim` the owner
claim, `remote` and `wire` the service and the requests that have not taken effect, and per
manager its operation, its local snapshot, its handle, its calls and its refresh task. A
State call is atomic. A change of the intent compares the row it read and the claim, so the
acquisition, the read and the first change are one step: what comes between only makes it
fail. A request on the wire takes effect, or is refused, at any later time, whether or not
its manager still waits. `CancelIntent` takes back an intent whose request was not sent;
`GiveUp` is every other end of an operation (a timeout, a lost reply, a cancellation, an intent
that could not be taken back) and leaves the phase as it is, as a manager that dies there does.
Nobody else pauses the sandbox, managers do not restart, and the deletion of a binding is
left out.

A manager acts on what State told it before an await in two places, and both are split at the
await. A poll reads the holder rows (`PollReads`) and applies what it read at any later time
(`Ignored`, `Suspend`, `Allow`, `StartRefresh`); the acknowledgement of a drain is a step of
its own. `register_holder` commits in `RegisterHolder` and its reply is used in `Reopen`.
`Lapse` takes the claim from an operation at any point, also between those two. The memory
State, which answers a poll at once, is the case in which nothing comes between the steps.

### TraceLedger and TraceWriting

`TraceLedger` has the open, append, renew, close and delete changes of `_ledger.py` and the
checkpoint's compare and save. Leases are booleans, so a plain renewal is a stutter; a renewal
or append that is proven by its own token may revive a lapsed lease that nobody took. The
fence starts at 1 again after an empty writer was removed; the owner token tells the two apart,
as in the code. An expired writer that is still active keeps its reserve until it is taken over
or its thread is deleted.

`TraceWriting` adds the session (`tracer.py`), its `TraceBatchWriter` (queue, worker, `submit`,
`force`, `aclose`), the doubtful commit of `sql_store.py` (the reply is lost, the change is tried
again, and what is already recorded is recognised), the catch-up of the core projection and one
`Tracer.get`, which flushes the session of its Tracer and answers from a checkpoint. A fact is its
ordinal in its session, so the queue holds, per submission, the ordinal of its last fact. A call begins
and, if it need not wait, ends in one step; the first load of a catch-up is folded into the commit
that causes it. Doubtful commits, calls that fail, leases that lapse under a live session and
crashes are counted by `MaxFaults`; refusals by the rules are free. The delay of a batch, the
queue's bytes, the Graph index, `follow`, projections other than the core one and the capture of
facts are left out, and so are a Store failure in `CatchUpLoads` and `CatchUpSaves` while the
generation is current (its handler is that of the refusal, which is there) and a heartbeat
during the `force` of a closing session.

## 3. Runs

| Run | Question | Bounds |
|---|---|---|
| `store` | are counters exact and bounds kept; is work ever lost, restarted, reopened or over-released? | three executions of one task saved under different limits, two global slots, a scan of two, two claims per item, clock to 2: the third execution waits, a batch exceeds the queue, capacity returns within a claim, a lease lapses and is taken again |
| `engine_safety` | the same under real workers; do they implement the Store? | two engines, two executions (one whose cancellation is final), one fault, shutdown and restart, one slot; the clock ends at 2, when a lease of 2 has lapsed and its work can be claimed again |
| `engine_liveness` | is everything settled, also when a target or callback ignores its cancellation for ever? | two engines, one execution, two faults, clock to 5: leases of 2 are renewed (late renewals come at 3 at the latest) or lapse, and both the queue deadline (2) and the execution deadline (1) pass; the execution of an engine that waits for its target lapses and the other engine finds it |
| `schedule` | do the computations pick from a schedule's instants what they should? | every one-time and interval schedule of a small size; Cron with every set of minutes, in zones that jump forward or back by up to a whole day, three misfire modes, lateness of 0 to 7 |
| `tasks_safety` | can a stale delivery or a paused instant create work? | one task, two processes, all commands, three of them issued, retries, one failed Store call |
| `tasks_liveness` | is a due task materialised? | two clients, four commands, one process lost once, a full queue |
| `tasks_fire_once` | finding 1 | two commands |
| `messaging_ledger` | does the ledger keep what its readers are promised, whoever presents what? | two runs (one recoverable and cancellable), two ids, a log of two (so it is full), two generations (so one is deleted and reopened), fences to 4 |
| `messaging_delivery` | do real producers and followers deliver a run exactly, and does it end? | two producers, one follower, pages of two, a recoverable run of two items and a plain one of one, a publication and a tail, a log of three |
| `sandbox_intent` | are late requests harmless, and is the phase the sandbox's? | a manager that is asked for everything and one that only pauses, a binding with six changes of intent (a pause, a resume, a drain), recreated at any point where nothing is pending, its successor with two; one manager closing or lost, two claims lapsed |
| `sandbox_pause` | finding 2 | two managers asked for everything, a binding that is recreated at once, its successor with three changes of intent, no loss and no lapse |
| `tracing` | are facts stored once, in order, within limits, has every promised end room, are snapshots current, and does every call return? | two sessions of one Run or of two on one thread, three facts and no facts before their terminals, a queue and batch of two, five events and ten bytes in the thread (so reserves refuse facts), two generations, one fault |

`CHECK_DEADLOCK FALSE` everywhere: clocks, claims, fences and generations are bounded and the
system may be idle, so every instance ends. Symmetry is used for interchangeable workers,
in safety runs only.

The bounds are small because the properties concern one execution, run or call against the
others, one claim or fence against the next: two or three of each, one lapse after a renewal,
one recovery and one fault reach every case of the code's conditions. The bounds the constants
name are `MaxTime`, `MaxFence`, `MaxFaults`, `LastEnqueue` and `LastRenewal` of the engine, and of
the sandbox `MaxSequence` (changes of intent of each binding), `MaxLosses`, `MaxLapses` and
`Asked` (what each manager is asked for). In `sandbox_intent` one manager holds a handle and the
other only pauses, which is enough for requests that race; handles do not change the intent. That
the proved properties do not depend on the bounds is what the theorems add.

### Fairness

Engine: weak fairness of the clock, of the supervisor's two acts, of every task's own
steps, and of the host, which closes a failed engine and starts another. The event loop
runs what is ready and the supervisor polls; a host that never restarts a failed engine
gets no promise from the code either. Targets and callbacks need not return by themselves.

Nothing is assumed of what is cancelled either. The code waits for it without a bound: `close()`
says "their cleanup must finish before the engine releases ownership" (`engine.py:227-228`). The
waiting task does not renew its lease, so another engine with a free slot observes that it lapsed
and records the execution as needing attention. What is not promised is that the waiting engine
goes on: it keeps the slot, and its `close()` does not return. With one engine, or when the host
shuts down engines that run, `EverythingSettles` is therefore false, and the run has two and
`Shutdown = FALSE`.

Tasks: weak fairness of the clock, commands in progress, scheduler steps, the restart of
a lost process, and of executions leaving the queue (which is `EverythingSettles` of the
engine). `DueIsMaterialized` is checked for create, pause and run-now; with enabling or
rescheduling it is false (section 4), and a failing Store call in the callback ends the loop.

Messaging: weak fairness of the union of the steps of producers and followers that are ready
and of the expiry of a lease that nobody renews. Each of them runs a finite course, so fairness
of the union suffices. A source that never yields again keeps its producer alive and its lease
renewed; the instance's sources end or fail. Nobody has to clean up, cancel or publish.

Tracing: weak fairness of the union of ready session and query steps, for the same reason.
Nothing is assumed of users, observations or faults.

## 4. Findings

1. `tasks_fire_once`. `update_task` copies `next_run_at` from a task it read before its
   transaction, and a wakeup does not change the revision: an instant that was
   materialised in between comes back and runs again under the new revision's key.
2. `sandbox_pause`. A poll that read its row before a `recreate` and applies it before the new
   binding is registered (`_manager_availability.py:151`, `:213`) finds the old binding on both sides and
   reopens the handle, which already has the new backend: it admits calls on a sandbox for which
   State has no holder. Another manager's drain of that sandbox waits for nobody, and pauses it
   under the call.

Met while modelling, without a run of their own:

* `interrupt_execution` does not look at the status it replaces: a cancellation recorded while
  the engine awaits `mark_interrupted` is overwritten (`_rules.py:166`; `Mark` after `UserCancel`).
* Cancelling an execution between its claim and its start makes `authorize_start` raise
  `ClaimLostError`, which the engine takes for a failure (`engine.py:466`; `StartRefused`).
* The callback of a deleted task raises, and the loop of that process ends for every task
  (`scheduler.py:155`; `CallbackFails`).
* The delivery's and a command's `_sync_task` are not ordered, nor is a repeated command's: the
  older record may be the last one the scheduler hears of (`service.py:805`).
* `_owned` is keyed by execution id, so an engine that claims an execution again after its own
  slow task's lease lapsed no longer joins the older task in `close()` (`engine.py:378`).
* A `catch_up` batch larger than `max_queued_runs` is refused as a whole every minute
  (`service.py:800`).
* `register` stores the reply of `register_holder` and reopens the handle whatever happened during
  the await (`_manager_availability.py:127-131`). If the claim lapses there, another manager's drain is
  acknowledged by this manager's poll, the late reply reopens the handle, and the sandbox is paused
  under a call: `PausedWhenQuiet` with the constants of `MCSandboxIntent.cfg` is violated in this
  way, also when nothing is recreated.
* `synchronize` stores the snapshot of every phase that is not running, its connection generation
  included (`_manager_availability.py:182`). A manager that first hears of a resume from the drain that
  follows it, and sees that drain cancelled, reopens the backend it had before the pause, although
  a new generation means that holders reconnect first (`availability.py:27-28`; `Suspend`, then `Allow`).
* An engine all of whose slots are held by targets that ignore their cancellation settles nothing
  more and never ends `close()` (`_tasks.py:199`). An error of a target's cleanup is not recorded
  as the execution's outcome but ends the supervisor (`engine.py:759`; `CleanupFails`).

## 5. Proofs

The theorems hold for every value of the constants that satisfies the named assumptions:
every number of executions, workers, tasks, runs, producers, followers and managers, every
limit, lease and timeout. TLC evaluates the assumptions in every run. Most invariants are
proved in two layers: every action is shown to have one of a few *shapes* (what it may do to
the state the invariant speaks of), and the invariant is proved once for each shape.

**Store** (`StoreAssumption`: finite executions, limits that are at least 1 where the code requires
it). `IInv` is `TypeOK` and, for each execution, `Coherent`: the joint shape of its
status, its two work items and its admission. The properties of the runs are projections of
it (`IInvImplies`) and none is inductive alone: that an authorised execute item is never
pending needs to know that its execution is admitted and claimed, which needs the shape of
the expiry item, and so on. Each operation touches one execution, except `ClaimWork`,
`Insert` and `Cancel`; `Untouched` disposes of the others, and `RecoveryCoherent` and
`ClaimedItems` split `ClaimWork` into recovery and selection.

* `TypeCorrect`, `WorkNeverLost`, `NoAutomaticRestart`, `UncertainKeepsCapacity`
* `CountersExact`: the counters are the cardinalities of what they count, from `IInv` and
  the facts on finite sets (`ReleaseExact`, `ClaimWorkExact`).
* `ConcurrencyBounded` needs the counters exact: admission compares a counter with the limit, and
  `ClaimWork` reserves after what it returned in the same step. `QueueBounded` counts the queue of a
  task before and after an insertion and shows that nothing else enters a queue.
* `SettledNeverReopens` and `LapseIsFinal` are action properties from `IInv`: a fence is issued
  once, and a claim that is no longer valid would need the item's fence and an unexpired lease back.

**Engine** (`EngineAssumption`). `EInv` adds that an execution that was never created has no fence (`Fresh`),
that every task presents a fence that was issued and no two present the same one
(`TasksSound`), and that an invocation was authorised (`Traced`).

* `EnginesImplementStore`: every step of every engine, user and fault is a Store step or a
  stutter, so all of the Store's theorems hold under the engines.
* `TargetInvokedOnce`, `ClaimsExclude`, `EngineTypeCorrect` follow from `EInv`.
* `UnconfirmedKeepsReservation` needs `AliveGuarded` on top: an execution with external work
  and no resolution is unsettled, and a task whose claim is current will not settle it
  (`Cautious`). The argument: such a task is the only one that can (`ClaimsExclude`), and the
  Store never issues another claim of a started execution (`NoNewClaim`).

**Schedules** (`ScheduleAssumption`: numbers, policies as the code validates them, a horizon behind
the next run of every interval, and zones that repeat only local times they have shown). The last is
what IANA zones do, and it is needed: the Cron search goes in local order, so a zone that showed an
earlier local time for the first time later on would make it find the wrong instant (`ShownInOrder`,
`CronFirst`). `NextIsFirst` says of all three kinds that `next_run_after` returns the least instant
still to come, unless it raises; the invariant is that the wakeup was computed by it without an error.
For the late wakeups, that the recursion of the scan has a solution and what it gathers
(`CollectorExists`, `ScanGathers`) is shown by a least counterexample, since the library's induction
theorems cannot be instantiated; the invariant adds that what ran is in order and not behind the last
wakeup (`LifeInv`).

* `WakeupIsFirst`; `LateRunsFollowPolicy`: skip and latest of an interval by arithmetic
  (`LatestInterval`), latest and catch-up from the scan, with the cardinalities of what is caught up
  (`CatchUpIsProper`). A wakeup that raises runs nothing, and the theorem says nothing of it.

**Tasks** (`TasksAssumption`). `TasksInv` ties the records that are on their way to the one in the
Store: a command's replacement was made from the task's present revision or can no longer be written
(`CommandSound`), a delivery that was read is of the present revision or will be refused
(`DeliverySound`), and the recorded wakeup lies in the task's own schedule, after the instant at which
the task was created or last enabled (`TaskSound`). A step writes no task or one (`NothingWritten`,
`OneTaskWritten`). What `next_run_after` and the misfire policies return is used through lemmas on
least and greatest elements (`LeastExists`, `GreatestExists`), which rest on the well-foundedness of
the naturals.

* `WakeupInSchedule`, `StaleWakeupsAreRefused`, `PauseIsNotCaughtUp`.

**Messaging ledger.** `LedgerInv` is `LedgerTypeOK`, `OneLiveRun`, `FencesIssued` (every fence in
use is below the next one), `Intervals` (intervals lie inside the log, the active run's ends at its
tail, and no other reaches into it) and `RunWindows`. `RunWindows` is not inductive alone: an append
keeps it because the appending run is the active one (`OneLiveRun`) and its interval is the last
(`Intervals`). The proof does not go action by action for every property: lemmas `...Shape` show that
every step has one of seven shapes (a live run is kept, extended or ended, a run begins, a generation
opens, closes or waits), and each property is proved once per shape.

* `LedgerTypes`, `OneLiveRunAlways`, `RunWindowsAlways` are projections of `LedgerInvariant`.
* `NoOwnershipReturns`: fences are issued once and a lease is never given back to a fence.
* `LedgerKeepsPromise`: the refinement of `MessageLog`; each shape is one abstract step or a stutter.

The assumption is `LedgerAssumption`: the cancellable and recoverable runs are runs, and the bounds
are numbers.

**Messaging delivery** (`DeliveryAssumption`: a source has at least one item, a page one message, a
generation one fence; message ids are the items of runs). `DeliveryInv` adds to `LedgerInv`:

* `ProducerSound`: a producer that works presents a generation and a fence that were issued. This is
  what makes its steps steps of the ledger (`DeliveryImplementsLedger`), so that the theorems above,
  `LedgerKeepsPromise` first, hold of the running system (`DeliveryKeepsPromise`);
* `Resumes`: the item before a producer's next one is committed, also after a recovery, because a
  run's checkpoint names a committed item (`RowSound`). Together with the refusal of an id that is
  committed this gives `MessageSound` for every message of the log, hence `ItemsInOrder`, and with
  the flags that open and close publication, `PublicationsInside`;
* `WonSound`: a producer that won the settlement of a cancellation left `settlement_started` set on a
  run that is not running, which no recovery resets (`CanRecover`); a second winner would have to find
  it unset. Hence `CallbackEnteredOnce`;
* `FollowerSound`: what a follower has is the log between its cursors, a page continues it
  (`PageContinues`), and a run that ends does so at the tail, so nothing read before lies beyond it.
  Hence `FollowersAreExact`.

**Sandbox** (`SandboxAssumption`). The invariant has two halves. `IntentInv` concerns the intent
row, the operations and the wire: an operation's snapshot is the row or an older one (`OpSound`),
whoever is about to send the request of the present intent is the only one that announced it and
nothing of it has happened yet (`Announced`), a refused request is off the wire (`Refused`), and
what is on the wire is the request of the pending phase (`WireSound`). It needs nothing of the
holders and is proved for `Spec` (`IntentInvariant`), with `NoRequestIsLate` and
`PhaseAgreesWithRemote`. `HolderInv` concerns registrations, polls and handles: nothing a manager
has is of a later binding than the present one (`Dated`), an open handle is registered for the
binding it serves (`Registered`, `Registering`), an answer on its way to a poll is about a
registration that is still there (`Polling`), who acknowledged the present drain is quiet and has
the drain's own row as its snapshot (`Acknowledged`), and once the pause is announced every
manager is quiet and a running row that a poll still carries is too old to be applied (`Paused`).
The last two are why a late poll does no harm here: rows are compared by sequence. It does harm
when the binding changes, and a late reply to `register_holder` is not compared with anything; so
`HolderInv` and `PauseIsQuiet` are proved under two conditions, a single binding
(`Len(MaxSequence) = 1`) and `[]PromptReplies` (that reply comes while the claim is held). Section
4 shows what happens without them. Polls are late, claims lapse everywhere else, and managers die,
in any number.

**Tracing** (`LimitsAssumption`: finite threads and Runs, a terminal reserve of at least two events of
full size that is below the thread's limits, as the code requires; `WritingAssumption`: sizes and bounds
are numbers, a batch fits the queue). `WritingInv` is inductive; none of its consequences is:

* `LedgerSound`: types, a thread without a generation is empty, writers belong to a live generation,
  `EndsHaveRoom`, and checkpoints are of the present log;
* `SessionsSound`: what a session, its worker and its catch-up still hold fits together;
* `LogSound`: every event was appended in its generation by a session of its Run (`EventSound`), each
  fact after its predecessor (`FactOrdered`), the present owner's events are the Run's last
  (`OwnerIsLast`), and `RunEndsOnce`. A session that lost its Run and got it back would break the last
  without the one before it: the owner token, which is never given out again, is what rules it out;
* `FactsSound`: what is settled is stored, a batch in flight is stored whole or not at all, and nothing
  beyond it is stored. This is where a commit in doubt matters: its repetition finds the batch whole;
* `QuerySound`: a query's snapshot holds what its session had accepted when it began.

A step either appends nothing, and then leaves the facts of every session alone or deletes their thread
(`QuietStep`, `RestStep`), or it appends the owner's events (`AppendStep`).

* `WritingInvariant`, and from it `FactsAreStoredOnceInOrder`, `RunsEndOnce`, `EndsAlwaysHaveRoom`,
  `SnapshotsStayCurrent`.
* `LimitsHold` needs sums. What `SumFunctionOnSet` computes is shown from its recursion by a minimal
  finite set that would contradict it (`MinimalSet`, `IterateExists`), then that a sum takes its elements
  one by one, grows with its summands and changes by the difference of one (`SumTakes`, `SumMonotone`,
  `SumChanges`). Every step takes from the log and the reserves (`LighterFits`) or adds where the code
  found room (`RoomFor`, `AddedFits`); a terminal moves from the reserve to the log, which is why
  `EndsHaveRoom` is needed here as well.

Only model-checked: liveness (`EverythingSettles`, `DueIsMaterialized`, `FollowersEnd`, `CallsReturn`).
Temporal reasoning under fairness, and ENABLED, are out of the prover's reach. Every invariant, action
property and refinement that a passing run checks is stated by a theorem.

## 6. Plan

1. Redis lease lock (`_lease_lock.py`): acquisition with a lost reply, fencing tokens, the renewal
   deadline, release after loss; run ownership (`_run_owner.py`); the Redis messaging backend.
2. Split the engine's `Dispatch` at its `await`.

## 7. Not modelled

The agent runtime, its checkpoints and the AG-UI lineage bind LangGraph, whose behaviour is outside
the repository; what they compute from its events is sequential. Agent tools, SQL schemas and codecs,
provider clients, the AG-UI adapter, the LangGraph store, projections, the Graph index and Studio are
data layout, data transformation, I/O or user interface: they have little shared state and few
interleavings, and most of the repository's lines. The Redis lease lock, run ownership, the warm pool
and the notification queue of sandboxes and the Redis messaging backend have, and are in the plan. See
the notes of the components in `PROJECT.json`.
