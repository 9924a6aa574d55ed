# A TLA+ model of fliable

fliable is a BPMN process engine written in Go: it parses process models,
interprets them with tokens, keeps everything in a pluggable store (memory, a
write-ahead journal, SQL), and can stream its journal to a warm standby. This
directory models the parts of it that are hard to test: what survives a crash,
what racing callers can do to one instance, and whether a standby really holds
what the leader had.

## The system

| Part | State it keeps | Operations | What is hard |
|---|---|---|---|
| Journal store (`store/journal.go`) | memory maps; `snapshot.json`; `journal.jsonl`; line counter | put, delete, claim, purge, append history, compact, open | memory and file change in two steps under two locks; crashes between any two writes; torn lines; sticky write errors |
| Token runtime (`engine/exec.go`, `activity.go`, `events.go`, `multiinstance.go`, `agent.go`, `guard.go`) | an instance's tokens with their scopes and loops; side records (tasks, external tasks, agent jobs, jobs, subscriptions, incidents) | step, leave, join, enter and leave scopes, loop, trigger events, throw errors, retry | scope clean-up, joins, interrupting events, loops cut short, races for one activity |
| Engine API (`engine/engine.go`, `migrate.go`) | stored instances, one lock per instance | start, complete, fail, correlate, resolve, cancel, suspend, resume, set variables, migrate; reconcile at start | records are read before the lock; several store writes per operation |
| Call activities and housekeeping (`activity.go`, `engine.go`, `housekeeping.go`) | parent and child instances, the continuations of a thread, retention | start, notify, cancel, reconcile, sweep, purge | every hand-over between two instances is outside any lock; a crash loses it |
| Scheduler (`engine/scheduler.go`) | due jobs | claim, execute, requeue, reschedule | a claimed job is deleted before it is executed |
| Deployment, correlation, webhooks (`engine.go`, `rest/webhook.go`) | definitions, start subscriptions and timer starts, the idempotency window | deploy, correlate, broadcast, timer start, deliver a webhook event | sequences of store operations without a lock; redelivery |
| Replication (`replicate/replicate.go`, `store/replicate.go`) | the sender's channel, batch and sync flag; the follower's memory and files | tap, batch, snapshot, append, reset, promote | full buffers, lost answers, late requests, overlap of snapshot and stream |
| SQL store (`store/sqlstore.go`) | rows; a cached history sequence per replica | fetch and lock, claim due jobs, append history, put | several replicas on one database, locks that expire, late answers |
| BPMN model (`bpmn/`) | immutable element graph | parse, validate, look up | reachability for inclusive joins |
| Expressions and decisions (`expr/`, `dmn/`) | none | evaluate, match a cell, apply a hit policy | bounds, errors and conversions |
| REST, forms, vault, telemetry | none that the engine reads back | | |

The engine calls the store synchronously; callers (REST handlers, workers,
the scheduler's goroutine) meet at the instance lock. The journal calls the
replication tap under its own lock and never waits for it. The follower is
another process, reached over HTTP. `PROJECT.json` lists every part, the
hazards at the line where each bites, and for each definition the code it
models.

What makes each part correct: an acknowledged store operation survives any
crash; a parked token always has something that will wake it, and a side record
always has its token; a branch continues exactly once; an ended instance stays
ended; a calling instance gets its answer and an abandoned child is cancelled; a
job, a task or an event takes effect once, whoever races for it; the start
triggers of a process are those of its latest version; the standby converges to
the leader and can be promoted at any moment at which it counts as in sync.

## Modules

    DurableStore   what a crash-safe store promises            (abstract)
    Journal        the journal store                           implements DurableStore
    JournalProofs  theorems about Journal, the refinement among them
    ProcessModel   the BPMN graph as constants; what validation guarantees
    Interpreter    the token runtime as operators on a world   extends ProcessModel
    Engine         instance life cycle, callers, migration, crash   extends Interpreter
    MCEngine       small process models for Engine
    Calls          parent and child instances; retention sweep
    SharedStore    replicas and workers on one SQL database
    Intake         deployment, start triggers, correlation, webhooks
    Replication    sender, network, follower
    ExprValues     the values of the expression language
    Expressions    its operators                               extends ExprValues
    DecisionTables hit policies and Evaluate's loop            extends ExprValues
    Decisions      the cells of a table                        extends DecisionTables, Expressions
    MCJournal, MCCalls, MCSharedStore, MCIntake, MCReplication, MCDecisions   for TLC
    InterpreterProofs   what the operators of Interpreter keep; extended by EngineProofs
    CallsProofs, SharedStoreProofs, IntakeProofs, ReplicationProofs, EngineProofs
                   theorems about the module each is named after
    DecisionProofs theorem about DecisionTables

The modules share no variables: each looks at one protocol and takes the rest of
the system as free choices. `Engine` has one instance and every record of it,
`Calls` has several instances and of each only the token that calls; `Engine` has
one process with a memory store, `SharedStore` several with a database; `Intake`
ends where `Engine` begins, at the subscription that is triggered and the
instance that is started.

### Journal, DurableStore

Keys stand for records of all collections, values for their contents. A store
operation is two kinds of steps: `Put`, `Delete`, `Claim`, `Purge` or
`AppendHistory` changes `mem` or `hist` and leaves in `pending` the lines the
operation owes; `WriteLine` appends one of them and, at `CompactEvery` lines,
begins a compaction, which `Compact` also starts on demand. `compactLocked` is
three steps (`WriteSnapshot`, `RenameSnapshot`, `TruncateJournal`), during which
its goroutine holds j.mu, while other goroutines go on changing memory.
`WriteFails`, `SyncFails`, `WriteRefused` and `CompactFails` are the error
returns: memory has changed, the caller gets an error, the items are `unsaved`
until a compaction saves them with the rest of the memory. A writer that has
failed stays so (`writer`) until a compaction opens the file anew; one whose file
was closed and not reopened stays broken until a restart. `Crash` may fall between any two steps;
`TornCrash` cuts a line, or writes it whole but without its newline. `Open` is
`load` and the reopening of the file for appending, without truncation: a line
written behind an unterminated one is glued to it (`glued`), as in the code.

Recovery is a closed form (the last applied line that touches a key, or the
snapshot), which the proofs need; `Load` is the loop of the code, and
`ReplayIsLastLine` says that they agree in every reachable disk state.

`DurableStore` says the same from the callers' side: a record in operation may
be durable with its old or its new value, a settled one is durable, a failed
operation leaves its record in doubt until a checkpoint. `Refinement` is the
refinement under the mapping in `Journal` (`durable` is what recovery would
yield now).

Writers of one record are ordered (`MayStart`): the engine's instance lock
does that for the records in `Serialised`; the promise is about those.

### ProcessModel, Interpreter, Engine

An instance is its process, state, suspended flag and token map. A token has
its element, state, WaitRef, arrived flow, scope (the zipped ScopePath and
ScopeOwners) and attempt counter. Side records are present while they are
open. Ids are numbers that grow, so the oldest active token steps first, as in
`nextActive`.

`Interpreter` gives each function of the runtime as an operator from a world to
a world; `Engine` turns them into actions. An operation takes the instance
lock (`Serve`, `Operate`, `StartInstance`), changes its copy `run`, drains it
(one `Step...` action per kind of element), and stores it (`PutInstance`).
Callers read their record first (`Read`) and the scheduler claims its job first
(`ClaimJob`, which deletes it), so that everything they use may be stale when
they get the lock; `Refuse` is the answer when it is. `Crash` loses the copy and
the callers and keeps the stored instance and the side records; `Restart` is
`reconcile`.

Variables are left out. The outcome of every condition is a free choice in each
step, a failing evaluation included. So is which timers with an expression for
their time fail to evaluate in a step (`Faults`): `createEventWait` then raises an
incident on the token and returns no error, so that the element goes on. A boundary
event's activity parks over the incident's state, an event-based gateway stays at
the incident with the waits of its other targets open, and an event sub-process is
not armed. Message and signal subscriptions are one
kind ("sub"); any open subscription may be correlated. All timers may be due at
any moment. There is one error code.

A multi-instance activity has a coordinator token, its loop state in
`inst.multi`, and iteration tokens with `par` set. The number of items, the
completion condition and failing expressions are free choices. An incident on a
coordinator, once resolved, starts the loop over while iterations of the first
round may still run, and they then count for the second: `again` records that it
happened, and `LoopsAccounted` excepts it. Agent tasks are in-process
(`StepInvokeAgent`) or jobs for workers (`StepAgentTask`); the guard's verdict
and the approval of a result are choices, the token budget is the counter
`spent`. `MigrateInstance` checks all tokens, then maps tokens, scopes, tasks,
jobs and subscriptions; external tasks and incidents keep the old element, as in
the code. `MigrationCrash` stops after some of the record kinds. A job whose
execution fails goes back with one retry less (`RequeueFailedJob`), and a claimed
timer may so meet a migrated instance. A job that the scheduler claims between
`ListJobs` and `PutJob` of a migration is put back and then exists twice, claimed
and stored (`MigrateClaimed`; one job of a migration). Three simplifications: a
plan renames ids in one name space for all element kinds; of the types that
`migrate.go` compares, external, service and agent tasks are one (`BpmnType`), as in
the code, and so are the scripts and decisions that the model counts among them;
the jobs of one kind are listed and written together.

The claimed timer of an event sub-process may fire after the token that owns its
scope has moved on: `eventSubprocessTriggered` then takes the element the token is
at for the scope (`events.go:116`). The new token is nowhere (`Stray`) and stops with
an incident. `ScopesOwned` and `TokensPlaced` speak of all other tokens; the
process `watch` of the run reaches the case.

`ProcessModel` assumes of the process models what `bpmn/validate.go` rejects
otherwise (`ValidModel`); TLC evaluates it for the models of every run.

A weakness that limits `WaitsRecovered`: a timer job that is claimed while a
migration renames its element, or that is renamed alone because a crash cut the
migration short, no longer matches its token. It fails until its retries are used
up and becomes an incident (`requeueFailedJob`), but resolving that incident wakes
no token: `ResolveIncident` activates only tokens that wait for a retry or an
incident. The property therefore speaks of timers at elements that no plan renames
(`Unmigrated`), and of all user tasks and retries.

Granularity: a crash falls between actions. The side-record writes of one
step or one `Serve` happen together; the instance write is an action of its own.
What a crash between two side-record writes of one step could do is therefore
not covered (except in a migration, where it is).

### Calls

An operation changes one instance under its lock and stores it; what it owes to
other instances is a list of continuations (`todo`) that the same thread works off
without a lock: `RunStart`, `RunDrain`, `RunFail`, `RunNotify`, `RunCancel`.
`StartInstance` holds the lock from the first write to the end of the drain
(`Locked`). The retention sweep lists, looks at the parent and purges in separate
steps. `Crash` loses all continuations; `Start` and `Reconcile` look at every active
instance before the API serves. A listing (`Sorted`) gives the ids in ascending order.

The ghost `early` holds the children that nobody will cancel: those whose start
was still a pending continuation when the parent ended or was interrupted
(`CancelInstance` does not find them, and they start afterwards), and those whose
cancellation a crash lost. The code repairs neither; `ChildrenCanceled` is about
all others.

### SharedStore

A statement is an action, a store operation several of them. A worker has one
request at a time at any replica: `FetchScans`, then `FetchLocks` for each row with
the guarded UPDATE of `claimPending`; an answer is `AnswerReads` (the checks on the
row as read), `AnswerLoads` (the replica's instance lock, the instance, the look at
the token), `AnswerPutsRow`, `AppendHistory`, `AnswerStores`. Locks are compared
with `clock`, which `Tick` advances; requests may take any time. `DueScans`,
`DueClaims` and `DueRuns` are `DueJobs`. A dying replica loses requests, lock and
history cache. A fetch keeps what its scan found as a function from task to row, and
works it off in any order.

`excused` records what the code does not exclude: two replicas with the instance
loaded at once ("overlap"), an answer written after its lock had gone to another
worker ("late"), a death between the row's write and the instance's ("crash",
which leaves a finished task with a waiting token). `writers` says which replicas
wrote history; the sequence number is cached per replica, so that two writers
overwrite each other's events. Each property excepts only what it has to.

### Intake

`Deploy`, `PutDefinition`, `DropStartSubscriptions`, `DropStartJobs`,
`RegisterStartTrigger` and `Deployed` are the steps of one deployment; the deletions of one loop
are one step. `DeployFails` is the error return at any of them, as of a timer start
whose expression fails: the definition is stored, the old triggers may be gone and
some of the new ones registered. `Send` lists the matching subscriptions;
`TriggerSubscription` and `StartFromTrigger` work on that list. A subscription has
its token and says whether waking closes what the token waits for (`once`: catch
events, event-based gateways, interrupting events) or leaves it open (`Closed`:
non-interrupting boundary events and event sub-processes). The instance may also
fail to take the event, with the subscription left open, deleted as an orphan, or
closed. `ClaimTimerStart` takes the job out, `ExecuteTimerStart` puts its next
repetition back, which brings the trigger of an old version back when a deployment
came between ("claimed"). `Webhook` looks the event's key up, remembers it and then
delivers.

What spoils the start triggers is recorded in `excused` until a deployment runs
alone: overlapping deployments, a crash in the middle of one, a refused one. The
rest stays: a timer start that was claimed while the triggers were replaced, one
that has run out or was lost with the process ("ended"); a delivery
that fails after the key was remembered ("failed": the repetition is answered 200
and dropped); an entry that expired, was dropped with the full window, or was lost
by a restart ("forgotten": the event may be delivered again).

### Expressions, Decisions

The operators of `expr/eval.go` on parsed expressions: truth, loose and strict
equality, comparison, `in`, negation, short-circuit `&&` and `||`, errors. The
loop of `Evaluate` is a state machine, one step per rule; `Meaning` says what each
hit policy means without the loop. A cell is the tree its author had in mind.
`matchUnaryTest` has only the text and decides by what that begins and ends with,
by a `..` in it and by its commas at the top level; `Begins`, `Ends`, `Dots` and
`SplitOff` give these for a tree, and `MatchUnaryTest` follows the code. `CellMeans` is what
the cell means. They agree on every cell but the `Ambiguous` ones: a list, or an
expression of several operands, that begins and ends like one negation or one range
(`not(? > 5) and not(? < 2)`; `[1..2], max(3, 4)`), `not (` with a space before
anything but a test in `?`, and a text with a `?` in it, which is replaced like any
other. Some of these fail with an error and some give a wrong answer without one; the
worst is a list that gives the opposite answer.
To `DecisionTables` the input columns and a rule's cells are what they evaluated
to (`inputs`, `match`, `out`), which may be an error. `Expressions` and `Decisions` have
RECURSIVE operators and are for TLC only; `DecisionTables` has none and is proved
about, with `Stringify` as a parameter (`Text`) that TLC gets from `Expressions`.

### Replication

`Write` changes the leader's memory and owes the line; `Tap` hands it to the
channel or, when the channel is full, drops it and signals an overrun. The
sender's loop is its select (`TakeOverrun`, `TakeLine`, `Tick`, `Close`), each
flush ending in a post that is answered (`PostSucceeds`), lost or refused
(`PostFails`), or given up by the client's timeout while the handler runs on
(`PostTimesOut`, then `LateAnswer`). The follower resets in three steps
(memory, snapshot file, journal) and applies lines one by one, skipping history
events at or below its high-water mark. At `CompactEvery` lines it compacts its own
journal in the same two last steps (`RenameSnapshot`, `TruncateJournal`), still
holding its lock. A handler may fail anywhere: a line that reached memory and not
the file leaves a writer that fails every later line, until a reset or a compaction
opens the file anew; a file that was closed and could not be opened again
(`writer = "closed"`) makes every later reset fail too (`Refused`), until a restart.
`FollowerCrash` recovers it from its
files: `Replay` is load's loop over the journal, state by state.

The history variable `clean` says that no line was dropped and no post given
up. With a dropped line (run `replication_overflow`) or a request that is served
after it timed out, the follower can end behind the leader with nobody noticing;
the properties that promise completeness carry `clean` as their proviso.
`PromotionComplete` is exact except between the rename and the truncation of the
follower's own compaction, where the journal repeats what the snapshot has: records
are the same and no event is missing, but events come back twice. The liveness
properties except a follower whose journal stays closed.

## Runs

| Run | Bounds | Result |
|---|---|---|
| `journal` | 2 goroutines, 2 keys, 1 value (and absence), 2 history events, compaction every 2 lines, 1 crash or failure; torn writes | passes, 517,000 states |
| `journal_torn` | 2 crashes, 1 history event | violated |
| `engine` | 10 processes, 2 clients, 3 to 6 requests, 1 crash, 2 attempts, 2 items, 1 migration plan | passes, 515,000 states |
| `engine_join` | process `early`, no crash | violated |
| `engine_crash` | process `review`, 1 crash | violated |
| `engine_retries` | process `race`, no crash | violated |
| `replication` | 1 key and the history, buffer 2, batch 2, compaction every 2 lines, 3 writes, 1 fault; fairness | passes, 482,000 states |
| `replication_overflow` | buffer 1, 2 writes, no fault | violated |
| `calls` | 2 clients, 3 instance ids, calls nested twice, 1 crash, batch 3 | passes, 235,000 states |
| `workers` | 2 replicas, 2 workers, 2 tasks, 1 job, locks of 1 tick, 2 ticks, 2 attempts, 4 requests, 1 death | passes, 996,000 states |
| `intake` | 2 clients, 2 designs, 3 subscriptions of 2 tokens, 2 correlation keys, 2 events, window of 1, cycle of 2, 1 crash; up to 3 requests, of which at most 2 sends | passes, 2,966,000 states |
| `decisions` | all tables of up to 3 rules over 4 outputs (2 rules with two columns), cells over texts and over 0..3, all pairs of 13 expressions | passes, 105,000 states |

The bounds are where the interesting cases begin. Two writers and two keys let
a compaction fall between another operation's memory change and its line, and
let a claim be half written; the instance with 2 crashes and 1 history event
was checked as well (2.39 million states). Up to six requests by two clients reach a
completion, a timer and an error racing for one activity, an incident resolved
after a retry, an interrupted sub-process with an event sub-process inside,
late calls on an ended instance, a loop interrupted between its iterations, an
approval rejected, a timer expression that fails at a gateway, a timer that
outlives a migration, and one claimed while the migration runs. Three ids nested twice
give a chain of calls as well as two calls of one parent in turn, beside the sweep.
Two ticks with locks of one let a lock expire, be taken by the other worker and meet
the first one's late answer. Three deployments put a deployment, a timer start, a
failing timer expression and a crash between any two steps of another. Three writes
with a buffer and a batch of two reach half-applied batches, overlapping resyncs and
a fault within the follower's compaction or reset; the safety properties were checked
with 2 faults as well (1.90 million states).

What the passing runs check:

* `journal`: `Durable` and `HistoryKept` (acknowledged records and events survive
  a crash anywhere), `ReplayIsLastLine`, `Refinement` of `DurableStore`, `TypeOK`.
* `engine`: `NoSilentHang` (every parked token has what will wake it),
  `WaitsRecovered` (also after a crash: user tasks, retries, and timers at elements
  that no migration renames),
  `NoOrphanRecords` (no open record outlives its token's stay),
  `ScopesOwned`, `LoopsAccounted` (a loop and its iterations live and die
  together), `TokensPlaced` (migration), `NoDoubleArrival`, `EndIsFinal`, `TypeOK`.
* `replication`: `StreamComplete` (follower + lines on their way = leader),
  `HistoryOnce`, `PromotionComplete`, `TypeOK`, and under fairness
  `ResyncCompletes` and `Converges`.
* `calls`: `CallHasAnswer` (somebody always owes a waiting parent its answer),
  `ChildrenCanceled`, `PurgeSafe` (no sweep removes a child that reconcile may
  need), and under fairness `CallAnswered` and `PurgedEventually`, `TypeOK`.
* `workers`: `JobOnce`, `LockHonoured`, `AppliedOnce`, `RowMatchesToken` (a task is
  pending exactly as long as its token waits), `HistoryComplete`, `TypeOK`.
* `intake`: `WokenOnce` (a token that waits once is woken once, whatever
  subscription of it is found), `EventOnce`, `AckedIsDelivered`,
  `TriggersMatch` (start triggers are those of the latest version), `TypeOK`.
* `decisions`: `HitPolicyMeaning`, `CellMeaning`, `OperatorLaws`.

What the violated runs show (details in `PROJECT.json`, "findings"):

* `journal_torn`: the README says that a torn final line is dropped. It is
  skipped at load but stays in the file, and the next acknowledged line is glued to it.
* `engine_join`: an inclusive join is looked at only when a token arrives, so it
  does not fire when the last token that could reach it ends elsewhere.
* `engine_crash`: an instance that was stored but not yet drained when the
  process died has an active token, which `reconcile` does not look at.
* `engine_retries`: the documentation, and the comment of `ResolveIncident`, promise
  a fresh retry budget to the element of a resolved incident; the attempt counter
  stays where it was, so the next failure is an incident at once.
* `replication_overflow`: after an overflow the resync's snapshot is followed by
  an older line that was still queued; its successor was the dropped one.

Four more departures have no run of their own; the properties they would break
except them by name:

* A timer of an event sub-process that was claimed before its scope was left starts
  the sub-process inside whatever element the owner is at (`events.go:116`), although
  `docs/bpmn-coverage.md` says it is armed while its parent scope is active: `Stray`
  in `ScopesOwned` and `TokensPlaced`; the process `watch` reaches it.
* A follower that closed its journal and could not open it again refuses every later
  snapshot until it is restarted (`store/replicate.go:109-115`): `writer = "closed"` in
  `ResyncCompletes` and `Converges`.
* `replicate.go:91-92` says that overlap is deduplicated on the follower; that is so
  for history only, and a queued keyed line takes an up-to-date record back until the
  newer line arrives. `StreamComplete` says that the newer line is on its way.
* The cell `not(3, 2), not(1)` is taken for one negation and does not match 3
  (`dmn/unary.go:27`): `Ambiguous` in `CellMeaning`.

CHECK_DEADLOCK is off where the bounds on requests, writes and faults end every
behaviour; in `calls` it is on, for the sweep never stops.

### Fairness

`Replication!Fairness` is weak fairness of each ready case of the sender's
select, of the ticker, of a writer between its memory change and its line, of a
running handler, and of its answer. Go's select picks among ready cases at random,
so none is ignored for ever, a goroutine that can run does, and the handlers
contain no wait. Nothing is assumed of writes, faults, timeouts and `Close`, and the number of faults
is bounded, as a network that fails for ever does not let anybody converge.

`Calls!Fairness` is weak fairness of every thread's next continuation, of the
sweep, of the restart and of `Reconcile`. A thread runs its continuations in a
loop without waiting for anything but an instance lock, which `StartInstance`
releases after its own next step; the sweep has a ticker; a dead server is
restarted by its supervisor, and crashes are bounded. Nothing is assumed of the
callers: no task need be completed and no incident resolved.

The other modules are checked for safety only. In `Engine`, TLC's
evaluation of ENABLED for the operators of a whole step is too slow for a
fairness condition; `NoSilentHang` is the state form of "something can still
happen to every token".

## Proofs

Every theorem holds for all values of the constants that satisfy the
assumptions named in the component's module: any number of goroutines, keys,
clients, replicas, workers, instances, events, buffers, crashes and faults. The
assumptions say that bounds are numbers, that a size is not zero, and that the
names used as "nobody" (`None`, `NoProc`, `Boot`, `Empty`) are not names of
somebody; `Intake` further needs finitely many waiting instances, `Engine` process
models that pass validation (`ValidModel`), and `DecisionTables` rules that are
sequences of evaluated cells. TLC evaluates all of them
on its instances.

| Module | Theorem | Says |
|---|---|---|
| `JournalProofs` | `Typing` | `[]TypeOK` |
| | `Durability` | `[]Durable` |
| | `HistoryIsKept` | `[]HistoryKept` |
| | `ReplayGivesLastLine` | `[]ReplayIsLastLine` |
| | `JournalImplementsStore` | `Refinement` |
| `SharedStoreProofs` | `SharedStoreTypes` | `[]TypeOK` |
| | `JobsRunOnce` | `[]JobOnce` |
| | `HistoryIsComplete` | `[]HistoryComplete` |
| | `AnswersAreSafe` | the invariant of the next three |
| | `TokensMoveOnce` | `[]AppliedOnce` |
| | `RowsMatchTokens` | `[]RowMatchesToken` |
| | `LocksAreHonoured` | `[]LockHonoured` |
| `IntakeProofs` | `IntakeTypes` | `[]TypeOK` |
| | `InstancesWokenOnce` | `[]WokenOnce` |
| | `EventsDeliveredOnce` | `[]EventOnce` |
| | `AckedAreDelivered` | `[]AckedIsDelivered` |
| | `TriggersMatchLatest` | `[]TriggersMatch` |
| `EngineProofs` | `LockGuardsInstance` | the lock's invariant |
| | `EndedInstancesStay` | `EndIsFinal` |
| | `EngineInvariant` | the invariant of the next two |
| | `EngineTypeCorrect` | `[]TypeOK` |
| | `WaitsAreRecovered` | `[]WaitsRecovered` |
| `CallsProofs` | `CallsAreAccounted` | the invariant of the next four |
| | `CallsTypes` | `[]TypeOK` |
| | `CallsHaveAnswers` | `[]CallHasAnswer` |
| | `ChildrenAreCanceled` | `[]ChildrenCanceled` |
| | `PurgesAreSafe` | `PurgeSafe` |
| `ReplicationProofs` | `ReplicationTypes` | `[]TypeOK` |
| | `PromotionsAreComplete` | `[]PromotionComplete` |
| | `HistoryHappensOnce` | `[]HistoryOnce` |
| | `StreamsAreComplete` | `[]StreamComplete` |
| `DecisionProofs` | `EvaluateMeansPolicy` | `[]HitPolicyMeaning` |

### Journal

`Typing` is about recovery: whatever the file holds, there is exactly one last
applied line for a key, so that what `Open` puts in memory is a value. It also says
that, until something fails, the line counter is the file's length and a compaction
comes in time (`LinesCounted`). `Shape`
(an unterminated line exists, the compactor and the stage agree, and a process
that is down owes nothing) is carried along.

`Durable` alone is not inductive. `DurableInv` adds `OwedAgree` (the line an
operation owes for a serialised key carries the value memory has), `OwedDisjoint`
(no two owed lines concern the same serialised key), `CorruptLast` (as long as
nothing was glued, a line that does not parse is the last one, so that replay
reaches every other), and `SnapshotCurrent` (while a compaction holds j.mu, the
image it has written has the memory's value of every serialised key that no
running operation has changed). `AppendRecovers` and `AppendCorruptRecovers` say
what one more line does to recovery.

`HistoryKept` counts how often an event is in the recovered stream. `StreamedIs`
replaces the count by a fact about lines (`Streamed`: the snapshot has the event
and no line purges it, or a line adds it behind the last purge); `HistoryInv` is
then the same argument as for keys, with `OwedHistory` and `SnapshotHistory` in
the places of `OwedAgree` and `SnapshotCurrent`.

`ReplayGivesLastLine` is about load's loop itself. `LoadedTo` is the closed form
restricted to the first m lines; one more line carries it on in each of the cases
of the loop (a damaged line, a record, a claim, an event, a purge), and the loop's
state after m lines satisfies it because there is no least m at which it would not.

`JournalImplementsStore` maps every action to a step of `DurableStore` or to a
stutter. `durable` is what recovery would yield, so a memory change is the
abstract store's step, a line written makes its records durable, and a
compaction is three steps of which the renaming may change `durable`. That the
change is an allowed one is not implied by `Durable`, which says nothing of
records in operation: `SnapshotPossible` says that the image holds, for each of
them too, what memory has or what the files already yield.

### SharedStore

`JobInv`: a job in a replica's hands is in the table no more and in nobody
else's hands. `HistoryInv`: with a single writer the numbers in the table are
1 to the number of events, and a cached number is the last of them. The answers'
invariant joins `LockInv` (the lock of a replica belongs to the one request that
writes through it; without an overlap only one replica has a lock taken),
`TokenInv` (the copy a request writes differs from the stored instance in its own
task only), `RowInv` (a row that was written has the state its copy's token has)
and `HeldInv` (a running lock a worker believes in is in the row, with the same
end). The last one is needed because a claim is refused only by the lock's end.
Steps are proved by kind: those outside an answer leave all of it alone
(`OutsideEffect`).

### Intake

`WokenInv` says that a token that waits once and was woken has nothing open any more
(`ClosedInv`), and counts, for every subscription, those sends that may still trigger
it together with the wake-ups there were (`PendingInv`).
`EventInv` adds to `EventOnce` that an event in delivery is remembered, not yet
delivered, and in the hands of one client; `AckedInv` that whatever is remembered
is delivered or in delivery. That the window stays within its limit takes the
cardinality of what `Remember` sweeps. `TriggersInv` follows a deployment through
its steps: the definition it stored is the latest (`OwnDefinition`), what is
registered plus what it has still to register is what the definition wants
(`Replacing`), and between deployments nothing is missing or left over
(`Settled`). A deployment that begins alone needs nothing of what was before it.

### Engine

`LockInv`: without the lock the working copy is the stored instance; with it the
stored instance is active. `EndIsFinal` follows because every operation but the
start looks at the state after it has taken the lock, and what changes records
without the lock (a claim, a refusal, a restart) only removes them when the
instance has ended. This part uses no assumption on the process models: it does
not look into the interpreter.

`EngineTypeCorrect` and `WaitsAreRecovered` do, and hold for all process models
that satisfy `ValidModel`. `InterpreterProofs` has one lemma or more for each operator of
`Interpreter`, from removing a record to a whole step of a token: from a `Good`
world it makes a `Good` world. Good is `Typed` (every id that is mentioned lies
below the highest one, so that a new id is new) and `Linked`: compared with the
world the operation began with, a side record is new or unchanged, a token waits
as it did or for a new record of its own that fits it, and all tokens but the one
being worked on can be woken. `Relinks` is the same between two intermediate
worlds; operators are composed by it. Cleaning a scope or leaving a loop is a
loop over tokens and records in the code and a set in the model, so that no
induction is needed.

`EngineInvariant` is `LockInv`, `TypeInv` and `WaitInv`. The invariant must hold of
the stored instance and of the working copy, because a crash drops the copy but
keeps the records it has changed: `Agree` says of both that a record or a claimed
job with the id a parked token names is the one it waits for (`Fits`). `Awake`,
that the record is there, holds of the copy only; after a crash `reconcile`
makes it true, token by token. A claimed job counts (`ClaimedJobs`) until its
execution ends it or puts it back (`Settles`, `Alike`); a token that only this claim
keeps awake is the claimant's own, at the element its job names (`Stranded`), so the
execution finds it and moves it on. A migration may let a caller begin while it
writes (`Moves`), with the record as it was before.
That a timer's element belongs to the instance's process (`Placed`) takes a walk
outward through its containers; `RootOf` is a recursive function, whose existence
is shown by following these chains (`Roots`).

### Calls

`CallsInv` is the bookkeeping between instances: ids and continuations
(`FreshInv`, `OneLead`, `LeadsFirst`, `OwedInv`), who is whose parent (`ParentInv`),
children still to be started (`StartInv`) or cancelled (`CancelInv`), the sweep
(`SweepInv`), and `AnswerInv`: who waits without an answer while the process runs is
on reconcile's list. `PurgeSafe` needs `SweepInv`: between the sweep's look at
the parent and its purge, no parent can begin to wait for an ended child, because
a child's id is new when its parent begins to wait. The actions have few shapes
(`Moves`, `Ends`, `Starts`, `Drops`): one lemma each shows that the shape keeps the
invariant, and each action is one of them. `SortedLists` shows that a sorted
listing has exactly the members of the set, by counting.

### Replication

What a follower recovers is defined by a recursion over the lines of its file.
The library's induction theorems cannot be used with these provers; the facts
needed (`ReplayIs`, `ApplyAllTyped`, `ApplyAllAppend`) are proved by looking at
the least number of lines at which they would fail, which exists
(`LeastExists`). `SyncInv` has `ResetInv` (how far a reset has come: memory, then
the snapshot file, then the emptied journal), without which the step that ends a
reset could not be shown to leave files and memory equal, and `OrderInv` (the
leader's events are numbered one by one, so that a snapshot on its way is in
order). In the middle of a compaction every line of the journal is in the renamed
snapshot already, and replaying such lines changes no record and adds no event
that is not there (`ReplaysAbsorbed`).

`StreamComplete` quantifies over all orders in which owed lines can still be
journaled. `Covers` says without any order what such a stream must contain: for
each record the last of its lines has the leader's version, or there is none and
the versions agree; each event's line has its predecessor's before it, and the
last event is among them. `Covers` is kept by applying, queueing and owing a line
(so it is inductive: `StreamInv`), and from it the outcome follows for every order,
again by the least number of lines at which it would not.

### Decisions

`EvaluateMeansPolicy`: before rule r the matches are the outputs of the matching
rules below r, in their order, and no rule below r has failed (`Progress`); for
FIRST, the loop has not gone past its first match. At the end the matches list the
matching rules in ascending order (`Enumerates`), which determines the count, the
k-th one (`EnumeratedNth`), the earliest of the best ranked (`BestIsPreferred`), the
sum and the bounds (`FoldedSum`, `FoldedBound`). The loops over the matches are
recursive functions; that they exist and what they compute is shown with chains and
least counterexamples, as above.

### Only model-checked

* All liveness (`ResyncCompletes`, `Converges`, `CallAnswered`,
  `PurgedEventually`): fairness and ENABLED are outside the proof system's reach.
* `Engine`: `NoSilentHang`, `NoOrphanRecords`, `ScopesOwned`, `NoDoubleArrival`,
  `LoopsAccounted`, `TokensPlaced`. These are not theorems of `Engine`: the code
  keeps them for the process models and the plan of the run and not for all that
  validation and `MigrateInstance` accept.
  A parallel join whose other branch is never taken waits for ever
  (`NoSilentHang`), and two tokens that follow each other through a cycle arrive
  over the same flow (`NoDoubleArrival`).
  A plan may map an event sub-process to a plain one (`ScopesOwned`), or a
  sequential loop to a parallel one, whose coordinator then waits for items
  nobody starts (`LoopsAccounted`); `migrate.go:143` asks only whether the target is a
  loop. Two plans there and back let a requeued timer meet its old element again
  (`NoOrphanRecords`).
* `CellMeaning`, `OperatorLaws`: recursion over cells and expressions.

## Not modelled

* The XML parsers of BPMN and DMN, the lexer and parser of expressions, their
  functions, arithmetic and member access, forms: string and number handling
  without state.
* REST decoding, authentication, the vault, telemetry, the server binary, the SDK
  and deployment files: no protocol of their own.
* In the engine: repetition of timers that belong to a token, failing output
  mappings, the step limit of a drain, compensation, variables, assignment of user
  tasks, tenants, the time limit of an agent's invocation (to the model one more failure).
* Of the stores: listing and filtering, blobs, the SQL schema and dialects, a
  statement that fails on the database.
* Loss of power with reordered disk writes: in the model a completed write
  survives a crash.

## Plan

1. Done: `Journal`, `DurableStore`, `JournalProofs`; `ProcessModel`,
   `Interpreter`, `Engine` with loops, agents and migration; `Calls`;
   `SharedStore`; `Intake`; `Replication`; `Expressions`, `DecisionTables`,
   `Decisions`.
2. Done: proofs of every safety property of `Journal` (with its refinement),
   `SharedStore`, `Intake`, `Calls`, `Replication` and `DecisionTables`, and of those
   of `Engine` that hold for every valid process model.
3. Possible extensions: repeating timers of tokens in `Engine`, user-task
   assignment, a failing statement in `SharedStore`.
