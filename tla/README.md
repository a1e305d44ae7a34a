# flowstep in TLA+

A verification project for flowstep, a workflow engine for Go: state charts
with compound and parallel states and history, executed against pluggable
stores, with signals, human tasks, child workflows, activities and snapshots.
The modules here model the engine's algorithms, its concurrent behaviour, and
the adapters that carry on after a commit;
TLC checks them on small instances, and TLAPS proves the central results for
every workflow, every number of callers and every store of a given kind.

## Inventory

| Component | State it keeps | Operations | What makes it correct |
|---|---|---|---|
| Definition builder, `internal/builder` | the definition being built | `Build` wires parents, children and compound states | the definition is what was declared |
| Validation and compilation, `internal/graph` | none; a compiled machine is immutable | `Validate`, `Compile`, `DetectSpawnCycles` | whatever passes has every map entry the runtime looks up |
| Chart algorithms, `runtime/helpers.go` | none | LCA, exit and entry sequences, history, region activation | activities in hierarchical order, a legal configuration, history names what was left |
| Executor, `runtime/executor.go` | a copy of the instance during a call | `Transition`, `createInstance`, `ForceState`, `SideEffect` | a call looks atomic, and logs exactly one event |
| Parallel executor, `runtime/parallel.go` | regions, clock and sequence map in the instance | moves inside regions, exit of the parallel state | the regions agree with the current state, the clock counts |
| Signals, tasks and joins, `runtime/scheduler.go` | none of its own | `Signal`, `CompleteTask`, `ChildCompleted` | a task fires once, a join covers its group and happens |
| Post-commit dispatcher, `runtime/dispatcher.go` | none of its own | emit, record and dispatch activities, create tasks and children | only what was committed gets out, and what was done is in the result |
| Registry and life cycle, `runtime/runtime.go` | versions, compiled machines, shutdown flag, wait group | `Register`, `compiledFor`, `Shutdown` | acyclic spawning, an instance stays on its machine, an orderly stop |
| Snapshots, `runtime/snapshot.go` | none | `Snapshot`, `Restore` | a restored instance never replaces another, runs on the same machine, and has its event |
| Stores, `adapters/*store` | instances, events, tasks, children, activities | reads and writes, in or out of a transaction | lost updates are detected, rollbacks leave nothing |
| Runners, `adapters/*runner` | goroutines and their errors; a queue outside | `Dispatch`, `Wait`, `Errors`, the workers | an activity that was accepted runs, again only after it failed, and no error is missed |
| Buses, `adapters/*bus` | handlers; a broker outside | `Emit`, `Subscribe` | what is acknowledged was handled, and what is published is delivered |
| Observers, Mermaid, facade | none | logging, rendering, delegation | |

**How they interact.** A call of the engine is a sequence of store operations
made by one goroutine: it reads the instance, decides on its copy, and writes
event and instance in a transaction whose optimistic lock is the instance's
`UpdatedAt`. `Signal`, `CompleteTask` and `ChildCompleted` first read the
instance to choose a transition and then call `Transition`, which reads it
again. After the commit the call emits the event, records and dispatches
activities, and creates tasks and children outside any transaction; errors
there are warnings. Several goroutines, and several processes over one
database, do this at once. Brokers and queues then deliver events and
activities to consumers and workers, which may be other processes.

**What is hard.** Two callers between read and write; clock readings that are
equal; two first calls that both create the instance; an activity that fails
half way through an entry sequence; a crash between append, update, commit and
what follows the commit; a task or child created after its parent has moved on;
reports of children that overlap; history and regions after long sequences of
transitions; shutting down while calls arrive; a restart that finds an empty
registry; a snapshot restored twice or while the instance is created; a commit,
an acknowledgement or an enqueue whose answer is lost. `PROJECT.json` lists each of
these at its line with the properties that would catch it.

## Modules

| Module | Models | Role |
|---|---|---|
| `Chart` | `helpers.go`, the chart part of `executor.go`, `parallel.go`, `compiled.go` | operators on a compiled machine and an instance |
| `Graph` | `builder.go` (`Build`), `validate.go`, `compiled.go` | what the builder declares, every check of `Validate` as a predicate, `Compile` as an operator |
| `Walk`, `MCWalk` | one instance, activity by activity | every accepted chart of bounded size, every walk over it |
| `Workflow` | the sequential meaning of each operation | the set of outcomes (new instance, event, states left) of an operation on an instance |
| `Atomic` | what the engine promises of one instance | abstract specification |
| `Engine`, `MCEngine` | `executor.go`, `parallel.go`, `scheduler.go`, `dispatcher.go` and the stores | concurrent callers, step by step |
| `Children`, `MCChildren` | `ChildCompleted`, `evaluateJoinPolicy`, spawning, child stores | composes `Workflow`'s parent with reports of children |
| `Lifecycle` | `Shutdown`, `checkShutdown`, the wait group | |
| `Registry` | `Register`, `compiledFor`, `DetectSpawnCycles`, `DefinitionHash` | the search for spawn cycles, compared with a set of types that keep spawning each other |
| `Snapshots`, `MCSnapshots` | `snapshot.go`, `SideEffect`, the choice of the machine | composes `Registry` with calls on several aggregates, failures and restarts |
| `EventBus` | `chanbus`, `natsbus`, `redisbus` | brokers and consumers |
| `Activities` | `memrunner`, `goroutinerunner`, `asynqrunner`, `ActivityStore.Create` | runners and workers |
| `PostCommit`, `MCPostCommit` | `runPostCommit` up to the activities | composes `EventBus` and `Activities` with dispatchers that run at once, and crashes |
| `Recursion` | | induction and recursive definitions, for the proofs |
| `GraphProofs`, `WalkProofs` | | theorems about `Compile`, and about the walks over what it compiles |
| `EngineProofs`, `LogProofs` | | theorems about the operations and about concurrent callers: types, lock, refinement, charts; log and instance, calls and tasks |
| `LifecycleProofs`, `PostCommitProofs`, `SnapshotProofs` | | theorems about the module of the same name |

`Engine` keeps one action per store operation. `row` is the instance store
(the instance and its `UpdatedAt`), `log` the event store, `tasks` the task
store, `bus` what was emitted; `pc`, `op`, `base`, `out` and `stamp` are the
locals of a caller: where it is, the call, the instance it read, what it will
write, and the time it read. The adapters differ in ways that matter, and each
difference is a constant:

| Constant | pgxstore | sqlitestore | dynamostore | memstore |
|---|---|---|---|---|
| `Transactional` | yes | yes | yes (writes are collected until `Commit`) | no |
| `UniqueKey` | yes | yes | no (`PutItem` without a condition) | no (map assignment) |
| `TaskInvalidator` | no | no task store | no task store | yes |
| `CompleteOnce` | no | | | yes |

`StrictClock` says that two readings of the clock differ, `Savepoints` that the
transaction provider offers savepoints.

In `Children` the nested call of `Transition` is one step, which the theorem
`Refinement` justifies for transactional stores. `children` is the child store
as memstore keeps it, and `groups` the groups spawned so far. A child may be
reported as soon as it is in the store, while its siblings are still created,
and again at any time: nothing in the engine remembers a report. `known` is a
ghost, the number of children in the store when a report began.

`Snapshots` keeps one action per transaction or read. `rows` and `log` are the
database, which outlives the process; `versions` and `latest` are the
registry, which does not: `Restart` empties it and the definitions are
registered again while calls arrive. `snaps` are the snapshots clients hold. A
transaction commits (`createInstance`, `commitTransition`, `createRestored`,
`commitEffect`), is refused by a key or by the lock (`Refused`), fails, or
commits and loses its answer (`CommitLost`).

`PostCommit` keeps one action per step of `runPostCommit`: publish or call each
handler, record an activity (or skip that, without a store), dispatch it. A
crash loses the result that was being built, `dispatched` and `warnings`; the
ghost `refused` remembers which recordings failed. `EventBus` and `Activities` hold what
happens outside it. `msg` says of each event whether the broker holds it ready,
has handed it out, or got the acknowledgement; `inbox` is what a consumer has
been handed; `cursor` is the `>` of `XREADGROUP`; `queue` and `retried` are the
asynq queue and `live` the goroutines. Brokers and queue are external and do
what the adapters ask of them: NATS delivers to the one subscription of a
durable consumer and again what was not acknowledged in time, Redis hands each
entry to the group once, asynq retries up to the number it was told, or its
default when it was told none.

**Abstractions.** States, transitions and keys are strings or model values;
guards, route conditions and activities become nondeterministic choices
(`guarded`, `targets`, `ExitActivities`, `EntryActivities`); a transition with
routes picks any of its targets, once for all regions it moves. `StateData`,
correlation IDs and payloads nobody branches on are left out. In a transaction
`Append` and `InvalidateByStates` take effect with the `Update`, and `Update`
with `Commit`: pgxstore and sqlitestore hold the row's lock in between,
dynamostore writes in the commit. In `Snapshots` an instance is its ID, its
machine and the number of transitions made. In `PostCommit` the warning of a
failed emission is left out, and an activity is its place in its transition.
Regions of a parallel state are processed in a fixed but arbitrary order, as
Go's map iteration allows. `Walk` has no transitions from outside into the
interior of a parallel state.

## Runs

Every run finishes in at most about two minutes with two workers. Five runs
show a disagreement; the others hold.

| Run | Question | Result |
|---|---|---|
| `walk` | For every chart with an initial and a terminal state and up to six more states that `Validate` accepts, and for a chart of two regions and a compound state: are compiled maps complete (`CompiledWell`), are activities run in order, each entered state exited before its parent and entered after it (`ActivityOrder`), is the configuration legal (`LegalConfiguration`) and does history name what was last left (`HistoryIsLast`)? | holds, when the regions hold leaves only |
| `atomic` | Two callers, four calls that enter, move in, leave and force a parallel state, over transactional stores with savepoints, with entry activities that fail and crashes: does the engine implement `Atomic` (`Linearizable`), does the lock detect every change (`LockDetectsChange`), is the log an unbroken history of the instance (`LogChain`), do the regions agree with the current state (`ParallelConsistent`), does the clock count moves (`ClockCounts`), do the sequence maps order them (`SequenceOrders`), is only what was committed emitted, once (`PublishedCommitted`), do terminal states and stuck marks last until `ForceState` (`TerminalSticky`, `StuckSticky`), is everything well typed (`TypeOK`)? | holds |
| `tasks` | Two callers, three calls on a workflow with nested compound states, signals and a human decision, over stores without transactions: does a task fire one transition at most (`TaskFiresOnce`), and are recorded histories well formed (`HistoryConsistent`)? | holds |
| `dangling_task` | Is a pending task always one of a state the instance is in? | fails |
| `children` | A parent under `JoinAll` (two children), `JoinAny` (two) or `JoinN` (two of three) that spawns another group once it has resumed, or a parent with a single child; reports overlap with each other and with the creation of siblings, come again, and fail. Does a report that resumes the parent leave no child behind that was there when it began (`JoinCovers`), is one report of each child enough when nothing fails (`JoinHappens`), and does a parent with a single child resume when failed reports are repeated (`ChildResumes`)? | holds |
| `join_all` | Does the parent resume only when the policy it declared is met (`JoinJustified`)? | fails |
| `snapshots` | Definitions registered in any order, two callers who create, move, capture and restore two instances and log side effects, a failure or a restart: is the registry free of spawn cycles (`SpawnAcyclic`) and its search exact (`SearchExact`), does an instance stay on its machine (`SameMachine`) and never replace another (`InstanceKept`), is the restoration the first event of a restored instance and emitted only when logged (`RestoreFirst`), and is what a call answered what the log says (`AnswerTruthful`)? | holds |
| `clone` | Can a snapshot be restored to any aggregate that has no instance (`CloneRestores`)? | fails |
| `postcommit` | Two transitions emit and dispatch over each bus and each runner while anything fails: was what is acknowledged handled (`AckedHandled`), is it handled once where the bus does not deliver again (`HandledOnce`), is what NATS has published handled (`NatsDelivers`), does what was dispatched run (`DispatchedRuns`), again only after it failed (`RerunAfterFailure`), recorded and reported (`Traceable`), and does `Wait` see every error (`ErrorsComplete`)? | holds |
| `retries` | Does the queue execute an activity at most `MaxAttempts` times (`AttemptsBounded`)? | fails |
| `shutdown` | Three callers, two calls of `Shutdown`: have the operations counted before it returned when it returns nil (`Drained`), and does it return (`ShutdownReturns`)? | holds |
| `shutdown_race` | Does no operation run after `Shutdown` has returned nil (`ShutdownWaits`)? | fails |

**Bounds.** Two callers are enough for every race between one reader and one
writer; `Engine`'s proofs hold for any number. `MaxCalls` 3 and 4 let both
callers overlap on an instance that has left its initial state, and let one of
them leave and re-enter a compound state while the other works on a stale
copy. Six free states give charts three levels deep with siblings at each
level; the proofs about `Walk` hold for charts of any size and depth. In
`children` three children (`MaxChildren`) make one group of three, or a group of
two and a second one, and `MaxMoves` lets the parent spawn both; one store
operation or call may fail (`MaxFailures`) anywhere. Every child ends in the
same state there, since no property of that run looks at it; in `join_all` it
may end in another than the group names. `Lifecycle` has no bounds but the sets.

In `snapshots` three calls suffice for a capture and two restores that race, or
for a creation, a transition and a restore; one failure or restart falls
anywhere in them. Each version has one shape: with two, `SameMachine` fails
(below). The snapshots clients start with (`Backups`) come from another
environment, one of a machine that is registered here too and one whose version
means something else here: over SQL stores the ID of a snapshot taken here
stays in use as long as its instance exists, and instances are never deleted.
`postcommit` has two transitions, one with a registered and an unregistered
activity, two consumers, one crash or resubscription and one acknowledgement
that comes too late. Buses and runners do not share state, so each is in one of
three pairs and not all nine; one pair has no activity store. Its liveness
properties are what bounds it: the proofs of its invariants hold for any
numbers. `seen` counts to two, which is what `HandledOnce` tells apart. Callers
are symmetric where no liveness is checked.

**Fairness.** `Walk`, `Engine` and `Snapshots` check safety only. `Children`
assumes that a goroutine in a call goes on (weak fairness of `Handle`), which
Go's scheduler gives, and that every child ends and is reported once. It does
not assume that a client reports again: `examples/06` reports once and takes
`ErrNoMatchingSignal` for the answer of a join that waits. `JoinHappens`
therefore speaks of behaviours without failures only, and `ChildResumes`, which
is about failures, has the client that repeats its reports as a premise
(`Retried`). Direct calls, further reports and failures are not fair.
`Lifecycle` assumes that operations go on and that the waiting goroutine runs;
contexts need not be cancelled. `PostCommit` assumes that dispatchers,
goroutines and workers go on and activities end, that consumers keep reading
and the broker delivers and redelivers (weak fairness), and that no handler
fails for ever on the same event (strong fairness of `HandleOk`: a message that
is delivered again and again is handled at last). Crashes, failures and late
acknowledgements are not fair. Nothing is assumed of the order of Go's map
iterations.

## Proofs

TLAPS checks every proof to its leaves; nothing is assumed but the named
assumptions on the constants, which TLC evaluates in the runs of the modules
that declare them. For `Engine` they are `CompiledAssumption`,
`TransAssumption`, `RequestsAssumption` and `MarkersAssumption`.
`CompiledAssumption` (`WellCompiled`) says what a compiled machine looks like;
`CompileCorrect` proves it of every machine `Compile` makes.

`Recursion` is what the other modules use for induction. The library's
induction theorems take a property as an operator; here a property is a set of
numbers, and induction over `0..n` is that such a set has a least element
outside it or none (`Induction`). The rest of the module iterates a function
(`Iterate`) and shows that a recursive definition that only looks at arguments
of lower rank has a solution (`Fixpoint`): iterated as often as there are
ranks, its right-hand side no longer changes the function. Without that nothing
could be said of a recursive function, which in TLA+ is a `CHOOSE`.

`GraphProofs`: `CompileCorrect`, for every definition the builder declares
(`Declared`) and Register accepts (`Accepts`). `Declared` leaves out one thing
the builder allows, a parallel state passed to a region, for which the theorem
is false (below; `NestedAssumption` of `MCWalk` is an instance of it); TLC
evaluates `Declared` on every other declaration of the runs of `Walk`. That
`buildAncestry` and `resolveInitialLeaf` end is the difficult part. By counting, a chain of more ancestors than there are states repeats one, which
`Circular` excludes, so every state has a depth; initial children go down one
level at a time, and height falls with them. Both recursions then have a
solution by `Fixpoint`, and what it computes follows by induction on the rank.

`WalkProofs`, for any set of such machines (`Compiled`), of any size and depth:

- `CompiledCorrect`: `Spec => []CompiledWell`.
- `ActivitiesInOrder`, `AlwaysLegal` and `HistoryHeld`: `Spec =>
  []ActivityOrder`, `[]LegalConfiguration` and `[]HistoryIsLast`, for machines
  whose regions hold leaves only (`FlatRegions`; without it the second is false,
  see `DeepEntryAssumption` of `MCWalk`). They share the invariant `WalkInvariant` shows. While
  activities run, what is entered and what is left of the sequence are related
  by the chart: the exits still to run are, from the deepest up, those of the
  entered states below the common ancestor, and the entries lead down a path
  without gaps to where the instance will be. When nothing is left to run the
  entered states are the current state and what is above it or, in a parallel
  state, all regions and their active leaves. And whatever compound state was
  left has its last leaf and the child above it recorded. The lemmas are about
  paths: what `Ancestry` lists, in which order, and where two chains part.

`EngineProofs` first shows that the sequential operations are well typed: each of
`commitTransition`, `commitStuck`, `commitParallelIntra`, `commitParallelExit`
and `forceState` turns an instance into outcomes whose instance, event and
states have their types, resting on lemmas about the sequences and maps of
`Chart` (what an exit or entry sequence, a recorded history or a region map may
contain).

Then, about concurrent callers:

- `TypeCorrect`: `Spec => []TypeOK`. The type of a local depends on where the
  caller is (a caller about to write has an outcome, one that has matched has
  an instance), so the inductive invariant `TypeInv` adds `Control`.
- `LockCorrect`: with `StrictClock`, `Spec => []LockDetectsChange`. Needs
  `Tokens`: every row ever read or about to be written carries a time not after
  the clock, pending times are distinct from each other and from every row's,
  and a row and a copy with the same time are the same row.
- `Refinement`: with `StrictClock`, `Transactional` and `UniqueKey`,
  `Spec => Linearizable`. Needs `Plans`: what a caller is about to write is an
  outcome of the instance it read. Together with `Tokens`, at `Update` the
  instance it read is the one stored, so the step is `Atomic`'s `Apply`; every
  other step but `Create` and `MarkStuck` is a stutter.
- `LogCorrect`: under the same assumptions `Spec => []LogChain`.
- `ParallelCorrect` and `HistoryCorrect`, for any stores and clock, and for the
  charts that `ExitsRest` and `RegionsClosed` describe: a transition from a
  parallel state does not lead to a parallel state, and one inside a region
  leads to a leaf of that region. `Validate` checks neither, and without them
  `ParallelConsistent` fails (see the disagreements below); `MCEngine` assumes
  them of its workflows, so that TLC evaluates them. The two share an invariant
  stronger than both, `SoundCopies`: not only the stored instance but every
  copy a caller has read, however stale, and every outcome it is about to write
  has consistent regions and histories and rests in a leaf or a parallel state.
  That is why no store or clock has to be assumed: whichever copy wins, it is
  sound.

`LogProofs`, under the same assumptions (`StrictClock`, `Transactional`,
`UniqueKey`), where the stored instance changes in three ways only: it is
created, replaced by an outcome of itself together with one event, or marked
stuck without one (`StepEffect`):

- `ClockCorrect`: `Spec => []ClockCounts`. Inductive given that classification
  and what each operation does to the clock.
- `SequenceCorrect`: `Spec => []SequenceOrders`, with `SequenceBound`: no number
  in the log is beyond the clock, so the number a moving region gets next is
  higher than every other.
- `StuckCorrect` and `TerminalCorrect`: the action properties `StuckSticky` and
  `TerminalSticky`. The second needs `RegionsInParallel`: an operation inside
  regions would move an instance whose current state is terminal, and no such
  instance has regions.

and, for any stores and clock:

- `EmitCorrect`: `Spec => []PublishedCommitted`, without assumptions. Needs
  that calls under way have numbers of their own and a number is on the bus
  only once its call is past `Emit` (`Numbered`), and that a caller about to
  emit has its event in the log, where stores without transactions put it before
  the row is written (`Recorded`).
- `TaskCorrect`: with `CompleteOnce`, `Spec => []TaskFiresOnce`. A task that
  fires is completed and belongs to one caller, whose event, if not in the log
  yet, will be the first of the task (`Owned`).

`LifecycleProofs`: `DrainedCorrect`, `Spec => []Drained`, for any finite set of
callers (`CallersAssumption`) and any calls of `Shutdown`. `Drained` alone is
not inductive: that the wait group was at zero when the waiting goroutine woke
says something about the operations only because the counter is the number of
operations counted plus the number of nested `Transition` calls they made
(`Counter`), and because a waiting `Shutdown` holds the set of those it still
waits for (`Awaited`).

`PostCommitProofs`, for any numbers of transitions, activities, consumers and
crashes, any retry policies (`InvocationsAssumption`, `CountsAssumption`,
`BatchAssumption`: there is an invocation for every activity, and counts are
natural numbers):

- `TraceableCorrect`, `RerunAfterFailureCorrect` and `ErrorsCompleteCorrect`
  share the invariant `Inv`. `Traceable` needs to know that nothing runs that
  the loop has not come past (`Fresh`), that what it is about to dispatch was
  recorded or refused (`Recorded`, which a crash leaves alone), and that the
  result of a living process has what it has come past (`Accounted`).
  `RerunAfterFailure` relates executions to retries, and retries to failures, by
  the state of the queue or the goroutine (`Attempts`), and rests on only one
  runner having the activity (`OneRunner`); `ErrorsComplete` on an error being
  collected before its goroutine leaves the wait group (`Uncollected`).
- `AckedHandledCorrect`: a consumer about to acknowledge has handled the first
  message of its inbox (`AckingHandled`), whatever the broker redelivers
  meanwhile.
- `HandledOnceCorrect`: for Redis, an entry beyond the group's cursor was handed
  to nobody, one that was handed out is in one inbox at most, once, and was not
  handled by whoever has it in hand (`RedisOnce`); for `chanbus`, the
  handlers an emission has still to call are distinct and have not been called
  for its event (`ChanOnce`).

`SnapshotProofs`, for any definitions, aggregates, callers and backups and any
numbers of calls, failures and restarts (`DefinitionsAssumption`,
`MarkersAssumption`, and `WorkflowsAssumption`: there are finitely many
workflow types):

- `InstanceKeptCorrect`: with `UniqueKey`, `Spec => InstanceKept`, from
  `HouseInv`: a call about to write to an instance still finds one, of the
  version it read, and an aggregate with events has an instance.
- `SameMachineCorrect`: with `UniqueKey` and `VersionsStable`,
  `Spec => []SameMachine`. `MachineInv` says that every row, stored or in hand,
  is one of a definition of its aggregate's type and its own version;
  `VersionsStable`, that a version has one hash, is what the code does not check
  (below), and `MCSnapshots` assumes it of its definitions.
- `RestoreFirstCorrect`: with `UniqueKey`, `Spec => []RestoreFirst`. A restore
  that commits found no instance, hence by `HouseInv` an empty log.
- `AnswerCorrect`: `Spec => []AnswerTruthful`, without assumptions. Calls have
  numbers of their own, so events of others do not count, and where a call
  stands says whether its event is logged (`AnswerInv`).
- `SearchCorrect`: `Spec => []SearchExact`, without assumptions, for every order
  of Go's iteration. Every call of `dfs` has fewer white types before it than
  its caller, or fewer positions to look at, so the recursion has a solution
  (`DfsExists`). A call begins with a path of grey types that lead to its node
  (`Before`) and returns with a loop, or with its node black and the path as it
  was (`After`), given that black types spawn black types only and have no loop
  among them (`Settled`): a back edge closes a loop through the grey path, and a
  node whose types are all black may turn black.
- `SpawnCorrect`: `Spec => []SpawnAcyclic`. Replacing versions, dropping known
  definitions and restarting never leave a cycle that Register has not searched.

The assumptions of the theorems about `Engine` are needed. With equal clock
readings TLC finds a caller that overwrites a change it never read
(`LockDetectsChange` fails); without `UniqueKey` two first calls both create
the instance and the second puts it back to its initial state (`LogChain`
fails); without `Transactional` the event of a refused update stays in the log.

Only model-checked: `JoinCovers`, and the liveness properties of `Children`,
`Lifecycle` and `PostCommit`, which need fairness.

## Disagreements met while modelling

The runs `dangling_task`, `join_all`, `clone`, `retries` and `shutdown_race` show a
line of the repository that the code does not keep; `PROJECT.json` quotes
the lines. Others were seen in the model or in the code and are kept here
without a run.

Engine and charts:

- Entering a parallel state enters each region and its initial leaf and skips the
  compound states between them (`helpers.go:199`; README:187 says "entry
  activities run from ancestor to leaf"), so that a leaf is active whose parent
  was not entered and `LegalConfiguration` fails. TLC evaluates this as
  `DeepEntryAssumption` in the run of `MCWalk`.
- The comment at `helpers.go:57` says that without a common ancestor only the
  source is exited; the code, and README:189, exit its ancestors too.
- The sequence map holds the clock for the regions that moved and one less for
  all others, not the clock at which each region last moved
  (`parallel.go:244`; `docs/plans/2026-03-12-parallel-states.md:146` says
  otherwise). What it does keep, and `SequenceOrders` checks, is that the
  regions that moved have the highest number and that no number ever falls.
- A stuck instance accepts ordinary transitions, and stays marked stuck:
  `validateTransition` never reads `IsStuck`, and `ErrWorkflowStuck` (README,
  "Workflow is stuck and cannot proceed") is never returned.
- With savepoints a failed entry activity still marks the instance stuck
  (`types/interfaces.go:74` says otherwise).
- `commitParallelExit` clears the regions also when its target is a parallel
  state, which is then entered without active regions.
- A transition with sources in two regions moves both to a target that belongs
  to one of them.
- A compound state inside a region is left without recording history.
- `checkParallelStates` rejects a parallel state whose parent is parallel
  (`validate.go:94`), but one passed to `Region` gets the region as its parent
  and is accepted, although nested parallel states "are not supported"
  (`errors.go:55`, `CHANGELOG.md:40`). The region's entry in `InitialLeafMap` is
  then the inner parallel state, not a leaf (`compiled.go:34`). TLC evaluates this
  as `NestedAssumption` in the runs of `MCWalk`.

Tasks and children:

- `CompleteTask` completes the task and then calls `Transition`; when that
  fails, the task is lost. pgxstore's `Complete` does not look at the status,
  so there a task may fire twice. With one matching transition any choice
  fires it.
- `JoinAll` counts the children it finds (`scheduler.go:240`). They are created
  one by one after the commit, so a report between two creations joins early
  (run `join_all`), and so does every group of which a crash or a failed `Create`
  left a part.
- The join transition is not tied to a group: when two reports of a group both
  find it complete, the first resumes the parent, and if the parent then spawns
  another group, the second report resumes it again at once. The parent of the
  run `children` does that; `JoinCovers` holds since the group of the report was
  complete.
- `JoinAny` is satisfied by any completed child (`scheduler.go:241`), whatever
  state it ended in; `types/child.go:55` and README:396 name a terminal state
  that is to be reached. With groups of that mode `JoinJustified` fails so, too.
- A report that comes while the parent is elsewhere, or whose `Complete` failed,
  is not evaluated again later: the join happens only if another report follows.
- `JoinN` takes its count from any transition that spawns with mode N, and a
  group without children never joins.
- pgxstore reads `child_terminal_state`, which is NULL until the child
  completes, into a plain string.

Registry and snapshots:

- A version registered again with another shape replaces the machine of that
  version and leaves `latestCompiled`, which changes for a higher version only:
  new instances start on the old machine and go on under the new one, and
  `SameMachine` fails. Nothing in the repository says what such a registration
  should do.
- The definition hash leaves out spawned children, guards and routes, so
  `Restore` accepts a snapshot of a machine that differs in them.
- `aggregate_id` is UNIQUE across aggregate types in the SQL stores: two
  aggregates of different types with the same ID cannot both have an instance.

Buses and runners:

- redisbus reads only entries that were never delivered to its group. An entry
  whose handler failed or whose consumer died stays pending for ever.
- asynqrunner passes `MaxAttempts` as the number of retries, so an activity may
  run once more than it says (run `retries`), and without a policy the queue's
  default applies, although the recorded invocation says one attempt. The other
  runners never retry.
- When `ActivityStore.Create` fails, the activity is dispatched all the same and
  the failure is a warning in the result: if the process dies before it returns,
  only an observer knows of the activity. Without an activity store nothing is
  recorded and nothing warns (`dispatcher.go:65`).
- asynqrunner accepts activities that nobody has registered; they are retried
  and archived without having run.
- No runner calls `ActivityStore.UpdateStatus`, so an invocation stays
  SCHEDULED, and results do not come back as signals
  (`docs/plans/2026-02-13-flowstate-design.md:676` describes both).
- goroutinerunner hands the caller's context to the activity, which is
  cancelled when the caller's request ends.

## Plan

Done: `Chart`, `Graph`, `Walk`, `Workflow`, `Atomic`, `Engine`, `Children`,
`Lifecycle`, `Registry`, `Snapshots`, `EventBus`, `Activities`, `PostCommit`,
and the theorems above. `Snapshot` and `Restore` became a module of their own,
and not operations of `Engine`: what they can break lies between several
aggregates, the registry and restarts, which `Engine` does not have.

Next: a proof of `JoinCovers`, for any number of children and groups.

Not modelled, and not planned: observers and logging, Mermaid rendering, the
public facade, the fluent options of the builder (they fill a record, which is
the model's input) and test utilities, which keep no state; listing queries,
which change nothing; `ActivityStore.UpdateStatus`, which nothing calls; and
timeouts of activities, which only cancel a context.
