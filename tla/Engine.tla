------------------------------- MODULE Engine -------------------------------
(***************************************************************************)
(* Concurrent callers of the engine on one workflow instance: Transition,  *)
(* Signal, CompleteTask and ForceState, each a sequence of store calls     *)
(* between which other callers may run.  The callers may be goroutines of  *)
(* one process or of several processes over the same database.             *)
(*                                                                         *)
(* The stores are parameters, one switch per capability in which the       *)
(* adapters differ (pgxstore, sqlitestore, dynamostore, memstore).         *)
(***************************************************************************)
EXTENDS Workflow

CONSTANTS
    Callers,
    Requests,         \* the calls clients make: [kind, arg, task]
    MaxCalls,         \* bound on the number of calls
    Transactional,    \* a rolled back transaction leaves no trace
    UniqueKey,        \* Create fails if the aggregate has an instance
    Savepoints,       \* TxProvider implements SavepointProvider
    TaskInvalidator,  \* TaskStore implements TaskInvalidator
    CompleteOnce,     \* TaskStore.Complete rejects a completed task
    StrictClock,      \* no two readings of the clock are equal
    NoRow,            \* "no instance"
    NoOutcome         \* "nothing to write"

\* The strings a call may carry: a transition, a state, a signal or a choice.
Words == Names \cup {r.arg : r \in Requests} \cup {NoState}

ASSUME RequestsAssumption ==
    /\ Requests \subseteq [kind : {"transition", "signal", "task", "force"},
                           arg : Words, task : Nat]
    /\ \A r \in Requests : r.kind # "task" => r.task = 0

ASSUME MarkersAssumption ==
    /\ NoRow \notin Instance /\ NoRow \notin [inst : Instance, upd : Nat]
    /\ NoOutcome \notin Outcome

VARIABLES
    row,     \* the instance store: [inst, upd], or NoRow
    log,     \* the event store: the events of the aggregate, in order
    tasks,   \* the task store: a task's ID is its position
    bus,     \* IDs of the events emitted on the event bus, in order
    clock,   \* the last time read from the clock
    calls,   \* calls started so far
    pc,      \* caller -> where its call stands
    op,      \* caller -> the call it runs
    base,    \* caller -> the row as it read it
    out,     \* caller -> what it is about to write
    stamp    \* caller -> the UpdatedAt it is about to write

stores == <<row, log, tasks, bus>>
locals == <<base, out, stamp>>
vars == <<row, log, tasks, bus, clock, calls, pc, op, base, out, stamp>>

----------------------------------------------------------------------------
(* Types *)

\* A row: the instance and its UpdatedAt, the token of the optimistic lock.
Row == [inst : Instance, upd : Nat]

\* An event as appended: its ID, the payload keys _task_id and _task_choice,
\* and the change.
Event == [id : Nat, task : Nat, choice : Words, change : Change]

\* types.PendingTask
Task == [state : States, type : {cm.Trans[n].emits : n \in Names},
         status : {"pending", "completed", "cancelled"}]

Call == [kind : {"transition", "signal", "task", "force"}, arg : Words,
         task : Nat, choice : Words, id : Nat]

NoCall == [kind |-> "transition", arg |-> NoState, task |-> 0,
           choice |-> NoState, id |-> 0]

Steps == {"idle", "load", "create", "match", "complete", "loaded", "mark",
          "invalidate", "append", "update", "emit", "task"}

Init ==
    /\ row = NoRow
    /\ log = <<>>
    /\ tasks = <<>>
    /\ bus = <<>>
    /\ clock = 1
    /\ calls = 0
    /\ pc = [c \in Callers |-> "idle"]
    /\ op = [c \in Callers |-> NoCall]
    /\ base = [c \in Callers |-> NoRow]
    /\ out = [c \in Callers |-> NoOutcome]
    /\ stamp = [c \in Callers |-> 0]

----------------------------------------------------------------------------
(* Helpers *)

goto(c, step) == pc' = [pc EXCEPT ![c] = step]

\* The call returns, with a result or an error.
return(c) ==
    /\ goto(c, "idle")
    /\ op' = [op EXCEPT ![c] = NoCall]
    /\ base' = [base EXCEPT ![c] = NoRow]
    /\ out' = [out EXCEPT ![c] = NoOutcome]
    /\ stamp' = [stamp EXCEPT ![c] = 0]

\* What Clock.Now may return: two readings may be equal unless StrictClock.
Now == IF StrictClock THEN {clock + 1} ELSE {clock, clock + 1}

\* The event that call c appends.
eventOf(c) == [id |-> op[c].id, task |-> op[c].task, choice |-> op[c].choice,
               change |-> out[c].change]

\* InvalidateByStates: pending tasks of the given states are cancelled.
invalidateByStates(states) ==
    [t \in DOMAIN tasks |->
        IF tasks[t].status = "pending" /\ tasks[t].state \in states
        THEN [tasks[t] EXCEPT !.status = "cancelled"] ELSE tasks[t]]

\* InstanceStore.Update finds the row as it was read.
unchangedSinceRead(c) == row # NoRow /\ row.upd = base[c].upd

\* Mutant: UpdatedAt is not advanced.
written_sameTime(c) == [inst |-> out[c].inst, upd |-> base[c].upd]

\* What the caller writes to the instance store.
written(c) == [inst |-> out[c].inst, upd |-> stamp[c]]

\* The caller reads the clock and knows what to write.  In a transaction
\* Append and InvalidateByStates take effect with the Update, so it goes on
\* there.
plan(c, outcomes, step) ==
    /\ \E o \in outcomes, now \in Now :
          /\ clock' = now
          /\ stamp' = [stamp EXCEPT ![c] = now]
          /\ out' = [out EXCEPT ![c] = o]
    /\ goto(c, IF Transactional /\ step # "mark" THEN "update" ELSE step)
    /\ UNCHANGED <<stores, calls, op, base>>

----------------------------------------------------------------------------
(* Starting a call and finding the transition to execute *)

\* A client calls Transition, Signal, CompleteTask (of a task that exists) or
\* ForceState.
Begin(c, r) ==
    /\ pc[c] = "idle"
    /\ calls < MaxCalls
    /\ r.kind = "task" => r.task \in DOMAIN tasks
    /\ calls' = calls + 1
    /\ op' = [op EXCEPT ![c] =
                [kind |-> r.kind, arg |-> r.arg, task |-> r.task,
                 choice |-> IF r.kind = "task" THEN r.arg ELSE NoState,
                 id |-> calls + 1]]
    /\ goto(c, "load")
    /\ UNCHANGED <<stores, clock, locals>>

afterLoad(kind) == IF kind \in {"signal", "task"} THEN "match" ELSE "loaded"

\* InstanceStore.Get finds the instance.
Load(c) ==
    /\ pc[c] = "load"
    /\ row # NoRow
    /\ base' = [base EXCEPT ![c] = row]
    /\ goto(c, afterLoad(op[c].kind))
    /\ UNCHANGED <<stores, clock, calls, op, out, stamp>>

\* InstanceStore.Get finds nothing: Transition and Signal create the instance,
\* the other calls fail.
LoadMissing(c) ==
    /\ pc[c] = "load"
    /\ row = NoRow
    /\ IF op[c].kind \in {"transition", "signal"}
       THEN goto(c, "create") /\ UNCHANGED <<op, locals>>
       ELSE return(c)
    /\ UNCHANGED <<stores, clock, calls>>

\* Mutant: Create replaces an instance that exists.
Create_replaces(c) ==
    /\ pc[c] = "create"
    /\ \E now \in Now :
          /\ clock' = now
          /\ row' = [inst |-> fresh, upd |-> now]
          /\ base' = [base EXCEPT ![c] = [inst |-> fresh, upd |-> now]]
    /\ goto(c, afterLoad(op[c].kind))
    /\ UNCHANGED <<log, tasks, bus, calls, op, out, stamp>>

\* createInstance, in a transaction of its own.
Create(c) ==
    /\ pc[c] = "create"
    /\ UniqueKey => row = NoRow
    /\ \E now \in Now :
          /\ clock' = now
          /\ row' = [inst |-> fresh, upd |-> now]
          /\ base' = [base EXCEPT ![c] = [inst |-> fresh, upd |-> now]]
    /\ goto(c, afterLoad(op[c].kind))
    /\ UNCHANGED <<log, tasks, bus, calls, op, out, stamp>>

\* createInstance meets an instance another caller created meanwhile.
CreateDuplicate(c) ==
    /\ pc[c] = "create"
    /\ UniqueKey /\ row # NoRow
    /\ return(c)
    /\ UNCHANGED <<stores, clock, calls>>

\* Transitions whose trigger matches and whose sources name an active state.
triggered(trigger, key, i) ==
    {n \in Names :
        /\ cm.Trans[n].trigger = trigger
        /\ cm.Trans[n].key = key
        /\ cm.Trans[n].sources \cap activeStates(i) # {}}

\* What Signal or CompleteTask decides to execute: a single match, or for a
\* task the match the choice names.  The empty set is an error.
chosen(o, i) ==
    LET matches == IF o.kind = "signal" THEN triggered("signal", o.arg, i)
                   ELSE triggered("task", tasks[o.task].type, i)
    IN  IF Cardinality(matches) = 1 THEN matches
        ELSE IF o.kind = "task" THEN matches \cap {o.choice} ELSE {}

\* Signal goes on to Transition, CompleteTask to the task store first.
Match(c) ==
    /\ pc[c] = "match"
    /\ IF chosen(op[c], base[c].inst) = {} THEN return(c)
       ELSE /\ \E n \in chosen(op[c], base[c].inst) :
                 op' = [op EXCEPT ![c].arg = n, ![c].kind = "transition"]
            /\ goto(c, IF op[c].kind = "task" THEN "complete" ELSE "load")
            /\ base' = [base EXCEPT ![c] = NoRow]
            /\ UNCHANGED <<out, stamp>>
    /\ UNCHANGED <<stores, clock, calls>>

\* Mutant: the store does not look at the task's status.
CompleteInStore_unchecked(c) ==
    /\ pc[c] = "complete"
    /\ tasks' = [tasks EXCEPT ![op[c].task].status = "completed"]
    /\ goto(c, "load")
    /\ UNCHANGED <<row, log, bus, clock, calls, op, locals>>

\* TaskStore.Complete, outside any transaction; then Transition.
CompleteInStore(c) ==
    LET t == op[c].task IN
    /\ pc[c] = "complete"
    /\ IF CompleteOnce /\ tasks[t].status = "completed"
       THEN return(c) /\ UNCHANGED tasks
       ELSE /\ tasks' = [tasks EXCEPT ![t].status = "completed"]
            /\ goto(c, "load")
            /\ UNCHANGED <<op, locals>>
    /\ UNCHANGED <<row, log, bus, clock, calls>>

----------------------------------------------------------------------------
(* Executing the transition on the copy that was read *)

\* The definition has the transition, or the state to force.
known(o) == o.arg \in IF o.kind = "force" THEN States ELSE Names

\* The transition is not valid here, a guard or route condition may reject it,
\* or an activity whose failure aborts it may fail.
refusable(i, n) ==
    \/ ~allowed(i, n)
    \/ cm.Trans[n].guarded
    \/ \E t \in cm.Trans[n].targets : fatalActivities(i, n, t) # {}

\* The call fails, and nothing is written.
Reject(c) ==
    /\ pc[c] = "loaded"
    /\ known(op[c]) => op[c].kind = "transition"
                       /\ refusable(base[c].inst, op[c].arg)
    /\ return(c)
    /\ UNCHANGED <<stores, clock, calls>>

executing(c) == pc[c] = "loaded" /\ op[c].kind = "transition" /\ known(op[c])

CommitTransition(c) ==
    /\ executing(c)
    /\ plan(c, commitTransition(base[c].inst, op[c].arg), "invalidate")

\* With savepoints the transaction goes on, without them a new one only marks
\* the instance.
CommitStuck(c) ==
    /\ executing(c)
    /\ plan(c, commitStuck(base[c].inst, op[c].arg),
            IF Savepoints THEN "invalidate" ELSE "mark")

CommitParallelIntra(c) ==
    /\ executing(c)
    /\ plan(c, commitParallelIntra(base[c].inst, op[c].arg), "append")

CommitParallelExit(c) ==
    /\ executing(c)
    /\ plan(c, commitParallelExit(base[c].inst, op[c].arg), "append")

ForceState(c) ==
    /\ pc[c] = "loaded"
    /\ op[c].kind = "force" /\ known(op[c])
    /\ plan(c, {forceState(base[c].inst, op[c].arg)}, "append")

----------------------------------------------------------------------------
(* Writing *)

\* InvalidateByStates of a store without transactions.
Invalidate(c) ==
    /\ pc[c] = "invalidate"
    /\ tasks' = IF TaskInvalidator THEN invalidateByStates(out[c].exited) ELSE tasks
    /\ goto(c, "append")
    /\ UNCHANGED <<row, log, bus, clock, calls, op, locals>>

\* EventStore.Append of a store without transactions.
AppendEvent(c) ==
    /\ pc[c] = "append"
    /\ log' = Append(log, eventOf(c))
    /\ goto(c, "update")
    /\ UNCHANGED <<row, tasks, bus, clock, calls, op, locals>>

\* InstanceStore.Update and Commit.  One step: pgxstore and sqlitestore hold
\* the row's lock from Update to Commit, dynamostore tests the condition in
\* the commit, memstore has nothing to commit.
Update(c) ==
    /\ pc[c] = "update"
    /\ unchangedSinceRead(c)
    /\ row' = written(c)
    /\ log' = IF Transactional THEN Append(log, eventOf(c)) ELSE log
    /\ tasks' = IF TaskInvalidator /\ Transactional
                THEN invalidateByStates(out[c].exited) ELSE tasks
    /\ IF out[c].change.applied THEN goto(c, "emit") /\ UNCHANGED <<op, locals>>
                           ELSE return(c)
    /\ UNCHANGED <<bus, clock, calls>>

\* Mutant: the error does not keep the event from being emitted.
Conflict_emits(c) ==
    /\ pc[c] = "update"
    /\ ~unchangedSinceRead(c)
    /\ goto(c, "emit")
    /\ UNCHANGED <<stores, clock, calls, op, locals>>

\* Mutant: the event is not part of the transaction that is rolled back.
Conflict_logs(c) ==
    /\ pc[c] = "update"
    /\ ~unchangedSinceRead(c)
    /\ log' = Append(log, eventOf(c))
    /\ return(c)
    /\ UNCHANGED <<row, tasks, bus, clock, calls>>

\* ErrConcurrentModification, then Rollback.
Conflict(c) ==
    /\ pc[c] = "update"
    /\ ~unchangedSinceRead(c)
    /\ return(c)
    /\ UNCHANGED <<stores, clock, calls>>

\* The transaction that marks the instance stuck; its errors are ignored.
MarkStuck(c) ==
    /\ pc[c] = "mark"
    /\ row' = IF unchangedSinceRead(c) THEN written(c) ELSE row
    /\ return(c)
    /\ UNCHANGED <<log, tasks, bus, clock, calls>>

\* The process dies, its context is cancelled, or Begin, Append, Update or
\* Commit fails: the database rolls back, and what was to follow never does.
Abort(c) ==
    /\ Transactional
    /\ pc[c] # "idle"
    /\ return(c)
    /\ UNCHANGED <<stores, clock, calls>>

----------------------------------------------------------------------------
(* After the commit: failures are warnings *)

emitsTask(name) == name # ForceName /\ cm.Trans[name].emits # NoState

\* EventBus.Emit
Emit(c) ==
    /\ pc[c] = "emit"
    /\ bus' \in {Append(bus, op[c].id), bus}
    /\ IF emitsTask(out[c].change.name) THEN goto(c, "task") /\ UNCHANGED <<op, locals>>
                              ELSE return(c)
    /\ UNCHANGED <<row, log, tasks, clock, calls>>

\* TaskStore.Create of the task the transition emits.
CreateTask(c) ==
    /\ pc[c] = "task"
    /\ tasks' \in {tasks, Append(tasks, [state  |-> out[c].inst.cur,
                                         type   |-> cm.Trans[out[c].change.name].emits,
                                         status |-> "pending"])}
    /\ return(c)
    /\ UNCHANGED <<row, log, bus, clock, calls>>

----------------------------------------------------------------------------

Step(c) ==
    \/ \E r \in Requests : Begin(c, r)
    \/ Load(c) \/ LoadMissing(c)
    \/ Create(c) \/ CreateDuplicate(c)
    \/ Match(c) \/ CompleteInStore(c)
    \/ Reject(c)
    \/ CommitTransition(c) \/ CommitStuck(c)
    \/ CommitParallelIntra(c) \/ CommitParallelExit(c)
    \/ ForceState(c)
    \/ Invalidate(c) \/ AppendEvent(c) \/ Update(c) \/ Conflict(c) \/ MarkStuck(c)
    \/ Abort(c)
    \/ Emit(c) \/ CreateTask(c)

\* The clients have made all their calls.
Quiet ==
    /\ calls = MaxCalls
    /\ \A c \in Callers : pc[c] = "idle"
    /\ UNCHANGED vars

Next == Quiet \/ \E c \in Callers : Step(c)

Spec == Init /\ [][Next]_vars

----------------------------------------------------------------------------
(* Properties *)

\* Every variable has its type.
TypeOK ==
    /\ row \in Row \cup {NoRow}
    /\ log \in Seq(Event)
    /\ tasks \in Seq(Task)
    /\ bus \in Seq(Nat)
    /\ clock \in Nat
    /\ calls \in Nat
    /\ pc \in [Callers -> Steps]
    /\ op \in [Callers -> Call]
    /\ base \in [Callers -> Row \cup {NoRow}]
    /\ out \in [Callers -> Outcome \cup {NoOutcome}]
    /\ stamp \in [Callers -> Nat]

\* The caller works on an instance it has read and not written yet.
working(c) == pc[c] \in {"loaded", "mark", "invalidate", "append", "update"}

\* UpdatedAt identifies a version of the instance: whenever the optimistic
\* lock of InstanceStore.Update would let a caller write, the row is still
\* exactly the instance that caller computed its change from.
LockDetectsChange ==
    \A c \in Callers : working(c) /\ unchangedSinceRead(c) => row = base[c]

\* The stored instance and the changes logged, seen as Atomic's object.
stored == IF row = NoRow THEN NoRow ELSE row.inst

changes == [k \in DOMAIN log |-> log[k].change]

A == INSTANCE Atomic WITH None <- NoRow, Fresh <- fresh, Silent <- ~Savepoints,
                          inst <- stored, hist <- changes

\* The engine implements Atomic: concurrent calls, conflicts, stuck
\* transitions and crashes look as if every operation that returned success
\* had run alone, on the instance as stored, and logged one event.
Linearizable == A!Spec

\* The event store is the history of the instance: every event starts where
\* the one before it ended, the first in the initial state, and the instance
\* is where the last event left it.
LogChain ==
    /\ row = NoRow => log = <<>>
    /\ row # NoRow => Conf(row.inst) = IF log = <<>> THEN Conf(fresh)
                                       ELSE log[Len(log)].change.post
    /\ \A k \in DOMAIN log :
          log[k].change.pre = IF k = 1 THEN Conf(fresh) ELSE log[k-1].change.post

\* ActiveInParallel agrees with CurrentState in the stored instance, whatever
\* transitions, parallel exits and forced states the callers race to commit.
ParallelConsistent == row # NoRow => consistent(row.inst)

\* The recorded histories of the stored instance name children and leaves of
\* the compound states they are kept for.
HistoryConsistent == row # NoRow => remembers(row.inst)

\* ParallelClock counts the parallel transitions in the event store: none is
\* lost and no two share a clock value.
ClockCounts ==
    row # NoRow =>
        row.inst.pclock = Cardinality({k \in DOMAIN log : log[k].change.moved # {}})

\* The sequence map orders the moves of regions across events: the regions that
\* moved in an event are exactly those with the highest number in it, and no
\* region's number falls from one event to a later one.
SequenceOrders ==
    \A k \in DOMAIN log : log[k].change.moved # {} =>
        LET ch == log[k].change
        IN  \A r \in DOMAIN ch.post.aip :
              /\ r \in ch.moved <=> \A q \in DOMAIN ch.post.aip : ch.seq[q] <= ch.seq[r]
              /\ \A j \in 1..k : log[j].change.seq[r] <= ch.seq[r]

\* Every emitted event is in the event store and was applied, and no event is
\* emitted twice.
PublishedCommitted ==
    /\ \A k \in DOMAIN bus :
          \E j \in DOMAIN log : log[j].id = bus[k] /\ log[j].change.applied
    /\ \A j, k \in DOMAIN bus : bus[j] = bus[k] => j = k

\* The completion of a task fires at most one transition.
TaskFiresOnce ==
    \A j, k \in DOMAIN log : log[j].task # 0 /\ log[j].task = log[k].task => j = k

\* Only ForceState moves an instance out of a terminal state, however stale
\* the instance a caller works on.
TerminalSticky ==
    [][row # NoRow /\ row.inst.cur \in cm.Terminal /\ row' # row =>
         \/ row'.inst.cur = row.inst.cur
         \/ log' # log /\ log'[Len(log')].change.name = ForceName]_vars

\* Only ForceState takes the mark off an instance that got stuck, although
\* transitions go on moving it: no caller that read the instance before it was
\* marked writes it back unmarked.
StuckSticky ==
    [][row # NoRow /\ row.inst.stuck /\ row' # row =>
         \/ row'.inst.stuck
         \/ log' # log /\ log'[Len(log')].change.name = ForceName]_vars

----------------------------------------------------------------------------
(* What the documentation says and the code does not keep *)

\* When nobody is at work, a pending task belongs to a state the instance is in.
NoDanglingTask ==
    (\A c \in Callers : pc[c] = "idle") =>
        \A t \in DOMAIN tasks :
            tasks[t].status = "pending" => tasks[t].state \in activeStates(row.inst)
============================================================================
