----------------------------- MODULE Snapshots ------------------------------
(***************************************************************************)
(* Several aggregates of one engine process over a database that outlives  *)
(* it: instances are created under the latest machine, moved under the     *)
(* machine of their version, captured by Snapshot and created again by     *)
(* Restore, under the same or another aggregate ID.  SideEffect logs the   *)
(* result of a function.  The process may be restarted at any time and     *)
(* registers its definitions anew.                                         *)
(*                                                                         *)
(* What a transition does to an instance is the subject of Workflow; here  *)
(* an instance is a counter of the transitions made, under the machine     *)
(* that made them.                                                         *)
(***************************************************************************)
EXTENDS Registry

CONSTANTS
    Aggregates,   \* [type, id]
    Callers,
    MaxCalls,     \* bound on the number of calls
    MaxFailures,  \* bound on failing store operations and restarts
    UniqueKey,    \* Create rejects an instance ID or aggregate ID in use
    Backups,      \* snapshots taken in another environment
    NoRow         \* "no instance"

VARIABLES
    rows,      \* the instance store: aggregate -> row, or NoRow
    log,       \* the event store: aggregate -> its events, in order
    snaps,     \* the snapshots clients hold
    emitted,   \* calls whose SnapshotRestored was emitted on the event bus
    calls,     \* calls started so far
    failures,  \* store operations that failed, and restarts
    pc,        \* caller -> where its call stands
    op,        \* caller -> the call it runs, or ran last
    base,      \* caller -> the row it read, or is about to create
    answer     \* caller -> what its last call returned

vars == <<versions, latest, rows, log, snaps, emitted, calls, failures, pc, op, base, answer>>
stores == <<rows, log, snaps>>

\* A row: the instance's ID, the machine of its version (by its hash) and the
\* number of transitions made.
rowOf(id, d, n) == [id |-> id, ver |-> d.ver, hash |-> hash(d), moves |-> n]

Row == [id : Nat, ver : Nat, hash : {hash(d) : d \in Definitions}, moves : Nat]

ASSUME MarkersAssumption ==
    /\ NoRow \notin Row /\ NoDef \notin Definitions
    /\ \A s \in Backups : s.id \in Nat /\ s.moves \in Nat

\* types.Snapshot, whose aggregate the client may change before Restore.
snapshotOf(a, r, d) == [agg |-> a.type, id |-> r.id, ver |-> r.ver,
                        hash |-> hash(d), moves |-> r.moves]

\* types.DomainEvent: the call that logged it, the operation, and the hash of
\* the machine it ran under.
event(c, kind, h) == [call |-> op[c].id, kind |-> kind, hash |-> h]

NoCall == [kind |-> "none", at |-> NoRow, snap |-> NoRow, id |-> 0]

Init ==
    /\ RegistryInit
    /\ rows = [a \in Aggregates |-> NoRow]
    /\ log = [a \in Aggregates |-> <<>>]
    /\ snaps = Backups
    /\ emitted = {}
    /\ calls = 0
    /\ failures = 0
    /\ pc = [c \in Callers |-> "idle"]
    /\ op = [c \in Callers |-> NoCall]
    /\ base = [c \in Callers |-> NoRow]
    /\ answer = [c \in Callers |-> "none"]

----------------------------------------------------------------------------
(* Helpers *)

goto(c, step) == pc' = [pc EXCEPT ![c] = step]

\* The call returns: "ok", or the reason of its error.
return(c, result) ==
    /\ goto(c, "idle")
    /\ answer' = [answer EXCEPT ![c] = result]
    /\ base' = [base EXCEPT ![c] = NoRow]

\* Mutant: the check of the aggregate made before the transaction suffices.
taken_unchecked(a, id) == \E b \in Aggregates \ {a} : rows[b] # NoRow /\ rows[b].id = id

\* The PRIMARY KEY on id and the UNIQUE aggregate_id of the SQL stores.
taken(a, id) ==
    \E b \in Aggregates : rows[b] # NoRow /\ (rows[b].id = id \/ b.id = a.id)

\* Where a call is about to commit a transaction.
Transactions == {"create", "commit", "restoring", "effect_commit"}

\* The database accepts the transaction: Create finds its keys free, and
\* Update the instance as it was read.
permitted(c) ==
    LET a == op[c].at IN
    CASE pc[c] \in {"create", "restoring"} -> ~(UniqueKey /\ taken(a, base[c].id))
      [] pc[c] = "commit" -> rows[a].id = base[c].id /\ rows[a].moves = base[c].moves
      [] pc[c] = "effect_commit" -> TRUE

\* What the transaction writes, all of it or nothing.
writes(c) ==
    LET a == op[c].at
        append(kind) == log' = [log EXCEPT ![a] = Append(@, event(c, kind, base[c].hash))]
        put(row) == rows' = [rows EXCEPT ![a] = row]
    IN  CASE pc[c] = "create"        -> put(base[c]) /\ UNCHANGED log
          [] pc[c] = "commit"        -> put([base[c] EXCEPT !.moves = @ + 1])
                                        /\ append("transition")
          [] pc[c] = "restoring"     -> put(base[c]) /\ append("restore")
          [] pc[c] = "effect_commit" -> append("effect") /\ UNCHANGED rows

\* The machine that runs the instance r of aggregate a.
machine(a, r) == compiledFor(a.type, r.ver)

----------------------------------------------------------------------------
(* The application registers definitions and makes calls *)

RegisterDefinition(d) ==
    /\ Register(d)
    /\ UNCHANGED <<stores, calls, failures, pc, op, base, answer, emitted>>

\* A client calls Transition, Snapshot, SideEffect or, with a snapshot it
\* holds, Restore.
Begin(c, kind, a, s) ==
    /\ pc[c] = "idle"
    /\ calls < MaxCalls
    /\ calls' = calls + 1
    /\ op' = [op EXCEPT ![c] = [kind |-> kind, at |-> a, snap |-> s, id |-> calls + 1]]
    /\ answer' = [answer EXCEPT ![c] = "none"]
    /\ goto(c, kind)
    /\ UNCHANGED <<registry, stores, failures, base, emitted>>

----------------------------------------------------------------------------
(* Transition *)

\* Mutant: an instance is run by the latest machine.
load_latest(c) ==
    LET a == op[c].at
        d == compiledFor(a.type, 0)
    IN  /\ pc[c] = "transition"
        /\ IF d = NoDef THEN return(c, "unregistered")
           ELSE /\ goto(c, IF rows[a] = NoRow THEN "create" ELSE "commit")
                /\ base' = [base EXCEPT ![c] =
                     IF rows[a] = NoRow THEN rowOf(op[c].id, d, 0)
                     ELSE [rows[a] EXCEPT !.hash = hash(d)]]
                /\ UNCHANGED answer
        /\ UNCHANGED <<registry, stores, calls, failures, op, emitted>>

\* loadInstanceAndCompiled: InstanceStore.Get, then the machine of the
\* instance's version; for a new instance the latest machine.
load(c) ==
    LET a == op[c].at
        d == IF rows[a] = NoRow THEN compiledFor(a.type, 0) ELSE machine(a, rows[a])
    IN  /\ pc[c] = "transition"
        /\ IF d = NoDef THEN return(c, "unregistered")
           ELSE /\ goto(c, IF rows[a] = NoRow THEN "create" ELSE "commit")
                /\ base' = [base EXCEPT ![c] =
                     IF rows[a] = NoRow THEN rowOf(op[c].id, d, 0)
                     ELSE [rows[a] EXCEPT !.hash = hash(d)]]
                /\ UNCHANGED answer
        /\ UNCHANGED <<registry, stores, calls, failures, op, emitted>>

\* createInstance, in a transaction of its own; the transition follows.
createInstance(c) ==
    /\ pc[c] = "create"
    /\ permitted(c) /\ writes(c)
    /\ goto(c, "commit")
    /\ UNCHANGED <<registry, snaps, calls, failures, op, base, answer, emitted>>

\* commitTransition under the machine that was loaded: Append and Update.
commitTransition(c) ==
    /\ pc[c] = "commit"
    /\ permitted(c) /\ writes(c)
    /\ return(c, "ok")
    /\ UNCHANGED <<registry, snaps, calls, failures, op, emitted>>

----------------------------------------------------------------------------
(* Snapshot and Restore *)

\* Snapshot: InstanceStore.Get and compiledFor; the instance is only read.
Snapshot(c) ==
    LET a == op[c].at
        d == IF rows[a] = NoRow THEN NoDef ELSE machine(a, rows[a])
    IN  /\ pc[c] = "snapshot"
        /\ IF d = NoDef THEN return(c, "missing") /\ UNCHANGED snaps
           ELSE /\ snaps' = snaps \cup {snapshotOf(a, rows[a], d)}
                /\ return(c, "ok")
        /\ UNCHANGED <<registry, rows, log, calls, failures, op, emitted>>

\* Mutant: the event is emitted before it is stored.
Restore_emits(c) ==
    LET a == op[c].at
        s == op[c].snap
        d == compiledFor(a.type, s.ver)
    IN  /\ pc[c] = "restore"
        /\ d # NoDef /\ hash(d) = s.hash /\ rows[a] = NoRow
        /\ base' = [base EXCEPT ![c] = rowOf(s.id, d, s.moves)]
        /\ emitted' = emitted \cup {op[c].id}
        /\ goto(c, "restoring")
        /\ UNCHANGED <<registry, stores, calls, failures, op, answer>>

\* Restore up to the transaction: the machine of the snapshot's version has
\* the snapshot's hash, and the target aggregate has no instance.
Restore(c) ==
    LET a == op[c].at
        s == op[c].snap
        d == compiledFor(a.type, s.ver)
    IN  /\ pc[c] = "restore"
        /\ IF d = NoDef \/ hash(d) # s.hash THEN return(c, "mismatch")
           ELSE IF rows[a] # NoRow THEN return(c, "exists")
           ELSE /\ base' = [base EXCEPT ![c] = rowOf(s.id, d, s.moves)]
                /\ goto(c, "restoring")
                /\ UNCHANGED answer
        /\ UNCHANGED <<registry, stores, calls, failures, op, emitted>>

\* The transaction of Restore: Create and Append.
createRestored(c) ==
    /\ pc[c] = "restoring"
    /\ permitted(c) /\ writes(c)
    /\ goto(c, "emit")
    /\ UNCHANGED <<registry, snaps, calls, failures, op, base, answer, emitted>>

\* EventBus.Emit of SnapshotRestored; an error is only reported to observers.
emitRestored(c) ==
    /\ pc[c] = "emit"
    /\ emitted' \in {emitted, emitted \cup {op[c].id}}
    /\ return(c, "ok")
    /\ UNCHANGED <<registry, stores, calls, failures, op>>

----------------------------------------------------------------------------
(* SideEffect *)

\* SideEffect finds the instance and runs the function, which may fail.
SideEffect(c) ==
    LET a == op[c].at IN
    /\ pc[c] = "effect"
    /\ \/ rows[a] = NoRow /\ return(c, "missing")
       \/ rows[a] # NoRow /\ return(c, "fn")
       \/ /\ rows[a] # NoRow
          /\ base' = [base EXCEPT ![c] = rows[a]]
          /\ goto(c, "effect_commit")
          /\ UNCHANGED answer
    /\ UNCHANGED <<registry, stores, calls, failures, op, emitted>>

\* The transaction that appends the result.
commitEffect(c) ==
    /\ pc[c] = "effect_commit"
    /\ writes(c)
    /\ return(c, "ok")
    /\ UNCHANGED <<registry, snaps, calls, failures, op, emitted>>

----------------------------------------------------------------------------
(* Failures *)

\* Mutant: an error of Create, Update or Commit is not returned.
Refused_ignored(c) ==
    /\ pc[c] \in Transactions
    /\ ~permitted(c)
    /\ return(c, "ok")
    /\ UNCHANGED <<registry, stores, calls, failures, op, emitted>>

\* Create meets a key in use, or Update an instance that has changed.
Refused(c) ==
    /\ pc[c] \in Transactions
    /\ ~permitted(c)
    /\ return(c, IF pc[c] = "commit" THEN "conflict" ELSE "duplicate")
    /\ UNCHANGED <<registry, stores, calls, failures, op, emitted>>

\* A store operation fails; a transaction is rolled back.
Fail(c) ==
    /\ pc[c] # "idle"
    /\ failures < MaxFailures
    /\ failures' = failures + 1
    /\ return(c, "failed")
    /\ UNCHANGED <<registry, stores, calls, op, emitted>>

\* The database commits, and its answer is lost.
CommitLost(c) ==
    /\ pc[c] \in Transactions
    /\ failures < MaxFailures
    /\ permitted(c) /\ writes(c)
    /\ failures' = failures + 1
    /\ return(c, "failed")
    /\ UNCHANGED <<registry, snaps, calls, op, emitted>>

\* The process dies and is started again, with an empty registry.
Restart ==
    /\ failures < MaxFailures
    /\ failures' = failures + 1
    /\ versions' = <<>>
    /\ latest' = <<>>
    /\ pc' = [c \in Callers |-> "idle"]
    /\ base' = [c \in Callers |-> NoRow]
    /\ answer' = [c \in Callers |-> IF pc[c] = "idle" THEN answer[c] ELSE "failed"]
    /\ UNCHANGED <<stores, calls, op, emitted>>

----------------------------------------------------------------------------

Step(c) ==
    \/ \E a \in Aggregates, kind \in {"transition", "snapshot", "effect"} :
          Begin(c, kind, a, NoRow)
    \/ \E a \in Aggregates, s \in snaps : Begin(c, "restore", a, s)
    \/ load(c) \/ createInstance(c) \/ commitTransition(c)
    \/ Snapshot(c) \/ Restore(c) \/ createRestored(c) \/ emitRestored(c)
    \/ SideEffect(c) \/ commitEffect(c)
    \/ Refused(c) \/ Fail(c) \/ CommitLost(c)

\* The clients have made all their calls.
Quiet ==
    /\ calls = MaxCalls
    /\ \A c \in Callers : pc[c] = "idle"
    /\ UNCHANGED vars

Next == \/ \E d \in Definitions : RegisterDefinition(d)
        \/ \E c \in Callers : Step(c)
        \/ Restart
        \/ Quiet

Spec == Init /\ [][Next]_vars

----------------------------------------------------------------------------
(* Properties *)

\* DetectSpawnCycles finds a cycle exactly when there is one, in whatever
\* order Go iterates over the definitions.
SearchExact ==
    calls = 0 =>
        \A d \in Definitions, order \in Orders :
            DetectSpawnCycles(registered \cup {d}, order) = Cyclic(registered \cup {d})

\* No instance takes the place of another: calls that create or restore one
\* for the same aggregate, or a snapshot restored twice, cannot overwrite it.
InstanceKept ==
    [][\A a \in Aggregates : rows[a] # NoRow => /\ rows'[a] # NoRow
                                                /\ rows'[a].id = rows[a].id
                                                /\ rows'[a].moves >= rows[a].moves]_vars

\* An instance continues on the machine it was created under: every event of
\* an aggregate, before and after a snapshot, a restore or a restart of the
\* process, was logged under a machine with the hash of the instance's own.
SameMachine ==
    \A a \in Aggregates : \A k \in DOMAIN log[a] : log[a][k].hash = rows[a].hash

\* SnapshotRestored is the first event of a restored instance, so its log
\* accounts for every transition made since; and it is emitted only when it
\* is logged.
RestoreFirst ==
    /\ \A a \in Aggregates : \A k \in DOMAIN log[a] : log[a][k].kind = "restore" => k = 1
    /\ \A id \in emitted : \E a \in Aggregates : log[a] # <<>> /\ log[a][1].call = id

\* What a call returned is what the event store says of it: success means that
\* its event is logged, once, and a refusal that it is not.
AnswerTruthful ==
    \A c \in {k \in Callers : answer[k] \notin {"none", "failed"}} :
        LET events == log[op[c].at]
            logged == {k \in DOMAIN events : events[k].call = op[c].id}
        IN  IF answer[c] = "ok" /\ op[c].kind # "snapshot"
            THEN Cardinality(logged) = 1 ELSE logged = {}

----------------------------------------------------------------------------
(* What the documentation says and the code does not keep *)

\* A snapshot may be restored to any aggregate that has no instance.
CloneRestores ==
    \A c \in Callers :
        op[c].kind = "restore" /\ answer[c] = "duplicate" => rows[op[c].at] # NoRow
=============================================================================
