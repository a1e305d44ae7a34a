--------------------------- MODULE SnapshotProofs ---------------------------
(***************************************************************************)
(* Theorems about module Snapshots, for any definitions, aggregates,       *)
(* callers and backups, and any number of calls, failures and restarts.    *)
(***************************************************************************)
EXTENDS Snapshots, Recursion, FiniteSetTheorems

----------------------------------------------------------------------------
(* Types *)

Steps == {"idle", "transition", "create", "commit", "snapshot", "restore",
          "restoring", "emit", "effect", "effect_commit"}

\* The registry keeps a definition under its own aggregate type and version.
RegistryOK ==
    /\ \A key \in DOMAIN versions :
          /\ versions[key] \in Definitions
          /\ key = <<versions[key].agg, versions[key].ver>>
    /\ \A agg \in DOMAIN latest : latest[agg] \in Definitions /\ latest[agg].agg = agg

Event == [call : Nat, kind : {"transition", "restore", "effect"},
          hash : {hash(d) : d \in Definitions}]

\* A call under way is about an aggregate; where it is about to commit, it has
\* a row in hand, and where it is about to restore, a snapshot.
Control(c) ==
    /\ pc[c] # "idle" => op[c].at \in Aggregates
    /\ pc[c] \in Transactions => base[c] \in Row
    /\ pc[c] = "restore" => op[c].snap.id \in Nat /\ op[c].snap.moves \in Nat

StoresOK ==
    /\ RegistryOK
    /\ rows \in [Aggregates -> Row \cup {NoRow}]
    /\ log \in [Aggregates -> Seq(Event)]
    /\ \A s \in snaps : s.id \in Nat /\ s.moves \in Nat
    /\ calls \in Nat

LocalsOK ==
    /\ pc \in [Callers -> Steps]
    /\ DOMAIN op = Callers /\ DOMAIN answer = Callers
    /\ base \in [Callers -> Row \cup {NoRow}]
    /\ \A c \in Callers : op[c].id \in Nat /\ Control(c)

TypeInv == StoresOK /\ LocalsOK

\* A definition has a version and a hash.
LEMMA DefinitionType ==
    ASSUME NEW d \in Definitions
    PROVE  d.ver \in Nat /\ d.ver # 0 /\ hash(d) \in {hash(e) : e \in Definitions}
  BY DefinitionsAssumption

\* What compiledFor finds is a definition of that aggregate type and, unless the
\* latest is asked for, of that version.
LEMMA CompiledType ==
    ASSUME RegistryOK, NEW agg, NEW ver, compiledFor(agg, ver) # NoDef
    PROVE  /\ compiledFor(agg, ver) \in Definitions
           /\ compiledFor(agg, ver).agg = agg
           /\ ver # 0 => compiledFor(agg, ver).ver = ver
  <1>1. CASE ver = 0
    BY <1>1 DEF RegistryOK, compiledFor
  <1>2. CASE ver # 0
    <2>1. /\ <<agg, ver>> \in DOMAIN versions
          /\ compiledFor(agg, ver) = versions[<<agg, ver>>]
      BY <1>2 DEF compiledFor
    <2>2. <<agg, ver>> = <<versions[<<agg, ver>>].agg, versions[<<agg, ver>>].ver>>
      BY <2>1 DEF RegistryOK
    <2>3. QED
      BY <2>1, <2>2 DEF RegistryOK
  <1>3. QED
    BY <1>1, <1>2

\* A row made for a definition is a row.
LEMMA RowType ==
    ASSUME NEW d \in Definitions, NEW id \in Nat, NEW n \in Nat
    PROVE  rowOf(id, d, n) \in Row
  BY DefinitionType DEF rowOf, Row

\* Register keeps the registry in order.
LEMMA RegisterType ==
    ASSUME RegistryOK, NEW d \in Definitions, Register(d)
    PROVE  RegistryOK'
  <1>1. /\ versions' = with(versions, <<d.agg, d.ver>>, d)
        /\ latest' = latest \/ latest' = with(latest, d.agg, d)
    BY DEF Register
  <1>2. ASSUME NEW key \in DOMAIN versions'
        PROVE  /\ versions'[key] \in Definitions
               /\ key = <<versions'[key].agg, versions'[key].ver>>
    BY <1>1, <1>2 DEF with, RegistryOK
  <1>3. ASSUME NEW agg \in DOMAIN latest'
        PROVE  latest'[agg] \in Definitions /\ latest'[agg].agg = agg
    BY <1>1, <1>3 DEF with, RegistryOK
  <1>4. QED
    BY <1>2, <1>3 DEF RegistryOK

----------------------------------------------------------------------------
(* What a step does to the stores *)

\* A caller puts row r in place of what the aggregate of its call has.
Puts(c, r) == rows' = [rows EXCEPT ![op[c].at] = r]

\* It appends its event.
Logs(c, kind) ==
    log' = [log EXCEPT ![op[c].at] = Append(@, event(c, kind, base[c].hash))]

\* What the transactions write, by the step of the call.
LEMMA WritesWhat ==
    ASSUME NEW c, writes(c)
    PROVE  /\ pc[c] = "create" => Puts(c, base[c]) /\ UNCHANGED log
           /\ pc[c] = "commit" => /\ Puts(c, [base[c] EXCEPT !.moves = @ + 1])
                                  /\ Logs(c, "transition")
           /\ pc[c] = "restoring" => Puts(c, base[c]) /\ Logs(c, "restore")
           /\ pc[c] = "effect_commit" => Logs(c, "effect") /\ UNCHANGED rows
  BY DEF writes, Puts, Logs

\* The caller's row is well typed, and so is its event.
LEMMA EventType ==
    ASSUME TypeInv, NEW c \in Callers, pc[c] \in Transactions,
           NEW kind \in {"transition", "restore", "effect"}
    PROVE  /\ op[c].at \in Aggregates /\ base[c] \in Row
           /\ event(c, kind, base[c].hash) \in Event
  <1>1. op[c].at \in Aggregates /\ base[c] \in Row /\ op[c].id \in Nat
    BY DEF TypeInv, LocalsOK, Control, Transactions
  <1>2. QED
    BY <1>1 DEF event, Event, Row

\* What a transaction writes is well typed.
LEMMA WritesType ==
    ASSUME TypeInv, NEW c \in Callers, pc[c] \in Transactions, writes(c)
    PROVE  rows' \in [Aggregates -> Row \cup {NoRow}] /\ log' \in [Aggregates -> Seq(Event)]
  <1>1. rows \in [Aggregates -> Row \cup {NoRow}] /\ log \in [Aggregates -> Seq(Event)]
    BY DEF TypeInv, StoresOK
  <1>2. ASSUME NEW kind \in {"transition", "restore", "effect"}, Logs(c, kind)
        PROVE  log' \in [Aggregates -> Seq(Event)]
    <2>1. event(c, kind, base[c].hash) \in Event /\ op[c].at \in Aggregates
      BY EventType
    <2>2. Append(log[op[c].at], event(c, kind, base[c].hash)) \in Seq(Event)
      BY <1>1, <2>1
    <2>3. QED
      BY <1>1, <1>2, <2>2 DEF Logs
  <1>3. base[c] \in Row /\ [base[c] EXCEPT !.moves = @ + 1] \in Row
    <2>1. base[c] \in Row
      BY EventType
    <2>2. QED
      BY <2>1 DEF Row
  <1>4. ASSUME NEW r \in Row, Puts(c, r) PROVE rows' \in [Aggregates -> Row \cup {NoRow}]
    BY <1>1, <1>4 DEF Puts
  <1>5. QED
    BY <1>1, <1>2, <1>3, <1>4, WritesWhat DEF Transactions

\* A call that returns leaves the callers' state well typed.
LEMMA ReturnType ==
    ASSUME LocalsOK, NEW c \in Callers, NEW r, return(c, r), UNCHANGED op
    PROVE  LocalsOK'
  <1>1. /\ pc' \in [Callers -> Steps] /\ base' \in [Callers -> Row \cup {NoRow}]
        /\ DOMAIN answer' = Callers /\ pc'[c] = "idle"
        /\ \A d \in Callers : d # c => pc'[d] = pc[d] /\ base'[d] = base[d]
    BY DEF LocalsOK, return, goto, Steps
  <1>2. QED
    BY <1>1 DEF LocalsOK, Control, Transactions

\* So does one that goes on with a row, or with the one it has.
LEMMA GotoType ==
    ASSUME LocalsOK, NEW c \in Callers, pc[c] # "idle",
           NEW step \in Steps \ {"idle", "restore"}, goto(c, step), UNCHANGED <<op, answer>>,
           NEW r \in Row \cup {NoRow}, base' = [base EXCEPT ![c] = r],
           step \in Transactions => r \in Row
    PROVE  LocalsOK'
  <1>1. /\ pc' \in [Callers -> Steps] /\ base' \in [Callers -> Row \cup {NoRow}]
        /\ pc'[c] = step /\ base'[c] = r
        /\ \A d \in Callers : d # c => pc'[d] = pc[d] /\ base'[d] = base[d]
    BY DEF LocalsOK, goto
  <1>2. QED
    BY <1>1 DEF LocalsOK, Control, Transactions

\* Every action of a caller keeps the types.
LEMMA StepType ==
    ASSUME TypeInv, NEW c \in Callers, Step(c)
    PROVE  TypeInv'
  <1> USE DEF TypeInv
  <1>1. ASSUME NEW a \in Aggregates, NEW kind \in Steps \ {"idle"}, NEW s,
               kind \notin Transactions,
               kind = "restore" => s.id \in Nat /\ s.moves \in Nat,
               Begin(c, kind, a, s)
        PROVE  TypeInv'
    <2>1. StoresOK'
      BY <1>1 DEF Begin, StoresOK, RegistryOK, registry, stores
    <2>2. op' = [op EXCEPT ![c] = [kind |-> kind, at |-> a, snap |-> s, id |-> calls + 1]]
      BY <1>1 DEF Begin
    <2>3. /\ op'[c] = [kind |-> kind, at |-> a, snap |-> s, id |-> calls + 1]
          /\ \A d \in Callers : d # c => op'[d] = op[d]
          /\ DOMAIN op' = Callers
      BY <2>2 DEF LocalsOK
    <2>4. /\ pc' \in [Callers -> Steps] /\ pc'[c] = kind
          /\ DOMAIN answer' = Callers /\ base' = base
          /\ \A d \in Callers : d # c => pc'[d] = pc[d]
      BY <1>1 DEF Begin, goto, LocalsOK
    <2>5. op'[c].id \in Nat /\ op'[c].at \in Aggregates /\ op'[c].snap = s
      BY <2>3 DEF StoresOK
    <2>6. ASSUME NEW d \in Callers PROVE op'[d].id \in Nat /\ Control(d)'
      <3>1. CASE d = c
        BY <1>1, <2>4, <2>5, <3>1 DEF Control, Transactions
      <3>2. CASE d # c
        BY <2>3, <2>4, <3>2 DEF LocalsOK, Control, Transactions
      <3>3. QED
        BY <3>1, <3>2
    <2>7. LocalsOK'
      BY <2>3, <2>4, <2>6 DEF LocalsOK
    <2>8. QED
      BY <2>1, <2>7
  <1>2. CASE load(c)
    <2> DEFINE a == op[c].at
               d == IF rows[a] = NoRow THEN compiledFor(a.type, 0) ELSE machine(a, rows[a])
               r == IF rows[a] = NoRow THEN rowOf(op[c].id, d, 0)
                    ELSE [rows[a] EXCEPT !.hash = hash(d)]
    <2>1. StoresOK'
      BY <1>2 DEF load, StoresOK, RegistryOK, registry, stores
    <2>2. CASE d = NoDef
      BY <1>2, <2>1, <2>2, ReturnType DEF load
    <2>3. CASE d # NoDef
      <3>1. pc[c] = "transition" /\ UNCHANGED <<op, answer>>
            /\ base' = [base EXCEPT ![c] = r]
            /\ goto(c, IF rows[a] = NoRow THEN "create" ELSE "commit")
        BY <1>2, <2>3 DEF load
      <3>2. a \in Aggregates /\ op[c].id \in Nat /\ rows[a] \in Row \cup {NoRow}
        BY <3>1 DEF LocalsOK, Control, StoresOK
      <3>3. d \in Definitions
        BY <2>3, CompiledType DEF machine, StoresOK
      <3> HIDE DEF d
      <3>4. r \in Row
        BY <3>2, <3>3, RowType, DefinitionType DEF Row
      <3> HIDE DEF r
      <3>5. LocalsOK'
        BY <3>1, <3>4, GotoType DEF Steps
      <3>6. QED
        BY <2>1, <3>5
    <2>4. QED
      BY <2>2, <2>3
  <1>3. CASE createInstance(c)
    <2>1. pc[c] = "create" /\ base[c] \in Row
      BY <1>3 DEF createInstance, LocalsOK, Control, Transactions
    <2>2. StoresOK'
      BY <1>3, <2>1, WritesType DEF createInstance, StoresOK, RegistryOK, registry, Transactions
    <2>3. LocalsOK'
      BY <1>3, <2>1, GotoType DEF createInstance, Steps, LocalsOK
    <2>4. QED
      BY <2>2, <2>3
  <1>4. CASE commitTransition(c) \/ commitEffect(c)
    <2>1. pc[c] \in Transactions /\ writes(c)
      BY <1>4 DEF commitTransition, commitEffect, Transactions
    <2>2. StoresOK'
      BY <1>4, <2>1, WritesType DEF commitTransition, commitEffect, StoresOK, RegistryOK, registry
    <2>3. LocalsOK'
      BY <1>4, ReturnType DEF commitTransition, commitEffect
    <2>4. QED
      BY <2>2, <2>3
  <1>5. CASE Snapshot(c)
    <2> DEFINE a == op[c].at
               d == IF rows[a] = NoRow THEN NoDef ELSE machine(a, rows[a])
    <2>1. LocalsOK'
      BY <1>5, ReturnType DEF Snapshot
    <2>2. /\ UNCHANGED <<registry, rows, log, calls>>
          /\ \/ snaps' = snaps
             \/ /\ rows[a] # NoRow
                /\ snaps' = snaps \cup {snapshotOf(a, rows[a], d)}
      BY <1>5 DEF Snapshot
    <2>3. rows[a] # NoRow => rows[a] \in Row
      BY <1>5 DEF Snapshot, LocalsOK, Control, StoresOK
    <2> HIDE DEF d
    <2>4. \A s \in snaps' : s.id \in Nat /\ s.moves \in Nat
      BY <2>2, <2>3 DEF StoresOK, snapshotOf, Row
    <2>5. QED
      BY <2>1, <2>2, <2>4 DEF StoresOK, RegistryOK, registry
  <1>6. CASE Restore(c)
    <2> DEFINE a == op[c].at
               s == op[c].snap
               d == compiledFor(a.type, s.ver)
    <2>1. StoresOK'
      BY <1>6 DEF Restore, StoresOK, RegistryOK, registry, stores
    <2>2. CASE return(c, "mismatch") \/ return(c, "exists")
      BY <1>6, <2>1, <2>2, ReturnType DEF Restore
    <2>3. CASE /\ d # NoDef /\ base' = [base EXCEPT ![c] = rowOf(s.id, d, s.moves)]
               /\ goto(c, "restoring") /\ UNCHANGED answer
      <3>1. pc[c] = "restore" /\ UNCHANGED op /\ s.id \in Nat /\ s.moves \in Nat
        BY <1>6 DEF Restore, LocalsOK, Control
      <3>2. d \in Definitions
        BY <2>3, CompiledType DEF StoresOK
      <3> HIDE DEF d, s
      <3>3. rowOf(s.id, d, s.moves) \in Row
        BY <3>1, <3>2, RowType
      <3>4. LocalsOK'
        BY <2>3, <3>1, <3>3, GotoType DEF Steps
      <3>5. QED
        BY <2>1, <3>4
    <2>4. QED
      BY <1>6, <2>2, <2>3 DEF Restore
  <1>7. CASE createRestored(c)
    <2>1. pc[c] = "restoring" /\ base[c] \in Row
      BY <1>7 DEF createRestored, LocalsOK, Control, Transactions
    <2>2. StoresOK'
      BY <1>7, <2>1, WritesType DEF createRestored, StoresOK, RegistryOK, registry, Transactions
    <2>3. LocalsOK'
      BY <1>7, <2>1, GotoType DEF createRestored, Steps, LocalsOK
    <2>4. QED
      BY <2>2, <2>3
  <1>8. CASE emitRestored(c) \/ Refused(c) \/ Fail(c)
    <2>1. LocalsOK'
      BY <1>8, ReturnType DEF emitRestored, Refused, Fail
    <2>2. StoresOK'
      BY <1>8 DEF emitRestored, Refused, Fail, StoresOK, RegistryOK, registry, stores
    <2>3. QED
      BY <2>1, <2>2
  <1>9. CASE SideEffect(c)
    <2>1. StoresOK' /\ UNCHANGED op
      BY <1>9 DEF SideEffect, StoresOK, RegistryOK, registry, stores
    <2>2. CASE return(c, "missing") \/ return(c, "fn")
      BY <2>1, <2>2, ReturnType
    <2>3. CASE /\ rows[op[c].at] # NoRow /\ base' = [base EXCEPT ![c] = rows[op[c].at]]
               /\ goto(c, "effect_commit") /\ UNCHANGED answer
      <3>1. pc[c] = "effect" /\ rows[op[c].at] \in Row
        BY <1>9, <2>3 DEF SideEffect, LocalsOK, Control, StoresOK
      <3>2. LocalsOK'
        BY <2>1, <2>3, <3>1, GotoType DEF Steps
      <3>3. QED
        BY <2>1, <3>2
    <2>4. QED
      BY <1>9, <2>2, <2>3 DEF SideEffect
  <1>10. CASE CommitLost(c)
    <2>1. LocalsOK'
      BY <1>10, ReturnType DEF CommitLost
    <2>2. StoresOK'
      BY <1>10, WritesType DEF CommitLost, StoresOK, RegistryOK, registry
    <2>3. QED
      BY <2>1, <2>2
  <1>11. ASSUME NEW a \in Aggregates, NEW kind \in {"transition", "snapshot", "effect"},
                Begin(c, kind, a, NoRow)
         PROVE  TypeInv'
    BY <1>1, <1>11 DEF Steps, Transactions
  <1>12. ASSUME NEW a \in Aggregates, NEW s \in snaps, Begin(c, "restore", a, s)
         PROVE  TypeInv'
    <2>1. s.id \in Nat /\ s.moves \in Nat
      BY DEF StoresOK
    <2>2. QED
      BY <1>1, <1>12, <2>1 DEF Steps, Transactions
  <1>13. QED
    BY <1>2, <1>3, <1>4, <1>5, <1>6, <1>7, <1>8, <1>9, <1>10, <1>11, <1>12 DEF Step

\* The type invariant holds initially.
LEMMA InitType == Init => TypeInv
  <1> SUFFICES ASSUME Init PROVE TypeInv
    OBVIOUS
  <1>1. StoresOK
    <2>1. RegistryOK
      BY DEF Init, RegistryInit, RegistryOK
    <2>2. QED
      BY <2>1, MarkersAssumption DEF Init, StoresOK
  <1>2. LocalsOK
    <2>1. /\ pc \in [Callers -> Steps] /\ base \in [Callers -> Row \cup {NoRow}]
          /\ DOMAIN answer = Callers /\ DOMAIN op = Callers
      BY DEF Init, Steps
    <2>2. \A c \in Callers : pc[c] = "idle" /\ op[c].id = 0
      BY DEF Init, NoCall
    <2>3. QED
      BY <2>1, <2>2 DEF LocalsOK, Control, Transactions
  <1>3. QED
    BY <1>1, <1>2 DEF TypeInv

\* Every step keeps the types.
LEMMA NextType == TypeInv /\ [Next]_vars => TypeInv'
  <1> SUFFICES ASSUME TypeInv, [Next]_vars PROVE TypeInv'
    OBVIOUS
  <1>1. CASE UNCHANGED vars
    BY <1>1 DEF vars, TypeInv, StoresOK, RegistryOK, LocalsOK, Control
  <1>2. ASSUME NEW d \in Definitions, RegisterDefinition(d) PROVE TypeInv'
    <2>1. RegistryOK'
      BY <1>2, RegisterType DEF RegisterDefinition, TypeInv, StoresOK
    <2>2. QED
      BY <1>2, <2>1 DEF RegisterDefinition, stores, TypeInv, StoresOK, LocalsOK, Control
  <1>3. CASE Restart
    <2>1. RegistryOK'
      BY <1>3 DEF Restart, RegistryOK
    <2>2. StoresOK'
      BY <1>3, <2>1 DEF Restart, stores, TypeInv, StoresOK
    <2>3. /\ pc' \in [Callers -> Steps] /\ base' \in [Callers -> Row \cup {NoRow}]
          /\ DOMAIN answer' = Callers /\ op' = op
          /\ \A c \in Callers : pc'[c] = "idle"
      BY <1>3 DEF Restart, Steps
    <2>5. LocalsOK'
      BY <2>3 DEF TypeInv, LocalsOK, Control, Transactions
    <2>4. QED
      BY <2>2, <2>5 DEF TypeInv
  <1>4. QED
    BY <1>1, <1>2, <1>3, StepType DEF Next, Quiet

----------------------------------------------------------------------------
(* What a call does to the others and to the stores *)

\* A caller's transaction, accepted by the database.
Transacts(c) == pc[c] \in Transactions /\ permitted(c) /\ writes(c)

\* A step of one caller leaves the others where they are, and changes instances
\* and events in a transaction only.
LEMMA Bystanders ==
    ASSUME TypeInv, NEW c \in Callers, Step(c)
    PROVE  /\ \A d \in Callers : d # c => /\ pc'[d] = pc[d] /\ op'[d] = op[d]
                                          /\ base'[d] = base[d] /\ answer'[d] = answer[d]
           /\ UNCHANGED <<rows, log>> \/ Transacts(c)
  <1> DEFINE Others == \A d \in Callers : d # c => /\ pc'[d] = pc[d] /\ op'[d] = op[d]
                                                   /\ base'[d] = base[d] /\ answer'[d] = answer[d]
  <1>1. ASSUME NEW r, return(c, r), UNCHANGED op PROVE Others
    BY <1>1 DEF return, goto, TypeInv, LocalsOK
  <1>2. ASSUME NEW step, goto(c, step), UNCHANGED <<op, answer>>,
               base' = base \/ \E r : base' = [base EXCEPT ![c] = r]
        PROVE  Others
    BY <1>2 DEF goto, TypeInv, LocalsOK
  <1>3. ASSUME NEW kind, NEW a, NEW s, Begin(c, kind, a, s)
        PROVE  Others /\ UNCHANGED <<rows, log>>
    BY <1>3 DEF Begin, goto, stores, TypeInv, LocalsOK
  <1> HIDE DEF Others
  <1>4. CASE load(c) \/ Restore(c)
    <2>1. CASE load(c)
      <3>1. UNCHANGED <<rows, log, op>>
        BY <2>1 DEF load, stores
      <3>2. CASE \E r : return(c, r)
        BY <1>1, <3>1, <3>2 DEF Others
      <3>3. CASE /\ \E step : goto(c, step)
                 /\ UNCHANGED answer /\ \E r : base' = [base EXCEPT ![c] = r]
        BY <1>2, <3>1, <3>3 DEF Others
      <3>4. QED
        BY <2>1, <3>2, <3>3 DEF load
    <2>2. CASE Restore(c)
      <3>1. UNCHANGED <<rows, log, op>>
        BY <2>2 DEF Restore, stores
      <3>2. CASE \E r : return(c, r)
        BY <1>1, <3>1, <3>2 DEF Others
      <3>3. CASE /\ \E step : goto(c, step)
                 /\ UNCHANGED answer /\ \E r : base' = [base EXCEPT ![c] = r]
        BY <1>2, <3>1, <3>3 DEF Others
      <3>4. QED
        BY <2>2, <3>2, <3>3 DEF Restore
    <2>3. QED
      BY <1>4, <2>1, <2>2
  <1>5. CASE createInstance(c) \/ createRestored(c)
    BY <1>2, <1>5 DEF createInstance, createRestored, Transacts, Transactions, Others
  <1>6. CASE commitTransition(c) \/ CommitLost(c)
    BY <1>1, <1>6 DEF commitTransition, CommitLost, Transacts, Transactions, Others
  <1>7. CASE commitEffect(c)
    BY <1>1, <1>7 DEF commitEffect, Transacts, Transactions, permitted, Others
  <1>8. CASE Snapshot(c)
    <2>1. UNCHANGED <<rows, log, op>> /\ \E r : return(c, r)
      BY <1>8 DEF Snapshot
    <2>2. QED
      BY <1>1, <2>1 DEF Others
  <1>9. CASE emitRestored(c) \/ Refused(c) \/ Fail(c)
    BY <1>1, <1>9 DEF emitRestored, Refused, Fail, stores, Others
  <1>10. CASE SideEffect(c)
    <2>1. UNCHANGED <<rows, log, op>>
      BY <1>10 DEF SideEffect, stores
    <2>2. CASE \E r : return(c, r)
      BY <1>1, <2>1, <2>2 DEF Others
    <2>3. CASE /\ \E step : goto(c, step)
               /\ UNCHANGED answer /\ \E r : base' = [base EXCEPT ![c] = r]
      BY <1>2, <2>1, <2>3 DEF Others
    <2>4. QED
      BY <1>10, <2>2, <2>3 DEF SideEffect
  <1>11. QED
    BY <1>3, <1>4, <1>5, <1>6, <1>7, <1>8, <1>9, <1>10 DEF Step, Others

----------------------------------------------------------------------------
(* An instance, once created, is only moved *)

\* A call about to write to an instance finds it, in the version it has read.
Loaded(c) ==
    pc[c] \in {"commit", "effect_commit"} =>
        rows[op[c].at] # NoRow /\ rows[op[c].at].ver = base[c].ver

\* An aggregate with events has an instance.
Housed(a) == rows[a] = NoRow => log[a] = <<>>

HouseInv == /\ \A a \in Aggregates : Housed(a)
            /\ \A c \in Callers : Loaded(c)

\* The instance of aggregate a, if there is one, is the same after the step.
Kept(a) ==
    rows[a] # NoRow => /\ rows'[a] # NoRow /\ rows'[a].id = rows[a].id
                       /\ rows'[a].ver = rows[a].ver /\ rows'[a].moves >= rows[a].moves

\* With unique keys a transaction never replaces an instance, and it leaves one
\* behind.
LEMMA TransactionKeeps ==
    ASSUME TypeInv, UniqueKey, NEW c \in Callers, Loaded(c), Transacts(c)
    PROVE  /\ \A a \in Aggregates : Kept(a)
           /\ pc[c] \in {"create", "restoring"} => rows[op[c].at] = NoRow
           /\ rows'[op[c].at] # NoRow
           /\ rows'[op[c].at].ver = base[c].ver
           /\ pc[c] \in {"create", "restoring"} => rows'[op[c].at] = base[c]
           /\ \A a \in Aggregates : a # op[c].at => rows'[a] = rows[a]
  <1> DEFINE at == op[c].at
  <1>1. /\ at \in Aggregates /\ base[c] \in Row /\ pc[c] \in Transactions
        /\ rows \in [Aggregates -> Row \cup {NoRow}]
    BY EventType DEF Transacts, TypeInv, StoresOK
  <1>2. base[c] # NoRow /\ base[c].moves \in Nat
    BY <1>1, MarkersAssumption DEF Row
  <1>3. /\ [base[c] EXCEPT !.moves = @ + 1].id = base[c].id
        /\ [base[c] EXCEPT !.moves = @ + 1].ver = base[c].ver
        /\ [base[c] EXCEPT !.moves = @ + 1].moves = base[c].moves + 1
        /\ [base[c] EXCEPT !.moves = @ + 1] \in Row
    BY <1>1 DEF Row
  <1>4. CASE pc[c] \in {"create", "restoring"}
    <2>1. rows[at] = NoRow
      BY <1>1, <1>4 DEF Transacts, permitted, taken
    <2>2. rows' = [rows EXCEPT ![at] = base[c]]
      BY <1>4, WritesWhat DEF Transacts, Puts
    <2>3. /\ rows'[at] = base[c]
          /\ \A a \in Aggregates : a # at => rows'[a] = rows[a]
      BY <1>1, <2>2
    <2>4. ASSUME NEW a \in Aggregates PROVE Kept(a)
      <3>1. CASE a = at
        BY <2>1, <3>1 DEF Kept
      <3>2. CASE a # at
        <4>1. rows[a] # NoRow => rows[a].moves \in Nat
          BY <1>1 DEF Row
        <4>2. QED
          BY <2>3, <3>2, <4>1 DEF Kept
      <3>3. QED
        BY <3>1, <3>2
    <2>5. QED
      BY <1>2, <2>1, <2>3, <2>4
  <1>5. CASE pc[c] = "commit"
    <2>1. rows[at].id = base[c].id /\ rows[at].moves = base[c].moves
          /\ rows[at].ver = base[c].ver
      BY <1>5 DEF Transacts, permitted, Loaded
    <2>2. rows' = [rows EXCEPT ![at] = [base[c] EXCEPT !.moves = @ + 1]]
      BY <1>5, WritesWhat DEF Transacts, Puts
    <2>3. /\ rows'[at] = [base[c] EXCEPT !.moves = @ + 1]
          /\ \A a \in Aggregates : a # at => rows'[a] = rows[a]
      BY <1>1, <2>2
    <2>4. rows'[at] # NoRow
      BY <1>3, <2>3, MarkersAssumption
    <2>5. ASSUME NEW a \in Aggregates PROVE Kept(a)
      <3>1. CASE a = at
        <4>1. rows'[at].moves >= rows[at].moves
          BY <1>2, <1>3, <2>1, <2>3
        <4>2. QED
          BY <1>3, <2>1, <2>3, <2>4, <3>1, <4>1 DEF Kept
      <3>2. CASE a # at
        <4>1. rows[a] # NoRow => rows[a].moves \in Nat
          BY <1>1 DEF Row
        <4>2. QED
          BY <2>3, <3>2, <4>1 DEF Kept
      <3>3. QED
        BY <3>1, <3>2
    <2>6. QED
      BY <1>3, <1>5, <2>3, <2>4, <2>5
  <1>6. CASE pc[c] = "effect_commit"
    <2>1. rows' = rows /\ rows[at] # NoRow /\ rows[at].ver = base[c].ver
      BY <1>6, WritesWhat DEF Transacts, Loaded
    <2>2. ASSUME NEW a \in Aggregates PROVE rows[a] # NoRow => rows[a].moves \in Nat
      BY <1>1 DEF Row
    <2>3. QED
      BY <1>6, <2>1, <2>2 DEF Kept
  <1>7. QED
    BY <1>1, <1>4, <1>5, <1>6 DEF Transactions

\* What a transaction appends, and to which log.
LEMMA TransactionLogs ==
    ASSUME TypeInv, NEW c \in Callers, Transacts(c)
    PROVE  /\ \A a \in Aggregates : a # op[c].at => log'[a] = log[a]
           /\ pc[c] = "create" => log' = log
           /\ pc[c] # "create" =>
                 \E kind \in {"transition", "restore", "effect"} :
                     /\ kind = "restore" <=> pc[c] = "restoring"
                     /\ log'[op[c].at] = Append(log[op[c].at], event(c, kind, base[c].hash))
  <1>1. op[c].at \in Aggregates /\ log \in [Aggregates -> Seq(Event)] /\ pc[c] \in Transactions
    BY EventType DEF Transacts, TypeInv, StoresOK
  <1>2. ASSUME NEW kind \in {"transition", "restore", "effect"}, Logs(c, kind)
        PROVE  /\ \A a \in Aggregates : a # op[c].at => log'[a] = log[a]
               /\ log'[op[c].at] = Append(log[op[c].at], event(c, kind, base[c].hash))
    BY <1>1, <1>2 DEF Logs
  <1>3. CASE pc[c] = "create"
    BY <1>3, WritesWhat DEF Transacts
  <1>4. CASE pc[c] = "commit"
    BY <1>2, <1>4, WritesWhat DEF Transacts
  <1>5. CASE pc[c] = "restoring"
    BY <1>2, <1>5, WritesWhat DEF Transacts
  <1>6. CASE pc[c] = "effect_commit"
    BY <1>2, <1>6, WritesWhat DEF Transacts
  <1>7. QED
    BY <1>1, <1>3, <1>4, <1>5, <1>6 DEF Transactions

\* How a call comes to hold a row: it takes one from the registry or the store,
\* or goes on with the one it has created.
TakesRow(c) ==
    LET a == op[c].at IN
    \/ \E d \in Definitions, id \in Nat, n \in Nat :
          /\ d.agg = a.type /\ base'[c] = rowOf(id, d, n)
          /\ rows[a] = NoRow /\ pc'[c] \in {"create", "restoring"}
    \/ \E d \in Definitions :
          /\ d = machine(a, rows[a]) /\ base'[c] = [rows[a] EXCEPT !.hash = hash(d)]
          /\ rows[a] # NoRow /\ pc'[c] = "commit"
    \/ base'[c] = rows[a] /\ rows[a] # NoRow /\ pc'[c] = "effect_commit"

\* Nothing else brings a call to a transaction.
LEMMA Arrives ==
    ASSUME TypeInv, NEW c \in Callers, Step(c), pc'[c] \in Transactions
    PROVE  /\ op' = op
           /\ \/ TakesRow(c) /\ UNCHANGED <<rows, log>>
              \/ Transacts(c) /\ pc[c] = "create" /\ pc'[c] = "commit" /\ base' = base
  <1> DEFINE a == op[c].at
  <1>1. ASSUME NEW step, goto(c, step) PROVE pc'[c] = step
    BY <1>1 DEF goto, TypeInv, LocalsOK
  <1>2. ASSUME NEW r, return(c, r) PROVE FALSE
    BY <1>1, <1>2 DEF return, Transactions
  <1>3. ASSUME NEW r, base' = [base EXCEPT ![c] = r] PROVE base'[c] = r
    BY <1>3 DEF TypeInv, LocalsOK
  <1>4. ASSUME NEW kind \in {"transition", "snapshot", "effect", "restore"}, NEW b, NEW s,
               Begin(c, kind, b, s)
        PROVE  FALSE
    BY <1>1, <1>4 DEF Begin, Transactions
  <1>5. CASE load(c)
    <2> DEFINE d == IF rows[a] = NoRow THEN compiledFor(a.type, 0) ELSE machine(a, rows[a])
               r == IF rows[a] = NoRow THEN rowOf(op[c].id, d, 0)
                    ELSE [rows[a] EXCEPT !.hash = hash(d)]
    <2>1. d # NoDef
      BY <1>2, <1>5 DEF load
    <2>2. /\ UNCHANGED <<op, rows, log>> /\ base' = [base EXCEPT ![c] = r]
          /\ goto(c, IF rows[a] = NoRow THEN "create" ELSE "commit")
      BY <1>5, <2>1 DEF load, stores
    <2>3. d \in Definitions /\ (rows[a] = NoRow => d.agg = a.type) /\ op[c].id \in Nat
      BY <2>1, CompiledType DEF machine, TypeInv, StoresOK, LocalsOK
    <2>4. d = IF rows[a] = NoRow THEN compiledFor(a.type, 0) ELSE machine(a, rows[a])
      OBVIOUS
    <2>5. r = IF rows[a] = NoRow THEN rowOf(op[c].id, d, 0) ELSE [rows[a] EXCEPT !.hash = hash(d)]
      OBVIOUS
    <2> HIDE DEF d, r
    <2>6. base'[c] = r /\ pc'[c] = IF rows[a] = NoRow THEN "create" ELSE "commit"
      BY <1>1, <1>3, <2>2
    <2>7. TakesRow(c)
      BY <2>3, <2>4, <2>5, <2>6 DEF TakesRow
    <2>8. QED
      BY <2>2, <2>7
  <1>6. CASE createInstance(c)
    <2>1. pc'[c] = "commit" /\ pc[c] = "create" /\ permitted(c) /\ writes(c)
          /\ op' = op /\ base' = base
      BY <1>1, <1>6 DEF createInstance
    <2>2. QED
      BY <2>1 DEF Transacts, Transactions
  <1>7. CASE createRestored(c)
    <2>1. pc'[c] = "emit"
      BY <1>1, <1>7 DEF createRestored
    <2>2. QED
      BY <2>1 DEF Transactions
  <1>8. CASE Restore(c)
    <2> DEFINE s == op[c].snap
               d == compiledFor(a.type, s.ver)
    <2>1. /\ d # NoDef /\ rows[a] = NoRow /\ UNCHANGED <<op, rows, log>>
          /\ base' = [base EXCEPT ![c] = rowOf(s.id, d, s.moves)]
          /\ goto(c, "restoring")
      BY <1>2, <1>8 DEF Restore, stores
    <2>2. d \in Definitions /\ d.agg = a.type
      BY <2>1, CompiledType DEF TypeInv, StoresOK
    <2>3. s.id \in Nat /\ s.moves \in Nat
      BY <1>8 DEF Restore, TypeInv, LocalsOK, Control
    <2>4. base'[c] = rowOf(s.id, d, s.moves) /\ pc'[c] = "restoring"
      BY <1>1, <1>3, <2>1
    <2> HIDE DEF d, s
    <2>5. TakesRow(c)
      BY <2>1, <2>2, <2>3, <2>4 DEF TakesRow
    <2>6. QED
      BY <2>1, <2>5
  <1>9. CASE SideEffect(c)
    <2>1. /\ rows[a] # NoRow /\ UNCHANGED <<op, rows, log>>
          /\ base' = [base EXCEPT ![c] = rows[a]] /\ goto(c, "effect_commit")
      BY <1>2, <1>9 DEF SideEffect, stores
    <2>2. TakesRow(c)
      BY <1>1, <1>3, <2>1 DEF TakesRow
    <2>3. QED
      BY <2>1, <2>2
  <1>10. CASE \/ commitTransition(c) \/ Snapshot(c) \/ emitRestored(c)
              \/ commitEffect(c) \/ Refused(c) \/ Fail(c) \/ CommitLost(c)
    BY <1>2, <1>10 DEF commitTransition, Snapshot, emitRestored, commitEffect, Refused, Fail,
       CommitLost
  <1>11. QED
    BY <1>4, <1>5, <1>6, <1>7, <1>8, <1>9, <1>10 DEF Step

\* A caller's step keeps the instances where they are.
LEMMA StepHouse ==
    ASSUME TypeInv, HouseInv, UniqueKey, NEW c \in Callers, Step(c)
    PROVE  HouseInv' /\ \A a \in Aggregates : Kept(a)
  <1>1. /\ rows \in [Aggregates -> Row \cup {NoRow}] /\ Loaded(c)
        /\ \A d \in Callers : pc[d] # "idle" => op[d].at \in Aggregates
    BY DEF TypeInv, StoresOK, LocalsOK, Control, HouseInv
  <1>2. ASSUME NEW a \in Aggregates PROVE Kept(a)
    <2>1. rows[a] # NoRow => rows[a].moves \in Nat
      BY <1>1 DEF Row
    <2>2. CASE UNCHANGED rows
      BY <2>1, <2>2 DEF Kept
    <2>3. CASE Transacts(c)
      BY <1>1, <2>3, TransactionKeeps
    <2>4. QED
      BY <2>2, <2>3, Bystanders
  <1>3. ASSUME NEW a \in Aggregates PROVE Housed(a)'
    <2>1. CASE UNCHANGED <<rows, log>>
      BY <2>1 DEF HouseInv, Housed
    <2>2. CASE Transacts(c)
      <3>1. CASE a = op[c].at
        BY <1>1, <2>2, <3>1, TransactionKeeps DEF Housed
      <3>2. CASE a # op[c].at
        <4>1. rows'[a] = rows[a] /\ log'[a] = log[a]
          BY <1>1, <2>2, <3>2, TransactionKeeps, TransactionLogs
        <4>2. QED
          BY <4>1 DEF HouseInv, Housed
      <3>3. QED
        BY <3>1, <3>2
    <2>3. QED
      BY <2>1, <2>2, Bystanders
  <1>4. ASSUME NEW d \in Callers PROVE Loaded(d)'
    <2>1. CASE d # c
      <3>1. pc'[d] = pc[d] /\ op'[d] = op[d] /\ base'[d] = base[d]
        BY <2>1, Bystanders
      <3>2. SUFFICES ASSUME pc[d] \in {"commit", "effect_commit"}
                     PROVE  rows'[op[d].at] # NoRow /\ rows'[op[d].at].ver = base[d].ver
        BY <3>1 DEF Loaded
      <3>3. op[d].at \in Aggregates
        BY <1>1, <3>2
      <3>4. Kept(op[d].at)
        BY <1>2, <3>3
      <3>5. QED
        BY <3>2, <3>4 DEF Kept, HouseInv, Loaded
    <2>2. CASE d = c
      <3>1. SUFFICES ASSUME pc'[c] \in {"commit", "effect_commit"}
                     PROVE  rows'[op'[c].at] # NoRow /\ rows'[op'[c].at].ver = base'[c].ver
        BY <2>2 DEF Loaded
      <3>2. pc'[c] \in Transactions
        BY <3>1 DEF Transactions
      <3>3. CASE TakesRow(c) /\ UNCHANGED rows
        <4>1. op' = op
          BY <3>2, Arrives
        <4>2. /\ rows[op[c].at] # NoRow
              /\ \/ base'[c] = rows[op[c].at]
                 \/ \E k \in Definitions : base'[c] = [rows[op[c].at] EXCEPT !.hash = hash(k)]
          BY <3>1, <3>3 DEF TakesRow
        <4>3. op[c].at \in Aggregates
          BY <3>2, <4>1, StepType DEF TypeInv, LocalsOK, Control, Transactions
        <4>4. rows[op[c].at] \in Row
          BY <1>1, <4>2, <4>3
        <4>5. base'[c].ver = rows[op[c].at].ver
          BY <4>2, <4>4 DEF Row
        <4>6. QED
          BY <3>3, <4>1, <4>2, <4>5
      <3>4. CASE Transacts(c) /\ base' = base /\ op' = op
        BY <1>1, <3>4, TransactionKeeps
      <3>5. QED
        BY <3>2, <3>3, <3>4, Arrives
    <2>3. QED
      BY <2>1, <2>2
  <1>5. QED
    BY <1>2, <1>3, <1>4 DEF HouseInv

\* Registering a definition, a restart and a stuttering step leave the stores as
\* they are, and every call where it is or given up.
LEMMA Elsewhere ==
    ASSUME TypeInv, [Next]_vars, ~ \E c \in Callers : Step(c)
    PROVE  /\ UNCHANGED <<rows, log, snaps, emitted, calls, op>>
           /\ \A c \in Callers : \/ pc'[c] = pc[c] /\ base'[c] = base[c] /\ answer'[c] = answer[c]
                                 \/ /\ pc'[c] = "idle"
                                    /\ answer'[c] = IF pc[c] = "idle" THEN answer[c] ELSE "failed"
  <1>1. CASE UNCHANGED vars
    BY <1>1 DEF vars
  <1>2. ASSUME NEW d \in Definitions, RegisterDefinition(d)
        PROVE  UNCHANGED <<rows, log, snaps, emitted, calls, op, pc, base, answer>>
    BY <1>2 DEF RegisterDefinition, stores
  <1>3. CASE Restart
    BY <1>3 DEF Restart, stores
  <1>4. QED
    BY <1>1, <1>2, <1>3 DEF Next, Quiet

\* Every step keeps every instance.
LEMMA NextHouse ==
    ASSUME UniqueKey, TypeInv, HouseInv, [Next]_vars
    PROVE  HouseInv' /\ \A a \in Aggregates : Kept(a)
  <1>1. CASE \E c \in Callers : Step(c)
    BY <1>1, StepHouse
  <1>2. CASE ~ \E c \in Callers : Step(c)
    <2>1. /\ UNCHANGED <<rows, log, op>>
          /\ \A c \in Callers : \/ pc'[c] = pc[c] /\ base'[c] = base[c]
                                \/ pc'[c] = "idle"
      BY <1>2, Elsewhere
    <2>2. HouseInv'
      BY <2>1 DEF HouseInv, Housed, Loaded
    <2>3. ASSUME NEW a \in Aggregates PROVE rows[a] # NoRow => rows[a].moves \in Nat
      BY DEF TypeInv, StoresOK, Row
    <2>4. QED
      BY <2>1, <2>2, <2>3 DEF Kept
  <1>3. QED
    BY <1>1, <1>2

\* Initially there are no instances and no calls.
LEMMA InitHouse == Init => HouseInv
  BY DEF Init, HouseInv, Housed, Loaded

\* No instance takes the place of another, whatever calls create, restore and
\* move it, as long as the store's keys are unique.
THEOREM InstanceKeptCorrect ==
    ASSUME UniqueKey
    PROVE  Spec => InstanceKept
  <1>1. TypeInv /\ HouseInv /\ [Next]_vars => TypeInv' /\ HouseInv'
    BY NextType, NextHouse
  <1>2. TypeInv /\ HouseInv /\ [Next]_vars =>
          [\A a \in Aggregates : rows[a] # NoRow => /\ rows'[a] # NoRow
                                                    /\ rows'[a].id = rows[a].id
                                                    /\ rows'[a].moves >= rows[a].moves]_vars
    BY NextHouse DEF Kept
  <1>3. QED
    BY <1>1, <1>2, InitType, InitHouse, PTL DEF Spec, InstanceKept

----------------------------------------------------------------------------
(* An instance stays on its machine *)

\* The row is one of a definition of the aggregate's type and the row's version.
Owned(a, r) == \E d \in Definitions : d.agg = a.type /\ d.ver = r.ver /\ r.hash = hash(d)

MachineInv ==
    /\ \A a \in Aggregates : rows[a] # NoRow => Owned(a, rows[a])
    /\ \A c \in Callers : pc[c] \in Transactions => Owned(op[c].at, base[c])

\* With stable versions, rows of one version have one hash.
LEMMA OneHash ==
    ASSUME VersionsStable, NEW a, NEW r, NEW q, Owned(a, r), Owned(a, q), r.ver = q.ver
    PROVE  r.hash = q.hash
  BY DEF VersionsStable, Owned

\* A call that takes a row takes one of the aggregate's type.
LEMMA TakenOwned ==
    ASSUME TypeInv, MachineInv, NEW c \in Callers, op[c].at \in Aggregates, TakesRow(c)
    PROVE  Owned(op[c].at, base'[c])
  <1> DEFINE a == op[c].at
  <1>1. rows[a] # NoRow => Owned(a, rows[a]) /\ rows[a] \in Row
    BY DEF MachineInv, TypeInv, StoresOK
  <1>2. ASSUME NEW d \in Definitions, NEW id \in Nat, NEW n \in Nat, d.agg = a.type,
               base'[c] = rowOf(id, d, n)
        PROVE  Owned(a, base'[c])
    BY <1>2 DEF Owned, rowOf
  <1>3. ASSUME NEW d \in Definitions, d = machine(a, rows[a]), rows[a] # NoRow,
               base'[c] = [rows[a] EXCEPT !.hash = hash(d)]
        PROVE  Owned(a, base'[c])
    <2>1. rows[a].ver # 0
      BY <1>1, <1>3, DefinitionType DEF Owned
    <2>2. d # NoDef
      BY MarkersAssumption
    <2>3. d.agg = a.type /\ d.ver = rows[a].ver
      BY <1>3, <2>1, <2>2, CompiledType DEF machine, TypeInv, StoresOK
    <2>4. base'[c].ver = rows[a].ver /\ base'[c].hash = hash(d)
      BY <1>1, <1>3 DEF Row
    <2>5. QED
      BY <2>3, <2>4 DEF Owned
  <1>4. QED
    BY <1>1, <1>2, <1>3 DEF TakesRow

\* What a transaction writes is of the aggregate's type.
LEMMA WrittenOwned ==
    ASSUME TypeInv, MachineInv, UniqueKey, NEW c \in Callers, Loaded(c), Transacts(c)
    PROVE  Owned(op[c].at, rows'[op[c].at])
  <1>1. /\ op[c].at \in Aggregates /\ base[c] \in Row /\ pc[c] \in Transactions
        /\ rows \in [Aggregates -> Row \cup {NoRow}] /\ Owned(op[c].at, base[c])
    BY EventType DEF Transacts, TypeInv, StoresOK, MachineInv
  <1>2. CASE pc[c] \in {"create", "restoring"}
    BY <1>1, <1>2, TransactionKeeps
  <1>3. CASE pc[c] = "commit"
    <2>1. rows'[op[c].at] = [base[c] EXCEPT !.moves = @ + 1]
      BY <1>1, <1>3, WritesWhat DEF Transacts, Puts
    <2>2. rows'[op[c].at].ver = base[c].ver /\ rows'[op[c].at].hash = base[c].hash
      BY <1>1, <2>1 DEF Row
    <2>3. QED
      BY <1>1, <2>2 DEF Owned
  <1>4. CASE pc[c] = "effect_commit"
    BY <1>1, <1>4, WritesWhat DEF Transacts, Loaded, MachineInv
  <1>5. QED
    BY <1>1, <1>2, <1>3, <1>4 DEF Transactions

\* Every step keeps the rows of their aggregates' types.
LEMMA NextMachine ==
    ASSUME UniqueKey, TypeInv, HouseInv, MachineInv, [Next]_vars
    PROVE  MachineInv'
  <1>1. ASSUME NEW c \in Callers, Step(c) PROVE MachineInv'
    <2>1. Loaded(c) /\ TypeInv'
      BY <1>1, StepType DEF HouseInv
    <2>2. ASSUME NEW a \in Aggregates, rows'[a] # NoRow PROVE Owned(a, rows'[a])
      <3>1. CASE UNCHANGED rows
        BY <2>2, <3>1 DEF MachineInv
      <3>2. CASE Transacts(c)
        <4>1. CASE a = op[c].at
          BY <2>1, <3>2, <4>1, WrittenOwned
        <4>2. CASE a # op[c].at
          BY <2>1, <2>2, <3>2, <4>2, TransactionKeeps DEF MachineInv
        <4>3. QED
          BY <4>1, <4>2
      <3>3. QED
        BY <1>1, <3>1, <3>2, Bystanders
    <2>3. ASSUME NEW d \in Callers, pc'[d] \in Transactions PROVE Owned(op'[d].at, base'[d])
      <3>1. CASE d # c
        BY <1>1, <2>3, <3>1, Bystanders DEF MachineInv
      <3>2. CASE d = c /\ TakesRow(c)
        <4>1. op' = op /\ op[c].at \in Aggregates
          BY <1>1, <2>1, <2>3, <3>2, Arrives DEF TypeInv, LocalsOK, Control, Transactions
        <4>2. QED
          BY <3>2, <4>1, TakenOwned
      <3>3. CASE d = c /\ Transacts(c) /\ base' = base /\ op' = op
        BY <3>3 DEF MachineInv, Transacts
      <3>4. QED
        BY <1>1, <2>3, <3>1, <3>2, <3>3, Arrives
    <2>4. QED
      BY <2>2, <2>3 DEF MachineInv
  <1>2. CASE ~ \E c \in Callers : Step(c)
    <2>1. /\ UNCHANGED <<rows, op>>
          /\ \A c \in Callers : \/ pc'[c] = pc[c] /\ base'[c] = base[c]
                                \/ pc'[c] = "idle"
      BY <1>2, Elsewhere
    <2>2. QED
      BY <2>1 DEF MachineInv, Transactions
  <1>3. QED
    BY <1>1, <1>2

\* Every step logs under the machine of the instance.
LEMMA NextSameMachine ==
    ASSUME UniqueKey, VersionsStable, TypeInv, HouseInv, MachineInv, SameMachine, [Next]_vars
    PROVE  SameMachine'
  <1>1. CASE UNCHANGED <<rows, log>>
    BY <1>1 DEF SameMachine
  <1>2. ASSUME NEW c \in Callers, Transacts(c) PROVE SameMachine'
    <2> DEFINE at == op[c].at
    <2>1. /\ at \in Aggregates /\ base[c] \in Row /\ pc[c] \in Transactions /\ Loaded(c)
          /\ Owned(at, base[c]) /\ log \in [Aggregates -> Seq(Event)]
      BY <1>2, EventType DEF Transacts, TypeInv, StoresOK, HouseInv, MachineInv
    <2>2. rows'[at].hash = base[c].hash
      BY <1>2, <2>1, TransactionKeeps, WrittenOwned, OneHash
    <2>3. ASSUME NEW k \in DOMAIN log[at] PROVE log[at][k].hash = rows'[at].hash
      <3>1. rows[at] # NoRow
        BY <2>1, <2>3 DEF HouseInv, Housed
      <3>2. Owned(at, rows[at]) /\ rows'[at].ver = rows[at].ver
        BY <1>2, <2>1, <3>1, TransactionKeeps DEF MachineInv, Kept
      <3>3. Owned(at, rows'[at])
        BY <1>2, <2>1, WrittenOwned
      <3>4. rows[at].hash = rows'[at].hash
        BY <3>2, <3>3, OneHash
      <3>5. QED
        BY <2>1, <3>4 DEF SameMachine
    <2>4. ASSUME NEW k \in DOMAIN log'[at] PROVE log'[at][k].hash = rows'[at].hash
      <3>1. CASE log' = log
        BY <2>3, <2>4, <3>1
      <3>2. ASSUME NEW kind, log'[at] = Append(log[at], event(c, kind, base[c].hash))
            PROVE  log'[at][k].hash = rows'[at].hash
        <4>1. event(c, kind, base[c].hash).hash = base[c].hash
          BY DEF event
        <4>2. log[at] \in Seq(Event)
          BY <2>1
        <4>3. \/ k \in DOMAIN log[at] /\ log'[at][k] = log[at][k]
              \/ log'[at][k] = event(c, kind, base[c].hash)
          BY <2>4, <3>2, <4>2
        <4>4. QED
          BY <2>2, <2>3, <4>1, <4>3
      <3>3. QED
        BY <1>2, <3>1, <3>2, TransactionLogs
    <2>5. ASSUME NEW a \in Aggregates, a # at PROVE rows'[a] = rows[a] /\ log'[a] = log[a]
      BY <1>2, <2>1, <2>5, TransactionKeeps, TransactionLogs
    <2>6. QED
      BY <2>4, <2>5 DEF SameMachine
  <1>3. QED
    BY <1>1, <1>2, Bystanders, Elsewhere

\* An instance continues on the machine it was created under, through snapshots,
\* restores and restarts: every event of an aggregate was logged under a machine
\* with the hash of the instance's own, when keys are unique and versions stable.
THEOREM SameMachineCorrect ==
    ASSUME UniqueKey, VersionsStable
    PROVE  Spec => []SameMachine
  <1> DEFINE Inv == TypeInv /\ HouseInv /\ MachineInv /\ SameMachine
  <1>1. Init => Inv
    <2>1. Init => MachineInv /\ SameMachine
      BY DEF Init, MachineInv, SameMachine, Transactions
    <2>2. QED
      BY <2>1, InitType, InitHouse
  <1>2. Inv /\ [Next]_vars => Inv'
    BY NextType, NextHouse, NextMachine, NextSameMachine
  <1>3. QED
    BY <1>1, <1>2, PTL DEF Spec

----------------------------------------------------------------------------
(* The logs *)

\* A step appends to the log of one aggregate at most, the event of a call that
\* has reached its transaction.
LEMMA LogsGrow ==
    ASSUME TypeInv, NEW c \in Callers, Step(c), NEW a \in Aggregates
    PROVE  \/ log'[a] = log[a]
           \/ /\ a = op[c].at /\ Transacts(c) /\ pc[c] # "create"
              /\ \E e \in Event : /\ e.call = op[c].id
                                  /\ e.kind = "restore" => pc[c] = "restoring"
                                  /\ log'[a] = Append(log[a], e)
  <1>1. CASE UNCHANGED log
    BY <1>1
  <1>2. CASE Transacts(c)
    <2>1. CASE a # op[c].at \/ pc[c] = "create"
      BY <1>2, <2>1, TransactionLogs
    <2>2. CASE a = op[c].at /\ pc[c] # "create"
      <3>1. PICK kind \in {"transition", "restore", "effect"} :
               /\ kind = "restore" <=> pc[c] = "restoring"
               /\ log'[a] = Append(log[a], event(c, kind, base[c].hash))
        BY <1>2, <2>2, TransactionLogs
      <3>2. event(c, kind, base[c].hash) \in Event
        BY <1>2, EventType DEF Transacts
      <3>3. /\ event(c, kind, base[c].hash).call = op[c].id
            /\ event(c, kind, base[c].hash).kind = kind
        BY DEF event
      <3>4. QED
        BY <1>2, <2>2, <3>1, <3>2, <3>3
    <2>3. QED
      BY <2>1, <2>2
  <1>3. QED
    BY <1>1, <1>2, Bystanders

\* A call that is about to emit its event has logged it first.
EmitInv ==
    /\ RestoreFirst
    /\ \A c \in Callers :
          pc[c] = "emit" => /\ log[op[c].at] # <<>>
                            /\ log[op[c].at][1].call = op[c].id

\* What brings a call to the bus, and what it emits there.
LEMMA Emits ==
    ASSUME TypeInv, NEW c \in Callers, Step(c)
    PROVE  /\ pc'[c] = "emit" => Transacts(c) /\ pc[c] = "restoring" /\ op' = op
           /\ \A id \in emitted' : id \in emitted \/ (pc[c] = "emit" /\ id = op[c].id)
  <1>1. ASSUME NEW step, goto(c, step) PROVE pc'[c] = step
    BY <1>1 DEF goto, TypeInv, LocalsOK
  <1>2. ASSUME NEW r, return(c, r) PROVE pc'[c] = "idle"
    BY <1>1, <1>2 DEF return
  <1>3. ASSUME NEW kind \in {"transition", "snapshot", "effect", "restore"}, NEW b, NEW s,
               Begin(c, kind, b, s)
        PROVE  emitted' = emitted /\ pc'[c] # "emit"
    BY <1>1, <1>3 DEF Begin
  <1>4. CASE createRestored(c)
    BY <1>4 DEF createRestored, Transacts, Transactions
  <1>5. CASE emitRestored(c)
    <2>1. pc'[c] = "idle" /\ pc[c] = "emit" /\ emitted' \in {emitted, emitted \cup {op[c].id}}
      BY <1>2, <1>5 DEF emitRestored
    <2>2. QED
      BY <2>1
  <1>6. CASE load(c) \/ Restore(c) \/ SideEffect(c)
    <2>1. emitted' = emitted
      BY <1>6 DEF load, Restore, SideEffect
    <2>2. CASE load(c)
      BY <1>1, <1>2, <2>1, <2>2 DEF load
    <2>3. CASE Restore(c)
      BY <1>1, <1>2, <2>1, <2>3 DEF Restore
    <2>4. CASE SideEffect(c)
      BY <1>1, <1>2, <2>1, <2>4 DEF SideEffect
    <2>5. QED
      BY <1>6, <2>2, <2>3, <2>4
  <1>7. CASE createInstance(c)
    BY <1>1, <1>7 DEF createInstance
  <1>8. CASE \/ commitTransition(c) \/ Snapshot(c) \/ commitEffect(c)
             \/ Refused(c) \/ Fail(c) \/ CommitLost(c)
    BY <1>2, <1>8 DEF commitTransition, Snapshot, commitEffect, Refused, Fail, CommitLost
  <1>9. QED
    BY <1>3, <1>4, <1>5, <1>6, <1>7, <1>8 DEF Step

\* Every step keeps the first event of a log first.
LEMMA NextEmit ==
    ASSUME UniqueKey, TypeInv, HouseInv, EmitInv, [Next]_vars
    PROVE  EmitInv'
  <1>0. log \in [Aggregates -> Seq(Event)]
    BY DEF TypeInv, StoresOK
  <1>1. ASSUME NEW c \in Callers, Step(c) PROVE EmitInv'
    <2>1. ASSUME NEW a \in Aggregates, log[a] # <<>>
          PROVE  log'[a] # <<>> /\ log'[a][1] = log[a][1]
      <3>1. ASSUME NEW e, log'[a] = Append(log[a], e)
            PROVE  log'[a] # <<>> /\ log'[a][1] = log[a][1]
        BY <1>0, <2>1, <3>1
      <3>2. QED
        BY <1>1, <2>1, <3>1, LogsGrow
    <2>2. ASSUME NEW a \in Aggregates, NEW k \in DOMAIN log'[a], log'[a][k].kind = "restore"
          PROVE  k = 1
      <3>1. CASE log'[a] = log[a]
        BY <2>2, <3>1 DEF EmitInv, RestoreFirst
      <3>2. ASSUME a = op[c].at, Transacts(c),
                   NEW e \in Event, e.kind = "restore" => pc[c] = "restoring",
                   log'[a] = Append(log[a], e)
            PROVE  k = 1
        <4>1. \/ k \in DOMAIN log[a] /\ log'[a][k] = log[a][k]
              \/ log'[a][k] = e
          BY <1>0, <2>2, <3>2
        <4>2. CASE log'[a][k] = e
          <5>1. pc[c] = "restoring"
            BY <2>2, <3>2, <4>2
          <5>2. rows[a] = NoRow
            BY <3>2, <5>1, TransactionKeeps DEF HouseInv
          <5>3. log[a] = <<>>
            BY <5>2 DEF HouseInv, Housed
          <5>4. QED
            BY <2>2, <3>2, <5>3
        <4>3. CASE k \in DOMAIN log[a] /\ log'[a][k] = log[a][k]
          BY <2>2, <4>3 DEF EmitInv, RestoreFirst
        <4>4. QED
          BY <4>1, <4>2, <4>3
      <3>3. QED
        BY <1>1, <3>1, <3>2, LogsGrow
    <2>3. ASSUME NEW d \in Callers, pc'[d] = "emit"
          PROVE  log'[op'[d].at] # <<>> /\ log'[op'[d].at][1].call = op'[d].id
      <3>1. CASE d # c
        <4>1. pc[d] = "emit" /\ op'[d] = op[d]
          BY <1>1, <2>3, <3>1, Bystanders
        <4>2. op[d].at \in Aggregates
          BY <4>1 DEF TypeInv, LocalsOK, Control
        <4>3. QED
          BY <2>1, <4>1, <4>2 DEF EmitInv
      <3>2. CASE d = c
        <4>1. Transacts(c) /\ pc[c] = "restoring" /\ op' = op
          BY <1>1, <2>3, <3>2, Emits
        <4>2. op[c].at \in Aggregates
          BY <4>1, EventType DEF Transacts
        <4>3. log[op[c].at] = <<>>
          BY <4>1, <4>2, TransactionKeeps DEF HouseInv, Housed
        <4>4. PICK e \in Event : e.call = op[c].id /\ log'[op[c].at] = Append(log[op[c].at], e)
          <5>1. PICK kind \in {"transition", "restore", "effect"} :
                   log'[op[c].at] = Append(log[op[c].at], event(c, kind, base[c].hash))
            BY <4>1, TransactionLogs
          <5>2. event(c, kind, base[c].hash) \in Event
            BY <4>1, EventType DEF Transacts
          <5>3. event(c, kind, base[c].hash).call = op[c].id
            BY DEF event
          <5>4. QED
            BY <5>1, <5>2, <5>3
        <4>5. log'[op[c].at] = <<e>>
          BY <4>3, <4>4
        <4>6. QED
          BY <3>2, <4>1, <4>4, <4>5
      <3>3. QED
        BY <3>1, <3>2
    <2>4. ASSUME NEW id \in emitted'
          PROVE  \E a \in Aggregates : log'[a] # <<>> /\ log'[a][1].call = id
      <3>1. CASE id \in emitted
        BY <2>1, <3>1 DEF EmitInv, RestoreFirst
      <3>2. CASE pc[c] = "emit" /\ id = op[c].id
        <4>1. op[c].at \in Aggregates
          BY <3>2 DEF TypeInv, LocalsOK, Control
        <4>2. QED
          BY <2>1, <3>2, <4>1 DEF EmitInv
      <3>3. QED
        BY <1>1, <3>1, <3>2, Emits
    <2>5. QED
      BY <2>2, <2>3, <2>4 DEF EmitInv, RestoreFirst
  <1>2. CASE ~ \E c \in Callers : Step(c)
    <2>1. /\ UNCHANGED <<log, emitted, op>>
          /\ \A c \in Callers : pc'[c] = pc[c] \/ pc'[c] = "idle"
      BY <1>2, Elsewhere
    <2>2. QED
      BY <2>1 DEF EmitInv, RestoreFirst
  <1>3. QED
    BY <1>1, <1>2

\* SnapshotRestored is the first event of a restored instance, and it is emitted
\* only when it is logged, as long as the store's keys are unique.
THEOREM RestoreFirstCorrect ==
    ASSUME UniqueKey
    PROVE  Spec => []RestoreFirst
  <1> DEFINE Inv == TypeInv /\ HouseInv /\ EmitInv
  <1>1. Init => Inv
    <2>1. Init => EmitInv
      BY DEF Init, EmitInv, RestoreFirst
    <2>2. QED
      BY <2>1, InitType, InitHouse
  <1>2. Inv /\ [Next]_vars => Inv'
    BY NextType, NextHouse, NextEmit
  <1>3. Inv => RestoreFirst
    BY DEF EmitInv
  <1>4. QED
    BY <1>1, <1>2, <1>3, PTL DEF Spec

----------------------------------------------------------------------------
(* What a call returned *)

\* No event of log l is of call id, or exactly one is.
Unlogged(l, id) == \A k \in DOMAIN l : l[k].call # id
LoggedOnce(l, id) ==
    \E k \in DOMAIN l : /\ l[k].call = id
                        /\ \A j \in DOMAIN l : l[j].call = id => j = k

\* Calls have numbers of their own, and events those of calls made.
NumbersInv ==
    /\ \A c \in Callers : op[c].id <= calls
    /\ \A c, d \in Callers : op[c].id = op[d].id /\ op[c].id # 0 => c = d
    /\ \A a \in Aggregates : \A k \in DOMAIN log[a] : log[a][k].call <= calls

\* Where the call numbered o.id stands, at step p, with answer r: its event is
\* logged at the end of its transaction and not before.
Stands(l, p, o, r) ==
    /\ o.id # 0 => o.at \in Aggregates
    /\ p # "idle" => /\ o.id # 0 /\ r = "none"
                     /\ (o.kind = "snapshot" <=> p = "snapshot")
                     /\ IF p = "emit" THEN LoggedOnce(l[o.at], o.id) ELSE Unlogged(l[o.at], o.id)
    /\ r \notin {"none", "failed"} =>
          /\ o.id # 0
          /\ IF r = "ok" /\ o.kind # "snapshot" THEN LoggedOnce(l[o.at], o.id)
             ELSE Unlogged(l[o.at], o.id)

AnswerInv == NumbersInv /\ \A c \in Callers : Stands(log, pc[c], op[c], answer[c])

\* The event of another call changes nothing for a call.
LEMMA AppendOther ==
    ASSUME NEW l \in Seq(Event), NEW e \in Event, NEW id, e.call # id
    PROVE  /\ Unlogged(l, id) => Unlogged(Append(l, e), id)
           /\ LoggedOnce(l, id) => LoggedOnce(Append(l, e), id)
  <1>1. /\ DOMAIN Append(l, e) = DOMAIN l \cup {Len(l) + 1}
        /\ Append(l, e)[Len(l) + 1] = e
        /\ \A k \in DOMAIN l : Append(l, e)[k] = l[k]
    OBVIOUS
  <1> DEFINE m == Append(l, e)
  <1> HIDE DEF m
  <1>2. /\ DOMAIN m = DOMAIN l \cup {Len(l) + 1} /\ m[Len(l) + 1] = e
        /\ \A k \in DOMAIN l : m[k] = l[k]
    BY <1>1 DEF m
  <1>3. Unlogged(l, id) => Unlogged(m, id)
    BY <1>2 DEF Unlogged
  <1>4. LoggedOnce(l, id) => LoggedOnce(m, id)
    BY <1>2 DEF LoggedOnce
  <1>5. QED
    BY <1>3, <1>4 DEF m

\* A call that had no event has one after it logs it.
LEMMA AppendOwn ==
    ASSUME NEW l \in Seq(Event), NEW e \in Event, Unlogged(l, e.call)
    PROVE  LoggedOnce(Append(l, e), e.call)
  <1> DEFINE m == Append(l, e)
             n == Len(l) + 1
  <1>1. /\ DOMAIN m = DOMAIN l \cup {n} /\ m[n] = e
        /\ \A k \in DOMAIN l : m[k] = l[k]
    OBVIOUS
  <1> HIDE DEF m, n
  <1>2. n \in DOMAIN m /\ m[n].call = e.call
    BY <1>1
  <1>3. \A j \in DOMAIN m : m[j].call = e.call => j = n
    BY <1>1 DEF Unlogged
  <1>4. LoggedOnce(m, e.call)
    BY <1>2, <1>3 DEF LoggedOnce
  <1>5. QED
    BY <1>4 DEF m

\* The numbers stay apart.
LEMMA StepNumbers ==
    ASSUME TypeInv, AnswerInv, NEW c \in Callers, Step(c)
    PROVE  NumbersInv'
  <1>0. /\ calls \in Nat /\ DOMAIN op = Callers /\ \A d \in Callers : op[d].id \in Nat
        /\ log \in [Aggregates -> Seq(Event)]
        /\ \A d \in Callers : op[d].id <= calls
        /\ \A d, e \in Callers : op[d].id = op[e].id /\ op[d].id # 0 => d = e
        /\ \A a \in Aggregates : \A k \in DOMAIN log[a] : log[a][k].call <= calls
    BY DEF TypeInv, StoresOK, LocalsOK, AnswerInv, NumbersInv
  <1>1. ASSUME NEW kind, NEW a, NEW s, Begin(c, kind, a, s) PROVE NumbersInv'
    <2>1. /\ calls' = calls + 1 /\ log' = log
          /\ op' = [op EXCEPT ![c] = [kind |-> kind, at |-> a, snap |-> s, id |-> calls + 1]]
      BY <1>1 DEF Begin, stores
    <2>2. op'[c].id = calls + 1 /\ \A d \in Callers : d # c => op'[d] = op[d]
      BY <1>0, <2>1
    <2>3. \A d \in Callers : op'[d].id <= calls'
      BY <1>0, <2>1, <2>2
    <2>4. ASSUME NEW d \in Callers, NEW e \in Callers, op'[d].id = op'[e].id, op'[d].id # 0
          PROVE  d = e
      <3>1. \A k \in Callers : k # c => op'[k].id <= calls /\ op'[k].id \in Nat
        BY <1>0, <2>2
      <3>2. CASE d # c /\ e # c
        BY <1>0, <2>2, <2>4, <3>2
      <3>3. CASE d = c \/ e = c
        BY <1>0, <2>2, <2>4, <3>1, <3>3
      <3>4. QED
        BY <3>2, <3>3
    <2>5. ASSUME NEW b \in Aggregates, NEW k \in DOMAIN log[b] PROVE log[b][k].call <= calls + 1
      <3>1. log[b] \in Seq(Event)
        BY <1>0
      <3>2. log[b][k] \in Event
        BY <2>5, <3>1
      <3>3. log[b][k].call <= calls /\ log[b][k].call \in Nat
        BY <1>0, <2>5, <3>2 DEF Event
      <3>4. QED
        BY <1>0, <3>3
    <2>6. QED
      BY <2>1, <2>3, <2>4, <2>5 DEF NumbersInv
  <1>2. CASE op' = op /\ calls' = calls
    <2>1. ASSUME NEW a \in Aggregates, NEW k \in DOMAIN log'[a] PROVE log'[a][k].call <= calls
      <3>1. CASE log'[a] = log[a]
        BY <1>0, <2>1, <3>1
      <3>2. ASSUME NEW e \in Event, e.call = op[c].id, log'[a] = Append(log[a], e)
            PROVE  log'[a][k].call <= calls
        <4>1. \/ log'[a][k] = e
              \/ k \in DOMAIN log[a] /\ log'[a][k] = log[a][k]
          BY <1>0, <2>1, <3>2
        <4>2. QED
          BY <1>0, <3>2, <4>1
      <3>3. QED
        BY <3>1, <3>2, LogsGrow
    <2>2. QED
      BY <1>0, <1>2, <2>1 DEF NumbersInv
  <1>3. \/ op' = op /\ calls' = calls
        \/ \E kind, a, s : Begin(c, kind, a, s)
    BY DEF Step, load, createInstance, commitTransition, Snapshot, Restore, createRestored,
       emitRestored, SideEffect, commitEffect, Refused, Fail, CommitLost
  <1>4. QED
    BY <1>1, <1>2, <1>3

\* The calls of the others stand as they stood.
LEMMA OthersStand ==
    ASSUME TypeInv, AnswerInv, NEW c \in Callers, Step(c), NEW d \in Callers, d # c
    PROVE  Stands(log', pc'[d], op'[d], answer'[d])
  <1> DEFINE l == log[op[d].at]
             m == log'[op[d].at]
             id == op[d].id
  <1>1. pc'[d] = pc[d] /\ op'[d] = op[d] /\ answer'[d] = answer[d]
    BY Bystanders
  <1>2. Stands(log, pc[d], op[d], answer[d])
    BY DEF AnswerInv
  <1>3. CASE id = 0
    BY <1>1, <1>2, <1>3 DEF Stands
  <1>4. CASE id # 0
    <2>1. op[d].at \in Aggregates /\ l \in Seq(Event)
      BY <1>2, <1>4 DEF Stands, TypeInv, StoresOK
    <2>2. (Unlogged(l, id) => Unlogged(m, id)) /\ (LoggedOnce(l, id) => LoggedOnce(m, id))
      <3>1. ASSUME NEW e \in Event, e.call = op[c].id, m = Append(l, e)
            PROVE  (Unlogged(l, id) => Unlogged(m, id)) /\ (LoggedOnce(l, id) => LoggedOnce(m, id))
        <4>1. op[c].id # id
          BY <1>4 DEF AnswerInv, NumbersInv
        <4>2. QED
          BY <2>1, <3>1, <4>1, AppendOther
      <3>2. QED
        BY <2>1, <3>1, LogsGrow
    <2>3. QED
      BY <1>1, <1>2, <2>2 DEF Stands
  <1>5. QED
    BY <1>3, <1>4

\* A call that goes on, without an event, stands as it should.
LEMMA GoesOn ==
    ASSUME TypeInv, NEW c \in Callers, Stands(log, pc[c], op[c], answer[c]),
           pc[c] \notin {"idle", "emit", "snapshot"}, UNCHANGED <<op, answer>>,
           log'[op[c].at] = log[op[c].at],
           NEW step, step \notin {"idle", "emit", "snapshot"}, goto(c, step)
    PROVE  Stands(log', pc'[c], op'[c], answer'[c])
  <1>1. pc'[c] = step
    BY DEF goto, TypeInv, LocalsOK
  <1>2. QED
    BY <1>1 DEF Stands

\* So does one that returns the reason why it has none.
LEMMA ReturnsNothing ==
    ASSUME TypeInv, NEW c \in Callers, Stands(log, pc[c], op[c], answer[c]),
           pc[c] \notin {"idle", "emit"}, UNCHANGED op, log'[op[c].at] = log[op[c].at],
           NEW r, r = "ok" => pc[c] = "snapshot", return(c, r)
    PROVE  Stands(log', pc'[c], op'[c], answer'[c])
  <1>1. pc'[c] = "idle" /\ answer'[c] = r
    BY DEF return, goto, TypeInv, LocalsOK
  <1>2. QED
    BY <1>1 DEF Stands

\* And one whose answer is that the store failed.
LEMMA ReturnsFailed ==
    ASSUME TypeInv, NEW c \in Callers, Stands(log, pc[c], op[c], answer[c]),
           UNCHANGED op, return(c, "failed")
    PROVE  Stands(log', pc'[c], op'[c], answer'[c])
  <1>1. pc'[c] = "idle" /\ answer'[c] = "failed"
    BY DEF return, goto, TypeInv, LocalsOK
  <1>2. QED
    BY <1>1 DEF Stands

\* A transaction logs the event of its call once.
LEMMA LogsItsCall ==
    ASSUME TypeInv, AnswerInv, NEW c \in Callers, Transacts(c), pc[c] # "create"
    PROVE  LoggedOnce(log'[op[c].at], op[c].id)
  <1> DEFINE l == log[op[c].at]
  <1>1. op[c].at \in Aggregates /\ pc[c] \in Transactions /\ l \in Seq(Event)
    BY EventType DEF Transacts, TypeInv, StoresOK
  <1>2. Unlogged(l, op[c].id)
    BY <1>1 DEF AnswerInv, Stands, Transactions
  <1>3. PICK kind \in {"transition", "restore", "effect"} :
           log'[op[c].at] = Append(l, event(c, kind, base[c].hash))
    BY TransactionLogs
  <1>4. event(c, kind, base[c].hash) \in Event
    BY <1>1, EventType
  <1>5. event(c, kind, base[c].hash).call = op[c].id
    BY DEF event
  <1>6. QED
    BY <1>1, <1>2, <1>3, <1>4, <1>5, AppendOwn

\* Every action of a caller leaves its call standing.
LEMMA CallerStands ==
    ASSUME TypeInv, AnswerInv, NEW c \in Callers, Step(c)
    PROVE  Stands(log', pc'[c], op'[c], answer'[c])
  <1>0. /\ Stands(log, pc[c], op[c], answer[c])
        /\ DOMAIN op = Callers /\ DOMAIN answer = Callers /\ DOMAIN pc = Callers
    BY DEF AnswerInv, TypeInv, LocalsOK
  <1>1. ASSUME NEW a \in Aggregates, NEW s,
               NEW kind \in {"transition", "snapshot", "effect", "restore"}, Begin(c, kind, a, s)
        PROVE  Stands(log', pc'[c], op'[c], answer'[c])
    <2>1. /\ op'[c] = [kind |-> kind, at |-> a, snap |-> s, id |-> calls + 1]
          /\ answer'[c] = "none" /\ pc'[c] = kind /\ log' = log
      BY <1>0, <1>1 DEF Begin, goto, stores
    <2>2. op'[c].id = calls + 1 /\ op'[c].at = a /\ op'[c].kind = kind
      BY <2>1
    <2>3. calls \in Nat /\ calls + 1 # 0
      BY DEF TypeInv, StoresOK
    <2>4. ASSUME NEW k \in DOMAIN log[a] PROVE log[a][k].call # calls + 1
      <3>1. log[a] \in Seq(Event)
        BY DEF TypeInv, StoresOK
      <3>2. log[a][k] \in Event
        BY <2>4, <3>1
      <3>3. log[a][k].call \in Nat /\ log[a][k].call <= calls
        BY <2>4, <3>2 DEF Event, AnswerInv, NumbersInv
      <3>4. QED
        BY <2>3, <3>3
    <2>5. Unlogged(log'[a], op'[c].id)
      BY <2>1, <2>2, <2>4 DEF Unlogged
    <2>6. QED
      BY <2>1, <2>2, <2>3, <2>5 DEF Stands
  <1>2. CASE load(c)
    <2>1. pc[c] = "transition" /\ UNCHANGED <<op, log>>
      BY <1>2 DEF load, stores
    <2>2. \/ return(c, "unregistered")
          \/ UNCHANGED answer /\ (goto(c, "create") \/ goto(c, "commit"))
      BY <1>2 DEF load
    <2>3. QED
      BY <1>0, <2>1, <2>2, ReturnsNothing, GoesOn
  <1>3. CASE createInstance(c)
    <2>1. /\ pc[c] = "create" /\ UNCHANGED <<op, answer>> /\ goto(c, "commit")
          /\ log' = log
      BY <1>3, WritesWhat DEF createInstance
    <2>2. QED
      BY <1>0, <2>1, GoesOn
  <1>4. CASE commitTransition(c) \/ commitEffect(c)
    <2>1. /\ Transacts(c) /\ pc[c] \in {"commit", "effect_commit"}
          /\ return(c, "ok") /\ op' = op
      BY <1>4 DEF commitTransition, commitEffect, Transacts, Transactions, permitted
    <2>2. LoggedOnce(log'[op[c].at], op[c].id)
      BY <2>1, LogsItsCall
    <2>3. pc'[c] = "idle" /\ answer'[c] = "ok"
      BY <1>0, <2>1 DEF return, goto
    <2>4. QED
      BY <1>0, <2>1, <2>2, <2>3 DEF Stands
  <1>5. CASE Snapshot(c)
    <2>1. /\ pc[c] = "snapshot" /\ UNCHANGED <<op, log>>
          /\ return(c, "missing") \/ return(c, "ok")
      BY <1>5 DEF Snapshot
    <2>2. QED
      BY <1>0, <2>1, ReturnsNothing
  <1>6. CASE Restore(c)
    <2>1. /\ pc[c] = "restore" /\ UNCHANGED <<op, log>>
          /\ \/ return(c, "mismatch") \/ return(c, "exists")
             \/ UNCHANGED answer /\ goto(c, "restoring")
      BY <1>6 DEF Restore, stores
    <2>2. QED
      BY <1>0, <2>1, ReturnsNothing, GoesOn
  <1>7. CASE createRestored(c)
    <2>1. Transacts(c) /\ pc[c] = "restoring" /\ goto(c, "emit") /\ UNCHANGED <<op, answer>>
      BY <1>7 DEF createRestored, Transacts, Transactions
    <2>2. LoggedOnce(log'[op[c].at], op[c].id)
      BY <2>1, LogsItsCall
    <2>3. pc'[c] = "emit"
      BY <1>0, <2>1 DEF goto
    <2>4. QED
      BY <1>0, <2>1, <2>2, <2>3 DEF Stands
  <1>8. CASE emitRestored(c)
    <2>1. pc[c] = "emit" /\ return(c, "ok") /\ UNCHANGED <<op, log>>
      BY <1>8 DEF emitRestored, stores
    <2>2. pc'[c] = "idle" /\ answer'[c] = "ok"
      BY <1>0, <2>1 DEF return, goto
    <2>3. QED
      BY <1>0, <2>1, <2>2 DEF Stands
  <1>9. CASE SideEffect(c)
    <2>1. /\ pc[c] = "effect" /\ UNCHANGED <<op, log>>
          /\ \/ return(c, "missing") \/ return(c, "fn")
             \/ UNCHANGED answer /\ goto(c, "effect_commit")
      BY <1>9 DEF SideEffect, stores
    <2>2. QED
      BY <1>0, <2>1, ReturnsNothing, GoesOn
  <1>10. CASE Refused(c)
    <2>1. /\ pc[c] \in Transactions /\ UNCHANGED <<op, log>>
          /\ return(c, "conflict") \/ return(c, "duplicate")
      BY <1>10 DEF Refused, stores
    <2>2. QED
      BY <1>0, <2>1, ReturnsNothing DEF Transactions
  <1>11. CASE Fail(c) \/ CommitLost(c)
    BY <1>0, <1>11, ReturnsFailed DEF Fail, CommitLost
  <1>12. QED
    BY <1>1, <1>2, <1>3, <1>4, <1>5, <1>6, <1>7, <1>8, <1>9, <1>10, <1>11 DEF Step

\* Every step keeps the answers and the logs in agreement.
LEMMA NextAnswer ==
    ASSUME TypeInv, AnswerInv, [Next]_vars
    PROVE  AnswerInv'
  <1>1. ASSUME NEW c \in Callers, Step(c) PROVE AnswerInv'
    <2>1. \A d \in Callers : Stands(log', pc'[d], op'[d], answer'[d])
      BY <1>1, OthersStand, CallerStands
    <2>2. QED
      BY <1>1, <2>1, StepNumbers DEF AnswerInv
  <1>2. CASE ~ \E c \in Callers : Step(c)
    <2>1. /\ UNCHANGED <<log, calls, op>>
          /\ \A c \in Callers : \/ pc'[c] = pc[c] /\ answer'[c] = answer[c]
                                \/ /\ pc'[c] = "idle"
                                   /\ answer'[c] = IF pc[c] = "idle" THEN answer[c] ELSE "failed"
      BY <1>2, Elsewhere
    <2>2. NumbersInv'
      BY <2>1 DEF AnswerInv, NumbersInv
    <2>3. ASSUME NEW d \in Callers PROVE Stands(log', pc'[d], op'[d], answer'[d])
      BY <2>1 DEF AnswerInv, Stands
    <2>4. QED
      BY <2>2, <2>3 DEF AnswerInv
  <1>3. QED
    BY <1>1, <1>2

\* What a call returned is what the event store says of it: success means that
\* its event is logged, once, and a refusal that it is not.  Nothing is assumed
\* of the store's keys.
THEOREM AnswerCorrect == Spec => []AnswerTruthful
  <1>1. Init => AnswerInv
    <2> SUFFICES ASSUME Init PROVE AnswerInv
      OBVIOUS
    <2>1. /\ \A c \in Callers : pc[c] = "idle" /\ op[c].id = 0 /\ answer[c] = "none"
          /\ \A a \in Aggregates : log[a] = <<>>
          /\ calls = 0
      BY DEF Init, NoCall
    <2>2. QED
      BY <2>1 DEF AnswerInv, NumbersInv, Stands
  <1>2. AnswerInv => AnswerTruthful
    <2> SUFFICES ASSUME AnswerInv, NEW c \in Callers, answer[c] \notin {"none", "failed"}
                 PROVE  LET events == log[op[c].at]
                            logged == {k \in DOMAIN events : events[k].call = op[c].id}
                        IN  IF answer[c] = "ok" /\ op[c].kind # "snapshot"
                            THEN Cardinality(logged) = 1 ELSE logged = {}
      BY DEF AnswerTruthful
    <2> DEFINE l == log[op[c].at]
               logged == {k \in DOMAIN l : l[k].call = op[c].id}
    <2>1. Stands(log, pc[c], op[c], answer[c])
      BY DEF AnswerInv
    <2>2. CASE answer[c] = "ok" /\ op[c].kind # "snapshot"
      <3>1. LoggedOnce(l, op[c].id)
        BY <2>1, <2>2 DEF Stands
      <3>2. PICK k : logged = {k}
        BY <3>1 DEF LoggedOnce
      <3>3. Cardinality(logged) = 1
        BY <3>2, FS_Singleton
      <3>4. QED
        BY <2>2, <3>3
    <2>3. CASE ~(answer[c] = "ok" /\ op[c].kind # "snapshot")
      <3>1. Unlogged(l, op[c].id)
        BY <2>1, <2>3 DEF Stands
      <3>2. logged = {}
        BY <3>1 DEF Unlogged
      <3>3. QED
        BY <2>3, <3>2
    <2>4. QED
      BY <2>2, <2>3
  <1>3. TypeInv /\ AnswerInv /\ [Next]_vars => TypeInv' /\ AnswerInv'
    BY NextType, NextAnswer
  <1>4. QED
    BY <1>1, <1>2, <1>3, InitType, PTL DEF Spec

----------------------------------------------------------------------------
(* The search for spawn cycles: its recursion has a solution *)

\* An order lists every type.
LEMMA OrderLists ==
    ASSUME NEW order \in Orders
    PROVE  /\ Len(order) \in Nat /\ \A i \in 1..Len(order) : order[i] \in Workflows
           /\ \A w \in Workflows : \E i \in 1..Len(order) : order[i] = w
  <1> DEFINE n == Cardinality(Workflows)
             D == 1..n
  <1>1. n \in Nat /\ IsFiniteSet(Workflows)
    BY WorkflowsAssumption, FS_CardinalityType
  <1>2. IsFiniteSet(D) /\ Cardinality(D) = n
    BY <1>1, FS_Interval
  <1>3. order \in [D -> Workflows] /\ \A i, j \in D : i # j => order[i] # order[j]
    BY DEF Orders, SetToSeqs
  <1>4. order \in Injection(D, Workflows)
    BY <1>3 DEF Injection, IsInjective
  <1>5. order \in Surjection(D, Workflows)
    BY <1>1, <1>2, <1>4, FS_Injection
  <1>6. \A w \in Workflows : \E i \in D : order[i] = w
    BY <1>5 DEF Surjection
  <1> HIDE DEF n
  <1>7. Len(order) = n
    BY <1>1, <1>3
  <1>8. QED
    BY <1>1, <1>3, <1>6, <1>7

Coloured(s, c) == {w \in Workflows : s.colour[w] = c}

\* How much a call has left to do: types not visited, then positions of the
\* order not looked at.
Rank(order, x) ==
    Cardinality(Coloured(x.state, 0)) * (Len(order) + 2) + ((Len(order) + 1) - x.next)

\* Fewer types count for more than any number of positions.
LEMMA RankArithmetic ==
    ASSUME NEW c \in Nat, NEW k \in Nat, NEW e \in Nat, e < c
    PROVE  (e * k) + k =< c * k
  <1>1. PICK f \in Nat : c = (e + 1) + f
    <2>1. c - (e + 1) \in Nat /\ c = (e + 1) + (c - (e + 1))
      OBVIOUS
    <2>2. QED
      BY <2>1
  <1>2. c * k = ((e * k) + k) + (f * k)
    BY <1>1
  <1>3. f * k \in Nat /\ e * k \in Nat
    OBVIOUS
  <1>4. QED
    BY <1>2, <1>3

\* Products of numbers are numbers.
LEMMA RankProduct ==
    ASSUME NEW c \in Nat, NEW k \in Nat
    PROVE  c * k \in Nat
  OBVIOUS

\* There are finitely many types of each colour.
LEMMA ColouredFinite ==
    ASSUME NEW s, NEW c
    PROVE  IsFiniteSet(Coloured(s, c)) /\ Cardinality(Coloured(s, c)) \in Nat
  <1>1. Coloured(s, c) \subseteq Workflows
    BY DEF Coloured
  <1>2. IsFiniteSet(Coloured(s, c))
    BY <1>1, WorkflowsAssumption, FS_Subset
  <1>3. QED
    BY <1>2, FS_CardinalityType

\* The rank of a call is a number, and bounded for all calls.
LEMMA RankBound ==
    ASSUME NEW order \in Orders, NEW x \in Visits(order)
    PROVE  /\ Rank(order, x) \in Nat
           /\ Rank(order, x) =< (Cardinality(Workflows) + 1) * (Len(order) + 2)
  <1> DEFINE n == Len(order)
             c == Cardinality(Coloured(x.state, 0))
             C == Cardinality(Workflows)
  <1>1. n \in Nat /\ x.next \in 1..(n + 1)
    BY OrderLists DEF Visits
  <1>2. c \in Nat /\ C \in Nat
    BY ColouredFinite, WorkflowsAssumption, FS_CardinalityType
  <1>3. c =< C
    <2>1. Coloured(x.state, 0) \subseteq Workflows
      BY DEF Coloured
    <2>2. QED
      BY <2>1, WorkflowsAssumption, FS_Subset
  <1>4. Rank(order, x) = (c * (n + 2)) + ((n + 1) - x.next)
    BY DEF Rank
  <1> HIDE DEF n, c, C
  <1>5. (c * (n + 2)) + (n + 2) =< (C + 1) * (n + 2)
    <2>1. n + 2 \in Nat /\ C + 1 \in Nat /\ c < C + 1
      BY <1>1, <1>2, <1>3
    <2> DEFINE k == n + 2
               e == C + 1
    <2> HIDE DEF k, e
    <2>2. (c * k) + k =< e * k
      BY <1>2, <2>1, RankArithmetic DEF k, e
    <2>3. QED
      BY <2>2 DEF k, e
  <1> DEFINE p == c * (n + 2)
             q == (C + 1) * (n + 2)
  <1>6. p \in Nat /\ q \in Nat
    BY <1>1, <1>2, RankProduct
  <1> HIDE DEF p, q
  <1>7. Rank(order, x) = p + ((n + 1) - x.next) /\ p + (n + 2) =< q
    BY <1>4, <1>5 DEF p, q
  <1>8. Rank(order, x) \in Nat /\ Rank(order, x) =< q
    BY <1>1, <1>6, <1>7
  <1>9. QED
    BY <1>8 DEF q, n, C

\* Going on with the same types not visited, and going on with fewer.
LEMMA RankDown ==
    ASSUME NEW order \in Orders, NEW x \in Visits(order), NEW y \in Visits(order),
           \/ Coloured(y.state, 0) = Coloured(x.state, 0) /\ y.next = x.next + 1
           \/ /\ Coloured(y.state, 0) \subseteq Coloured(x.state, 0)
              /\ Coloured(y.state, 0) # Coloured(x.state, 0)
    PROVE  Rank(order, y) < Rank(order, x)
  <1> DEFINE n == Len(order)
             c == Cardinality(Coloured(x.state, 0))
             e == Cardinality(Coloured(y.state, 0))
             k == n + 2
  <1>1. n \in Nat /\ x.next \in 1..(n + 1) /\ y.next \in 1..(n + 1)
    BY OrderLists DEF Visits
  <1>2. c \in Nat /\ e \in Nat /\ k \in Nat
    BY <1>1, ColouredFinite
  <1>3. /\ Rank(order, x) = (c * k) + ((n + 1) - x.next)
        /\ Rank(order, y) = (e * k) + ((n + 1) - y.next)
    BY DEF Rank
  <1>4. k = n + 2
    OBVIOUS
  <1>5. CASE Coloured(y.state, 0) = Coloured(x.state, 0) /\ y.next = x.next + 1
    <2>1. e = c
      BY <1>5
    <2> DEFINE p == c * k
    <2>2. p \in Nat
      BY <1>2, RankProduct
    <2> HIDE DEF p, n, k, c, e
    <2>3. Rank(order, x) = p + ((n + 1) - x.next) /\ Rank(order, y) = p + ((n + 1) - y.next)
      BY <1>3, <2>1 DEF p
    <2>4. QED
      BY <1>1, <1>5, <2>2, <2>3
  <1>6. CASE /\ Coloured(y.state, 0) \subseteq Coloured(x.state, 0)
             /\ Coloured(y.state, 0) # Coloured(x.state, 0)
    <2>1. e < c
      <3>1. IsFiniteSet(Coloured(x.state, 0))
        BY ColouredFinite
      <3>2. e =< c /\ e # c
        BY <1>6, <3>1, FS_Subset
      <3>3. QED
        BY <1>2, <3>2
    <2> DEFINE p == c * k
               q == e * k
    <2> HIDE DEF n, k, c, e
    <2>2. q + k =< p
      BY <1>2, <2>1, RankArithmetic
    <2>3. p \in Nat /\ q \in Nat
      BY <1>2, RankProduct
    <2> HIDE DEF p, q
    <2>4. Rank(order, x) = p + ((n + 1) - x.next) /\ Rank(order, y) = q + ((n + 1) - y.next)
      BY <1>3 DEF p, q
    <2>5. QED
      BY <1>1, <1>4, <2>2, <2>3, <2>4
  <1>7. QED
    BY <1>5, <1>6

\* What painting a type changes.
LEMMA Painted ==
    ASSUME NEW s \in Search, NEW w \in Workflows, NEW c \in 0..2
    PROVE  /\ paint(s, w, c) \in Search
           /\ paint(s, w, c).cycle = s.cycle
           /\ \A v \in Workflows : paint(s, w, c).colour[v] = IF v = w THEN c ELSE s.colour[v]
  BY DEF paint, Search

\* The call of dfs on a type not visited yet has less to do.
LEMMA VisitDown ==
    ASSUME NEW order \in Orders, NEW x \in Visits(order), NEW v \in Workflows,
           x.state.colour[v] = 0
    PROVE  /\ visit(v, x.state) \in Visits(order)
           /\ Rank(order, visit(v, x.state)) < Rank(order, x)
           /\ Coloured(visit(v, x.state).state, 0) = Coloured(x.state, 0) \ {v}
  <1> DEFINE s == x.state
             t == paint(s, v, 1)
             y == visit(v, s)
  <1>1. s \in Search /\ Len(order) \in Nat
    BY OrderLists DEF Visits
  <1>2. t \in Search /\ \A u \in Workflows : t.colour[u] = IF u = v THEN 1 ELSE s.colour[u]
    <2>1. 1 \in 0..2
      OBVIOUS
    <2> HIDE DEF s
    <2>2. QED
      BY <1>1, <2>1, Painted
  <1>3. y.node = v /\ y.next = 1 /\ y.state = t
    BY DEF visit
  <1>4. y \in Visits(order)
    BY <1>1, <1>2 DEF visit, Visits
  <1>5. Coloured(t, 0) = Coloured(s, 0) \ {v} /\ v \in Coloured(s, 0)
    <2> HIDE DEF t
    <2>1. QED
      BY <1>2 DEF Coloured
  <1> HIDE DEF t, y
  <1>6. Rank(order, y) < Rank(order, x)
    BY <1>3, <1>4, <1>5, RankDown
  <1>7. QED
    BY <1>3, <1>4, <1>5, <1>6 DEF y

\* What is left after the next type.
rest(x, t) == [node |-> x.node, next |-> x.next + 1, state |-> t]

\* What is left after the next type is less.
LEMMA RestDown ==
    ASSUME NEW order \in Orders, NEW x \in Visits(order), x.next =< Len(order),
           NEW t \in Search, Coloured(t, 0) \subseteq Coloured(x.state, 0)
    PROVE  rest(x, t) \in Visits(order) /\ Rank(order, rest(x, t)) < Rank(order, x)
  <1> DEFINE y == rest(x, t)
  <1>1. Len(order) \in Nat /\ x.node \in Workflows /\ x.next \in 1..(Len(order) + 1)
    BY OrderLists DEF Visits
  <1>2. y.node = x.node /\ y.next = x.next + 1 /\ y.state = t
    BY DEF rest
  <1>3. x.next + 1 \in 1..(Len(order) + 1)
    BY <1>1
  <1>4. y \in Visits(order)
    BY <1>1, <1>3 DEF rest, Visits
  <1> HIDE DEF y
  <1>5. Rank(order, y) < Rank(order, x)
    BY <1>2, <1>4, RankDown
  <1>6. QED
    BY <1>4, <1>5 DEF y

\* The functions in which the solution is sought: no call forgets a visit.
Candidates(order) ==
    {g \in [Visits(order) -> Search] :
        \A x \in Visits(order) : Coloured(g[x], 0) \subseteq Coloured(x.state, 0)}

\* What a call does depends on what smaller calls do.
LEMMA ExploreSmaller ==
    ASSUME NEW order \in Orders, NEW defs, NEW g \in Candidates(order), NEW h,
           NEW x \in Visits(order),
           \A y \in Visits(order) : Rank(order, y) < Rank(order, x) => g[y] = h[y]
    PROVE  /\ explore(defs, order, g, x) = explore(defs, order, h, x)
           /\ explore(defs, order, g, x) \in Search
           /\ Coloured(explore(defs, order, g, x), 0) \subseteq Coloured(x.state, 0)
  <1> DEFINE s == x.state
             v == order[x.next]
  <1>1. s \in Search /\ x.node \in Workflows /\ Len(order) \in Nat
        /\ x.next \in 1..(Len(order) + 1)
    BY OrderLists DEF Visits
  <1>2. \A f : explore(defs, order, f, x) =
                 IF s.cycle THEN s
                 ELSE IF x.next > Len(order) THEN paint(s, x.node, 2)
                 ELSE IF v \notin spawnedBy(defs, x.node) THEN f[rest(x, s)]
                 ELSE IF backEdge(s.colour[v]) THEN [s EXCEPT !.cycle = TRUE]
                 ELSE IF s.colour[v] = 0 THEN f[rest(x, f[visit(v, s)])] ELSE f[rest(x, s)]
    BY DEF explore, rest
  <1>3. \A y \in Visits(order) : g[y] \in Search /\ Coloured(g[y], 0) \subseteq Coloured(y.state, 0)
    BY DEF Candidates
  <1>4. CASE s.cycle
    BY <1>1, <1>2, <1>4
  <1>5. CASE ~s.cycle /\ x.next > Len(order)
    <2> DEFINE t == paint(s, x.node, 2)
    <2>1. t \in Search /\ \A u \in Workflows : t.colour[u] = IF u = x.node THEN 2 ELSE s.colour[u]
      <3>1. 2 \in 0..2
        OBVIOUS
      <3> HIDE DEF s
      <3>2. QED
        BY <1>1, <3>1, Painted
    <2> HIDE DEF t
    <2>2. Coloured(t, 0) \subseteq Coloured(s, 0)
      BY <2>1 DEF Coloured
    <2>3. explore(defs, order, g, x) = t /\ explore(defs, order, h, x) = t
      BY <1>2, <1>5 DEF t
    <2>4. QED
      BY <2>1, <2>2, <2>3
  <1>6. ASSUME ~s.cycle, ~(x.next > Len(order)) PROVE x.next =< Len(order) /\ v \in Workflows
    <2>1. x.next \in 1..Len(order)
      BY <1>1, <1>6
    <2>2. QED
      BY <1>1, <2>1, OrderLists
  <1>7. ASSUME NEW t \in Search, Coloured(t, 0) \subseteq Coloured(s, 0),
               ~s.cycle, ~(x.next > Len(order))
        PROVE  /\ g[rest(x, t)] = h[rest(x, t)]
               /\ g[rest(x, t)] \in Search
               /\ Coloured(g[rest(x, t)], 0) \subseteq Coloured(s, 0)
    <2>1. rest(x, t) \in Visits(order) /\ Rank(order, rest(x, t)) < Rank(order, x)
      BY <1>6, <1>7, RestDown
    <2>2. rest(x, t).state = t
      BY DEF rest
    <2>3. QED
      BY <1>3, <1>7, <2>1, <2>2
  <1>8. CASE ~s.cycle /\ ~(x.next > Len(order)) /\ v \notin spawnedBy(defs, x.node)
    BY <1>1, <1>2, <1>7, <1>8
  <1>9. CASE /\ ~s.cycle /\ ~(x.next > Len(order)) /\ v \in spawnedBy(defs, x.node)
             /\ backEdge(s.colour[v])
    <2> DEFINE t == [s EXCEPT !.cycle = TRUE]
    <2>1. t \in Search /\ t.colour = s.colour
      BY <1>1 DEF Search
    <2>2. Coloured(t, 0) = Coloured(s, 0)
      BY <2>1 DEF Coloured
    <2>3. explore(defs, order, g, x) = t /\ explore(defs, order, h, x) = t
      BY <1>2, <1>9
    <2>4. QED
      BY <2>1, <2>2, <2>3
  <1>10. CASE /\ ~s.cycle /\ ~(x.next > Len(order)) /\ v \in spawnedBy(defs, x.node)
              /\ ~backEdge(s.colour[v]) /\ s.colour[v] = 0
    <2> DEFINE y == visit(v, s)
               t == g[y]
    <2>1. /\ y \in Visits(order) /\ Rank(order, y) < Rank(order, x)
          /\ Coloured(y.state, 0) = Coloured(s, 0) \ {v}
      <3>1. v \in Workflows /\ x.state.colour[v] = 0
        BY <1>6, <1>10
      <3> HIDE DEF v
      <3>2. QED
        BY <3>1, VisitDown
    <2>2. t = h[y] /\ t \in Search /\ Coloured(t, 0) \subseteq Coloured(s, 0)
      BY <1>3, <2>1
    <2>3. /\ explore(defs, order, g, x) = g[rest(x, t)]
          /\ explore(defs, order, h, x) = h[rest(x, h[y])]
      BY <1>2, <1>10
    <2> HIDE DEF y, t
    <2>4. QED
      BY <1>7, <1>10, <2>2, <2>3
  <1>11. CASE /\ ~s.cycle /\ ~(x.next > Len(order)) /\ v \in spawnedBy(defs, x.node)
              /\ ~backEdge(s.colour[v]) /\ s.colour[v] # 0
    BY <1>1, <1>2, <1>7, <1>11
  <1>12. QED
    BY <1>4, <1>5, <1>8, <1>9, <1>10, <1>11

\* What the recursion of dfs says of a function.
IsDfs(defs, order, g) == g = [x \in Visits(order) |-> explore(defs, order, g, x)]

\* It has a solution.
LEMMA DfsExists ==
    ASSUME NEW order \in Orders, NEW defs
    PROVE  \E g : IsDfs(defs, order, g)
  <1> DEFINE X == Visits(order)
             G == Candidates(order)
             M == (Cardinality(Workflows) + 1) * (Len(order) + 2)
             mu == [x \in X |-> Rank(order, x)]
             F == [g \in G |-> [x \in X |-> explore(defs, order, g, x)]]
             g0 == [x \in X |-> x.state]
  <1>1. M \in Nat
    <2>1. Cardinality(Workflows) + 1 \in Nat /\ Len(order) + 2 \in Nat
      BY OrderLists, WorkflowsAssumption, FS_CardinalityType
    <2>2. QED
      BY <2>1, RankProduct
  <1>2. mu \in [X -> 0..M]
    <2>1. \A x \in X : Rank(order, x) \in 0..M
      <3> HIDE DEF M
      <3>1. \A x \in X : Rank(order, x) \in Nat /\ Rank(order, x) =< M
        BY RankBound DEF M
      <3>2. QED
        BY <1>1, <3>1
    <2> HIDE DEF M
    <2>2. QED
      BY <2>1
  <1>3. G \in SUBSET [X -> Search]
    BY DEF Candidates
  <1>4. g0 \in G
    BY DEF Candidates, Visits
  <1>5. ASSUME NEW g \in G PROVE F[g] \in G
    <2>1. \A x \in X : /\ explore(defs, order, g, x) \in Search
                       /\ Coloured(explore(defs, order, g, x), 0) \subseteq Coloured(x.state, 0)
      BY ExploreSmaller
    <2>2. F[g] = [x \in X |-> explore(defs, order, g, x)]
      OBVIOUS
    <2> HIDE DEF F
    <2>3. F[g] \in [X -> Search] /\ \A x \in X : F[g][x] = explore(defs, order, g, x)
      BY <2>1, <2>2
    <2>4. QED
      BY <2>1, <2>3 DEF Candidates
  <1>6. F \in [G -> G]
    BY <1>5
  <1>7. ASSUME NEW n \in Nat, NEW g \in G, NEW h \in G, AgreeBelow(X, mu, n, g, h)
        PROVE  AgreeBelow(X, mu, n + 1, F[g], F[h])
    <2>1. SUFFICES ASSUME NEW x \in X, mu[x] < n + 1 PROVE F[g][x] = F[h][x]
      BY DEF AgreeBelow
    <2>2. \A y \in X : Rank(order, y) \in Nat
      BY RankBound
    <2>3. \A y \in X : Rank(order, y) < n => g[y] = h[y]
      BY <1>7 DEF AgreeBelow
    <2>4. Rank(order, x) < n + 1
      BY <2>1
    <2>5. \A y \in X : Rank(order, y) < Rank(order, x) => g[y] = h[y]
      BY <2>2, <2>3, <2>4
    <2>6. explore(defs, order, g, x) = explore(defs, order, h, x)
      BY <2>5, ExploreSmaller
    <2>7. QED
      BY <2>6
  <1> HIDE DEF M, mu, F, g0
  <1>8. \E g \in G : F[g] = g
    <2> HIDE DEF X, G
    <2>1. Contracts(X, mu, G, F)
      BY <1>7 DEF Contracts
    <2>2. WellFounded(X, Search, G, F, g0, M, mu)
      BY <1>1, <1>2, <1>3, <1>4, <1>6, <2>1 DEF WellFounded
    <2>3. QED
      BY <2>2, Fixpoint
  <1>9. PICK g \in G : F[g] = g
    BY <1>8
  <1>10. QED
    BY <1>9 DEF F, IsDfs

----------------------------------------------------------------------------
(* The search is right *)

\* The types of S go on spawning each other.
Loop(defs, S) ==
    S # {} /\ S \subseteq Workflows /\ \A w \in S : spawnedBy(defs, w) \cap S # {}

\* Cyclic says that there is a loop.
LEMMA LoopCyclic ==
    ASSUME NEW defs
    PROVE  Cyclic(defs) <=> \E S : Loop(defs, S)
  BY DEF Cyclic, Loop

\* Black types spawn black types only, and never each other in a loop.
Settled(defs, s) ==
    /\ \A w \in Coloured(s, 2) : spawnedBy(defs, w) \subseteq Coloured(s, 2)
    /\ \A S : S \subseteq Coloured(s, 2) => ~Loop(defs, S)

\* Within A, v leads to node: all but node of some types between them spawn
\* another of them.
Leads(defs, v, node, A) ==
    \E S \in SUBSET A : /\ v \in S /\ node \in S
                        /\ \A w \in S \ {node} : spawnedBy(defs, w) \cap S # {}

\* When a call goes on: grey types lead to its node, what it has looked at is
\* black.
Before(defs, order, x) ==
    /\ ~x.state.cycle
    /\ x.node \in Coloured(x.state, 1)
    /\ Settled(defs, x.state)
    /\ \A v \in Coloured(x.state, 1) : Leads(defs, v, x.node, Coloured(x.state, 1))
    /\ \A i \in 1..(x.next - 1) :
          order[i] \in spawnedBy(defs, x.node) => order[i] \in Coloured(x.state, 2)

\* When it returns: it has found a loop, or its node and what it spawns are black
\* and the path is as it was before the call.
After(defs, x, r) ==
    /\ r \in Search
    /\ Coloured(r, 0) \subseteq Coloured(x.state, 0)
    /\ r.cycle => Cyclic(defs)
    /\ ~r.cycle => /\ Coloured(r, 1) = Coloured(x.state, 1) \ {x.node}
                   /\ Coloured(x.state, 2) \cup {x.node} \subseteq Coloured(r, 2)
                   /\ Settled(defs, r)

\* What painting a type does to the types of each colour.
LEMMA PaintColours ==
    ASSUME NEW s \in Search, NEW w \in Workflows, NEW c \in 1..2
    PROVE  /\ Coloured(paint(s, w, c), c) = Coloured(s, c) \cup {w}
           /\ \A e \in 0..2 : e # c => Coloured(paint(s, w, c), e) = Coloured(s, e) \ {w}
  <1> DEFINE t == paint(s, w, c)
  <1>1. \A v \in Workflows : t.colour[v] = IF v = w THEN c ELSE s.colour[v]
    <2>1. c \in 0..2
      OBVIOUS
    <2>2. QED
      BY <2>1, Painted
  <1> HIDE DEF t
  <1>2. Coloured(t, c) = Coloured(s, c) \cup {w}
    BY <1>1 DEF Coloured
  <1>3. ASSUME NEW e \in 0..2, e # c PROVE Coloured(t, e) = Coloured(s, e) \ {w}
    BY <1>1, <1>3 DEF Coloured
  <1>4. QED
    BY <1>2, <1>3 DEF t

\* A node whose types are all black may turn black.
LEMMA SettledGrows ==
    ASSUME NEW defs, NEW s, NEW t, NEW node, Settled(defs, s),
           Coloured(t, 2) = Coloured(s, 2) \cup {node}, node \notin Coloured(s, 2),
           spawnedBy(defs, node) \subseteq Coloured(s, 2)
    PROVE  Settled(defs, t)
  <1> DEFINE B == Coloured(s, 2)
  <1>1. /\ \A w \in B : spawnedBy(defs, w) \subseteq B
        /\ \A S : S \subseteq B => ~Loop(defs, S)
    BY DEF Settled
  <1> HIDE DEF B
  <1>2. B = Coloured(s, 2)
    BY DEF B
  <1>3. \A w \in B \cup {node} : spawnedBy(defs, w) \subseteq B
    BY <1>1, <1>2
  <1>4. ASSUME NEW S, S \subseteq B \cup {node}, Loop(defs, S) PROVE FALSE
    <2> DEFINE T == S \ {node}
    <2>1. T \subseteq B
      BY <1>4
    <2>2. S # {} /\ S \subseteq Workflows /\ \A w \in S : spawnedBy(defs, w) \cap S # {}
      BY <1>4 DEF Loop
    <2>3. \A w \in S : spawnedBy(defs, w) \cap T # {}
      BY <1>2, <1>3, <1>4, <2>2
    <2>4. T # {}
      BY <2>2, <2>3
    <2>5. Loop(defs, T)
      BY <2>2, <2>3, <2>4 DEF Loop
    <2>6. QED
      BY <1>1, <2>1, <2>5
  <1>5. QED
    BY <1>2, <1>3, <1>4 DEF Settled

\* All types have been looked at.
LEMMA CallEnds ==
    ASSUME NEW order \in Orders, NEW defs \in SUBSET Definitions, NEW x \in Visits(order),
           Before(defs, order, x), x.next > Len(order)
    PROVE  After(defs, x, paint(x.state, x.node, 2))
  <1> DEFINE s == x.state
             n == x.node
             t == paint(s, n, 2)
  <1>1. s \in Search /\ n \in Workflows /\ Len(order) \in Nat /\ x.next \in 1..(Len(order) + 1)
    BY OrderLists DEF Visits
  <1>2. /\ ~s.cycle /\ n \in Coloured(s, 1) /\ Settled(defs, s)
        /\ \A i \in 1..(x.next - 1) : order[i] \in spawnedBy(defs, n) => order[i] \in Coloured(s, 2)
    BY DEF Before
  <1>3. spawnedBy(defs, n) \subseteq Coloured(s, 2)
    <2>1. ASSUME NEW w \in spawnedBy(defs, n) PROVE w \in Coloured(s, 2)
      <3>1. w \in Workflows
        BY DEF spawnedBy, Workflows
      <3>2. PICK i \in 1..Len(order) : order[i] = w
        BY <3>1, OrderLists
      <3>3. i \in 1..(x.next - 1)
        BY <1>1
      <3>4. QED
        BY <1>2, <3>2, <3>3
    <2>2. QED
      BY <2>1
  <1> HIDE DEF s, n
  <1>4. t \in Search /\ t.cycle = s.cycle
    <2>1. 2 \in 0..2
      OBVIOUS
    <2>2. QED
      BY <1>1, <2>1, Painted
  <1>5. Coloured(t, 2) = Coloured(s, 2) \cup {n}
    <2>1. 2 \in 1..2
      OBVIOUS
    <2>2. QED
      BY <1>1, <2>1, PaintColours
  <1>6. Coloured(t, 0) = Coloured(s, 0) \ {n} /\ Coloured(t, 1) = Coloured(s, 1) \ {n}
    <2>1. 2 \in 1..2 /\ 0 \in 0..2 /\ 1 \in 0..2 /\ 0 # 2 /\ 1 # 2
      OBVIOUS
    <2>2. QED
      BY <1>1, <2>1, PaintColours
  <1> HIDE DEF t
  <1>7. n \notin Coloured(s, 2)
    BY <1>2 DEF Coloured
  <1>8. Settled(defs, t)
    BY <1>2, <1>3, <1>5, <1>7, SettledGrows
  <1>9. After(defs, x, t)
    BY <1>2, <1>4, <1>5, <1>6, <1>8 DEF After, s, n
  <1>10. QED
    BY <1>9 DEF t, s, n

\* A back edge closes a loop: the types between it and the node.
LEMMA BackEdgeLoop ==
    ASSUME NEW order \in Orders, NEW defs, NEW x \in Visits(order), Before(defs, order, x),
           NEW v \in spawnedBy(defs, x.node), v \in Coloured(x.state, 1)
    PROVE  Cyclic(defs)
  <1> DEFINE A == Coloured(x.state, 1)
  <1>1. PICK S \in SUBSET A : /\ v \in S /\ x.node \in S
                              /\ \A w \in S \ {x.node} : spawnedBy(defs, w) \cap S # {}
    BY DEF Before, Leads
  <1>2. A \subseteq Workflows
    BY DEF Coloured
  <1>3. Loop(defs, S)
    BY <1>1, <1>2 DEF Loop
  <1>4. QED
    BY <1>3, LoopCyclic

\* The call of dfs on a type not visited yet.
LEMMA CallBegins ==
    ASSUME NEW order \in Orders, NEW defs, NEW x \in Visits(order), Before(defs, order, x),
           NEW v \in Workflows, v \in spawnedBy(defs, x.node), v \in Coloured(x.state, 0)
    PROVE  Before(defs, order, visit(v, x.state))
  <1> DEFINE s == x.state
             t == paint(s, v, 1)
             y == visit(v, s)
             A == Coloured(s, 1)
             E == Coloured(t, 1)
  <1>1. s \in Search
    BY DEF Visits
  <1>2. /\ ~s.cycle /\ x.node \in A /\ Settled(defs, s)
        /\ \A u \in A : Leads(defs, u, x.node, A)
    BY DEF Before
  <1>3. v \notin Coloured(s, 2)
    BY DEF Coloured
  <1>4. y.node = v /\ y.next = 1 /\ y.state = t
    BY DEF visit
  <1> HIDE DEF s, y
  <1>5. t.cycle = s.cycle
    <2>1. 1 \in 0..2
      OBVIOUS
    <2>2. QED
      BY <1>1, <2>1, Painted
  <1>6. E = A \cup {v}
    <2>1. 1 \in 1..2
      OBVIOUS
    <2>2. QED
      BY <1>1, <2>1, PaintColours
  <1>7. Coloured(t, 2) = Coloured(s, 2)
    <2>1. 1 \in 1..2 /\ 2 \in 0..2 /\ 2 # 1
      OBVIOUS
    <2>2. Coloured(t, 2) = Coloured(s, 2) \ {v}
      BY <1>1, <2>1, PaintColours
    <2>3. QED
      BY <1>3, <2>2
  <1> HIDE DEF t, A, E
  <1>8. Settled(defs, t)
    BY <1>2, <1>7 DEF Settled
  <1>9. ASSUME NEW u \in E PROVE Leads(defs, u, v, E)
    <2>1. CASE u = v
      <3>1. {v} \in SUBSET E /\ \A w \in {v} \ {v} : spawnedBy(defs, w) \cap {v} # {}
        BY <1>6
      <3>2. QED
        BY <2>1, <3>1 DEF Leads
    <2>2. CASE u \in A
      <3>1. PICK S \in SUBSET A : /\ u \in S /\ x.node \in S
                                  /\ \A w \in S \ {x.node} : spawnedBy(defs, w) \cap S # {}
        BY <1>2, <2>2 DEF Leads
      <3> DEFINE T == S \cup {v}
      <3>2. T \in SUBSET E /\ u \in T /\ v \in T
        BY <1>6, <3>1
      <3>3. \A w \in T \ {v} : spawnedBy(defs, w) \cap T # {}
        BY <3>1
      <3> HIDE DEF T
      <3>4. QED
        BY <3>2, <3>3 DEF Leads
    <2>3. QED
      BY <1>6, <2>1, <2>2
  <1>10. Before(defs, order, y)
    <2>1. v \in E
      BY <1>6
    <2>2. \A i \in 1..(1 - 1) : order[i] \in spawnedBy(defs, v) => order[i] \in Coloured(t, 2)
      OBVIOUS
    <2>3. E = Coloured(t, 1)
      BY DEF E
    <2>4. QED
      BY <1>2, <1>4, <1>5, <1>8, <1>9, <2>1, <2>2, <2>3 DEF Before
  <1>11. QED
    BY <1>10 DEF y, s

\* The path is the same and what was black still is.
Goes(defs, x, t) ==
    /\ t \in Search /\ ~t.cycle /\ Settled(defs, t)
    /\ Coloured(t, 0) \subseteq Coloured(x.state, 0)
    /\ Coloured(t, 1) = Coloured(x.state, 1)
    /\ Coloured(x.state, 2) \subseteq Coloured(t, 2)

\* A call goes on after its next type, which is not one of its node's or black.
LEMMA CallGoesOn ==
    ASSUME NEW order \in Orders, NEW defs, NEW x \in Visits(order), Before(defs, order, x),
           x.next =< Len(order), NEW t, Goes(defs, x, t),
           order[x.next] \in spawnedBy(defs, x.node) => order[x.next] \in Coloured(t, 2)
    PROVE  Before(defs, order, rest(x, t))
  <1> DEFINE y == rest(x, t)
             s == x.state
             P(i) == order[i] \in spawnedBy(defs, x.node)
  <1>1. y.node = x.node /\ y.next = x.next + 1 /\ y.state = t
    BY DEF rest
  <1>2. Len(order) \in Nat /\ x.next \in 1..(Len(order) + 1)
    BY OrderLists DEF Visits
  <1>3. /\ ~t.cycle /\ Settled(defs, t) /\ Coloured(t, 1) = Coloured(s, 1)
        /\ Coloured(s, 2) \subseteq Coloured(t, 2)
    BY DEF Goes
  <1>4. /\ x.node \in Coloured(s, 1)
        /\ \A v \in Coloured(s, 1) : Leads(defs, v, x.node, Coloured(s, 1))
        /\ \A i \in 1..(x.next - 1) : P(i) => order[i] \in Coloured(s, 2)
    BY DEF Before
  <1>5. ASSUME NEW i \in 1..((x.next + 1) - 1), P(i) PROVE order[i] \in Coloured(t, 2)
    <2>1. CASE i = x.next
      BY <1>5, <2>1
    <2>2. CASE i # x.next
      <3>1. i \in 1..(x.next - 1)
        BY <1>2, <2>2
      <3>2. QED
        BY <1>3, <1>4, <1>5, <3>1
    <2>3. QED
      BY <2>1, <2>2
  <1> HIDE DEF y, s
  <1>6. QED
    BY <1>1, <1>3, <1>4, <1>5 DEF Before, y

\* What it then returns is what the call returns.
LEMMA CallReturns ==
    ASSUME NEW defs, NEW x, NEW t, NEW r, Goes(defs, x, t), After(defs, rest(x, t), r)
    PROVE  After(defs, x, r)
  <1>1. rest(x, t).node = x.node /\ rest(x, t).state = t
    BY DEF rest
  <1>2. /\ Coloured(t, 0) \subseteq Coloured(x.state, 0)
        /\ Coloured(t, 1) = Coloured(x.state, 1)
        /\ Coloured(x.state, 2) \subseteq Coloured(t, 2)
    BY DEF Goes
  <1>3. /\ r \in Search /\ Coloured(r, 0) \subseteq Coloured(t, 0)
        /\ r.cycle => Cyclic(defs)
        /\ ~r.cycle => /\ Coloured(r, 1) = Coloured(t, 1) \ {x.node}
                       /\ Coloured(t, 2) \cup {x.node} \subseteq Coloured(r, 2)
                       /\ Settled(defs, r)
    BY <1>1 DEF After
  <1>4. QED
    BY <1>2, <1>3 DEF After

\* A call returns what it should if smaller calls do.
LEMMA CallCorrect ==
    ASSUME NEW order \in Orders, NEW defs \in SUBSET Definitions, NEW f, IsDfs(defs, order, f),
           NEW x \in Visits(order), Before(defs, order, x),
           \A y \in Visits(order) :
               Rank(order, y) < Rank(order, x) /\ Before(defs, order, y) => After(defs, y, f[y])
    PROVE  After(defs, x, f[x])
  <1> DEFINE s == x.state
             n == x.node
             v == order[x.next]
  <1>1. /\ s \in Search /\ n \in Workflows /\ Len(order) \in Nat
        /\ x.next \in 1..(Len(order) + 1)
    BY OrderLists DEF Visits
  <1>2. \A y \in Visits(order) : f[y] = explore(defs, order, f, y)
    BY DEF IsDfs
  <1>3. f[x] = IF s.cycle THEN s
               ELSE IF x.next > Len(order) THEN paint(s, n, 2)
               ELSE IF v \notin spawnedBy(defs, n) THEN f[rest(x, s)]
               ELSE IF backEdge(s.colour[v]) THEN [s EXCEPT !.cycle = TRUE]
               ELSE IF s.colour[v] = 0 THEN f[rest(x, f[visit(v, s)])] ELSE f[rest(x, s)]
    BY <1>2 DEF explore, rest
  <1>4. ~s.cycle /\ Settled(defs, s)
    BY DEF Before
  <1>5. CASE x.next > Len(order)
    <2>1. f[x] = paint(s, n, 2)
      BY <1>3, <1>4, <1>5
    <2>2. QED
      BY <1>5, <2>1, CallEnds
  <1>6. ASSUME ~(x.next > Len(order)) PROVE x.next =< Len(order) /\ v \in Workflows
    <2>1. x.next \in 1..Len(order)
      BY <1>1, <1>6
    <2>2. QED
      BY <1>1, <2>1, OrderLists
  <1>7. ASSUME NEW t, Goes(defs, x, t), v \in spawnedBy(defs, n) => v \in Coloured(t, 2),
               ~(x.next > Len(order))
        PROVE  After(defs, x, f[rest(x, t)])
    <2> DEFINE y == rest(x, t)
    <2>1. t \in Search /\ Coloured(t, 0) \subseteq Coloured(s, 0)
      BY <1>7 DEF Goes
    <2>2. y \in Visits(order) /\ Rank(order, y) < Rank(order, x)
      BY <1>6, <1>7, <2>1, RestDown
    <2>3. Before(defs, order, y)
      BY <1>6, <1>7, CallGoesOn
    <2>4. After(defs, y, f[y])
      BY <2>2, <2>3
    <2>5. QED
      BY <1>7, <2>4, CallReturns
  <1>8. Goes(defs, x, s)
    BY <1>1, <1>4 DEF Goes
  <1> HIDE DEF s, n, v
  <1>9. CASE ~(x.next > Len(order)) /\ v \notin spawnedBy(defs, n)
    BY <1>3, <1>4, <1>7, <1>8, <1>9
  <1>10. CASE ~(x.next > Len(order)) /\ v \in spawnedBy(defs, n) /\ backEdge(s.colour[v])
    <2> DEFINE r == [s EXCEPT !.cycle = TRUE]
    <2>1. r \in Search /\ r.colour = s.colour /\ r.cycle
      BY <1>1 DEF Search
    <2>2. f[x] = r
      BY <1>3, <1>4, <1>10
    <2>3. v \in Workflows /\ v \in Coloured(s, 1)
      BY <1>6, <1>10 DEF backEdge, Coloured
    <2>4. Cyclic(defs)
      BY <1>10, <2>3, BackEdgeLoop DEF s, n
    <2>5. Coloured(r, 0) = Coloured(s, 0)
      BY <2>1 DEF Coloured
    <2> HIDE DEF r
    <2>6. QED
      BY <2>1, <2>2, <2>4, <2>5 DEF After, s
  <1>11. CASE /\ ~(x.next > Len(order)) /\ v \in spawnedBy(defs, n)
              /\ ~backEdge(s.colour[v]) /\ s.colour[v] = 0
    <2> DEFINE y == visit(v, s)
               t == f[y]
    <2>1. v \in Workflows /\ v \in Coloured(s, 0)
      BY <1>6, <1>11 DEF Coloured
    <2>2. /\ y \in Visits(order) /\ Rank(order, y) < Rank(order, x)
          /\ Coloured(y.state, 0) = Coloured(s, 0) \ {v}
      BY <1>11, <2>1, VisitDown DEF s
    <2>3. Before(defs, order, y)
      BY <1>11, <2>1, CallBegins DEF s, n
    <2>4. After(defs, y, t)
      BY <2>2, <2>3
    <2>5. f[x] = f[rest(x, t)]
      BY <1>3, <1>4, <1>11
    <2>6. y.node = v /\ y.state = paint(s, v, 1)
      BY DEF visit
    <2>7. Coloured(y.state, 1) = Coloured(s, 1) \cup {v}
      <3>1. 1 \in 1..2
        OBVIOUS
      <3>2. QED
        BY <1>1, <2>1, <2>6, <3>1, PaintColours
    <2>8. Coloured(y.state, 2) = Coloured(s, 2) \ {v}
      <3>1. 1 \in 1..2 /\ 2 \in 0..2 /\ 2 # 1
        OBVIOUS
      <3>2. QED
        BY <1>1, <2>1, <2>6, <3>1, PaintColours
    <2>9. v \notin Coloured(s, 1) /\ v \notin Coloured(s, 2)
      BY <2>1 DEF Coloured
    <2>10. /\ t \in Search /\ Coloured(t, 0) \subseteq Coloured(s, 0)
           /\ t.cycle => Cyclic(defs)
           /\ ~t.cycle => /\ Coloured(t, 1) = Coloured(s, 1)
                          /\ Coloured(s, 2) \cup {v} \subseteq Coloured(t, 2)
                          /\ Settled(defs, t)
      <3> DEFINE u == y.state
      <3> HIDE DEF y, t, u
      <3>1. After(defs, y, t) /\ u = y.state /\ y.node = v
        BY <2>4, <2>6 DEF u
      <3>2. /\ t \in Search /\ Coloured(t, 0) \subseteq Coloured(u, 0)
            /\ t.cycle => Cyclic(defs)
            /\ ~t.cycle => /\ Coloured(t, 1) = Coloured(u, 1) \ {v}
                           /\ Coloured(u, 2) \cup {v} \subseteq Coloured(t, 2)
                           /\ Settled(defs, t)
        BY <3>1 DEF After
      <3>3. /\ Coloured(u, 0) = Coloured(s, 0) \ {v} /\ Coloured(u, 1) = Coloured(s, 1) \cup {v}
            /\ Coloured(u, 2) = Coloured(s, 2) \ {v}
        BY <2>2, <2>7, <2>8 DEF u
      <3>4. QED
        BY <2>9, <3>2, <3>3
    <2> HIDE DEF y, t
    <2>11. CASE t.cycle
      <3>1. rest(x, t) \in Visits(order) /\ rest(x, t).state = t
        BY <1>6, <1>11, <2>10, RestDown DEF rest, s
      <3>2. f[rest(x, t)] = t
        BY <1>2, <2>11, <3>1 DEF explore
      <3>3. QED
        BY <2>5, <2>10, <2>11, <3>2 DEF After, s
    <2>12. CASE ~t.cycle
      <3>1. Goes(defs, x, t)
        BY <2>10, <2>12 DEF Goes, s
      <3>2. v \in Coloured(t, 2)
        BY <2>10, <2>12
      <3>3. QED
        BY <1>7, <1>11, <2>5, <3>1, <3>2
    <2>13. QED
      BY <2>11, <2>12
  <1>12. CASE /\ ~(x.next > Len(order)) /\ v \in spawnedBy(defs, n)
              /\ ~backEdge(s.colour[v]) /\ s.colour[v] # 0
    <2>1. v \in Workflows
      BY <1>6, <1>12
    <2>2. s.colour[v] \in 0..2
      BY <1>1, <2>1 DEF Search
    <2>3. v \in Coloured(s, 2)
      BY <1>12, <2>1, <2>2 DEF backEdge, Coloured
    <2>4. f[x] = f[rest(x, s)]
      BY <1>3, <1>4, <1>12
    <2>5. QED
      BY <1>7, <1>8, <1>12, <2>3, <2>4
  <1>13. QED
    BY <1>5, <1>9, <1>10, <1>11, <1>12

\* Every call returns what it should.
LEMMA DfsCorrect ==
    ASSUME NEW order \in Orders, NEW defs \in SUBSET Definitions, NEW f, IsDfs(defs, order, f),
           NEW x \in Visits(order), Before(defs, order, x)
    PROVE  After(defs, x, f[x])
  <1> DEFINE Bad(y) == y \in Visits(order) /\ Before(defs, order, y) /\ ~After(defs, y, f[y])
             B == {y \in Visits(order) : Bad(y)}
             S == {Rank(order, y) : y \in B}
  <1>1. SUFFICES ASSUME B # {} PROVE FALSE
    OBVIOUS
  <1>2. S \in SUBSET Nat /\ S # {}
    BY <1>1, RankBound
  <1>3. PICK m \in S : \A k \in S : m =< k
    <2> HIDE DEF S
    <2>1. QED
      BY <1>2, Least
  <1>4. PICK z \in B : m = Rank(order, z)
    BY <1>3
  <1>5. \A y \in Visits(order) : Rank(order, y) \in Nat
    BY RankBound
  <1>6. ASSUME NEW y \in Visits(order), Rank(order, y) < Rank(order, z), Before(defs, order, y)
        PROVE  After(defs, y, f[y])
    <2>1. SUFFICES ASSUME ~After(defs, y, f[y]) PROVE FALSE
      OBVIOUS
    <2>2. Rank(order, y) \in S
      BY <1>6, <2>1
    <2>3. QED
      BY <1>3, <1>4, <1>5, <1>6, <2>2
  <1>7. z \in Visits(order) /\ Before(defs, order, z) /\ ~After(defs, z, f[z])
    BY <1>4
  <1> HIDE DEF B, S
  <1>8. QED
    BY <1>6, <1>7, CallCorrect

----------------------------------------------------------------------------
(* The outer loop *)

\* What the recursion of the outer loop says of a function.
IsDone(defs, order, f, h) ==
    h = [k \in 0..Len(order) |-> IF k = 0 THEN white ELSE root(defs, f, order[k], h[k-1])]

\* It has a solution.
LEMMA DoneExists ==
    ASSUME NEW order \in Orders, NEW defs, NEW f
    PROVE  \E h : IsDone(defs, order, f, h)
  <1> DEFINE n == Len(order)
             Upto(m, h) == h = [k \in 0..m |-> IF k = 0 THEN white
                                               ELSE root(defs, f, order[k], h[k-1])]
             S == {m \in 0..n : \E h : Upto(m, h)}
  <1>1. n \in Nat
    BY OrderLists
  <1> HIDE DEF n
  <1>2. 0 \in S
    <2> DEFINE h == [k \in 0..0 |-> white]
    <2>1. Upto(0, h)
      OBVIOUS
    <2> HIDE DEF Upto
    <2>2. QED
      BY <1>1, <2>1
  <1>3. ASSUME NEW m \in 0..(n - 1), m \in S PROVE m + 1 \in S
    <2>1. PICK h : Upto(m, h)
      BY <1>3
    <2> DEFINE g == [k \in 0..(m + 1) |-> IF k = m + 1 THEN root(defs, f, order[m + 1], h[m])
                                          ELSE h[k]]
    <2>2. m \in Nat /\ m + 1 \in 0..n
      BY <1>1
    <2>3. ASSUME NEW k \in 0..(m + 1)
          PROVE  g[k] = IF k = 0 THEN white ELSE root(defs, f, order[k], g[k-1])
      <3>1. CASE k = m + 1
        <4>1. g[k] = root(defs, f, order[m + 1], h[m]) /\ k # 0 /\ k - 1 = m
          BY <2>2, <3>1
        <4>2. g[m] = h[m]
          BY <2>2
        <4> HIDE DEF g
        <4>3. QED
          BY <3>1, <4>1, <4>2
      <3>2. CASE k # m + 1 /\ k # 0
        <4>1. k \in 0..m /\ k - 1 \in 0..m /\ k - 1 \in 0..(m + 1) /\ k - 1 # m + 1
          BY <2>2, <3>2
        <4>2. h[k] = root(defs, f, order[k], h[k-1])
          BY <2>1, <3>2, <4>1
        <4>3. g[k] = h[k] /\ g[k-1] = h[k-1]
          BY <3>2, <4>1
        <4> HIDE DEF g
        <4>4. QED
          BY <3>2, <4>2, <4>3
      <3>3. CASE k = 0
        <4>1. 0 \in 0..m /\ 0 # m + 1
          BY <2>2
        <4>2. h[0] = white
          BY <2>1, <4>1
        <4>3. QED
          BY <3>3, <4>1, <4>2
      <3>4. QED
        BY <3>1, <3>2, <3>3
    <2>4. DOMAIN g = 0..(m + 1) /\ g = [k \in 0..(m + 1) |-> g[k]]
      OBVIOUS
    <2> HIDE DEF g
    <2>5. Upto(m + 1, g)
      BY <2>3, <2>4
    <2> HIDE DEF Upto
    <2>6. QED
      BY <2>2, <2>5
  <1> HIDE DEF S
  <1>4. n \in S
    <2>1. 0..n \subseteq S
      BY <1>1, <1>2, <1>3, Induction
    <2>2. QED
      BY <1>1, <2>1
  <1>5. PICK h : Upto(n, h)
    BY <1>4 DEF S
  <1>6. IsDone(defs, order, f, h)
    BY <1>5 DEF IsDone, n
  <1>7. QED
    BY <1>6

\* After k rounds: a loop is found, or nothing is on the path and the registered
\* types of the first k positions are black.
Swept(defs, order, k, s) ==
    /\ s \in Search
    /\ s.cycle => Cyclic(defs)
    /\ ~s.cycle => /\ Coloured(s, 1) = {}
                   /\ Settled(defs, s)
                   /\ \A i \in 1..k : (\E d \in defs : d.wf = order[i]) =>
                                          order[i] \in Coloured(s, 2)

\* The search may start at w: nothing is on the path.
RootOf(defs, w, s) ==
    /\ w \in Workflows /\ s \in Search
    /\ ~s.cycle /\ s.colour[w] = 0 /\ Coloured(s, 1) = {} /\ Settled(defs, s)

\* The call y is the one at w, and only w is on its path.
Begun(defs, order, w, s, y) ==
    /\ y \in Visits(order) /\ Before(defs, order, y) /\ y.node = w
    /\ Coloured(y.state, 1) = {w} /\ Coloured(y.state, 2) = Coloured(s, 2)

\* A root starts a path of its own.
LEMMA RootBegins ==
    ASSUME NEW order \in Orders, NEW defs, NEW w, NEW s, RootOf(defs, w, s)
    PROVE  Begun(defs, order, w, s, visit(w, s))
  <1> DEFINE t == paint(s, w, 1)
             y == visit(w, s)
  <1>0. /\ w \in Workflows /\ s \in Search
        /\ ~s.cycle /\ s.colour[w] = 0 /\ Coloured(s, 1) = {} /\ Settled(defs, s)
    BY DEF RootOf
  <1>1. Len(order) \in Nat
    BY OrderLists
  <1>2. t \in Search /\ t.cycle = s.cycle
    <2>1. 1 \in 0..2
      OBVIOUS
    <2>2. QED
      BY <1>0, <2>1, Painted
  <1>3. Coloured(t, 1) = {w}
    <2>1. 1 \in 1..2
      OBVIOUS
    <2>2. QED
      BY <1>0, <2>1, PaintColours
  <1>4. Coloured(t, 2) = Coloured(s, 2) \ {w}
    <2>1. 1 \in 1..2 /\ 2 \in 0..2 /\ 2 # 1
      OBVIOUS
    <2>2. QED
      BY <1>0, <2>1, PaintColours
  <1>5. Coloured(t, 2) = Coloured(s, 2)
    BY <1>0, <1>4 DEF Coloured
  <1>6. y.node = w /\ y.next = 1 /\ y.state = t
    BY DEF visit
  <1>7. y \in Visits(order)
    BY <1>0, <1>1, <1>2 DEF visit, Visits
  <1> HIDE DEF t, y
  <1>8. Settled(defs, t)
    BY <1>0, <1>5 DEF Settled
  <1>9. Leads(defs, w, w, {w})
    BY DEF Leads
  <1>10. \A v \in Coloured(t, 1) : Leads(defs, v, w, Coloured(t, 1))
    BY <1>3, <1>9
  <1>11. Before(defs, order, y)
    BY <1>0, <1>2, <1>3, <1>6, <1>8, <1>10 DEF Before
  <1>12. Begun(defs, order, w, s, y)
    BY <1>3, <1>5, <1>6, <1>7, <1>11 DEF Begun
  <1>13. QED
    BY <1>12 DEF y

\* A round of the outer loop.
LEMMA RootSweeps ==
    ASSUME NEW order \in Orders, NEW defs \in SUBSET Definitions, NEW f, IsDfs(defs, order, f),
           NEW k \in 1..Len(order), NEW s, Swept(defs, order, k - 1, s)
    PROVE  Swept(defs, order, k, root(defs, f, order[k], s))
  <1> DEFINE w == order[k]
             r == root(defs, f, w, s)
             reg == \E d \in defs : d.wf = w
  <1>1. w \in Workflows /\ k \in Nat
    BY OrderLists
  <1>2. /\ s \in Search
        /\ s.cycle => Cyclic(defs)
        /\ ~s.cycle => /\ Coloured(s, 1) = {}
                       /\ Settled(defs, s)
                       /\ \A i \in 1..(k - 1) : (\E d \in defs : d.wf = order[i]) =>
                                                    order[i] \in Coloured(s, 2)
    BY DEF Swept
  <1>3. r = IF reg /\ ~s.cycle /\ s.colour[w] = 0 THEN f[visit(w, s)] ELSE s
    BY DEF root
  <1>4. \A i \in 1..k : i = k \/ i \in 1..(k - 1)
    BY <1>1
  <1> HIDE DEF r
  <1>5. CASE s.cycle
    <2>1. r = s
      BY <1>3, <1>5
    <2>2. Swept(defs, order, k, r)
      BY <1>2, <1>5, <2>1 DEF Swept
    <2>3. QED
      BY <2>2 DEF r
  <1>6. CASE ~s.cycle /\ ~(reg /\ s.colour[w] = 0)
    <2>1. r = s
      BY <1>3, <1>6
    <2>2. reg => w \in Coloured(s, 2)
      <3>1. s.colour[w] \in 0..2
        BY <1>1, <1>2 DEF Search
      <3>2. s.colour[w] # 1
        BY <1>1, <1>2, <1>6 DEF Coloured
      <3>3. QED
        BY <1>1, <1>6, <3>1, <3>2 DEF Coloured
    <2>3. Swept(defs, order, k, s)
      BY <1>2, <1>4, <1>6, <2>2 DEF Swept
    <2>4. QED
      BY <2>1, <2>3 DEF r
  <1>7. CASE ~s.cycle /\ reg /\ s.colour[w] = 0
    <2> DEFINE y == visit(w, s)
    <2>1. r = f[y]
      BY <1>3, <1>7
    <2>2. /\ y \in Visits(order) /\ Before(defs, order, y) /\ y.node = w
          /\ Coloured(y.state, 1) = {w} /\ Coloured(y.state, 2) = Coloured(s, 2)
      <3> HIDE DEF w
      <3>1. w \in Workflows /\ s \in Search /\ ~s.cycle /\ s.colour[w] = 0
            /\ Coloured(s, 1) = {} /\ Settled(defs, s)
        BY <1>1, <1>2, <1>7
      <3>2. RootOf(defs, w, s)
        BY <3>1 DEF RootOf
      <3>3. Begun(defs, order, w, s, y)
        BY <3>2, RootBegins
      <3> HIDE DEF y
      <3>4. QED
        BY <3>3 DEF Begun
    <2> HIDE DEF y
    <2>3. After(defs, y, r)
      BY <2>1, <2>2, DfsCorrect
    <2>4. /\ r \in Search
          /\ r.cycle => Cyclic(defs)
          /\ ~r.cycle => /\ Coloured(r, 1) = {}
                         /\ Coloured(s, 2) \cup {w} \subseteq Coloured(r, 2)
                         /\ Settled(defs, r)
      BY <2>2, <2>3 DEF After
    <2>5. ASSUME ~r.cycle, NEW i \in 1..k, \E d \in defs : d.wf = order[i]
          PROVE  order[i] \in Coloured(r, 2)
      BY <1>2, <1>4, <1>7, <2>4, <2>5
    <2>6. Swept(defs, order, k, r)
      BY <2>4, <2>5 DEF Swept
    <2>7. QED
      BY <2>6 DEF r
  <1>8. QED
    BY <1>5, <1>6, <1>7

\* The whole search.
LEMMA AllSwept ==
    ASSUME NEW order \in Orders, NEW defs \in SUBSET Definitions, NEW f, IsDfs(defs, order, f),
           NEW h, IsDone(defs, order, f, h)
    PROVE  Swept(defs, order, Len(order), h[Len(order)])
  <1> DEFINE n == Len(order)
             S == {k \in 0..n : Swept(defs, order, k, h[k])}
  <1>1. n \in Nat
    BY OrderLists
  <1>2. \A k \in 0..n : h[k] = IF k = 0 THEN white ELSE root(defs, f, order[k], h[k-1])
    BY DEF IsDone
  <1> HIDE DEF n
  <1>3. 0 \in S
    <2>1. white \in Search /\ ~white.cycle /\ \A w \in Workflows : white.colour[w] = 0
      BY DEF white, Search
    <2>2. Coloured(white, 1) = {} /\ Coloured(white, 2) = {}
      BY <2>1 DEF Coloured
    <2>3. Settled(defs, white)
      BY <2>2 DEF Settled, Loop
    <2>4. Swept(defs, order, 0, white)
      BY <2>1, <2>2, <2>3 DEF Swept
    <2>5. h[0] = white
      BY <1>1, <1>2
    <2>6. QED
      BY <1>1, <2>4, <2>5
  <1>4. ASSUME NEW k \in 0..(n - 1), k \in S PROVE k + 1 \in S
    <2>1. k + 1 \in 1..n /\ k + 1 \in 0..n /\ (k + 1) - 1 = k /\ k + 1 # 0
      BY <1>1
    <2>2. Swept(defs, order, (k + 1) - 1, h[k])
      BY <1>4, <2>1
    <2>3. h[k + 1] = root(defs, f, order[k + 1], h[k])
      BY <1>2, <2>1
    <2> DEFINE j == k + 1
    <2> HIDE DEF j
    <2>4. j \in 1..Len(order) /\ Swept(defs, order, j - 1, h[k])
      BY <2>1, <2>2 DEF j, n
    <2>5. Swept(defs, order, j, root(defs, f, order[j], h[k]))
      BY <2>4, RootSweeps
    <2>6. QED
      BY <2>1, <2>3, <2>5 DEF j
  <1> HIDE DEF S
  <1>5. 0..n \subseteq S
    BY <1>1, <1>3, <1>4, Induction
  <1>6. n \in S
    BY <1>1, <1>5
  <1>7. QED
    BY <1>6 DEF S, n

\* A search that has looked at every registered type misses no loop.
LEMMA SweptFinds ==
    ASSUME NEW order \in Orders, NEW defs \in SUBSET Definitions, NEW s,
           Swept(defs, order, Len(order), s)
    PROVE  s.cycle \in BOOLEAN /\ (s.cycle <=> Cyclic(defs))
  <1>1. s.cycle \in BOOLEAN /\ (s.cycle => Cyclic(defs))
    BY DEF Swept, Search
  <1>2. ASSUME ~s.cycle, NEW S, Loop(defs, S) PROVE FALSE
    <2>1. /\ Settled(defs, s)
          /\ \A i \in 1..Len(order) : (\E d \in defs : d.wf = order[i]) =>
                                          order[i] \in Coloured(s, 2)
      BY <1>2 DEF Swept
    <2>2. ASSUME NEW w \in S PROVE w \in Coloured(s, 2)
      <3>1. w \in Workflows /\ spawnedBy(defs, w) # {}
        BY <1>2 DEF Loop
      <3>2. \E d \in defs : d.wf = w
        BY <3>1 DEF spawnedBy
      <3>3. PICK i \in 1..Len(order) : order[i] = w
        BY <3>1, OrderLists
      <3>4. QED
        BY <2>1, <3>2, <3>3
    <2>3. QED
      BY <1>2, <2>1, <2>2 DEF Settled
  <1>3. QED
    BY <1>1, <1>2, LoopCyclic

\* DetectSpawnCycles reports a cycle exactly when there is one, in whatever order
\* Go iterates over the types.
LEMMA DetectExact ==
    ASSUME NEW order \in Orders, NEW defs \in SUBSET Definitions
    PROVE  DetectSpawnCycles(defs, order) = Cyclic(defs)
  <1> DEFINE D(g) == IsDfs(defs, order, g)
             f == CHOOSE g : D(g)
             E(h) == IsDone(defs, order, f, h)
             done == CHOOSE h : E(h)
  <1>1. DetectSpawnCycles(defs, order) = done[Len(order)].cycle
    BY DEF DetectSpawnCycles, IsDfs, IsDone
  <1>2. D(f)
    <2>1. \E g : D(g)
      BY DfsExists
    <2> HIDE DEF D
    <2>2. QED
      BY <2>1, Zenon
  <1> HIDE DEF f
  <1>3. E(done)
    <2>1. \E h : E(h)
      BY DoneExists
    <2> HIDE DEF E
    <2>2. QED
      BY <2>1, Zenon
  <1> HIDE DEF done
  <1>4. Swept(defs, order, Len(order), done[Len(order)])
    BY <1>2, <1>3, AllSwept
  <1>5. done[Len(order)].cycle \in BOOLEAN
        /\ (done[Len(order)].cycle <=> Cyclic(defs))
    BY <1>4, SweptFinds
  <1>6. Cyclic(defs) \in BOOLEAN
    BY DEF Cyclic
  <1>7. QED
    BY <1>1, <1>5, <1>6

\* There is an order.
LEMMA OrderExists == (CHOOSE o \in Orders : TRUE) \in Orders
  <1> DEFINE n == Cardinality(Workflows)
  <1>1. PICK o : o \in Bijection(1..n, Workflows)
    <2>1. ExistsBijection(1..n, Workflows)
      BY WorkflowsAssumption, FS_CardinalityType
    <2>2. QED
      BY <2>1 DEF ExistsBijection
  <1>2. o \in [1..n -> Workflows] /\ \A i, j \in 1..n : i # j => o[i] # o[j]
    BY <1>1 DEF Bijection, Injection, IsInjective
  <1>3. o \in Orders
    BY <1>2 DEF Orders, SetToSeqs
  <1>4. QED
    BY <1>3

----------------------------------------------------------------------------
(* The registry *)

\* Fewer definitions have fewer cycles.
LEMMA CyclicGrows ==
    ASSUME NEW D, NEW E, D \subseteq E, Cyclic(D)
    PROVE  Cyclic(E)
  <1>1. ASSUME NEW w PROVE spawnedBy(D, w) \subseteq spawnedBy(E, w)
    BY DEF spawnedBy
  <1>2. PICK S \in (SUBSET Workflows) \ {{}} : \A w \in S : spawnedBy(D, w) \cap S # {}
    BY DEF Cyclic
  <1>3. \A w \in S : spawnedBy(E, w) \cap S # {}
    BY <1>1, <1>2
  <1>4. QED
    BY <1>2, <1>3 DEF Cyclic

\* The registry and the definition that Register adds to it.
LEMMA RegisteredType ==
    ASSUME TypeInv, NEW d \in Definitions
    PROVE  registered \cup {d} \in SUBSET Definitions
  BY DEF registered, Range, TypeInv, StoresOK, RegistryOK

\* SearchExact: whatever has been registered and in whatever order Go iterates
\* over the types, DetectSpawnCycles, asked about one more definition, reports a
\* cycle exactly when some workflow types go on spawning each other.
THEOREM SearchCorrect == Spec => []SearchExact
  <1>1. TypeInv => SearchExact
    BY RegisteredType, DetectExact DEF SearchExact
  <1>2. QED
    BY <1>1, InitType, NextType, PTL DEF Spec

\* SpawnAcyclic: however definitions and versions are registered, again or after
\* a restart, the workflows an engine has accepted cannot spawn each other without
\* end.
THEOREM SpawnCorrect == Spec => []SpawnAcyclic
  <1>1. ASSUME registered = {} PROVE SpawnAcyclic
    <2>1. ASSUME NEW w PROVE spawnedBy(registered, w) = {}
      BY <1>1 DEF spawnedBy
    <2>2. QED
      BY <2>1 DEF SpawnAcyclic, Cyclic
  <1>2. versions = <<>> => registered = {}
    BY DEF registered, Range
  <1>3. Init => SpawnAcyclic
    BY <1>1, <1>2 DEF Init, RegistryInit
  <1>4. TypeInv /\ SpawnAcyclic /\ [Next]_vars => SpawnAcyclic'
    <2> SUFFICES ASSUME TypeInv, SpawnAcyclic, [Next]_vars PROVE SpawnAcyclic'
      OBVIOUS
    <2>1. CASE UNCHANGED versions
      BY <2>1 DEF SpawnAcyclic, registered
    <2>2. ASSUME NEW d \in Definitions, RegisterDefinition(d) PROVE SpawnAcyclic'
      <3>1. versions' = with(versions, <<d.agg, d.ver>>, d) /\ ~closesCycle(d)
        BY <2>2 DEF RegisterDefinition, Register
      <3>2. registered' \subseteq registered \cup {d}
        BY <3>1 DEF registered, Range, with
      <3>3. registered \cup {d} \in SUBSET Definitions
        BY RegisteredType
      <3>4. ~Cyclic(registered \cup {d})
        <4> DEFINE defs == registered \cup {d}
                   o == CHOOSE o \in Orders : TRUE
        <4>1. ~DetectSpawnCycles(defs, o)
          BY <3>1 DEF closesCycle
        <4>2. o \in Orders
          BY OrderExists
        <4> HIDE DEF defs, o
        <4>3. DetectSpawnCycles(defs, o) = Cyclic(defs)
          BY <3>3, <4>2, DetectExact DEF defs
        <4>4. QED
          BY <4>1, <4>3 DEF defs
      <3>5. QED
        BY <3>2, <3>4, CyclicGrows DEF SpawnAcyclic
    <2>3. CASE Restart
      <3>1. registered' = {}
        BY <2>3 DEF Restart, registered, Range
      <3>2. QED
        BY <3>1 DEF SpawnAcyclic, Cyclic, spawnedBy
    <2>4. ASSUME NEW c \in Callers, Step(c) PROVE UNCHANGED versions
      BY <2>4 DEF Step, Begin, load, createInstance, commitTransition, Snapshot, Restore,
         createRestored, emitRestored, SideEffect, commitEffect, Refused, Fail, CommitLost, registry
    <2>5. QED
      BY <2>1, <2>2, <2>3, <2>4 DEF Next, Quiet, vars
  <1>5. QED
    BY <1>3, <1>4, InitType, NextType, PTL DEF Spec
============================================================================
