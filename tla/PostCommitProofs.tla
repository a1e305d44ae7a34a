-------------------------- MODULE PostCommitProofs --------------------------
(***************************************************************************)
(* What the dispatcher and the runners keep, for any number of transitions *)
(* and activities, any retry policy, any adapters and any number of        *)
(* crashes.                                                                *)
(***************************************************************************)
EXTENDS PostCommit, SequenceTheorems, TLAPS

Steps == {"emit", "handlers", "record", "dispatch", "done"}

Types ==
    /\ pc \in [Events -> Steps]
    /\ act \in [Events -> Nat]
    /\ live \in [Invocations -> {"none", "running", "failed"}]
    /\ queue \in [Invocations -> {"none", "queued", "active", "done", "archived"}]
    /\ retried \in [Invocations -> Nat]
    /\ execs \in [Invocations -> Nat]
    /\ recorded \subseteq Invocations
    /\ errors \subseteq Invocations
    /\ erred \subseteq Invocations
    /\ dispatched \subseteq Invocations

\* The loop is at one of the activities while it records or dispatches.
InLoop ==
    \A t \in Events :
        /\ pc[t] \in {"emit", "handlers"} => act[t] = 1
        /\ pc[t] \in {"record", "dispatch"} => act[t] \in 1..ActivitiesOf[t]

\* The loop over the activities of i's transition is past i, or about to
\* dispatch it.
past(i) == i[2] < act[i[1]]
reached(i) == past(i) \/ (i[2] = act[i[1]] /\ pc[i[1]] = "dispatch")

\* Nothing is known of an activity that the loop has not come past.
Fresh ==
    \A i \in Invocations :
        ~past(i) => queue[i] = "none" /\ live[i] = "none" /\ execs[i] = 0

\* An activity is recorded, or refused, before it is dispatched.
Recorded ==
    store => \A i \in Invocations : reached(i) => i \in recorded \cup refused

\* What has become of it is in the result, while the process lives.
Accounted ==
    ~dead =>
        \A i \in Invocations :
            /\ i \in refused => [op |-> "record", of |-> i] \in warnings
            /\ past(i) => i \in dispatched \/ [op |-> "dispatch", of |-> i] \in warnings

\* Only the runner in use has activities.
OneRunner ==
    \A i \in Invocations : /\ queue[i] # "none" => runner = "asynq"
                           /\ live[i] # "none" => runner = "goroutine"

\* How often an activity has run, by what its runner knows of it.
Attempts ==
    \A i \in Invocations :
        /\ retried[i] > 0 => i \in erred
        /\ runner = "asynq" =>
              /\ queue[i] \in {"none", "queued"} => execs[i] <= retried[i]
              /\ execs[i] <= retried[i] + 1
        /\ runner # "asynq" =>
              /\ live[i] = "running" => execs[i] = 0
              /\ execs[i] <= 1

\* An error that was not collected yet keeps its goroutine in the wait group.
Uncollected ==
    (~dead /\ runner = "goroutine") =>
        \A i \in erred : i \in errors \/ live[i] = "failed"

\* The inductive invariant.
Inv ==
    /\ Types /\ InLoop /\ Fresh /\ Recorded /\ Accounted
    /\ OneRunner /\ Attempts /\ Uncollected

----------------------------------------------------------------------------

\* An invocation is an activity of a transition.
LEMMA Pairs ==
    /\ \A i \in Invocations : /\ i[1] \in Events
                              /\ i[2] \in 1..ActivitiesOf[i[1]]
                              /\ i[2] \in Nat
                              /\ i = <<i[1], i[2]>>
    /\ \A t \in Events : \A n \in 1..ActivitiesOf[t] : <<t, n>> \in Invocations
<1>1. Invocations = UNION {{<<t, n>> : n \in 1..ActivitiesOf[t]} : t \in Events}
    BY InvocationsAssumption
<1>2. \A t \in Events : ActivitiesOf[t] \in Nat  BY CountsAssumption
<1>3. ASSUME NEW i \in Invocations
      PROVE  /\ i[1] \in Events /\ i[2] \in 1..ActivitiesOf[i[1]]
             /\ i[2] \in Nat /\ i = <<i[1], i[2]>>
    <2>1. PICK t \in Events : \E n \in 1..ActivitiesOf[t] : i = <<t, n>>  BY <1>1
    <2>2. PICK n \in 1..ActivitiesOf[t] : i = <<t, n>>  BY <2>1
    <2> QED  BY <2>2, <1>2
<1> QED  BY <1>1, <1>3

\* The activity the loop has come to is an invocation, and not past.
LEMMA Current ==
    ASSUME Types, InLoop, NEW t \in Events, pc[t] \in {"record", "dispatch"}
    PROVE  /\ current(t) \in Invocations
           /\ current(t)[1] = t /\ current(t)[2] = act[t]
           /\ ~past(current(t))
<1>1. act[t] \in 1..ActivitiesOf[t] /\ act[t] \in Nat  BY DEF InLoop, Types
<1>2. current(t) \in Invocations  BY <1>1, Pairs DEF current
<1> QED  BY <1>1, <1>2 DEF current, past

\* Nothing has been dispatched at first.
LEMMA InitInv == Init => Inv
<1> SUFFICES ASSUME Init PROVE Inv  OBVIOUS
<1> USE DEF Init, ActInit
<1>1. Types  BY DEF Types, Steps
<1>2. InLoop  BY DEF InLoop
<1>3. Fresh /\ OneRunner /\ Uncollected  BY DEF Fresh, OneRunner, Uncollected
<1>4. ASSUME NEW i \in Invocations PROVE ~reached(i) /\ ~past(i)
    BY <1>4, Pairs DEF reached, past
<1>5. Recorded /\ Accounted  BY <1>4 DEF Recorded, Accounted
<1>6. Attempts  BY DEF Attempts
<1> QED  BY <1>1, <1>2, <1>3, <1>5, <1>6 DEF Inv

----------------------------------------------------------------------------
(* The dispatcher *)

\* Steps of buses and consumers leave the dispatcher and the runners alone.
LEMMA FrameInv ==
    ASSUME Inv, UNCHANGED <<actVars, pc, act, dispatched, warnings, dead>>
    PROVE  Inv'
BY DEF Inv, actVars, records, Types, InLoop, Fresh, Recorded, Accounted, OneRunner,
       Attempts, Uncollected, past, reached

\* The event has been handed over, or the handlers of chanbus come next.
LEMMA EmitInv ==
    ASSUME Inv, NEW t \in Events,
           EmitPublish(t) \/ EmitFails(t) \/ EmitCopy(t) \/ EmitReturn(t)
    PROVE  Inv'
<1> USE DEF Inv, EmitPublish, EmitFails, EmitCopy, EmitReturn, at, goto, actVars, records
<1>1. /\ pc[t] \in {"emit", "handlers"} /\ act[t] = 1
      /\ pc' = [pc EXCEPT ![t] = "handlers"] \/ pc' = [pc EXCEPT ![t] = loop(t, 1)]
      /\ UNCHANGED <<act, live, queue, retried, execs, store, recorded, refused, errors,
                     erred, runner, dispatched, warnings, dead>>
    BY DEF InLoop
<1>2. ActivitiesOf[t] \in Nat  BY CountsAssumption
<1>3. Types'  BY <1>1 DEF Types, Steps, loop
<1>4. InLoop'  BY <1>1, <1>2 DEF InLoop, Types, loop
<1>5. pc'[t] # "dispatch" /\ \A u \in Events \ {t} : pc'[u] = pc[u]
    BY <1>1 DEF Types, loop
<1>6. ASSUME NEW i \in Invocations
      PROVE  past(i)' = past(i) /\ (reached(i)' => reached(i))
    BY <1>1, <1>5, Pairs DEF past, reached
<1>7. Recorded' /\ Accounted'  BY <1>1, <1>6 DEF Recorded, Accounted
<1>8. Fresh'  BY <1>1, <1>6 DEF Fresh
<1>9. (OneRunner /\ Attempts /\ Uncollected)'
    BY <1>1 DEF OneRunner, Attempts, Uncollected
<1> QED  BY <1>3, <1>4, <1>7, <1>8, <1>9

\* The invocation is stored, or a warning says that the store refused it, or
\* there is no store.
LEMMA RecordInv ==
    ASSUME Inv, NEW t \in Events, SkipRecord(t) \/ RecordFails(t) \/ RecordInvocation(t)
    PROVE  Inv'
<1> USE DEF Inv
<1>1. /\ ~dead /\ pc[t] = "record" /\ pc' = [pc EXCEPT ![t] = "dispatch"]
      /\ UNCHANGED <<act, live, queue, retried, execs, errors, erred, runner, store,
                     dispatched, dead>>
    BY DEF SkipRecord, RecordFails, RecordInvocation, Record, RefuseRecord, at, goto,
           actVars, records
<1>2. \/ ~store /\ UNCHANGED <<recorded, refused, warnings>>
      \/ /\ refused' = refused \cup {current(t)}
         /\ recorded' = recorded \/ recorded' = recorded \cup {current(t)}
         /\ warnings' = warnings \cup {[op |-> "record", of |-> current(t)]}
      \/ recorded' = recorded \cup {current(t)} /\ UNCHANGED <<refused, warnings>>
    BY DEF SkipRecord, RecordFails, RecordInvocation, Record, RefuseRecord, warn, actVars,
           records
<1>3. current(t) \in Invocations  BY <1>1, Current
<1>4. Types'  BY <1>1, <1>2, <1>3 DEF Types, Steps
<1>5. InLoop'  BY <1>1 DEF InLoop, Types
<1>6. ASSUME NEW i \in Invocations
      PROVE  past(i)' = past(i) /\ (reached(i)' => reached(i) \/ i = current(t))
    <2>1. i[1] # t => pc'[i[1]] = pc[i[1]]  BY <1>1, Pairs DEF Types
    <2>2. i[1] = t /\ i[2] = act[t] => i = current(t)  BY Pairs DEF current
    <2> QED  BY <1>1, <2>1, <2>2 DEF past, reached
<1>7. Recorded'
    <2> SUFFICES ASSUME store', NEW i \in Invocations, reached(i)'
                 PROVE  i \in recorded' \cup refused'
        BY DEF Recorded
    <2>1. CASE reached(i)  BY <1>1, <1>2, <2>1 DEF Recorded
    <2>2. CASE i = current(t)  BY <1>1, <1>2, <2>2
    <2> QED  BY <1>6, <2>1, <2>2
<1>8. Accounted'
    <2> SUFFICES ASSUME NEW i \in Invocations
                 PROVE  /\ i \in refused' => [op |-> "record", of |-> i] \in warnings'
                        /\ past(i)' => i \in dispatched' \/ [op |-> "dispatch", of |-> i] \in warnings'
        BY DEF Accounted
    <2>1. warnings \subseteq warnings'  BY <1>2
    <2>2. i \in refused' => i \in refused \/ [op |-> "record", of |-> i] \in warnings'
        BY <1>2
    <2> QED  BY <1>1, <1>6, <2>1, <2>2 DEF Accounted
<1>9. Fresh'  BY <1>1, <1>6 DEF Fresh
<1>10. (OneRunner /\ Attempts /\ Uncollected)'
    BY <1>1 DEF OneRunner, Attempts, Uncollected
<1> QED  BY <1>4, <1>5, <1>7, <1>8, <1>9, <1>10

\* The loop goes on to the next activity, and has come past this one only.
LEMMA Advance ==
    ASSUME Types, InLoop, NEW t \in Events, pc[t] = "dispatch", advance(t)
    PROVE  /\ pc' \in [Events -> Steps] /\ act' \in [Events -> Nat]
           /\ InLoop'
           /\ \A i \in Invocations :
                 /\ past(i)' => past(i) \/ i = current(t)
                 /\ reached(i)' => reached(i)
                 /\ past(i) \/ i = current(t) => past(i)'
<1>1. /\ act[t] \in 1..ActivitiesOf[t] /\ act[t] \in Nat /\ ActivitiesOf[t] \in Nat
      /\ act' = [act EXCEPT ![t] = act[t] + 1]
      /\ pc' = [pc EXCEPT ![t] = loop(t, act[t] + 1)]
    BY CountsAssumption DEF InLoop, Types, advance, goto
<1>2. pc' \in [Events -> Steps] /\ act' \in [Events -> Nat]
    BY <1>1 DEF Types, Steps, loop
<1>3. InLoop'  BY <1>1 DEF InLoop, Types, loop
<1>4. pc'[t] # "dispatch" /\ act'[t] = act[t] + 1  BY <1>1 DEF Types, loop
<1>5. ASSUME NEW i \in Invocations
      PROVE  /\ past(i)' => past(i) \/ i = current(t)
             /\ reached(i)' => reached(i)
             /\ past(i) \/ i = current(t) => past(i)'
    <2>1. CASE i[1] = t
        <3>1. i[2] \in Nat /\ i = <<i[1], i[2]>>  BY Pairs
        <3> QED  BY <1>1, <1>4, <2>1, <3>1 DEF past, reached, current
    <2>2. CASE i[1] # t
        <3>1. pc'[i[1]] = pc[i[1]] /\ act'[i[1]] = act[i[1]]
            BY <1>1, <2>2, Pairs DEF Types
        <3>2. i # current(t)  BY <2>2 DEF current
        <3> QED  BY <3>1, <3>2 DEF past, reached
    <2> QED  BY <2>1, <2>2
<1> QED  BY <1>2, <1>3, <1>5

\* What a dispatch leaves is accounted for, whoever takes the activity.
LEMMA DispatchInv ==
    ASSUME Inv, NEW t \in Events, DispatchFails(t) \/ DispatchErrs(t) \/ Dispatch(t)
    PROVE  Inv'
<1> DEFINE c == current(t)
<1> USE DEF Inv
<1>1. pc[t] = "dispatch" /\ advance(t) /\ ~dead /\ dead' = dead
    BY DEF DispatchFails, DispatchErrs, Dispatch, at
<1>2. /\ c \in Invocations /\ ~past(c)
      /\ queue[c] = "none" /\ live[c] = "none" /\ execs[c] = 0
    BY <1>1, Current DEF Fresh
<1>3. \/ dispatched' = dispatched \cup {c} /\ warnings' = warnings
      \/ dispatched' = dispatched /\ warnings' = warnings \cup {[op |-> "dispatch", of |-> c]}
    BY DEF DispatchFails, DispatchErrs, Dispatch, warn
<1>4. /\ UNCHANGED <<runner, store, recorded, refused, errors, retried>>
      /\ \/ UNCHANGED <<live, queue, execs, erred>>
         \/ /\ runner = "mem" /\ UNCHANGED <<live, queue>>
            /\ execs' = [execs EXCEPT ![c] = @ + 1]
            /\ erred' = erred \/ erred' = erred \cup {c}
         \/ /\ runner = "goroutine" /\ UNCHANGED <<queue, execs, erred>>
            /\ live' = [live EXCEPT ![c] = "running"]
         \/ /\ runner = "asynq" /\ UNCHANGED <<live, execs, erred>>
            /\ queue' = [queue EXCEPT ![c] = "queued"]
    BY DEF DispatchFails, DispatchErrs, Dispatch, DispatchInline, DispatchGo,
           DispatchQueue, execute, actVars, records
<1>5. /\ pc' \in [Events -> Steps] /\ act' \in [Events -> Nat] /\ InLoop'
      /\ \A i \in Invocations : /\ past(i)' => past(i) \/ i = c
                                /\ reached(i)' => reached(i)
                                /\ past(i) \/ i = c => past(i)'
    BY <1>1, Advance
<1> HIDE DEF c
<1>6. Types'  BY <1>2, <1>3, <1>4, <1>5 DEF Types
<1>7. Fresh'
    <2> SUFFICES ASSUME NEW i \in Invocations, ~past(i)'
                 PROVE  queue'[i] = "none" /\ live'[i] = "none" /\ execs'[i] = 0
        BY DEF Fresh
    <2>1. i # c /\ ~past(i)  BY <1>5
    <2> QED  BY <1>4, <2>1 DEF Fresh, Types
<1>8. Accounted'
    <2> SUFFICES ASSUME NEW i \in Invocations
                 PROVE  /\ i \in refused' => [op |-> "record", of |-> i] \in warnings'
                        /\ past(i)' => i \in dispatched' \/ [op |-> "dispatch", of |-> i] \in warnings'
        BY DEF Accounted
    <2>1. dispatched \subseteq dispatched' /\ warnings \subseteq warnings'  BY <1>3
    <2>2. c \in dispatched' \/ [op |-> "dispatch", of |-> c] \in warnings'  BY <1>3
    <2> QED  BY <1>1, <1>4, <1>5, <2>1, <2>2 DEF Accounted
<1>9. Recorded' /\ OneRunner'  BY <1>2, <1>4, <1>5 DEF Recorded, OneRunner, Types
<1>10. Attempts'
    <2> SUFFICES ASSUME NEW i \in Invocations
                 PROVE  /\ retried'[i] > 0 => i \in erred'
                        /\ runner' = "asynq" =>
                              /\ queue'[i] \in {"none", "queued"} => execs'[i] <= retried'[i]
                              /\ execs'[i] <= retried'[i] + 1
                        /\ runner' # "asynq" =>
                              /\ live'[i] = "running" => execs'[i] = 0
                              /\ execs'[i] <= 1
        BY DEF Attempts
    <2>1. retried[i] \in Nat /\ execs[i] \in Nat  BY DEF Types
    <2>2. CASE i = c  BY <1>2, <1>4, <2>1, <2>2 DEF Attempts, Types
    <2>3. CASE i # c  BY <1>4, <2>1, <2>3 DEF Attempts, Types
    <2> QED  BY <2>2, <2>3
<1>11. Uncollected'  BY <1>1, <1>2, <1>4 DEF Uncollected, Types
<1> QED  BY <1>5, <1>6, <1>7, <1>8, <1>9, <1>10, <1>11

----------------------------------------------------------------------------
(* The runners *)

\* An activity that a runner has is past; its execution keeps the rest.
LEMMA RunnerInv ==
    ASSUME Inv, ActNext, UNCHANGED dispatcher
    PROVE  Inv'
<1> USE DEF Inv
<1>1. PICK i \in Invocations :
          \/ \E ok \in BOOLEAN : GoExecute(i, ok)
          \/ GoCollect(i) \/ Work(i) \/ WorkOk(i) \/ WorkFails(i)
    BY DEF ActNext
<1>2. /\ UNCHANGED <<pc, act, dispatched, warnings, dead>>
      /\ \A j \in Invocations : past(j)' = past(j) /\ reached(j)' = reached(j)
    BY DEF dispatcher, past, reached
<1>3. /\ UNCHANGED <<runner, store, recorded, refused>>
      /\ queue[i] # "none" \/ live[i] # "none"
      /\ retried[i] \in Nat /\ execs[i] \in Nat
    BY <1>1 DEF GoExecute, GoCollect, Work, WorkOk, WorkFails, Types, records
<1>4. past(i)  BY <1>3 DEF Fresh
<1>5. \/ /\ live[i] = "running" /\ UNCHANGED <<errors, queue, retried>>
         /\ execs' = [execs EXCEPT ![i] = @ + 1]
         /\ \/ live' = [live EXCEPT ![i] = "none"] /\ erred' = erred
            \/ live' = [live EXCEPT ![i] = "failed"] /\ erred' = erred \cup {i}
      \/ /\ live[i] = "failed" /\ UNCHANGED <<queue, retried, execs, erred>>
         /\ errors' = errors \cup {i} /\ live' = [live EXCEPT ![i] = "none"]
      \/ /\ queue[i] = "queued" /\ UNCHANGED <<live, errors, retried, erred>>
         /\ queue' = [queue EXCEPT ![i] = "active"]
         /\ execs' = execs \/ execs' = [execs EXCEPT ![i] = @ + 1]
      \/ /\ queue[i] = "active" /\ UNCHANGED <<live, errors, execs>>
         /\ \/ /\ queue' = [queue EXCEPT ![i] = "done"]
               /\ UNCHANGED <<retried, erred>>
            \/ /\ queue' = [queue EXCEPT ![i] = "archived"] /\ erred' = erred \cup {i}
               /\ UNCHANGED retried
            \/ /\ queue' = [queue EXCEPT ![i] = "queued"] /\ erred' = erred \cup {i}
               /\ retried' = [retried EXCEPT ![i] = @ + 1]
    BY <1>1 DEF GoExecute, GoCollect, Work, WorkOk, WorkFails, execute
<1>6. Types'  BY <1>2, <1>3, <1>5 DEF Types
<1>7. InLoop' /\ Recorded' /\ Accounted'  BY <1>2, <1>3 DEF InLoop, Recorded, Accounted
<1>8. Fresh'
    <2> SUFFICES ASSUME NEW j \in Invocations, ~past(j)
                 PROVE  queue'[j] = "none" /\ live'[j] = "none" /\ execs'[j] = 0
        BY <1>2 DEF Fresh
    <2>1. j # i  BY <1>4
    <2> QED  BY <1>5, <2>1 DEF Fresh, Types
<1>9. OneRunner'  BY <1>3, <1>5 DEF OneRunner, Types
<1>10. Attempts'
    <2> SUFFICES ASSUME NEW j \in Invocations
                 PROVE  /\ retried'[j] > 0 => j \in erred'
                        /\ runner = "asynq" =>
                              /\ queue'[j] \in {"none", "queued"} => execs'[j] <= retried'[j]
                              /\ execs'[j] <= retried'[j] + 1
                        /\ runner # "asynq" =>
                              /\ live'[j] = "running" => execs'[j] = 0
                              /\ execs'[j] <= 1
        BY <1>3 DEF Attempts
    <2>1. CASE j = i
        <3>1. /\ queue[i] # "none" => runner = "asynq"
              /\ live[i] # "none" => runner = "goroutine"
            BY DEF OneRunner
        <3>2. /\ retried[i] > 0 => i \in erred
              /\ runner = "asynq" =>
                    /\ queue[i] \in {"none", "queued"} => execs[i] <= retried[i]
                    /\ execs[i] <= retried[i] + 1
              /\ runner # "asynq" =>
                    /\ live[i] = "running" => execs[i] = 0
                    /\ execs[i] <= 1
            BY DEF Attempts
        <3> QED  BY <1>3, <1>5, <2>1, <3>1, <3>2 DEF Types
    <2>2. CASE j # i  BY <1>5, <2>2 DEF Attempts, Types
    <2> QED  BY <2>1, <2>2
<1>11. Uncollected'  BY <1>2, <1>3, <1>5 DEF Uncollected, OneRunner, Types
<1> QED  BY <1>6, <1>7, <1>8, <1>9, <1>10, <1>11

\* A crash takes the goroutines, the results and their warnings; what was
\* recorded stays.
LEMMA CrashInv == ASSUME Inv, Crash PROVE Inv'
<1> USE DEF Inv
<1>1. /\ dead' /\ live' = [i \in Invocations |-> "none"] /\ dispatched' = {}
      /\ UNCHANGED <<runner, store, recorded, refused, errors, queue, retried, execs, erred,
                     pc, act>>
    BY DEF Crash, records
<1>2. \A i \in Invocations : past(i)' = past(i) /\ reached(i)' = reached(i)
    BY <1>1 DEF past, reached
<1>3. Types' /\ InLoop'  BY <1>1 DEF Types, InLoop
<1>4. Fresh' /\ Recorded' /\ OneRunner'  BY <1>1, <1>2 DEF Fresh, Recorded, OneRunner
<1>5. Accounted'  BY <1>1 DEF Accounted
<1>6. Attempts' /\ Uncollected'  BY <1>1 DEF Attempts, Uncollected
<1> QED  BY <1>3, <1>4, <1>5, <1>6

----------------------------------------------------------------------------

\* Every step keeps the invariant.
LEMMA NextInv == Inv /\ [Next]_vars => Inv'
<1> SUFFICES ASSUME Inv, [Next]_vars PROVE Inv'  OBVIOUS
<1>1. CASE \E t \in Events : runPostCommit(t)
    <2>1. PICK t \in Events : runPostCommit(t)  BY <1>1
    <2>2. CASE EmitPublish(t) \/ EmitFails(t) \/ EmitCopy(t) \/ EmitReturn(t)
        BY <2>2, EmitInv
    <2>3. CASE EmitCall(t)  BY <2>3, FrameInv DEF EmitCall
    <2>4. CASE SkipRecord(t) \/ RecordFails(t) \/ RecordInvocation(t)
        BY <2>4, RecordInv
    <2>5. CASE DispatchFails(t) \/ DispatchErrs(t) \/ Dispatch(t)  BY <2>5, DispatchInv
    <2> QED  BY <2>1, <2>2, <2>3, <2>4, <2>5 DEF runPostCommit
<1>2. CASE BusNext /\ UNCHANGED <<actVars, dispatcher>>
    BY <1>2, FrameInv DEF dispatcher
<1>3. CASE ActNext /\ UNCHANGED <<busVars, dispatcher>>
    BY <1>3, RunnerInv
<1>4. CASE Crash  BY <1>4, CrashInv
<1>5. CASE \E k \in Consumers : ConsumerCrash(k)
    BY <1>5, FrameInv DEF ConsumerCrash
<1>6. CASE UNCHANGED vars
    BY <1>6, FrameInv DEF vars, dispatcher
<1> QED  BY <1>1, <1>2, <1>3, <1>4, <1>5, <1>6 DEF Next, Settled

\* An activity that has run is in the activity store unless the store refused
\* it, crashes included; of a living process the result warns of the refusal and
\* accounts for the dispatch, whatever fails.
THEOREM TraceableCorrect == Spec => []Traceable
<1>1. Inv => Traceable
    <2> SUFFICES ASSUME Inv, NEW i \in Invocations, execs[i] > 0
                 PROVE  /\ store => i \in recorded \cup refused
                        /\ ~dead =>
                              /\ i \in refused => [op |-> "record", of |-> i] \in warnings
                              /\ i \in dispatched \/ [op |-> "dispatch", of |-> i] \in warnings
        BY DEF Traceable
    <2>1. past(i)  BY DEF Inv, Fresh
    <2> QED  BY <2>1 DEF Inv, Recorded, Accounted, reached
<1> QED  BY <1>1, InitInv, NextInv, PTL DEF Spec

\* An activity runs again only as a retry, by the queue, of one that failed, for
\* any retry policies, lost answers and crashes.
THEOREM RerunAfterFailureCorrect == Spec => []RerunAfterFailure
<1>1. Inv => RerunAfterFailure
    <2> SUFFICES ASSUME Inv, NEW i \in Invocations, execs[i] > 1
                 PROVE  runner = "asynq" /\ i \in erred
        BY DEF RerunAfterFailure
    <2>1. retried[i] \in Nat /\ execs[i] \in Nat  BY DEF Inv, Types
    <2> QED  BY <2>1 DEF Inv, Attempts
<1> QED  BY <1>1, InitInv, NextInv, PTL DEF Spec

\* Wait of goroutinerunner returns no earlier than the last error is collected.
THEOREM ErrorsCompleteCorrect == Spec => []ErrorsComplete
<1>1. Inv => ErrorsComplete
    BY DEF Inv, Uncollected, ErrorsComplete, Types
<1> QED  BY <1>1, InitInv, NextInv, PTL DEF Spec

----------------------------------------------------------------------------
(* The buses *)

BusTypes ==
    /\ stream \in Seq(Events)
    /\ cursor \in Nat
    /\ cursor <= Len(stream)
    /\ msg \in [Events -> {"none", "ready", "delivered", "acked"}]
    /\ inbox \in [Consumers -> Seq(Events)]
    /\ acking \in [Consumers -> BOOLEAN]
    /\ seen \in [Consumers -> [Events -> Nat]]

\* A consumer acknowledges what it has handled, the first message of its inbox.
AckingHandled ==
    \A k \in Consumers :
        acking[k] => inbox[k] # <<>> /\ seen[k][Head(inbox[k])] > 0

BusInv == BusTypes /\ AckingHandled /\ AckedHandled

\* The counter of saw: no more than 2, never back to 0.
LEMMA MinFacts ==
    /\ \A n \in Nat : Min({n + 1, 2}) \in Nat /\ Min({n + 1, 2}) > 0
    /\ \A a, b \in Nat : Min({a, b}) \in Nat /\ Min({a, b}) <= a /\ Min({a, b}) <= b
<1>1. ASSUME NEW a \in Nat, NEW b \in Nat
      PROVE  Min({a, b}) \in {a, b} /\ Min({a, b}) <= a /\ Min({a, b}) <= b
    <2>1. \E x \in {a, b} : \A y \in {a, b} : x <= y
        <3>1. CASE a <= b  BY <3>1
        <3>2. CASE b <= a  BY <3>2
        <3> QED  BY <3>1, <3>2
    <2> QED  BY <2>1 DEF Min
<1>2. ASSUME NEW n \in Nat PROVE Min({n + 1, 2}) \in Nat /\ Min({n + 1, 2}) > 0
    <2>1. Min({n + 1, 2}) \in {n + 1, 2}  BY <1>1
    <2> QED  BY <2>1
<1> QED  BY <1>1, <1>2

\* A handler that succeeds only adds to what was seen.
LEMMA SawMore ==
    ASSUME BusTypes, NEW j, NEW e, saw(j, e)
    PROVE  /\ seen' \in [Consumers -> [Events -> Nat]]
           /\ \A k \in Consumers : \A d \in Events : seen[k][d] > 0 => seen'[k][d] > 0
           /\ j \in Consumers /\ e \in Events => seen'[j][e] > 0
<1>1. seen' = [seen EXCEPT ![j] = [seen[j] EXCEPT ![e] = Min({seen[j][e] + 1, 2})]]
    BY DEF saw
<1>2. CASE j \in Consumers /\ e \in Events
    <2>1. Min({seen[j][e] + 1, 2}) \in Nat /\ Min({seen[j][e] + 1, 2}) > 0
        BY <1>2, MinFacts DEF BusTypes
    <2> QED  BY <1>1, <1>2, <2>1 DEF BusTypes
<1>3. CASE ~(j \in Consumers /\ e \in Events)
    BY <1>1, <1>3 DEF BusTypes
<1> QED  BY <1>2, <1>3

\* What was handled stays so, and the mark of a consumer with it.
LEMMA SeenInv ==
    ASSUME BusInv,
           seen' \in [Consumers -> [Events -> Nat]],
           \A k \in Consumers : \A d \in Events : seen[k][d] > 0 => seen'[k][d] > 0
    PROVE  /\ \A e \in Events : handled(e) => handled(e)'
           /\ UNCHANGED <<acking, inbox>> => AckingHandled'
           /\ UNCHANGED msg => AckedHandled'
<1>1. \A e \in Events : handled(e) => handled(e)'  BY DEF handled
<1>2. UNCHANGED msg => AckedHandled'  BY <1>1 DEF BusInv, AckedHandled
<1>3. ASSUME UNCHANGED <<acking, inbox>> PROVE AckingHandled'
    <2> SUFFICES ASSUME NEW k \in Consumers, acking[k]
                 PROVE  inbox[k] # <<>> /\ seen'[k][Head(inbox[k])] > 0
        BY <1>3 DEF AckingHandled
    <2>1. inbox[k] \in Seq(Events) /\ inbox[k] # <<>> /\ seen[k][Head(inbox[k])] > 0
        BY DEF BusInv, BusTypes, AckingHandled
    <2>2. Head(inbox[k]) \in Events  BY <2>1
    <2> QED  BY <2>1, <2>2
<1> QED  BY <1>1, <1>2, <1>3

\* The steps that hand a message over.
LEMMA HandOverInv ==
    ASSUME BusInv,
           \/ \E e \in Events : Publish(e) \/ Deliver(e) \/ Expire(e)
           \/ \E k \in Consumers : SubscribeHandler(k) \/ XReadGroup(k)
    PROVE  BusInv'
<1> USE DEF BusInv
<1>1. CASE \E e \in Events : Publish(e)
    <2>1. PICK e \in Events : Publish(e)  BY <1>1
    <2>2. /\ stream' = stream \/ stream' = Append(stream, e)
          /\ msg' = [msg EXCEPT ![e] = "ready"]
          /\ UNCHANGED <<cursor, inbox, acking, seen>>
        BY <2>1 DEF Publish
    <2>3. stream' \in Seq(Events) /\ cursor' <= Len(stream')
        <3>1. stream \in Seq(Events) /\ cursor \in Nat /\ cursor <= Len(stream)
            BY DEF BusTypes
        <3>2. Append(stream, e) \in Seq(Events) /\ Len(Append(stream, e)) = Len(stream) + 1
            BY <3>1, AppendProperties
        <3>3. Len(stream) \in Nat  BY <3>1
        <3> QED  BY <2>2, <3>1, <3>2, <3>3
    <2>4. BusTypes'  BY <2>2, <2>3 DEF BusTypes
    <2> QED  BY <2>2, <2>4 DEF BusTypes, AckingHandled, AckedHandled, handled
<1>2. CASE \E e \in Events : Expire(e)
    BY <1>2 DEF Expire, BusTypes, AckingHandled, AckedHandled, handled
<1>3. CASE \E e \in Events : Deliver(e)
    <2>1. PICK e \in Events : Deliver(e)  BY <1>3
    <2>2. /\ inbox' = [inbox EXCEPT ![Bound] = Append(inbox[Bound], e)]
          /\ msg' = [msg EXCEPT ![e] = "delivered"]
          /\ UNCHANGED <<stream, cursor, acking, seen>>
        BY <2>1 DEF Deliver
    <2>3. BusTypes'
        <3>1. Bound \in Consumers => Append(inbox[Bound], e) \in Seq(Events)
            BY AppendProperties DEF BusTypes
        <3>2. inbox' \in [Consumers -> Seq(Events)]  BY <2>2, <3>1 DEF BusTypes
        <3> QED  BY <2>2, <3>2 DEF BusTypes
    <2>4. AckedHandled'  BY <2>2 DEF AckedHandled, handled, BusTypes
    <2>5. AckingHandled'
        <3> SUFFICES ASSUME NEW k \in Consumers, acking[k]
                     PROVE  inbox'[k] # <<>> /\ seen[k][Head(inbox'[k])] > 0
            BY <2>2 DEF AckingHandled
        <3>1. inbox[k] \in Seq(Events) /\ inbox[k] # <<>> /\ seen[k][Head(inbox[k])] > 0
            BY DEF BusTypes, AckingHandled
        <3>2. inbox'[k] = inbox[k] \/ inbox'[k] = Append(inbox[k], e)
            BY <2>2 DEF BusTypes
        <3>3. Head(Append(inbox[k], e)) = Head(inbox[k]) /\ Append(inbox[k], e) # <<>>
            BY <3>1
        <3> QED  BY <3>1, <3>2, <3>3
    <2> QED  BY <2>3, <2>4, <2>5
<1>4. CASE \E k \in Consumers : SubscribeHandler(k)
    BY <1>4 DEF SubscribeHandler, BusTypes, AckingHandled, AckedHandled, handled
<1>5. CASE \E k \in Consumers : XReadGroup(k)
    <2>1. PICK k \in Consumers : XReadGroup(k)  BY <1>5
    <2> DEFINE n == Min({Batch, Len(stream) - cursor})
               read == SubSeq(stream, cursor + 1, cursor + n)
    <2>2. n \in Nat /\ n <= Len(stream) - cursor
        <3>1. Len(stream) - cursor \in Nat  BY DEF BusTypes
        <3> QED  BY <3>1, MinFacts, BatchAssumption
    <2>3. /\ inbox[k] = <<>> /\ n > 0
          /\ inbox' = [inbox EXCEPT ![k] = read] /\ cursor' = cursor + n
          /\ msg' = [e \in Events |-> IF Contains(read, e) THEN "delivered" ELSE msg[e]]
          /\ UNCHANGED <<stream, acking, seen>>
        BY <2>1 DEF XReadGroup
    <2> HIDE DEF n
    <2>4. read \in Seq(Events)
        BY <2>2, SubSeqProperties DEF BusTypes
    <2> HIDE DEF read
    <2>5. BusTypes'  BY <2>2, <2>3, <2>4 DEF BusTypes
    <2>6. AckingHandled'  BY <2>3 DEF AckingHandled, BusTypes
    <2>7. AckedHandled'  BY <2>3 DEF AckedHandled, handled, BusTypes
    <2> QED  BY <2>5, <2>6, <2>7
<1> QED  BY <1>1, <1>2, <1>3, <1>4, <1>5

\* The steps of the consumers.
LEMMA ConsumerInv ==
    ASSUME BusInv, NEW k \in Consumers,
           \/ \E e \in Events : HandleOk(k, e) \/ HandleFail(k, e)
           \/ Acknowledge(k) \/ Resubscribe(k)
    PROVE  BusInv'
<1> USE DEF BusInv
<1>1. CASE \E e \in Events : HandleOk(k, e)
    <2>1. PICK e \in Events : HandleOk(k, e)  BY <1>1
    <2>2. /\ inbox[k] # <<>> /\ Head(inbox[k]) = e /\ saw(k, e)
          /\ acking' = [acking EXCEPT ![k] = TRUE]
          /\ UNCHANGED <<stream, cursor, msg, inbox>>
        BY <2>1 DEF HandleOk, handling
    <2>3. /\ seen' \in [Consumers -> [Events -> Nat]] /\ seen'[k][e] > 0
          /\ \A j \in Consumers : \A d \in Events : seen[j][d] > 0 => seen'[j][d] > 0
        BY <2>2, SawMore
    <2>4. BusTypes' /\ AckedHandled'  BY <2>2, <2>3, SeenInv DEF BusTypes
    <2>5. AckingHandled'
        <3> SUFFICES ASSUME NEW j \in Consumers, acking'[j]
                     PROVE  inbox[j] # <<>> /\ seen'[j][Head(inbox[j])] > 0
            BY <2>2 DEF AckingHandled
        <3>1. CASE j = k  BY <2>2, <2>3, <3>1
        <3>2. CASE j # k
            <4>1. inbox[j] \in Seq(Events) /\ inbox[j] # <<>> /\ seen[j][Head(inbox[j])] > 0
                BY <2>2, <3>2 DEF BusTypes, AckingHandled
            <4>2. Head(inbox[j]) \in Events  BY <4>1
            <4> QED  BY <2>3, <4>1, <4>2
        <3> QED  BY <3>1, <3>2
    <2> QED  BY <2>4, <2>5
<1>2. CASE \E e \in Events : HandleFail(k, e)
    <2>1. PICK e \in Events : HandleFail(k, e)  BY <1>2
    <2>2. /\ inbox[k] # <<>> /\ ~acking[k] /\ inbox' = [inbox EXCEPT ![k] = Tail(inbox[k])]
          /\ msg' = msg \/ msg' = [msg EXCEPT ![e] = "ready"]
          /\ UNCHANGED <<stream, cursor, acking, seen>>
        BY <2>1 DEF HandleFail, handling
    <2>3. Tail(inbox[k]) \in Seq(Events)  BY <2>2 DEF BusTypes
    <2>4. BusTypes'  BY <2>2, <2>3 DEF BusTypes
    <2>5. AckingHandled' /\ AckedHandled'
        BY <2>2 DEF AckingHandled, AckedHandled, handled, BusTypes
    <2> QED  BY <2>4, <2>5
<1>3. CASE Acknowledge(k)
    <2> DEFINE h == Head(inbox[k])
    <2>1. /\ acking[k]
          /\ msg' = msg \/ msg' = [msg EXCEPT ![h] = "acked"]
          /\ inbox' = [inbox EXCEPT ![k] = Tail(inbox[k])]
          /\ acking' = [acking EXCEPT ![k] = FALSE]
          /\ UNCHANGED <<stream, cursor, seen>>
        BY <1>3 DEF Acknowledge
    <2>2. inbox[k] \in Seq(Events) /\ inbox[k] # <<>> /\ seen[k][h] > 0
        BY <2>1 DEF BusTypes, AckingHandled
    <2>3. h \in Events /\ Tail(inbox[k]) \in Seq(Events)  BY <2>2
    <2> HIDE DEF h
    <2>4. BusTypes'  BY <2>1, <2>3 DEF BusTypes
    <2>5. AckingHandled'  BY <2>1 DEF AckingHandled, BusTypes
    <2>6. AckedHandled'  BY <2>1, <2>2, <2>3 DEF AckedHandled, handled, BusTypes
    <2> QED  BY <2>4, <2>5, <2>6
<1>4. CASE Resubscribe(k)
    <2>1. /\ inbox' = [inbox EXCEPT ![k] = <<>>] /\ acking' = [acking EXCEPT ![k] = FALSE]
          /\ \/ msg' = msg
             \/ msg' = [e \in Events |-> IF msg[e] = "none" THEN "none" ELSE "ready"]
          /\ UNCHANGED <<stream, cursor, seen>>
        BY <1>4 DEF Resubscribe
    <2>2. BusTypes'
        <3>1. <<>> \in Seq(Events)  OBVIOUS
        <3>2. inbox' \in [Consumers -> Seq(Events)]  BY <2>1, <3>1 DEF BusTypes
        <3> QED  BY <2>1, <3>2 DEF BusTypes
    <2>3. AckingHandled'  BY <2>1 DEF AckingHandled, BusTypes
    <2>4. AckedHandled'  BY <2>1 DEF AckedHandled, handled, BusTypes
    <2> QED  BY <2>2, <2>3, <2>4
<1> QED  BY <1>1, <1>2, <1>3, <1>4

\* Every step keeps what is known of messages and acknowledgements.
LEMMA NextBus == BusInv /\ [Next]_vars => BusInv'
<1> SUFFICES ASSUME BusInv, [Next]_vars PROVE BusInv'  OBVIOUS
<1>1. ASSUME UNCHANGED busVars PROVE BusInv'
    BY <1>1 DEF BusInv, busVars, BusTypes, AckingHandled, AckedHandled, handled
<1>2. CASE \E t \in Events : runPostCommit(t)
    <2>1. PICK t \in Events : runPostCommit(t)  BY <1>2
    <2>2. CASE EmitPublish(t)  BY <2>2, HandOverInv DEF EmitPublish
    <2>3. CASE EmitCall(t)
        <3>1. /\ saw(Head(todo[t]), t)
              /\ UNCHANGED <<stream, cursor, msg, inbox, acking>>
            BY <2>3 DEF EmitCall
        <3>2. /\ seen' \in [Consumers -> [Events -> Nat]]
              /\ \A k \in Consumers : \A d \in Events : seen[k][d] > 0 => seen'[k][d] > 0
            BY <3>1, SawMore DEF BusInv
        <3> QED  BY <3>1, <3>2, SeenInv DEF BusInv, BusTypes
    <2>4. CASE UNCHANGED busVars  BY <1>1, <2>4
    <2> QED  BY <2>1, <2>2, <2>3, <2>4 DEF runPostCommit, EmitFails, EmitCopy,
            EmitReturn, SkipRecord, RecordFails, RecordInvocation, DispatchFails,
            DispatchErrs, Dispatch
<1>3. CASE BusNext  BY <1>3, HandOverInv, ConsumerInv DEF BusNext
<1>4. CASE UNCHANGED busVars  BY <1>1, <1>4
<1>5. CASE \E k \in Consumers : ConsumerCrash(k)
    BY <1>5, ConsumerInv DEF ConsumerCrash
<1> QED  BY <1>2, <1>3, <1>4, <1>5 DEF Next, Crash, Settled, vars

\* Nothing has been published at first.
LEMMA InitBus == Init => BusInv
  BY DEF Init, BusInit, BusInv, BusTypes, AckingHandled, AckedHandled

\* The broker drops a message for good only after a handler has taken it, for
\* any number of consumers, late acknowledgements and crashes.
THEOREM AckedHandledCorrect == Spec => []AckedHandled
<1>1. BusInv => AckedHandled  BY DEF BusInv
<1> QED  BY <1>1, InitBus, NextBus, PTL DEF Spec

----------------------------------------------------------------------------
(* No event is handled twice *)

Unique(s) == \A m, n \in DOMAIN s : s[m] = s[n] => m = n

\* Redis: an event is published once, by the transition it belongs to, and Emit
\* itself calls no handler.
Published ==
    /\ Unique(stream)
    /\ \A t \in Events : /\ pc[t] = "emit" => \A m \in DOMAIN stream : stream[m] # t
                         /\ pc[t] # "handlers"

\* The group has read e.
taken(e) == \E m \in 1..cursor : stream[m] = e

\* What is in hand or was handled has been read by the group.
Taken ==
    /\ \A k \in Consumers : \A x \in DOMAIN inbox[k] : taken(inbox[k][x])
    /\ \A k \in Consumers : \A e \in Events : seen[k][e] > 0 => taken(e)

\* No event is twice in hand.
InHandOnce ==
    \A j, k \in Consumers : \A x \in DOMAIN inbox[j] : \A y \in DOMAIN inbox[k] :
        inbox[j][x] = inbox[k][y] => j = k /\ x = y

\* An event in hand has not been handled, unless its consumer is about to
\* acknowledge it.
InHandNew ==
    \A j, k \in Consumers : \A x \in DOMAIN inbox[k] :
        seen[j][inbox[k][x]] > 0 => x = 1 /\ acking[k]

\* No event was handled twice, by one consumer or by two.
GroupOnce ==
    \A e \in Events : \A j, k \in Consumers :
        seen[k][e] <= 1 /\ (seen[j][e] > 0 /\ seen[k][e] > 0 => j = k)

RedisOnce == Published /\ Taken /\ InHandOnce /\ InHandNew /\ GroupOnce

\* chanbus: the handlers are distinct, and those still to be called for an
\* event have not been called for it.
ChanOnce ==
    /\ \A k \in Consumers : inbox[k] = <<>>
    /\ handlers \in Seq(Consumers) /\ Unique(handlers)
    /\ todo \in [Events -> Seq(Consumers)]
    /\ \A t \in Events :
          /\ Unique(todo[t])
          /\ \A x \in DOMAIN todo[t] : seen[todo[t][x]][t] = 0
          /\ pc[t] = "emit" => \A k \in Consumers : seen[k][t] = 0
          /\ \A k \in Consumers : seen[k][t] <= 1

\* The inductive invariant.
OnceInv == (broker = "redis" => RedisOnce) /\ (broker = "chan" => ChanOnce)

\* A first success counts one, and nothing else changes.
LEMMA SawOnce ==
    ASSUME BusTypes, NEW j \in Consumers, NEW e \in Events, saw(j, e), seen[j][e] = 0
    PROVE  /\ seen'[j][e] = 1
           /\ \A k \in Consumers : \A d \in Events :
                 ~(k = j /\ d = e) => seen'[k][d] = seen[k][d]
<1>1. seen' = [seen EXCEPT ![j] = [seen[j] EXCEPT ![e] = Min({seen[j][e] + 1, 2})]]
    BY DEF saw
<1>2. Min({0 + 1, 2}) = 1
    <2>1. Min({0 + 1, 2}) \in Nat /\ Min({0 + 1, 2}) > 0 /\ Min({0 + 1, 2}) <= 0 + 1
        BY MinFacts
    <2> QED  BY <2>1
<1> HIDE DEF Min
<1> QED  BY <1>1, <1>2 DEF BusTypes

\* A consumer drops the first message of its inbox, or all of them.
LEMMA DropOnce ==
    ASSUME BusTypes, RedisOnce, NEW k \in Consumers, NEW rest,
           inbox' = [inbox EXCEPT ![k] = rest],
           \A y \in DOMAIN rest :
              y \in Nat /\ y # 0 /\ y + 1 \in DOMAIN inbox[k] /\ rest[y] = inbox[k][y + 1],
           \A j \in Consumers : j # k => acking'[j] = acking[j],
           UNCHANGED <<stream, cursor, seen, pc>>
    PROVE  RedisOnce'
<1>1. inbox'[k] = rest /\ \A j \in Consumers : j # k => inbox'[j] = inbox[j]
    BY DEF BusTypes
<1>2. Published' /\ GroupOnce'  BY DEF RedisOnce, Published, Unique, GroupOnce
<1>3. Taken'
    <2>1. \A e : taken(e)' <=> taken(e)  BY DEF taken
    <2>2. ASSUME NEW j \in Consumers, NEW x \in DOMAIN inbox'[j] PROVE taken(inbox'[j][x])
        <3>1. CASE j = k  BY <1>1, <2>2, <3>1 DEF RedisOnce, Taken
        <3>2. CASE j # k  BY <1>1, <2>2, <3>2 DEF RedisOnce, Taken
        <3> QED  BY <3>1, <3>2
    <2> QED  BY <2>2 DEF RedisOnce, Taken, taken
<1>4. ASSUME NEW j \in Consumers, NEW x \in DOMAIN inbox'[j]
      PROVE  \E m \in DOMAIN inbox[j] :
                /\ inbox'[j][x] = inbox[j][m]
                /\ m = IF j = k THEN x + 1 ELSE x
    BY <1>1, <1>4
<1>5. \A x \in DOMAIN rest : x \in Nat /\ x # 0  OBVIOUS
<1>6. InHandOnce'
    <2> SUFFICES ASSUME NEW i \in Consumers, NEW j \in Consumers,
                        NEW x \in DOMAIN inbox'[i], NEW y \in DOMAIN inbox'[j],
                        inbox'[i][x] = inbox'[j][y]
                 PROVE  i = j /\ x = y
        BY DEF InHandOnce
    <2>1. PICK m \in DOMAIN inbox[i] :
            inbox'[i][x] = inbox[i][m] /\ m = IF i = k THEN x + 1 ELSE x
        BY <1>4
    <2>2. PICK n \in DOMAIN inbox[j] :
            inbox'[j][y] = inbox[j][n] /\ n = IF j = k THEN y + 1 ELSE y
        BY <1>4
    <2>3. i = j /\ m = n  BY <2>1, <2>2 DEF RedisOnce, InHandOnce
    <2> QED  BY <1>1, <1>5, <2>1, <2>2, <2>3
<1>7. InHandNew'
    <2> SUFFICES ASSUME NEW i \in Consumers, NEW j \in Consumers,
                        NEW x \in DOMAIN inbox'[j], seen[i][inbox'[j][x]] > 0
                 PROVE  x = 1 /\ acking'[j]
        BY DEF InHandNew
    <2>1. PICK m \in DOMAIN inbox[j] :
            inbox'[j][x] = inbox[j][m] /\ m = IF j = k THEN x + 1 ELSE x
        BY <1>4
    <2>2. m = 1 /\ acking[j]  BY <2>1 DEF RedisOnce, InHandNew
    <2>3. j # k  BY <1>1, <1>5, <2>1, <2>2
    <2> QED  BY <2>1, <2>2, <2>3
<1> QED  BY <1>2, <1>3, <1>6, <1>7 DEF RedisOnce

\* The handler of the first message in hand succeeds.
LEMMA HandleOnce ==
    ASSUME BusTypes, RedisOnce, NEW k \in Consumers, NEW e \in Events, HandleOk(k, e),
           UNCHANGED pc
    PROVE  RedisOnce'
<1>1. /\ inbox[k] # <<>> /\ Head(inbox[k]) = e /\ ~acking[k] /\ saw(k, e)
      /\ acking' = [acking EXCEPT ![k] = TRUE]
      /\ UNCHANGED <<stream, cursor, inbox>>
    BY DEF HandleOk, handling
<1>2. 1 \in DOMAIN inbox[k] /\ inbox[k][1] = e
    BY <1>1 DEF BusTypes
<1>3. \A j \in Consumers : seen[j][e] = 0
    <2>1. \A j \in Consumers : ~(seen[j][e] > 0)
        BY <1>1, <1>2 DEF RedisOnce, InHandNew
    <2> QED  BY <2>1 DEF BusTypes
<1>4. /\ seen'[k][e] = 1
      /\ \A j \in Consumers : \A d \in Events :
            ~(j = k /\ d = e) => seen'[j][d] = seen[j][d]
    BY <1>1, <1>3, SawOnce
<1>5. Published' /\ InHandOnce'
    BY <1>1 DEF RedisOnce, Published, Unique, InHandOnce
<1>6. \A d : taken(d)' <=> taken(d)  BY <1>1 DEF taken
<1>7. Taken'
    <2>1. taken(e)  BY <1>2 DEF RedisOnce, Taken
    <2>2. \A j \in Consumers : \A d \in Events : seen'[j][d] > 0 => taken(d)
        BY <1>4, <2>1 DEF RedisOnce, Taken
    <2>3. \A j \in Consumers : \A x \in DOMAIN inbox[j] : taken(inbox[j][x])
        BY DEF RedisOnce, Taken
    <2> QED  BY <1>1, <2>2, <2>3 DEF Taken, taken
<1>8. InHandNew'
    <2> SUFFICES ASSUME NEW i \in Consumers, NEW j \in Consumers,
                        NEW x \in DOMAIN inbox[j], seen'[i][inbox[j][x]] > 0
                 PROVE  x = 1 /\ acking'[j]
        BY <1>1 DEF InHandNew
    <2>1. inbox[j][x] \in Events  BY DEF BusTypes
    <2>2. CASE inbox[j][x] = e
        <3>1. j = k /\ x = 1  BY <1>2, <2>2 DEF RedisOnce, InHandOnce
        <3> QED  BY <1>1, <3>1 DEF BusTypes
    <2>3. CASE inbox[j][x] # e
        <3>1. seen[i][inbox[j][x]] > 0  BY <1>4, <2>1, <2>3
        <3>2. x = 1 /\ acking[j]  BY <3>1 DEF RedisOnce, InHandNew
        <3> QED  BY <1>1, <3>2 DEF BusTypes
    <2> QED  BY <2>2, <2>3
<1>9. GroupOnce'
    <2> SUFFICES ASSUME NEW d \in Events, NEW i \in Consumers, NEW j \in Consumers
                 PROVE  seen'[j][d] <= 1 /\ (seen'[i][d] > 0 /\ seen'[j][d] > 0 => i = j)
        BY DEF GroupOnce
    <2>1. CASE d = e  BY <1>3, <1>4, <2>1
    <2>2. CASE d # e  BY <1>4, <2>2 DEF RedisOnce, GroupOnce
    <2> QED  BY <2>1, <2>2
<1> QED  BY <1>5, <1>7, <1>8, <1>9 DEF RedisOnce

\* XREADGROUP hands over entries that nobody has read.
LEMMA ReadOnce ==
    ASSUME BusInv, RedisOnce, NEW k \in Consumers, XReadGroup(k), UNCHANGED pc
    PROVE  RedisOnce'
<1> DEFINE n == Min({Batch, Len(stream) - cursor})
           read == SubSeq(stream, cursor + 1, cursor + n)
<1>1. /\ stream \in Seq(Events) /\ cursor \in Nat /\ cursor <= Len(stream)
      /\ Len(stream) \in Nat /\ DOMAIN stream = 1..Len(stream)
    BY DEF BusInv, BusTypes
<1>2. n \in Nat /\ n <= Len(stream) - cursor
    <2>1. Len(stream) - cursor \in Nat  BY <1>1
    <2> QED  BY <2>1, MinFacts, BatchAssumption
<1>3. /\ inbox[k] = <<>>
      /\ inbox' = [inbox EXCEPT ![k] = read] /\ cursor' = cursor + n
      /\ UNCHANGED <<stream, acking, seen>>
    BY DEF XReadGroup
<1> HIDE DEF n
<1>4. /\ DOMAIN read = 1..n
      /\ \A x \in 1..n : cursor + x \in DOMAIN stream /\ read[x] = stream[cursor + x]
    BY <1>1, <1>2, SubSeqProperties
<1> HIDE DEF read
<1>5. inbox'[k] = read /\ \A j \in Consumers : j # k => inbox'[j] = inbox[j]
    BY <1>3 DEF BusInv, BusTypes
<1>6. ASSUME NEW x \in 1..n PROVE ~taken(read[x])
    <2> SUFFICES ASSUME NEW m \in 1..cursor, stream[m] = read[x] PROVE FALSE
        BY DEF taken
    <2>1. m \in DOMAIN stream /\ m # cursor + x  BY <1>1, <1>2
    <2> QED  BY <1>4, <2>1 DEF RedisOnce, Published, Unique
<1>7. /\ \A e : taken(e) => taken(e)'
      /\ \A x \in 1..n : \E m \in 1..cursor' : stream[m] = read[x]
    <2>1. 1..cursor \subseteq 1..cursor' /\ \A x \in 1..n : cursor + x \in 1..cursor'
        BY <1>1, <1>2, <1>3
    <2>2. \A e : taken(e) => taken(e)'  BY <1>3, <2>1 DEF taken
    <2>3. ASSUME NEW x \in 1..n PROVE \E m \in 1..cursor' : stream[m] = read[x]
        BY <1>4, <2>1
    <2> QED  BY <2>2, <2>3
<1>8. Published' /\ GroupOnce'  BY <1>3 DEF RedisOnce, Published, Unique, GroupOnce
<1>9. Taken'
    <2>1. ASSUME NEW j \in Consumers, NEW x \in DOMAIN inbox'[j]
          PROVE  \E m \in 1..cursor' : stream'[m] = inbox'[j][x]
        <3>1. CASE j = k  BY <1>3, <1>4, <1>5, <1>7, <2>1, <3>1
        <3>2. CASE j # k
            <4>1. taken(inbox[j][x])  BY <1>5, <2>1, <3>2 DEF RedisOnce, Taken
            <4> QED  BY <1>5, <1>7, <3>2, <4>1 DEF taken
        <3> QED  BY <3>1, <3>2
    <2>2. \A j \in Consumers : \A e \in Events : seen'[j][e] > 0 => taken(e)'
        BY <1>3, <1>7 DEF RedisOnce, Taken
    <2> QED  BY <2>1, <2>2 DEF Taken, taken
<1>10. InHandOnce'
    <2> SUFFICES ASSUME NEW i \in Consumers, NEW j \in Consumers,
                        NEW x \in DOMAIN inbox'[i], NEW y \in DOMAIN inbox'[j],
                        inbox'[i][x] = inbox'[j][y]
                 PROVE  i = j /\ x = y
        BY DEF InHandOnce
    <2>1. CASE i = k /\ j = k
        <3>1. x \in 1..n /\ y \in 1..n /\ stream[cursor + x] = stream[cursor + y]
            BY <1>4, <1>5, <2>1
        <3>2. cursor + x = cursor + y
            BY <1>4, <3>1 DEF RedisOnce, Published, Unique
        <3> QED  BY <1>1, <1>2, <2>1, <3>1, <3>2
    <2>2. CASE i # k /\ j # k  BY <1>5, <2>2 DEF RedisOnce, InHandOnce
    <2>3. CASE i = k /\ j # k
        <3>1. taken(inbox[j][y])  BY <1>5, <2>3 DEF RedisOnce, Taken
        <3> QED  BY <1>4, <1>5, <1>6, <2>3, <3>1
    <2>4. CASE i # k /\ j = k
        <3>1. taken(inbox[i][x])  BY <1>5, <2>4 DEF RedisOnce, Taken
        <3> QED  BY <1>4, <1>5, <1>6, <2>4, <3>1
    <2> QED  BY <2>1, <2>2, <2>3, <2>4
<1>11. InHandNew'
    <2> SUFFICES ASSUME NEW i \in Consumers, NEW j \in Consumers,
                        NEW x \in DOMAIN inbox'[j], seen[i][inbox'[j][x]] > 0
                 PROVE  x = 1 /\ acking[j]
        BY <1>3 DEF InHandNew
    <2>1. CASE j = k
        <3>1. x \in 1..n /\ seen[i][read[x]] > 0 /\ read[x] = stream[cursor + x]
              /\ cursor + x \in DOMAIN stream
            BY <1>4, <1>5, <2>1
        <3>2. read[x] \in Events  BY <1>1, <3>1
        <3>3. taken(read[x])  BY <3>1, <3>2 DEF RedisOnce, Taken
        <3> QED  BY <1>6, <3>1, <3>3
    <2>2. CASE j # k  BY <1>5, <2>2 DEF RedisOnce, InHandNew
    <2> QED  BY <2>1, <2>2
<1> QED  BY <1>8, <1>9, <1>10, <1>11 DEF RedisOnce

\* A transition publishes its event, and never comes back to do so again.
LEMMA PublishOnce ==
    ASSUME Types, BusTypes, RedisOnce, NEW t \in Events, EmitPublish(t), broker = "redis"
    PROVE  RedisOnce'
<1>1. /\ pc[t] = "emit" /\ stream' = Append(stream, t)
      /\ UNCHANGED <<cursor, inbox, acking, seen>>
    BY DEF EmitPublish, Publish, at
<1>2. /\ pc'[t] \notin {"emit", "handlers"}
      /\ \A u \in Events : u # t => pc'[u] = pc[u]
    BY DEF EmitPublish, goto, loop, Types
<1>3. /\ stream \in Seq(Events) /\ cursor \in Nat /\ cursor <= Len(stream)
      /\ Len(stream) \in Nat /\ DOMAIN stream = 1..Len(stream)
    BY DEF BusTypes
<1>4. /\ DOMAIN stream' = 1..(Len(stream) + 1)
      /\ stream'[Len(stream) + 1] = t
      /\ \A m \in DOMAIN stream : stream'[m] = stream[m]
    BY <1>1, <1>3
<1>5. \A m \in DOMAIN stream : stream[m] # t  BY <1>1 DEF RedisOnce, Published
<1>6. \A m \in DOMAIN stream' : m \in DOMAIN stream \/ m = Len(stream) + 1
    BY <1>3, <1>4
<1>7. Published'
    <2>1. Unique(stream')
        <3> SUFFICES ASSUME NEW m \in DOMAIN stream', NEW n \in DOMAIN stream',
                            stream'[m] = stream'[n]
                     PROVE  m = n
            BY DEF Unique
        <3> QED  BY <1>4, <1>5, <1>6 DEF RedisOnce, Published, Unique
    <2>2. ASSUME NEW u \in Events, pc'[u] = "emit", NEW m \in DOMAIN stream'
          PROVE  stream'[m] # u
        <3>1. u # t /\ pc[u] = "emit"  BY <1>2, <2>2
        <3> QED  BY <1>4, <1>6, <3>1 DEF RedisOnce, Published
    <2>3. \A u \in Events : pc'[u] # "handlers"  BY <1>2 DEF RedisOnce, Published
    <2> QED  BY <2>1, <2>2, <2>3 DEF Published
<1>8. \A e : taken(e)' <=> taken(e)
    <2>1. 1..cursor \subseteq DOMAIN stream  BY <1>3
    <2> QED  BY <1>1, <1>4, <2>1 DEF taken
<1>9. Taken'
    <2>1. ASSUME NEW j \in Consumers, NEW x \in DOMAIN inbox[j]
          PROVE  \E m \in 1..cursor' : stream'[m] = inbox[j][x]
        BY <1>8 DEF RedisOnce, Taken, taken
    <2>2. \A j \in Consumers : \A e \in Events : seen'[j][e] > 0 => taken(e)'
        BY <1>1, <1>8 DEF RedisOnce, Taken
    <2> QED  BY <1>1, <2>1, <2>2 DEF Taken, taken
<1>10. InHandOnce' /\ InHandNew' /\ GroupOnce'
    BY <1>1 DEF RedisOnce, InHandOnce, InHandNew, GroupOnce
<1> QED  BY <1>7, <1>9, <1>10 DEF RedisOnce

\* redisbus: no step of transitions, consumers and workers, and no crash,
\* brings an event to the group twice.
LEMMA RedisStep ==
    ASSUME Types, BusInv, RedisOnce, broker = "redis", [Next]_vars
    PROVE  RedisOnce'
<1>1. ASSUME UNCHANGED <<stream, cursor, inbox, acking, seen>>,
             \A t \in Events : pc'[t] \in {"emit", "handlers"} => pc'[t] = pc[t]
      PROVE  RedisOnce'
    <2>1. Published'  BY <1>1 DEF RedisOnce, Published, Unique
    <2>2. Taken'  BY <1>1 DEF RedisOnce, Taken, taken
    <2>3. InHandOnce' /\ InHandNew' /\ GroupOnce'
        BY <1>1 DEF RedisOnce, InHandOnce, InHandNew, GroupOnce
    <2> QED  BY <2>1, <2>2, <2>3 DEF RedisOnce
<1>2. ASSUME NEW t \in Events, runPostCommit(t) PROVE RedisOnce'
    <2>1. CASE EmitPublish(t)  BY <2>1, PublishOnce DEF BusInv
    <2>2. CASE EmitCopy(t)  BY <2>2 DEF EmitCopy
    <2>3. CASE EmitCall(t)  BY <2>3 DEF EmitCall, at, RedisOnce, Published
    <2>4. CASE EmitFails(t) \/ EmitReturn(t)
        BY <1>1, <2>4 DEF EmitFails, EmitReturn, goto, loop, busVars, Types
    <2>5. CASE SkipRecord(t) \/ RecordFails(t) \/ RecordInvocation(t)
        BY <1>1, <2>5 DEF SkipRecord, RecordFails, RecordInvocation, goto, busVars, Types
    <2>6. CASE DispatchFails(t) \/ DispatchErrs(t) \/ Dispatch(t)
        BY <1>1, <2>6 DEF DispatchFails, DispatchErrs, Dispatch, advance, goto, loop,
           busVars, Types
    <2> QED  BY <1>2, <2>1, <2>2, <2>3, <2>4, <2>5, <2>6 DEF runPostCommit
<1>3. ASSUME NEW k \in Consumers, NEW e \in Events, HandleFail(k, e), UNCHANGED pc
      PROVE  RedisOnce'
    <2>1. /\ inbox[k] # <<>> /\ inbox' = [inbox EXCEPT ![k] = Tail(inbox[k])]
          /\ UNCHANGED <<stream, cursor, acking, seen>>
        BY <1>3 DEF HandleFail, handling
    <2>2. inbox[k] \in Seq(Events)  BY DEF BusInv, BusTypes
    <2>3. \A y \in DOMAIN Tail(inbox[k]) :
            /\ y \in Nat /\ y # 0 /\ y + 1 \in DOMAIN inbox[k]
            /\ Tail(inbox[k])[y] = inbox[k][y + 1]
        BY <2>1, <2>2
    <2> QED  BY <1>3, <2>1, <2>3, DropOnce DEF BusInv
<1>4. ASSUME NEW k \in Consumers, Acknowledge(k), UNCHANGED pc
      PROVE  RedisOnce'
    <2>1. /\ acking[k] /\ inbox' = [inbox EXCEPT ![k] = Tail(inbox[k])]
          /\ acking' = [acking EXCEPT ![k] = FALSE]
          /\ UNCHANGED <<stream, cursor, seen>>
        BY <1>4 DEF Acknowledge
    <2>2. inbox[k] \in Seq(Events) /\ inbox[k] # <<>>
        BY <2>1 DEF BusInv, BusTypes, AckingHandled
    <2>3. \A y \in DOMAIN Tail(inbox[k]) :
            /\ y \in Nat /\ y # 0 /\ y + 1 \in DOMAIN inbox[k]
            /\ Tail(inbox[k])[y] = inbox[k][y + 1]
        BY <2>2
    <2>4. \A j \in Consumers : j # k => acking'[j] = acking[j]
        BY <2>1 DEF BusInv, BusTypes
    <2> QED  BY <1>4, <2>1, <2>3, <2>4, DropOnce DEF BusInv
<1>5. ASSUME NEW k \in Consumers, Resubscribe(k), UNCHANGED pc
      PROVE  RedisOnce'
    <2>1. /\ inbox' = [inbox EXCEPT ![k] = <<>>]
          /\ acking' = [acking EXCEPT ![k] = FALSE]
          /\ UNCHANGED <<stream, cursor, seen>>
        BY <1>5 DEF Resubscribe
    <2>2. \A j \in Consumers : j # k => acking'[j] = acking[j]
        BY <2>1 DEF BusInv, BusTypes
    <2>3. DOMAIN <<>> = {}  OBVIOUS
    <2> QED  BY <1>5, <2>1, <2>2, <2>3, DropOnce DEF BusInv
<1>6. CASE BusNext /\ UNCHANGED <<actVars, dispatcher>>
    <2>1. UNCHANGED pc  BY <1>6 DEF dispatcher
    <2>2. ASSUME NEW e \in Events, Deliver(e) \/ Expire(e) PROVE RedisOnce'
        BY <2>2 DEF Deliver, Expire
    <2>3. ASSUME NEW k \in Consumers, SubscribeHandler(k) PROVE RedisOnce'
        BY <2>3 DEF SubscribeHandler
    <2>4. ASSUME NEW k \in Consumers, XReadGroup(k) \/ Acknowledge(k) PROVE RedisOnce'
        BY <1>4, <2>1, <2>4, ReadOnce
    <2>5. ASSUME NEW k \in Consumers, NEW e \in Events, HandleOk(k, e) \/ HandleFail(k, e)
          PROVE  RedisOnce'
        BY <1>3, <2>1, <2>5, HandleOnce DEF BusInv
    <2> QED  BY <1>6, <2>2, <2>3, <2>4, <2>5 DEF BusNext
<1>7. CASE \E k \in Consumers : ConsumerCrash(k)
    BY <1>5, <1>7 DEF ConsumerCrash
<1>8. CASE UNCHANGED <<busVars, pc>>
    BY <1>1, <1>8 DEF busVars
<1> QED
    BY <1>2, <1>6, <1>7, <1>8 DEF Next, Crash, Settled, vars, dispatcher

\* chanbus subscribes a handler once.
LEMMA SubscribeOnce ==
    ASSUME ChanOnce, NEW k \in Consumers, SubscribeHandler(k)
    PROVE  handlers' \in Seq(Consumers) /\ Unique(handlers')
<1>1. /\ handlers' = Append(handlers, k)
      /\ \A m \in DOMAIN handlers : handlers[m] # k
    BY DEF SubscribeHandler, Contains
<1>2. handlers \in Seq(Consumers) /\ Unique(handlers)  BY DEF ChanOnce
<1>3. /\ DOMAIN handlers = 1..Len(handlers) /\ Len(handlers) \in Nat
      /\ DOMAIN handlers' = 1..(Len(handlers) + 1) /\ handlers' \in Seq(Consumers)
      /\ handlers'[Len(handlers) + 1] = k
      /\ \A m \in DOMAIN handlers : handlers'[m] = handlers[m]
    BY <1>1, <1>2
<1>4. \A m \in DOMAIN handlers' : m \in DOMAIN handlers \/ m = Len(handlers) + 1
    BY <1>3
<1>5. ASSUME NEW m \in DOMAIN handlers', NEW n \in DOMAIN handlers',
             handlers'[m] = handlers'[n]
      PROVE  m = n
    BY <1>1, <1>2, <1>3, <1>4, <1>5 DEF Unique
<1> QED  BY <1>3, <1>5 DEF Unique

\* chanbus calls the next handler for an event, which has not had it.
LEMMA CallOnce ==
    ASSUME Types, BusTypes, ChanOnce, NEW t \in Events, EmitCall(t)
    PROVE  ChanOnce'
<1> DEFINE h == Head(todo[t])
<1>1. /\ pc[t] = "handlers" /\ todo[t] # <<>> /\ saw(h, t)
      /\ todo' = [todo EXCEPT ![t] = Tail(todo[t])]
      /\ UNCHANGED <<inbox, handlers, pc>>
    BY DEF EmitCall, at
<1>2. todo[t] \in Seq(Consumers) /\ Unique(todo[t])
    BY DEF ChanOnce
<1>3. /\ h \in Consumers /\ 1 \in DOMAIN todo[t] /\ todo[t][1] = h
      /\ Tail(todo[t]) \in Seq(Consumers)
      /\ \A y \in DOMAIN Tail(todo[t]) :
            /\ y \in Nat /\ y # 0 /\ y + 1 \in DOMAIN todo[t]
            /\ Tail(todo[t])[y] = todo[t][y + 1]
    BY <1>1, <1>2
<1> HIDE DEF h
<1>4. seen[h][t] = 0  BY <1>3 DEF ChanOnce
<1>5. /\ seen'[h][t] = 1
      /\ \A k \in Consumers : \A d \in Events :
            ~(k = h /\ d = t) => seen'[k][d] = seen[k][d]
    BY <1>1, <1>3, <1>4, SawOnce
<1>6. /\ todo'[t] = Tail(todo[t]) /\ \A u \in Events : u # t => todo'[u] = todo[u]
      /\ todo' \in [Events -> Seq(Consumers)]
    BY <1>1, <1>3 DEF ChanOnce
<1>7. ASSUME NEW y \in DOMAIN Tail(todo[t])
      PROVE  Tail(todo[t])[y] \in Consumers /\ Tail(todo[t])[y] # h
    <2>1. y + 1 # 1  BY <1>3
    <2>2. todo[t][y + 1] # h  BY <1>2, <1>3, <2>1 DEF Unique
    <2> QED  BY <1>3, <2>2
<1>8. Unique(Tail(todo[t]))
    <2> SUFFICES ASSUME NEW x \in DOMAIN Tail(todo[t]), NEW y \in DOMAIN Tail(todo[t]),
                        Tail(todo[t])[x] = Tail(todo[t])[y]
                 PROVE  x = y
        BY DEF Unique
    <2>1. x + 1 = y + 1  BY <1>2, <1>3 DEF Unique
    <2>2. x \in Nat /\ y \in Nat  BY <1>3
    <2> QED  BY <2>1, <2>2
<1>9. ASSUME NEW u \in Events
      PROVE  /\ Unique(todo'[u])
             /\ \A x \in DOMAIN todo'[u] : seen'[todo'[u][x]][u] = 0
             /\ pc'[u] = "emit" => \A k \in Consumers : seen'[k][u] = 0
             /\ \A k \in Consumers : seen'[k][u] <= 1
    <2>1. CASE u = t
        <3>1. \A x \in DOMAIN todo'[t] : seen'[todo'[t][x]][t] = 0
            <4> SUFFICES ASSUME NEW x \in DOMAIN Tail(todo[t])
                         PROVE  seen'[Tail(todo[t])[x]][t] = 0
                BY <1>6
            <4>1. seen[todo[t][x + 1]][t] = 0  BY <1>3 DEF ChanOnce
            <4> QED  BY <1>3, <1>5, <1>7, <4>1
        <3>2. ASSUME NEW k \in Consumers PROVE seen'[k][t] <= 1
            <4>1. CASE k = h  BY <1>5, <4>1
            <4>2. CASE k # h  BY <1>5, <4>2 DEF ChanOnce
            <4> QED  BY <4>1, <4>2
        <3> QED  BY <1>1, <1>3, <1>6, <1>8, <2>1, <3>1, <3>2
    <2>2. CASE u # t
        <3>1. \A k \in Consumers : seen'[k][u] = seen[k][u]  BY <1>5, <2>2
        <3>2. todo'[u] = todo[u] /\ pc'[u] = pc[u]  BY <1>1, <1>6, <2>2
        <3>3. \A x \in DOMAIN todo[u] : todo[u][x] \in Consumers  BY DEF ChanOnce
        <3> QED  BY <3>1, <3>2, <3>3 DEF ChanOnce
    <2> QED  BY <2>1, <2>2
<1> QED  BY <1>1, <1>6, <1>9 DEF ChanOnce

\* chanbus: every handler copied when the event is emitted is called once.
LEMMA ChanStep ==
    ASSUME Types, BusInv, ChanOnce, broker = "chan", [Next]_vars
    PROVE  ChanOnce'
<1>1. ASSUME UNCHANGED <<inbox, seen, handlers, todo>>,
             \A t \in Events : pc'[t] = "emit" => pc[t] = "emit"
      PROVE  ChanOnce'
    BY <1>1 DEF ChanOnce, Unique
<1>2. ASSUME NEW t \in Events, runPostCommit(t) PROVE ChanOnce'
    <2>1. CASE EmitPublish(t) \/ EmitFails(t)  BY <2>1 DEF EmitPublish, EmitFails
    <2>2. CASE EmitCopy(t)
        <3>1. /\ pc[t] = "emit" /\ todo' = [todo EXCEPT ![t] = handlers]
              /\ pc' = [pc EXCEPT ![t] = "handlers"] /\ UNCHANGED <<inbox, seen, handlers>>
            BY <2>2 DEF EmitCopy, at, goto, busVars
        <3>2. /\ todo' \in [Events -> Seq(Consumers)] /\ todo'[t] = handlers
              /\ \A u \in Events : u # t => todo'[u] = todo[u] /\ pc'[u] = pc[u]
              /\ pc'[t] = "handlers"
            BY <3>1 DEF ChanOnce, Types
        <3>3. \A x \in DOMAIN handlers : handlers[x] \in Consumers  BY DEF ChanOnce
        <3>4. \A x \in DOMAIN handlers : seen[handlers[x]][t] = 0
            BY <3>1, <3>3 DEF ChanOnce
        <3>5. ASSUME NEW u \in Events
              PROVE  /\ Unique(todo'[u])
                     /\ \A x \in DOMAIN todo'[u] : seen'[todo'[u][x]][u] = 0
                     /\ pc'[u] = "emit" => \A k \in Consumers : seen'[k][u] = 0
                     /\ \A k \in Consumers : seen'[k][u] <= 1
            <4>1. CASE u = t  BY <3>1, <3>2, <3>4, <4>1 DEF ChanOnce
            <4>2. CASE u # t  BY <3>1, <3>2, <4>2 DEF ChanOnce
            <4> QED  BY <4>1, <4>2
        <3> QED  BY <3>1, <3>2, <3>5 DEF ChanOnce
    <2>3. CASE EmitCall(t)  BY <2>3, CallOnce DEF BusInv
    <2>4. CASE EmitReturn(t)
        BY <1>1, <2>4 DEF EmitReturn, goto, loop, busVars, Types
    <2>5. CASE SkipRecord(t) \/ RecordFails(t) \/ RecordInvocation(t)
        BY <1>1, <2>5 DEF SkipRecord, RecordFails, RecordInvocation, goto, busVars, Types
    <2>6. CASE DispatchFails(t) \/ DispatchErrs(t) \/ Dispatch(t)
        BY <1>1, <2>6 DEF DispatchFails, DispatchErrs, Dispatch, advance, goto, loop,
           busVars, Types
    <2> QED  BY <1>2, <2>1, <2>2, <2>3, <2>4, <2>5, <2>6 DEF runPostCommit
<1>3. CASE BusNext /\ UNCHANGED <<actVars, dispatcher>>
    <2>1. UNCHANGED <<pc, todo>>  BY <1>3 DEF dispatcher
    <2>2. ASSUME NEW e \in Events, Deliver(e) \/ Expire(e) PROVE ChanOnce'
        BY <2>2 DEF Deliver, Expire
    <2>3. ASSUME NEW k \in Consumers, SubscribeHandler(k) PROVE ChanOnce'
        <3>1. handlers' \in Seq(Consumers) /\ Unique(handlers')  BY <2>3, SubscribeOnce
        <3>2. UNCHANGED <<inbox, seen>>  BY <2>3 DEF SubscribeHandler
        <3> QED  BY <2>1, <3>1, <3>2 DEF ChanOnce, Unique
    <2>4. ASSUME NEW k \in Consumers, XReadGroup(k) PROVE ChanOnce'
        BY <2>4 DEF XReadGroup
    <2>5. ASSUME NEW k \in Consumers, Acknowledge(k) PROVE ChanOnce'
        BY <2>5 DEF Acknowledge, ChanOnce, BusInv, AckingHandled
    <2>6. ASSUME NEW k \in Consumers, NEW e \in Events, HandleOk(k, e) \/ HandleFail(k, e)
          PROVE  ChanOnce'
        BY <2>6 DEF HandleOk, HandleFail, handling, ChanOnce
    <2> QED  BY <1>3, <2>2, <2>3, <2>4, <2>5, <2>6 DEF BusNext
<1>4. CASE \E k \in Consumers : ConsumerCrash(k)
    BY <1>4 DEF ConsumerCrash, Resubscribe, ChanOnce
<1>5. CASE UNCHANGED <<busVars, pc, todo>>
    BY <1>1, <1>5 DEF busVars
<1> QED
    BY <1>2, <1>3, <1>4, <1>5 DEF Next, Crash, Settled, vars, dispatcher

\* The bus in use does not change.
LEMMA SameBroker == [Next]_vars => broker' = broker
  BY DEF Next, runPostCommit, EmitPublish, Publish, EmitFails, EmitCopy, EmitCall,
     EmitReturn, SkipRecord, RecordFails, RecordInvocation, DispatchFails, DispatchErrs,
     Dispatch,
     BusNext, Deliver, Expire, SubscribeHandler, XReadGroup, Acknowledge, HandleOk,
     HandleFail, Crash, ConsumerCrash, Resubscribe, Settled, vars, busVars

\* chanbus calls a handler once for an event, and redisbus hands an event to one
\* consumer of the group and never again, for any number of events, consumers,
\* failing handlers, lost acknowledgements and crashes.
THEOREM HandledOnceCorrect == Spec => []HandledOnce
<1>1. Init => OnceInv
    <2> SUFFICES ASSUME Init PROVE RedisOnce /\ ChanOnce  BY DEF OnceInv
    <2>1. DOMAIN <<>> = {} /\ <<>> \in Seq(Consumers)  OBVIOUS
    <2>2. /\ stream = <<>> /\ cursor = 0 /\ handlers = <<>>
          /\ \A k \in Consumers : inbox[k] = <<>> /\ \A e \in Events : seen[k][e] = 0
          /\ todo = [t \in Events |-> <<>>] /\ \A t \in Events : pc[t] = "emit"
        BY DEF Init, BusInit
    <2>3. RedisOnce
        BY <2>1, <2>2
        DEF RedisOnce, Published, Unique, Taken, InHandOnce, InHandNew, GroupOnce
    <2>4. ChanOnce  BY <2>1, <2>2 DEF ChanOnce, Unique
    <2> QED  BY <2>3, <2>4
<1>2. Inv /\ BusInv /\ OnceInv /\ [Next]_vars => OnceInv'
    BY SameBroker, RedisStep, ChanStep DEF Inv, OnceInv
<1>3. OnceInv => HandledOnce
    BY DEF OnceInv, RedisOnce, GroupOnce, ChanOnce, HandledOnce
<1> QED  BY <1>1, <1>2, <1>3, InitInv, NextInv, InitBus, NextBus, PTL DEF Spec
=============================================================================
