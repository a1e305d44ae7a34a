----------------------------- MODULE Activities -----------------------------
(***************************************************************************)
(* The activity runners and the activity store.  memrunner executes an     *)
(* activity before Dispatch returns, goroutinerunner in a goroutine, and   *)
(* asynqrunner leaves it to the workers of a queue, which retry it.        *)
(***************************************************************************)
EXTENDS Naturals, FiniteSets

CONSTANTS
    Invocations,
    Unregistered,  \* invocations of an activity that runner and workers do not know
    Policy,        \* invocation -> RetryPolicy.MaxAttempts, 0 without a policy
    DefaultRetry   \* the retries the queue makes when it is told no number

VARIABLES
    runner,    \* the adapter in use: "mem", "goroutine" or "asynq"
    store,     \* an activity store is configured
    recorded,  \* the activity store: invocations with status SCHEDULED
    refused,   \* ghost: invocations whose Create returned an error
    live,      \* goroutines: invocation -> "none", "running", "failed"
    errors,    \* goroutinerunner: invocations whose error was collected
    queue,     \* asynq: invocation -> "none", "queued", "active", "done", "archived"
    retried,   \* asynq: invocation -> retries so far
    execs,     \* invocation -> executions started
    erred      \* invocations an execution of which failed

records == <<store, recorded, refused>>
actVars == <<runner, records, live, errors, queue, retried, execs, erred>>

ActInit ==
    /\ recorded = {}
    /\ refused = {}
    /\ live = [i \in Invocations |-> "none"]
    /\ errors = {}
    /\ queue = [i \in Invocations |-> "none"]
    /\ retried = [i \in Invocations |-> 0]
    /\ execs = [i \in Invocations |-> 0]
    /\ erred = {}

execute(i) == execs' = [execs EXCEPT ![i] = @ + 1]

----------------------------------------------------------------------------
(* ActivityStore.Create *)

Record(i) ==
    /\ store
    /\ recorded' = recorded \cup {i}
    /\ UNCHANGED <<runner, store, refused, live, errors, queue, retried, execs, erred>>

\* It fails; the invocation may be stored all the same, the answer lost.
RefuseRecord(i) ==
    /\ store
    /\ refused' = refused \cup {i}
    /\ recorded' \in {recorded, recorded \cup {i}}
    /\ UNCHANGED <<runner, store, live, errors, queue, retried, execs, erred>>

----------------------------------------------------------------------------
(* Dispatch *)

\* memrunner: the activity runs here, and its error is Dispatch's.
DispatchInline(i, ok) ==
    /\ runner = "mem"
    /\ i \notin Unregistered
    /\ execute(i)
    /\ erred' = IF ok THEN erred ELSE erred \cup {i}
    /\ UNCHANGED <<runner, records, live, errors, queue, retried>>

\* goroutinerunner: wg.Add and go.
DispatchGo(i) ==
    /\ runner = "goroutine"
    /\ i \notin Unregistered
    /\ live' = [live EXCEPT ![i] = "running"]
    /\ UNCHANGED <<runner, records, errors, queue, retried, execs, erred>>

\* asynqrunner: client.Enqueue.
DispatchQueue(i) ==
    /\ runner = "asynq"
    /\ queue' = [queue EXCEPT ![i] = "queued"]
    /\ UNCHANGED <<runner, records, live, errors, retried, execs, erred>>

\* Dispatch fails: the activity is not registered, or the queue out of reach.
dispatchFails(i) == runner = "asynq" \/ i \in Unregistered

----------------------------------------------------------------------------
(* Execution *)

\* Mutant: wg.Done comes before the error is collected.
GoExecute_done(i, ok) ==
    /\ live[i] = "running"
    /\ execute(i)
    /\ live' = [live EXCEPT ![i] = "none"]
    /\ erred' = IF ok THEN erred ELSE erred \cup {i}
    /\ UNCHANGED <<runner, records, errors, queue, retried>>

\* The goroutine runs the activity; a failure is still to be collected.
GoExecute(i, ok) ==
    /\ live[i] = "running"
    /\ execute(i)
    /\ live' = [live EXCEPT ![i] = IF ok THEN "none" ELSE "failed"]
    /\ erred' = IF ok THEN erred ELSE erred \cup {i}
    /\ UNCHANGED <<runner, records, errors, queue, retried>>

\* The error is appended, then the deferred wg.Done runs.
GoCollect(i) ==
    /\ live[i] = "failed"
    /\ errors' = errors \cup {i}
    /\ live' = [live EXCEPT ![i] = "none"]
    /\ UNCHANGED <<runner, records, queue, retried, execs, erred>>

\* asynq.MaxRetry(MaxAttempts): retries after the first execution.
maxRetry(i) == IF Policy[i] > 0 THEN Policy[i] ELSE DefaultRetry

\* A worker takes the invocation and calls Execute, if it has a handler for it.
Work(i) ==
    /\ queue[i] = "queued"
    /\ queue' = [queue EXCEPT ![i] = "active"]
    /\ IF i \in Unregistered THEN UNCHANGED execs ELSE execute(i)
    /\ UNCHANGED <<runner, records, live, errors, retried, erred>>

WorkOk(i) ==
    /\ queue[i] = "active"
    /\ i \notin Unregistered
    /\ queue' = [queue EXCEPT ![i] = "done"]
    /\ UNCHANGED <<runner, records, live, errors, retried, execs, erred>>

\* The activity fails or its worker dies: the queue tries it again or gives up.
WorkFails(i) ==
    /\ queue[i] = "active"
    /\ erred' = erred \cup {i}
    /\ IF retried[i] < maxRetry(i)
       THEN /\ queue' = [queue EXCEPT ![i] = "queued"]
            /\ retried' = [retried EXCEPT ![i] = @ + 1]
       ELSE /\ queue' = [queue EXCEPT ![i] = "archived"]
            /\ UNCHANGED retried
    /\ UNCHANGED <<runner, records, live, errors, execs>>

----------------------------------------------------------------------------

ActNext ==
    \E i \in Invocations :
        \/ \E ok \in BOOLEAN : GoExecute(i, ok)
        \/ GoCollect(i) \/ Work(i) \/ WorkOk(i) \/ WorkFails(i)

\* Goroutines and workers go on, and activities end.
ActFairness ==
    \A i \in Invocations :
        /\ WF_actVars(GoExecute(i, TRUE) \/ GoExecute(i, FALSE) \/ GoCollect(i))
        /\ WF_actVars(Work(i))
        /\ WF_actVars(WorkOk(i) \/ WorkFails(i))
=============================================================================
