----------------------------- MODULE PostCommit -----------------------------
(***************************************************************************)
(* What follows the commit of a transition: runPostCommit emits the event  *)
(* and records and dispatches the activities, each failure a warning, and  *)
(* the adapters take it from there.  Several transitions do so at once.    *)
(* The process may die; nothing it had still to do is done again.          *)
(***************************************************************************)
EXTENDS EventBus, Activities

CONSTANTS
    ActivitiesOf,  \* transition (and its event) -> number of its activities, 0
                   \* without an activity runner
    Kits,          \* the adapters used together: [bus, runner, store]
    MaxCrashes     \* bound on crashes and resubscriptions

\* One invocation for each activity of a transition.
ASSUME InvocationsAssumption ==
    Invocations = UNION {{<<t, n>> : n \in 1..ActivitiesOf[t]} : t \in Events}

ASSUME CountsAssumption ==
    /\ ActivitiesOf \in [Events -> Nat]
    /\ Policy \in [Invocations -> Nat]
    /\ DefaultRetry \in Nat

VARIABLES
    pc,          \* transition -> the step of runPostCommit
    act,         \* transition -> the activity it has come to
    todo,        \* transition -> chanbus handlers still to be called
    dispatched,  \* ActivitiesDispatched of the results
    warnings,    \* Warnings of the results about activities: [op, of]
    dead,        \* the process has died
    crashes      \* crashes and resubscriptions so far

dispatcher == <<pc, act, todo, dispatched, warnings, dead, crashes>>
vars == <<busVars, actVars, dispatcher>>

Init ==
    /\ BusInit /\ ActInit
    /\ \E kit \in Kits : broker = kit.bus /\ runner = kit.runner /\ store = kit.store
    /\ pc = [t \in Events |-> "emit"]
    /\ act = [t \in Events |-> 1]
    /\ todo = [t \in Events |-> <<>>]
    /\ dispatched = {}
    /\ warnings = {}
    /\ dead = FALSE
    /\ crashes = 0

----------------------------------------------------------------------------
(* Helpers *)

goto(t, step) == pc' = [pc EXCEPT ![t] = step]

warn(op, of) == warnings' = warnings \cup {[op |-> op, of |-> of]}

\* Where the loop over the activities goes on from its nth activity.
loop(t, n) == IF n <= ActivitiesOf[t] THEN "record" ELSE "done"

\* The invocation the loop has come to.
current(t) == <<t, act[t]>>

at(t, step) == ~dead /\ pc[t] = step

----------------------------------------------------------------------------
(* 1. Emit *)

\* natsbus and redisbus
EmitPublish(t) ==
    /\ at(t, "emit")
    /\ broker # "chan"
    /\ Publish(t)
    /\ goto(t, loop(t, 1))
    /\ UNCHANGED <<actVars, act, todo, dispatched, warnings, dead, crashes>>

\* Nothing is published, or there is no bus; when only the broker's answer is
\* lost, the step is EmitPublish with a warning.
EmitFails(t) ==
    /\ at(t, "emit")
    /\ broker # "chan"
    /\ goto(t, loop(t, 1))
    /\ UNCHANGED <<busVars, actVars, act, todo, dispatched, warnings, dead, crashes>>

\* chanbus copies the list of handlers.
EmitCopy(t) ==
    /\ at(t, "emit")
    /\ broker = "chan"
    /\ todo' = [todo EXCEPT ![t] = handlers]
    /\ goto(t, "handlers")
    /\ UNCHANGED <<busVars, actVars, act, dispatched, warnings, dead, crashes>>

\* It calls them one by one.
EmitCall(t) ==
    /\ at(t, "handlers")
    /\ todo[t] # <<>>
    /\ saw(Head(todo[t]), t)
    /\ todo' = [todo EXCEPT ![t] = Tail(@)]
    /\ UNCHANGED <<broker, stream, cursor, msg, inbox, acking, handlers, expiries>>
    /\ UNCHANGED <<actVars, pc, act, dispatched, warnings, dead, crashes>>

EmitReturn(t) ==
    /\ at(t, "handlers")
    /\ todo[t] = <<>>
    /\ goto(t, loop(t, 1))
    /\ UNCHANGED <<busVars, actVars, act, todo, dispatched, warnings, dead, crashes>>

----------------------------------------------------------------------------
(* 2. Dispatch activities *)

\* Without an activity store the activity is dispatched unrecorded.
SkipRecord(t) ==
    /\ at(t, "record")
    /\ ~store
    /\ goto(t, "dispatch")
    /\ UNCHANGED <<busVars, actVars, act, todo, dispatched, warnings, dead, crashes>>

\* Mutant: the error of ActivityStore.Create is dropped.
RecordFails_silent(t) ==
    /\ at(t, "record")
    /\ RefuseRecord(current(t))
    /\ goto(t, "dispatch")
    /\ UNCHANGED <<busVars, act, todo, dispatched, warnings, dead, crashes>>

\* The error is a warning, and the activity is dispatched all the same.
RecordFails(t) ==
    /\ at(t, "record")
    /\ RefuseRecord(current(t))
    /\ warn("record", current(t))
    /\ goto(t, "dispatch")
    /\ UNCHANGED <<busVars, act, todo, dispatched, dead, crashes>>

RecordInvocation(t) ==
    /\ at(t, "record")
    /\ Record(current(t))
    /\ goto(t, "dispatch")
    /\ UNCHANGED <<busVars, act, todo, dispatched, warnings, dead, crashes>>

advance(t) ==
    /\ act' = [act EXCEPT ![t] = @ + 1]
    /\ goto(t, loop(t, act[t] + 1))

\* Mutant: an activity counts as dispatched whether the runner took it or not.
DispatchFails_counted(t) ==
    /\ at(t, "dispatch")
    /\ dispatchFails(current(t))
    /\ dispatched' = dispatched \cup {current(t)}
    /\ advance(t)
    /\ UNCHANGED <<busVars, actVars, todo, warnings, dead, crashes>>

\* Mutant: the activity is dispatched again until the runner takes it.
DispatchFails_again(t) ==
    /\ at(t, "dispatch")
    /\ dispatchFails(current(t))
    /\ DispatchQueue(current(t)) \/ UNCHANGED actVars
    /\ warn("dispatch", current(t))
    /\ UNCHANGED <<busVars, pc, act, todo, dispatched, dead, crashes>>

\* The runner refuses the activity, or the answer of the queue is lost.
DispatchFails(t) ==
    /\ at(t, "dispatch")
    /\ dispatchFails(current(t))
    /\ DispatchQueue(current(t)) \/ UNCHANGED actVars
    /\ warn("dispatch", current(t))
    /\ advance(t)
    /\ UNCHANGED <<busVars, todo, dispatched, dead, crashes>>

\* memrunner's activity fails.
DispatchErrs(t) ==
    /\ at(t, "dispatch")
    /\ DispatchInline(current(t), FALSE)
    /\ warn("dispatch", current(t))
    /\ advance(t)
    /\ UNCHANGED <<busVars, todo, dispatched, dead, crashes>>

Dispatch(t) ==
    /\ at(t, "dispatch")
    /\ \/ DispatchInline(current(t), TRUE)
       \/ DispatchGo(current(t))
       \/ DispatchQueue(current(t))
    /\ dispatched' = dispatched \cup {current(t)}
    /\ advance(t)
    /\ UNCHANGED <<busVars, todo, warnings, dead, crashes>>

----------------------------------------------------------------------------
(* Failures *)

mayCrash == crashes < MaxCrashes /\ crashes' = crashes + 1

\* The engine's process dies with its goroutines and with the results it was
\* building, warnings included; the broker, the queue and the activity store,
\* a database, stay.
Crash ==
    /\ ~dead /\ mayCrash
    /\ dead' = TRUE
    /\ live' = [i \in Invocations |-> "none"]
    /\ dispatched' = {}
    /\ warnings' = {}
    /\ UNCHANGED <<busVars, runner, records, errors, queue, retried, execs, erred>>
    /\ UNCHANGED <<pc, act, todo>>

ConsumerCrash(k) ==
    /\ mayCrash
    /\ Resubscribe(k)
    /\ UNCHANGED <<actVars, pc, act, todo, dispatched, warnings, dead>>

----------------------------------------------------------------------------

runPostCommit(t) ==
    \/ EmitPublish(t) \/ EmitFails(t) \/ EmitCopy(t) \/ EmitCall(t) \/ EmitReturn(t)
    \/ SkipRecord(t) \/ RecordFails(t) \/ RecordInvocation(t)
    \/ DispatchFails(t) \/ DispatchErrs(t) \/ Dispatch(t)

\* Every dispatcher has ended; consumers and workers may go on.
Settled == (dead \/ \A t \in Events : pc[t] = "done") /\ UNCHANGED vars

Next ==
    \/ \E t \in Events : runPostCommit(t)
    \/ BusNext /\ UNCHANGED <<actVars, dispatcher>>
    \/ ActNext /\ UNCHANGED <<busVars, dispatcher>>
    \/ Crash
    \/ \E k \in Consumers : ConsumerCrash(k)
    \/ Settled

Fairness ==
    /\ BusFairness /\ ActFairness
    /\ \A t \in Events : WF_vars(runPostCommit(t))

Spec == Init /\ [][Next]_vars /\ Fairness

----------------------------------------------------------------------------
(* Properties *)

\* A message that was acknowledged has been handled: a handler that fails, a
\* consumer that dies and an acknowledgement that comes late leave it
\* unacknowledged.  (natsbus then has it again; what redisbus left pending is
\* never read again.)
AckedHandled == \A e \in Events : msg[e] = "acked" => handled(e)

\* natsbus delivers at least once: an event that was published is handled,
\* even if handlers fail, consumers die or acknowledgements are lost.
NatsDelivers ==
    \A e \in Events : (broker = "nats" /\ msg[e] # "none") ~> handled(e)

\* chanbus calls each handler at most once for an event, and redisbus never
\* hands an event to the group twice: no consumer handles it again, and no two
\* consumers handle it.
HandledOnce ==
    \A e \in Events : \A j, k \in Consumers :
        /\ broker \in {"chan", "redis"} => seen[k][e] <= 1
        /\ broker = "redis" /\ seen[j][e] > 0 /\ seen[k][e] > 0 => j = k

\* An activity that the result of the transition lists as dispatched is
\* executed.  A crash may prevent it only with a runner inside the process, and
\* only the queue takes an activity that nobody has registered.
DispatchedRuns ==
    \A i \in Invocations :
        (i \in dispatched) ~>
            \/ execs[i] > 0
            \/ dead /\ runner # "asynq"
            \/ i \in Unregistered /\ runner = "asynq"

\* Where an activity store is configured, an activity that ran is in it unless
\* the store refused it, even if the process died meanwhile: it is recorded
\* before it is dispatched.  Of a process that lives, the result says the rest:
\* it warns of the refusal, and once the loop is past the activity it lists it as
\* dispatched or warns that it may not have been, even when the queue took it
\* and only the answer was lost.  (A crash takes the warnings with it: after a
\* refusal only an observer that was told still knows of the activity.)
Traceable ==
    \A i \in Invocations :
        execs[i] > 0 =>
            /\ store => i \in recorded \cup refused
            /\ ~dead =>
                  /\ i \in refused => [op |-> "record", of |-> i] \in warnings
                  /\ act[i[1]] > i[2] =>
                        i \in dispatched \/ [op |-> "dispatch", of |-> i] \in warnings

\* An activity runs again only when the queue retries one that failed: no lost
\* answer, warning or crash makes the dispatcher hand it over twice, and the
\* runners inside the process run it once.
RerunAfterFailure ==
    \A i \in Invocations : execs[i] > 1 => runner = "asynq" /\ i \in erred

\* When Wait of goroutinerunner returns, Errors has the error of every
\* activity that failed.
ErrorsComplete ==
    (~dead /\ runner = "goroutine" /\ \A i \in Invocations : live[i] = "none")
        => erred \subseteq errors

----------------------------------------------------------------------------
(* What the code says and does not keep *)

\* MaxAttempts of the invocation: 1 without a policy.
maxAttempts(i) == IF Policy[i] > 0 THEN Policy[i] ELSE 1

\* MaxAttempts bounds the executions, as ListRetryable of the activity store
\* takes it: no runner executes an activity more often.
AttemptsBounded == \A i \in Invocations : execs[i] <= maxAttempts(i)
=============================================================================
