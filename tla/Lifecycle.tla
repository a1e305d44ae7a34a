----------------------------- MODULE Lifecycle ------------------------------
(***************************************************************************)
(* How the engine shuts down.  Every operation checks the shutdown flag,   *)
(* then counts itself in a wait group until it returns.  Signal,           *)
(* CompleteTask and ChildCompleted call Transition, which does both again. *)
(* Shutdown sets the flag and waits for the count to be zero, or for its   *)
(* context to be cancelled.                                                *)
(***************************************************************************)
EXTENDS Naturals, FiniteSets

CONSTANTS
    Callers,   \* goroutines that call operations of the engine
    Stoppers   \* goroutines that call Shutdown

ASSUME CallersAssumption == IsFiniteSet(Callers)

VARIABLES
    shutdown,  \* Engine.shutdown
    wg,        \* the counter of Engine.wg
    pc,        \* caller -> where its operation stands
    stop,      \* stopper -> where its Shutdown stands
    counted    \* ghost: stopper -> operations counted when it set the flag
               \* that have not returned since

vars == <<shutdown, wg, pc, stop, counted>>

\* "checked" and "callChecked" lie between checkShutdown and wg.Add.
Steps == {"idle", "checked", "body", "callChecked", "call", "return"}

Init ==
    /\ shutdown = FALSE
    /\ wg = 0
    /\ pc = [c \in Callers |-> "idle"]
    /\ stop = [s \in Stoppers |-> "idle"]
    /\ counted = [s \in Stoppers |-> {}]

----------------------------------------------------------------------------
(* Operations *)

goto(c, step) == pc' = [pc EXCEPT ![c] = step]

\* An operation starts: checkShutdown, which refuses it once the flag is set.
checkShutdown(c) ==
    /\ pc[c] = "idle"
    /\ ~shutdown
    /\ goto(c, "checked")
    /\ UNCHANGED <<shutdown, wg, stop, counted>>

\* Mutant: the operation is not counted, and its deferred Done neither.
Add_nested(c) ==
    /\ pc[c] = "checked" \/ pc[c] = "callChecked"
    /\ wg' = IF pc[c] = "checked" THEN wg ELSE wg + 1
    /\ goto(c, IF pc[c] = "checked" THEN "body" ELSE "call")
    /\ UNCHANGED <<shutdown, stop, counted>>

\* wg.Add of the operation or of the Transition it calls.
Add(c) ==
    /\ pc[c] = "checked" \/ pc[c] = "callChecked"
    /\ wg' = wg + 1
    /\ goto(c, IF pc[c] = "checked" THEN "body" ELSE "call")
    /\ UNCHANGED <<shutdown, stop, counted>>

\* Mutant: the refused operation returns before its Done was deferred.
CallTransition_leaks(c) ==
    /\ pc[c] = "body"
    /\ IF shutdown THEN /\ goto(c, "idle")
                        /\ counted' = [s \in Stoppers |-> counted[s] \ {c}]
       ELSE goto(c, "callChecked") /\ UNCHANGED counted
    /\ UNCHANGED <<shutdown, wg, stop>>

\* The operation calls Transition, whose own checkShutdown may refuse it.
CallTransition(c) ==
    /\ pc[c] = "body"
    /\ goto(c, IF shutdown THEN "return" ELSE "callChecked")
    /\ UNCHANGED <<shutdown, wg, stop, counted>>

\* The deferred wg.Done of the Transition called.
DoneCall(c) ==
    /\ pc[c] = "call"
    /\ wg' = wg - 1
    /\ goto(c, "return")
    /\ UNCHANGED <<shutdown, stop, counted>>

\* The deferred wg.Done of the operation, after a call or without one.
Done(c) ==
    /\ pc[c] = "body" \/ pc[c] = "return"
    /\ wg' = wg - 1
    /\ goto(c, "idle")
    /\ counted' = [s \in Stoppers |-> counted[s] \ {c}]
    /\ UNCHANGED <<shutdown, stop>>

----------------------------------------------------------------------------
(* Shutdown *)

\* The flag is set and a goroutine waits for the group.
Shutdown(s) ==
    /\ stop[s] = "idle"
    /\ shutdown' = TRUE
    /\ stop' = [stop EXCEPT ![s] = "waiting"]
    /\ counted' = [counted EXCEPT ![s] =
                     {c \in Callers : pc[c] \notin {"idle", "checked"}}]
    /\ UNCHANGED <<wg, pc>>

\* wg.Wait returns, and Shutdown returns nil.
Wait(s) ==
    /\ stop[s] = "waiting"
    /\ wg = 0
    /\ stop' = [stop EXCEPT ![s] = "stopped"]
    /\ UNCHANGED <<shutdown, wg, pc, counted>>

\* The context is cancelled first, and Shutdown returns its error.
Cancel(s) ==
    /\ stop[s] = "waiting"
    /\ stop' = [stop EXCEPT ![s] = "cancelled"]
    /\ UNCHANGED <<shutdown, wg, pc, counted>>

----------------------------------------------------------------------------

Work(c) == Add(c) \/ CallTransition(c) \/ DoneCall(c) \/ Done(c)

\* The engine is shut down and nobody is left in it.
Stopped ==
    /\ shutdown
    /\ \A c \in Callers : pc[c] = "idle"
    /\ \A s \in Stoppers : stop[s] \in {"stopped", "cancelled"}
    /\ UNCHANGED vars

Next ==
    \/ \E c \in Callers : checkShutdown(c) \/ Work(c)
    \/ \E s \in Stoppers : Shutdown(s) \/ Wait(s) \/ Cancel(s)
    \/ Stopped

\* Operations that have started go on and the waiting goroutine runs; clients
\* need not call, and contexts need not be cancelled.
Fairness ==
    /\ \A c \in Callers : WF_vars(Work(c))
    /\ \A s \in Stoppers : WF_vars(Wait(s))

Spec == Init /\ [][Next]_vars /\ Fairness

----------------------------------------------------------------------------
(* Properties *)

\* When Shutdown returns nil, every operation that was counted when it set the
\* flag has returned, with the Transition it called.
Drained == \A s \in Stoppers : stop[s] = "stopped" => counted[s] = {}

\* Shutdown returns once the operations have: neither a refused nested call
\* nor a late operation leaves the wait group above zero.
ShutdownReturns ==
    \A s \in Stoppers : stop[s] = "waiting" ~> stop[s] \in {"stopped", "cancelled"}

\* "Waits for in-flight operations to complete": after Shutdown has returned
\* nil no operation is under way.
ShutdownWaits ==
    (\E s \in Stoppers : stop[s] = "stopped") =>
        \A c \in Callers : pc[c] \in {"idle", "checked"}
============================================================================
