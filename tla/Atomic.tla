------------------------------- MODULE Atomic -------------------------------
(***************************************************************************)
(* What the engine promises of one workflow instance: its operations take  *)
(* effect one at a time, each on the instance as it is stored then, and    *)
(* each logs exactly one event.                                            *)
(***************************************************************************)
EXTENDS Sequences

CONSTANTS
    None,        \* there is no instance yet
    Fresh,       \* the instance createInstance makes
    Outcomes(_), \* what the operations can make of an instance
    Silent       \* a transition that gets stuck logs nothing

VARIABLES
    inst,        \* the instance, or None
    hist         \* the changes logged, in order

Init == inst = None /\ hist = <<>>

Create ==
    /\ inst = None
    /\ inst' = Fresh
    /\ UNCHANGED hist

\* An operation that leaves no trace is no step.
Apply ==
    /\ inst # None
    /\ <<inst', hist'>> # <<inst, hist>>
    /\ \E o \in Outcomes(inst) :
          /\ inst' = o.inst
          /\ hist' = IF Silent /\ ~o.change.applied THEN hist
                     ELSE Append(hist, o.change)

Next == Create \/ Apply

Spec == Init /\ [][Next]_<<inst, hist>>
============================================================================
