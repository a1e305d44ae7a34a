--------------------------- MODULE LifecycleProofs --------------------------
(***************************************************************************)
(* Shutdown drains the engine, for any number of callers and any number of *)
(* calls of Shutdown.                                                      *)
(***************************************************************************)
EXTENDS Lifecycle, FiniteSetTheorems, TLAPS

\* The operations counted in the wait group, and those that have called
\* Transition and are counted once more.
Active == {c \in Callers : pc[c] \in {"body", "callChecked", "call", "return"}}
Nested == {c \in Callers : pc[c] = "call"}

Types ==
    /\ shutdown \in BOOLEAN
    /\ wg \in Nat
    /\ pc \in [Callers -> Steps]
    /\ stop \in [Stoppers -> {"idle", "waiting", "stopped", "cancelled"}]
    /\ counted \in [Stoppers -> SUBSET Callers]

\* The wait group counts exactly the operations and the nested calls.
Counter == wg = Cardinality(Active) + Cardinality(Nested)

\* Whoever a stopper still waits for is in the wait group.
Awaited == \A s \in Stoppers : counted[s] \subseteq Active

\* The inductive invariant.
Inv == Types /\ Counter /\ Awaited /\ Drained

\* The counted operations are finitely many, so the count is a number.
LEMMA Finite ==
    ASSUME Types
    PROVE  /\ IsFiniteSet(Active) /\ IsFiniteSet(Nested)
           /\ Cardinality(Active) \in Nat /\ Cardinality(Nested) \in Nat
<1>1. Active \subseteq Callers /\ Nested \subseteq Callers  BY DEF Active, Nested
<1>2. IsFiniteSet(Active) /\ IsFiniteSet(Nested)
    BY <1>1, FS_Subset, CallersAssumption
<1> QED  BY <1>2, FS_CardinalityType

\* Initially nobody is counted.
LEMMA InitInv == Init => Inv
<1> SUFFICES ASSUME Init PROVE Inv  OBVIOUS
<1>1. Active = {} /\ Nested = {}  BY DEF Init, Active, Nested
<1>2. Counter  BY <1>1, FS_EmptySet DEF Init, Counter
<1>3. Types  BY DEF Init, Types, Steps
<1>4. Awaited /\ Drained  BY DEF Init, Awaited, Drained
<1> QED  BY <1>2, <1>3, <1>4 DEF Inv

\* wg.Add counts an operation, or a nested call, that was not counted.
LEMMA AddInv ==
    ASSUME Inv, NEW c \in Callers, Add(c) PROVE Inv'
<1> USE DEF Inv
<1>1. Types'  BY DEF Add, goto, Types, Steps
<1>2. CASE pc[c] = "checked"
    <2>1. c \notin Active /\ Active' = Active \cup {c} /\ Nested' = Nested
        BY <1>2 DEF Add, goto, Types, Active, Nested
    <2>2. Cardinality(Active') = Cardinality(Active) + 1
        BY <2>1, Finite, FS_AddElement
    <2>3. Counter'
        BY <2>1, <2>2, Finite DEF Add, Counter, Types
    <2>4. Awaited' /\ Drained'  BY <2>1 DEF Add, Awaited, Drained
    <2> QED  BY <1>1, <2>3, <2>4
<1>3. CASE pc[c] = "callChecked"
    <2>1. c \notin Nested /\ Nested' = Nested \cup {c} /\ Active' = Active
        BY <1>3 DEF Add, goto, Types, Active, Nested
    <2>2. Cardinality(Nested') = Cardinality(Nested) + 1
        BY <2>1, Finite, FS_AddElement
    <2>3. Counter'
        BY <2>1, <2>2, Finite DEF Add, Counter, Types
    <2>4. Awaited' /\ Drained'  BY <2>1 DEF Add, Awaited, Drained
    <2> QED  BY <1>1, <2>3, <2>4
<1> QED  BY <1>2, <1>3 DEF Add

\* The deferred Done of a nested call leaves the operation counted.
LEMMA DoneCallInv ==
    ASSUME Inv, NEW c \in Callers, DoneCall(c) PROVE Inv'
<1> USE DEF Inv
<1>1. c \in Nested /\ Nested' = Nested \ {c} /\ Active' = Active
    BY DEF DoneCall, goto, Types, Active, Nested
<1>2. Cardinality(Nested') = Cardinality(Nested) - 1
    BY <1>1, Finite, FS_RemoveElement
<1>3. Cardinality(Nested') \in Nat
    BY <1>1, Finite, FS_RemoveElement, FS_CardinalityType
<1>4. Counter' /\ wg' \in Nat
    BY <1>1, <1>2, <1>3, Finite DEF DoneCall, Counter, Types
<1>5. Types'  BY <1>4 DEF DoneCall, goto, Types, Steps
<1>6. Awaited' /\ Drained'  BY <1>1 DEF DoneCall, Awaited, Drained
<1> QED  BY <1>4, <1>5, <1>6

\* An operation that returns leaves the wait group and every stopper's list.
LEMMA DoneInv ==
    ASSUME Inv, NEW c \in Callers, Done(c) PROVE Inv'
<1> USE DEF Inv
<1>1. c \in Active /\ Active' = Active \ {c} /\ Nested' = Nested
    BY DEF Done, goto, Types, Active, Nested
<1>2. Cardinality(Active') = Cardinality(Active) - 1
    BY <1>1, Finite, FS_RemoveElement
<1>3. Cardinality(Active') \in Nat
    BY <1>1, Finite, FS_RemoveElement, FS_CardinalityType
<1>4. Counter' /\ wg' \in Nat
    BY <1>1, <1>2, <1>3, Finite DEF Done, Counter, Types
<1>5. Types'  BY <1>4 DEF Done, goto, Types, Steps
<1>6. Awaited'  BY <1>1 DEF Done, Awaited
<1>7. Drained'  BY DEF Done, Drained
<1> QED  BY <1>4, <1>5, <1>6, <1>7

\* Steps that leave the wait group alone, inside and outside an operation.
LEMMA UncountedInv ==
    ASSUME Inv, NEW c \in Callers, checkShutdown(c) \/ CallTransition(c) PROVE Inv'
<1> USE DEF Inv
<1>1. Active' = Active /\ Nested' = Nested
    BY DEF checkShutdown, CallTransition, goto, Types, Active, Nested
<1>2. Types'  BY DEF checkShutdown, CallTransition, goto, Types, Steps
<1>3. Counter'  BY <1>1 DEF checkShutdown, CallTransition, Counter
<1>4. Awaited' /\ Drained'
    BY <1>1 DEF checkShutdown, CallTransition, Awaited, Drained
<1> QED  BY <1>2, <1>3, <1>4

\* Shutdown lists the operations that are counted when it sets the flag, and
\* returns nil only when the count is zero, that is when none of them is left.
LEMMA StopperInv ==
    ASSUME Inv, NEW s \in Stoppers, Shutdown(s) \/ Wait(s) \/ Cancel(s) PROVE Inv'
<1> USE DEF Inv
<1>1. Active' = Active /\ Nested' = Nested
    BY DEF Shutdown, Wait, Cancel, Active, Nested
<1>2. Types'  BY DEF Shutdown, Wait, Cancel, Types
<1>3. Counter'  BY <1>1 DEF Shutdown, Wait, Cancel, Counter
<1>4. CASE Shutdown(s)
    <2>1. {c \in Callers : pc[c] \notin {"idle", "checked"}} \subseteq Active
        BY DEF Types, Steps, Active
    <2>2. Awaited'  BY <1>1, <1>4, <2>1 DEF Shutdown, Awaited, Types
    <2>3. Drained'  BY <1>4 DEF Shutdown, Drained, Types
    <2> QED  BY <1>2, <1>3, <2>2, <2>3
<1>5. CASE Wait(s)
    <2>1. Cardinality(Active) = 0
        BY <1>5, Finite DEF Wait, Counter
    <2>2. Active = {}  BY <2>1, Finite, FS_EmptySet
    <2>3. counted[s] = {}  BY <2>2 DEF Awaited
    <2>4. Drained'  BY <1>5, <2>3 DEF Wait, Drained, Types
    <2>5. Awaited'  BY <1>1, <1>5 DEF Wait, Awaited
    <2> QED  BY <1>2, <1>3, <2>4, <2>5
<1>6. CASE Cancel(s)
    <2>1. Awaited'  BY <1>1, <1>6 DEF Cancel, Awaited
    <2>2. Drained'  BY <1>6 DEF Cancel, Drained, Types
    <2> QED  BY <1>2, <1>3, <2>1, <2>2
<1> QED  BY <1>4, <1>5, <1>6

\* Shutdown that returns nil has outlasted every operation that was counted
\* when it set the flag, with the Transition it called, for any number of
\* goroutines that call the engine or shut it down.
THEOREM DrainedCorrect == Spec => []Drained
<1>1. Inv /\ [Next]_vars => Inv'
    <2> SUFFICES ASSUME Inv, [Next]_vars PROVE Inv'  OBVIOUS
    <2>1. CASE UNCHANGED vars
        BY <2>1 DEF vars, Inv, Types, Counter, Active, Nested, Awaited, Drained
    <2>2. ASSUME NEW c \in Callers, checkShutdown(c) \/ Work(c) PROVE Inv'
        BY <2>2, AddInv, DoneCallInv, DoneInv, UncountedInv DEF Work
    <2>3. ASSUME NEW s \in Stoppers, Shutdown(s) \/ Wait(s) \/ Cancel(s) PROVE Inv'
        BY <2>3, StopperInv
    <2> QED  BY <2>1, <2>2, <2>3 DEF Next, Stopped
<1>2. Inv => Drained  BY DEF Inv
<1> QED  BY InitInv, <1>1, <1>2, PTL DEF Spec
=============================================================================
