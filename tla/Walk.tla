-------------------------------- MODULE Walk --------------------------------
(***************************************************************************)
(* One workflow instance walked through a chart by sequential transitions, *)
(* the entry and exit activities executed one at a time.  The chart is any *)
(* one of Charts, a set of compiled machines, and a transition may go from *)
(* anywhere to anywhere the scope of parallel states allows, so a run over *)
(* every small chart checks the hierarchy algorithms of module Chart on    *)
(* every shape of tree.                                                    *)
(***************************************************************************)
EXTENDS Chart

CONSTANT Charts

Modes == {"none", "shallow", "deep"}

VARIABLES
    cm,       \* the compiled machine
    inst,     \* the instance: cur, aip, shallow, deep
    entered,  \* states whose entry activity ran and exit activity did not
    todo,     \* activities of the running transition still to execute
    last      \* compound state -> the leaf last active inside it, since creation
              \* or the last ForceState

vars == <<cm, inst, entered, todo, last>>

exits(seq)   == [i \in DOMAIN seq |-> [op |-> "exit", state |-> seq[i]]]
entries(seq) == [i \in DOMAIN seq |-> [op |-> "entry", state |-> seq[i]]]

\* The states an instance is in, with the leaves that put it there.
occupies(i, s) == \E leaf \in activeStates(i) \ cm.Parallel : within(cm, leaf, s)

occupied(i) == {s \in cm.States : s = i.cur \/ occupies(i, s)}

\* The compound states of the new instance remember its leaves.
remember(old, i) ==
    [s \in DOMAIN old |->
        IF occupies(i, s) /\ s \notin cm.Parallel
        THEN CHOOSE leaf \in activeStates(i) \ cm.Parallel : within(cm, leaf, s)
        ELSE old[s]]

Init ==
    /\ cm \in Charts
    /\ inst = created(cm)
    /\ entered = occupied(inst)
    /\ todo = <<>>
    /\ last = remember([s \in cm.Compound |-> NoState], inst)

----------------------------------------------------------------------------

\* commitTransition, from a state outside any parallel state.
Transition(t, mode) ==
    LET target == resolveTarget(cm, inst, t, mode) IN
    /\ todo = <<>>
    /\ inst.aip = EmptyMap
    /\ inst.cur \notin cm.Terminal
    /\ ~inParallel(cm, t)
    /\ inst' = transitioned(cm, inst, target)
    /\ todo' = exits(exitSequence(cm, inst, target))
               \o entries(entrySequence(cm, inst, target))
    /\ last' = remember(last, inst')
    /\ UNCHANGED <<cm, entered>>

\* commitParallelIntra: region r moves to the leaf t of the same region.
ParallelIntra(r, t) ==
    /\ todo = <<>>
    /\ r \in DOMAIN inst.aip
    /\ t \in leaves(cm) /\ within(cm, t, r)
    /\ LET lca == LCA(cm, inst.aip[r], t) IN
       todo' = exits(computeExitSequence(cm, inst.aip[r], lca))
               \o entries(computeEntrySequence(cm, lca, t))
    /\ inst' = movedRegions(inst, {r}, t)
    /\ last' = remember(last, inst')
    /\ UNCHANGED <<cm, entered>>

\* commitParallelExit, to a target that is not parallel itself.
ParallelExit(t) ==
    /\ todo = <<>>
    /\ inst.aip # EmptyMap
    /\ ~inParallel(cm, t) /\ t \notin cm.Parallel
    /\ inst' = leftParallel(cm, inst, t)
    /\ todo' = exits(computeParallelExitSequence(inst, inst.cur))
               \o entries(computeEntrySequence(cm, NoState, initialLeafOr(cm, t)))
    /\ last' = remember(last, inst')
    /\ UNCHANGED <<cm, entered>>

\* ForceState runs no activity: the operator brings the outside world in line
\* with the forced state, so entered starts afresh with it.
ForceState(t) ==
    /\ todo = <<>>
    /\ ~inParallel(cm, t)
    /\ inst' = forced(cm, inst, t)
    /\ entered' = occupied(inst')
    /\ last' = remember([s \in cm.Compound |-> NoState], inst')
    /\ UNCHANGED <<cm, todo>>

\* runSyncActivity for the next state of the sequence.
RunActivity ==
    /\ todo # <<>>
    /\ entered' = IF Head(todo).op = "exit" THEN entered \ {Head(todo).state}
                  ELSE entered \cup {Head(todo).state}
    /\ todo' = Tail(todo)
    /\ UNCHANGED <<cm, inst, last>>

Next ==
    \/ \E t \in cm.States, mode \in Modes : Transition(t, mode)
    \/ \E r, t \in cm.States : ParallelIntra(r, t)
    \/ \E t \in cm.States : ParallelExit(t)
    \/ \E t \in cm.States : ForceState(t)
    \/ RunActivity

Spec == Init /\ [][Next]_vars

----------------------------------------------------------------------------
(* Properties *)

childrenOf(s) == {c \in cm.States : cm.Parent[c] = s}

\* graph.Compile gives the runtime the maps it relies on, for every definition
\* that graph.Validate accepts.
CompiledWell == WellCompiled(cm)

\* Exit activities run from leaf to ancestor and entry activities from
\* ancestor to leaf: nobody leaves a state that was not entered or still has
\* an entered child, nobody enters a state twice or before its parent.
ActivityOrder ==
    todo # <<>> =>
        LET s == Head(todo).state IN
        IF Head(todo).op = "exit"
        THEN s \in entered /\ childrenOf(s) \cap entered = {}
        ELSE s \notin entered /\ cm.Parent[s] \in entered \cup {NoState}

\* When a transition is over, the states whose entry activity ran last form a
\* legal configuration of the chart - one root, one child of every compound
\* state, all regions of a parallel state - and its leaves are the states the
\* instance says are active.
LegalConfiguration ==
    todo = <<>> =>
        /\ Cardinality({s \in entered : cm.Parent[s] = NoState}) = 1
        /\ \A s \in entered :
              /\ cm.Parent[s] \in entered \cup {NoState}
              /\ s \in cm.Parallel => childrenOf(s) \subseteq entered
              /\ s \in cm.Compound \ cm.Parallel =>
                    Cardinality(childrenOf(s) \cap entered) = 1
        /\ entered \cap leaves(cm) = activeStates(inst) \ cm.Parallel

\* History is recorded on every exit of a compound state: once a compound
\* state is no longer occupied, its deep history is the leaf that was last
\* active inside it and its shallow history the child leading to that leaf.
HistoryIsLast ==
    \A s \in cm.Compound \ cm.Parallel :
        ~occupies(inst, s) /\ last[s] # NoState =>
            /\ s \in DOMAIN inst.deep /\ inst.deep[s] = last[s]
            /\ s \in DOMAIN inst.shallow
            /\ cm.Parent[inst.shallow[s]] = s
            /\ within(cm, last[s], inst.shallow[s])
============================================================================
