------------------------------ MODULE Workflow ------------------------------
(***************************************************************************)
(* The sequential behaviour of one workflow instance: what each operation  *)
(* of the runtime makes of the instance it has read, and the domain event  *)
(* it logs.  Module Engine runs these operations concurrently over the     *)
(* stores; module Atomic says what that must look like.                    *)
(***************************************************************************)
EXTENDS Chart

CONSTANTS
    cm,               \* the compiled machine of the workflow
    ExitActivities,   \* states with an exit activity, which may fail
    EntryActivities   \* states with an entry activity, which may fail

\* graph.Compile made cm, and graph.Validate accepted its definition.
ASSUME CompiledAssumption == WellCompiled(cm)

States == cm.States

Names == DOMAIN cm.Trans

\* checkUnknownStates: transitions lead from states to states.
ASSUME TransAssumption ==
    \A n \in Names : /\ cm.Trans[n].sources \subseteq States
                     /\ cm.Trans[n].targets \subseteq States

\* A Go map from compound states (regions among them) to states.
Maps == UNION {[D -> States] : D \in SUBSET cm.Compound}

\* types.WorkflowInstance: CurrentState, ActiveInParallel, ShallowHistory,
\* DeepHistory, IsStuck and ParallelClock.
Instance == [cur : States, aip : Maps, shallow : Maps, deep : Maps,
             stuck : BOOLEAN, pclock : Nat]

\* The part of an instance only transitions and ForceState change.
Conf(i) == [cur |-> i.cur, aip |-> i.aip, pclock |-> i.pclock]

Confs == [cur : States, aip : Maps, pclock : Nat]

ForceName == "_force_state"

\* types.DomainEvent.  pre and post are ghosts, the instance before and after;
\* moved and seq are the payload keys _parallel_regions and
\* _region_sequence_map (0 for what is no region of the instance); applied is
\* FALSE in the event of a transition that got stuck.
Change == [name : Names \cup {ForceName}, pre : Confs, post : Confs,
           moved : SUBSET cm.Compound, seq : [cm.Compound -> Nat],
           applied : BOOLEAN]

\* What an operation is going to write: the instance, the event, and the
\* states whose tasks it invalidates.
Outcome == [inst : Instance, change : Change, exited : SUBSET States]

NoSeq == [s \in cm.Compound |-> 0]

change(name, i, j, applied) ==
    [name |-> name, pre |-> Conf(i), post |-> Conf(j), moved |-> {},
     seq |-> NoSeq, applied |-> applied]

----------------------------------------------------------------------------
(* Which transitions may run *)

\* createInstance
fresh == [cur |-> created(cm).cur, aip |-> EmptyMap, shallow |-> EmptyMap,
          deep |-> EmptyMap, stuck |-> FALSE, pclock |-> 0]

\* Mutant: a terminal state does not end the workflow.
validSource_terminal(i, n) ==
    ToSet(computeExitSequence(cm, i.cur, NoState)) \cap cm.Trans[n].sources # {}

\* validateTransition: the current state is not terminal, and it or one of its
\* ancestors is a source of the transition.
validSource(i, n) ==
    /\ i.cur \notin cm.Terminal
    /\ ToSet(computeExitSequence(cm, i.cur, NoState)) \cap cm.Trans[n].sources # {}

\* parallelTransition: the parallel state is a source, or a state in a region.
candidates(i, n) == collectParallelCandidates(cm, i, cm.Trans[n].sources)

allowed(i, n) ==
    IF i.aip = EmptyMap THEN validSource(i, n)
    ELSE i.cur \in cm.Trans[n].sources \/ candidates(i, n) # {}

\* The activities that, when they fail, make the call fail without a trace.
fatalActivities(i, n, t) ==
    LET target == resolveTarget(cm, i, t, cm.Trans[n].mode)
        lca(r) == LCA(cm, i.aip[r], t)
    IN  IF i.aip = EmptyMap
        THEN ToSet(exitSequence(cm, i, target)) \cap ExitActivities
        ELSE IF i.cur \in cm.Trans[n].sources
        THEN (ToSet(computeParallelExitSequence(i, i.cur)) \cap ExitActivities)
             \cup (ToSet(computeEntrySequence(cm, NoState, initialLeafOr(cm, t)))
                      \cap EntryActivities)
        ELSE UNION {(ToSet(computeExitSequence(cm, i.aip[r], lca(r)))
                        \cap ExitActivities)
                    \cup (ToSet(computeEntrySequence(cm, lca(r), t))
                        \cap EntryActivities) : r \in candidates(i, n)}

----------------------------------------------------------------------------
(* What they do.  Each operator is the set of outcomes, over the targets the *)
(* routes of the transition can choose.                                      *)

\* States left on the way to target, with everything below them.
exitedStates(i, target) ==
    collectSubtreeStates(cm, ToSet(exitSequence(cm, i, target)))

\* commitTransition, every activity succeeding.
commitTransition(i, n) ==
    LET outcome(t) ==
            LET target == resolveTarget(cm, i, t, cm.Trans[n].mode)
                j == transitioned(cm, i, target)
            IN  [inst |-> j, change |-> change(n, i, j, TRUE),
                 exited |-> exitedStates(i, target)]
    IN  {outcome(t) : t \in {u \in cm.Trans[n].targets :
            i.aip = EmptyMap /\ validSource(i, n)}}

\* commitTransition when an entry activity fails: the instance stays where it
\* is and is marked stuck, its history already recorded.
commitStuck(i, n) ==
    LET outcome(t) ==
            LET target == resolveTarget(cm, i, t, cm.Trans[n].mode)
                j == [recordExit(cm, i, target) EXCEPT !.stuck = TRUE]
            IN  [inst |-> j, change |-> change(n, i, j, FALSE),
                 exited |-> exitedStates(i, target)]
        entered(t) ==
            ToSet(entrySequence(cm, i, resolveTarget(cm, i, t, cm.Trans[n].mode)))
    IN  {outcome(t) : t \in {u \in cm.Trans[n].targets :
            /\ i.aip = EmptyMap
            /\ validSource(i, n)
            /\ entered(u) \cap EntryActivities # {}}}

\* Mutant: the clock counts regions instead of transitions.
commitParallelIntra_regions(i, n) ==
    LET regions == candidates(i, n)
        clock == i.pclock + Cardinality(DOMAIN i.aip)
        outcome(t) ==
            LET j == [movedRegions(i, regions, t) EXCEPT !.pclock = clock]
            IN  [inst |-> j, exited |-> {},
                 change |-> [change(n, i, j, TRUE) EXCEPT !.moved = regions]]
    IN  {outcome(t) : t \in {u \in cm.Trans[n].targets :
            /\ i.aip # EmptyMap
            /\ i.cur \notin cm.Trans[n].sources
            /\ regions # {}}}

\* Mutant: the sequence map is built before the clock is incremented.
commitParallelIntra_early(i, n) ==
    LET regions == candidates(i, n)
        seq == [r \in cm.Compound |-> IF r \in DOMAIN i.aip THEN i.pclock ELSE 0]
        outcome(t) ==
            LET j == [movedRegions(i, regions, t) EXCEPT !.pclock = i.pclock + 1]
            IN  [inst |-> j, exited |-> {},
                 change |-> [change(n, i, j, TRUE) EXCEPT !.moved = regions,
                                                          !.seq = seq]]
    IN  {outcome(t) : t \in {u \in cm.Trans[n].targets :
            /\ i.aip # EmptyMap
            /\ i.cur \notin cm.Trans[n].sources
            /\ regions # {}}}

\* commitParallelIntra: the sequence map gives every moved region the new
\* clock and every other region the old one.
commitParallelIntra(i, n) ==
    LET regions == candidates(i, n)
        clock == i.pclock + 1
        seq == [r \in cm.Compound |-> IF r \in regions THEN clock
                                      ELSE IF r \in DOMAIN i.aip THEN i.pclock
                                      ELSE 0]
        outcome(t) ==
            LET j == [movedRegions(i, regions, t) EXCEPT !.pclock = clock]
            IN  [inst |-> j, exited |-> {},
                 change |-> [change(n, i, j, TRUE) EXCEPT !.moved = regions,
                                                          !.seq = seq]]
    IN  {outcome(t) : t \in {u \in cm.Trans[n].targets :
            /\ i.aip # EmptyMap
            /\ i.cur \notin cm.Trans[n].sources
            /\ regions # {}}}

\* commitParallelExit
commitParallelExit(i, n) ==
    LET outcome(t) ==
            LET j == leftParallel(cm, i, t)
            IN  [inst |-> j, change |-> change(n, i, j, TRUE), exited |-> {}]
    IN  {outcome(t) : t \in {u \in cm.Trans[n].targets :
            i.aip # EmptyMap /\ i.cur \in cm.Trans[n].sources}}

\* ForceState to a state of the definition.
forceState(i, t) ==
    LET j == [forced(cm, i, t) EXCEPT !.stuck = FALSE]
    IN  [inst |-> j, change |-> change(ForceName, i, j, TRUE), exited |-> {}]

\* Everything an operation can make of i.
Outcomes(i) ==
    (UNION {commitTransition(i, n) \cup commitStuck(i, n)
              \cup commitParallelIntra(i, n) \cup commitParallelExit(i, n) : n \in Names})
    \cup {forceState(i, t) : t \in States}

----------------------------------------------------------------------------
(* Properties of an instance *)

\* In a parallel state every region, and nothing else, has an active leaf of
\* its own; outside one, nothing has.
consistent(i) ==
    IF i.cur \in cm.Parallel
    THEN /\ DOMAIN i.aip = ToSet(cm.RegionIndex[i.cur])
         /\ \A r \in DOMAIN i.aip : i.aip[r] \in leaves(cm) /\ within(cm, i.aip[r], r)
    ELSE i.aip = EmptyMap

\* Both histories name the same exits: the shallow one a child of the compound
\* state, the deep one a leaf inside that child.
remembers(i) ==
    /\ DOMAIN i.shallow = DOMAIN i.deep
    /\ \A s \in DOMAIN i.shallow :
          /\ cm.Parent[i.shallow[s]] = s
          /\ i.deep[s] \in leaves(cm)
          /\ within(cm, i.deep[s], i.shallow[s])

----------------------------------------------------------------------------
(* What a chart has to keep to for the above, and Validate does not check *)

\* A transition out of a parallel state does not lead to a parallel state:
\* commitParallelExit starts no regions.
ExitsRest ==
    \A n \in Names : cm.Trans[n].sources \cap cm.Parallel # {} =>
        cm.Trans[n].targets \cap cm.Parallel = {}

\* A transition enabled inside a region leads to a leaf of that region:
\* commitParallelIntra takes the target as it is.
RegionsClosed ==
    \A p \in cm.Parallel, n \in Names : p \notin cm.Trans[n].sources =>
        \A r \in ToSet(cm.RegionIndex[p]), s \in leaves(cm) :
            within(cm, s, r)
              /\ ToSet(computeExitSequence(cm, s, p)) \cap cm.Trans[n].sources # {}
            => \A t \in cm.Trans[n].targets : t \in leaves(cm) /\ within(cm, t, r)
============================================================================
