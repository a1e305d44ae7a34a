------------------------------- MODULE Chart -------------------------------
(***************************************************************************)
(* The pure algorithms of the runtime: what a transition does to one       *)
(* workflow instance, given a compiled machine cm (module Graph builds it).*)
(*                                                                         *)
(* A compiled machine is a record with the maps of graph.CompiledMachine   *)
(* the runtime reads: Ancestry, InitialLeafMap and RegionIndex, and the    *)
(* parts of its Definition: States, Parent, Compound, Parallel,            *)
(* Terminal, Initial and Trans.  A Go map is a function whose DOMAIN is    *)
(* the key set, so "leaf, ok := m[k]" is k \in DOMAIN m.                   *)
(*                                                                         *)
(* An instance is a record; the operators below touch its fields cur       *)
(* (CurrentState), aip (ActiveInParallel), shallow and deep                *)
(* (ShallowHistory, DeepHistory).                                          *)
(***************************************************************************)
EXTENDS Integers, SequencesExt

\* The empty Go string: no parent, no common ancestor, no state.
NoState == ""

\* A nil or empty Go map.
EmptyMap == [x \in {} |-> x]

----------------------------------------------------------------------------
(* Walking the hierarchy. *)

\* The nearest proper ancestor of a that is also one of b.
LCA(cm, a, b) ==
    LET common == {i \in DOMAIN cm.Ancestry[a] :
                      cm.Ancestry[a][i] \in ToSet(cm.Ancestry[b])}
    IN  IF common = {} THEN NoState ELSE cm.Ancestry[a][Min(common)]

\* The ancestors of s below lca, nearest first; all of them if lca is not one.
Below(cm, s, lca) ==
    LET chain == cm.Ancestry[s]
        at    == {i \in DOMAIN chain : chain[i] = lca}
    IN  IF at = {} THEN chain ELSE SubSeq(chain, 1, Min(at) - 1)

\* States left from source, leaf first, the common ancestor excluded.
computeExitSequence(cm, source, lca) == <<source>> \o Below(cm, source, lca)

\* Mutant: the path is not reversed.
computeEntrySequence_unreversed(cm, lca, target) ==
    Append(Below(cm, target, lca), target)

\* States reached on the way to target, outermost first.
computeEntrySequence(cm, lca, target) ==
    Append(Reverse(Below(cm, target, lca)), target)

\* The initial leaf of a compound state, any other state itself.
initialLeafOr(cm, s) ==
    IF s \in DOMAIN cm.InitialLeafMap THEN cm.InitialLeafMap[s] ELSE s

\* Path to the parallel state, then every region and its initial leaf.
computeParallelEntrySequence(cm, lca, p) ==
    LET regions == cm.RegionIndex[p]
        perRegion(r) == IF r \in DOMAIN cm.InitialLeafMap
                        THEN <<r, cm.InitialLeafMap[r]>> ELSE <<r>>
    IN  computeEntrySequence(cm, lca, p)
          \o FlattenSeq([i \in DOMAIN regions |-> perRegion(regions[i])])

\* Every active leaf and its region, then the parallel state.  The code takes
\* the regions in alphabetical order; any fixed order is one here.
computeParallelExitSequence(inst, p) ==
    LET regions == SetToSeq(DOMAIN inst.aip)
        perRegion(r) == IF inst.aip[r] # r THEN <<inst.aip[r], r>> ELSE <<r>>
    IN  Append(FlattenSeq([i \in DOMAIN regions |-> perRegion(regions[i])]), p)

\* Every state in the subtrees rooted at the given states.
collectSubtreeStates(cm, roots) ==
    {s \in cm.States : s \in roots \/ ToSet(cm.Ancestry[s]) \cap roots # {}}

\* CurrentState and, in a parallel state, the active leaves.
activeStates(inst) == {inst.cur} \cup {inst.aip[r] : r \in DOMAIN inst.aip}

----------------------------------------------------------------------------
(* What a transition does to the instance. *)

\* How s was left: the children in s's place on the exit paths, each with the
\* leaf it was left from.  A path is the set of states exited from one leaf.
exitsOf(cm, paths, s) ==
    UNION {{[child |-> c, leaf |-> p.leaf] :
                c \in {x \in p.exited : cm.Parent[x] = s}} :
           p \in {q \in paths : s \in q.exited}}

\* Mutant: the shallow history is the leaf too.
recordHistory_leaf(cm, inst, paths) ==
    LET left    == {s \in cm.Compound : exitsOf(cm, paths, s) # {}}
        exit(s) == CHOOSE x \in exitsOf(cm, paths, s) : TRUE
        new(old) == [s \in DOMAIN old \cup left |->
                        IF s \in left THEN exit(s).leaf ELSE old[s]]
    IN  [inst EXCEPT !.shallow = new(@), !.deep = new(@)]

\* Mutant: the deep history is the child too.
recordHistory_child(cm, inst, paths) ==
    LET left    == {s \in cm.Compound : exitsOf(cm, paths, s) # {}}
        exit(s) == CHOOSE x \in exitsOf(cm, paths, s) : TRUE
        new(old) == [s \in DOMAIN old \cup left |->
                        IF s \in left THEN exit(s).child ELSE old[s]]
    IN  [inst EXCEPT !.shallow = new(@), !.deep = new(@)]

\* Every compound state on an exit path remembers the child it was left
\* through and the leaf that was active.  Paths of different regions share no
\* state, so the order in which the code records them does not matter.
recordHistory(cm, inst, paths) ==
    LET left    == {s \in cm.Compound : exitsOf(cm, paths, s) # {}}
        exit(s) == CHOOSE x \in exitsOf(cm, paths, s) : TRUE
    IN  [inst EXCEPT
            !.shallow = [s \in DOMAIN inst.shallow \cup left |->
                            IF s \in left THEN exit(s).child ELSE inst.shallow[s]],
            !.deep    = [s \in DOMAIN inst.deep \cup left |->
                            IF s \in left THEN exit(s).leaf ELSE inst.deep[s]]]

\* Mutant: the region itself is taken for its leaf.
enterParallelRegions_region(cm, p) ==
    [r \in ToSet(cm.RegionIndex[p]) |-> r]

\* Mutant: the leaf is looked up under the parallel state, and not found.
enterParallelRegions_lookup(cm, p) ==
    [r \in ToSet(cm.RegionIndex[p]) |->
        IF p \in DOMAIN cm.InitialLeafMap THEN cm.InitialLeafMap[p] ELSE NoState]

\* Each region of a parallel state starts in its initial leaf.
enterParallelRegions(cm, p) ==
    [r \in ToSet(cm.RegionIndex[p]) |-> initialLeafOr(cm, r)]

\* Where a transition to t ends: recorded history if its mode asks for it and
\* there is some, else the initial leaf of t.
resolveTarget(cm, inst, t, mode) ==
    CASE mode = "shallow" /\ t \in DOMAIN inst.shallow ->
             initialLeafOr(cm, inst.shallow[t])
      [] mode = "deep" /\ t \in DOMAIN inst.deep -> inst.deep[t]
      [] OTHER -> initialLeafOr(cm, t)

\* The instance rests in s; a parallel s activates its regions.
restIn(cm, inst, s) ==
    [inst EXCEPT !.cur = s,
                 !.aip = IF s \in cm.Parallel
                         THEN enterParallelRegions(cm, s) ELSE EmptyMap]

\* Exit and entry sequences of commitTransition, which resolved its target.
exitSequence(cm, inst, target) ==
    computeExitSequence(cm, inst.cur, LCA(cm, inst.cur, target))

entrySequence(cm, inst, target) ==
    LET lca == LCA(cm, inst.cur, target)
    IN  IF target \in cm.Parallel
        THEN computeParallelEntrySequence(cm, lca, target)
        ELSE computeEntrySequence(cm, lca, target)

\* commitTransition records history first, then moves the instance.
recordExit(cm, inst, target) ==
    recordHistory(cm, inst,
        {[leaf |-> inst.cur, exited |-> ToSet(exitSequence(cm, inst, target))]})

\* Mutant: a transition that succeeds takes the stuck mark off.
transitioned_unmarked(cm, inst, target) ==
    [restIn(cm, recordExit(cm, inst, target), target) EXCEPT !.stuck = FALSE]

transitioned(cm, inst, target) == restIn(cm, recordExit(cm, inst, target), target)

\* The regions of the parallel state in which a transition is enabled: the
\* active leaf or an ancestor of it below the parallel state is a source.
collectParallelCandidates(cm, inst, sources) ==
    {r \in DOMAIN inst.aip :
        ToSet(computeExitSequence(cm, inst.aip[r], inst.cur)) \cap sources # {}}

\* A transition inside a parallel state moves every candidate region to t.
movedRegions(inst, regions, t) ==
    [inst EXCEPT !.aip = [r \in DOMAIN @ |-> IF r \in regions THEN t ELSE @[r]]]

\* Mutant: the active regions are not cleared.
leftParallel_uncleared(cm, inst, t) ==
    LET path(r) == [leaf   |-> inst.aip[r],
                    exited |-> ToSet(computeExitSequence(cm, inst.aip[r], inst.cur))]
    IN  [recordHistory(cm, inst, {path(r) : r \in DOMAIN inst.aip}) EXCEPT
            !.cur = initialLeafOr(cm, t)]

\* Leaving a parallel state: every region records its own history, then the
\* instance rests in the target's initial leaf with no active region.
leftParallel(cm, inst, t) ==
    LET path(r) == [leaf   |-> inst.aip[r],
                    exited |-> ToSet(computeExitSequence(cm, inst.aip[r], inst.cur))]
    IN  [recordHistory(cm, inst, {path(r) : r \in DOMAIN inst.aip}) EXCEPT
            !.cur = initialLeafOr(cm, t), !.aip = EmptyMap]

\* ForceState goes to the target's initial leaf and forgets all history.
forced(cm, inst, t) ==
    [restIn(cm, inst, initialLeafOr(cm, t)) EXCEPT
        !.shallow = EmptyMap, !.deep = EmptyMap]

\* createInstance starts in the initial state's leaf.
created(cm) == [cur |-> initialLeafOr(cm, cm.Initial), aip |-> EmptyMap,
                shallow |-> EmptyMap, deep |-> EmptyMap]

----------------------------------------------------------------------------
(* What the runtime relies on. *)

leaves(cm) == cm.States \ cm.Compound

\* s lies strictly inside a parallel state.
inParallel(cm, s) == ToSet(cm.Ancestry[s]) \cap cm.Parallel # {}

\* r is s or one of its ancestors.
within(cm, s, r) == r = s \/ r \in ToSet(cm.Ancestry[s])

\* The facts about a compiled machine that the runtime takes for granted:
\* every initial leaf rests inside its compound state and is a leaf, every
\* region is a child of its parallel state that has an initial leaf.
WellCompiled(cm) ==
    /\ NoState \notin cm.States
    /\ cm.Parent \in [cm.States -> cm.States \cup {NoState}]
    /\ cm.Parallel \subseteq cm.Compound /\ cm.Compound \subseteq cm.States
    /\ cm.Terminal \subseteq leaves(cm)
    /\ cm.Initial \in leaves(cm)
    /\ cm.Ancestry \in [cm.States -> Seq(cm.States)]
    /\ cm.InitialLeafMap \in [cm.Compound \ cm.Parallel -> leaves(cm)]
    /\ \A s \in DOMAIN cm.InitialLeafMap :
          within(cm, cm.InitialLeafMap[s], s)
    /\ cm.RegionIndex \in [cm.Parallel -> Seq(cm.Compound \ cm.Parallel)]
    /\ \A p \in cm.Parallel : cm.RegionIndex[p] # <<>>

\* Compile keeps the hierarchy of the definition: only compound states have
\* children, Ancestry is the chain of the parents, a parallel state is a root,
\* and RegionIndex lists its children, each once.
Hierarchy(cm) ==
    /\ \A s \in cm.States :
          /\ cm.Parent[s] \in cm.Compound \cup {NoState}
          /\ cm.Ancestry[s] = IF cm.Parent[s] = NoState THEN <<>>
                              ELSE <<cm.Parent[s]>> \o cm.Ancestry[cm.Parent[s]]
    /\ \A p \in cm.Parallel :
          /\ cm.Parent[p] = NoState
          /\ \A i, j \in DOMAIN cm.RegionIndex[p] :
                cm.RegionIndex[p][i] = cm.RegionIndex[p][j] => i = j
          /\ ToSet(cm.RegionIndex[p]) = {r \in cm.States : cm.Parent[r] = p}

\* What no check asks for and the runtime needs (DeepEntryAssumption of MCWalk):
\* the regions of parallel states hold leaves only, and a workflow does not
\* start in a region.
FlatRegions(cm) ==
    /\ \A s \in cm.Compound : inParallel(cm, s) => cm.Parent[s] \in cm.Parallel
    /\ ~inParallel(cm, cm.Initial)
============================================================================
