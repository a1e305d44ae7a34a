------------------------------ MODULE Registry ------------------------------
(***************************************************************************)
(* The registry of workflow definitions, which an engine keeps in memory   *)
(* under a mutex: Register, compiledFor, the hash that recognises a        *)
(* definition and the search for cycles of workflows that spawn each       *)
(* other.                                                                  *)
(***************************************************************************)
EXTENDS Naturals, FiniteSets, SequencesExt, Functions

CONSTANTS
    Definitions,  \* what the application may register
    NoDef         \* "no machine registered"

\* AggregateType, WorkflowType, Version, the part of the definition its hash
\* covers, and the workflow types its transitions spawn.
ASSUME DefinitionsAssumption ==
    \A d \in Definitions : /\ DOMAIN d = {"agg", "wf", "ver", "shape", "spawns"}
                           /\ d.ver \in Nat \ {0}

VARIABLES
    versions,  \* <<AggregateType, Version>> -> definition (and its machine)
    latest     \* AggregateType -> the machine new instances get

registry == <<versions, latest>>

\* A new engine has no definitions.
RegistryInit ==
    /\ versions = <<>>
    /\ latest = <<>>

\* The definitions in the registry.
registered == Range(versions)

with(f, key, value) == [k \in DOMAIN f \cup {key} |-> IF k = key THEN value ELSE f[k]]

----------------------------------------------------------------------------
(* The search for spawn cycles *)

Workflows == {d.wf : d \in Definitions} \cup UNION {d.spawns : d \in Definitions}

ASSUME WorkflowsAssumption == IsFiniteSet(Workflows)

\* The workflow types spawned from a type, by any registered version.
spawnedBy(defs, wf) == UNION {d.spawns : d \in {e \in defs : e.wf = wf}}

\* The orders in which Go may iterate over the types.
Orders == SetToSeqs(Workflows)

\* Mutant: a node explored before counts as one on the path.
backEdge_explored(colour) == colour # 0

\* Colours are 0 (white), 1 (grey, on the current path) and 2 (black, done).
backEdge(colour) == colour = 1

\* The state of the search.
Search == [colour : [Workflows -> 0..2], cycle : BOOLEAN]

white == [colour |-> [w \in Workflows |-> 0], cycle |-> FALSE]

paint(s, w, colour) == [s EXCEPT !.colour[w] = colour]

\* What is left of a call of dfs: the types from position next of the order on
\* are still to be looked at.
Visits(order) == [node : Workflows, next : 1..(Len(order) + 1), state : Search]

\* The call dfs(node).
visit(node, s) == [node |-> node, next |-> 1, state |-> paint(s, node, 1)]

\* What a call does with the next type, given what the calls after it do.
explore(defs, order, dfs, x) ==
    LET s == x.state
        v == order[x.next]
        goOn(t) == dfs[[node |-> x.node, next |-> x.next + 1, state |-> t]]
    IN  IF s.cycle THEN s
        ELSE IF x.next > Len(order) THEN paint(s, x.node, 2)
        ELSE IF v \notin spawnedBy(defs, x.node) THEN goOn(s)
        ELSE IF backEdge(s.colour[v]) THEN [s EXCEPT !.cycle = TRUE]
        ELSE IF s.colour[v] = 0 THEN goOn(dfs[visit(v, s)]) ELSE goOn(s)

\* One round of the outer loop: a registered type not visited yet is a root.
root(defs, dfs, w, s) ==
    IF (\E d \in defs : d.wf = w) /\ ~s.cycle /\ s.colour[w] = 0
    THEN dfs[visit(w, s)] ELSE s

\* DetectSpawnCycles: depth-first from every registered type.
DetectSpawnCycles(defs, order) ==
    LET dfs[x \in Visits(order)] == explore(defs, order, dfs, x)
        done[k \in 0..Len(order)] ==
            IF k = 0 THEN white ELSE root(defs, dfs, order[k], done[k-1])
    IN  done[Len(order)].cycle

----------------------------------------------------------------------------
(* Operations *)

\* computeHash: what a definition spawns, and its guards and routes, are not in it.
hash(d) == <<d.agg, d.wf, d.ver, d.shape>>

\* compiledFor: version 0 asks for the latest machine.
compiledFor(agg, ver) ==
    IF ver = 0 THEN IF agg \in DOMAIN latest THEN latest[agg] ELSE NoDef
    ELSE IF <<agg, ver>> \in DOMAIN versions THEN versions[<<agg, ver>>] ELSE NoDef

\* The hash dedup takes the definition for the one registered already.
known(d) ==
    /\ <<d.agg, d.ver>> \in DOMAIN versions
    /\ hash(versions[<<d.agg, d.ver>>]) = hash(d)

\* Mutant: only the latest versions are searched for cycles.
closesCycle_latest(d) ==
    DetectSpawnCycles(Range(latest) \cup {d}, CHOOSE o \in Orders : TRUE)

\* The order of the search is Go's; SearchExact shows that it does not matter.
closesCycle(d) ==
    DetectSpawnCycles(registered \cup {d}, CHOOSE o \in Orders : TRUE)

\* Register, which Validate and Compile let pass: a definition that is known
\* or closes a cycle leaves the registry as it is.
Register(d) ==
    /\ ~known(d)
    /\ ~closesCycle(d)
    /\ versions' = with(versions, <<d.agg, d.ver>>, d)
    /\ latest' = IF d.agg \in DOMAIN latest /\ d.ver <= latest[d.agg].ver THEN latest
                 ELSE with(latest, d.agg, d)

----------------------------------------------------------------------------
(* Properties *)

\* Some workflow types go on spawning each other for ever: the reference
\* definition.
Cyclic(defs) ==
    \E S \in (SUBSET Workflows) \ {{}} : \A w \in S : spawnedBy(defs, w) \cap S # {}

\* However registrations of several versions and types follow each other, the
\* workflows an engine has accepted cannot spawn each other without end.
SpawnAcyclic == ~Cyclic(registered)

----------------------------------------------------------------------------
(* Hypotheses of the proofs *)

\* No version means two things: an application that changes the states or the
\* transitions of a workflow gives it a version of its own.  Register does not
\* check it.
VersionsStable ==
    \A d, e \in Definitions : d.agg = e.agg /\ d.ver = e.ver => hash(d) = hash(e)
=============================================================================
