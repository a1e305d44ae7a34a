------------------------------- MODULE Graph -------------------------------
(***************************************************************************)
(* Building, validating and compiling a workflow definition: the packages  *)
(* internal/builder and internal/graph.                                    *)
(*                                                                         *)
(* What the user hands to the builder is a record b:                       *)
(*   States        every declared state (the builder flattens regions)     *)
(*   Parent        state -> its parent, NoState for a root                 *)
(*   InitialChild  state -> its initial child, NoState if it has none      *)
(*   Compound      states declared with CompoundState or Region            *)
(*   Parallel      states declared with ParallelState                      *)
(*   Initials, Terminal, Wait   states declared with those factories       *)
(*   Trans         name -> [sources, targets, mode, ...]; targets holds    *)
(*                 Target or the targets of every Route                    *)
(***************************************************************************)
EXTENDS Chart

Children(d, s) == {c \in d.States : d.Parent[c] = s}

\* DefBuilder.Build: children are wired from Parent, a state with a child is
\* compound whatever factory declared it, a parallel state always is.
Build(b) ==
    [b EXCEPT !.Compound = @ \cup b.Parallel
                             \cup {p \in b.States : Children(b, p) # {}}]

\* What the factories of the builder declare, when no parallel state is passed
\* to a Region: ParallelState and Done give a parallel state neither a Parent
\* nor an InitialChild.
Declared(b) ==
    /\ DOMAIN b = {"States", "Parent", "InitialChild", "Compound", "Parallel",
                   "Initials", "Terminal", "Wait", "Trans"}
    /\ IsFiniteSet(b.States) /\ NoState \notin b.States
    /\ b.Parent = [s \in b.States |-> b.Parent[s]]
    /\ UNION {b.Compound, b.Parallel, b.Initials, b.Terminal} \subseteq b.States
    /\ \A p \in b.Parallel : b.Parent[p] = NoState /\ b.InitialChild[p] = NoState

----------------------------------------------------------------------------
(* graph.Validate: every check as a predicate, TRUE when it passes. *)

checkInitialState(d) == Cardinality(d.Initials) = 1

checkTerminalStates(d) == d.Terminal # {}

checkUnknownStates(d) ==
    \A n \in DOMAIN d.Trans :
        d.Trans[n].sources \cup (d.Trans[n].targets \ {NoState}) \subseteq d.States

checkOrphanedChildren(d) ==
    \A s \in d.States : d.Parent[s] \in d.States \cup {NoState}

checkCompoundStates(d) ==
    \A s \in d.Compound \ d.Parallel :
        d.InitialChild[s] # NoState /\ d.InitialChild[s] \in Children(d, s)

checkParallelStates(d) ==
    \A p \in d.Parallel :
        /\ d.Parent[p] \notin d.Parallel
        /\ Children(d, p) # {}
        /\ Children(d, p) \subseteq d.Compound \ d.Parallel

checkCompoundNotTerminal(d) == d.Compound \cap d.Terminal = {}

checkInitialNotCompound(d) == d.Compound \cap d.Initials = {}

checkWaitLeafOnly(d) == d.Compound \cap d.Wait = {}

\* The proper ancestors of s, found by walking Parent at most |States| times.
ancestorsOf(d, s) ==
    LET up[n \in 0..Cardinality(d.States)] ==
            IF n = 0 THEN s
            ELSE IF up[n-1] \in d.States THEN d.Parent[up[n-1]] ELSE NoState
    IN  {up[n] : n \in 1..Cardinality(d.States)} \ {NoState}

hasOutgoing(d, s) == \E n \in DOMAIN d.Trans : s \in d.Trans[n].sources

checkDeadEnds(d) ==
    \A s \in d.States \ (d.Terminal \cup d.Compound) :
        hasOutgoing(d, s) \/ \E a \in ancestorsOf(d, s) : hasOutgoing(d, a)

\* Entering a state also reaches its initial child, or all its regions.
enqueueStep(d, reach) ==
    (UNION {IF s \in d.Parallel THEN Children(d, s)
            ELSE IF s \in d.Compound THEN {d.InitialChild[s]} \ {NoState}
            ELSE {} : s \in reach \cap d.States})
    \cup (UNION {d.Trans[n].targets \ {NoState} :
                  n \in {m \in DOMAIN d.Trans : d.Trans[m].sources \cap reach # {}}})

\* The breadth-first search adds at least one state per round.
checkReachability(d) ==
    LET reach[n \in 0..Cardinality(d.States)] ==
            IF n = 0 THEN d.Initials
            ELSE reach[n-1] \cup enqueueStep(d, reach[n-1])
    IN  d.States \subseteq reach[Cardinality(d.States)]

Validate(d) ==
    /\ checkInitialState(d)
    /\ checkTerminalStates(d)
    /\ checkUnknownStates(d)
    /\ checkOrphanedChildren(d)
    /\ checkCompoundStates(d)
    /\ checkParallelStates(d)
    /\ checkCompoundNotTerminal(d)
    /\ checkInitialNotCompound(d)
    /\ checkWaitLeafOnly(d)
    /\ checkDeadEnds(d)
    /\ checkReachability(d)

----------------------------------------------------------------------------
(* graph.Compile *)

\* buildAncestry meets a state it is still visiting.
Circular(d) == \E s \in d.States : s \in ancestorsOf(d, s)

\* Ancestors nearest first.
buildAncestry(d) ==
    LET chain[s \in d.States] ==
            IF d.Parent[s] = NoState THEN <<>>
            ELSE <<d.Parent[s]>> \o chain[d.Parent[s]]
    IN  chain

\* Mutant: only one link is followed.
resolveInitialLeaf_shallow(d) ==
    [s \in d.States |->
        IF s \notin d.Compound \/ d.InitialChild[s] = NoState THEN s
        ELSE d.InitialChild[s]]

\* InitialChild links followed to a state that is not compound or has none.
resolveInitialLeaf(d) ==
    LET leaf[s \in d.States] ==
            IF s \notin d.Compound \/ d.InitialChild[s] = NoState THEN s
            ELSE leaf[d.InitialChild[s]]
    IN  leaf

\* The compiled machine of an acyclic definition.
Compile(d) ==
    [States         |-> d.States,
     Parent         |-> d.Parent,
     Compound       |-> d.Compound,
     Parallel       |-> d.Parallel,
     Terminal       |-> d.Terminal,
     Initial        |-> CHOOSE s \in d.Initials : TRUE,
     Trans          |-> d.Trans,
     Ancestry       |-> buildAncestry(d),
     InitialLeafMap |-> [s \in {c \in d.Compound \ d.Parallel :
                                   d.InitialChild[c] # NoState} |->
                            resolveInitialLeaf(d)[s]],
     RegionIndex    |-> [p \in d.Parallel |-> SetToSeq(Children(d, p))]]

\* Register makes a machine of what the builder hands it.
Accepts(b) == Validate(Build(b)) /\ ~Circular(Build(b))
============================================================================
