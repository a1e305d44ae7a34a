------------------------------- MODULE MCWalk -------------------------------
(***************************************************************************)
(* Walk over every chart with an initial state, a terminal state and up to *)
(* six more states, and over charts with a parallel state of two regions   *)
(* or with a compound or another parallel state inside a region.           *)
(***************************************************************************)
EXTENDS Walk, Graph, SequencesExt

Free == <<"a", "b", "c", "d", "e", "f">>

\* Position of a parent in Free, 0 for a root.
rank(p) == IF p = NoState THEN 0 ELSE CHOOSE i \in DOMAIN Free : Free[i] = p

\* Forests numbered breadth first: every forest has such a numbering.
Forests(n) ==
    {f \in [1..n -> 0..n] :
        /\ \A i \in 1..n : f[i] < i
        /\ \A i, j \in 1..n : i < j => f[i] <= f[j]}

\* One transition from everywhere to everywhere, so that validation rejects a
\* chart for its shape only.
AnyWhere(states) ==
    [any |-> [sources |-> states, targets |-> states]]

Declare(states, parent, initialChild, parallel) ==
    [States |-> states, Parent |-> parent, InitialChild |-> initialChild,
     Compound |-> {}, Parallel |-> parallel, Initials |-> {"INIT"},
     Terminal |-> {"END"}, Wait |-> {}, Trans |-> AnyWhere(states)]

\* Everything a user can declare over the first n free states.
Declarations(n) ==
    LET free   == {Free[i] : i \in 1..n}
        states == free \cup {"INIT", "END"}
        parentOf(f) == [s \in states |->
            IF s \in free /\ f[rank(s)] > 0 THEN Free[f[rank(s)]] ELSE NoState]
        inner(f) == {Free[f[i]] : i \in {j \in 1..n : f[j] > 0}}
        starts(f) == {g \in [inner(f) -> free] :
                         \A s \in inner(f) : parentOf(f)[g[s]] = s}
        roots(f) == {s \in inner(f) : parentOf(f)[s] = NoState}
    IN  UNION {
          {Declare(states, parentOf(f),
                   [s \in states |-> IF s \in DOMAIN g \ par THEN g[s] ELSE NoState],
                   par) : g \in starts(f), par \in SUBSET roots(f)}
          : f \in Forests(n)}

\* P with regions R1 and R2 of two states, as in the engine's own tests, and
\* a compound state C beside it.
Editor ==
    LET parent == [P |-> NoState, R1 |-> "P", R2 |-> "P", x1 |-> "R1", x2 |-> "R1",
                   y1 |-> "R2", y2 |-> "R2", INIT |-> NoState, END |-> NoState,
                   C |-> NoState, c1 |-> "C"]
        start  == [s \in DOMAIN parent |->
                     CASE s = "R1" -> "x1" [] s = "R2" -> "y1" [] s = "C" -> "c1"
                       [] OTHER -> NoState]
    IN  Declare(DOMAIN parent, parent, start, {"P"})

\* A region whose initial child is itself compound.
DeepRegion ==
    LET parent == [P |-> NoState, R |-> "P", K |-> "R", k1 |-> "K", k2 |-> "R",
                   INIT |-> NoState, END |-> NoState]
        start  == [s \in DOMAIN parent |->
                     CASE s = "R" -> "K" [] s = "K" -> "k1" [] OTHER -> NoState]
    IN  Declare(DOMAIN parent, parent, start, {"P"})

\* A parallel state declared in a region of another.
Nested ==
    LET parent == [P |-> NoState, R |-> "P", Q |-> "R", T |-> "Q", t1 |-> "T",
                   INIT |-> NoState, END |-> NoState]
        start  == [s \in DOMAIN parent |->
                     CASE s = "R" -> "Q" [] s = "T" -> "t1" [] OTHER -> NoState]
    IN  Declare(DOMAIN parent, parent, start, {"P", "Q"})

Accepted(decls) == {Compile(Build(b)) : b \in {c \in decls : Accepts(c)}}

EveryChart == {m \in Accepted(Declarations(6) \cup {Editor}) : FlatRegions(m)}

ASSUME ChartsAssumption == \A b \in Declarations(6) \cup {Editor, DeepRegion} : Declared(b)

\* FlatRegions excludes no more than it has to: where a region starts in a
\* compound state, entering the parallel state does not enter both that state and
\* its initial leaf.
ASSUME DeepEntryAssumption ==
    LET m == Compile(Build(DeepRegion))
    IN  /\ Accepts(DeepRegion)
        /\ ~({"K", "k1"} \subseteq ToSet(computeParallelEntrySequence(m, NoState, "P")))

\* Register accepts a parallel state in a region, and makes a machine of it whose
\* region has no initial leaf: Declared excludes no more than it has to.
ASSUME NestedAssumption == Accepts(Nested) /\ ~WellCompiled(Compile(Build(Nested)))
============================================================================
