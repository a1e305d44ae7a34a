---------------------------- MODULE MCSnapshots -----------------------------
(***************************************************************************)
(* Orders in two versions.  The first spawns items and labels, items spawn *)
(* labels, and a label workflow that spawns orders would close a cycle.    *)
(***************************************************************************)
EXTENDS Snapshots

CONSTANTS o1, o2

Def(agg, ver, shape, spawns) ==
    [agg |-> agg, wf |-> agg, ver |-> ver, shape |-> shape, spawns |-> spawns]

Order1 == Def("order", 1, "s1", {"item", "label"})

Shop == {Order1, Def("order", 2, "s2", {}), Def("item", 1, "s1", {"label"}),
         Def("item", 1, "s1", {}), Def("label", 1, "s1", {"order"})}

Two == {[type |-> "order", id |-> o1], [type |-> "order", id |-> o2]}

\* One from a machine that is registered here, and one of a version that means
\* something else here.
Foreign == {[agg |-> "order", id |-> 0, ver |-> v, hash |-> hash(Order1), moves |-> 1] :
              v \in {1, 2}}

\* What the proofs of SnapshotProofs assume of the definitions.
ASSUME ShopAssumption == VersionsStable

Symmetry == Permutations(Callers) \cup Permutations({o1, o2})
=============================================================================
