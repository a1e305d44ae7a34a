----------------------------- MODULE MCChildren -----------------------------
(***************************************************************************)
(* A parent that fans out to two or three children, and again to one once  *)
(* they have joined, or hands over to a single child.                      *)
(***************************************************************************)
EXTENDS Children

Tr(trigger, key, source, target) ==
    [sources |-> {source}, targets |-> {target}, mode |-> "none", guarded |-> FALSE,
     emits |-> NoState, trigger |-> trigger, key |-> key]

\* What Compile makes of a definition without compound states.
Flat(trans) ==
    LET states == {"INIT", "W", "N", "V", "END"} IN
    [States |-> states, Parent |-> [s \in states |-> NoState],
     Compound |-> {}, Parallel |-> {}, Terminal |-> {"END"}, Initial |-> "INIT",
     Trans |-> trans, Ancestry |-> [s \in states |-> <<>>],
     InitialLeafMap |-> EmptyMap, RegionIndex |-> EmptyMap]

FanTrans ==
    [all    |-> Tr("direct", NoState, "INIT", "W"),
     some   |-> Tr("direct", NoState, "INIT", "W"),
     any    |-> Tr("direct", NoState, "INIT", "W"),
     one    |-> Tr("direct", NoState, "INIT", "V"),
     joined |-> Tr("children", NoState, "W", "N"),
     again  |-> Tr("direct", NoState, "N", "W"),
     done   |-> Tr("child", "sub", "V", "END")]

Group(count, mode, n) ==
    [type |-> "item", children |-> count, group |-> TRUE, mode |-> mode, n |-> n,
     terminal |-> "ok"]

Fan == Flat(FanTrans)

FanSpawns ==
    [all |-> Group(2, "ALL", 0), some |-> Group(3, "N", 2), any |-> Group(2, "ANY", 0),
     again |-> Group(1, "ALL", 0),
     one |-> [type |-> "sub", children |-> 1, group |-> FALSE, mode |-> "ALL", n |-> 0,
              terminal |-> "ok"]]

\* One group, and the parent goes on when all its children are done.
Once == Flat([all    |-> Tr("direct", NoState, "INIT", "W"),
              joined |-> Tr("children", NoState, "W", "END")])

OnceSpawns == [all |-> Group(3, "ALL", 0)]
============================================================================
