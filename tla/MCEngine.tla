------------------------------ MODULE MCEngine ------------------------------
(***************************************************************************)
(* Instances of Engine: small workflows, built, validated and compiled by  *)
(* module Graph, and the calls clients make on them.                       *)
(***************************************************************************)
EXTENDS Engine, Graph

Symmetry == Permutations(Callers)

\* The workflows below keep to what the theorems on configurations and
\* histories ask of a chart.
ASSUME ClosedAssumption == ExitsRest /\ RegionsClosed

\* A transition of the given kind; further fields by EXCEPT.
Tr(sources, targets) ==
    [sources |-> sources, targets |-> targets, mode |-> "none", guarded |-> FALSE,
     emits |-> NoState, trigger |-> "direct", key |-> NoState]

On(trigger, key, sources, targets) ==
    [Tr(sources, targets) EXCEPT !.trigger = trigger, !.key = key]

Machine(parent, start, parallel, trans) ==
    Compile(Build(
        [States |-> DOMAIN parent, Parent |-> parent,
         InitialChild |-> [s \in DOMAIN parent |->
             IF s \in DOMAIN start THEN start[s] ELSE NoState],
         Compound |-> {}, Parallel |-> parallel, Initials |-> {"INIT"},
         Terminal |-> {"END"}, Wait |-> {}, Trans |-> trans]))

Request(kind, arg) == [kind |-> kind, arg |-> arg, task |-> 0]
Go(names) == {Request("transition", n) : n \in names}
Force(states) == {Request("force", s) : s \in states}

----------------------------------------------------------------------------
(* A parallel workflow: two regions of two states, a way out and back. *)

EditorTree ==
    [INIT |-> NoState, END |-> NoState, P |-> NoState, R1 |-> "P", R2 |-> "P",
     x1 |-> "R1", x2 |-> "R1", y1 |-> "R2", y2 |-> "R2"]

EditorStart == [R1 |-> "x1", R2 |-> "y1"]

EditorTrans ==
    [edit   |-> Tr({"INIT", "END"}, {"P"}),
     bold   |-> Tr({"x1"}, {"x2"}),
     italic |-> Tr({"R2"}, {"y1", "y2"}),
     finish |-> Tr({"P"}, {"END", "INIT"})]

Editor == Machine(EditorTree, EditorStart, {"P"}, EditorTrans)

EditorRequests == Go(DOMAIN EditorTrans) \cup Force({"P"})

----------------------------------------------------------------------------
(* A hierarchical workflow: a compound state inside another, left by a signal, *)
(* by bubbling or by a human decision, and entered again with shallow and deep *)
(* history.  Its inner states wait for the decision, a task with two choices.  *)

OrderTree ==
    [INIT |-> NoState, END |-> NoState, W |-> NoState, C |-> NoState,
     a |-> "C", D |-> "C", d1 |-> "D", d2 |-> "D"]

OrderStart == [C |-> "a", D |-> "d1"]

OrderTrans ==
    [open    |-> Tr({"INIT"}, {"C"}),
     step    |-> [Tr({"INIT", "a"}, {"D", "d2"}) EXCEPT !.guarded = TRUE, !.emits = "decide"],
     pause   |-> On("signal", "halt", {"a", "d1", "d2"}, {"W"}),
     drop    |-> On("signal", "halt", {"d2"}, {"END"}),
     approve |-> On("task", "decide", {"d1", "d2"}, {"END"}),
     reject  |-> On("task", "decide", {"d1", "d2"}, {"a"}),
     resume  |-> [Tr({"W"}, {"C"}) EXCEPT !.mode = "deep"],
     redo    |-> [Tr({"W"}, {"C"}) EXCEPT !.mode = "shallow"],
     close   |-> Tr({"C"}, {"END"})]

Order == Machine(OrderTree, OrderStart, {}, OrderTrans)

Decide(t, choice) == [kind |-> "task", arg |-> choice, task |-> t]

OrderRequests == Go({"open", "step", "resume", "redo", "close", "unknown"})
                 \cup Force({"D", "unknown"})
                 \cup {Request("signal", "halt"), Decide(1, "approve"), Decide(1, "reject"),
                       Decide(2, "reject")}
============================================================================
