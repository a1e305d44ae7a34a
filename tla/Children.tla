------------------------------ MODULE Children ------------------------------
(***************************************************************************)
(* Child workflows: the transitions of a parent that spawn children, and   *)
(* the ChildCompleted calls that report their ends and resume the parent.  *)
(* A call is a sequence of store operations between which the other calls  *)
(* run; children are created one by one after the commit, and any of them  *)
(* may be reported as soon as it is in the store.  The nested call of      *)
(* Transition is one step here: EngineProofs shows that it behaves as if   *)
(* it were.                                                                *)
(***************************************************************************)
EXTENDS Workflow

CONSTANTS
    Spawns,       \* transition -> the children it spawns
    Types,        \* the workflow types of children
    Terminals,    \* the states in which a child may end
    MaxChildren,  \* bound on the children that calls of Transition spawn
    MaxMoves,     \* bound on the direct calls of Transition
    MaxFailures   \* bound on crashes, conflicts and store errors

\* Caller 0 moves the parent, caller k reports the end of child k.
User == 0
Reporters == 1..MaxChildren
Callers == {User} \cup Reporters

\* types.ChildDef and types.ChildrenDef: group tells them apart.
SpawnDef == [type : Types, children : Nat, group : BOOLEAN,
             mode : {"ALL", "ANY", "N"}, n : Nat, terminal : Terminals]

\* Only direct transitions spawn, so that MaxChildren can bound them.
ASSUME SpawnsAssumption ==
    /\ DOMAIN Spawns \subseteq Names
    /\ \A n \in DOMAIN Spawns : Spawns[n] \in SpawnDef /\ cm.Trans[n].trigger = "direct"

VARIABLES
    parent,    \* the stored parent instance
    children,  \* the child store: a child's ID is its position
    groups,    \* the groups spawned: a group's ID is its position, and its entry
               \* the transition that spawned it
    reported,  \* children whose end has been reported
    pc,        \* caller -> where its call stands
    name,      \* caller -> the transition it executes
    group,     \* caller -> the group whose children it creates, 0 for none
    left,      \* caller -> children it has still to create
    base,      \* caller -> the parent as it loaded it
    known,     \* caller -> ghost: the children in the store when its report began
    moves,
    failures

locals == <<name, group, left, base, known>>
vars == <<parent, children, groups, reported, pc, locals, moves, failures>>

\* types.ChildRelation.  group is 0 outside groups; fate is a ghost, the state
\* the child ends in.
Relation == [type : Types, group : Nat, mode : {"ALL", "ANY", "N"}, completed : BOOLEAN,
             terminal : Terminals \cup {NoState}, fate : Terminals]

Init ==
    /\ parent = fresh
    /\ children = <<>>
    /\ groups = <<>>
    /\ reported = {}
    /\ pc = [c \in Callers |-> "idle"]
    /\ name = [c \in Callers |-> NoState]
    /\ group = [c \in Callers |-> 0]
    /\ left = [c \in Callers |-> 0]
    /\ base = [c \in Callers |-> fresh]
    /\ known = [c \in Callers |-> 0]
    /\ moves = 0
    /\ failures = 0

----------------------------------------------------------------------------
(* Helpers *)

goto(c, step) == pc' = [pc EXCEPT ![c] = step]

\* The call returns a result or an error.
return(c) ==
    /\ goto(c, "idle")
    /\ name' = [name EXCEPT ![c] = NoState]
    /\ group' = [group EXCEPT ![c] = 0]
    /\ left' = [left EXCEPT ![c] = 0]
    /\ base' = [base EXCEPT ![c] = fresh]
    /\ known' = [known EXCEPT ![c] = 0]

\* A store operation that may fail at this point.
mayFail == failures < MaxFailures /\ failures' = failures + 1

\* GetByGroup: what is in the store, however many are still to be created.
siblings(g) == {k \in DOMAIN children : children[k].group = g}

completedIn(g) == {k \in siblings(g) : children[k].completed}

----------------------------------------------------------------------------
(* Transition on the parent *)

\* A client calls Transition.
Call(n) ==
    /\ pc[User] = "idle"
    /\ moves < MaxMoves
    /\ cm.Trans[n].trigger = "direct"
    /\ n \in DOMAIN Spawns => Len(children) + Spawns[n].children <= MaxChildren
    /\ moves' = moves + 1
    /\ name' = [name EXCEPT ![User] = n]
    /\ goto(User, "execute")
    /\ UNCHANGED <<parent, children, groups, reported, group, left, base, known, failures>>

outcomes(n) == commitTransition(parent, n) \cup commitParallelIntra(parent, n)
               \cup commitParallelExit(parent, n)

\* Transition commits; what it spawns is created afterwards.
Execute(c) ==
    LET n == name[c] IN
    /\ pc[c] = "execute"
    /\ \E o \in outcomes(n) : parent' = o.inst
    /\ IF n \in DOMAIN Spawns
       THEN /\ goto(c, "spawn")
            /\ left' = [left EXCEPT ![c] = Spawns[n].children]
            /\ groups' = IF Spawns[n].group THEN Append(groups, n) ELSE groups
            /\ group' = [group EXCEPT ![c] = IF Spawns[n].group THEN Len(groups) + 1 ELSE 0]
            /\ UNCHANGED <<name, base, known>>
       ELSE return(c) /\ UNCHANGED groups
    /\ UNCHANGED <<children, reported, moves, failures>>

\* Transition refuses: the parent has left the sources of the transition.
Refuse(c) ==
    /\ pc[c] = "execute"
    /\ outcomes(name[c]) = {}
    /\ return(c)
    /\ UNCHANGED <<parent, children, groups, reported, moves, failures>>

relation(c, fate) ==
    LET def == Spawns[name[c]] IN
    [type |-> def.type, group |-> group[c], mode |-> def.mode, completed |-> FALSE,
     terminal |-> NoState, fate |-> fate]

\* ChildStore.Create of the next child; an error is a warning.
SpawnChild(c) ==
    /\ pc[c] = "spawn"
    /\ left[c] > 0
    /\ left' = [left EXCEPT ![c] = @ - 1]
    /\ \/ /\ \E fate \in Terminals : children' = Append(children, relation(c, fate))
          /\ UNCHANGED failures
       \/ mayFail /\ UNCHANGED children
    /\ UNCHANGED <<parent, groups, reported, pc, name, group, base, known, moves>>

\* All children are created.
Spawned(c) ==
    /\ pc[c] = "spawn"
    /\ left[c] = 0
    /\ return(c)
    /\ UNCHANGED <<parent, children, groups, reported, moves, failures>>

----------------------------------------------------------------------------
(* ChildCompleted *)

\* The child ended, and a client that got its ID from the result of the
\* transition, or from the store, reports it: once, or again at any time, for
\* nothing in the engine remembers that it was reported.
ChildCompleted(k) ==
    /\ pc[k] = "idle"
    /\ k \in DOMAIN children
    /\ reported' = reported \cup {k}
    /\ known' = [known EXCEPT ![k] = Len(children)]
    /\ goto(k, "complete")
    /\ UNCHANGED <<parent, children, groups, name, group, left, base, moves, failures>>

\* ChildStore.Complete; its error is not returned.
Complete(k) ==
    /\ pc[k] = "complete"
    /\ \/ /\ children' = [children EXCEPT ![k].completed = TRUE,
                                          ![k].terminal = children[k].fate]
          /\ UNCHANGED failures
       \/ mayFail /\ UNCHANGED children
    /\ goto(k, "load")
    /\ UNCHANGED <<parent, groups, reported, locals, moves>>

\* InstanceStore.Get of the parent.
LoadParent(k) ==
    /\ pc[k] = "load"
    /\ base' = [base EXCEPT ![k] = parent]
    /\ goto(k, "match")
    /\ UNCHANGED <<parent, children, groups, reported, name, group, left, known, moves,
                   failures>>

\* Mutant: one child of the group may be missing.
satisfied_early(g, mode, n) ==
    LET total == Cardinality(siblings(g))
        done  == Cardinality(completedIn(g))
    IN  CASE mode = "ALL" -> done + 1 >= total
          [] mode = "ANY" -> done >= 1
          [] mode = "N"   -> done + 1 >= n

\* Mutant: the count must be met exactly.
satisfied_exactly(g, mode, n) ==
    LET total == Cardinality(siblings(g))
        done  == Cardinality(completedIn(g))
    IN  CASE mode = "ALL" -> done = total
          [] mode = "ANY" -> done = 1
          [] mode = "N"   -> done = n

\* evaluateJoinPolicy, n the count it found for mode N.
satisfied(g, mode, n) ==
    LET total == Cardinality(siblings(g))
        done  == Cardinality(completedIn(g))
    IN  CASE mode = "ALL" -> done = total
          [] mode = "ANY" -> done >= 1
          [] mode = "N"   -> done >= n

\* The count is that of any transition that spawns with mode N.
counts(mode) ==
    IF mode = "N" THEN {Spawns[n].n : n \in {m \in DOMAIN Spawns : Spawns[m].mode = "N"}}
    ELSE {0}

\* Mutant: every child is taken for one of a group.
fired_grouped(k, count) ==
    {n \in Names :
        /\ cm.Trans[n].trigger = "children"
        /\ satisfied(children[k].group, children[k].mode, count)
        /\ cm.Trans[n].sources \cap activeStates(base[k]) # {}}

\* The transitions that the end of child k may fire: OnChildrenJoined for a
\* group whose policy is satisfied, else OnChildCompleted.
fired(k, count) ==
    LET g == children[k].group
        trigger == IF g = 0 THEN "child" ELSE "children"
    IN  {n \in Names :
            /\ cm.Trans[n].trigger = trigger
            /\ g = 0 => cm.Trans[n].key = children[k].type
            /\ g # 0 => satisfied(g, children[k].mode, count)
            /\ cm.Trans[n].sources \cap activeStates(base[k]) # {}}

\* The siblings are read and a transition is chosen, or an error returned.
Match(k) ==
    /\ pc[k] = "match"
    /\ \E count \in counts(children[k].mode) :
          IF fired(k, count) = {} THEN return(k)
          ELSE /\ \E n \in fired(k, count) : name' = [name EXCEPT ![k] = n]
               /\ goto(k, "execute")
               /\ UNCHANGED <<group, left, base, known>>
    /\ UNCHANGED <<parent, children, groups, reported, moves, failures>>

\* A read of the store fails, Transition meets a conflict, or the process dies:
\* the call ends where it stands.
Fail(c) ==
    /\ pc[c] # "idle"
    /\ mayFail
    /\ return(c)
    /\ UNCHANGED <<parent, children, groups, reported, moves>>

----------------------------------------------------------------------------

Handle(c) ==
    \/ Execute(c) \/ Refuse(c) \/ SpawnChild(c) \/ Spawned(c)
    \/ c \in Reporters /\ (Complete(c) \/ LoadParent(c) \/ Match(c))

\* No call of Transition is left to make.
Quiet ==
    /\ moves = MaxMoves
    /\ \A c \in Callers : pc[c] = "idle"
    /\ UNCHANGED vars

Next ==
    \/ \E n \in Names : Call(n)
    \/ \E k \in Reporters : ChildCompleted(k)
    \/ \E c \in Callers : Handle(c) \/ Fail(c)
    \/ Quiet

\* Goroutines run, and every child ends and is reported once.  Further reports,
\* direct calls and failures are up to the environment.
Fairness ==
    /\ \A c \in Callers : WF_vars(Handle(c))
    /\ \A k \in Reporters : WF_vars(k \notin reported /\ ChildCompleted(k))

Spec == Init /\ [][Next]_vars /\ Fairness

----------------------------------------------------------------------------
(* Properties *)

\* The definition of group g.
spawnedBy(g) == Spawns[groups[g]]

\* The report c resumes the parent by a join.
joins(c) ==
    /\ pc[c] = "execute" /\ pc'[c] # "execute"
    /\ cm.Trans[name[c]].trigger = "children"
    /\ parent' # parent

\* A report that resumes the parent leaves no child behind that its client could
\* know of: under JoinAll every sibling that was in the store when the report
\* began has completed by the time the parent moves, under JoinN as many as the
\* group asks for, under JoinAny one, although the report stored its own
\* completion, loaded the parent and counted the group at different times, and
\* reports of this and of other groups ran in between.
JoinCovers ==
    [][\A c \in Reporters : joins(c) =>
        LET g == children[c].group IN
        CASE spawnedBy(g).mode = "ALL" ->
                \A k \in siblings(g) : k <= known[c] => children[k].completed
          [] spawnedBy(g).mode = "ANY" -> completedIn(g) # {}
          [] spawnedBy(g).mode = "N" -> Cardinality(completedIn(g)) >= spawnedBy(g).n]_vars

\* The children created are enough for the policy.
satisfiable(g) ==
    /\ siblings(g) # {}
    /\ spawnedBy(g).mode = "N" => Cardinality(siblings(g)) >= spawnedBy(g).n

waiting(trigger) ==
    \E n \in Names : cm.Trans[n].trigger = trigger
                     /\ cm.Trans[n].sources \cap activeStates(parent) # {}

\* If nothing fails, one report of each child is enough for a parent that waits
\* for a group to resume, in whatever order the reports overlap with each other,
\* with the creation of siblings and with late reports of an earlier group: no
\* two reports each miss the other's completion.
JoinHappens ==
    [](failures = 0) =>
        (waiting("children") /\ groups # <<>> /\ satisfiable(Len(groups))
            ~> ~waiting("children"))

\* A client that reports its children until a report is accepted.
Retried == \A k \in Reporters : WF_vars(ChildCompleted(k))

\* A parent that waits for a single child resumes, even though reports fail half
\* way or lose the completion they were to store, when the client reports again.
ChildResumes ==
    Retried =>
        (waiting("child") /\ (\E k \in DOMAIN children : children[k].group = 0)
            ~> ~waiting("child"))

----------------------------------------------------------------------------
(* What the documentation says and the code does not keep *)

\* The policies as types/child.go states them: JoinAll waits for all children,
\* JoinAny for one that reaches the given terminal state, JoinN for n of them.
policyMet(g) ==
    CASE spawnedBy(g).mode = "ALL" -> Cardinality(completedIn(g)) = spawnedBy(g).children
      [] spawnedBy(g).mode = "ANY" ->
            \E k \in completedIn(g) : children[k].terminal = spawnedBy(g).terminal
      [] spawnedBy(g).mode = "N" -> Cardinality(completedIn(g)) >= spawnedBy(g).n

\* The parent resumes only when the policy of the group it waits for, the last
\* one spawned, is met by the children that group was declared with.
JoinJustified == [][\A c \in Reporters : joins(c) => policyMet(Len(groups))]_vars
============================================================================
