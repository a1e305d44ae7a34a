---------------------------- MODULE EngineProofs ----------------------------
(***************************************************************************)
(* What the operations of one workflow instance keep, and theorems about   *)
(* module Engine, for every workflow that Validate and Compile accept,     *)
(* every set of callers and requests and any number of calls.              *)
(***************************************************************************)
EXTENDS Engine, Recursion, SequenceTheorems

----------------------------------------------------------------------------
(* Choosing, and smallest elements *)

\* CHOOSE picks a member of a set that has one.
LEMMA PickMember ==
    ASSUME NEW S, S # {}
    PROVE  (CHOOSE x \in S : TRUE) \in S
  OBVIOUS

\* A non-empty set of indices has a smallest one, which Min returns.
LEMMA MinMember ==
    ASSUME NEW S \in SUBSET Nat, S # {}
    PROVE  Min(S) \in S /\ \A y \in S : Min(S) =< y
  <1>1. \E x \in S : \A y \in S : x =< y
    BY Least
  <1>2. QED
    BY <1>1 DEF Min

----------------------------------------------------------------------------
(* Types of the hierarchy algorithms *)

\* A Go map of the instance leads from compound states to states.
LEMMA MapsApply ==
    ASSUME NEW m \in Maps, NEW s \in DOMAIN m
    PROVE  m[s] \in States /\ s \in cm.Compound
  BY DEF Maps

\* Every function from compound states to states is such a map.
LEMMA MapsIntro ==
    ASSUME NEW m, NEW D \in SUBSET cm.Compound, m \in [D -> States]
    PROVE  m \in Maps
  BY DEF Maps

\* The map createInstance starts from is one.
LEMMA EmptyMapType == EmptyMap \in Maps
  <1>1. EmptyMap \in [{} -> States]
    BY DEF EmptyMap
  <1>2. QED
    BY <1>1, MapsIntro

\* Following InitialLeafMap leads to a state.
LEMMA InitialLeafType ==
    ASSUME NEW s \in States
    PROVE  initialLeafOr(cm, s) \in States
  BY CompiledAssumption DEF WellCompiled, initialLeafOr, leaves, States

\* resolveTarget, with or without history, returns a state.
LEMMA TargetType ==
    ASSUME NEW i \in Instance, NEW t \in States, NEW mode
    PROVE  resolveTarget(cm, i, t, mode) \in States
  <1>1. i.shallow \in Maps /\ i.deep \in Maps
    BY DEF Instance
  <1>2. initialLeafOr(cm, t) \in States
    BY InitialLeafType
  <1>3. t \in DOMAIN i.shallow => initialLeafOr(cm, i.shallow[t]) \in States
    BY <1>1, MapsApply, InitialLeafType
  <1>4. t \in DOMAIN i.deep => i.deep[t] \in States
    BY <1>1, MapsApply
  <1>5. QED
    BY <1>2, <1>3, <1>4 DEF resolveTarget

\* An exit sequence stays inside the chart.
LEMMA ExitSequenceType ==
    ASSUME NEW s \in States, NEW lca
    PROVE  /\ computeExitSequence(cm, s, lca) \in Seq(States)
           /\ ToSet(computeExitSequence(cm, s, lca)) \subseteq States
  <1> DEFINE chain == cm.Ancestry[s]
             at == {k \in DOMAIN chain : chain[k] = lca}
  <1>1. chain \in Seq(States)
    BY CompiledAssumption DEF WellCompiled, States
  <1>2. at # {} => Min(at) \in DOMAIN chain
    <2>1. at \in SUBSET Nat
      BY <1>1
    <2>2. QED
      BY <2>1, MinMember
  <1>3. Below(cm, s, lca) \in Seq(States)
    <2>1. Below(cm, s, lca) = IF at = {} THEN chain ELSE SubSeq(chain, 1, Min(at) - 1)
      BY DEF Below
    <2>2. CASE at = {}
      BY <1>1, <2>1, <2>2
    <2>3. CASE at # {}
      <3> HIDE DEF chain, at
      <3>1. Min(at) - 1 \in Int /\ \A k \in 1..(Min(at) - 1) : chain[k] \in States
        BY <1>1, <1>2, <2>3
      <3>2. SubSeq(chain, 1, Min(at) - 1) \in Seq(States)
        BY <3>1, SubSeqProperties
      <3>3. QED
        BY <2>1, <2>3, <3>2
    <2>4. QED
      BY <2>2, <2>3
  <1>4. computeExitSequence(cm, s, lca) \in Seq(States)
    BY <1>3 DEF computeExitSequence
  <1>5. QED
    BY <1>4 DEF ToSet

----------------------------------------------------------------------------
(* Types of what the operations write *)

\* An exit path: a leaf and states of the chart.
IsPath(p) == p.leaf \in States /\ p.exited \subseteq States

\* What recordHistory stores for s is a child of s and a leaf below it.
LEMMA ExitsType ==
    ASSUME NEW paths, \A p \in paths : IsPath(p), NEW s,
           NEW x \in exitsOf(cm, paths, s)
    PROVE  /\ x.child \in States /\ x.leaf \in States
           /\ cm.Parent[x.child] = s
           /\ \E p \in paths : s \in p.exited /\ x.child \in p.exited /\ x.leaf = p.leaf
  <1>1. PICK p \in paths : s \in p.exited /\ x \in {[child |-> c, leaf |-> p.leaf] :
                               c \in {y \in p.exited : cm.Parent[y] = s}}
    BY DEF exitsOf
  <1>2. PICK c \in p.exited : cm.Parent[c] = s /\ x = [child |-> c, leaf |-> p.leaf]
    BY <1>1
  <1>3. x.child = c /\ x.leaf = p.leaf
    BY <1>2
  <1>4. QED
    BY <1>1, <1>2, <1>3 DEF IsPath

\* recordHistory changes the histories only, and keeps them maps of states.
LEMMA RecordHistoryType ==
    ASSUME NEW i \in Instance, NEW paths, \A p \in paths : IsPath(p)
    PROVE  /\ recordHistory(cm, i, paths) \in Instance
           /\ Conf(recordHistory(cm, i, paths)) = Conf(i)
  <1> DEFINE left    == {s \in cm.Compound : exitsOf(cm, paths, s) # {}}
             exit(s) == CHOOSE x \in exitsOf(cm, paths, s) : TRUE
             sh == [s \in DOMAIN i.shallow \cup left |->
                       IF s \in left THEN exit(s).child ELSE i.shallow[s]]
             dp == [s \in DOMAIN i.deep \cup left |->
                       IF s \in left THEN exit(s).leaf ELSE i.deep[s]]
  <1>1. recordHistory(cm, i, paths) = [i EXCEPT !.shallow = sh, !.deep = dp]
    BY DEF recordHistory
  <1>2. \A s \in left : exit(s) \in exitsOf(cm, paths, s)
    BY PickMember
  <1>3. \A s \in left : exit(s).child \in States /\ exit(s).leaf \in States
    BY <1>2, ExitsType
  <1>4. i.shallow \in Maps /\ i.deep \in Maps
    BY DEF Instance
  <1> HIDE DEF exit
  <1>5. sh \in Maps
    <2>1. DOMAIN i.shallow \cup left \in SUBSET cm.Compound
      BY <1>4, MapsApply
    <2>2. \A s \in DOMAIN i.shallow : i.shallow[s] \in States
      BY <1>4, MapsApply
    <2> HIDE DEF left
    <2>3. sh \in [DOMAIN i.shallow \cup left -> States]
      BY <1>3, <2>2
    <2>4. QED
      BY <2>1, <2>3, MapsIntro
  <1>6. dp \in Maps
    <2>1. DOMAIN i.deep \cup left \in SUBSET cm.Compound
      BY <1>4, MapsApply
    <2>2. \A s \in DOMAIN i.deep : i.deep[s] \in States
      BY <1>4, MapsApply
    <2> HIDE DEF left
    <2>3. dp \in [DOMAIN i.deep \cup left -> States]
      BY <1>3, <2>2
    <2>4. QED
      BY <2>1, <2>3, MapsIntro
  <1> HIDE DEF sh, dp
  <1>7. QED
    BY <1>1, <1>5, <1>6 DEF Instance, Conf

\* enterParallelRegions gives every region a state.
LEMMA RegionsType ==
    ASSUME NEW p \in cm.Parallel
    PROVE  enterParallelRegions(cm, p) \in Maps
  <1>1. cm.RegionIndex[p] \in Seq(cm.Compound \ cm.Parallel)
    BY CompiledAssumption DEF WellCompiled
  <1>2. ToSet(cm.RegionIndex[p]) \in SUBSET cm.Compound
    BY <1>1 DEF ToSet
  <1>3. \A r \in ToSet(cm.RegionIndex[p]) : initialLeafOr(cm, r) \in States
    BY <1>2, InitialLeafType, CompiledAssumption DEF WellCompiled, States
  <1>4. enterParallelRegions(cm, p) \in [ToSet(cm.RegionIndex[p]) -> States]
    BY <1>3 DEF enterParallelRegions
  <1>5. QED
    BY <1>2, <1>4, MapsIntro

\* Coming to rest in a state leaves a well-typed instance.
LEMMA RestInType ==
    ASSUME NEW i \in Instance, NEW t \in States
    PROVE  restIn(cm, i, t) \in Instance
  <1>1. (IF t \in cm.Parallel THEN enterParallelRegions(cm, t) ELSE EmptyMap) \in Maps
    BY RegionsType, EmptyMapType
  <1>2. QED
    BY <1>1 DEF restIn, Instance

\* recordExit changes the histories only, and keeps them well typed.
LEMMA RecordExitType ==
    ASSUME NEW i \in Instance, NEW t \in States
    PROVE  recordExit(cm, i, t) \in Instance /\ Conf(recordExit(cm, i, t)) = Conf(i)
  <1> DEFINE p == [leaf |-> i.cur, exited |-> ToSet(exitSequence(cm, i, t))]
  <1>1. i.cur \in States
    BY DEF Instance
  <1>2. IsPath(p)
    BY <1>1, ExitSequenceType DEF IsPath, exitSequence
  <1>3. QED
    BY <1>2, RecordHistoryType DEF recordExit

\* commitParallelExit leaves a well-typed instance.
LEMMA LeftParallelType ==
    ASSUME NEW i \in Instance, NEW t \in States
    PROVE  leftParallel(cm, i, t) \in Instance
  <1> DEFINE path(r) == [leaf   |-> i.aip[r],
                         exited |-> ToSet(computeExitSequence(cm, i.aip[r], i.cur))]
             paths == {path(r) : r \in DOMAIN i.aip}
  <1>1. i.aip \in Maps
    BY DEF Instance
  <1>2. ASSUME NEW r \in DOMAIN i.aip PROVE IsPath(path(r))
    <2>1. i.aip[r] \in States
      BY <1>1, MapsApply
    <2>2. QED
      BY <2>1, ExitSequenceType DEF IsPath
  <1>3. recordHistory(cm, i, paths) \in Instance
    <2> HIDE DEF path
    <2>1. \A p \in paths : IsPath(p)
      BY <1>2
    <2>2. QED
      BY <2>1, RecordHistoryType
  <1>4. leftParallel(cm, i, t) = [recordHistory(cm, i, paths) EXCEPT
                                    !.cur = initialLeafOr(cm, t), !.aip = EmptyMap]
    BY DEF leftParallel
  <1> HIDE DEF paths
  <1>5. QED
    BY <1>3, <1>4, InitialLeafType, EmptyMapType DEF Instance

\* Moving regions leaves a well-typed instance.
LEMMA MovedType ==
    ASSUME NEW i \in Instance, NEW regions, NEW t \in States
    PROVE  movedRegions(i, regions, t) \in Instance
  <1> DEFINE m == [r \in DOMAIN i.aip |-> IF r \in regions THEN t ELSE i.aip[r]]
  <1>1. i.aip \in Maps
    BY DEF Instance
  <1>2. DOMAIN i.aip \in SUBSET cm.Compound
    BY <1>1, MapsApply
  <1>3. m \in [DOMAIN i.aip -> States]
    BY <1>1, MapsApply
  <1>4. m \in Maps
    BY <1>2, <1>3, MapsIntro
  <1>5. movedRegions(i, regions, t) = [i EXCEPT !.aip = m]
    BY DEF movedRegions
  <1> HIDE DEF m
  <1>6. QED
    BY <1>4, <1>5 DEF Instance

\* ForceState leaves a well-typed instance.
LEMMA ForcedType ==
    ASSUME NEW i \in Instance, NEW t \in States
    PROVE  forced(cm, i, t) \in Instance
  <1>1. restIn(cm, i, initialLeafOr(cm, t)) \in Instance
    BY InitialLeafType, RestInType
  <1>2. QED
    BY <1>1, EmptyMapType DEF forced, Instance

\* The configuration of an instance is well typed.
LEMMA ConfType ==
    ASSUME NEW i \in Instance
    PROVE  Conf(i) \in Confs
  BY DEF Conf, Confs, Instance

\* The event of a transition is well typed.
LEMMA ChangeType ==
    ASSUME NEW n \in Names \cup {ForceName}, NEW i \in Instance, NEW j \in Instance,
           NEW b \in BOOLEAN
    PROVE  change(n, i, j, b) \in Change
  <1>1. NoSeq \in [cm.Compound -> Nat]
    BY DEF NoSeq
  <1>2. Conf(i) \in Confs /\ Conf(j) \in Confs
    BY ConfType
  <1>3. QED
    BY <1>1, <1>2 DEF change, Change

\* createInstance makes a well-typed instance.
LEMMA FreshType == fresh \in Instance
  <1>1. cm.Initial \in States
    BY CompiledAssumption DEF WellCompiled, leaves, States
  <1>2. created(cm).cur \in States
    BY <1>1, InitialLeafType DEF created
  <1>3. QED
    BY <1>2, EmptyMapType DEF fresh, Instance

----------------------------------------------------------------------------
(* What is in each set of outcomes *)

IsTransition(i, n, o) ==
    /\ i.aip = EmptyMap /\ validSource(i, n)
    /\ \E t \in cm.Trans[n].targets :
          LET target == resolveTarget(cm, i, t, cm.Trans[n].mode)
              j == transitioned(cm, i, target)
          IN  o = [inst |-> j, change |-> change(n, i, j, TRUE),
                   exited |-> exitedStates(i, target)]

IsStuck(i, n, o) ==
    /\ i.aip = EmptyMap /\ validSource(i, n)
    /\ \E t \in cm.Trans[n].targets :
          LET target == resolveTarget(cm, i, t, cm.Trans[n].mode)
              j == [recordExit(cm, i, target) EXCEPT !.stuck = TRUE]
          IN  o = [inst |-> j, change |-> change(n, i, j, FALSE),
                   exited |-> exitedStates(i, target)]

\* The sequence map of commitParallelIntra.
sequenceMap(i, regions) ==
    [r \in cm.Compound |-> IF r \in regions THEN i.pclock + 1
                           ELSE IF r \in DOMAIN i.aip THEN i.pclock
                           ELSE 0]

IsIntra(i, n, o) ==
    /\ i.aip # EmptyMap /\ i.cur \notin cm.Trans[n].sources /\ candidates(i, n) # {}
    /\ \E t \in cm.Trans[n].targets :
          LET j == [movedRegions(i, candidates(i, n), t) EXCEPT !.pclock = i.pclock + 1]
          IN  o = [inst |-> j, exited |-> {},
                   change |-> [change(n, i, j, TRUE) EXCEPT
                                  !.moved = candidates(i, n),
                                  !.seq = sequenceMap(i, candidates(i, n))]]

IsExit(i, n, o) ==
    /\ i.aip # EmptyMap /\ i.cur \in cm.Trans[n].sources
    /\ \E t \in cm.Trans[n].targets :
          LET j == leftParallel(cm, i, t)
          IN  o = [inst |-> j, change |-> change(n, i, j, TRUE), exited |-> {}]

\* An outcome of commitTransition comes from one of its targets.
LEMMA TransitionOutcome ==
    ASSUME NEW i \in Instance, NEW n \in Names, NEW o \in commitTransition(i, n)
    PROVE  IsTransition(i, n, o)
  BY DEF commitTransition, IsTransition

\* An outcome of a stuck transition comes from one of its targets.
LEMMA StuckOutcome ==
    ASSUME NEW i \in Instance, NEW n \in Names, NEW o \in commitStuck(i, n)
    PROVE  IsStuck(i, n, o)
  BY DEF commitStuck, IsStuck

\* An outcome of commitParallelIntra comes from one of its targets.
LEMMA IntraOutcome ==
    ASSUME NEW i \in Instance, NEW n \in Names, NEW o \in commitParallelIntra(i, n)
    PROVE  IsIntra(i, n, o)
  BY DEF commitParallelIntra, IsIntra, sequenceMap

\* The sequence map numbers compound states.
LEMMA SequenceMapType ==
    ASSUME NEW i \in Instance, NEW regions
    PROVE  sequenceMap(i, regions) \in [cm.Compound -> Nat]
  <1>1. i.pclock \in Nat
    BY DEF Instance
  <1>2. QED
    BY <1>1 DEF sequenceMap

\* An outcome of commitParallelExit comes from one of its targets.
LEMMA ExitOutcome ==
    ASSUME NEW i \in Instance, NEW n \in Names, NEW o \in commitParallelExit(i, n)
    PROVE  IsExit(i, n, o)
  BY DEF commitParallelExit, IsExit

----------------------------------------------------------------------------
(* Every operation writes an instance and a change of the right type *)

\* An outcome is well typed when its parts are.
LEMMA OutcomeParts ==
    ASSUME NEW j \in Instance, NEW ch \in Change, NEW E \in SUBSET States
    PROVE  [inst |-> j, change |-> ch, exited |-> E] \in Outcome
  BY DEF Outcome

\* The states whose tasks are invalidated are states.
LEMMA ExitedType ==
    ASSUME NEW i, NEW t
    PROVE  exitedStates(i, t) \in SUBSET States
  BY DEF exitedStates, collectSubtreeStates, States

\* commitTransition writes well-typed instances and events.
LEMMA TransitionType ==
    ASSUME NEW i \in Instance, NEW n \in Names, NEW o, IsTransition(i, n, o)
    PROVE  o \in Outcome
  <1>1. PICK u \in cm.Trans[n].targets :
          LET t == resolveTarget(cm, i, u, cm.Trans[n].mode)
              j == transitioned(cm, i, t)
          IN  o = [inst |-> j, change |-> change(n, i, j, TRUE),
                   exited |-> exitedStates(i, t)]
    BY DEF IsTransition
  <1> DEFINE t == resolveTarget(cm, i, u, cm.Trans[n].mode)
             j == transitioned(cm, i, t)
  <1>2. t \in States
    BY TargetType, TransAssumption
  <1> HIDE DEF t
  <1>3. j \in Instance
    BY <1>2, RecordExitType, RestInType DEF transitioned
  <1> HIDE DEF j
  <1>4. change(n, i, j, TRUE) \in Change
    BY <1>3, ChangeType
  <1>5. QED
    BY <1>1, <1>3, <1>4, ExitedType, OutcomeParts DEF t, j

\* A stuck transition writes well-typed instances and events.
LEMMA StuckType ==
    ASSUME NEW i \in Instance, NEW n \in Names, NEW o, IsStuck(i, n, o)
    PROVE  o \in Outcome
  <1>1. PICK u \in cm.Trans[n].targets :
          LET t == resolveTarget(cm, i, u, cm.Trans[n].mode)
              j == [recordExit(cm, i, t) EXCEPT !.stuck = TRUE]
          IN  o = [inst |-> j, change |-> change(n, i, j, FALSE),
                   exited |-> exitedStates(i, t)]
    BY DEF IsStuck
  <1> DEFINE t == resolveTarget(cm, i, u, cm.Trans[n].mode)
             j == [recordExit(cm, i, t) EXCEPT !.stuck = TRUE]
  <1>2. t \in States
    BY TargetType, TransAssumption
  <1> HIDE DEF t
  <1>3. j \in Instance
    <2>1. recordExit(cm, i, t) \in Instance
      BY <1>2, RecordExitType
    <2>2. QED
      BY <2>1 DEF Instance
  <1> HIDE DEF j
  <1>4. change(n, i, j, FALSE) \in Change
    BY <1>3, ChangeType
  <1>5. QED
    BY <1>1, <1>3, <1>4, ExitedType, OutcomeParts DEF t, j

\* Candidate regions are active regions.
LEMMA CandidatesType ==
    ASSUME NEW i \in Instance, NEW n
    PROVE  candidates(i, n) \in SUBSET cm.Compound /\ candidates(i, n) \subseteq DOMAIN i.aip
  <1>1. i.aip \in Maps
    BY DEF Instance
  <1>2. candidates(i, n) \subseteq DOMAIN i.aip
    BY DEF candidates, collectParallelCandidates
  <1>3. QED
    BY <1>1, <1>2, MapsApply

\* commitParallelIntra writes well-typed instances and events.
LEMMA IntraType ==
    ASSUME NEW i \in Instance, NEW n \in Names, NEW o, IsIntra(i, n, o)
    PROVE  o \in Outcome
  <1> DEFINE seq == sequenceMap(i, candidates(i, n))
  <1>0. seq \in [cm.Compound -> Nat]
    BY SequenceMapType
  <1> HIDE DEF seq
  <1>1. PICK t \in cm.Trans[n].targets :
          LET j == [movedRegions(i, candidates(i, n), t) EXCEPT !.pclock = i.pclock + 1]
          IN  o = [inst |-> j, exited |-> {},
                   change |-> [change(n, i, j, TRUE) EXCEPT !.moved = candidates(i, n),
                                                            !.seq = seq]]
    BY DEF IsIntra, seq
  <1> DEFINE j == [movedRegions(i, candidates(i, n), t) EXCEPT !.pclock = i.pclock + 1]
             ch == [change(n, i, j, TRUE) EXCEPT !.moved = candidates(i, n), !.seq = seq]
  <1>2. j \in Instance
    <2>1. movedRegions(i, candidates(i, n), t) \in Instance
      BY MovedType, TransAssumption
    <2>2. i.pclock + 1 \in Nat
      BY DEF Instance
    <2>3. QED
      BY <2>1, <2>2 DEF Instance
  <1> HIDE DEF j
  <1>3. ch \in Change
    <2>1. change(n, i, j, TRUE) \in Change
      BY <1>2, ChangeType
    <2>2. QED
      BY <1>0, <2>1, CandidatesType DEF Change
  <1> HIDE DEF ch
  <1>4. o = [inst |-> j, change |-> ch, exited |-> {}]
    BY <1>1 DEF j, ch
  <1>5. QED
    BY <1>2, <1>3, <1>4, OutcomeParts

\* commitParallelExit writes well-typed instances and events.
LEMMA ExitType ==
    ASSUME NEW i \in Instance, NEW n \in Names, NEW o, IsExit(i, n, o)
    PROVE  o \in Outcome
  <1>1. PICK t \in cm.Trans[n].targets :
          LET j == leftParallel(cm, i, t)
          IN  o = [inst |-> j, change |-> change(n, i, j, TRUE), exited |-> {}]
    BY DEF IsExit
  <1>2. leftParallel(cm, i, t) \in Instance
    BY LeftParallelType, TransAssumption
  <1>3. change(n, i, leftParallel(cm, i, t), TRUE) \in Change
    BY <1>2, ChangeType
  <1>4. QED
    BY <1>1, <1>2, <1>3, OutcomeParts

\* ForceState writes well-typed instances and events.
LEMMA ForceType ==
    ASSUME NEW i \in Instance, NEW t \in States
    PROVE  forceState(i, t) \in Outcome
  <1> DEFINE j == [forced(cm, i, t) EXCEPT !.stuck = FALSE]
  <1>1. j \in Instance
    <2>1. forced(cm, i, t) \in Instance
      BY ForcedType
    <2>2. QED
      BY <2>1 DEF Instance
  <1>2. change(ForceName, i, j, TRUE) \in Change
    BY <1>1, ChangeType
  <1>3. forceState(i, t) = [inst |-> j, change |-> change(ForceName, i, j, TRUE),
                            exited |-> {}]
    BY DEF forceState
  <1> HIDE DEF j
  <1>4. QED
    BY <1>1, <1>2, <1>3, OutcomeParts

----------------------------------------------------------------------------
(* All operations together *)

\* The event of an outcome starts at the instance i that was read, and ends at
\* the one to be written.
Logs(i, o, n, b) ==
    /\ o.change.name = n
    /\ o.change.applied = b
    /\ o.change.pre = Conf(i)
    /\ o.change.post = Conf(o.inst)

\* What outcomes have in common, whatever the operation: the type, the event,
\* and no movement when the transition got stuck.
IsOutcome(i, o) ==
    /\ o \in Outcome
    /\ o.change.pre = Conf(i)
    /\ o.change.post = Conf(o.inst)
    /\ ~o.change.applied => Conf(o.inst) = Conf(i)

\* The event built by change records the instance before and after.
LEMMA Logged ==
    ASSUME NEW i, NEW n, NEW j, NEW b, NEW E, NEW o,
           o = [inst |-> j, change |-> change(n, i, j, b), exited |-> E]
    PROVE  o.inst = j /\ Logs(i, o, n, b)
  BY DEF Logs, change

\* The event of commitTransition records the instance before and after.
LEMMA TransitionLogs ==
    ASSUME NEW i \in Instance, NEW n \in Names, NEW o, IsTransition(i, n, o)
    PROVE  Logs(i, o, n, TRUE)
  <1>1. PICK j, E : o = [inst |-> j, change |-> change(n, i, j, TRUE), exited |-> E]
    BY DEF IsTransition
  <1>2. QED
    BY <1>1 DEF Logs, change

\* A stuck transition logs an event that is not applied, and moves nothing.
LEMMA StuckLogs ==
    ASSUME NEW i \in Instance, NEW n \in Names, NEW o, IsStuck(i, n, o)
    PROVE  Logs(i, o, n, FALSE) /\ Conf(o.inst) = Conf(i)
  <1>1. PICK u \in cm.Trans[n].targets :
          LET t == resolveTarget(cm, i, u, cm.Trans[n].mode)
              j == [recordExit(cm, i, t) EXCEPT !.stuck = TRUE]
          IN  o = [inst |-> j, change |-> change(n, i, j, FALSE),
                   exited |-> exitedStates(i, t)]
    BY DEF IsStuck
  <1> DEFINE t == resolveTarget(cm, i, u, cm.Trans[n].mode)
             j == [recordExit(cm, i, t) EXCEPT !.stuck = TRUE]
  <1>2. t \in States
    BY TargetType, TransAssumption
  <1>3. o = [inst |-> j, change |-> change(n, i, j, FALSE), exited |-> exitedStates(i, t)]
    BY <1>1
  <1> HIDE DEF t
  <1>4. Conf(j) = Conf(i)
    <2>1. recordExit(cm, i, t) \in Instance /\ Conf(recordExit(cm, i, t)) = Conf(i)
      BY <1>2, RecordExitType
    <2>2. QED
      BY <2>1 DEF Conf, Instance
  <1> HIDE DEF j
  <1>5. QED
    BY <1>3, <1>4, Logged

\* The event of commitParallelIntra records the move and its regions.
LEMMA IntraLogs ==
    ASSUME NEW i \in Instance, NEW n \in Names, NEW o, IsIntra(i, n, o)
    PROVE  Logs(i, o, n, TRUE) /\ o.change.moved # {}
  <1> DEFINE seq == sequenceMap(i, candidates(i, n))
  <1>1. PICK t \in cm.Trans[n].targets :
          LET j == [movedRegions(i, candidates(i, n), t) EXCEPT !.pclock = i.pclock + 1]
          IN  o = [inst |-> j, exited |-> {},
                   change |-> [change(n, i, j, TRUE) EXCEPT !.moved = candidates(i, n),
                                                            !.seq = seq]]
    BY DEF IsIntra
  <1> HIDE DEF seq
  <1> DEFINE j == [movedRegions(i, candidates(i, n), t) EXCEPT !.pclock = i.pclock + 1]
  <1>2. o = [inst |-> j, exited |-> {},
             change |-> [change(n, i, j, TRUE) EXCEPT !.moved = candidates(i, n),
                                                      !.seq = seq]]
    BY <1>1
  <1> HIDE DEF j
  <1>3. candidates(i, n) # {}
    BY DEF IsIntra
  <1>4. QED
    BY <1>2, <1>3 DEF Logs, change

\* The event of commitParallelExit records the instance before and after.
LEMMA ExitLogs ==
    ASSUME NEW i \in Instance, NEW n \in Names, NEW o, IsExit(i, n, o)
    PROVE  Logs(i, o, n, TRUE)
  <1>1. PICK j, E : o = [inst |-> j, change |-> change(n, i, j, TRUE), exited |-> E]
    BY DEF IsExit
  <1>2. QED
    BY <1>1 DEF Logs, change

\* The event of ForceState records the instance before and after.
LEMMA ForceLogs ==
    ASSUME NEW i \in Instance, NEW t \in States
    PROVE  Logs(i, forceState(i, t), ForceName, TRUE)
  <1> DEFINE j == [forced(cm, i, t) EXCEPT !.stuck = FALSE]
             o == forceState(i, t)
  <1>1. o = [inst |-> j, change |-> change(ForceName, i, j, TRUE), exited |-> {}]
    BY DEF forceState
  <1> HIDE DEF j, o
  <1>2. Logs(i, o, ForceName, TRUE)
    BY <1>1 DEF Logs, change
  <1>3. QED
    BY <1>2 DEF o

\* Whatever an operation makes of an instance is an outcome in this sense.
LEMMA OutcomesType ==
    ASSUME NEW i \in Instance, NEW o \in Outcomes(i)
    PROVE  IsOutcome(i, o)
  <1>1. ASSUME NEW n \in Names, o \in commitTransition(i, n) PROVE IsOutcome(i, o)
    <2>1. IsTransition(i, n, o)
      BY <1>1, TransitionOutcome
    <2>2. o \in Outcome
      BY <2>1, TransitionType
    <2>3. Logs(i, o, n, TRUE)
      BY <2>1, TransitionLogs
    <2>4. QED
      BY <2>2, <2>3 DEF Logs, IsOutcome
  <1>2. ASSUME NEW n \in Names, o \in commitStuck(i, n) PROVE IsOutcome(i, o)
    <2>1. IsStuck(i, n, o)
      BY <1>2, StuckOutcome
    <2>2. o \in Outcome
      BY <2>1, StuckType
    <2>3. Logs(i, o, n, FALSE) /\ Conf(o.inst) = Conf(i)
      BY <2>1, StuckLogs
    <2>4. QED
      BY <2>2, <2>3 DEF Logs, IsOutcome
  <1>3. ASSUME NEW n \in Names, o \in commitParallelIntra(i, n) PROVE IsOutcome(i, o)
    <2>1. IsIntra(i, n, o)
      BY <1>3, IntraOutcome
    <2>2. o \in Outcome
      BY <2>1, IntraType
    <2>3. Logs(i, o, n, TRUE)
      BY <2>1, IntraLogs
    <2>4. QED
      BY <2>2, <2>3 DEF Logs, IsOutcome
  <1>4. ASSUME NEW n \in Names, o \in commitParallelExit(i, n) PROVE IsOutcome(i, o)
    <2>1. IsExit(i, n, o)
      BY <1>4, ExitOutcome
    <2>2. o \in Outcome
      BY <2>1, ExitType
    <2>3. Logs(i, o, n, TRUE)
      BY <2>1, ExitLogs
    <2>4. QED
      BY <2>2, <2>3 DEF Logs, IsOutcome
  <1>5. ASSUME NEW t \in States, o = forceState(i, t) PROVE IsOutcome(i, o)
    BY <1>5, ForceType, ForceLogs DEF Logs, IsOutcome
  <1>6. \/ \E n \in Names : \/ o \in commitTransition(i, n)
                            \/ o \in commitStuck(i, n)
                            \/ o \in commitParallelIntra(i, n)
                            \/ o \in commitParallelExit(i, n)
        \/ \E t \in States : o = forceState(i, t)
    BY DEF Outcomes
  <1>7. QED
    BY <1>1, <1>2, <1>3, <1>4, <1>5, <1>6

----------------------------------------------------------------------------
(* What the operations do to the stuck mark, the clock and the regions *)

\* recordHistory leaves the stuck mark alone.
LEMMA RecordHistoryStuck ==
    ASSUME NEW i \in Instance, NEW paths
    PROVE  recordHistory(cm, i, paths).stuck = i.stuck
  BY DEF recordHistory, Instance

\* A transition keeps the mark and the clock, and moves no region.
LEMMA TransitionKeeps ==
    ASSUME NEW i \in Instance, NEW n \in Names, NEW o, IsTransition(i, n, o)
    PROVE  /\ o.inst.stuck = i.stuck /\ o.inst.pclock = i.pclock
           /\ o.inst.aip # EmptyMap => o.inst.cur \in cm.Parallel
           /\ i.cur \notin cm.Terminal
           /\ o.change.moved = {} /\ o.change.seq = NoSeq
  <1>1. PICK u \in cm.Trans[n].targets :
          LET t == resolveTarget(cm, i, u, cm.Trans[n].mode)
              j == transitioned(cm, i, t)
          IN  o = [inst |-> j, change |-> change(n, i, j, TRUE),
                   exited |-> exitedStates(i, t)]
    BY DEF IsTransition
  <1> DEFINE t == resolveTarget(cm, i, u, cm.Trans[n].mode)
             k == recordExit(cm, i, t)
             j == transitioned(cm, i, t)
  <1>2. t \in States
    BY TargetType, TransAssumption
  <1>3. o = [inst |-> j, change |-> change(n, i, j, TRUE), exited |-> exitedStates(i, t)]
    BY <1>1
  <1> HIDE DEF t
  <1>4. k \in Instance /\ k.pclock = i.pclock /\ k.stuck = i.stuck
    <2>1. k \in Instance /\ Conf(k) = Conf(i)
      BY <1>2, RecordExitType
    <2>2. k.stuck = i.stuck
      BY RecordHistoryStuck DEF recordExit
    <2> HIDE DEF k
    <2>3. QED
      BY <2>1, <2>2 DEF Conf
  <1>5. j = restIn(cm, k, t)
    BY DEF transitioned
  <1> HIDE DEF k, j
  <1>6. /\ j.stuck = i.stuck /\ j.pclock = i.pclock
        /\ j.aip # EmptyMap => j.cur \in cm.Parallel
    BY <1>4, <1>5 DEF restIn, Instance
  <1>7. o.inst = j /\ o.change.moved = {} /\ o.change.seq = NoSeq
    BY <1>3 DEF change
  <1>8. QED
    BY <1>6, <1>7 DEF IsTransition, validSource

\* A transition that gets stuck sets the mark and keeps the rest.
LEMMA StuckKeeps ==
    ASSUME NEW i \in Instance, NEW n \in Names, NEW o, IsStuck(i, n, o)
    PROVE  o.inst.stuck /\ o.change.moved = {} /\ o.change.seq = NoSeq
  <1>1. PICK k, E :
          /\ k \in Instance
          /\ LET j == [k EXCEPT !.stuck = TRUE]
             IN  o = [inst |-> j, change |-> change(n, i, j, FALSE), exited |-> E]
    <2>1. PICK u \in cm.Trans[n].targets :
          LET t == resolveTarget(cm, i, u, cm.Trans[n].mode)
              j == [recordExit(cm, i, t) EXCEPT !.stuck = TRUE]
          IN  o = [inst |-> j, change |-> change(n, i, j, FALSE),
                   exited |-> exitedStates(i, t)]
      BY DEF IsStuck
    <2> DEFINE t == resolveTarget(cm, i, u, cm.Trans[n].mode)
    <2>2. t \in States
      BY TargetType, TransAssumption
    <2>3. recordExit(cm, i, t) \in Instance
      BY <2>2, RecordExitType
    <2>4. QED
      BY <2>1, <2>3
  <1> DEFINE j == [k EXCEPT !.stuck = TRUE]
  <1>2. j.stuck = TRUE
    BY DEF Instance
  <1>3. o = [inst |-> j, change |-> change(n, i, j, FALSE), exited |-> E]
    BY <1>1
  <1> HIDE DEF j
  <1>4. QED
    BY <1>2, <1>3 DEF change

\* A parallel transition advances the clock, moves its candidate regions and
\* numbers the active ones; the current state stays.
LEMMA IntraMoves ==
    ASSUME NEW i \in Instance, NEW n \in Names, NEW o, IsIntra(i, n, o)
    PROVE  /\ o.inst.cur = i.cur /\ o.inst.stuck = i.stuck
           /\ o.inst.shallow = i.shallow /\ o.inst.deep = i.deep
           /\ o.inst.pclock = i.pclock + 1
           /\ DOMAIN o.inst.aip = DOMAIN i.aip
           /\ \E t \in cm.Trans[n].targets : \A r \in DOMAIN i.aip :
                 o.inst.aip[r] = IF r \in candidates(i, n) THEN t ELSE i.aip[r]
           /\ o.change.post = Conf(o.inst)
           /\ o.change.moved = candidates(i, n)
           /\ o.change.seq = sequenceMap(i, candidates(i, n))
  <1> DEFINE seq == sequenceMap(i, candidates(i, n))
             R == candidates(i, n)
  <1>1. PICK t \in cm.Trans[n].targets :
          LET j == [movedRegions(i, R, t) EXCEPT !.pclock = i.pclock + 1]
          IN  o = [inst |-> j, exited |-> {},
                   change |-> [change(n, i, j, TRUE) EXCEPT !.moved = R, !.seq = seq]]
    BY DEF IsIntra
  <1> DEFINE k == movedRegions(i, R, t)
             j == [k EXCEPT !.pclock = i.pclock + 1]
  <1> HIDE DEF seq, R
  <1>2. k \in Instance
    BY MovedType, TransAssumption
  <1>3. k = [i EXCEPT !.aip = [r \in DOMAIN i.aip |-> IF r \in R THEN t ELSE i.aip[r]]]
    BY DEF movedRegions
  <1>4. /\ k.cur = i.cur /\ k.stuck = i.stuck /\ k.shallow = i.shallow /\ k.deep = i.deep
        /\ k.aip = [r \in DOMAIN i.aip |-> IF r \in R THEN t ELSE i.aip[r]]
    BY <1>3 DEF Instance
  <1>5. o = [inst |-> j, exited |-> {},
             change |-> [change(n, i, j, TRUE) EXCEPT !.moved = R, !.seq = seq]]
    BY <1>1
  <1> HIDE DEF k
  <1>6. /\ j.cur = k.cur /\ j.stuck = k.stuck /\ j.shallow = k.shallow /\ j.deep = k.deep
        /\ j.pclock = i.pclock + 1 /\ j.aip = k.aip
    BY <1>2 DEF Instance
  <1> HIDE DEF j
  <1>7. /\ o.inst = j /\ o.change.moved = R /\ o.change.seq = seq
        /\ o.change.post = Conf(j)
    BY <1>5 DEF change
  <1>8. QED
    BY <1>4, <1>6, <1>7 DEF R, seq

\* Leaving a parallel state keeps the mark and the clock, and leaves no region.
LEMMA ExitKeeps ==
    ASSUME NEW i \in Instance, NEW n \in Names, NEW o, IsExit(i, n, o)
    PROVE  /\ o.inst.stuck = i.stuck /\ o.inst.pclock = i.pclock
           /\ o.inst.aip = EmptyMap /\ i.aip # EmptyMap
           /\ o.change.moved = {} /\ o.change.seq = NoSeq
  <1>1. PICK t \in cm.Trans[n].targets :
          LET j == leftParallel(cm, i, t)
          IN  o = [inst |-> j, change |-> change(n, i, j, TRUE), exited |-> {}]
    BY DEF IsExit
  <1> DEFINE path(r) == [leaf   |-> i.aip[r],
                         exited |-> ToSet(computeExitSequence(cm, i.aip[r], i.cur))]
             paths == {path(r) : r \in DOMAIN i.aip}
             k == recordHistory(cm, i, paths)
             j == leftParallel(cm, i, t)
  <1>2. j = [k EXCEPT !.cur = initialLeafOr(cm, t), !.aip = EmptyMap]
    BY DEF leftParallel
  <1> HIDE DEF paths
  <1>3. k = [i EXCEPT !.shallow = k.shallow, !.deep = k.deep]
    BY DEF recordHistory, Instance
  <1> HIDE DEF k
  <1>4. j.stuck = i.stuck /\ j.pclock = i.pclock /\ j.aip = EmptyMap
    BY <1>2, <1>3 DEF Instance
  <1>5. o = [inst |-> j, change |-> change(n, i, j, TRUE), exited |-> {}]
    BY <1>1
  <1> HIDE DEF j
  <1>6. QED
    BY <1>4, <1>5 DEF change, IsExit

\* ForceState takes the mark off, keeps the clock and moves no region.
LEMMA ForceKeeps ==
    ASSUME NEW i \in Instance, NEW t \in States, NEW o, o = forceState(i, t)
    PROVE  /\ o.inst.pclock = i.pclock
           /\ o.inst.aip # EmptyMap => o.inst.cur \in cm.Parallel
           /\ o.change.moved = {} /\ o.change.seq = NoSeq
  <1> DEFINE k == forced(cm, i, t)
             j == [k EXCEPT !.stuck = FALSE]
  <1>1. k \in Instance
    BY ForcedType
  <1>2. k.pclock = i.pclock /\ (k.aip # EmptyMap => k.cur \in cm.Parallel)
    BY DEF forced, restIn, Instance
  <1> HIDE DEF k
  <1>3. j.pclock = k.pclock /\ j.aip = k.aip /\ j.cur = k.cur
    BY <1>1 DEF Instance
  <1>4. o = [inst |-> j, change |-> change(ForceName, i, j, TRUE), exited |-> {}]
    BY DEF forceState, k
  <1> HIDE DEF j
  <1>5. QED
    BY <1>2, <1>3, <1>4 DEF change

----------------------------------------------------------------------------
(* Where an instance rests, and the paths it leaves by *)

\* An instance rests in a leaf or in a parallel state.
Rests == leaves(cm) \cup cm.Parallel

\* What every operation keeps: regions, histories and a place to rest.
Sound(i) == consistent(i) /\ remembers(i) /\ i.cur \in Rests

\* The initial leaf of a state is a leaf, unless the state is parallel.
LEMMA InitialLeafRests ==
    ASSUME NEW s \in States
    PROVE  /\ initialLeafOr(cm, s) \in Rests
           /\ initialLeafOr(cm, s) \in cm.Parallel => s \in cm.Parallel
  BY CompiledAssumption DEF WellCompiled, initialLeafOr, leaves, States, Rests

\* resolveTarget ends where an instance may rest: the deep history is a leaf.
LEMMA TargetRests ==
    ASSUME NEW i \in Instance, remembers(i), NEW t \in States, NEW mode
    PROVE  resolveTarget(cm, i, t, mode) \in Rests
  <1>1. i.shallow \in Maps /\ i.deep \in Maps
    BY DEF Instance
  <1>2. initialLeafOr(cm, t) \in Rests
    BY InitialLeafRests
  <1>3. t \in DOMAIN i.shallow => initialLeafOr(cm, i.shallow[t]) \in Rests
    BY <1>1, MapsApply, InitialLeafRests
  <1>4. t \in DOMAIN i.deep => i.deep[t] \in Rests
    BY DEF remembers, Rests
  <1>5. QED
    BY <1>2, <1>3, <1>4 DEF resolveTarget

\* An exit sequence climbs: it holds the state it starts from and ancestors.
LEMMA ExitSequenceWithin ==
    ASSUME NEW s \in States, NEW lca, NEW x \in ToSet(computeExitSequence(cm, s, lca))
    PROVE  within(cm, s, x)
  <1> DEFINE chain == cm.Ancestry[s]
             at == {k \in DOMAIN chain : chain[k] = lca}
             below == Below(cm, s, lca)
  <1>1. chain \in Seq(States)
    BY CompiledAssumption DEF WellCompiled, States
  <1>2. below \in Seq(States) /\ \A k \in DOMAIN below : below[k] \in ToSet(chain)
    <2>1. below = IF at = {} THEN chain ELSE SubSeq(chain, 1, Min(at) - 1)
      BY DEF Below
    <2>2. CASE at = {}
      BY <1>1, <2>1, <2>2 DEF ToSet
    <2>3. CASE at # {}
      <3>1. Min(at) \in DOMAIN chain
        <4>1. at \in SUBSET Nat
          BY <1>1
        <4>2. QED
          BY <2>3, <4>1, MinMember
      <3> HIDE DEF chain, at
      <3>2. Min(at) - 1 \in Int /\ Min(at) - 1 =< Len(chain)
            /\ \A k \in 1..(Min(at) - 1) : chain[k] \in States
        BY <1>1, <3>1
      <3>3. /\ SubSeq(chain, 1, Min(at) - 1) \in Seq(States)
            /\ \A k \in DOMAIN SubSeq(chain, 1, Min(at) - 1) :
                  k \in DOMAIN chain /\ SubSeq(chain, 1, Min(at) - 1)[k] = chain[k]
        BY <1>1, <3>1, <3>2, SubSeqProperties
      <3>4. QED
        BY <2>1, <2>3, <3>3 DEF ToSet
    <2>4. QED
      BY <2>2, <2>3
  <1> HIDE DEF below
  <1>3. computeExitSequence(cm, s, lca) = <<s>> \o below
    BY DEF computeExitSequence, below
  <1>4. PICK k \in DOMAIN (<<s>> \o below) : x = (<<s>> \o below)[k]
    BY <1>3 DEF ToSet
  <1>5. x = s \/ x \in ToSet(chain)
    <2>1. <<s>> \in Seq(States) /\ Len(<<s>>) = 1
      OBVIOUS
    <2>2. CASE k = 1
      BY <1>2, <1>4, <2>1, <2>2
    <2>3. CASE k # 1
      <3>1. k - 1 \in DOMAIN below /\ (<<s>> \o below)[k] = below[k - 1]
        BY <1>2, <1>4, <2>1, <2>3
      <3>2. QED
        BY <1>2, <1>4, <3>1
    <2>4. QED
      BY <2>2, <2>3
  <1>6. QED
    BY <1>5 DEF within

----------------------------------------------------------------------------
(* Histories *)

\* A path that leaves from a leaf, through the leaf and its ancestors.
Climbs(p) == IsPath(p) /\ p.leaf \in leaves(cm) /\ \A x \in p.exited : within(cm, p.leaf, x)

\* recordHistory keeps the histories in step when every path is such a path.
LEMMA RecordHistoryRemembers ==
    ASSUME NEW i \in Instance, remembers(i), NEW paths, \A p \in paths : Climbs(p)
    PROVE  remembers(recordHistory(cm, i, paths))
  <1> DEFINE left    == {s \in cm.Compound : exitsOf(cm, paths, s) # {}}
             exit(s) == CHOOSE x \in exitsOf(cm, paths, s) : TRUE
             sh == [s \in DOMAIN i.shallow \cup left |->
                       IF s \in left THEN exit(s).child ELSE i.shallow[s]]
             dp == [s \in DOMAIN i.deep \cup left |->
                       IF s \in left THEN exit(s).leaf ELSE i.deep[s]]
             k == recordHistory(cm, i, paths)
  <1>1. k.shallow = sh /\ k.deep = dp
    BY DEF recordHistory, Instance
  <1>2. \A s \in left : exit(s) \in exitsOf(cm, paths, s)
    BY PickMember
  <1>3. ASSUME NEW s \in left
        PROVE  /\ cm.Parent[exit(s).child] = s
               /\ exit(s).leaf \in leaves(cm)
               /\ within(cm, exit(s).leaf, exit(s).child)
    <2>1. /\ cm.Parent[exit(s).child] = s
          /\ \E p \in paths : exit(s).child \in p.exited /\ exit(s).leaf = p.leaf
      <3>1. exit(s) \in exitsOf(cm, paths, s) /\ \A p \in paths : IsPath(p)
        BY <1>2 DEF Climbs
      <3> HIDE DEF exit
      <3>2. QED
        BY <3>1, ExitsType
    <2>2. QED
      BY <2>1 DEF Climbs
  <1> HIDE DEF exit, left
  <1>4. DOMAIN sh = DOMAIN dp /\ DOMAIN sh = DOMAIN i.shallow \cup left
    BY DEF remembers
  <1>5. ASSUME NEW s \in DOMAIN sh
        PROVE  /\ cm.Parent[sh[s]] = s
               /\ dp[s] \in leaves(cm)
               /\ within(cm, dp[s], sh[s])
    <2>1. CASE s \in left
      BY <1>3, <2>1
    <2>2. CASE s \notin left
      BY <1>4, <1>5, <2>2 DEF remembers
    <2>3. QED
      BY <2>1, <2>2
  <1> HIDE DEF sh, dp, k
  <1>6. QED
    BY <1>1, <1>4, <1>5 DEF remembers, k

\* Histories are all that remembers looks at.
LEMMA SameHistories ==
    ASSUME NEW i, remembers(i), NEW j, j.shallow = i.shallow, j.deep = i.deep
    PROVE  remembers(j)
  BY DEF remembers

\* No history is consistent with itself.
LEMMA ForgetsAll ==
    ASSUME NEW j, j.shallow = EmptyMap, j.deep = EmptyMap
    PROVE  remembers(j)
  BY DEF remembers, EmptyMap

\* An instance without active regions that is in step rests in a leaf: a
\* parallel state has regions.
LEMMA NoRegionsLeaf ==
    ASSUME NEW i \in Instance, Sound(i), i.aip = EmptyMap
    PROVE  i.cur \in leaves(cm)
  <1>1. SUFFICES ASSUME i.cur \in cm.Parallel PROVE FALSE
    BY DEF Sound, Rests
  <1>2. ToSet(cm.RegionIndex[i.cur]) = {}
    BY <1>1 DEF Sound, consistent, EmptyMap
  <1>3. cm.RegionIndex[i.cur] \in Seq(cm.Compound \ cm.Parallel)
        /\ cm.RegionIndex[i.cur] # <<>>
    BY <1>1, CompiledAssumption DEF WellCompiled
  <1>4. 1 \in DOMAIN cm.RegionIndex[i.cur]
    BY <1>3
  <1>5. QED
    BY <1>2, <1>4 DEF ToSet

\* What commitTransition records when it leaves a leaf.
LEMMA RecordExitRemembers ==
    ASSUME NEW i \in Instance, Sound(i), i.aip = EmptyMap, NEW t \in States
    PROVE  remembers(recordExit(cm, i, t))
  <1> DEFINE p == [leaf |-> i.cur, exited |-> ToSet(exitSequence(cm, i, t))]
  <1>1. i.cur \in leaves(cm) /\ i.cur \in States
    BY NoRegionsLeaf DEF Instance
  <1>2. p.exited \subseteq States /\ \A x \in p.exited : within(cm, i.cur, x)
    BY <1>1, ExitSequenceType, ExitSequenceWithin DEF exitSequence
  <1>3. Climbs(p)
    BY <1>1, <1>2 DEF Climbs, IsPath
  <1>4. QED
    BY <1>3, RecordHistoryRemembers DEF recordExit, Sound

----------------------------------------------------------------------------
(* Configurations *)

\* A region starts in a leaf of its own.
LEMMA RegionStarts ==
    ASSUME NEW p \in cm.Parallel, NEW r \in ToSet(cm.RegionIndex[p])
    PROVE  initialLeafOr(cm, r) \in leaves(cm) /\ within(cm, initialLeafOr(cm, r), r)
  <1>1. cm.RegionIndex[p] \in Seq(cm.Compound \ cm.Parallel)
    BY CompiledAssumption DEF WellCompiled
  <1>2. r \in cm.Compound \ cm.Parallel
    BY <1>1 DEF ToSet
  <1>3. QED
    BY <1>2, CompiledAssumption DEF WellCompiled, initialLeafOr

\* Coming to rest brings ActiveInParallel in step with CurrentState.
LEMMA RestConsistent ==
    ASSUME NEW j, NEW s, j.cur = s,
           j.aip = IF s \in cm.Parallel THEN enterParallelRegions(cm, s) ELSE EmptyMap
    PROVE  consistent(j)
  <1>1. CASE s \in cm.Parallel
    <2>1. /\ DOMAIN j.aip = ToSet(cm.RegionIndex[s])
          /\ \A r \in DOMAIN j.aip : j.aip[r] = initialLeafOr(cm, r)
      BY <1>1 DEF enterParallelRegions
    <2>2. QED
      BY <1>1, <2>1, RegionStarts DEF consistent
  <1>2. CASE s \notin cm.Parallel
    BY <1>2 DEF consistent
  <1>3. QED
    BY <1>1, <1>2

\* createInstance starts in a leaf, with no region and no history.
LEMMA FreshSound == Sound(fresh)
  <1>1. cm.Initial \in leaves(cm) /\ initialLeafOr(cm, cm.Initial) = cm.Initial
    BY CompiledAssumption DEF WellCompiled, initialLeafOr, leaves
  <1>2. /\ fresh.cur = cm.Initial /\ fresh.aip = EmptyMap
        /\ fresh.shallow = EmptyMap /\ fresh.deep = EmptyMap
    BY <1>1 DEF fresh, created
  <1>3. cm.Initial \notin cm.Parallel
    BY <1>1, CompiledAssumption DEF WellCompiled, leaves
  <1>4. QED
    BY <1>1, <1>2, <1>3, ForgetsAll DEF Sound, Rests, consistent

\* commitTransition keeps regions and histories in step.
LEMMA TransitionSound ==
    ASSUME NEW i \in Instance, Sound(i), NEW n \in Names, NEW o, IsTransition(i, n, o)
    PROVE  Sound(o.inst)
  <1>1. PICK u \in cm.Trans[n].targets :
          LET t == resolveTarget(cm, i, u, cm.Trans[n].mode)
              j == transitioned(cm, i, t)
          IN  o = [inst |-> j, change |-> change(n, i, j, TRUE),
                   exited |-> exitedStates(i, t)]
    BY DEF IsTransition
  <1> DEFINE t == resolveTarget(cm, i, u, cm.Trans[n].mode)
             k == recordExit(cm, i, t)
             j == transitioned(cm, i, t)
  <1>2. t \in States /\ t \in Rests
    BY TargetType, TargetRests, TransAssumption DEF Sound
  <1>3. o.inst = j
    BY <1>1
  <1> HIDE DEF t
  <1>4. k \in Instance /\ remembers(k)
    BY <1>2, RecordExitType, RecordExitRemembers DEF IsTransition
  <1>5. j = restIn(cm, k, t)
    BY DEF transitioned
  <1> HIDE DEF j, k
  <1>6. /\ j.cur = t /\ j.shallow = k.shallow /\ j.deep = k.deep
        /\ j.aip = IF t \in cm.Parallel THEN enterParallelRegions(cm, t) ELSE EmptyMap
    BY <1>4, <1>5 DEF restIn, Instance
  <1>7. QED
    BY <1>2, <1>3, <1>4, <1>6, RestConsistent, SameHistories DEF Sound

\* So does a transition that gets stuck: the instance stays in its leaf, with
\* the histories of the exit that did happen.
LEMMA StuckSound ==
    ASSUME NEW i \in Instance, Sound(i), NEW n \in Names, NEW o, IsStuck(i, n, o)
    PROVE  Sound(o.inst)
  <1>1. PICK u \in cm.Trans[n].targets :
          LET t == resolveTarget(cm, i, u, cm.Trans[n].mode)
              j == [recordExit(cm, i, t) EXCEPT !.stuck = TRUE]
          IN  o = [inst |-> j, change |-> change(n, i, j, FALSE),
                   exited |-> exitedStates(i, t)]
    BY DEF IsStuck
  <1> DEFINE t == resolveTarget(cm, i, u, cm.Trans[n].mode)
             k == recordExit(cm, i, t)
             j == [k EXCEPT !.stuck = TRUE]
  <1>2. t \in States
    BY TargetType, TransAssumption
  <1>3. o.inst = j
    BY <1>1
  <1> HIDE DEF t
  <1>4. k \in Instance /\ Conf(k) = Conf(i) /\ remembers(k)
    BY <1>2, RecordExitType, RecordExitRemembers DEF IsStuck
  <1> HIDE DEF k
  <1>5. j.cur = i.cur /\ j.aip = i.aip /\ j.shallow = k.shallow /\ j.deep = k.deep
    BY <1>4 DEF Conf, Instance
  <1> HIDE DEF j
  <1>6. QED
    BY <1>3, <1>4, <1>5, SameHistories DEF Sound, consistent

\* A move inside a parallel state keeps every region in a leaf of its own, if
\* regions are closed.
LEMMA IntraSound ==
    ASSUME RegionsClosed,
           NEW i \in Instance, Sound(i), NEW n \in Names, NEW o, IsIntra(i, n, o)
    PROVE  Sound(o.inst)
  <1> DEFINE j == o.inst
  <1>1. /\ j.cur = i.cur /\ j.shallow = i.shallow /\ j.deep = i.deep
        /\ DOMAIN j.aip = DOMAIN i.aip
    BY IntraMoves
  <1>2. PICK t \in cm.Trans[n].targets : \A r \in DOMAIN i.aip :
          j.aip[r] = IF r \in candidates(i, n) THEN t ELSE i.aip[r]
    BY IntraMoves
  <1> HIDE DEF j
  <1>3. /\ i.cur \in cm.Parallel /\ i.cur \notin cm.Trans[n].sources
        /\ DOMAIN i.aip = ToSet(cm.RegionIndex[i.cur])
        /\ \A r \in DOMAIN i.aip : i.aip[r] \in leaves(cm) /\ within(cm, i.aip[r], r)
    BY DEF Sound, consistent, IsIntra
  <1>4. ASSUME NEW r \in DOMAIN i.aip
        PROVE  j.aip[r] \in leaves(cm) /\ within(cm, j.aip[r], r)
    <2>1. CASE r \in candidates(i, n)
      <3>1. ToSet(computeExitSequence(cm, i.aip[r], i.cur)) \cap cm.Trans[n].sources # {}
        BY <2>1 DEF candidates, collectParallelCandidates
      <3>2. t \in leaves(cm) /\ within(cm, t, r)
        BY <1>3, <3>1 DEF RegionsClosed
      <3>3. QED
        BY <1>2, <2>1, <3>2
    <2>2. CASE r \notin candidates(i, n)
      BY <1>2, <1>3, <2>2
    <2>3. QED
      BY <2>1, <2>2
  <1>5. consistent(j)
    BY <1>1, <1>3, <1>4 DEF consistent
  <1>6. QED
    BY <1>1, <1>5, SameHistories DEF Sound, j

\* Leaving a parallel state records a history for every region and rests in a
\* leaf, if the way out does not lead to a parallel state.
LEMMA ExitSound ==
    ASSUME ExitsRest,
           NEW i \in Instance, Sound(i), NEW n \in Names, NEW o, IsExit(i, n, o)
    PROVE  Sound(o.inst)
  <1>1. PICK t \in cm.Trans[n].targets :
          LET j == leftParallel(cm, i, t)
          IN  o = [inst |-> j, change |-> change(n, i, j, TRUE), exited |-> {}]
    BY DEF IsExit
  <1> DEFINE path(r) == [leaf   |-> i.aip[r],
                         exited |-> ToSet(computeExitSequence(cm, i.aip[r], i.cur))]
             paths == {path(r) : r \in DOMAIN i.aip}
             k == recordHistory(cm, i, paths)
             j == leftParallel(cm, i, t)
  <1>2. o.inst = j
    BY <1>1
  <1>3. j = [k EXCEPT !.cur = initialLeafOr(cm, t), !.aip = EmptyMap]
    BY DEF leftParallel
  <1>4. i.cur \in cm.Parallel /\ i.cur \in cm.Trans[n].sources
        /\ \A r \in DOMAIN i.aip : i.aip[r] \in leaves(cm)
    BY DEF Sound, consistent, IsExit
  <1>5. ASSUME NEW r \in DOMAIN i.aip PROVE Climbs(path(r))
    <2>1. i.aip[r] \in leaves(cm) /\ i.aip[r] \in States
      BY <1>4 DEF leaves, States
    <2>2. ToSet(computeExitSequence(cm, i.aip[r], i.cur)) \subseteq States
      BY <2>1, ExitSequenceType
    <2>3. \A x \in ToSet(computeExitSequence(cm, i.aip[r], i.cur)) : within(cm, i.aip[r], x)
      BY <2>1, ExitSequenceWithin
    <2>4. QED
      BY <2>1, <2>2, <2>3 DEF Climbs, IsPath
  <1>6. k \in Instance /\ remembers(k)
    <2> HIDE DEF path
    <2>1. \A p \in paths : Climbs(p)
      BY <1>5
    <2>2. QED
      BY <2>1, RecordHistoryType, RecordHistoryRemembers DEF Sound, Climbs
  <1> HIDE DEF paths, k, j
  <1>7. /\ j.cur = initialLeafOr(cm, t) /\ j.aip = EmptyMap
        /\ j.shallow = k.shallow /\ j.deep = k.deep
    BY <1>3, <1>6 DEF Instance
  <1>8. t \in States /\ t \notin cm.Parallel
    BY <1>4, TransAssumption DEF ExitsRest
  <1>9. initialLeafOr(cm, t) \in Rests /\ initialLeafOr(cm, t) \notin cm.Parallel
    BY <1>8, InitialLeafRests
  <1>10. consistent(j)
    BY <1>7, <1>9 DEF consistent
  <1>11. QED
    BY <1>2, <1>6, <1>7, <1>9, <1>10, SameHistories DEF Sound

\* ForceState comes to rest with no history.
LEMMA ForceSound ==
    ASSUME NEW i \in Instance, NEW u \in States
    PROVE  Sound(forceState(i, u).inst)
  <1> DEFINE t == initialLeafOr(cm, u)
             k == forced(cm, i, u)
             j == [k EXCEPT !.stuck = FALSE]
  <1>1. forceState(i, u).inst = j
    BY DEF forceState
  <1>2. t \in Rests
    BY InitialLeafRests
  <1>3. k \in Instance
    BY ForcedType
  <1>4. /\ k.cur = t /\ k.shallow = EmptyMap /\ k.deep = EmptyMap
        /\ k.aip = IF t \in cm.Parallel THEN enterParallelRegions(cm, t) ELSE EmptyMap
    BY DEF forced, restIn, Instance
  <1> HIDE DEF t, k
  <1>5. j.cur = k.cur /\ j.aip = k.aip /\ j.shallow = k.shallow /\ j.deep = k.deep
    BY <1>3 DEF Instance
  <1> HIDE DEF j
  <1>6. QED
    BY <1>1, <1>2, <1>4, <1>5, RestConsistent, ForgetsAll DEF Sound

----------------------------------------------------------------------------
(* Type correctness *)

StoresOK ==
    /\ row \in Row \cup {NoRow}
    /\ log \in Seq(Event)
    /\ tasks \in Seq(Task)
    /\ bus \in Seq(Nat)
    /\ clock \in Nat
    /\ calls \in Nat

\* A caller that works on an instance has read it, and one that is about to
\* write, or has written, knows what.
Control ==
    \A c \in Callers :
        /\ pc[c] \in {"match", "loaded", "mark", "invalidate", "append", "update"}
              => base[c] \in Row
        /\ pc[c] \in {"mark", "invalidate", "append", "update", "emit", "task"}
              => out[c] \in Outcome
        /\ pc[c] = "task" => out[c].change.name \in Names

LocalsOK ==
    /\ pc \in [Callers -> Steps]
    /\ op \in [Callers -> Call]
    /\ base \in [Callers -> Row \cup {NoRow}]
    /\ out \in [Callers -> Outcome \cup {NoOutcome}]
    /\ stamp \in [Callers -> Nat]
    /\ Control

TypeInv == StoresOK /\ LocalsOK

\* The inductive type invariant implies the one that is checked.
LEMMA TypeInvType == TypeInv => TypeOK
  BY DEF TypeInv, StoresOK, LocalsOK, TypeOK

\* An idle caller's call is well typed.
LEMMA NoCallType == NoCall \in Call
  BY DEF NoCall, Call, Words

\* A call that returns leaves the callers' state well typed.
LEMMA ReturnType ==
    ASSUME LocalsOK, NEW c \in Callers, return(c)
    PROVE  LocalsOK'
  BY NoCallType DEF LocalsOK, Control, return, goto, Steps

\* So does one that only moves on, to a step before the instance is read or to
\* one that needs no more than the step it leaves.
LEMMA GotoType ==
    ASSUME LocalsOK, NEW c \in Callers, NEW step \in Steps,
           goto(c, step), UNCHANGED <<op, locals>>,
           \/ step \in {"load", "create", "complete"}
           \/ pc[c] = "invalidate" /\ step = "append"
           \/ pc[c] = "append" /\ step = "update"
           \/ pc[c] = "update" /\ step = "emit"
           \/ pc[c] = "emit" /\ step = "task" /\ out[c].change.name \in Names
    PROVE  LocalsOK'
  BY DEF LocalsOK, Control, goto, locals, Steps

\* The value of the clock that a caller reads.
LEMMA NowType == ASSUME StoresOK, NEW now \in Now PROVE now \in Nat
  BY DEF StoresOK, Now

\* Planning a write stores an outcome and a time.
LEMMA PlanType ==
    ASSUME TypeInv, NEW c \in Callers, pc[c] = "loaded",
           NEW outcomes, \A o \in outcomes : o \in Outcome,
           NEW step \in {"mark", "invalidate", "append", "update"},
           plan(c, outcomes, step)
    PROVE  TypeInv'
  <1>1. PICK o \in outcomes, now \in Now :
          /\ clock' = now
          /\ stamp' = [stamp EXCEPT ![c] = now]
          /\ out' = [out EXCEPT ![c] = o]
    BY DEF plan
  <1>2. now \in Nat /\ o \in Outcome
    BY <1>1, NowType DEF TypeInv
  <1>3. PICK next \in {"mark", "invalidate", "append", "update"} :
          pc' = [pc EXCEPT ![c] = next]
    BY DEF plan, goto
  <1>4. UNCHANGED <<row, log, tasks, bus, calls, op, base>>
    BY DEF plan, stores
  <1>5. StoresOK'
    BY <1>1, <1>2, <1>4 DEF TypeInv, StoresOK
  <1>6. LocalsOK'
    BY <1>1, <1>2, <1>3, <1>4 DEF TypeInv, LocalsOK, Control, Steps
  <1>7. QED
    BY <1>5, <1>6 DEF TypeInv

\* What the transitions of a call can be is within the types.
LEMMA BaseInstance ==
    ASSUME TypeInv, NEW c \in Callers,
           pc[c] \in {"match", "loaded", "mark", "invalidate", "append", "update"}
    PROVE  base[c] \in Row /\ base[c].inst \in Instance /\ base[c].upd \in Nat
  BY DEF TypeInv, LocalsOK, Control, Row

\* What a caller is about to write is well typed.
LEMMA WrittenType ==
    ASSUME TypeInv, NEW c \in Callers,
           pc[c] \in {"mark", "invalidate", "append", "update", "emit", "task"}
    PROVE  /\ out[c] \in Outcome /\ written(c) \in Row /\ eventOf(c) \in Event
           /\ out[c].inst \in Instance /\ out[c].change \in Change
  <1>1. out[c] \in Outcome /\ stamp[c] \in Nat /\ op[c] \in Call
    BY DEF TypeInv, LocalsOK, Control
  <1>2. out[c].inst \in Instance /\ out[c].change \in Change
    BY <1>1 DEF Outcome
  <1>3. QED
    BY <1>1, <1>2 DEF written, eventOf, Row, Event, Call

\* InvalidateByStates leaves well-typed tasks.
LEMMA InvalidateType ==
    ASSUME TypeInv, NEW S PROVE invalidateByStates(S) \in Seq(Task)
  <1>1. tasks \in Seq(Task)
    BY DEF TypeInv, StoresOK
  <1>2. DOMAIN tasks = 1..Len(tasks) /\ Len(tasks) \in Nat
    BY <1>1
  <1>3. ASSUME NEW t \in DOMAIN tasks
        PROVE  invalidateByStates(S)[t] \in Task
    <2>1. tasks[t] \in Task
      BY <1>1, <1>3
    <2>2. QED
      BY <2>1 DEF invalidateByStates, Task
  <1>4. invalidateByStates(S) \in [1..Len(tasks) -> Task]
    BY <1>2, <1>3 DEF invalidateByStates
  <1>5. QED
    BY <1>2, <1>4, SeqDef

\* The type invariant holds initially.
LEMMA InitType == Init => TypeInv
  <1> SUFFICES ASSUME Init PROVE TypeInv
    OBVIOUS
  <1>1. StoresOK
    BY DEF Init, StoresOK
  <1>2. LocalsOK
    BY NoCallType DEF Init, LocalsOK, Control, Steps
  <1>3. QED
    BY <1>1, <1>2 DEF TypeInv

\* Every action of a caller keeps the types.
LEMMA StepType ==
    ASSUME TypeInv, NEW c \in Callers, Step(c)
    PROVE  TypeInv'
  <1> USE DEF TypeInv
  <1>1. ASSUME NEW r \in Requests, Begin(c, r) PROVE TypeInv'
    <2>1. r.kind \in {"transition", "signal", "task", "force"} /\ r.arg \in Words
          /\ r.task \in Nat
      BY RequestsAssumption
    <2>2. calls \in Nat /\ NoState \in Words
      BY DEF StoresOK, Words
    <2>3. op' \in [Callers -> Call]
      BY <1>1, <2>1, <2>2 DEF Begin, LocalsOK, Call
    <2>4. LocalsOK'
      BY <1>1, <2>3 DEF Begin, LocalsOK, Control, goto, locals, Steps
    <2>5. QED
      BY <1>1, <2>4 DEF Begin, StoresOK, stores
  <1>2. CASE Load(c)
    BY <1>2 DEF Load, StoresOK, LocalsOK, Control, goto, afterLoad, stores, Steps
  <1>3. CASE LoadMissing(c)
    <2>1. StoresOK'
      BY <1>3 DEF LoadMissing, StoresOK, stores
    <2>2. LocalsOK'
      BY <1>3, ReturnType, GotoType DEF LoadMissing, Steps
    <2>3. QED
      BY <2>1, <2>2
  <1>4. CASE Create(c)
    <2>1. PICK now \in Now : /\ clock' = now
                             /\ row' = [inst |-> fresh, upd |-> now]
                             /\ base' = [base EXCEPT ![c] = [inst |-> fresh, upd |-> now]]
      BY <1>4 DEF Create
    <2>2. now \in Nat /\ [inst |-> fresh, upd |-> now] \in Row
      BY NowType, FreshType DEF Row
    <2>3. QED
      BY <1>4, <2>1, <2>2
      DEF Create, StoresOK, LocalsOK, Control, goto, afterLoad, Steps
  <1>5. CASE CreateDuplicate(c)
    BY <1>5, ReturnType DEF CreateDuplicate, StoresOK, stores
  <1>6. CASE Match(c)
    <2>1. StoresOK'
      BY <1>6 DEF Match, StoresOK, stores
    <2>2. CASE chosen(op[c], base[c].inst) = {}
      BY <1>6, <2>1, <2>2, ReturnType DEF Match
    <2>3. CASE chosen(op[c], base[c].inst) # {}
      <3>1. PICK n \in chosen(op[c], base[c].inst) :
              op' = [op EXCEPT ![c].arg = n, ![c].kind = "transition"]
        BY <1>6, <2>3 DEF Match
      <3>2. n \in Words
        BY <3>1 DEF chosen, triggered, Words
      <3>3. op' \in [Callers -> Call]
        <4> DEFINE o == [op[c] EXCEPT !.arg = n, !.kind = "transition"]
        <4>1. op \in [Callers -> Call] /\ op[c] \in Call
          BY DEF LocalsOK
        <4>2. o \in Call
          BY <3>2, <4>1 DEF Call
        <4>3. op' = [op EXCEPT ![c] = o]
          BY <3>1, <4>1
        <4> HIDE DEF o
        <4>4. QED
          BY <4>1, <4>2, <4>3
      <3>4. LocalsOK'
        <4>1. /\ base' = [base EXCEPT ![c] = NoRow] /\ UNCHANGED <<out, stamp>>
              /\ \E to \in {"complete", "load"} : pc' = [pc EXCEPT ![c] = to]
          BY <1>6, <2>3 DEF Match, goto
        <4>2. /\ pc' \in [Callers -> Steps] /\ base' \in [Callers -> Row \cup {NoRow}]
              /\ UNCHANGED <<out, stamp>>
          BY <4>1 DEF LocalsOK, Steps
        <4>3. Control'
          BY <4>1 DEF LocalsOK, Control
        <4>4. QED
          BY <3>3, <4>2, <4>3 DEF LocalsOK
      <3>5. QED
        BY <2>1, <3>4
    <2>4. QED
      BY <2>2, <2>3
  <1>7. CASE CompleteInStore(c)
    <2> DEFINE done == [tasks EXCEPT ![op[c].task].status = "completed"]
    <2>1. tasks' \in Seq(Task)
      <3>1. tasks \in Seq(Task)
        BY DEF StoresOK
      <3>2. DOMAIN tasks = 1..Len(tasks) /\ Len(tasks) \in Nat
        BY <3>1
      <3>3. ASSUME NEW t \in DOMAIN tasks PROVE done[t] \in Task
        <4>1. tasks[t] \in Task
          BY <3>1, <3>3
        <4>2. QED
          BY <4>1 DEF Task
      <3>4. done \in [1..Len(tasks) -> Task]
        <4>1. DOMAIN done = 1..Len(tasks) /\ done = [t \in DOMAIN done |-> done[t]]
          BY <3>2
        <4> HIDE DEF done
        <4>2. QED
          BY <3>2, <3>3, <4>1
      <3>5. done \in Seq(Task)
        <4> HIDE DEF done
        <4>1. QED
          BY <3>2, <3>4, SeqDef
      <3>6. QED
        BY <1>7, <3>1, <3>5 DEF CompleteInStore
    <2>2. LocalsOK'
      BY <1>7, ReturnType, GotoType DEF CompleteInStore, Steps
    <2>3. QED
      BY <1>7, <2>1, <2>2 DEF CompleteInStore, StoresOK
  <1>8. CASE Reject(c)
    BY <1>8, ReturnType DEF Reject, StoresOK, stores
  <1>9. CASE CommitTransition(c)
    <2>1. op[c].arg \in Names /\ pc[c] = "loaded"
      BY <1>9 DEF CommitTransition, executing, known
    <2>2. \A o \in commitTransition(base[c].inst, op[c].arg) : o \in Outcome
      BY <2>1, BaseInstance, TransitionOutcome, TransitionType
    <2>3. QED
      BY <1>9, <2>1, <2>2, PlanType DEF CommitTransition
  <1>10. CASE CommitStuck(c)
    <2>1. op[c].arg \in Names /\ pc[c] = "loaded"
      BY <1>10 DEF CommitStuck, executing, known
    <2>2. \A o \in commitStuck(base[c].inst, op[c].arg) : o \in Outcome
      BY <2>1, BaseInstance, StuckOutcome, StuckType
    <2>3. QED
      BY <1>10, <2>1, <2>2, PlanType DEF CommitStuck
  <1>11. CASE CommitParallelIntra(c)
    <2>1. op[c].arg \in Names /\ pc[c] = "loaded"
      BY <1>11 DEF CommitParallelIntra, executing, known
    <2>2. \A o \in commitParallelIntra(base[c].inst, op[c].arg) : o \in Outcome
      BY <2>1, BaseInstance, IntraOutcome, IntraType
    <2>3. QED
      BY <1>11, <2>1, <2>2, PlanType DEF CommitParallelIntra
  <1>12. CASE CommitParallelExit(c)
    <2>1. op[c].arg \in Names /\ pc[c] = "loaded"
      BY <1>12 DEF CommitParallelExit, executing, known
    <2>2. \A o \in commitParallelExit(base[c].inst, op[c].arg) : o \in Outcome
      BY <2>1, BaseInstance, ExitOutcome, ExitType
    <2>3. QED
      BY <1>12, <2>1, <2>2, PlanType DEF CommitParallelExit
  <1>13. CASE ForceState(c)
    <2>1. op[c].arg \in States /\ pc[c] = "loaded"
      BY <1>13 DEF ForceState, known
    <2>2. forceState(base[c].inst, op[c].arg) \in Outcome
      BY <2>1, BaseInstance, ForceType
    <2>3. QED
      BY <1>13, <2>1, <2>2, PlanType DEF ForceState
  <1>14. CASE Invalidate(c)
    <2>1. tasks' \in Seq(Task)
      BY <1>14, InvalidateType DEF Invalidate, StoresOK
    <2>2. LocalsOK'
      BY <1>14, GotoType DEF Invalidate, Steps
    <2>3. QED
      BY <1>14, <2>1, <2>2 DEF Invalidate, StoresOK
  <1>15. CASE AppendEvent(c)
    <2>1. log' \in Seq(Event)
      BY <1>15, WrittenType DEF AppendEvent, StoresOK
    <2>2. LocalsOK'
      BY <1>15, GotoType DEF AppendEvent, Steps
    <2>3. QED
      BY <1>15, <2>1, <2>2 DEF AppendEvent, StoresOK
  <1>16. CASE Update(c)
    <2>1. log' \in Seq(Event) /\ row' \in Row
      BY <1>16, WrittenType DEF Update, StoresOK
    <2>2. tasks' \in Seq(Task)
      BY <1>16, InvalidateType DEF Update, StoresOK
    <2>3. LocalsOK'
      BY <1>16, GotoType, ReturnType DEF Update, Steps
    <2>4. QED
      BY <1>16, <2>1, <2>2, <2>3 DEF Update, StoresOK
  <1>17. CASE Conflict(c)
    BY <1>17, ReturnType DEF Conflict, StoresOK, stores
  <1>18. CASE MarkStuck(c)
    <2>1. row' \in Row \cup {NoRow}
      BY <1>18, WrittenType DEF MarkStuck, StoresOK
    <2>2. QED
      BY <1>18, <2>1, ReturnType DEF MarkStuck, StoresOK
  <1>19. CASE Abort(c)
    BY <1>19, ReturnType DEF Abort, StoresOK, stores
  <1>20. CASE Emit(c)
    <2>1. bus' \in Seq(Nat)
      <3>1. bus \in Seq(Nat) /\ op[c].id \in Nat
        BY DEF StoresOK, LocalsOK, Call
      <3>2. QED
        BY <1>20, <3>1 DEF Emit
    <2>2. out[c].change.name \in Names \cup {ForceName}
      BY <1>20, WrittenType DEF Emit, Change
    <2>3. LocalsOK'
      BY <1>20, <2>2, GotoType, ReturnType DEF Emit, emitsTask, Steps
    <2>4. QED
      BY <1>20, <2>1, <2>3 DEF Emit, StoresOK
  <1>21. CASE CreateTask(c)
    <2>1. out[c].change.name \in Names /\ out[c].inst.cur \in States
      BY <1>21, WrittenType DEF CreateTask, LocalsOK, Control, Instance
    <2>2. tasks' \in Seq(Task)
      <3> DEFINE t == [state  |-> out[c].inst.cur,
                       type   |-> cm.Trans[out[c].change.name].emits,
                       status |-> "pending"]
      <3>1. t \in Task
        BY <2>1 DEF Task
      <3>2. tasks \in Seq(Task)
        BY DEF StoresOK
      <3>3. tasks' \in {tasks, Append(tasks, t)}
        BY <1>21 DEF CreateTask
      <3> HIDE DEF t
      <3>4. QED
        BY <3>1, <3>2, <3>3
    <2>3. QED
      BY <1>21, <2>2, ReturnType DEF CreateTask, StoresOK
  <1>22. QED
    BY <1>1, <1>2, <1>3, <1>4, <1>5, <1>6, <1>7, <1>8, <1>9, <1>10, <1>11, <1>12,
       <1>13, <1>14, <1>15, <1>16, <1>17, <1>18, <1>19, <1>20, <1>21 DEF Step

\* Every step preserves the type invariant.
LEMMA NextType == TypeInv /\ [Next]_vars => TypeInv'
  <1> SUFFICES ASSUME TypeInv, [Next]_vars PROVE TypeInv'
    OBVIOUS
  <1>1. CASE UNCHANGED vars
    BY <1>1 DEF vars, TypeInv, StoresOK, LocalsOK, Control
  <1>2. CASE Next
    BY <1>1, <1>2, StepType DEF Next, Quiet
  <1>3. QED
    BY <1>1, <1>2

\* Every variable of the engine keeps its type, whatever the callers do: what
\* a caller reads from the stores, computes and writes back is always a
\* well-formed instance, event or task.
THEOREM TypeCorrect == Spec => []TypeOK
  <1>1. Spec => []TypeInv
    BY InitType, NextType, PTL DEF Spec
  <1>2. QED
    BY <1>1, TypeInvType, PTL

----------------------------------------------------------------------------
(* The optimistic lock *)

Pending(c) == pc[c] \in {"mark", "invalidate", "append", "update"}

\* UpdatedAt is a version number.  Nothing carries a time the clock has not
\* reached; a caller whose copy has the time of the row has a copy of the row;
\* and a time that is still to be written occurs nowhere else.
Tokens ==
    /\ row # NoRow => row.upd <= clock
    /\ \A c \in Callers : base[c] # NoRow =>
          /\ base[c].upd <= clock
          /\ row # NoRow /\ row.upd = base[c].upd => row = base[c]
    /\ \A c \in Callers : Pending(c) =>
          /\ stamp[c] <= clock
          /\ row # NoRow => row.upd # stamp[c]
          /\ \A d \in Callers : base[d] # NoRow => base[d].upd # stamp[c]
          /\ \A d \in Callers : Pending(d) /\ stamp[d] = stamp[c] => d = c

\* A step that touches neither the row nor the clock, reads nothing and plans
\* nothing.
Passive ==
    /\ UNCHANGED <<row, clock>>
    /\ \A d \in Callers : base'[d] = base[d] \/ base'[d] = NoRow
    /\ \A d \in Callers : Pending(d)' => Pending(d) /\ stamp'[d] = stamp[d]

\* A step that reads no clock and writes no row preserves Tokens.
LEMMA PassiveTokens == TypeInv /\ Tokens /\ Passive => Tokens'
  BY DEF Tokens, Passive

\* Returning is such a step.
LEMMA ReturnPassive ==
    ASSUME TypeInv, NEW c \in Callers, return(c), UNCHANGED <<row, clock>>
    PROVE  Passive
  BY DEF TypeInv, LocalsOK, return, goto, Passive, Pending

\* So is going on without a change of row, clock or locals.
LEMMA GotoPassive ==
    ASSUME TypeInv, NEW c \in Callers, NEW step, goto(c, step),
           UNCHANGED <<row, clock, locals>>,
           Pending(c) \/ step \notin {"mark", "invalidate", "append", "update"}
    PROVE  Passive
  BY DEF TypeInv, LocalsOK, goto, locals, Passive, Pending

\* The actions that neither read nor write the row.
LEMMA PassiveSteps ==
    ASSUME TypeInv, NEW c \in Callers,
           \/ \E r \in Requests : Begin(c, r)
           \/ LoadMissing(c) \/ CreateDuplicate(c) \/ Match(c) \/ CompleteInStore(c)
           \/ Reject(c) \/ Invalidate(c) \/ AppendEvent(c) \/ Conflict(c) \/ Abort(c)
           \/ Emit(c) \/ CreateTask(c)
    PROVE  Passive
  <1>1. CASE \E r \in Requests : Begin(c, r)
    BY <1>1, GotoPassive DEF Begin, stores
  <1>2. CASE LoadMissing(c)
    BY <1>2, GotoPassive, ReturnPassive DEF LoadMissing, stores
  <1>3. CASE CreateDuplicate(c) \/ Reject(c) \/ Conflict(c) \/ Abort(c)
    BY <1>3, ReturnPassive DEF CreateDuplicate, Reject, Conflict, Abort, stores
  <1>4. CASE Match(c)
    <2>1. CASE chosen(op[c], base[c].inst) = {}
      BY <1>4, <2>1, ReturnPassive DEF Match, stores
    <2>2. CASE chosen(op[c], base[c].inst) # {}
      BY <1>4, <2>2 DEF Match, stores, TypeInv, LocalsOK, goto, Passive, Pending
    <2>3. QED
      BY <2>1, <2>2
  <1>5. CASE CompleteInStore(c)
    BY <1>5, GotoPassive, ReturnPassive DEF CompleteInStore
  <1>6. CASE Invalidate(c) \/ AppendEvent(c)
    BY <1>6, GotoPassive DEF Invalidate, AppendEvent, Pending
  <1>7. CASE Emit(c)
    BY <1>7, GotoPassive, ReturnPassive DEF Emit
  <1>8. CASE CreateTask(c)
    BY <1>8, ReturnPassive DEF CreateTask
  <1>9. QED
    BY <1>1, <1>2, <1>3, <1>4, <1>5, <1>6, <1>7, <1>8

\* Planning a write takes a time that nothing carries yet.
LEMMA PlanTokens ==
    ASSUME StrictClock, TypeInv, Tokens, NEW c \in Callers, NEW outcomes, NEW step,
           plan(c, outcomes, step)
    PROVE  Tokens'
  <1>1. clock' = clock + 1 /\ stamp' = [stamp EXCEPT ![c] = clock + 1]
    BY DEF plan, Now
  <1>2. UNCHANGED <<row, base>> /\ \E next : pc' = [pc EXCEPT ![c] = next]
    BY DEF plan, stores, goto
  <1>3. \A d \in Callers : d # c => (Pending(d)' => Pending(d)) /\ stamp'[d] = stamp[d]
    BY <1>1, <1>2 DEF TypeInv, LocalsOK, Pending
  <1>4. stamp'[c] = clock + 1 /\ clock \in Nat /\ row \in Row \cup {NoRow}
        /\ base \in [Callers -> Row \cup {NoRow}] /\ stamp \in [Callers -> Nat]
    BY <1>1 DEF TypeInv, StoresOK, LocalsOK
  <1>5. QED
    BY <1>1, <1>2, <1>3, <1>4 DEF Tokens, Row

\* Writing gives the row the time that was planned for it.
LEMMA WriteTokens ==
    ASSUME TypeInv, Tokens, NEW c \in Callers, Pending(c), row' = written(c),
           UNCHANGED clock,
           \A d \in Callers : base'[d] = base[d] \/ base'[d] = NoRow,
           \A d \in Callers : Pending(d)' => d # c /\ Pending(d) /\ stamp'[d] = stamp[d]
    PROVE  Tokens'
  <1>1. row'.upd = stamp[c]
    BY DEF written
  <1>2. QED
    BY <1>1 DEF Tokens

\* Every step of a caller preserves Tokens, if clock readings differ.
LEMMA StepTokens ==
    ASSUME StrictClock, TypeInv, Tokens, NEW c \in Callers, Step(c)
    PROVE  Tokens'
  <1>1. CASE Load(c)
    <2>1. UNCHANGED <<row, clock, stamp>> /\ base' = [base EXCEPT ![c] = row]
      BY <1>1 DEF Load, stores
    <2>2. \A d \in Callers : Pending(d)' => Pending(d)
      BY <1>1 DEF Load, goto, afterLoad, Pending, TypeInv, LocalsOK
    <2>3. QED
      BY <2>1, <2>2 DEF Tokens, TypeInv, LocalsOK
  <1>2. CASE Create(c)
    <2> DEFINE new == [inst |-> fresh, upd |-> clock + 1]
    <2>1. clock' = clock + 1 /\ row' = new /\ base' = [base EXCEPT ![c] = new]
          /\ UNCHANGED stamp
      BY <1>2 DEF Create, Now
    <2>2. \A d \in Callers : Pending(d)' => Pending(d)
      BY <1>2 DEF Create, goto, afterLoad, Pending, TypeInv, LocalsOK
    <2>3. new.upd = clock + 1 /\ clock \in Nat /\ stamp \in [Callers -> Nat]
          /\ base \in [Callers -> Row \cup {NoRow}]
      BY DEF TypeInv, StoresOK, LocalsOK
    <2> HIDE DEF new
    <2>4. \A d \in Callers : base[d] # NoRow => base[d].upd \in Nat
      BY <2>3 DEF Row
    <2>5. QED
      BY <2>1, <2>2, <2>3, <2>4 DEF Tokens
  <1>3. CASE CommitTransition(c) \/ CommitStuck(c) \/ CommitParallelIntra(c)
             \/ CommitParallelExit(c) \/ ForceState(c)
    BY <1>3, PlanTokens DEF CommitTransition, CommitStuck, CommitParallelIntra,
       CommitParallelExit, ForceState
  <1>4. CASE Update(c)
    <2>1. Pending(c) /\ row' = written(c) /\ UNCHANGED clock
      BY <1>4 DEF Update, Pending
    <2>2. \A d \in Callers : base'[d] = base[d] \/ base'[d] = NoRow
      BY <1>4 DEF Update, return, locals, TypeInv, LocalsOK
    <2>3. \A d \in Callers : Pending(d)' => d # c /\ Pending(d) /\ stamp'[d] = stamp[d]
      BY <1>4 DEF Update, return, goto, locals, Pending, TypeInv, LocalsOK
    <2>4. QED
      BY <2>1, <2>2, <2>3, WriteTokens
  <1>5. CASE MarkStuck(c)
    <2>1. Pending(c) /\ UNCHANGED clock /\ row' \in {written(c), row}
      BY <1>5 DEF MarkStuck, Pending
    <2>2. \A d \in Callers : base'[d] = base[d] \/ base'[d] = NoRow
      BY <1>5 DEF MarkStuck, return, TypeInv, LocalsOK
    <2>3. \A d \in Callers : Pending(d)' => d # c /\ Pending(d) /\ stamp'[d] = stamp[d]
      BY <1>5 DEF MarkStuck, return, goto, Pending, TypeInv, LocalsOK
    <2>4. CASE row' = written(c)
      BY <2>1, <2>2, <2>3, <2>4, WriteTokens
    <2>5. CASE row' = row
      BY <2>1, <2>2, <2>3, <2>5, PassiveTokens DEF Passive
    <2>6. QED
      BY <2>1, <2>4, <2>5
  <1>6. QED
    BY <1>1, <1>2, <1>3, <1>4, <1>5, PassiveSteps, PassiveTokens DEF Step

\* Every step preserves Tokens, if clock readings differ.
LEMMA NextTokens ==
    ASSUME StrictClock
    PROVE  TypeInv /\ Tokens /\ [Next]_vars => Tokens'
  <1> SUFFICES ASSUME TypeInv, Tokens, [Next]_vars PROVE Tokens'
    OBVIOUS
  <1>1. CASE UNCHANGED vars
    BY <1>1 DEF vars, Tokens, Pending
  <1>2. CASE Next
    BY <1>1, <1>2, StepTokens DEF Next, Quiet
  <1>3. QED
    BY <1>1, <1>2

\* Tokens imply that the optimistic lock detects changes.
LEMMA TokensLock == TypeInv /\ Tokens => LockDetectsChange
  BY MarkersAssumption
  DEF TypeInv, LocalsOK, Control, Tokens, LockDetectsChange, working,
      unchangedSinceRead, Row

\* Types and tokens are invariants, if clock readings differ.
LEMMA TokensInvariant ==
    ASSUME StrictClock PROVE Spec => [](TypeInv /\ Tokens)
  <1>1. Init => TypeInv /\ Tokens
    BY InitType DEF Init, Tokens, Pending
  <1>2. TypeInv /\ Tokens /\ [Next]_vars => (TypeInv /\ Tokens)'
    BY NextType, NextTokens
  <1>3. QED
    BY <1>1, <1>2, PTL DEF Spec

\* If no two readings of the clock are equal, comparing UpdatedAt in
\* InstanceStore.Update detects every concurrent change: a caller the lock
\* lets through writes over exactly the instance it read.  This holds for any
\* store, transactional or not, with or without a unique key.
THEOREM LockCorrect == ASSUME StrictClock PROVE Spec => []LockDetectsChange
  <1>1. Spec => [](TypeInv /\ Tokens)
    BY TokensInvariant
  <1>2. QED
    BY <1>1, TokensLock, PTL

----------------------------------------------------------------------------
(* Refinement *)

\* What a caller is about to write, over transactional stores, is an outcome
\* of the instance it read; and whether an event goes with it.
Plans ==
    \A c \in Callers :
        /\ pc[c] \notin {"invalidate", "append"}
        /\ Pending(c) => out[c] \in Outcomes(base[c].inst)
        /\ pc[c] = "mark" => ~Savepoints /\ ~out[c].change.applied
        /\ pc[c] = "update" => Savepoints \/ out[c].change.applied

\* A step after which the callers with a plan are where they were.
Held ==
    \A d \in Callers :
        Pending(d)' => pc'[d] = pc[d] /\ base'[d] = base[d] /\ out'[d] = out[d]

\* A step that keeps every pending plan preserves Plans.
LEMMA HeldPlans == Plans /\ Held => Plans'
  BY DEF Plans, Held, Pending

\* Returning keeps the plans of the others.
LEMMA ReturnHeld ==
    ASSUME TypeInv, NEW c \in Callers, return(c)
    PROVE  Held
  BY DEF TypeInv, LocalsOK, return, goto, Held, Pending

\* So does going on to where nothing is written.
LEMMA GotoHeld ==
    ASSUME TypeInv, NEW c \in Callers, NEW step, goto(c, step),
           step \notin {"mark", "invalidate", "append", "update"},
           \A d \in Callers : d # c => base'[d] = base[d] /\ out'[d] = out[d]
    PROVE  Held
  BY DEF TypeInv, LocalsOK, goto, Held, Pending

\* Every action but those that plan a write.
LEMMA HeldSteps ==
    ASSUME TypeInv, Plans, NEW c \in Callers,
           \/ \E r \in Requests : Begin(c, r)
           \/ Load(c) \/ LoadMissing(c) \/ Create(c) \/ CreateDuplicate(c)
           \/ Match(c) \/ CompleteInStore(c) \/ Reject(c)
           \/ Invalidate(c) \/ AppendEvent(c) \/ Update(c) \/ Conflict(c)
           \/ MarkStuck(c) \/ Abort(c) \/ Emit(c) \/ CreateTask(c)
    PROVE  Held
  <1> USE DEF locals
  <1>1. CASE \E r \in Requests : Begin(c, r)
    BY <1>1, GotoHeld DEF Begin
  <1>2. CASE Load(c)
    BY <1>2, GotoHeld DEF Load, afterLoad, TypeInv, LocalsOK
  <1>3. CASE LoadMissing(c)
    BY <1>3, GotoHeld, ReturnHeld DEF LoadMissing
  <1>4. CASE Create(c)
    <2>1. \A d \in Callers : d # c => base'[d] = base[d] /\ out'[d] = out[d]
      BY <1>4 DEF Create, TypeInv, LocalsOK
    <2>2. QED
      BY <1>4, <2>1, GotoHeld DEF Create, afterLoad
  <1>5. CASE CreateDuplicate(c) \/ Reject(c) \/ Conflict(c) \/ MarkStuck(c) \/ Abort(c)
             \/ CreateTask(c)
    BY <1>5, ReturnHeld DEF CreateDuplicate, Reject, Conflict, MarkStuck, Abort,
       CreateTask
  <1>6. CASE Match(c)
    <2>1. CASE chosen(op[c], base[c].inst) = {}
      BY <1>6, <2>1, ReturnHeld DEF Match
    <2>2. CASE chosen(op[c], base[c].inst) # {}
      BY <1>6, <2>2, GotoHeld DEF Match, TypeInv, LocalsOK
    <2>3. QED
      BY <2>1, <2>2
  <1>7. CASE CompleteInStore(c)
    BY <1>7, GotoHeld, ReturnHeld DEF CompleteInStore
  <1>8. CASE Invalidate(c) \/ AppendEvent(c)
    BY <1>8 DEF Invalidate, AppendEvent, Plans
  <1>9. CASE Update(c)
    BY <1>9, GotoHeld, ReturnHeld DEF Update
  <1>10. CASE Emit(c)
    BY <1>10, GotoHeld, ReturnHeld DEF Emit
  <1>11. QED
    BY <1>1, <1>2, <1>3, <1>4, <1>5, <1>6, <1>7, <1>8, <1>9, <1>10

\* What the planning actions choose from is what Atomic allows.
LEMMA PlanPlans ==
    ASSUME Transactional, TypeInv, Plans, NEW c \in Callers, pc[c] = "loaded",
           NEW outcomes, NEW step, plan(c, outcomes, step),
           \A o \in outcomes : o \in Outcomes(base[c].inst),
           step = "mark" => ~Savepoints /\ \A o \in outcomes : ~o.change.applied,
           step # "mark" => Savepoints \/ \A o \in outcomes : o.change.applied
    PROVE  Plans'
  <1>1. PICK o \in outcomes : out' = [out EXCEPT ![c] = o]
    BY DEF plan
  <1>2. PICK next \in {"mark", "update"} :
          pc' = [pc EXCEPT ![c] = next] /\ (next = "mark" <=> step = "mark")
    BY DEF plan, goto
  <1>3. UNCHANGED base
    BY DEF plan
  <1>4. o \in Outcomes(base[c].inst)
        /\ (step = "mark" => ~Savepoints /\ ~o.change.applied)
        /\ (step # "mark" => Savepoints \/ o.change.applied)
    BY <1>1
  <1>5. out'[c] = o /\ pc'[c] = next
        /\ \A d \in Callers : d # c => out'[d] = out[d] /\ pc'[d] = pc[d]
    BY <1>1, <1>2 DEF TypeInv, LocalsOK
  <1>6. QED
    BY <1>2, <1>3, <1>4, <1>5 DEF Plans, Pending

\* Every step of a caller preserves Plans.
LEMMA StepPlans ==
    ASSUME Transactional, TypeInv, Plans, NEW c \in Callers, Step(c)
    PROVE  Plans'
  <1>1. CASE CommitTransition(c)
    <2> DEFINE n == op[c].arg
               i == base[c].inst
    <2>1. n \in Names /\ pc[c] = "loaded" /\ i \in Instance
      BY <1>1, BaseInstance DEF CommitTransition, executing, known
    <2> HIDE DEF n, i
    <2>2. \A o \in commitTransition(i, n) : o \in Outcomes(i)
      BY <2>1 DEF Outcomes
    <2>3. ASSUME NEW o \in commitTransition(i, n) PROVE o.change.applied
      <3>1. IsTransition(i, n, o)
        BY <2>1, TransitionOutcome
      <3>2. Logs(i, o, n, TRUE)
        BY <2>1, <3>1, TransitionLogs
      <3>3. QED
        BY <3>2 DEF Logs
    <2>4. QED
      BY <1>1, <2>1, <2>2, <2>3, PlanPlans DEF CommitTransition, n, i
  <1>2. CASE CommitStuck(c)
    <2> DEFINE n == op[c].arg
               i == base[c].inst
    <2>1. n \in Names /\ pc[c] = "loaded" /\ i \in Instance
      BY <1>2, BaseInstance DEF CommitStuck, executing, known
    <2> HIDE DEF n, i
    <2>2. \A o \in commitStuck(i, n) : o \in Outcomes(i)
      BY <2>1 DEF Outcomes
    <2>3. ASSUME NEW o \in commitStuck(i, n) PROVE ~o.change.applied
      <3>1. IsStuck(i, n, o)
        BY <2>1, StuckOutcome
      <3>2. Logs(i, o, n, FALSE)
        BY <2>1, <3>1, StuckLogs
      <3>3. QED
        BY <3>2 DEF Logs
    <2>4. QED
      BY <1>2, <2>1, <2>2, <2>3, PlanPlans DEF CommitStuck, n, i
  <1>3. CASE CommitParallelIntra(c)
    <2> DEFINE n == op[c].arg
               i == base[c].inst
    <2>1. n \in Names /\ pc[c] = "loaded" /\ i \in Instance
      BY <1>3, BaseInstance DEF CommitParallelIntra, executing, known
    <2> HIDE DEF n, i
    <2>2. \A o \in commitParallelIntra(i, n) : o \in Outcomes(i)
      BY <2>1 DEF Outcomes
    <2>3. ASSUME NEW o \in commitParallelIntra(i, n) PROVE o.change.applied
      <3>1. IsIntra(i, n, o)
        BY <2>1, IntraOutcome
      <3>2. Logs(i, o, n, TRUE)
        BY <2>1, <3>1, IntraLogs
      <3>3. QED
        BY <3>2 DEF Logs
    <2>4. QED
      BY <1>3, <2>1, <2>2, <2>3, PlanPlans DEF CommitParallelIntra, n, i
  <1>4. CASE CommitParallelExit(c)
    <2> DEFINE n == op[c].arg
               i == base[c].inst
    <2>1. n \in Names /\ pc[c] = "loaded" /\ i \in Instance
      BY <1>4, BaseInstance DEF CommitParallelExit, executing, known
    <2> HIDE DEF n, i
    <2>2. \A o \in commitParallelExit(i, n) : o \in Outcomes(i)
      BY <2>1 DEF Outcomes
    <2>3. ASSUME NEW o \in commitParallelExit(i, n) PROVE o.change.applied
      <3>1. IsExit(i, n, o)
        BY <2>1, ExitOutcome
      <3>2. Logs(i, o, n, TRUE)
        BY <2>1, <3>1, ExitLogs
      <3>3. QED
        BY <3>2 DEF Logs
    <2>4. QED
      BY <1>4, <2>1, <2>2, <2>3, PlanPlans DEF CommitParallelExit, n, i
  <1>5. CASE ForceState(c)
    <2> DEFINE t == op[c].arg
               i == base[c].inst
    <2>1. t \in States /\ pc[c] = "loaded" /\ i \in Instance
      BY <1>5, BaseInstance DEF ForceState, known
    <2>2. forceState(i, t) \in Outcomes(i) /\ forceState(i, t).change.applied
      BY <2>1, ForceLogs DEF Logs, Outcomes
    <2>3. QED
      BY <1>5, <2>1, <2>2, PlanPlans DEF ForceState
  <1>6. QED
    BY <1>1, <1>2, <1>3, <1>4, <1>5, HeldSteps, HeldPlans DEF Step

Inv == TypeInv /\ Tokens /\ Plans

\* Every step preserves the inductive invariant.
LEMMA NextInv ==
    ASSUME StrictClock, Transactional
    PROVE  Inv /\ [Next]_vars => Inv'
  <1> SUFFICES ASSUME Inv, [Next]_vars PROVE Inv'
    OBVIOUS
  <1>1. TypeInv' /\ Tokens'
    BY NextType, NextTokens DEF Inv
  <1>2. Plans'
    <2>1. CASE UNCHANGED vars
      BY <2>1 DEF vars, Inv, Plans, Pending
    <2>2. CASE Next
      BY <2>1, <2>2, StepPlans DEF Next, Quiet, Inv
    <2>3. QED
      BY <2>1, <2>2
  <1>3. QED
    BY <1>1, <1>2 DEF Inv

\* The inductive invariant holds initially.
LEMMA InitInv == Init => Inv
  <1> SUFFICES ASSUME Init PROVE Inv
    OBVIOUS
  <1>1. TypeInv
    BY InitType
  <1>2. Tokens /\ Plans
    BY DEF Init, Tokens, Plans, Pending
  <1>3. QED
    BY <1>1, <1>2 DEF Inv

\* The actions that write neither the row nor the log.
LEMMA SilentSteps ==
    ASSUME Transactional, Plans, NEW c \in Callers,
           \/ \E r \in Requests : Begin(c, r)
           \/ Load(c) \/ LoadMissing(c) \/ CreateDuplicate(c)
           \/ Match(c) \/ CompleteInStore(c) \/ Reject(c)
           \/ CommitTransition(c) \/ CommitStuck(c)
           \/ CommitParallelIntra(c) \/ CommitParallelExit(c) \/ ForceState(c)
           \/ Invalidate(c) \/ AppendEvent(c) \/ Conflict(c)
           \/ Abort(c) \/ Emit(c) \/ CreateTask(c)
    PROVE  UNCHANGED <<row, log>>
  BY DEF Begin, Load, LoadMissing, CreateDuplicate, Match, CompleteInStore, Reject,
     CommitTransition, CommitStuck, CommitParallelIntra, CommitParallelExit,
     ForceState, plan, Invalidate, AppendEvent, Conflict, Abort, Emit, CreateTask,
     stores, Plans

\* A caller whose write the lock lets through replaces the stored instance by
\* an outcome of that very instance.
LEMMA WriteOutcome ==
    ASSUME Inv, NEW c \in Callers, pc[c] \in {"mark", "update"}, unchangedSinceRead(c)
    PROVE  /\ row = base[c] /\ row # NoRow
           /\ row.inst \in Instance
           /\ out[c] \in Outcomes(row.inst)
           /\ IsOutcome(row.inst, out[c])
           /\ written(c) # NoRow /\ written(c).inst = out[c].inst
  <1>1. LockDetectsChange
    BY TokensLock DEF Inv
  <1>2. row = base[c] /\ row # NoRow
    BY <1>1 DEF LockDetectsChange, working, unchangedSinceRead
  <1>3. base[c].inst \in Instance
    BY BaseInstance DEF Inv
  <1>4. out[c] \in Outcomes(base[c].inst)
    BY DEF Inv, Plans, Pending
  <1>5. IsOutcome(base[c].inst, out[c])
    BY <1>3, <1>4, OutcomesType
  <1>6. written(c) # NoRow
    BY WrittenType, MarkersAssumption DEF Inv, Row
  <1>7. written(c).inst = out[c].inst
    BY DEF written
  <1>8. QED
    BY <1>2, <1>3, <1>4, <1>5, <1>6, <1>7

\* The changes of a log to which an event is appended.
LEMMA AppendChanges ==
    ASSUME TypeInv, NEW e \in Event, log' = Append(log, e)
    PROVE  changes' = Append(changes, e.change)
  <1>1. log \in Seq(Event) /\ Len(log) \in Nat /\ DOMAIN log = 1..Len(log)
    BY DEF TypeInv, StoresOK
  <1>2. changes \in Seq(Change) /\ Len(changes) = Len(log)
    <2>1. changes \in [1..Len(log) -> Change]
      <3>1. \A k \in 1..Len(log) : log[k] \in Event
        BY <1>1
      <3>2. \A k \in 1..Len(log) : log[k].change \in Change
        BY <3>1 DEF Event
      <3>3. QED
        BY <1>1, <3>2 DEF changes
    <2>2. QED
      BY <1>1, <2>1, SeqDef
  <1>3. DOMAIN log' = 1..(Len(log) + 1)
        /\ \A k \in 1..(Len(log) + 1) : log'[k] = IF k <= Len(log) THEN log[k] ELSE e
    BY <1>1
  <1>4. e.change \in Change
    BY DEF Event
  <1>5. Append(changes, e.change) =
          [k \in 1..(Len(log) + 1) |-> IF k <= Len(log) THEN changes[k] ELSE e.change]
    BY <1>1, <1>2, <1>4
  <1>6. changes' = [k \in 1..(Len(log) + 1) |-> log'[k].change]
    BY <1>3 DEF changes
  <1>7. \A k \in 1..(Len(log) + 1) :
          log'[k].change = IF k <= Len(log) THEN changes[k] ELSE e.change
    BY <1>1, <1>3 DEF changes
  <1>8. QED
    BY <1>5, <1>6, <1>7

\* Every action of a caller is a step of Atomic, or leaves its object alone.
LEMMA StepAtomic ==
    ASSUME StrictClock, Transactional, UniqueKey, Inv, NEW c \in Callers, Step(c)
    PROVE  [A!Next]_<<stored, changes>>
  <1>1. CASE UNCHANGED <<row, log>>
    BY <1>1 DEF stored, changes
  <1>2. CASE Create(c)
    <2>1. row = NoRow /\ UNCHANGED log /\ row' # NoRow /\ row'.inst = fresh
      <3>1. PICK now \in Now : row' = [inst |-> fresh, upd |-> now]
        BY <1>2 DEF Create
      <3>2. now \in Nat
        BY NowType DEF Inv, TypeInv
      <3>3. row' # NoRow
        BY <3>1, <3>2, FreshType, MarkersAssumption
      <3>4. QED
        BY <1>2, <3>1, <3>3 DEF Create
    <2>2. stored = NoRow /\ stored' = fresh /\ UNCHANGED changes
      BY <2>1 DEF stored, changes
    <2>3. A!Create
      BY <2>2 DEF A!Create
    <2>4. QED
      BY <2>3 DEF A!Next
  <1>3. CASE Update(c)
    <2>1. pc[c] = "update" /\ unchangedSinceRead(c) /\ row' = written(c)
          /\ log' = Append(log, eventOf(c))
      BY <1>3 DEF Update
    <2>2. stored = row.inst /\ stored' = out[c].inst /\ stored # NoRow
          /\ out[c] \in Outcomes(stored)
      BY <2>1, WriteOutcome, MarkersAssumption DEF stored
    <2>3. eventOf(c) \in Event /\ eventOf(c).change = out[c].change
      BY <2>1, WrittenType DEF Inv, eventOf
    <2>4. changes' = Append(changes, out[c].change)
      BY <2>1, <2>3, AppendChanges DEF Inv
    <2>5. Savepoints \/ out[c].change.applied
      BY <2>1 DEF Inv, Plans
    <2>6. A!Apply \/ UNCHANGED <<stored, changes>>
      BY <2>2, <2>4, <2>5 DEF A!Apply
    <2>7. QED
      BY <2>6 DEF A!Next
  <1>4. CASE MarkStuck(c)
    <2>1. CASE ~unchangedSinceRead(c)
      BY <1>1, <1>4, <2>1 DEF MarkStuck
    <2>2. CASE unchangedSinceRead(c)
      <3>1. pc[c] = "mark" /\ row' = written(c) /\ UNCHANGED log
        BY <1>4, <2>2 DEF MarkStuck
      <3>2. stored = row.inst /\ stored' = out[c].inst /\ stored # NoRow
            /\ out[c] \in Outcomes(stored) /\ UNCHANGED changes
        BY <2>2, <3>1, WriteOutcome, MarkersAssumption DEF stored, changes
      <3>3. ~Savepoints /\ ~out[c].change.applied
        BY <3>1 DEF Inv, Plans
      <3>4. A!Apply \/ UNCHANGED <<stored, changes>>
        BY <3>2, <3>3 DEF A!Apply
      <3>5. QED
        BY <3>4 DEF A!Next
    <2>3. QED
      BY <2>1, <2>2
  <1>5. QED
    BY <1>1, <1>2, <1>3, <1>4, SilentSteps DEF Step, Inv

\* Over stores with transactions and a unique key per aggregate, and with a
\* clock whose readings differ, the engine implements Atomic: the operations
\* that succeed take effect one at a time, each on the instance as stored, and
\* each logs its event, whatever calls run concurrently and wherever they fail.
THEOREM Refinement ==
    ASSUME StrictClock, Transactional, UniqueKey
    PROVE  Spec => Linearizable
  <1>1. Init => A!Init
    <2> SUFFICES ASSUME Init PROVE A!Init
      OBVIOUS
    <2>1. stored = NoRow
      BY DEF Init, stored
    <2>2. changes = << >>
      BY DEF Init, changes
    <2>3. QED
      BY <2>1, <2>2 DEF A!Init
  <1>2. Inv /\ [Next]_vars => [A!Next]_<<stored, changes>>
    <2> SUFFICES ASSUME Inv, [Next]_vars PROVE [A!Next]_<<stored, changes>>
      OBVIOUS
    <2>1. CASE UNCHANGED vars
      BY <2>1 DEF vars, stored, changes
    <2>2. CASE Next
      BY <2>1, <2>2, StepAtomic DEF Next, Quiet
    <2>3. QED
      BY <2>1, <2>2
  <1>3. Inv /\ [Next]_vars => Inv'
    BY NextInv
  <1>4. QED
    BY <1>1, <1>2, <1>3, InitInv, PTL DEF Spec, Linearizable, A!Spec

----------------------------------------------------------------------------
(* The event log *)

\* A log that is a chain stays one when an event is appended that starts where
\* the instance is and ends where it goes.
LEMMA ChainAppend ==
    ASSUME Inv, LogChain, row # NoRow, NEW e \in Event, log' = Append(log, e),
           e.change.pre = Conf(row.inst),
           row' # NoRow, e.change.post = Conf(row'.inst)
    PROVE  LogChain'
  <1> DEFINE n == Len(log)
  <1>1. log \in Seq(Event) /\ n \in Nat /\ DOMAIN log = 1..n
    BY DEF Inv, TypeInv, StoresOK
  <1>2. /\ log' # <<>> /\ Len(log') = n + 1 /\ DOMAIN log' = 1..(n + 1)
        /\ log'[n + 1] = e
        /\ \A k \in 1..n : log'[k] = log[k]
    BY <1>1
  <1>3. n # 0 <=> log # <<>>
    BY <1>1
  <1>4. \A k \in DOMAIN log' :
          log'[k].change.pre = IF k = 1 THEN Conf(fresh) ELSE log'[k-1].change.post
    <2> SUFFICES ASSUME NEW k \in 1..(n + 1)
                 PROVE  log'[k].change.pre = IF k = 1 THEN Conf(fresh)
                                             ELSE log'[k-1].change.post
      BY <1>2
    <2>1. CASE k <= n
      <3>1. k \in 1..n /\ (k # 1 => k - 1 \in 1..n)
        BY <1>1, <2>1
      <3>2. log[k].change.pre = IF k = 1 THEN Conf(fresh) ELSE log[k-1].change.post
        BY <1>1, <3>1 DEF LogChain
      <3>3. log'[k] = log[k] /\ (k # 1 => log'[k-1] = log[k-1])
        BY <1>2, <3>1
      <3>4. QED
        BY <3>2, <3>3
    <2>2. CASE k = n + 1
      <3>1. CASE n = 0
        BY <1>2, <1>3, <2>2, <3>1 DEF LogChain
      <3>2. CASE n # 0
        <4>1. Conf(row.inst) = log[n].change.post
          BY <1>3, <3>2 DEF LogChain
        <4>2. k # 1 /\ k - 1 = n /\ n \in 1..n
          BY <1>1, <2>2, <3>2
        <4>3. QED
          BY <1>2, <2>2, <4>1, <4>2
      <3>3. QED
        BY <3>1, <3>2
    <2>3. QED
      BY <1>1, <2>1, <2>2
  <1>5. QED
    BY <1>2, <1>4 DEF LogChain

\* Every step of a caller extends the chain of events or leaves it alone.
LEMMA StepChain ==
    ASSUME StrictClock, Transactional, UniqueKey, Inv, LogChain,
           NEW c \in Callers, Step(c)
    PROVE  LogChain'
  <1>1. CASE UNCHANGED <<row, log>>
    BY <1>1 DEF LogChain
  <1>2. CASE Create(c)
    <2>1. row = NoRow /\ UNCHANGED log /\ row'.inst = fresh
      BY <1>2 DEF Create
    <2>2. log = <<>>
      BY <2>1 DEF LogChain
    <2>3. QED
      BY <2>1, <2>2 DEF LogChain
  <1>3. CASE Update(c)
    <2>1. pc[c] = "update" /\ unchangedSinceRead(c) /\ row' = written(c)
          /\ log' = Append(log, eventOf(c))
      BY <1>3 DEF Update
    <2>2. row # NoRow /\ row' # NoRow /\ row'.inst = out[c].inst
          /\ IsOutcome(row.inst, out[c])
      BY <2>1, WriteOutcome
    <2>3. eventOf(c) \in Event /\ eventOf(c).change = out[c].change
      BY <2>1, WrittenType DEF Inv, eventOf
    <2>4. eventOf(c).change.pre = Conf(row.inst) /\ eventOf(c).change.post = Conf(row'.inst)
      BY <2>2, <2>3 DEF IsOutcome
    <2>5. QED
      BY <2>1, <2>2, <2>3, <2>4, ChainAppend
  <1>4. CASE MarkStuck(c)
    <2>1. CASE ~unchangedSinceRead(c)
      BY <1>1, <1>4, <2>1 DEF MarkStuck
    <2>2. CASE unchangedSinceRead(c)
      <3>1. pc[c] = "mark" /\ row' = written(c) /\ UNCHANGED log
        BY <1>4, <2>2 DEF MarkStuck
      <3>2. row # NoRow /\ row' # NoRow /\ row'.inst = out[c].inst
            /\ IsOutcome(row.inst, out[c])
        BY <2>2, <3>1, WriteOutcome
      <3>3. ~out[c].change.applied
        BY <3>1 DEF Inv, Plans
      <3>4. Conf(row'.inst) = Conf(row.inst)
        BY <3>2, <3>3 DEF IsOutcome
      <3>5. QED
        BY <3>1, <3>2, <3>4 DEF LogChain
    <2>3. QED
      BY <2>1, <2>2
  <1>5. QED
    BY <1>1, <1>2, <1>3, <1>4, SilentSteps DEF Step, Inv

\* Over the same stores the event log is the history of the instance: no event
\* is missing, none is duplicated, none starts elsewhere than where the one
\* before it ended, and the instance is where the last one left it.
THEOREM LogCorrect ==
    ASSUME StrictClock, Transactional, UniqueKey
    PROVE  Spec => []LogChain
  <1>1. Init => LogChain
    BY DEF Init, LogChain
  <1>2. Inv /\ LogChain /\ [Next]_vars => LogChain'
    <2> SUFFICES ASSUME Inv, LogChain, [Next]_vars PROVE LogChain'
      OBVIOUS
    <2>1. CASE UNCHANGED vars
      BY <2>1 DEF vars, LogChain
    <2>2. CASE Next
      BY <2>1, <2>2, StepChain DEF Next, Quiet
    <2>3. QED
      BY <2>1, <2>2
  <1>3. Inv /\ [Next]_vars => Inv'
    BY NextInv
  <1>4. QED
    BY <1>1, <1>2, <1>3, InitInv, PTL DEF Spec

----------------------------------------------------------------------------
(* Configurations and histories, for every store and clock *)

\* Every copy of the instance is sound: the stored one, the ones callers have
\* read, however stale, and the ones they are about to write.
SoundCopies ==
    /\ row # NoRow => Sound(row.inst)
    /\ \A c \in Callers : base[c] # NoRow => Sound(base[c].inst)
    /\ \A c \in Callers : Pending(c) => Sound(out[c].inst)

\* A step in which callers only read the row or forget it, and plan nothing.
Copied ==
    \A d \in Callers :
        /\ base'[d] = base[d] \/ base'[d] = NoRow \/ base'[d] = row'
        /\ Pending(d)' => Pending(d) /\ out'[d] = out[d]

\* Such a step keeps the copies sound if it leaves a sound row.
LEMMA CopiedSound ==
    ASSUME SoundCopies, Copied, row' # NoRow => Sound(row'.inst)
    PROVE  SoundCopies'
  BY DEF SoundCopies, Copied

\* Returning is such a step.
LEMMA ReturnCopied ==
    ASSUME TypeInv, NEW c \in Callers, return(c)
    PROVE  Copied
  BY DEF TypeInv, LocalsOK, return, goto, Copied, Pending

\* So is going on, to where nothing is written or with what was planned.
LEMMA GotoCopied ==
    ASSUME TypeInv, NEW c \in Callers, NEW step, goto(c, step), UNCHANGED <<base, out>>,
           step \notin {"mark", "invalidate", "append", "update"} \/ Pending(c)
    PROVE  Copied
  BY DEF TypeInv, LocalsOK, goto, Copied, Pending

\* Every action but those that plan a write copies rows only, and leaves the
\* row, creates it or writes what was planned.
LEMMA CopyingSteps ==
    ASSUME TypeInv, SoundCopies, NEW c \in Callers,
           \/ \E r \in Requests : Begin(c, r)
           \/ Load(c) \/ LoadMissing(c) \/ Create(c) \/ CreateDuplicate(c)
           \/ Match(c) \/ CompleteInStore(c) \/ Reject(c)
           \/ Invalidate(c) \/ AppendEvent(c) \/ Update(c) \/ Conflict(c)
           \/ MarkStuck(c) \/ Abort(c) \/ Emit(c) \/ CreateTask(c)
    PROVE  SoundCopies'
  <1> USE DEF locals
  <1>1. CASE \E r \in Requests : Begin(c, r)
    <2>1. Copied /\ UNCHANGED row
      BY <1>1, GotoCopied DEF Begin, stores
    <2>2. QED
      BY <2>1, CopiedSound DEF SoundCopies
  <1>2. CASE Load(c)
    <2>1. Copied /\ UNCHANGED row
      BY <1>2 DEF Load, stores, goto, afterLoad, TypeInv, LocalsOK, Copied, Pending
    <2>2. QED
      BY <2>1, CopiedSound DEF SoundCopies
  <1>3. CASE Create(c)
    <2>1. PICK now \in Now : /\ row' = [inst |-> fresh, upd |-> now]
                             /\ base' = [base EXCEPT ![c] = [inst |-> fresh, upd |-> now]]
      BY <1>3 DEF Create
    <2>2. \A d \in Callers : base'[d] = base[d] \/ base'[d] = row'
      BY <2>1 DEF TypeInv, LocalsOK
    <2>3. \A d \in Callers : Pending(d)' => Pending(d) /\ out'[d] = out[d]
      BY <1>3 DEF Create, goto, afterLoad, TypeInv, LocalsOK, Pending
    <2>4. Sound(row'.inst)
      BY <2>1, FreshSound
    <2>5. QED
      BY <2>2, <2>3, <2>4, CopiedSound DEF Copied
  <1>4. CASE Match(c)
    <2>1. UNCHANGED row
      BY <1>4 DEF Match, stores
    <2>2. CASE chosen(op[c], base[c].inst) = {}
      BY <1>4, <2>1, <2>2, ReturnCopied, CopiedSound DEF Match, SoundCopies
    <2>3. CASE chosen(op[c], base[c].inst) # {}
      <3>1. Copied
        BY <1>4, <2>3 DEF Match, goto, TypeInv, LocalsOK, Copied, Pending
      <3>2. QED
        BY <2>1, <3>1, CopiedSound DEF SoundCopies
    <2>4. QED
      BY <2>2, <2>3
  <1>5. CASE LoadMissing(c) \/ CompleteInStore(c)
    <2>1. Copied /\ UNCHANGED row
      BY <1>5, GotoCopied, ReturnCopied DEF LoadMissing, CompleteInStore, stores
    <2>2. QED
      BY <2>1, CopiedSound DEF SoundCopies
  <1>6. CASE CreateDuplicate(c) \/ Reject(c) \/ Conflict(c) \/ Abort(c) \/ CreateTask(c)
    <2>1. Copied /\ UNCHANGED row
      BY <1>6, ReturnCopied
      DEF CreateDuplicate, Reject, Conflict, Abort, CreateTask, stores
    <2>2. QED
      BY <2>1, CopiedSound DEF SoundCopies
  <1>7. CASE Invalidate(c) \/ AppendEvent(c) \/ Emit(c)
    <2>1. Copied /\ UNCHANGED row
      BY <1>7, GotoCopied, ReturnCopied DEF Invalidate, AppendEvent, Emit, Pending
    <2>2. QED
      BY <2>1, CopiedSound DEF SoundCopies
  <1>8. CASE Update(c) \/ MarkStuck(c)
    <2>1. Copied
      BY <1>8, GotoCopied, ReturnCopied DEF Update, MarkStuck
    <2>2. Pending(c) /\ (row' = row \/ row' = written(c))
      BY <1>8 DEF Update, MarkStuck, Pending
    <2>3. row' # NoRow => Sound(row'.inst)
      BY <2>2 DEF SoundCopies, written
    <2>4. QED
      BY <2>1, <2>3, CopiedSound
  <1>9. QED
    BY <1>1, <1>2, <1>3, <1>4, <1>5, <1>6, <1>7, <1>8

\* What is planned from a sound copy is sound.
LEMMA PlanSound ==
    ASSUME TypeInv, SoundCopies, NEW c \in Callers, NEW outcomes, NEW step,
           plan(c, outcomes, step), \A o \in outcomes : Sound(o.inst)
    PROVE  SoundCopies'
  <1>1. PICK o \in outcomes : out' = [out EXCEPT ![c] = o]
    BY DEF plan
  <1>2. \A d \in Callers : d # c => pc'[d] = pc[d] /\ out'[d] = out[d]
    BY <1>1 DEF plan, goto, TypeInv, LocalsOK
  <1>3. out'[c] = o /\ UNCHANGED <<row, base>>
    BY <1>1 DEF plan, stores, TypeInv, LocalsOK
  <1>4. QED
    BY <1>1, <1>2, <1>3 DEF SoundCopies, Pending

\* Every step of a caller keeps all copies sound.
LEMMA StepSound ==
    ASSUME ExitsRest, RegionsClosed, TypeInv, SoundCopies, NEW c \in Callers, Step(c)
    PROVE  SoundCopies'
  <1> DEFINE n == op[c].arg
             i == base[c].inst
  <1>1. ASSUME pc[c] = "loaded" PROVE i \in Instance /\ Sound(i)
    BY <1>1, BaseInstance, MarkersAssumption DEF SoundCopies, Row
  <1>2. CASE CommitTransition(c)
    <2>1. n \in Names /\ pc[c] = "loaded"
      BY <1>2 DEF CommitTransition, executing, known
    <2>2. \A o \in commitTransition(i, n) : Sound(o.inst)
      BY <1>1, <2>1, TransitionOutcome, TransitionSound
    <2>3. QED
      BY <1>2, <2>2, PlanSound DEF CommitTransition
  <1>3. CASE CommitStuck(c)
    <2>1. n \in Names /\ pc[c] = "loaded"
      BY <1>3 DEF CommitStuck, executing, known
    <2>2. \A o \in commitStuck(i, n) : Sound(o.inst)
      BY <1>1, <2>1, StuckOutcome, StuckSound
    <2>3. QED
      BY <1>3, <2>2, PlanSound DEF CommitStuck
  <1>4. CASE CommitParallelIntra(c)
    <2>1. n \in Names /\ pc[c] = "loaded"
      BY <1>4 DEF CommitParallelIntra, executing, known
    <2>2. \A o \in commitParallelIntra(i, n) : Sound(o.inst)
      BY <1>1, <2>1, IntraOutcome, IntraSound
    <2>3. QED
      BY <1>4, <2>2, PlanSound DEF CommitParallelIntra
  <1>5. CASE CommitParallelExit(c)
    <2>1. n \in Names /\ pc[c] = "loaded"
      BY <1>5 DEF CommitParallelExit, executing, known
    <2>2. \A o \in commitParallelExit(i, n) : Sound(o.inst)
      BY <1>1, <2>1, ExitOutcome, ExitSound
    <2>3. QED
      BY <1>5, <2>2, PlanSound DEF CommitParallelExit
  <1>6. CASE ForceState(c)
    <2>1. n \in States /\ pc[c] = "loaded"
      BY <1>6 DEF ForceState, known
    <2>2. \A o \in {forceState(i, n)} : Sound(o.inst)
      BY <1>1, <2>1, ForceSound
    <2>3. QED
      BY <1>6, <2>2, PlanSound DEF ForceState
  <1>7. QED
    BY <1>2, <1>3, <1>4, <1>5, <1>6, CopyingSteps DEF Step

\* The copies are sound in every reachable state, whatever the stores do.
LEMMA CopiesInvariant ==
    ASSUME ExitsRest, RegionsClosed
    PROVE  Spec => [](TypeInv /\ SoundCopies)
  <1>1. Init => TypeInv /\ SoundCopies
    <2>1. Init => SoundCopies
      BY DEF Init, SoundCopies, Pending
    <2>2. QED
      BY <2>1, InitType
  <1>2. ASSUME TypeInv, SoundCopies, [Next]_vars PROVE TypeInv' /\ SoundCopies'
    <2>1. TypeInv'
      BY <1>2, NextType
    <2>2. CASE UNCHANGED vars
      BY <1>2, <2>1, <2>2 DEF vars, SoundCopies, Pending
    <2>3. CASE Next
      BY <1>2, <2>1, <2>2, <2>3, StepSound DEF Next, Quiet
    <2>4. QED
      BY <1>2, <2>2, <2>3
  <1>3. QED
    BY <1>1, <1>2, PTL DEF Spec

\* ActiveInParallel agrees with CurrentState in the stored instance, whatever
\* operations race and whatever the stores do: with no unique key, no
\* transaction and a clock that stands still, a lost update still leaves one
\* caller's whole instance, never a mixture.
THEOREM ParallelCorrect ==
    ASSUME ExitsRest, RegionsClosed
    PROVE  Spec => []ParallelConsistent
  <1>1. TypeInv /\ SoundCopies => ParallelConsistent
    BY DEF SoundCopies, Sound, ParallelConsistent
  <1>2. QED
    BY <1>1, CopiesInvariant, PTL

\* The histories of the stored instance name children and leaves of the
\* compound states they are kept for: every exit path starts in a leaf, which
\* holds because regions are consistent.
THEOREM HistoryCorrect ==
    ASSUME ExitsRest, RegionsClosed
    PROVE  Spec => []HistoryConsistent
  <1>1. TypeInv /\ SoundCopies => HistoryConsistent
    BY DEF SoundCopies, Sound, HistoryConsistent
  <1>2. QED
    BY <1>1, CopiesInvariant, PTL
============================================================================
