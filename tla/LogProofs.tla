----------------------------- MODULE LogProofs -----------------------------
(***************************************************************************)
(* What the event log and the stored instance say about each other, over   *)
(* stores with transactions and a unique key per aggregate and with a      *)
(* clock whose readings differ: the parallel clock, the sequence maps, and *)
(* what no step takes back.  And, for every store and clock, what a call   *)
(* does once: it emits at most one event, which is in the log, and the     *)
(* completion of a task fires at most one transition.                      *)
(***************************************************************************)
EXTENDS EngineProofs, FiniteSetTheorems

----------------------------------------------------------------------------
(* What a step may do to the stored instance and to the log *)

\* createInstance
Born == row = NoRow /\ row' # NoRow /\ row'.inst = fresh /\ UNCHANGED log

\* The stored instance is replaced by outcome o of it.
Replaced(o) ==
    /\ row # NoRow /\ row' # NoRow
    /\ row.inst \in Instance
    /\ o \in Outcomes(row.inst)
    /\ row'.inst = o.inst

\* The transaction of a transition, stuck with a savepoint or not, or of
\* ForceState.
Committed(o) ==
    /\ Replaced(o)
    /\ \E e \in Event : e.change = o.change /\ log' = Append(log, e)

\* The transaction that only marks the instance stuck.
Marked(o) == Replaced(o) /\ ~o.change.applied /\ UNCHANGED log

\* Every step of a caller does one of these, or leaves row and log alone.
LEMMA StepEffect ==
    ASSUME Transactional, UniqueKey, Inv, NEW c \in Callers, Step(c)
    PROVE  \/ UNCHANGED <<row, log>>
           \/ Born
           \/ \E o : Committed(o) \/ Marked(o)
  <1>1. CASE Create(c)
    <2>1. PICK now \in Now : row' = [inst |-> fresh, upd |-> now]
      BY <1>1 DEF Create
    <2>2. now \in Nat
      BY NowType DEF Inv, TypeInv
    <2>3. row' # NoRow
      BY <2>1, <2>2, FreshType, MarkersAssumption
    <2>4. QED
      BY <1>1, <2>1, <2>3 DEF Create, Born
  <1>2. CASE Update(c)
    <2>1. pc[c] = "update" /\ unchangedSinceRead(c) /\ row' = written(c)
          /\ log' = Append(log, eventOf(c))
      BY <1>2 DEF Update
    <2>2. Replaced(out[c])
      BY <2>1, WriteOutcome DEF Replaced
    <2>3. eventOf(c) \in Event /\ eventOf(c).change = out[c].change
      BY <2>1, WrittenType DEF Inv, eventOf
    <2>4. Committed(out[c])
      BY <2>1, <2>2, <2>3 DEF Committed
    <2>5. QED
      BY <2>4
  <1>3. CASE MarkStuck(c)
    <2>1. CASE ~unchangedSinceRead(c)
      BY <1>3, <2>1 DEF MarkStuck
    <2>2. CASE unchangedSinceRead(c)
      <3>1. pc[c] = "mark" /\ row' = written(c) /\ UNCHANGED log
        BY <1>3, <2>2 DEF MarkStuck
      <3>2. Replaced(out[c])
        BY <2>2, <3>1, WriteOutcome DEF Replaced
      <3>3. Marked(out[c])
        BY <3>1, <3>2 DEF Inv, Plans, Marked
      <3>4. QED
        BY <3>3
    <2>3. QED
      BY <2>1, <2>2
  <1>4. QED
    BY <1>1, <1>2, <1>3, SilentSteps DEF Step, Inv

\* So does every step.
LEMMA NextEffect ==
    ASSUME Transactional, UniqueKey, Inv, [Next]_vars
    PROVE  \/ UNCHANGED <<row, log>>
           \/ Born
           \/ \E o : Committed(o) \/ Marked(o)
  <1>1. CASE UNCHANGED vars
    BY <1>1 DEF vars
  <1>2. CASE Next
    BY <1>1, <1>2, StepEffect DEF Next, Quiet
  <1>3. QED
    BY <1>1, <1>2

\* The log after an event is appended.
LEMMA LogAppended ==
    ASSUME TypeInv, NEW e \in Event, log' = Append(log, e)
    PROVE  /\ Len(log) \in Nat /\ DOMAIN log = 1..Len(log)
           /\ Len(log') = Len(log) + 1 /\ DOMAIN log' = 1..(Len(log) + 1)
           /\ log'[Len(log) + 1] = e
           /\ \A k \in 1..Len(log) : log'[k] = log[k]
           /\ log' # log
  <1>1. log \in Seq(Event)
    BY DEF TypeInv, StoresOK
  <1>2. Len(log) \in Nat /\ Len(log') = Len(log) + 1
    BY <1>1
  <1>3. QED
    BY <1>1, <1>2

\* Every kind of outcome, by what it does.
LEMMA OutcomeKinds ==
    ASSUME NEW i \in Instance, NEW o \in Outcomes(i)
    PROVE  \/ \E n \in Names : \/ IsTransition(i, n, o) \/ IsStuck(i, n, o)
                               \/ IsIntra(i, n, o) \/ IsExit(i, n, o)
           \/ \E t \in States : o = forceState(i, t)
  <1>1. \/ \E n \in Names : \/ o \in commitTransition(i, n)
                            \/ o \in commitStuck(i, n)
                            \/ o \in commitParallelIntra(i, n)
                            \/ o \in commitParallelExit(i, n)
        \/ \E t \in States : o = forceState(i, t)
    BY DEF Outcomes
  <1>2. QED
    BY <1>1, TransitionOutcome, StuckOutcome, IntraOutcome, ExitOutcome

----------------------------------------------------------------------------
(* The parallel clock *)

\* The clock of an outcome: a parallel transition advances it by one, and it
\* is the only one to name regions that moved.
LEMMA OutcomeClock ==
    ASSUME NEW i \in Instance, NEW o \in Outcomes(i)
    PROVE  /\ o.inst.pclock = IF o.change.moved = {} THEN i.pclock ELSE i.pclock + 1
           /\ ~o.change.applied => o.change.moved = {}
  <1>1. ASSUME NEW n \in Names, IsTransition(i, n, o)
        PROVE  o.inst.pclock = i.pclock /\ o.change.moved = {}
    BY <1>1, TransitionKeeps
  <1>2. ASSUME NEW n \in Names, IsStuck(i, n, o)
        PROVE  o.inst.pclock = i.pclock /\ o.change.moved = {}
    <2>1. Conf(o.inst) = Conf(i)
      BY <1>2, StuckLogs
    <2>2. QED
      BY <1>2, <2>1, StuckKeeps DEF Conf
  <1>3. ASSUME NEW n \in Names, IsIntra(i, n, o)
        PROVE  o.inst.pclock = i.pclock + 1 /\ o.change.moved # {} /\ o.change.applied
    <2>1. o.inst.pclock = i.pclock + 1
      BY <1>3, IntraMoves
    <2>2. Logs(i, o, n, TRUE) /\ o.change.moved # {}
      BY <1>3, IntraLogs
    <2>3. QED
      BY <2>1, <2>2 DEF Logs
  <1>4. ASSUME NEW n \in Names, IsExit(i, n, o)
        PROVE  o.inst.pclock = i.pclock /\ o.change.moved = {}
    BY <1>4, ExitKeeps
  <1>5. ASSUME NEW t \in States, o = forceState(i, t)
        PROVE  o.inst.pclock = i.pclock /\ o.change.moved = {}
    BY <1>5, ForceKeeps
  <1>6. QED
    BY <1>1, <1>2, <1>3, <1>4, <1>5, OutcomeKinds

\* The events of parallel transitions.
Moves == {k \in DOMAIN log : log[k].change.moved # {}}

\* There are finitely many of them.
LEMMA MovesFinite ==
    ASSUME TypeInv
    PROVE  IsFiniteSet(Moves) /\ Cardinality(Moves) \in Nat
  <1>1. DOMAIN log = 1..Len(log) /\ Len(log) \in Nat
    BY DEF TypeInv, StoresOK
  <1>2. Moves \in SUBSET (1..Len(log))
    BY <1>1 DEF Moves
  <1>3. IsFiniteSet(1..Len(log))
    BY <1>1, FS_Interval
  <1>4. IsFiniteSet(Moves)
    BY <1>2, <1>3, FS_Subset
  <1>5. QED
    BY <1>4, FS_CardinalityType

\* Appending an event adds one to their number if it is one of them.
LEMMA MovesAppend ==
    ASSUME TypeInv, NEW e \in Event, log' = Append(log, e)
    PROVE  Cardinality(Moves') = IF e.change.moved = {} THEN Cardinality(Moves)
                                 ELSE Cardinality(Moves) + 1
  <1> DEFINE n == Len(log)
  <1>1. /\ n \in Nat /\ DOMAIN log = 1..n /\ DOMAIN log' = 1..(n + 1)
        /\ log'[n + 1] = e /\ \A k \in 1..n : log'[k] = log[k]
    BY LogAppended
  <1> HIDE DEF n
  <1>2. n + 1 \notin Moves
    BY <1>1 DEF Moves
  <1>3. Moves' = IF e.change.moved = {} THEN Moves ELSE Moves \cup {n + 1}
    <2>1. 1..(n + 1) = (1..n) \cup {n + 1}
      BY <1>1
    <2>2. Moves' = {k \in (1..n) \cup {n + 1} : log'[k].change.moved # {}}
      BY <1>1, <2>1 DEF Moves
    <2>3. Moves = {k \in 1..n : log[k].change.moved # {}}
      BY <1>1 DEF Moves
    <2>4. QED
      BY <1>1, <2>2, <2>3
  <1>4. Cardinality(Moves \cup {n + 1}) = Cardinality(Moves) + 1
    BY <1>2, MovesFinite, FS_AddElement
  <1>5. QED
    BY <1>3, <1>4

\* Every step keeps the clock equal to the number of these events.
LEMMA NextClock ==
    ASSUME Transactional, UniqueKey, Inv, LogChain, ClockCounts, [Next]_vars
    PROVE  ClockCounts'
  <1>1. CASE UNCHANGED <<row, log>>
    BY <1>1 DEF ClockCounts
  <1>2. CASE Born
    <2>1. log = <<>> /\ log' = <<>> /\ row'.inst = fresh
      BY <1>2 DEF Born, LogChain
    <2>2. {k \in DOMAIN log' : log'[k].change.moved # {}} = {}
      BY <2>1
    <2>3. fresh.pclock = 0
      BY DEF fresh
    <2>4. QED
      BY <2>1, <2>2, <2>3, FS_EmptySet DEF ClockCounts
  <1>3. ASSUME NEW o, Committed(o) PROVE ClockCounts'
    <2>1. PICK e \in Event : e.change = o.change /\ log' = Append(log, e)
      BY <1>3 DEF Committed
    <2>2. row.inst \in Instance /\ o \in Outcomes(row.inst) /\ row'.inst = o.inst
          /\ row # NoRow
      BY <1>3 DEF Committed, Replaced
    <2>3. row.inst.pclock = Cardinality(Moves)
      BY <2>2 DEF ClockCounts, Moves
    <2>4. row'.inst.pclock = IF o.change.moved = {} THEN row.inst.pclock
                             ELSE row.inst.pclock + 1
      BY <2>2, OutcomeClock
    <2>5. Cardinality(Moves') = IF e.change.moved = {} THEN Cardinality(Moves)
                                ELSE Cardinality(Moves) + 1
      BY <2>1, MovesAppend DEF Inv
    <2>6. row'.inst.pclock = Cardinality(Moves')
      BY <2>1, <2>3, <2>4, <2>5
    <2>7. QED
      BY <2>6 DEF ClockCounts, Moves
  <1>4. ASSUME NEW o, Marked(o) PROVE ClockCounts'
    <2>1. row.inst \in Instance /\ o \in Outcomes(row.inst) /\ row'.inst = o.inst
          /\ row # NoRow /\ ~o.change.applied /\ UNCHANGED log
      BY <1>4 DEF Marked, Replaced
    <2>2. row'.inst.pclock = row.inst.pclock
      BY <2>1, OutcomeClock
    <2>3. QED
      BY <2>1, <2>2 DEF ClockCounts
  <1>5. QED
    BY <1>1, <1>2, <1>3, <1>4, NextEffect

\* The log is a chain, and the inductive invariant of EngineProofs holds.
LEMMA ChainInvariant ==
    ASSUME StrictClock, Transactional, UniqueKey
    PROVE  Spec => [](Inv /\ LogChain)
  <1>1. Init => Inv
    BY InitInv
  <1>2. Inv /\ [Next]_vars => Inv'
    BY NextInv
  <1>3. Spec => []LogChain
    BY LogCorrect
  <1>4. QED
    BY <1>1, <1>2, <1>3, PTL DEF Spec

\* The parallel clock of the stored instance is the number of parallel
\* transitions in the event log: commitParallelIntra never loses an increment
\* to a concurrent caller, ForceState never resets it, and neither a stuck
\* transition nor a call that fails advances it.
THEOREM ClockCorrect ==
    ASSUME StrictClock, Transactional, UniqueKey
    PROVE  Spec => []ClockCounts
  <1>1. Init => ClockCounts
    BY DEF Init, ClockCounts
  <1>2. Inv /\ LogChain /\ ClockCounts /\ [Next]_vars => ClockCounts'
    BY NextClock
  <1>3. Spec => [](Inv /\ LogChain)
    BY ChainInvariant
  <1>4. QED
    BY <1>1, <1>2, <1>3, PTL DEF Spec

----------------------------------------------------------------------------
(* The sequence maps *)

\* No region has a number the parallel clock has not reached.
SequenceBound ==
    row # NoRow => \A k \in DOMAIN log : \A r \in cm.Compound :
                      log[k].change.seq[r] <= row.inst.pclock

\* What SequenceOrders says of one event: the regions that moved have the
\* highest number.
Highest(ch) ==
    \A r \in DOMAIN ch.post.aip :
        r \in ch.moved <=> \A q \in DOMAIN ch.post.aip : ch.seq[q] <= ch.seq[r]

\* The numbers of a parallel transition: the new clock for the regions that
\* moved, the old one for the others.
LEMMA IntraSequence ==
    ASSUME NEW i \in Instance, NEW n \in Names, NEW o, IsIntra(i, n, o)
    PROVE  /\ \A r \in cm.Compound : o.change.seq[r] <= o.inst.pclock
           /\ i.pclock <= o.inst.pclock
           /\ Highest(o.change)
           /\ \A r \in DOMAIN o.change.post.aip :
                 r \in cm.Compound /\ i.pclock <= o.change.seq[r]
  <1> DEFINE R == candidates(i, n)
  <1>1. /\ o.inst.pclock = i.pclock + 1
        /\ DOMAIN o.inst.aip = DOMAIN i.aip
        /\ o.change.post = Conf(o.inst)
        /\ o.change.moved = R
        /\ o.change.seq = sequenceMap(i, R)
    BY IntraMoves
  <1>2. R # {} /\ R \subseteq DOMAIN i.aip /\ DOMAIN i.aip \subseteq cm.Compound
    <2>1. i.aip \in Maps
      BY DEF Instance
    <2>2. DOMAIN i.aip \subseteq cm.Compound
      BY <2>1, MapsApply
    <2>3. QED
      BY <2>2, CandidatesType DEF IsIntra
  <1> HIDE DEF R
  <1>3. DOMAIN o.change.post.aip = DOMAIN i.aip
    BY <1>1 DEF Conf
  <1>4. i.pclock \in Nat
    BY DEF Instance
  <1>5. \A r \in cm.Compound :
          o.change.seq[r] = IF r \in R THEN i.pclock + 1
                            ELSE IF r \in DOMAIN i.aip THEN i.pclock ELSE 0
    BY <1>1 DEF sequenceMap
  <1>6. \A r \in cm.Compound : o.change.seq[r] <= o.inst.pclock
    BY <1>1, <1>4, <1>5
  <1>7. \A r \in DOMAIN i.aip : r \in cm.Compound /\ i.pclock <= o.change.seq[r]
    BY <1>2, <1>4, <1>5
  <1>8. ASSUME NEW r \in DOMAIN i.aip
        PROVE  r \in R <=> \A q \in DOMAIN i.aip : o.change.seq[q] <= o.change.seq[r]
    <2>1. CASE r \in R
      <3>1. o.change.seq[r] = i.pclock + 1
        BY <1>2, <1>5, <2>1
      <3>2. \A q \in DOMAIN i.aip : o.change.seq[q] <= i.pclock + 1
        BY <1>1, <1>2, <1>6
      <3>3. QED
        BY <2>1, <3>1, <3>2
    <2>2. CASE r \notin R
      <3>1. PICK q \in R : TRUE
        BY <1>2
      <3>2. q \in DOMAIN i.aip /\ o.change.seq[q] = i.pclock + 1
            /\ o.change.seq[r] = i.pclock
        BY <1>2, <1>5, <2>2, <3>1
      <3>3. ~(o.change.seq[q] <= o.change.seq[r])
        BY <1>4, <3>2
      <3>4. QED
        BY <2>2, <3>2, <3>3
    <2>3. QED
      BY <2>1, <2>2
  <1>9. Highest(o.change)
    BY <1>1, <1>3, <1>8 DEF Highest
  <1>10. i.pclock <= o.inst.pclock
    BY <1>1, <1>4
  <1>11. QED
    BY <1>3, <1>6, <1>7, <1>9, <1>10

\* The numbers of any outcome.
LEMMA OutcomeSequence ==
    ASSUME NEW i \in Instance, NEW o \in Outcomes(i)
    PROVE  /\ \A r \in cm.Compound : o.change.seq[r] <= o.inst.pclock
           /\ i.pclock <= o.inst.pclock
           /\ o.change.moved # {} =>
                 /\ Highest(o.change)
                 /\ \A r \in DOMAIN o.change.post.aip :
                       r \in cm.Compound /\ i.pclock <= o.change.seq[r]
  <1>1. i.pclock \in Nat
    BY DEF Instance
  <1>2. CASE o.change.seq = NoSeq /\ o.change.moved = {}
    <2>1. o.inst.pclock = i.pclock
      BY <1>2, OutcomeClock
    <2>2. \A r \in cm.Compound : o.change.seq[r] = 0
      BY <1>2 DEF NoSeq
    <2>3. QED
      BY <1>1, <1>2, <2>1, <2>2
  <1>3. ASSUME NEW n \in Names,
               IsTransition(i, n, o) \/ IsStuck(i, n, o) \/ IsExit(i, n, o)
        PROVE  o.change.seq = NoSeq /\ o.change.moved = {}
    BY <1>3, TransitionKeeps, StuckKeeps, ExitKeeps
  <1>4. ASSUME NEW t \in States, o = forceState(i, t)
        PROVE  o.change.seq = NoSeq /\ o.change.moved = {}
    BY <1>4, ForceKeeps
  <1>5. CASE \E n \in Names : IsIntra(i, n, o)
    BY <1>5, IntraSequence
  <1>6. QED
    BY <1>2, <1>3, <1>4, <1>5, OutcomeKinds

\* The bound is kept when an event is appended, and the new event follows the
\* order of the ones before.
LEMMA SequenceAppend ==
    ASSUME Inv, SequenceBound, SequenceOrders, NEW o, Committed(o)
    PROVE  SequenceBound' /\ SequenceOrders'
  <1> DEFINE n == Len(log)
             i == row.inst
  <1>1. PICK e \in Event : e.change = o.change /\ log' = Append(log, e)
    BY DEF Committed
  <1>2. row # NoRow /\ i \in Instance /\ o \in Outcomes(i) /\ row'.inst = o.inst
    BY DEF Committed, Replaced
  <1>3. /\ n \in Nat /\ DOMAIN log = 1..n /\ DOMAIN log' = 1..(n + 1)
        /\ log'[n + 1] = e /\ \A k \in 1..n : log'[k] = log[k]
    BY <1>1, LogAppended DEF Inv
  <1>4. /\ \A r \in cm.Compound : o.change.seq[r] <= o.inst.pclock
        /\ i.pclock <= o.inst.pclock
        /\ o.change.moved # {} =>
              /\ Highest(o.change)
              /\ \A r \in DOMAIN o.change.post.aip :
                    r \in cm.Compound /\ i.pclock <= o.change.seq[r]
    BY <1>2, OutcomeSequence
  <1>5. \A k \in 1..n : \A r \in cm.Compound : log[k].change.seq[r] <= i.pclock
    BY <1>2, <1>3 DEF SequenceBound
  <1>6. /\ i.pclock \in Nat /\ o.inst.pclock \in Nat
        /\ \A r \in cm.Compound : o.change.seq[r] \in Nat
        /\ \A k \in 1..n : \A r \in cm.Compound : log[k].change.seq[r] \in Nat
    <2>1. o \in Outcome
      BY <1>2, OutcomesType DEF IsOutcome
    <2>2. log \in Seq(Event)
      BY DEF Inv, TypeInv, StoresOK
    <2>3. \A k \in 1..n : log[k] \in Event
      BY <1>3, <2>2
    <2>4. QED
      BY <1>2, <2>1, <2>3 DEF Outcome, Instance, Event, Change
  <1> HIDE DEF n, i
  <1>7. SequenceBound'
    <2>1. ASSUME NEW k \in 1..(n + 1), NEW r \in cm.Compound
          PROVE  log'[k].change.seq[r] <= o.inst.pclock
      <3>1. CASE k \in 1..n
        BY <1>3, <1>4, <1>5, <1>6, <3>1
      <3>2. CASE k = n + 1
        BY <1>1, <1>3, <1>4, <3>2
      <3>3. QED
        BY <1>3, <3>1, <3>2
    <2>2. QED
      BY <1>2, <1>3, <2>1 DEF SequenceBound
  <1>8. SequenceOrders'
    <2>1. ASSUME NEW k \in 1..(n + 1), log'[k].change.moved # {},
                 NEW r \in DOMAIN log'[k].change.post.aip
          PROVE  LET ch == log'[k].change
                 IN  /\ r \in ch.moved <=>
                           \A q \in DOMAIN ch.post.aip : ch.seq[q] <= ch.seq[r]
                     /\ \A j \in 1..k : log'[j].change.seq[r] <= ch.seq[r]
      <3>1. CASE k \in 1..n
        <4>1. log'[k] = log[k] /\ \A j \in 1..k : j \in 1..n /\ log'[j] = log[j]
          BY <1>3, <3>1
        <4>2. QED
          BY <1>3, <2>1, <3>1, <4>1 DEF SequenceOrders
      <3>2. CASE k = n + 1
        <4>1. log'[k].change = o.change
          BY <1>1, <1>3, <3>2
        <4>2. r \in cm.Compound /\ i.pclock <= o.change.seq[r] /\ Highest(o.change)
          BY <1>4, <2>1, <4>1
        <4>3. ASSUME NEW j \in 1..k
              PROVE  log'[j].change.seq[r] <= o.change.seq[r]
          <5>1. CASE j \in 1..n
            BY <1>3, <1>5, <1>6, <4>2, <5>1
          <5>2. CASE j = n + 1
            BY <1>6, <3>2, <4>1, <4>2, <5>2
          <5>3. QED
            BY <1>3, <3>2, <4>3, <5>1, <5>2
        <4>4. QED
          BY <2>1, <4>1, <4>2, <4>3 DEF Highest
      <3>3. QED
        BY <1>3, <3>1, <3>2
    <2>2. QED
      BY <1>3, <2>1 DEF SequenceOrders
  <1>9. QED
    BY <1>7, <1>8

\* Every step keeps the bound and the order.
LEMMA NextSequence ==
    ASSUME Transactional, UniqueKey, Inv, LogChain, SequenceBound, SequenceOrders,
           [Next]_vars
    PROVE  SequenceBound' /\ SequenceOrders'
  <1>1. CASE UNCHANGED <<row, log>>
    BY <1>1 DEF SequenceBound, SequenceOrders
  <1>2. CASE Born
    <2>1. log = <<>> /\ log' = <<>>
      BY <1>2 DEF Born, LogChain
    <2>2. QED
      BY <2>1 DEF SequenceBound, SequenceOrders
  <1>3. ASSUME NEW o, Committed(o) PROVE SequenceBound' /\ SequenceOrders'
    BY <1>3, SequenceAppend
  <1>4. ASSUME NEW o, Marked(o) PROVE SequenceBound' /\ SequenceOrders'
    <2>1. row.inst \in Instance /\ o \in Outcomes(row.inst) /\ row'.inst = o.inst
          /\ row # NoRow /\ ~o.change.applied /\ UNCHANGED log
      BY <1>4 DEF Marked, Replaced
    <2>2. row'.inst.pclock = row.inst.pclock
      BY <2>1, OutcomeClock
    <2>3. QED
      BY <2>1, <2>2 DEF SequenceBound, SequenceOrders
  <1>5. QED
    BY <1>1, <1>2, <1>3, <1>4, NextEffect

\* The sequence maps of the event log order the moves of regions: in every
\* event of commitParallelIntra the regions that moved are those with the
\* highest number, and no region's number falls from one event to a later one,
\* although the instance leaves and enters parallel states in between.
THEOREM SequenceCorrect ==
    ASSUME StrictClock, Transactional, UniqueKey
    PROVE  Spec => []SequenceOrders
  <1>1. Init => SequenceBound /\ SequenceOrders
    BY DEF Init, SequenceBound, SequenceOrders
  <1>2. Inv /\ LogChain /\ SequenceBound /\ SequenceOrders /\ [Next]_vars
          => SequenceBound' /\ SequenceOrders'
    BY NextSequence
  <1>3. Spec => [](Inv /\ LogChain)
    BY ChainInvariant
  <1>4. QED
    BY <1>1, <1>2, <1>3, PTL DEF Spec

----------------------------------------------------------------------------
(* What no step takes back *)

\* Only ForceState takes the stuck mark off.
LEMMA OutcomeStuck ==
    ASSUME NEW i \in Instance, NEW o \in Outcomes(i), i.stuck
    PROVE  o.inst.stuck \/ o.change.name = ForceName
  <1>1. ASSUME NEW n \in Names,
               \/ IsTransition(i, n, o) \/ IsStuck(i, n, o)
               \/ IsIntra(i, n, o) \/ IsExit(i, n, o)
        PROVE  o.inst.stuck
    BY <1>1, TransitionKeeps, StuckKeeps, IntraMoves, ExitKeeps
  <1>2. ASSUME NEW t \in States, o = forceState(i, t)
        PROVE  o.change.name = ForceName
    BY <1>2, ForceLogs DEF Logs
  <1>3. QED
    BY <1>1, <1>2, OutcomeKinds

\* Regions are active only in a parallel state.
RegionsInParallel ==
    row # NoRow => (row.inst.aip # EmptyMap => row.inst.cur \in cm.Parallel)

\* An outcome has active regions only in a parallel state, and only ForceState
\* leaves a terminal state.
LEMMA OutcomeTerminal ==
    ASSUME NEW i \in Instance, NEW o \in Outcomes(i),
           i.aip # EmptyMap => i.cur \in cm.Parallel
    PROVE  /\ o.inst.aip # EmptyMap => o.inst.cur \in cm.Parallel
           /\ i.cur \in cm.Terminal =>
                 o.inst.cur = i.cur \/ o.change.name = ForceName
  <1>1. cm.Parallel \cap cm.Terminal = {}
    BY CompiledAssumption DEF WellCompiled, leaves
  <1>2. ASSUME NEW n \in Names, IsTransition(i, n, o)
        PROVE  /\ o.inst.aip # EmptyMap => o.inst.cur \in cm.Parallel
               /\ i.cur \notin cm.Terminal
    BY <1>2, TransitionKeeps
  <1>3. ASSUME NEW n \in Names, IsStuck(i, n, o)
        PROVE  o.inst.aip = i.aip /\ o.inst.cur = i.cur
    <2>1. Conf(o.inst) = Conf(i)
      BY <1>3, StuckLogs
    <2>2. QED
      BY <2>1 DEF Conf
  <1>4. ASSUME NEW n \in Names, IsIntra(i, n, o)
        PROVE  i.aip # EmptyMap /\ o.inst.cur = i.cur
    <2>1. i.aip # EmptyMap
      BY <1>4 DEF IsIntra
    <2>2. o.inst.cur = i.cur
      BY <1>4, IntraMoves
    <2>3. QED
      BY <2>1, <2>2
  <1>5. ASSUME NEW n \in Names, IsExit(i, n, o)
        PROVE  i.aip # EmptyMap /\ o.inst.aip = EmptyMap
    BY <1>5, ExitKeeps
  <1>6. ASSUME NEW t \in States, o = forceState(i, t)
        PROVE  /\ o.inst.aip # EmptyMap => o.inst.cur \in cm.Parallel
               /\ o.change.name = ForceName
    BY <1>6, ForceKeeps, ForceLogs DEF Logs
  <1>7. QED
    BY <1>1, <1>2, <1>3, <1>4, <1>5, <1>6, OutcomeKinds

\* Every step keeps active regions to parallel states.
LEMMA NextRegions ==
    ASSUME Transactional, UniqueKey, Inv, RegionsInParallel, [Next]_vars
    PROVE  RegionsInParallel'
  <1>1. CASE UNCHANGED <<row, log>>
    BY <1>1 DEF RegionsInParallel
  <1>2. CASE Born
    BY <1>2 DEF Born, RegionsInParallel, fresh
  <1>3. ASSUME NEW o, Committed(o) \/ Marked(o) PROVE RegionsInParallel'
    <2>1. Replaced(o)
      BY <1>3 DEF Committed, Marked
    <2>2. QED
      BY <2>1, OutcomeTerminal DEF Replaced, RegionsInParallel
  <1>4. QED
    BY <1>1, <1>2, <1>3, NextEffect

\* The name of the last event once an outcome is committed.
LEMMA CommittedName ==
    ASSUME TypeInv, NEW o, Committed(o)
    PROVE  log' # log /\ log'[Len(log')].change.name = o.change.name
  <1>1. PICK e \in Event : e.change = o.change /\ log' = Append(log, e)
    BY DEF Committed
  <1>2. QED
    BY <1>1, LogAppended

\* A transition that only marks the instance is not forced.
LEMMA MarkedName ==
    ASSUME NEW o, Marked(o)
    PROVE  ~\E t \in States : o = forceState(row.inst, t)
  <1>1. row.inst \in Instance /\ ~o.change.applied
    BY DEF Marked, Replaced
  <1>2. \A t \in States : forceState(row.inst, t).change.applied
    BY <1>1, ForceLogs DEF Logs
  <1>3. QED
    BY <1>1, <1>2

\* Only ForceState, with its event, takes the mark off an instance that got
\* stuck: a caller that read the instance before it was marked loses the race
\* for the row instead of writing it back unmarked.
THEOREM StuckCorrect ==
    ASSUME StrictClock, Transactional, UniqueKey
    PROVE  Spec => StuckSticky
  <1>1. ASSUME Inv, [Next]_vars, row # NoRow, row.inst.stuck, row' # row
        PROVE  \/ row'.inst.stuck
               \/ log' # log /\ log'[Len(log')].change.name = ForceName
    <2>1. PICK o : Committed(o) \/ Marked(o)
      BY <1>1, NextEffect DEF Born
    <2>2. row'.inst = o.inst /\ row.inst \in Instance /\ o \in Outcomes(row.inst)
      BY <2>1 DEF Committed, Marked, Replaced
    <2>3. row'.inst.stuck \/ o.change.name = ForceName
      BY <1>1, <2>2, OutcomeStuck
    <2>4. CASE Committed(o)
      BY <1>1, <2>3, <2>4, CommittedName DEF Inv
    <2>5. CASE Marked(o)
      <3>1. PICK n \in Names :
              \/ IsTransition(row.inst, n, o) \/ IsStuck(row.inst, n, o)
              \/ IsIntra(row.inst, n, o) \/ IsExit(row.inst, n, o)
        BY <2>2, <2>5, OutcomeKinds, MarkedName
      <3>2. o.inst.stuck
        BY <1>1, <2>2, <3>1, TransitionKeeps, StuckKeeps, IntraMoves, ExitKeeps
      <3>3. QED
        BY <2>2, <3>2
    <2>6. QED
      BY <2>1, <2>4, <2>5
  <1>2. Inv /\ [Next]_vars =>
          [row # NoRow /\ row.inst.stuck /\ row' # row =>
             \/ row'.inst.stuck
             \/ log' # log /\ log'[Len(log')].change.name = ForceName]_vars
    BY <1>1
  <1>3. Inv /\ [Next]_vars => Inv'
    BY NextInv
  <1>4. QED
    BY <1>2, <1>3, InitInv, PTL DEF Spec, StuckSticky

\* Only ForceState, with its event, moves an instance out of a terminal state,
\* however stale the copy a transition was validated on: validateTransition
\* checks the copy, and the lock makes it the stored instance; and no region is
\* active in a terminal state, so commitParallelExit cannot leave it.
THEOREM TerminalCorrect ==
    ASSUME StrictClock, Transactional, UniqueKey
    PROVE  Spec => TerminalSticky
  <1>1. ASSUME Inv, RegionsInParallel, [Next]_vars,
               row # NoRow, row.inst.cur \in cm.Terminal, row' # row
        PROVE  \/ row'.inst.cur = row.inst.cur
               \/ log' # log /\ log'[Len(log')].change.name = ForceName
    <2>1. PICK o : Committed(o) \/ Marked(o)
      BY <1>1, NextEffect DEF Born
    <2>2. row'.inst = o.inst /\ row.inst \in Instance /\ o \in Outcomes(row.inst)
      BY <2>1 DEF Committed, Marked, Replaced
    <2>3. row'.inst.cur = row.inst.cur \/ o.change.name = ForceName
      BY <1>1, <2>2, OutcomeTerminal DEF RegionsInParallel
    <2>4. CASE Committed(o)
      BY <1>1, <2>3, <2>4, CommittedName DEF Inv
    <2>5. CASE Marked(o)
      <3>1. Conf(o.inst) = Conf(row.inst)
        BY <2>2, <2>5, OutcomesType DEF IsOutcome, Marked
      <3>2. QED
        BY <2>2, <3>1 DEF Conf
    <2>6. QED
      BY <2>1, <2>4, <2>5
  <1>2. Inv /\ RegionsInParallel /\ [Next]_vars =>
          [row # NoRow /\ row.inst.cur \in cm.Terminal /\ row' # row =>
             \/ row'.inst.cur = row.inst.cur
             \/ log' # log /\ log'[Len(log')].change.name = ForceName]_vars
    BY <1>1
  <1>3. Inv /\ RegionsInParallel /\ [Next]_vars => (Inv /\ RegionsInParallel)'
    BY NextInv, NextRegions
  <1>4. Init => Inv /\ RegionsInParallel
    BY InitInv DEF Init, RegionsInParallel
  <1>5. QED
    BY <1>2, <1>3, <1>4, PTL DEF Spec, TerminalSticky

----------------------------------------------------------------------------
(* The call of the caller that takes a step, and the calls of the others *)

\* The callers other than c are where they were.
Others(c) ==
    \A d \in Callers : d # c => pc'[d] = pc[d] /\ op'[d] = op[d] /\ out'[d] = out[d]

\* c has returned.
Returned(c) == Others(c) /\ pc'[c] = "idle" /\ op'[c] = NoCall

\* c has gone on to the given step with the call and plan it had.
GoneOn(c, step) ==
    Others(c) /\ pc'[c] = step /\ op'[c] = op[c] /\ out'[c] = out[c]

\* A call that returns leaves the other calls alone.
LEMMA ReturnReturned ==
    ASSUME TypeInv, NEW c \in Callers, return(c) PROVE Returned(c)
  BY DEF TypeInv, LocalsOK, return, goto, Others, Returned

\* So does one that only goes on.
LEMMA GotoGoneOn ==
    ASSUME TypeInv, NEW c \in Callers, NEW step, goto(c, step), UNCHANGED <<op, out>>
    PROVE  GoneOn(c, step)
  BY DEF TypeInv, LocalsOK, goto, Others, GoneOn

\* Planning a write keeps the call, and goes on to where the event is appended
\* unless the stores are transactional or the instance is only marked.
LEMMA PlanGoesOn ==
    ASSUME TypeInv, NEW c \in Callers, pc[c] = "loaded",
           NEW outcomes, NEW step \in {"mark", "invalidate", "append"},
           plan(c, outcomes, step)
    PROVE  /\ Others(c) /\ op'[c] = op[c]
           /\ \/ pc'[c] = "mark"
              \/ ~Transactional /\ pc'[c] \in {"invalidate", "append"}
              \/ Transactional /\ pc'[c] = "update"
           /\ UNCHANGED <<row, log, tasks, bus, calls>>
  <1>1. PICK o : out' = [out EXCEPT ![c] = o]
    BY DEF plan
  <1>2. PICK next : /\ pc' = [pc EXCEPT ![c] = next]
                    /\ \/ next = "mark"
                       \/ ~Transactional /\ next \in {"invalidate", "append"}
                       \/ Transactional /\ next = "update"
    BY DEF plan, goto
  <1>3. UNCHANGED <<row, log, tasks, bus, calls, op>>
    BY DEF plan, stores
  <1>4. QED
    BY <1>1, <1>2, <1>3 DEF TypeInv, LocalsOK, Others

\* The five actions that plan a write.
Planning(c) ==
    \/ CommitTransition(c) \/ CommitStuck(c)
    \/ CommitParallelIntra(c) \/ CommitParallelExit(c) \/ ForceState(c)

\* What they do to the call.
LEMMA PlanningCall ==
    ASSUME TypeInv, NEW c \in Callers, Planning(c)
    PROVE  /\ pc[c] = "loaded" /\ Others(c) /\ op'[c] = op[c]
           /\ \/ pc'[c] = "mark"
              \/ ~Transactional /\ pc'[c] \in {"invalidate", "append"}
              \/ Transactional /\ pc'[c] = "update"
           /\ UNCHANGED <<row, log, tasks, bus, calls>>
  <1>1. CASE CommitTransition(c)
    BY <1>1, PlanGoesOn DEF CommitTransition, executing
  <1>2. CASE CommitStuck(c)
    BY <1>2, PlanGoesOn DEF CommitStuck, executing
  <1>3. CASE CommitParallelIntra(c)
    BY <1>3, PlanGoesOn DEF CommitParallelIntra, executing
  <1>4. CASE CommitParallelExit(c)
    BY <1>4, PlanGoesOn DEF CommitParallelExit, executing
  <1>5. CASE ForceState(c)
    BY <1>5, PlanGoesOn DEF ForceState
  <1>6. QED
    BY <1>1, <1>2, <1>3, <1>4, <1>5 DEF Planning

\* Match decides on a transition, for a task by way of the task store.
LEMMA MatchCall ==
    ASSUME TypeInv, NEW c \in Callers, Match(c)
    PROVE  /\ pc[c] = "match" /\ UNCHANGED <<row, log, tasks, bus, calls>>
           /\ \/ Returned(c)
              \/ /\ Others(c)
                 /\ op'[c].id = op[c].id /\ op'[c].task = op[c].task
                 /\ op'[c].kind = "transition"
                 /\ pc'[c] = IF op[c].kind = "task" THEN "complete" ELSE "load"
  <1>1. pc[c] = "match" /\ UNCHANGED <<row, log, tasks, bus, calls>>
    BY DEF Match, stores
  <1>2. CASE chosen(op[c], base[c].inst) = {}
    BY <1>1, <1>2, ReturnReturned DEF Match
  <1>3. CASE chosen(op[c], base[c].inst) # {}
    <2>1. PICK n : op' = [op EXCEPT ![c].arg = n, ![c].kind = "transition"]
      BY <1>3 DEF Match
    <2>2. goto(c, IF op[c].kind = "task" THEN "complete" ELSE "load") /\ UNCHANGED out
      BY <1>3 DEF Match
    <2>3. op[c] \in Call
      BY DEF TypeInv, LocalsOK
    <2>4. op'[c].id = op[c].id /\ op'[c].task = op[c].task /\ op'[c].kind = "transition"
      BY <2>1, <2>3 DEF TypeInv, LocalsOK, Call
    <2>5. Others(c) /\ pc'[c] = IF op[c].kind = "task" THEN "complete" ELSE "load"
      BY <2>1, <2>2 DEF TypeInv, LocalsOK, goto, Others
    <2>6. QED
      BY <1>1, <2>4, <2>5
  <1>4. QED
    BY <1>2, <1>3

\* The actions after which the call has returned, or has gone on to a later
\* step without touching the log, the bus or the count of calls.
LEMMA PlainCalls ==
    ASSUME TypeInv, NEW c \in Callers,
           \/ Load(c) \/ LoadMissing(c) \/ Create(c) \/ CreateDuplicate(c)
           \/ CompleteInStore(c) \/ Reject(c) \/ Invalidate(c) \/ Conflict(c)
           \/ MarkStuck(c) \/ Abort(c) \/ CreateTask(c)
    PROVE  /\ UNCHANGED <<log, bus, calls>>
           /\ pc[c] # "idle"
           /\ \/ Returned(c)
              \/ /\ GoneOn(c, pc'[c])
                 /\ pc[c] \notin {"task", "emit", "update"}
                 /\ pc'[c] \in {"match", "loaded", "create", "load", "append"}
                 /\ pc'[c] = "append" => pc[c] = "invalidate"
                 /\ pc[c] = "complete" => CompleteInStore(c)
                 /\ pc'[c] = "match" => op[c].kind \in {"signal", "task"}
                 /\ op[c].kind = "task" => pc'[c] \in {"load", "match", "append"}
  <1>1. CASE Load(c)
    <2>1. GoneOn(c, afterLoad(op[c].kind))
      BY <1>1, GotoGoneOn DEF Load
    <2>2. QED
      BY <1>1, <2>1 DEF Load, afterLoad, stores, GoneOn
  <1>2. CASE LoadMissing(c)
    <2>1. \/ Returned(c)
          \/ GoneOn(c, "create") /\ op[c].kind \in {"transition", "signal"}
      BY <1>2, ReturnReturned, GotoGoneOn DEF LoadMissing, locals
    <2>2. QED
      BY <1>2, <2>1 DEF LoadMissing, stores, GoneOn
  <1>3. CASE Create(c)
    <2>1. GoneOn(c, afterLoad(op[c].kind))
      BY <1>3, GotoGoneOn DEF Create
    <2>2. QED
      BY <1>3, <2>1 DEF Create, afterLoad, GoneOn
  <1>4. CASE CompleteInStore(c)
    <2>1. Returned(c) \/ GoneOn(c, "load")
      BY <1>4, ReturnReturned, GotoGoneOn DEF CompleteInStore, locals
    <2>2. QED
      BY <1>4, <2>1 DEF CompleteInStore, GoneOn
  <1>5. CASE Invalidate(c)
    <2>1. GoneOn(c, "append")
      BY <1>5, GotoGoneOn DEF Invalidate, locals
    <2>2. QED
      BY <1>5, <2>1 DEF Invalidate, GoneOn
  <1>6. CASE CreateDuplicate(c) \/ Reject(c) \/ Conflict(c) \/ MarkStuck(c) \/ Abort(c)
             \/ CreateTask(c)
    BY <1>6, ReturnReturned DEF CreateDuplicate, Reject, Conflict, MarkStuck, Abort,
       CreateTask, stores
  <1>7. QED
    BY <1>1, <1>2, <1>3, <1>4, <1>5, <1>6

\* Appending the event, in a store without transactions.
LEMMA AppendCall ==
    ASSUME TypeInv, NEW c \in Callers, AppendEvent(c)
    PROVE  /\ pc[c] = "append" /\ GoneOn(c, "update") /\ log' = Append(log, eventOf(c))
           /\ UNCHANGED <<tasks, bus, calls>>
  <1>1. GoneOn(c, "update")
    BY GotoGoneOn DEF AppendEvent, locals
  <1>2. QED
    BY <1>1 DEF AppendEvent

\* Writing the row, and with transactions the event.
LEMMA UpdateCall ==
    ASSUME TypeInv, NEW c \in Callers, Update(c)
    PROVE  /\ pc[c] = "update"
           /\ log' = IF Transactional THEN Append(log, eventOf(c)) ELSE log
           /\ UNCHANGED <<bus, calls>>
           /\ IF out[c].change.applied THEN GoneOn(c, "emit") ELSE Returned(c)
  <1>1. IF out[c].change.applied THEN GoneOn(c, "emit") ELSE Returned(c)
    BY GotoGoneOn, ReturnReturned DEF Update, locals
  <1>2. QED
    BY <1>1 DEF Update

\* Emitting the event.
LEMMA EmitCall ==
    ASSUME TypeInv, NEW c \in Callers, Emit(c)
    PROVE  /\ pc[c] = "emit" /\ bus' \in {Append(bus, op[c].id), bus}
           /\ UNCHANGED <<log, tasks, calls>>
           /\ GoneOn(c, "task") \/ Returned(c)
  <1>1. GoneOn(c, "task") \/ Returned(c)
    BY GotoGoneOn, ReturnReturned DEF Emit, locals
  <1>2. QED
    BY <1>1 DEF Emit

\* A client starts a call.
LEMMA BeginCall ==
    ASSUME TypeInv, NEW c \in Callers, NEW r \in Requests, Begin(c, r)
    PROVE  /\ pc[c] = "idle" /\ Others(c) /\ pc'[c] = "load"
           /\ op'[c].kind = r.kind /\ op'[c].task = r.task /\ op'[c].id = calls + 1
           /\ r.kind = "task" => r.task \in DOMAIN tasks
           /\ UNCHANGED <<row, log, tasks, bus>> /\ calls' = calls + 1
  <1> DEFINE new == [kind |-> r.kind, arg |-> r.arg, task |-> r.task,
                     choice |-> IF r.kind = "task" THEN r.arg ELSE NoState,
                     id |-> calls + 1]
  <1>1. /\ op' = [op EXCEPT ![c] = new]
        /\ new.kind = r.kind /\ new.task = r.task /\ new.id = calls + 1
    BY DEF Begin
  <1> HIDE DEF new
  <1>2. pc' = [pc EXCEPT ![c] = "load"] /\ UNCHANGED <<row, log, tasks, bus, out>>
    BY DEF Begin, goto, stores, locals
  <1>3. QED
    BY <1>1, <1>2 DEF Begin, TypeInv, LocalsOK, Others

----------------------------------------------------------------------------
(* Events are emitted once, after they are in the log *)

\* Calls that run have numbers of their own, and a number is on the bus only
\* once its call is past EventBus.Emit.
Numbered ==
    /\ \A c \in Callers : pc[c] # "idle" => op[c].id <= calls
    /\ \A c, d \in Callers :
          pc[c] # "idle" /\ pc[d] # "idle" /\ op[c].id = op[d].id => c = d
    /\ \A k \in DOMAIN bus : bus[k] <= calls
    /\ \A c \in Callers : pc[c] \notin {"idle", "task"} =>
          \A k \in DOMAIN bus : bus[k] # op[c].id

\* The event of call id is among the given ones, applied or not.
InLog(events, id, applied) ==
    \E j \in DOMAIN events : events[j].id = id /\ events[j].change.applied = applied

\* A caller that emits has its event in the log; without transactions it is
\* there before the row is written.
Recorded ==
    \A c \in Callers :
        /\ pc[c] = "emit" => InLog(log, op[c].id, TRUE)
        /\ pc[c] = "update" /\ ~Transactional =>
              InLog(log, op[c].id, out[c].change.applied)

\* No event is emitted twice.
EmittedOnce == \A j, k \in DOMAIN bus : bus[j] = bus[k] => j = k

\* Every event on the bus is in the log.
EmittedLogged == \A k \in DOMAIN bus : InLog(log, bus[k], TRUE)

\* A step that starts no call and emits nothing keeps the numbers apart.
LEMMA KeepNumbered ==
    ASSUME Numbered, EmittedOnce, UNCHANGED <<bus, calls>>,
           \A d \in Callers : pc'[d] # "idle" =>
              /\ pc[d] # "idle" /\ op'[d].id = op[d].id
              /\ pc[d] = "task" => pc'[d] = "task"
    PROVE  Numbered' /\ EmittedOnce'
  BY DEF Numbered, EmittedOnce

\* What is in the log stays there.
LEMMA InLogKept ==
    ASSUME TypeInv, NEW id, NEW b, InLog(log, id, b),
           log' = log \/ \E e \in Event : log' = Append(log, e)
    PROVE  InLog(log', id, b)
  <1>1. PICK j \in DOMAIN log : log[j].id = id /\ log[j].change.applied = b
    BY DEF InLog
  <1>2. log \in Seq(Event)
    BY DEF TypeInv, StoresOK
  <1>3. j \in DOMAIN log' /\ log'[j] = log[j]
    BY <1>2
  <1>4. QED
    BY <1>1, <1>3 DEF InLog

\* An event that is appended is in the log.
LEMMA InLogAppended ==
    ASSUME TypeInv, NEW e \in Event, log' = Append(log, e), NEW id, NEW b,
           e.id = id, e.change.applied = b
    PROVE  InLog(log', id, b)
  <1>1. log \in Seq(Event) /\ Len(log) \in Nat
    BY DEF TypeInv, StoresOK
  <1>2. Len(log) + 1 \in DOMAIN log' /\ log'[Len(log) + 1] = e
    BY <1>1
  <1>3. QED
    BY <1>2 DEF InLog

\* Every step of a caller keeps the numbers apart.
LEMMA StepNumbered ==
    ASSUME TypeInv, Numbered, EmittedOnce, NEW c \in Callers, Step(c)
    PROVE  Numbered' /\ EmittedOnce'
  <1>0. /\ calls \in Nat /\ bus \in Seq(Nat)
        /\ \A d \in Callers : op[d].id \in Nat
    BY DEF TypeInv, StoresOK, LocalsOK, Call
  <1>1. ASSUME NEW r \in Requests, Begin(c, r) PROVE Numbered' /\ EmittedOnce'
    <2>1. /\ Others(c) /\ op'[c].id = calls + 1 /\ UNCHANGED bus /\ calls' = calls + 1
      BY <1>1, BeginCall
    <2>2. \A d \in Callers : d # c => pc'[d] = pc[d] /\ op'[d].id = op[d].id
      BY <2>1 DEF Others
    <2>3. \A k \in DOMAIN bus : bus[k] \in Nat
      BY <1>0
    <2>4. EmittedOnce'
      BY <2>1 DEF EmittedOnce
    <2>5. \A d \in Callers : d # c /\ pc'[d] # "idle" => op'[d].id < calls'
      BY <1>0, <2>1, <2>2 DEF Numbered
    <2>6. \A k \in DOMAIN bus' : bus'[k] < calls'
      BY <1>0, <2>1, <2>3 DEF Numbered
    <2>7. Numbered'
      BY <1>0, <2>1, <2>2, <2>3, <2>5, <2>6 DEF Numbered
    <2>8. QED
      BY <2>4, <2>7
  <1>2. CASE Emit(c)
    <2>1. /\ pc[c] = "emit" /\ bus' \in {Append(bus, op[c].id), bus} /\ UNCHANGED calls
          /\ GoneOn(c, "task") \/ Returned(c)
      BY <1>2, EmitCall
    <2>2. \A d \in Callers : d # c => pc'[d] = pc[d] /\ op'[d].id = op[d].id
      BY <2>1 DEF GoneOn, Returned, Others
    <2>3. pc'[c] = "idle" \/ (pc'[c] = "task" /\ op'[c].id = op[c].id)
      BY <2>1 DEF GoneOn, Returned
    <2>4. CASE bus' = bus
      BY <2>1, <2>2, <2>3, <2>4, KeepNumbered
    <2>5. CASE bus' = Append(bus, op[c].id)
      <3>1. /\ Len(bus) \in Nat /\ DOMAIN bus = 1..Len(bus)
            /\ DOMAIN bus' = 1..(Len(bus) + 1)
            /\ bus'[Len(bus) + 1] = op[c].id
            /\ \A k \in 1..Len(bus) : bus'[k] = bus[k]
        BY <1>0, <2>5
      <3>2. \A k \in DOMAIN bus' : k \in DOMAIN bus \/ k = Len(bus) + 1
        BY <3>1
      <3>3. \A k \in DOMAIN bus : bus[k] # op[c].id /\ bus[k] <= calls
        BY <2>1 DEF Numbered
      <3>4. op[c].id <= calls
        BY <2>1 DEF Numbered
      <3>5. EmittedOnce'
        BY <3>1, <3>2, <3>3 DEF EmittedOnce
      <3>6. Numbered'
        BY <2>1, <2>2, <2>3, <3>1, <3>2, <3>3, <3>4 DEF Numbered
      <3>7. QED
        BY <3>5, <3>6
    <2>6. QED
      BY <2>1, <2>4, <2>5
  <1>3. ASSUME UNCHANGED <<bus, calls>>, Others(c), pc[c] # "idle",
               \/ pc'[c] = "idle"
               \/ pc[c] # "task" /\ op'[c].id = op[c].id
        PROVE  Numbered' /\ EmittedOnce'
    BY <1>3, KeepNumbered DEF Others
  <1>4. CASE Planning(c)
    BY <1>3, <1>4, PlanningCall
  <1>5. CASE Match(c)
    BY <1>3, <1>5, MatchCall DEF Returned
  <1>6. CASE AppendEvent(c)
    BY <1>3, <1>6, AppendCall DEF GoneOn
  <1>7. CASE Update(c)
    BY <1>3, <1>7, UpdateCall DEF GoneOn, Returned
  <1>8. CASE \/ Load(c) \/ LoadMissing(c) \/ Create(c) \/ CreateDuplicate(c)
             \/ CompleteInStore(c) \/ Reject(c) \/ Invalidate(c) \/ Conflict(c)
             \/ MarkStuck(c) \/ Abort(c) \/ CreateTask(c)
    <2>1. /\ UNCHANGED <<bus, calls>> /\ pc[c] # "idle"
          /\ \/ Returned(c)
             \/ GoneOn(c, pc'[c]) /\ pc[c] # "task"
      BY <1>8, PlainCalls
    <2>2. QED
      BY <1>3, <2>1 DEF GoneOn, Returned
  <1>9. QED
    BY <1>1, <1>2, <1>4, <1>5, <1>6, <1>7, <1>8 DEF Step, Planning

\* Every step of a caller leaves events to be emitted in the log.
LEMMA StepRecorded ==
    ASSUME TypeInv, Recorded, EmittedLogged, NEW c \in Callers, Step(c)
    PROVE  Recorded' /\ EmittedLogged'
  <1>1. ASSUME log' = log \/ \E e \in Event : log' = Append(log, e),
               UNCHANGED bus, Others(c),
               pc'[c] = "emit" => InLog(log', op'[c].id, TRUE),
               pc'[c] = "update" /\ ~Transactional =>
                  InLog(log', op'[c].id, out'[c].change.applied)
        PROVE  Recorded' /\ EmittedLogged'
    <2>1. ASSUME NEW d \in Callers
          PROVE  /\ pc'[d] = "emit" => InLog(log', op'[d].id, TRUE)
                 /\ pc'[d] = "update" /\ ~Transactional =>
                       InLog(log', op'[d].id, out'[d].change.applied)
      <3>1. CASE d = c
        BY <1>1, <3>1
      <3>2. CASE d # c
        <4>1. pc'[d] = pc[d] /\ op'[d] = op[d] /\ out'[d] = out[d]
          BY <1>1, <3>2 DEF Others
        <4>2. pc[d] = "emit" => InLog(log', op[d].id, TRUE)
          BY <1>1, InLogKept DEF Recorded
        <4>3. pc[d] = "update" /\ ~Transactional =>
                InLog(log', op[d].id, out[d].change.applied)
          BY <1>1, InLogKept DEF Recorded
        <4>4. QED
          BY <4>1, <4>2, <4>3 DEF InLog
      <3>3. QED
        BY <3>1, <3>2
    <2>2. Recorded'
      BY <2>1 DEF Recorded, InLog
    <2>3. EmittedLogged'
      <3>1. ASSUME NEW k \in DOMAIN bus PROVE InLog(log', bus[k], TRUE)
        BY <1>1, InLogKept DEF EmittedLogged
      <3>2. QED
        BY <1>1, <3>1 DEF EmittedLogged, InLog
    <2>4. QED
      BY <2>2, <2>3
  <1>2. CASE Emit(c)
    <2>1. /\ pc[c] = "emit" /\ bus' \in {Append(bus, op[c].id), bus} /\ UNCHANGED log
          /\ GoneOn(c, "task") \/ Returned(c)
      BY <1>2, EmitCall
    <2>2. Recorded'
      BY <2>1 DEF Recorded, InLog, GoneOn, Returned, Others
    <2>3. ASSUME NEW k \in DOMAIN bus'
          PROVE  InLog(log, bus'[k], TRUE)
      <3>1. bus \in Seq(Nat)
        BY DEF TypeInv, StoresOK
      <3>2. \/ k \in DOMAIN bus /\ bus'[k] = bus[k]
            \/ bus'[k] = op[c].id
        BY <2>1, <2>3, <3>1
      <3>3. QED
        BY <2>1, <3>2 DEF Recorded, EmittedLogged
    <2>4. EmittedLogged'
      BY <2>1, <2>3 DEF EmittedLogged, InLog
    <2>5. QED
      BY <2>2, <2>4
  <1>3. CASE AppendEvent(c)
    <2>1. /\ pc'[c] = "update" /\ op'[c] = op[c] /\ out'[c] = out[c] /\ Others(c)
          /\ log' = Append(log, eventOf(c)) /\ UNCHANGED bus /\ pc[c] = "append"
      BY <1>3, AppendCall DEF GoneOn
    <2>2. /\ eventOf(c) \in Event /\ eventOf(c).id = op[c].id
          /\ eventOf(c).change = out[c].change
      BY <2>1, WrittenType DEF eventOf
    <2>3. InLog(log', op[c].id, out[c].change.applied)
      BY <2>1, <2>2, InLogAppended
    <2>4. InLog(log', op'[c].id, out'[c].change.applied)
      BY <2>1, <2>3 DEF InLog
    <2>5. QED
      BY <1>1, <2>1, <2>2, <2>4
  <1>4. CASE Update(c)
    <2>1. /\ pc[c] = "update" /\ UNCHANGED bus
          /\ log' = IF Transactional THEN Append(log, eventOf(c)) ELSE log
          /\ IF out[c].change.applied THEN GoneOn(c, "emit") ELSE Returned(c)
      BY <1>4, UpdateCall
    <2>2. /\ eventOf(c) \in Event /\ eventOf(c).id = op[c].id
          /\ eventOf(c).change = out[c].change /\ out[c].change \in Change
      BY <2>1, WrittenType DEF eventOf
    <2>3. CASE ~out[c].change.applied
      BY <1>1, <2>1, <2>2, <2>3 DEF Returned
    <2>4. CASE out[c].change.applied
      <3>1. out[c].change.applied = TRUE
        BY <2>2, <2>4 DEF Change
      <3>2. InLog(log', op[c].id, TRUE)
        <4>1. CASE Transactional
          BY <2>1, <2>2, <3>1, <4>1, InLogAppended
        <4>2. CASE ~Transactional
          BY <2>1, <3>1, <4>2, InLogKept DEF Recorded
        <4>3. QED
          BY <4>1, <4>2
      <3>3. pc'[c] = "emit" /\ op'[c] = op[c] /\ Others(c)
        BY <2>1, <2>4 DEF GoneOn
      <3>4. InLog(log', op'[c].id, TRUE)
        BY <3>2, <3>3 DEF InLog
      <3>5. QED
        BY <1>1, <2>1, <2>2, <3>3, <3>4
    <2>5. QED
      BY <2>3, <2>4
  <1>5. CASE \E r \in Requests : Begin(c, r)
    BY <1>1, <1>5, BeginCall
  <1>6. CASE Planning(c)
    BY <1>1, <1>6, PlanningCall
  <1>7. CASE Match(c)
    BY <1>1, <1>7, MatchCall DEF Returned
  <1>8. CASE \/ Load(c) \/ LoadMissing(c) \/ Create(c) \/ CreateDuplicate(c)
             \/ CompleteInStore(c) \/ Reject(c) \/ Invalidate(c) \/ Conflict(c)
             \/ MarkStuck(c) \/ Abort(c) \/ CreateTask(c)
    <2>1. /\ UNCHANGED <<log, bus>>
          /\ \/ Returned(c)
             \/ /\ GoneOn(c, pc'[c])
                /\ pc'[c] \in {"match", "loaded", "create", "load", "append"}
      BY <1>8, PlainCalls
    <2>2. QED
      BY <1>1, <2>1 DEF GoneOn, Returned
  <1>9. QED
    BY <1>2, <1>3, <1>4, <1>5, <1>6, <1>7, <1>8 DEF Step, Planning

\* What the emission of events rests on.
EmitInv == TypeInv /\ Numbered /\ Recorded /\ EmittedOnce /\ EmittedLogged

\* Every step preserves it.
LEMMA NextEmit == EmitInv /\ [Next]_vars => EmitInv'
  <1> SUFFICES ASSUME EmitInv, [Next]_vars PROVE EmitInv'
    OBVIOUS
  <1>1. TypeInv'
    BY NextType DEF EmitInv
  <1>2. CASE UNCHANGED vars
    BY <1>1, <1>2
    DEF vars, EmitInv, Numbered, Recorded, EmittedOnce, EmittedLogged, InLog
  <1>3. CASE Next
    BY <1>1, <1>2, <1>3, StepNumbered, StepRecorded DEF Next, Quiet, EmitInv
  <1>4. QED
    BY <1>2, <1>3

\* Over any stores and with any clock, every event on the bus is in the event
\* store and was applied, and none is emitted twice: runPostCommit follows the
\* commit, and a call that conflicts, fails or gets stuck never reaches it.
THEOREM EmitCorrect == Spec => []PublishedCommitted
  <1>1. Init => EmitInv
    BY InitType DEF Init, EmitInv, Numbered, Recorded, EmittedOnce, EmittedLogged
  <1>2. EmitInv => PublishedCommitted
    <2> SUFFICES ASSUME EmitInv PROVE PublishedCommitted
      OBVIOUS
    <2>1. ASSUME NEW k \in DOMAIN bus
          PROVE  \E j \in DOMAIN log : log[j].id = bus[k] /\ log[j].change.applied
      BY DEF EmitInv, EmittedLogged, InLog
    <2>2. QED
      BY <2>1 DEF EmitInv, EmittedOnce, PublishedCommitted
  <1>3. QED
    BY <1>1, <1>2, NextEmit, PTL DEF Spec

----------------------------------------------------------------------------
(* The completion of a task fires one transition *)

\* Only CompleteTask carries a task; it is looked up, and completed in the task
\* store before the transition starts.
TaskCalls ==
    \A c \in Callers :
        /\ op[c].kind \in {"signal", "force"} => op[c].task = 0
        /\ op[c].kind = "task" => op[c].task \in DOMAIN tasks /\ pc[c] \in {"load", "match"}
        /\ pc[c] = "match" => op[c].kind \in {"signal", "task"}
        /\ pc[c] = "complete" => op[c].task \in DOMAIN tasks
        /\ pc[c] \in {"invalidate", "append"} => ~Transactional

\* The caller has completed a task and runs the transition it fires.
Armed(c) ==
    /\ pc[c] \notin {"idle", "complete"}
    /\ op[c].kind # "task" /\ op[c].task # 0

\* Its event is in the log.
HasLogged(c) == pc[c] \in {"emit", "task"} \/ (pc[c] = "update" /\ ~Transactional)

IsCompleted(ts, t) == t \in DOMAIN ts /\ ts[t].status = "completed"

\* A task that fires is completed and belongs to one caller, whose event, if it
\* is not in the log yet, will be the first for the task.
Owned ==
    /\ \A c \in Callers : Armed(c) => IsCompleted(tasks, op[c].task)
    /\ \A c, d \in Callers : Armed(c) /\ Armed(d) /\ op[c].task = op[d].task => c = d
    /\ \A k \in DOMAIN log : log[k].task # 0 => IsCompleted(tasks, log[k].task)
    /\ \A c \in Callers : Armed(c) /\ ~HasLogged(c) =>
          \A k \in DOMAIN log : log[k].task # op[c].task

TaskInv == TypeInv /\ TaskCalls /\ Owned /\ TaskFiresOnce

\* No step removes a task or takes back its completion.
TasksKept ==
    \A t \in DOMAIN tasks :
        t \in DOMAIN tasks' /\ (tasks[t].status = "completed" => tasks'[t].status = "completed")

\* Cancelling pending tasks does not.
LEMMA InvalidateKeeps ==
    ASSUME TypeInv, NEW S, tasks' \in {invalidateByStates(S), tasks} PROVE TasksKept
  BY DEF invalidateByStates, TasksKept

\* Neither does any step.
LEMMA StepKeepsTasks ==
    ASSUME TypeInv, NEW c \in Callers, Step(c) PROVE TasksKept
  <1>1. CASE UNCHANGED tasks
    BY <1>1 DEF TasksKept
  <1>2. CASE CompleteInStore(c)
    <2>1. tasks' \in {tasks, [tasks EXCEPT ![op[c].task].status = "completed"]}
      BY <1>2 DEF CompleteInStore
    <2>2. \A t \in DOMAIN tasks : tasks[t] \in Task
      BY DEF TypeInv, StoresOK
    <2>3. QED
      BY <2>1, <2>2 DEF TasksKept, Task
  <1>3. CASE Invalidate(c)
    BY <1>3, InvalidateKeeps DEF Invalidate
  <1>4. CASE Update(c)
    BY <1>4, InvalidateKeeps DEF Update
  <1>5. CASE CreateTask(c)
    <2>1. PICK t : tasks' \in {tasks, Append(tasks, t)}
      BY <1>5 DEF CreateTask
    <2>2. tasks \in Seq(Task)
      BY DEF TypeInv, StoresOK
    <2>3. QED
      BY <2>1, <2>2 DEF TasksKept
  <1>6. CASE \/ \E r \in Requests : Begin(c, r)
             \/ Load(c) \/ LoadMissing(c) \/ Create(c) \/ CreateDuplicate(c)
             \/ Match(c) \/ Reject(c) \/ Planning(c)
             \/ AppendEvent(c) \/ Conflict(c) \/ MarkStuck(c) \/ Abort(c) \/ Emit(c)
    <2>1. UNCHANGED tasks
      BY <1>6, PlanningCall DEF Begin, Load, LoadMissing, Create, CreateDuplicate, Match,
         Reject, AppendEvent, Conflict, MarkStuck, Abort, Emit, stores
    <2>2. QED
      BY <1>1, <2>1
  <1>7. QED
    BY <1>2, <1>3, <1>4, <1>5, <1>6 DEF Step, Planning

\* A step after which c has returned, or still has its task, keeps the calls in
\* order if c does.
LEMMA KeepTaskCalls ==
    ASSUME TaskCalls, TasksKept, NEW c \in Callers, Others(c),
           op'[c].kind \in {"signal", "force"} => op'[c].task = 0,
           op'[c].kind = "task" =>
              op'[c].task \in DOMAIN tasks /\ pc'[c] \in {"load", "match"},
           pc'[c] = "match" => op'[c].kind \in {"signal", "task"},
           pc'[c] = "complete" => op'[c].task \in DOMAIN tasks,
           pc'[c] \in {"invalidate", "append"} => ~Transactional
    PROVE  TaskCalls'
  BY DEF TaskCalls, TasksKept, Others

\* A step that arms no caller and logs nothing keeps tasks owned.
LEMMA KeepOwned ==
    ASSUME Owned, TaskFiresOnce, TasksKept, UNCHANGED log, NEW c \in Callers, Others(c),
           Armed(c)' => /\ Armed(c) /\ op'[c].task = op[c].task
                        /\ HasLogged(c) => HasLogged(c)'
    PROVE  Owned' /\ TaskFiresOnce'
  <1>1. \A d \in Callers : Armed(d)' => /\ Armed(d) /\ op'[d].task = op[d].task
                                        /\ HasLogged(d) => HasLogged(d)'
    BY DEF Others, Armed, HasLogged
  <1>2. \A t : IsCompleted(tasks, t) => IsCompleted(tasks', t)
    BY DEF IsCompleted, TasksKept
  <1>3. TaskFiresOnce'
    BY DEF TaskFiresOnce
  <1>4. QED
    BY <1>1, <1>2, <1>3 DEF Owned, Armed, HasLogged

\* A step that logs the event of c keeps tasks owned.
LEMMA LogOwned ==
    ASSUME TaskInv, TasksKept, NEW c \in Callers, Others(c),
           pc[c] \in {"append", "update"}, pc[c] = "update" => Transactional,
           log' = Append(log, eventOf(c)),
           Armed(c)' => op'[c] = op[c] /\ HasLogged(c)'
    PROVE  Owned' /\ TaskFiresOnce'
  <1> DEFINE n == Len(log)
             t == op[c].task
  <1>1. log \in Seq(Event) /\ n \in Nat /\ DOMAIN log = 1..n
    BY DEF TaskInv, TypeInv, StoresOK
  <1>2. eventOf(c).task = t /\ eventOf(c) \in Event
    BY WrittenType DEF eventOf, TaskInv
  <1>3. /\ DOMAIN log' = 1..(n + 1) /\ log'[n + 1] = eventOf(c)
        /\ \A k \in 1..n : log'[k] = log[k]
    BY <1>1, <1>2
  <1>4. t # 0 => Armed(c) /\ ~HasLogged(c)
    BY DEF Armed, HasLogged, TaskInv, TaskCalls
  <1> HIDE DEF n, t
  <1>5. \A k \in DOMAIN log' :
          \/ k \in DOMAIN log /\ log'[k] = log[k]
          \/ k = n + 1 /\ log'[k].task = t
    BY <1>1, <1>2, <1>3
  <1>6. t # 0 => IsCompleted(tasks, t) /\ \A k \in DOMAIN log : log[k].task # t
    BY <1>4 DEF TaskInv, Owned, t
  <1>7. \A u : IsCompleted(tasks, u) => IsCompleted(tasks', u)
    BY DEF IsCompleted, TasksKept
  <1>8. TaskFiresOnce'
    BY <1>5, <1>6 DEF TaskFiresOnce, TaskInv
  <1>9. \A d \in Callers : Armed(d)' => /\ op'[d].task = op[d].task
                                        /\ d # c => Armed(d) /\ (HasLogged(d) <=> HasLogged(d)')
    BY DEF Others, Armed, HasLogged
  <1>10. Armed(c)' => Armed(c) /\ t # 0
    BY <1>4, <1>9 DEF Armed, t
  <1>11. \A d \in Callers : Armed(d)' => IsCompleted(tasks', op'[d].task)
    BY <1>7, <1>9, <1>10 DEF TaskInv, Owned, Armed
  <1>12. \A d, e \in Callers : Armed(d)' /\ Armed(e)' /\ op'[d].task = op'[e].task => d = e
    BY <1>9, <1>10 DEF TaskInv, Owned, Armed
  <1>13. \A k \in DOMAIN log' : log'[k].task # 0 => IsCompleted(tasks', log'[k].task)
    BY <1>5, <1>6, <1>7 DEF TaskInv, Owned
  <1>14. ASSUME NEW d \in Callers, Armed(d)', ~HasLogged(d)', NEW k \in DOMAIN log'
         PROVE  log'[k].task # op'[d].task
    <2>1. d # c /\ Armed(d) /\ ~HasLogged(d) /\ op'[d].task = op[d].task
      BY <1>9, <1>14 DEF Armed, HasLogged
    <2>2. CASE k \in DOMAIN log /\ log'[k] = log[k]
      BY <2>1, <2>2 DEF TaskInv, Owned
    <2>3. CASE log'[k].task = t
      <3>1. op[d].task # 0
        BY <2>1 DEF Armed
      <3>2. t = op[d].task => Armed(c)
        BY <1>4, <3>1
      <3>3. t # op[d].task
        BY <2>1, <3>2 DEF TaskInv, Owned, t
      <3>4. QED
        BY <2>1, <2>3, <3>3
    <2>4. QED
      BY <1>5, <1>14, <2>2, <2>3
  <1>15. QED
    BY <1>8, <1>11, <1>12, <1>13, <1>14 DEF Owned

\* TaskStore.Complete gives the task to the caller: nobody else has it, and no
\* event was logged for it.
LEMMA CompleteOwned ==
    ASSUME CompleteOnce, TaskInv, TasksKept, NEW c \in Callers, CompleteInStore(c)
    PROVE  Owned' /\ TaskFiresOnce'
  <1> DEFINE t == op[c].task
  <1>1. pc[c] = "complete" /\ UNCHANGED log /\ t \in DOMAIN tasks
    BY DEF CompleteInStore, TaskInv, TaskCalls
  <1>2. CASE tasks[t].status = "completed"
    <2>1. Returned(c)
      BY <1>2, ReturnReturned DEF CompleteInStore, TaskInv
    <2>2. Others(c) /\ ~Armed(c)'
      BY <2>1 DEF Returned, Armed
    <2>3. QED
      BY <1>1, <2>2, KeepOwned DEF TaskInv
  <1>3. CASE tasks[t].status # "completed"
    <2>1. GoneOn(c, "load")
      BY <1>3, GotoGoneOn DEF CompleteInStore, TaskInv, locals
    <2>2. IsCompleted(tasks', t)
      <3>1. tasks' = [tasks EXCEPT ![t].status = "completed"]
        BY <1>3 DEF CompleteInStore
      <3>2. tasks[t] \in Task
        BY <1>1 DEF TaskInv, TypeInv, StoresOK
      <3>3. QED
        BY <1>1, <3>1, <3>2 DEF IsCompleted, Task
    <2>3. ~IsCompleted(tasks, t)
      BY <1>3 DEF IsCompleted
    <2>4. \A u : IsCompleted(tasks, u) => IsCompleted(tasks', u)
      BY DEF IsCompleted, TasksKept
    <2>5. \A d \in Callers : Armed(d)' =>
             \/ d = c /\ op'[d].task = t /\ ~HasLogged(d)' /\ t # 0
             \/ /\ d # c /\ Armed(d) /\ op'[d].task = op[d].task /\ op[d].task # t
                /\ HasLogged(d)' <=> HasLogged(d)
      <3>1. \A d \in Callers : Armed(d) => op[d].task # t
        BY <2>3 DEF TaskInv, Owned
      <3>2. QED
        BY <2>1, <3>1 DEF GoneOn, Others, Armed, HasLogged
    <2>6. \A k \in DOMAIN log : log[k].task # 0 => log[k].task # t
      BY <2>3 DEF TaskInv, Owned
    <2> HIDE DEF t
    <2>7. Owned'
      BY <1>1, <2>2, <2>4, <2>5, <2>6 DEF TaskInv, Owned, Armed, HasLogged
    <2>8. QED
      BY <1>1, <2>7 DEF TaskInv, TaskFiresOnce
  <1>4. QED
    BY <1>2, <1>3

\* Every step of a caller keeps the calls that carry a task in order.
LEMMA StepTaskCalls ==
    ASSUME TypeInv, TaskCalls, TasksKept, NEW c \in Callers, Step(c)
    PROVE  TaskCalls'
  <1>1. ASSUME Returned(c) PROVE TaskCalls'
    BY <1>1, KeepTaskCalls DEF Returned, NoCall
  <1>2. ASSUME NEW r \in Requests, Begin(c, r) PROVE TaskCalls'
    <2>1. r.kind # "task" => r.task = 0
      BY RequestsAssumption
    <2>2. /\ Others(c) /\ pc'[c] = "load" /\ op'[c].kind = r.kind /\ op'[c].task = r.task
          /\ r.kind = "task" => r.task \in DOMAIN tasks
      BY <1>2, BeginCall
    <2>3. QED
      BY <2>1, <2>2, KeepTaskCalls
  <1>3. CASE Planning(c)
    BY <1>3, PlanningCall, KeepTaskCalls DEF TaskCalls
  <1>4. CASE Match(c)
    BY <1>1, <1>4, MatchCall, KeepTaskCalls DEF TaskCalls
  <1>5. CASE AppendEvent(c)
    BY <1>5, AppendCall, KeepTaskCalls DEF TaskCalls, GoneOn
  <1>6. CASE Update(c)
    BY <1>1, <1>6, UpdateCall, KeepTaskCalls DEF TaskCalls, GoneOn
  <1>7. CASE Emit(c)
    BY <1>1, <1>7, EmitCall, KeepTaskCalls DEF TaskCalls, GoneOn
  <1>8. CASE \/ Load(c) \/ LoadMissing(c) \/ Create(c) \/ CreateDuplicate(c)
             \/ CompleteInStore(c) \/ Reject(c) \/ Invalidate(c) \/ Conflict(c)
             \/ MarkStuck(c) \/ Abort(c) \/ CreateTask(c)
    <2>1. \/ Returned(c)
          \/ /\ GoneOn(c, pc'[c])
             /\ pc'[c] \in {"match", "loaded", "create", "load", "append"}
             /\ pc'[c] = "append" => pc[c] = "invalidate"
             /\ pc'[c] = "match" => op[c].kind \in {"signal", "task"}
             /\ op[c].kind = "task" => pc'[c] \in {"load", "match", "append"}
      BY <1>8, PlainCalls
    <2>2. QED
      BY <1>1, <2>1, KeepTaskCalls DEF TaskCalls, GoneOn
  <1>9. QED
    BY <1>2, <1>3, <1>4, <1>5, <1>6, <1>7, <1>8 DEF Step, Planning

\* Every step of a caller keeps tasks owned, if Complete rejects a completed one.
LEMMA StepOwned ==
    ASSUME CompleteOnce, TaskInv, TasksKept, NEW c \in Callers, Step(c)
    PROVE  Owned' /\ TaskFiresOnce'
  <1>0. TypeInv /\ TaskCalls /\ Owned /\ TaskFiresOnce
    BY DEF TaskInv
  <1>1. ASSUME Returned(c), UNCHANGED log PROVE Owned' /\ TaskFiresOnce'
    BY <1>0, <1>1, KeepOwned DEF Returned, Armed
  <1>2. ASSUME NEW r \in Requests, Begin(c, r) PROVE Owned' /\ TaskFiresOnce'
    <2>1. r.kind # "task" => r.task = 0
      BY RequestsAssumption
    <2>2. /\ Others(c) /\ op'[c].kind = r.kind /\ op'[c].task = r.task /\ UNCHANGED log
      BY <1>0, <1>2, BeginCall
    <2>3. ~Armed(c)'
      BY <2>1, <2>2 DEF Armed
    <2>4. QED
      BY <1>0, <2>2, <2>3, KeepOwned
  <1>3. CASE Planning(c)
    <2>1. pc[c] = "loaded" /\ Others(c) /\ op'[c] = op[c] /\ UNCHANGED log
      BY <1>0, <1>3, PlanningCall
    <2>2. ~HasLogged(c) /\ (Armed(c)' => Armed(c))
      BY <2>1 DEF Armed, HasLogged
    <2>3. QED
      BY <1>0, <2>1, <2>2, KeepOwned
  <1>4. CASE Match(c)
    <2>1. /\ pc[c] = "match" /\ UNCHANGED log
          /\ \/ Returned(c)
             \/ /\ Others(c) /\ op'[c].task = op[c].task
                /\ pc'[c] = IF op[c].kind = "task" THEN "complete" ELSE "load"
      BY <1>0, <1>4, MatchCall
    <2>2. CASE ~Returned(c)
      <3>1. ~Armed(c)'
        BY <1>0, <2>1, <2>2 DEF Armed, TaskCalls
      <3>2. QED
        BY <1>0, <2>1, <2>2, <3>1, KeepOwned
    <2>3. QED
      BY <1>1, <2>1, <2>2
  <1>5. CASE AppendEvent(c)
    <2>1. /\ pc[c] = "append" /\ GoneOn(c, "update") /\ log' = Append(log, eventOf(c))
      BY <1>0, <1>5, AppendCall
    <2>2. ~Transactional
      BY <1>0, <2>1 DEF TaskCalls
    <2>3. op'[c] = op[c] /\ HasLogged(c)' /\ Others(c)
      BY <2>1, <2>2 DEF GoneOn, HasLogged
    <2>4. QED
      BY <2>1, <2>3, LogOwned
  <1>6. CASE Update(c)
    <2>1. /\ pc[c] = "update"
          /\ log' = IF Transactional THEN Append(log, eventOf(c)) ELSE log
          /\ IF out[c].change.applied THEN GoneOn(c, "emit") ELSE Returned(c)
      BY <1>0, <1>6, UpdateCall
    <2>2. Others(c) /\ (Armed(c)' => Armed(c) /\ op'[c] = op[c] /\ HasLogged(c)')
      BY <2>1 DEF GoneOn, Returned, Armed, HasLogged
    <2>3. CASE Transactional
      BY <2>1, <2>2, <2>3, LogOwned
    <2>4. CASE ~Transactional
      BY <1>0, <2>1, <2>2, <2>4, KeepOwned
    <2>5. QED
      BY <2>3, <2>4
  <1>7. CASE Emit(c)
    <2>1. pc[c] = "emit" /\ UNCHANGED log /\ (GoneOn(c, "task") \/ Returned(c))
      BY <1>0, <1>7, EmitCall
    <2>2. Others(c) /\ (Armed(c)' => Armed(c) /\ op'[c] = op[c] /\ HasLogged(c)')
      BY <2>1 DEF GoneOn, Returned, Armed, HasLogged
    <2>3. QED
      BY <1>0, <2>1, <2>2, KeepOwned
  <1>8. CASE \/ Load(c) \/ LoadMissing(c) \/ Create(c) \/ CreateDuplicate(c)
             \/ Reject(c) \/ Invalidate(c) \/ Conflict(c)
             \/ MarkStuck(c) \/ Abort(c) \/ CreateTask(c)
    <2>1. /\ UNCHANGED log /\ pc[c] # "idle"
          /\ \/ Returned(c)
             \/ /\ GoneOn(c, pc'[c]) /\ pc[c] \notin {"task", "emit", "update"}
                /\ pc[c] = "complete" => CompleteInStore(c)
      BY <1>0, <1>8, PlainCalls
    <2>2. CASE CompleteInStore(c)
      BY <2>2, CompleteOwned
    <2>3. CASE ~CompleteInStore(c) /\ ~Returned(c)
      <3>1. Others(c) /\ ~HasLogged(c) /\ (Armed(c)' => Armed(c)) /\ op'[c] = op[c]
        BY <2>1, <2>3 DEF GoneOn, Armed, HasLogged
      <3>2. QED
        BY <1>0, <2>1, <3>1, KeepOwned
    <2>4. QED
      BY <1>1, <2>1, <2>2, <2>3
  <1>9. CASE CompleteInStore(c)
    BY <1>9, CompleteOwned
  <1>10. QED
    BY <1>2, <1>3, <1>4, <1>5, <1>6, <1>7, <1>8, <1>9 DEF Step, Planning

\* Every step preserves the ownership of tasks.
LEMMA NextTask ==
    ASSUME CompleteOnce
    PROVE  TaskInv /\ [Next]_vars => TaskInv'
  <1> SUFFICES ASSUME TaskInv, [Next]_vars PROVE TaskInv'
    OBVIOUS
  <1>1. TypeInv'
    BY NextType DEF TaskInv
  <1>2. CASE UNCHANGED vars
    BY <1>1, <1>2
    DEF vars, TaskInv, TaskCalls, Owned, TaskFiresOnce, Armed, HasLogged, IsCompleted
  <1>3. ASSUME NEW c \in Callers, Step(c) PROVE TaskInv'
    <2>1. TasksKept
      BY <1>3, StepKeepsTasks DEF TaskInv
    <2>2. TaskCalls'
      BY <1>3, <2>1, StepTaskCalls DEF TaskInv
    <2>3. Owned' /\ TaskFiresOnce'
      BY <1>3, <2>1, StepOwned
    <2>4. QED
      BY <1>1, <2>2, <2>3 DEF TaskInv
  <1>4. QED
    BY <1>2, <1>3 DEF Next, Quiet

\* If the task store completes a task once, its completion fires at most one
\* transition, over any stores and with any clock: of the callers that found the
\* task pending and matched a transition, only the one that Complete let
\* through goes on, and its call logs at most one event.
THEOREM TaskCorrect == ASSUME CompleteOnce PROVE Spec => []TaskFiresOnce
  <1>1. Init => TaskInv
    <2> SUFFICES ASSUME Init PROVE TaskInv
      OBVIOUS
    <2>1. TypeInv
      BY InitType
    <2>2. TaskCalls /\ Owned /\ TaskFiresOnce
      BY DEF Init, TaskCalls, Owned, Armed, TaskFiresOnce, NoCall
    <2>3. QED
      BY <2>1, <2>2 DEF TaskInv
  <1>2. TaskInv => TaskFiresOnce
    BY DEF TaskInv
  <1>3. QED
    BY <1>1, <1>2, NextTask, PTL DEF Spec
============================================================================
