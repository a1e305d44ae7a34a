----------------------------- MODULE GraphProofs -----------------------------
(***************************************************************************)
(* What Compile makes of a declaration that Validate accepts, whatever its *)
(* size and depth: the compiled machine that the runtime takes for granted.*)
(***************************************************************************)
EXTENDS Graph, Recursion, FiniteSetTheorems, SequenceTheorems

----------------------------------------------------------------------------
(* The parents of an accepted definition form a forest *)

\* A definition as Build leaves it, without the checks that speak of
\* transitions.
Shaped(d) ==
    /\ IsFiniteSet(d.States) /\ NoState \notin d.States
    /\ d.Parent \in [d.States -> d.States \cup {NoState}]
    /\ d.Parallel \subseteq d.Compound /\ d.Compound \subseteq d.States
    /\ \A s \in d.States : d.Parent[s] \in d.Compound \cup {NoState}
    /\ \A p \in d.Parallel : d.Parent[p] = NoState /\ d.InitialChild[p] = NoState
    /\ checkCompoundStates(d)
    /\ ~Circular(d)

Size(d) == Cardinality(d.States)

\* One step up.
Above(d) == [s \in d.States \cup {NoState} |-> IF s \in d.States THEN d.Parent[s] ELSE NoState]

\* Going up is a function on the states and what is above the top.
LEMMA AboveType ==
    ASSUME NEW d, Shaped(d)
    PROVE  /\ Size(d) \in Nat
           /\ Above(d) \in [d.States \cup {NoState} -> d.States \cup {NoState}]
           /\ Above(d)[NoState] = NoState
           /\ \A s \in d.States : Above(d)[s] = d.Parent[s]
  <1>1. Size(d) \in Nat
    BY FS_CardinalityType DEF Shaped, Size
  <1>2. QED
    BY <1>1 DEF Shaped, Above

\* The states that the walk of ancestorsOf meets.
LEMMA AncestorsSteps ==
    ASSUME NEW d, Shaped(d), NEW s \in d.States, NEW n \in 1..Size(d),
           Iterate(Above(d), s, n) # NoState
    PROVE  Iterate(Above(d), s, n) \in ancestorsOf(d, s)
  <1> DEFINE N == Size(d)
             X == d.States \cup {NoState}
             D(g) == g = [k \in 0..N |->
                            IF k = 0 THEN s
                            ELSE IF g[k-1] \in d.States THEN d.Parent[g[k-1]] ELSE NoState]
             up == CHOOSE g : D(g)
             w == [k \in 0..N |-> Iterate(Above(d), s, k)]
  <1>1. N \in Nat /\ Above(d) \in [X -> X] /\ s \in X
    BY AboveType
  <1>2. /\ Iterate(Above(d), s, 0) = s
        /\ \A k \in Nat : /\ Iterate(Above(d), s, k) \in X
                          /\ Iterate(Above(d), s, k + 1) = Above(d)[Iterate(Above(d), s, k)]
    BY <1>1, StepNext
  <1>3. D(w)
    <2>1. ASSUME NEW k \in 0..N, k # 0
          PROVE  w[k] = IF w[k-1] \in d.States THEN d.Parent[w[k-1]] ELSE NoState
      <3>1. k - 1 \in Nat /\ k - 1 \in 0..N /\ (k - 1) + 1 = k
        BY <1>1, <2>1
      <3>2. w[k] = Above(d)[w[k-1]] /\ w[k-1] \in X
        BY <1>2, <3>1
      <3>3. QED
        BY <3>2 DEF Above
    <2>2. w[0] = s
      BY <1>1, <1>2
    <2> DEFINE v == [k \in 0..N |->
                            IF k = 0 THEN s
                            ELSE IF w[k-1] \in d.States THEN d.Parent[w[k-1]] ELSE NoState]
    <2>3. \A k \in 0..N : w[k] = v[k]
      BY <2>1, <2>2
    <2>4. w = v
      BY <2>3
    <2>5. QED
      BY <2>4
  <1>4. D(up)
    <2> HIDE DEF D, w
    <2>1. QED
      BY <1>3, Zenon
  <1> HIDE DEF up
  <1>5. Follows(Above(d), s, up, N)
    <2>1. up[0] = s
      BY <1>1, <1>4
    <2> DEFINE S == {k \in 0..N : up[k] = Iterate(Above(d), s, k)}
    <2>2. 0 \in S
      BY <1>1, <1>2, <2>1
    <2>3. ASSUME NEW k \in 0..(N - 1), k \in S PROVE k + 1 \in S
      <3>1. k + 1 \in 0..N /\ k + 1 # 0 /\ (k + 1) - 1 = k /\ k \in Nat
        BY <1>1
      <3>2. up[k+1] = IF up[k] \in d.States THEN d.Parent[up[k]] ELSE NoState
        BY <1>4, <3>1
      <3>3. up[k] = Iterate(Above(d), s, k) /\ up[k] \in X
        BY <1>2, <2>3, <3>1
      <3>4. up[k+1] = Above(d)[up[k]]
        BY <3>2, <3>3 DEF Above
      <3>5. QED
        BY <1>2, <3>1, <3>3, <3>4
    <2> HIDE DEF S
    <2>4. 0..N \subseteq S
      BY <1>1, <2>2, <2>3, Induction
    <2>5. \A k \in 0..N : up[k] = Iterate(Above(d), s, k)
      BY <2>4 DEF S
    <2> HIDE DEF N
    <2>6. ASSUME NEW k \in 0..(N - 1) PROVE up[k + 1] = Above(d)[up[k]]
      <3>1. k \in 0..N /\ k + 1 \in 0..N /\ k \in Nat
        BY <1>1
      <3>2. QED
        BY <1>2, <2>5, <3>1
    <2>7. QED
      BY <2>1, <2>6 DEF Follows
  <1>6. ancestorsOf(d, s) = {up[k] : k \in 1..N} \ {NoState}
    BY DEF ancestorsOf, Size, up
  <1> HIDE DEF N
  <1>7. n \in 0..N /\ n \in 1..N
    BY <1>1 DEF N
  <1>8. up[n] = Iterate(Above(d), s, n)
    <2> HIDE DEF X
    <2>1. QED
      BY <1>1, <1>5, <1>7, StepValue
  <1>9. QED
    BY <1>6, <1>7, <1>8

\* Every path ends above a root: a path longer than there are states would meet
\* one of them twice.
LEMMA PathEnds ==
    ASSUME NEW d, Shaped(d), NEW s \in d.States
    PROVE  \E n \in 0..Size(d) : Iterate(Above(d), s, n) = NoState
  <1> DEFINE N == Size(d)
             X == d.States \cup {NoState}
             at(n) == Iterate(Above(d), s, n)
  <1>1. N \in Nat /\ Above(d) \in [X -> X] /\ s \in X
    BY AboveType
  <1>2. SUFFICES ASSUME \A n \in 0..N : at(n) # NoState PROVE FALSE
    OBVIOUS
  <1>3. \A n \in Nat : at(n) \in X
    BY <1>1, StepNext
  <1> DEFINE f == [n \in 0..N |-> at(n)]
  <1>4. f \in [0..N -> d.States]
    BY <1>1, <1>2, <1>3
  <1>5. PICK i, j \in 0..N : i # j /\ f[i] = f[j]
    <2>1. IsFiniteSet(0..N) /\ Cardinality(0..N) = N + 1
      BY <1>1, FS_Interval
    <2>2. IsFiniteSet(d.States) /\ Cardinality(d.States) < Cardinality(0..N)
      BY <1>1, <2>1 DEF Shaped, Size
    <2> HIDE DEF f
    <2>3. QED
      BY <1>4, <2>1, <2>2, FS_PigeonHole
  <1>6. ASSUME NEW x \in 0..N, NEW y \in 0..N, x < y, f[x] = f[y] PROVE FALSE
    <2> DEFINE a == at(x)
               k == y - x
    <2>1. a \in d.States /\ at(y) = a
      BY <1>4, <1>6
    <2>2. k \in Nat /\ k \in 1..N /\ x \in Nat /\ x + k = y
      BY <1>1, <1>6
    <2> HIDE DEF k, X
    <2>3. Iterate(Above(d), a, k) = at(y)
      <3> DEFINE F == Above(d)
      <3> HIDE DEF F
      <3>1. F \in [X -> X]
        BY <1>1 DEF F
      <3>2. Iterate(F, Iterate(F, s, x), k) = Iterate(F, s, x + k)
        BY <1>1, <2>2, <3>1, StepAdd
      <3>3. QED
        BY <2>2, <3>2 DEF F
    <2> HIDE DEF a, at
    <2>4. a # NoState
      BY <2>1 DEF Shaped
    <2>5. a \in ancestorsOf(d, a)
      BY <2>1, <2>2, <2>3, <2>4, AncestorsSteps
    <2>6. QED
      BY <2>1, <2>5 DEF Shaped, Circular
  <1>7. i < j \/ j < i
    BY <1>5
  <1> HIDE DEF f
  <1>8. QED
    BY <1>5, <1>6, <1>7

\* n steps lead from s to above its root, and no fewer do.
RootAt(d, s, n) ==
    /\ Iterate(Above(d), s, n) = NoState
    /\ \A k \in 0..(n - 1) : Iterate(Above(d), s, k) # NoState

Depth(d, s) == CHOOSE n \in 0..Size(d) : RootAt(d, s, n)

\* Every state has a depth.
LEMMA DepthRoot ==
    ASSUME NEW d, Shaped(d), NEW s \in d.States
    PROVE  Depth(d, s) \in 1..Size(d) /\ RootAt(d, s, Depth(d, s))
  <1> DEFINE S == {n \in 0..Size(d) : Iterate(Above(d), s, n) = NoState}
             X == d.States \cup {NoState}
  <1>1. Size(d) \in Nat /\ Above(d) \in [X -> X]
    BY AboveType
  <1>2. S # {} /\ S \in SUBSET Nat
    BY <1>1, PathEnds
  <1>3. PICK n \in S : \A k \in S : n =< k
    <2> HIDE DEF S
    <2>1. QED
      BY <1>2, Least
  <1>4. RootAt(d, s, n)
    BY <1>1, <1>3 DEF RootAt
  <1>5. Depth(d, s) \in 0..Size(d) /\ RootAt(d, s, Depth(d, s))
    BY <1>3, <1>4 DEF Depth
  <1>6. Iterate(Above(d), s, 0) = s
    BY <1>1, StepNext
  <1>7. Depth(d, s) # 0
    BY <1>5, <1>6 DEF RootAt, Shaped
  <1>8. QED
    BY <1>1, <1>5, <1>7

\* A state is one deeper than its parent.
LEMMA DepthParent ==
    ASSUME NEW d, Shaped(d), NEW s \in d.States, d.Parent[s] # NoState
    PROVE  d.Parent[s] \in d.States /\ Depth(d, s) = Depth(d, d.Parent[s]) + 1
  <1> DEFINE p == d.Parent[s]
             X == d.States \cup {NoState}
             F == Above(d)
             i == Depth(d, s)
             j == Depth(d, p)
  <1>1. p \in d.States
    BY DEF Shaped
  <1>2. Size(d) \in Nat /\ F \in [X -> X] /\ s \in X /\ F[s] = p
    BY AboveType
  <1>3. i \in 1..Size(d) /\ j \in 1..Size(d) /\ RootAt(d, s, i) /\ RootAt(d, p, j)
    BY <1>1, DepthRoot
  <1>4. i \in Nat /\ j \in Nat /\ i > 0 /\ j > 0
    BY <1>2, <1>3
  <1> HIDE DEF p, X, i, j, F
  <1>5. Iterate(F, s, 0) = s /\ Iterate(F, s, 0 + 1) = F[Iterate(F, s, 0)]
    BY <1>2, StepNext
  <1>6. Iterate(F, s, 1) = p
    BY <1>2, <1>5
  <1>7. \A k \in Nat : Iterate(F, p, k) = Iterate(F, s, k + 1)
    <2>1. SUFFICES ASSUME NEW k \in Nat PROVE Iterate(F, p, k) = Iterate(F, s, k + 1)
      OBVIOUS
    <2>2. Iterate(F, Iterate(F, s, 1), k) = Iterate(F, s, 1 + k)
      BY <1>2, StepAdd
    <2>3. 1 + k = k + 1
      OBVIOUS
    <2>4. QED
      BY <1>6, <2>2, <2>3
  <1>8. /\ Iterate(F, s, i) = NoState /\ \A k \in 0..(i - 1) : Iterate(F, s, k) # NoState
        /\ Iterate(F, p, j) = NoState /\ \A k \in 0..(j - 1) : Iterate(F, p, k) # NoState
    BY <1>3 DEF RootAt, F
  <1>9. ~(i < j + 1)
    <2>1. SUFFICES ASSUME i < j + 1 PROVE FALSE
      OBVIOUS
    <2>2. i - 1 \in 0..(j - 1) /\ i - 1 \in Nat /\ (i - 1) + 1 = i
      BY <1>4, <2>1
    <2>3. Iterate(F, p, i - 1) = Iterate(F, s, i)
      BY <1>7, <2>2
    <2>4. QED
      BY <1>8, <2>2, <2>3
  <1>10. ~(j + 1 < i)
    <2>1. SUFFICES ASSUME j + 1 < i PROVE FALSE
      OBVIOUS
    <2>2. j + 1 \in 0..(i - 1)
      BY <1>4, <2>1
    <2>3. Iterate(F, s, j + 1) = NoState
      BY <1>4, <1>7, <1>8
    <2>4. QED
      BY <1>8, <2>2, <2>3
  <1>11. i = j + 1
    BY <1>4, <1>9, <1>10
  <1>12. QED
    BY <1>1, <1>11 DEF p, i, j

\* What the recursion of buildAncestry says of a map.
IsAncestry(d, g) ==
    g = [s \in d.States |-> IF d.Parent[s] = NoState THEN <<>>
                            ELSE <<d.Parent[s]>> \o g[d.Parent[s]]]

\* The paths to the roots, without their ends.
Paths(d) ==
    [s \in d.States |-> [k \in 1..(Depth(d, s) - 1) |-> Iterate(Above(d), s, k)]]

\* They satisfy the recursion.
LEMMA PathsAncestry ==
    ASSUME NEW d, Shaped(d)
    PROVE  IsAncestry(d, Paths(d))
  <1> DEFINE X == d.States \cup {NoState}
             F == Above(d)
             S == d.States
  <1>1. Size(d) \in Nat /\ F \in [X -> X]
    BY AboveType
  <1>2. ASSUME NEW s \in S
        PROVE  Paths(d)[s] = IF d.Parent[s] = NoState THEN <<>>
                             ELSE <<d.Parent[s]>> \o Paths(d)[d.Parent[s]]
    <2> DEFINE p == d.Parent[s]
    <2>1. F[s] = p /\ p \in X
      BY AboveType DEF Shaped
    <2>2. /\ Iterate(F, s, 0) = s /\ Iterate(F, s, 0 + 1) = F[Iterate(F, s, 0)]
      BY <1>1, StepNext
    <2>3. Iterate(F, s, 1) = p
      BY <2>1, <2>2
    <2>4. Depth(d, s) \in 1..Size(d) /\ RootAt(d, s, Depth(d, s))
      BY DepthRoot
    <2>5. Paths(d)[s] = [k \in 1..(Depth(d, s) - 1) |-> Iterate(F, s, k)]
      BY DEF Paths
    <2>6. CASE p = NoState
      <3>1. ~(1 < Depth(d, s))
        <4>1. SUFFICES ASSUME 1 < Depth(d, s) PROVE FALSE
          OBVIOUS
        <4>2. 1 \in 0..(Depth(d, s) - 1)
          BY <1>1, <2>4, <4>1
        <4>3. QED
          BY <2>3, <2>4, <2>6, <4>2 DEF RootAt
      <3>2. Depth(d, s) = 1
        BY <1>1, <2>4, <3>1
      <3>3. Paths(d)[s] = <<>>
        BY <2>5, <3>2
      <3>4. QED
        BY <2>6, <3>3
    <2>7. CASE p # NoState
      <3> DEFINE j == Depth(d, p)
      <3>1. p \in S /\ Depth(d, s) = j + 1
        BY <2>7, DepthParent
      <3>2. j \in 1..Size(d) /\ RootAt(d, p, j)
        BY <3>1, DepthRoot
      <3>3. j \in Nat /\ j > 0
        BY <1>1, <3>2
      <3>4. Paths(d)[p] = [k \in 1..(j - 1) |-> Iterate(F, p, k)]
        BY <3>1 DEF Paths
      <3> HIDE DEF X, F, p, j
      <3>5. \A k \in Nat : Iterate(F, p, k) = Iterate(F, s, k + 1)
        <4>1. SUFFICES ASSUME NEW k \in Nat PROVE Iterate(F, p, k) = Iterate(F, s, k + 1)
          OBVIOUS
        <4>2. s \in X
          BY DEF X
        <4>3. Iterate(F, Iterate(F, s, 1), k) = Iterate(F, s, 1 + k)
          BY <1>1, <4>2, StepAdd
        <4>4. 1 + k = k + 1
          OBVIOUS
        <4>5. QED
          BY <2>3, <4>3, <4>4
      <3> DEFINE q == Paths(d)[s]
                 r == Paths(d)[p]
                 t == <<p>> \o r
                 V == S \cup {Iterate(F, s, k) : k \in Nat}
      <3>6. q = [k \in 1..j |-> Iterate(F, s, k)]
        BY <2>5, <3>1, <3>3
      <3>7. q \in Seq(V) /\ Len(q) = j
        BY <3>3, <3>6
      <3>8. r = [k \in 1..(j - 1) |-> Iterate(F, s, k + 1)]
        BY <3>3, <3>4, <3>5
      <3>9. r \in Seq(V) /\ Len(r) = j - 1
        BY <3>3, <3>8
      <3> HIDE DEF V, q, r
      <3>10. p \in V
        BY <3>1 DEF V
      <3>11. t \in Seq(V) /\ Len(t) = j
        BY <3>3, <3>9, <3>10
      <3>12. ASSUME NEW k \in 1..j PROVE q[k] = t[k]
        <4>1. CASE k = 1
          BY <2>3, <3>3, <3>6, <3>9, <4>1
        <4>2. CASE k # 1
          <5>1. k - 1 \in 1..(j - 1) /\ k \in Nat /\ k - 1 \in Nat /\ (k - 1) + 1 = k
            BY <3>3, <4>2
          <5>2. t[k] = r[k - 1]
            BY <3>3, <3>9, <5>1
          <5>3. r[k - 1] = Iterate(F, s, k) /\ q[k] = Iterate(F, s, k)
            BY <3>6, <3>8, <5>1
          <5>4. QED
            BY <5>2, <5>3
        <4>3. QED
          BY <4>1, <4>2
      <3> HIDE DEF t
      <3>13. q = t
        BY <3>7, <3>11, <3>12, SeqEqual
      <3>14. QED
        BY <2>7, <3>13 DEF q, r, t, p
    <2>8. QED
      BY <2>6, <2>7
  <1>3. Paths(d) = [s \in S |-> Paths(d)[s]]
    BY DEF Paths
  <1> DEFINE G == [s \in S |-> IF d.Parent[s] = NoState THEN <<>>
                               ELSE <<d.Parent[s]>> \o Paths(d)[d.Parent[s]]]
  <1>4. \A s \in S : G[s] = Paths(d)[s]
    BY <1>2
  <1>5. G = Paths(d)
    BY <1>3, <1>4
  <1>6. QED
    BY <1>5 DEF IsAncestry

\* buildAncestry lists the proper ancestors of every state, nearest first.
LEMMA AncestryBuilt ==
    ASSUME NEW d, Shaped(d)
    PROVE  /\ IsAncestry(d, buildAncestry(d))
           /\ buildAncestry(d) \in [d.States -> Seq(d.States)]
  <1> DEFINE chain == CHOOSE g : IsAncestry(d, g)
  <1>1. IsAncestry(d, chain)
    BY PathsAncestry, Zenon
  <1>2. chain = buildAncestry(d)
    BY DEF buildAncestry, IsAncestry
  <1> HIDE DEF chain
  <1>3. \A s \in d.States : chain[s] = IF d.Parent[s] = NoState THEN <<>>
                                       ELSE <<d.Parent[s]>> \o chain[d.Parent[s]]
    BY <1>1 DEF IsAncestry
  <1> DEFINE N == Size(d)
             U == d.States
             T == Seq(U)
             S == {n \in 0..N : \A s \in d.States : Depth(d, s) =< n => chain[s] \in T}
  <1>4. N \in Nat /\ <<>> \in T /\ \A p \in d.States : \A c \in T : <<p>> \o c \in T
    <2> HIDE DEF U
    <2>1. <<>> \in T /\ \A p \in U : \A c \in T : <<p>> \o c \in T
      OBVIOUS
    <2>2. QED
      BY <2>1, AboveType DEF U
  <1> HIDE DEF T
  <1>5. \A s \in d.States : Depth(d, s) \in 1..N
    BY DepthRoot
  <1>6. 0 \in S
    BY <1>4, <1>5
  <1>7. ASSUME NEW n \in 0..(N - 1), n \in S PROVE n + 1 \in S
    <2>1. ASSUME NEW s \in d.States, Depth(d, s) =< n + 1 PROVE chain[s] \in T
      <3>1. CASE d.Parent[s] = NoState
        BY <1>3, <1>4, <3>1
      <3>2. CASE d.Parent[s] # NoState
        <4> DEFINE p == d.Parent[s]
        <4>1. p \in d.States /\ Depth(d, s) = Depth(d, p) + 1
          BY <3>2, DepthParent
        <4>2. Depth(d, p) \in 1..N
          BY <1>5, <4>1
        <4>3. Depth(d, p) =< n
          BY <1>4, <2>1, <4>1, <4>2
        <4>4. chain[p] \in T
          BY <1>7, <4>1, <4>3
        <4>5. chain[s] = <<p>> \o chain[p]
          BY <1>3, <3>2
        <4>6. QED
          BY <1>4, <4>1, <4>4, <4>5
      <3>3. QED
        BY <3>1, <3>2
    <2>2. n + 1 \in 0..N
      BY <1>4
    <2>3. QED
      BY <2>1, <2>2
  <1> HIDE DEF S
  <1>8. 0..N \subseteq S
    BY <1>4, <1>6, <1>7, Induction
  <1>9. N \in S
    BY <1>4, <1>8
  <1>10. ASSUME NEW s \in d.States PROVE chain[s] \in T
    <2>1. Depth(d, s) =< N
      BY <1>4, <1>5
    <2>2. QED
      BY <1>9, <2>1 DEF S
  <1>11. chain \in [d.States -> T]
    <2>1. chain = [s \in d.States |-> chain[s]]
      BY <1>1 DEF IsAncestry
    <2>2. QED
      BY <1>10, <2>1
  <1>12. QED
    BY <1>1, <1>2, <1>11 DEF T

----------------------------------------------------------------------------
(* Initial leaves *)

\* One step towards the initial leaf.
Down(d) ==
    [s \in d.States |-> IF s \notin d.Compound \/ d.InitialChild[s] = NoState THEN s
                        ELSE d.InitialChild[s]]

\* A step stays or goes one deeper, and never to a parallel state.
LEMMA DownType ==
    ASSUME NEW d, Shaped(d)
    PROVE  /\ Down(d) \in [d.States -> d.States]
           /\ \A s \in d.States :
                 Down(d)[s] # s => /\ d.Parent[Down(d)[s]] = s
                                   /\ Depth(d, Down(d)[s]) = Depth(d, s) + 1
                                   /\ Down(d)[s] \notin d.Parallel
           /\ \A s \in d.Compound \ d.Parallel : Down(d)[s] # s
  <1>1. ASSUME NEW s \in d.States, s \in d.Compound, d.InitialChild[s] # NoState
        PROVE  d.InitialChild[s] \in d.States /\ d.Parent[d.InitialChild[s]] = s
    BY <1>1 DEF Shaped, checkCompoundStates, Children
  <1>2. Down(d) \in [d.States -> d.States]
    BY <1>1 DEF Down
  <1>3. \A s \in d.States : Down(d)[s] = IF s \notin d.Compound \/ d.InitialChild[s] = NoState
                                         THEN s ELSE d.InitialChild[s]
    BY DEF Down
  <1>4. NoState \notin d.States /\ d.Compound \subseteq d.States
    BY DEF Shaped
  <1>5. ASSUME NEW s \in d.States, s \in d.Compound, d.InitialChild[s] # NoState
        PROVE  /\ d.Parent[d.InitialChild[s]] = s
               /\ Depth(d, d.InitialChild[s]) = Depth(d, s) + 1
               /\ d.InitialChild[s] \notin d.Parallel
               /\ d.InitialChild[s] # s
    <2> DEFINE c == d.InitialChild[s]
    <2>1. c \in d.States /\ d.Parent[c] = s /\ s # NoState
      BY <1>1, <1>4, <1>5
    <2> HIDE DEF c
    <2>2. Depth(d, c) = Depth(d, s) + 1
      BY <2>1, DepthParent
    <2>3. c \notin d.Parallel
      BY <2>1 DEF Shaped
    <2>4. Depth(d, s) \in 1..Size(d) /\ Size(d) \in Nat
      BY DepthRoot, AboveType
    <2>5. c # s
      BY <2>2, <2>4
    <2>6. QED
      BY <2>1, <2>2, <2>3, <2>5 DEF c
  <1>6. \A s \in d.Compound \ d.Parallel : d.InitialChild[s] # NoState
    BY DEF Shaped, checkCompoundStates
  <1>7. \A s \in d.States :
                 Down(d)[s] # s => /\ d.Parent[Down(d)[s]] = s
                                   /\ Depth(d, Down(d)[s]) = Depth(d, s) + 1
                                   /\ Down(d)[s] \notin d.Parallel
    BY <1>3, <1>5
  <1>8. \A s \in d.Compound \ d.Parallel : Down(d)[s] # s
    BY <1>3, <1>4, <1>5, <1>6
  <1>9. QED
    BY <1>2, <1>7, <1>8

\* After as many steps as there are states, no more can be taken.
LEMMA DownEnds ==
    ASSUME NEW d, Shaped(d), NEW s \in d.States
    PROVE  /\ Iterate(Down(d), s, Size(d)) \in d.States
           /\ Down(d)[Iterate(Down(d), s, Size(d))] = Iterate(Down(d), s, Size(d))
  <1> DEFINE N == Size(d)
             F == Down(d)
             at(n) == Iterate(F, s, n)
             S == {n \in 0..N : F[at(n)] = at(n) \/ Depth(d, at(n)) >= n + 1}
  <1>1. F \in [d.States -> d.States] /\ N \in Nat
    BY DownType, AboveType
  <1>2. at(0) = s /\ \A n \in Nat : at(n) \in d.States /\ at(n + 1) = F[at(n)]
    BY <1>1, StepNext
  <1>3. \A x \in d.States : Depth(d, x) \in 1..N
    BY DepthRoot
  <1>4. \A x \in d.States : F[x] # x => Depth(d, F[x]) = Depth(d, x) + 1
    BY DownType
  <1> HIDE DEF at, F, N
  <1>5. 0 \in S
    BY <1>1, <1>2, <1>3
  <1>6. ASSUME NEW n \in 0..(N - 1), n \in S PROVE n + 1 \in S
    <2>1. n \in Nat /\ n + 1 \in 0..N
      BY <1>1
    <2>2. at(n) \in d.States /\ at(n + 1) = F[at(n)]
      BY <1>2, <2>1
    <2>3. CASE F[at(n)] = at(n)
      BY <2>1, <2>2, <2>3
    <2>4. CASE F[at(n)] # at(n)
      <3>1. Depth(d, at(n)) >= n + 1
        BY <1>6, <2>4
      <3>2. Depth(d, at(n + 1)) = Depth(d, at(n)) + 1
        BY <1>4, <2>2, <2>4
      <3>3. Depth(d, at(n)) \in Int
        BY <1>1, <1>3, <2>2
      <3>4. Depth(d, at(n + 1)) >= (n + 1) + 1
        BY <2>1, <3>1, <3>2, <3>3
      <3>5. QED
        BY <2>1, <3>4
    <2>5. QED
      BY <2>3, <2>4
  <1> HIDE DEF S
  <1>7. 0..N \subseteq S
    BY <1>1, <1>5, <1>6, Induction
  <1>8. F[at(N)] = at(N) \/ Depth(d, at(N)) >= N + 1
    BY <1>1, <1>7 DEF S
  <1>9. at(N) \in d.States /\ Depth(d, at(N)) \in 1..N
    BY <1>1, <1>2, <1>3
  <1>10. F[at(N)] = at(N)
    BY <1>1, <1>8, <1>9
  <1>11. QED
    BY <1>9, <1>10 DEF F, N, at

\* What the recursion of resolveInitialLeaf says of a map.
IsLeafMap(d, g) ==
    g = [s \in d.States |-> IF s \notin d.Compound \/ d.InitialChild[s] = NoState THEN s
                            ELSE g[d.InitialChild[s]]]

\* resolveInitialLeaf takes all the steps down there are.
LEMMA LeafResolved ==
    ASSUME NEW d, Shaped(d), NEW s \in d.States
    PROVE  resolveInitialLeaf(d)[s] = Iterate(Down(d), s, Size(d))
  <1> DEFINE N == Size(d)
             F == Down(d)
             U == d.States
             w == [x \in d.States |-> Iterate(F, x, N)]
             leaf == CHOOSE g : IsLeafMap(d, g)
             stops(x) == x \notin d.Compound \/ d.InitialChild[x] = NoState
  <1>1. F \in [U -> U] /\ N \in Nat
    BY DownType, AboveType
  <1>2. \A x \in U : F[x] = IF stops(x) THEN x ELSE d.InitialChild[x]
    BY DEF Down
  <1>3. \A x \in U : Iterate(F, x, N) \in U /\ F[Iterate(F, x, N)] = Iterate(F, x, N)
    BY DownEnds
  <1>4. \A x \in U : F[x] \in U
    BY <1>1
  <1> HIDE DEF F, N, U
  <1>5. IsLeafMap(d, w)
    <2>1. ASSUME NEW x \in U, stops(x) PROVE Iterate(F, x, N) = x
      <3>1. F[x] = x
        BY <1>2, <2>1
      <3>2. QED
        BY <1>1, <3>1, StepFixed
    <2>2. ASSUME NEW x \in U, ~stops(x)
          PROVE  Iterate(F, x, N) = Iterate(F, d.InitialChild[x], N) /\ d.InitialChild[x] \in U
      <3> DEFINE y == F[x]
      <3>1. y = d.InitialChild[x] /\ y \in U
        BY <1>2, <1>4, <2>2
      <3>2. Iterate(F, x, 0) = x /\ Iterate(F, x, 0 + 1) = F[Iterate(F, x, 0)]
        BY <1>1, StepNext
      <3>3. Iterate(F, x, 1) = y
        BY <3>2
      <3>4. Iterate(F, Iterate(F, x, 1), N) = Iterate(F, x, 1 + N)
        BY <1>1, StepAdd
      <3>5. Iterate(F, x, N + 1) = F[Iterate(F, x, N)]
        BY <1>1, StepNext
      <3>6. 1 + N = N + 1
        BY <1>1
      <3>7. QED
        BY <1>3, <3>1, <3>3, <3>4, <3>5, <3>6
    <2> DEFINE v == [x \in U |-> IF stops(x) THEN x ELSE w[d.InitialChild[x]]]
    <2>3. \A x \in U : w[x] = Iterate(F, x, N)
      BY DEF U
    <2>4. \A x \in U : v[x] = w[x]
      <3> HIDE DEF w
      <3>1. QED
        BY <2>1, <2>2, <2>3
    <2>5. w = v
      BY <2>4 DEF U
    <2>6. QED
      BY <2>5 DEF IsLeafMap, U
  <1>6. IsLeafMap(d, leaf)
    <2> HIDE DEF w
    <2>1. QED
      BY <1>5, Zenon
  <1>7. leaf = resolveInitialLeaf(d)
    BY DEF resolveInitialLeaf, IsLeafMap
  <1> HIDE DEF leaf
  <1>8. \A x \in U : leaf[x] = IF stops(x) THEN x ELSE leaf[d.InitialChild[x]]
    BY <1>6 DEF IsLeafMap, U
  <1> HIDE DEF w
  <1>9. \A x \in U : leaf[F[x]] = leaf[x]
    BY <1>2, <1>8
  <1>10. \A x \in U : F[x] = x => leaf[x] = x
    <2>1. SUFFICES ASSUME NEW x \in U, F[x] = x PROVE stops(x)
      BY <1>8
    <2>2. \A y \in d.Compound \ d.Parallel : F[y] # y
      BY DownType DEF F
    <2>3. x \notin d.Compound \/ x \in d.Parallel
      BY <2>1, <2>2
    <2>4. QED
      BY <2>3 DEF Shaped
  <1> DEFINE at(n) == Iterate(F, s, n)
             S == {n \in 0..N : leaf[at(n)] = leaf[s]}
  <1>11. at(0) = s /\ \A n \in Nat : at(n) \in U /\ at(n + 1) = F[at(n)]
    <2>1. s \in U
      BY DEF U
    <2>2. QED
      BY <1>1, <2>1, StepNext
  <1> HIDE DEF at
  <1>12. 0 \in S
    BY <1>1, <1>11
  <1>13. ASSUME NEW n \in 0..(N - 1), n \in S PROVE n + 1 \in S
    <2>1. n \in Nat /\ n + 1 \in 0..N
      BY <1>1
    <2>2. QED
      BY <1>9, <1>11, <1>13, <2>1
  <1> HIDE DEF S
  <1>14. 0..N \subseteq S
    BY <1>1, <1>12, <1>13, Induction
  <1>15. leaf[at(N)] = leaf[s]
    BY <1>1, <1>14 DEF S
  <1>16. leaf[at(N)] = at(N)
    <2>1. s \in U
      BY DEF U
    <2>2. at(N) \in U /\ F[at(N)] = at(N)
      BY <1>3, <2>1 DEF at
    <2>3. QED
      BY <1>10, <2>2
  <1>17. QED
    BY <1>7, <1>15, <1>16 DEF at, F, N

\* The initial leaf of a state that is not parallel is a leaf within it.
LEMMA LeafWithin ==
    ASSUME NEW d, Shaped(d), NEW s \in d.States \ d.Parallel, NEW A, A = buildAncestry(d)
    PROVE  LET l == resolveInitialLeaf(d)[s]
           IN  l \in d.States \ d.Compound /\ (s = l \/ s \in ToSet(A[l]))
  <1> DEFINE N == Size(d)
             F == Down(d)
             at(n) == Iterate(F, s, n)
             In(l) == s = l \/ s \in ToSet(A[l])
             S == {n \in 0..N : at(n) \notin d.Parallel /\ In(at(n))}
  <1>1. F \in [d.States -> d.States] /\ N \in Nat
    BY DownType, AboveType
  <1>2. at(0) = s /\ \A n \in Nat : at(n) \in d.States /\ at(n + 1) = F[at(n)]
    BY <1>1, StepNext
  <1>3. \A x \in d.States : F[x] # x => d.Parent[F[x]] = x /\ F[x] \notin d.Parallel
    BY DownType
  <1>4. \A x \in d.Compound \ d.Parallel : F[x] # x
    BY DownType
  <1>5. at(N) \in d.States /\ F[at(N)] = at(N)
    BY DownEnds
  <1>6. \A x \in d.States : F[x] \in d.States
    BY <1>1
  <1>7. resolveInitialLeaf(d)[s] = at(N)
    BY LeafResolved
  <1> HIDE DEF at, F, N
  <1>8. 0 \in S
    BY <1>1, <1>2
  <1>9. ASSUME NEW x \in d.States, In(x), F[x] # x PROVE In(F[x])
    <2> DEFINE y == F[x]
               U == d.States
    <2>1. y \in d.States /\ d.Parent[y] = x /\ x # NoState
      BY <1>3, <1>6, <1>9 DEF Shaped
    <2>2. A[y] = <<x>> \o A[x]
      BY <2>1, AncestryBuilt DEF IsAncestry
    <2>3. A \in [U -> Seq(U)]
      BY AncestryBuilt
    <2> HIDE DEF y, U
    <2>4. A[x] \in Seq(U) /\ x \in U
      BY <2>3 DEF U
    <2>5. /\ Len(A[y]) = Len(A[x]) + 1 /\ Len(A[x]) \in Nat /\ A[y][1] = x
          /\ \A k \in 1..Len(A[x]) : A[y][k + 1] = A[x][k]
      BY <2>2, <2>4
    <2>6. DOMAIN A[x] = 1..Len(A[x]) /\ DOMAIN A[y] = 1..Len(A[y])
      BY <2>2, <2>4
    <2>7. CASE s = x
      <3>1. 1 \in DOMAIN A[y]
        BY <2>5, <2>6
      <3>2. QED
        BY <2>5, <2>7, <3>1 DEF ToSet, y
    <2>8. CASE s \in ToSet(A[x])
      <3>1. PICK k \in DOMAIN A[x] : A[x][k] = s
        BY <2>8 DEF ToSet
      <3>2. k + 1 \in DOMAIN A[y] /\ A[y][k + 1] = s
        BY <2>5, <2>6, <3>1
      <3>3. QED
        BY <3>2 DEF ToSet, y
    <2>9. QED
      BY <1>9, <2>7, <2>8
  <1> HIDE DEF In
  <1>10. ASSUME NEW n \in 0..(N - 1), n \in S PROVE n + 1 \in S
    <2>1. n \in Nat /\ n + 1 \in 0..N
      BY <1>1
    <2>2. at(n) \in d.States /\ at(n + 1) = F[at(n)] /\ at(n) \notin d.Parallel /\ In(at(n))
      BY <1>2, <1>10, <2>1
    <2>3. CASE F[at(n)] = at(n)
      BY <2>1, <2>2, <2>3
    <2>4. CASE F[at(n)] # at(n)
      BY <1>3, <1>9, <2>1, <2>2, <2>4
    <2>5. QED
      BY <2>3, <2>4
  <1> HIDE DEF S
  <1>11. 0..N \subseteq S
    BY <1>1, <1>8, <1>10, Induction
  <1>12. at(N) \notin d.Parallel /\ In(at(N))
    BY <1>1, <1>11 DEF S
  <1>13. at(N) \notin d.Compound
    BY <1>4, <1>5, <1>12
  <1>14. QED
    BY <1>5, <1>7, <1>12, <1>13 DEF In

----------------------------------------------------------------------------
(* The theorem *)

\* A machine that Compile makes of a declaration the builder can produce.
Compiled(m) == \E b : Declared(b) /\ Accepts(b) /\ m = Compile(Build(b))

\* Build adds compound states and changes nothing else.
LEMMA BuildFields ==
    ASSUME NEW b, Declared(b)
    PROVE  LET d == Build(b)
           IN  /\ d.States = b.States /\ d.Parent = b.Parent /\ d.InitialChild = b.InitialChild
               /\ d.Parallel = b.Parallel /\ d.Initials = b.Initials /\ d.Terminal = b.Terminal
               /\ d.Compound = b.Compound \cup b.Parallel
                               \cup {p \in b.States : Children(b, p) # {}}
  BY DEF Declared, Build

\* What Build makes of a declaration has this shape.
LEMMA BuildShaped ==
    ASSUME NEW b, Declared(b), Accepts(b)
    PROVE  Shaped(Build(b))
  <1> DEFINE d == Build(b)
  <1>1. Validate(d) /\ ~Circular(d)
    BY DEF Accepts
  <1>2. /\ d.States = b.States /\ d.Parent = b.Parent /\ d.InitialChild = b.InitialChild
        /\ d.Parallel = b.Parallel
        /\ d.Compound = b.Compound \cup b.Parallel
                        \cup {p \in b.States : Children(b, p) # {}}
    BY <1>1, BuildFields
  <1>3. checkOrphanedChildren(d) /\ checkCompoundStates(d)
    BY <1>1 DEF Validate
  <1> HIDE DEF d
  <1>4. IsFiniteSet(d.States) /\ NoState \notin d.States
    BY <1>1, <1>2 DEF Declared
  <1>5. d.Parent \in [d.States -> d.States \cup {NoState}]
    BY <1>1, <1>2, <1>3 DEF Declared, checkOrphanedChildren
  <1>6. d.Parallel \subseteq d.Compound /\ d.Compound \subseteq d.States
    BY <1>1, <1>2 DEF Declared
  <1>7. ASSUME NEW s \in d.States PROVE d.Parent[s] \in d.Compound \cup {NoState}
    <2>1. SUFFICES ASSUME d.Parent[s] # NoState PROVE d.Parent[s] \in d.Compound
      OBVIOUS
    <2>2. d.Parent[s] \in b.States
      BY <1>2, <1>5, <2>1
    <2>3. s \in Children(b, d.Parent[s])
      BY <1>2 DEF Children
    <2>4. QED
      BY <1>2, <2>2, <2>3
  <1>8. \A p \in d.Parallel : d.Parent[p] = NoState /\ d.InitialChild[p] = NoState
    BY <1>1, <1>2 DEF Declared
  <1>9. QED
    BY <1>1, <1>3, <1>4, <1>5, <1>6, <1>7, <1>8 DEF Shaped, d

\* SetToSeq lists the elements of a finite set, each once.
LEMMA InOrder ==
    ASSUME NEW S, IsFiniteSet(S), NEW q, q = SetToSeq(S)
    PROVE  /\ q \in Seq(S) /\ ToSet(q) = S
           /\ \A i, j \in 1..Len(q) : q[i] = q[j] => i = j
  <1> DEFINE n == Cardinality(S)
             D == 1..n
  <1>1. n \in Nat /\ ExistsBijection(D, S)
    BY FS_CardinalityType
  <1>2. IsFiniteSet(D) /\ Cardinality(D) = n
    BY <1>1, FS_Interval
  <1>3. \E f \in [D -> S] : IsInjective(f)
    BY <1>1 DEF ExistsBijection, Bijection, Injection
  <1>4. q \in [D -> S] /\ IsInjective(q)
    BY <1>3 DEF SetToSeq
  <1>5. q \in Surjection(D, S)
    <2>1. q \in Injection(D, S)
      BY <1>4 DEF Injection
    <2>2. QED
      BY <1>2, <2>1, FS_Injection
  <1>6. \A x \in S : \E i \in D : q[i] = x
    BY <1>5 DEF Surjection
  <1> HIDE DEF n
  <1>7. q \in Seq(S) /\ Len(q) = n /\ DOMAIN q = D
    BY <1>1, <1>4
  <1>8. QED
    BY <1>4, <1>6, <1>7 DEF ToSet, IsInjective

\* q lists the children of p, which are compound, each once.
ListsRegions(d, p, q) ==
    /\ q \in Seq(d.Compound \ d.Parallel) /\ q # <<>>
    /\ \A i, j \in DOMAIN q : q[i] = q[j] => i = j
    /\ ToSet(q) = {r \in d.States : d.Parent[r] = p}

\* The regions of a compiled parallel state are its children, each once.
LEMMA RegionsCompiled ==
    ASSUME NEW d, Shaped(d), checkParallelStates(d), NEW p \in d.Parallel,
           NEW q, q = SetToSeq(Children(d, p))
    PROVE  ListsRegions(d, p, q)
  <1> DEFINE C == Children(d, p)
             R == d.Compound \ d.Parallel
  <1>1. C # {} /\ C \subseteq R
    BY DEF checkParallelStates
  <1>2. IsFiniteSet(C)
    <2>1. C \subseteq d.States /\ IsFiniteSet(d.States)
      BY DEF Children, Shaped
    <2>2. QED
      BY <2>1, FS_Subset
  <1>3. C = {r \in d.States : d.Parent[r] = p}
    BY DEF Children
  <1> HIDE DEF C, R
  <1>4. q = SetToSeq(C)
    BY DEF C
  <1>5. /\ q \in Seq(C) /\ ToSet(q) = C
        /\ \A i, j \in 1..Len(q) : q[i] = q[j] => i = j
    BY <1>2, <1>4, InOrder
  <1>6. q \in Seq(R) /\ DOMAIN q = 1..Len(q)
    BY <1>1, <1>5
  <1>7. q # <<>>
    <2>1. SUFFICES ASSUME q = <<>> PROVE FALSE
      OBVIOUS
    <2>2. ToSet(<<>>) = {}
      BY DEF ToSet
    <2>3. QED
      BY <1>1, <1>5, <2>1, <2>2
  <1>8. q \in Seq(d.Compound \ d.Parallel)
    BY <1>6 DEF R
  <1>9. QED
    BY <1>3, <1>5, <1>6, <1>7, <1>8 DEF ListsRegions

\* Whatever the user declares without a parallel state in a region, if
\* graph.Validate and graph.Compile accept it the compiled machine has the maps
\* the runtime takes for granted: the ancestors of a state are the chain of its
\* parents, every compound state has an initial leaf inside it, every parallel
\* state has regions, each once.
THEOREM CompileCorrect ==
    ASSUME NEW m, Compiled(m)
    PROVE  WellCompiled(m) /\ Hierarchy(m)
  <1>0. PICK b : Declared(b) /\ Accepts(b) /\ m = Compile(Build(b))
    BY DEF Compiled
  <1> DEFINE d == Build(b)
             A == buildAncestry(d)
             L == resolveInitialLeaf(d)
             S == d.States
  <1>1. Shaped(d)
    BY <1>0, BuildShaped
  <1>2. /\ checkInitialState(d) /\ checkCompoundStates(d) /\ checkParallelStates(d)
        /\ checkCompoundNotTerminal(d) /\ checkInitialNotCompound(d)
    BY <1>0 DEF Accepts, Validate
  <1>3. d.Initials \subseteq S /\ d.Terminal \subseteq S
    BY <1>0, BuildFields DEF Declared
  <1>4. /\ m.States = S /\ m.Parent = d.Parent /\ m.Compound = d.Compound
        /\ m.Parallel = d.Parallel /\ m.Terminal = d.Terminal
        /\ m.Initial = CHOOSE s \in d.Initials : TRUE
        /\ m.Ancestry = A
        /\ m.InitialLeafMap = [s \in {c \in d.Compound \ d.Parallel :
                                         d.InitialChild[c] # NoState} |-> L[s]]
        /\ m.RegionIndex = [p \in d.Parallel |-> SetToSeq(Children(d, p))]
    BY <1>0 DEF Compile
  <1> HIDE DEF d, A, L, S
  <1>5. /\ NoState \notin S /\ d.Parent \in [S -> S \cup {NoState}]
        /\ d.Parallel \subseteq d.Compound /\ d.Compound \subseteq S
        /\ \A s \in S : d.Parent[s] \in d.Compound \cup {NoState}
        /\ \A p \in d.Parallel : d.Parent[p] = NoState
    BY <1>1 DEF Shaped, S
  <1>6. m.Terminal \subseteq leaves(m)
    BY <1>2, <1>3, <1>4 DEF leaves, checkCompoundNotTerminal
  <1>7. m.Initial \in leaves(m)
    <2>1. d.Initials # {}
      BY <1>2, FS_EmptySet DEF checkInitialState
    <2>2. m.Initial \in d.Initials
      BY <1>4, <2>1
    <2>3. QED
      BY <1>2, <1>3, <1>4, <2>2 DEF leaves, checkInitialNotCompound
  <1>8. A \in [S -> Seq(S)] /\ IsAncestry(d, A)
    BY <1>1, AncestryBuilt DEF A, S
  <1>9. m.InitialLeafMap = [s \in d.Compound \ d.Parallel |-> L[s]]
    BY <1>2, <1>4 DEF checkCompoundStates
  <1>10. ASSUME NEW s \in d.Compound \ d.Parallel
         PROVE  L[s] \in leaves(m) /\ within(m, L[s], s)
    <2>1. s \in d.States \ d.Parallel
      BY <1>5 DEF S
    <2>2. L[s] \in d.States \ d.Compound /\ (s = L[s] \/ s \in ToSet(A[L[s]]))
      BY <1>1, <2>1, LeafWithin DEF A, L
    <2>3. QED
      BY <1>4, <2>2 DEF leaves, within, S
  <1>11. m.InitialLeafMap \in [m.Compound \ m.Parallel -> leaves(m)]
    BY <1>4, <1>9, <1>10
  <1>12. \A s \in DOMAIN m.InitialLeafMap : within(m, m.InitialLeafMap[s], s)
    BY <1>9, <1>10
  <1>13. ASSUME NEW p \in d.Parallel
         PROVE  /\ m.RegionIndex[p] \in Seq(d.Compound \ d.Parallel)
                /\ m.RegionIndex[p] # <<>>
                /\ \A i, j \in DOMAIN m.RegionIndex[p] :
                      m.RegionIndex[p][i] = m.RegionIndex[p][j] => i = j
                /\ ToSet(m.RegionIndex[p]) = {r \in S : d.Parent[r] = p}
    <2> DEFINE q == m.RegionIndex[p]
    <2>1. q = SetToSeq(Children(d, p))
      BY <1>4
    <2> HIDE DEF q
    <2>2. /\ q \in Seq(d.Compound \ d.Parallel) /\ q # <<>>
          /\ \A i, j \in DOMAIN q : q[i] = q[j] => i = j
          /\ ToSet(q) = {r \in d.States : d.Parent[r] = p}
      <3>1. Shaped(d) /\ checkParallelStates(d)
        BY <1>1, <1>2
      <3>2. ListsRegions(d, p, q)
        BY <2>1, <3>1, RegionsCompiled
      <3>3. QED
        BY <3>2 DEF ListsRegions
    <2>3. QED
      BY <2>2 DEF q, S
  <1>14. m.RegionIndex \in [m.Parallel -> Seq(m.Compound \ m.Parallel)]
    <2> DEFINE T == Seq(d.Compound \ d.Parallel)
    <2>1. \A p \in d.Parallel : m.RegionIndex[p] \in T
      BY <1>13
    <2> HIDE DEF T
    <2>2. m.RegionIndex \in [d.Parallel -> T]
      BY <1>4, <2>1
    <2>3. QED
      BY <1>4, <2>2 DEF T
  <1>15. WellCompiled(m)
    <2>1. m.Ancestry \in [m.States -> Seq(m.States)]
      BY <1>4, <1>8
    <2>2. \A p \in m.Parallel : m.RegionIndex[p] # <<>>
      BY <1>4, <1>13
    <2>3. NoState \notin m.States /\ m.Parent \in [m.States -> m.States \cup {NoState}]
      BY <1>4, <1>5
    <2>4. m.Parallel \subseteq m.Compound /\ m.Compound \subseteq m.States
      BY <1>4, <1>5
    <2>5. QED
      BY <1>6, <1>7, <1>11, <1>12, <1>14, <2>1, <2>2, <2>3, <2>4 DEF WellCompiled
  <1>16. Hierarchy(m)
    <2>1. ASSUME NEW s \in m.States
          PROVE  /\ m.Parent[s] \in m.Compound \cup {NoState}
                 /\ m.Ancestry[s] = IF m.Parent[s] = NoState THEN <<>>
                                    ELSE <<m.Parent[s]>> \o m.Ancestry[m.Parent[s]]
      <3>1. A[s] = IF d.Parent[s] = NoState THEN <<>> ELSE <<d.Parent[s]>> \o A[d.Parent[s]]
        BY <1>4, <1>8 DEF IsAncestry, S
      <3>2. QED
        BY <1>4, <1>5, <3>1
    <2>2. ASSUME NEW p \in m.Parallel
          PROVE  /\ m.Parent[p] = NoState
                 /\ \A i, j \in DOMAIN m.RegionIndex[p] :
                       m.RegionIndex[p][i] = m.RegionIndex[p][j] => i = j
                 /\ ToSet(m.RegionIndex[p]) = {r \in m.States : m.Parent[r] = p}
      <3>1. p \in d.Parallel /\ m.States = S /\ m.Parent = d.Parent
        BY <1>4
      <3>2. QED
        BY <1>5, <1>13, <3>1
    <2>3. QED
      BY <2>1, <2>2 DEF Hierarchy
  <1>17. QED
    BY <1>15, <1>16
============================================================================
