----------------------------- MODULE WalkProofs -----------------------------
(***************************************************************************)
(* Theorems about module Walk, for every chart that Compile makes of a     *)
(* declaration and whose regions are flat, whatever its size, depth and    *)
(* number of regions.                                                      *)
(***************************************************************************)
EXTENDS Walk, GraphProofs

----------------------------------------------------------------------------
(* The path from a state to its root *)

Height(m, s) == Len(m.Ancestry[s])

\* The k-th state above s, s itself for k = 0.
Up(m, s, k) == IF k = 0 THEN s ELSE m.Ancestry[s][k]

\* The charts the theorems are about.
Good(m) == WellCompiled(m) /\ Hierarchy(m) /\ FlatRegions(m)

\* The path of a state goes on with the path of its parent.
LEMMA UpStep ==
    ASSUME NEW m, WellCompiled(m), Hierarchy(m), NEW s \in m.States
    PROVE  /\ Height(m, s) \in Nat
           /\ m.Parent[s] = NoState => Height(m, s) = 0
           /\ m.Parent[s] # NoState =>
                 /\ m.Parent[s] \in m.States
                 /\ Height(m, s) = Height(m, m.Parent[s]) + 1
                 /\ \A j \in 0..Height(m, m.Parent[s]) :
                       Up(m, s, j + 1) = Up(m, m.Parent[s], j)
  <1>1. m.Ancestry[s] \in Seq(m.States)
    BY DEF WellCompiled
  <1>2. m.Ancestry[s] = IF m.Parent[s] = NoState THEN <<>>
                        ELSE <<m.Parent[s]>> \o m.Ancestry[m.Parent[s]]
    BY DEF Hierarchy
  <1>3. CASE m.Parent[s] = NoState
    BY <1>1, <1>2, <1>3 DEF Height
  <1>4. CASE m.Parent[s] # NoState
    <2> DEFINE p == m.Parent[s]
               a == m.Ancestry[p]
    <2>1. p \in m.States
      BY <1>4 DEF WellCompiled
    <2>2. a \in Seq(m.States)
      BY <2>1 DEF WellCompiled
    <2>3. m.Ancestry[s] = <<p>> \o a
      BY <1>2, <1>4
    <2> HIDE DEF p, a
    <2>4. Len(m.Ancestry[s]) = 1 + Len(a)
      BY <2>2, <2>3
    <2>5. \A j \in 1..Len(a) : m.Ancestry[s][j + 1] = a[j]
      BY <2>2, <2>3
    <2>6. m.Ancestry[s][1] = p
      BY <2>2, <2>3
    <2>7. \A j \in 0..Len(a) : Up(m, s, j + 1) = IF j = 0 THEN p ELSE a[j]
      BY <2>2, <2>5, <2>6 DEF Up
    <2>8. QED
      BY <1>4, <2>1, <2>2, <2>4, <2>7 DEF p, a, Height, Up
  <1>5. QED
    BY <1>3, <1>4

\* From the k-th state on, the path of s is the path of that state.
LEMMA UpUp ==
    ASSUME NEW m, WellCompiled(m), Hierarchy(m), NEW s \in m.States,
           NEW k \in 0..Height(m, s)
    PROVE  /\ Up(m, s, k) \in m.States
           /\ Height(m, Up(m, s, k)) = Height(m, s) - k
           /\ \A j \in 0..(Height(m, s) - k) : Up(m, s, k + j) = Up(m, Up(m, s, k), j)
  <1> DEFINE h == Height(m, s)
             P(x) == /\ Up(m, s, x) \in m.States
                     /\ Height(m, Up(m, s, x)) = h - x
                     /\ \A j \in 0..(h - x) : Up(m, s, x + j) = Up(m, Up(m, s, x), j)
             S == {x \in 0..h : P(x)}
  <1>1. h \in Nat
    BY UpStep
  <1>2. P(0)
    BY <1>1 DEF Up
  <1>3. ASSUME NEW x \in 0..(h - 1), P(x) PROVE P(x + 1)
    <2> DEFINE a == Up(m, s, x)
    <2>1. a \in m.States /\ Height(m, a) = h - x /\ Height(m, a) > 0
      BY <1>1, <1>3
    <2>2. m.Parent[a] # NoState
      BY <2>1, UpStep
    <2>3. /\ m.Parent[a] \in m.States
          /\ Height(m, a) = Height(m, m.Parent[a]) + 1
          /\ \A j \in 0..Height(m, m.Parent[a]) : Up(m, a, j + 1) = Up(m, m.Parent[a], j)
      BY <2>1, <2>2, UpStep
    <2>4. Height(m, m.Parent[a]) = h - (x + 1) /\ h - (x + 1) \in Nat
      BY <1>1, <2>1, <2>3, UpStep
    <2>5. \A j \in 0..(h - x) : Up(m, s, x + j) = Up(m, a, j)
      BY <1>3
    <2> HIDE DEF a, h
    <2>6. Up(m, s, x + 1) = m.Parent[a]
      <3>1. 0 \in 0..(h - (x + 1)) /\ 1 \in 0..(h - x)
        BY <1>1, <2>4
      <3>2. Up(m, a, 0 + 1) = Up(m, m.Parent[a], 0)
        BY <2>3, <2>4, <3>1
      <3>3. Up(m, s, x + 1) = Up(m, a, 1)
        BY <2>5, <3>1
      <3>4. QED
        BY <3>2, <3>3 DEF Up
    <2>7. ASSUME NEW j \in 0..(h - (x + 1))
          PROVE  Up(m, s, (x + 1) + j) = Up(m, m.Parent[a], j)
      <3>1. j + 1 \in 0..(h - x) /\ x + (j + 1) = (x + 1) + j
        BY <1>1, <1>3
      <3>2. Up(m, s, x + (j + 1)) = Up(m, a, j + 1)
        BY <2>5, <3>1
      <3>3. Up(m, a, j + 1) = Up(m, m.Parent[a], j)
        BY <2>3, <2>4
      <3>4. QED
        BY <3>1, <3>2, <3>3
    <2>8. QED
      BY <2>3, <2>4, <2>6, <2>7
  <1> HIDE DEF P, h
  <1>4. 0..h \subseteq S
    <2>1. 0 \in S
      BY <1>1, <1>2
    <2>2. ASSUME NEW x \in 0..(h - 1), x \in S PROVE x + 1 \in S
      BY <1>1, <1>3, <2>2
    <2> HIDE DEF S
    <2>3. QED
      BY <1>1, <2>1, <2>2, Induction
  <1>5. k \in S
    BY <1>4 DEF h
  <1>6. P(k)
    BY <1>5
  <1>7. QED
    BY <1>6 DEF P, h

\* The parent of the k-th state is the next one.
LEMMA UpParent ==
    ASSUME NEW m, WellCompiled(m), Hierarchy(m), NEW s \in m.States,
           NEW k \in 0..Height(m, s)
    PROVE  m.Parent[Up(m, s, k)] = IF k < Height(m, s) THEN Up(m, s, k + 1) ELSE NoState
  <1> DEFINE a == Up(m, s, k)
  <1>1. /\ Height(m, s) \in Nat /\ a \in m.States /\ Height(m, a) = Height(m, s) - k
        /\ \A j \in 0..(Height(m, s) - k) : Up(m, s, k + j) = Up(m, a, j)
    BY UpUp, UpStep
  <1> HIDE DEF a
  <1>2. CASE k < Height(m, s)
    <2>1. m.Parent[a] # NoState
      BY <1>1, <1>2, UpStep
    <2>2. /\ Height(m, m.Parent[a]) \in Nat
          /\ \A j \in 0..Height(m, m.Parent[a]) : Up(m, a, j + 1) = Up(m, m.Parent[a], j)
      BY <1>1, <2>1, UpStep
    <2>3. Up(m, a, 0 + 1) = Up(m, m.Parent[a], 0)
      BY <2>2
    <2>4. Up(m, s, k + 1) = Up(m, a, 1)
      BY <1>1, <1>2
    <2>5. QED
      BY <1>2, <2>3, <2>4 DEF Up, a
  <1>3. CASE ~(k < Height(m, s))
    <2>1. Height(m, a) = 0
      BY <1>1, <1>3
    <2>2. m.Parent[a] = NoState
      <3>1. SUFFICES ASSUME m.Parent[a] # NoState PROVE FALSE
        OBVIOUS
      <3>2. Height(m, a) = Height(m, m.Parent[a]) + 1 /\ Height(m, m.Parent[a]) \in Nat
        BY <1>1, <3>1, UpStep
      <3>3. QED
        BY <2>1, <3>2
    <2>3. QED
      BY <1>3, <2>2 DEF a
  <1>4. QED
    BY <1>2, <1>3

\* No state is twice on a path.
LEMMA UpInjective ==
    ASSUME NEW m, WellCompiled(m), Hierarchy(m), NEW s \in m.States,
           NEW j \in 0..Height(m, s), NEW k \in 0..Height(m, s),
           Up(m, s, j) = Up(m, s, k)
    PROVE  j = k
  <1>1. Height(m, s) - j = Height(m, s) - k
    BY UpUp
  <1>2. Height(m, s) \in Nat
    BY UpStep
  <1>3. QED
    BY <1>1, <1>2

\* s lies within r when r is on its path.
LEMMA WithinUp ==
    ASSUME NEW m, WellCompiled(m), Hierarchy(m), NEW s \in m.States, NEW r
    PROVE  within(m, s, r) <=> \E k \in 0..Height(m, s) : r = Up(m, s, k)
  <1>1. m.Ancestry[s] \in Seq(m.States)
    BY DEF WellCompiled
  <1>2. Height(m, s) \in Nat /\ DOMAIN m.Ancestry[s] = 1..Height(m, s)
    BY <1>1 DEF Height
  <1>3. ASSUME within(m, s, r) PROVE \E k \in 0..Height(m, s) : r = Up(m, s, k)
    <2>1. CASE r = s
      BY <1>2, <2>1 DEF Up
    <2>2. CASE r # s
      <3>1. PICK k \in 1..Height(m, s) : r = m.Ancestry[s][k]
        BY <1>2, <1>3, <2>2 DEF within, ToSet
      <3>2. k \in 0..Height(m, s) /\ r = Up(m, s, k)
        BY <1>2, <3>1 DEF Up
      <3>3. QED
        BY <3>2
    <2>3. QED
      BY <2>1, <2>2
  <1>4. ASSUME NEW k \in 0..Height(m, s), r = Up(m, s, k) PROVE within(m, s, r)
    BY <1>2, <1>4 DEF Up, within, ToSet
  <1>5. QED
    BY <1>3, <1>4

\* The states above a state are compound.
LEMMA UpCompound ==
    ASSUME NEW m, WellCompiled(m), Hierarchy(m), NEW s \in m.States,
           NEW k \in 1..Height(m, s)
    PROVE  Up(m, s, k) \in m.Compound
  <1>1. Height(m, s) \in Nat
    BY UpStep
  <1>2. k - 1 \in 0..Height(m, s) /\ k - 1 < Height(m, s) /\ (k - 1) + 1 = k
    BY <1>1
  <1>3. m.Parent[Up(m, s, k - 1)] = Up(m, s, k) /\ Up(m, s, k - 1) \in m.States
    BY <1>2, UpParent, UpUp
  <1>4. Up(m, s, k) # NoState
    <2>1. k \in 0..Height(m, s)
      BY <1>1
    <2>2. QED
      BY <2>1, UpUp DEF WellCompiled
  <1>5. QED
    BY <1>3, <1>4 DEF Hierarchy

\* A leaf has no child, and nothing but itself within it.
LEMMA LeafTop ==
    ASSUME NEW m, WellCompiled(m), Hierarchy(m), NEW l \in leaves(m)
    PROVE  /\ l \in m.States /\ l \notin m.Compound /\ l \notin m.Parallel /\ l # NoState
           /\ \A c \in m.States : m.Parent[c] # l
           /\ \A s \in m.States : within(m, s, l) => s = l
  <1>1. l \in m.States /\ l \notin m.Compound /\ l \notin m.Parallel /\ l # NoState
    BY DEF leaves, WellCompiled
  <1>2. \A c \in m.States : m.Parent[c] # l
    BY <1>1 DEF Hierarchy
  <1>3. ASSUME NEW s \in m.States, within(m, s, l) PROVE s = l
    <2>1. PICK k \in 0..Height(m, s) : l = Up(m, s, k)
      BY <1>3, WithinUp
    <2>2. Height(m, s) \in Nat
      BY UpStep
    <2>3. ~(k \in 1..Height(m, s))
      BY <1>1, <2>1, UpCompound
    <2>4. k = 0
      BY <2>1, <2>2, <2>3
    <2>5. QED
      BY <2>1, <2>4 DEF Up
  <1>4. QED
    BY <1>1, <1>2, <1>3

\* A state inside a parallel state has that parallel state at the end of its
\* path.
LEMMA InParallelUp ==
    ASSUME NEW m, WellCompiled(m), Hierarchy(m), NEW s \in m.States
    PROVE  /\ inParallel(m, s) <=>
                 Height(m, s) > 0 /\ Up(m, s, Height(m, s)) \in m.Parallel
           /\ \A k \in 1..Height(m, s) :
                 Up(m, s, k) \in m.Parallel => k = Height(m, s) /\ inParallel(m, s)
  <1>1. m.Ancestry[s] \in Seq(m.States)
    BY DEF WellCompiled
  <1>2. Height(m, s) \in Nat /\ DOMAIN m.Ancestry[s] = 1..Height(m, s)
    BY <1>1 DEF Height
  <1>3. \A k \in 1..Height(m, s) : m.Ancestry[s][k] = Up(m, s, k)
    BY <1>2 DEF Up
  <1>4. inParallel(m, s) <=> \E k \in 1..Height(m, s) : Up(m, s, k) \in m.Parallel
    BY <1>2, <1>3 DEF inParallel, ToSet
  <1>5. ASSUME NEW k \in 1..Height(m, s), Up(m, s, k) \in m.Parallel
        PROVE  k = Height(m, s)
    <2>1. m.Parent[Up(m, s, k)] = NoState
      BY <1>5 DEF Hierarchy, WellCompiled
    <2>2. k \in 0..Height(m, s)
      BY <1>2
    <2>3. ASSUME k < Height(m, s) PROVE FALSE
      <3>1. k + 1 \in 0..Height(m, s)
        BY <1>2, <2>3
      <3>2. Up(m, s, k + 1) \in m.States
        BY <3>1, UpUp
      <3>3. Up(m, s, k + 1) = NoState
        BY <2>1, <2>2, <2>3, UpParent
      <3>4. QED
        BY <3>2, <3>3 DEF WellCompiled
    <2>4. QED
      BY <1>2, <2>3
  <1>6. QED
    BY <1>2, <1>4, <1>5

\* What lies within a state outside parallel states lies outside them too.
LEMMA OutsideWithin ==
    ASSUME NEW m, WellCompiled(m), Hierarchy(m), NEW s \in m.States, NEW l \in m.States,
           ~inParallel(m, s), s \notin m.Parallel, within(m, l, s)
    PROVE  ~inParallel(m, l)
  <1>1. PICK j \in 0..Height(m, l) : s = Up(m, l, j)
    BY WithinUp
  <1> DEFINE h == Height(m, l)
  <1>2. SUFFICES ASSUME h > 0, Up(m, l, h) \in m.Parallel PROVE FALSE
    BY InParallelUp
  <1>3. h \in Nat
    BY UpStep
  <1>4. Height(m, s) = h - j
    BY <1>1, UpUp
  <1>5. h - j \in 0..(h - j) /\ j + (h - j) = h
    BY <1>1, <1>3
  <1>6. Up(m, l, h) = Up(m, s, h - j)
    BY <1>1, <1>5, UpUp
  <1>7. CASE h - j = 0
    BY <1>2, <1>6, <1>7 DEF Up
  <1>8. CASE h - j > 0
    BY <1>2, <1>4, <1>6, <1>8, InParallelUp
  <1>9. QED
    BY <1>1, <1>3, <1>7, <1>8

\* A region of a parallel state, and the leaves within it: its children.
LEMMA RegionLeaf ==
    ASSUME NEW m, Good(m), NEW p \in m.Parallel, NEW r \in ToSet(m.RegionIndex[p])
    PROVE  /\ r \in m.States /\ r \in m.Compound \ m.Parallel /\ m.Parent[r] = p
           /\ \A l \in leaves(m) : within(m, l, r) => m.Parent[l] = r
           /\ \A l \in m.States : m.Parent[l] = r => within(m, l, r)
  <1> USE DEF Good
  <1>1. r \in m.States /\ m.Parent[r] = p
    BY DEF Hierarchy
  <1>2. r \in m.Compound \ m.Parallel
    BY DEF WellCompiled, ToSet
  <1>3. ASSUME NEW l \in leaves(m), within(m, l, r) PROVE m.Parent[l] = r
    <2>1. l \in m.States /\ l # r
      BY <1>2, LeafTop
    <2>2. PICK j \in 0..Height(m, l) : r = Up(m, l, j)
      BY <1>3, <2>1, WithinUp
    <2>3. Height(m, l) \in Nat /\ j # 0
      BY <2>1, <2>2, UpStep DEF Up
    <2>4. m.Parent[r] = IF j < Height(m, l) THEN Up(m, l, j + 1) ELSE NoState
      BY <2>1, <2>2, UpParent
    <2>5. p # NoState /\ m.Parent[r] = p
      BY <1>1 DEF WellCompiled
    <2>6. j < Height(m, l) /\ p = Up(m, l, j + 1)
      BY <2>4, <2>5
    <2>7. CASE j = 1
      <3>1. m.Parent[Up(m, l, 0)] = Up(m, l, 0 + 1)
        BY <2>1, <2>3, <2>6, <2>7, UpParent
      <3>2. QED
        BY <2>2, <2>7, <3>1 DEF Up
    <2>8. CASE j > 1
      <3> DEFINE c == Up(m, l, j - 1)
      <3>1. j - 1 \in 1..Height(m, l) /\ j - 1 \in 0..Height(m, l) /\ (j - 1) + 1 = j
            /\ 2 \in 0..(Height(m, l) - (j - 1)) /\ (j - 1) + 2 = j + 1
            /\ j - 1 < Height(m, l)
        BY <2>2, <2>3, <2>6, <2>8
      <3>2. c \in m.Compound /\ c \in m.States
        BY <2>1, <3>1, UpCompound, UpUp
      <3>3. m.Parent[c] = r
        BY <2>1, <2>2, <3>1, UpParent
      <3>4. /\ Height(m, c) = Height(m, l) - (j - 1)
            /\ Up(m, l, (j - 1) + 2) = Up(m, c, 2)
        BY <2>1, <3>1, UpUp
      <3>5. Up(m, c, 2) = p /\ 2 \in 1..Height(m, c)
        BY <2>3, <2>6, <3>1, <3>4
      <3>6. inParallel(m, c)
        BY <3>2, <3>5, InParallelUp
      <3>7. m.Parent[c] \in m.Parallel
        BY <3>2, <3>6 DEF FlatRegions
      <3>8. QED
        BY <1>2, <3>3, <3>7
    <2>9. QED
      BY <2>2, <2>3, <2>7, <2>8
  <1>4. ASSUME NEW l \in m.States, m.Parent[l] = r PROVE within(m, l, r)
    <2>1. r # NoState
      BY <1>1 DEF WellCompiled
    <2>2. Height(m, l) \in Nat /\ Height(m, l) > 0
      <3>1. Height(m, l) = Height(m, r) + 1 /\ Height(m, r) \in Nat
        BY <1>1, <1>4, <2>1, UpStep
      <3>2. QED
        BY <3>1
    <2>3. Up(m, l, 1) = r
      <3>1. m.Parent[Up(m, l, 0)] = Up(m, l, 0 + 1)
        BY <2>2, UpParent
      <3>2. QED
        BY <1>4, <3>1 DEF Up
    <2>4. QED
      BY <2>2, <2>3, WithinUp
  <1>5. QED
    BY <1>1, <1>2, <1>3, <1>4

----------------------------------------------------------------------------
(* Sequences *)

\* A sequence of one element in front of another sequence.
LEMMA Prepend ==
    ASSUME NEW S, NEW x \in S, NEW c \in Seq(S), NEW y, y = <<x>> \o c
    PROVE  /\ y \in Seq(S) /\ Len(y) = Len(c) + 1
           /\ y[1] = x
           /\ \A j \in 1..Len(c) : y[j + 1] = c[j]
  <1>1. <<x>> \in Seq(S) /\ Len(<<x>>) = 1 /\ <<x>>[1] = x /\ Len(c) \in Nat
    OBVIOUS
  <1>2. /\ y \in Seq(S) /\ Len(y) = 1 + Len(c)
        /\ \A j \in 1..(1 + Len(c)) : y[j] = IF j <= 1 THEN <<x>>[j] ELSE c[j - 1]
    BY <1>1, ConcatProperties
  <1>3. \A j \in 1..Len(c) : j + 1 \in 1..(1 + Len(c)) /\ ~(j + 1 <= 1) /\ (j + 1) - 1 = j
    BY <1>1
  <1>4. QED
    BY <1>1, <1>2, <1>3

\* The first n elements of a sequence.
LEMMA Prefix ==
    ASSUME NEW S, NEW c \in Seq(S), NEW n \in 0..Len(c)
    PROVE  /\ SubSeq(c, 1, n) \in Seq(S) /\ Len(SubSeq(c, 1, n)) = n
           /\ \A j \in 1..n : SubSeq(c, 1, n)[j] = c[j]
  <1>1. Len(c) \in Nat /\ n \in Int
    OBVIOUS
  <1>2. \A j \in 1..n : c[j] \in S
    BY <1>1
  <1>3. SubSeq(c, 1, n) \in Seq(S)
    BY <1>1, <1>2, SubSeqProperties
  <1>4. Len(SubSeq(c, 1, n)) = n
    BY <1>1, <1>2
  <1>5. \A j \in 1..n : SubSeq(c, 1, n)[j] = c[j]
    BY <1>1, <1>2
  <1>6. QED
    BY <1>3, <1>4, <1>5

\* A sequence read backwards, with an element behind it.
LEMMA Backwards ==
    ASSUME NEW S, NEW x \in S, NEW c \in Seq(S)
    PROVE  /\ Append(Reverse(c), x) \in Seq(S)
           /\ Len(Append(Reverse(c), x)) = Len(c) + 1
           /\ Append(Reverse(c), x)[Len(c) + 1] = x
           /\ \A j \in 1..Len(c) : Append(Reverse(c), x)[j] = c[(Len(c) - j) + 1]
  <1> DEFINE n == Len(c)
             R == Reverse(c)
  <1>1. n \in Nat /\ \A i \in 1..n : (n - i) + 1 \in 1..n /\ c[(n - i) + 1] \in S
    OBVIOUS
  <1>2. R = [i \in 1..n |-> c[(n - i) + 1]]
    BY DEF Reverse
  <1>3. R \in Seq(S) /\ Len(R) = n /\ \A j \in 1..n : R[j] = c[(n - j) + 1]
    <2> HIDE DEF n, R
    <2>1. R \in [1..n -> S]
      BY <1>1, <1>2
    <2>2. QED
      BY <1>1, <1>2, <2>1
  <1> HIDE DEF n, R
  <1>4. /\ Append(R, x) \in Seq(S) /\ Len(Append(R, x)) = n + 1
        /\ Append(R, x)[n + 1] = x /\ \A j \in 1..n : Append(R, x)[j] = R[j]
    BY <1>1, <1>3
  <1>5. QED
    BY <1>3, <1>4 DEF n, R

\* The number of the pair that position j belongs to.
Half(j) == (j + 1) \div 2

\* The first i pairs in a row.
Pairs(q, i) == [j \in 1..(2 * i) |-> q[Half(j)][IF j = 2 * Half(j) THEN 2 ELSE 1]]

\* Each position of a row of pairs is the first or the second of its pair.
LEMMA HalfOf ==
    ASSUME NEW i \in Nat
    PROVE  /\ \A j \in 1..(2 * i) : Half(j) \in 1..i
           /\ \A k \in 1..i : /\ Half(2 * k) = k /\ Half((2 * k) - 1) = k
                              /\ 2 * k \in 1..(2 * i) /\ (2 * k) - 1 \in 1..(2 * i)
           /\ \A j \in 1..(2 * i) : j = 2 * Half(j) \/ j = (2 * Half(j)) - 1
  BY DEF Half

\* A row of pairs is a sequence.
LEMMA PairsRow ==
    ASSUME NEW S, NEW q \in Seq(Seq(S)), \A k \in 1..Len(q) : Len(q[k]) = 2,
           NEW i \in 0..Len(q)
    PROVE  /\ Pairs(q, i) \in Seq(S) /\ Len(Pairs(q, i)) = 2 * i
           /\ \A k \in 1..i : /\ Pairs(q, i)[(2 * k) - 1] = q[k][1]
                              /\ Pairs(q, i)[2 * k] = q[k][2]
  <1>1. i \in Nat /\ Len(q) \in Nat /\ 2 * i \in Nat
    OBVIOUS
  <1>2. \A k \in 1..i : q[k] \in Seq(S) /\ q[k][1] \in S /\ q[k][2] \in S
    <2>1. TAKE k \in 1..i
    <2>2. q[k] \in Seq(S) /\ Len(q[k]) = 2
      BY <1>1
    <2>3. QED
      BY <2>2
  <1>3. \A j \in 1..(2 * i) : q[Half(j)][IF j = 2 * Half(j) THEN 2 ELSE 1] \in S
    BY <1>1, <1>2, HalfOf
  <1>4. Pairs(q, i) \in [1..(2 * i) -> S]
    BY <1>3 DEF Pairs
  <1>5. Pairs(q, i) \in Seq(S) /\ Len(Pairs(q, i)) = 2 * i
    BY <1>1, <1>4
  <1>6. ASSUME NEW k \in 1..i
        PROVE  Pairs(q, i)[(2 * k) - 1] = q[k][1] /\ Pairs(q, i)[2 * k] = q[k][2]
    <2>1. /\ Half(2 * k) = k /\ Half((2 * k) - 1) = k
          /\ 2 * k \in 1..(2 * i) /\ (2 * k) - 1 \in 1..(2 * i)
      BY <1>1, HalfOf
    <2>2. (2 * k) - 1 # 2 * k
      BY <1>1
    <2>3. QED
      BY <2>1, <2>2 DEF Pairs
  <1>7. QED
    BY <1>5, <1>6

\* The next pair makes the row longer by two.
LEMMA PairsNext ==
    ASSUME NEW S, NEW q \in Seq(Seq(S)), \A k \in 1..Len(q) : Len(q[k]) = 2,
           NEW i \in 1..Len(q)
    PROVE  Pairs(q, i) = IF i = 1 THEN q[i] ELSE Pairs(q, i - 1) \o q[i]
  <1> DEFINE a == Pairs(q, i)
             b == Pairs(q, i - 1)
  <1>1. i \in Nat /\ Len(q) \in Nat /\ i \in 0..Len(q) /\ i - 1 \in 0..Len(q)
    OBVIOUS
  <1>2. /\ a \in Seq(S) /\ Len(a) = 2 * i
        /\ \A k \in 1..i : a[(2 * k) - 1] = q[k][1] /\ a[2 * k] = q[k][2]
    BY <1>1, PairsRow
  <1>3. /\ b \in Seq(S) /\ Len(b) = 2 * (i - 1)
        /\ \A k \in 1..(i - 1) : b[(2 * k) - 1] = q[k][1] /\ b[2 * k] = q[k][2]
    BY <1>1, PairsRow
  <1>4. q[i] \in Seq(S) /\ Len(q[i]) = 2
    OBVIOUS
  <1> HIDE DEF a, b
  <1>5. CASE i = 1
    <2>1. Len(a) = 2 /\ a[1] = q[i][1] /\ a[2] = q[i][2]
      <3>1. a[(2 * 1) - 1] = q[1][1] /\ a[2 * 1] = q[1][2]
        BY <1>2, <1>5
      <3>2. QED
        BY <1>2, <1>5, <3>1
    <2>2. \A j \in 1..Len(a) : a[j] = q[i][j]
      BY <2>1
    <2>3. a = q[i]
      BY <1>2, <1>4, <2>1, <2>2, SeqEqual
    <2>4. QED
      BY <1>5, <2>3 DEF a
  <1>6. CASE i # 1
    <2> DEFINE c == b \o q[i]
    <2>1. /\ c \in Seq(S) /\ Len(c) = 2 * i
          /\ \A j \in 1..(2 * i) : c[j] = IF j <= 2 * (i - 1) THEN b[j] ELSE q[i][j - 2 * (i - 1)]
      <3>1. 2 * (i - 1) + 2 = 2 * i
        BY <1>1
      <3>2. /\ c \in Seq(S) /\ Len(c) = Len(b) + Len(q[i])
            /\ \A j \in 1..(Len(b) + Len(q[i])) :
                  c[j] = IF j <= Len(b) THEN b[j] ELSE q[i][j - Len(b)]
        BY <1>3, <1>4, ConcatProperties
      <3> HIDE DEF c
      <3>3. QED
        BY <1>3, <1>4, <3>1, <3>2
    <2> HIDE DEF c
    <2>2. ASSUME NEW k \in 1..i
          PROVE  a[(2 * k) - 1] = c[(2 * k) - 1] /\ a[2 * k] = c[2 * k]
      <3>1. 2 * k \in 1..(2 * i) /\ (2 * k) - 1 \in 1..(2 * i)
        BY <1>1
      <3>2. CASE k = i
        <4>1. /\ ~(2 * k <= 2 * (i - 1)) /\ ~((2 * k) - 1 <= 2 * (i - 1))
              /\ 2 * k - 2 * (i - 1) = 2 /\ ((2 * k) - 1) - 2 * (i - 1) = 1
          BY <1>1, <3>2
        <4>2. QED
          BY <1>2, <2>1, <3>1, <3>2, <4>1
      <3>3. CASE k # i
        <4>1. /\ 2 * k <= 2 * (i - 1) /\ (2 * k) - 1 <= 2 * (i - 1) /\ k \in 1..(i - 1)
          BY <1>1, <3>3
        <4>2. QED
          BY <1>2, <1>3, <2>1, <3>1, <4>1
      <3>4. QED
        BY <3>2, <3>3
    <2>3. \A j \in 1..Len(a) : a[j] = c[j]
      BY <1>1, <1>2, <2>2, HalfOf
    <2>4. a = c
      BY <1>2, <2>1, <2>3, SeqEqual
    <2>5. QED
      BY <1>6, <2>4 DEF a, b, c
  <1>7. QED
    BY <1>5, <1>6

\* FlattenSeq puts pairs in a row.
LEMMA FlattenPairs ==
    ASSUME NEW S, NEW q \in Seq(Seq(S)), \A k \in 1..Len(q) : Len(q[k]) = 2
    PROVE  /\ FlattenSeq(q) \in Seq(S) /\ Len(FlattenSeq(q)) = 2 * Len(q)
           /\ \A k \in 1..Len(q) : /\ FlattenSeq(q)[(2 * k) - 1] = q[k][1]
                                   /\ FlattenSeq(q)[2 * k] = q[k][2]
  <1> DEFINE n == Len(q)
             D(g) == g = [i \in 1..n |-> IF i = 1 THEN q[i] ELSE g[i - 1] \o q[i]]
             f == CHOOSE g : D(g)
             G == [i \in 1..n |-> Pairs(q, i)]
  <1>1. n \in Nat
    OBVIOUS
  <1>2. FlattenSeq(q) = IF n = 0 THEN q ELSE f[n]
    BY DEF FlattenSeq
  <1>3. CASE n = 0
    <2>1. q = <<>>
      BY <1>3
    <2>2. QED
      BY <1>2, <1>3, <2>1
  <1>4. CASE n # 0
    <2>1. D(G)
      <3>1. \A i \in 1..n : Pairs(q, i) = IF i = 1 THEN q[i] ELSE Pairs(q, i - 1) \o q[i]
        BY PairsNext
      <3>2. \A i \in 1..n : i # 1 => i - 1 \in 1..n
        BY <1>1
      <3> HIDE DEF n
      <3>3. \A i \in 1..n : Pairs(q, i) = IF i = 1 THEN q[i] ELSE G[i - 1] \o q[i]
        BY <3>1, <3>2
      <3>4. QED
        BY <3>3
    <2> HIDE DEF G
    <2>2. D(f)
      <3> HIDE DEF D
      <3>1. QED
        BY <2>1, Zenon
    <2> HIDE DEF f, n
    <2>3. \A i \in 1..n : f[i] = IF i = 1 THEN q[i] ELSE f[i - 1] \o q[i]
      BY <2>2
    <2> DEFINE T == {i \in Nat : i + 1 \in 1..n => f[i + 1] = Pairs(q, i + 1)}
    <2>4. 0..(n - 1) \subseteq T
      <3>1. 0 \in T
        <4>1. 1 \in 1..n
          BY <1>1, <1>4
        <4>2. Pairs(q, 1) = q[1]
          BY <4>1, PairsNext DEF n
        <4>3. QED
          BY <2>3, <4>1, <4>2
      <3>2. ASSUME NEW i \in 0..((n - 1) - 1), i \in T PROVE i + 1 \in T
        <4>1. /\ i + 1 \in 1..n /\ (i + 1) + 1 \in 1..n /\ (i + 1) + 1 # 1
              /\ ((i + 1) + 1) - 1 = i + 1 /\ i + 1 \in Nat
          BY <1>1
        <4>2. f[i + 1] = Pairs(q, i + 1)
          BY <3>2, <4>1
        <4>3. f[(i + 1) + 1] = f[i + 1] \o q[(i + 1) + 1]
          BY <2>3, <4>1
        <4>4. Pairs(q, (i + 1) + 1) = Pairs(q, i + 1) \o q[(i + 1) + 1]
          BY <4>1, PairsNext DEF n
        <4>5. QED
          BY <4>1, <4>2, <4>3, <4>4
      <3>3. n - 1 \in Nat
        BY <1>1, <1>4
      <3> HIDE DEF T
      <3>4. QED
        BY <3>1, <3>2, <3>3, Induction
    <2>5. f[n] = Pairs(q, n)
      <3>1. n - 1 \in 0..(n - 1) /\ (n - 1) + 1 = n /\ n \in 1..n
        BY <1>1, <1>4
      <3>2. n - 1 \in T
        BY <2>4, <3>1
      <3>3. QED
        BY <3>1, <3>2
    <2>6. FlattenSeq(q) = Pairs(q, n)
      BY <1>2, <1>4, <2>5
    <2>7. n \in 0..n
      BY <1>1
    <2>8. QED
      <3>1. /\ Pairs(q, n) \in Seq(S) /\ Len(Pairs(q, n)) = 2 * n
            /\ \A k \in 1..n : /\ Pairs(q, n)[(2 * k) - 1] = q[k][1]
                               /\ Pairs(q, n)[2 * k] = q[k][2]
        BY <2>7, PairsRow DEF n
      <3>2. QED
        BY <2>6, <3>1 DEF n
  <1>5. QED
    BY <1>3, <1>4

----------------------------------------------------------------------------
(* Exit and entry sequences *)

\* Min returns the smallest of a set of indices.
LEMMA MinMember ==
    ASSUME NEW S \in SUBSET Nat, S # {}
    PROVE  Min(S) \in S
  BY Least DEF Min

\* K states above s are below lca: all of them, or those up to lca.
Cut(m, s, lca, K) ==
    \/ K = Height(m, s) /\ \A k \in 1..Height(m, s) : Up(m, s, k) # lca
    \/ K < Height(m, s) /\ Up(m, s, K + 1) = lca

\* What Below returns.
LEMMA BelowUp ==
    ASSUME NEW m, WellCompiled(m), Hierarchy(m), NEW s \in m.States, NEW lca
    PROVE  \E K \in 0..Height(m, s) :
              /\ Cut(m, s, lca, K)
              /\ Below(m, s, lca) \in Seq(m.States) /\ Len(Below(m, s, lca)) = K
              /\ \A j \in 1..K : Below(m, s, lca)[j] = Up(m, s, j)
  <1> DEFINE chain == m.Ancestry[s]
             at == {i \in DOMAIN chain : chain[i] = lca}
             h == Height(m, s)
  <1>1. chain \in Seq(m.States) /\ h \in Nat /\ Len(chain) = h
    BY UpStep DEF WellCompiled, Height
  <1>2. \A j \in 1..h : chain[j] = Up(m, s, j)
    BY <1>1 DEF Up
  <1>3. Below(m, s, lca) = IF at = {} THEN chain ELSE SubSeq(chain, 1, Min(at) - 1)
    BY DEF Below
  <1> HIDE DEF chain, h
  <1>4. CASE at = {}
    <2>1. \A k \in 1..h : Up(m, s, k) # lca
      BY <1>1, <1>2, <1>4
    <2> HIDE DEF at
    <2>2. Cut(m, s, lca, h)
      BY <2>1 DEF Cut, h
    <2>3. QED
      BY <1>1, <1>2, <1>3, <1>4, <2>2 DEF h
  <1>5. CASE at # {}
    <2> DEFINE k == Min(at)
    <2>1. at \in SUBSET Nat
      BY <1>1
    <2>2. k \in at
      BY <1>5, <2>1, MinMember
    <2>3. k \in 1..h /\ chain[k] = lca
      BY <1>1, <2>2
    <2>4. Below(m, s, lca) = SubSeq(chain, 1, k - 1)
      BY <1>3, <1>5
    <2> HIDE DEF k, at
    <2>5. k - 1 \in 0..h /\ k - 1 < h /\ (k - 1) + 1 = k
      BY <1>1, <2>3
    <2>6. /\ SubSeq(chain, 1, k - 1) \in Seq(m.States)
          /\ Len(SubSeq(chain, 1, k - 1)) = k - 1
          /\ \A j \in 1..(k - 1) : SubSeq(chain, 1, k - 1)[j] = chain[j]
      BY <1>1, <2>5, Prefix
    <2>7. Cut(m, s, lca, k - 1)
      BY <1>2, <2>3, <2>5 DEF Cut, h
    <2>8. \A j \in 1..(k - 1) : SubSeq(chain, 1, k - 1)[j] = Up(m, s, j)
      BY <1>1, <1>2, <2>3, <2>6
    <2>9. QED
      BY <2>4, <2>5, <2>6, <2>7, <2>8 DEF h
  <1>6. QED
    BY <1>4, <1>5

\* computeExitSequence goes up the path of s, computeEntrySequence down it.
LEMMA SequencesUp ==
    ASSUME NEW m, WellCompiled(m), Hierarchy(m), NEW s \in m.States, NEW lca
    PROVE  \E K \in 0..Height(m, s) :
              /\ Cut(m, s, lca, K)
              /\ computeExitSequence(m, s, lca) \in Seq(m.States)
              /\ Len(computeExitSequence(m, s, lca)) = K + 1
              /\ \A j \in 1..(K + 1) : computeExitSequence(m, s, lca)[j] = Up(m, s, j - 1)
              /\ computeEntrySequence(m, lca, s) \in Seq(m.States)
              /\ Len(computeEntrySequence(m, lca, s)) = K + 1
              /\ \A j \in 1..(K + 1) :
                    computeEntrySequence(m, lca, s)[j] = Up(m, s, (K + 1) - j)
  <1> DEFINE B == Below(m, s, lca)
             X == computeExitSequence(m, s, lca)
             N == computeEntrySequence(m, lca, s)
  <1>1. PICK K \in 0..Height(m, s) :
              /\ Cut(m, s, lca, K)
              /\ B \in Seq(m.States) /\ Len(B) = K
              /\ \A j \in 1..K : B[j] = Up(m, s, j)
    BY BelowUp
  <1>2. K \in Nat
    BY <1>1, UpStep
  <1>3. N = Append(Reverse(B), s)
    BY DEF computeEntrySequence
  <1>10. X = <<s>> \o B
    BY DEF computeExitSequence
  <1> DEFINE S == m.States
  <1> HIDE DEF B, X, N, S
  <1>11. B \in Seq(S) /\ s \in S
    BY <1>1 DEF S
  <1>12. /\ X \in Seq(S) /\ Len(X) = Len(B) + 1 /\ X[1] = s
         /\ \A j \in 1..Len(B) : X[j + 1] = B[j]
    BY <1>10, <1>11, Prepend
  <1>4. /\ X \in Seq(m.States) /\ Len(X) = K + 1 /\ X[1] = s
        /\ \A j \in 1..K : X[j + 1] = B[j]
    BY <1>1, <1>12 DEF S
  <1>5. \A j \in 1..(K + 1) : X[j] = Up(m, s, j - 1)
    <2>1. TAKE j \in 1..(K + 1)
    <2>2. CASE j = 1
      BY <1>4, <2>2 DEF Up
    <2>3. CASE j # 1
      <3>1. j - 1 \in 1..K /\ (j - 1) + 1 = j
        BY <1>2, <2>3
      <3>2. QED
        BY <1>1, <1>4, <3>1
    <2>4. QED
      BY <2>2, <2>3
  <1>7. /\ N \in Seq(m.States) /\ Len(N) = K + 1 /\ N[K + 1] = s
        /\ \A j \in 1..K : N[j] = B[(K - j) + 1]
    BY <1>1, <1>3, Backwards
  <1>8. \A j \in 1..(K + 1) : N[j] = Up(m, s, (K + 1) - j)
    <2>1. TAKE j \in 1..(K + 1)
    <2>2. CASE j = K + 1
      BY <1>2, <1>7, <2>2 DEF Up
    <2>3. CASE j # K + 1
      <3>1. j \in 1..K /\ (K - j) + 1 \in 1..K /\ (K - j) + 1 = (K + 1) - j
        BY <1>2, <2>3
      <3>2. QED
        BY <1>1, <1>7, <3>1
    <2>4. QED
      BY <2>2, <2>3
  <1>9. QED
    BY <1>1, <1>4, <1>5, <1>7, <1>8 DEF X, N

\* q lists the path from s up to the state K steps above it, and from there down.
Climbs(m, s, K, q) ==
    q \in Seq(m.States) /\ Len(q) = K + 1 /\ \A j \in 1..(K + 1) : q[j] = Up(m, s, j - 1)

Descends(m, s, K, q) ==
    q \in Seq(m.States) /\ Len(q) = K + 1 /\ \A j \in 1..(K + 1) : q[j] = Up(m, s, (K + 1) - j)

\* The states on a path listed upwards.
LEMMA ClimbSet ==
    ASSUME NEW m, NEW s, NEW K \in Nat, NEW q, Climbs(m, s, K, q)
    PROVE  \A r : r \in ToSet(q) <=> \E k \in 0..K : r = Up(m, s, k)
  <1>1. DOMAIN q = 1..(K + 1) /\ \A j \in 1..(K + 1) : q[j] = Up(m, s, j - 1)
    BY DEF Climbs
  <1>2. \A r : r \in ToSet(q) <=> \E j \in 1..(K + 1) : r = Up(m, s, j - 1)
    BY <1>1 DEF ToSet
  <1>3. /\ \A j \in 1..(K + 1) : j - 1 \in 0..K
        /\ \A k \in 0..K : k + 1 \in 1..(K + 1) /\ (k + 1) - 1 = k
    OBVIOUS
  <1>4. QED
    BY <1>2, <1>3

\* The states on a path listed downwards.
LEMMA DescentSet ==
    ASSUME NEW m, NEW s, NEW K \in Nat, NEW q, Descends(m, s, K, q)
    PROVE  \A r : r \in ToSet(q) <=> \E k \in 0..K : r = Up(m, s, k)
  <1>1. DOMAIN q = 1..(K + 1) /\ \A j \in 1..(K + 1) : q[j] = Up(m, s, (K + 1) - j)
    BY DEF Descends
  <1>2. \A r : r \in ToSet(q) <=> \E j \in 1..(K + 1) : r = Up(m, s, (K + 1) - j)
    BY <1>1 DEF ToSet
  <1>3. /\ \A j \in 1..(K + 1) : (K + 1) - j \in 0..K
        /\ \A k \in 0..K : (K + 1) - k \in 1..(K + 1) /\ (K + 1) - ((K + 1) - k) = k
    OBVIOUS
  <1>4. QED
    BY <1>2, <1>3

\* The exit sequence alone.
LEMMA ExitUp ==
    ASSUME NEW m, WellCompiled(m), Hierarchy(m), NEW s \in m.States, NEW lca
    PROVE  \E K \in 0..Height(m, s) :
              Cut(m, s, lca, K) /\ Climbs(m, s, K, computeExitSequence(m, s, lca))
  <1> DEFINE X == computeExitSequence(m, s, lca)
             N == computeEntrySequence(m, lca, s)
  <1>1. PICK K \in 0..Height(m, s) :
           /\ Cut(m, s, lca, K)
           /\ X \in Seq(m.States) /\ Len(X) = K + 1
           /\ \A j \in 1..(K + 1) : X[j] = Up(m, s, j - 1)
           /\ N \in Seq(m.States) /\ Len(N) = K + 1
           /\ \A j \in 1..(K + 1) : N[j] = Up(m, s, (K + 1) - j)
    BY SequencesUp
  <1> HIDE DEF X
  <1>2. Climbs(m, s, K, X)
    BY <1>1 DEF Climbs
  <1>3. QED
    BY <1>1, <1>2 DEF X

\* The entry sequence alone.
LEMMA EntryUp ==
    ASSUME NEW m, WellCompiled(m), Hierarchy(m), NEW s \in m.States, NEW lca
    PROVE  \E K \in 0..Height(m, s) :
              Cut(m, s, lca, K) /\ Descends(m, s, K, computeEntrySequence(m, lca, s))
  <1> DEFINE X == computeExitSequence(m, s, lca)
             N == computeEntrySequence(m, lca, s)
  <1>1. PICK K \in 0..Height(m, s) :
           /\ Cut(m, s, lca, K)
           /\ X \in Seq(m.States) /\ Len(X) = K + 1
           /\ \A j \in 1..(K + 1) : X[j] = Up(m, s, j - 1)
           /\ N \in Seq(m.States) /\ Len(N) = K + 1
           /\ \A j \in 1..(K + 1) : N[j] = Up(m, s, (K + 1) - j)
    BY SequencesUp
  <1> HIDE DEF N
  <1>2. Descends(m, s, K, N)
    BY <1>1 DEF Descends
  <1>3. QED
    BY <1>1, <1>2 DEF N

\* The exit sequence X and the entry sequence N of s, K states below lca.
SequencesOf(m, s, K, X, N) ==
    /\ X \in Seq(m.States) /\ Len(X) = K + 1
    /\ \A j \in 1..(K + 1) : X[j] = Up(m, s, j - 1)
    /\ N \in Seq(m.States) /\ Len(N) = K + 1
    /\ \A j \in 1..(K + 1) : N[j] = Up(m, s, (K + 1) - j)

\* Both sequences, named.
LEMMA BothUp ==
    ASSUME NEW m, WellCompiled(m), Hierarchy(m), NEW s \in m.States, NEW lca
    PROVE  \E K \in 0..Height(m, s) :
              /\ Cut(m, s, lca, K)
              /\ SequencesOf(m, s, K, computeExitSequence(m, s, lca),
                                      computeEntrySequence(m, lca, s))
  <1> DEFINE X == computeExitSequence(m, s, lca)
             N == computeEntrySequence(m, lca, s)
  <1>1. PICK K \in 0..Height(m, s) :
           /\ Cut(m, s, lca, K)
           /\ X \in Seq(m.States) /\ Len(X) = K + 1
           /\ \A j \in 1..(K + 1) : X[j] = Up(m, s, j - 1)
           /\ N \in Seq(m.States) /\ Len(N) = K + 1
           /\ \A j \in 1..(K + 1) : N[j] = Up(m, s, (K + 1) - j)
    BY SequencesUp
  <1>2. QED
    BY <1>1 DEF SequencesOf

\* LCA returns a state above both, or none when there is none.
LEMMA LCAUp ==
    ASSUME NEW m, WellCompiled(m), Hierarchy(m), NEW a \in m.States, NEW b \in m.States
    PROVE  \/ LCA(m, a, b) = NoState
           \/ /\ \E x \in 1..Height(m, a) : Up(m, a, x) = LCA(m, a, b)
              /\ \E y \in 1..Height(m, b) : Up(m, b, y) = LCA(m, a, b)
  <1> DEFINE common == {i \in DOMAIN m.Ancestry[a] :
                            m.Ancestry[a][i] \in ToSet(m.Ancestry[b])}
             x == Min(common)
  <1>1. m.Ancestry[a] \in Seq(m.States) /\ m.Ancestry[b] \in Seq(m.States)
    BY DEF WellCompiled
  <1>2. LCA(m, a, b) = IF common = {} THEN NoState ELSE m.Ancestry[a][x]
    BY DEF LCA
  <1>3. CASE common = {}
    BY <1>2, <1>3
  <1>4. CASE common # {}
    <2>1. common \in SUBSET Nat
      BY <1>1
    <2>2. x \in common
      BY <1>4, <2>1, MinMember
    <2>3. x \in DOMAIN m.Ancestry[a] /\ m.Ancestry[a][x] \in ToSet(m.Ancestry[b])
      BY <2>2
    <2> HIDE DEF x, common
    <2>4. PICK y \in DOMAIN m.Ancestry[b] : m.Ancestry[a][x] = m.Ancestry[b][y]
      BY <2>3 DEF ToSet
    <2>5. /\ x \in 1..Height(m, a) /\ Up(m, a, x) = m.Ancestry[a][x]
          /\ y \in 1..Height(m, b) /\ Up(m, b, y) = m.Ancestry[b][y]
      BY <1>1, <2>3, <2>4 DEF Height, Up
    <2>6. QED
      BY <1>2, <1>4, <2>4, <2>5
  <1>5. QED
    BY <1>3, <1>4

----------------------------------------------------------------------------
(* The activities still to run *)

Occupies(m, i, s) == \E leaf \in activeStates(i) \ m.Parallel : within(m, leaf, s)

\* The states that instance i of chart m is in.
Occupied(m, i) == {s \in m.States : s = i.cur \/ Occupies(m, i, s)}

ExitsIn(q)   == {q[j].state : j \in {k \in 1..Len(q) : q[k].op = "exit"}}
EntriesIn(q) == {q[j].state : j \in {k \in 1..Len(q) : q[k].op = "entry"}}

\* The activities q are in order when the states entered so far are e: exits
\* before entries, none twice; a state is left after its children, and one is
\* entered after it was left, if it was, and after its parent.
Ordered(m, e, q) ==
    /\ \A j, k \in 1..Len(q) : j < k /\ q[k].op = "exit" => q[j].op = "exit"
    /\ \A j, k \in 1..Len(q) : q[j].op = q[k].op /\ q[j].state = q[k].state => j = k
    /\ \A j \in 1..Len(q) : q[j].op = "exit" =>
          /\ q[j].state \in e
          /\ \A c \in e : m.Parent[c] = q[j].state =>
                \E k \in 1..Len(q) : k < j /\ q[k].state = c
    /\ \A j \in 1..Len(q) : q[j].op = "entry" =>
          /\ q[j].state \in e => q[j].state \in ExitsIn(q)
          /\ \/ m.Parent[q[j].state] = NoState
             \/ m.Parent[q[j].state] \in e \ ExitsIn(q)
             \/ \E k \in 1..Len(q) : /\ k < j /\ q[k].op = "entry"
                                     /\ q[k].state = m.Parent[q[j].state]

Activity(m) == [op : {"exit", "entry"}, state : m.States]

\* The activities q bring the outside world from e to where instance i is.
Running(m, i, e, q) ==
    /\ e \subseteq m.States
    /\ q \in Seq(Activity(m))
    /\ Ordered(m, e, q)
    /\ (e \ ExitsIn(q)) \cup EntriesIn(q) = Occupied(m, i)

\* What the execution of the first activity makes of the states entered.
Ran(e, a) == IF a.op = "exit" THEN e \ {a.state} ELSE e \cup {a.state}

\* Running the first activity keeps the rest in order.
LEMMA RunStep ==
    ASSUME NEW m, NEW i, NEW e, NEW q, Running(m, i, e, q), q # <<>>
    PROVE  Running(m, i, Ran(e, Head(q)), Tail(q))
  <1> DEFINE n == Len(q)
             p == Tail(q)
             h == q[1].state
             f == Ran(e, Head(q))
             act == Activity(m)
  <1>1. q \in Seq(act) /\ e \subseteq m.States
    BY DEF Running
  <1>2. /\ n \in Nat /\ n > 0 /\ Head(q) = q[1] /\ q[1] \in act
        /\ p \in Seq(act) /\ Len(p) = n - 1
        /\ \A j \in 1..(n - 1) : p[j] = q[j + 1]
    <2> HIDE DEF act
    <2>1. QED
      BY <1>1
  <1>3. q[1].op \in {"exit", "entry"} /\ h \in m.States
    BY <1>2 DEF Activity
  <1>4. f = IF q[1].op = "exit" THEN e \ {h} ELSE e \cup {h}
    BY <1>2 DEF Ran
  <1>5. /\ \A j, k \in 1..n : j < k /\ q[k].op = "exit" => q[j].op = "exit"
        /\ \A j, k \in 1..n : q[j].op = q[k].op /\ q[j].state = q[k].state => j = k
    BY DEF Running, Ordered
  <1>6. ASSUME NEW j \in 1..n, q[j].op = "exit"
        PROVE  /\ q[j].state \in e
               /\ \A c \in e : m.Parent[c] = q[j].state =>
                     \E k \in 1..n : k < j /\ q[k].state = c
    BY <1>6 DEF Running, Ordered
  <1>7. ASSUME NEW j \in 1..n, q[j].op = "entry"
        PROVE  /\ q[j].state \in e => q[j].state \in ExitsIn(q)
               /\ \/ m.Parent[q[j].state] = NoState
                  \/ m.Parent[q[j].state] \in e \ ExitsIn(q)
                  \/ \E k \in 1..n : /\ k < j /\ q[k].op = "entry"
                                     /\ q[k].state = m.Parent[q[j].state]
    BY <1>7 DEF Running, Ordered
  <1>8. (e \ ExitsIn(q)) \cup EntriesIn(q) = Occupied(m, i)
    BY DEF Running
  <1> HIDE DEF n, p, h, f, act
  <1>9. \A j \in 1..(n - 1) : j + 1 \in 1..n
    BY <1>2
  <1>10. \A k \in 1..n : k = 1 \/ (k - 1 \in 1..(n - 1) /\ p[k - 1] = q[k])
    <2>1. TAKE k \in 1..n
    <2>2. k # 1 => k - 1 \in 1..(n - 1) /\ (k - 1) + 1 = k
      BY <1>2
    <2>3. QED
      BY <1>2, <2>2
  <1>11. \A x : x \in ExitsIn(q) <=> x \in ExitsIn(p) \/ (q[1].op = "exit" /\ x = h)
    <2>1. \A x : x \in ExitsIn(q) <=> \E k \in 1..n : q[k].op = "exit" /\ x = q[k].state
      BY DEF ExitsIn, n
    <2>2. \A x : x \in ExitsIn(p) <=> \E k \in 1..(n - 1) : p[k].op = "exit" /\ x = p[k].state
      BY <1>2 DEF ExitsIn
    <2>3. \A x : x \in ExitsIn(q) => x \in ExitsIn(p) \/ (q[1].op = "exit" /\ x = h)
      BY <1>10, <2>1, <2>2 DEF h
    <2>4. \A x : x \in ExitsIn(p) => x \in ExitsIn(q)
      BY <1>2, <1>9, <2>1, <2>2
    <2>5. 1 \in 1..n
      BY <1>2
    <2>6. QED
      BY <2>1, <2>3, <2>4, <2>5 DEF h
  <1>12. \A x : x \in EntriesIn(q) <=> x \in EntriesIn(p) \/ (q[1].op = "entry" /\ x = h)
    <2>1. \A x : x \in EntriesIn(q) <=> \E k \in 1..n : q[k].op = "entry" /\ x = q[k].state
      BY DEF EntriesIn, n
    <2>2. \A x : x \in EntriesIn(p) <=> \E k \in 1..(n - 1) : p[k].op = "entry" /\ x = p[k].state
      BY <1>2 DEF EntriesIn
    <2>3. \A x : x \in EntriesIn(q) => x \in EntriesIn(p) \/ (q[1].op = "entry" /\ x = h)
      BY <1>10, <2>1, <2>2 DEF h
    <2>4. \A x : x \in EntriesIn(p) => x \in EntriesIn(q)
      BY <1>2, <1>9, <2>1, <2>2
    <2>5. 1 \in 1..n
      BY <1>2
    <2>6. QED
      BY <2>1, <2>3, <2>4, <2>5 DEF h
  <1>13. f \subseteq m.States
    BY <1>1, <1>3, <1>4
  <1>14. \A j, k \in 1..(n - 1) : j < k /\ p[k].op = "exit" => p[j].op = "exit"
    BY <1>2, <1>5, <1>9
  <1>15. \A j, k \in 1..(n - 1) : p[j].op = p[k].op /\ p[j].state = p[k].state => j = k
    <2>1. TAKE j, k \in 1..(n - 1)
    <2>2. HAVE p[j].op = p[k].op /\ p[j].state = p[k].state
    <2>3. p[j] = q[j + 1] /\ p[k] = q[k + 1] /\ j + 1 \in 1..n /\ k + 1 \in 1..n
      BY <1>2, <1>9
    <2>4. j + 1 = k + 1
      BY <1>5, <2>2, <2>3
    <2>5. QED
      BY <1>2, <2>4
  <1>16. CASE q[1].op = "exit"
    <2>1. ASSUME NEW j \in 1..(n - 1), p[j].op = "exit"
          PROVE  /\ p[j].state \in f
                 /\ \A c \in f : m.Parent[c] = p[j].state =>
                       \E k \in 1..(n - 1) : k < j /\ p[k].state = c
      <3>1. q[j + 1].op = "exit" /\ p[j].state = q[j + 1].state /\ j + 1 \in 1..n
        BY <1>2, <1>9, <2>1
      <3>2. q[j + 1].state # h
        <4>1. j + 1 # 1 /\ 1 \in 1..n
          BY <1>2
        <4>2. QED
          BY <1>5, <1>16, <3>1, <4>1 DEF h
      <3>3. p[j].state \in f
        BY <1>4, <1>6, <1>16, <3>1, <3>2
      <3>4. ASSUME NEW c \in f, m.Parent[c] = p[j].state
            PROVE  \E k \in 1..(n - 1) : k < j /\ p[k].state = c
        <4>1. c \in e /\ c # h
          BY <1>4, <1>16
        <4>2. PICK k \in 1..n : k < j + 1 /\ q[k].state = c
          BY <1>6, <3>1, <3>4, <4>1
        <4>3. k # 1
          BY <4>1, <4>2 DEF h
        <4>4. k - 1 \in 1..(n - 1) /\ p[k - 1].state = c
          BY <1>10, <4>2, <4>3
        <4>5. k - 1 < j
          BY <1>2, <4>2
        <4>6. QED
          BY <4>4, <4>5
      <3>5. QED
        BY <3>3, <3>4
    <2>2. ASSUME NEW j \in 1..(n - 1), p[j].op = "entry"
          PROVE  /\ p[j].state \in f => p[j].state \in ExitsIn(p)
                 /\ \/ m.Parent[p[j].state] = NoState
                    \/ m.Parent[p[j].state] \in f \ ExitsIn(p)
                    \/ \E k \in 1..(n - 1) : /\ k < j /\ p[k].op = "entry"
                                             /\ p[k].state = m.Parent[p[j].state]
      <3>1. q[j + 1].op = "entry" /\ p[j] = q[j + 1] /\ j + 1 \in 1..n
        BY <1>2, <1>9, <2>2
      <3> DEFINE s == q[j + 1].state
      <3>2. s \in f => s \in ExitsIn(p)
        BY <1>4, <1>7, <1>11, <1>16, <3>1
      <3>3. CASE m.Parent[s] = NoState
        BY <3>1, <3>2, <3>3
      <3>4. CASE m.Parent[s] \in e \ ExitsIn(q)
        BY <1>4, <1>11, <1>16, <3>1, <3>2, <3>4
      <3>5. CASE \E k \in 1..n : k < j + 1 /\ q[k].op = "entry" /\ q[k].state = m.Parent[s]
        <4>1. PICK k \in 1..n : k < j + 1 /\ q[k].op = "entry" /\ q[k].state = m.Parent[s]
          BY <3>5
        <4>2. k # 1
          BY <1>16, <4>1
        <4>3. k - 1 \in 1..(n - 1) /\ p[k - 1] = q[k]
          BY <1>10, <4>1, <4>2
        <4>4. k - 1 < j
          BY <1>2, <4>1
        <4>5. QED
          BY <3>1, <3>2, <4>1, <4>3, <4>4
      <3>6. QED
        BY <1>7, <3>1, <3>3, <3>4, <3>5
    <2>3. (f \ ExitsIn(p)) \cup EntriesIn(p) = Occupied(m, i)
      BY <1>4, <1>8, <1>11, <1>12, <1>16
    <2>4. Ordered(m, f, p)
      BY <1>2, <1>14, <1>15, <2>1, <2>2 DEF Ordered
    <2>5. QED
      BY <1>2, <1>13, <2>3, <2>4 DEF Running, f, p, act
  <1>17. CASE q[1].op = "entry"
    <2>1. ExitsIn(q) = {} /\ ExitsIn(p) = {} /\ \A j \in 1..n : q[j].op # "exit"
      <3>1. ASSUME NEW j \in 1..n, q[j].op = "exit" PROVE FALSE
        <4>1. j # 1 /\ 1 < j /\ 1 \in 1..n
          BY <1>2, <1>17, <3>1
        <4>2. QED
          BY <1>5, <1>17, <3>1, <4>1
      <3>2. ExitsIn(q) = {}
        BY <3>1 DEF ExitsIn, n
      <3>3. QED
        BY <1>11, <3>1, <3>2
    <2>2. \A j \in 1..(n - 1) : p[j].op # "exit"
      BY <1>2, <1>9, <2>1
    <2>3. ASSUME NEW j \in 1..(n - 1), p[j].op = "entry"
          PROVE  /\ p[j].state \notin f
                 /\ \/ m.Parent[p[j].state] = NoState
                    \/ m.Parent[p[j].state] \in f
                    \/ \E k \in 1..(n - 1) : /\ k < j /\ p[k].op = "entry"
                                             /\ p[k].state = m.Parent[p[j].state]
      <3>1. q[j + 1].op = "entry" /\ p[j] = q[j + 1] /\ j + 1 \in 1..n
        BY <1>2, <1>9, <2>3
      <3> DEFINE s == q[j + 1].state
      <3>2. s # h
        <4>1. j + 1 # 1 /\ 1 \in 1..n
          BY <1>2
        <4>2. QED
          BY <1>5, <1>17, <3>1, <4>1 DEF h
      <3>3. s \notin f
        BY <1>4, <1>7, <1>17, <2>1, <3>1, <3>2
      <3>4. CASE m.Parent[s] = NoState
        BY <3>1, <3>3, <3>4
      <3>5. CASE m.Parent[s] \in e \ ExitsIn(q)
        BY <1>4, <1>17, <3>1, <3>3, <3>5
      <3>6. CASE \E k \in 1..n : k < j + 1 /\ q[k].op = "entry" /\ q[k].state = m.Parent[s]
        <4>1. PICK k \in 1..n : k < j + 1 /\ q[k].op = "entry" /\ q[k].state = m.Parent[s]
          BY <3>6
        <4>2. CASE k = 1
          BY <1>4, <1>17, <3>1, <3>3, <4>1, <4>2 DEF h
        <4>3. CASE k # 1
          <5>1. k - 1 \in 1..(n - 1) /\ p[k - 1] = q[k]
            BY <1>10, <4>1, <4>3
          <5>2. k - 1 < j
            BY <1>2, <4>1
          <5>3. QED
            BY <3>1, <3>3, <4>1, <5>1, <5>2
        <4>4. QED
          BY <4>2, <4>3
      <3>7. QED
        BY <1>7, <3>1, <3>4, <3>5, <3>6
    <2>4. (f \ ExitsIn(p)) \cup EntriesIn(p) = Occupied(m, i)
      BY <1>4, <1>8, <1>12, <1>17, <2>1
    <2>5. Ordered(m, f, p)
      BY <1>2, <1>14, <1>15, <2>1, <2>2, <2>3 DEF Ordered
    <2>6. QED
      BY <1>2, <1>13, <2>4, <2>5 DEF Running, f, p, act
  <1>18. QED
    BY <1>3, <1>16, <1>17

\* What ActivityOrder asks of the first activity.
LEMMA RunHead ==
    ASSUME NEW m, NEW i, NEW e, NEW q, Running(m, i, e, q), q # <<>>
    PROVE  LET s == Head(q).state IN
           IF Head(q).op = "exit"
           THEN s \in e /\ {c \in m.States : m.Parent[c] = s} \cap e = {}
           ELSE s \notin e /\ m.Parent[s] \in e \cup {NoState}
  <1> DEFINE act == Activity(m)
  <1>1. q \in Seq(act) /\ Ordered(m, e, q)
    BY DEF Running
  <1>2. Len(q) \in Nat /\ 1 \in 1..Len(q) /\ Head(q) = q[1] /\ q[1] \in act
    <2> HIDE DEF act
    <2>1. QED
      BY <1>1
  <1>3. q[1].op \in {"exit", "entry"}
    BY <1>2 DEF Activity
  <1> HIDE DEF act
  <1>4. \A k \in 1..Len(q) : ~(k < 1)
    BY <1>2
  <1>5. CASE q[1].op = "exit"
    BY <1>1, <1>2, <1>4, <1>5 DEF Ordered
  <1>6. CASE q[1].op = "entry"
    <2>1. \A j \in 1..Len(q) : q[j].op # "exit"
      <3>1. SUFFICES ASSUME NEW j \in 1..Len(q), q[j].op = "exit" PROVE FALSE
        OBVIOUS
      <3>2. j # 1 /\ 1 < j
        BY <1>2, <1>6, <3>1
      <3>3. QED
        BY <1>1, <1>2, <1>6, <3>1, <3>2 DEF Ordered
    <2>2. ExitsIn(q) = {}
      BY <2>1 DEF ExitsIn
    <2>3. QED
      BY <1>1, <1>2, <1>4, <1>6, <2>2 DEF Ordered
  <1>7. QED
    BY <1>3, <1>5, <1>6

\* When nothing is left to run, what was entered is where the instance is.
LEMMA RunDone ==
    ASSUME NEW m, NEW i, NEW e
    PROVE  Running(m, i, e, <<>>) <=> e = Occupied(m, i)
  <1>1. ExitsIn(<<>>) = {} /\ EntriesIn(<<>>) = {} /\ Len(<<>>) = 0 /\ 1..0 = {}
    BY DEF ExitsIn, EntriesIn
  <1>2. <<>> \in Seq(Activity(m))
    OBVIOUS
  <1>3. Ordered(m, e, <<>>)
    BY <1>1 DEF Ordered
  <1>4. Occupied(m, i) \subseteq m.States
    BY DEF Occupied
  <1>5. QED
    BY <1>1, <1>2, <1>3, <1>4 DEF Running

\* The exits of A and then the entries of B are in order when A and B are.
LEMMA RunPlan ==
    ASSUME NEW m, NEW i, NEW e \in SUBSET m.States,
           NEW A \in Seq(m.States), NEW B \in Seq(m.States),
           \A j, k \in 1..Len(A) : A[j] = A[k] => j = k,
           \A j, k \in 1..Len(B) : B[j] = B[k] => j = k,
           \A j \in 1..Len(A) :
              /\ A[j] \in e
              /\ \A c \in e : m.Parent[c] = A[j] => \E k \in 1..Len(A) : k < j /\ A[k] = c,
           \A j \in 1..Len(B) :
              /\ B[j] \in e => B[j] \in ToSet(A)
              /\ \/ m.Parent[B[j]] = NoState
                 \/ m.Parent[B[j]] \in e \ ToSet(A)
                 \/ \E k \in 1..Len(B) : k < j /\ B[k] = m.Parent[B[j]],
           (e \ ToSet(A)) \cup ToSet(B) = Occupied(m, i)
    PROVE  Running(m, i, e, exits(A) \o entries(B))
  <1> DEFINE a == Len(A)
             b == Len(B)
             q == exits(A) \o entries(B)
             act == Activity(m)
             X == exits(A)
             N == entries(B)
  <1>1. a \in Nat /\ b \in Nat /\ DOMAIN A = 1..a /\ DOMAIN B = 1..b
    OBVIOUS
  <1>2. /\ X \in Seq(act) /\ Len(X) = a
        /\ \A j \in 1..a : X[j].op = "exit" /\ X[j].state = A[j]
    <2>1. X = [j \in 1..a |-> [op |-> "exit", state |-> A[j]]]
      BY <1>1 DEF exits
    <2>2. \A j \in 1..a : A[j] \in m.States
      OBVIOUS
    <2>3. \A j \in 1..a : [op |-> "exit", state |-> A[j]] \in act
      BY <2>2 DEF Activity
    <2> HIDE DEF act, a, X
    <2>4. X \in [1..a -> act]
      BY <2>1, <2>3
    <2>5. X \in Seq(act) /\ Len(X) = a
      BY <1>1, <2>4, SeqDef
    <2>6. QED
      BY <2>1, <2>5
  <1>3. /\ N \in Seq(act) /\ Len(N) = b
        /\ \A j \in 1..b : N[j].op = "entry" /\ N[j].state = B[j]
    <2>1. N = [j \in 1..b |-> [op |-> "entry", state |-> B[j]]]
      BY <1>1 DEF entries
    <2>2. \A j \in 1..b : B[j] \in m.States
      OBVIOUS
    <2>3. \A j \in 1..b : [op |-> "entry", state |-> B[j]] \in act
      BY <2>2 DEF Activity
    <2> HIDE DEF act, b, N
    <2>4. N \in [1..b -> act]
      BY <2>1, <2>3
    <2>5. N \in Seq(act) /\ Len(N) = b
      BY <1>1, <2>4, SeqDef
    <2>6. QED
      BY <2>1, <2>5
  <1> HIDE DEF act, X, N
  <1>4. /\ q \in Seq(act) /\ Len(q) = a + b
        /\ \A j \in 1..(a + b) : q[j] = IF j <= a THEN X[j] ELSE N[j - a]
    <2>1. q = X \o N
      BY DEF X, N
    <2>2. QED
      BY <1>2, <1>3, <2>1, ConcatProperties
  <1> HIDE DEF q, a, b
  <1>5. \A j \in 1..a : j \in 1..(a + b) /\ q[j].op = "exit" /\ q[j].state = A[j]
    BY <1>1, <1>2, <1>4
  <1>6. \A j \in 1..b : a + j \in 1..(a + b) /\ q[a + j].op = "entry" /\ q[a + j].state = B[j]
    <2>1. TAKE j \in 1..b
    <2>2. a + j \in 1..(a + b) /\ ~(a + j <= a) /\ (a + j) - a = j
      BY <1>1
    <2>3. q[a + j] = N[j]
      BY <1>4, <2>2
    <2>4. QED
      BY <1>3, <2>2, <2>3
  <1>7. \A j \in 1..(a + b) : j \in 1..a \/ (j - a \in 1..b /\ a + (j - a) = j)
    BY <1>1
  <1>8. "exit" # "entry"
    OBVIOUS
  <1>9. \A j \in 1..(a + b) : /\ q[j].op = "exit" <=> j \in 1..a
                              /\ q[j].op = "entry" => j - a \in 1..b /\ q[j].state = B[j - a]
    BY <1>5, <1>6, <1>7, <1>8
  <1>10. ExitsIn(q) = ToSet(A)
    <2>1. \A x : x \in ExitsIn(q) <=> \E k \in 1..(a + b) : q[k].op = "exit" /\ x = q[k].state
      BY <1>4 DEF ExitsIn
    <2>2. \A x : x \in ToSet(A) <=> \E k \in 1..a : x = A[k]
      BY <1>1 DEF ToSet, a
    <2>3. \A x : x \in ExitsIn(q) <=> x \in ToSet(A)
      BY <1>5, <1>9, <2>1, <2>2
    <2>4. QED
      BY <2>3
  <1>11. EntriesIn(q) = ToSet(B)
    <2>1. \A x : x \in EntriesIn(q) <=> \E k \in 1..(a + b) : q[k].op = "entry" /\ x = q[k].state
      BY <1>4 DEF EntriesIn
    <2>2. \A x : x \in ToSet(B) <=> \E k \in 1..b : x = B[k]
      BY <1>1 DEF ToSet, b
    <2>3. \A x : x \in EntriesIn(q) <=> x \in ToSet(B)
      BY <1>6, <1>9, <2>1, <2>2
    <2>4. QED
      BY <2>3
  <1>12. \A j, k \in 1..(a + b) : j < k /\ q[k].op = "exit" => q[j].op = "exit"
    BY <1>1, <1>9
  <1>13. \A j, k \in 1..(a + b) : q[j].op = q[k].op /\ q[j].state = q[k].state => j = k
    <2>1. SUFFICES ASSUME NEW j \in 1..(a + b), NEW k \in 1..(a + b),
                          q[j].op = q[k].op, q[j].state = q[k].state
                   PROVE  j = k
      OBVIOUS
    <2>2. CASE j \in 1..a
      <3>1. k \in 1..a /\ A[j] = A[k]
        BY <1>5, <1>9, <2>1, <2>2
      <3>2. QED
        BY <2>2, <3>1 DEF a
    <2>3. CASE j \notin 1..a
      <3>1. k \notin 1..a
        BY <1>9, <2>1, <2>3
      <3>2. j - a \in 1..b /\ k - a \in 1..b /\ a + (j - a) = j /\ a + (k - a) = k
        BY <1>7, <2>3, <3>1
      <3>3. B[j - a] = B[k - a]
        BY <1>6, <2>1, <3>2
      <3>4. j - a = k - a
        BY <3>2, <3>3 DEF b
      <3>5. QED
        BY <3>2, <3>4
    <2>4. QED
      BY <2>2, <2>3
  <1>14. ASSUME NEW j \in 1..(a + b), q[j].op = "exit"
         PROVE  /\ q[j].state \in e
                /\ \A c \in e : m.Parent[c] = q[j].state =>
                      \E k \in 1..(a + b) : k < j /\ q[k].state = c
    <2>1. j \in 1..a /\ q[j].state = A[j]
      BY <1>5, <1>9, <1>14
    <2>2. /\ A[j] \in e
          /\ \A c \in e : m.Parent[c] = A[j] => \E k \in 1..a : k < j /\ A[k] = c
      BY <2>1 DEF a
    <2>3. QED
      BY <1>5, <2>1, <2>2
  <1>15. ASSUME NEW j \in 1..(a + b), q[j].op = "entry"
         PROVE  /\ q[j].state \in e => q[j].state \in ExitsIn(q)
                /\ \/ m.Parent[q[j].state] = NoState
                   \/ m.Parent[q[j].state] \in e \ ExitsIn(q)
                   \/ \E k \in 1..(a + b) : /\ k < j /\ q[k].op = "entry"
                                            /\ q[k].state = m.Parent[q[j].state]
    <2> DEFINE x == j - a
    <2>1. x \in 1..b /\ q[j].state = B[x] /\ a + x = j
      BY <1>1, <1>9, <1>15
    <2> HIDE DEF x
    <2>2. /\ B[x] \in e => B[x] \in ToSet(A)
          /\ \/ m.Parent[B[x]] = NoState
             \/ m.Parent[B[x]] \in e \ ToSet(A)
             \/ \E k \in 1..b : k < x /\ B[k] = m.Parent[B[x]]
      BY <2>1 DEF b
    <2>3. ASSUME NEW k \in 1..b, k < x, B[k] = m.Parent[B[x]]
          PROVE  \E y \in 1..(a + b) : /\ y < j /\ q[y].op = "entry"
                                       /\ q[y].state = m.Parent[q[j].state]
      <3>1. a + k \in 1..(a + b) /\ q[a + k].op = "entry" /\ q[a + k].state = B[k]
        BY <1>6
      <3>2. a + k < j
        BY <1>1, <2>1, <2>3
      <3>3. QED
        BY <2>1, <2>3, <3>1, <3>2
    <2>4. QED
      BY <1>10, <2>1, <2>2, <2>3
  <1>16. Ordered(m, e, q)
    BY <1>4, <1>12, <1>13, <1>14, <1>15 DEF Ordered
  <1>17. QED
    BY <1>4, <1>10, <1>11, <1>16 DEF Running, q, act

----------------------------------------------------------------------------
(* Where an instance is *)

\* The Go maps of an instance lead from states to states.
Maps(m) == UNION {[D -> m.States] : D \in SUBSET m.States}

Instances(m) == [cur : m.States, aip : Maps(m), shallow : Maps(m), deep : Maps(m)]

\* In a leaf outside parallel states.
AtLeaf(m, i) == i.aip = EmptyMap /\ i.cur \in leaves(m) /\ ~inParallel(m, i.cur)

\* In a parallel state, and in one leaf of each of its regions.
AtParallel(m, i) ==
    /\ i.cur \in m.Parallel
    /\ DOMAIN i.aip = ToSet(m.RegionIndex[i.cur])
    /\ \A r \in DOMAIN i.aip : i.aip[r] \in leaves(m) /\ m.Parent[i.aip[r]] = r

\* Compound states remember a child and a leaf of theirs.
Histories(m, i) ==
    /\ \A s \in DOMAIN i.shallow :
          s \in m.Compound \ m.Parallel /\ m.Parent[i.shallow[s]] = s
    /\ \A s \in DOMAIN i.deep :
          /\ s \in m.Compound \ m.Parallel
          /\ i.deep[s] \in leaves(m) /\ within(m, i.deep[s], s)

Placed(m, i) ==
    /\ i \in Instances(m)
    /\ AtLeaf(m, i) \/ AtParallel(m, i)
    /\ Histories(m, i)

\* A map of an instance leads from states to states.
LEMMA MapsApply ==
    ASSUME NEW m, NEW f \in Maps(m), NEW s \in DOMAIN f
    PROVE  f[s] \in m.States /\ s \in m.States
  BY DEF Maps

\* A function from states to states is a map.
LEMMA MapsIntro ==
    ASSUME NEW m, NEW D \in SUBSET m.States, NEW f \in [D -> m.States]
    PROVE  f \in Maps(m)
  BY DEF Maps

\* The empty map is one, with an empty domain.
LEMMA EmptyMapType ==
    ASSUME NEW m
    PROVE  EmptyMap \in Maps(m) /\ DOMAIN EmptyMap = {}
  <1>1. EmptyMap \in [{} -> m.States] /\ DOMAIN EmptyMap = {}
    BY DEF EmptyMap
  <1>2. QED
    BY <1>1, MapsIntro

\* The path from a leaf of a region: the region, then the parallel state.
LEMMA RegionPath ==
    ASSUME NEW m, WellCompiled(m), Hierarchy(m), NEW p \in m.Parallel,
           NEW r \in m.States, m.Parent[r] = p, NEW l \in m.States, m.Parent[l] = r
    PROVE  \A s : within(m, l, s) <=> s \in {l, r, p}
  <1>1. p \in m.States /\ m.Parent[p] = NoState /\ p # NoState /\ r # NoState
    BY DEF Hierarchy, WellCompiled
  <1>2. Height(m, p) = 0
    BY <1>1, UpStep
  <1>3. Height(m, r) = 1
    BY <1>1, <1>2, UpStep
  <1>4. Height(m, l) = 2
    BY <1>1, <1>3, UpStep
  <1>5. Up(m, l, 1) = r /\ Up(m, l, 2) = p /\ Up(m, l, 0) = l
    <2>1. m.Parent[Up(m, l, 0)] = Up(m, l, 0 + 1)
      BY <1>4, UpParent
    <2>2. Up(m, l, 0) = l
      BY DEF Up
    <2>3. Up(m, l, 1) = r
      BY <2>1, <2>2
    <2>4. m.Parent[Up(m, l, 1)] = Up(m, l, 1 + 1)
      BY <1>4, UpParent
    <2>5. QED
      BY <2>2, <2>3, <2>4
  <1>6. 0..2 = {0, 1, 2}
    OBVIOUS
  <1>7. QED
    BY <1>4, <1>5, <1>6, WithinUp

\* The states an instance in a leaf is in: the path of the leaf.
LEMMA OccupiedLeaf ==
    ASSUME NEW m, Good(m), NEW i, AtLeaf(m, i)
    PROVE  /\ i.cur \in m.States
           /\ activeStates(i) = {i.cur} /\ activeStates(i) \ m.Parallel = {i.cur}
           /\ \A s : Occupies(m, i, s) <=> within(m, i.cur, s)
           /\ \A s : s \in Occupied(m, i) <=>
                        \E k \in 0..Height(m, i.cur) : s = Up(m, i.cur, k)
  <1> USE DEF Good
  <1>1. i.cur \in m.States /\ i.cur \notin m.Parallel
    BY LeafTop DEF AtLeaf
  <1>2. activeStates(i) = {i.cur}
    BY EmptyMapType DEF activeStates, AtLeaf
  <1>3. activeStates(i) \ m.Parallel = {i.cur}
    BY <1>1, <1>2
  <1>4. \A s : Occupies(m, i, s) <=> within(m, i.cur, s)
    BY <1>3 DEF Occupies
  <1>5. \A s : within(m, i.cur, s) => s \in m.States
    BY <1>1, WithinUp, UpUp
  <1>6. \A s : s \in Occupied(m, i) <=> within(m, i.cur, s)
    BY <1>1, <1>4, <1>5 DEF Occupied, within
  <1>7. \A s : s \in Occupied(m, i) <=> \E k \in 0..Height(m, i.cur) : s = Up(m, i.cur, k)
    BY <1>1, <1>6, WithinUp
  <1>8. QED
    BY <1>1, <1>2, <1>3, <1>4, <1>7

\* The states an instance in a parallel state is in: that state, its regions
\* and one leaf of each.
LEMMA OccupiedParallel ==
    ASSUME NEW m, Good(m), NEW i, AtParallel(m, i)
    PROVE  /\ i.cur \in m.States /\ i.aip # EmptyMap /\ DOMAIN i.aip # {}
           /\ \A r \in DOMAIN i.aip :
                 /\ r \in m.Compound \ m.Parallel /\ r \in m.States /\ m.Parent[r] = i.cur
                 /\ i.aip[r] \in m.States
           /\ activeStates(i) \ m.Parallel = {i.aip[r] : r \in DOMAIN i.aip}
           /\ \A s : Occupies(m, i, s) <=> s \in Occupied(m, i)
           /\ \A s : s \in Occupied(m, i) <=>
                        \/ s = i.cur
                        \/ s \in DOMAIN i.aip
                        \/ \E r \in DOMAIN i.aip : s = i.aip[r]
  <1> USE DEF Good
  <1> DEFINE p == i.cur
  <1>1. p \in m.Parallel /\ p \in m.States
    BY DEF AtParallel, WellCompiled
  <1>2. ASSUME NEW r \in DOMAIN i.aip
        PROVE  /\ r \in m.Compound \ m.Parallel /\ r \in m.States /\ m.Parent[r] = p
               /\ i.aip[r] \in m.States /\ i.aip[r] \notin m.Parallel
               /\ m.Parent[i.aip[r]] = r
    <2>1. r \in ToSet(m.RegionIndex[p]) /\ i.aip[r] \in leaves(m) /\ m.Parent[i.aip[r]] = r
      BY DEF AtParallel
    <2>2. QED
      BY <1>1, <2>1, RegionLeaf, LeafTop
  <1>3. DOMAIN i.aip # {}
    <2>1. m.RegionIndex[p] # <<>> /\ m.RegionIndex[p] \in Seq(m.Compound \ m.Parallel)
      BY <1>1 DEF WellCompiled
    <2> DEFINE S == m.Compound \ m.Parallel
               x == m.RegionIndex[p]
    <2>2. x # <<>> /\ x \in Seq(S)
      BY <2>1
    <2> HIDE DEF S, x
    <2>3. 1 \in DOMAIN x
      BY <2>2
    <2>4. DOMAIN i.aip = ToSet(x)
      BY DEF AtParallel, x
    <2>5. QED
      BY <2>3, <2>4 DEF ToSet
  <1>4. activeStates(i) \ m.Parallel = {i.aip[r] : r \in DOMAIN i.aip}
    BY <1>1, <1>2 DEF activeStates
  <1>5. \A r \in DOMAIN i.aip : \A s : within(m, i.aip[r], s) <=> s \in {i.aip[r], r, p}
    BY <1>1, <1>2, RegionPath
  <1>6. \A s : Occupies(m, i, s) <=> \E r \in DOMAIN i.aip : s \in {i.aip[r], r, p}
    <2>1. \A s : Occupies(m, i, s) <=> \E r \in DOMAIN i.aip : within(m, i.aip[r], s)
      BY <1>4 DEF Occupies
    <2>2. QED
      BY <1>5, <2>1
  <1>7. \A s : s \in Occupied(m, i) <=>
                 s = p \/ s \in DOMAIN i.aip \/ \E r \in DOMAIN i.aip : s = i.aip[r]
    BY <1>1, <1>2, <1>3, <1>6 DEF Occupied
  <1>8. \A s : Occupies(m, i, s) <=> s \in Occupied(m, i)
    BY <1>3, <1>6, <1>7
  <1>9. i.aip # EmptyMap
    BY <1>3, EmptyMapType
  <1>10. QED
    BY <1>1, <1>2, <1>3, <1>4, <1>7, <1>8, <1>9

\* What LegalConfiguration asks of the states e entered by instance i.
Legal(m, i, e) ==
    /\ Cardinality({s \in e : m.Parent[s] = NoState}) = 1
    /\ \A s \in e :
          /\ m.Parent[s] \in e \cup {NoState}
          /\ s \in m.Parallel => {c \in m.States : m.Parent[c] = s} \subseteq e
          /\ s \in m.Compound \ m.Parallel =>
                Cardinality({c \in m.States : m.Parent[c] = s} \cap e) = 1
    /\ e \cap leaves(m) = activeStates(i) \ m.Parallel

\* The path of a leaf is a legal configuration.
LEMMA LegalLeaf ==
    ASSUME NEW m, Good(m), NEW i, AtLeaf(m, i)
    PROVE  Legal(m, i, Occupied(m, i))
  <1> DEFINE a == i.cur
             h == Height(m, a)
             e == Occupied(m, i)
             children(s) == {c \in m.States : m.Parent[c] = s}
  <1>1. /\ a \in m.States /\ activeStates(i) \ m.Parallel = {a}
        /\ \A s : s \in e <=> \E k \in 0..h : s = Up(m, a, k)
    BY OccupiedLeaf
  <1>2. WellCompiled(m) /\ Hierarchy(m) /\ a \in leaves(m) /\ ~inParallel(m, a)
    BY DEF Good, AtLeaf
  <1>3. a \notin m.Parallel /\ a \notin m.Compound
    BY <1>2, LeafTop
  <1>4. h \in Nat
    BY <1>1, <1>2, UpStep
  <1>5. \A k \in 0..h : /\ Up(m, a, k) \in m.States /\ Up(m, a, k) # NoState
                        /\ m.Parent[Up(m, a, k)] = IF k < h THEN Up(m, a, k + 1) ELSE NoState
    <2>1. \A k \in 0..h : Up(m, a, k) \in m.States
      BY <1>1, <1>2, UpUp
    <2>2. \A k \in 0..h : m.Parent[Up(m, a, k)] = IF k < h THEN Up(m, a, k + 1) ELSE NoState
      BY <1>1, <1>2, UpParent
    <2>3. NoState \notin m.States
      BY <1>2 DEF WellCompiled
    <2> HIDE DEF a, h
    <2>4. QED
      BY <2>1, <2>2, <2>3
  <1>6. \A j, k \in 0..h : Up(m, a, j) = Up(m, a, k) => j = k
    BY <1>1, <1>2, UpInjective
  <1>7. \A k \in 1..h : Up(m, a, k) \in m.Compound \ m.Parallel
    <2>1. \A k \in 1..h : Up(m, a, k) \in m.Compound
      BY <1>1, <1>2, UpCompound
    <2>2. \A k \in 1..h : Up(m, a, k) \notin m.Parallel
      BY <1>1, <1>2, InParallelUp
    <2>3. QED
      BY <2>1, <2>2
  <1>8. Up(m, a, 0) = a
    BY DEF Up
  <1> HIDE DEF a, h, e
  <1>9. Cardinality({s \in e : m.Parent[s] = NoState}) = 1
    <2>1. \A k \in 0..h : k < h => k + 1 \in 0..h
      BY <1>4
    <2>2. h \in 0..h /\ ~(h < h) /\ \A k \in 0..h : ~(k < h) => k = h
      BY <1>4
    <2>3. {s \in e : m.Parent[s] = NoState} = {Up(m, a, h)}
      BY <1>1, <1>5, <2>1, <2>2
    <2>4. QED
      BY <2>3, FS_Singleton
  <1>10. ASSUME NEW s \in e PROVE m.Parent[s] \in e \cup {NoState}
    <2>1. PICK k \in 0..h : s = Up(m, a, k)
      BY <1>1
    <2>2. k < h => k + 1 \in 0..h
      BY <1>4
    <2>3. QED
      BY <1>1, <1>5, <2>1, <2>2
  <1>11. ASSUME NEW s \in e PROVE s \notin m.Parallel
    <2>1. PICK k \in 0..h : s = Up(m, a, k)
      BY <1>1
    <2>2. k = 0 \/ k \in 1..h
      BY <1>4
    <2>3. QED
      BY <1>3, <1>7, <1>8, <2>1, <2>2
  <1>12. ASSUME NEW s \in e, s \in m.Compound PROVE Cardinality(children(s) \cap e) = 1
    <2>1. PICK k \in 0..h : s = Up(m, a, k)
      BY <1>1
    <2>2. k # 0
      BY <1>3, <1>8, <1>12, <2>1
    <2>3. k - 1 \in 0..h /\ k - 1 < h /\ (k - 1) + 1 = k
      BY <1>4, <2>1, <2>2
    <2>4. Up(m, a, k - 1) \in m.States /\ m.Parent[Up(m, a, k - 1)] = s
      BY <1>5, <2>1, <2>3
    <2>5. ASSUME NEW c \in children(s) \cap e PROVE c = Up(m, a, k - 1)
      <3>1. PICK j \in 0..h : c = Up(m, a, j)
        BY <1>1, <2>5
      <3>2. m.Parent[c] = s /\ s # NoState
        BY <1>5, <2>1, <2>5
      <3>3. j < h /\ Up(m, a, j + 1) = s
        BY <1>5, <3>1, <3>2
      <3>4. j + 1 \in 0..h
        BY <1>4, <3>1, <3>3
      <3>5. j + 1 = k
        BY <1>6, <2>1, <3>3, <3>4
      <3>6. j = k - 1
        BY <3>1, <3>5
      <3>7. QED
        BY <3>1, <3>6
    <2>6. Up(m, a, k - 1) \in e
      BY <1>1, <2>3
    <2>7. children(s) \cap e = {Up(m, a, k - 1)}
      BY <2>4, <2>5, <2>6
    <2>8. QED
      BY <2>7, FS_Singleton
  <1>13. e \cap leaves(m) = {a}
    <2>1. ASSUME NEW s \in e \cap leaves(m) PROVE s = a
      <3>1. PICK k \in 0..h : s = Up(m, a, k)
        BY <1>1, <2>1
      <3>2. k = 0 \/ k \in 1..h
        BY <1>4
      <3>3. QED
        BY <1>7, <1>8, <3>1, <3>2, <2>1 DEF leaves
    <2>2. a \in e
      <3>1. 0 \in 0..h
        BY <1>4
      <3>2. QED
        BY <1>1, <1>8, <3>1
    <2>3. a \in leaves(m)
      BY <1>2
    <2>4. QED
      BY <2>1, <2>2, <2>3
  <1>14. QED
    BY <1>1, <1>9, <1>10, <1>11, <1>12, <1>13 DEF Legal, e

\* A parallel state, its regions and a leaf of each are a legal configuration.
LEMMA LegalParallel ==
    ASSUME NEW m, Good(m), NEW i, AtParallel(m, i)
    PROVE  Legal(m, i, Occupied(m, i))
  <1> DEFINE p == i.cur
             R == DOMAIN i.aip
             e == Occupied(m, i)
             children(s) == {c \in m.States : m.Parent[c] = s}
  <1>1. /\ p \in m.States
        /\ \A r \in R : /\ r \in m.Compound \ m.Parallel /\ r \in m.States
                        /\ m.Parent[r] = p /\ i.aip[r] \in m.States
        /\ activeStates(i) \ m.Parallel = {i.aip[r] : r \in R}
        /\ \A s : s \in e <=> s = p \/ s \in R \/ \E r \in R : s = i.aip[r]
    BY OccupiedParallel
  <1>2. WellCompiled(m) /\ Hierarchy(m)
    BY DEF Good
  <1>3. /\ p \in m.Parallel /\ m.Parent[p] = NoState /\ p \in m.Compound /\ p # NoState
        /\ NoState \notin m.States
    BY <1>2 DEF AtParallel, Hierarchy, WellCompiled
  <1>4. R = children(p)
    BY <1>2, <1>3 DEF AtParallel, Hierarchy
  <1>5. \A r \in R : /\ i.aip[r] \in leaves(m) /\ m.Parent[i.aip[r]] = r
                     /\ i.aip[r] \notin m.Compound /\ i.aip[r] \notin m.Parallel
    BY <1>2, LeafTop DEF AtParallel
  <1> HIDE DEF p, e, R
  <1>6. Cardinality({s \in e : m.Parent[s] = NoState}) = 1
    <2>1. {s \in e : m.Parent[s] = NoState} = {p}
      BY <1>1, <1>3, <1>5
    <2>2. QED
      BY <2>1, FS_Singleton
  <1>7. \A s \in e : m.Parent[s] \in e \cup {NoState}
    BY <1>1, <1>3, <1>5
  <1>8. ASSUME NEW s \in e, s \in m.Parallel PROVE children(s) \subseteq e
    <2>1. s = p
      BY <1>1, <1>5, <1>8
    <2>2. QED
      BY <1>1, <1>4, <2>1
  <1>9. ASSUME NEW s \in e, s \in m.Compound \ m.Parallel
        PROVE  Cardinality(children(s) \cap e) = 1
    <2>1. s \in R
      BY <1>1, <1>3, <1>5, <1>9
    <2>2. children(s) \cap e = {i.aip[s]}
      <3>1. i.aip[s] \in children(s) \cap e
        BY <1>1, <1>5, <2>1
      <3>2. ASSUME NEW c \in children(s) \cap e PROVE c = i.aip[s]
        <4>1. m.Parent[c] = s /\ s # p /\ s # NoState
          BY <1>1, <1>3, <2>1
        <4>2. c # p /\ c \notin R
          BY <1>1, <1>3, <4>1
        <4>3. QED
          BY <1>1, <1>5, <4>1, <4>2
      <3>3. QED
        BY <3>1, <3>2
    <2>3. QED
      BY <2>2, FS_Singleton
  <1>10. e \cap leaves(m) = {i.aip[r] : r \in R}
    BY <1>1, <1>3, <1>5 DEF leaves
  <1>11. QED
    BY <1>1, <1>6, <1>7, <1>8, <1>9, <1>10 DEF Legal, e, R

----------------------------------------------------------------------------
(* The activities of each transition *)

\* From the path of a to the path of b, up to their common ancestor and down.
LEMMA PlanPaths ==
    ASSUME NEW m, WellCompiled(m), Hierarchy(m), NEW a \in m.States, NEW b \in m.States,
           NEW e, \A s : s \in e <=> \E k \in 0..Height(m, a) : s = Up(m, a, k),
           NEW j, \A s : s \in Occupied(m, j) <=> \E k \in 0..Height(m, b) : s = Up(m, b, k),
           NEW lca, lca = LCA(m, a, b)
    PROVE  Running(m, j, e, exits(computeExitSequence(m, a, lca))
                            \o entries(computeEntrySequence(m, lca, b)))
  <1> DEFINE A == computeExitSequence(m, a, lca)
             B == computeEntrySequence(m, lca, b)
             g == Height(m, a)
             h == Height(m, b)
  <1>1. g \in Nat /\ h \in Nat
    BY UpStep
  <1>2. PICK K \in 0..g : /\ Cut(m, a, lca, K)
                          /\ A \in Seq(m.States) /\ Len(A) = K + 1
                          /\ \A x \in 1..(K + 1) : A[x] = Up(m, a, x - 1)
    <2>1. PICK K \in 0..g : Cut(m, a, lca, K) /\ Climbs(m, a, K, A)
      BY ExitUp
    <2> HIDE DEF A
    <2>2. QED
      BY <2>1 DEF Climbs
  <1>3. PICK L \in 0..h : /\ Cut(m, b, lca, L)
                          /\ B \in Seq(m.States) /\ Len(B) = L + 1
                          /\ \A x \in 1..(L + 1) : B[x] = Up(m, b, (L + 1) - x)
    <2>1. PICK L \in 0..h : Cut(m, b, lca, L) /\ Descends(m, b, L, B)
      BY EntryUp
    <2> HIDE DEF B
    <2>2. QED
      BY <2>1 DEF Descends
  <1>4. \A k \in 0..g : Up(m, a, k) \in m.States /\ Height(m, Up(m, a, k)) = g - k
    BY UpUp
  <1>5. \A k \in 0..h : Up(m, b, k) \in m.States /\ Height(m, Up(m, b, k)) = h - k
    BY UpUp
  <1>6. \A k \in 0..g : m.Parent[Up(m, a, k)] = IF k < g THEN Up(m, a, k + 1) ELSE NoState
    BY UpParent
  <1>7. \A k \in 0..h : m.Parent[Up(m, b, k)] = IF k < h THEN Up(m, b, k + 1) ELSE NoState
    BY UpParent
  <1>8. \A x, y \in 0..g : Up(m, a, x) = Up(m, a, y) => x = y
    BY UpInjective
  <1>9. \A x, y \in 0..h : Up(m, b, x) = Up(m, b, y) => x = y
    BY UpInjective
  <1>10. NoState \notin m.States
    BY DEF WellCompiled
  \* Either nothing is left standing, or the rest of both paths is the same.
  <1>11. \/ K = g /\ L = h
         \/ K < g /\ L < h /\ Up(m, a, K + 1) = lca /\ Up(m, b, L + 1) = lca
    <2>1. CASE lca = NoState
      <3>1. ~(K < g /\ Up(m, a, K + 1) = lca)
        <4>1. K < g => K + 1 \in 0..g
          BY <1>1, <1>2
        <4>2. QED
          BY <1>4, <1>10, <2>1, <4>1
      <3>2. ~(L < h /\ Up(m, b, L + 1) = lca)
        <4>1. L < h => L + 1 \in 0..h
          BY <1>1, <1>3
        <4>2. QED
          BY <1>5, <1>10, <2>1, <4>1
      <3>3. QED
        BY <1>2, <1>3, <3>1, <3>2 DEF Cut
    <2>2. CASE lca # NoState
      <3>1. /\ \E x \in 1..g : Up(m, a, x) = lca
            /\ \E y \in 1..h : Up(m, b, y) = lca
        BY <2>2, LCAUp
      <3>2. QED
        BY <1>2, <1>3, <3>1 DEF Cut
    <2>3. QED
      BY <2>1, <2>2
  <1> HIDE DEF A, B, g, h
  <1>12. K < g => /\ g - K = h - L
                  /\ \A x \in 0..(g - (K + 1)) :
                        Up(m, a, (K + 1) + x) = Up(m, b, (L + 1) + x)
    <2>1. HAVE K < g
    <2>2. L < h /\ Up(m, a, K + 1) = lca /\ Up(m, b, L + 1) = lca
      BY <1>1, <1>2, <1>11, <2>1
    <2>3. K + 1 \in 0..g /\ L + 1 \in 0..h
      BY <1>1, <1>2, <1>3, <2>1, <2>2
    <2>4. g - (K + 1) = h - (L + 1)
      BY <1>4, <1>5, <2>2, <2>3
    <2>5. /\ \A x \in 0..(g - (K + 1)) : Up(m, a, (K + 1) + x) = Up(m, lca, x)
          /\ \A x \in 0..(h - (L + 1)) : Up(m, b, (L + 1) + x) = Up(m, lca, x)
      <3>1. \A x \in 0..(g - (K + 1)) : Up(m, a, (K + 1) + x) = Up(m, Up(m, a, K + 1), x)
        BY <2>3, UpUp DEF g
      <3>2. \A x \in 0..(h - (L + 1)) : Up(m, b, (L + 1) + x) = Up(m, Up(m, b, L + 1), x)
        BY <2>3, UpUp DEF h
      <3>3. QED
        BY <2>2, <3>1, <3>2
    <2>6. g - K = h - L
      <3>1. K \in Nat /\ L \in Nat
        BY <1>1
      <3>2. QED
        BY <1>1, <2>4, <3>1
    <2>7. ASSUME NEW x \in 0..(g - (K + 1))
          PROVE  Up(m, a, (K + 1) + x) = Up(m, b, (L + 1) + x)
      <3>1. x \in 0..(h - (L + 1))
        BY <2>4
      <3>2. QED
        BY <2>5, <3>1
    <2>8. QED
      BY <2>6, <2>7
  <1>13. \A s : s \in ToSet(A) <=> \E k \in 0..K : s = Up(m, a, k)
    <2> HIDE DEF A
    <2>1. K \in Nat /\ Climbs(m, a, K, A)
      BY <1>1, <1>2 DEF Climbs
    <2>2. QED
      BY <2>1, ClimbSet
  <1>14. \A s : s \in ToSet(B) <=> \E k \in 0..L : s = Up(m, b, k)
    <2> HIDE DEF B
    <2>1. L \in Nat /\ Descends(m, b, L, B)
      BY <1>1, <1>3 DEF Descends
    <2>2. QED
      BY <2>1, DescentSet
  <1>15. e \in SUBSET m.States
    BY <1>4 DEF g
  <1>16. \A x, y \in 1..Len(A) : A[x] = A[y] => x = y
    <2>1. TAKE x, y \in 1..Len(A)
    <2>2. HAVE A[x] = A[y]
    <2>3. x - 1 \in 0..g /\ y - 1 \in 0..g /\ x \in 1..(K + 1) /\ y \in 1..(K + 1)
      BY <1>1, <1>2
    <2>4. x - 1 = y - 1
      BY <1>2, <1>8, <2>2, <2>3
    <2>5. QED
      BY <2>3, <2>4
  <1>17. \A x, y \in 1..Len(B) : B[x] = B[y] => x = y
    <2>1. TAKE x, y \in 1..Len(B)
    <2>2. HAVE B[x] = B[y]
    <2>3. /\ (L + 1) - x \in 0..h /\ (L + 1) - y \in 0..h
          /\ x \in 1..(L + 1) /\ y \in 1..(L + 1)
      BY <1>1, <1>3
    <2>4. (L + 1) - x = (L + 1) - y
      BY <1>3, <1>9, <2>2, <2>3
    <2>5. QED
      BY <1>1, <1>3, <2>3, <2>4
  <1>18. ASSUME NEW x \in 1..Len(A)
         PROVE  /\ A[x] \in e
                /\ \A c \in e : m.Parent[c] = A[x] => \E k \in 1..Len(A) : k < x /\ A[k] = c
    <2>1. x \in 1..(K + 1) /\ x - 1 \in 0..g /\ A[x] = Up(m, a, x - 1)
      BY <1>1, <1>2
    <2>2. A[x] \in e
      BY <2>1 DEF g
    <2>3. ASSUME NEW c \in e, m.Parent[c] = A[x]
          PROVE  \E k \in 1..Len(A) : k < x /\ A[k] = c
      <3>1. PICK k \in 0..g : c = Up(m, a, k)
        BY DEF g
      <3>2. A[x] # NoState
        BY <1>4, <1>10, <2>1
      <3>3. k < g /\ Up(m, a, k + 1) = Up(m, a, x - 1) /\ k + 1 \in 0..g
        BY <1>1, <1>6, <2>1, <2>3, <3>1, <3>2
      <3>4. k + 1 = x - 1
        BY <1>8, <2>1, <3>3
      <3>5. k + 1 \in 1..(K + 1) /\ k + 1 < x /\ (k + 1) - 1 = k
        BY <1>1, <1>2, <2>1, <3>1, <3>4
      <3>6. QED
        BY <1>2, <3>1, <3>5
    <2>4. QED
      BY <2>2, <2>3
  <1>19. ASSUME NEW x \in 1..Len(B)
         PROVE  /\ B[x] \in e => B[x] \in ToSet(A)
                /\ \/ m.Parent[B[x]] = NoState
                   \/ m.Parent[B[x]] \in e \ ToSet(A)
                   \/ \E k \in 1..Len(B) : k < x /\ B[k] = m.Parent[B[x]]
    <2> DEFINE y == (L + 1) - x
    <2>1. x \in 1..(L + 1) /\ y \in 0..h /\ y <= L /\ B[x] = Up(m, b, y)
      BY <1>1, <1>3
    <2>2. ASSUME B[x] \in e PROVE B[x] \in ToSet(A)
      <3>1. PICK k \in 0..g : B[x] = Up(m, a, k)
        BY <2>2 DEF g
      <3>2. g - k = h - y
        BY <1>4, <1>5, <2>1, <3>1
      <3>3. k <= K
        <4>1. CASE K = g
          BY <1>1, <3>1, <4>1
        <4>2. CASE K < g
          BY <1>1, <1>2, <1>3, <1>12, <2>1, <3>1, <3>2, <4>2
        <4>3. QED
          BY <1>1, <1>2, <4>1, <4>2
      <3>4. k \in 0..K
        BY <1>1, <1>2, <3>1, <3>3
      <3>5. QED
        BY <1>13, <3>1, <3>4
    <2>3. m.Parent[B[x]] = IF y < h THEN Up(m, b, y + 1) ELSE NoState
      BY <1>7, <2>1
    <2>4. CASE y < L
      <3>1. x - 1 \in 1..(L + 1) /\ (L + 1) - (x - 1) = y + 1 /\ x - 1 < x /\ y < h
        BY <1>1, <1>3, <2>1, <2>4
      <3>2. B[x - 1] = m.Parent[B[x]]
        BY <1>3, <2>3, <3>1
      <3>3. QED
        BY <1>3, <2>2, <3>1, <3>2
    <2>5. CASE y = L
      <3>1. CASE L = h
        BY <2>2, <2>3, <2>5, <3>1, <1>1
      <3>2. CASE L < h
        <4>1. K < g /\ Up(m, a, K + 1) = lca /\ Up(m, b, L + 1) = lca
          BY <1>1, <1>3, <1>11, <3>2
        <4>2. m.Parent[B[x]] = Up(m, a, K + 1)
          BY <2>3, <2>5, <3>2, <4>1
        <4>3. K + 1 \in 0..g /\ \A k \in 0..K : k \in 0..g /\ k # K + 1
          BY <1>1, <1>2, <4>1
        <4>4. Up(m, a, K + 1) \in e
          BY <4>3 DEF g
        <4>5. Up(m, a, K + 1) \notin ToSet(A)
          BY <1>8, <1>13, <4>3
        <4>6. QED
          BY <2>2, <4>2, <4>4, <4>5
      <3>3. QED
        BY <1>1, <1>3, <3>1, <3>2
    <2>6. QED
      BY <1>1, <1>3, <2>1, <2>4, <2>5
  <1>20. (e \ ToSet(A)) \cup ToSet(B) = Occupied(m, j)
    <2>1. ASSUME NEW s \in e \ ToSet(A) PROVE s \in Occupied(m, j)
      <3>1. PICK k \in 0..g : s = Up(m, a, k)
        BY <2>1 DEF g
      <3>2. k \notin 0..K
        BY <1>13, <2>1, <3>1
      <3> DEFINE x == k - (K + 1)
      <3>3. K < g /\ x \in 0..(g - (K + 1)) /\ (K + 1) + x = k
        BY <1>1, <1>2, <3>1, <3>2
      <3>4. s = Up(m, b, (L + 1) + x)
        BY <1>12, <3>1, <3>3
      <3>5. (L + 1) + x \in 0..h
        BY <1>1, <1>2, <1>3, <1>12, <3>3
      <3>6. QED
        BY <3>4, <3>5 DEF h
    <2>2. ASSUME NEW s \in ToSet(B) PROVE s \in Occupied(m, j)
      <3>1. PICK k \in 0..L : s = Up(m, b, k)
        BY <1>14, <2>2
      <3>2. k \in 0..h
        BY <1>1, <1>3, <3>1
      <3>3. QED
        BY <3>1, <3>2 DEF h
    <2>3. ASSUME NEW s \in Occupied(m, j), s \notin ToSet(B) PROVE s \in e \ ToSet(A)
      <3>1. PICK k \in 0..h : s = Up(m, b, k)
        BY DEF h
      <3>2. k \notin 0..L
        BY <1>14, <2>3, <3>1
      <3> DEFINE x == k - (L + 1)
      <3>3. L < h
        BY <1>1, <1>3, <3>1, <3>2
      <3>4. K < g
        BY <1>1, <1>2, <1>11, <3>3
      <3>5. x \in 0..(g - (K + 1)) /\ (L + 1) + x = k
        BY <1>1, <1>2, <1>3, <1>12, <3>1, <3>2, <3>4
      <3> DEFINE y == (K + 1) + x
      <3>6. s = Up(m, a, y)
        BY <1>12, <3>1, <3>4, <3>5
      <3>7. y \in 0..g /\ \A z \in 0..K : z \in 0..g /\ z # y
        BY <1>1, <1>2, <3>5
      <3> HIDE DEF y
      <3>8. s \in e
        BY <3>6, <3>7 DEF g
      <3>9. s \notin ToSet(A)
        BY <1>8, <1>13, <3>6, <3>7
      <3>10. QED
        BY <3>8, <3>9
    <2>4. QED
      BY <2>1, <2>2, <2>3
  <1>21. A \in Seq(m.States) /\ B \in Seq(m.States)
    BY <1>2, <1>3
  <1>22. Running(m, j, e, exits(A) \o entries(B))
    BY <1>15, <1>16, <1>17, <1>18, <1>19, <1>20, <1>21, RunPlan
  <1>23. QED
    BY <1>22 DEF A, B

\* The parallel state p, then its n regions, each with its initial leaf.
ParallelRow(m, p, n, B) ==
    /\ n \in Nat
    /\ B \in Seq(m.States) /\ Len(B) = (2 * n) + 1 /\ B[1] = p
    /\ \A k \in 1..n : /\ m.RegionIndex[p][k] \in ToSet(m.RegionIndex[p])
                       /\ B[2 * k] = m.RegionIndex[p][k]
                       /\ B[(2 * k) + 1] = initialLeafOr(m, m.RegionIndex[p][k])

\* What computeParallelEntrySequence returns.
LEMMA ParallelEntry ==
    ASSUME NEW m, Good(m), NEW p \in m.Parallel, NEW lca,
           NEW B, B = computeParallelEntrySequence(m, lca, p),
           NEW n, n = Len(m.RegionIndex[p])
    PROVE  ParallelRow(m, p, n, B)
  <1> DEFINE S == m.States
             C == m.Compound \ m.Parallel
             R == m.RegionIndex[p]
             L == m.InitialLeafMap
             one(r) == IF r \in DOMAIN L THEN <<r, L[r]>> ELSE <<r>>
             q == [i \in DOMAIN R |-> one(R[i])]
             N == computeEntrySequence(m, lca, p)
  <1>1. /\ p \in S /\ m.Parent[p] = NoState /\ R \in Seq(C) /\ C \subseteq S
        /\ DOMAIN L = C /\ \A r \in C : L[r] \in S
    BY DEF Good, Hierarchy, WellCompiled, leaves
  <1>2. B = N \o FlattenSeq(q)
    BY DEF computeParallelEntrySequence
  <1>3. N \in Seq(S) /\ Len(N) = 1 /\ N[1] = p
    <2>1. Height(m, p) = 0
      BY <1>1, UpStep DEF Good
    <2>2. PICK K \in 0..Height(m, p) : Descends(m, p, K, N)
      BY <1>1, EntryUp DEF Good
    <2>3. K = 0
      BY <2>1, <2>2
    <2> HIDE DEF N
    <2>4. N \in Seq(S) /\ Len(N) = 1 /\ N[1] = Up(m, p, 0)
      BY <2>2, <2>3 DEF Descends
    <2>5. QED
      BY <2>4 DEF Up
  <1> HIDE DEF S, C, L, N
  <1>4. n \in Nat /\ DOMAIN R = 1..n /\ \A k \in 1..n : R[k] \in C /\ R[k] \in ToSet(R)
    <2> HIDE DEF R
    <2>1. n = Len(R)
      BY DEF R
    <2>2. n \in Nat /\ DOMAIN R = 1..n /\ \A k \in 1..n : R[k] \in C
      BY <1>1, <2>1
    <2>3. QED
      BY <2>2 DEF ToSet
  <1> HIDE DEF R
  <1>5. ASSUME NEW k \in 1..n
        PROVE  /\ q[k] \in Seq(S) /\ Len(q[k]) = 2
               /\ q[k][1] = R[k] /\ q[k][2] = L[R[k]]
    <2>1. R[k] \in C /\ R[k] \in S /\ L[R[k]] \in S /\ q[k] = <<R[k], L[R[k]]>>
      BY <1>1, <1>4
    <2> HIDE DEF q
    <2>2. QED
      BY <2>1
  <1>6. q \in Seq(Seq(S)) /\ Len(q) = n
    <2> DEFINE T == Seq(S)
    <2>1. q \in [1..n -> T]
      <3>1. q = [i \in 1..n |-> q[i]]
        BY <1>4
      <3>2. \A i \in 1..n : q[i] \in T
        BY <1>5
      <3> HIDE DEF q, T
      <3>3. QED
        BY <3>1, <3>2
    <2> HIDE DEF q, T
    <2>2. q \in Seq(T) /\ Len(q) = n
      BY <1>4, <2>1
    <2>3. QED
      BY <2>2 DEF T
  <1> HIDE DEF q
  <1> DEFINE F == FlattenSeq(q)
  <1>7. /\ F \in Seq(S) /\ Len(F) = 2 * n
        /\ \A k \in 1..n : F[(2 * k) - 1] = q[k][1] /\ F[2 * k] = q[k][2]
    BY <1>5, <1>6, FlattenPairs
  <1> HIDE DEF F
  <1>8. N = <<p>>
    BY <1>3
  <1>9. B = <<p>> \o F
    BY <1>2, <1>8 DEF F
  <1>10. /\ B \in Seq(S) /\ Len(B) = Len(F) + 1 /\ B[1] = p
         /\ \A j \in 1..Len(F) : B[j + 1] = F[j]
    BY <1>1, <1>7, <1>9, Prepend
  <1>11. ASSUME NEW k \in 1..n
         PROVE  B[2 * k] = R[k] /\ B[(2 * k) + 1] = L[R[k]]
    <2>1. /\ (2 * k) - 1 \in 1..(2 * n) /\ 2 * k \in 1..(2 * n)
          /\ ((2 * k) - 1) + 1 = 2 * k
      BY <1>4
    <2>2. B[((2 * k) - 1) + 1] = F[(2 * k) - 1] /\ B[(2 * k) + 1] = F[2 * k]
      BY <1>7, <1>10, <2>1
    <2>3. QED
      BY <1>5, <1>7, <2>1, <2>2
  <1>12. ASSUME NEW k \in 1..n PROVE initialLeafOr(m, R[k]) = L[R[k]]
    BY <1>1, <1>4 DEF initialLeafOr, L
  <1>13. QED
    BY <1>4, <1>7, <1>10, <1>11, <1>12 DEF S, R, ParallelRow

\* The exits A leave all of e, children first.
LeavesAll(m, e, A) ==
    /\ A \in Seq(m.States)
    /\ \A s : s \in e <=> \E k \in 1..Len(A) : s = A[k]
    /\ \A j, k \in 1..Len(A) : A[j] = A[k] => j = k
    /\ \A j \in 1..Len(A) : \A c \in e :
          m.Parent[c] = A[j] => \E k \in 1..Len(A) : k < j /\ A[k] = c

\* The entries B enter all of e, parents first.
EntersAll(m, e, B) ==
    /\ B \in Seq(m.States)
    /\ \A s : s \in e <=> \E k \in 1..Len(B) : s = B[k]
    /\ \A j, k \in 1..Len(B) : B[j] = B[k] => j = k
    /\ \A j \in 1..Len(B) : \/ m.Parent[B[j]] = NoState
                            \/ \E k \in 1..Len(B) : k < j /\ B[k] = m.Parent[B[j]]

\* Leaving everything and entering everything new is in order.
LEMMA PlanAcross ==
    ASSUME NEW m, NEW i, NEW j, NEW A, NEW B,
           LeavesAll(m, Occupied(m, i), A), EntersAll(m, Occupied(m, j), B)
    PROVE  Running(m, j, Occupied(m, i), exits(A) \o entries(B))
  <1> DEFINE e == Occupied(m, i)
  <1>1. e \in SUBSET m.States
    BY DEF Occupied
  <1>2. A \in Seq(m.States) /\ B \in Seq(m.States)
    BY DEF LeavesAll, EntersAll
  <1>3. DOMAIN A = 1..Len(A) /\ DOMAIN B = 1..Len(B)
    BY <1>2
  <1>4. ToSet(A) = e
    <2>1. \A s : s \in e <=> \E k \in 1..Len(A) : s = A[k]
      BY DEF LeavesAll
    <2> HIDE DEF e
    <2>2. QED
      BY <1>3, <2>1 DEF ToSet
  <1>5. ToSet(B) = Occupied(m, j)
    <2>1. \A s : s \in Occupied(m, j) <=> \E k \in 1..Len(B) : s = B[k]
      BY DEF EntersAll
    <2>2. QED
      BY <1>3, <2>1 DEF ToSet
  <1>6. /\ \A x, y \in 1..Len(A) : A[x] = A[y] => x = y
        /\ \A x, y \in 1..Len(B) : B[x] = B[y] => x = y
    BY DEF LeavesAll, EntersAll
  <1>7. \A x \in 1..Len(A) :
           /\ A[x] \in e
           /\ \A c \in e : m.Parent[c] = A[x] => \E k \in 1..Len(A) : k < x /\ A[k] = c
    BY DEF LeavesAll
  <1>8. \A x \in 1..Len(B) :
           /\ B[x] \in e => B[x] \in ToSet(A)
           /\ \/ m.Parent[B[x]] = NoState
              \/ m.Parent[B[x]] \in e \ ToSet(A)
              \/ \E k \in 1..Len(B) : k < x /\ B[k] = m.Parent[B[x]]
    BY <1>4 DEF EntersAll
  <1>9. (e \ ToSet(A)) \cup ToSet(B) = Occupied(m, j)
    BY <1>4, <1>5
  <1> HIDE DEF e
  <1>10. Running(m, j, e, exits(A) \o entries(B))
    BY <1>1, <1>2, <1>6, <1>7, <1>8, <1>9, RunPlan
  <1>11. QED
    BY <1>10 DEF e

\* The set e is the path of state a.
IsPath(m, a, e) == \A s : s \in e <=> \E k \in 0..Height(m, a) : s = Up(m, a, k)

\* The whole path of a leaf is left by the exit sequence and entered by the
\* entry sequence that know no common ancestor.
LEMMA WholePath ==
    ASSUME NEW m, WellCompiled(m), Hierarchy(m), NEW a \in m.States,
           NEW e, IsPath(m, a, e)
    PROVE  /\ LeavesAll(m, e, computeExitSequence(m, a, NoState))
           /\ EntersAll(m, e, computeEntrySequence(m, NoState, a))
  <1> DEFINE A == computeExitSequence(m, a, NoState)
             B == computeEntrySequence(m, NoState, a)
             h == Height(m, a)
  <1>1. PICK K \in 0..h : Cut(m, a, NoState, K) /\ SequencesOf(m, a, K, A, B)
    BY BothUp
  <1>2. h \in Nat /\ NoState \notin m.States
    BY UpStep DEF WellCompiled
  <1>3. \A k \in 0..h : Up(m, a, k) \in m.States /\ Up(m, a, k) # NoState
    BY <1>2, UpUp
  <1>4. K = h
    <2>1. K < h => K + 1 \in 0..h
      BY <1>1, <1>2
    <2>2. QED
      BY <1>1, <1>3, <2>1 DEF Cut
  <1>5. \A k \in 0..h : m.Parent[Up(m, a, k)] = IF k < h THEN Up(m, a, k + 1) ELSE NoState
    BY UpParent
  <1>6. \A x, y \in 0..h : Up(m, a, x) = Up(m, a, y) => x = y
    BY UpInjective
  <1>7. /\ \A x \in 1..(h + 1) : A[x] = Up(m, a, x - 1) /\ B[x] = Up(m, a, (h + 1) - x)
        /\ Len(A) = h + 1 /\ Len(B) = h + 1
    BY <1>1, <1>4 DEF SequencesOf
  <1> HIDE DEF A, B
  <1>8. /\ \A x \in 1..(h + 1) : x - 1 \in 0..h /\ (h + 1) - x \in 0..h
        /\ \A k \in 0..h : /\ k + 1 \in 1..(h + 1) /\ (k + 1) - 1 = k
                           /\ (h + 1) - k \in 1..(h + 1) /\ (h + 1) - ((h + 1) - k) = k
    BY <1>2
  <1>9. \A s : s \in e <=> \E k \in 0..h : s = Up(m, a, k)
    BY DEF IsPath
  <1> HIDE DEF h
  <1>10. LeavesAll(m, e, A)
    <2>1. \A s : s \in e <=> \E k \in 1..(h + 1) : s = A[k]
      BY <1>7, <1>8, <1>9
    <2>2. \A x, y \in 1..(h + 1) : A[x] = A[y] => x = y
      <3>1. TAKE x, y \in 1..(h + 1)
      <3>2. HAVE A[x] = A[y]
      <3>3. x - 1 = y - 1
        BY <1>6, <1>7, <1>8, <3>2
      <3>4. QED
        BY <1>2, <3>3
    <2>3. ASSUME NEW x \in 1..(h + 1), NEW c \in e, m.Parent[c] = A[x]
          PROVE  \E k \in 1..(h + 1) : k < x /\ A[k] = c
      <3>1. PICK k \in 0..h : c = Up(m, a, k)
        BY <1>9
      <3>2. A[x] = Up(m, a, x - 1) /\ x - 1 \in 0..h /\ A[x] # NoState
        BY <1>3, <1>7, <1>8
      <3>3. k < h /\ Up(m, a, k + 1) = Up(m, a, x - 1)
        BY <1>5, <2>3, <3>1, <3>2
      <3>4. k + 1 \in 0..h
        BY <1>2, <3>1, <3>3
      <3>5. k + 1 = x - 1
        BY <1>6, <3>2, <3>3, <3>4
      <3>6. k + 1 \in 1..(h + 1) /\ k + 1 < x /\ A[k + 1] = c
        BY <1>2, <1>7, <1>8, <3>1, <3>5
      <3>7. QED
        BY <3>6
    <2>4. A \in Seq(m.States)
      BY <1>1 DEF SequencesOf
    <2>5. QED
      BY <1>7, <2>1, <2>2, <2>3, <2>4 DEF LeavesAll
  <1>11. EntersAll(m, e, B)
    <2>1. \A s : s \in e <=> \E k \in 1..(h + 1) : s = B[k]
      <3>1. ASSUME NEW k \in 1..(h + 1) PROVE B[k] \in e
        <4>1. B[k] = Up(m, a, (h + 1) - k) /\ (h + 1) - k \in 0..h
          BY <1>7, <1>8
        <4>2. QED
          BY <1>9, <4>1
      <3>2. ASSUME NEW k \in 0..h PROVE \E x \in 1..(h + 1) : Up(m, a, k) = B[x]
        <4>1. (h + 1) - k \in 1..(h + 1) /\ (h + 1) - ((h + 1) - k) = k
          BY <1>8
        <4>2. B[(h + 1) - k] = Up(m, a, (h + 1) - ((h + 1) - k))
          BY <1>7, <4>1
        <4>3. QED
          BY <4>1, <4>2
      <3>3. QED
        BY <1>9, <3>1, <3>2
    <2>2. \A x, y \in 1..(h + 1) : B[x] = B[y] => x = y
      <3>1. TAKE x, y \in 1..(h + 1)
      <3>2. HAVE B[x] = B[y]
      <3>3. (h + 1) - x = (h + 1) - y
        <4>1. (h + 1) - x \in 0..h /\ (h + 1) - y \in 0..h
          BY <1>8
        <4>2. Up(m, a, (h + 1) - x) = Up(m, a, (h + 1) - y)
          BY <1>7, <3>2
        <4>3. QED
          BY <1>6, <4>1, <4>2
      <3>4. x \in Int /\ y \in Int
        BY <1>2
      <3>5. QED
        BY <1>2, <3>3, <3>4
    <2>3. ASSUME NEW x \in 1..(h + 1)
          PROVE  \/ m.Parent[B[x]] = NoState
                 \/ \E k \in 1..(h + 1) : k < x /\ B[k] = m.Parent[B[x]]
      <3> DEFINE y == (h + 1) - x
      <3>1. B[x] = Up(m, a, y) /\ y \in 0..h
        BY <1>7, <1>8
      <3>5. x \in Int /\ 1 <= x /\ x <= h + 1
        BY <1>2
      <3>2. CASE y = h
        <4>1. h \in 0..h /\ ~(h < h)
          BY <1>2
        <4>2. QED
          BY <1>5, <3>1, <3>2, <4>1
      <3>3. CASE y # h
        <4>1. x - 1 \in 1..(h + 1) /\ x - 1 < x /\ (h + 1) - (x - 1) = y + 1 /\ y < h
          BY <1>2, <3>5, <3>3
        <4>2. B[x - 1] = Up(m, a, y + 1)
          BY <1>7, <4>1
        <4>3. m.Parent[B[x]] = Up(m, a, y + 1)
          BY <1>5, <3>1, <4>1
        <4>4. QED
          BY <4>1, <4>2, <4>3
      <3>4. QED
        BY <3>2, <3>3
    <2>4. B \in Seq(m.States)
      BY <1>1 DEF SequencesOf
    <2>5. QED
      BY <1>7, <2>1, <2>2, <2>3, <2>4 DEF EntersAll
  <1>12. QED
    BY <1>10, <1>11 DEF A, B

\* The states of an instance in a parallel state are all different, and the
\* regions lie between the parallel state and the leaves.
LEMMA RegionFamily ==
    ASSUME NEW m, Good(m), NEW i, AtParallel(m, i)
    PROVE  /\ m.Parent[i.cur] = NoState
           /\ \A r \in DOMAIN i.aip :
                 /\ r # i.cur /\ i.aip[r] # i.cur
                 /\ m.Parent[r] = i.cur /\ m.Parent[i.aip[r]] = r
                 /\ \A s \in DOMAIN i.aip : i.aip[r] # s
                 /\ \A s \in DOMAIN i.aip : i.aip[r] = i.aip[s] => r = s
           /\ \A c \in Occupied(m, i) :
                 /\ m.Parent[c] = i.cur => c \in DOMAIN i.aip
                 /\ \A r \in DOMAIN i.aip : /\ m.Parent[c] = r => c = i.aip[r]
                                            /\ m.Parent[c] # i.aip[r]
  <1> DEFINE p == i.cur
             R == DOMAIN i.aip
  <1>1. /\ p \in m.States /\ p \in m.Parallel /\ m.Parent[p] = NoState /\ p # NoState
        /\ p \in m.Compound /\ NoState \notin m.States
    BY DEF AtParallel, Good, Hierarchy, WellCompiled
  <1>2. \A r \in R : /\ r \in m.Compound \ m.Parallel /\ r \in m.States
                     /\ m.Parent[r] = p /\ i.aip[r] \in m.States
    BY OccupiedParallel
  <1>3. \A r \in R : /\ i.aip[r] \notin m.Compound /\ m.Parent[i.aip[r]] = r
                     /\ \A c \in m.States : m.Parent[c] # i.aip[r]
    BY LeafTop DEF AtParallel, Good
  <1>4. \A s : s \in Occupied(m, i) <=> s = p \/ s \in R \/ \E r \in R : s = i.aip[r]
    BY OccupiedParallel
  <1> HIDE DEF p, R
  <1>5. \A r \in R : /\ r # p /\ i.aip[r] # p /\ m.Parent[r] = p /\ m.Parent[i.aip[r]] = r
                     /\ \A s \in R : i.aip[r] # s
                     /\ \A s \in R : i.aip[r] = i.aip[s] => r = s
    BY <1>1, <1>2, <1>3
  <1>6. ASSUME NEW c \in Occupied(m, i)
        PROVE  /\ m.Parent[c] = p => c \in R
               /\ \A r \in R : (m.Parent[c] = r => c = i.aip[r]) /\ m.Parent[c] # i.aip[r]
    <2>1. c \in m.States
      BY DEF Occupied
    <2>2. CASE c = p
      BY <1>1, <1>2, <1>3, <2>1, <2>2
    <2>3. CASE c \in R
      BY <1>2, <1>3, <1>5, <2>1, <2>3
    <2>4. CASE \E r \in R : c = i.aip[r]
      BY <1>2, <1>3, <1>5, <2>1, <2>4
    <2>5. QED
      BY <1>4, <2>2, <2>3, <2>4
  <1>7. QED
    BY <1>1, <1>5, <1>6 DEF p, R

\* The places of a row of one state and n pairs.
LEMMA Places ==
    ASSUME NEW n \in Nat
    PROVE  /\ \A x \in 1..((2 * n) + 1) :
                 x = 1 \/ \E k \in 1..n : x = 2 * k \/ x = (2 * k) + 1
           /\ \A x \in 1..((2 * n) + 1) :
                 x = (2 * n) + 1 \/ \E k \in 1..n : x = (2 * k) - 1 \/ x = 2 * k
           /\ \A k \in 1..n : /\ (2 * k) - 1 \in 1..((2 * n) + 1)
                              /\ 2 * k \in 1..((2 * n) + 1)
                              /\ (2 * k) + 1 \in 1..((2 * n) + 1)
           /\ 1 \in 1..((2 * n) + 1) /\ (2 * n) + 1 \in 1..((2 * n) + 1)
  <1>1. ASSUME NEW x \in 1..((2 * n) + 1), x # 1
        PROVE  \E k \in 1..n : x = 2 * k \/ x = (2 * k) + 1
    <2> DEFINE k == x \div 2
    <2>1. k \in 1..n /\ (x = 2 * k \/ x = (2 * k) + 1)
      BY <1>1
    <2>2. QED
      BY <2>1
  <1>2. ASSUME NEW x \in 1..((2 * n) + 1), x # (2 * n) + 1
        PROVE  \E k \in 1..n : x = (2 * k) - 1 \/ x = 2 * k
    <2> DEFINE k == (x + 1) \div 2
    <2>1. k \in 1..n /\ (x = 2 * k \/ x = (2 * k) - 1)
      BY <1>2
    <2>2. QED
      BY <2>1
  <1>3. QED
    BY <1>1, <1>2

\* computeParallelEntrySequence enters a parallel state, its regions and their
\* initial leaves.
LEMMA EnterRegions ==
    ASSUME NEW m, Good(m), NEW j, AtParallel(m, j),
           j.aip = enterParallelRegions(m, j.cur), NEW lca
    PROVE  EntersAll(m, Occupied(m, j), computeParallelEntrySequence(m, lca, j.cur))
  <1> DEFINE p == j.cur
             R == m.RegionIndex[p]
             n == Len(R)
             B == computeParallelEntrySequence(m, lca, p)
             e == Occupied(m, j)
  <1>1. p \in m.Parallel /\ DOMAIN j.aip = ToSet(R)
    BY DEF AtParallel
  <1>2. /\ n \in Nat
        /\ B \in Seq(m.States) /\ Len(B) = (2 * n) + 1 /\ B[1] = p
        /\ \A k \in 1..n : /\ R[k] \in ToSet(R)
                           /\ B[2 * k] = R[k]
                           /\ B[(2 * k) + 1] = initialLeafOr(m, R[k])
    <2>1. B = computeParallelEntrySequence(m, lca, p) /\ n = Len(m.RegionIndex[p])
      OBVIOUS
    <2> HIDE DEF B, n, p
    <2>2. ParallelRow(m, p, n, B)
      BY <1>1, <2>1, ParallelEntry
    <2>3. QED
      BY <2>2 DEF ParallelRow
  <1>3. \A r \in ToSet(R) : j.aip[r] = initialLeafOr(m, r)
    BY DEF enterParallelRegions
  <1>4. DOMAIN R = 1..n
    <2>1. R \in Seq(m.Compound \ m.Parallel)
      BY <1>1 DEF Good, WellCompiled
    <2>2. QED
      BY <2>1
  <1>5. \A r : r \in DOMAIN j.aip <=> \E k \in 1..n : r = R[k]
    BY <1>1, <1>4 DEF ToSet
  <1>6. \A k, l \in 1..n : R[k] = R[l] => k = l
    BY <1>1, <1>4 DEF Good, Hierarchy
  <1>7. \A s : s \in e <=> \/ s = p
                           \/ s \in DOMAIN j.aip
                           \/ \E r \in DOMAIN j.aip : s = j.aip[r]
    BY OccupiedParallel
  <1>8. /\ m.Parent[p] = NoState
        /\ \A r \in DOMAIN j.aip :
                 /\ r # p /\ j.aip[r] # p
                 /\ m.Parent[r] = p /\ m.Parent[j.aip[r]] = r
                 /\ \A s \in DOMAIN j.aip : j.aip[r] # s
                 /\ \A s \in DOMAIN j.aip : j.aip[r] = j.aip[s] => r = s
    BY RegionFamily
  <1>17. B[1] = p
    BY <1>2
  <1> HIDE DEF B, n, R, p, e
  <1>9. \A k \in 1..n : /\ B[2 * k] = R[k] /\ B[(2 * k) + 1] = j.aip[R[k]]
                        /\ R[k] \in DOMAIN j.aip
    BY <1>1, <1>2, <1>3
  <1> DEFINE N == (2 * n) + 1
  <1>10. \A x \in 1..N : x = 1 \/ \E k \in 1..n : x = 2 * k \/ x = (2 * k) + 1
    BY <1>2, Places
  <1>11. 1 \in 1..N /\ \A k \in 1..n : 2 * k \in 1..N /\ (2 * k) + 1 \in 1..N
    BY <1>2, Places
  <1> HIDE DEF N
  <1>12. \A s : s \in e <=> \E x \in 1..N : s = B[x]
    <2>1. ASSUME NEW x \in 1..N PROVE B[x] \in e
      BY <1>7, <1>9, <1>10, <1>17
    <2>2. ASSUME NEW s \in e PROVE \E x \in 1..N : s = B[x]
      BY <1>5, <1>7, <1>9, <1>11, <1>17
    <2>3. QED
      BY <2>1, <2>2
  <1>13. ASSUME NEW x \in 1..N, NEW y \in 1..N, B[x] = B[y] PROVE x = y
    <2>1. CASE x = 1
      BY <1>8, <1>9, <1>10, <1>13, <1>17, <2>1
    <2>2. ASSUME NEW k \in 1..n, x = 2 * k PROVE x = y
      <3>1. y # 1
        BY <1>8, <1>9, <1>13, <1>17, <2>2
      <3>2. PICK l \in 1..n : y = 2 * l \/ y = (2 * l) + 1
        BY <1>10, <3>1
      <3>3. B[y] # j.aip[R[l]]
        BY <1>8, <1>9, <1>13, <2>2
      <3>4. y = 2 * l
        BY <1>9, <3>2, <3>3
      <3>5. k = l
        BY <1>6, <1>9, <1>13, <2>2, <3>4
      <3>6. QED
        BY <2>2, <3>4, <3>5
    <2>3. ASSUME NEW k \in 1..n, x = (2 * k) + 1 PROVE x = y
      <3>1. y # 1
        BY <1>8, <1>9, <1>13, <1>17, <2>3
      <3>2. PICK l \in 1..n : y = 2 * l \/ y = (2 * l) + 1
        BY <1>10, <3>1
      <3>3. B[y] # R[l]
        BY <1>8, <1>9, <1>13, <2>3
      <3>4. y = (2 * l) + 1
        BY <1>9, <3>2, <3>3
      <3>5. R[k] = R[l]
        BY <1>8, <1>9, <1>13, <2>3, <3>4
      <3>6. k = l
        BY <1>6, <3>5
      <3>7. QED
        BY <2>3, <3>4, <3>6
    <2>4. QED
      BY <1>10, <2>1, <2>2, <2>3
  <1>14. ASSUME NEW x \in 1..N
         PROVE  \/ m.Parent[B[x]] = NoState
                \/ \E k \in 1..N : k < x /\ B[k] = m.Parent[B[x]]
    <2>1. CASE x = 1
      BY <1>8, <1>17, <2>1
    <2>2. ASSUME NEW k \in 1..n, x = 2 * k
          PROVE  \E y \in 1..N : y < x /\ B[y] = m.Parent[B[x]]
      <3>1. 1 < x
        BY <1>2, <2>2
      <3>2. B[1] = m.Parent[B[x]]
        BY <1>8, <1>9, <1>17, <2>2
      <3>3. QED
        BY <1>11, <3>1, <3>2
    <2>3. ASSUME NEW k \in 1..n, x = (2 * k) + 1
          PROVE  \E y \in 1..N : y < x /\ B[y] = m.Parent[B[x]]
      <3>1. 2 * k < x /\ 2 * k \in 1..N
        BY <1>2, <1>11, <2>3
      <3>2. B[2 * k] = m.Parent[B[x]]
        BY <1>8, <1>9, <2>3
      <3>3. QED
        BY <3>1, <3>2
    <2>4. QED
      BY <1>10, <2>1, <2>2, <2>3
  <1>15. EntersAll(m, e, B)
    BY <1>2, <1>12, <1>13, <1>14 DEF EntersAll, N
  <1>16. QED
    BY <1>15 DEF e, B, p

\* The elements of a sequence are finitely many.
LEMMA FiniteElements ==
    ASSUME NEW S, NEW q \in Seq(S)
    PROVE  IsFiniteSet(ToSet(q))
  <1>1. Len(q) \in Nat /\ DOMAIN q = 1..Len(q)
    OBVIOUS
  <1>2. IsFiniteSet(1..Len(q))
    BY <1>1, FS_Interval
  <1>3. ToSet(q) = {q[k] : k \in 1..Len(q)}
    BY <1>1 DEF ToSet
  <1>4. q \in [1..Len(q) -> ToSet(q)]
    BY <1>1, <1>3
  <1>5. q \in Surjection(1..Len(q), ToSet(q))
    BY <1>3, <1>4 DEF Surjection
  <1>6. QED
    BY <1>2, <1>5, FS_Surjection

\* An element behind a sequence.
LEMMA Behind ==
    ASSUME NEW S, NEW x \in S, NEW c \in Seq(S), NEW y, y = Append(c, x)
    PROVE  /\ y \in Seq(S) /\ Len(y) = Len(c) + 1 /\ y[Len(c) + 1] = x
           /\ \A j \in 1..Len(c) : y[j] = c[j]
  OBVIOUS

\* computeParallelExitSequence leaves every leaf, its region and at last the
\* parallel state.
LEMMA LeaveRegions ==
    ASSUME NEW m, Good(m), NEW i, AtParallel(m, i)
    PROVE  LeavesAll(m, Occupied(m, i), computeParallelExitSequence(i, i.cur))
  <1> DEFINE p == i.cur
             D == DOMAIN i.aip
             R == SetToSeq(D)
             n == Len(R)
             S == m.States
             one(r) == IF i.aip[r] # r THEN <<i.aip[r], r>> ELSE <<r>>
             q == [k \in DOMAIN R |-> one(R[k])]
             A == computeParallelExitSequence(i, p)
             F == FlattenSeq(q)
             e == Occupied(m, i)
             N == (2 * n) + 1
  <1>1. IsFiniteSet(D)
    <2>1. p \in m.Parallel /\ D = ToSet(m.RegionIndex[p])
      BY DEF AtParallel
    <2>2. m.RegionIndex[p] \in Seq(m.Compound \ m.Parallel)
      BY <2>1 DEF Good, WellCompiled
    <2>3. QED
      BY <2>1, <2>2, FiniteElements
  <1>2. R \in Seq(D) /\ ToSet(R) = D /\ \A k, l \in 1..Len(R) : R[k] = R[l] => k = l
    <2>1. R = SetToSeq(D)
      OBVIOUS
    <2> HIDE DEF R, D
    <2>2. QED
      BY <1>1, <2>1, InOrder
  <1>3. A = Append(F, p)
    BY DEF computeParallelExitSequence
  <1>4. p \in S /\ \A r \in D : r \in S /\ i.aip[r] \in S
    BY OccupiedParallel
  <1>5. \A s : s \in e <=> s = p \/ s \in D \/ \E r \in D : s = i.aip[r]
    BY OccupiedParallel
  <1>6. /\ m.Parent[p] = NoState
        /\ \A r \in D :
                 /\ r # p /\ i.aip[r] # p
                 /\ m.Parent[r] = p /\ m.Parent[i.aip[r]] = r
                 /\ \A s \in D : i.aip[r] # s
                 /\ \A s \in D : i.aip[r] = i.aip[s] => r = s
    BY RegionFamily
  <1>7. \A c \in e :
           /\ m.Parent[c] = p => c \in D
           /\ \A r \in D : (m.Parent[c] = r => c = i.aip[r]) /\ m.Parent[c] # i.aip[r]
    BY RegionFamily
  <1> HIDE DEF p, D, S, R, A, e
  <1>8. n \in Nat /\ DOMAIN R = 1..n /\ \A k \in 1..n : R[k] \in D
    BY <1>2
  <1>9. \A r : r \in D <=> \E k \in 1..n : r = R[k]
    BY <1>2, <1>8 DEF ToSet
  <1>10. \A k, l \in 1..n : R[k] = R[l] => k = l
    BY <1>2
  <1> HIDE DEF n
  <1>11. ASSUME NEW k \in 1..n
         PROVE  /\ q[k] \in Seq(S) /\ Len(q[k]) = 2
                /\ q[k][1] = i.aip[R[k]] /\ q[k][2] = R[k]
    <2>1. R[k] \in S /\ i.aip[R[k]] \in S /\ q[k] = <<i.aip[R[k]], R[k]>>
      BY <1>4, <1>6, <1>8
    <2> HIDE DEF q
    <2>2. QED
      BY <2>1
  <1>12. q \in Seq(Seq(S)) /\ Len(q) = n
    <2> DEFINE T == Seq(S)
    <2>1. q \in [1..n -> T]
      <3>1. q = [k \in 1..n |-> q[k]]
        BY <1>8
      <3>2. \A k \in 1..n : q[k] \in T
        BY <1>11
      <3> HIDE DEF q, T
      <3>3. QED
        BY <3>1, <3>2
    <2> HIDE DEF q, T
    <2>2. q \in Seq(T) /\ Len(q) = n
      BY <1>8, <2>1
    <2>3. QED
      BY <2>2 DEF T
  <1> HIDE DEF q
  <1>13. /\ F \in Seq(S) /\ Len(F) = 2 * n
         /\ \A k \in 1..n : F[(2 * k) - 1] = q[k][1] /\ F[2 * k] = q[k][2]
    BY <1>11, <1>12, FlattenPairs
  <1> HIDE DEF F
  <1>14. /\ A \in Seq(S) /\ Len(A) = Len(F) + 1 /\ A[Len(F) + 1] = p
         /\ \A j \in 1..Len(F) : A[j] = F[j]
    BY <1>3, <1>4, <1>13, Behind
  <1>15. A \in Seq(S) /\ Len(A) = N /\ A[N] = p
    BY <1>13, <1>14
  <1>16. ASSUME NEW k \in 1..n
         PROVE  A[(2 * k) - 1] = i.aip[R[k]] /\ A[2 * k] = R[k] /\ R[k] \in D
    <2>1. (2 * k) - 1 \in 1..(2 * n) /\ 2 * k \in 1..(2 * n)
      BY <1>8
    <2>2. A[(2 * k) - 1] = F[(2 * k) - 1] /\ A[2 * k] = F[2 * k]
      BY <1>13, <1>14, <2>1
    <2>3. QED
      BY <1>8, <1>11, <1>13, <2>2
  <1>17. /\ \A x \in 1..N : x = N \/ \E k \in 1..n : x = (2 * k) - 1 \/ x = 2 * k
         /\ N \in 1..N /\ \A k \in 1..n : 2 * k \in 1..N /\ (2 * k) - 1 \in 1..N
    BY <1>8, Places
  <1>18. N \in Nat /\ \A k \in 1..n : 2 * k < N
    BY <1>8
  <1> HIDE DEF N
  <1>23. A[N] = p
    BY <1>15
  <1>19. \A s : s \in e <=> \E x \in 1..N : s = A[x]
    <2>1. ASSUME NEW x \in 1..N PROVE A[x] \in e
      <3>1. CASE x = N
        BY <1>5, <1>23, <3>1
      <3>2. ASSUME NEW k \in 1..n, x = (2 * k) - 1 \/ x = 2 * k PROVE A[x] \in e
        BY <1>5, <1>16, <3>2
      <3>3. QED
        BY <1>17, <3>1, <3>2
    <2>2. ASSUME NEW s \in e PROVE \E x \in 1..N : s = A[x]
      BY <1>5, <1>9, <1>16, <1>17, <1>23
    <2>3. QED
      BY <2>1, <2>2
  <1>20. ASSUME NEW x \in 1..N, NEW y \in 1..N, A[x] = A[y] PROVE x = y
    <2>1. CASE x = N
      <3>1. ASSUME NEW k \in 1..n, y = (2 * k) - 1 \/ y = 2 * k PROVE FALSE
        BY <1>6, <1>16, <1>20, <1>23, <2>1, <3>1
      <3>2. QED
        BY <1>17, <2>1, <3>1
    <2>2. ASSUME NEW k \in 1..n, x = 2 * k PROVE x = y
      <3>1. y # N
        BY <1>6, <1>16, <1>20, <1>23, <2>2
      <3>2. PICK l \in 1..n : y = 2 * l \/ y = (2 * l) - 1
        BY <1>17, <3>1
      <3>3. A[y] # i.aip[R[l]]
        BY <1>6, <1>16, <1>20, <2>2
      <3>4. y = 2 * l
        BY <1>16, <3>2, <3>3
      <3>5. k = l
        BY <1>10, <1>16, <1>20, <2>2, <3>4
      <3>6. QED
        BY <2>2, <3>4, <3>5
    <2>3. ASSUME NEW k \in 1..n, x = (2 * k) - 1 PROVE x = y
      <3>1. y # N
        BY <1>6, <1>16, <1>20, <1>23, <2>3
      <3>2. PICK l \in 1..n : y = 2 * l \/ y = (2 * l) - 1
        BY <1>17, <3>1
      <3>3. A[y] # R[l]
        BY <1>6, <1>16, <1>20, <2>3
      <3>4. y = (2 * l) - 1
        BY <1>16, <3>2, <3>3
      <3>5. R[k] = R[l]
        BY <1>6, <1>16, <1>20, <2>3, <3>4
      <3>6. k = l
        BY <1>10, <3>5
      <3>7. QED
        BY <2>3, <3>4, <3>6
    <2>4. QED
      BY <1>17, <2>1, <2>2, <2>3
  <1>21. ASSUME NEW x \in 1..N, NEW c \in e, m.Parent[c] = A[x]
         PROVE  \E k \in 1..N : k < x /\ A[k] = c
    <2>1. CASE x = N
      <3>1. c \in D
        BY <1>7, <1>21, <1>23, <2>1
      <3>2. PICK k \in 1..n : c = R[k]
        BY <1>9, <3>1
      <3>3. 2 * k \in 1..N /\ 2 * k < x /\ A[2 * k] = c
        BY <1>16, <1>17, <1>18, <2>1, <3>2
      <3>4. QED
        BY <3>3
    <2>2. ASSUME NEW k \in 1..n, x = 2 * k PROVE \E y \in 1..N : y < x /\ A[y] = c
      <3>1. c = i.aip[R[k]]
        BY <1>7, <1>16, <1>21, <2>2
      <3>2. (2 * k) - 1 \in 1..N /\ A[(2 * k) - 1] = c
        BY <1>16, <1>17, <3>1
      <3>3. (2 * k) - 1 < x
        BY <1>8, <2>2
      <3>4. QED
        BY <3>2, <3>3
    <2>3. ASSUME NEW k \in 1..n, x = (2 * k) - 1 PROVE FALSE
      BY <1>7, <1>16, <1>21, <2>3
    <2>4. QED
      BY <1>17, <2>1, <2>2, <2>3
  <1>22. LeavesAll(m, e, A)
    BY <1>15, <1>19, <1>20, <1>21 DEF LeavesAll, S
  <1>24. QED
    BY <1>22 DEF e, A, p

\* The parent is the nearest common ancestor of what it is a parent of.
LEMMA LCAParent ==
    ASSUME NEW m, WellCompiled(m), Hierarchy(m), NEW a \in m.States, NEW b \in m.States,
           m.Parent[a] = m.Parent[b], m.Parent[a] # NoState
    PROVE  LCA(m, a, b) = m.Parent[a]
  <1> DEFINE r == m.Parent[a]
             x == m.Ancestry[a]
             y == m.Ancestry[b]
             common == {i \in DOMAIN x : x[i] \in ToSet(y)}
  <1>1. x \in Seq(m.States) /\ y \in Seq(m.States)
    BY DEF WellCompiled
  <1>2. Height(m, a) > 0 /\ Height(m, b) > 0
    BY UpStep
  <1>3. Len(x) > 0 /\ Len(y) > 0
    BY <1>2 DEF Height
  <1>4. x[1] = r /\ y[1] = r
    <2>1. 0 \in 0..Height(m, a) /\ 0 \in 0..Height(m, b)
      BY UpStep
    <2>2. m.Parent[Up(m, a, 0)] = Up(m, a, 0 + 1)
      BY <1>2, <2>1, UpParent
    <2>3. m.Parent[Up(m, b, 0)] = Up(m, b, 0 + 1)
      BY <1>2, <2>1, UpParent
    <2>4. QED
      BY <2>2, <2>3 DEF Up
  <1> HIDE DEF x, y, r
  <1>5. 1 \in common /\ common \in SUBSET Nat
    BY <1>1, <1>3, <1>4 DEF ToSet
  <1>6. \A k \in common : 1 =< k
    BY <1>1
  <1> HIDE DEF common
  <1>7. Min(common) = 1
    <2>1. \E k \in common : \A l \in common : k =< l
      BY <1>5, <1>6
    <2>2. Min(common) \in common /\ \A l \in common : Min(common) =< l
      BY <2>1, Zenon DEF Min
    <2>3. Min(common) =< 1 /\ 1 =< Min(common) /\ Min(common) \in Nat
      BY <1>5, <1>6, <2>2
    <2>4. QED
      BY <2>3
  <1>8. LCA(m, a, b) = IF common = {} THEN NoState ELSE x[Min(common)]
    BY DEF LCA, common, x, y
  <1>9. QED
    BY <1>4, <1>5, <1>7, <1>8 DEF r

\* With the parent as common ancestor, one state is left and one entered.
LEMMA OneStep ==
    ASSUME NEW m, WellCompiled(m), Hierarchy(m), NEW s \in m.States,
           m.Parent[s] # NoState
    PROVE  /\ computeExitSequence(m, s, m.Parent[s]) = <<s>>
           /\ computeEntrySequence(m, m.Parent[s], s) = <<s>>
  <1> DEFINE r == m.Parent[s]
             A == computeExitSequence(m, s, r)
             B == computeEntrySequence(m, r, s)
             h == Height(m, s)
  <1>1. h \in Nat /\ h > 0
    BY UpStep
  <1>2. Up(m, s, 1) = r /\ Up(m, s, 0) = s
    <2>1. m.Parent[Up(m, s, 0)] = Up(m, s, 0 + 1)
      BY <1>1, UpParent
    <2>2. QED
      BY <2>1 DEF Up
  <1>3. PICK K \in 0..h : Cut(m, s, r, K) /\ SequencesOf(m, s, K, A, B)
    BY BothUp
  <1>4. 1 \in 1..h /\ 1 \in 0..h
    BY <1>1
  <1>5. K < h /\ Up(m, s, K + 1) = r
    BY <1>2, <1>3, <1>4 DEF Cut
  <1>6. K + 1 \in 0..h
    BY <1>1, <1>3, <1>5
  <1>7. K + 1 = 1
    BY <1>2, <1>4, <1>5, <1>6, UpInjective
  <1>8. K = 0
    BY <1>3, <1>7
  <1> HIDE DEF A, B
  <1>9. A \in Seq(m.States) /\ Len(A) = 1 /\ A[1] = s
    BY <1>2, <1>3, <1>8 DEF SequencesOf
  <1>10. B \in Seq(m.States) /\ Len(B) = 1 /\ B[1] = s
    BY <1>2, <1>3, <1>8 DEF SequencesOf
  <1> DEFINE S == m.States
  <1>11. A \in Seq(S) /\ B \in Seq(S)
    BY <1>9, <1>10
  <1> HIDE DEF S
  <1>12. A = <<s>> /\ B = <<s>>
    BY <1>9, <1>10, <1>11
  <1>13. QED
    BY <1>12 DEF A, B, r

\* A region moves from one of its leaves to another.
LEMMA PlanIntra ==
    ASSUME NEW m, Good(m), NEW i, AtParallel(m, i), NEW r \in DOMAIN i.aip,
           NEW t \in m.States, m.Parent[t] = r, NEW j, AtParallel(m, j), j.cur = i.cur,
           DOMAIN j.aip = DOMAIN i.aip,
           \A s \in DOMAIN i.aip : j.aip[s] = IF s = r THEN t ELSE i.aip[s],
           NEW lca, lca = LCA(m, i.aip[r], t)
    PROVE  Running(m, j, Occupied(m, i), exits(computeExitSequence(m, i.aip[r], lca))
                                         \o entries(computeEntrySequence(m, lca, t)))
  <1> DEFINE e == Occupied(m, i)
             x == i.aip[r]
             D == DOMAIN i.aip
  <1>16. \A s \in D : /\ s # i.cur /\ i.aip[s] # i.cur /\ m.Parent[i.aip[s]] = s
                      /\ \A y \in D : i.aip[s] # y
                      /\ \A y \in D : i.aip[s] = i.aip[y] => s = y
    BY RegionFamily
  <1>1. /\ m.Parent[x] = r /\ x # i.cur
        /\ \A s \in D : /\ x # s /\ (x = i.aip[s] => r = s) /\ i.aip[s] # r
                        /\ s # i.cur /\ m.Parent[i.aip[s]] = s
        /\ \A c \in e : (m.Parent[c] = r => c = x) /\ m.Parent[c] # x
    <2>1. x = i.aip[r] /\ r \in D
      OBVIOUS
    <2>7. \A c \in e : (m.Parent[c] = r => c = i.aip[r]) /\ m.Parent[c] # i.aip[r]
      BY RegionFamily
    <2> HIDE DEF x, D, e
    <2>2. m.Parent[x] = r /\ x # i.cur /\ \A y \in D : x # y
      BY <1>16, <2>1
    <2>3. \A s \in D : (x = i.aip[s] => r = s) /\ i.aip[s] # r
      BY <1>16, <2>1
    <2>4. \A s \in D : s # i.cur /\ m.Parent[i.aip[s]] = s
      BY <1>16
    <2>5. \A c \in e : (m.Parent[c] = r => c = x) /\ m.Parent[c] # x
      BY <2>1, <2>7
    <2>6. QED
      BY <2>2, <2>3, <2>4, <2>5
  <1>2. x \in m.States /\ r \in m.States /\ r # NoState
    <2>1. \A s \in D : i.aip[s] \in m.States /\ s \in m.States
      BY OccupiedParallel
    <2>2. NoState \notin m.States
      BY DEF Good, WellCompiled
    <2>3. QED
      BY <2>1, <2>2
  <1>3. WellCompiled(m) /\ Hierarchy(m)
    BY DEF Good
  <1>4. lca = r
    BY <1>1, <1>2, <1>3, LCAParent
  <1>5. computeExitSequence(m, x, lca) = <<x>> /\ computeEntrySequence(m, lca, t) = <<t>>
    <2>1. computeExitSequence(m, x, m.Parent[x]) = <<x>>
      BY <1>1, <1>2, <1>3, OneStep
    <2>2. computeEntrySequence(m, m.Parent[t], t) = <<t>>
      BY <1>2, <1>3, OneStep
    <2>3. QED
      BY <1>1, <1>4, <2>1, <2>2
  <1>6. \A s : s \in e <=> s = i.cur \/ s \in D \/ \E y \in D : s = i.aip[y]
    BY OccupiedParallel
  <1>7. \A s : s \in Occupied(m, j) <=> s = i.cur \/ s \in D \/ \E y \in D : s = j.aip[y]
    BY OccupiedParallel
  <1>8. e \in SUBSET m.States
    BY DEF Occupied
  <1> HIDE DEF e, x, D
  <1>9. x \in e /\ r \in e /\ r # x /\ r \in D
    BY <1>1, <1>6 DEF D, x
  <1>10. t \in e => t = x
    BY <1>1
  <1>11. (e \ {x}) \cup {t} = Occupied(m, j)
    <2>1. \A s \in D : s # r => i.aip[s] # x /\ j.aip[s] = i.aip[s]
      BY <1>1 DEF D
    <2>2. j.aip[r] = t /\ x = i.aip[r]
      BY <1>9 DEF D, x
    <2>3. ASSUME NEW s \in e, s # x PROVE s \in Occupied(m, j)
      BY <1>6, <1>7, <2>1, <2>2, <2>3
    <2>4. t \in Occupied(m, j)
      BY <1>7, <1>9, <2>2
    <2>5. ASSUME NEW s \in Occupied(m, j), s # t PROVE s \in e /\ s # x
      <3>1. CASE s = i.cur
        BY <1>1, <1>6, <3>1
      <3>2. CASE s \in D
        BY <1>1, <1>6, <3>2
      <3>3. ASSUME NEW y \in D, s = j.aip[y] PROVE s \in e /\ s # x
        BY <1>6, <2>1, <2>2, <2>5, <3>3
      <3>4. QED
        BY <1>7, <2>5, <3>1, <3>2, <3>3
    <2>6. QED
      BY <2>3, <2>4, <2>5
  <1> DEFINE A == <<x>>
             B == <<t>>
  <1>12. /\ A \in Seq(m.States) /\ Len(A) = 1 /\ A[1] = x
         /\ B \in Seq(m.States) /\ Len(B) = 1 /\ B[1] = t
    <2> DEFINE S == m.States
    <2>1. x \in S /\ t \in S
      BY <1>2
    <2> HIDE DEF S
    <2>2. A \in Seq(S) /\ B \in Seq(S)
      BY <2>1
    <2>3. QED
      BY <2>2 DEF S
  <1>13. ToSet(A) = {x} /\ ToSet(B) = {t}
    BY DEF ToSet
  <1> HIDE DEF A, B
  <1>14. Running(m, j, e, exits(A) \o entries(B))
    <2>1. 1..1 = {1}
      OBVIOUS
    <2>2. /\ \A k, l \in 1..Len(A) : A[k] = A[l] => k = l
          /\ \A k, l \in 1..Len(B) : B[k] = B[l] => k = l
      BY <1>12, <2>1
    <2>3. \A k \in 1..Len(A) :
             /\ A[k] \in e
             /\ \A c \in e : m.Parent[c] = A[k] => \E l \in 1..Len(A) : l < k /\ A[l] = c
      BY <1>1, <1>9, <1>12, <2>1
    <2>4. \A k \in 1..Len(B) :
             /\ B[k] \in e => B[k] \in ToSet(A)
             /\ \/ m.Parent[B[k]] = NoState
                \/ m.Parent[B[k]] \in e \ ToSet(A)
                \/ \E l \in 1..Len(B) : l < k /\ B[l] = m.Parent[B[k]]
      BY <1>9, <1>10, <1>12, <1>13, <2>1
    <2>5. (e \ ToSet(A)) \cup ToSet(B) = Occupied(m, j)
      BY <1>11, <1>13
    <2>6. QED
      BY <1>8, <1>12, <2>2, <2>3, <2>4, <2>5, RunPlan
  <1>15. QED
    BY <1>5, <1>14 DEF A, B, e, x

----------------------------------------------------------------------------
(* Where a transition may end *)

\* A place to rest: a parallel state or a leaf outside parallel states.
Place(m, s) == s \in m.Parallel \/ (s \in leaves(m) /\ ~inParallel(m, s))

\* The initial leaf of a state outside parallel states is a place to rest.
LEMMA LeafOrPlace ==
    ASSUME NEW m, Good(m), NEW t \in m.States, ~inParallel(m, t)
    PROVE  /\ Place(m, initialLeafOr(m, t)) /\ initialLeafOr(m, t) \in m.States
           /\ t \notin m.Parallel => initialLeafOr(m, t) \in leaves(m)
  <1>1. WellCompiled(m) /\ Hierarchy(m)
    BY DEF Good
  <1>2. /\ DOMAIN m.InitialLeafMap = m.Compound \ m.Parallel
        /\ \A s \in m.Compound \ m.Parallel :
              /\ m.InitialLeafMap[s] \in leaves(m)
              /\ within(m, m.InitialLeafMap[s], s)
    BY <1>1 DEF WellCompiled
  <1>3. CASE t \in m.Compound \ m.Parallel
    <2>1. /\ initialLeafOr(m, t) = m.InitialLeafMap[t]
          /\ m.InitialLeafMap[t] \in leaves(m) /\ within(m, m.InitialLeafMap[t], t)
      BY <1>2, <1>3 DEF initialLeafOr
    <2>2. m.InitialLeafMap[t] \in m.States
      BY <2>1 DEF leaves
    <2>3. ~inParallel(m, m.InitialLeafMap[t])
      BY <1>1, <1>3, <2>1, <2>2, OutsideWithin
    <2>4. QED
      BY <2>1, <2>2, <2>3 DEF Place
  <1>4. CASE t \notin m.Compound \ m.Parallel
    <2>1. initialLeafOr(m, t) = t
      BY <1>2, <1>4 DEF initialLeafOr
    <2>2. t \in m.Parallel \/ t \in leaves(m)
      BY <1>4 DEF leaves
    <2>3. QED
      BY <2>1, <2>2 DEF Place
  <1>5. QED
    BY <1>3, <1>4

\* resolveTarget returns a place to rest, with history and without.
LEMMA TargetPlace ==
    ASSUME NEW m, Good(m), NEW i, Placed(m, i), NEW t \in m.States, ~inParallel(m, t),
           NEW mode
    PROVE  /\ Place(m, resolveTarget(m, i, t, mode))
           /\ resolveTarget(m, i, t, mode) \in m.States
  <1>1. WellCompiled(m) /\ Hierarchy(m)
    BY DEF Good
  <1>2. i.shallow \in Maps(m) /\ i.deep \in Maps(m)
    BY DEF Placed, Instances
  <1>3. CASE mode = "shallow" /\ t \in DOMAIN i.shallow
    <2> DEFINE c == i.shallow[t]
    <2>1. t \in m.Compound \ m.Parallel /\ m.Parent[c] = t /\ c \in m.States
      BY <1>2, <1>3, MapsApply DEF Placed, Histories
    <2>2. within(m, c, t)
      <3>1. t # NoState
        BY <1>1 DEF WellCompiled
      <3>2. Height(m, c) \in Nat /\ Height(m, c) > 0
        BY <1>1, <2>1, <3>1, UpStep
      <3>3. m.Parent[Up(m, c, 0)] = Up(m, c, 0 + 1)
        BY <1>1, <2>1, <3>2, UpParent
      <3>4. t = Up(m, c, 1) /\ 1 \in 0..Height(m, c)
        BY <2>1, <3>2, <3>3 DEF Up
      <3>5. QED
        BY <1>1, <2>1, <3>4, WithinUp
    <2>3. ~inParallel(m, c)
      BY <1>1, <2>1, <2>2, OutsideWithin
    <2>4. resolveTarget(m, i, t, mode) = initialLeafOr(m, c)
      BY <1>3 DEF resolveTarget
    <2>5. QED
      BY <2>1, <2>3, <2>4, LeafOrPlace
  <1>4. CASE mode = "deep" /\ t \in DOMAIN i.deep
    <2> DEFINE l == i.deep[t]
    <2>1. t \in m.Compound \ m.Parallel /\ l \in leaves(m) /\ within(m, l, t) /\ l \in m.States
      BY <1>2, <1>4, MapsApply DEF Placed, Histories
    <2>2. ~inParallel(m, l)
      BY <1>1, <2>1, OutsideWithin
    <2>3. resolveTarget(m, i, t, mode) = l
      BY <1>4 DEF resolveTarget
    <2>4. QED
      BY <2>1, <2>2, <2>3 DEF Place
  <1>5. CASE /\ ~(mode = "shallow" /\ t \in DOMAIN i.shallow)
             /\ ~(mode = "deep" /\ t \in DOMAIN i.deep)
    <2>1. resolveTarget(m, i, t, mode) = initialLeafOr(m, t)
      BY <1>5 DEF resolveTarget
    <2>2. QED
      BY <2>1, LeafOrPlace
  <1>6. QED
    BY <1>3, <1>4, <1>5

\* Entering a parallel state puts every region into a leaf of it.
LEMMA RegionsEntered ==
    ASSUME NEW m, Good(m), NEW p \in m.Parallel, NEW f, f = enterParallelRegions(m, p)
    PROVE  /\ f \in Maps(m) /\ DOMAIN f = ToSet(m.RegionIndex[p])
           /\ \A r \in DOMAIN f : f[r] \in leaves(m) /\ m.Parent[f[r]] = r
  <1>1. WellCompiled(m) /\ Hierarchy(m)
    BY DEF Good
  <1>2. DOMAIN f = ToSet(m.RegionIndex[p])
    BY DEF enterParallelRegions
  <1>3. ASSUME NEW r \in DOMAIN f PROVE f[r] \in leaves(m) /\ m.Parent[f[r]] = r
    <2>1. r \in ToSet(m.RegionIndex[p])
      BY <1>2
    <2>2. /\ r \in m.States /\ r \in m.Compound \ m.Parallel
          /\ \A l \in leaves(m) : within(m, l, r) => m.Parent[l] = r
      BY <2>1, RegionLeaf
    <2>3. /\ r \in DOMAIN m.InitialLeafMap
          /\ m.InitialLeafMap[r] \in leaves(m) /\ within(m, m.InitialLeafMap[r], r)
      BY <1>1, <2>2 DEF WellCompiled
    <2>4. f[r] = m.InitialLeafMap[r]
      BY <2>1, <2>3 DEF enterParallelRegions, initialLeafOr
    <2>5. QED
      BY <2>2, <2>3, <2>4
  <1>4. f \in Maps(m)
    <2>1. ToSet(m.RegionIndex[p]) \in SUBSET m.States
      BY RegionLeaf
    <2>2. f = [r \in ToSet(m.RegionIndex[p]) |-> f[r]]
      BY DEF enterParallelRegions
    <2>3. \A r \in ToSet(m.RegionIndex[p]) : f[r] \in m.States
      BY <1>2, <1>3 DEF leaves
    <2>4. f \in [ToSet(m.RegionIndex[p]) -> m.States]
      BY <2>2, <2>3
    <2>5. QED
      BY <2>1, <2>4, MapsIntro
  <1>5. QED
    BY <1>2, <1>3, <1>4

\* An instance that rests in a place is placed.
LEMMA RestPlaced ==
    ASSUME NEW m, Good(m), NEW i \in Instances(m), Histories(m, i),
           NEW s \in m.States, Place(m, s), NEW j, j = restIn(m, i, s)
    PROVE  /\ Placed(m, j) /\ j.cur = s
           /\ s \in m.Parallel => AtParallel(m, j) /\ j.aip = enterParallelRegions(m, s)
           /\ s \notin m.Parallel => AtLeaf(m, j)
           /\ j.shallow = i.shallow /\ j.deep = i.deep
  <1> DEFINE f == IF s \in m.Parallel THEN enterParallelRegions(m, s) ELSE EmptyMap
  <1>1. j = [i EXCEPT !.cur = s, !.aip = f]
    BY DEF restIn
  <1>2. f \in Maps(m)
    BY RegionsEntered, EmptyMapType
  <1> HIDE DEF f
  <1>3. /\ j.cur = s /\ j.aip = f /\ j.shallow = i.shallow /\ j.deep = i.deep
        /\ j \in Instances(m)
    BY <1>1, <1>2 DEF Instances
  <1>4. Histories(m, j)
    BY <1>3 DEF Histories
  <1>5. CASE s \in m.Parallel
    <2>1. f = enterParallelRegions(m, s)
      BY <1>5 DEF f
    <2>2. /\ DOMAIN f = ToSet(m.RegionIndex[s])
          /\ \A r \in DOMAIN f : f[r] \in leaves(m) /\ m.Parent[f[r]] = r
      BY <1>5, <2>1, RegionsEntered
    <2>3. AtParallel(m, j)
      BY <1>3, <1>5, <2>2 DEF AtParallel
    <2>4. QED
      BY <1>3, <1>4, <1>5, <2>1, <2>3 DEF Placed
  <1>6. CASE s \notin m.Parallel
    <2>1. f = EmptyMap
      BY <1>6 DEF f
    <2>2. AtLeaf(m, j)
      BY <1>3, <1>6, <2>1 DEF AtLeaf, Place
    <2>3. QED
      BY <1>3, <1>4, <1>6, <2>2 DEF Placed
  <1>7. QED
    BY <1>5, <1>6

----------------------------------------------------------------------------
(* History *)

\* Compound state s remembers that leaf l was active in it.
RecordedAs(m, i, s, l) ==
    /\ s \in DOMAIN i.deep /\ i.deep[s] = l
    /\ s \in DOMAIN i.shallow
    /\ m.Parent[i.shallow[s]] = s
    /\ within(m, l, i.shallow[s])

\* A way of leaving s: through a child of it, from a leaf within that child.
ExitOf(m, s, x) ==
    /\ s \in m.Compound \ m.Parallel
    /\ x.child \in m.States /\ m.Parent[x.child] = s
    /\ x.leaf \in leaves(m) /\ within(m, x.leaf, x.child) /\ within(m, x.leaf, s)

\* What recordHistory does to the history of every compound state.
LEMMA Recorded ==
    ASSUME NEW m, Good(m), NEW i \in Instances(m), Histories(m, i), NEW paths,
           \A s \in m.Compound : \A x \in exitsOf(m, paths, s) : ExitOf(m, s, x),
           NEW j, j = recordHistory(m, i, paths)
    PROVE  /\ j \in Instances(m) /\ j.cur = i.cur /\ j.aip = i.aip /\ Histories(m, j)
           /\ \A s \in m.Compound : exitsOf(m, paths, s) # {} =>
                 \E x \in exitsOf(m, paths, s) : RecordedAs(m, j, s, x.leaf)
           /\ \A s \in m.Compound : \A l :
                 exitsOf(m, paths, s) = {} /\ RecordedAs(m, i, s, l) => RecordedAs(m, j, s, l)
  <1> DEFINE left == {s \in m.Compound : exitsOf(m, paths, s) # {}}
             exit(s) == CHOOSE x \in exitsOf(m, paths, s) : TRUE
             sh == [s \in DOMAIN i.shallow \cup left |->
                       IF s \in left THEN exit(s).child ELSE i.shallow[s]]
             de == [s \in DOMAIN i.deep \cup left |->
                       IF s \in left THEN exit(s).leaf ELSE i.deep[s]]
  <1>1. j = [i EXCEPT !.shallow = sh, !.deep = de]
    BY DEF recordHistory
  <1>2. \A s \in left : exit(s) \in exitsOf(m, paths, s)
    OBVIOUS
  <1>3. left \subseteq m.Compound /\ left \subseteq m.States
    BY DEF Good, WellCompiled
  <1>4. /\ i.shallow \in Maps(m) /\ i.deep \in Maps(m)
        /\ i.cur \in m.States /\ i.aip \in Maps(m)
    BY DEF Instances
  <1>5. \A s \in left : ExitOf(m, s, exit(s))
    BY <1>2, <1>3
  <1>13. \A s \in m.Compound : s \in left <=> exitsOf(m, paths, s) # {}
    OBVIOUS
  <1>6. /\ DOMAIN sh = DOMAIN i.shallow \cup left /\ DOMAIN de = DOMAIN i.deep \cup left
        /\ \A s \in left : sh[s] = exit(s).child /\ de[s] = exit(s).leaf
        /\ \A s \in DOMAIN i.shallow : s \notin left => sh[s] = i.shallow[s]
        /\ \A s \in DOMAIN i.deep : s \notin left => de[s] = i.deep[s]
    <2> HIDE DEF left, exit
    <2>1. QED
      OBVIOUS
  <1>7. sh \in Maps(m) /\ de \in Maps(m)
    <2> HIDE DEF left, exit
    <2>1. DOMAIN i.shallow \cup left \in SUBSET m.States
      BY <1>3, <1>4, MapsApply
    <2>2. DOMAIN i.deep \cup left \in SUBSET m.States
      BY <1>3, <1>4, MapsApply
    <2>3. sh \in [DOMAIN i.shallow \cup left -> m.States]
      BY <1>4, <1>5, MapsApply DEF ExitOf
    <2>4. de \in [DOMAIN i.deep \cup left -> m.States]
      BY <1>4, <1>5, MapsApply DEF ExitOf, leaves
    <2>5. QED
      BY <2>1, <2>2, <2>3, <2>4, MapsIntro
  <1> HIDE DEF left, exit, sh, de
  <1>8. /\ j.cur = i.cur /\ j.aip = i.aip /\ j.shallow = sh /\ j.deep = de
        /\ j \in Instances(m)
    BY <1>1, <1>7 DEF Instances
  <1>9. Histories(m, j)
    <2>1. ASSUME NEW s \in DOMAIN sh
          PROVE  s \in m.Compound \ m.Parallel /\ m.Parent[sh[s]] = s
      BY <1>5, <1>6 DEF ExitOf, Histories
    <2>2. ASSUME NEW s \in DOMAIN de
          PROVE  /\ s \in m.Compound \ m.Parallel
                 /\ de[s] \in leaves(m) /\ within(m, de[s], s)
      BY <1>5, <1>6 DEF ExitOf, Histories
    <2>3. QED
      BY <1>8, <2>1, <2>2 DEF Histories
  <1>10. ASSUME NEW s \in m.Compound, exitsOf(m, paths, s) # {}
         PROVE  \E x \in exitsOf(m, paths, s) : RecordedAs(m, j, s, x.leaf)
    <2>1. s \in left
      BY <1>10, <1>13
    <2>2. RecordedAs(m, j, s, exit(s).leaf)
      BY <1>5, <1>6, <1>8, <2>1 DEF RecordedAs, ExitOf
    <2>3. QED
      BY <1>2, <2>1, <2>2
  <1>11. ASSUME NEW s \in m.Compound, NEW l, exitsOf(m, paths, s) = {}, RecordedAs(m, i, s, l)
         PROVE  RecordedAs(m, j, s, l)
    <2>1. s \notin left
      BY <1>11, <1>13
    <2>2. QED
      BY <1>6, <1>8, <1>11, <2>1 DEF RecordedAs
  <1>12. QED
    BY <1>8, <1>9, <1>10, <1>11

\* The leaf last active in every compound state, after instance i is reached.
Remember(m, old, i) ==
    [s \in DOMAIN old |->
        IF Occupies(m, i, s) /\ s \notin m.Parallel
        THEN CHOOSE leaf \in activeStates(i) \ m.Parallel : within(m, leaf, s)
        ELSE old[s]]

\* Every compound state that is occupied has its active leaf in la, and one
\* that is not remembers the leaf in la.
Remembers(m, i, la) ==
    /\ DOMAIN la = m.Compound
    /\ \A s \in m.Compound \ m.Parallel :
          IF Occupies(m, i, s)
          THEN la[s] \in activeStates(i) \ m.Parallel /\ within(m, la[s], s)
          ELSE la[s] # NoState => RecordedAs(m, i, s, la[s])

\* A step that records the leaves of the states it leaves, and keeps what the
\* others remember.
LEMMA HistoryStep ==
    ASSUME NEW m, NEW i, NEW j, NEW la, Remembers(m, i, la),
           \A s \in m.Compound \ m.Parallel : Occupies(m, i, s) /\ ~Occupies(m, j, s) =>
              \A l \in activeStates(i) \ m.Parallel :
                 within(m, l, s) => RecordedAs(m, j, s, l),
           \A s \in m.Compound \ m.Parallel : ~Occupies(m, i, s) =>
              \A l : RecordedAs(m, i, s, l) => RecordedAs(m, j, s, l)
    PROVE  Remembers(m, j, Remember(m, la, j))
  <1> DEFINE lb == Remember(m, la, j)
             L(s) == CHOOSE leaf \in activeStates(j) \ m.Parallel : within(m, leaf, s)
  <1>1. DOMAIN la = m.Compound
    BY DEF Remembers
  <1>2. /\ DOMAIN lb = m.Compound
        /\ \A s \in m.Compound : lb[s] = IF Occupies(m, j, s) /\ s \notin m.Parallel
                                         THEN L(s) ELSE la[s]
    BY <1>1 DEF Remember
  <1>3. \A s : Occupies(m, j, s) => L(s) \in activeStates(j) \ m.Parallel /\ within(m, L(s), s)
    BY DEF Occupies
  <1> HIDE DEF lb, L
  <1>4. ASSUME NEW s \in m.Compound \ m.Parallel, Occupies(m, j, s)
        PROVE  lb[s] \in activeStates(j) \ m.Parallel /\ within(m, lb[s], s)
    BY <1>2, <1>3, <1>4
  <1>5. ASSUME NEW s \in m.Compound \ m.Parallel, ~Occupies(m, j, s), lb[s] # NoState
        PROVE  RecordedAs(m, j, s, lb[s])
    <2>1. lb[s] = la[s]
      BY <1>2, <1>5
    <2>2. CASE Occupies(m, i, s)
      <3>1. la[s] \in activeStates(i) \ m.Parallel /\ within(m, la[s], s)
        BY <2>2 DEF Remembers
      <3>2. QED
        BY <1>5, <2>1, <2>2, <3>1
    <2>3. CASE ~Occupies(m, i, s)
      <3>1. RecordedAs(m, i, s, la[s])
        BY <1>5, <2>1, <2>3 DEF Remembers
      <3>2. QED
        BY <2>1, <2>3, <3>1
    <2>4. QED
      BY <2>2, <2>3
  <1>6. QED
    BY <1>2, <1>4, <1>5 DEF Remembers, lb

\* A fresh start: no compound state remembers anything.
LEMMA HistoryStart ==
    ASSUME NEW m, NEW j
    PROVE  Remembers(m, j, Remember(m, [s \in m.Compound |-> NoState], j))
  <1> DEFINE la == [s \in m.Compound |-> NoState]
             lb == Remember(m, la, j)
             L(s) == CHOOSE leaf \in activeStates(j) \ m.Parallel : within(m, leaf, s)
  <1>1. DOMAIN la = m.Compound /\ \A s \in m.Compound : la[s] = NoState
    OBVIOUS
  <1> HIDE DEF la
  <1>2. /\ DOMAIN lb = m.Compound
        /\ \A s \in m.Compound : lb[s] = IF Occupies(m, j, s) /\ s \notin m.Parallel
                                         THEN L(s) ELSE NoState
    BY <1>1 DEF Remember
  <1>3. \A s : Occupies(m, j, s) => L(s) \in activeStates(j) \ m.Parallel /\ within(m, L(s), s)
    BY DEF Occupies
  <1> HIDE DEF lb, L
  <1>4. QED
    BY <1>2, <1>3 DEF Remembers, lb, la

\* A path left from a leaf: the leaf and some states above it, none parallel.
LeftPath(m, q) ==
    /\ q.leaf \in leaves(m)
    /\ q.exited \cap m.Parallel = {}
    /\ \E K \in 0..Height(m, q.leaf) :
          \A s : s \in q.exited <=> \E k \in 0..K : s = Up(m, q.leaf, k)

\* The members of exitsOf.
LEMMA ExitsMember ==
    ASSUME NEW m, NEW paths, NEW s, NEW x
    PROVE  x \in exitsOf(m, paths, s) <=>
              \E q \in paths : \E c \in q.exited :
                 s \in q.exited /\ m.Parent[c] = s /\ x = [child |-> c, leaf |-> q.leaf]
  <1> DEFINE out(q) == {[child |-> c, leaf |-> q.leaf] :
                           c \in {y \in q.exited : m.Parent[y] = s}}
  <1>1. exitsOf(m, paths, s) = UNION {out(q) : q \in {p \in paths : s \in p.exited}}
    BY DEF exitsOf
  <1>2. \A q : x \in out(q) <=>
                 \E c \in q.exited : m.Parent[c] = s /\ x = [child |-> c, leaf |-> q.leaf]
    OBVIOUS
  <1> HIDE DEF out
  <1>3. x \in exitsOf(m, paths, s) <=> \E q \in paths : s \in q.exited /\ x \in out(q)
    BY <1>1
  <1>4. QED
    BY <1>2, <1>3

\* Every compound state on the paths is left through its child on one.
LEMMA PathsExits ==
    ASSUME NEW m, Good(m), NEW paths, \A q \in paths : LeftPath(m, q), NEW s \in m.Compound
    PROVE  /\ \A x \in exitsOf(m, paths, s) :
                 ExitOf(m, s, x) /\ \E q \in paths : s \in q.exited /\ x.leaf = q.leaf
           /\ \A q \in paths : s \in q.exited => exitsOf(m, paths, s) # {}
  <1>1. WellCompiled(m) /\ Hierarchy(m)
    BY DEF Good
  <1>2. ASSUME NEW x \in exitsOf(m, paths, s)
        PROVE  ExitOf(m, s, x) /\ \E q \in paths : s \in q.exited /\ x.leaf = q.leaf
    <2>1. PICK q \in paths : \E c \in q.exited :
             s \in q.exited /\ m.Parent[c] = s /\ x = [child |-> c, leaf |-> q.leaf]
      BY ExitsMember
    <2>2. PICK c \in q.exited :
             s \in q.exited /\ m.Parent[c] = s /\ x = [child |-> c, leaf |-> q.leaf]
      BY <2>1
    <2>3. x.child = c /\ x.leaf = q.leaf
      BY <2>2
    <2> DEFINE l == q.leaf
    <2>4. l \in leaves(m) /\ l \in m.States /\ s \notin m.Parallel
      BY <2>2 DEF LeftPath, leaves
    <2>5. PICK K \in 0..Height(m, l) :
             \A y : y \in q.exited <=> \E k \in 0..K : y = Up(m, l, k)
      BY DEF LeftPath
    <2>6. \A k \in 0..K : k \in 0..Height(m, l)
      <3>1. Height(m, l) \in Nat
        BY <1>1, <2>4, UpStep
      <3>2. QED
        BY <3>1
    <2> HIDE DEF l
    <2>7. within(m, l, c) /\ c \in m.States
      <3>1. PICK k \in 0..K : c = Up(m, l, k)
        BY <2>5
      <3>2. k \in 0..Height(m, l)
        BY <2>6
      <3>3. QED
        BY <1>1, <2>4, <3>1, <3>2, WithinUp, UpUp
    <2>8. within(m, l, s)
      <3>1. PICK k \in 0..K : s = Up(m, l, k)
        BY <2>2, <2>5
      <3>2. k \in 0..Height(m, l)
        BY <2>6
      <3>3. QED
        BY <1>1, <2>4, <3>1, <3>2, WithinUp
    <2>9. ExitOf(m, s, x)
      BY <2>2, <2>3, <2>4, <2>7, <2>8 DEF ExitOf, l
    <2>10. QED
      BY <2>2, <2>3, <2>9
  <1>3. ASSUME NEW q \in paths, s \in q.exited PROVE exitsOf(m, paths, s) # {}
    <2> DEFINE l == q.leaf
    <2>1. l \in leaves(m) /\ l \in m.States /\ l \notin m.Compound
      BY DEF LeftPath, leaves
    <2>2. PICK K \in 0..Height(m, l) :
             \A y : y \in q.exited <=> \E k \in 0..K : y = Up(m, l, k)
      BY DEF LeftPath
    <2>3. Height(m, l) \in Nat
      BY <1>1, <2>1, UpStep
    <2> HIDE DEF l
    <2>4. PICK k \in 0..K : s = Up(m, l, k)
      BY <1>3, <2>2
    <2>5. k # 0
      BY <2>1, <2>4 DEF Up
    <2>6. k - 1 \in 0..K /\ k - 1 \in 0..Height(m, l) /\ k - 1 < Height(m, l) /\ (k - 1) + 1 = k
      BY <2>2, <2>3, <2>4, <2>5
    <2> DEFINE c == Up(m, l, k - 1)
               x == [child |-> c, leaf |-> q.leaf]
    <2>7. c \in q.exited
      BY <2>2, <2>6
    <2>8. m.Parent[c] = s
      BY <1>1, <2>1, <2>4, <2>6, UpParent
    <2>9. x \in exitsOf(m, paths, s)
      BY <1>3, <2>7, <2>8, ExitsMember
    <2>10. QED
      BY <2>9
  <1>4. QED
    BY <1>2, <1>3

\* The states that computeExitSequence leaves.
LEMMA ExitPath ==
    ASSUME NEW m, WellCompiled(m), Hierarchy(m), NEW a \in m.States, NEW lca,
           NEW T, T = ToSet(computeExitSequence(m, a, lca))
    PROVE  \E K \in 0..Height(m, a) :
              Cut(m, a, lca, K) /\ \A s : s \in T <=> \E k \in 0..K : s = Up(m, a, k)
  <1> DEFINE A == computeExitSequence(m, a, lca)
             B == computeEntrySequence(m, lca, a)
             h == Height(m, a)
  <1>1. PICK K \in 0..h : Cut(m, a, lca, K) /\ SequencesOf(m, a, K, A, B)
    BY BothUp
  <1>2. K \in Nat
    BY <1>1, UpStep
  <1> HIDE DEF A, B
  <1>3. /\ A \in Seq(m.States) /\ Len(A) = K + 1
        /\ \A x \in 1..(K + 1) : A[x] = Up(m, a, x - 1)
    BY <1>1 DEF SequencesOf
  <1>4. DOMAIN A = 1..(K + 1)
    BY <1>3
  <1>5. T = ToSet(A)
    BY DEF A
  <1>6. \A s : s \in T <=> \E x \in 1..(K + 1) : s = Up(m, a, x - 1)
    BY <1>3, <1>4, <1>5 DEF ToSet
  <1>7. /\ \A x \in 1..(K + 1) : x - 1 \in 0..K
        /\ \A k \in 0..K : k + 1 \in 1..(K + 1) /\ (k + 1) - 1 = k
    BY <1>2
  <1>8. \A s : s \in T <=> \E k \in 0..K : s = Up(m, a, k)
    BY <1>6, <1>7
  <1>9. QED
    BY <1>1, <1>8

\* Every exit sequence is a path that was left, if it stays below parallel
\* states.
LEMMA ExitLeft ==
    ASSUME NEW m, WellCompiled(m), Hierarchy(m), NEW a \in leaves(m), NEW lca,
           ~inParallel(m, a) \/ Up(m, a, Height(m, a)) = lca,
           NEW q, q = [leaf |-> a, exited |-> ToSet(computeExitSequence(m, a, lca))]
    PROVE  LeftPath(m, q)
  <1> DEFINE T == ToSet(computeExitSequence(m, a, lca))
             h == Height(m, a)
  <1>1. a \in m.States /\ a \notin m.Parallel
    BY LeafTop
  <1>2. h \in Nat
    BY <1>1, UpStep
  <1>3. PICK K \in 0..h : Cut(m, a, lca, K) /\ \A s : s \in T <=> \E k \in 0..K : s = Up(m, a, k)
    BY <1>1, ExitPath
  <1>4. q.leaf = a /\ q.exited = T
    OBVIOUS
  <1> HIDE DEF T
  <1>5. ASSUME NEW s \in T, s \in m.Parallel PROVE FALSE
    <2>1. PICK k \in 0..K : s = Up(m, a, k)
      BY <1>3
    <2>2. k # 0
      BY <1>1, <1>5, <2>1 DEF Up
    <2>3. k \in 1..h
      BY <1>2, <1>3, <2>1, <2>2
    <2>4. k = h /\ inParallel(m, a)
      BY <1>1, <1>5, <2>1, <2>3, InParallelUp
    <2>5. K = h /\ h \in 1..h
      BY <1>2, <1>3, <2>1, <2>3, <2>4
    <2>6. QED
      BY <1>3, <2>4, <2>5, <1>2 DEF Cut
  <1>6. QED
    BY <1>3, <1>4, <1>5 DEF LeftPath

\* The exits of a plan are those of its first part.
LEMMA ExitsPlanned ==
    ASSUME NEW S, NEW A \in Seq(S), NEW B \in Seq(S), NEW q, q = exits(A) \o entries(B),
           NEW s \in ExitsIn(q)
    PROVE  s \in ToSet(A)
  <1> DEFINE X == exits(A)
             N == entries(B)
             a == Len(A)
             b == Len(B)
             act == [op : {"exit", "entry"}, state : S]
  <1>1. a \in Nat /\ b \in Nat /\ DOMAIN A = 1..a /\ DOMAIN B = 1..b
    OBVIOUS
  <1>2. X \in Seq(act) /\ Len(X) = a /\ \A j \in 1..a : X[j].op = "exit" /\ X[j].state = A[j]
    <2>1. X = [j \in 1..a |-> [op |-> "exit", state |-> A[j]]]
      BY <1>1 DEF exits
    <2>2. \A j \in 1..a : A[j] \in S
      OBVIOUS
    <2>3. \A j \in 1..a : [op |-> "exit", state |-> A[j]] \in act
      BY <2>2
    <2> HIDE DEF act, a, X
    <2>4. X \in [1..a -> act]
      BY <2>1, <2>3
    <2>5. X \in Seq(act) /\ Len(X) = a
      BY <1>1, <2>4, SeqDef
    <2>6. QED
      BY <2>1, <2>5
  <1>3. N \in Seq(act) /\ Len(N) = b /\ \A j \in 1..b : N[j].op = "entry"
    <2>1. N = [j \in 1..b |-> [op |-> "entry", state |-> B[j]]]
      BY <1>1 DEF entries
    <2>2. \A j \in 1..b : B[j] \in S
      OBVIOUS
    <2>3. \A j \in 1..b : [op |-> "entry", state |-> B[j]] \in act
      BY <2>2
    <2> HIDE DEF act, b, N
    <2>4. N \in [1..b -> act]
      BY <2>1, <2>3
    <2>5. N \in Seq(act) /\ Len(N) = b
      BY <1>1, <2>4, SeqDef
    <2>6. QED
      BY <2>1, <2>5
  <1> HIDE DEF act, X, N
  <1>4. Len(q) = a + b /\ \A j \in 1..(a + b) : q[j] = IF j <= a THEN X[j] ELSE N[j - a]
    <2>1. q = X \o N
      BY DEF X, N
    <2>2. QED
      BY <1>2, <1>3, <2>1, ConcatProperties
  <1>5. PICK j \in 1..(a + b) : q[j].op = "exit" /\ s = q[j].state
    BY <1>4 DEF ExitsIn
  <1> HIDE DEF a, b
  <1>6. j <= a
    <2>1. SUFFICES ASSUME ~(j <= a) PROVE FALSE
      OBVIOUS
    <2>2. j - a \in 1..b
      BY <1>1, <2>1
    <2>3. q[j].op = "entry"
      BY <1>3, <1>4, <2>1, <2>2
    <2>4. QED
      BY <1>5, <2>3
  <1>7. j \in 1..a
    BY <1>1, <1>6
  <1>8. s = A[j]
    BY <1>2, <1>4, <1>5, <1>6, <1>7
  <1>9. QED
    BY <1>1, <1>7, <1>8 DEF ToSet

\* For an instance in place, the states occupied through a leaf are all the
\* states it is in.
LEMMA OccupiesAll ==
    ASSUME NEW m, Good(m), NEW i, Placed(m, i)
    PROVE  \A s : Occupies(m, i, s) <=> s \in Occupied(m, i)
  <1>1. CASE AtLeaf(m, i)
    <2>1. i.cur \in m.States /\ \A s : Occupies(m, i, s) <=> within(m, i.cur, s)
      BY <1>1, OccupiedLeaf
    <2>2. \A s : s \in Occupied(m, i) <=> \E k \in 0..Height(m, i.cur) : s = Up(m, i.cur, k)
      BY <1>1, OccupiedLeaf
    <2>3. \A s : within(m, i.cur, s) <=> \E k \in 0..Height(m, i.cur) : s = Up(m, i.cur, k)
      BY <2>1, WithinUp DEF Good
    <2>4. QED
      BY <2>1, <2>2, <2>3
  <1>2. CASE AtParallel(m, i)
    BY <1>2, OccupiedParallel
  <1>3. QED
    BY <1>1, <1>2 DEF Placed

\* Nothing lies above a parallel state, so nothing is common with it.
LEMMA NoLCA ==
    ASSUME NEW m, WellCompiled(m), Hierarchy(m), NEW a \in m.States, NEW p \in m.Parallel
    PROVE  LCA(m, a, p) = NoState
  <1>1. p \in m.States /\ m.Parent[p] = NoState
    BY DEF Hierarchy, WellCompiled
  <1>2. Height(m, p) = 0
    BY <1>1, UpStep
  <1>3. ~\E y \in 1..Height(m, p) : Up(m, p, y) = LCA(m, a, p)
    BY <1>2
  <1>4. QED
    BY <1>1, <1>3, LCAUp

\* What commitTransition does to an instance outside parallel states.
LEMMA TransitionStep ==
    ASSUME NEW m, Good(m), NEW i, Placed(m, i), AtLeaf(m, i),
           NEW b \in m.States, Place(m, b), NEW j, j = transitioned(m, i, b)
    PROVE  /\ Placed(m, j)
           /\ Running(m, j, Occupied(m, i),
                      exits(exitSequence(m, i, b)) \o entries(entrySequence(m, i, b)))
           /\ exitSequence(m, i, b) \in Seq(m.States) /\ entrySequence(m, i, b) \in Seq(m.States)
           /\ \A s \in m.Compound : s \in ToSet(exitSequence(m, i, b)) =>
                 RecordedAs(m, j, s, i.cur) /\ Occupies(m, i, s)
           /\ \A s \in m.Compound : s \notin ToSet(exitSequence(m, i, b)) =>
                 \A l : RecordedAs(m, i, s, l) => RecordedAs(m, j, s, l)
  <1> DEFINE a == i.cur
             lca == LCA(m, a, b)
             A == exitSequence(m, i, b)
             B == entrySequence(m, i, b)
             path == [leaf |-> a, exited |-> ToSet(A)]
             paths == {path}
             k == recordHistory(m, i, paths)
  <1>1. WellCompiled(m) /\ Hierarchy(m)
    BY DEF Good
  <1>2. a \in m.States /\ a \in leaves(m) /\ ~inParallel(m, a)
    BY OccupiedLeaf DEF AtLeaf
  <1>3. A = computeExitSequence(m, a, lca)
    BY DEF exitSequence
  <1>4. path = [leaf |-> a, exited |-> ToSet(computeExitSequence(m, a, lca))]
    BY <1>3
  <1>5. LeftPath(m, path)
    BY <1>1, <1>2, <1>4, ExitLeft
  <1>6. j = restIn(m, k, b)
    BY DEF transitioned, recordExit
  <1>7. k = recordHistory(m, i, paths)
    OBVIOUS
  <1>8. \A q \in paths : LeftPath(m, q) /\ q.leaf = a /\ q.exited = ToSet(A)
    BY <1>5
  <1>9. path \in paths
    OBVIOUS
  <1>10. i \in Instances(m) /\ Histories(m, i)
    BY DEF Placed
  <1>11. \A s : Occupies(m, i, s) <=> within(m, a, s)
    BY OccupiedLeaf
  <1>12. \A s : s \in Occupied(m, i) <=> \E x \in 0..Height(m, a) : s = Up(m, a, x)
    BY OccupiedLeaf
  <1>13. B = IF b \in m.Parallel THEN computeParallelEntrySequence(m, lca, b)
             ELSE computeEntrySequence(m, lca, b)
    BY DEF entrySequence
  <1> HIDE DEF a, A, B, path, paths, k
  <1>14. \A s \in m.Compound :
            /\ \A x \in exitsOf(m, paths, s) : /\ ExitOf(m, s, x) /\ x.leaf = a
                                               /\ s \in ToSet(A)
            /\ s \in ToSet(A) => exitsOf(m, paths, s) # {}
    <2>1. TAKE s \in m.Compound
    <2>2. /\ \A x \in exitsOf(m, paths, s) :
                 ExitOf(m, s, x) /\ \E q \in paths : s \in q.exited /\ x.leaf = q.leaf
          /\ \A q \in paths : s \in q.exited => exitsOf(m, paths, s) # {}
      BY <1>8, PathsExits
    <2>3. QED
      BY <1>8, <1>9, <2>2
  <1>15. /\ k \in Instances(m) /\ Histories(m, k)
         /\ \A s \in m.Compound : exitsOf(m, paths, s) # {} =>
               \E x \in exitsOf(m, paths, s) : RecordedAs(m, k, s, x.leaf)
         /\ \A s \in m.Compound : \A l :
               exitsOf(m, paths, s) = {} /\ RecordedAs(m, i, s, l) => RecordedAs(m, k, s, l)
    BY <1>7, <1>10, <1>14, Recorded
  <1>16. /\ Placed(m, j) /\ j.cur = b
         /\ b \in m.Parallel => AtParallel(m, j) /\ j.aip = enterParallelRegions(m, b)
         /\ b \notin m.Parallel => AtLeaf(m, j)
         /\ j.shallow = k.shallow /\ j.deep = k.deep
    BY <1>6, <1>15, RestPlaced
  <1>17. ASSUME NEW s, NEW l, RecordedAs(m, k, s, l) PROVE RecordedAs(m, j, s, l)
    BY <1>16, <1>17 DEF RecordedAs
  <1>18. ASSUME NEW s \in m.Compound, s \in ToSet(A)
         PROVE  RecordedAs(m, j, s, a) /\ Occupies(m, i, s)
    <2>1. PICK x \in exitsOf(m, paths, s) : RecordedAs(m, k, s, x.leaf)
      BY <1>14, <1>15, <1>18
    <2>2. x.leaf = a /\ ExitOf(m, s, x)
      BY <1>14
    <2>3. QED
      BY <1>11, <1>17, <2>1, <2>2 DEF ExitOf
  <1>19. ASSUME NEW s \in m.Compound, s \notin ToSet(A), NEW l, RecordedAs(m, i, s, l)
         PROVE  RecordedAs(m, j, s, l)
    <2>1. exitsOf(m, paths, s) = {}
      BY <1>14, <1>19
    <2>2. QED
      BY <1>15, <1>17, <1>19, <2>1
  <1>20. Running(m, j, Occupied(m, i), exits(A) \o entries(B)) /\ A \in Seq(m.States)
         /\ B \in Seq(m.States)
    <2>1. CASE b \in m.Parallel
      <3>1. lca = NoState
        BY <1>1, <1>2, <2>1, NoLCA DEF a
      <3>2. IsPath(m, a, Occupied(m, i))
        BY <1>12 DEF IsPath
      <3>3. LeavesAll(m, Occupied(m, i), computeExitSequence(m, a, NoState))
        BY <1>1, <1>2, <3>2, WholePath
      <3>4. LeavesAll(m, Occupied(m, i), A)
        BY <1>3, <3>1, <3>3 DEF a
      <3>5. AtParallel(m, j) /\ j.aip = enterParallelRegions(m, j.cur)
        BY <1>16, <2>1
      <3>6. EntersAll(m, Occupied(m, j), computeParallelEntrySequence(m, lca, j.cur))
        BY <3>5, EnterRegions
      <3>7. EntersAll(m, Occupied(m, j), B)
        BY <1>13, <1>16, <2>1, <3>6 DEF a
      <3>8. A \in Seq(m.States) /\ B \in Seq(m.States)
        BY <3>4, <3>7 DEF LeavesAll, EntersAll
      <3>9. QED
        BY <3>4, <3>7, <3>8, PlanAcross
    <2>2. CASE b \notin m.Parallel
      <3> DEFINE c == LCA(m, a, b)
      <3>1. AtLeaf(m, j) /\ j.cur = b
        BY <1>16, <2>2
      <3>2. \A s : s \in Occupied(m, j) <=> \E x \in 0..Height(m, b) : s = Up(m, b, x)
        BY <3>1, OccupiedLeaf
      <3>3. A = computeExitSequence(m, a, c) /\ B = computeEntrySequence(m, c, b)
        BY <1>3, <1>13, <2>2 DEF a
      <3>4. c = LCA(m, a, b)
        OBVIOUS
      <3> HIDE DEF c
      <3>5. Running(m, j, Occupied(m, i), exits(computeExitSequence(m, a, c))
                                          \o entries(computeEntrySequence(m, c, b)))
        BY <1>1, <1>2, <1>12, <3>2, <3>4, PlanPaths
      <3>6. A \in Seq(m.States)
        <4>1. \E K \in 0..Height(m, a) : Cut(m, a, c, K) /\
                 SequencesOf(m, a, K, computeExitSequence(m, a, c), computeEntrySequence(m, c, a))
          BY <1>1, <1>2, BothUp
        <4>2. QED
          BY <3>3, <4>1 DEF SequencesOf
      <3>7. B \in Seq(m.States)
        <4>1. \E K \in 0..Height(m, b) : Cut(m, b, c, K) /\
                 SequencesOf(m, b, K, computeExitSequence(m, b, c), computeEntrySequence(m, c, b))
          BY <1>1, BothUp
        <4>2. QED
          BY <3>3, <4>1 DEF SequencesOf
      <3>8. QED
        BY <3>3, <3>5, <3>6, <3>7
    <2>3. QED
      BY <2>1, <2>2
  <1>21. QED
    BY <1>16, <1>18, <1>19, <1>20 DEF A, B, a

\* commitTransition keeps the history.
LEMMA TransitionHistory ==
    ASSUME NEW m, Good(m), NEW i, Placed(m, i), AtLeaf(m, i),
           NEW b \in m.States, Place(m, b), NEW j, j = transitioned(m, i, b),
           NEW la, Remembers(m, i, la)
    PROVE  Remembers(m, j, Remember(m, la, j))
  <1> DEFINE A == exitSequence(m, i, b)
             B == entrySequence(m, i, b)
             q == exits(A) \o entries(B)
             a == i.cur
  <1>1. /\ Placed(m, j) /\ Running(m, j, Occupied(m, i), q)
        /\ A \in Seq(m.States) /\ B \in Seq(m.States)
        /\ \A s \in m.Compound : s \in ToSet(A) => RecordedAs(m, j, s, a) /\ Occupies(m, i, s)
        /\ \A s \in m.Compound : s \notin ToSet(A) =>
              \A l : RecordedAs(m, i, s, l) => RecordedAs(m, j, s, l)
    BY TransitionStep
  <1>2. activeStates(i) \ m.Parallel = {a}
    BY OccupiedLeaf
  <1>3. \A s : Occupies(m, i, s) <=> s \in Occupied(m, i)
    BY OccupiesAll
  <1>4. \A s : Occupies(m, j, s) <=> s \in Occupied(m, j)
    BY <1>1, OccupiesAll
  <1>5. q = exits(A) \o entries(B)
    OBVIOUS
  <1> HIDE DEF A, B, a, q
  <1>6. ASSUME NEW s \in m.Compound \ m.Parallel, Occupies(m, i, s), ~Occupies(m, j, s),
               NEW l \in activeStates(i) \ m.Parallel
        PROVE  RecordedAs(m, j, s, l)
    <2>1. s \in Occupied(m, i) /\ s \notin Occupied(m, j)
      BY <1>3, <1>4, <1>6
    <2>2. s \in ExitsIn(q)
      BY <1>1, <2>1 DEF Running
    <2>3. s \in ToSet(A)
      BY <1>1, <1>5, <2>2, ExitsPlanned
    <2>4. l = a
      BY <1>2
    <2>5. QED
      BY <1>1, <2>3, <2>4
  <1>7. ASSUME NEW s \in m.Compound \ m.Parallel, ~Occupies(m, i, s), NEW l,
               RecordedAs(m, i, s, l)
        PROVE  RecordedAs(m, j, s, l)
    BY <1>1, <1>7
  <1>8. QED
    BY <1>6, <1>7, HistoryStep

\* The compound states of a parallel state stay occupied, whatever the leaves.
LEMMA StillOccupied ==
    ASSUME NEW m, Good(m), NEW i, AtParallel(m, i), NEW j, AtParallel(m, j),
           j.cur = i.cur, DOMAIN j.aip = DOMAIN i.aip, NEW s \in m.Compound,
           s \in Occupied(m, i)
    PROVE  s \in Occupied(m, j)
  <1>1. \A x : x \in Occupied(m, i) <=>
           x = i.cur \/ x \in DOMAIN i.aip \/ \E r \in DOMAIN i.aip : x = i.aip[r]
    BY OccupiedParallel
  <1>2. \A x : x \in Occupied(m, j) <=>
           x = j.cur \/ x \in DOMAIN j.aip \/ \E r \in DOMAIN j.aip : x = j.aip[r]
    BY OccupiedParallel
  <1>3. \A r \in DOMAIN i.aip : i.aip[r] \notin m.Compound
    BY DEF AtParallel, leaves
  <1>4. QED
    BY <1>1, <1>2, <1>3

\* What commitParallelIntra does: region r moves to the leaf t.
LEMMA IntraStep ==
    ASSUME NEW m, Good(m), NEW i, Placed(m, i), NEW r \in DOMAIN i.aip,
           NEW t \in leaves(m), within(m, t, r), NEW j, j = movedRegions(i, {r}, t),
           NEW la, Remembers(m, i, la)
    PROVE  /\ Placed(m, j)
           /\ LET lca == LCA(m, i.aip[r], t) IN
              Running(m, j, Occupied(m, i), exits(computeExitSequence(m, i.aip[r], lca))
                                            \o entries(computeEntrySequence(m, lca, t)))
           /\ Remembers(m, j, Remember(m, la, j))
  <1> DEFINE f == [s \in DOMAIN i.aip |-> IF s \in {r} THEN t ELSE i.aip[s]]
  <1>1. AtParallel(m, i) /\ i \in Instances(m) /\ Histories(m, i)
    BY EmptyMapType DEF Placed, AtLeaf
  <1>2. j = [i EXCEPT !.aip = f]
    BY DEF movedRegions
  <1>3. t \in m.States
    BY DEF leaves
  <1>4. i.aip \in Maps(m)
    BY <1>1 DEF Instances
  <1>5. /\ DOMAIN f = DOMAIN i.aip
        /\ \A s \in DOMAIN i.aip : f[s] = IF s = r THEN t ELSE i.aip[s]
    OBVIOUS
  <1>6. f \in Maps(m)
    <2>1. DOMAIN i.aip \in SUBSET m.States /\ \A s \in DOMAIN i.aip : i.aip[s] \in m.States
      BY <1>4, MapsApply
    <2>2. f \in [DOMAIN i.aip -> m.States]
      BY <1>3, <2>1
    <2> HIDE DEF f
    <2>3. QED
      BY <2>1, <2>2, MapsIntro
  <1> HIDE DEF f
  <1>7. /\ j.cur = i.cur /\ j.aip = f /\ j.shallow = i.shallow /\ j.deep = i.deep
        /\ j \in Instances(m)
    BY <1>1, <1>2, <1>6 DEF Instances
  <1>8. m.Parent[t] = r
    <2>1. i.cur \in m.Parallel /\ r \in ToSet(m.RegionIndex[i.cur])
      BY <1>1 DEF AtParallel
    <2>2. QED
      BY <2>1, RegionLeaf
  <1>9. AtParallel(m, j)
    <2>1. /\ i.cur \in m.Parallel /\ DOMAIN i.aip = ToSet(m.RegionIndex[i.cur])
          /\ \A s \in DOMAIN i.aip : i.aip[s] \in leaves(m) /\ m.Parent[i.aip[s]] = s
      BY <1>1 DEF AtParallel
    <2>2. \A s \in DOMAIN f : f[s] \in leaves(m) /\ m.Parent[f[s]] = s
      BY <1>5, <1>8, <2>1
    <2>3. QED
      BY <1>5, <1>7, <2>1, <2>2 DEF AtParallel
  <1>10. Placed(m, j)
    <2>1. Histories(m, j)
      BY <1>1, <1>7 DEF Histories
    <2>2. QED
      BY <1>7, <1>9, <2>1 DEF Placed
  <1> DEFINE lca == LCA(m, i.aip[r], t)
  <1>11. Running(m, j, Occupied(m, i), exits(computeExitSequence(m, i.aip[r], lca))
                                       \o entries(computeEntrySequence(m, lca, t)))
    <2>1. /\ DOMAIN j.aip = DOMAIN i.aip
          /\ \A s \in DOMAIN i.aip : j.aip[s] = IF s = r THEN t ELSE i.aip[s]
      BY <1>5, <1>7
    <2>2. lca = LCA(m, i.aip[r], t)
      OBVIOUS
    <2> HIDE DEF lca
    <2>3. QED
      BY <1>1, <1>3, <1>7, <1>8, <1>9, <2>1, <2>2, PlanIntra
  <1>12. Remembers(m, j, Remember(m, la, j))
    <2>4. \A s : Occupies(m, i, s) <=> s \in Occupied(m, i)
      BY OccupiesAll
    <2>8. \A s : Occupies(m, j, s) <=> s \in Occupied(m, j)
      BY <1>10, OccupiesAll
    <2>5. \A s \in m.Compound : Occupies(m, i, s) => Occupies(m, j, s)
      <3>1. TAKE s \in m.Compound
      <3>2. HAVE Occupies(m, i, s)
      <3>3. s \in Occupied(m, i)
        BY <2>4, <3>2
      <3>4. j.cur = i.cur /\ DOMAIN j.aip = DOMAIN i.aip
        BY <1>5, <1>7
      <3>5. s \in Occupied(m, j)
        BY <1>1, <1>9, <3>3, <3>4, StillOccupied
      <3>6. QED
        BY <2>8, <3>5
    <2>6. \A s, l : RecordedAs(m, i, s, l) => RecordedAs(m, j, s, l)
      BY <1>7 DEF RecordedAs
    <2>7. \A s \in m.Compound \ m.Parallel : Occupies(m, i, s) /\ ~Occupies(m, j, s) =>
              \A l \in activeStates(i) \ m.Parallel :
                 within(m, l, s) => RecordedAs(m, j, s, l)
      BY <2>5
    <2>9. QED
      BY <2>6, <2>7, HistoryStep
  <1>13. QED
    BY <1>10, <1>11, <1>12

\* createInstance starts in place.
LEMMA CreatedPlaced ==
    ASSUME NEW m, Good(m)
    PROVE  Placed(m, created(m))
  <1> DEFINE s == initialLeafOr(m, m.Initial)
             i == created(m)
  <1>1. m.Initial \in leaves(m) /\ m.Initial \in m.States /\ ~inParallel(m, m.Initial)
        /\ m.Initial \notin m.Parallel
    BY DEF Good, WellCompiled, FlatRegions, leaves
  <1>2. s \in m.States /\ Place(m, s) /\ s \in leaves(m)
    BY <1>1, LeafOrPlace
  <1>3. s \notin m.Parallel
    BY <1>2 DEF leaves, Good, WellCompiled
  <1>4. i.cur = s /\ i.aip = EmptyMap /\ i.shallow = EmptyMap /\ i.deep = EmptyMap
    BY DEF created
  <1>5. i \in Instances(m)
    BY <1>2, EmptyMapType DEF created, Instances
  <1> HIDE DEF s, i
  <1>6. AtLeaf(m, i)
    BY <1>2, <1>3, <1>4 DEF AtLeaf, Place
  <1>7. Histories(m, i)
    BY <1>4, EmptyMapType DEF Histories
  <1>8. QED
    BY <1>5, <1>6, <1>7 DEF Placed, i

\* ForceState puts an instance in place.
LEMMA ForcedPlaced ==
    ASSUME NEW m, Good(m), NEW i, Placed(m, i), NEW t \in m.States, ~inParallel(m, t)
    PROVE  Placed(m, forced(m, i, t))
  <1> DEFINE s == initialLeafOr(m, t)
             k == restIn(m, i, s)
             j == forced(m, i, t)
  <1>1. s \in m.States /\ Place(m, s)
    BY LeafOrPlace
  <1>2. j = [k EXCEPT !.shallow = EmptyMap, !.deep = EmptyMap]
    BY DEF forced
  <1>3. k = restIn(m, i, s) /\ i \in Instances(m) /\ Histories(m, i)
    BY DEF Placed
  <1> HIDE DEF s, k, j
  <1>4. Placed(m, k)
    BY <1>1, <1>3, RestPlaced
  <1>5. k \in Instances(m)
    BY <1>4 DEF Placed
  <1>6. /\ j \in Instances(m) /\ j.cur = k.cur /\ j.aip = k.aip
        /\ j.shallow = EmptyMap /\ j.deep = EmptyMap
    BY <1>2, <1>5, EmptyMapType DEF Instances
  <1>7. AtLeaf(m, j) \/ AtParallel(m, j)
    BY <1>4, <1>6 DEF Placed, AtLeaf, AtParallel
  <1>8. Histories(m, j)
    BY <1>6, EmptyMapType DEF Histories
  <1>9. QED
    BY <1>6, <1>7, <1>8 DEF Placed, j

\* The path that leaving a parallel state records for region r.
RegionExit(m, i, r) ==
    [leaf |-> i.aip[r], exited |-> ToSet(computeExitSequence(m, i.aip[r], i.cur))]

\* It is the leaf and the region.
LEMMA RegionExited ==
    ASSUME NEW m, Good(m), NEW i, AtParallel(m, i), NEW r \in DOMAIN i.aip
    PROVE  /\ LeftPath(m, RegionExit(m, i, r)) /\ RegionExit(m, i, r).leaf = i.aip[r]
           /\ \A s \in m.Compound : s \in RegionExit(m, i, r).exited <=> s = r
  <1> DEFINE l == i.aip[r]
             p == i.cur
             q == RegionExit(m, i, r)
             T == ToSet(computeExitSequence(m, l, p))
             h == Height(m, l)
  <1>1. WellCompiled(m) /\ Hierarchy(m)
    BY DEF Good
  <1>2. p \in m.Parallel /\ l \in leaves(m) /\ m.Parent[l] = r
    BY DEF AtParallel
  <1>3. l \in m.States /\ r \in m.States /\ m.Parent[r] = p /\ r \in m.Compound \ m.Parallel
    BY OccupiedParallel
  <1>4. p \in m.States /\ m.Parent[p] = NoState /\ p # NoState /\ r # NoState
        /\ l \notin m.Compound
    BY <1>1, <1>2, <1>3 DEF Hierarchy, WellCompiled, leaves
  <1>5. q = [leaf |-> l, exited |-> T]
    BY DEF RegionExit
  <1> HIDE DEF l, p, q
  <1>6. Height(m, p) = 0
    BY <1>1, <1>4, UpStep
  <1>7. Height(m, r) = 1
    BY <1>1, <1>3, <1>4, <1>6, UpStep
  <1>8. h = 2
    BY <1>1, <1>2, <1>3, <1>4, <1>7, UpStep
  <1>9. Up(m, l, 0) = l /\ Up(m, l, 1) = r /\ Up(m, l, 2) = p
    <2>1. m.Parent[Up(m, l, 0)] = Up(m, l, 0 + 1)
      BY <1>1, <1>3, <1>8, UpParent
    <2>2. Up(m, l, 0) = l
      BY DEF Up
    <2>3. Up(m, l, 1) = r
      BY <1>2, <2>1, <2>2
    <2>4. m.Parent[Up(m, l, 1)] = Up(m, l, 1 + 1)
      BY <1>1, <1>3, <1>8, UpParent
    <2>5. QED
      BY <1>3, <2>2, <2>3, <2>4
  <1>10. LeftPath(m, q)
    <2>1. Up(m, l, Height(m, l)) = p
      BY <1>8, <1>9
    <2>2. QED
      BY <1>1, <1>2, <1>5, <2>1, ExitLeft
  <1>11. PICK K \in 0..h : Cut(m, l, p, K) /\ \A s : s \in T <=> \E k \in 0..K : s = Up(m, l, k)
    BY <1>1, <1>3, ExitPath
  <1>12. K \in {0, 1, 2}
    BY <1>8, <1>11
  <1>13. K = 1
    <2>1. 2 \in 1..h
      BY <1>8
    <2>2. K < h /\ Up(m, l, K + 1) = p
      BY <1>9, <1>11, <2>1 DEF Cut
    <2>3. K # 0
      <3>1. r # p
        BY <1>2, <1>3
      <3>2. K = 0 => Up(m, l, K + 1) = r
        BY <1>9
      <3>3. QED
        BY <2>2, <3>1, <3>2
    <2>4. QED
      BY <1>8, <1>12, <2>2, <2>3
  <1>14. \A s : s \in T <=> s = l \/ s = r
    <2>1. \A k : k \in 0..1 <=> k = 0 \/ k = 1
      OBVIOUS
    <2>2. QED
      BY <1>9, <1>11, <1>13, <2>1
  <1>15. q.leaf = l /\ q.exited = T
    BY <1>5
  <1>16. \A s \in m.Compound : s \in q.exited <=> s = r
    BY <1>3, <1>4, <1>14, <1>15
  <1>17. QED
    BY <1>10, <1>15, <1>16 DEF q, l

\* What commitParallelExit does.
LEMMA ExitStep ==
    ASSUME NEW m, Good(m), NEW i, Placed(m, i), i.aip # EmptyMap,
           NEW t \in m.States, ~inParallel(m, t), t \notin m.Parallel,
           NEW j, j = leftParallel(m, i, t), NEW la, Remembers(m, i, la)
    PROVE  /\ Placed(m, j)
           /\ Running(m, j, Occupied(m, i),
                      exits(computeParallelExitSequence(i, i.cur))
                      \o entries(computeEntrySequence(m, NoState, initialLeafOr(m, t))))
           /\ Remembers(m, j, Remember(m, la, j))
  <1> DEFINE b == initialLeafOr(m, t)
             D == DOMAIN i.aip
             paths == {RegionExit(m, i, r) : r \in D}
             k == recordHistory(m, i, paths)
             A == computeParallelExitSequence(i, i.cur)
             B == computeEntrySequence(m, NoState, b)
  <1>1. AtParallel(m, i) /\ i \in Instances(m) /\ Histories(m, i)
    BY DEF Placed, AtLeaf
  <1>2. b \in m.States /\ b \in leaves(m) /\ Place(m, b)
    BY LeafOrPlace
  <1>3. WellCompiled(m) /\ Hierarchy(m)
    BY DEF Good
  <1>4. b \notin m.Parallel /\ ~inParallel(m, b)
    BY <1>2, <1>3, LeafTop DEF Place
  <1>5. j = [k EXCEPT !.cur = b, !.aip = EmptyMap]
    BY DEF leftParallel, RegionExit
  <1>6. k = recordHistory(m, i, paths)
    OBVIOUS
  <1>7. \A r \in D : /\ LeftPath(m, RegionExit(m, i, r)) /\ RegionExit(m, i, r).leaf = i.aip[r]
                     /\ \A s \in m.Compound : s \in RegionExit(m, i, r).exited <=> s = r
    BY <1>1, RegionExited
  <1>8. \A q \in paths : LeftPath(m, q)
    BY <1>7
  <1>9. \A q : q \in paths <=> \E r \in D : q = RegionExit(m, i, r)
    OBVIOUS
  <1> HIDE DEF b, D, paths, k, A, B
  <1>10. \A s \in m.Compound :
            /\ \A x \in exitsOf(m, paths, s) : /\ ExitOf(m, s, x) /\ s \in D
                                               /\ x.leaf = i.aip[s]
            /\ s \in D => exitsOf(m, paths, s) # {}
    <2>1. TAKE s \in m.Compound
    <2>2. /\ \A x \in exitsOf(m, paths, s) :
                 ExitOf(m, s, x) /\ \E q \in paths : s \in q.exited /\ x.leaf = q.leaf
          /\ \A q \in paths : s \in q.exited => exitsOf(m, paths, s) # {}
      BY <1>8, PathsExits
    <2>3. ASSUME NEW x \in exitsOf(m, paths, s) PROVE s \in D /\ x.leaf = i.aip[s]
      <3>1. PICK q \in paths : s \in q.exited /\ x.leaf = q.leaf
        BY <2>2
      <3>2. PICK r \in D : q = RegionExit(m, i, r)
        BY <1>9
      <3>3. s = r
        BY <1>7, <3>1, <3>2
      <3>4. QED
        BY <1>7, <3>1, <3>2, <3>3
    <2>4. s \in D => exitsOf(m, paths, s) # {}
      BY <1>7, <1>9, <2>2
    <2>5. QED
      BY <2>2, <2>3, <2>4
  <1>11. /\ k \in Instances(m) /\ Histories(m, k)
         /\ \A s \in m.Compound : exitsOf(m, paths, s) # {} =>
               \E x \in exitsOf(m, paths, s) : RecordedAs(m, k, s, x.leaf)
         /\ \A s \in m.Compound : \A l :
               exitsOf(m, paths, s) = {} /\ RecordedAs(m, i, s, l) => RecordedAs(m, k, s, l)
    BY <1>1, <1>6, <1>10, Recorded
  <1>12. /\ j \in Instances(m) /\ j.cur = b /\ j.aip = EmptyMap
         /\ j.shallow = k.shallow /\ j.deep = k.deep
    BY <1>2, <1>5, <1>11, EmptyMapType DEF Instances
  <1>13. AtLeaf(m, j)
    BY <1>2, <1>4, <1>12 DEF AtLeaf
  <1>14. Placed(m, j)
    <2>1. Histories(m, j)
      BY <1>11, <1>12 DEF Histories
    <2>2. QED
      BY <1>12, <1>13, <2>1 DEF Placed
  <1>15. Running(m, j, Occupied(m, i), exits(A) \o entries(B))
    <2>1. LeavesAll(m, Occupied(m, i), A)
      BY <1>1, LeaveRegions DEF A
    <2>2. IsPath(m, b, Occupied(m, j))
      <3>1. \A s : s \in Occupied(m, j) <=>
               \E x \in 0..Height(m, j.cur) : s = Up(m, j.cur, x)
        BY <1>13, OccupiedLeaf
      <3>2. QED
        BY <1>12, <3>1 DEF IsPath
    <2>3. EntersAll(m, Occupied(m, j), B)
      BY <1>2, <1>3, <2>2, WholePath DEF B
    <2>4. QED
      BY <2>1, <2>3, PlanAcross
  <1>16. \A s, l : RecordedAs(m, k, s, l) => RecordedAs(m, j, s, l)
    BY <1>12 DEF RecordedAs
  <1>17. Remembers(m, j, Remember(m, la, j))
    <2>1. ASSUME NEW s \in m.Compound \ m.Parallel, Occupies(m, i, s),
                 NEW l \in activeStates(i) \ m.Parallel, within(m, l, s)
          PROVE  RecordedAs(m, j, s, l)
      <3>1. PICK r \in D : l = i.aip[r]
        BY <1>1, OccupiedParallel DEF D
      <3>2. s = r
        <4>1. i.cur \in m.Parallel /\ m.Parent[l] = r /\ l \in leaves(m)
          BY <1>1, <3>1 DEF AtParallel, D
        <4>2. r \in m.States /\ m.Parent[r] = i.cur /\ l \in m.States
          BY <1>1, <3>1, OccupiedParallel DEF D
        <4>3. s \in {l, r, i.cur}
          BY <1>3, <2>1, <4>1, <4>2, RegionPath
        <4>4. QED
          BY <4>1, <4>3 DEF leaves
      <3>3. PICK x \in exitsOf(m, paths, s) : RecordedAs(m, k, s, x.leaf)
        BY <1>10, <1>11, <3>2
      <3>4. x.leaf = l
        BY <1>10, <3>1, <3>2
      <3>5. QED
        BY <1>16, <3>3, <3>4
    <2>2. ASSUME NEW s \in m.Compound \ m.Parallel, ~Occupies(m, i, s), NEW l,
                 RecordedAs(m, i, s, l)
          PROVE  RecordedAs(m, j, s, l)
      <3>1. s \notin D
        <4>1. \A x : x \in D => Occupies(m, i, x)
          BY <1>1, OccupiedParallel DEF D
        <4>2. QED
          BY <2>2, <4>1
      <3>2. exitsOf(m, paths, s) = {}
        BY <1>10, <3>1
      <3>3. QED
        BY <1>11, <1>16, <2>2, <3>2
    <2>3. QED
      BY <2>1, <2>2, HistoryStep
  <1>18. QED
    BY <1>14, <1>15, <1>17 DEF A, B, b

----------------------------------------------------------------------------
(* The theorems *)

\* The instance is in place, the activities left to run are in order and lead
\* to it, and every compound state remembers the leaf last active in it.
WalkInv ==
    /\ cm \in Charts
    /\ Placed(cm, inst)
    /\ Running(cm, inst, entered, todo)
    /\ Remembers(cm, inst, last)

\* The operators of Walk, with the chart as a parameter.
LEMMA OfChart ==
    ASSUME NEW i, NEW old
    PROVE  /\ occupied(i) = Occupied(cm, i)
           /\ remember(old, i) = Remember(cm, old, i)
           /\ \A s : occupies(i, s) <=> Occupies(cm, i, s)
  BY DEF occupied, Occupied, remember, Remember, occupies, Occupies

\* The first state satisfies the invariant.
LEMMA WalkInit ==
    ASSUME \A m \in Charts : Good(m), Init
    PROVE  WalkInv
  <1>1. cm \in Charts /\ Good(cm)
    BY DEF Init
  <1>2. inst = created(cm) /\ todo = <<>>
    BY DEF Init
  <1>3. entered = occupied(inst) /\ last = remember([s \in cm.Compound |-> NoState], inst)
    BY DEF Init
  <1>4. Placed(cm, inst)
    BY <1>1, <1>2, CreatedPlaced
  <1>5. Running(cm, inst, entered, todo)
    BY <1>2, <1>3, OfChart, RunDone
  <1>6. Remembers(cm, inst, last)
    BY <1>3, OfChart, HistoryStart
  <1>7. QED
    BY <1>1, <1>4, <1>5, <1>6 DEF WalkInv

\* Between two transitions, what was entered is where the instance is.
LEMMA WalkIdle ==
    ASSUME WalkInv, todo = <<>>
    PROVE  entered = Occupied(cm, inst)
  BY RunDone DEF WalkInv

\* Every step keeps the invariant.
LEMMA WalkNext ==
    ASSUME \A m \in Charts : Good(m), WalkInv, [Next]_vars
    PROVE  WalkInv'
  <1>1. /\ cm \in Charts /\ Good(cm) /\ Placed(cm, inst)
        /\ Running(cm, inst, entered, todo) /\ Remembers(cm, inst, last)
    BY DEF WalkInv
  <1>2. ASSUME NEW t \in cm.States, NEW mode \in Modes, Transition(t, mode) PROVE WalkInv'
    <2> DEFINE b == resolveTarget(cm, inst, t, mode)
    <2>1. /\ todo = <<>> /\ inst.aip = EmptyMap /\ ~inParallel(cm, t)
          /\ inst' = transitioned(cm, inst, b)
          /\ todo' = exits(exitSequence(cm, inst, b)) \o entries(entrySequence(cm, inst, b))
          /\ last' = remember(last, inst')
          /\ cm' = cm /\ entered' = entered
      BY <1>2 DEF Transition
    <2>2. b \in cm.States /\ Place(cm, b)
      BY <1>1, <2>1, TargetPlace
    <2>3. AtLeaf(cm, inst)
      BY <1>1, <2>1, OccupiedParallel DEF Placed
    <2>4. entered = Occupied(cm, inst)
      BY <2>1, WalkIdle
    <2> HIDE DEF b
    <2>5. /\ Placed(cm, inst')
          /\ Running(cm, inst', Occupied(cm, inst),
                     exits(exitSequence(cm, inst, b)) \o entries(entrySequence(cm, inst, b)))
      BY <1>1, <2>1, <2>2, <2>3, TransitionStep
    <2>6. Remembers(cm, inst', Remember(cm, last, inst'))
      BY <1>1, <2>1, <2>2, <2>3, TransitionHistory
    <2>7. last' = Remember(cm, last, inst')
      BY <2>1, OfChart
    <2>8. QED
      BY <1>1, <2>1, <2>4, <2>5, <2>6, <2>7 DEF WalkInv
  <1>3. ASSUME NEW r \in cm.States, NEW t \in cm.States, ParallelIntra(r, t) PROVE WalkInv'
    <2> DEFINE lca == LCA(cm, inst.aip[r], t)
    <2>1. /\ todo = <<>> /\ r \in DOMAIN inst.aip /\ t \in leaves(cm) /\ within(cm, t, r)
          /\ inst' = movedRegions(inst, {r}, t)
          /\ todo' = exits(computeExitSequence(cm, inst.aip[r], lca))
                     \o entries(computeEntrySequence(cm, lca, t))
          /\ last' = remember(last, inst')
          /\ cm' = cm /\ entered' = entered
      BY <1>3 DEF ParallelIntra
    <2>2. entered = Occupied(cm, inst)
      BY <2>1, WalkIdle
    <2>3. /\ Placed(cm, inst')
          /\ Running(cm, inst', Occupied(cm, inst),
                     exits(computeExitSequence(cm, inst.aip[r], lca))
                     \o entries(computeEntrySequence(cm, lca, t)))
          /\ Remembers(cm, inst', Remember(cm, last, inst'))
      BY <1>1, <2>1, IntraStep
    <2> HIDE DEF lca
    <2>4. last' = Remember(cm, last, inst')
      BY <2>1, OfChart
    <2>5. QED
      BY <1>1, <2>1, <2>2, <2>3, <2>4 DEF WalkInv
  <1>4. ASSUME NEW t \in cm.States, ParallelExit(t) PROVE WalkInv'
    <2> DEFINE q == exits(computeParallelExitSequence(inst, inst.cur))
                    \o entries(computeEntrySequence(cm, NoState, initialLeafOr(cm, t)))
    <2>1. /\ todo = <<>> /\ inst.aip # EmptyMap /\ ~inParallel(cm, t) /\ t \notin cm.Parallel
          /\ inst' = leftParallel(cm, inst, t)
          /\ todo' = q
          /\ last' = remember(last, inst')
          /\ cm' = cm /\ entered' = entered
      BY <1>4 DEF ParallelExit
    <2>2. entered = Occupied(cm, inst)
      BY <2>1, WalkIdle
    <2>3. /\ Placed(cm, inst') /\ Running(cm, inst', Occupied(cm, inst), q)
          /\ Remembers(cm, inst', Remember(cm, last, inst'))
      BY <1>1, <2>1, ExitStep
    <2> HIDE DEF q
    <2>4. last' = Remember(cm, last, inst')
      BY <2>1, OfChart
    <2>5. QED
      BY <1>1, <2>1, <2>2, <2>3, <2>4 DEF WalkInv
  <1>5. ASSUME NEW t \in cm.States, ForceState(t) PROVE WalkInv'
    <2>1. /\ todo = <<>> /\ ~inParallel(cm, t)
          /\ inst' = forced(cm, inst, t)
          /\ entered' = occupied(inst')
          /\ last' = remember([s \in cm.Compound |-> NoState], inst')
          /\ cm' = cm /\ todo' = todo
      BY <1>5 DEF ForceState
    <2>2. Placed(cm, inst')
      BY <1>1, <2>1, ForcedPlaced
    <2>3. Running(cm, inst', entered', <<>>)
      BY <2>1, OfChart, RunDone
    <2>4. Remembers(cm, inst', last')
      BY <2>1, OfChart, HistoryStart
    <2>5. QED
      BY <1>1, <2>1, <2>2, <2>3, <2>4 DEF WalkInv
  <1>6. ASSUME RunActivity PROVE WalkInv'
    <2>1. /\ todo # <<>> /\ todo' = Tail(todo)
          /\ entered' = Ran(entered, Head(todo))
          /\ cm' = cm /\ inst' = inst /\ last' = last
      BY <1>6 DEF RunActivity, Ran
    <2>2. Running(cm, inst, Ran(entered, Head(todo)), Tail(todo))
      BY <1>1, <2>1, RunStep
    <2>3. QED
      BY <1>1, <2>1, <2>2 DEF WalkInv
  <1>7. ASSUME UNCHANGED vars PROVE WalkInv'
    BY <1>1, <1>7 DEF vars, WalkInv
  <1>8. QED
    BY <1>2, <1>3, <1>4, <1>5, <1>6, <1>7 DEF Next

\* What the invariant says of the first activity.
LEMMA OrderHolds ==
    ASSUME WalkInv
    PROVE  ActivityOrder
  <1>1. SUFFICES ASSUME todo # <<>>
                 PROVE  LET s == Head(todo).state IN
                        IF Head(todo).op = "exit"
                        THEN s \in entered /\ childrenOf(s) \cap entered = {}
                        ELSE s \notin entered /\ cm.Parent[s] \in entered \cup {NoState}
    BY DEF ActivityOrder
  <1>2. Running(cm, inst, entered, todo)
    BY DEF WalkInv
  <1>3. QED
    BY <1>1, <1>2, RunHead DEF childrenOf

\* What it says between two transitions.
LEMMA LegalHolds ==
    ASSUME \A m \in Charts : Good(m), WalkInv
    PROVE  LegalConfiguration
  <1>1. SUFFICES ASSUME todo = <<>> PROVE Legal(cm, inst, entered)
    BY DEF LegalConfiguration, Legal, childrenOf
  <1>2. entered = Occupied(cm, inst)
    BY <1>1, WalkIdle
  <1>3. Good(cm) /\ (AtLeaf(cm, inst) \/ AtParallel(cm, inst))
    BY DEF WalkInv, Placed
  <1>4. QED
    BY <1>2, <1>3, LegalLeaf, LegalParallel

\* What it says of the history.
LEMMA HistoryHolds ==
    ASSUME WalkInv
    PROVE  HistoryIsLast
  <1>1. SUFFICES ASSUME NEW s \in cm.Compound \ cm.Parallel,
                        ~occupies(inst, s), last[s] # NoState
                 PROVE  RecordedAs(cm, inst, s, last[s])
    BY DEF HistoryIsLast, RecordedAs
  <1>2. ~Occupies(cm, inst, s)
    BY <1>1, OfChart
  <1>3. QED
    BY <1>1, <1>2 DEF WalkInv, Remembers

OneChart == cm \in Charts

\* Whatever the user declares, if Register accepts it, the machine an instance
\* walks through is complete and stays so: every compound state has an initial
\* leaf inside it, every parallel state its regions (graph.Compile).
THEOREM CompiledCorrect ==
    ASSUME \A m \in Charts : Compiled(m)
    PROVE  Spec => []CompiledWell
  <1>1. Init => OneChart
    BY DEF Init, OneChart
  <1>2. OneChart /\ [Next]_vars => OneChart'
    BY DEF OneChart, Next, Transition, ParallelIntra, ParallelExit, ForceState, RunActivity, vars
  <1>3. OneChart => CompiledWell
    BY CompileCorrect DEF OneChart, CompiledWell
  <1>4. QED
    BY <1>1, <1>2, <1>3, PTL DEF Spec

\* What graph.Compile makes of an accepted declaration is what the lemmas need.
LEMMA CompiledGood ==
    ASSUME \A m \in Charts : Compiled(m) /\ FlatRegions(m)
    PROVE  \A m \in Charts : Good(m)
  BY CompileCorrect DEF Good

\* The invariant holds throughout.
THEOREM WalkInvariant ==
    ASSUME \A m \in Charts : Compiled(m) /\ FlatRegions(m)
    PROVE  Spec => []WalkInv
  <1>1. \A m \in Charts : Good(m)
    BY CompiledGood
  <1>2. Init => WalkInv
    BY <1>1, WalkInit
  <1>3. WalkInv /\ [Next]_vars => WalkInv'
    BY <1>1, WalkNext
  <1>4. QED
    BY <1>2, <1>3, PTL DEF Spec

\* In every chart of flat regions, of any size and depth, exit activities run
\* from leaf to ancestor and entry activities from ancestor to leaf
\* (computeExitSequence, computeEntrySequence and their parallel forms).
THEOREM ActivitiesInOrder ==
    ASSUME \A m \in Charts : Compiled(m) /\ FlatRegions(m)
    PROVE  Spec => []ActivityOrder
  <1>1. Spec => []WalkInv
    BY WalkInvariant
  <1>2. WalkInv => ActivityOrder
    BY OrderHolds
  <1>3. QED
    BY <1>1, <1>2, PTL

\* In every such chart, whatever transitions an instance makes, the states
\* whose entry activity ran last form a legal configuration, and its leaves are
\* the states the instance says are active.
THEOREM AlwaysLegal ==
    ASSUME \A m \in Charts : Compiled(m) /\ FlatRegions(m)
    PROVE  Spec => []LegalConfiguration
  <1>1. Spec => []WalkInv
    BY WalkInvariant
  <1>2. WalkInv => LegalConfiguration
    BY CompiledGood, LegalHolds
  <1>3. QED
    BY <1>1, <1>2, PTL

\* In every such chart the history that recordHistory leaves behind is the leaf
\* last active in each compound state, and the child that leads to it.
THEOREM HistoryHeld ==
    ASSUME \A m \in Charts : Compiled(m) /\ FlatRegions(m)
    PROVE  Spec => []HistoryIsLast
  <1>1. Spec => []WalkInv
    BY WalkInvariant
  <1>2. WalkInv => HistoryIsLast
    BY HistoryHolds
  <1>3. QED
    BY <1>1, <1>2, PTL
============================================================================
