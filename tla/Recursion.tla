------------------------------ MODULE Recursion ------------------------------
(***************************************************************************)
(* Induction over numbers and the iteration of a function, stated without  *)
(* operators as parameters so that the provers can use them: a property is *)
(* the set of numbers that have it.                                        *)
(***************************************************************************)
EXTENDS Naturals, Integers, TLAPS, WellFoundedInduction

----------------------------------------------------------------------------
(* Smallest elements: induction over numbers is by a least counterexample *)

\* What is minimal for a relation that contains < is a least element.
LEMMA LeastByRelation ==
    ASSUME NEW R, \A y, z \in Nat : y < z => <<y, z>> \in R,
           NEW S \in SUBSET Nat, \E x \in S : \A y \in S : ~(<<y, x>> \in R)
    PROVE  \E x \in S : \A y \in S : x =< y
  <1>1. PICK x \in S : \A y \in S : ~(<<y, x>> \in R)
    OBVIOUS
  <1>2. ASSUME NEW y \in S PROVE x =< y
    <2>1. x \in Nat /\ y \in Nat
      OBVIOUS
    <2>2. ~(y < x)
      BY <1>1, <2>1, Zenon
    <2>3. QED
      BY <2>1, <2>2
  <1>3. QED
    BY <1>2

\* A non-empty set of numbers has a smallest one.
LEMMA Least ==
    ASSUME NEW S \in SUBSET Nat, S # {}
    PROVE  \E x \in S : \A y \in S : x =< y
  <1>1. \A y, z \in Nat : y < z => <<y, z>> \in OpToRel(<, Nat)
    BY DEF OpToRel
  <1>2. \E x \in S : \A y \in S : ~(<<y, x>> \in OpToRel(<, Nat))
    BY NatLessThanWellFounded, WFMin
  <1>3. QED
    BY <1>1, <1>2, LeastByRelation, Zenon

\* Induction over 0..n, for a property given as the set of numbers that have it.
LEMMA Induction ==
    ASSUME NEW n \in Nat, NEW S, 0 \in S, \A k \in 0..(n - 1) : k \in S => k + 1 \in S
    PROVE  0..n \subseteq S
  <1> DEFINE Bad == {k \in 0..n : k \notin S}
  <1>1. SUFFICES ASSUME Bad # {} PROVE FALSE
    OBVIOUS
  <1>2. PICK k \in Bad : \A y \in Bad : k =< y
    <2>1. Bad \in SUBSET Nat
      OBVIOUS
    <2>2. QED
      BY <1>1, <2>1, Least
  <1>3. k \in Nat /\ k \in 0..n /\ k \notin S /\ k # 0
    BY <1>2
  <1>4. k - 1 \in 0..(n - 1) /\ (k - 1) + 1 = k /\ k - 1 \in 0..n
    BY <1>3
  <1>5. k - 1 \notin S
    BY <1>3, <1>4
  <1>6. QED
    BY <1>2, <1>3, <1>4, <1>5

----------------------------------------------------------------------------
(* Iterating a function *)

\* h follows F from x for n steps.
Follows(F, x, h, n) == h[0] = x /\ \A k \in 0..(n - 1) : h[k + 1] = F[h[k]]

\* Two such sequences agree.
LEMMA FollowsUnique ==
    ASSUME NEW F, NEW x, NEW n \in Nat, NEW g, NEW h, Follows(F, x, g, n), Follows(F, x, h, n)
    PROVE  \A k \in 0..n : g[k] = h[k]
  <1> DEFINE S == {k \in 0..n : g[k] = h[k]}
  <1>1. 0 \in S
    BY DEF Follows
  <1>2. ASSUME NEW k \in 0..(n - 1), k \in S PROVE k + 1 \in S
    <2>1. g[k + 1] = F[g[k]] /\ h[k + 1] = F[h[k]]
      BY DEF Follows
    <2>2. k + 1 \in 0..n
      OBVIOUS
    <2>3. QED
      BY <1>2, <2>1, <2>2
  <1> HIDE DEF S
  <1>3. 0..n \subseteq S
    BY <1>1, <1>2, Induction
  <1>4. QED
    BY <1>3 DEF S

\* There is one of every length.
LEMMA FollowsExists ==
    ASSUME NEW X, NEW F \in [X -> X], NEW x \in X, NEW n \in Nat
    PROVE  \E h \in [0..n -> X] : Follows(F, x, h, n)
  <1> DEFINE S == {k \in 0..n : \E h \in [0..k -> X] : Follows(F, x, h, k)}
  <1>1. 0 \in S
    <2> DEFINE h == [k \in 0..0 |-> x]
    <2>1. h \in [0..0 -> X] /\ Follows(F, x, h, 0)
      BY DEF Follows
    <2>2. QED
      BY <2>1
  <1>2. ASSUME NEW k \in 0..(n - 1), k \in S PROVE k + 1 \in S
    <2>1. PICK h \in [0..k -> X] : Follows(F, x, h, k)
      BY <1>2
    <2> DEFINE g == [i \in 0..(k + 1) |-> IF i = k + 1 THEN F[h[k]] ELSE h[i]]
    <2>2. g \in [0..(k + 1) -> X]
      OBVIOUS
    <2>3. g[0] = x
      BY <2>1 DEF Follows
    <2>4. ASSUME NEW i \in 0..((k + 1) - 1) PROVE g[i + 1] = F[g[i]]
      <3>1. g[i] = h[i]
        OBVIOUS
      <3>2. CASE i = k
        BY <3>1, <3>2
      <3>3. CASE i # k
        <4>1. i \in 0..(k - 1) /\ i + 1 \in 0..(k + 1) /\ i + 1 # k + 1
          BY <3>3
        <4>2. h[i + 1] = F[h[i]]
          BY <2>1, <4>1 DEF Follows
        <4>3. QED
          BY <3>1, <4>1, <4>2
      <3>4. QED
        BY <3>2, <3>3
    <2>5. Follows(F, x, g, k + 1)
      BY <2>3, <2>4 DEF Follows
    <2>6. k + 1 \in 0..n
      OBVIOUS
    <2>7. QED
      BY <2>2, <2>5, <2>6
  <1> HIDE DEF S
  <1>3. 0..n \subseteq S
    BY <1>1, <1>2, Induction
  <1>4. n \in S
    BY <1>3
  <1>5. QED
    BY <1>4 DEF S

\* What F makes of x in n steps.
Iterate(F, x, n) == (CHOOSE h : h \in [0..n -> DOMAIN F] /\ Follows(F, x, h, n))[n]

\* The value of every sequence that follows F.
LEMMA StepValue ==
    ASSUME NEW X, NEW F \in [X -> X], NEW x \in X, NEW n \in Nat, NEW k \in 0..n,
           NEW h, Follows(F, x, h, n)
    PROVE  h[k] = Iterate(F, x, k)
  <1> DEFINE P(g) == g \in [0..k -> DOMAIN F] /\ Follows(F, x, g, k)
             g0 == CHOOSE g : P(g)
  <1>1. \E g : P(g)
    <2>1. k \in Nat /\ DOMAIN F = X
      OBVIOUS
    <2>2. \E g \in [0..k -> X] : Follows(F, x, g, k)
      BY <2>1, FollowsExists
    <2>3. QED
      BY <2>1, <2>2
  <1> HIDE DEF P
  <1>2. P(g0)
    BY <1>1, Zenon
  <1>3. g0[k] = Iterate(F, x, k)
    BY DEF P, Iterate
  <1>4. Follows(F, x, h, k)
    <2>1. \A i \in 0..(k - 1) : i \in 0..(n - 1)
      OBVIOUS
    <2>2. QED
      BY <2>1 DEF Follows
  <1> HIDE DEF g0
  <1>5. Follows(F, x, g0, k) /\ k \in Nat
    BY <1>2 DEF P
  <1>6. \A i \in 0..k : g0[i] = h[i]
    BY <1>4, <1>5, FollowsUnique
  <1>7. QED
    BY <1>3, <1>6

\* Step by step.
LEMMA StepNext ==
    ASSUME NEW X, NEW F \in [X -> X], NEW x \in X
    PROVE  /\ Iterate(F, x, 0) = x
           /\ \A n \in Nat : Iterate(F, x, n) \in X /\ Iterate(F, x, n + 1) = F[Iterate(F, x, n)]
  <1>1. ASSUME NEW n \in Nat
        PROVE  /\ Iterate(F, x, 0) = x
               /\ Iterate(F, x, n) \in X
               /\ Iterate(F, x, n + 1) = F[Iterate(F, x, n)]
    <2>1. PICK h \in [0..(n + 1) -> X] : Follows(F, x, h, n + 1)
      BY FollowsExists
    <2>2. \A k \in 0..(n + 1) : h[k] = Iterate(F, x, k)
      BY <2>1, StepValue
    <2>3. h[0] = x /\ h[n + 1] = F[h[n]]
      BY <2>1 DEF Follows
    <2>4. h[n] \in X /\ n \in 0..(n + 1) /\ 0 \in 0..(n + 1) /\ n + 1 \in 0..(n + 1)
      OBVIOUS
    <2>5. QED
      BY <2>2, <2>3, <2>4
  <1>2. QED
    BY <1>1

\* Steps add up.
LEMMA StepAdd ==
    ASSUME NEW X, NEW F \in [X -> X], NEW x \in X, NEW i \in Nat, NEW n \in Nat
    PROVE  Iterate(F, Iterate(F, x, i), n) = Iterate(F, x, i + n)
  <1> DEFINE y == Iterate(F, x, i)
             h == [k \in 0..n |-> Iterate(F, x, i + k)]
  <1>1. y \in X
    BY StepNext
  <1>2. h[0] = y
    OBVIOUS
  <1>3. ASSUME NEW k \in 0..(n - 1) PROVE h[k + 1] = F[h[k]]
    <2>1. i + k \in Nat /\ i + (k + 1) = (i + k) + 1
      OBVIOUS
    <2>2. Iterate(F, x, (i + k) + 1) = F[Iterate(F, x, i + k)]
      BY <2>1, StepNext
    <2>3. h[k + 1] = Iterate(F, x, i + (k + 1)) /\ h[k] = Iterate(F, x, i + k)
      OBVIOUS
    <2>4. QED
      BY <2>1, <2>2, <2>3
  <1>4. Follows(F, y, h, n)
    BY <1>2, <1>3 DEF Follows
  <1>5. h[n] = Iterate(F, x, i + n)
    OBVIOUS
  <1> HIDE DEF y, h
  <1>6. h[n] = Iterate(F, y, n)
    BY <1>1, <1>4, StepValue
  <1>7. QED
    BY <1>5, <1>6 DEF y

\* F stays where it maps x to itself.
LEMMA StepFixed ==
    ASSUME NEW X, NEW F \in [X -> X], NEW x \in X, F[x] = x, NEW n \in Nat
    PROVE  Iterate(F, x, n) = x
  <1> DEFINE h == [k \in 0..n |-> x]
  <1>1. Follows(F, x, h, n)
    BY DEF Follows
  <1>2. h[n] = x
    OBVIOUS
  <1> HIDE DEF h
  <1>3. QED
    BY <1>1, <1>2, StepValue

\* g and h agree on what mu ranks below n.
AgreeBelow(X, mu, n, g, h) == \A x \in X : mu[x] < n => g[x] = h[x]

\* F only looks at what mu ranks lower.
Contracts(X, mu, G, F) ==
    \A n \in Nat : \A g, h \in G :
        AgreeBelow(X, mu, n, g, h) => AgreeBelow(X, mu, n + 1, F[g], F[h])

\* F works on functions from X to Y and only looks at smaller arguments.
WellFounded(X, Y, G, F, g0, M, mu) ==
    /\ G \in SUBSET [X -> Y] /\ g0 \in G /\ F \in [G -> G]
    /\ M \in Nat /\ mu \in [X -> 0..M]
    /\ Contracts(X, mu, G, F)

\* A recursion that only looks at smaller arguments has a solution: iterated
\* often enough, its right-hand side no longer changes the function.
LEMMA Fixpoint ==
    ASSUME NEW X, NEW Y, NEW G, NEW F, NEW g0, NEW M, NEW mu,
           WellFounded(X, Y, G, F, g0, M, mu)
    PROVE  \E g \in G : F[g] = g
  <1>0. /\ G \in SUBSET [X -> Y] /\ g0 \in G /\ F \in [G -> G]
        /\ M \in Nat /\ mu \in [X -> 0..M]
        /\ Contracts(X, mu, G, F)
    BY DEF WellFounded
  <1> DEFINE at(n) == Iterate(F, g0, n)
             S == {n \in 0..(M + 1) : AgreeBelow(X, mu, n, at(n), at(n + 1))}
  <1>1. at(0) = g0 /\ \A n \in Nat : at(n) \in G /\ at(n + 1) = F[at(n)]
    BY <1>0, StepNext
  <1> HIDE DEF at
  <1>2. 0 \in S
    BY <1>0 DEF AgreeBelow
  <1>3. ASSUME NEW n \in 0..((M + 1) - 1), n \in S PROVE n + 1 \in S
    <2>1. n \in Nat /\ n + 1 \in Nat /\ n + 1 \in 0..(M + 1)
      BY <1>0
    <2>2. at(n) \in G /\ at(n + 1) \in G
      BY <1>1, <2>1
    <2>3. AgreeBelow(X, mu, n, at(n), at(n + 1))
      BY <1>3
    <2>4. AgreeBelow(X, mu, n + 1, F[at(n)], F[at(n + 1)])
      BY <1>0, <2>1, <2>2, <2>3 DEF Contracts
    <2>5. F[at(n)] = at(n + 1) /\ F[at(n + 1)] = at((n + 1) + 1)
      BY <1>1, <2>1
    <2>6. QED
      BY <2>1, <2>4, <2>5
  <1> HIDE DEF S
  <1>4. 0..(M + 1) \subseteq S
    <2>1. M + 1 \in Nat
      BY <1>0
    <2>2. QED
      BY <1>2, <1>3, <2>1, Induction
  <1>5. AgreeBelow(X, mu, M + 1, at(M + 1), at((M + 1) + 1))
    BY <1>0, <1>4 DEF S
  <1> DEFINE g == at(M + 1)
  <1>6. g \in G /\ F[g] = at((M + 1) + 1) /\ F[g] \in G
    BY <1>0, <1>1
  <1>7. \A x \in X : mu[x] < M + 1
    BY <1>0
  <1>8. \A x \in X : g[x] = F[g][x]
    BY <1>5, <1>6, <1>7 DEF AgreeBelow
  <1> HIDE DEF g
  <1>9. F[g] = g
    BY <1>0, <1>6, <1>8
  <1>10. QED
    BY <1>6, <1>9
============================================================================
