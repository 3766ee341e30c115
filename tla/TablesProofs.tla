---------------------------- MODULE TablesProofs ----------------------------
(***************************************************************************)
(* What adding an entry to a table and dropping one makes of it, for the   *)
(* tables of the database and of the handlers alike; that a finite order   *)
(* can be counted through; and induction, over numbers and for a recursive *)
(* function, from the facts of the library about finite sets.              *)
(***************************************************************************)
EXTENDS Tables, FiniteSetTheorems, TLAPS

\* An entry added to a table leaves the others alone.
LEMMA Extended ==
    ASSUME NEW f, NEW x, NEW v, NEW D, NEW R, x \in D, v \in R,
           DOMAIN f \subseteq D, f \in [DOMAIN f -> R]
    PROVE  LET g == Put(f, x, v) IN
           /\ DOMAIN g = DOMAIN f \cup {x}
           /\ DOMAIN g \subseteq D
           /\ g \in [DOMAIN g -> R]
           /\ g[x] = v
           /\ \A y \in DOMAIN f \ {x} : g[y] = f[y]
  BY DEF Put

\* Neither does an entry dropped from it.
LEMMA Dropped ==
    ASSUME NEW f, NEW x, NEW D, NEW R,
           DOMAIN f \subseteq D, f \in [DOMAIN f -> R]
    PROVE  LET g == Drop(f, x) IN
           /\ DOMAIN g = DOMAIN f \ {x}
           /\ DOMAIN g \subseteq D
           /\ g \in [DOMAIN g -> R]
           /\ \A y \in DOMAIN g : g[y] = f[y]
  BY DEF Drop, Restrict

\* In a finite order, what comes before one, and how much that is
Below(S, R, e) == {d \in S : <<d, e>> \in R}

\* How many of a finite set come before each of its members.
RankIn(S, R) == [e \in S |-> Cardinality(Below(S, R, e))]

\* In a finite total order, how many come before one is a place of its own.
LEMMA Ranking ==
    ASSUME NEW S, IsFiniteSet(S), NEW R,
           \A x \in S : <<x, x>> \notin R,
           \A x, y \in S : x # y => <<x, y>> \in R \/ <<y, x>> \in R,
           \A x, y, z \in S : <<x, y>> \in R /\ <<y, z>> \in R => <<x, z>> \in R
    PROVE  RankIn(S, R) \in Bijection(S, 0 .. Cardinality(S) - 1)
  <1>1. Cardinality(S) \in Nat
    BY FS_CardinalityType
  <1>2. ASSUME NEW e \in S
        PROVE  /\ IsFiniteSet(Below(S, R, e))
               /\ Cardinality(Below(S, R, e)) \in 0 .. Cardinality(S) - 1
    <2>1. IsFiniteSet(S \ {e}) /\ Cardinality(S \ {e}) = Cardinality(S) - 1
      BY FS_RemoveElement
    <2>2. Below(S, R, e) \subseteq S \ {e}
      BY DEF Below
    <2>3. IsFiniteSet(Below(S, R, e)) /\ Cardinality(Below(S, R, e)) <= Cardinality(S) - 1
      BY <2>1, <2>2, FS_Subset
    <2> QED
      BY <1>1, <2>3, FS_CardinalityType
  <1>3. ASSUME NEW d \in S, NEW e \in S, <<d, e>> \in R
        PROVE  Cardinality(Below(S, R, d)) < Cardinality(Below(S, R, e))
    <2>1. /\ Below(S, R, d) \subseteq Below(S, R, e)
          /\ d \in Below(S, R, e) /\ d \notin Below(S, R, d)
      BY <1>3 DEF Below
    <2>2. /\ Cardinality(Below(S, R, d)) <= Cardinality(Below(S, R, e))
          /\ Cardinality(Below(S, R, e)) # Cardinality(Below(S, R, d))
      BY <1>2, <2>1, FS_Subset
    <2> QED
      BY <1>1, <1>2, <2>2
  <1>4. RankIn(S, R) \in Injection(S, 0 .. Cardinality(S) - 1)
    <2>1. RankIn(S, R) \in [S -> 0 .. Cardinality(S) - 1]
      BY <1>2 DEF RankIn
    <2>2. ASSUME NEW d \in S, NEW e \in S, RankIn(S, R)[d] = RankIn(S, R)[e]
          PROVE  d = e
      <3>1. Cardinality(Below(S, R, d)) = Cardinality(Below(S, R, e))
        BY <2>2 DEF RankIn
      <3>2. Cardinality(Below(S, R, d)) \in Int
        BY <1>1, <1>2
      <3>3. <<d, e>> \notin R
        <4>1. ~(Cardinality(Below(S, R, d)) < Cardinality(Below(S, R, e)))
          BY <3>1, <3>2
        <4> QED
          BY <1>3, <4>1
      <3>4. <<e, d>> \notin R
        <4>1. ~(Cardinality(Below(S, R, e)) < Cardinality(Below(S, R, d)))
          BY <3>1, <3>2
        <4> QED
          BY <1>3, <4>1
      <3> QED
        BY <3>3, <3>4
    <2> QED
      BY <2>1, <2>2 DEF Injection, IsInjective
  <1>5. /\ IsFiniteSet(0 .. Cardinality(S) - 1)
        /\ Cardinality(0 .. Cardinality(S) - 1) = Cardinality(S)
    <2>1. 0 \in Int /\ Cardinality(S) - 1 \in Int
      BY <1>1
    <2>2. /\ IsFiniteSet(0 .. Cardinality(S) - 1)
          /\ Cardinality(0 .. Cardinality(S) - 1) =
                IF 0 > Cardinality(S) - 1 THEN 0 ELSE Cardinality(S) - 1 - 0 + 1
      BY ONLY <2>1, FS_Interval
    <2> QED
      BY <1>1, <2>2
  <1>6. RankIn(S, R) \in Surjection(S, 0 .. Cardinality(S) - 1)
    BY <1>4, <1>5, FS_Injection
  <1> QED
    BY <1>4, <1>6 DEF Bijection

\* A finite set of numbers has a greatest.
LEMMA Greatest ==
    ASSUME NEW S, S \subseteq Int, IsFiniteSet(S), S # {}
    PROVE  \E m \in S : \A k \in S : k <= m
  <1> PICK R : R = {p \in S \X S : p[1] < p[2]}
    OBVIOUS
  <1>1. /\ \A x \in S : <<x, x>> \notin R
        /\ \A x, y \in S : x # y => <<x, y>> \in R \/ <<y, x>> \in R
        /\ \A x, y, z \in S : <<x, y>> \in R /\ <<y, z>> \in R => <<x, z>> \in R
    OBVIOUS
  <1>2. RankIn(S, R) \in Bijection(S, 0 .. Cardinality(S) - 1)
    BY <1>1, Ranking
  <1>3. Cardinality(S) \in Nat \ {0}
    BY FS_CardinalityType, FS_EmptySet
  <1>4. PICK m \in S : RankIn(S, R)[m] = Cardinality(S) - 1
    BY <1>2, <1>3 DEF Bijection, Surjection
  <1>5. ASSUME NEW k \in S, k > m
        PROVE  FALSE
    <2>1. Below(S, R, m) \subseteq S \ {k} /\ m \in (S \ {k}) \ Below(S, R, m)
      BY <1>5 DEF Below
    <2>2. IsFiniteSet(S \ {k}) /\ Cardinality(S \ {k}) = Cardinality(S) - 1
      BY FS_RemoveElement
    <2>3. Cardinality(Below(S, R, m)) = Cardinality(S) - 1
      BY <1>4 DEF RankIn
    <2>4. S \ {k} = Below(S, R, m)
      BY <2>1, <2>2, <2>3, FS_Subset
    <2> QED
      BY <2>1, <2>4
  <1> QED
    BY <1>5

\* Induction, for what holds up to a number: it is said as a set, because a fact that
\* takes an operator cannot be used.
LEMMA UpTo ==
    ASSUME NEW n \in Nat, NEW S, 0 \in S,
           \A i \in 0 .. n - 1 : i \in S => i + 1 \in S
    PROVE  0 .. n \subseteq S
  <1> PICK T : T = {k \in 0 .. n : n - k \notin S}
    OBVIOUS
  <1>1. T \subseteq Int /\ IsFiniteSet(T)
    <2>1. IsFiniteSet(0 .. n)
      BY FS_Interval
    <2> QED
      BY <2>1, FS_Subset
  <1>2. ASSUME T # {}
        PROVE  FALSE
    <2>1. PICK m \in T : \A k \in T : k <= m
      BY <1>1, <1>2, Greatest
    <2>2. m \in 0 .. n /\ n - m \in 0 .. n /\ n - m \notin S
      OBVIOUS
    <2>3. n - m # 0
      BY <2>2
    <2>4. m + 1 \in 0 .. n /\ n - (m + 1) \in 0 .. n - 1 /\ (n - (m + 1)) + 1 = n - m
      BY <2>2, <2>3
    <2>5. m + 1 \notin T
      BY <2>1, <2>2
    <2>6. n - (m + 1) \in S
      BY <2>4, <2>5
    <2> QED
      BY <2>2, <2>4, <2>6
  <1>3. ASSUME NEW k \in 0 .. n
        PROVE  k \in S
    <2>1. n - k \in 0 .. n /\ n - (n - k) = k
      OBVIOUS
    <2> QED
      BY <1>2, <2>1
  <1> QED
    BY <1>3

\* g is what the first n of the steps `st` make of `a`.
IsRun(g, D, st, a, n) ==
    g \in [0 .. n -> D] /\ g[0] = a /\ \A i \in 1 .. n : g[i] = st[<<i, g[i - 1]>>]

\* Steps can be taken one after the other, any number of them.
LEMMA Iterates ==
    ASSUME NEW D, NEW st, st \in [Nat \X D -> D], NEW a \in D, NEW n \in Nat
    PROVE  \E g : IsRun(g, D, st, a, n)
  <1> PICK S : S = {m \in Nat : \E g \in [0 .. m -> D] :
                       g[0] = a /\ \A i \in 1 .. m : g[i] = st[<<i, g[i - 1]>>]}
    OBVIOUS
  <1>1. 0 \in S
    <2> PICK g : g = [i \in 0 .. 0 |-> a]
      OBVIOUS
    <2>1. g \in [0 .. 0 -> D] /\ g[0] = a /\ 1 .. 0 = {}
      OBVIOUS
    <2> QED
      BY <2>1
  <1>2. ASSUME NEW m \in 0 .. n - 1, m \in S
        PROVE  m + 1 \in S
    <2>1. PICK g \in [0 .. m -> D] :
             g[0] = a /\ \A i \in 1 .. m : g[i] = st[<<i, g[i - 1]>>]
      BY <1>2
    <2>2. m \in Nat /\ m + 1 \in Nat /\ g[m] \in D /\ st[<<m + 1, g[m]>>] \in D
      OBVIOUS
    <2> PICK h : h = [i \in 0 .. m + 1 |-> IF i = m + 1 THEN st[<<m + 1, g[m]>>] ELSE g[i]]
      OBVIOUS
    <2>3. h \in [0 .. m + 1 -> D] /\ h[0] = a
      BY <2>1, <2>2
    <2>4. ASSUME NEW i \in 1 .. m + 1
          PROVE  h[i] = st[<<i, h[i - 1]>>]
      <3>1. CASE i = m + 1
        <4>1. i \in 0 .. m + 1 /\ i - 1 = m /\ m \in 0 .. m + 1 /\ m # m + 1
          BY <2>2, <3>1
        <4>2. h[i] = st[<<m + 1, g[m]>>] /\ h[i - 1] = g[m]
          BY <3>1, <4>1
        <4> QED
          BY <3>1, <4>2
      <3>2. CASE i # m + 1
        <4>1. i \in 1 .. m /\ i \in 0 .. m + 1 /\ i - 1 \in 0 .. m + 1 /\ i - 1 # m + 1
          BY <2>2, <3>2
        <4>2. h[i] = g[i] /\ h[i - 1] = g[i - 1]
          BY <3>2, <4>1
        <4> QED
          BY <2>1, <4>1, <4>2
      <3> QED
        BY <3>1, <3>2
    <2> QED
      BY <2>2, <2>3, <2>4
  <1>3. 0 .. n \subseteq S
    BY <1>1, <1>2, UpTo
  <1> QED
    BY <1>3 DEF IsRun
=============================================================================
