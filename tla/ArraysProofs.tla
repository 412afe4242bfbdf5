---------------------------- MODULE ArraysProofs -----------------------------
(***************************************************************************)
(* Lemmas on positions and lists: every nonempty set of positions has a    *)
(* first one, and one of the highest priority; what is defined from one    *)
(* position to the next exists; what a filter leaves of a list.            *)
(***************************************************************************)
EXTENDS Arrays, WellFoundedInduction, TLAPS

\* A nonempty set of naturals has a least element.
LEMMA Least ==
  ASSUME NEW T \in SUBSET Nat, T # {}
  PROVE  \E x \in T : \A y \in T : x <= y
<1> DEFINE R == OpToRel(<, Nat)
<1>1. IsWellFoundedOn(R, Nat)
  BY NatLessThanWellFounded
<1>2. \A y, x \in Nat : y < x => <<y, x>> \in R
  BY DEF OpToRel
<1> HIDE DEF R
<1>3. PICK x \in T : \A y \in T : ~ (<<y, x>> \in R)
  BY <1>1, WFMin
<1>4. ASSUME NEW y \in T PROVE x <= y
  <2>1. x \in Nat /\ y \in Nat
    OBVIOUS
  <2>2. ~ (y < x)
    BY <1>2, <1>3, <2>1
  <2> QED
    BY <2>1, <2>2
<1> QED
  BY <1>4

\* Induction, for a property given as the set of naturals that have it.
LEMMA Induction ==
  ASSUME NEW T \in SUBSET Nat, 0 \in T, \A n \in T : n + 1 \in T
  PROVE  T = Nat
<1> SUFFICES ASSUME Nat \ T # {} PROVE FALSE
  OBVIOUS
<1>1. PICK x \in Nat \ T : \A y \in Nat \ T : x <= y
  BY Least
<1>2. x # 0 /\ x - 1 \in Nat
  BY <1>1
<1>3. x - 1 \in T
  BY <1>1, <1>2
<1> QED
  BY <1>1, <1>2, <1>3

\* Among finitely many positions one has the greatest priority.
LEMMA Greatest ==
  ASSUME NEW n \in Nat, NEW p \in [1 .. n -> Int], NEW S \in SUBSET (1 .. n), S # {}
  PROVE  \E i \in S : \A j \in S : p[j] <= p[i]
<1> DEFINE HasGreatest(U) == \E i \in U : \A j \in U : p[j] <= p[i]
           Below(m) == \A U \in SUBSET (1 .. n) :
                         U # {} /\ (\A i \in U : i <= m) => HasGreatest(U)
           T == {m \in Nat : Below(m)}
<1>1. Below(0)
  <2> SUFFICES ASSUME NEW U \in SUBSET (1 .. n), NEW i \in U, \A j \in U : j <= 0
               PROVE  FALSE
    OBVIOUS
  <2> QED
    BY i \in 1 .. n
<1>2. ASSUME NEW m \in Nat, Below(m) PROVE Below(m + 1)
  <2> SUFFICES ASSUME NEW U \in SUBSET (1 .. n), U # {}, \A i \in U : i <= m + 1
               PROVE  HasGreatest(U)
    OBVIOUS
  <2> DEFINE rest == U \ {m + 1}
  <2>1. \A i \in rest : i <= m
    OBVIOUS
  <2>2. CASE rest = {}
    <3>1. U = {m + 1}
      BY <2>2
    <3> QED
      BY <3>1
  <2>3. CASE rest # {}
    <3>1. PICK i \in rest : \A j \in rest : p[j] <= p[i]
      BY <1>2, <2>1, <2>3
    <3>2. CASE m + 1 \in U /\ p[i] <= p[m + 1]
      <4>1. \A j \in U : p[j] <= p[m + 1]
        BY <3>1, <3>2
      <4> QED
        BY <3>2, <4>1
    <3>3. CASE ~(m + 1 \in U /\ p[i] <= p[m + 1])
      <4>1. \A j \in U : p[j] <= p[i]
        BY <3>1, <3>3
      <4> QED
        BY <4>1
    <3> QED
      BY <3>2, <3>3
  <2> QED
    BY <2>2, <2>3
<1> HIDE DEF Below
<1>3. T = Nat
  <2>1. 0 \in T /\ T \in SUBSET Nat
    BY <1>1
  <2>2. \A m \in T : m + 1 \in T
    BY <1>2
  <2> HIDE DEF T
  <2> QED
    BY <2>1, <2>2, Induction
<1>4. Below(n)
  BY <1>3
<1> QED
  BY <1>4 DEF Below
-----------------------------------------------------------------------------
\* The values of `f` follow from the first one, step by step.
Follows(f, first, n, step) ==
  f[0] = first /\ \A m \in 1 .. n : f[m] = step[m][f[m - 1]]

\* What each position makes of the value before it defines a value at every
\* position of a list.
LEMMA Recursion ==
  ASSUME NEW V, NEW first \in V, NEW n \in Nat, NEW step \in [1 .. n -> [V -> V]]
  PROVE  \E f \in [0 .. n -> V] : Follows(f, first, n, step)
<1> DEFINE Defines(f, m) ==
             /\ f \in [0 .. m -> V]
             /\ f[0] = first
             /\ \A k \in 1 .. m : f[k] = step[k][f[k - 1]]
           T == {m \in Nat : m <= n => \E f : Defines(f, m)}
<1>1. 0 \in T
  <2>1. Defines([m \in 0 .. 0 |-> first], 0)
    OBVIOUS
  <2> QED
    BY <2>1
<1>2. ASSUME NEW m \in Nat, m + 1 <= n, \E f : Defines(f, m)
      PROVE  \E f : Defines(f, m + 1)
  <2>1. PICK f : Defines(f, m)
    BY <1>2
  <2> DEFINE g == [k \in 0 .. m + 1 |-> IF k = m + 1 THEN step[m + 1][f[m]] ELSE f[k]]
  <2>2. f[m] \in V /\ m + 1 \in 1 .. n
    BY <1>2, <2>1
  <2>3. step[m + 1][f[m]] \in V
    BY <2>2
  <2>4. g \in [0 .. m + 1 -> V] /\ g[0] = first
    BY <2>1, <2>3
  <2>5. ASSUME NEW k \in 1 .. m + 1 PROVE g[k] = step[k][g[k - 1]]
    <3>1. CASE k = m + 1
      BY <1>2, <2>1, <3>1
    <3>2. CASE k # m + 1
      BY <1>2, <2>1, <3>2
    <3> QED
      BY <3>1, <3>2
  <2> QED
    BY <2>4, <2>5
<1> HIDE DEF Defines
<1>3. T = Nat
  <2>1. T \in SUBSET Nat /\ \A m \in T : m + 1 \in T
    BY <1>2
  <2> HIDE DEF T
  <2> QED
    BY <1>1, <2>1, Induction
<1>4. PICK f : Defines(f, n)
  <2>1. n \in T
    BY <1>3
  <2> QED
    BY <2>1
<1> QED
  BY <1>4 DEF Defines, Follows

\* What a filter leaves: the entries at the positions that are kept, in their
\* order, each once.
LEMMA FilterKeeps ==
  ASSUME NEW V, NEW s \in Seq(V), NEW positions
  PROVE  LET r == Filter(s, positions)
         IN /\ r \in Seq(V)
            /\ \E at \in [DOMAIN r -> positions \cap DOMAIN s] :
                 /\ \A n \in DOMAIN r : r[n] = s[at[n]]
                 /\ \A m, n \in DOMAIN r : m < n => at[m] < at[n]
                 /\ \A i \in positions \cap DOMAIN s : \E n \in DOMAIN r : at[n] = i
<1> DEFINE Picks(r, m) ==
             \E at \in [DOMAIN r -> positions \cap (1 .. m)] :
               /\ \A n \in DOMAIN r : r[n] = s[at[n]]
               /\ \A k, n \in DOMAIN r : k < n => at[k] < at[n]
               /\ \A i \in positions \cap (1 .. m) : \E n \in DOMAIN r : at[n] = i
           step == [n \in 1 .. Len(s) |-> [r \in Seq(V) |->
                      IF n \in positions THEN Append(r, s[n]) ELSE r]]
           Defines(f) == f = [n \in 0 .. Len(s) |->
                                IF n = 0 THEN <<>>
                                ELSE IF n \in positions THEN Append(f[n - 1], s[n])
                                ELSE f[n - 1] ]
           f0 == CHOOSE f : Defines(f)
<1>1. Len(s) \in Nat /\ DOMAIN s = 1 .. Len(s) /\ \A n \in 1 .. Len(s) : s[n] \in V
  OBVIOUS
<1>2. step \in [1 .. Len(s) -> [Seq(V) -> Seq(V)]]
  BY <1>1
<1>3. \E f : Defines(f)
  <2>1. PICK f \in [0 .. Len(s) -> Seq(V)] :
          f[0] = <<>> /\ \A m \in 1 .. Len(s) : f[m] = step[m][f[m - 1]]
    <3> DEFINE lists == Seq(V)
               n == Len(s)
    <3>1. <<>> \in lists /\ n \in Nat /\ step \in [1 .. n -> [lists -> lists]]
      BY <1>1, <1>2
    <3> HIDE DEF step, lists, n
    <3>2. \E f \in [0 .. n -> lists] : Follows(f, <<>>, n, step)
      BY <3>1, Recursion
    <3> QED
      BY <3>2 DEF lists, n, Follows
  <2>2. ASSUME NEW m \in 1 .. Len(s)
        PROVE  f[m] = IF m \in positions THEN Append(f[m - 1], s[m]) ELSE f[m - 1]
    <3>1. f[m - 1] \in Seq(V)
      BY <1>1, <2>1
    <3> QED
      BY <2>1, <3>1
  <2>3. Defines(f)
    <3>1. ASSUME NEW n \in 0 .. Len(s)
          PROVE  f[n] = IF n = 0 THEN <<>>
                        ELSE IF n \in positions THEN Append(f[n - 1], s[n])
                        ELSE f[n - 1]
      <4>1. CASE n = 0
        BY <2>1, <4>1
      <4>2. CASE n # 0
        <5>1. n \in 1 .. Len(s)
          BY <1>1, <4>2
        <5> QED
          BY <2>2, <4>2, <5>1, Zenon
      <4> QED
        BY <4>1, <4>2
    <3> QED
      BY <2>1, <3>1
  <2> QED
    BY <2>3
<1>4. Defines(f0)
  <2> HIDE DEF Defines
  <2> QED
    BY <1>3, Zenon
<1>5. Filter(s, positions) = f0[Len(s)]
  BY Zenon DEF Filter
<1>6. /\ f0[0] = <<>>
      /\ \A n \in 1 .. Len(s) :
           f0[n] = IF n \in positions THEN Append(f0[n - 1], s[n]) ELSE f0[n - 1]
  <2> HIDE DEF f0
  <2>1. \A n \in 0 .. Len(s) : f0[n] = IF n = 0 THEN <<>>
                                       ELSE IF n \in positions THEN Append(f0[n - 1], s[n])
                                       ELSE f0[n - 1]
    BY <1>4
  <2> QED
    BY <1>1, <2>1
<1> HIDE DEF f0, Picks, step
<1> DEFINE T == {n \in Nat : n <= Len(s) => f0[n] \in Seq(V) /\ Picks(f0[n], n)}
<1>7. 0 \in T
  <2>1. Picks(<<>>, 0)
    <3> DEFINE at == [n \in {} |-> 0]
    <3>1. DOMAIN <<>> = {}
      OBVIOUS
    <3>2. at \in [DOMAIN <<>> -> positions \cap (1 .. 0)]
      BY <3>1
    <3>3. positions \cap (1 .. 0) = {}
      OBVIOUS
    <3> QED
      BY <3>1, <3>2, <3>3 DEF Picks
  <2>2. <<>> \in Seq(V)
    OBVIOUS
  <2> QED
    BY <1>6, <2>1, <2>2
<1>8. ASSUME NEW n \in T PROVE n + 1 \in T
  <2> SUFFICES ASSUME n + 1 <= Len(s)
               PROVE  f0[n + 1] \in Seq(V) /\ Picks(f0[n + 1], n + 1)
    OBVIOUS
  <2> DEFINE r == f0[n]
  <2>1. r \in Seq(V) /\ Picks(r, n) /\ n \in Nat
    BY <1>8
  <2>2. f0[n + 1] = IF n + 1 \in positions THEN Append(r, s[n + 1]) ELSE r
    BY <1>1, <1>6
  <2> HIDE DEF r
  <2>3. PICK at \in [DOMAIN r -> positions \cap (1 .. n)] :
          /\ \A k \in DOMAIN r : r[k] = s[at[k]]
          /\ \A k, l \in DOMAIN r : k < l => at[k] < at[l]
          /\ \A i \in positions \cap (1 .. n) : \E k \in DOMAIN r : at[k] = i
    BY <2>1 DEF Picks
  <2>4. CASE n + 1 \in positions
    <3> DEFINE q == Append(r, s[n + 1])
               to == [k \in DOMAIN q |-> IF k = Len(r) + 1 THEN n + 1 ELSE at[k]]
    <3>1. /\ Len(r) \in Nat
          /\ DOMAIN r = 1 .. Len(r)
          /\ q \in Seq(V)
          /\ DOMAIN q = 1 .. Len(r) + 1
          /\ q[Len(r) + 1] = s[n + 1]
          /\ \A k \in DOMAIN r : q[k] = r[k]
      <4>1. s[n + 1] \in V
        BY <1>1, <2>1
      <4> QED
        BY <2>1, <4>1
    <3> HIDE DEF q
    <3>2. to \in [DOMAIN q -> positions \cap (1 .. n + 1)]
      BY <2>3, <2>4, <3>1
    <3>3. \A k \in DOMAIN q : q[k] = s[to[k]]
      BY <2>3, <3>1
    <3>4. \A k, l \in DOMAIN q : k < l => to[k] < to[l]
      BY <2>3, <3>1
    <3>5. \A i \in positions \cap (1 .. n + 1) : \E k \in DOMAIN q : to[k] = i
      <4> SUFFICES ASSUME NEW i \in positions \cap (1 .. n + 1)
                   PROVE  \E k \in DOMAIN q : to[k] = i
        OBVIOUS
      <4>1. CASE i = n + 1
        BY <3>1, <4>1
      <4>2. CASE i # n + 1
        <5>1. PICK k \in DOMAIN r : at[k] = i
          BY <2>3, <4>2
        <5>2. k \in DOMAIN q /\ to[k] = i
          BY <3>1, <5>1
        <5> QED
          BY <5>2
      <4> QED
        BY <4>1, <4>2
    <3>6. Picks(q, n + 1)
      BY <3>2, <3>3, <3>4, <3>5 DEF Picks
    <3>7. f0[n + 1] = q
      BY <2>2, <2>4 DEF q
    <3> QED
      BY <3>1, <3>6, <3>7
  <2>5. CASE n + 1 \notin positions
    <3>1. positions \cap (1 .. n + 1) = positions \cap (1 .. n)
      BY <2>1, <2>5
    <3>2. Picks(r, n + 1)
      BY <2>1, <3>1 DEF Picks
    <3> QED
      BY <2>1, <2>2, <2>5, <3>2
  <2> QED
    BY <2>4, <2>5
<1>9. T = Nat
  <2>1. T \in SUBSET Nat
    OBVIOUS
  <2> HIDE DEF T
  <2> QED
    BY <1>7, <1>8, <2>1, Induction
<1>10. f0[Len(s)] \in Seq(V) /\ Picks(f0[Len(s)], Len(s))
  BY <1>1, <1>9
<1> QED
  BY <1>1, <1>5, <1>10 DEF Picks
-----------------------------------------------------------------------------
\* A sum is reached by adding one number after the other.
LEMMA SumSteps ==
  ASSUME NEW s \in Seq(Nat)
  PROVE  \E f \in [0 .. Len(s) -> Nat] :
           /\ f[0] = 0
           /\ \A n \in 1 .. Len(s) : f[n] = f[n - 1] + s[n]
           /\ SumOf(s) = f[Len(s)]
<1> DEFINE Defines(f) == f = [n \in 0 .. Len(s) |-> IF n = 0 THEN 0 ELSE f[n - 1] + s[n] ]
           f0 == CHOOSE f : Defines(f)
           step == [n \in 1 .. Len(s) |-> [x \in Nat |-> x + s[n]]]
<1>1. Len(s) \in Nat /\ \A n \in 1 .. Len(s) : s[n] \in Nat
  OBVIOUS
<1>2. PICK f \in [0 .. Len(s) -> Nat] :
        f[0] = 0 /\ \A m \in 1 .. Len(s) : f[m] = step[m][f[m - 1]]
  <2>1. step \in [1 .. Len(s) -> [Nat -> Nat]]
    BY <1>1
  <2> HIDE DEF step
  <2>2. \E f \in [0 .. Len(s) -> Nat] : Follows(f, 0, Len(s), step)
    BY <1>1, <2>1, Recursion
  <2> QED
    BY <2>2 DEF Follows
<1>3. \A m \in 1 .. Len(s) : f[m] = f[m - 1] + s[m]
  <2> SUFFICES ASSUME NEW m \in 1 .. Len(s) PROVE f[m] = f[m - 1] + s[m]
    OBVIOUS
  <2>1. m - 1 \in 0 .. Len(s)
    BY <1>1
  <2>2. f[m - 1] \in Nat
    BY <1>2, <2>1
  <2>3. f[m] = step[m][f[m - 1]] /\ step[m] = [x \in Nat |-> x + s[m]]
    BY <1>2
  <2> QED
    BY <2>2, <2>3
<1>4. Defines(f)
  BY <1>1, <1>2, <1>3
<1>5. Defines(f0)
  <2> HIDE DEF Defines
  <2> QED
    BY <1>4, Zenon
<1>6. SumOf(s) = f0[Len(s)]
  BY Zenon DEF SumOf
<1>7. f0[0] = 0 /\ \A n \in 1 .. Len(s) : f0[n] = f0[n - 1] + s[n]
  <2> HIDE DEF f0
  <2>1. \A n \in 0 .. Len(s) : f0[n] = IF n = 0 THEN 0 ELSE f0[n - 1] + s[n]
    BY <1>5
  <2> QED
    BY <1>1, <2>1
<1> HIDE DEF f0
<1> DEFINE T == {n \in Nat : n <= Len(s) => f0[n] = f[n]}
<1>8. T = Nat
  <2>1. 0 \in T /\ T \in SUBSET Nat
    BY <1>2, <1>7
  <2>2. ASSUME NEW n \in T PROVE n + 1 \in T
    BY <1>1, <1>3, <1>7
  <2> HIDE DEF T
  <2> QED
    BY <2>1, <2>2, Induction
<1>9. f0[Len(s)] = f[Len(s)]
  BY <1>1, <1>8
<1> QED
  BY <1>2, <1>3, <1>6, <1>9

\* A sum grows by what one of its numbers grows by.
LEMMA SumGrows ==
  ASSUME NEW s \in Seq(Nat), NEW i \in DOMAIN s, NEW d \in Nat, NEW t \in Seq(Nat),
         t = [s EXCEPT ![i] = s[i] + d]
  PROVE  SumOf(s) \in Nat /\ SumOf(t) = SumOf(s) + d
<1>1. Len(s) \in Nat /\ Len(t) = Len(s) /\ i \in 1 .. Len(s)
  OBVIOUS
<1>2. \A n \in 1 .. Len(s) : s[n] \in Nat /\ t[n] = IF n = i THEN s[n] + d ELSE s[n]
  OBVIOUS
<1>3. PICK f \in [0 .. Len(s) -> Nat] :
        /\ f[0] = 0
        /\ \A n \in 1 .. Len(s) : f[n] = f[n - 1] + s[n]
        /\ SumOf(s) = f[Len(s)]
  BY SumSteps
<1>4. PICK g \in [0 .. Len(s) -> Nat] :
        /\ g[0] = 0
        /\ \A n \in 1 .. Len(s) : g[n] = g[n - 1] + t[n]
        /\ SumOf(t) = g[Len(s)]
  BY <1>1, SumSteps
<1> DEFINE T == {n \in Nat : n <= Len(s) => g[n] = IF i <= n THEN f[n] + d ELSE f[n]}
<1>5. T = Nat
  <2>1. 0 \in T /\ T \in SUBSET Nat
    BY <1>1, <1>3, <1>4
  <2>2. ASSUME NEW n \in T, n + 1 <= Len(s)
        PROVE  g[n + 1] = IF i <= n + 1 THEN f[n + 1] + d ELSE f[n + 1]
    <3>1. n \in 0 .. Len(s) /\ n + 1 \in 1 .. Len(s) /\ i \in Nat /\ n \in Nat
      BY <1>1, <2>2
    <3>2. g[n] = IF i <= n THEN f[n] + d ELSE f[n]
      BY <2>2, <3>1
    <3>3. f[n] \in Nat /\ g[n] \in Nat
      BY <1>3, <1>4, <3>1
    <3>4. s[n + 1] \in Nat /\ t[n + 1] = IF n + 1 = i THEN s[n + 1] + d ELSE s[n + 1]
      BY <1>2, <3>1
    <3> DEFINE m == n + 1
    <3>5. m \in 1 .. Len(s) /\ m - 1 = n
      BY <1>1, <3>1
    <3>6. f[m] = f[n] + s[m]
      <4> HIDE DEF m
      <4>1. f[m] = f[m - 1] + s[m]
        BY <1>3, <3>5, Zenon
      <4> QED
        BY <3>5, <4>1, Zenon
    <3>7. g[m] = g[n] + t[m]
      <4> HIDE DEF m
      <4>1. g[m] = g[m - 1] + t[m]
        BY <1>1, <1>4, <3>5, Zenon
      <4> QED
        BY <3>5, <4>1, Zenon
    <3>8. CASE i <= n
      <4>1. g[n] = f[n] + d /\ t[n + 1] = s[n + 1]
        BY <3>1, <3>2, <3>4, <3>8
      <4>2. i <= n + 1
        BY <3>1, <3>8
      <4> QED
        BY <3>3, <3>4, <3>6, <3>7, <4>1, <4>2
    <3>9. CASE i = n + 1
      <4>1. g[n] = f[n] /\ t[n + 1] = s[n + 1] + d
        BY <3>1, <3>2, <3>4, <3>9
      <4> QED
        BY <3>1, <3>3, <3>4, <3>6, <3>7, <3>9, <4>1
    <3>10. CASE i > n + 1
      <4>1. g[n] = f[n] /\ t[n + 1] = s[n + 1]
        BY <3>1, <3>2, <3>4, <3>10
      <4> QED
        BY <3>1, <3>6, <3>7, <3>10, <4>1
    <3> QED
      BY <3>1, <3>8, <3>9, <3>10
  <2>3. ASSUME NEW n \in T PROVE n + 1 \in T
    <3>1. n \in Nat /\ n + 1 \in Nat
      OBVIOUS
    <3>2. n + 1 <= Len(s) => g[n + 1] = IF i <= n + 1 THEN f[n + 1] + d ELSE f[n + 1]
      BY <2>2
    <3> QED
      BY <3>1, <3>2
  <2> HIDE DEF T
  <2> QED
    BY <2>1, <2>3, Induction
<1>6. g[Len(s)] = f[Len(s)] + d /\ f[Len(s)] \in Nat
  BY <1>1, <1>3, <1>5
<1> QED
  BY <1>3, <1>4, <1>6

\* A list of nothing sums to nothing.
LEMMA SumOfZeros ==
  ASSUME NEW s \in Seq(Nat), \A n \in DOMAIN s : s[n] = 0
  PROVE  SumOf(s) = 0
<1>1. Len(s) \in Nat /\ \A n \in 1 .. Len(s) : s[n] = 0
  OBVIOUS
<1>2. PICK f \in [0 .. Len(s) -> Nat] :
        /\ f[0] = 0
        /\ \A n \in 1 .. Len(s) : f[n] = f[n - 1] + s[n]
        /\ SumOf(s) = f[Len(s)]
  BY SumSteps
<1> DEFINE T == {n \in Nat : n <= Len(s) => f[n] = 0}
<1>3. T = Nat
  <2>1. 0 \in T /\ T \in SUBSET Nat
    BY <1>2
  <2>2. ASSUME NEW n \in T PROVE n + 1 \in T
    BY <1>1, <1>2
  <2> HIDE DEF T
  <2> QED
    BY <2>1, <2>2, Induction
<1>4. f[Len(s)] = 0
  BY <1>1, <1>3
<1> QED
  BY <1>2, <1>4
=============================================================================
