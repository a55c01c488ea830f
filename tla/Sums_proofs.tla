---------------------------- MODULE Sums_proofs ----------------------------
(***************************************************************************)
(* Facts about SumTo, by induction over the number of rows.  The induction  *)
(* principle is stated for sets of naturals, which the provers can use.     *)
(***************************************************************************)
EXTENDS Sums, WellFoundedInduction, TLAPS

\* A set of naturals that holds 0 and is closed under successor holds them all.
LEMMA SetInduction ==
    ASSUME NEW S, 0 \in S, \A n \in Nat : n \in S => n + 1 \in S
    PROVE  Nat \subseteq S
<1> DEFINE T == Nat \ S
           R == {xy \in Nat \X Nat : xy[1] < xy[2]}
<1>1. SUFFICES ASSUME T # {} PROVE FALSE
    OBVIOUS
<1>2. IsWellFoundedOn(R, Nat)
    BY NatLessThanWellFounded DEF OpToRel
<1>3. \E x \in T : \A y \in T : ~ (<<y, x>> \in R)
  <2>1. T \subseteq Nat
    OBVIOUS
  <2> HIDE DEF R, T
  <2> QED
    BY <1>1, <1>2, <2>1, WFMin, Zenon
<1>4. PICK x \in T : \A y \in T : ~ (<<y, x>> \in R)
    BY <1>3
<1>5. x # 0 /\ x \in Nat
    OBVIOUS
<1>6. x - 1 \in Nat /\ x - 1 < x /\ x - 1 + 1 = x
    BY <1>5
<1>7. x - 1 \in S
    BY <1>4, <1>6
<1>8. QED
    BY <1>5, <1>6, <1>7

-----------------------------------------------------------------------------
\* g is the running total of f over the first n rows.
IsTotal(g, f, n) ==
    /\ g \in [0..n -> Int]
    /\ g[0] = 0
    /\ \A k \in 1..n : g[k] = g[k-1] + f[k]

\* A set of naturals that holds something has a least element ...
LEMMA LeastOne ==
    ASSUME NEW T, T \subseteq Nat, T # {}
    PROVE  \E x \in T : \A y \in T : x <= y
<1> DEFINE R == {xy \in Nat \X Nat : xy[1] < xy[2]}
<1>1. IsWellFoundedOn(R, Nat)
    BY NatLessThanWellFounded DEF OpToRel
<1>2. \E x \in T : \A y \in T : ~ (<<y, x>> \in R)
  <2> HIDE DEF R
  <2> QED
    BY <1>1, WFMin, Zenon
<1>3. PICK x \in T : \A y \in T : ~ (<<y, x>> \in R)
    BY <1>2
<1>4. ASSUME NEW y \in T PROVE x <= y
  <2>1. x \in Nat /\ y \in Nat /\ ~ (<<y, x>> \in R)
    BY <1>3
  <2> QED BY <2>1
<1> QED BY <1>4

\* ... and a greatest one, if it has a bound.
LEMMA GreatestOne ==
    ASSUME NEW N \in Nat, NEW T, T \subseteq 0..N, T # {}
    PROVE  \E x \in T : \A y \in T : y <= x
<1> DEFINE D == {d \in 0..N : N - d \in T}
<1>1. D \subseteq Nat
    OBVIOUS
<1>2. D # {}
  <2>1. PICK x \in T : TRUE
    OBVIOUS
  <2>2. x \in 0..N /\ N - x \in 0..N /\ N - (N - x) = x
    BY <2>1
  <2> QED BY <2>1, <2>2
<1>3. PICK d \in D : \A e \in D : d <= e
    BY <1>1, <1>2, LeastOne
<1>4. N - d \in T /\ d \in 0..N
    OBVIOUS
<1>5. ASSUME NEW y \in T PROVE y <= N - d
  <2>1. y \in 0..N /\ N - y \in 0..N /\ N - (N - y) = y
    OBVIOUS
  <2>2. N - y \in D
    BY <2>1
  <2>3. d <= N - y
    BY <1>3, <2>2
  <2> QED BY <1>4, <2>1, <2>3
<1> QED BY <1>4, <1>5

\* Every prefix of the rows has a running total.
LEMMA TotalExists ==
    ASSUME NEW N \in Nat, NEW f \in [1..N -> Int]
    PROVE  \A n \in 0..N : \E g : IsTotal(g, f, n)
<1> DEFINE S == {n \in Nat : n \in 0..N => \E g : IsTotal(g, f, n)}
<1>1. 0 \in S
  <2>1. IsTotal([k \in 0..0 |-> 0], f, 0)
    BY DEF IsTotal
  <2> QED
    BY <2>1
<1>2. ASSUME NEW n \in Nat, n \in S PROVE n + 1 \in S
  <2>1. SUFFICES ASSUME n + 1 \in 0..N PROVE \E g : IsTotal(g, f, n+1)
    OBVIOUS
  <2>2. PICK g : IsTotal(g, f, n)
    BY <1>2, <2>1
  <2> DEFINE h == [k \in 0..(n+1) |-> IF k = n+1 THEN g[n] + f[n+1] ELSE g[k]]
  <2>3. h \in [0..(n+1) -> Int]
    BY <2>1, <2>2 DEF IsTotal
  <2>4. h[0] = 0
    BY <2>2 DEF IsTotal
  <2>5. ASSUME NEW k \in 1..(n+1) PROVE h[k] = h[k-1] + f[k]
    <3>1. CASE k = n+1
      BY <3>1
    <3>2. CASE k # n+1
      BY <2>2, <3>2 DEF IsTotal
    <3> QED
      BY <3>1, <3>2
  <2>6. IsTotal(h, f, n+1)
    <3> HIDE DEF h
    <3> QED
      BY <2>3, <2>4, <2>5 DEF IsTotal
  <2> QED
    BY <2>6
<1>3. Nat \subseteq S
  <2> HIDE DEF S
  <2> QED
    BY <1>1, <1>2, SetInduction
<1> QED
  BY <1>3

\* Two running totals agree wherever both are defined.
LEMMA TotalUnique ==
    ASSUME NEW N \in Nat, NEW f \in [1..N -> Int],
           NEW m \in 0..N, NEW n \in 0..N, m <= n,
           NEW g, NEW h, IsTotal(g, f, m), IsTotal(h, f, n)
    PROVE  \A k \in 0..m : g[k] = h[k]
<1> DEFINE S == {k \in Nat : k \in 0..m => g[k] = h[k]}
<1>1. 0 \in S
  BY DEF IsTotal
<1>2. ASSUME NEW k \in Nat, k \in S PROVE k + 1 \in S
  <2>1. SUFFICES ASSUME k + 1 \in 0..m PROVE g[k+1] = h[k+1]
    OBVIOUS
  <2>2. g[k] = h[k] /\ k + 1 \in 1..m /\ k + 1 \in 1..n /\ k + 1 - 1 = k
    BY <1>2, <2>1
  <2> QED
    BY <2>2 DEF IsTotal
<1>3. Nat \subseteq S
  <2> HIDE DEF S
  <2> QED
    BY <1>1, <1>2, SetInduction
<1> QED
  BY <1>3

\* SumTo is the last value of the running total.
LEMMA SumToTotal ==
    ASSUME NEW N \in Nat, NEW f \in [1..N -> Int], NEW n \in 0..N,
           NEW g, IsTotal(g, f, n)
    PROVE  SumTo(f, n) = g[n]
<1> DEFINE Recursion(t) ==
             t = [k \in 0..n |-> IF k = 0 THEN 0 ELSE t[k-1] + f[k]]
           total == CHOOSE t : Recursion(t)
<1>1. Recursion(g)
  <2>1. \A k \in 0..n : g[k] = IF k = 0 THEN 0 ELSE g[k-1] + f[k]
    BY DEF IsTotal
  <2>2. g = [k \in 0..n |-> g[k]]
    BY DEF IsTotal
  <2> QED
    BY <2>1, <2>2
<1>2. Recursion(total)
  BY <1>1
<1>3. \A k \in 0..n : total[k] = IF k = 0 THEN 0 ELSE total[k-1] + f[k]
  <2> HIDE DEF total
  <2> QED
    BY <1>2
<1>4. DOMAIN total = 0..n
  <2> HIDE DEF total
  <2> QED
    BY <1>2
<1> DEFINE S == {k \in Nat : k \in 0..n => total[k] = g[k]}
<1>5. 0 \in S
  BY <1>3 DEF IsTotal
<1>6. ASSUME NEW k \in Nat, k \in S PROVE k + 1 \in S
  <2>1. SUFFICES ASSUME k + 1 \in 0..n PROVE total[k+1] = g[k+1]
    OBVIOUS
  <2>2. total[k] = g[k] /\ k + 1 # 0 /\ k + 1 - 1 = k /\ k + 1 \in 1..n
    BY <1>6, <2>1
  <2>3. total[k+1] = total[k] + f[k+1]
    <3> HIDE DEF total
    <3> QED
      BY <1>3, <2>1, <2>2
  <2> HIDE DEF total
  <2> QED
    BY <2>2, <2>3 DEF IsTotal
<1>7. Nat \subseteq S
  <2> HIDE DEF S
  <2> QED
    BY <1>5, <1>6, SetInduction
<1>8. total[n] = g[n]
  BY <1>7
<1> QED
  BY <1>8 DEF SumTo

-----------------------------------------------------------------------------
\* SumTo satisfies the equations of its definition.
THEOREM SumToStep ==
    ASSUME NEW N \in Nat, NEW f \in [1..N -> Int]
    PROVE  /\ SumTo(f, 0) = 0
           /\ \A n \in 0..(N-1) : SumTo(f, n+1) = SumTo(f, n) + f[n+1]
           /\ \A n \in 0..N : SumTo(f, n) \in Int
<1>1. ASSUME NEW n \in 0..N PROVE SumTo(f, n) \in Int
  <2>1. PICK g : IsTotal(g, f, n)
    BY TotalExists
  <2>2. SumTo(f, n) = g[n]
    BY <2>1, SumToTotal
  <2> QED
    BY <2>1, <2>2 DEF IsTotal
<1>2. SumTo(f, 0) = 0
  <2>1. PICK g : IsTotal(g, f, 0)
    BY TotalExists
  <2>2. SumTo(f, 0) = g[0]
    BY <2>1, SumToTotal
  <2> QED
    BY <2>1, <2>2 DEF IsTotal
<1>3. ASSUME NEW n \in 0..(N-1) PROVE SumTo(f, n+1) = SumTo(f, n) + f[n+1]
  <2>1. n \in 0..N /\ n + 1 \in 0..N /\ n <= n + 1 /\ n \in 0..n
    OBVIOUS
  <2>2. PICK g : IsTotal(g, f, n+1)
    BY <2>1, TotalExists
  <2>3. PICK h : IsTotal(h, f, n)
    BY <2>1, TotalExists
  <2>4. SumTo(f, n+1) = g[n+1]
    BY <2>1, <2>2, SumToTotal
  <2>5. SumTo(f, n) = h[n]
    BY <2>1, <2>3, SumToTotal
  <2>6. h[n] = g[n]
    BY <2>1, <2>2, <2>3, TotalUnique
  <2>7. n + 1 \in 1..(n+1) /\ n + 1 - 1 = n
    OBVIOUS
  <2>8. g[n+1] = g[n] + f[n+1]
    BY <2>2, <2>7 DEF IsTotal
  <2> QED
    BY <2>4, <2>5, <2>6, <2>8
<1> QED
  BY <1>1, <1>2, <1>3

\* Changing one row changes the total by the row's change, and no total of
\* rows before it.
THEOREM SumToUpdate ==
    ASSUME NEW N \in Nat, NEW f \in [1..N -> Int],
           NEW i \in 1..N, NEW v \in Int
    PROVE  \A n \in 0..N : SumTo([f EXCEPT ![i] = v], n)
                = IF n < i THEN SumTo(f, n) ELSE SumTo(f, n) - f[i] + v
<1> DEFINE g == [f EXCEPT ![i] = v]
           Goal(n) == SumTo(g, n)
                        = IF n < i THEN SumTo(f, n) ELSE SumTo(f, n) - f[i] + v
           S == {n \in Nat : n \in 0..N => Goal(n)}
<1>1. g \in [1..N -> Int] /\ g[i] = v /\ \A k \in 1..N \ {i} : g[k] = f[k]
  OBVIOUS
<1> HIDE DEF g
<1>2. 0 \in S
  BY <1>1, SumToStep
<1>3. ASSUME NEW n \in Nat, n \in S PROVE n + 1 \in S
  <2>1. SUFFICES ASSUME n + 1 \in 0..N PROVE Goal(n+1)
    OBVIOUS
  <2>2. Goal(n) /\ n + 1 \in 1..N /\ n \in 0..(N-1) /\ n \in 0..N
    BY <1>3, <2>1
  <2>3. SumTo(f, n+1) = SumTo(f, n) + f[n+1] /\ SumTo(f, n) \in Int
    BY <2>2, SumToStep
  <2>4. SumTo(g, n+1) = SumTo(g, n) + g[n+1] /\ SumTo(g, n) \in Int
    BY <1>1, <2>2, SumToStep
  <2>5. f[n+1] \in Int /\ f[i] \in Int
    BY <2>2
  <2>6. SumTo(g, n) = IF n < i THEN SumTo(f, n) ELSE SumTo(f, n) - f[i] + v
    BY <2>2
  <2>7. CASE n + 1 = i
    <3>1. g[n+1] = v /\ f[n+1] = f[i] /\ n < i /\ ~(n + 1 < i)
      BY <1>1, <2>2, <2>7
    <3> QED
      BY <2>2, <2>3, <2>4, <2>5, <2>6, <3>1
  <2>8. CASE n + 1 # i
    <3>1. g[n+1] = f[n+1]
      BY <1>1, <2>2, <2>8
    <3> QED
      BY <2>2, <2>3, <2>4, <2>5, <2>6, <2>8, <3>1
  <2> QED
    BY <2>7, <2>8
<1>4. Nat \subseteq S
  <2> HIDE DEF S
  <2> QED
    BY <1>2, <1>3, SetInduction
<1>5. \A n \in 0..N : Goal(n)
  BY <1>4
<1> QED
  BY <1>5 DEF g

\* A total of natural numbers is one, and bounds each of its rows.
THEOREM SumToNat ==
    ASSUME NEW N \in Nat, NEW f \in [1..N -> Nat]
    PROVE  /\ \A n \in 0..N : SumTo(f, n) \in Nat
           /\ \A n \in 0..N : \A i \in 1..n : f[i] <= SumTo(f, n)
<1> DEFINE S == {n \in Nat : n \in 0..N =>
                     /\ SumTo(f, n) \in Nat
                     /\ \A i \in 1..n : f[i] <= SumTo(f, n)}
<1>1. f \in [1..N -> Int]
  OBVIOUS
<1>2. 0 \in S
  BY <1>1, SumToStep
<1>3. ASSUME NEW n \in Nat, n \in S PROVE n + 1 \in S
  <2>1. SUFFICES ASSUME n + 1 \in 0..N
                 PROVE  /\ SumTo(f, n+1) \in Nat
                        /\ \A i \in 1..(n+1) : f[i] <= SumTo(f, n+1)
    OBVIOUS
  <2>2. n + 1 \in 1..N /\ n \in 0..(N-1) /\ n \in 0..N
    BY <2>1
  <2>3. SumTo(f, n) \in Nat /\ \A i \in 1..n : f[i] <= SumTo(f, n)
    BY <1>3, <2>2
  <2>4. SumTo(f, n+1) = SumTo(f, n) + f[n+1]
    BY <1>1, <2>2, SumToStep
  <2> QED
    BY <2>2, <2>3, <2>4
<1>4. Nat \subseteq S
  <2> HIDE DEF S
  <2> QED
    BY <1>2, <1>3, SetInduction
<1> QED
  BY <1>4

\* A total of rows that are all zero is zero.
THEOREM SumToZero ==
    ASSUME NEW N \in Nat, NEW f \in [1..N -> Int], \A i \in 1..N : f[i] = 0
    PROVE  \A n \in 0..N : SumTo(f, n) = 0
<1> DEFINE S == {n \in Nat : n \in 0..N => SumTo(f, n) = 0}
<1>1. 0 \in S
  BY SumToStep
<1>2. ASSUME NEW n \in Nat, n \in S PROVE n + 1 \in S
  <2>1. SUFFICES ASSUME n + 1 \in 0..N PROVE SumTo(f, n+1) = 0
    OBVIOUS
  <2>2. n + 1 \in 1..N /\ n \in 0..(N-1) /\ n \in 0..N
    BY <2>1
  <2>3. SumTo(f, n+1) = SumTo(f, n) + f[n+1]
    BY <2>2, SumToStep
  <2> QED
    BY <1>2, <2>2, <2>3
<1>3. Nat \subseteq S
  <2> HIDE DEF S
  <2> QED
    BY <1>1, <1>2, SetInduction
<1> QED
  BY <1>3

\* h is f with g added and d taken off, row by row.
Combined(N, f, g, d, h) ==
    /\ f \in [1..N -> Int] /\ g \in [1..N -> Int]
    /\ d \in [1..N -> Int] /\ h \in [1..N -> Int]
    /\ \A i \in 1..N : h[i] = f[i] + g[i] - d[i]

\* Totals add and subtract row by row.
THEOREM SumToCombine ==
    ASSUME NEW N \in Nat, NEW f, NEW g, NEW d, NEW h, Combined(N, f, g, d, h)
    PROVE  \A n \in 0..N : SumTo(h, n) = SumTo(f, n) + SumTo(g, n) - SumTo(d, n)
<1> DEFINE Goal(n) == SumTo(h, n) = SumTo(f, n) + SumTo(g, n) - SumTo(d, n)
           S == {n \in Nat : n \in 0..N => Goal(n)}
<1> USE DEF Combined
<1>1. 0 \in S
  <2>1. SumTo(f, 0) = 0 /\ SumTo(g, 0) = 0 /\ SumTo(d, 0) = 0 /\ SumTo(h, 0) = 0
    BY SumToStep
  <2> QED
    BY <2>1
<1>2. ASSUME NEW n \in Nat, n \in S PROVE n + 1 \in S
  <2>1. SUFFICES ASSUME n + 1 \in 0..N PROVE Goal(n+1)
    OBVIOUS
  <2>2. Goal(n) /\ n + 1 \in 1..N /\ n \in 0..(N-1) /\ n \in 0..N
    BY <1>2, <2>1
  <2>3. /\ SumTo(f, n+1) = SumTo(f, n) + f[n+1] /\ SumTo(f, n) \in Int
        /\ SumTo(g, n+1) = SumTo(g, n) + g[n+1] /\ SumTo(g, n) \in Int
    BY <2>2, SumToStep
  <2>4. /\ SumTo(d, n+1) = SumTo(d, n) + d[n+1] /\ SumTo(d, n) \in Int
        /\ SumTo(h, n+1) = SumTo(h, n) + h[n+1] /\ SumTo(h, n) \in Int
    BY <2>2, SumToStep
  <2>5. /\ f[n+1] \in Int /\ g[n+1] \in Int /\ d[n+1] \in Int
        /\ h[n+1] = f[n+1] + g[n+1] - d[n+1]
    BY <2>2
  <2> QED
    BY <2>2, <2>3, <2>4, <2>5
<1>3. Nat \subseteq S
  <2> HIDE DEF S
  <2> QED
    BY <1>1, <1>2, SetInduction
<1> QED
  BY <1>3

\* A total in which one row counts is that row.
THEOREM SumToSingle ==
    ASSUME NEW N \in Nat, NEW f \in [1..N -> Int], NEW i \in 1..N,
           \A k \in 1..N \ {i} : f[k] = 0
    PROVE  SumTo(f, N) = f[i]
<1> DEFINE Goal(n) == SumTo(f, n) = IF n < i THEN 0 ELSE f[i]
           S == {n \in Nat : n \in 0..N => Goal(n)}
<1>1. 0 \in S
  BY SumToStep
<1>2. ASSUME NEW n \in Nat, n \in S PROVE n + 1 \in S
  <2>1. SUFFICES ASSUME n + 1 \in 0..N PROVE Goal(n+1)
    OBVIOUS
  <2>2. Goal(n) /\ n + 1 \in 1..N /\ n \in 0..(N-1) /\ f[i] \in Int
    BY <1>2, <2>1
  <2>3. SumTo(f, n+1) = SumTo(f, n) + f[n+1]
    BY <2>2, SumToStep
  <2>4. n + 1 # i => f[n+1] = 0
    BY <2>2
  <2> QED
    BY <2>2, <2>3, <2>4
<1>3. Nat \subseteq S
  <2> HIDE DEF S
  <2> QED
    BY <1>1, <1>2, SetInduction
<1>4. N \in S
  BY <1>3
<1> QED
  BY <1>4
=============================================================================
