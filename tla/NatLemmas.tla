----------------------------- MODULE NatLemmas -----------------------------
(***************************************************************************)
(* Induction over the natural numbers in first-order form: a set of        *)
(* numbers that is not empty has a least member.  What holds of 0 and of   *)
(* n + 1 whenever it holds of n is proved by taking the least number for   *)
(* which it fails.  In the same way what holds of a finite set whenever it *)
(* holds of the set without any one member is proved by taking a smallest  *)
(* set for which it fails; the sums over a finite set are added up so.     *)
(***************************************************************************)
EXTENDS Integers, FiniteSetTheorems, WellFoundedInduction, TLAPS

\* The least-number principle.
LEMMA LeastNat ==
  ASSUME NEW T, T \subseteq Nat, T # {}
  PROVE  \E m \in T : \A k \in T : m <= k
<1>1. IsWellFoundedOn(OpToRel(<, Nat), Nat)
  BY NatLessThanWellFounded, Zenon
<1>2. \A x, y \in Nat : x < y => <<x, y>> \in OpToRel(<, Nat)
  BY DEF OpToRel
<1>3. PICK m \in T : \A y \in T : ~(<<y, m>> \in OpToRel(<, Nat))
  BY <1>1, WFMin, Zenon
<1>4. \A k \in T : ~(k < m)
  BY <1>2, <1>3, Zenon
<1> QED BY <1>4

\* A function that never decreases from one number to the next is monotone.
LEMMA Monotone ==
  ASSUME NEW lo \in Nat, NEW hi \in Nat, NEW e,
         \A n \in lo .. hi : e[n] \in Nat,
         \A n \in lo + 1 .. hi : e[n - 1] <= e[n],
         NEW m \in lo .. hi, NEW n \in m .. hi
  PROVE  e[m] <= e[n]
<1> DEFINE T == {k \in m .. hi : ~(e[m] <= e[k])}
<1>1. T = {}
  <2> SUFFICES ASSUME T # {} PROVE FALSE
    OBVIOUS
  <2>1. PICK k \in T : \A j \in T : k <= j
    BY LeastNat, T \subseteq Nat
  <2>2. k - 1 \in m .. hi /\ k \in lo + 1 .. hi
    BY <2>1
  <2>3. k - 1 \notin T
    BY <2>1
  <2>4. e[m] <= e[k - 1] /\ e[k - 1] <= e[k]
    BY <2>2, <2>3
  <2>5. e[m] \in Nat /\ e[k - 1] \in Nat /\ e[k] \in Nat
    BY <2>2
  <2> QED BY <2>4, <2>5
<1> QED BY <1>1

\* A number between the values of f at the ends of an interval lies between the
\* values at two neighbours.
LEMMA Covered ==
  ASSUME NEW lo \in Nat, NEW hi \in Nat, NEW e,
         \A n \in lo .. hi : e[n] \in Nat,
         NEW i \in Nat, lo <= hi, e[lo] <= i, i < e[hi]
  PROVE  \E k \in lo + 1 .. hi : e[k - 1] <= i /\ i < e[k]
<1> DEFINE T == {k \in lo .. hi : i < e[k]}
<1>1. PICK k \in T : \A j \in T : k <= j
  <2>1. hi \in T OBVIOUS
  <2> QED BY <2>1, LeastNat, T \subseteq Nat
<1>2. k # lo
  OBVIOUS
<1>3. k \in lo + 1 .. hi /\ k - 1 \in lo .. hi
  BY <1>2
<1>4. k - 1 \notin T
  BY <1>1, <1>3
<1> QED BY <1>3, <1>4

\* Integer division.
LEMMA Quotient ==
  ASSUME NEW n \in Nat, NEW t \in Nat \ {0}
  PROVE  n \div t \in Nat /\ (n \div t) * t <= n /\ n < (n \div t) * t + t
OBVIOUS

\* A factor is no larger if the product is smaller than the next one.
LEMMA LessThan ==
  ASSUME NEW q \in Nat, NEW f \in Nat, NEW t \in Nat \ {0}, q * t < (f + 1) * t
  PROVE  q <= f
<1> SUFFICES ASSUME q >= f + 1 PROVE FALSE
  OBVIOUS
<1>1. PICK k \in Nat : q = f + 1 + k
  <2>1. q - (f + 1) \in Nat /\ q = f + 1 + (q - (f + 1))
    OBVIOUS
  <2> QED BY <2>1
<1>2. q * t = (f + 1) * t + k * t
  BY <1>1
<1>3. k * t \in Nat /\ (f + 1) * t \in Nat
  OBVIOUS
<1> QED BY <1>2, <1>3

\* The part d of t of a number is no more than the number.
LEMMA Share ==
  ASSUME NEW f \in Nat, NEW d \in Nat, NEW t \in Nat \ {0}, d <= t
  PROVE  (f * d) \div t \in Nat /\ (f * d) \div t <= f
<1> DEFINE n == f * d
           q == n \div t
<1>1. n \in Nat
  OBVIOUS
<1>2. n <= f * t
  <2>1. PICK k \in Nat : t = d + k
    <3>1. t - d \in Nat /\ t = d + (t - d)
      OBVIOUS
    <3> QED BY <3>1
  <2>2. f * t = f * d + f * k
    BY <2>1
  <2>3. f * k \in Nat
    OBVIOUS
  <2> QED BY <1>1, <2>2, <2>3
<1>3. q \in Nat /\ q * t <= n
  <2> HIDE DEF n
  <2> QED BY <1>1, Quotient
<1> HIDE DEF n, q
<1>4. (f + 1) * t = f * t + t /\ f * t \in Nat /\ q * t \in Nat
  BY <1>3
<1>5. q * t < (f + 1) * t
  BY <1>1, <1>2, <1>3, <1>4
<1>6. q <= f
  BY <1>3, <1>5, LessThan
<1> QED BY <1>3, <1>6 DEF n, q

\* One more than the whole gives a little more.
LEMMA ShareOver ==
  ASSUME NEW f \in Nat, NEW d \in Nat, NEW t \in Nat \ {0}, d <= t + 1
  PROVE  (f * d) \div t \in Nat /\ (f * d) \div t <= f + f \div t
<1> DEFINE n == f * d
           q == n \div t
           e == f \div t
<1>1. n \in Nat
  OBVIOUS
<1>2. n <= f * t + f
  <2>1. PICK k \in Nat : t + 1 = d + k
    <3>1. (t + 1) - d \in Nat /\ t + 1 = d + ((t + 1) - d)
      OBVIOUS
    <3> QED BY <3>1
  <2>2. f * (t + 1) = f * d + f * k
    BY <2>1
  <2>3. f * k \in Nat /\ f * (t + 1) = f * t + f
    OBVIOUS
  <2> QED BY <1>1, <2>2, <2>3
<1>3. q \in Nat /\ q * t <= n
  <2> HIDE DEF n
  <2> QED BY <1>1, Quotient
<1>4. e \in Nat /\ f < e * t + t
  BY Quotient
<1> HIDE DEF n, q, e
<1>5. (f + e + 1) * t = f * t + e * t + t /\ f * t \in Nat /\ q * t \in Nat /\ e * t \in Nat
  BY <1>3, <1>4
<1>6. q * t < (f + e + 1) * t
  BY <1>1, <1>2, <1>3, <1>4, <1>5
<1>7. q <= f + e
  BY <1>3, <1>4, <1>6, LessThan, f + e \in Nat
<1> QED BY <1>3, <1>7 DEF n, q, e

\* The eighth of a number.
LEMMA Eighth ==
  ASSUME NEW x \in Nat, NEW y \in Nat, x <= y
  PROVE  x \div 8 \in Nat /\ x \div 8 <= y \div 8 /\ y \div 8 \in Nat /\ (y > 0 => y \div 8 < y)
OBVIOUS

\* A tree whose nodes are numbered after their parents.
IsTree(D, root, up) ==
  D \subseteq Nat /\ root \in D /\ \A c \in D \ {root} : up[c] \in D /\ up[c] < c

\* f is given at the root, and elsewhere from its value at the parent.
Computes(f, D, root, up, v0, step) ==
  f = [c \in D |-> IF c = root THEN v0 ELSE step[<<c, f[up[c]]>>]]

\* Recursion over such a tree defines a function.
LEMMA TreeRecursion ==
  ASSUME NEW D, NEW root, NEW up, IsTree(D, root, up),
         NEW V, NEW v0 \in V, NEW step, \A c \in D, v \in V : step[<<c, v>>] \in V
  PROVE  \E f \in [D -> V] : Computes(f, D, root, up, v0, step)
<1> DEFINE Below(k) == {c \in D : c < k}
           Val(f, c) == IF c = root THEN v0 ELSE step[<<c, f[up[c]]>>]
           Upto(f, k) == /\ \A c \in Below(k) : f[c] \in V /\ f[c] = Val(f, c)
           T == {k \in Nat : ~ \E f : Upto(f, k)}
<1>0. /\ \A c \in D : c \in Nat
      /\ \A c \in D : c # root => up[c] \in D /\ up[c] \in Nat /\ up[c] < c
      /\ root \in D
  BY DEF IsTree
<1>1. \E f : Upto(f, 0)
  <2>1. Below(0) = {}
    <3>1. \A c \in Nat : ~(c < 0)
      OBVIOUS
    <3> HIDE DEF Val
    <3> QED BY <1>0, <3>1
  <2> HIDE DEF Below, Val
  <2> QED BY <2>1
<1>2. ASSUME NEW k \in Nat, NEW f, Upto(f, k) PROVE \E g : Upto(g, k + 1)
  <2> DEFINE g == [c \in Below(k + 1) |-> IF c < k THEN f[c] ELSE Val(f, c)]
  <2>1. \A c \in Below(k) : c \in Below(k + 1) /\ g[c] = f[c]
    <3> HIDE DEF Val
    <3> QED BY <1>0
  <2>2. k \in D => k \in Below(k + 1) /\ g[k] = Val(f, k)
    <3> HIDE DEF Val
    <3> QED OBVIOUS
  <2>3. \A c \in Below(k + 1) : c # k => c \in Below(k)
    BY <1>0
  <2>4. \A c \in Below(k + 1) \ {root} : up[c] \in Below(k)
    <3> SUFFICES ASSUME NEW c \in Below(k + 1), c # root PROVE up[c] \in Below(k)
      OBVIOUS
    <3>1. up[c] \in D /\ up[c] \in Nat /\ c \in Nat /\ up[c] < c /\ c < k + 1
      BY <1>0
    <3>2. up[c] < k
      BY <3>1
    <3> QED BY <3>1, <3>2
  <2> HIDE DEF g
  <2>5. ASSUME NEW c \in Below(k + 1) PROVE g[c] \in V /\ g[c] = Val(g, c)
    <3>1. Val(g, c) = Val(f, c)
      <4>1. CASE c = root
        BY <4>1
      <4>2. CASE c # root
        <5>1. g[up[c]] = f[up[c]]
          BY <2>1, <2>4, <4>2
        <5> QED BY <4>2, <5>1
      <4> QED BY <4>1, <4>2
    <3>2. Val(f, c) \in V
      <4>1. CASE c = root
        BY <4>1
      <4>2. CASE c # root
        <5>1. f[up[c]] \in V /\ c \in D
          BY <1>2, <2>4, <4>2
        <5> QED BY <4>2, <5>1
      <4> QED BY <4>1, <4>2
    <3>3. g[c] = Val(f, c)
      <4> HIDE DEF Val
      <4> QED BY <1>2, <2>1, <2>2, <2>3
    <3> QED BY <3>1, <3>2, <3>3
  <2>6. Upto(g, k + 1)
    <3> HIDE DEF Val, Below
    <3> QED BY <2>5
  <2> HIDE DEF Upto
  <2> QED BY <2>6
<1>3. T = {}
  <2> HIDE DEF Upto
  <2> SUFFICES ASSUME T # {} PROVE FALSE
    OBVIOUS
  <2>1. PICK m \in T : \A k \in T : m <= k
    BY LeastNat, T \subseteq Nat
  <2>2. m # 0
    BY <1>1
  <2>3. m - 1 \in Nat /\ m - 1 \notin T
    BY <2>1, <2>2
  <2>4. \E f : Upto(f, (m - 1) + 1)
    BY <1>2, <2>3
  <2> QED BY <2>4, (m - 1) + 1 = m
<1>4. ASSUME NEW k \in Nat, NEW f, NEW g, Upto(f, k), Upto(g, k)
      PROVE  \A c \in Below(k) : f[c] = g[c]
  <2> DEFINE U == {c \in Below(k) : f[c] # g[c]}
  <2> SUFFICES ASSUME U # {} PROVE FALSE
    OBVIOUS
  <2>1. PICK m \in U : \A c \in U : m <= c
    BY <1>0, LeastNat, U \subseteq Nat
  <2>2. m # root
    BY <1>4, <2>1
  <2>3. up[m] \in Below(k) /\ ~(m <= up[m])
    <3>1. m \in D /\ m \in Nat /\ m < k
      BY <1>0, <2>1
    <3>2. up[m] \in D /\ up[m] \in Nat /\ up[m] < m
      BY <1>0, <2>2, <3>1
    <3>3. up[m] < k /\ ~(m <= up[m])
      BY <3>1, <3>2
    <3> QED BY <3>2, <3>3
  <2>4. f[up[m]] = g[up[m]]
    <3>1. up[m] \notin U
      BY <2>1, <2>3
    <3> HIDE DEF Below
    <3> QED BY <2>3, <3>1
  <2> QED BY <1>4, <2>1, <2>2, <2>4
<1>5. \A k \in Nat : \E f : Upto(f, k)
  <2> HIDE DEF Upto
  <2> QED BY <1>3
<1> DEFINE F(k) == CHOOSE f : Upto(f, k)
           h == [c \in D |-> F(c + 1)[c]]
<1>6. \A k \in Nat : Upto(F(k), k)
  <2> HIDE DEF Upto
  <2> QED BY <1>5
<1>7. ASSUME NEW k \in Nat, NEW c \in Below(k) PROVE h[c] = F(k)[c]
  <2>1. Upto(F(k), c + 1) /\ Upto(F(c + 1), c + 1) /\ c + 1 \in Nat /\ c \in Below(c + 1)
    <3>1. Upto(F(k), k) /\ Upto(F(c + 1), c + 1)
      <4> HIDE DEF Upto, F
      <4> QED BY <1>0, <1>6
    <3> HIDE DEF F, Val
    <3> QED BY <1>0, <3>1
  <2> HIDE DEF Upto, F, Below
  <2>2. h[c] = F(c + 1)[c]
    BY DEF Below
  <2> QED BY <1>4, <2>1, <2>2
<1> HIDE DEF h, F
<1>8. ASSUME NEW c \in D PROVE h[c] \in V /\ h[c] = Val(h, c)
  <2>1. Upto(F(c + 1), c + 1) /\ c + 1 \in Nat /\ c \in Below(c + 1)
    BY <1>0, <1>6
  <2>2. h[c] = F(c + 1)[c]
    BY <1>7, <2>1
  <2>3. CASE c = root
    BY <2>1, <2>2, <2>3
  <2>4. CASE c # root
    <3>1. up[c] \in Below(c + 1)
      <4>1. up[c] \in D /\ up[c] \in Nat /\ c \in Nat /\ up[c] < c
        BY <1>0, <2>4
      <4>2. up[c] < c + 1
        BY <4>1
      <4> QED BY <4>1, <4>2
    <3>2. h[up[c]] = F(c + 1)[up[c]]
      <4> HIDE DEF Below
      <4> QED BY <1>7, <2>1, <3>1
    <3> QED BY <2>1, <2>2, <2>4, <3>2
  <2> QED BY <2>3, <2>4
<1>9. h = [c \in D |-> h[c]]
  BY DEF h
<1>10. h \in [D -> V]
  <2> HIDE DEF Val
  <2> QED BY <1>8, <1>9
<1>11. h = [c \in D |-> Val(h, c)]
  <2> HIDE DEF Val
  <2> QED BY <1>8, <1>9
<1> QED BY <1>10, <1>11 DEF Computes

\* f is given at 0, and elsewhere from its value at the number before.
Recursion(f, K, v0, step) ==
  f = [k \in 0 .. K |-> IF k = 0 THEN v0 ELSE step[<<k, f[k - 1]>>]]

\* Recursion over the numbers up to a bound.
LEMMA CountRecursion ==
  ASSUME NEW K \in Nat, NEW V, NEW v0 \in V, NEW step,
         \A k \in 1 .. K, v \in V : step[<<k, v>>] \in V
  PROVE  \E f \in [0 .. K -> V] : Recursion(f, K, v0, step)
<1> DEFINE D == 0 .. K
           up == [k \in D |-> k - 1]
           full == [p \in D \X V |-> IF p[1] = 0 THEN v0 ELSE step[p]]
<1>1. IsTree(D, 0, up)
  BY DEF IsTree
<1>2. \A k \in D, v \in V : full[<<k, v>>] = IF k = 0 THEN v0 ELSE step[<<k, v>>]
  OBVIOUS
<1> HIDE DEF full
<1>3. \A k \in D, v \in V : full[<<k, v>>] \in V
  <2> SUFFICES ASSUME NEW k \in D, NEW v \in V PROVE full[<<k, v>>] \in V
    OBVIOUS
  <2>1. k # 0 => k \in 1 .. K
    OBVIOUS
  <2> QED BY <1>2, <2>1
<1>4. PICK f \in [D -> V] : Computes(f, D, 0, up, v0, full)
  <2> HIDE DEF D, up
  <2> QED BY <1>1, <1>3, TreeRecursion
<1>5. \A k \in D : f[k] = IF k = 0 THEN v0 ELSE step[<<k, f[k - 1]>>]
  <2> SUFFICES ASSUME NEW k \in D PROVE f[k] = IF k = 0 THEN v0 ELSE step[<<k, f[k - 1]>>]
    OBVIOUS
  <2>1. f[k] = IF k = 0 THEN v0 ELSE full[<<k, f[up[k]]>>]
    BY <1>4 DEF Computes
  <2>2. k # 0 => up[k] = k - 1 /\ k - 1 \in D /\ f[k - 1] \in V
    BY <1>4
  <2> QED BY <1>2, <2>1, <2>2
<1>6. f = [k \in D |-> f[k]]
  BY <1>4
<1> QED BY <1>4, <1>5, <1>6 DEF Recursion

\* A function that does not change from one number to the next is constant.
LEMMA Constant ==
  ASSUME NEW lo \in Nat, NEW hi \in Nat, NEW e,
         \A n \in lo + 1 .. hi : e[n] = e[n - 1],
         NEW n \in lo .. hi
  PROVE  e[n] = e[lo]
<1> DEFINE T == {k \in lo .. hi : e[k] # e[lo]}
<1> SUFFICES ASSUME T # {} PROVE FALSE
  OBVIOUS
<1>1. PICK k \in T : \A j \in T : k <= j
  BY LeastNat, T \subseteq Nat
<1>2. k \in lo + 1 .. hi /\ k - 1 \in lo .. hi
  BY <1>1
<1>3. k - 1 \notin T
  BY <1>1, <1>2
<1> QED BY <1>1, <1>2, <1>3

-----------------------------------------------------------------------------
(* Sums over a finite set, taken one member at a time *)

\* The sums of g over the subsets of S.
AddsUp(sum, g, S) ==
  sum = [s \in SUBSET S |->
           IF s = {} THEN 0
           ELSE LET x == CHOOSE y \in s : TRUE IN g[x] + sum[s \ {x}]]

\* A set that is not empty has the member that CHOOSE takes.
LEMMA AnyMember == ASSUME NEW s, s # {} PROVE (CHOOSE y \in s : TRUE) \in s
OBVIOUS

\* What holds of a subset whenever it holds of it without any one member holds of all.
LEMMA SubsetInduction ==
  ASSUME NEW S, IsFiniteSet(S), NEW T,
         \A s \in SUBSET S : (\A x \in s : s \ {x} \in T) => s \in T
  PROVE  \A s \in SUBSET S : s \in T
<1> DEFINE F == {s \in SUBSET S : s \notin T}
           N == {Cardinality(s) : s \in F}
<1>1. \A s \in SUBSET S : IsFiniteSet(s) /\ Cardinality(s) \in Nat
  BY FS_Subset, FS_CardinalityType
<1>2. F = {}
  <2> SUFFICES ASSUME F # {} PROVE FALSE
    OBVIOUS
  <2>1. N \subseteq Nat /\ N # {}
    BY <1>1
  <2> HIDE DEF N
  <2>2. PICK k \in N : \A j \in N : k <= j
    BY <2>1, LeastNat
  <2> USE DEF N
  <2>3. PICK s \in F : k = Cardinality(s)
    OBVIOUS
  <2>4. PICK x \in s : s \ {x} \notin T
    OBVIOUS
  <2>5. Cardinality(s \ {x}) = Cardinality(s) - 1
    BY <1>1, <2>4, FS_RemoveElement
  <2>6. s \ {x} \in F
    BY <2>4
  <2>7. k <= Cardinality(s) - 1 /\ Cardinality(s) \in Nat
    BY <1>1, <2>2, <2>5, <2>6
  <2> QED BY <2>3, <2>7
<1> QED BY <1>2

\* The sum over s is the value of x, the member taken first, and the sum over the rest.
Summed(e, g, S, s, x) ==
  /\ e[s] = g[x] + e[s \ {x}]
  /\ x = CHOOSE y \in s : TRUE
  /\ g[x] \in Int /\ e[s \ {x}] \in Int /\ x \in S /\ s \ {x} \in SUBSET S

\* A sum is that of its first member and the rest, all integers.
LEMMA SumTypes ==
  ASSUME NEW S, NEW g \in [S -> Int], NEW e \in [SUBSET S -> Int], AddsUp(e, g, S),
         NEW s \in SUBSET S
  PROVE  /\ s = {} => e[s] = 0
         /\ s # {} => \E x \in s : Summed(e, g, S, s, x)
<1> DEFINE x == CHOOSE y \in s : TRUE
<1>1. e[s] = IF s = {} THEN 0 ELSE g[x] + e[s \ {x}]
  BY DEF AddsUp
<1>2. s # {} => x \in s
  BY AnyMember
<1> HIDE DEF x
<1>3. s # {} => g[x] \in Int /\ e[s \ {x}] \in Int /\ s \ {x} \in SUBSET S /\ x \in S
  BY <1>2
<1> QED BY <1>1, <1>2, <1>3 DEF x, Summed

\* There is a function that adds g up.
LEMMA AddingUp ==
  ASSUME NEW S, IsFiniteSet(S), NEW g \in [S -> Int]
  PROVE  \E f \in [SUBSET S -> Int] : AddsUp(f, g, S)
<1> DEFINE c(s) == CHOOSE y \in s : TRUE
           Level(n) == {s \in SUBSET S : Cardinality(s) <= n}
           Val(f, s) == IF s = {} THEN 0 ELSE g[c(s)] + f[s \ {c(s)}]
           Upto(f, n) == f \in [Level(n) -> Int] /\ \A s \in Level(n) : f[s] = Val(f, s)
           T == {n \in Nat : ~ \E f : Upto(f, n)}
<1>1. \A s \in SUBSET S : IsFiniteSet(s) /\ Cardinality(s) \in Nat
                          /\ Cardinality(s) <= Cardinality(S)
  BY FS_Subset, FS_CardinalityType
<1>2. \A s \in SUBSET S : s # {} => c(s) \in s /\ c(s) \in S /\ s \ {c(s)} \in SUBSET S
                                    /\ g[c(s)] \in Int
  BY AnyMember
<1> HIDE DEF c
<1>3. ASSUME NEW n \in Nat, NEW s \in Level(n), s # {}
      PROVE  n # 0 /\ s \ {c(s)} \in Level(n - 1)
  <2>1. Cardinality(s \ {c(s)}) = Cardinality(s) - 1 /\ Cardinality(s \ {c(s)}) \in Nat
    BY <1>1, <1>2, <1>3, FS_RemoveElement
  <2>2. Cardinality(s) <= n /\ Cardinality(s) \in Nat
    BY <1>1
  <2> QED BY <1>2, <1>3, <2>1, <2>2
<1>4. \E f : Upto(f, 0)
  <2> DEFINE f == [s \in Level(0) |-> 0]
  <2>1. \A s \in Level(0) : s = {}
    BY <1>3
  <2>2. \A s \in Level(0) : f[s] = Val(f, s)
    BY <2>1
  <2>3. f \in [Level(0) -> Int]
    OBVIOUS
  <2> HIDE DEF Level, f, Val
  <2> QED BY <2>2, <2>3
<1>5. ASSUME NEW n \in Nat \ {0}, NEW e, Upto(e, n - 1) PROVE \E f : Upto(f, n)
  <2> DEFINE f == [s \in Level(n) |-> Val(e, s)]
  <2>2. ASSUME NEW s \in Level(n) PROVE f[s] \in Int
    <3>1. s # {} => e[s \ {c(s)}] \in Int
      BY <1>3, <1>5
    <3> QED BY <1>2, <3>1
  <2>3. ASSUME NEW s \in Level(n - 1) PROVE s \in Level(n) /\ f[s] = e[s]
    <3>1. s \in Level(n)
      BY <1>1
    <3> QED BY <1>5, <3>1
  <2>4. ASSUME NEW s \in Level(n) PROVE f[s] = Val(f, s)
    <3>1. s # {} => f[s \ {c(s)}] = e[s \ {c(s)}]
      BY <1>3, <2>3
    <3> QED BY <3>1
  <2>5. f \in [Level(n) -> Int]
    BY <2>2
  <2> HIDE DEF Level, f, Val
  <2> QED BY <2>4, <2>5
<1>6. Cardinality(S) \in Nat /\ Level(Cardinality(S)) = SUBSET S
  BY <1>1, FS_CardinalityType
<1>7. ASSUME NEW n \in Nat \ {0}, n - 1 \notin T PROVE n \notin T
  <2>1. n - 1 \in Nat
    OBVIOUS
  <2> HIDE DEF Upto
  <2>2. PICK e : Upto(e, n - 1)
    BY <1>7, <2>1
  <2> QED BY <1>5, <2>2
<1>8. 0 \notin T
  BY <1>4
<1>9. \A n \in Nat : n \notin T => \E f : Upto(f, n)
  OBVIOUS
<1>15. T \subseteq Nat
  OBVIOUS
<1> HIDE DEF Upto, T
<1>10. T = {}
  <2> SUFFICES ASSUME T # {} PROVE FALSE
    OBVIOUS
  <2>1. PICK n \in T : \A k \in T : n <= k
    BY <1>15, LeastNat
  <2>2. n \in Nat /\ n # 0 /\ n - 1 \notin T
    BY <1>7, <1>8, <1>15, <2>1
  <2> QED BY <1>7, <2>2
<1>11. PICK f : Upto(f, Cardinality(S))
  BY <1>6, <1>9, <1>10
<1>12. f \in [SUBSET S -> Int] /\ \A s \in SUBSET S : f[s] = Val(f, s)
  BY <1>6, <1>11 DEF Upto
<1>13. f = [s \in SUBSET S |-> Val(f, s)]
  BY <1>12
<1>14. AddsUp(f, g, S)
  BY <1>13 DEF AddsUp, c
<1> QED BY <1>12, <1>14

\* One value more or less.
LEMMA SumDiffers ==
  ASSUME NEW S, IsFiniteSet(S), NEW g \in [S -> Int], NEW h \in [S -> Int],
         NEW e \in [SUBSET S -> Int], AddsUp(e, g, S),
         NEW f \in [SUBSET S -> Int], AddsUp(f, h, S),
         NEW a \in S, \A x \in S \ {a} : h[x] = g[x]
  PROVE  f[S] = e[S] + (h[a] - g[a])
<1> DEFINE d == h[a] - g[a]
           T == {s \in SUBSET S : f[s] = e[s] + IF a \in s THEN d ELSE 0}
<1>1. d \in Int /\ h[a] = g[a] + d
  OBVIOUS
<1> HIDE DEF d
<1>2. ASSUME NEW s \in SUBSET S, \A x \in s : s \ {x} \in T PROVE s \in T
  <2>1. CASE s = {}
    <3>1. f[s] = 0 /\ e[s] = 0
      BY <2>1, SumTypes
    <3> QED BY <2>1, <3>1
  <2>2. CASE s # {}
    <3>0. /\ \E x \in s : Summed(e, g, S, s, x)
          /\ \E x \in s : Summed(f, h, S, s, x)
      BY <2>2, SumTypes
    <3>1. PICK x \in s : Summed(e, g, S, s, x) /\ Summed(f, h, S, s, x)
      BY <3>0, Zenon DEF Summed
    <3> USE <3>1 DEF Summed
    <3>2. f[s \ {x}] = e[s \ {x}] + IF a \in s \ {x} THEN d ELSE 0
      BY <1>2
    <3>3. CASE x = a
      <4>0. a \in s /\ a \notin s \ {x} /\ h[x] = g[x] + d
        BY <1>1, <3>3
      <4>1. f[s \ {x}] = e[s \ {x}]
        BY <3>2, <4>0
      <4>2. f[s] = e[s] + d
        BY <1>1, <4>0, <4>1
      <4> QED BY <4>0, <4>2
    <3>4. CASE x # a
      <4>1. h[x] = g[x] /\ (a \in s <=> a \in s \ {x})
        BY <3>1, <3>4
      <4> QED BY <1>1, <3>1, <3>2, <4>1
    <3> QED BY <3>3, <3>4
  <2> QED BY <2>1, <2>2
<1>3. S \in T
  <2> HIDE DEF T
  <2> QED BY <1>2, SubsetInduction
<1> QED BY <1>3 DEF d

\* No value more.
LEMMA SumAtMost ==
  ASSUME NEW S, IsFiniteSet(S), NEW g \in [S -> Int], NEW h \in [S -> Int],
         NEW e \in [SUBSET S -> Int], AddsUp(e, g, S),
         NEW f \in [SUBSET S -> Int], AddsUp(f, h, S),
         \A x \in S : h[x] <= g[x]
  PROVE  f[S] <= e[S]
<1> DEFINE T == {s \in SUBSET S : f[s] <= e[s]}
<1>2. ASSUME NEW s \in SUBSET S, \A x \in s : s \ {x} \in T PROVE s \in T
  <2>1. CASE s = {}
    <3>1. f[s] = 0 /\ e[s] = 0
      BY <2>1, SumTypes
    <3> QED BY <3>1
  <2>2. CASE s # {}
    <3>0. /\ \E x \in s : Summed(e, g, S, s, x)
          /\ \E x \in s : Summed(f, h, S, s, x)
      BY <2>2, SumTypes
    <3>1. PICK x \in s : Summed(e, g, S, s, x) /\ Summed(f, h, S, s, x)
      BY <3>0, Zenon DEF Summed
    <3> USE <3>1 DEF Summed
    <3>2. f[s \ {x}] <= e[s \ {x}] /\ h[x] <= g[x]
      BY <1>2, <3>1
    <3> QED BY <3>1, <3>2
  <2> QED BY <2>1, <2>2
<1>3. S \in T
  <2> HIDE DEF T
  <2> QED BY <1>2, SubsetInduction
<1> QED BY <1>3

\* There is one such function.
LEMMA SumUnique ==
  ASSUME NEW S, IsFiniteSet(S), NEW g \in [S -> Int],
         NEW e \in [SUBSET S -> Int], AddsUp(e, g, S), NEW f, AddsUp(f, g, S)
  PROVE  f = e
<1> DEFINE T == {s \in SUBSET S : f[s] = e[s]}
<1>1. f = [s \in SUBSET S |-> f[s]] /\ e = [s \in SUBSET S |-> e[s]]
  BY DEF AddsUp
<1>2. ASSUME NEW s \in SUBSET S, \A x \in s : s \ {x} \in T PROVE s \in T
  <2> DEFINE x == CHOOSE y \in s : TRUE
  <2>1. /\ f[s] = IF s = {} THEN 0 ELSE g[x] + f[s \ {x}]
        /\ e[s] = IF s = {} THEN 0 ELSE g[x] + e[s \ {x}]
    BY DEF AddsUp
  <2>2. s # {} => x \in s
    BY AnyMember
  <2> HIDE DEF x
  <2> QED BY <1>2, <2>1, <2>2
<1>3. \A s \in SUBSET S : s \in T
  <2> HIDE DEF T
  <2> QED BY <1>2, SubsetInduction
<1> QED BY <1>1, <1>3
=============================================================================
