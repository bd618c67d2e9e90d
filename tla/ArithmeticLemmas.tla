--------------------------- MODULE ArithmeticLemmas ---------------------------
(***************************************************************************)
(* What the proofs about recursive functions, residues and polynomials     *)
(* need.  A recursion that looks back, along the naturals or along a       *)
(* measure, defines a function, and what that function computes is shown   *)
(* by the least argument at which it would be wrong.  A polynomial is the  *)
(* function of its coefficients; Run is the value of some of them in a row.*)
(***************************************************************************)
EXTENDS Integers, WellFoundedInduction, TLAPS

\* A set of naturals has a least element.
LEMMA LeastNatural ==
    ASSUME NEW S, S \subseteq Nat, S # {}
    PROVE  \E m \in S : \A n \in S : m <= n
<1>1. IsWellFoundedOn(OpToRel(<, Nat), Nat)
  BY NatLessThanWellFounded
<1>2. PICK m \in S : \A n \in S : ~ (<<n, m>> \in OpToRel(<, Nat))
  BY <1>1, WFMin
<1>3. ASSUME NEW n \in S PROVE m <= n
  <2>1. m \in Nat /\ n \in Nat
    OBVIOUS
  <2>2. ~ (n < m)
    BY <1>2, <2>1 DEF OpToRel
  <2> QED BY <2>1, <2>2
<1> QED BY <1>3

\* Induction, with the set of the naturals the claim is shown for.
LEMMA InductiveSet ==
    ASSUME NEW S, 0 \in S, \A n \in Nat : n \in S => n + 1 \in S
    PROVE  Nat \subseteq S
<1> DEFINE B == {n \in Nat : n \notin S}
<1>1. SUFFICES ASSUME B # {} PROVE FALSE
  OBVIOUS
<1>2. PICK i \in B : \A j \in B : i <= j
  <2>1. B \subseteq Nat
    OBVIOUS
  <2> QED BY <1>1, <2>1, LeastNatural
<1>3. i \in Nat /\ i # 0 /\ i \notin S
  OBVIOUS
<1>4. i - 1 \in Nat /\ ~(i <= i - 1) /\ (i - 1) + 1 = i
  BY <1>3
<1> QED BY <1>2, <1>3, <1>4

------------------------------------------------------------------------------
(* Recursive functions *)

\* A recursion from base: the value at n > 0 is made of the one at prev[n] < n.
Recursion(T, base, prev, next) ==
    /\ base \in T
    /\ \A n \in Nat \ {0} : prev[n] \in 0..(n - 1)
    /\ \A n \in Nat, t \in T : next[n][t] \in T

\* f obeys the recursion at n: its value is made of the one at an earlier argument.
Unfolds(f, n, base, prev, next) ==
    f[n] = IF n = 0 THEN base ELSE next[n][f[prev[n]]]

\* The functions that obey it up to m.
Approximations(m, T, base, prev, next) ==
    {f \in [0..m -> T] : \A n \in 0..m : Unfolds(f, n, base, prev, next)}

\* Two of them agree where both are defined.
LEMMA ApproximationsAgree ==
    ASSUME NEW T, NEW base, NEW prev, NEW next, Recursion(T, base, prev, next),
           NEW m \in Nat, NEW k \in Nat,
           NEW f \in Approximations(m, T, base, prev, next),
           NEW g \in Approximations(k, T, base, prev, next),
           NEW n \in Nat, n <= m, n <= k
    PROVE  f[n] = g[n]
<1> DEFINE S == {i \in 0..n : f[i] # g[i]}
<1>1. SUFFICES ASSUME S # {} PROVE FALSE
  <2>1. n \in 0..n
    OBVIOUS
  <2> QED BY <2>1
<1>2. S \subseteq Nat
  OBVIOUS
<1>3. PICK i \in S : \A j \in S : i <= j
  BY <1>1, <1>2, LeastNatural
<1>4. i \in 0..n /\ f[i] # g[i] /\ i \in Nat
  OBVIOUS
<1>5. i \in 0..m /\ i \in 0..k
  BY <1>4
<1>6. Unfolds(f, i, base, prev, next) /\ Unfolds(g, i, base, prev, next)
  BY <1>5 DEF Approximations
<1>7. i # 0
  BY <1>4, <1>6 DEF Unfolds
<1>8. prev[i] \in 0..(i - 1)
  BY <1>4, <1>7 DEF Recursion
<1>9. prev[i] \in 0..n /\ ~(i <= prev[i])
  BY <1>4, <1>8
<1>10. f[prev[i]] = g[prev[i]]
  BY <1>3, <1>9
<1> QED BY <1>4, <1>6, <1>7, <1>10 DEF Unfolds

\* An approximation extends to one more argument.
LEMMA ApproximationExtends ==
    ASSUME NEW T, NEW base, NEW prev, NEW next, Recursion(T, base, prev, next),
           NEW m \in Nat, m # 0,
           NEW f \in Approximations(m - 1, T, base, prev, next)
    PROVE  Approximations(m, T, base, prev, next) # {}
<1> DEFINE g == [n \in 0..m |-> IF n = m THEN next[m][f[prev[m]]] ELSE f[n]]
<1>1. f \in [0..(m - 1) -> T] /\ \A n \in 0..(m - 1) : Unfolds(f, n, base, prev, next)
  BY DEF Approximations
<1>2. prev[m] \in 0..(m - 1)
  BY DEF Recursion
<1>3. f[prev[m]] \in T
  BY <1>1, <1>2
<1>4. next[m][f[prev[m]]] \in T
  BY <1>3 DEF Recursion
<1>5. \A n \in 0..m : n = m \/ n \in 0..(m - 1)
  OBVIOUS
<1>6. g \in [0..m -> T]
  BY <1>1, <1>4, <1>5
<1>7. \A n \in 0..(m - 1) : g[n] = f[n]
  OBVIOUS
<1>8. g[m] = next[m][f[prev[m]]]
  OBVIOUS
<1> HIDE DEF g
<1>9. ASSUME NEW n \in 0..m PROVE Unfolds(g, n, base, prev, next)
  <2>1. CASE n = m
    BY <1>2, <1>7, <1>8, <2>1 DEF Unfolds
  <2>2. CASE n # m
    <3>1. n \in 0..(m - 1)
      BY <1>5, <2>2
    <3>2. Unfolds(f, n, base, prev, next)
      BY <1>1, <3>1
    <3>3. n # 0 => prev[n] \in 0..(m - 1)
      <4>1. n # 0 => prev[n] \in 0..(n - 1)
        BY <3>1 DEF Recursion
      <4> QED BY <3>1, <4>1
    <3> QED BY <1>7, <3>1, <3>2, <3>3 DEF Unfolds
  <2> QED BY <2>1, <2>2
<1> QED BY <1>6, <1>9 DEF Approximations

\* There is one up to every m.
LEMMA ApproximationExists ==
    ASSUME NEW T, NEW base, NEW prev, NEW next, Recursion(T, base, prev, next),
           NEW m \in Nat
    PROVE  Approximations(m, T, base, prev, next) # {}
<1> DEFINE S == {i \in Nat : Approximations(i, T, base, prev, next) = {}}
<1>1. SUFFICES ASSUME S # {} PROVE FALSE
  OBVIOUS
<1>2. PICK i \in S : \A j \in S : i <= j
  <2>1. S \subseteq Nat
    OBVIOUS
  <2> QED BY <1>1, <2>1, LeastNatural
<1>3. i \in Nat /\ Approximations(i, T, base, prev, next) = {}
  OBVIOUS
<1>4. CASE i = 0
  <2>1. [n \in 0..0 |-> base] \in Approximations(0, T, base, prev, next)
    BY DEF Approximations, Unfolds, Recursion
  <2> QED BY <1>3, <1>4, <2>1
<1>5. CASE i # 0
  <2>1. i - 1 \in Nat /\ ~(i <= i - 1)
    BY <1>3, <1>5
  <2>2. Approximations(i - 1, T, base, prev, next) # {}
    BY <1>2, <2>1
  <2> QED BY <1>3, <1>5, <2>2, ApproximationExtends
<1> QED BY <1>4, <1>5

\* Such a recursion defines a function on the naturals.
LEMMA RecursiveFunctionExists ==
    ASSUME NEW T, NEW base, NEW prev, NEW next, Recursion(T, base, prev, next)
    PROVE  \E f \in [Nat -> T] :
               f = [n \in Nat |-> IF n = 0 THEN base ELSE next[n][f[prev[n]]]]
<1> DEFINE A(m) == Approximations(m, T, base, prev, next)
           F(m) == CHOOSE g \in A(m) : TRUE
           h == [m \in Nat |-> F(m)[m]]
<1>1. ASSUME NEW m \in Nat PROVE F(m) \in A(m)
  <2>1. A(m) # {}
    BY ApproximationExists
  <2> HIDE DEF A
  <2> QED BY <2>1
<1> HIDE DEF F
<1>2. ASSUME NEW m \in Nat, NEW n \in Nat, n <= m PROVE F(m)[n] = h[n]
  <2>1. F(m) \in A(m) /\ F(n) \in A(n)
    BY <1>1
  <2>2. F(m)[n] = F(n)[n]
    BY <1>2, <2>1, ApproximationsAgree
  <2> QED BY <2>2
<1>3. ASSUME NEW n \in Nat PROVE F(n)[n] \in T /\ Unfolds(F(n), n, base, prev, next)
  <2>1. F(n) \in A(n) /\ n \in 0..n
    BY <1>1
  <2> QED BY <2>1 DEF Approximations
<1>4. h \in [Nat -> T]
  BY <1>3
<1> HIDE DEF h
<1>5. ASSUME NEW n \in Nat PROVE Unfolds(h, n, base, prev, next)
  <2>1. F(n)[n] = h[n]
    BY <1>2
  <2>2. n # 0 => F(n)[prev[n]] = h[prev[n]]
    <3>1. n # 0 => prev[n] \in Nat /\ prev[n] <= n
      <4>1. n # 0 => prev[n] \in 0..(n - 1)
        BY DEF Recursion
      <4> QED BY <4>1
    <3> QED BY <1>2, <3>1
  <2> QED BY <1>3, <2>1, <2>2 DEF Unfolds
<1>6. h = [n \in Nat |-> IF n = 0 THEN base ELSE next[n][h[prev[n]]]]
  BY <1>4, <1>5 DEF Unfolds
<1> QED BY <1>4, <1>6

------------------------------------------------------------------------------
(* Recursion and induction along a measure *)

\* No element of B has the least measure, so B is empty.
LEMMA NoLeastElement ==
    ASSUME NEW S, NEW mu \in [S -> Nat], NEW B, B \subseteq S,
           \A x \in B : \E y \in B : mu[y] < mu[x]
    PROVE  B = {}
<1> DEFINE M == {mu[x] : x \in B}
<1>1. SUFFICES ASSUME B # {} PROVE FALSE
  OBVIOUS
<1>2. M \subseteq Nat /\ M # {}
  BY <1>1
<1>3. PICK m \in M : \A n \in M : m <= n
  <2> HIDE DEF M
  <2> QED BY <1>2, LeastNatural
<1>4. PICK x \in B : m = mu[x]
  OBVIOUS
<1>5. PICK y \in B : mu[y] < mu[x]
  OBVIOUS
<1>6. mu[y] \in M /\ mu[x] \in Nat /\ mu[y] \in Nat
  OBVIOUS
<1> HIDE DEF M
<1> QED BY <1>3, <1>4, <1>5, <1>6

\* H[x][f] is the value at x where f has the values at elements of smaller measure.
LooksBack(S, T, mu, H) ==
    /\ mu \in [S -> Nat]
    /\ \A x \in S : \A f \in [S -> T] : H[x][f] \in T
    /\ \A x \in S : \A f, g \in [S -> T] :
           (\A y \in S : mu[y] < mu[x] => f[y] = g[y]) => H[x][f] = H[x][g]

\* The rounds of such a recursion no longer change where the measure is small.
LEMMA RoundsSettle ==
    ASSUME NEW S, NEW T, NEW mu, NEW H, LooksBack(S, T, mu, H),
           NEW G \in [Nat -> [S -> T]],
           \A n \in Nat : G[n + 1] = [x \in S |-> H[x][G[n]]]
    PROVE  \A n \in Nat, m \in Nat : n <= m =>
               \A x \in S : mu[x] < n => G[m][x] = G[n][x]
<1> DEFINE Settled(n) == \A m \in Nat : n <= m =>
                             \A x \in S : mu[x] < n => G[m][x] = G[n][x]
           B == {n \in Nat : ~Settled(n)}
<1>1. SUFFICES B = {}
  OBVIOUS
<1>2. SUFFICES ASSUME B # {} PROVE FALSE
  OBVIOUS
<1>3. PICK i \in B : \A j \in B : i <= j
  <2>1. B \subseteq Nat
    OBVIOUS
  <2> QED BY <1>2, <2>1, LeastNatural
<1>4. i \in Nat /\ ~Settled(i) /\ mu \in [S -> Nat]
  BY DEF LooksBack
<1>5. i # 0
  <2>1. Settled(0)
    BY <1>4
  <2> HIDE DEF Settled
  <2> QED BY <1>4, <2>1
<1>6. i - 1 \in Nat /\ (i - 1) + 1 = i /\ ~(i <= i - 1)
  BY <1>4, <1>5
<1>7. Settled(i - 1)
  <2> HIDE DEF Settled
  <2> QED BY <1>3, <1>6
<1>8. PICK m \in Nat, x \in S : i <= m /\ mu[x] < i /\ G[m][x] # G[i][x]
  BY <1>4
<1>9. m - 1 \in Nat /\ (m - 1) + 1 = m /\ i - 1 <= m - 1
  BY <1>4, <1>5, <1>8
<1>10. G[m][x] = H[x][G[m - 1]] /\ G[i][x] = H[x][G[i - 1]]
  <2>1. /\ G[(m - 1) + 1] = [y \in S |-> H[y][G[m - 1]]]
        /\ G[(i - 1) + 1] = [y \in S |-> H[y][G[i - 1]]]
    BY <1>6, <1>9
  <2> QED BY <1>6, <1>9, <2>1
<1>11. \A y \in S : mu[y] < mu[x] => G[m - 1][y] = G[i - 1][y]
  <2>1. ASSUME NEW y \in S, mu[y] < mu[x] PROVE mu[y] < i - 1
    <3>1. mu[y] \in Nat /\ mu[x] \in Nat
      BY <1>4
    <3> QED BY <1>4, <1>8, <2>1, <3>1
  <2> QED BY <1>7, <1>9, <2>1
<1>12. G[m - 1] \in [S -> T] /\ G[i - 1] \in [S -> T]
  BY <1>6, <1>9
<1> QED BY <1>8, <1>10, <1>11, <1>12 DEF LooksBack

\* A recursion that looks back along a measure defines a function.
LEMMA MeasuredFunctionExists ==
    ASSUME NEW S, NEW T, NEW t \in T, NEW mu, NEW H, LooksBack(S, T, mu, H)
    PROVE  \E f \in [S -> T] : f = [x \in S |-> H[x][f]]
<1> DEFINE U == [S -> T]
           base == [x \in S |-> t]
           prev == [n \in Nat |-> n - 1]
           next == [n \in Nat |-> [g \in U |-> [x \in S |-> H[x][g]]]]
<1>1. Recursion(U, base, prev, next)
  <2>1. base \in U
    OBVIOUS
  <2>2. \A n \in Nat \ {0} : prev[n] \in 0..(n - 1)
    OBVIOUS
  <2>3. ASSUME NEW n \in Nat, NEW g \in U PROVE next[n][g] \in U
    <3>1. next[n][g] = [x \in S |-> H[x][g]]
      OBVIOUS
    <3>2. \A x \in S : H[x][g] \in T
      BY DEF LooksBack
    <3> QED BY <3>1, <3>2
  <2> HIDE DEF U, base, prev, next
  <2> QED BY <2>1, <2>2, <2>3 DEF Recursion
<1>2. PICK G \in [Nat -> U] : G = [n \in Nat |-> IF n = 0 THEN base ELSE next[n][G[prev[n]]]]
  <2> HIDE DEF U, base, prev, next
  <2> QED BY <1>1, RecursiveFunctionExists
<1>3. ASSUME NEW n \in Nat PROVE G[n + 1] = [x \in S |-> H[x][G[n]]]
  <2>1. n + 1 \in Nat /\ n + 1 # 0 /\ prev[n + 1] = n
    OBVIOUS
  <2>2. G[n + 1] = next[n + 1][G[n]]
    <3> HIDE DEF U, base, prev, next
    <3> QED BY <1>2, <2>1
  <2>3. G[n] \in U
    OBVIOUS
  <2> QED BY <2>1, <2>2, <2>3
<1>4. \A n \in Nat, m \in Nat : n <= m =>
          \A x \in S : mu[x] < n => G[m][x] = G[n][x]
  BY <1>3, RoundsSettle
<1> DEFINE F == [x \in S |-> G[mu[x] + 1][x]]
<1>5. mu \in [S -> Nat]
  BY DEF LooksBack
<1>6. F \in [S -> T]
  <2>1. \A x \in S : mu[x] + 1 \in Nat
    BY <1>5
  <2>2. \A n \in Nat, x \in S : G[n][x] \in T
    OBVIOUS
  <2> QED BY <2>1, <2>2
<1>7. ASSUME NEW x \in S PROVE F[x] = H[x][F]
  <2>1. mu[x] \in Nat
    BY <1>5
  <2>2. F[x] = H[x][G[mu[x]]]
    BY <1>3, <2>1
  <2>3. ASSUME NEW y \in S, mu[y] < mu[x] PROVE G[mu[x]][y] = F[y]
    <3>1. mu[y] \in Nat /\ mu[y] + 1 \in Nat /\ mu[y] + 1 <= mu[x] /\ mu[y] < mu[y] + 1
      BY <1>5, <2>1, <2>3
    <3> QED BY <1>4, <2>1, <3>1
  <2>4. G[mu[x]] \in [S -> T]
    BY <2>1
  <2> HIDE DEF F
  <2> QED BY <1>6, <2>2, <2>3, <2>4 DEF LooksBack
<1> HIDE DEF F
<1>8. F = [x \in S |-> H[x][F]]
  BY <1>6, <1>7
<1> QED BY <1>6, <1>8

\* Induction along a measure, with the set the claim is shown for.
LEMMA MeasuredInduction ==
    ASSUME NEW S, NEW mu \in [S -> Nat], NEW Good,
           \A x \in S : (\A y \in S : mu[y] < mu[x] => y \in Good) => x \in Good
    PROVE  S \subseteq Good
<1> DEFINE B == S \ Good
<1>1. ASSUME NEW x \in B PROVE \E y \in B : mu[y] < mu[x]
  BY <1>1
<1>2. B \subseteq S
  OBVIOUS
<1>3. B = {}
  <2> HIDE DEF B
  <2> QED BY <1>1, <1>2, NoLeastElement
<1> QED BY <1>3

------------------------------------------------------------------------------
(* Residues *)

Same(x, y, p) == \E q \in Int : x = y + q * p

\* Congruence is an equivalence
LEMMA SameOrder ==
    ASSUME NEW p \in Nat, NEW x \in Int, NEW y \in Int, NEW z \in Int
    PROVE  /\ Same(x, x, p)
           /\ Same(x, y, p) => Same(y, x, p)
           /\ Same(x, y, p) /\ Same(y, z, p) => Same(x, z, p)
<1>1. Same(x, x, p)
  <2>1. x = x + 0 * p
    OBVIOUS
  <2> QED BY <2>1 DEF Same
<1>2. ASSUME Same(x, y, p) PROVE Same(y, x, p)
  <2>1. PICK q \in Int : x = y + q * p
    BY <1>2 DEF Same
  <2>2. y = x + (-q) * p /\ -q \in Int
    BY <2>1
  <2> QED BY <2>2 DEF Same
<1>3. ASSUME Same(x, y, p), Same(y, z, p) PROVE Same(x, z, p)
  <2>1. PICK q \in Int : x = y + q * p
    BY <1>3 DEF Same
  <2>2. PICK r \in Int : y = z + r * p
    BY <1>3 DEF Same
  <2>3. x = z + (q + r) * p /\ q + r \in Int
    BY <2>1, <2>2
  <2> QED BY <2>3 DEF Same
<1> QED BY <1>1, <1>2, <1>3

\* that sums
LEMMA SameSum ==
    ASSUME NEW p \in Nat, NEW x \in Int, NEW y \in Int, NEW u \in Int, NEW v \in Int,
           Same(x, y, p), Same(u, v, p)
    PROVE  Same(x + u, y + v, p)
<1>1. PICK q \in Int : x = y + q * p
  BY DEF Same
<1>2. PICK r \in Int : u = v + r * p
  BY DEF Same
<1>3. x + u = (y + v) + (q + r) * p /\ q + r \in Int
  BY <1>1, <1>2
<1> QED BY <1>3 DEF Same

\* and products respect.
LEMMA SameProduct ==
    ASSUME NEW p \in Nat, NEW x \in Int, NEW y \in Int, NEW u \in Int, NEW v \in Int,
           Same(x, y, p), Same(u, v, p)
    PROVE  Same(x * u, y * v, p)
<1>1. PICK q \in Int : x = y + q * p
  BY DEF Same
<1>2. PICK r \in Int : u = v + r * p
  BY DEF Same
<1>3. x * u = y * v + (q * v + r * y + q * r * p) * p /\ q * v + r * y + q * r * p \in Int
  BY <1>1, <1>2
<1> QED BY <1>3 DEF Same

\* A number is congruent to its remainder,
LEMMA SameRemainder ==
    ASSUME NEW p \in Nat, p # 0, NEW x \in Int
    PROVE  /\ Same(x % p, x, p) /\ Same(x, x % p, p)
           /\ x % p \in 0..(p - 1)
<1>1. x = p * (x \div p) + (x % p) /\ x \div p \in Int /\ x % p \in 0..(p - 1)
  OBVIOUS
<1>2. x = (x % p) + (x \div p) * p
  BY <1>1
<1>3. Same(x, x % p, p)
  BY <1>1, <1>2 DEF Same
<1> QED BY <1>1, <1>3, SameOrder

\* and congruent remainders are equal.
LEMMA SameEqual ==
    ASSUME NEW p \in Nat, NEW x \in 0..(p - 1), NEW y \in 0..(p - 1), Same(x, y, p)
    PROVE  x = y
<1>1. PICK q \in Int : x = y + q * p
  BY DEF Same
<1>2. q >= 1 => q * p >= p
  BY <1>1
<1>3. q <= -1 => q * p <= -p
  BY <1>1
<1> QED BY <1>1, <1>2, <1>3

------------------------------------------------------------------------------
(* Powers and polynomials *)

\* x^0, x^1, ..
Power(x) == LET E[d \in Nat] == IF d = 0 THEN 1 ELSE x * E[d - 1] IN E

\* Power(x) is the function its recursion describes.
LEMMA PowerUnfolds ==
    ASSUME NEW x \in Int
    PROVE  /\ Power(x) \in [Nat -> Int]
           /\ Power(x)[0] = 1
           /\ \A d \in Nat \ {0} : Power(x)[d] = x * Power(x)[d - 1]
<1> DEFINE prev == [n \in Nat |-> n - 1]
           next == [n \in Nat |-> [t \in Int |-> x * t]]
           Body(f) == [d \in Nat |-> IF d = 0 THEN 1 ELSE x * f[d - 1]]
           E == Power(x)
<1>1. Recursion(Int, 1, prev, next)
  BY DEF Recursion
<1>2. PICK f \in [Nat -> Int] : f = [n \in Nat |-> IF n = 0 THEN 1 ELSE next[n][f[prev[n]]]]
  <2> HIDE DEF prev, next
  <2> QED BY <1>1, RecursiveFunctionExists
<1>3. f = Body(f)
  <2>1. ASSUME NEW n \in Nat, n # 0 PROVE next[n][f[prev[n]]] = x * f[n - 1]
    BY <2>1
  <2> QED BY <1>2, <2>1
<1>4. E = Body(E)
  <2>1. E = CHOOSE g : g = Body(g)
    BY DEF Power
  <2> HIDE DEF Body, E
  <2> QED BY <1>3, <2>1
<1> HIDE DEF E
<1>5. \A n \in Nat : E[n] = IF n = 0 THEN 1 ELSE x * E[n - 1]
  BY <1>4
<1>6. DOMAIN E = Nat /\ E = [n \in Nat |-> E[n]]
  BY <1>4
<1> DEFINE S == {n \in Nat : E[n] \notin Int}
<1>7. S = {}
  <2>1. SUFFICES ASSUME S # {} PROVE FALSE
    OBVIOUS
  <2>2. PICK i \in S : \A j \in S : i <= j
    <3>1. S \subseteq Nat
      OBVIOUS
    <3> QED BY <2>1, <3>1, LeastNatural
  <2>3. i \in Nat /\ i # 0
    BY <1>5
  <2>4. i - 1 \in Nat /\ ~(i <= i - 1)
    BY <2>3
  <2>5. E[i - 1] \in Int
    BY <2>2, <2>4
  <2> QED BY <1>5, <2>3, <2>5
<1> QED BY <1>5, <1>6, <1>7 DEF E

\* Exponents add up.
LEMMA PowerSum ==
    ASSUME NEW x \in Int, NEW a \in Nat, NEW b \in Nat
    PROVE  Power(x)[a + b] = Power(x)[a] * Power(x)[b]
<1> DEFINE E == Power(x)
           S == {n \in Nat : E[a + n] # E[a] * E[n]}
<1>1. SUFFICES ASSUME S # {} PROVE FALSE
  OBVIOUS
<1>2. PICK i \in S : \A j \in S : i <= j
  <2>1. S \subseteq Nat
    OBVIOUS
  <2> QED BY <1>1, <2>1, LeastNatural
<1>3. /\ E \in [Nat -> Int] /\ E[0] = 1
      /\ \A d \in Nat \ {0} : E[d] = x * E[d - 1]
  BY PowerUnfolds
<1> HIDE DEF E
<1>4. i \in Nat /\ E[a + i] # E[a] * E[i] /\ E[a] \in Int
  BY <1>3
<1>5. i # 0
  BY <1>3, <1>4
<1>6. i - 1 \in Nat /\ ~(i <= i - 1) /\ a + i \in Nat \ {0} /\ (a + i) - 1 = a + (i - 1)
  BY <1>4, <1>5
<1>7. E[a + (i - 1)] = E[a] * E[i - 1]
  BY <1>2, <1>6
<1>8. E[a + i] = x * E[a + (i - 1)] /\ E[i] = x * E[i - 1]
  BY <1>3, <1>5, <1>6
<1>9. E[i - 1] \in Int
  BY <1>3, <1>6
<1> DEFINE u == E[i - 1]
           v == E[a]
<1>10. x * (v * u) = v * (x * u)
  <2>1. u \in Int /\ v \in Int
    BY <1>4, <1>9
  <2> HIDE DEF u, v
  <2> QED BY <2>1
<1> QED BY <1>4, <1>7, <1>8, <1>10

\* The sum of c[lo + j] * x^j for j < n, n = 0, 1, ..
Run(c, lo, x) ==
    LET R[n \in Nat] == IF n = 0 THEN 0 ELSE R[n - 1] + c[lo + (n - 1)] * Power(x)[n - 1] IN R

\* Run is the function its recursion describes.
LEMMA RunUnfolds ==
    ASSUME NEW c \in [Nat -> Int], NEW lo \in Nat, NEW x \in Int
    PROVE  /\ Run(c, lo, x) \in [Nat -> Int]
           /\ Run(c, lo, x)[0] = 0
           /\ \A n \in Nat : Run(c, lo, x)[n + 1] = Run(c, lo, x)[n] + c[lo + n] * Power(x)[n]
<1> DEFINE W == [n \in Nat |-> IF n = 0 THEN 0 ELSE c[lo + (n - 1)] * Power(x)[n - 1]]
           prev == [n \in Nat |-> n - 1]
           next == [n \in Nat |-> [t \in Int |-> t + W[n]]]
           Body(f) == [n \in Nat |-> IF n = 0 THEN 0
                                     ELSE f[n - 1] + c[lo + (n - 1)] * Power(x)[n - 1]]
           R == Run(c, lo, x)
<1>0. ASSUME NEW n \in Nat PROVE W[n] \in Int
  <2>1. n # 0 => c[lo + (n - 1)] \in Int /\ Power(x)[n - 1] \in Int
    BY PowerUnfolds
  <2> QED BY <2>1
<1>1. Recursion(Int, 0, prev, next)
  <2> HIDE DEF W
  <2> QED BY <1>0 DEF Recursion
<1>2. PICK f \in [Nat -> Int] : f = [n \in Nat |-> IF n = 0 THEN 0 ELSE next[n][f[prev[n]]]]
  <2> HIDE DEF prev, next
  <2> QED BY <1>1, RecursiveFunctionExists
<1>3. f = Body(f)
  <2>1. ASSUME NEW n \in Nat, n # 0
        PROVE  next[n][f[prev[n]]] = f[n - 1] + c[lo + (n - 1)] * Power(x)[n - 1]
    BY <2>1
  <2> QED BY <1>2, <2>1
<1>4. R = Body(R)
  <2>1. R = CHOOSE g : g = Body(g)
    BY DEF Run
  <2> HIDE DEF Body, R
  <2> QED BY <1>3, <2>1
<1> HIDE DEF R
<1>5. \A n \in Nat : R[n] = IF n = 0 THEN 0 ELSE R[n - 1] + c[lo + (n - 1)] * Power(x)[n - 1]
  BY <1>4
<1>6. DOMAIN R = Nat /\ R = [n \in Nat |-> R[n]]
  BY <1>4
<1> DEFINE S == {n \in Nat : R[n] \notin Int}
<1>7. S = {}
  <2>1. SUFFICES ASSUME S # {} PROVE FALSE
    OBVIOUS
  <2>2. PICK i \in S : \A j \in S : i <= j
    <3>1. S \subseteq Nat
      OBVIOUS
    <3> QED BY <2>1, <3>1, LeastNatural
  <2>3. i \in Nat /\ i # 0
    BY <1>5
  <2>4. i - 1 \in Nat /\ ~(i <= i - 1)
    BY <2>3
  <2>5. R[i - 1] \in Int
    BY <2>2, <2>4
  <2>6. c[lo + (i - 1)] * Power(x)[i - 1] \in Int
    <3>1. c[lo + (i - 1)] \in Int /\ Power(x)[i - 1] \in Int
      BY <2>3, PowerUnfolds
    <3> QED BY <3>1
  <2>7. R[i] = R[i - 1] + c[lo + (i - 1)] * Power(x)[i - 1]
    BY <1>5, <2>3
  <2> QED BY <2>3, <2>5, <2>6, <2>7
<1>8. ASSUME NEW n \in Nat PROVE R[n + 1] = R[n] + c[lo + n] * Power(x)[n]
  <2>1. n + 1 \in Nat /\ n + 1 # 0 /\ (n + 1) - 1 = n
    OBVIOUS
  <2> QED BY <1>5, <2>1
<1> QED BY <1>5, <1>6, <1>7, <1>8 DEF R

\* The polynomial of a + b coefficients is that of the first a, and x^a times that of
\* the others.
LEMMA RunSplit ==
    ASSUME NEW c \in [Nat -> Int], NEW lo \in Nat, NEW x \in Int, NEW a \in Nat, NEW b \in Nat
    PROVE  Run(c, lo, x)[a + b] = Run(c, lo, x)[a] + Power(x)[a] * Run(c, lo + a, x)[b]
<1> DEFINE E == Power(x)
           R == Run(c, lo, x)
           Q == Run(c, lo + a, x)
           S == {n \in Nat : R[a + n] = R[a] + E[a] * Q[n]}
<1>1. /\ E \in [Nat -> Int]
      /\ R \in [Nat -> Int] /\ \A n \in Nat : R[n + 1] = R[n] + c[lo + n] * E[n]
      /\ Q \in [Nat -> Int] /\ Q[0] = 0
      /\ \A n \in Nat : Q[n + 1] = Q[n] + c[(lo + a) + n] * E[n]
  <2>1. lo + a \in Nat
    OBVIOUS
  <2> QED BY <2>1, PowerUnfolds, RunUnfolds
<1>2. \A n \in Nat : E[a + n] = E[a] * E[n]
  BY PowerSum
<1> HIDE DEF E, R, Q
<1>3. 0 \in S
  BY <1>1
<1>4. ASSUME NEW n \in Nat, n \in S PROVE n + 1 \in S
  <2> DEFINE r == R[a]
             q == Q[n]
             d == c[(lo + a) + n]
             u == E[a]
             v == E[n]
  <2>1. r \in Int /\ q \in Int /\ d \in Int /\ u \in Int /\ v \in Int
    BY <1>1
  <2>2. a + n \in Nat /\ (a + n) + 1 = a + (n + 1) /\ lo + (a + n) = (lo + a) + n
    OBVIOUS
  <2>3. R[a + (n + 1)] = (r + u * q) + d * (u * v)
    BY <1>1, <1>2, <1>4, <2>2
  <2>4. Q[n + 1] = q + d * v
    BY <1>1
  <2>5. (r + u * q) + d * (u * v) = r + u * (q + d * v)
    <3> HIDE DEF r, q, d, u, v
    <3> QED BY <2>1
  <2> QED BY <2>3, <2>4, <2>5
<1>5. Nat \subseteq S
  <2> HIDE DEF S
  <2> QED BY <1>3, <1>4, InductiveSet
<1> QED BY <1>5 DEF E, R, Q

\* Coefficients that are sums give a polynomial that is a sum.
LEMMA RunSum ==
    ASSUME NEW p \in Nat, NEW c \in [Nat -> Int], NEW e \in [Nat -> Int], NEW f \in [Nat -> Int],
           \A d \in Nat : Same(c[d], e[d] + f[d], p), NEW x \in Int, NEW lo \in Nat, NEW n \in Nat
    PROVE  Same(Run(c, lo, x)[n], Run(e, lo, x)[n] + Run(f, lo, x)[n], p)
<1> DEFINE E == Power(x)
           C == Run(c, lo, x)
           R == Run(e, lo, x)
           Q == Run(f, lo, x)
           S == {m \in Nat : Same(C[m], R[m] + Q[m], p)}
<1>1. /\ E \in [Nat -> Int]
      /\ C \in [Nat -> Int] /\ C[0] = 0 /\ \A m \in Nat : C[m + 1] = C[m] + c[lo + m] * E[m]
      /\ R \in [Nat -> Int] /\ R[0] = 0 /\ \A m \in Nat : R[m + 1] = R[m] + e[lo + m] * E[m]
      /\ Q \in [Nat -> Int] /\ Q[0] = 0 /\ \A m \in Nat : Q[m + 1] = Q[m] + f[lo + m] * E[m]
  BY PowerUnfolds, RunUnfolds
<1> HIDE DEF E, C, R, Q
<1>2. 0 \in S
  <2>1. Same(0, 0 + 0, p)
    BY SameOrder
  <2> QED BY <1>1, <2>1
<1>3. ASSUME NEW m \in Nat, m \in S PROVE m + 1 \in S
  <2> DEFINE u == c[lo + m]
             v == e[lo + m]
             w == f[lo + m]
             t == E[m]
             C0 == C[m]
             R0 == R[m]
             Q0 == Q[m]
  <2>1. /\ u \in Int /\ v \in Int /\ w \in Int /\ t \in Int
        /\ C0 \in Int /\ R0 \in Int /\ Q0 \in Int
    BY <1>1
  <2>2. Same(u, v + w, p) /\ Same(C0, R0 + Q0, p)
    BY <1>3
  <2>3. /\ C[m + 1] = C0 + u * t
        /\ R[m + 1] = R0 + v * t
        /\ Q[m + 1] = Q0 + w * t
    BY <1>1
  <2> HIDE DEF u, v, w, t, C0, R0, Q0
  <2>4. Same(u * t, (v + w) * t, p)
    <3>1. Same(t, t, p) /\ v + w \in Int
      BY <2>1, SameOrder
    <3> QED BY <2>1, <2>2, <3>1, SameProduct
  <2>5. Same(C0 + u * t, (R0 + Q0) + (v + w) * t, p)
    <3>1. u * t \in Int /\ (v + w) * t \in Int /\ R0 + Q0 \in Int
      BY <2>1
    <3> QED BY <2>1, <2>2, <2>4, <3>1, SameSum
  <2>6. (R0 + Q0) + (v + w) * t = (R0 + v * t) + (Q0 + w * t)
    BY <2>1
  <2> QED BY <2>3, <2>5, <2>6
<1>4. Nat \subseteq S
  <2> HIDE DEF S
  <2> QED BY <1>2, <1>3, InductiveSet
<1> QED BY <1>4 DEF C, R, Q

\* Coefficients that are zero add nothing.
LEMMA RunZero ==
    ASSUME NEW c \in [Nat -> Int], NEW lo \in Nat, NEW x \in Int,
           \A d \in Nat : d >= lo => c[d] = 0, NEW n \in Nat
    PROVE  Run(c, lo, x)[n] = 0
<1> DEFINE R == Run(c, lo, x)
           S == {m \in Nat : R[m] = 0}
<1>1. R[0] = 0 /\ \A m \in Nat : R[m + 1] = R[m] + c[lo + m] * Power(x)[m]
  BY RunUnfolds
<1>2. Power(x) \in [Nat -> Int]
  BY PowerUnfolds
<1> HIDE DEF R
<1>3. ASSUME NEW m \in Nat, m \in S PROVE m + 1 \in S
  <2>1. c[lo + m] = 0 /\ Power(x)[m] \in Int
    BY <1>2
  <2>2. R[m + 1] = 0 + 0 * Power(x)[m]
    BY <1>1, <1>3, <2>1
  <2> QED BY <2>1, <2>2
<1>4. 0 \in S
  BY <1>1
<1>5. Nat \subseteq S
  <2> HIDE DEF S
  <2> QED BY <1>3, <1>4, InductiveSet
<1> QED BY <1>5 DEF R

\* RunSplit, with names for the sums.
LEMMA RunSplitAt ==
    ASSUME NEW c \in [Nat -> Int], NEW lo \in Nat, NEW x \in Int, NEW a \in Nat, NEW b \in Nat,
           NEW mid \in Nat, mid = lo + a, NEW n \in Nat, n = a + b
    PROVE  Run(c, lo, x)[n] = Run(c, lo, x)[a] + Power(x)[a] * Run(c, mid, x)[b]
<1>1. Run(c, lo, x)[a + b] = Run(c, lo, x)[a] + Power(x)[a] * Run(c, lo + a, x)[b]
  BY RunSplit
<1> QED BY <1>1

------------------------------------------------------------------------------
(* Powers modulo a number *)

\* One to any power is one.
LEMMA PowerOfOne ==
    ASSUME NEW e \in Nat
    PROVE  Power(1)[e] = 1
<1> DEFINE E == Power(1)
           S == {d \in Nat : E[d] = 1}
<1>1. E[0] = 1 /\ \A d \in Nat \ {0} : E[d] = 1 * E[d - 1]
  BY PowerUnfolds
<1> HIDE DEF E
<1>2. ASSUME NEW d \in Nat, d \in S PROVE d + 1 \in S
  <2>1. E[d + 1] = 1 * E[(d + 1) - 1] /\ (d + 1) - 1 = d
    BY <1>1
  <2> QED BY <1>2, <2>1
<1>3. Nat \subseteq S
  <2>1. 0 \in S
    BY <1>1
  <2> HIDE DEF S
  <2> QED BY <1>2, <2>1, InductiveSet
<1> QED BY <1>3 DEF E

\* The first power is the number itself.
LEMMA PowerFirst ==
    ASSUME NEW x \in Int
    PROVE  Power(x)[1] = x
<1>1. Power(x)[0] = 1 /\ \A d \in Nat \ {0} : Power(x)[d] = x * Power(x)[d - 1]
  BY PowerUnfolds
<1>2. Power(x)[1] = x * Power(x)[1 - 1]
  BY <1>1
<1> QED BY <1>1, <1>2

\* The power of a product is the product of the powers.
LEMMA PowerOfProduct ==
    ASSUME NEW x \in Int, NEW y \in Int, NEW e \in Nat
    PROVE  Power(x * y)[e] = Power(x)[e] * Power(y)[e]
<1> DEFINE X == Power(x)
           Y == Power(y)
           Z == Power(x * y)
           S == {d \in Nat : Z[d] = X[d] * Y[d]}
<1>1. /\ X \in [Nat -> Int] /\ X[0] = 1 /\ \A d \in Nat \ {0} : X[d] = x * X[d - 1]
      /\ Y \in [Nat -> Int] /\ Y[0] = 1 /\ \A d \in Nat \ {0} : Y[d] = y * Y[d - 1]
  BY PowerUnfolds
<1>2. Z[0] = 1 /\ \A d \in Nat \ {0} : Z[d] = (x * y) * Z[d - 1]
  <2>1. x * y \in Int
    OBVIOUS
  <2> QED BY <2>1, PowerUnfolds
<1> HIDE DEF X, Y, Z
<1>3. ASSUME NEW d \in Nat, d \in S PROVE d + 1 \in S
  <2> DEFINE u == X[d]
             v == Y[d]
  <2>1. (d + 1) - 1 = d /\ d + 1 \in Nat \ {0} /\ u \in Int /\ v \in Int
    BY <1>1
  <2>2. X[d + 1] = x * u /\ Y[d + 1] = y * v /\ Z[d + 1] = (x * y) * (u * v)
    BY <1>1, <1>2, <1>3, <2>1
  <2>3. (x * y) * (u * v) = (x * u) * (y * v)
    <3> HIDE DEF u, v
    <3> QED BY <2>1
  <2> QED BY <2>1, <2>2, <2>3
<1>4. Nat \subseteq S
  <2>1. 0 \in S
    BY <1>1, <1>2
  <2> HIDE DEF S
  <2> QED BY <1>3, <2>1, InductiveSet
<1> QED BY <1>4 DEF X, Y, Z

\* A power of a power multiplies the exponents.
LEMMA PowerOfPower ==
    ASSUME NEW x \in Int, NEW a \in Nat, NEW e \in Nat
    PROVE  Power(Power(x)[a])[e] = Power(x)[a * e]
<1> DEFINE X == Power(x)
           Z == Power(X[a])
           S == {d \in Nat : Z[d] = X[a * d]}
<1>1. X \in [Nat -> Int] /\ X[0] = 1
  BY PowerUnfolds
<1>2. \A d \in Nat : X[a * d + a] = X[a * d] * X[a]
  <2>1. \A d \in Nat : a * d \in Nat
    OBVIOUS
  <2> QED BY <2>1, PowerSum
<1>3. Z[0] = 1 /\ \A d \in Nat \ {0} : Z[d] = X[a] * Z[d - 1]
  <2>1. X[a] \in Int
    BY <1>1
  <2> HIDE DEF X
  <2> QED BY <2>1, PowerUnfolds
<1> HIDE DEF X, Z
<1>4. ASSUME NEW d \in Nat, d \in S PROVE d + 1 \in S
  <2>1. (d + 1) - 1 = d /\ d + 1 \in Nat \ {0} /\ a * (d + 1) = a * d + a /\ a * d \in Nat
    OBVIOUS
  <2>2. Z[d + 1] = X[a] * X[a * d]
    BY <1>3, <1>4, <2>1
  <2>3. X[a] * X[a * d] = X[a * d] * X[a]
    BY <1>1, <2>1
  <2> QED BY <1>2, <2>1, <2>2, <2>3
<1>5. Nat \subseteq S
  <2>1. 0 \in S
    BY <1>1, <1>3
  <2> HIDE DEF S
  <2> QED BY <1>4, <2>1, InductiveSet
<1> QED BY <1>5 DEF X, Z

\* Powers respect congruence.
LEMMA SamePower ==
    ASSUME NEW p \in Nat, NEW x \in Int, NEW y \in Int, Same(x, y, p), NEW e \in Nat
    PROVE  Same(Power(x)[e], Power(y)[e], p)
<1> DEFINE X == Power(x)
           Y == Power(y)
           S == {d \in Nat : Same(X[d], Y[d], p)}
<1>1. /\ X \in [Nat -> Int] /\ X[0] = 1 /\ \A d \in Nat \ {0} : X[d] = x * X[d - 1]
      /\ Y \in [Nat -> Int] /\ Y[0] = 1 /\ \A d \in Nat \ {0} : Y[d] = y * Y[d - 1]
  BY PowerUnfolds
<1> HIDE DEF X, Y
<1>2. ASSUME NEW d \in Nat, d \in S PROVE d + 1 \in S
  <2>1. (d + 1) - 1 = d /\ d + 1 \in Nat \ {0} /\ X[d] \in Int /\ Y[d] \in Int
    BY <1>1
  <2>2. Same(X[d], Y[d], p)
    BY <1>2
  <2>3. X[d + 1] = x * X[d] /\ Y[d + 1] = y * Y[d]
    BY <1>1, <2>1
  <2>4. Same(x * X[d], y * Y[d], p)
    BY <2>1, <2>2, SameProduct
  <2> QED BY <2>1, <2>3, <2>4
<1>3. Nat \subseteq S
  <2>1. Same(1, 1, p)
    BY SameOrder
  <2>2. 0 \in S
    BY <1>1, <2>1
  <2> HIDE DEF S
  <2> QED BY <1>2, <2>2, InductiveSet
<1> QED BY <1>3 DEF X, Y

\* A number that is one modulo p keeps that under powers.
LEMMA SamePowerOfOne ==
    ASSUME NEW p \in Nat, NEW x \in Int, Same(x, 1, p), NEW e \in Nat
    PROVE  Same(Power(x)[e], 1, p)
<1>1. Same(Power(x)[e], Power(1)[e], p)
  BY SamePower
<1> QED BY <1>1, PowerOfOne

\* Beside a number whose square vanishes, powers are linear.
LEMMA PowerBesideOne ==
    ASSUME NEW k \in Nat, NEW t \in Int, NEW e \in Nat
    PROVE  Same(Power(1 + t * k)[e], 1 + (e * t) * k, k * k)
<1> DEFINE X == Power(1 + t * k)
           S == {d \in Nat : Same(X[d], 1 + (d * t) * k, k * k)}
<1>0. k * k \in Nat /\ 1 + t * k \in Int
  OBVIOUS
<1>1. X \in [Nat -> Int] /\ X[0] = 1 /\ \A d \in Nat \ {0} : X[d] = (1 + t * k) * X[d - 1]
  BY <1>0, PowerUnfolds
<1> HIDE DEF X
<1>2. ASSUME NEW d \in Nat, d \in S PROVE d + 1 \in S
  <2>1. (d + 1) - 1 = d /\ d + 1 \in Nat \ {0} /\ X[d] \in Int
    BY <1>1
  <2>2. X[d + 1] = (1 + t * k) * X[d]
    BY <1>1, <2>1
  <2>3. PICK c \in Int : X[d] = (1 + (d * t) * k) + c * (k * k)
    BY <1>2 DEF Same
  <2>4. d * t \in Int
    OBVIOUS
  <2> DEFINE w == d * t
  <2>5. (d + 1) * t = w + t
    OBVIOUS
  <2> HIDE DEF w
  <2>6. w \in Int
    BY <2>4 DEF w
  <2>7. (1 + t * k) * ((1 + w * k) + c * (k * k)) = (1 + (w + t) * k) + (w * t + c + t * k * c) * (k * k)
    BY <2>6
  <2>8. w * t + c + t * k * c \in Int
    BY <2>6
  <2>9. X[d] = (1 + w * k) + c * (k * k)
    BY <2>3 DEF w
  <2>10. X[d + 1] = (1 + ((d + 1) * t) * k) + (w * t + c + t * k * c) * (k * k)
    BY <2>2, <2>5, <2>7, <2>9
  <2> QED BY <2>1, <2>8, <2>10 DEF Same
<1>3. Nat \subseteq S
  <2>1. Same(1, 1, k * k)
    BY <1>0, SameOrder
  <2>2. 1 + (0 * t) * k = 1
    OBVIOUS
  <2>3. 0 \in S
    BY <1>1, <2>1, <2>2
  <2> HIDE DEF S
  <2> QED BY <1>2, <2>3, InductiveSet
<1> QED BY <1>3 DEF X

------------------------------------------------------------------------------
(* Divisors, inverses and primes *)

\* k and a have no common divisor but one.
Coprime(a, k) == \A d \in Nat : Same(a, 0, d) /\ Same(k, 0, d) => d = 1

PrimeNumber(p) == p \in Nat /\ p > 1 /\ \A d \in 2 .. p - 1 : ~Same(p, 0, d)

\* A divisor of a positive number is no greater.
LEMMA DivisorBounds ==
    ASSUME NEW d \in Nat, NEW x \in Nat \ {0}, Same(x, 0, d)
    PROVE  d \in 1 .. x
<1>1. PICK c \in Int : x = 0 + c * d
  BY DEF Same
<1>2. c <= 0 => c * d <= 0
  OBVIOUS
<1>3. c >= 1 => c * d >= d
  OBVIOUS
<1>4. d # 0
  <2>1. c * 0 = 0
    OBVIOUS
  <2> QED BY <1>1, <2>1
<1> QED BY <1>1, <1>2, <1>3, <1>4

\* What is left of a multiple after division is again a multiple.
LEMMA RemainderOfMultiple ==
    ASSUME NEW k \in Nat, NEW a \in Int, NEW i \in Int, NEW d \in Nat \ {0}, NEW x \in Int,
           NEW j \in Int, Same(a * i, d, k), Same(a * j, x, k)
    PROVE  \E l \in Int : Same(a * l, x % d, k)
<1> DEFINE c == x \div d
           r == x % d
<1>1. x = d * c + r /\ c \in Int /\ r \in Int
  OBVIOUS
<1> HIDE DEF c, r
<1>2. Same((a * i) * (-c), d * (-c), k)
  <2>1. a * i \in Int /\ -c \in Int /\ Same(-c, -c, k)
    BY <1>1, SameOrder
  <2> QED BY <2>1, SameProduct
<1>3. Same(a * j + (a * i) * (-c), x + d * (-c), k)
  <2>1. a * j \in Int /\ (a * i) * (-c) \in Int /\ d * (-c) \in Int
    BY <1>1
  <2> QED BY <1>2, <2>1, SameSum
<1>4. a * j + (a * i) * (-c) = a * (j + i * (-c)) /\ x + d * (-c) = r /\ j + i * (-c) \in Int
  BY <1>1
<1>5. Same(a * (j + i * (-c)), r, k)
  BY <1>3, <1>4
<1> QED BY <1>4, <1>5 DEF r

\* A number without a common divisor has an inverse.
LEMMA InverseExists ==
    ASSUME NEW a \in Int, NEW k \in Nat \ {0}, Coprime(a, k)
    PROVE  \E i \in Int : Same(a * i, 1, k)
<1> DEFINE B == {d \in Nat \ {0} : \E i \in Int : Same(a * i, d, k)}
<1>1. Same(a * 0, k, k) /\ Same(a * 0, 0, k)
  <2>1. a * 0 = k + (-1) * k /\ a * 0 = 0 + 0 * k
    OBVIOUS
  <2> QED BY <2>1 DEF Same
<1>2. PICK d \in B : \A e \in B : d <= e
  <2>1. k \in B
    BY <1>1
  <2>2. B \subseteq Nat
    OBVIOUS
  <2> HIDE DEF B
  <2> QED BY <2>1, <2>2, LeastNatural
<1>3. PICK i \in Int : Same(a * i, d, k)
  OBVIOUS
<1>4. d \in Nat \ {0}
  OBVIOUS
<1>5. ASSUME NEW x \in Int, NEW j \in Int, Same(a * j, x, k) PROVE Same(x, 0, d)
  <2>1. \E l \in Int : Same(a * l, x % d, k)
    BY <1>3, <1>4, <1>5, RemainderOfMultiple
  <2>2. Same(x, x % d, d) /\ x % d \in 0 .. (d - 1)
    BY <1>4, SameRemainder
  <2> DEFINE r == x % d
  <2> HIDE DEF r
  <2>3. (\E l \in Int : Same(a * l, r, k)) /\ Same(x, r, d) /\ r \in 0 .. (d - 1)
    BY <2>1, <2>2 DEF r
  <2>4. r # 0 => r \in B
    <3>1. r \in Nat
      BY <1>4, <2>3
    <3> QED BY <2>3, <3>1
  <2>5. r = 0
    <3> HIDE DEF B
    <3> QED BY <1>2, <1>4, <2>3, <2>4
  <2> QED BY <2>3, <2>5
<1>6. Same(k, 0, d)
  BY <1>1, <1>5
<1>7. Same(a, 0, d)
  <2>1. Same(a, a, k) /\ a * 1 = a
    BY SameOrder
  <2>2. PICK j \in Int : j = 1
    OBVIOUS
  <2>3. a * j = a
    BY <2>2
  <2>4. Same(a * j, a, k)
    BY <2>1, <2>3
  <2> QED BY <1>5, <2>4
<1>8. d = 1
  BY <1>4, <1>6, <1>7 DEF Coprime
<1> QED BY <1>3, <1>8

\* A prime that does not divide a number has no divisor with it,
LEMMA PrimeCoprime ==
    ASSUME NEW p, PrimeNumber(p), NEW a \in Int, ~Same(a, 0, p)
    PROVE  Coprime(a, p)
<1> SUFFICES ASSUME NEW d \in Nat, Same(a, 0, d), Same(p, 0, d) PROVE d = 1
  BY DEF Coprime
<1>1. p \in Nat \ {0} /\ p > 1
  BY DEF PrimeNumber
<1>2. d \in 1 .. p
  BY <1>1, DivisorBounds
<1>3. d # p
  OBVIOUS
<1>4. d \notin 2 .. p - 1
  BY DEF PrimeNumber
<1> QED BY <1>1, <1>2, <1>3, <1>4

\* and divides a product only with one of its factors.
LEMMA PrimeDividesFactor ==
    ASSUME NEW p, PrimeNumber(p), NEW a \in Int, NEW b \in Int, Same(a * b, 0, p)
    PROVE  Same(a, 0, p) \/ Same(b, 0, p)
<1> SUFFICES ASSUME ~Same(a, 0, p) PROVE Same(b, 0, p)
  OBVIOUS
<1>1. p \in Nat \ {0}
  BY DEF PrimeNumber
<1>2. PICK i \in Int : Same(a * i, 1, p)
  BY <1>1, PrimeCoprime, InverseExists
<1>3. PICK c \in Int : a * i = 1 + c * p
  BY <1>2 DEF Same
<1>4. PICK e \in Int : a * b = 0 + e * p
  BY DEF Same
<1>5. b = (a * i - c * p) * b
  <2>1. a * i - c * p = 1
    BY <1>1, <1>3
  <2> QED BY <2>1
<1>6. (a * i - c * p) * b = (a * b) * i - (c * p) * b
  BY <1>1
<1>7. (e * p) * i - (c * p) * b = 0 + (e * i - c * b) * p /\ e * i - c * b \in Int
  BY <1>1
<1>8. b = 0 + (e * i - c * b) * p
  <2>1. (a * b) * i = (e * p) * i
    BY <1>1, <1>4
  <2> QED BY <1>5, <1>6, <1>7, <2>1
<1> QED BY <1>7, <1>8 DEF Same

\* A number two different primes divide is divided by their product.
LEMMA PrimesDivideProduct ==
    ASSUME NEW p, NEW q, PrimeNumber(p), PrimeNumber(q), p # q,
           NEW x \in Int, NEW y \in Int, Same(x, y, p), Same(x, y, q)
    PROVE  Same(x, y, p * q)
<1>1. p \in Nat \ {0} /\ q \in Nat \ {0} /\ p > 1 /\ q > 1
  BY DEF PrimeNumber
<1>2. PICK c \in Int : x = y + c * p
  BY DEF Same
<1>3. PICK e \in Int : x = y + e * q
  BY DEF Same
<1>4. Same(c * p, 0, q)
  <2>1. c * p = 0 + e * q
    BY <1>1, <1>2, <1>3
  <2> QED BY <2>1 DEF Same
<1>5. ~Same(p, 0, q)
  <2> SUFFICES ASSUME Same(p, 0, q) PROVE FALSE
    OBVIOUS
  <2>1. q \in 1 .. p
    BY <1>1, DivisorBounds
  <2>2. q \notin 2 .. p - 1
    BY DEF PrimeNumber
  <2> QED BY <1>1, <2>1, <2>2
<1>6. Same(c, 0, q)
  BY <1>1, <1>4, <1>5, PrimeDividesFactor
<1>7. PICK f \in Int : c = 0 + f * q
  BY <1>6 DEF Same
<1>8. x = y + f * (p * q)
  <2>1. (f * q) * p = f * (p * q)
    BY <1>1
  <2>2. c * p = (f * q) * p
    BY <1>1, <1>7
  <2> QED BY <1>2, <2>1, <2>2
<1> QED BY <1>8 DEF Same

------------------------------------------------------------------------------
(* Pascal's triangle and Fermat's theorem *)

FirstRow == [k \in Nat |-> IF k = 0 THEN 1 ELSE 0]
NextRow(row) == [k \in Nat |-> IF k = 0 THEN 1 ELSE row[k] + row[k - 1]]

\* The binomial coefficients.
Pascal == LET B[d \in Nat] == IF d = 0 THEN FirstRow ELSE NextRow(B[d - 1]) IN B

\* A row makes a row.
LEMMA RowType ==
    /\ FirstRow \in [Nat -> Int]
    /\ \A row \in [Nat -> Int] : NextRow(row) \in [Nat -> Int]
<1>1. FirstRow \in [Nat -> Int]
  BY DEF FirstRow
<1>2. ASSUME NEW row \in [Nat -> Int] PROVE NextRow(row) \in [Nat -> Int]
  <2>1. ASSUME NEW k \in Nat PROVE (IF k = 0 THEN 1 ELSE row[k] + row[k - 1]) \in Int
    <3>1. k # 0 => k - 1 \in Nat
      OBVIOUS
    <3> QED BY <3>1
  <2> QED BY <2>1 DEF NextRow
<1> QED BY <1>1, <1>2

\* Pascal is the function its recursion describes.
LEMMA PascalUnfolds ==
    /\ Pascal \in [Nat -> [Nat -> Int]]
    /\ Pascal[0] = FirstRow
    /\ \A d \in Nat : Pascal[d + 1] = NextRow(Pascal[d])
<1> DEFINE T == [Nat -> Int]
           prev == [d \in Nat |-> d - 1]
           next == [d \in Nat |-> [t \in T |-> NextRow(t)]]
           Body(f) == [d \in Nat |-> IF d = 0 THEN FirstRow ELSE NextRow(f[d - 1])]
           B == Pascal
<1>1. Recursion(T, FirstRow, prev, next)
  <2>1. FirstRow \in T /\ \A t \in T : NextRow(t) \in T
    BY RowType
  <2>2. \A d \in Nat \ {0} : prev[d] \in 0..(d - 1)
    OBVIOUS
  <2>3. \A d \in Nat, t \in T : next[d][t] \in T
    <3> HIDE DEF T
    <3> QED BY <2>1
  <2> HIDE DEF T, prev, next
  <2> QED BY <2>1, <2>2, <2>3 DEF Recursion
<1>2. PICK f \in [Nat -> T] : f = [d \in Nat |-> IF d = 0 THEN FirstRow ELSE next[d][f[prev[d]]]]
  <2> HIDE DEF T, prev, next
  <2> QED BY <1>1, RecursiveFunctionExists
<1>3. f = Body(f)
  <2>1. ASSUME NEW d \in Nat, d # 0 PROVE next[d][f[prev[d]]] = NextRow(f[d - 1])
    <3>1. d - 1 \in Nat /\ prev[d] = d - 1
      BY <2>1
    <3>2. f[d - 1] \in T
      BY <3>1
    <3> HIDE DEF T
    <3> QED BY <3>1, <3>2
  <2>2. \A d \in Nat : f[d] = IF d = 0 THEN FirstRow ELSE NextRow(f[d - 1])
    BY <1>2, <2>1
  <2>3. f = [d \in Nat |-> f[d]]
    OBVIOUS
  <2> HIDE DEF T, prev, next
  <2> QED BY <2>2, <2>3
<1>4. B = Body(B)
  <2>1. B = CHOOSE g : g = Body(g)
    BY DEF Pascal
  <2> HIDE DEF Body, B
  <2> QED BY <1>3, <2>1
<1> HIDE DEF B
<1>5. B[0] = FirstRow /\ \A d \in Nat : B[d + 1] = NextRow(B[d])
  <2>1. \A d \in Nat : B[d] = IF d = 0 THEN FirstRow ELSE NextRow(B[d - 1])
    BY <1>4
  <2>2. ASSUME NEW d \in Nat PROVE B[d + 1] = NextRow(B[d])
    <3>1. d + 1 \in Nat /\ d + 1 # 0 /\ (d + 1) - 1 = d
      OBVIOUS
    <3> QED BY <2>1, <3>1
  <2> QED BY <2>1, <2>2
<1>6. B = [d \in Nat |-> B[d]]
  BY <1>4
<1> DEFINE S == {d \in Nat : B[d] \in [Nat -> Int]}
<1>7. Nat \subseteq S
  <2>1. 0 \in S
    BY <1>5, RowType
  <2>2. \A d \in Nat : d \in S => d + 1 \in S
    BY <1>5, RowType
  <2> HIDE DEF S
  <2> QED BY <2>1, <2>2, InductiveSet
<1>8. B \in [Nat -> [Nat -> Int]]
  BY <1>6, <1>7
<1> QED BY <1>5, <1>8 DEF B

\* The entries of a row.
LEMMA PascalEntries ==
    ASSUME NEW d \in Nat, NEW k \in Nat
    PROVE  /\ Pascal[d][k] \in Int
           /\ Pascal[d][0] = 1
           /\ k # 0 => Pascal[0][k] = 0
           /\ Pascal[d + 1][k + 1] = Pascal[d][k + 1] + Pascal[d][k]
<1>1. Pascal[d] \in [Nat -> Int] /\ Pascal[0] = FirstRow /\ Pascal[d + 1] = NextRow(Pascal[d])
  BY PascalUnfolds
<1>2. Pascal[d + 1][k + 1] = Pascal[d][k + 1] + Pascal[d][k]
  <2>1. k + 1 \in Nat /\ k + 1 # 0 /\ (k + 1) - 1 = k
    OBVIOUS
  <2>2. NextRow(Pascal[d])[k + 1] = Pascal[d][k + 1] + Pascal[d][(k + 1) - 1]
    BY <2>1 DEF NextRow
  <2> QED BY <1>1, <2>1, <2>2
<1>3. Pascal[d][0] = 1
  <2>1. CASE d = 0
    BY <1>1, <2>1 DEF FirstRow
  <2>2. CASE d # 0
    <3>1. d - 1 \in Nat /\ (d - 1) + 1 = d
      BY <2>2
    <3>2. Pascal[(d - 1) + 1] = NextRow(Pascal[d - 1])
      BY <3>1, PascalUnfolds
    <3> QED BY <3>1, <3>2 DEF NextRow
  <2> QED BY <2>1, <2>2
<1> QED BY <1>1, <1>2, <1>3 DEF FirstRow

\* A row ends with a one.
LEMMA PascalEnds ==
    ASSUME NEW d \in Nat
    PROVE  Pascal[d][d] = 1 /\ \A k \in Nat : k > d => Pascal[d][k] = 0
<1> DEFINE S == {e \in Nat : Pascal[e][e] = 1 /\ \A k \in Nat : k > e => Pascal[e][k] = 0}
<1>1. 0 \in S
  BY PascalEntries
<1>2. ASSUME NEW e \in Nat, e \in S PROVE e + 1 \in S
  <2>1. Pascal[e + 1][e + 1] = 1
    <3>1. e + 1 > e /\ e + 1 \in Nat
      OBVIOUS
    <3>2. Pascal[e][e + 1] = 0 /\ Pascal[e][e] = 1
      BY <1>2, <3>1
    <3> QED BY <3>2, PascalEntries
  <2>2. ASSUME NEW k \in Nat, k > e + 1 PROVE Pascal[e + 1][k] = 0
    <3>1. k - 1 \in Nat /\ k - 1 > e /\ k > e /\ (k - 1) + 1 = k
      BY <2>2
    <3>2. Pascal[e][k] = 0 /\ Pascal[e][k - 1] = 0
      BY <1>2, <3>1
    <3>3. Pascal[e + 1][(k - 1) + 1] = Pascal[e][(k - 1) + 1] + Pascal[e][k - 1]
      BY <3>1, PascalEntries
    <3> QED BY <3>1, <3>2, <3>3
  <2> QED BY <2>1, <2>2
<1>3. Nat \subseteq S
  <2> HIDE DEF S
  <2> QED BY <1>1, <1>2, InductiveSet
<1> QED BY <1>3

\* An entry is that of the row before, times the number of the row, over its place.
LEMMA PascalAbsorbs ==
    ASSUME NEW d \in Nat, NEW k \in Nat
    PROVE  (k + 1) * Pascal[d + 1][k + 1] = (d + 1) * Pascal[d][k]
<1> DEFINE S == {e \in Nat : \A j \in Nat : (j + 1) * Pascal[e + 1][j + 1] = (e + 1) * Pascal[e][j]}
<1>1. 0 \in S
  <2> SUFFICES ASSUME NEW j \in Nat PROVE (j + 1) * Pascal[0 + 1][j + 1] = (0 + 1) * Pascal[0][j]
    OBVIOUS
  <2>1. Pascal[0 + 1][j + 1] = Pascal[0][j + 1] + Pascal[0][j]
    BY PascalEntries
  <2>2. j + 1 \in Nat /\ j + 1 # 0
    OBVIOUS
  <2>3. Pascal[0][j + 1] = 0
    BY <2>2, PascalEntries
  <2>4. CASE j = 0
    <3>1. Pascal[0][j] = 1
      BY <2>4, PascalEntries
    <3>2. (j + 1) * Pascal[0 + 1][j + 1] = 1
      BY <2>1, <2>3, <2>4, <3>1
    <3> QED BY <3>1, <3>2
  <2>5. CASE j # 0
    <3>1. Pascal[0][j] = 0
      BY <2>5, PascalEntries
    <3>2. Pascal[0 + 1][j + 1] = 0
      BY <2>1, <2>3, <3>1
    <3> QED BY <3>1, <3>2
  <2> QED BY <2>4, <2>5
<1>2. ASSUME NEW e \in Nat, e \in S PROVE e + 1 \in S
  <2> SUFFICES ASSUME NEW j \in Nat
               PROVE  (j + 1) * Pascal[(e + 1) + 1][j + 1] = ((e + 1) + 1) * Pascal[e + 1][j]
    OBVIOUS
  <2> DEFINE u == Pascal[e + 1][j + 1]
             v == Pascal[e + 1][j]
             w == Pascal[e][j]
  <2>0. u \in Int /\ v \in Int /\ w \in Int
    <3>1. e + 1 \in Nat /\ j + 1 \in Nat
      OBVIOUS
    <3> QED BY <3>1, PascalEntries
  <2>1. Pascal[(e + 1) + 1][j + 1] = u + v
    <3>1. e + 1 \in Nat
      OBVIOUS
    <3> QED BY <3>1, PascalEntries
  <2>2. (j + 1) * u = (e + 1) * w
    BY <1>2
  <2>3. CASE j = 0
    <3>1. v = 1 /\ w = 1
      <4>1. e + 1 \in Nat
        OBVIOUS
      <4> QED BY <2>3, <4>1, PascalEntries
    <3> HIDE DEF u, v, w
    <3>2. u = e + 1
      BY <2>0, <2>2, <2>3, <3>1
    <3>3. (j + 1) * (u + v) = ((e + 1) + 1) * v
      BY <2>3, <3>1, <3>2
    <3> QED BY <2>1, <3>3 DEF v
  <2>4. CASE j # 0
    <3> DEFINE x == Pascal[e][j - 1]
    <3>1. j - 1 \in Nat /\ (j - 1) + 1 = j
      BY <2>4
    <3>2. x \in Int
      BY <3>1, PascalEntries
    <3>3. v = w + x
      <4>1. Pascal[e + 1][(j - 1) + 1] = Pascal[e][(j - 1) + 1] + Pascal[e][j - 1]
        BY <3>1, PascalEntries
      <4> QED BY <3>1, <4>1
    <3>4. j * v = (e + 1) * x
      <4>1. ((j - 1) + 1) * Pascal[e + 1][(j - 1) + 1] = (e + 1) * Pascal[e][j - 1]
        BY <1>2, <3>1
      <4> QED BY <3>1, <4>1
    <3> HIDE DEF u, v, w, x
    <3>5. (j + 1) * (u + v) = (j + 1) * u + j * v + v
      BY <2>0
    <3>6. (e + 1) * w + (e + 1) * x + v = ((e + 1) + 1) * v
      <4>1. (e + 1) * w + (e + 1) * x = (e + 1) * (w + x)
        BY <2>0, <3>2
      <4>2. (e + 1) * v + v = ((e + 1) + 1) * v
        BY <2>0
      <4> QED BY <3>3, <4>1, <4>2
    <3>7. (j + 1) * (u + v) = ((e + 1) + 1) * v
      BY <2>2, <3>4, <3>5, <3>6
    <3> QED BY <2>1, <3>7 DEF v
  <2> QED BY <2>3, <2>4
<1>3. Nat \subseteq S
  <2> HIDE DEF S
  <2> QED BY <1>1, <1>2, InductiveSet
<1> QED BY <1>3

\* RunUnfolds from the first coefficient.
LEMMA WholeRunUnfolds ==
    ASSUME NEW c \in [Nat -> Int], NEW x \in Int
    PROVE  /\ Run(c, 0, x) \in [Nat -> Int]
           /\ Run(c, 0, x)[0] = 0
           /\ \A k \in Nat : Run(c, 0, x)[k + 1] = Run(c, 0, x)[k] + c[k] * Power(x)[k]
<1>1. PICK lo \in Nat : lo = 0
  OBVIOUS
<1>2. /\ Run(c, lo, x) \in [Nat -> Int]
      /\ Run(c, lo, x)[0] = 0
      /\ \A k \in Nat : Run(c, lo, x)[k + 1] = Run(c, lo, x)[k] + c[lo + k] * Power(x)[k]
  BY RunUnfolds
<1>3. \A k \in Nat : lo + k = k
  BY <1>1
<1> QED BY <1>1, <1>2, <1>3

\* A row is the one before and the same moved by one place.
LEMMA PascalRun ==
    ASSUME NEW d \in Nat, NEW x \in Int, NEW k \in Nat
    PROVE  Run(Pascal[d + 1], 0, x)[k + 1] = Run(Pascal[d], 0, x)[k + 1] + x * Run(Pascal[d], 0, x)[k]
<1> DEFINE E == Power(x)
           C == Pascal[d]
           D == Pascal[d + 1]
           R == Run(C, 0, x)
           Q == Run(D, 0, x)
           S == {j \in Nat : Q[j + 1] = R[j + 1] + x * R[j]}
<1>1. C \in [Nat -> Int] /\ D \in [Nat -> Int]
  <2>1. d + 1 \in Nat
    OBVIOUS
  <2> QED BY <2>1, PascalUnfolds
<1>2. /\ E \in [Nat -> Int] /\ E[0] = 1 /\ \A j \in Nat \ {0} : E[j] = x * E[j - 1]
      /\ R \in [Nat -> Int] /\ R[0] = 0 /\ \A j \in Nat : R[j + 1] = R[j] + C[j] * E[j]
      /\ Q \in [Nat -> Int] /\ Q[0] = 0 /\ \A j \in Nat : Q[j + 1] = Q[j] + D[j] * E[j]
  <2> HIDE DEF C, D
  <2> QED BY <1>1, PowerUnfolds, WholeRunUnfolds
<1>3. C[0] = 1 /\ D[0] = 1 /\ \A j \in Nat : D[j + 1] = C[j + 1] + C[j]
  <2>1. d + 1 \in Nat
    OBVIOUS
  <2> QED BY <2>1, PascalEntries
<1> HIDE DEF E, C, D, R, Q
<1>4. 0 \in S
  <2>1. R[0 + 1] = R[0] + C[0] * E[0] /\ Q[0 + 1] = Q[0] + D[0] * E[0]
    BY <1>2
  <2>2. R[0 + 1] = 1 /\ Q[0 + 1] = 1
    BY <1>2, <1>3, <2>1
  <2>3. x * R[0] = 0
    BY <1>2
  <2> QED BY <2>2, <2>3
<1>5. ASSUME NEW j \in Nat, j \in S PROVE j + 1 \in S
  <2> DEFINE u == C[j + 1]
             v == C[j]
             e == E[j]
             s == R[j + 1]
             r == R[j]
  <2>1. u \in Int /\ v \in Int /\ e \in Int /\ s \in Int /\ r \in Int
    <3>1. j + 1 \in Nat
      OBVIOUS
    <3> QED BY <1>1, <1>2, <3>1
  <2>2. j + 1 \in Nat \ {0} /\ (j + 1) - 1 = j
    OBVIOUS
  <2>3. E[j + 1] = x * e
    BY <1>2, <2>2
  <2>4. R[(j + 1) + 1] = s + u * (x * e) /\ s = r + v * e
    BY <1>2, <2>2, <2>3
  <2>5. Q[(j + 1) + 1] = (s + x * r) + (u + v) * (x * e)
    BY <1>2, <1>3, <1>5, <2>2, <2>3
  <2>6. (s + x * r) + (u + v) * (x * e) = (s + u * (x * e)) + x * s
    <3>1. s = r + v * e
      BY <2>4
    <3> HIDE DEF u, v, e, s, r
    <3>2. x * s = x * r + x * (v * e)
      BY <2>1, <3>1
    <3>3. (u + v) * (x * e) = u * (x * e) + x * (v * e)
      BY <2>1
    <3>4. x * r \in Int /\ x * (v * e) \in Int /\ u * (x * e) \in Int
      BY <2>1
    <3> QED BY <2>1, <3>2, <3>3, <3>4
  <2>7. Q[(j + 1) + 1] = R[(j + 1) + 1] + x * R[j + 1]
    BY <2>4, <2>5, <2>6
  <2> QED BY <2>2, <2>7
<1>6. Nat \subseteq S
  <2> HIDE DEF S
  <2> QED BY <1>4, <1>5, InductiveSet
<1> QED BY <1>6 DEF E, C, D, R, Q

\* The binomial theorem.
LEMMA Binomial ==
    ASSUME NEW x \in Int, NEW d \in Nat
    PROVE  Run(Pascal[d], 0, x)[d + 1] = Power(x + 1)[d]
<1> DEFINE E == Power(x + 1)
           S == {e \in Nat : Run(Pascal[e], 0, x)[e + 1] = E[e]}
<1>1. E \in [Nat -> Int] /\ E[0] = 1 /\ \A j \in Nat \ {0} : E[j] = (x + 1) * E[j - 1]
  <2>1. x + 1 \in Int
    OBVIOUS
  <2> QED BY <2>1, PowerUnfolds
<1>2. \A e \in Nat : Pascal[e] \in [Nat -> Int]
  BY PascalUnfolds
<1>3. \A e \in Nat : /\ Run(Pascal[e], 0, x) \in [Nat -> Int] /\ Run(Pascal[e], 0, x)[0] = 0
                     /\ \A j \in Nat : Run(Pascal[e], 0, x)[j + 1] = Run(Pascal[e], 0, x)[j] + Pascal[e][j] * Power(x)[j]
  BY <1>2, WholeRunUnfolds
<1>4. Power(x) \in [Nat -> Int] /\ Power(x)[0] = 1
  BY PowerUnfolds
<1> HIDE DEF E
<1>5. 0 \in S
  <2>1. Run(Pascal[0], 0, x)[0 + 1] = Run(Pascal[0], 0, x)[0] + Pascal[0][0] * Power(x)[0]
    BY <1>3
  <2>2. Pascal[0][0] = 1
    BY PascalEntries
  <2> QED BY <1>1, <1>3, <1>4, <2>1, <2>2
<1>6. ASSUME NEW e \in Nat, e \in S PROVE e + 1 \in S
  <2> DEFINE R == Run(Pascal[e], 0, x)
             f == e + 1
  <2>1. f \in Nat \ {0} /\ f - 1 = e
    OBVIOUS
  <2>2. Run(Pascal[e + 1], 0, x)[f + 1] = R[f + 1] + x * R[f]
    BY <2>1, PascalRun
  <2>3. R[f + 1] = R[f] + Pascal[e][f] * Power(x)[f]
    BY <1>3, <2>1
  <2>4. Pascal[e][f] = 0
    BY <2>1, PascalEnds
  <2>5. R[f] = E[e] /\ R[f] \in Int
    BY <1>1, <1>6
  <2>6. Power(x)[f] \in Int
    BY <1>4, <2>1
  <2>7. R[f + 1] = R[f]
    <3> DEFINE rf == R[f]
               w == Power(x)[f]
    <3> HIDE DEF rf, w
    <3>1. rf + 0 * w = rf
      BY <2>5, <2>6 DEF rf, w
    <3> QED BY <2>3, <2>4, <3>1 DEF rf, w
  <2>8. E[f] = (x + 1) * E[e]
    BY <1>1, <2>1
  <2> DEFINE z == E[e]
  <2>9. z \in Int
    BY <1>1
  <2>10. z + x * z = (x + 1) * z
    <3> HIDE DEF z
    <3> QED BY <2>9
  <2>11. Run(Pascal[e + 1], 0, x)[(e + 1) + 1] = E[e + 1]
    BY <2>2, <2>5, <2>7, <2>8, <2>10
  <2> QED BY <2>1, <2>11
<1>7. Nat \subseteq S
  <2> HIDE DEF S
  <2> QED BY <1>5, <1>6, InductiveSet
<1> QED BY <1>7 DEF E

\* Inside the row of a prime everything is a multiple of it.
LEMMA PascalPrimeRow ==
    ASSUME NEW p, PrimeNumber(p), NEW k \in 1 .. p - 1
    PROVE  Same(Pascal[p][k], 0, p)
<1>1. p \in Nat \ {0} /\ p > 1 /\ k \in Nat \ {0}
  BY DEF PrimeNumber
<1>2. p - 1 \in Nat /\ (p - 1) + 1 = p /\ k - 1 \in Nat /\ (k - 1) + 1 = k
  BY <1>1
<1>3. Pascal[p][k] \in Int /\ Pascal[p - 1][k - 1] \in Int
  BY <1>1, <1>2, PascalEntries
<1>4. k * Pascal[p][k] = p * Pascal[p - 1][k - 1]
  <2>1. ((k - 1) + 1) * Pascal[(p - 1) + 1][(k - 1) + 1] = ((p - 1) + 1) * Pascal[p - 1][k - 1]
    BY <1>2, PascalAbsorbs
  <2> QED BY <1>2, <2>1
<1>5. Same(k * Pascal[p][k], 0, p)
  <2> DEFINE w == Pascal[p - 1][k - 1]
  <2>1. k * Pascal[p][k] = 0 + w * p
    <3>1. w \in Int
      BY <1>3
    <3> HIDE DEF w
    <3>2. p * w = 0 + w * p
      BY <1>1, <3>1
    <3> QED BY <1>4, <3>2 DEF w
  <2> QED BY <1>3, <2>1 DEF Same
<1>6. ~Same(k, 0, p)
  <2> SUFFICES ASSUME Same(k, 0, p) PROVE FALSE
    OBVIOUS
  <2>1. p \in 1 .. k
    BY <1>1, DivisorBounds
  <2> QED BY <1>1, <2>1
<1> QED BY <1>1, <1>3, <1>5, <1>6, PrimeDividesFactor

\* Modulo a prime the power of a sum is the sum of the powers.
LEMMA PrimePowerOfSuccessor ==
    ASSUME NEW p, PrimeNumber(p), NEW x \in Int
    PROVE  Same(Power(x + 1)[p], Power(x)[p] + 1, p)
<1>1. p \in Nat \ {0} /\ p > 1
  BY DEF PrimeNumber
<1> DEFINE C == Pascal[p]
           R == Run(C, 0, x)
           E == Power(x)
           S == {j \in Nat : j < p => Same(R[j + 1], 1, p)}
<1>2. C \in [Nat -> Int] /\ C[0] = 1 /\ C[p] = 1
  BY <1>1, PascalUnfolds, PascalEntries, PascalEnds
<1>3. /\ E \in [Nat -> Int] /\ E[0] = 1
      /\ R \in [Nat -> Int] /\ R[0] = 0 /\ \A j \in Nat : R[j + 1] = R[j] + C[j] * E[j]
  <2> HIDE DEF C
  <2> QED BY <1>2, PowerUnfolds, WholeRunUnfolds
<1>4. R[p + 1] = Power(x + 1)[p]
  BY <1>1, Binomial
<1>5. \A j \in Nat : j > 0 /\ j < p => Same(C[j], 0, p)
  <2>1. \A j \in Nat : j > 0 /\ j < p => j \in 1 .. p - 1
    BY <1>1
  <2> QED BY <2>1, PascalPrimeRow
<1> HIDE DEF C, R, E
<1>6. 0 \in S
  <2>1. R[0 + 1] = R[0] + C[0] * E[0]
    BY <1>3
  <2>2. R[0 + 1] = 1
    BY <1>2, <1>3, <2>1
  <2> QED BY <1>1, <2>2, SameOrder
<1>7. ASSUME NEW j \in Nat, j \in S PROVE j + 1 \in S
  <2> SUFFICES ASSUME j + 1 < p PROVE Same(R[(j + 1) + 1], 1, p)
    OBVIOUS
  <2>1. j < p /\ j + 1 \in Nat /\ j + 1 > 0
    BY <1>1
  <2>2. Same(R[j + 1], 1, p) /\ Same(C[j + 1], 0, p)
    BY <1>5, <1>7, <2>1
  <2>3. R[j + 1] \in Int /\ C[j + 1] \in Int /\ E[j + 1] \in Int
    BY <1>2, <1>3, <2>1
  <2> DEFINE r == R[j + 1]
             u == C[j + 1]
             e == E[j + 1]
  <2>4. R[(j + 1) + 1] = r + u * e
    BY <1>3, <2>1
  <2> HIDE DEF r, u, e
  <2>5. r \in Int /\ u \in Int /\ e \in Int /\ Same(r, 1, p) /\ Same(u, 0, p)
    BY <2>2, <2>3 DEF r, u, e
  <2>6. Same(u * e, 0 * e, p)
    <3>1. Same(e, e, p)
      BY <1>1, <2>5, SameOrder
    <3> QED BY <1>1, <2>5, <3>1, SameProduct
  <2>7. Same(r + u * e, 1 + 0 * e, p)
    <3>1. u * e \in Int /\ 0 * e \in Int
      BY <2>5
    <3> QED BY <1>1, <2>5, <2>6, <3>1, SameSum
  <2>8. 1 + 0 * e = 1
    BY <2>5
  <2> QED BY <2>4, <2>7, <2>8
<1>8. Nat \subseteq S
  <2> HIDE DEF S
  <2> QED BY <1>6, <1>7, InductiveSet
<1>9. Same(R[p], 1, p)
  <2>1. p - 1 \in Nat /\ p - 1 < p /\ (p - 1) + 1 = p
    BY <1>1
  <2>2. Same(R[(p - 1) + 1], 1, p)
    BY <1>8, <2>1
  <2> QED BY <2>1, <2>2
<1>10. R[p + 1] = R[p] + E[p]
  <2>1. R[p + 1] = R[p] + C[p] * E[p] /\ E[p] \in Int
    BY <1>1, <1>3
  <2> QED BY <1>2, <2>1
<1>11. Same(R[p] + E[p], 1 + E[p], p)
  <2>1. R[p] \in Int /\ E[p] \in Int /\ Same(E[p], E[p], p)
    BY <1>1, <1>3, SameOrder
  <2> QED BY <1>1, <1>9, <2>1, SameSum
<1>12. 1 + E[p] = E[p] + 1
  BY <1>1, <1>3
<1> QED BY <1>4, <1>10, <1>11, <1>12 DEF E

\* Fermat's theorem.
LEMMA Fermat ==
    ASSUME NEW p, PrimeNumber(p), NEW x \in Nat
    PROVE  /\ Same(Power(x)[p], x, p)
           /\ ~Same(x, 0, p) => Same(Power(x)[p - 1], 1, p)
<1>1. p \in Nat \ {0} /\ p > 1 /\ p - 1 \in Nat
  BY DEF PrimeNumber
<1> DEFINE S == {y \in Nat : Same(Power(y)[p], y, p)}
<1>2. 0 \in S
  <2>1. Power(0)[p] = 0 * Power(0)[p - 1] /\ Power(0)[p - 1] \in Int
    BY <1>1, PowerUnfolds
  <2>2. Power(0)[p] = 0
    BY <2>1
  <2> QED BY <1>1, <2>2, SameOrder
<1>3. ASSUME NEW y \in Nat, y \in S PROVE y + 1 \in S
  <2>1. Same(Power(y + 1)[p], Power(y)[p] + 1, p)
    BY PrimePowerOfSuccessor
  <2>2. Same(Power(y)[p] + 1, y + 1, p)
    <3>1. Power(y)[p] \in Int /\ Same(1, 1, p)
      BY <1>1, PowerUnfolds, SameOrder
    <3> QED BY <1>1, <1>3, <3>1, SameSum
  <2>3. Power(y + 1)[p] \in Int /\ Power(y)[p] + 1 \in Int /\ y + 1 \in Int
    <3>1. y + 1 \in Int
      OBVIOUS
    <3> QED BY <1>1, <3>1, PowerUnfolds
  <2>4. Same(Power(y + 1)[p], y + 1, p)
    BY <1>1, <2>1, <2>2, <2>3, SameOrder
  <2> QED BY <2>4
<1>4. Same(Power(x)[p], x, p)
  <2>1. Nat \subseteq S
    <3> HIDE DEF S
    <3> QED BY <1>2, <1>3, InductiveSet
  <2> QED BY <2>1
<1>5. ASSUME ~Same(x, 0, p) PROVE Same(Power(x)[p - 1], 1, p)
  <2> DEFINE e == Power(x)[p - 1]
  <2>1. e \in Int /\ Power(x)[p] = x * e
    BY <1>1, PowerUnfolds
  <2> HIDE DEF e
  <2>2. PICK c \in Int : x * e = x + c * p
    BY <1>4, <2>1 DEF Same
  <2>3. x * (e - 1) = 0 + c * p
    BY <1>1, <2>1, <2>2
  <2>4. Same(x * (e - 1), 0, p)
    BY <2>3 DEF Same
  <2>5. Same(e - 1, 0, p)
    <3>1. e - 1 \in Int
      BY <2>1
    <3> QED BY <1>5, <2>4, <3>1, PrimeDividesFactor
  <2>6. PICK f \in Int : e - 1 = 0 + f * p
    BY <2>5 DEF Same
  <2>7. e = 1 + f * p
    BY <1>1, <2>1, <2>6
  <2> QED BY <2>7 DEF Same, e
<1> QED BY <1>4, <1>5

==============================================================================
