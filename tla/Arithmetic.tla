---------------------------- MODULE Arithmetic ----------------------------
(***************************************************************************)
(* Facts about numbers that the proofs of several components need:         *)
(* division with remainder, as indices and pages are taken out of an       *)
(* address, and induction over the naturals, stated with sets and          *)
(* functions so that a proof can cite it.                                  *)
(***************************************************************************)
EXTENDS Integers, WellFoundedInduction, TLAPS

\* Division with remainder, and that its result is the only one.
LEMMA DivMod ==
  ASSUME NEW a \in Nat, NEW n \in Nat \ {0}
  PROVE  /\ a \div n \in Nat /\ a % n \in 0..(n - 1)
         /\ a = (a \div n) * n + (a % n)
BY SMT

LEMMA Product ==
  ASSUME NEW a \in Nat, NEW b \in Nat
  PROVE  a * b \in Nat
BY SMT

LEMMA Monotone ==
  ASSUME NEW a \in Nat, NEW b \in Nat, NEW n \in Nat, a <= b
  PROVE  a * n <= b * n
BY SMT

LEMMA QuotientUnique ==
  ASSUME NEW q \in Nat, NEW n \in Nat \ {0}, NEW r \in 0..(n - 1)
  PROVE  (q * n + r) \div n = q
<1> DEFINE a == q * n + r
<1>0. q * n \in Nat
  BY Product
<1>1. a \in Nat
  BY <1>0
<1> HIDE DEF a
<1> DEFINE x == a \div n
           s == a % n
<1>2. x \in Nat /\ s \in 0..(n - 1) /\ a = x * n + s
  BY <1>1, DivMod
<1> HIDE DEF x, s
<1>3. q * n + r = x * n + s
  BY <1>2 DEF a
<1>4. x * n \in Nat
  BY <1>2, Product
<1>5. CASE x < q
  <2>1. x + 1 <= q /\ x + 1 \in Nat
    BY <1>2, <1>5
  <2>2. (x + 1) * n <= q * n
    BY <1>2, <2>1, Monotone
  <2>3. (x + 1) * n = x * n + n
    BY <1>2
  <2> QED BY <1>0, <1>2, <1>3, <1>4, <2>2, <2>3
<1>6. CASE q < x
  <2>1. q + 1 <= x /\ q + 1 \in Nat
    BY <1>2, <1>6
  <2>2. (q + 1) * n <= x * n
    BY <1>2, <2>1, Monotone
  <2>3. (q + 1) * n = q * n + n
    OBVIOUS
  <2> QED BY <1>0, <1>2, <1>3, <1>4, <2>2, <2>3
<1> QED BY <1>2, <1>5, <1>6 DEF x, a

\* The index of a level is what is left when the lower levels' bits are
\* shifted out and the higher levels' cut off.
LEMMA DivDiv ==
  ASSUME NEW p \in Nat, NEW a \in Nat \ {0}, NEW n \in Nat \ {0}
  PROVE  p \div (a * n) = (p \div a) \div n
<1> DEFINE x == p \div a
           r == p % a
           y == x \div n
           s == x % n
<1>1. x \in Nat /\ r \in 0..(a - 1) /\ p = x * a + r
  BY DivMod
<1>2. y \in Nat /\ s \in 0..(n - 1) /\ x = y * n + s
  BY <1>1, DivMod
<1> HIDE DEF x, r, y, s
<1>3. p = y * (a * n) + (s * a + r)
  <2>1. x * a = (y * n + s) * a
    BY <1>2
  <2>2. (y * n + s) * a = y * (a * n) + s * a
    BY <1>2
  <2>3. y * (a * n) \in Nat /\ s * a \in Nat
    BY <1>2, Product
  <2> QED BY <1>1, <2>1, <2>2, <2>3
<1>4. a * n \in Nat \ {0}
  BY SMT
<1>5. s * a + r \in 0..(a * n - 1)
  <2>1. s * a <= (n - 1) * a
    BY <1>2, Monotone
  <2>2. (n - 1) * a = a * n - a
    OBVIOUS
  <2>3. s * a \in Nat /\ a * n \in Nat
    BY <1>2, Product
  <2> QED BY <1>1, <2>1, <2>2, <2>3
<1>6. p \div (a * n) = y
  BY <1>2, <1>3, <1>4, <1>5, QuotientUnique
<1> QED BY <1>6 DEF y, x

\* The order of multiples.
LEMMA Multiples ==
  ASSUME NEW a \in Nat, NEW b \in Nat, NEW d \in Nat, a <= b
  PROVE  a * d \in Nat /\ b * d \in Nat /\ a * d <= b * d
BY SMT

\* Two numbers with the same last digit and the same digits before it are equal.
LEMMA DigitsEqual ==
  ASSUME NEW p \in Nat, NEW q \in Nat, NEW n \in Nat \ {0},
         p \div n = q \div n, p % n = q % n
  PROVE  p = q
BY DivMod

\* A number below a * n has, shifted right by a, only one digit.
LEMMA TopDigit ==
  ASSUME NEW p \in Nat, NEW a \in Nat \ {0}, NEW n \in Nat \ {0}, p < a * n
  PROVE  p \div a < n
<1> DEFINE x == p \div a
<1>1. x \in Nat /\ p % a \in 0..(a - 1) /\ p = x * a + (p % a)
  BY DivMod
<1> HIDE DEF x
<1>2. ASSUME n <= x PROVE FALSE
  <2>1. n * a <= x * a
    BY <1>1, <1>2, Monotone
  <2>2. n * a = a * n /\ n * a \in Nat /\ x * a \in Nat
    BY <1>1, Product
  <2> QED BY <1>1, <2>1, <2>2
<1>3. x < n
  BY <1>1, <1>2
<1> QED BY <1>3 DEF x

LEMMA ModOfSmall ==
  ASSUME NEW p \in Nat, NEW n \in Nat \ {0}, p < n
  PROVE  p % n = p
BY SMT

\* One digit more.
LEMMA OneMoreDigit ==
  ASSUME NEW p \in Nat, NEW q \in Nat, NEW a \in Nat \ {0}, NEW n \in Nat \ {0},
         p \div (a * n) = q \div (a * n),
         (p \div a) % n = (q \div a) % n
  PROVE  p \div a = q \div a
<1>1. (p \div a) \div n = (q \div a) \div n
  BY DivDiv
<1>2. p \div a \in Nat /\ q \div a \in Nat
  BY DivMod
<1> QED BY <1>1, <1>2, DigitsEqual

----------------------------------------------------------------------------
(***************************************************************************)
(* Induction: a set of naturals has a least element, so a set that holds 0 *)
(* and with every number the next holds them all, and a function can be    *)
(* defined by recursion.                                                   *)
(***************************************************************************)
LEMMA LeastElement ==
  ASSUME NEW S, S \subseteq Nat, S # {}
  PROVE  \E n \in S : \A m \in S : n <= m
<1>1. PICK R : R = {ss \in Nat \X Nat : ss[1] < ss[2]}
  OBVIOUS
<1>2. IsWellFoundedOn(R, Nat)
  BY <1>1, NatLessThanWellFounded DEF OpToRel
<1>3. PICK x \in S : \A y \in S : ~(<<y, x>> \in R)
  BY <1>2, WFMin
<1>4. \A y \in S : ~(y < x)
  BY <1>1, <1>3
<1> QED BY <1>4

LEMMA Inductive ==
  ASSUME NEW n \in Nat, NEW T, 0 \in T, \A k \in 1..n : k - 1 \in T => k \in T
  PROVE  0..n \subseteq T
<1>1. SUFFICES ASSUME 0..n \ T # {} PROVE FALSE
  OBVIOUS
<1>2. PICK k \in 0..n \ T : \A m \in 0..n \ T : k <= m
  <2>1. 0..n \ T \subseteq Nat
    OBVIOUS
  <2> QED BY <1>1, <2>1, LeastElement
<1>3. k \in 1..n /\ k - 1 \in 0..n
  BY <1>2
<1>4. k - 1 \in T
  BY <1>2, <1>3
<1> QED BY <1>2, <1>3, <1>4

\* F leads from step to step, and f begins with a and follows it.
Leads(F, n, S) == F \in [(1..n) \X S -> S]
Follows(f, F, n, S, a) ==
  f \in [0..n -> S] /\ f[0] = a /\ \A k \in 1..n : f[k] = F[<<k, f[k - 1]>>]

LEMMA Recursion ==
  ASSUME NEW n \in Nat, NEW S, NEW a, a \in S, NEW F, Leads(F, n, S)
  PROVE  \E f : Follows(f, F, n, S, a)
<1>0. F \in [(1..n) \X S -> S]
  BY DEF Leads
<1> DEFINE Good(f, m) == f[0] = a /\ \A k \in 1..m : f[k] = F[<<k, f[k - 1]>>]
           T == {m \in 0..n : \E f \in [0..m -> S] : Good(f, m)}
<1>1. 0 \in T
  <2>1. PICK f : f = [j \in 0..0 |-> a]
    OBVIOUS
  <2>2. f \in [0..0 -> S] /\ f[0] = a /\ 1..0 = {} /\ 0 \in 0..n
    BY <2>1
  <2> QED BY <2>2
<1>2. ASSUME NEW k \in 1..n, k - 1 \in T PROVE k \in T
  <2>1. PICK f \in [0..(k - 1) -> S] : Good(f, k - 1)
    BY <1>2
  <2>2. PICK v : v = F[<<k, f[k - 1]>>]
    OBVIOUS
  <2>3. v \in S
    <3>1. k - 1 \in 0..(k - 1)
      OBVIOUS
    <3>2. f[k - 1] \in S
      BY <2>1, <3>1
    <3> QED BY <1>0, <2>2, <3>2
  <2>4. PICK g : g = [j \in 0..k |-> IF j = k THEN v ELSE f[j]]
    OBVIOUS
  <2>5. g \in [0..k -> S]
    <3>1. \A j \in 0..k : j = k \/ j \in 0..(k - 1)
      OBVIOUS
    <3> QED BY <2>1, <2>3, <2>4, <3>1
  <2>6. g[0] = a
    BY <2>1, <2>4
  <2>7. ASSUME NEW j \in 1..k PROVE g[j] = F[<<j, g[j - 1]>>]
    <3>1. CASE j = k
      <4>1. g[k] = v /\ g[k - 1] = f[k - 1]
        BY <2>4
      <4> QED BY <2>2, <3>1, <4>1
    <3>2. CASE j # k
      <4>1. j \in 1..(k - 1) /\ j \in 0..k /\ j - 1 \in 0..k /\ j - 1 # k
        BY <3>2
      <4>2. g[j] = f[j] /\ g[j - 1] = f[j - 1]
        BY <2>4, <3>2, <4>1
      <4> QED BY <2>1, <4>1, <4>2
    <3> QED BY <3>1, <3>2
  <2>8. Good(g, k)
    BY <2>6, <2>7
  <2> QED BY <2>5, <2>8
<1>3. n \in T
  <2> HIDE DEF T
  <2>1. 0..n \subseteq T
    BY <1>1, <1>2, Inductive
  <2> QED BY <2>1
<1> QED BY <1>3 DEF Follows
===========================================================================
