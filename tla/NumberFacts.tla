------------------------------ MODULE NumberFacts ------------------------------
(***************************************************************************)
(* Facts about numbers that the proofs share: division, which the          *)
(* alignment of the heap and the blocks of the file system rest on; and    *)
(* induction, for sums over a list.  The library's induction theorems take *)
(* the property as an operator; here it is a set of numbers, and the       *)
(* induction is that a nonempty set has a least number.                    *)
(***************************************************************************)
EXTENDS Integers, WellFoundedInduction, TLAPS

-------------------------------------------------------------------------------
\* The only multiple of a between 0 and a is 0.
LEMMA SmallMultiple ==
  ASSUME NEW a \in Nat \ {0}, NEW m \in Int, 0 <= a * m, a * m < a
  PROVE  m = 0
<1>1. CASE m >= 1
  <2>1. a * m >= a
    BY <1>1
  <2> QED
    BY <2>1
<1>2. CASE m <= -1
  <2>1. a * m <= -a
    BY <1>2
  <2> QED
    BY <2>1
<1> QED
  BY <1>1, <1>2

\* A number is its quotient times the divisor and a remainder below the divisor.
LEMMA DivMod ==
  ASSUME NEW a \in Nat \ {0}, NEW p \in Nat
  PROVE  /\ p = a * (p \div a) + (p % a)
         /\ p \div a \in Nat
         /\ p % a \in 0 .. (a - 1)
<1> DEFINE q == p \div a
<1> DEFINE r == p % a
<1>1. p = a * q + r /\ q \in Int /\ r \in 0 .. (a - 1)
  OBVIOUS
<1>2. q >= 0
  <2> HIDE DEF q, r
  <2>1. CASE q <= -1
    <3>1. a * q <= -a
      BY <1>1, <2>1
    <3> QED
      BY <1>1, <3>1
  <2> QED
    BY <1>1, <2>1
<1> QED
  BY <1>1, <1>2

\* A multiple of a leaves no remainder.
LEMMA MultipleMod ==
  ASSUME NEW a \in Nat \ {0}, NEW k \in Nat
  PROVE  (a * k) % a = 0
<1> DEFINE x == a * k
<1> DEFINE d == x \div a
<1> DEFINE r == x % a
<1>1. x \in Nat
  OBVIOUS
<1>2. a * k = a * d + r /\ d \in Nat /\ r \in 0 .. (a - 1)
  BY <1>1, DivMod
<1>3. r = a * (k - d) /\ k - d \in Int
  <2> HIDE DEF d, r
  <2> QED
    BY <1>2
<1>4. k - d = 0
  <2> HIDE DEF d, r
  <2> QED
    BY <1>2, <1>3, SmallMultiple
<1> QED
  BY <1>2, <1>3, <1>4

\* Quotient and remainder are the only numbers that make up p this way.
LEMMA QuotientUnique ==
  ASSUME NEW a \in Nat \ {0}, NEW q \in Nat, NEW r \in 0 .. (a - 1)
  PROVE  (a * q + r) \div a = q /\ (a * q + r) % a = r
<1> DEFINE p == a * q + r
<1> DEFINE d == p \div a
<1> DEFINE m == p % a
<1>1. p \in Nat
  <2>1. a * q \in Nat
    OBVIOUS
  <2> QED
    BY <2>1
<1>2. p = a * d + m /\ d \in Nat /\ m \in 0 .. (a - 1)
  BY <1>1, DivMod
<1>3. p = a * q + r
  OBVIOUS
<1> HIDE DEF p, d, m
<1>4. CASE q >= d
  <2>1. a * (q - d) = m - r /\ q - d \in Int
    BY <1>2, <1>3
  <2>2. a * (q - d) >= 0
    BY <1>4, <1>2
  <2>3. q - d = 0
    BY <1>2, <2>1, <2>2, SmallMultiple
  <2> QED
    BY <1>2, <1>3, <2>1, <2>3 DEF p, d, m
<1>5. CASE q < d
  <2>1. a * (d - q) = r - m /\ d - q \in Int
    BY <1>2, <1>3
  <2>2. a * (d - q) >= 0
    BY <1>5, <1>2
  <2>3. d - q = 0
    BY <1>2, <2>1, <2>2, SmallMultiple
  <2> QED
    BY <1>5, <1>2, <2>3
<1> QED
  BY <1>2, <1>4, <1>5

-------------------------------------------------------------------------------
\* A nonempty set of numbers has a least one.
LEMMA LeastOne ==
  ASSUME NEW S \in SUBSET Nat, S # {}
  PROVE  /\ (CHOOSE k \in S : \A m \in S : k <= m) \in S
         /\ \A m \in S : (CHOOSE k \in S : \A n \in S : k <= n) <= m
<1>1. PICK l \in S : \A k \in S : ~ (<<k, l>> \in OpToRel(<, Nat))
  BY NatLessThanWellFounded, WFMin
<1>2. \A k \in S : l <= k
  <2>1. ASSUME NEW k \in S, k < l
        PROVE  <<k, l>> \in OpToRel(<, Nat)
    <3>1. <<k, l>> \in Nat \X Nat /\ <<k, l>>[1] < <<k, l>>[2]
      BY <2>1
    <3> QED
      BY <3>1, Zenon DEF OpToRel
  <2>2. \A k \in S : ~ (k < l)
    BY <1>1, <2>1
  <2> QED
    BY <2>2
<1> QED
  BY <1>2

\* A set that holds 0 and with each number the next one holds all of them.
LEMMA Induction ==
  ASSUME NEW S, 0 \in S, \A n \in Nat : n \in S => n + 1 \in S
  PROVE  \A n \in Nat : n \in S
<1> DEFINE T == {n \in Nat : n \notin S}
<1>1. SUFFICES ASSUME T # {} PROVE FALSE
  OBVIOUS
<1>2. PICK l \in T : \A m \in T : l <= m
  BY <1>1, LeastOne
<1>3. l # 0 /\ l \in Nat /\ l \notin S
  BY <1>2
<1>4. l - 1 \in Nat /\ l - 1 \notin T
  BY <1>2, <1>3
<1>5. (l - 1) + 1 \in S
  BY <1>4
<1> QED
  BY <1>3, <1>5

\* A function may be defined by its first value and the step to the next one.
Follows(g, last, base, h) ==
  g[0] = base /\ \A m \in Nat : m < last => g[m + 1] = h[<<m, g[m]>>]

\* There is no more than one such function,
LEMMA RecursionUnique ==
  ASSUME NEW base, NEW h, NEW last \in Nat, NEW f, NEW g,
         Follows(f, last, base, h), Follows(g, last, base, h)
  PROVE  \A n \in 0 .. last : f[n] = g[n]
<1> DEFINE S == {n \in Nat : n <= last => f[n] = g[n]}
<1>1. 0 \in S
  BY DEF Follows
<1>2. ASSUME NEW n \in Nat, n \in S
      PROVE  n + 1 \in S
  <2>1. SUFFICES ASSUME n + 1 <= last PROVE f[n + 1] = g[n + 1]
    OBVIOUS
  <2>2. n < last /\ f[n] = g[n]
    BY <1>2, <2>1
  <2> QED
    BY <2>2 DEF Follows
<1> HIDE DEF S
<1>3. \A n \in Nat : n \in S
  BY <1>1, <1>2, Induction
<1> QED
  BY <1>3 DEF S

Recursive(f, V, base, h) ==
  f \in [Nat -> V] /\ f[0] = base /\ \A n \in Nat : f[n + 1] = h[<<n, f[n]>>]

\* and there is one for the whole of Nat.
LEMMA Recursion ==
  ASSUME NEW V, NEW base \in V, NEW h \in [Nat \X V -> V]
  PROVE  \E f : Recursive(f, V, base, h)
<1> DEFINE Part(n, g) == g \in [0 .. n -> V] /\ Follows(g, n, base, h)
<1> DEFINE S == {n \in Nat : \E g : Part(n, g)}
<1>1. 0 \in S
  <2> DEFINE g == [n \in 0 .. 0 |-> base]
  <2>1. Part(0, g)
    BY DEF Follows
  <2> QED
    BY <2>1
<1>2. ASSUME NEW n \in Nat, n \in S
      PROVE  n + 1 \in S
  <2>1. PICK g : Part(n, g)
    BY <1>2
  <2> DEFINE k == [m \in 0 .. n + 1 |-> IF m = n + 1 THEN h[<<n, g[n]>>] ELSE g[m]]
  <2>2. h[<<n, g[n]>>] \in V
    BY <2>1
  <2>3. k \in [0 .. n + 1 -> V]
    BY <2>1, <2>2
  <2>4. k[0] = base
    BY <2>1 DEF Follows
  <2>5. ASSUME NEW m \in Nat, m < n + 1
        PROVE  k[m + 1] = h[<<m, k[m]>>]
    <3>1. m \in 0 .. n /\ k[m] = g[m]
      BY <2>5
    <3>2. CASE m = n
      <4>1. n + 1 \in 0 .. n + 1 /\ k[n + 1] = h[<<n, g[n]>>]
        OBVIOUS
      <4> QED
        BY <3>1, <3>2, <4>1
    <3>3. CASE m < n
      <4>1. k[m + 1] = g[m + 1]
        BY <3>3
      <4> QED
        BY <2>1, <3>1, <3>3, <4>1 DEF Follows
    <3> QED
      BY <3>1, <3>2, <3>3
  <2> HIDE DEF k
  <2>6. Part(n + 1, k)
    BY <2>3, <2>4, <2>5 DEF Follows
  <2> QED
    BY <2>6
<1>3. \A n \in Nat : \E g : Part(n, g)
  <2> HIDE DEF S
  <2>1. \A n \in Nat : n \in S
    BY <1>1, <1>2, Induction
  <2> QED
    BY <2>1 DEF S
<1> DEFINE part == [n \in Nat |-> CHOOSE g : Part(n, g)]
<1>4. \A n \in Nat : Part(n, part[n])
  BY <1>3
<1> HIDE DEF part
<1> DEFINE f == [n \in Nat |-> part[n][n]]
<1>5. f \in [Nat -> V]
  BY <1>4
<1>6. f[0] = base
  BY <1>4 DEF Follows
<1>7. ASSUME NEW n \in Nat
      PROVE  f[n + 1] = h[<<n, f[n]>>]
  <2>1. Follows(part[n], n, base, h) /\ Follows(part[n + 1], n + 1, base, h)
    BY <1>4
  <2>2. Follows(part[n + 1], n, base, h)
    BY <2>1 DEF Follows
  <2>3. part[n][n] = part[n + 1][n]
    BY <2>1, <2>2, RecursionUnique
  <2>4. part[n + 1][n + 1] = h[<<n, part[n + 1][n]>>]
    BY <2>1 DEF Follows
  <2> QED
    BY <2>3, <2>4
<1> HIDE DEF f
<1> QED
  BY <1>5, <1>6, <1>7 DEF Recursive
===============================================================================
