-------------------------- MODULE HashTableProofs --------------------------
(***************************************************************************)
(* Proofs about the hash table and its linear form, for every set of keys, *)
(* every hash function, every size that hcreate_r() can choose and         *)
(* whatever characters names and values have.                              *)
(***************************************************************************)
EXTENDS EnvText, FiniteSetTheorems, WellFoundedInduction, TLAPS

-----------------------------------------------------------------------------
(***************************************************************************)
(* Induction and recursion over numbers.  The predicate is given as a set, *)
(* the steps of a recursion as functions.                                  *)
(***************************************************************************)
LessThan == {p \in Nat \X Nat : p[1] < p[2]}

LEMMA LeastNat ==
  ASSUME NEW S \in SUBSET Nat, S # {}
  PROVE  \E x \in S : \A y \in S : x <= y
<1>1. IsWellFoundedOn(LessThan, Nat)
  BY NatLessThanWellFounded DEF OpToRel, LessThan
<1>2. PICK z \in S : \A y \in S : ~(<<y, z>> \in LessThan)
  BY <1>1, WFMin
<1>3. \A y \in S : ~(y < z)
  BY <1>2 DEF LessThan
<1> QED BY <1>3

LEMMA Upwards ==
  ASSUME NEW n \in Nat, NEW S, 0 \in S, \A i \in 0 .. n - 1 : i \in S => i + 1 \in S
  PROVE  \A i \in 0 .. n : i \in S
<1> DEFINE Bad == {i \in 0 .. n : i \notin S}
<1>1. SUFFICES ASSUME Bad # {} PROVE FALSE
  OBVIOUS
<1>2. PICK x \in Bad : \A y \in Bad : x <= y
  <2>1. Bad \in SUBSET Nat
    OBVIOUS
  <2> HIDE DEF Bad
  <2> QED BY <1>1, <2>1, LeastNat
<1>3. x # 0 /\ x - 1 \in 0 .. n - 1
  BY <1>2
<1>4. x - 1 \in S
  BY <1>2, <1>3
<1> QED BY <1>2, <1>3, <1>4

LEMMA Downwards ==
  ASSUME NEW n \in Nat, NEW S, n \in S, \A i \in 0 .. n - 1 : i + 1 \in S => i \in S
  PROVE  \A i \in 0 .. n : i \in S
<1> DEFINE T == {i \in 0 .. n : n - i \in S}
<1>1. 0 \in T
  OBVIOUS
<1>2. \A i \in 0 .. n - 1 : i \in T => i + 1 \in T
  <2> SUFFICES ASSUME NEW i \in 0 .. n - 1, i \in T PROVE i + 1 \in T
    OBVIOUS
  <2>1. n - (i + 1) \in 0 .. n - 1 /\ (n - (i + 1)) + 1 = n - i
    OBVIOUS
  <2>2. n - (i + 1) \in S
    BY <2>1
  <2> QED BY <2>2
<1>3. \A i \in 0 .. n : i \in T
  <2> HIDE DEF T
  <2> QED BY <1>1, <1>2, Upwards
<1> QED
  <2> TAKE i \in 0 .. n
  <2>1. n - i \in 0 .. n /\ n - (n - i) = i
    OBVIOUS
  <2> QED BY <1>3, <2>1

\* A function that is defined from its value at a place of smaller measure
\* exists.
Solves(g, D, B, base, nx, add) ==
  \A d \in D : g[d] = IF d \in B THEN base[d] ELSE add[d][g[nx[d]]]

LEMMA Recursion ==
  ASSUME NEW D, NEW V, NEW N \in Nat, NEW mu \in [D -> 0 .. N], NEW B \in SUBSET D,
         NEW base \in [B -> V], NEW nx \in [D \ B -> D], NEW add \in [D \ B -> [V -> V]],
         \A d \in D \ B : mu[nx[d]] < mu[d]
  PROVE  \E g \in [D -> V] : Solves(g, D, B, base, nx, add)
<1> DEFINE Upto(n) == {d \in D : mu[d] < n}
           S == {n \in 0 .. N + 1 : \E g \in [Upto(n) -> V] : Solves(g, Upto(n), B, base, nx, add)}
<1>1. 0 \in S
  <2>1. Upto(0) = {}
    OBVIOUS
  <2>2. [d \in {} |-> 0] \in [{} -> V]
    OBVIOUS
  <2>3. \E g \in [{} -> V] : Solves(g, {}, B, base, nx, add)
    BY <2>2 DEF Solves
  <2> HIDE DEF Upto
  <2>4. \E g \in [Upto(0) -> V] : Solves(g, Upto(0), B, base, nx, add)
    BY <2>1, <2>3
  <2>5. 0 \in 0 .. N + 1
    OBVIOUS
  <2> QED BY <2>4, <2>5
<1>2. ASSUME NEW n \in 0 .. N, n \in S PROVE n + 1 \in S
  <2>1. PICK g \in [Upto(n) -> V] : Solves(g, Upto(n), B, base, nx, add)
    BY <1>2
  <2> DEFINE h == [d \in Upto(n + 1) |-> IF d \in Upto(n) THEN g[d]
                                         ELSE IF d \in B THEN base[d] ELSE add[d][g[nx[d]]]]
  <2>2. \A d \in Upto(n + 1) \ B : nx[d] \in Upto(n)
    BY <1>2
  <2>3. h \in [Upto(n + 1) -> V]
    BY <2>1, <2>2
  <2>4. \A d \in Upto(n) : d \in Upto(n + 1) /\ h[d] = g[d]
    BY <1>2
  <2>5. ASSUME NEW d \in Upto(n + 1)
        PROVE  h[d] = IF d \in B THEN base[d] ELSE add[d][h[nx[d]]]
    <3>1. CASE d \in B
      BY <2>1, <3>1 DEF Solves
    <3>2. CASE d \notin B
      <4>1. h[nx[d]] = g[nx[d]]
        BY <2>2, <2>4, <3>2
      <4>2. h[d] = add[d][g[nx[d]]]
        BY <2>1, <3>2 DEF Solves
      <4> QED BY <3>2, <4>1, <4>2
    <3> QED BY <3>1, <3>2
  <2> HIDE DEF h, Upto
  <2>6. Solves(h, Upto(n + 1), B, base, nx, add)
    BY <2>5 DEF Solves
  <2> QED BY <2>3, <2>6
<1>3. \A n \in 0 .. N + 1 : n \in S
  <2> HIDE DEF S
  <2>1. PICK M \in Nat : M = N + 1
    OBVIOUS
  <2>2. \A n \in 0 .. M - 1 : n \in S => n + 1 \in S
    BY <1>2, <2>1
  <2>3. \A n \in 0 .. M : n \in S
    BY <1>1, <2>2, Upwards
  <2> QED BY <2>1, <2>3
<1>4. Upto(N + 1) = D
  OBVIOUS
<1>5. N + 1 \in S
  <2> HIDE DEF S
  <2> QED BY <1>3
<1>6. \E g \in [Upto(N + 1) -> V] : Solves(g, Upto(N + 1), B, base, nx, add)
  BY <1>5
<1> HIDE DEF Upto, S
<1> QED BY <1>4, <1>6

-----------------------------------------------------------------------------
(***************************************************************************)
(* "Because SIZE is prime this guarantees to step through all available    *)
(* indices" (hsearch_r()).                                                 *)
(***************************************************************************)
LEMMA DivMod ==
  ASSUME NEW a \in Int, NEW b \in Nat \ {0}
  PROVE  \E q \in Int, r \in 0 .. b - 1 : a = q * b + r /\ r = a % b
<1>1. a = b * (a \div b) + (a % b) /\ a \div b \in Int /\ a % b \in 0 .. b - 1
  OBVIOUS
<1>2. b * (a \div b) = (a \div b) * b
  BY <1>1
<1> QED BY <1>1, <1>2

LEMMA Distribute ==
  \A a, b, c \in Int : /\ (a - b) * c = a * c - b * c /\ (a + b) * c = a * c + b * c
                       /\ a * b = b * a /\ a * b \in Int
OBVIOUS

LEMMA Associate == \A a, b, c \in Int : (a * b) * c = a * (b * c)
OBVIOUS

LEMMA Monotone == \A a, b, c \in Nat : a <= b => a * c <= b * c /\ a * c \in Nat
OBVIOUS

LEMMA FactorMod ==
  ASSUME NEW a \in Nat \ {0}, NEW b \in Nat, NEW x \in Nat, a * b = x
  PROVE  x % a = 0
<1>1. x = b * a /\ x \in Int
  BY Distribute
<1>2. PICK q \in Int, r \in 0 .. a - 1 : x = q * a + r /\ r = x % a
  BY <1>1, DivMod
<1>3. r \in Nat /\ r < a
  BY <1>2
<1>4. (b - q) * a = r /\ (q - b) * a = 0 - r
  <2>1. /\ (b - q) * a = b * a - q * a /\ (q - b) * a = q * a - b * a
        /\ b * a \in Int /\ q * a \in Int
    BY <1>2, Distribute
  <2>2. b * a = q * a + r
    BY <1>1, <1>2
  <2> QED BY <1>3, <2>1, <2>2
<1>5. b - q = 0
  <2>1. CASE b - q > 0
    <3>1. 1 <= b - q /\ b - q \in Nat
      BY <2>1
    <3>2. 1 * a <= (b - q) * a
      BY <3>1, Monotone
    <3> QED BY <1>3, <1>4, <3>2
  <2>2. CASE b - q < 0
    <3>1. 1 <= q - b /\ q - b \in Nat
      BY <2>2
    <3>2. 1 * a <= (q - b) * a
      BY <3>1, Monotone
    <3> QED BY <1>3, <1>4, <3>2
  <2> QED BY <2>1, <2>2
<1> QED BY <1>2, <1>4, <1>5

Prime(n) == \A a, b \in Nat : a * b = n => a = 1 \/ a = n

\* isprime() accepts no odd number that has a divisor.
LEMMA IsPrimeIsPrime ==
  ASSUME NEW n \in Nat, n > 3, n % 2 = 1, IsPrime(n)
  PROVE  Prime(n)
<1> SUFFICES ASSUME NEW a \in Nat, NEW b \in Nat, a * b = n, a # 1, a # n PROVE FALSE
  BY DEF Prime
<1>1. b * a = n
  BY Distribute
<1>2. a # 0 /\ b # 0 /\ b # 1
  BY <1>1
<1>3. ASSUME NEW x \in Nat, NEW y \in Nat, x * y = n PROVE x % 2 = 1
  <2>1. PICK q \in Int, r \in 0 .. 2 - 1 : x = q * 2 + r /\ r = x % 2
    <3>1. x \in Int /\ 2 \in Nat \ {0}
      OBVIOUS
    <3> QED BY <3>1, DivMod
  <2>2. CASE x % 2 = 0
    <3>1. x = 2 * q /\ q \in Nat
      BY <2>1, <2>2
    <3>2. n = 2 * (q * y) /\ q * y \in Nat
      BY <1>3, <3>1, Associate, Monotone
    <3>3. n % 2 = 0
      <4>1. 2 \in Nat \ {0}
        OBVIOUS
      <4> QED BY <3>2, <4>1, FactorMod
    <3> QED BY <3>3
  <2> QED BY <2>1, <2>2
<1>4. a % 2 = 1 /\ b % 2 = 1
  BY <1>1, <1>3
<1>5. PICK m \in Nat, c \in Nat : m * c = n /\ m <= c /\ m >= 3 /\ m % 2 = 1
  <2>1. a >= 3 /\ b >= 3
    BY <1>2, <1>4
  <2>2. CASE a <= b
    BY <1>4, <2>1, <2>2
  <2>3. CASE b <= a
    BY <1>1, <1>4, <2>1, <2>3
  <2> QED BY <2>2, <2>3
<1>6. n % m = 0
  <2>1. m \in Nat \ {0}
    BY <1>5
  <2> QED BY <1>5, <2>1, FactorMod
<1>7. PICK div \in 3 .. n + 3 : /\ div * div >= n \/ n % div = 0
                                /\ \A d \in 3 .. div - 1 : d % 2 = 1 => d * d < n /\ n % d # 0
                                /\ n % div # 0
  BY DEF IsPrime
<1>8. ~(m < div)
  <2>1. m < div => m \in 3 .. div - 1
    BY <1>5, <1>7
  <2> QED BY <1>5, <1>6, <1>7, <2>1
<1>9. div * div <= n
  <2>1. div * div <= m * div /\ div * m <= m * m /\ m * m <= c * m
    BY <1>5, <1>7, <1>8, Monotone
  <2>2. m * div = div * m /\ c * m = m * c
    BY <1>5, <1>7, Distribute
  <2>3. div * div \in Int /\ m * div \in Int /\ m * m \in Int /\ m * c \in Int
    BY <1>5, <1>7, Distribute
  <2> QED BY <1>5, <2>1, <2>2, <2>3
<1>10. div * div = n
  <2>1. div * div \in Int
    BY <1>7, Distribute
  <2> QED BY <1>7, <1>9, <2>1
<1>11. n % div = 0
  <2>1. div \in Nat \ {0} /\ div \in Nat
    BY <1>7
  <2> QED BY <1>10, <2>1, FactorMod
<1> QED BY <1>7, <1>11

\* Steps of h < n come back to the first index only after n of them.
LEMMA Multiples ==
  ASSUME NEW n \in Nat, n > 3, Prime(n), NEW h \in 1 .. n - 1, NEW i \in 1 .. n - 1,
         NEW j \in Int
  PROVE  i * h # j * n
<1> DEFINE M == {m \in 1 .. n : \E k \in Int : m * h = k * n}
<1>1. n \in M
  <2>1. n * h = h * n
    BY Distribute
  <2> QED BY <2>1
<1>2. PICK m \in M : \A y \in M : m <= y
  <2>1. M \in SUBSET Nat
    OBVIOUS
  <2> HIDE DEF M
  <2> QED BY <1>1, <2>1, LeastNat
<1>3. PICK k \in Int : m * h = k * n
  BY <1>2
<1>4. PICK q \in Int, r \in 0 .. m - 1 : n = q * m + r
  <2>1. n \in Int /\ m \in Nat \ {0}
    BY <1>2
  <2> HIDE DEF M
  <2>2. \E q \in Int, r \in 0 .. m - 1 : n = q * m + r /\ r = n % m
    BY <2>1, DivMod
  <2> QED BY <2>2
<1>5. r * h = (h - q * k) * n
  <2>1. q * m \in Int /\ q * k \in Int /\ k * n \in Int /\ r \in Int /\ m \in Int
    BY <1>2, <1>3, <1>4, Distribute
  <2>2. r * h = n * h - (q * m) * h
    <3>1. r = n - q * m
      BY <1>4, <2>1
    <3> QED BY <2>1, <3>1, Distribute
  <2>3. (q * m) * h = q * (m * h) /\ q * (k * n) = (q * k) * n
    BY <1>3, <1>4, <2>1, Associate
  <2>4. (h - q * k) * n = h * n - (q * k) * n /\ n * h = h * n
    BY <2>1, Distribute
  <2> QED BY <1>3, <2>2, <2>3, <2>4
<1>6. r = 0
  <2>1. CASE r > 0
    <3>1. r \in 1 .. n /\ h - q * k \in Int
      BY <1>2, <1>3, <1>4, <2>1, Distribute
    <3>2. r \in M
      BY <1>5, <3>1
    <3>3. m <= r
      BY <1>2, <3>2
    <3> QED BY <1>2, <1>4, <3>3
  <2> QED BY <1>4, <2>1
<1>7. m = 1 \/ m = n
  <2>1. m \in Nat /\ m > 0 /\ n = q * m /\ q * m = m * q
    BY <1>2, <1>4, <1>6, Distribute
  <2>2. q \in Nat
    <3>1. CASE q < 0
      <4>1. (0 - q) * m = 0 - n /\ 0 - q \in Nat /\ (0 - q) * m \in Nat
        BY <1>4, <2>1, <3>1, Distribute, Monotone
      <4> QED BY <4>1
    <3> QED BY <1>4, <3>1
  <2> QED BY <2>1, <2>2 DEF Prime
<1>8. m # 1
  <2> SUFFICES ASSUME m = 1 PROVE FALSE
    OBVIOUS
  <2>1. h = k * n
    BY <1>3
  <2>2. CASE k <= 0
    <3>1. (0 - k) * n = 0 - h /\ 0 - k \in Nat /\ (0 - k) * n \in Nat
      BY <1>3, <2>1, <2>2, Distribute, Monotone
    <3> QED BY <3>1
  <2>3. CASE k >= 1
    <3>1. 1 * n <= k * n
      BY <1>3, <2>3, Monotone
    <3> QED BY <2>1, <3>1
  <2> QED BY <1>3, <2>2, <2>3
<1> QED
  <2> SUFFICES ASSUME i * h = j * n PROVE FALSE
    OBVIOUS
  <2>1. i \in M
    OBVIOUS
  <2> HIDE DEF M
  <2>2. n <= i
    BY <1>2, <1>7, <1>8, <2>1
  <2> QED BY <2>2

-----------------------------------------------------------------------------
\* The first index of a key is a slot, and the probe sequence starts there and
\* stays in the table.
LEMMA SizeType ==
  \A s \in Sizes : /\ s \in Nat /\ s > 3 /\ s < FilledMod /\ FilledMod \in Nat
                   /\ s % 2 = 1 /\ IsPrime(s)
<1> SUFFICES ASSUME NEW s \in Sizes
             PROVE  s \in Nat /\ s > 3 /\ s % 2 = 1 /\ IsPrime(s)
  BY HashTableAssumption
<1>1. PICK nel \in Nents : s = TableSize(nel)
  BY DEF Sizes
<1>2. nel \in Nat /\ nel > 3
  BY HashTableAssumption
<1> DEFINE C == Odd(nel) .. 2 * nel + 7
           S == {n \in C : n % 2 = 1 /\ IsPrime(n)}
<1>3. Odd(nel) \in Nat /\ Odd(nel) > 3
  BY <1>2 DEF Odd
<1>4. S # {} /\ S \in SUBSET Nat
  BY <1>2, <1>3, PrimeAssumption
<1>5. PICK x \in S : \A y \in S : x <= y
  <2> HIDE DEF S
  <2> QED BY <1>4, LeastNat
<1>6. \A m \in Odd(nel) .. x - 1 : m % 2 = 1 => ~IsPrime(m)
  <2> SUFFICES ASSUME NEW m \in Odd(nel) .. x - 1, m % 2 = 1, IsPrime(m) PROVE FALSE
    OBVIOUS
  <2>1. m \in S
    BY <1>2, <1>3, <1>5
  <2>2. x <= m /\ x \in Nat
    BY <1>4, <1>5, <2>1
  <2> QED BY <1>3, <2>2
<1>7. \E n \in C : /\ n % 2 = 1 /\ IsPrime(n)
                   /\ \A m \in Odd(nel) .. n - 1 : m % 2 = 1 => ~IsPrime(m)
  BY <1>5, <1>6
<1>8. s \in C /\ s % 2 = 1 /\ IsPrime(s)
  <2> HIDE DEF C
  <2>1. s = CHOOSE n \in C : /\ n % 2 = 1 /\ IsPrime(n)
                            /\ \A m \in Odd(nel) .. n - 1 : m % 2 = 1 => ~IsPrime(m)
    BY <1>1 DEF TableSize, C
  <2> QED BY <1>7, <2>1
<1> QED BY <1>2, <1>3, <1>8

LEMMA HomeType == \A s \in Sizes, k \in Key : Home(s, k) \in 1 .. s - 1
<1> TAKE s \in Sizes, k \in Key
<1>1. Hash[k] \in Nat /\ s \in Nat /\ s > 3
  BY HashTableAssumption, SizeType
<1>2. Hash[k] % s \in 0 .. s - 1
  BY <1>1
<1>3. QED
  BY <1>1, <1>2 DEF Home

LEMMA ProbeType ==
  \A s \in Sizes, h \in Nat, i \in Nat : Probe(s, h, i) \in 1 .. s
<1> TAKE s \in Sizes, h \in Nat, i \in Nat
<1>1. s \in Nat /\ s > 3
  BY SizeType
<1> DEFINE x == h - 1 - i * Hval2(s, h)
<1>2. Hval2(s, h) \in Nat
  BY <1>1 DEF Hval2
<1>3. i * Hval2(s, h) \in Nat
  BY <1>2
<1>4. x \in Int
  BY <1>3
<1>5. Probe(s, h, i) = 1 + (x % s)
  BY DEF Probe
<1> HIDE DEF x
<1>6. x % s \in 0 .. s - 1
  BY <1>1, <1>4
<1>7. QED
  BY <1>1, <1>5, <1>6

\* hsearch_r() visits every slot before it is back at the first index.
THEOREM ProbesVisitAll ==
  \A s \in Sizes : \A h \in 1 .. s - 1 :
    \A n \in 1 .. s : \E i \in 0 .. s - 1 : n = Probe(s, h, i)
<1> SUFFICES ASSUME NEW s \in Sizes, NEW h \in 1 .. s - 1
             PROVE  \A n \in 1 .. s : \E i \in 0 .. s - 1 : n = Probe(s, h, i)
  OBVIOUS
<1>1. s \in Nat /\ s > 3 /\ Prime(s) /\ h \in Nat
  BY SizeType, IsPrimeIsPrime
<1>2. PICK w : w = Hval2(s, h)
  OBVIOUS
<1>3. w \in 1 .. s - 1
  <2>1. h % (s - 2) \in 0 .. (s - 2) - 1
    BY <1>1
  <2> QED BY <1>1, <1>2, <2>1 DEF Hval2
<1>4. ASSUME NEW i \in 0 .. s - 1, NEW j \in 0 .. s - 1, i < j PROVE Probe(s, h, i) # Probe(s, h, j)
  <2> DEFINE x == h - 1 - i * w
             y == h - 1 - j * w
  <2>0. s \in Nat \ {0} /\ x \in Int /\ y \in Int /\ i * w \in Int /\ j * w \in Int
    BY <1>1, <1>3, Distribute
  <2> SUFFICES ASSUME Probe(s, h, i) = Probe(s, h, j) PROVE FALSE
    OBVIOUS
  <2>1. 1 + (x % s) = 1 + (y % s)
    BY <1>2 DEF Probe
  <2> HIDE DEF x, y
  <2>3. PICK p \in Int, a \in 0 .. s - 1 : x = p * s + a /\ a = x % s
    BY <2>0, DivMod
  <2>4. PICK q \in Int, b \in 0 .. s - 1 : y = q * s + b /\ b = y % s
    BY <2>0, DivMod
  <2>2. a = b /\ a \in Int
    <3>1. 1 + a = 1 + b /\ a \in Int /\ b \in Int
      BY <1>1, <2>1, <2>3, <2>4
    <3> QED BY <3>1
  <2>5. (p - q) * s = x - y
    <3>1. (p - q) * s = p * s - q * s /\ p * s \in Int /\ q * s \in Int
      BY <1>1, <2>3, <2>4, Distribute
    <3>2. x = p * s + a /\ y = q * s + a
      BY <2>2, <2>3, <2>4
    <3> QED BY <2>2, <3>1, <3>2
  <2>6. (j - i) * w = x - y
    <3>1. (j - i) * w = j * w - i * w
      BY <1>3, <1>4, Distribute
    <3> QED BY <1>1, <2>0, <3>1 DEF x, y
  <2>7. j - i \in 1 .. s - 1 /\ p - q \in Int
    BY <1>1, <1>4, <2>3, <2>4
  <2> QED BY <1>1, <1>3, <2>5, <2>6, <2>7, Multiples
<1> DEFINE f == [i \in 0 .. s - 1 |-> Probe(s, h, i)]
<1>5. \A i \in 0 .. s - 1 : Probe(s, h, i) \in 1 .. s
  <2>1. h \in Nat /\ \A i \in 0 .. s - 1 : i \in Nat
    BY <1>1
  <2> QED BY <2>1, ProbeType
<1>6. f \in Injection(0 .. s - 1, 1 .. s)
  <2>1. f \in [0 .. s - 1 -> 1 .. s]
    BY <1>5
  <2>2. ASSUME NEW i \in 0 .. s - 1, NEW j \in 0 .. s - 1, f[i] = f[j] PROVE i = j
    <3>1. Probe(s, h, i) = Probe(s, h, j)
      BY <2>2
    <3>2. i \in Int /\ j \in Int
      BY <1>1
    <3>3. ~(i < j) /\ ~(j < i)
      BY <1>4, <3>1
    <3> QED BY <3>2, <3>3
  <2> HIDE DEF f
  <2> QED BY <2>1, <2>2 DEF Injection, IsInjective
<1>7. /\ IsFiniteSet(1 .. s) /\ Cardinality(1 .. s) = s
      /\ IsFiniteSet(0 .. s - 1) /\ Cardinality(0 .. s - 1) = s
  <2>1. /\ IsFiniteSet(1 .. s) /\ Cardinality(1 .. s) = IF 1 > s THEN 0 ELSE s - 1 + 1
        /\ IsFiniteSet(0 .. s - 1) /\ Cardinality(0 .. s - 1) = IF 0 > s - 1 THEN 0 ELSE (s - 1) - 0 + 1
    <3>1. 1 \in Int /\ s \in Int /\ 0 \in Int /\ s - 1 \in Int
      BY <1>1
    <3> QED BY <3>1, FS_Interval
  <2> QED BY <1>1, <2>1
<1>8. f \in Surjection(0 .. s - 1, 1 .. s)
  <2> HIDE DEF f
  <2> QED BY <1>6, <1>7, FS_Injection
<1>9. \A n \in 1 .. s : \E i \in 0 .. s - 1 : f[i] = n
  <2> HIDE DEF f
  <2> QED BY <1>8 DEF Surjection
<1> QED BY <1>9

LEMMA ProbeStart == \A s \in Sizes : \A h \in 1 .. s - 1 : Probe(s, h, 0) = h
<1> TAKE s \in Sizes
<1> TAKE h \in 1 .. s - 1
<1>1. s \in Nat /\ s > 3
  BY SizeType
<1>2. Hval2(s, h) \in Nat
  BY <1>1 DEF Hval2
<1>3. 0 * Hval2(s, h) = 0
  BY <1>2
<1>4. (h - 1) % s = h - 1
  BY <1>1
<1>5. QED
  BY <1>1, <1>3, <1>4 DEF Probe

LEMMA KthType ==
  ASSUME size \in Sizes
  PROVE  /\ \A k \in Key : Home(size, k) \in Slot /\ Home(size, k) > 0
         /\ \A k \in Key : \A i \in Nat : Kth(k, i) \in Slot
         /\ \A k \in Key : Kth(k, 0) = Home(size, k)
<1>1. size \in Nat /\ size > 3
  BY SizeType
<1>2. \A k \in Key : Home(size, k) \in 1 .. size - 1 /\ Home(size, k) \in Nat
  BY <1>1, HomeType
<1>3. \A k \in Key : \A i \in Nat : Probe(size, Home(size, k), i) \in 1 .. size
  BY <1>2, ProbeType
<1>4. \A k \in Key : Probe(size, Home(size, k), 0) = Home(size, k)
  BY <1>2, ProbeStart
<1>5. QED
  BY <1>1, <1>2, <1>3, <1>4 DEF Kth, Slot

-----------------------------------------------------------------------------
\* There is a table: what every call but a failed import leaves behind.
TableOK == TypeOK /\ size \in Sizes

\* A table that was just created.
Fresh ==
  /\ size \in Sizes
  /\ table = [n \in 1 .. size |-> Empty]
  /\ filled = 0 /\ bound = {} /\ crowded = FALSE /\ nomem \in 0 .. MaxNoMem

LEMMA HomeIsUsed ==
  ASSUME TableOK, NEW k \in Key
  PROVE  Home(size, k) \in {-1} \union 0 .. size - 1
BY HomeType DEF TableOK, TypeOK

LEMMA TypeStep == TableOK /\ [Call]_vars => TableOK'
<1> SUFFICES ASSUME TableOK, [Call]_vars PROVE TableOK'
  OBVIOUS
<1>a. size \in Nat /\ size > 3 /\ size < FilledMod /\ FilledMod \in Nat
  BY SizeType DEF TableOK, TypeOK
<1>b. \A n \in Slot, e \in Entry : [table EXCEPT ![n] = e] \in [Slot -> Entry]
  BY DEF TableOK, TypeOK
<1>c. size' = size => Slot' = Slot /\ Entry' = Entry
  BY DEF Slot, Entry
<1>1. ASSUME NEW k \in Key, TableFull(k) PROVE TableOK'
  BY <1>1, <1>c DEF TableFull, vars, TableOK, TypeOK
<1>2. ASSUME NEW k \in Key, Delete(k) PROVE TableOK'
  <2>1. PICK n \in Slot : /\ table' = [table EXCEPT ![n] = Tombstone]
                          /\ filled' = (filled - 1) % FilledMod
                          /\ bound' = bound \ {k}
                          /\ UNCHANGED <<size, crowded, nomem>>
    BY <1>2 DEF Delete
  <2>2. Tombstone \in Entry
    BY DEF Tombstone, Empty, Entry
  <2>3. filled' \in 0 .. FilledMod - 1
    BY <2>1, <1>a DEF TableOK, TypeOK
  <2>4. QED
    BY <2>1, <2>2, <2>3, <1>b, <1>c DEF TableOK, TypeOK
<1>3. ASSUME NEW k \in Key, NEW v \in Value, Update(k, v) PROVE TableOK'
  <2>1. PICK n \in Slot, d \in Value \union {NoValue} :
          /\ table' = [table EXCEPT ![n].data = d]
          /\ UNCHANGED <<size, filled, bound, crowded>>
          /\ d = NoValue => nomem < MaxNoMem
          /\ nomem' = IF d = NoValue THEN nomem + 1 ELSE nomem
    BY <1>3 DEF Update
  <2>2. table[n] \in Entry
    BY DEF TableOK, TypeOK
  <2>3. [table[n] EXCEPT !.data = d] \in Entry
    BY <2>2 DEF Entry
  <2>4. table' = [table EXCEPT ![n] = [table[n] EXCEPT !.data = d]]
    BY <2>1
  <2>5. nomem' \in 0 .. MaxNoMem
    BY <2>1, HashTableAssumption DEF TableOK, TypeOK
  <2>6. QED
    BY <2>1, <2>3, <2>4, <2>5, <1>b, <1>c DEF TableOK, TypeOK
<1>4. ASSUME NEW k \in Key, NEW v \in Value, Create(k, v) PROVE TableOK'
  <2>1. PICK n \in Slot : table' = [table EXCEPT ![n] =
                             [used |-> Home(size, k), key |-> k, data |-> v]]
    BY <1>4 DEF Create
  <2>2. [used |-> Home(size, k), key |-> k, data |-> v] \in Entry
    BY HomeIsUsed DEF Entry
  <2>3. filled' \in 0 .. FilledMod - 1 /\ bound' \subseteq Key /\ UNCHANGED <<size, nomem>>
    BY <1>4, <1>a DEF Create, TableOK, TypeOK
  <2>4. crowded' \in BOOLEAN
    BY <1>4 DEF Create
  <2>5. QED
    BY <2>1, <2>2, <2>3, <2>4, <1>b, <1>c DEF TableOK, TypeOK
<1>5. ASSUME NEW k \in Key, NEW v \in Value, CreateNoMem(k, v) PROVE TableOK'
  <2>1. PICK n \in Slot, kk \in Key \union {NoKey}, d \in Value \union {NoValue} :
          table' = [table EXCEPT ![n] = [used |-> Home(size, k), key |-> kk, data |-> d]]
    BY <1>5 DEF CreateNoMem
  <2>2. [used |-> Home(size, k), key |-> kk, data |-> d] \in Entry
    BY HomeIsUsed DEF Entry
  <2>3. UNCHANGED <<size, filled, bound>> /\ crowded' \in BOOLEAN
    BY <1>5 DEF CreateNoMem
  <2>4. nomem' \in 0 .. MaxNoMem
    BY <1>5, HashTableAssumption DEF CreateNoMem, TableOK, TypeOK
  <2>5. QED
    BY <2>1, <2>2, <2>3, <2>4, <1>b, <1>c DEF TableOK, TypeOK
<1>6. CASE Recreate
  <2>1. PICK s \in Sizes : /\ size' = s
                           /\ table' = [n \in 1 .. s |-> Empty]
                           /\ filled' = 0
                           /\ bound' = {} /\ crowded' = FALSE /\ nomem' = nomem
    BY <1>6 DEF Recreate
  <2>2. Empty \in Entry'
    BY <2>1, SizeType DEF Empty, Entry
  <2>3. table' \in [Slot' -> Entry']
    BY <2>1, <2>2 DEF Slot
  <2>4. filled' \in 0 .. FilledMod - 1 /\ nomem' \in 0 .. MaxNoMem
    BY <2>1, <1>a DEF TableOK, TypeOK
  <2>5. QED
    BY <2>1, <2>3, <2>4 DEF TableOK, TypeOK
<1>7. CASE UNCHANGED vars
  BY <1>7, <1>c DEF vars, TableOK, TypeOK
<1>8. QED
  BY <1>1, <1>2, <1>3, <1>4, <1>5, <1>6, <1>7 DEF Call

LEMMA TypeFresh == Fresh => TableOK
<1> SUFFICES ASSUME Fresh PROVE TableOK
  OBVIOUS
<1>2. Empty \in Entry
  BY SizeType DEF Fresh, Empty, Entry
<1>3. table \in [Slot -> Entry]
  BY <1>2 DEF Fresh, Slot
<1>4. filled \in 0 .. FilledMod - 1
  BY SizeType, HashTableAssumption DEF Fresh
<1>5. QED
  BY <1>3, <1>4 DEF Fresh, TableOK, TypeOK

-----------------------------------------------------------------------------
\* Writing an entry to slot n, one that is not k's, leaves the search for k in
\* another slot as it was.
LEMMA OtherKept ==
  ASSUME TableOK, size' = size, NEW n \in Slot, NEW e, e.used # 0,
         table' = [table EXCEPT ![n] = e],
         NEW k \in Key, ~(e.used = Home(size, k) /\ e.key = k),
         NEW m \in Slot, m # n, FoundIn(k, m)
  PROVE  FoundIn(k, m)' /\ table'[m] = table[m]
<1>1. size \in Sizes /\ size \in Nat
  BY SizeType DEF TableOK, TypeOK
<1>2. PICK i \in 0 .. size - 1 : EndsAt(k, i) /\ m = Kth(k, i) /\ Matches(k, m)
  BY DEF FoundIn
<1>3. \A x \in Slot : table'[x] = IF x = n THEN e ELSE table[x]
  BY DEF TableOK, TypeOK
<1>4. \A j \in 0 .. i : Kth(k, j) \in Slot /\ Kth(k, j)' = Kth(k, j)
  BY <1>1, KthType DEF Kth
<1>5. \A x \in Slot : Matches(k, x)' <=> (x # n /\ Matches(k, x))
  BY <1>3 DEF Matches
<1>6. Matches(k, m)'
  BY <1>2, <1>5
<1>7. \A j \in 0 .. i - 1 : table'[Kth(k, j)].used # 0 /\ ~Matches(k, Kth(k, j))'
  BY <1>1, <1>2, <1>3, <1>4, <1>5 DEF EndsAt
<1>8. EndsAt(k, i)'
  BY <1>2, <1>4, <1>6, <1>7, <1>1 DEF EndsAt
<1>9. QED
  BY <1>2, <1>3, <1>4, <1>6, <1>8 DEF FoundIn

\* A live entry with a key is a match for that key.
LEMMA FoundIsLive ==
  ASSUME TableOK, NEW k \in Key, NEW m \in Slot, FoundIn(k, m)
  PROVE  Live(m) /\ table[m].key = k /\ table[m].key # NoKey
BY KthType, HashTableAssumption DEF FoundIn, Matches, Live, TableOK, TypeOK

\* The search for a key finds one slot.
LEMMA FoundOnce ==
  ASSUME TableOK, NEW k \in Key, NEW m \in Slot, NEW n \in Slot,
         FoundIn(k, m), FoundIn(k, n)
  PROVE  m = n
<1>1. size \in Nat
  BY SizeType DEF TableOK, TypeOK
<1>2. PICK i \in 0 .. size - 1 : EndsAt(k, i) /\ m = Kth(k, i) /\ Matches(k, m)
  BY DEF FoundIn
<1>3. PICK j \in 0 .. size - 1 : EndsAt(k, j) /\ n = Kth(k, j) /\ Matches(k, n)
  BY DEF FoundIn
<1>4. ~(i < j) /\ ~(j < i)
  BY <1>1, <1>2, <1>3 DEF EndsAt
<1>5. QED
  BY <1>1, <1>2, <1>3, <1>4

\* The entry that hsearch_r(ENTER) makes is where the next search for its key
\* ends.
LEMMA NewFound ==
  ASSUME TableOK, size' = size, NEW k \in Key, ~Found(k), NEW n \in Slot,
         NewSlot(k, n), NEW e, e.used = Home(size, k), e.key = k,
         table' = [table EXCEPT ![n] = e]
  PROVE  FoundIn(k, n)'
<1>1. size \in Sizes /\ size \in Nat /\ size > 3
  BY SizeType DEF TableOK, TypeOK
<1>2. \A x \in Slot : table'[x] = IF x = n THEN e ELSE table[x]
  BY DEF TableOK, TypeOK
<1>3. Matches(k, n)'
  BY <1>2 DEF Matches
<1>4. /\ Kth(k, 0) = Home(size, k) /\ Kth(k, 0)' = Kth(k, 0)
      /\ \A i \in Nat : Kth(k, i) \in Slot /\ Kth(k, i)' = Kth(k, i)
  BY <1>1, KthType DEF Kth
<1>5. CASE n = Home(size, k)
  <2>1. EndsAt(k, 0)'
    BY <1>1, <1>3, <1>4, <1>5 DEF EndsAt
  <2>2. QED
    BY <1>1, <1>3, <1>4, <1>5, <2>1 DEF FoundIn
<1>6. CASE n # Home(size, k)
  <2>1. PICK i \in 0 .. size : EndsAt(k, i) /\ n = IF i = size THEN Home(size, k) ELSE Kth(k, i)
    BY <1>6 DEF NewSlot
  <2>2. i \in 0 .. size - 1 /\ n = Kth(k, i)
    BY <1>1, <1>6, <2>1
  <2>3. ~Matches(k, n)
    BY <2>1, <2>2 DEF Found, FoundIn
  <2>4. table[n].used = 0
    BY <1>1, <2>1, <2>2, <2>3 DEF EndsAt
  <2>5. \A j \in 0 .. i - 1 : /\ Kth(k, j) # n /\ Kth(k, j) \in Slot
                              /\ table[Kth(k, j)].used # 0 /\ ~Matches(k, Kth(k, j))
    BY <1>1, <1>4, <2>1, <2>4 DEF EndsAt
  <2>6. \A j \in 0 .. i - 1 : table'[Kth(k, j)].used # 0 /\ ~Matches(k, Kth(k, j))'
    BY <1>1, <1>2, <1>4, <2>5 DEF Matches
  <2>7. EndsAt(k, i)'
    BY <1>1, <1>3, <1>4, <2>2, <2>6 DEF EndsAt
  <2>8. QED
    BY <1>1, <1>3, <1>4, <2>2, <2>7 DEF FoundIn
<1>7. QED
  BY <1>5, <1>6

-----------------------------------------------------------------------------
\* Only keys and marks matter to a search.
LEMMA SameSearch ==
  ASSUME TableOK, size' = size,
         \A x \in Slot : table'[x].used = table[x].used /\ table'[x].key = table[x].key
  PROVE  \A k \in Key, m \in Slot : FoundIn(k, m)' <=> FoundIn(k, m)
<1> SUFFICES ASSUME NEW k \in Key, NEW m \in Slot PROVE FoundIn(k, m)' <=> FoundIn(k, m)
  OBVIOUS
<1>1. size \in Sizes /\ size \in Nat
  BY SizeType DEF TableOK, TypeOK
<1>2. \A i \in Nat : Kth(k, i) \in Slot /\ Kth(k, i)' = Kth(k, i)
  BY <1>1, KthType DEF Kth
<1>3. \A x \in Slot : Matches(k, x)' <=> Matches(k, x)
  BY DEF Matches
<1>4. \A i \in 0 .. size - 1 : EndsAt(k, i)' <=> EndsAt(k, i)
  BY <1>1, <1>2, <1>3 DEF EndsAt
<1>5. QED
  BY <1>1, <1>2, <1>3, <1>4 DEF FoundIn

\* Update changes no key and no mark.
LEMMA UpdateSearch ==
  ASSUME TableOK, NEW k \in Key, NEW v \in Value, Update(k, v)
  PROVE  /\ size' = size /\ UNCHANGED <<filled, bound>>
         /\ \A x \in Slot : table'[x].used = table[x].used /\ table'[x].key = table[x].key
<1>1. PICK n \in Slot, d \in Value \union {NoValue} :
        table' = [table EXCEPT ![n].data = d] /\ UNCHANGED <<size, filled, bound>>
  BY DEF Update
<1>2. table[n] \in Entry
  BY DEF TableOK, TypeOK
<1>3. table' = [table EXCEPT ![n] = [table[n] EXCEPT !.data = d]]
  BY <1>1
<1>4. /\ [table[n] EXCEPT !.data = d].used = table[n].used
      /\ [table[n] EXCEPT !.data = d].key = table[n].key
  BY <1>2 DEF Entry
<1>5. \A x \in Slot : table'[x] = IF x = n THEN [table[n] EXCEPT !.data = d] ELSE table[x]
  BY <1>3 DEF TableOK, TypeOK
<1>6. QED
  BY <1>1, <1>4, <1>5

LEMMA ReachWrite ==
  ASSUME TableOK, EntriesReachable, size' = size, NEW n \in Slot, NEW e, e.used # 0,
         table' = [table EXCEPT ![n] = e],
         \A m \in Slot : m # n /\ Live(m) /\ table[m].key # NoKey =>
           ~(e.used = Home(size, table[m].key) /\ e.key = table[m].key),
         e.used > 0 /\ e.key # NoKey => FoundIn(e.key, n)'
  PROVE  EntriesReachable'
<1>1. \A x \in Slot : table'[x] = IF x = n THEN e ELSE table[x]
  BY DEF TableOK, TypeOK
<1>2. Slot' = Slot
  BY DEF Slot
<1>3. ASSUME NEW m \in Slot, NEW k \in Key, k = table'[m].key, Live(m)', m # n
      PROVE  FoundIn(k, m)'
  <2>1. Live(m) /\ table[m].key = k /\ k # NoKey
    BY <1>1, <1>3, HashTableAssumption DEF Live
  <2>2. FoundIn(k, m)
    BY <2>1 DEF EntriesReachable
  <2>3. ~(e.used = Home(size, k) /\ e.key = k)
    BY <1>3, <2>1
  <2>4. QED
    BY <1>3, <2>2, <2>3, OtherKept
<1>4. ASSUME NEW m \in Slot, NEW k, k = table'[m].key, k # NoKey, Live(m)'
      PROVE  FoundIn(k, m)'
  <2>1. CASE m = n
    BY <1>1, <1>4, <2>1 DEF Live
  <2>2. CASE m # n
    <3>1. k \in Key
      BY <1>1, <1>4, <2>2 DEF TableOK, TypeOK, Entry
    <3>2. QED
      BY <1>3, <1>4, <2>2, <3>1
  <2>3. QED
    BY <2>1, <2>2
<1>5. QED
  BY <1>2, <1>4 DEF EntriesReachable

-----------------------------------------------------------------------------
LEMMA ReachStep == TableOK /\ EntriesReachable /\ [Call]_vars => EntriesReachable'
<1> SUFFICES ASSUME TableOK, EntriesReachable, [Call]_vars PROVE EntriesReachable'
  OBVIOUS
<1>a. size \in Sizes
  BY DEF TableOK, TypeOK
<1>b. ASSUME UNCHANGED vars PROVE EntriesReachable'
  <2>1. table' = table /\ size' = size
    BY <1>b DEF vars
  <2>2. \A k \in Key, m \in Slot : FoundIn(k, m)' <=> FoundIn(k, m)
    BY <2>1, SameSearch
  <2>3. Slot' = Slot /\ \A n \in Slot : /\ Live(n)' <=> Live(n)
                                        /\ table[n].key \in Key \union {NoKey}
    BY <2>1 DEF Slot, Live, TableOK, TypeOK, Entry
  <2>4. QED
    BY <2>1, <2>2, <2>3 DEF EntriesReachable
<1>1. ASSUME NEW k \in Key, TableFull(k) PROVE EntriesReachable'
  BY <1>1, <1>b DEF TableFull
<1>2. ASSUME NEW k \in Key, Delete(k) PROVE EntriesReachable'
  <2>1. PICK n \in Slot : table' = [table EXCEPT ![n] = Tombstone] /\ size' = size
    BY <1>2 DEF Delete
  <2>2. Tombstone.used = -1 /\ Tombstone.key = NoKey
    BY DEF Tombstone, Empty
  <2> DEFINE e == Tombstone
  <2>3. e.used # 0 /\ ~(e.used > 0) /\ e.key = NoKey
    BY <2>2
  <2> HIDE DEF e
  <2>4. table' = [table EXCEPT ![n] = e]
    BY <2>1 DEF e
  <2>5. QED
    BY <2>1, <2>3, <2>4, ReachWrite
<1>3. ASSUME NEW k \in Key, NEW v \in Value, Update(k, v) PROVE EntriesReachable'
  <2>1. /\ size' = size
        /\ \A x \in Slot : table'[x].used = table[x].used /\ table'[x].key = table[x].key
    BY <1>3, UpdateSearch
  <2>2. \A kk \in Key, m \in Slot : FoundIn(kk, m)' <=> FoundIn(kk, m)
    BY <2>1, SameSearch
  <2>3. \A m \in Slot : table[m].key \in Key \union {NoKey}
    BY DEF TableOK, TypeOK, Entry
  <2>4. ASSUME NEW m \in Slot, NEW kk, kk = table'[m].key, kk # NoKey, Live(m)'
        PROVE  FoundIn(kk, m)'
    BY <2>1, <2>2, <2>3, <2>4 DEF EntriesReachable, Live
  <2>5. QED
    BY <2>1, <2>4 DEF EntriesReachable, Slot
<1>4. ASSUME NEW k \in Key, ~Found(k), NEW n \in Slot, NewSlot(k, n), size' = size,
             NEW kk \in {k, NoKey}, NEW d,
             table' = [table EXCEPT ![n] = [used |-> Home(size, k), key |-> kk, data |-> d]]
      PROVE  EntriesReachable'
  <2>1. PICK e : e = [used |-> Home(size, k), key |-> kk, data |-> d]
    OBVIOUS
  <2>2. e.used = Home(size, k) /\ e.key = kk /\ e.used > 0 /\ e.used # 0
    BY <1>a, <2>1, HomeType, SizeType
  <2>3. table' = [table EXCEPT ![n] = e]
    BY <1>4, <2>1
  <2>4. \A m \in Slot : Live(m) /\ table[m].key # NoKey => table[m].key # k
    BY <1>4 DEF EntriesReachable, Found
  <2>5. e.key # NoKey => FoundIn(e.key, n)'
    <3> SUFFICES ASSUME e.key # NoKey PROVE FoundIn(e.key, n)'
      OBVIOUS
    <3>1. e.key = k
      BY <2>2
    <3>2. FoundIn(k, n)'
      BY <1>4, <2>2, <2>3, <3>1, NewFound
    <3>3. QED
      BY <3>1, <3>2
  <2>6. \A m \in Slot : m # n /\ Live(m) /\ table[m].key # NoKey =>
           ~(e.used = Home(size, table[m].key) /\ e.key = table[m].key)
    BY <1>4, <2>2, <2>4
  <2>7. size' = size /\ e.used # 0 /\ (e.used > 0 /\ e.key # NoKey => FoundIn(e.key, n)')
    BY <1>4, <2>2, <2>5
  <2>8. QED
    BY <2>3, <2>6, <2>7, ReachWrite
<1>5. ASSUME NEW k \in Key, NEW v \in Value, Create(k, v) PROVE EntriesReachable'
  BY <1>4, <1>5 DEF Create
<1>6. ASSUME NEW k \in Key, NEW v \in Value, CreateNoMem(k, v) PROVE EntriesReachable'
  BY <1>4, <1>6 DEF CreateNoMem
<1>7. CASE Recreate
  <2>1. PICK s \in Sizes : size' = s /\ table' = [n \in 1 .. s |-> Empty]
    BY <1>7 DEF Recreate
  <2>2. Empty.used = 0
    BY DEF Empty
  <2>3. QED
    BY <2>1, <2>2 DEF EntriesReachable, Live, Slot
<1>8. CASE UNCHANGED vars
  BY <1>8, <1>b
<1>9. QED
  BY <1>1, <1>2, <1>3, <1>5, <1>6, <1>7, <1>8 DEF Call

LEMMA ReachFresh == Fresh => EntriesReachable
<1>1. Empty.used = 0
  BY DEF Empty
<1>2. QED
  BY <1>1 DEF Fresh, EntriesReachable, Live, Slot

-----------------------------------------------------------------------------
(***************************************************************************)
(* Seen through FIND the table is a map.  Only a new entry that is made    *)
(* when every slot has been used can overwrite another one (see run        *)
(* hash_tombstones); such a step is the map's Overload.                    *)
(***************************************************************************)
MapInv == TableOK /\ EntriesReachable

\* A new entry takes a slot that holds none.
LEMMA NewSlotIsFree ==
  ASSUME TableOK, Unused # {}, NEW k \in Key, ~Found(k), NEW n \in Slot, NewSlot(k, n)
  PROVE  ~Live(n)
<1>1. size \in Sizes /\ size \in Nat /\ size > 3
  BY SizeType DEF TableOK, TypeOK
<1>2. CASE table[Home(size, k)].used = -1
  BY <1>2 DEF NewSlot, Live
<1>3. CASE table[Home(size, k)].used # -1
  <2>1. PICK i \in 0 .. size : EndsAt(k, i) /\ n = IF i = size THEN Home(size, k) ELSE Kth(k, i)
    BY <1>3 DEF NewSlot
  <2>2. i # size
    <3> SUFFICES ASSUME i = size PROVE FALSE
      OBVIOUS
    <3>1. PICK m \in Slot : table[m].used = 0
      BY DEF Unused
    <3>2. PICK j \in 0 .. size - 1 : m = Kth(k, j)
      BY <1>1, ProbesVisitAll, HomeType DEF Kth, Slot
    <3>3. QED
      BY <1>1, <2>1, <3>1, <3>2 DEF EndsAt
  <2>3. i \in 0 .. size - 1 /\ n = Kth(k, i)
    BY <1>1, <2>1, <2>2
  <2>4. ~Matches(k, n)
    BY <2>1, <2>3 DEF Found, FoundIn
  <2>5. QED
    BY <1>1, <2>1, <2>3, <2>4 DEF EndsAt, Live
<1>4. QED
  BY <1>2, <1>3

\* Writing to a slot that is not k's, an entry that is not k's, changes
\* nothing for k.
LEMMA OthersSame ==
  ASSUME TableOK, EntriesReachable, size' = size, NEW n \in Slot, NEW e, e.used # 0,
         table' = [table EXCEPT ![n] = e],
         NEW k \in Key, ~(e.used = Home(size, k) /\ e.key = k), ~Matches(k, n)
  PROVE  \A m \in Slot : /\ FoundIn(k, m)' <=> FoundIn(k, m)
                         /\ FoundIn(k, m) => table'[m] = table[m]
<1> SUFFICES ASSUME NEW m \in Slot
             PROVE  /\ FoundIn(k, m)' <=> FoundIn(k, m)
                    /\ FoundIn(k, m) => table'[m] = table[m]
  OBVIOUS
<1>1. \A x \in Slot : table'[x] = IF x = n THEN e ELSE table[x]
  BY DEF TableOK, TypeOK
<1>2. ASSUME FoundIn(k, m) PROVE FoundIn(k, m)' /\ table'[m] = table[m]
  <2>1. m # n
    BY <1>2 DEF FoundIn
  <2>2. QED
    BY <1>2, <2>1, OtherKept
<1>3. ASSUME FoundIn(k, m)' PROVE FoundIn(k, m)
  <2>1. Matches(k, m)'
    BY <1>3 DEF FoundIn
  <2>2. m # n /\ Matches(k, m)
    BY <1>1, <2>1 DEF Matches
  <2>3. Live(m) /\ table[m].key = k /\ k # NoKey
    BY <2>2, KthType, HashTableAssumption DEF Matches, Live, TableOK, TypeOK
  <2>4. QED
    BY <2>3 DEF EntriesReachable
<1>4. QED
  BY <1>2, <1>3

-----------------------------------------------------------------------------
\* What the table stands for.
DataOfFound == \A k \in Key : \A m \in Slot : FoundIn(k, m) => Contents[k] = table[m].data
NoneElse    == \A k \in Key : ~Found(k) => Contents[k] = NoValue

LEMMA ContentsAt == TableOK => DataOfFound
<1> SUFFICES ASSUME TableOK, NEW k \in Key, NEW m \in Slot, FoundIn(k, m)
             PROVE  Contents[k] = table[m].data
  BY DEF DataOfFound
<1>1. Found(k)
  BY DEF Found
<1>2. (CHOOSE n \in Slot : FoundIn(k, n)) = m
  BY FoundOnce
<1>3. QED
  BY <1>1, <1>2 DEF Contents

LEMMA ContentsNone == NoneElse
BY DEF Contents, NoneElse

LEMMA ContentsSame ==
  ASSUME TableOK, TableOK', size' = size, NEW k \in Key,
         \A m \in Slot : /\ FoundIn(k, m)' <=> FoundIn(k, m)
                         /\ FoundIn(k, m) => table'[m].data = table[m].data
  PROVE  Contents'[k] = Contents[k]
<1>0. Slot' = Slot
  BY DEF Slot
<1>1. CASE Found(k)
  <2>1. PICK m \in Slot : FoundIn(k, m)
    BY <1>1 DEF Found
  <2>2. Contents[k] = table[m].data
    BY <2>1, ContentsAt DEF DataOfFound
  <2>3. (TableOK => DataOfFound)'
    BY ContentsAt, PTL
  <2>4. Contents'[k] = table'[m].data
    BY <1>0, <2>1, <2>3 DEF DataOfFound
  <2>5. QED
    BY <2>1, <2>2, <2>4
<1>2. CASE ~Found(k)
  <2>1. ~Found(k)'
    BY <1>0, <1>2 DEF Found
  <2>2. NoneElse'
    BY ContentsNone, PTL
  <2>3. QED
    BY <1>2, <2>1, <2>2, ContentsNone DEF NoneElse
<1>3. QED
  BY <1>1, <1>2

\* A change of one key's value is a step of the map.
LEMMA OneKey ==
  ASSUME NEW k \in Key, NEW x \in Value \union {NoValue}, Contents'[k] = x,
         \A kk \in Key : kk # k => Contents'[kk] = Contents[kk], crowded' = crowded
  PROVE  Map!MapNext
<1>1. DOMAIN Contents = Key /\ DOMAIN Contents' = Key
  BY DEF Contents
<1>2. Contents' = [Contents EXCEPT ![k] = x]
  <2>1. Contents = [kk \in Key |-> Contents[kk]] /\ Contents' = [kk \in Key |-> Contents'[kk]]
    BY DEF Contents
  <2>2. QED
    BY <2>1
<1>3. QED
  BY <1>2 DEF Map!MapNext, Map!Set, Map!Unset, Map!Overload

\* The effect of writing entry e, made for k, to slot n that is free or k's:
\* the searches for other keys end where they did.
LEMMA WriteSpares ==
  ASSUME TableOK, EntriesReachable, size' = size,
         NEW k \in Key, NEW n \in Slot, Live(n) => table[n].key = k,
         NEW e, e.used # 0, e.key \in {k, NoKey}, table' = [table EXCEPT ![n] = e],
         NEW kk \in Key, kk # k
  PROVE  \A m \in Slot : /\ FoundIn(kk, m)' <=> FoundIn(kk, m)
                         /\ FoundIn(kk, m) => table'[m] = table[m]
<1>1. ~Matches(kk, n)
  <2> SUFFICES ASSUME Matches(kk, n) PROVE FALSE
    OBVIOUS
  <2>1. Live(n) /\ table[n].key = kk
    BY KthType DEF Matches, Live, TableOK, TypeOK
  <2>2. QED
    BY <2>1
<1>2. e.key # kk
  BY HashTableAssumption
<1>3. QED
  BY <1>1, <1>2, OthersSame

LEMMA WriteIsMapStep ==
  ASSUME TableOK, TableOK', EntriesReachable, size' = size,
         NEW k \in Key, NEW n \in Slot, Live(n) => table[n].key = k,
         NEW e, e.used # 0, e.key \in {k, NoKey}, table' = [table EXCEPT ![n] = e]
  PROVE  \A kk \in Key : kk # k => Contents'[kk] = Contents[kk]
<1> SUFFICES ASSUME NEW kk \in Key, kk # k PROVE Contents'[kk] = Contents[kk]
  OBVIOUS
<1>1. \A m \in Slot : /\ FoundIn(kk, m)' <=> FoundIn(kk, m)
                      /\ FoundIn(kk, m) => table'[m] = table[m]
  BY WriteSpares
<1>2. QED
  BY <1>1, ContentsSame

LEMMA MapStep == MapInv /\ [Call]_vars => [Map!MapNext]_<<Contents, ~crowded>>
<1> SUFFICES ASSUME MapInv, [Call]_vars
             PROVE  Map!MapNext \/ (Contents' = Contents /\ crowded' = crowded)
  OBVIOUS
<1>a. TableOK /\ TableOK' /\ EntriesReachable /\ EntriesReachable'
  BY TypeStep, ReachStep DEF MapInv
<1>b. DataOfFound' /\ NoneElse' /\ DataOfFound /\ NoneElse
  <2>1. (TableOK => DataOfFound)' /\ NoneElse'
    BY ContentsAt, ContentsNone, PTL
  <2>2. QED
    BY <1>a, <2>1, ContentsAt, ContentsNone
<1>1. ASSUME NEW k \in Key, TableFull(k) PROVE Contents' = Contents /\ crowded' = crowded
  BY <1>1 DEF TableFull, vars, Contents, Found, FoundIn, EndsAt, Matches, Kth, Slot
<1>2. ASSUME NEW k \in Key, Delete(k) PROVE Map!MapNext
  <2>1. PICK n \in Slot : /\ FoundIn(k, n)
                          /\ table' = [table EXCEPT ![n] = Tombstone]
                          /\ size' = size /\ crowded' = crowded
    BY <1>2 DEF Delete
  <2>2. Tombstone.used = -1 /\ Tombstone.key = NoKey
    BY DEF Tombstone, Empty
  <2>3. table[n].key = k
    BY <1>a, <2>1, FoundIsLive
  <2>4. PICK e : e = Tombstone
    OBVIOUS
  <2>5. e.used # 0 /\ e.key \in {k, NoKey} /\ table' = [table EXCEPT ![n] = e]
    BY <2>1, <2>2, <2>4
  <2>6. \A kk \in Key : kk # k => Contents'[kk] = Contents[kk]
    <3>1. size' = size /\ (Live(n) => table[n].key = k)
      BY <2>1, <2>3
    <3>2. QED
      BY <1>a, <2>5, <3>1, WriteIsMapStep
  <2>7. ~Found(k)'
    <3> SUFFICES ASSUME NEW m \in Slot, FoundIn(k, m)' PROVE FALSE
      BY <2>1 DEF Found, Slot
    <3>1. Matches(k, m)'
      BY DEF FoundIn
    <3>2. table'[m] = IF m = n THEN Tombstone ELSE table[m]
      BY <1>a, <2>1 DEF TableOK, TypeOK
    <3>3. m # n /\ Matches(k, m)
      BY <1>a, <2>1, <2>2, <3>1, <3>2, HashTableAssumption DEF Matches
    <3>4. Live(m) /\ table[m].key = k /\ k # NoKey
      BY <1>a, <3>3, KthType, HashTableAssumption DEF Matches, Live, TableOK, TypeOK
    <3>5. FoundIn(k, m)
      BY <1>a, <3>4 DEF EntriesReachable
    <3>6. QED
      BY <1>a, <2>1, <3>3, <3>5, FoundOnce
  <2>8. Contents'[k] = NoValue
    BY <1>b, <2>7 DEF NoneElse
  <2>9. QED
    BY <2>1, <2>6, <2>8, OneKey
<1>3. ASSUME NEW k \in Key, NEW v \in Value, Update(k, v) PROVE Map!MapNext
  <2>1. PICK n \in Slot, d \in Value \union {NoValue} :
          /\ FoundIn(k, n) /\ table' = [table EXCEPT ![n].data = d] /\ size' = size
          /\ crowded' = crowded
    BY <1>3 DEF Update
  <2>2. \A x \in Slot : table'[x].used = table[x].used /\ table'[x].key = table[x].key
    BY <1>3, <1>a, UpdateSearch
  <2>3. \A kk \in Key, m \in Slot : FoundIn(kk, m)' <=> FoundIn(kk, m)
    BY <1>a, <2>1, <2>2, SameSearch
  <2>4. table[n] \in Entry /\ table' = [table EXCEPT ![n] = [table[n] EXCEPT !.data = d]]
    BY <1>a, <2>1 DEF TableOK, TypeOK
  <2>5. [table[n] EXCEPT !.data = d].data = d
    BY <2>4 DEF Entry
  <2>6. \A x \in Slot : table'[x].data = IF x = n THEN d ELSE table[x].data
    BY <1>a, <2>4, <2>5 DEF TableOK, TypeOK
  <2>7. ASSUME NEW kk \in Key, kk # k PROVE Contents'[kk] = Contents[kk]
    <3>1. table[n].key = k
      BY <1>a, <2>1, FoundIsLive
    <3>2. ~FoundIn(kk, n)
      BY <2>7, <3>1 DEF FoundIn, Matches
    <3>3. \A m \in Slot : FoundIn(kk, m) => table'[m].data = table[m].data
      BY <2>6, <3>2
    <3>4. QED
      BY <1>a, <2>1, <2>3, <3>3, ContentsSame
  <2>8. Contents'[k] = d
    <3>1. n \in Slot' /\ FoundIn(k, n)'
      BY <2>1, <2>3 DEF Slot
    <3>2. QED
      BY <1>b, <2>6, <3>1 DEF DataOfFound
  <2>9. QED
    BY <2>1, <2>7, <2>8, OneKey
<1>4. ASSUME NEW k \in Key, ~Found(k), NEW n \in Slot, NewSlot(k, n), size' = size,
             NEW x \in {k, NoKey}, NEW d \in Value \union {NoValue},
             table' = [table EXCEPT ![n] = [used |-> Home(size, k), key |-> x, data |-> d]],
             Unused # {}, crowded' = crowded
      PROVE  Map!MapNext
  <2>1. PICK e : e = [used |-> Home(size, k), key |-> x, data |-> d]
    OBVIOUS
  <2>2. e.used = Home(size, k) /\ e.key = x /\ e.data = d /\ e.used # 0
    BY <1>a, <2>1, KthType DEF TableOK, TypeOK
  <2>3. size' = size /\ table' = [table EXCEPT ![n] = e] /\ e.key \in {k, NoKey}
    BY <1>4, <2>1, <2>2
  <2>4. ~Live(n)
    BY <1>a, <1>4, NewSlotIsFree
  <2>5. \A kk \in Key : kk # k => Contents'[kk] = Contents[kk]
    BY <1>a, <2>2, <2>3, <2>4, WriteIsMapStep
  <2>6. Contents'[k] \in Value \union {NoValue}
    <3>1. CASE x = k
      <4>1. FoundIn(k, n)' /\ n \in Slot'
        BY <1>a, <1>4, <2>2, <2>3, <3>1, NewFound DEF Slot
      <4>2. table'[n].data = d
        BY <1>a, <2>2, <2>3 DEF TableOK, TypeOK
      <4>3. QED
        BY <1>b, <4>1, <4>2 DEF DataOfFound
    <3>2. CASE x = NoKey
      <4>1. ~(e.used = Home(size, k) /\ e.key = k)
        BY <2>2, <3>2, HashTableAssumption
      <4>2. ~Matches(k, n)
        BY <1>a, <2>4, KthType DEF Matches, Live, TableOK, TypeOK
      <4>3. \A m \in Slot : FoundIn(k, m)' <=> FoundIn(k, m)
        BY <1>a, <2>2, <2>3, <4>1, <4>2, OthersSame
      <4>4. ~Found(k)'
        BY <1>4, <4>3 DEF Found, Slot
      <4>5. QED
        BY <1>b, <4>4 DEF NoneElse
    <3>3. QED
      BY <3>1, <3>2
  <2>7. QED
    BY <1>4, <2>5, <2>6, OneKey
<1>5. ASSUME NEW k \in Key, NEW v \in Value, Create(k, v) PROVE Map!MapNext
  <2>1. CASE Unused = {}
    BY <1>5, <2>1 DEF Create, Map!MapNext, Map!Overload
  <2>2. CASE Unused # {}
    <3>1. crowded' = crowded
      BY <1>a, <1>5, <2>2 DEF Create, TableOK, TypeOK
    <3>2. QED
      BY <1>4, <1>5, <2>2, <3>1 DEF Create
  <2>3. QED
    BY <2>1, <2>2
<1>6. ASSUME NEW k \in Key, NEW v \in Value, CreateNoMem(k, v) PROVE Map!MapNext
  <2>1. CASE Unused = {}
    BY <1>6, <2>1 DEF CreateNoMem, Map!MapNext, Map!Overload
  <2>2. CASE Unused # {}
    <3>1. crowded' = crowded
      BY <1>a, <1>6, <2>2 DEF CreateNoMem, TableOK, TypeOK
    <3>2. QED
      BY <1>4, <1>6, <2>2, <3>1 DEF CreateNoMem
  <2>3. QED
    BY <2>1, <2>2
<1>7. CASE Recreate
  <2>1. PICK s \in Sizes : size' = s /\ table' = [n \in 1 .. s |-> Empty]
    BY <1>7 DEF Recreate
  <2>2. Empty.used = 0
    BY DEF Empty
  <2>3. \A k \in Key : \A n \in Slot' : ~FoundIn(k, n)'
    <3> SUFFICES ASSUME NEW k \in Key, NEW n \in Slot', Matches(k, n)' PROVE FALSE
      BY DEF FoundIn
    <3>1. table'[n].used = 0
      BY <2>1, <2>2 DEF Slot
    <3>2. Home(size', k) \in 1 .. size' - 1
      BY <2>1, HomeType
    <3>3. QED
      BY <2>1, <3>1, <3>2, SizeType DEF Matches
  <2>4. \A k \in Key : Contents'[k] = NoValue
    BY <1>b, <2>3 DEF NoneElse, Found
  <2>5. Contents' = [k \in Key |-> Contents'[k]]
    BY DEF Contents
  <2>6. ~crowded'
    BY <1>7 DEF Recreate
  <2>7. QED
    BY <2>4, <2>5, <2>6 DEF Map!MapNext, Map!Clear
<1>8. CASE UNCHANGED vars
  BY <1>8 DEF vars, Contents, Found, FoundIn, EndsAt, Matches, Kth, Slot
<1>9. QED
  BY <1>1, <1>2, <1>3, <1>5, <1>6, <1>7, <1>8 DEF Call

LEMMA MapInit == Init => Map!MapInit
<1> SUFFICES ASSUME Init PROVE Map!MapInit
  OBVIOUS
<1>1. PICK s \in Sizes : size = s /\ table = [n \in 1 .. s |-> Empty] /\ ~crowded
  BY DEF Init
<1>2. Empty.used = 0
  BY DEF Empty
<1>3. \A k \in Key : ~Found(k)
  <2> SUFFICES ASSUME NEW k \in Key, NEW n \in Slot, Matches(k, n) PROVE FALSE
    BY DEF Found, FoundIn
  <2>1. table[n].used = 0
    BY <1>1, <1>2 DEF Slot
  <2>2. Home(size, k) \in 1 .. size - 1
    BY <1>1, HomeType
  <2>3. QED
    BY <1>1, <2>1, <2>2, SizeType DEF Matches
<1>4. QED
  BY <1>1, <1>3 DEF Contents, Map!MapInit

-----------------------------------------------------------------------------
\* While some slot has never been used, every name entered and not deleted is
\* found: bound changes with the names that a search finds.
LEMMA NamesStep == MapInv /\ NamesKept /\ [Call]_vars => NamesKept'
<1> SUFFICES ASSUME MapInv, NamesKept, [Call]_vars, ~crowded', NEW k \in bound'
             PROVE  Found(k)'
  BY DEF NamesKept, NamesFound
<1>a. TableOK /\ EntriesReachable /\ bound \subseteq Key /\ size \in Sizes
  BY DEF MapInv, TableOK, TypeOK
<1>b. ASSUME ~crowded, NEW x \in bound PROVE Found(x)
  BY <1>b DEF NamesKept, NamesFound
<1>c. ASSUME UNCHANGED vars PROVE Found(k)'
  BY <1>b, <1>c DEF vars, Found, FoundIn, EndsAt, Matches, Kth, Slot
<1>d. ASSUME NEW y \in Key, NEW n \in Slot, Live(n) => table[n].key = y, size' = size,
             NEW e, e.used # 0, e.key \in {y, NoKey}, table' = [table EXCEPT ![n] = e],
             k \in Key, k # y, Found(k)
      PROVE  Found(k)'
  <2>1. \A m \in Slot : FoundIn(k, m)' <=> FoundIn(k, m)
    BY <1>a, <1>d, WriteSpares
  <2>2. QED
    BY <1>d, <2>1 DEF Found, Slot
<1>1. ASSUME NEW y \in Key, TableFull(y) PROVE Found(k)'
  BY <1>1, <1>c DEF TableFull
<1>2. ASSUME NEW y \in Key, Delete(y) PROVE Found(k)'
  <2>1. PICK n \in Slot : /\ FoundIn(y, n) /\ table' = [table EXCEPT ![n] = Tombstone]
                          /\ size' = size /\ crowded' = crowded /\ bound' = bound \ {y}
    BY <1>2 DEF Delete
  <2>2. Tombstone.used # 0 /\ Tombstone.key = NoKey
    BY DEF Tombstone, Empty
  <2>3. PICK e : e = Tombstone
    OBVIOUS
  <2>4. table[n].key = y
    BY <1>a, <2>1, FoundIsLive
  <2>5. k \in Key /\ k # y /\ Found(k)
    BY <1>a, <1>b, <2>1
  <2>6. e.used # 0 /\ e.key \in {y, NoKey} /\ table' = [table EXCEPT ![n] = e] /\ size' = size
    BY <2>1, <2>2, <2>3
  <2>7. QED
    BY <1>d, <2>4, <2>5, <2>6
<1>3. ASSUME NEW y \in Key, NEW v \in Value, Update(y, v) PROVE Found(k)'
  <2>1. /\ size' = size /\ bound' = bound
        /\ \A x \in Slot : table'[x].used = table[x].used /\ table'[x].key = table[x].key
    BY <1>a, <1>3, UpdateSearch
  <2>2. ~crowded
    BY <1>3 DEF Update
  <2>3. \A m \in Slot : FoundIn(k, m)' <=> FoundIn(k, m)
    BY <1>a, <2>1, SameSearch
  <2>4. QED
    BY <1>b, <2>1, <2>2, <2>3 DEF Found, Slot
<1>4. ASSUME NEW y \in Key, ~Found(y), NEW n \in Slot, NewSlot(y, n), size' = size,
             NEW x \in {y, NoKey}, NEW d \in Value \union {NoValue},
             table' = [table EXCEPT ![n] = [used |-> Home(size, y), key |-> x, data |-> d]],
             crowded' = (crowded \/ Unused = {}),
             k \in bound \/ (k = y /\ x = y)
      PROVE  Found(k)'
  <2>1. PICK e : e = [used |-> Home(size, y), key |-> x, data |-> d]
    OBVIOUS
  <2>2. e.used = Home(size, y) /\ e.key = x /\ e.used # 0
    BY <1>a, <2>1, KthType
  <2>3. size' = size /\ table' = [table EXCEPT ![n] = e] /\ e.key \in {y, NoKey}
    BY <1>4, <2>1, <2>2
  <2>4. ~crowded /\ ~Live(n)
    BY <1>a, <1>4, NewSlotIsFree
  <2>5. CASE k = y
    <3>1. x = y
      BY <1>b, <1>4, <2>4, <2>5
    <3>2. FoundIn(y, n)'
      BY <1>a, <1>4, <2>2, <2>3, <3>1, NewFound
    <3>3. QED
      BY <2>3, <2>5, <3>2 DEF Found, Slot
  <2>6. CASE k # y
    <3>1. k \in Key /\ Found(k)
      BY <1>a, <1>b, <1>4, <2>4, <2>6
    <3>2. QED
      BY <1>d, <2>2, <2>3, <2>4, <2>6, <3>1
  <2>7. QED
    BY <2>5, <2>6
<1>5. ASSUME NEW y \in Key, NEW v \in Value, Create(y, v) PROVE Found(k)'
  BY <1>4, <1>5 DEF Create
<1>6. ASSUME NEW y \in Key, NEW v \in Value, CreateNoMem(y, v) PROVE Found(k)'
  BY <1>4, <1>6 DEF CreateNoMem
<1>7. CASE Recreate
  BY <1>7 DEF Recreate
<1>8. CASE UNCHANGED vars
  BY <1>8, <1>c
<1>9. QED
  BY <1>1, <1>2, <1>3, <1>5, <1>6, <1>7, <1>8 DEF Call

-----------------------------------------------------------------------------
LEMMA LiveSlotsFinite ==
  TableOK => /\ IsFiniteSet(LiveSlots) /\ Cardinality(LiveSlots) \in Nat
            /\ Cardinality(LiveSlots) <= size
<1> SUFFICES ASSUME TableOK
             PROVE  /\ IsFiniteSet(LiveSlots) /\ Cardinality(LiveSlots) \in Nat
                    /\ Cardinality(LiveSlots) <= size
  OBVIOUS
<1>1. size \in Nat
  BY SizeType DEF TableOK, TypeOK
<1>2. IsFiniteSet(Slot) /\ Cardinality(Slot) = size
  BY <1>1, FS_Interval DEF Slot
<1>3. LiveSlots \subseteq Slot
  BY DEF LiveSlots
<1>4. QED
  BY <1>2, <1>3, FS_Subset, FS_CardinalityType

\* What the write of entry e to slot n does to the number of live slots.
LEMMA LiveWrite ==
  ASSUME TableOK, size' = size, NEW n \in Slot, NEW e, table' = [table EXCEPT ![n] = e]
  PROVE  /\ e.used > 0 => LiveSlots' = LiveSlots \union {n}
         /\ ~(e.used > 0) => LiveSlots' = LiveSlots \ {n}
<1>1. \A x \in Slot : table'[x] = IF x = n THEN e ELSE table[x]
  BY DEF TableOK, TypeOK
<1>2. Slot' = Slot
  BY DEF Slot
<1>3. QED
  BY <1>1, <1>2 DEF LiveSlots, Live

LEMMA FilledStep == MapInv /\ FilledIsEntries /\ [Call]_vars => FilledIsEntries'
<1> SUFFICES ASSUME MapInv, FilledIsEntries, [Call]_vars, ~crowded', nomem' = 0
             PROVE  filled' = Cardinality(LiveSlots)'
  BY DEF FilledIsEntries, LiveSlots
<1>a. TableOK /\ TableOK' /\ size \in Sizes /\ filled \in Nat /\ nomem \in Nat
  BY TypeStep, HashTableAssumption DEF MapInv, TableOK, TypeOK
<1>b. /\ IsFiniteSet(LiveSlots) /\ Cardinality(LiveSlots) \in Nat
      /\ size \in Nat /\ size < FilledMod /\ FilledMod \in Nat
  BY <1>a, LiveSlotsFinite, SizeType
<1>c. Cardinality(LiveSlots') <= size' /\ Cardinality(LiveSlots') \in Nat
  <2>1. (TableOK => Cardinality(LiveSlots) \in Nat /\ Cardinality(LiveSlots) <= size)'
    BY LiveSlotsFinite, PTL
  <2>2. QED
    BY <1>a, <2>1
<1>d. ~crowded /\ nomem = 0 => filled = Cardinality(LiveSlots)
  BY DEF FilledIsEntries, LiveSlots
<1>e. ASSUME UNCHANGED vars PROVE filled' = Cardinality(LiveSlots')
  <2>1. LiveSlots' = LiveSlots
    BY <1>e DEF vars, LiveSlots, Live, Slot
  <2>2. QED
    BY <1>d, <1>e, <2>1 DEF vars
<1>1. ASSUME NEW k \in Key, TableFull(k) PROVE filled' = Cardinality(LiveSlots')
  BY <1>1, <1>e DEF TableFull
<1>2. ASSUME NEW k \in Key, Delete(k) PROVE filled' = Cardinality(LiveSlots')
  <2>1. PICK n \in Slot : /\ FoundIn(k, n) /\ table' = [table EXCEPT ![n] = Tombstone]
                          /\ filled' = (filled - 1) % FilledMod
                          /\ UNCHANGED <<size, crowded, nomem>>
    BY <1>2 DEF Delete
  <2>2. ~(Tombstone.used > 0)
    BY DEF Tombstone, Empty
  <2>3. LiveSlots' = LiveSlots \ {n}
    BY <1>a, <2>1, <2>2, LiveWrite
  <2>4. n \in LiveSlots
    BY <1>a, <2>1, FoundIsLive DEF LiveSlots
  <2>5. Cardinality(LiveSlots') = Cardinality(LiveSlots) - 1
    BY <1>b, <2>3, <2>4, FS_RemoveElement
  <2>6. filled - 1 = Cardinality(LiveSlots')
    BY <1>b, <1>d, <2>1, <2>5
  <2>7. Cardinality(LiveSlots') \in 0 .. FilledMod - 1
    BY <1>b, <1>c, <2>1
  <2>8. QED
    BY <1>b, <2>1, <2>6, <2>7
<1>3. ASSUME NEW k \in Key, NEW v \in Value, Update(k, v)
      PROVE  filled' = Cardinality(LiveSlots')
  <2>1. /\ size' = size /\ filled' = filled
        /\ \A x \in Slot : table'[x].used = table[x].used
    BY <1>a, <1>3, UpdateSearch
  <2>2. LiveSlots' = LiveSlots
    BY <2>1 DEF LiveSlots, Live, Slot
  <2>3. nomem = 0 /\ ~crowded
    BY <1>3, <1>a DEF Update
  <2>4. QED
    BY <1>d, <2>1, <2>2, <2>3
<1>4. ASSUME NEW k \in Key, NEW v \in Value, Create(k, v)
      PROVE  filled' = Cardinality(LiveSlots')
  <2>1. PICK n \in Slot :
          /\ NewSlot(k, n)
          /\ table' = [table EXCEPT ![n] = [used |-> Home(size, k), key |-> k, data |-> v]]
    BY <1>4 DEF Create
  <2>2. /\ ~Found(k) /\ size' = size /\ nomem' = nomem
        /\ filled' = (filled + 1) % FilledMod /\ ~crowded /\ Unused # {}
    BY <1>4 DEF Create
  <2>3. PICK e : e = [used |-> Home(size, k), key |-> k, data |-> v]
    OBVIOUS
  <2>4. e.used > 0 /\ table' = [table EXCEPT ![n] = e]
    BY <1>a, <2>1, <2>3, KthType
  <2>5. LiveSlots' = LiveSlots \union {n}
    BY <1>a, <2>2, <2>4, LiveWrite
  <2>6. n \notin LiveSlots
    BY <1>a, <2>1, <2>2, NewSlotIsFree DEF LiveSlots
  <2>7. Cardinality(LiveSlots') = Cardinality(LiveSlots) + 1
    BY <1>b, <2>5, <2>6, FS_AddElement
  <2>8. filled + 1 = Cardinality(LiveSlots')
    BY <1>d, <2>2, <2>7
  <2>9. Cardinality(LiveSlots') \in 0 .. FilledMod - 1
    BY <1>b, <1>c, <2>2
  <2>10. QED
    BY <1>b, <2>2, <2>8, <2>9
<1>5. ASSUME NEW k \in Key, NEW v \in Value, CreateNoMem(k, v) PROVE FALSE
  BY <1>a, <1>5 DEF CreateNoMem
<1>6. CASE Recreate
  <2>1. PICK s \in Sizes : size' = s /\ table' = [n \in 1 .. s |-> Empty]
    BY <1>6 DEF Recreate
  <2>2. Empty.used = 0
    BY DEF Empty
  <2>3. LiveSlots' = {}
    BY <2>1, <2>2 DEF LiveSlots, Live, Slot
  <2>4. QED
    BY <1>6, <2>3, FS_EmptySet DEF Recreate
<1>7. CASE UNCHANGED vars
  BY <1>7, <1>e
<1>8. QED
  BY <1>1, <1>2, <1>3, <1>4, <1>5, <1>6, <1>7 DEF Call

-----------------------------------------------------------------------------
(***************************************************************************)
(* Sums and concatenations.                                                *)
(***************************************************************************)
LEMMA TotalIs ==
  ASSUME NEW n \in Nat, NEW f \in [1 .. n -> Int]
  PROVE  \E e \in [0 .. n -> Int] :
           e[0] = 0 /\ (\A i \in 1 .. n : e[i] = e[i - 1] + f[i]) /\ Total(f, n) = e[n]
<1> DEFINE D == 0 .. n
           B == {0}
           base == [d \in B |-> 0]
           mu == [d \in D |-> d]
           nx == [d \in D \ B |-> d - 1]
           add == [d \in D \ B |-> [v \in Int |-> v + f[d]]]
           h == CHOOSE g : g = [i \in 0 .. n |-> IF i = 0 THEN 0 ELSE g[i - 1] + f[i]]
<1>1. mu \in [D -> 0 .. n] /\ B \in SUBSET D /\ base \in [B -> Int] /\ nx \in [D \ B -> D]
  OBVIOUS
<1>2. add \in [D \ B -> [Int -> Int]]
  OBVIOUS
<1>3. \A d \in D \ B : mu[nx[d]] < mu[d]
  OBVIOUS
<1>4. PICK g \in [D -> Int] : Solves(g, D, B, base, nx, add)
  <2> HIDE DEF D, B, base, mu, nx, add
  <2> QED BY <1>1, <1>2, <1>3, Recursion
<1>5. g = [i \in 0 .. n |-> IF i = 0 THEN 0 ELSE g[i - 1] + f[i]]
  <2>1. ASSUME NEW i \in 0 .. n PROVE g[i] = IF i = 0 THEN 0 ELSE g[i - 1] + f[i]
    <3>1. CASE i = 0
      BY <1>4, <3>1 DEF Solves
    <3>2. CASE i # 0
      <4>1. i \in D \ B /\ nx[i] = i - 1 /\ g[i - 1] \in Int
        BY <3>2
      <4>2. add[i][g[i - 1]] = g[i - 1] + f[i]
        BY <4>1
      <4> HIDE DEF add, nx, base
      <4> QED BY <1>4, <3>2, <4>1, <4>2 DEF Solves
    <3> QED BY <3>1, <3>2
  <2> QED BY <2>1
<1>6. h = [i \in 0 .. n |-> IF i = 0 THEN 0 ELSE h[i - 1] + f[i]]
  BY <1>5
<1>7. Total(f, n) = h[n]
  BY DEF Total
<1> HIDE DEF h
<1>8. \A i \in 0 .. n : h[i] \in Int
  <2> DEFINE S == {i \in 0 .. n : h[i] \in Int}
  <2>1. 0 \in S
    BY <1>6
  <2>2. \A i \in 0 .. n - 1 : i \in S => i + 1 \in S
    BY <1>6
  <2>3. \A i \in 0 .. n : i \in S
    <3> HIDE DEF S
    <3> QED BY <2>1, <2>2, Upwards
  <2> QED BY <2>3
<1>9. DOMAIN h = 0 .. n /\ h[0] = 0 /\ \A i \in 1 .. n : h[i] = h[i - 1] + f[i]
  BY <1>6
<1> QED BY <1>6, <1>7, <1>8, <1>9

\* Where the parts of a concatenation are.
Offsets(f, n, e) == /\ e \in [0 .. n -> Nat] /\ e[0] = 0
                    /\ \A i \in 1 .. n : e[i] = e[i - 1] + Len(f[i])
                    /\ \A i, k \in 0 .. n : i <= k => e[i] <= e[k]

Holds(t, f, n, e) ==
  /\ Len(t) = e[n]
  /\ \A i \in 1 .. n : \A j \in 1 .. Len(f[i]) : t[e[i - 1] + j] = f[i][j]

LEMMA OffsetsExist ==
  ASSUME NEW n \in Nat, NEW C, NEW f \in [1 .. n -> Seq(C)]
  PROVE  \E e : Offsets(f, n, e)
<1> DEFINE l == [i \in 1 .. n |-> Len(f[i])]
<1>1. l \in [1 .. n -> Int] /\ \A i \in 1 .. n : l[i] \in Nat
  OBVIOUS
<1>2. PICK e \in [0 .. n -> Int] : e[0] = 0 /\ \A i \in 1 .. n : e[i] = e[i - 1] + l[i]
  <2> HIDE DEF l
  <2> QED BY <1>1, TotalIs
<1>3. \A i \in 0 .. n : e[i] \in Nat
  <2> DEFINE S == {i \in 0 .. n : e[i] \in Nat}
  <2>1. 0 \in S
    BY <1>2
  <2>2. \A i \in 0 .. n - 1 : i \in S => i + 1 \in S
    <3> SUFFICES ASSUME NEW i \in 0 .. n - 1, i \in S PROVE e[i + 1] \in Nat
      OBVIOUS
    <3>1. i + 1 \in 1 .. n /\ (i + 1) - 1 = i
      OBVIOUS
    <3>2. e[i + 1] = e[i] + l[i + 1] /\ l[i + 1] \in Nat
      BY <1>1, <1>2, <3>1
    <3> QED BY <3>2
  <2>3. \A i \in 0 .. n : i \in S
    <3> HIDE DEF S
    <3> QED BY <2>1, <2>2, Upwards
  <2> QED BY <2>3
<1> HIDE DEF l
<1>4. ASSUME NEW i \in 0 .. n PROVE \A k \in 0 .. n : i <= k => e[i] <= e[k]
  <2> DEFINE S == {k \in 0 .. n : i <= k => e[i] <= e[k]}
  <2>1. 0 \in S
    BY <1>3
  <2>2. \A k \in 0 .. n - 1 : k \in S => k + 1 \in S
    <3> SUFFICES ASSUME NEW k \in 0 .. n - 1, k \in S PROVE k + 1 \in S
      OBVIOUS
    <3>1. k + 1 \in 1 .. n /\ (k + 1) - 1 = k /\ k \in 0 .. n /\ k + 1 \in 0 .. n
      OBVIOUS
    <3>2. e[k + 1] = e[k] + l[k + 1] /\ l[k + 1] \in Nat
      BY <1>1, <1>2, <3>1
    <3>3. e[i] \in Nat /\ e[k] \in Nat /\ e[k + 1] \in Nat
      BY <1>3, <3>1
    <3>4. e[k] <= e[k + 1]
      <4>1. PICK p \in Nat, q \in Nat, x \in Nat : p = e[k] /\ q = e[k + 1] /\ x = l[k + 1]
        BY <3>2, <3>3
      <4>2. q = p + x
        BY <3>2, <4>1
      <4>3. p <= q
        BY <4>2
      <4> QED BY <4>1, <4>3
    <3>5. i <= k + 1 => e[i] <= e[k + 1]
      <4>1. CASE i = k + 1
        BY <3>3, <4>1
      <4>2. CASE i <= k
        BY <3>3, <3>4, <4>2
      <4> QED BY <4>1, <4>2
    <3> QED BY <3>1, <3>5
  <2>3. \A k \in 0 .. n : k \in S
    <3> HIDE DEF S
    <3> QED BY <2>1, <2>2, Upwards
  <2> QED BY <2>3
<1>5. e \in [0 .. n -> Nat]
  BY <1>2, <1>3
<1>6. \A i \in 1 .. n : e[i] = e[i - 1] + Len(f[i])
  BY <1>2 DEF l
<1> QED BY <1>2, <1>4, <1>5, <1>6 DEF Offsets

Joins(C, v, w, z) ==
  /\ z \in Seq(C) /\ Len(z) = Len(v) + Len(w) /\ Len(v) \in Nat /\ Len(w) \in Nat
  /\ \A i \in 1 .. Len(v) : z[i] = v[i]
  /\ \A j \in 1 .. Len(w) : z[Len(v) + j] = w[j]

LEMMA Joined ==
  ASSUME NEW C, NEW v \in Seq(C), NEW w \in Seq(C)
  PROVE  Joins(C, v, w, v \o w)
<1>1. Len(v) \in Nat /\ Len(w) \in Nat
  OBVIOUS
<1>2. \A j \in 1 .. Len(w) : (v \o w)[Len(v) + j] = w[j]
  <2> TAKE j \in 1 .. Len(w)
  <2>1. Len(v) + j \in Len(v) + 1 .. Len(v) + Len(w) /\ (Len(v) + j) - Len(v) = j
    BY <1>1
  <2> QED BY <2>1
<1> QED BY <1>1, <1>2 DEF Joins

LEMMA Flattened ==
  ASSUME NEW n \in Nat, NEW C, NEW f \in [1 .. n -> Seq(C)], NEW e, Offsets(f, n, e)
  PROVE  FlattenSeq(f) \in Seq(C) /\ Holds(FlattenSeq(f), f, n, e)
<1>1. f \in Seq(Seq(C)) /\ Len(f) = n
  OBVIOUS
<1>2. CASE n = 0
  <2>1. f = <<>>
    BY <1>1, <1>2
  <2>2. FlattenSeq(f) = <<>>
    BY <1>1, <1>2, <2>1 DEF FlattenSeq
  <2> QED BY <1>2, <2>2 DEF Holds, Offsets
<1>3. CASE n # 0
  <2> DEFINE D == 1 .. n
             B == {1}
             V == Seq(C)
             base == [d \in B |-> f[1]]
             mu == [d \in D |-> d]
             nx == [d \in D \ B |-> d - 1]
             add == [d \in D \ B |-> [v \in V |-> v \o f[d]]]
             h == CHOOSE g : g = [i \in 1 .. n |-> IF i = 1 THEN f[i] ELSE g[i - 1] \o f[i]]
  <2>1. mu \in [D -> 0 .. n] /\ B \in SUBSET D /\ base \in [B -> V] /\ nx \in [D \ B -> D]
    BY <1>3
  <2>2. add \in [D \ B -> [V -> V]]
    OBVIOUS
  <2>3. \A d \in D \ B : mu[nx[d]] < mu[d]
    OBVIOUS
  <2>4. PICK g \in [D -> V] : Solves(g, D, B, base, nx, add)
    <3> HIDE DEF D, B, V, base, mu, nx, add
    <3> QED BY <2>1, <2>2, <2>3, Recursion
  <2>5. g = [i \in 1 .. n |-> IF i = 1 THEN f[i] ELSE g[i - 1] \o f[i]]
    <3>1. ASSUME NEW i \in 1 .. n PROVE g[i] = IF i = 1 THEN f[i] ELSE g[i - 1] \o f[i]
      <4>1. CASE i = 1
        BY <2>4, <4>1 DEF Solves
      <4>2. CASE i # 1
        <5>1. i \in D \ B /\ nx[i] = i - 1 /\ g[i - 1] \in V
          BY <4>2
        <5>2. add[i][g[i - 1]] = g[i - 1] \o f[i]
          BY <5>1
        <5> HIDE DEF add, nx, base, V
        <5> QED BY <2>4, <4>2, <5>1, <5>2 DEF Solves
      <4> QED BY <4>1, <4>2
    <3> QED BY <3>1
  <2>6. h = [i \in 1 .. n |-> IF i = 1 THEN f[i] ELSE h[i - 1] \o f[i]]
    BY <2>5
  <2>7. FlattenSeq(f) = h[n]
    BY <1>1, <1>3 DEF FlattenSeq
  <2> HIDE DEF h
  <2> DEFINE Fine(m) == /\ h[m] \in Seq(C) /\ Len(h[m]) = e[m]
                        /\ \A i \in 1 .. m : \A j \in 1 .. Len(f[i]) : h[m][e[i - 1] + j] = f[i][j]
             S == {m \in 0 .. n : m = 0 \/ Fine(m)}
  <2>8. 0 \in S
    OBVIOUS
  <2>9. ASSUME NEW m \in 0 .. n - 1, m \in S PROVE m + 1 \in S
    <3>0. /\ m + 1 \in 1 .. n /\ (m + 1) - 1 = m /\ f[m + 1] \in Seq(C) /\ Len(f[m + 1]) \in Nat
          /\ e[m] \in Nat /\ e[m + 1] = e[m] + Len(f[m + 1])
          /\ h[m + 1] = IF m = 0 THEN f[m + 1] ELSE h[m] \o f[m + 1]
      <4>1. /\ m + 1 \in 1 .. n /\ (m + 1) - 1 = m /\ m \in 0 .. n
            /\ (m + 1 = 1 <=> m = 0)
        OBVIOUS
      <4>2. f[m + 1] \in Seq(C) /\ Len(f[m + 1]) \in Nat
        BY <4>1
      <4>3. e[m] \in Nat /\ e[m + 1] = e[m] + Len(f[m + 1])
        BY <4>1 DEF Offsets
      <4> QED BY <2>6, <4>1, <4>2, <4>3
    <3>1. CASE m = 0
      <4>1. e[m] = 0
        BY <3>1 DEF Offsets
      <4>2. \A i \in 1 .. m + 1 : i = m + 1
        BY <3>1
      <4> QED BY <3>0, <3>1, <4>1, <4>2
    <3>2. CASE m # 0
      <4>0. h[m] \in Seq(C) /\ f[m + 1] \in Seq(C)
        BY <2>9, <3>0, <3>2
      <4>1. PICK x, y, z : /\ x = h[m] /\ y = f[m + 1] /\ z = h[m + 1]
                           /\ x \in Seq(C) /\ y \in Seq(C)
        BY <4>0
      <4>2. z = x \o y /\ Len(x) = e[m] /\ Len(x) \in Nat /\ Len(y) \in Nat
        BY <2>9, <3>0, <3>2, <4>1
      <4>a. Joins(C, x, y, z)
        BY <4>1, <4>2, Joined
      <4>3. /\ z \in Seq(C) /\ Len(z) = Len(x) + Len(y)
            /\ \A i \in 1 .. Len(x) : z[i] = x[i]
            /\ \A j \in 1 .. Len(y) : z[Len(x) + j] = y[j]
        BY <4>a DEF Joins
      <4>4. ASSUME NEW i \in 1 .. m + 1, NEW j \in 1 .. Len(f[i])
            PROVE  z[e[i - 1] + j] = f[i][j]
        <5>1. CASE i = m + 1
          <6>1. i - 1 = m /\ f[i] = y
            BY <3>0, <4>1, <5>1
          <6> QED BY <4>2, <4>3, <4>4, <6>1
        <5>2. CASE i # m + 1
          <6>1. i \in 1 .. m /\ i \in 0 .. n /\ i - 1 \in 0 .. n /\ i \in 1 .. n /\ i <= m /\ m \in 0 .. n
            BY <4>4, <5>2
          <6>2. x[e[i - 1] + j] = f[i][j]
            BY <2>9, <3>2, <4>1, <4>4, <6>1
          <6>3. e[i] <= e[m] /\ e[i] = e[i - 1] + Len(f[i]) /\ e[i - 1] \in Nat
            BY <6>1 DEF Offsets
          <6>4. e[i - 1] + j \in 1 .. Len(x)
            <7>1. Len(f[i]) \in Nat /\ e[m] \in Nat
              BY <3>0, <6>1
            <7>2. PICK a \in Nat, b \in Nat, c \in Nat : a = e[i - 1] /\ b = Len(f[i]) /\ c = e[m]
              BY <6>3, <7>1
            <7>3. a + b <= c /\ j \in 1 .. b
              BY <4>4, <6>3, <7>2
            <7>4. a + j \in 1 .. c
              BY <7>3
            <7> QED BY <4>2, <7>2, <7>4
          <6> QED BY <4>3, <6>2, <6>4
        <5> QED BY <5>1, <5>2
      <4>5. Fine(m + 1)
        <5>1. h[m + 1] \in Seq(C) /\ Len(h[m + 1]) = e[m + 1]
          BY <3>0, <4>1, <4>2, <4>3
        <5> QED BY <4>1, <4>4, <5>1
      <4>6. m + 1 \in 0 .. n
        BY <3>0
      <4> HIDE DEF Fine
      <4> QED BY <4>5, <4>6
    <3> QED BY <3>1, <3>2
  <2>10. \A m \in 0 .. n : m \in S
    <3> HIDE DEF S
    <3> QED BY <2>8, <2>9, Upwards
  <2>11. Fine(n)
    <3>1. n \in 0 .. n
      OBVIOUS
    <3> HIDE DEF Fine
    <3> QED BY <1>3, <2>10, <3>1
  <2> QED BY <2>7, <2>11 DEF Holds
<1> QED BY <1>2, <1>3

-----------------------------------------------------------------------------
(***************************************************************************)
(* Parsing, himport_r().                                                   *)
(***************************************************************************)
LEMMA StrongDown ==
  ASSUME NEW n \in Nat, NEW S, \A i \in 1 .. n : (\A k \in i + 1 .. n : k \in S) => i \in S
  PROVE  \A i \in 1 .. n : i \in S
<1> DEFINE Bad == {d \in 0 .. n : n - d \in 1 .. n /\ n - d \notin S}
<1>1. SUFFICES ASSUME Bad # {} PROVE FALSE
  <2>1. ASSUME NEW i \in 1 .. n, i \notin S PROVE n - i \in Bad
    <3>1. n - (n - i) = i /\ n - i \in 0 .. n
      OBVIOUS
    <3> QED BY <2>1, <3>1
  <2> QED BY <2>1
<1>2. PICK x \in Bad : \A y \in Bad : x <= y
  <2>1. Bad \in SUBSET Nat
    OBVIOUS
  <2> HIDE DEF Bad
  <2> QED BY <1>1, <2>1, LeastNat
<1>3. \A k \in (n - x) + 1 .. n : k \in S
  <2> SUFFICES ASSUME NEW k \in (n - x) + 1 .. n, k \notin S PROVE FALSE
    OBVIOUS
  <2>1. k \in 1 .. n /\ n - k \in 0 .. n /\ n - (n - k) = k /\ n - k < x
    BY <1>2
  <2>2. n - k \in Bad
    BY <2>1
  <2> QED BY <1>2, <2>1, <2>2
<1> QED BY <1>2, <1>3

LEMMA AtType == \A t \in Seq(Char), i \in Nat \ {0} : At(t, i) \in Char
<1> SUFFICES ASSUME NEW t \in Seq(Char), NEW i \in Nat \ {0} PROVE At(t, i) \in Char
  OBVIOUS
<1>1. Nul \in Char
  BY EnvTextAssumption DEF Sep
<1>2. CASE i <= Len(t)
  <2>1. i \in 1 .. Len(t)
    BY <1>2
  <2> QED BY <1>2, <2>1 DEF At
<1>3. CASE ~(i <= Len(t))
  BY <1>1, <1>3 DEF At
<1> QED BY <1>2, <1>3

LEMMA AtEnd == \A t \in Seq(Char) : \A i \in Nat : i > Len(t) => At(t, i) = Nul
BY DEF At

LEMMA NextAt ==
  ASSUME NEW t \in Seq(Char), NEW i \in Nat, NEW S, NEW j \in i .. Len(t) + 1, At(t, j) \in S,
         \A l \in i .. j - 1 : At(t, l) \notin S
  PROVE  Next1(t, i, S) = j
<1> DEFINE P(x) == x \in i .. Len(t) + 1 /\ At(t, x) \in S /\ \A l \in i .. x - 1 : At(t, l) \notin S
           x == Next1(t, i, S)
<1>1. P(x)
  BY DEF Next1
<1> HIDE DEF x
<1>2. ~(x < j)
  BY <1>1
<1>3. ~(j < x)
  BY <1>1
<1> QED BY <1>1, <1>2, <1>3 DEF x

LEMMA NextExists ==
  ASSUME NEW t \in Seq(Char), NEW i \in 1 .. Len(t) + 1, NEW S, Nul \in S
  PROVE  /\ Next1(t, i, S) \in i .. Len(t) + 1 /\ At(t, Next1(t, i, S)) \in S
         /\ \A l \in i .. Next1(t, i, S) - 1 : At(t, l) \notin S
<1> DEFINE H == {j \in i .. Len(t) + 1 : At(t, j) \in S}
<1>1. Len(t) + 1 \in H
  BY AtEnd
<1>2. PICK j \in H : \A y \in H : j <= y
  <2>1. H \in SUBSET Nat
    OBVIOUS
  <2> HIDE DEF H
  <2> QED BY <1>1, <2>1, LeastNat
<1>3. \A l \in i .. j - 1 : At(t, l) \notin S
  BY <1>2
<1>4. Next1(t, i, S) = j
  BY <1>2, <1>3, NextAt
<1> QED BY <1>2, <1>3, <1>4

LEMMA SkipIsNext ==
  ASSUME NEW t \in Seq(Char), NEW i \in 1 .. Len(t) + 1, NEW S
  PROVE  Skip1(t, i, S) = Next1(t, i, Char \ S)
<1>1. \A j \in i .. Len(t) + 1 : At(t, j) \in Char
  BY AtType
<1>2. \A j \in i .. Len(t) + 1 :
        (At(t, j) \notin S /\ \A l \in i .. j - 1 : At(t, l) \in S) <=>
        (At(t, j) \in Char \ S /\ \A l \in i .. j - 1 : At(t, l) \notin Char \ S)
  BY <1>1
<1> DEFINE A(j) == At(t, j) \notin S /\ \A l \in i .. j - 1 : At(t, l) \in S
           C(j) == At(t, j) \in Char \ S /\ \A l \in i .. j - 1 : At(t, l) \notin Char \ S
<1>3. \A j \in i .. Len(t) + 1 : A(j) <=> C(j)
  BY <1>2
<1>4. Skip1(t, i, S) = CHOOSE j \in i .. Len(t) + 1 : A(j)
  BY DEF Skip1
<1>5. Next1(t, i, Char \ S) = CHOOSE j \in i .. Len(t) + 1 : C(j)
  BY DEF Next1
<1> HIDE DEF A, C
<1>6. (CHOOSE j \in i .. Len(t) + 1 : A(j)) = (CHOOSE j \in i .. Len(t) + 1 : C(j))
  BY <1>3
<1> QED BY <1>4, <1>5, <1>6

\* The equation of Values, and its type.
Taken(t, i) == IF At(t, i) = Backslash /\ At(t, i + 1) # Nul THEN i + 1 ELSE i

ValueRec == [text : Seq(Char), next : Nat]

ValueEq(t, sep, val) ==
  \A i \in 1 .. Len(t) + 2 :
    val[i] = IF At(t, i) \in {Nul, sep} THEN [text |-> <<>>, next |-> i + 1]
             ELSE [text |-> <<At(t, Taken(t, i))>> \o val[Taken(t, i) + 1].text,
                   next |-> val[Taken(t, i) + 1].next]

LEMMA AfterType ==
  ASSUME NEW t \in Seq(Char), NEW i \in 1 .. Len(t) + 2, At(t, i) # Nul
  PROVE  /\ Taken(t, i) + 1 \in i + 1 .. Len(t) + 2 /\ i <= Len(t)
         /\ At(t, Taken(t, i)) \in Char
<1>0. Len(t) \in Nat /\ i \in Nat
  OBVIOUS
<1>1. i <= Len(t)
  BY <1>0, AtEnd
<1>2. At(t, i + 1) # Nul => i + 1 <= Len(t)
  <2>1. i + 1 \in Nat
    OBVIOUS
  <2> QED BY <1>0, <2>1, AtEnd
<1>3. Taken(t, i) = i \/ (Taken(t, i) = i + 1 /\ i + 1 <= Len(t))
  BY <1>0, <1>2 DEF Taken
<1>4. Taken(t, i) + 1 \in i + 1 .. Len(t) + 2 /\ Taken(t, i) \in Nat \ {0}
  BY <1>0, <1>1, <1>3
<1> QED BY <1>1, <1>4, AtType

LEMMA ValuesExist ==
  ASSUME NEW t \in Seq(Char), NEW sep \in Sep
  PROVE  /\ ValueEq(t, sep, Values(t, sep)) /\ DOMAIN Values(t, sep) = 1 .. Len(t) + 2
<1> DEFINE D == 1 .. Len(t) + 2
           B == {i \in D : At(t, i) \in {Nul, sep}}
           base == [d \in B |-> [text |-> <<>>, next |-> d + 1]]
           mu == [d \in D |-> (Len(t) + 2) - d]
           nx == [d \in D \ B |-> Taken(t, d) + 1]
           Add(d, v) == [text |-> <<At(t, Taken(t, d))>> \o v.text, next |-> v.next]
           add == [d \in D \ B |-> [v \in ValueRec |-> Add(d, v)]]
           Rhs(g, i) == IF At(t, i) \in {Nul, sep} THEN [text |-> <<>>, next |-> i + 1]
                     ELSE [text |-> <<At(t, Taken(t, i))>> \o g[Taken(t, i) + 1].text,
                           next |-> g[Taken(t, i) + 1].next]
           h == CHOOSE g : g = [i \in 1 .. Len(t) + 2 |-> Rhs(g, i)]
<1>0. \A d \in D \ B : Taken(t, d) + 1 \in d + 1 .. Len(t) + 2 /\ At(t, Taken(t, d)) \in Char
  BY AfterType
<1>1. mu \in [D -> 0 .. Len(t) + 2] /\ B \in SUBSET D /\ base \in [B -> ValueRec]
  BY DEF ValueRec
<1>2. nx \in [D \ B -> D] /\ Len(t) + 2 \in Nat
  BY <1>0
<1>3. add \in [D \ B -> [ValueRec -> ValueRec]]
  <2>1. ASSUME NEW d \in D \ B, NEW v \in ValueRec PROVE Add(d, v) \in ValueRec
    <3>1. At(t, Taken(t, d)) \in Char
      BY <1>0
    <3>2. <<At(t, Taken(t, d))>> \in Seq(Char) /\ v.text \in Seq(Char) /\ v.next \in Nat
      BY <3>1 DEF ValueRec
    <3>3. <<At(t, Taken(t, d))>> \o v.text \in Seq(Char)
      BY <3>2
    <3> QED BY <3>2, <3>3 DEF ValueRec
  <2> HIDE DEF Add
  <2> QED BY <2>1
<1>4. \A d \in D \ B : mu[nx[d]] < mu[d]
  <2> SUFFICES ASSUME NEW d \in D \ B PROVE mu[nx[d]] < mu[d]
    OBVIOUS
  <2>1. PICK a \in Nat, l \in Nat : a = Taken(t, d) + 1 /\ l = Len(t)
    BY <1>0
  <2>2. a \in d + 1 .. l + 2
    BY <1>0, <2>1
  <2>3. mu[nx[d]] = (l + 2) - a /\ mu[d] = (l + 2) - d
    BY <1>2, <2>1, <2>2
  <2> QED BY <2>2, <2>3
<1>5. PICK g \in [D -> ValueRec] : Solves(g, D, B, base, nx, add)
  <2> HIDE DEF D, B, base, mu, nx, add
  <2> QED BY <1>1, <1>2, <1>3, <1>4, Recursion
<1>6. g = [i \in 1 .. Len(t) + 2 |-> Rhs(g, i)]
  <2>1. ASSUME NEW i \in D PROVE g[i] = Rhs(g, i)
    <3>1. CASE i \in B
      BY <1>5, <3>1 DEF Solves
    <3>2. CASE i \notin B
      <4>1. i \in D \ B /\ nx[i] = Taken(t, i) + 1 /\ g[Taken(t, i) + 1] \in ValueRec
        BY <1>2, <3>2
      <4>2. add[i][g[Taken(t, i) + 1]] = Add(i, g[Taken(t, i) + 1])
        BY <4>1
      <4>3. g[i] = add[i][g[nx[i]]]
        <5> HIDE DEF add, nx, base, B
        <5> QED BY <1>5, <3>2 DEF Solves
      <4> HIDE DEF add, nx, base
      <4>4. ~(At(t, i) \in {Nul, sep})
        BY <3>2
      <4> QED BY <4>1, <4>2, <4>3, <4>4
    <3> QED BY <3>1, <3>2
  <2> HIDE DEF Rhs
  <2> QED BY <2>1
<1>7. h = [i \in 1 .. Len(t) + 2 |-> Rhs(h, i)]
  <2> HIDE DEF Rhs
  <2> QED BY <1>6
<1>8. Values(t, sep) = h
  <2>1. Values(t, sep) = CHOOSE g1 : g1 = [i \in 1 .. Len(t) + 2 |->
          IF At(t, i) \in {Nul, sep} THEN [text |-> <<>>, next |-> i + 1]
          ELSE [text |-> <<At(t, IF At(t, i) = Backslash /\ At(t, i + 1) # Nul THEN i + 1 ELSE i)>>
                         \o g1[(IF At(t, i) = Backslash /\ At(t, i + 1) # Nul THEN i + 1 ELSE i) + 1].text,
                next |-> g1[(IF At(t, i) = Backslash /\ At(t, i + 1) # Nul THEN i + 1 ELSE i) + 1].next]]
    BY DEF Values
  <2> QED BY <2>1 DEF Taken
<1> HIDE DEF h
<1>9. DOMAIN h = 1 .. Len(t) + 2 /\ \A i \in 1 .. Len(t) + 2 : h[i] = Rhs(h, i)
  <2> HIDE DEF Rhs
  <2> QED BY <1>7
<1> QED BY <1>8, <1>9 DEF ValueEq

LEMMA ValuesType ==
  ASSUME NEW t \in Seq(Char), NEW sep \in Sep, NEW val, ValueEq(t, sep, val)
  PROVE  \A i \in 1 .. Len(t) + 2 : val[i] \in ValueRec /\ val[i].next > i
<1> DEFINE S == {i \in 1 .. Len(t) + 2 : val[i] \in ValueRec /\ val[i].next > i}
<1>0. PICK N \in Nat : N = Len(t) + 2
  OBVIOUS
<1>1. ASSUME NEW i \in 1 .. N, \A k \in i + 1 .. N : k \in S PROVE i \in S
  <2>1. CASE At(t, i) \in {Nul, sep}
    <3>1. val[i] = [text |-> <<>>, next |-> i + 1]
      BY <1>0, <2>1 DEF ValueEq
    <3>2. val[i] \in ValueRec /\ val[i].next = i + 1
      BY <3>1 DEF ValueRec
    <3> QED BY <1>0, <3>2
  <2>2. CASE At(t, i) \notin {Nul, sep}
    <3>1. Taken(t, i) + 1 \in i + 1 .. N /\ At(t, Taken(t, i)) \in Char
      BY <1>0, <2>2, AfterType
    <3>2. PICK k \in i + 1 .. N, c \in Char : k = Taken(t, i) + 1 /\ c = At(t, Taken(t, i))
      BY <3>1
    <3>3. val[k] \in ValueRec /\ val[k].next > k
      BY <1>1, <3>2
    <3>4. val[i] = [text |-> <<c>> \o val[k].text, next |-> val[k].next]
      BY <1>0, <2>2, <3>2 DEF ValueEq
    <3>5. val[k].text \in Seq(Char) /\ val[k].next \in Nat
      BY <3>3 DEF ValueRec
    <3>6. <<c>> \o val[k].text \in Seq(Char)
      BY <3>5
    <3>7. val[k].next > i
      BY <3>2, <3>3, <3>5
    <3>8. val[i] \in ValueRec
      BY <3>4, <3>5, <3>6 DEF ValueRec
    <3> QED BY <1>0, <3>4, <3>7, <3>8
  <2> QED BY <2>1, <2>2
<1>2. \A i \in 1 .. N : i \in S
  <2> HIDE DEF S
  <2> QED BY <1>1, StrongDown
<1> QED BY <1>0, <1>2

LEMMA SameSeq ==
  ASSUME NEW C, NEW v \in Seq(C), NEW w \in Seq(C), Len(v) = Len(w),
         \A i \in 1 .. Len(w) : v[i] = w[i]
  PROVE  v = w
OBVIOUS

\* The last characters of a text.
From(w, m) == [i \in 1 .. Len(w) - m |-> w[m + i]]

LEMMA FromType ==
  ASSUME NEW C, NEW w \in Seq(C), NEW m \in 0 .. Len(w)
  PROVE  From(w, m) \in Seq(C) /\ Len(From(w, m)) = Len(w) - m
<1>1. PICK l \in Nat : l = Len(w) - m
  OBVIOUS
<1>2. \A i \in 1 .. l : m + i \in 1 .. Len(w)
  BY <1>1
<1>3. [i \in 1 .. l |-> w[m + i]] \in Seq(C)
  BY <1>2
<1> QED BY <1>1, <1>3 DEF From

LEMMA FromStep ==
  ASSUME NEW C, NEW w \in Seq(C), NEW m \in 0 .. Len(w) - 1
  PROVE  <<w[m + 1]>> \o From(w, m + 1) = From(w, m)
<1>1. PICK x, y, c : x = From(w, m + 1) /\ y = From(w, m) /\ c = w[m + 1]
  OBVIOUS
<1>2. m + 1 \in 0 .. Len(w) /\ m \in 0 .. Len(w) /\ m + 1 \in 1 .. Len(w) /\ c \in C
  BY <1>1
<1>3. x \in Seq(C) /\ y \in Seq(C) /\ Len(x) = Len(w) - (m + 1) /\ Len(y) = Len(w) - m
  BY <1>1, <1>2, FromType
<1>4. PICK z : z = <<c>> \o x
  OBVIOUS
<1>5. <<c>> \in Seq(C) /\ Len(<<c>>) = 1 /\ <<c>>[1] = c
  BY <1>2
<1>6. PICK s : s = <<c>>
  OBVIOUS
<1>7. Joins(C, s, x, z)
  BY <1>3, <1>4, <1>5, <1>6, Joined
<1>8. /\ z \in Seq(C) /\ Len(z) = 1 + Len(x) /\ z[1] = c
      /\ \A j \in 1 .. Len(x) : z[1 + j] = x[j]
  BY <1>5, <1>6, <1>7 DEF Joins
<1>9. Len(z) = Len(y)
  BY <1>3, <1>8
<1>10. ASSUME NEW i \in 1 .. Len(y) PROVE z[i] = y[i]
  <2>1. y[i] = w[m + i]
    BY <1>1, <1>3 DEF From
  <2>2. CASE i = 1
    BY <1>1, <1>8, <2>1, <2>2
  <2>3. CASE i # 1
    <3>1. i - 1 \in 1 .. Len(x) /\ 1 + (i - 1) = i /\ (m + 1) + (i - 1) = m + i
      BY <1>3, <2>3
    <3>2. x[i - 1] = w[(m + 1) + (i - 1)]
      BY <1>1, <1>3, <3>1 DEF From
    <3> QED BY <1>8, <2>1, <3>1, <3>2
  <2> QED BY <2>2, <2>3
<1>11. z = y
  BY <1>3, <1>8, <1>9, <1>10, SameSeq
<1> QED BY <1>1, <1>4, <1>11

LEMMA FromAll ==
  ASSUME NEW C, NEW w \in Seq(C)
  PROVE  From(w, 0) = w /\ From(w, Len(w)) = <<>>
<1>1. \A i \in 1 .. Len(w) : w[0 + i] = w[i]
  OBVIOUS
<1>2. Len(w) - 0 = Len(w) /\ Len(w) - Len(w) = 0
  OBVIOUS
<1>3. From(w, 0) = [i \in 1 .. Len(w) |-> w[i]]
  BY <1>1, <1>2 DEF From
<1>4. From(w, Len(w)) = [i \in 1 .. 0 |-> w[Len(w) + i]]
  BY <1>2 DEF From
<1>5. From(w, Len(w)) \in Seq(C) /\ Len(From(w, Len(w))) = 0
  BY <1>2, FromType
<1> QED BY <1>3, <1>5

LEMMA AtIs ==
  ASSUME NEW t \in Seq(Char), NEW i \in 1 .. Len(t)
  PROVE  At(t, i) = t[i]
BY DEF At

LEMMA Distinct ==
  /\ Nul # Newline /\ Nul # Backslash /\ Nul # "=" /\ Newline # Backslash /\ Newline # "="
  /\ Backslash # "=" /\ Nul \notin Blank /\ Nul # "#"
BY DEF Nul, Newline, Backslash, Blank

\* The characters that hexport_r() writes for each character of a value.
EscapeParts(w, sep) ==
  [i \in 1 .. Len(w) |-> IF Escaped(w[i], sep) THEN <<Backslash, w[i]>> ELSE <<w[i]>>]

EscapePart(p, c, sep) ==
  \/ Escaped(c, sep) /\ Len(p) = 2 /\ p[1] = Backslash /\ p[2] = c
  \/ ~Escaped(c, sep) /\ Len(p) = 1 /\ p[1] = c

LEMMA EscapePartsAre ==
  ASSUME NEW w \in Seq(Char), NEW sep
  PROVE  /\ EscapeParts(w, sep) \in [1 .. Len(w) -> Seq(Char)]
         /\ \A i \in 1 .. Len(w) :
              EscapePart(EscapeParts(w, sep)[i], w[i], sep)
<1>1. Backslash \in Char
  BY EnvTextAssumption
<1>2. \A c \in Char : <<Backslash, c>> \in Seq(Char) /\ <<c>> \in Seq(Char)
  BY <1>1
<1>3. \A c \in Char : /\ Len(<<Backslash, c>>) = 2 /\ <<Backslash, c>>[1] = Backslash
                      /\ <<Backslash, c>>[2] = c /\ Len(<<c>>) = 1 /\ <<c>>[1] = c
  OBVIOUS
<1>4. \A i \in 1 .. Len(w) : w[i] \in Char
  OBVIOUS
<1> QED BY <1>2, <1>3, <1>4 DEF EscapeParts, EscapePart

LEMMA EscapeIs ==
  ASSUME NEW w \in Seq(Char), NEW sep
  PROVE  \E e : /\ Offsets(EscapeParts(w, sep), Len(w), e) /\ Escape(w, sep) \in Seq(Char)
                /\ Holds(Escape(w, sep), EscapeParts(w, sep), Len(w), e)
<1>1. PICK f : f = EscapeParts(w, sep)
  OBVIOUS
<1>2. Escape(w, sep) = FlattenSeq(f)
  BY <1>1 DEF Escape, EscapeParts
<1>3. f \in [1 .. Len(w) -> Seq(Char)] /\ Len(w) \in Nat
  BY <1>1, EscapePartsAre
<1>4. PICK e : Offsets(f, Len(w), e)
  BY <1>3, OffsetsExist
<1>5. FlattenSeq(f) \in Seq(Char) /\ Holds(FlattenSeq(f), f, Len(w), e)
  BY <1>3, <1>4, Flattened
<1> QED BY <1>1, <1>2, <1>4, <1>5

\* What EnvTextAssumption says of the text of a name and of a value.
IsName(k) == /\ k \in Seq(Char) /\ k # <<>> /\ k[1] \notin Blank \union {"#"}
             /\ \A i \in 1 .. Len(k) : k[i] \notin Sep \union {"="}
IsValue(w) == w \in Seq(Char) /\ w # <<>> /\ \A i \in 1 .. Len(w) : w[i] # Nul

\* The text t has the characters of x after position o.
HoldsAt(t, o, x) == o + Len(x) <= Len(t) /\ \A j \in 1 .. Len(x) : t[o + j] = x[j]

\* himport_r() undoes the escapes of hexport_r().
LEMMA ValueAt ==
  ASSUME NEW w, IsValue(w), NEW sep \in Sep,
         NEW t \in Seq(Char), NEW o \in Nat, NEW x, x = Escape(w, sep),
         HoldsAt(t, o, x), o + Len(x) < Len(t), At(t, o + Len(x) + 1) = sep
  PROVE  Values(t, sep)[o + 1] = [text |-> w, next |-> o + Len(x) + 2]
<1>a. w \in Seq(Char) /\ w # <<>> /\ \A i \in 1 .. Len(w) : w[i] # Nul
  BY DEF IsValue
<1> USE <1>a
<1>1. PICK f : f = EscapeParts(w, sep)
  OBVIOUS
<1>2. PICK e : Offsets(f, Len(w), e) /\ x \in Seq(Char) /\ Holds(x, f, Len(w), e)
  BY <1>1, EscapeIs
<1>3. PICK n \in Nat, l \in Nat : n = Len(w) /\ l = Len(x)
  BY <1>2
<1>4. l = e[n] /\ e \in [0 .. n -> Nat] /\ e[0] = 0
  BY <1>2, <1>3 DEF Offsets, Holds
<1>5. PICK val : val = Values(t, sep)
  OBVIOUS
<1>6. ValueEq(t, sep, val)
  BY <1>5, ValuesExist
<1> DEFINE S == {m \in 0 .. n : val[o + e[m] + 1] = [text |-> From(w, m), next |-> o + l + 2]}
<1>7. n \in S
  <2>1. o + l + 1 \in 1 .. Len(t) + 2 /\ o + l + 1 \in 1 .. Len(t) /\ (o + l + 1) + 1 = o + l + 2
    BY <1>3
  <2>2. At(t, o + l + 1) = sep
    BY <1>3
  <2>3. val[o + l + 1] = [text |-> <<>>, next |-> (o + l + 1) + 1]
    BY <1>6, <2>1, <2>2 DEF ValueEq
  <2>4. From(w, n) = <<>>
    BY <1>3, FromAll
  <2>5. val[o + e[n] + 1] = [text |-> From(w, n), next |-> o + l + 2]
    BY <1>4, <2>1, <2>3, <2>4
  <2>6. n \in 0 .. n
    OBVIOUS
  <2> QED BY <2>5, <2>6
<1>8. ASSUME NEW m \in 0 .. n - 1, m + 1 \in S PROVE m \in S
  <2>1. m + 1 \in 1 .. n /\ m + 1 \in 1 .. Len(w) /\ (m + 1) - 1 = m /\ m \in 0 .. n
        /\ m \in 0 .. Len(w) - 1 /\ m + 1 \in 0 .. n
    BY <1>3
  <2>2. PICK a \in Nat, b \in Nat, p \in Seq(Char), c \in Char :
           a = e[m] /\ b = e[m + 1] /\ p = f[m + 1] /\ c = w[m + 1]
    <3>1. e[m] \in Nat /\ e[m + 1] \in Nat /\ w[m + 1] \in Char
      BY <1>4, <2>1
    <3>2. f[m + 1] \in Seq(Char)
      BY <1>1, <2>1, EscapePartsAre
    <3> QED BY <3>1, <3>2
  <2>3. b = a + Len(p) /\ b <= l
    <3>1. e[m + 1] = e[m] + Len(f[m + 1])
      BY <1>2, <1>3, <2>1 DEF Offsets
    <3>2. e[m + 1] <= e[n]
      BY <1>2, <1>3, <2>1 DEF Offsets
    <3> QED BY <1>4, <2>2, <3>1, <3>2
  <2>4. EscapePart(p, c, sep)
    BY <1>1, <2>1, <2>2, EscapePartsAre
  <2>5. \A j \in 1 .. Len(p) : x[a + j] = p[j]
    BY <1>2, <1>3, <2>1, <2>2 DEF Holds
  <2>6. ASSUME NEW j \in 1 .. Len(p)
        PROVE  /\ o + a + j \in 1 .. Len(t) /\ At(t, o + a + j) = p[j]
    <3>1. a + j \in 1 .. l /\ o + (a + j) = o + a + j /\ o + a + j \in 1 .. Len(t)
      BY <1>3, <2>3
    <3>2. t[o + (a + j)] = x[a + j]
      BY <1>3, <3>1 DEF HoldsAt
    <3>3. At(t, o + a + j) = t[o + a + j]
      BY <3>1, AtIs
    <3> QED BY <2>5, <3>1, <3>2, <3>3
  <2>7. c # Nul
    BY <2>1, <2>2
  <2>8. val[o + b + 1] = [text |-> From(w, m + 1), next |-> o + l + 2]
    BY <1>8, <2>2
  <2>9. <<c>> \o From(w, m + 1) = From(w, m)
    BY <2>1, <2>2, FromStep
  <2>10. PICK i \in Nat : i = o + a + 1
    OBVIOUS
  <2>11. i \in 1 .. Len(t) + 2 /\ At(t, i) \notin {Nul, sep} /\ At(t, Taken(t, i)) = c
         /\ Taken(t, i) + 1 = o + b + 1
    <3>1. CASE Escaped(c, sep)
      <4>0. Len(p) = 2 /\ p[1] = Backslash /\ p[2] = c
        BY <2>4, <3>1 DEF EscapePart
      <4>1. At(t, i) = Backslash /\ At(t, i + 1) = c /\ i \in 1 .. Len(t)
        <5>1. 1 \in 1 .. Len(p) /\ 2 \in 1 .. Len(p) /\ o + a + 2 = i + 1
          BY <2>10, <4>0
        <5> QED BY <2>6, <2>10, <4>0, <5>1
      <4>2. Taken(t, i) = i + 1
        BY <2>7, <4>1 DEF Taken
      <4>3. Backslash \notin {Nul, sep}
        BY Distinct DEF Sep
      <4>4. (i + 1) + 1 = o + b + 1
        BY <2>3, <2>10, <4>0
      <4>5. i \in 1 .. Len(t) + 2
        BY <4>1
      <4> QED BY <4>1, <4>2, <4>3, <4>4, <4>5
    <3>2. CASE ~Escaped(c, sep)
      <4>0. Len(p) = 1 /\ p[1] = c
        BY <2>4, <3>2 DEF EscapePart
      <4>1. At(t, i) = c /\ i \in 1 .. Len(t)
        <5>1. 1 \in 1 .. Len(p)
          BY <4>0
        <5> QED BY <2>6, <2>10, <4>0, <5>1
      <4>2. c # Backslash /\ c # sep
        BY <3>2 DEF Escaped
      <4>3. Taken(t, i) = i
        BY <4>1, <4>2 DEF Taken
      <4>4. i + 1 = o + b + 1
        BY <2>3, <2>10, <4>0
      <4>5. i \in 1 .. Len(t) + 2
        BY <4>1
      <4> QED BY <2>7, <4>1, <4>2, <4>3, <4>4, <4>5
    <3> QED BY <3>1, <3>2
  <2>12. val[i] = [text |-> <<c>> \o val[o + b + 1].text, next |-> val[o + b + 1].next]
    <3> HIDE DEF S
    <3> QED BY <1>6, <2>11 DEF ValueEq
  <2>13. val[i] = [text |-> From(w, m), next |-> o + l + 2]
    <3>1. PICK y, z, r : y = From(w, m + 1) /\ z = From(w, m) /\ r = val[o + b + 1]
      OBVIOUS
    <3>2. r.text = y /\ r.next = o + l + 2
      BY <2>8, <3>1
    <3> QED BY <2>9, <2>12, <3>1, <3>2
  <2> QED BY <2>1, <2>2, <2>10, <2>13
<1>9. \A m \in 0 .. n : m \in S
  <2> HIDE DEF S
  <2> QED BY <1>7, <1>8, Downwards
<1>10. 0 \in S /\ From(w, 0) = w /\ o + 0 + 1 = o + 1
  <2>1. 0 \in 0 .. n
    OBVIOUS
  <2> HIDE DEF S
  <2> QED BY <1>9, <2>1, FromAll
<1> QED BY <1>3, <1>4, <1>5, <1>10

LEMMA OneOrTwo == \A d : d = 1 \/ d = 2 => 1 \in 1 .. d /\ \A l \in Nat : d <= l => l > 0
OBVIOUS

LEMMA EscapeFirst ==
  ASSUME NEW w, IsValue(w), NEW sep \in Sep
  PROVE  Len(Escape(w, sep)) > 0 /\ Escape(w, sep)[1] \notin {Nul, sep}
<1>a. w \in Seq(Char) /\ w # <<>> /\ \A i \in 1 .. Len(w) : w[i] # Nul
  BY DEF IsValue
<1> USE <1>a
<1>1. PICK f, x : f = EscapeParts(w, sep) /\ x = Escape(w, sep)
  OBVIOUS
<1>2. PICK e : Offsets(f, Len(w), e) /\ x \in Seq(Char) /\ Holds(x, f, Len(w), e)
  BY <1>1, EscapeIs
<1>3. 1 \in 1 .. Len(w) /\ 1 - 1 = 0 /\ Len(w) \in 0 .. Len(w) /\ 1 \in 0 .. Len(w) /\ 1 <= Len(w)
  OBVIOUS
<1>4. e[0] = 0 /\ e[1] = e[0] + Len(f[1]) /\ e[1] <= e[Len(w)] /\ Len(x) = e[Len(w)]
  BY <1>2, <1>3 DEF Offsets, Holds
<1>5. PICK p \in Seq(Char), c \in Char : p = f[1] /\ c = w[1]
  BY <1>1, <1>3, EscapePartsAre
<1>6. EscapePart(p, c, sep)
  BY <1>1, <1>3, <1>5, EscapePartsAre
<1>7. Len(x) > 0 /\ 1 \in 1 .. Len(p)
  <2>1. Len(p) = 1 \/ Len(p) = 2
    BY <1>6 DEF EscapePart
  <2>2. Len(x) \in Nat
    BY <1>2
  <2>3. Len(p) <= Len(x)
    BY <1>4, <1>5, <2>1, <2>2
  <2> QED BY <2>1, <2>2, <2>3, OneOrTwo
<1>8. x[0 + 1] = p[1]
  BY <1>2, <1>3, <1>4, <1>5, <1>7 DEF Holds
<1>9. p[1] \notin {Nul, sep}
  <2>1. CASE Escaped(c, sep)
    BY <1>6, <2>1, Distinct DEF Sep, EscapePart
  <2>2. CASE ~Escaped(c, sep)
    BY <1>3, <1>5, <1>6, <2>2 DEF Escaped, EscapePart
  <2> QED BY <2>1, <2>2
<1> QED BY <1>1, <1>7, <1>8, <1>9

PairRec == [name : Seq(Char), value : Seq(Char)]

\* What one turn of the loop gives, from the ends of the name that it finds.
TurnIs(t, sep, i, p, q) ==
  Turn(t, sep, i) =
    IF At(t, p) = "#" THEN [pairs |-> <<>>, next |-> Next1(t, p, {Nul, sep}) + 1]
    ELSE IF At(t, q) \in {Nul, sep} \/ At(t, q + 1) \in {Nul, sep}
    THEN [pairs |-> <<Pair(SubSeq(t, p, q - 1), <<>>)>>,
          next |-> IF At(t, q) = "=" THEN q + 2 ELSE q + 1]
    ELSE [pairs |-> <<Pair(SubSeq(t, p, q - 1), Values(t, sep)[q + 1].text)>>,
          next |-> Values(t, sep)[q + 1].next]

LEMMA TurnEquation ==
  ASSUME NEW t, NEW sep, NEW i, NEW p, NEW q,
         p = Skip1(t, i, Blank), q = Next1(t, p, {Nul, sep} \union {"="})
  PROVE  TurnIs(t, sep, i, p, q)
BY DEF Turn, TurnIs

\* A turn finds at most one pair, and it goes on.
LEMMA TurnType ==
  ASSUME NEW t \in Seq(Char), NEW sep \in Sep, NEW i \in 1 .. Len(t)
  PROVE  /\ Turn(t, sep, i).pairs \in Seq(PairRec)
         /\ Turn(t, sep, i).next \in Nat /\ Turn(t, sep, i).next > i
<1>1. PICK p : p = Skip1(t, i, Blank)
  OBVIOUS
<1>2. p \in i .. Len(t) + 1
  <2>1. Nul \in Char \ Blank
    BY EnvTextAssumption, Distinct DEF Sep
  <2>2. i \in 1 .. Len(t) + 1
    OBVIOUS
  <2>3. Next1(t, i, Char \ Blank) \in i .. Len(t) + 1
    BY <2>1, <2>2, NextExists
  <2> QED BY <1>1, <2>2, <2>3, SkipIsNext
<1>3. PICK q : q = Next1(t, p, {Nul, sep} \union {"="})
  OBVIOUS
<1>4. p \in 1 .. Len(t) + 1
  BY <1>2
<1>5. q \in p .. Len(t) + 1 /\ At(t, q) \in {Nul, sep, "="}
  BY <1>3, <1>4, NextExists
<1>6. TurnIs(t, sep, i, p, q)
  BY <1>1, <1>3, TurnEquation
<1>7. PICK a : a = Next1(t, p, {Nul, sep}) + 1
  OBVIOUS
<1>8. a \in Nat /\ a > i
  <2>1. Next1(t, p, {Nul, sep}) \in p .. Len(t) + 1
    BY <1>4, NextExists
  <2> QED BY <1>2, <1>7, <2>1
<1>9. q \in Nat /\ q + 1 > i /\ q + 1 \in 1 .. Len(t) + 2
  BY <1>2, <1>5
<1>10. PICK v : v = Values(t, sep)[q + 1]
  OBVIOUS
<1>11. v.text \in Seq(Char) /\ v.next \in Nat /\ v.next > i
  <2>1. v \in ValueRec /\ v.next > q + 1
    BY <1>9, <1>10, ValuesExist, ValuesType
  <2>2. v.text \in Seq(Char) /\ v.next \in Nat
    BY <2>1 DEF ValueRec
  <2> QED BY <1>9, <2>1, <2>2
<1>12. PICK s : s = SubSeq(t, p, q - 1)
  OBVIOUS
<1>13. s \in Seq(Char)
  <2>1. p \in 1 .. Len(t) + 1 /\ q - 1 \in p - 1 .. Len(t)
    BY <1>4, <1>5
  <2> QED BY <1>12, <2>1
<1>14. <<Pair(s, <<>>)>> \in Seq(PairRec) /\ <<Pair(s, v.text)>> \in Seq(PairRec)
  <2>1. Pair(s, <<>>) \in PairRec /\ Pair(s, v.text) \in PairRec
    BY <1>11, <1>13 DEF PairRec, Pair
  <2> QED BY <2>1
<1>15. PICK r : r = Turn(t, sep, i)
  OBVIOUS
<1>16. \/ r = [pairs |-> <<>>, next |-> a]
       \/ r = [pairs |-> <<Pair(s, <<>>)>>, next |-> IF At(t, q) = "=" THEN q + 2 ELSE q + 1]
       \/ r = [pairs |-> <<Pair(s, v.text)>>, next |-> v.next]
  BY <1>6, <1>7, <1>10, <1>12, <1>15 DEF TurnIs
<1>17. r.pairs \in Seq(PairRec) /\ r.next \in Nat /\ r.next > i
  <2>1. CASE r = [pairs |-> <<>>, next |-> a]
    BY <1>8, <2>1
  <2>2. CASE r = [pairs |-> <<Pair(s, <<>>)>>, next |-> IF At(t, q) = "=" THEN q + 2 ELSE q + 1]
    <3>1. r.next = q + 2 \/ r.next = q + 1
      BY <2>2
    <3>2. r.pairs = <<Pair(s, <<>>)>>
      BY <2>2
    <3>3. r.next \in Nat /\ r.next > i
      BY <1>9, <3>1
    <3> QED BY <1>14, <3>2, <3>3
  <2>3. CASE r = [pairs |-> <<Pair(s, v.text)>>, next |-> v.next]
    <3>1. r.pairs = <<Pair(s, v.text)>> /\ r.next = v.next
      BY <2>3
    <3> QED BY <1>11, <1>14, <3>1
  <2> QED BY <1>16, <2>1, <2>2, <2>3
<1> QED BY <1>15, <1>17

\* A turn at the text of an entry finds the pair of the entry, and the next
\* one starts after it.
LEMMA TurnAt ==
  ASSUME NEW k, IsName(k), NEW w, IsValue(w), NEW sep \in Sep, NEW t \in Seq(Char), NEW o \in Nat, NEW x, x = Escape(w, sep),
         HoldsAt(t, o, k), HoldsAt(t, o + Len(k) + 1, x), o + Len(k) + 1 + Len(x) < Len(t),
         At(t, o + Len(k) + 1) = "=", At(t, o + Len(k) + 1 + Len(x) + 1) = sep
  PROVE  Turn(t, sep, o + 1) =
           [pairs |-> <<Pair(k, w)>>, next |-> o + Len(k) + 1 + Len(x) + 2]
<1>a. /\ k \in Seq(Char) /\ k # <<>> /\ k[1] \notin Blank \union {"#"}
      /\ \A i \in 1 .. Len(k) : k[i] \notin Sep \union {"="}
  BY DEF IsName
<1>b. w \in Seq(Char) /\ w # <<>> /\ \A i \in 1 .. Len(w) : w[i] # Nul
  BY DEF IsValue
<1> USE <1>a, <1>b
<1>1. PICK l \in Nat, m \in Nat, N \in Nat : l = Len(k) /\ m = Len(x) /\ N = Len(t)
  <2>1. x \in Seq(Char)
    BY EscapeIs
  <2> QED BY <2>1
<1>2. l > 0 /\ m > 0
  <2>1. l > 0
    BY <1>1
  <2> QED BY <1>1, <2>1, EscapeFirst
<1>3. PICK i \in Nat, q \in Nat : i = o + 1 /\ q = o + l + 1
  <2>1. o + 1 \in Nat /\ o + l + 1 \in Nat
    OBVIOUS
  <2> QED BY <2>1
<1>4. i \in 1 .. N /\ q \in 1 .. N /\ q + 1 \in 1 .. N /\ i <= q
  BY <1>1, <1>2, <1>3
<1>5. \A j \in 1 .. l : At(t, o + j) = k[j]
  <2> TAKE j \in 1 .. l
  <2>1. o + j \in 1 .. Len(t)
    BY <1>1, <1>3, <1>4
  <2>2. t[o + j] = k[j]
    BY <1>1 DEF HoldsAt
  <2> QED BY <2>1, <2>2, AtIs
<1>6. i = Skip1(t, i, Blank)
  <2>1. At(t, i) \in Char \ Blank
    <3>1. 1 \in 1 .. l
      BY <1>2
    <3>2. At(t, i) = k[1] /\ k[1] \in Char
      BY <1>1, <1>3, <1>5, <3>1
    <3> QED BY <3>2
  <2>2. i \in i .. Len(t) + 1 /\ i \in 1 .. Len(t) + 1 /\ \A j \in i .. i - 1 : FALSE
    BY <1>1, <1>4
  <2>3. Next1(t, i, Char \ Blank) = i
    BY <2>1, <2>2, NextAt
  <2> QED BY <2>2, <2>3, SkipIsNext
<1>7. q = Next1(t, i, {Nul, sep} \union {"="})
  <2> DEFINE E == {Nul, sep} \union {"="}
  <2>1. At(t, q) \in E /\ q \in i .. Len(t) + 1
    BY <1>1, <1>3, <1>4
  <2>2. \A j \in i .. q - 1 : At(t, j) \notin E
    <3> TAKE j \in i .. q - 1
    <3>1. j - o \in 1 .. l /\ o + (j - o) = j
      BY <1>3
    <3>2. At(t, j) = k[j - o]
      BY <1>5, <3>1
    <3>3. E \subseteq Sep \union {"="}
      BY DEF Sep
    <3>4. k[j - o] \notin Sep \union {"="}
      BY <1>1, <3>1
    <3> QED BY <3>2, <3>3, <3>4
  <2> HIDE DEF E
  <2>3. Next1(t, i, E) = q
    BY <2>1, <2>2, NextAt
  <2> QED BY <2>3 DEF E
<1>8. TurnIs(t, sep, i, i, q)
  BY <1>6, <1>7, TurnEquation
<1>9. At(t, i) # "#"
  <2>1. 1 \in 1 .. l
    BY <1>2
  <2>2. At(t, i) = k[1]
    BY <1>3, <1>5, <2>1
  <2> QED BY <2>2
<1>10. At(t, q) \notin {Nul, sep}
  <2>1. At(t, q) = "="
    BY <1>1, <1>3
  <2> QED BY <2>1, Distinct DEF Sep
<1>11. At(t, q + 1) \notin {Nul, sep}
  <2>1. 1 \in 1 .. m
    BY <1>2
  <2>2. t[q + 1] = x[1]
    BY <1>1, <1>3, <2>1 DEF HoldsAt
  <2>3. At(t, q + 1) = t[q + 1]
    BY <1>1, <1>4, AtIs
  <2>4. x[1] \notin {Nul, sep}
    BY EscapeFirst
  <2> QED BY <2>2, <2>3, <2>4
<1>12. Values(t, sep)[q + 1] = [text |-> w, next |-> q + m + 2]
  <2>1. HoldsAt(t, q, x) /\ q + Len(x) < Len(t) /\ At(t, q + Len(x) + 1) = sep
    BY <1>1, <1>3
  <2>2. Values(t, sep)[q + 1] = [text |-> w, next |-> q + Len(x) + 2]
    BY <2>1, ValueAt
  <2> QED BY <1>1, <2>2
<1>13. SubSeq(t, i, q - 1) = k
  <2>1. PICK y : y = SubSeq(t, i, q - 1)
    OBVIOUS
  <2>2. i \in 1 .. Len(t) + 1 /\ q - 1 \in i - 1 .. Len(t) /\ (q - 1) - i + 1 = l
    BY <1>1, <1>3, <1>4
  <2>3. y \in Seq(Char) /\ Len(y) = l
    BY <2>1, <2>2
  <2>4. \A j \in 1 .. l : y[j] = t[i + j - 1]
    BY <2>1, <2>2
  <2>5. \A j \in 1 .. Len(k) : y[j] = k[j]
    <3> TAKE j \in 1 .. Len(k)
    <3>1. j \in 1 .. l /\ i + j - 1 = o + j
      BY <1>1, <1>3
    <3>2. t[o + j] = k[j]
      BY DEF HoldsAt
    <3> QED BY <2>4, <3>1, <3>2
  <2>6. y = k
    BY <1>1, <2>3, <2>5, SameSeq
  <2> QED BY <2>1, <2>6
<1>14. Turn(t, sep, i) = [pairs |-> <<Pair(k, Values(t, sep)[q + 1].text)>>,
                          next |-> Values(t, sep)[q + 1].next]
  BY <1>8, <1>9, <1>10, <1>11, <1>13 DEF TurnIs
<1>15. Turn(t, sep, i) = [pairs |-> <<Pair(k, w)>>, next |-> q + m + 2]
  BY <1>12, <1>14
<1>16. q + m + 2 = o + Len(k) + 1 + Len(x) + 2
  BY <1>1, <1>3
<1> QED BY <1>3, <1>15, <1>16

\* The loop of himport_r(): what it finds from each position on.
ImportEq(t, sep, from) ==
  \A i \in 1 .. Len(t) :
    from[i] = Turn(t, sep, i).pairs \o (IF At(t, Turn(t, sep, i).next) = Nul THEN <<>>
                                        ELSE from[Turn(t, sep, i).next])

LEMMA ImportExists ==
  ASSUME NEW t \in Seq(Char), NEW sep \in Sep
  PROVE  \E from : ImportEq(t, sep, from) /\ Import(t, sep) = from[1]
<1> DEFINE T(i) == Turn(t, sep, i)
           D == 1 .. Len(t)
           B == {i \in D : At(t, T(i).next) = Nul}
           V == Seq(PairRec)
           base == [d \in B |-> T(d).pairs \o <<>>]
           mu == [d \in D |-> Len(t) - d]
           nx == [d \in D \ B |-> T(d).next]
           Add(d, v) == T(d).pairs \o v
           add == [d \in D \ B |-> [v \in V |-> Add(d, v)]]
           Rhs(g, i) == T(i).pairs \o (IF At(t, T(i).next) = Nul THEN <<>> ELSE g[T(i).next])
           h == CHOOSE g : g = [i \in 1 .. Len(t) |-> Rhs(g, i)]
<1>0. \A i \in D : T(i).pairs \in Seq(PairRec) /\ T(i).next \in Nat /\ T(i).next > i
  BY TurnType
<1>1. \A d \in D \ B : T(d).next \in d + 1 .. Len(t)
  <2> SUFFICES ASSUME NEW d \in D \ B PROVE T(d).next \in d + 1 .. Len(t)
    OBVIOUS
  <2>1. PICK a \in Nat : a = T(d).next /\ a > d
    BY <1>0
  <2>2. At(t, a) # Nul
    BY <2>1
  <2>3. ~(a > Len(t))
    BY <2>2, AtEnd
  <2>4. a \in d + 1 .. Len(t)
    BY <2>1, <2>3
  <2> QED BY <2>1, <2>4
<1> HIDE DEF T
<1>2. mu \in [D -> 0 .. Len(t)] /\ B \in SUBSET D /\ Len(t) \in Nat
  OBVIOUS
<1>3. base \in [B -> V]
  <2>1. \A v \in V : v \o <<>> \in V
    OBVIOUS
  <2> QED BY <1>0, <2>1
<1>4. nx \in [D \ B -> D]
  BY <1>1
<1>5. add \in [D \ B -> [V -> V]]
  <2>1. ASSUME NEW d \in D \ B, NEW v \in V PROVE Add(d, v) \in V
    <3>1. T(d).pairs \in V
      BY <1>0
    <3> QED BY <3>1
  <2> HIDE DEF Add, V
  <2> QED BY <2>1
<1>6. \A d \in D \ B : mu[nx[d]] < mu[d]
  <2> SUFFICES ASSUME NEW d \in D \ B PROVE mu[nx[d]] < mu[d]
    OBVIOUS
  <2>1. PICK a \in Nat, l \in Nat : a = T(d).next /\ l = Len(t)
    BY <1>0
  <2>2. a \in d + 1 .. l
    BY <1>1, <2>1
  <2>3. mu[nx[d]] = l - a /\ mu[d] = l - d
    BY <1>4, <2>1, <2>2
  <2> QED BY <2>2, <2>3
<1>7. PICK g \in [D -> V] : Solves(g, D, B, base, nx, add)
  <2> HIDE DEF D, B, V, base, mu, nx, add
  <2> QED BY <1>2, <1>3, <1>4, <1>5, <1>6, Recursion
<1>8. g = [i \in 1 .. Len(t) |-> Rhs(g, i)]
  <2>1. ASSUME NEW i \in D PROVE g[i] = Rhs(g, i)
    <3>1. CASE i \in B
      BY <1>7, <3>1 DEF Solves
    <3>2. CASE i \notin B
      <4>1. i \in D \ B /\ nx[i] = T(i).next /\ g[T(i).next] \in V
        BY <1>4, <3>2
      <4>2. add[i][g[T(i).next]] = Add(i, g[T(i).next])
        <5> HIDE DEF Add, V
        <5> QED BY <4>1
      <4>3. g[i] = add[i][g[nx[i]]]
        <5> HIDE DEF add, nx, base, B
        <5> QED BY <1>7, <3>2 DEF Solves
      <4>4. At(t, T(i).next) # Nul
        BY <3>2
      <4> HIDE DEF add, nx, base
      <4> QED BY <4>1, <4>2, <4>3, <4>4
    <3> QED BY <3>1, <3>2
  <2> HIDE DEF Rhs
  <2> QED BY <2>1
<1>9. h = [i \in 1 .. Len(t) |-> Rhs(h, i)]
  <2> HIDE DEF Rhs
  <2> QED BY <1>8
<1>10. Import(t, sep) = h[1]
  BY DEF Import, T
<1> HIDE DEF h
<1>11. \A i \in 1 .. Len(t) : h[i] = Rhs(h, i)
  <2> HIDE DEF Rhs
  <2> QED BY <1>9
<1>12. ImportEq(t, sep, h)
  BY <1>11 DEF ImportEq, T
<1> QED BY <1>10, <1>12

\* A text of one NUL.
LEMMA ImportNone ==
  ASSUME NEW t \in Seq(Char), Len(t) = 1, t[1] = Nul, NEW sep \in Sep
  PROVE  Import(t, sep) = <<Pair(<<>>, <<>>)>>
<1>0. 1 \in 1 .. Len(t) /\ 1 \in 1 .. Len(t) + 1 /\ 1 \in Nat /\ 2 \in Nat /\ 2 > Len(t)
      /\ \A j \in 1 .. 1 - 1 : FALSE
  OBVIOUS
<1>1. At(t, 1) = Nul /\ At(t, 2) = Nul
  BY <1>0, AtIs, AtEnd
<1>2. 1 = Skip1(t, 1, Blank)
  <2>1. Nul \in Char \ Blank
    BY EnvTextAssumption, Distinct DEF Sep
  <2>2. Next1(t, 1, Char \ Blank) = 1
    BY <1>0, <1>1, <2>1, NextAt
  <2> QED BY <1>0, <2>2, SkipIsNext
<1>3. 1 = Next1(t, 1, {Nul, sep} \union {"="})
  <2> DEFINE E == {Nul, sep} \union {"="}
  <2>1. At(t, 1) \in E
    BY <1>1
  <2> HIDE DEF E
  <2>2. Next1(t, 1, E) = 1
    BY <1>0, <2>1, NextAt
  <2> QED BY <2>2 DEF E
<1>4. TurnIs(t, sep, 1, 1, 1)
  BY <1>2, <1>3, TurnEquation
<1>5. SubSeq(t, 1, 1 - 1) = <<>>
  BY <1>0
<1>6. Turn(t, sep, 1) = [pairs |-> <<Pair(<<>>, <<>>)>>, next |-> 2]
  <2>1. At(t, 1) # "#" /\ At(t, 1) \in {Nul, sep} /\ At(t, 1) # "="
    BY <1>1, Distinct
  <2>2. Turn(t, sep, 1) = [pairs |-> <<Pair(SubSeq(t, 1, 1 - 1), <<>>)>>,
                           next |-> IF At(t, 1) = "=" THEN 1 + 2 ELSE 1 + 1]
    BY <1>4, <2>1 DEF TurnIs
  <2>3. (IF At(t, 1) = "=" THEN 1 + 2 ELSE 1 + 1) = 2
    BY <2>1
  <2> QED BY <1>5, <2>2, <2>3
<1>7. PICK from : ImportEq(t, sep, from) /\ Import(t, sep) = from[1]
  BY ImportExists
<1>8. PICK r : r = <<Pair(<<>>, <<>>)>>
  OBVIOUS
<1>9. from[1] = r \o <<>>
  <2>1. PICK u : u = Turn(t, sep, 1)
    OBVIOUS
  <2>2. u.pairs = r /\ u.next = 2
    BY <1>6, <1>8, <2>1
  <2>3. from[1] = u.pairs \o (IF At(t, u.next) = Nul THEN <<>> ELSE from[u.next])
    BY <1>0, <1>7, <2>1 DEF ImportEq
  <2> QED BY <1>1, <2>2, <2>3
<1>10. r \in Seq(PairRec)
  <2>1. Pair(<<>>, <<>>) \in PairRec
    BY DEF Pair, PairRec
  <2> QED BY <1>8, <2>1
<1>11. r \o <<>> = r
  BY <1>10
<1> QED BY <1>7, <1>8, <1>9, <1>11

EntryOf(k, w, sep) == k \o <<"=">> \o Escape(w, sep) \o <<sep>>

\* Where the parts of an entry are.
Parts(z, k, x, sep) ==
  /\ Len(z) = Len(k) + 1 + Len(x) + 1
  /\ \A j \in 1 .. Len(k) : z[j] = k[j]
  /\ z[Len(k) + 1] = "="
  /\ \A j \in 1 .. Len(x) : z[Len(k) + 1 + j] = x[j]
  /\ z[Len(k) + 1 + Len(x) + 1] = sep

LEMMA EntryIs ==
  ASSUME NEW k \in Seq(Char), NEW w \in Seq(Char), NEW sep \in Sep
  PROVE  EntryOf(k, w, sep) \in Seq(Char) /\ Parts(EntryOf(k, w, sep), k, Escape(w, sep), sep)
<1>1. PICK x \in Seq(Char) : x = Escape(w, sep)
  BY EscapeIs
<1>2. PICK q, r : q = <<"=">> /\ r = <<sep>>
  OBVIOUS
<1>3. q \in Seq(Char) /\ Len(q) = 1 /\ q[1] = "=" /\ r \in Seq(Char) /\ Len(r) = 1 /\ r[1] = sep
  <2>1. "=" \in Char /\ sep \in Char
    BY EnvTextAssumption
  <2> QED BY <1>2, <2>1
<1>4. PICK y : y = k \o q
  OBVIOUS
<1>5. Joins(Char, k, q, y)
  BY <1>3, <1>4, Joined
<1>6. y \in Seq(Char)
  BY <1>5 DEF Joins
<1>7. PICK v : v = y \o x
  OBVIOUS
<1>8. Joins(Char, y, x, v)
  BY <1>6, <1>7, Joined
<1>9. v \in Seq(Char)
  BY <1>8 DEF Joins
<1>10. PICK z : z = v \o r
  OBVIOUS
<1>11. Joins(Char, v, r, z)
  BY <1>3, <1>9, <1>10, Joined
<1>12. z = EntryOf(k, w, sep)
  BY <1>1, <1>2, <1>4, <1>7, <1>10 DEF EntryOf
<1>13. PICK l \in Nat, m \in Nat : l = Len(k) /\ m = Len(x)
  OBVIOUS
<1>14. Len(y) = l + 1 /\ Len(v) = l + 1 + m /\ Len(z) = l + 1 + m + 1 /\ z \in Seq(Char)
  BY <1>3, <1>5, <1>8, <1>11, <1>13 DEF Joins
<1>15. \A j \in 1 .. l + 1 + m : z[j] = v[j]
  BY <1>11, <1>14 DEF Joins
<1>16. \A j \in 1 .. l + 1 : z[j] = y[j]
  <2> TAKE j \in 1 .. l + 1
  <2>1. j \in 1 .. l + 1 + m
    OBVIOUS
  <2>2. v[j] = y[j]
    BY <1>8, <1>14 DEF Joins
  <2> QED BY <1>15, <2>1, <2>2
<1>17. \A j \in 1 .. l : z[j] = k[j]
  <2> TAKE j \in 1 .. l
  <2>1. j \in 1 .. l + 1
    OBVIOUS
  <2>2. y[j] = k[j]
    BY <1>5, <1>13 DEF Joins
  <2> QED BY <1>16, <2>1, <2>2
<1>18. z[l + 1] = "="
  <2>1. l + 1 \in 1 .. l + 1 /\ 1 \in 1 .. 1
    OBVIOUS
  <2>2. y[l + 1] = q[1]
    BY <1>3, <1>5, <1>13, <2>1 DEF Joins
  <2> QED BY <1>3, <1>16, <2>1, <2>2
<1>19. \A j \in 1 .. m : z[l + 1 + j] = x[j]
  <2> TAKE j \in 1 .. m
  <2>1. l + 1 + j \in 1 .. l + 1 + m
    OBVIOUS
  <2>2. v[l + 1 + j] = x[j]
    BY <1>8, <1>13, <1>14 DEF Joins
  <2> QED BY <1>15, <2>1, <2>2
<1>20. z[l + 1 + m + 1] = sep
  <2>1. 1 \in 1 .. 1
    OBVIOUS
  <2>2. z[l + 1 + m + 1] = r[1]
    BY <1>3, <1>11, <1>14, <2>1 DEF Joins
  <2> QED BY <1>3, <2>2
<1>21. Parts(z, k, x, sep)
  BY <1>13, <1>14, <1>17, <1>18, <1>19, <1>20 DEF Parts
<1> QED BY <1>1, <1>12, <1>14, <1>21

\* A turn at the place of an entry in the text.
LEMMA TurnAtEntry ==
  ASSUME NEW k, IsName(k), NEW w, IsValue(w), NEW sep \in Sep, NEW t \in Seq(Char),
         NEW o \in Nat, NEW z, z = EntryOf(k, w, sep), HoldsAt(t, o, z)
  PROVE  /\ Turn(t, sep, o + 1) = [pairs |-> <<Pair(k, w)>>, next |-> o + Len(z) + 1]
         /\ At(t, o + 1) # Nul /\ o + 1 \in 1 .. Len(t)
<1>1. k \in Seq(Char) /\ w \in Seq(Char) /\ k # <<>>
  BY DEF IsName, IsValue
<1>2. PICK x \in Seq(Char) : x = Escape(w, sep)
  BY <1>1, EscapeIs
<1>3. z \in Seq(Char) /\ Parts(z, k, x, sep)
  BY <1>1, <1>2, EntryIs
<1>4. PICK l \in Nat, m \in Nat, N \in Nat : l = Len(k) /\ m = Len(x) /\ N = Len(t)
  BY <1>1
<1>5. l > 0 /\ Len(z) = l + 1 + m + 1 /\ o + Len(z) <= N
  BY <1>1, <1>3, <1>4 DEF Parts, HoldsAt
<1>6. \A j \in 1 .. l + 1 + m + 1 : o + j \in 1 .. N /\ t[o + j] = z[j] /\ At(t, o + j) = z[j]
  <2> TAKE j \in 1 .. l + 1 + m + 1
  <2>1. o + j \in 1 .. N
    BY <1>5
  <2>2. t[o + j] = z[j]
    BY <1>5 DEF HoldsAt
  <2> QED BY <1>4, <2>1, <2>2, AtIs
<1>7. HoldsAt(t, o, k)
  <2>1. ASSUME NEW j \in 1 .. l PROVE t[o + j] = k[j]
    <3>1. j \in 1 .. l + 1 + m + 1
      OBVIOUS
    <3>2. z[j] = k[j]
      BY <1>3, <1>4 DEF Parts
    <3> QED BY <1>6, <3>1, <3>2
  <2>2. o + l <= N
    BY <1>5
  <2> QED BY <1>4, <2>1, <2>2 DEF HoldsAt
<1>8. HoldsAt(t, o + l + 1, x)
  <2>1. ASSUME NEW j \in 1 .. m PROVE t[(o + l + 1) + j] = x[j]
    <3>1. l + 1 + j \in 1 .. l + 1 + m + 1 /\ o + (l + 1 + j) = (o + l + 1) + j
      OBVIOUS
    <3>2. z[l + 1 + j] = x[j]
      BY <1>3, <1>4 DEF Parts
    <3> QED BY <1>6, <3>1, <3>2
  <2>2. (o + l + 1) + m <= N
    BY <1>5
  <2> QED BY <1>4, <2>1, <2>2 DEF HoldsAt
<1>9. At(t, o + l + 1) = "="
  <2>1. l + 1 \in 1 .. l + 1 + m + 1 /\ o + (l + 1) = o + l + 1
    OBVIOUS
  <2>2. z[l + 1] = "="
    BY <1>3, <1>4 DEF Parts
  <2> QED BY <1>6, <2>1, <2>2
<1>10. At(t, o + l + 1 + m + 1) = sep
  <2>1. l + 1 + m + 1 \in 1 .. l + 1 + m + 1 /\ o + (l + 1 + m + 1) = o + l + 1 + m + 1
    OBVIOUS
  <2>2. z[l + 1 + m + 1] = sep
    BY <1>3, <1>4 DEF Parts
  <2> QED BY <1>6, <2>1, <2>2
<1>11. o + l + 1 + m < N
  BY <1>5
<1>12. Turn(t, sep, o + 1) = [pairs |-> <<Pair(k, w)>>, next |-> o + Len(k) + 1 + Len(x) + 2]
  <2>1. /\ HoldsAt(t, o, k) /\ HoldsAt(t, o + Len(k) + 1, x) /\ o + Len(k) + 1 + Len(x) < Len(t)
        /\ At(t, o + Len(k) + 1) = "=" /\ At(t, o + Len(k) + 1 + Len(x) + 1) = sep
    BY <1>4, <1>7, <1>8, <1>9, <1>10, <1>11
  <2> QED BY <1>2, <2>1, TurnAt
<1>13. o + Len(k) + 1 + Len(x) + 2 = o + Len(z) + 1
  BY <1>4, <1>5
<1>14. At(t, o + 1) # Nul /\ o + 1 \in 1 .. Len(t)
  <2>1. 1 \in 1 .. l + 1 + m + 1 /\ 1 \in 1 .. l
    BY <1>5
  <2>2. At(t, o + 1) = z[1] /\ o + 1 \in 1 .. N
    BY <1>6, <2>1
  <2>3. z[1] = k[1]
    BY <1>3, <1>4, <2>1 DEF Parts
  <2>4. k[1] \notin Sep \union {"="}
    BY <1>4, <2>1 DEF IsName
  <2>5. Nul \in Sep
    BY DEF Sep
  <2> QED BY <1>4, <2>2, <2>3, <2>4, <2>5
<1> QED BY <1>12, <1>13, <1>14

\* The text that is written for n pairs, and the pairs.
TextOf(n, K, W, sep) == FlattenSeq([i \in 1 .. n |-> EntryOf(K[i], W[i], sep)]) \o <<Nul>>
PairsOf(n, K, W) == [i \in 1 .. n |-> Pair(K[i], W[i])]

LEMMA TextIs ==
  ASSUME NEW n \in Nat, NEW K, NEW W, NEW sep \in Sep,
         \A i \in 1 .. n : IsName(K[i]) /\ IsValue(W[i])
  PROVE  \E e : /\ Offsets([i \in 1 .. n |-> EntryOf(K[i], W[i], sep)], n, e)
                /\ TextOf(n, K, W, sep) \in Seq(Char)
                /\ Len(TextOf(n, K, W, sep)) = e[n] + 1
                /\ TextOf(n, K, W, sep)[e[n] + 1] = Nul
                /\ \A i \in 1 .. n : HoldsAt(TextOf(n, K, W, sep), e[i - 1], EntryOf(K[i], W[i], sep))
<1>1. PICK f : f = [i \in 1 .. n |-> EntryOf(K[i], W[i], sep)]
  OBVIOUS
<1>2. \A i \in 1 .. n : EntryOf(K[i], W[i], sep) \in Seq(Char)
  <2> TAKE i \in 1 .. n
  <2>1. K[i] \in Seq(Char) /\ W[i] \in Seq(Char)
    BY DEF IsName, IsValue
  <2> QED BY <2>1, EntryIs
<1>3. f \in [1 .. n -> Seq(Char)]
  BY <1>1, <1>2
<1>4. PICK e : Offsets(f, n, e)
  BY <1>3, OffsetsExist
<1>5. PICK y : y = FlattenSeq(f)
  OBVIOUS
<1>6. y \in Seq(Char) /\ Holds(y, f, n, e)
  BY <1>3, <1>4, <1>5, Flattened
<1>7. PICK r : r = <<Nul>>
  OBVIOUS
<1>8. r \in Seq(Char) /\ Len(r) = 1 /\ r[1] = Nul
  <2>1. Nul \in Char
    BY EnvTextAssumption DEF Sep
  <2> QED BY <1>7, <2>1
<1>9. PICK t : t = y \o r
  OBVIOUS
<1>10. Joins(Char, y, r, t)
  BY <1>6, <1>8, <1>9, Joined
<1>11. t = TextOf(n, K, W, sep)
  BY <1>1, <1>5, <1>7, <1>9 DEF TextOf
<1>12. Len(y) = e[n] /\ t \in Seq(Char) /\ Len(t) = e[n] + 1 /\ t[e[n] + 1] = Nul
  <2>1. Len(y) = e[n] /\ 1 \in 1 .. 1
    BY <1>6 DEF Holds
  <2> QED BY <1>8, <1>10, <2>1 DEF Joins
<1>13. ASSUME NEW i \in 1 .. n PROVE HoldsAt(t, e[i - 1], f[i])
  <2>1. i \in 0 .. n /\ i - 1 \in 0 .. n /\ n \in 0 .. n /\ i <= n
    OBVIOUS
  <2>2. PICK a \in Nat, b \in Nat, c \in Nat, l \in Nat :
          a = e[i - 1] /\ b = e[i] /\ c = e[n] /\ l = Len(f[i])
    <3>1. e[i - 1] \in Nat /\ e[i] \in Nat /\ e[n] \in Nat
      BY <1>4, <2>1 DEF Offsets
    <3>2. Len(f[i]) \in Nat
      BY <1>3
    <3> QED BY <3>1, <3>2
  <2>3. b = a + l /\ b <= c
    BY <1>4, <2>1, <2>2 DEF Offsets
  <2>4. ASSUME NEW j \in 1 .. l PROVE t[a + j] = f[i][j]
    <3>1. a + j \in 1 .. c
      BY <2>3
    <3>2. t[a + j] = y[a + j]
      BY <1>10, <1>12, <2>2, <3>1 DEF Joins
    <3>3. y[a + j] = f[i][j]
      BY <1>6, <2>2 DEF Holds
    <3> QED BY <3>2, <3>3
  <2>5. a + l <= c + 1
    BY <2>3
  <2> QED BY <1>12, <2>2, <2>4, <2>5 DEF HoldsAt
<1>14. \A i \in 1 .. n : HoldsAt(t, e[i - 1], EntryOf(K[i], W[i], sep))
  BY <1>1, <1>13
<1> QED BY <1>1, <1>4, <1>11, <1>12, <1>14

\* What himport_r() finds in it.
LEMMA ImportAll ==
  ASSUME NEW n \in Nat, NEW K, NEW W, NEW sep \in Sep,
         \A i \in 1 .. n : IsName(K[i]) /\ IsValue(W[i])
  PROVE  Import(TextOf(n, K, W, sep), sep) =
           IF n = 0 THEN <<Pair(<<>>, <<>>)>> ELSE PairsOf(n, K, W)
<1>1. PICK f, t, P : /\ f = [i \in 1 .. n |-> EntryOf(K[i], W[i], sep)]
                     /\ t = TextOf(n, K, W, sep) /\ P = PairsOf(n, K, W)
  OBVIOUS
<1>2. PICK e : /\ Offsets(f, n, e) /\ t \in Seq(Char) /\ Len(t) = e[n] + 1 /\ t[e[n] + 1] = Nul
               /\ \A i \in 1 .. n : HoldsAt(t, e[i - 1], EntryOf(K[i], W[i], sep))
  BY <1>1, TextIs
<1>t. t \in Seq(Char)
  BY <1>2
<1>3. e \in [0 .. n -> Nat] /\ e[0] = 0
  BY <1>2 DEF Offsets
<1>4. CASE n = 0
  <2>1. Len(t) = 1 /\ t[1] = Nul
    BY <1>2, <1>3, <1>4
  <2>2. Import(t, sep) = <<Pair(<<>>, <<>>)>>
    BY <1>2, <2>1, ImportNone
  <2> QED BY <1>1, <1>4, <2>2
<1>5. CASE n # 0
  <2>1. PICK from : ImportEq(t, sep, from) /\ Import(t, sep) = from[1]
    BY <1>2, ImportExists
  <2>2. P \in Seq(PairRec) /\ Len(P) = n /\ \A i \in 1 .. n : P[i] = Pair(K[i], W[i])
    <3>1. \A i \in 1 .. n : Pair(K[i], W[i]) \in PairRec
      BY DEF IsName, IsValue, Pair, PairRec
    <3>2. P = [i \in 1 .. n |-> Pair(K[i], W[i])]
      BY <1>1 DEF PairsOf
    <3> HIDE DEF Pair
    <3> QED BY <3>1, <3>2
  <2> DEFINE tail(i) == IF At(t, e[i] + 1) = Nul THEN <<>> ELSE from[e[i] + 1]
             S == {i \in 0 .. n : tail(i) = From(P, i)}
  <2>3. n \in S
    <3>1. At(t, e[n] + 1) = Nul
      <4>1. e[n] + 1 \in 1 .. Len(t)
        BY <1>2, <1>3
      <4> QED BY <1>2, <4>1, AtIs
    <3>2. From(P, n) = <<>>
      BY <2>2, FromAll
    <3> QED BY <3>1, <3>2
  <2>4. ASSUME NEW i \in 0 .. n - 1 PROVE /\ At(t, e[i] + 1) # Nul
                                          /\ from[e[i] + 1] = <<P[i + 1]>> \o tail(i + 1)
    <3>1. i + 1 \in 1 .. n /\ (i + 1) - 1 = i /\ i \in 0 .. n /\ i + 1 \in 0 .. n
      OBVIOUS
    <3>a. PICK o \in Nat : o = e[i]
      BY <1>3, <3>1
    <3>b. PICK k, w : k = K[i + 1] /\ w = W[i + 1]
      OBVIOUS
    <3>c. PICK z : z = EntryOf(k, w, sep)
      OBVIOUS
    <3>2. k = K[i + 1] /\ w = W[i + 1] /\ z = EntryOf(k, w, sep) /\ o = e[i]
      BY <3>a, <3>b, <3>c
    <3>3. IsName(k) /\ IsValue(w) /\ HoldsAt(t, o, z)
      BY <1>2, <3>1, <3>2
    <3>4. /\ Turn(t, sep, o + 1) = [pairs |-> <<Pair(k, w)>>, next |-> o + Len(z) + 1]
          /\ At(t, o + 1) # Nul /\ o + 1 \in 1 .. Len(t)
      BY <1>t, <3>c, <3>3, TurnAtEntry
    <3>5. e[i + 1] = o + Len(z)
      <4>1. e[i + 1] = e[i] + Len(f[i + 1])
        BY <1>2, <3>1 DEF Offsets
      <4>2. f[i + 1] = z
        BY <1>1, <3>1, <3>2
      <4> QED BY <3>2, <4>1, <4>2
    <3>6. PICK u : u = Turn(t, sep, o + 1)
      OBVIOUS
    <3>7. u.pairs = <<P[i + 1]>> /\ u.next = e[i + 1] + 1
      <4>1. P[i + 1] = Pair(k, w)
        BY <2>2, <3>1, <3>2
      <4>2. u.pairs = <<Pair(k, w)>> /\ u.next = o + Len(z) + 1
        BY <3>4, <3>6
      <4> QED BY <3>5, <4>1, <4>2
    <3>8. from[o + 1] = u.pairs \o (IF At(t, u.next) = Nul THEN <<>> ELSE from[u.next])
      BY <2>1, <3>4, <3>6 DEF ImportEq
    <3> QED BY <3>2, <3>4, <3>7, <3>8
  <2>5. ASSUME NEW i \in 0 .. n - 1, i + 1 \in S PROVE i \in S
    <3>1. tail(i) = <<P[i + 1]>> \o tail(i + 1)
      BY <2>4
    <3>2. tail(i + 1) = From(P, i + 1)
      BY <2>5
    <3>3. <<P[i + 1]>> \o From(P, i + 1) = From(P, i)
      BY <2>2, FromStep
    <3>4. i \in 0 .. n
      OBVIOUS
    <3> HIDE DEF tail
    <3> QED BY <3>1, <3>2, <3>3, <3>4
  <2>6. \A i \in 0 .. n : i \in S
    <3> HIDE DEF S
    <3> QED BY <2>3, <2>5, Downwards
  <2>7. tail(0) = P
    <3>1. 0 \in S
      <4>1. 0 \in 0 .. n
        OBVIOUS
      <4> HIDE DEF S
      <4> QED BY <2>6, <4>1
    <3>2. From(P, 0) = P
      BY <2>2, FromAll
    <3> QED BY <3>1, <3>2
  <2>8. tail(0) = from[1]
    <3>1. 0 \in 0 .. n - 1 /\ e[0] + 1 = 1
      BY <1>3, <1>5
    <3> QED BY <2>4, <3>1
  <2> QED BY <1>1, <1>5, <2>1, <2>7, <2>8
<1> QED BY <1>4, <1>5

\* When the names are distinct, the table has all of them.
LEMMA ImportedAll ==
  ASSUME NEW n \in Nat, NEW K, NEW W, NEW sep \in Sep,
         \A i \in 1 .. n : IsName(K[i]) /\ IsValue(W[i]),
         \A i, j \in 1 .. n : K[i] = K[j] => i = j
  PROVE  Imported(TextOf(n, K, W, sep), sep) = {Pair(K[i], W[i]) : i \in 1 .. n}
<1>1. PICK s : s = Import(TextOf(n, K, W, sep), sep)
  OBVIOUS
<1>2. Imported(TextOf(n, K, W, sep), sep) =
        {s[i] : i \in {i \in 1 .. Len(s) : /\ s[i].value # <<>>
                                           /\ \A j \in i + 1 .. Len(s) : s[j].name # s[i].name}}
  BY <1>1 DEF Imported
<1>3. s = IF n = 0 THEN <<Pair(<<>>, <<>>)>> ELSE PairsOf(n, K, W)
  BY <1>1, ImportAll
<1>4. CASE n = 0
  <2>1. Len(s) = 1 /\ s[1] = Pair(<<>>, <<>>)
    BY <1>3, <1>4
  <2>2. s[1].value = <<>>
    BY <2>1 DEF Pair
  <2>3. \A i \in 1 .. Len(s) : i = 1
    BY <2>1
  <2>4. Imported(TextOf(n, K, W, sep), sep) = {}
    BY <1>2, <2>2, <2>3
  <2>5. {Pair(K[i], W[i]) : i \in 1 .. n} = {}
    BY <1>4
  <2> QED BY <2>4, <2>5
<1>5. CASE n # 0
  <2>1. Len(s) = n /\ \A i \in 1 .. n : s[i] = Pair(K[i], W[i])
    BY <1>3, <1>5 DEF PairsOf
  <2>2. \A i \in 1 .. n : s[i].value # <<>> /\ s[i].name = K[i]
    BY <2>1 DEF Pair, IsValue
  <2>3. ASSUME NEW i \in 1 .. n, NEW j \in i + 1 .. n PROVE s[j].name # s[i].name
    <3>1. j \in 1 .. n /\ j # i
      OBVIOUS
    <3> QED BY <2>2, <3>1
  <2>4. {i \in 1 .. Len(s) : /\ s[i].value # <<>>
                             /\ \A j \in i + 1 .. Len(s) : s[j].name # s[i].name} = 1 .. n
    BY <2>1, <2>2, <2>3
  <2>5. Imported(TextOf(n, K, W, sep), sep) = {s[i] : i \in 1 .. n}
    BY <1>2, <2>4
  <2> HIDE DEF Pair
  <2> QED BY <2>1, <2>5
<1> QED BY <1>4, <1>5

-----------------------------------------------------------------------------
(***************************************************************************)
(* The sorted list of entries, hexport_r().                                *)
(***************************************************************************)
Sorted(s, r) == \A i, j \in DOMAIN s : i < j => r[s[i]] < r[s[j]]

LEMMA SortedExists ==
  ASSUME NEW S, IsFiniteSet(S), NEW r \in [S -> Nat], \A a, b \in S : r[a] = r[b] => a = b
  PROVE  \E s \in [1 .. Cardinality(S) -> S] : Sorted(s, r)
<1>0. PICK n \in Nat : n = Cardinality(S)
  BY FS_CardinalityType
<1> DEFINE Below(m) == {x \in S : r[x] <= r[m]}
           pos == [m \in S |-> Cardinality(Below(m))]
<1>1. ASSUME NEW m \in S PROVE pos[m] \in 1 .. n
  <2>1. Below(m) \in SUBSET S /\ m \in Below(m)
    OBVIOUS
  <2>2. PICK B : B = Below(m)
    OBVIOUS
  <2>3. IsFiniteSet(B) /\ Cardinality(B) <= n /\ Cardinality(B) \in Nat /\ Cardinality(B) # 0
    <3>1. B \in SUBSET S /\ B # {}
      BY <2>1, <2>2
    <3>2. IsFiniteSet(B) /\ Cardinality(B) <= n
      BY <1>0, <3>1, FS_Subset
    <3> QED BY <3>1, <3>2, FS_CardinalityType, FS_EmptySet
  <2>4. pos[m] = Cardinality(B)
    BY <2>2
  <2> HIDE DEF pos
  <2> QED BY <2>3, <2>4
<1>2. ASSUME NEW a \in S, NEW b \in S, r[a] < r[b] PROVE pos[a] < pos[b]
  <2>1. PICK A, B : A = Below(a) /\ B = Below(b)
    OBVIOUS
  <2>2. A \in SUBSET B /\ B \in SUBSET S /\ b \in B /\ b \notin A
    BY <1>2, <2>1
  <2>3. IsFiniteSet(B)
    BY <2>2, FS_Subset
  <2>4. Cardinality(A) <= Cardinality(B) /\ Cardinality(A) # Cardinality(B)
    BY <2>2, <2>3, FS_Subset
  <2>5. pos[a] = Cardinality(A) /\ pos[b] = Cardinality(B)
    BY <2>1
  <2>6. pos[a] \in Nat /\ pos[b] \in Nat
    BY <1>1
  <2> HIDE DEF pos
  <2> QED BY <2>4, <2>5, <2>6
<1>3. pos \in [S -> 1 .. n]
  BY <1>1
<1> HIDE DEF pos
<1>4. ASSUME NEW a \in S, NEW b \in S, pos[a] = pos[b] PROVE a = b
  <2>1. r[a] \in Nat /\ r[b] \in Nat /\ pos[a] \in Nat
    BY <1>3
  <2> QED BY <1>2, <1>4, <2>1
<1>5. pos \in Injection(S, 1 .. n)
  BY <1>3, <1>4 DEF Injection, IsInjective
<1>6. IsFiniteSet(1 .. n) /\ Cardinality(1 .. n) = n
  BY FS_Interval
<1>7. pos \in Surjection(S, 1 .. n)
  BY <1>0, <1>5, <1>6, FS_Injection
<1>8. \A i \in 1 .. n : \E m \in S : pos[m] = i
  BY <1>7 DEF Surjection
<1> DEFINE s == [i \in 1 .. n |-> CHOOSE m \in S : pos[m] = i]
<1>9. s \in [1 .. n -> S] /\ \A i \in 1 .. n : pos[s[i]] = i
  BY <1>8
<1> HIDE DEF s
<1>10. ASSUME NEW i \in 1 .. n, NEW j \in 1 .. n, i < j PROVE r[s[i]] < r[s[j]]
  <2>1. PICK a \in S, b \in S : a = s[i] /\ b = s[j] /\ pos[a] < pos[b]
    BY <1>9, <1>10
  <2>2. r[a] \in Nat /\ r[b] \in Nat /\ pos[a] \in Nat /\ pos[b] \in Nat
    BY <1>3
  <2>3. ~(r[b] < r[a])
    BY <1>2, <2>1, <2>2
  <2>4. r[a] # r[b]
    BY <2>1, <2>2
  <2> QED BY <2>1, <2>2, <2>3, <2>4
<1>11. DOMAIN s = 1 .. n
  BY <1>9
<1>12. Sorted(s, r)
  BY <1>10, <1>11 DEF Sorted
<1> QED BY <1>0, <1>9, <1>12

LEMMA SortedOnto ==
  ASSUME NEW S, IsFiniteSet(S), NEW r \in [S -> Nat],
         NEW s \in [1 .. Cardinality(S) -> S], Sorted(s, r)
  PROVE  /\ \A i, j \in 1 .. Cardinality(S) : s[i] = s[j] => i = j
         /\ \A m \in S : \E i \in 1 .. Cardinality(S) : s[i] = m
<1>0. PICK n \in Nat : n = Cardinality(S)
  BY FS_CardinalityType
<1>1. ASSUME NEW i \in 1 .. n, NEW j \in 1 .. n, s[i] = s[j] PROVE i = j
  <2>1. s[i] \in S /\ r[s[i]] \in Nat /\ DOMAIN s = 1 .. n
    BY <1>0
  <2>2. ~(i < j) /\ ~(j < i)
    BY <1>1, <2>1 DEF Sorted
  <2> QED BY <2>2
<1>2. s \in Injection(1 .. n, S)
  BY <1>0, <1>1 DEF Injection, IsInjective
<1>3. IsFiniteSet(1 .. n) /\ Cardinality(1 .. n) = n
  BY FS_Interval
<1>4. s \in Surjection(1 .. n, S)
  BY <1>0, <1>2, <1>3, FS_Injection
<1>5. \A m \in S : \E i \in 1 .. n : s[i] = m
  BY <1>4 DEF Surjection
<1> QED BY <1>0, <1>1, <1>5

\* No entry has lost its key or its value.
Whole == nomem = 0 => \A n \in LiveSlots : table[n].key \in Key /\ table[n].data \in Value

LEMMA RankIs ==
  ASSUME NEW n \in Slot, table[n].key \in Key
  PROVE  Rank(n) \in Nat /\ KeyOrder[Rank(n)] = table[n].key
<1>1. \E i \in 1 .. Len(KeyOrder) : KeyOrder[i] = table[n].key
  BY EnvTextAssumption
<1>2. Rank(n) \in 1 .. Len(KeyOrder) /\ KeyOrder[Rank(n)] = table[n].key
  BY <1>1 DEF Rank
<1>3. Rank(n) \in Nat
  BY <1>2
<1> QED BY <1>2, <1>3

\* The list has every entry once.
LEMMA ListIs ==
  ASSUME MapInv, Whole, nomem = 0
  PROVE  /\ Cardinality(LiveSlots) \in Nat /\ IsFiniteSet(LiveSlots)
         /\ List \in [1 .. Cardinality(LiveSlots) -> LiveSlots]
         /\ List \in Seq(LiveSlots) /\ Len(List) = Cardinality(LiveSlots)
         /\ \A i, j \in 1 .. Cardinality(LiveSlots) : List[i] = List[j] => i = j
         /\ \A m \in LiveSlots : \E i \in 1 .. Cardinality(LiveSlots) : List[i] = m
<1>1. IsFiniteSet(LiveSlots) /\ LiveSlots \subseteq Slot
  BY LiveSlotsFinite DEF MapInv, LiveSlots
<1>2. PICK n \in Nat : n = Cardinality(LiveSlots)
  BY <1>1, FS_CardinalityType
<1> DEFINE r == [m \in LiveSlots |-> Rank(m)]
<1>3. \A m \in LiveSlots : /\ table[m].key \in Key /\ m \in Slot /\ FoundIn(table[m].key, m)
                           /\ Rank(m) \in Nat /\ KeyOrder[Rank(m)] = table[m].key
  <2> TAKE m \in LiveSlots
  <2>1. table[m].key \in Key /\ m \in Slot /\ Live(m)
    BY <1>1 DEF Whole, LiveSlots
  <2>2. table[m].key # NoKey
    BY <2>1, HashTableAssumption
  <2>3. FoundIn(table[m].key, m)
    BY <2>1, <2>2 DEF MapInv, EntriesReachable
  <2> QED BY <2>1, <2>3, RankIs
<1>4. r \in [LiveSlots -> Nat]
  BY <1>3
<1>5. \A a, b \in LiveSlots : r[a] = r[b] => a = b
  <2> SUFFICES ASSUME NEW a \in LiveSlots, NEW b \in LiveSlots, r[a] = r[b] PROVE a = b
    OBVIOUS
  <2>1. table[a].key = table[b].key
    BY <1>3
  <2> QED BY <1>3, <2>1, FoundOnce DEF MapInv
<1>6. \E s \in [1 .. n -> LiveSlots] : Sorted(s, r)
  <2> HIDE DEF r
  <2> QED BY <1>1, <1>2, <1>4, <1>5, SortedExists
<1>7. \A s \in [1 .. n -> LiveSlots] :
        Sorted(s, r) <=> \A i, j \in DOMAIN s : i < j => Rank(s[i]) < Rank(s[j])
  BY DEF Sorted
<1>8. List \in [1 .. n -> LiveSlots] /\ Sorted(List, r)
  <2>1. \E s \in [1 .. n -> LiveSlots] : \A i, j \in DOMAIN s : i < j => Rank(s[i]) < Rank(s[j])
    <3> HIDE DEF r
    <3> QED BY <1>6, <1>7
  <2>2. List \in [1 .. n -> LiveSlots] /\ \A i, j \in DOMAIN List : i < j => Rank(List[i]) < Rank(List[j])
    BY <1>2, <2>1 DEF List
  <2> HIDE DEF r
  <2> QED BY <1>7, <2>2
<1>9. List \in Seq(LiveSlots) /\ Len(List) = n
  BY <1>8
<1>10. /\ \A i, j \in 1 .. n : List[i] = List[j] => i = j
       /\ \A m \in LiveSlots : \E i \in 1 .. n : List[i] = m
  <2> HIDE DEF r
  <2> QED BY <1>1, <1>2, <1>4, <1>8, SortedOnto
<1> QED BY <1>1, <1>2, <1>8, <1>9, <1>10

LEMMA WholeFresh == Fresh => Whole
<1>1. Empty.used = 0
  BY DEF Empty
<1>2. Fresh => LiveSlots = {}
  BY <1>1 DEF Fresh, LiveSlots, Live, Slot
<1> QED BY <1>2 DEF Whole

\* What a write of entry e to slot n does to it.
LEMMA WholeWrite ==
  ASSUME TableOK, Whole, size' = size, NEW n \in Slot, NEW e, table' = [table EXCEPT ![n] = e],
         nomem' = nomem \/ nomem' = nomem + 1,
         e.used > 0 /\ nomem' = nomem => e.key \in Key /\ e.data \in Value
  PROVE  Whole'
<1> SUFFICES ASSUME nomem' = 0, NEW m \in LiveSlots'
             PROVE  table'[m].key \in Key /\ table'[m].data \in Value
  BY DEF Whole
<1>1. nomem' = nomem /\ nomem = 0
  BY DEF TableOK, TypeOK
<1>2. \A x \in Slot : table'[x] = IF x = n THEN e ELSE table[x]
  BY DEF TableOK, TypeOK
<1>3. m \in Slot /\ table'[m].used > 0
  BY DEF LiveSlots, Live, Slot
<1>4. CASE m = n
  BY <1>1, <1>2, <1>3, <1>4
<1>5. CASE m # n
  <2>1. table'[m] = table[m]
    BY <1>2, <1>3, <1>5
  <2>2. m \in LiveSlots
    BY <1>3, <2>1 DEF LiveSlots, Live
  <2> QED BY <1>1, <2>1, <2>2 DEF Whole
<1> QED BY <1>4, <1>5

LEMMA WholeStep == MapInv /\ Whole /\ [Call]_vars => Whole'
<1> SUFFICES ASSUME MapInv, Whole, [Call]_vars PROVE Whole'
  OBVIOUS
<1>0. TableOK
  BY DEF MapInv
<1>1. CASE UNCHANGED vars
  BY <1>1 DEF vars, Whole, LiveSlots, Live, Slot
<1>2. ASSUME NEW k \in Key, TableFull(k) PROVE Whole'
  BY <1>2 DEF TableFull, vars, Whole, LiveSlots, Live, Slot
<1>3. ASSUME NEW k \in Key, Delete(k) PROVE Whole'
  <2>1. PICK n \in Slot : table' = [table EXCEPT ![n] = Tombstone]
    BY <1>3 DEF Delete
  <2>2. size' = size /\ nomem' = nomem
    BY <1>3 DEF Delete
  <2>3. ~(Tombstone.used > 0)
    BY DEF Tombstone, Empty
  <2> QED BY <1>0, <2>1, <2>2, <2>3, WholeWrite
<1>4. ASSUME NEW k \in Key, NEW v \in Value, Update(k, v) PROVE Whole'
  <2>1. PICK n \in Slot : /\ FoundIn(k, n)
                          /\ \E d \in {v, NoValue} :
                               /\ table' = [table EXCEPT ![n].data = d]
                               /\ nomem' = IF d = NoValue THEN nomem + 1 ELSE nomem
    BY <1>4 DEF Update
  <2>2. PICK d \in {v, NoValue} : /\ table' = [table EXCEPT ![n].data = d]
                                  /\ nomem' = IF d = NoValue THEN nomem + 1 ELSE nomem
    BY <2>1
  <2>3. PICK e : e = [table[n] EXCEPT !.data = d]
    OBVIOUS
  <2>4. table' = [table EXCEPT ![n] = e]
    BY <2>2, <2>3
  <2>5. size' = size
    BY <1>4 DEF Update
  <2>6. table[n] \in Entry /\ table[n].key = k
    BY <1>0, <2>1, FoundIsLive DEF TableOK, TypeOK
  <2>7. e.key = k /\ e.data = d
    BY <2>3, <2>6 DEF Entry
  <2>8. nomem' = nomem => d = v
    BY <1>0, <2>2 DEF TableOK, TypeOK
  <2>9. nomem' = nomem \/ nomem' = nomem + 1
    BY <2>2
  <2> QED BY <1>0, <2>4, <2>5, <2>7, <2>8, <2>9, WholeWrite
<1>5. ASSUME NEW k \in Key, NEW v \in Value, Create(k, v) PROVE Whole'
  <2>1. PICK n \in Slot : table' = [table EXCEPT ![n] =
                                      [used |-> Home(size, k), key |-> k, data |-> v]]
    BY <1>5 DEF Create
  <2>2. PICK e : e = [used |-> Home(size, k), key |-> k, data |-> v]
    OBVIOUS
  <2>3. size' = size /\ nomem' = nomem
    BY <1>5 DEF Create
  <2>4. e.key = k /\ e.data = v /\ table' = [table EXCEPT ![n] = e]
    BY <2>1, <2>2
  <2> QED BY <1>0, <2>3, <2>4, WholeWrite
<1>6. ASSUME NEW k \in Key, NEW v \in Value, CreateNoMem(k, v) PROVE Whole'
  <2>1. nomem' # 0
    BY <1>0, <1>6 DEF CreateNoMem, TableOK, TypeOK
  <2> QED BY <2>1 DEF Whole
<1>7. ASSUME Recreate PROVE Whole'
  <2>1. PICK s \in Sizes : size' = s /\ table' = [n \in 1 .. s |-> Empty]
    BY <1>7 DEF Recreate
  <2>2. Empty.used = 0
    BY DEF Empty
  <2>3. LiveSlots' = {}
    BY <2>1, <2>2 DEF LiveSlots, Live, Slot
  <2> QED BY <2>3 DEF Whole
<1> QED BY <1>1, <1>2, <1>3, <1>4, <1>5, <1>6, <1>7 DEF Call

\* The names and the values in the order of the list.
Names == [i \in 1 .. Len(List) |-> KeyText[table[List[i]].key]]
Data  == [i \in 1 .. Len(List) |-> ValueText[table[List[i]].data]]

LEMMA EntriesAre ==
  ASSUME MapInv, Whole, nomem = 0
  PROVE  /\ Len(List) \in Nat
         /\ \A i \in 1 .. Len(List) :
              /\ table[List[i]].key \in Key /\ table[List[i]].data \in Value
              /\ List[i] \in Slot /\ FoundIn(table[List[i]].key, List[i])
              /\ IsName(Names[i]) /\ IsValue(Data[i])
         /\ \A i, j \in 1 .. Len(List) : Names[i] = Names[j] => i = j
         /\ \A sep \in Sep : Export(sep) = TextOf(Len(List), Names, Data, sep)
<1>1. PICK n \in Nat : n = Len(List) /\ n = Cardinality(LiveSlots)
  BY ListIs
<1>2. /\ List \in [1 .. n -> LiveSlots]
      /\ \A i, j \in 1 .. n : List[i] = List[j] => i = j
  BY <1>1, ListIs
<1>3. ASSUME NEW i \in 1 .. n
      PROVE  /\ table[List[i]].key \in Key /\ table[List[i]].data \in Value
             /\ List[i] \in Slot /\ FoundIn(table[List[i]].key, List[i])
  <2>1. List[i] \in LiveSlots
    BY <1>2
  <2>2. /\ table[List[i]].key \in Key /\ table[List[i]].data \in Value
        /\ List[i] \in Slot /\ Live(List[i])
    BY <2>1 DEF Whole, LiveSlots
  <2>3. table[List[i]].key # NoKey
    BY <2>2, HashTableAssumption
  <2> QED BY <2>2, <2>3 DEF MapInv, EntriesReachable
<1>4. \A i \in 1 .. n : /\ Names[i] = KeyText[table[List[i]].key]
                        /\ Data[i] = ValueText[table[List[i]].data]
  BY <1>1 DEF Names, Data
<1>5. \A i \in 1 .. n : IsName(Names[i]) /\ IsValue(Data[i])
  <2>1. \A k \in Key : IsName(KeyText[k])
    BY EnvTextAssumption DEF IsName
  <2>2. \A v \in Value : IsValue(ValueText[v])
    BY EnvTextAssumption DEF IsValue
  <2> QED BY <1>3, <1>4, <2>1, <2>2
<1>6. ASSUME NEW i \in 1 .. n, NEW j \in 1 .. n, Names[i] = Names[j] PROVE i = j
  <2>1. table[List[i]].key = table[List[j]].key
    <3>1. \A a, b \in Key : KeyText[a] = KeyText[b] => a = b
      BY EnvTextAssumption DEF IsInjective
    <3> QED BY <1>3, <1>4, <1>6, <3>1
  <2>2. List[i] = List[j]
    BY <1>3, <2>1, FoundOnce DEF MapInv
  <2> QED BY <1>2, <2>2
<1>7. ASSUME NEW sep \in Sep PROVE Export(sep) = TextOf(n, Names, Data, sep)
  <2>1. \A i \in 1 .. n : EntryText(List[i], sep) = EntryOf(Names[i], Data[i], sep)
    BY <1>4 DEF EntryText, EntryOf
  <2>2. [i \in 1 .. n |-> EntryText(List[i], sep)] = [i \in 1 .. n |-> EntryOf(Names[i], Data[i], sep)]
    BY <2>1
  <2> QED BY <1>1, <2>2 DEF Export, TextOf
<1> QED BY <1>1, <1>3, <1>5, <1>6, <1>7

LEMMA ImportInv == MapInv /\ Whole => ImportInverts
<1> SUFFICES ASSUME MapInv, Whole, nomem = 0, NEW sep \in Sep
             PROVE  Imported(Export(sep), sep) =
                      {Pair(KeyText[k], ValueText[Contents[k]]) : k \in {k \in Key : Found(k)}}
  BY DEF ImportInverts, Exportable
<1>1. PICK n \in Nat : n = Len(List)
  BY EntriesAre
<1>2. Imported(Export(sep), sep) = {Pair(Names[i], Data[i]) : i \in 1 .. n}
  <2>1. /\ \A i \in 1 .. n : IsName(Names[i]) /\ IsValue(Data[i])
        /\ \A i, j \in 1 .. n : Names[i] = Names[j] => i = j
        /\ Export(sep) = TextOf(n, Names, Data, sep)
    BY <1>1, EntriesAre
  <2>2. PICK K, W : K = Names /\ W = Data
    OBVIOUS
  <2>3. Imported(TextOf(n, K, W, sep), sep) = {Pair(K[i], W[i]) : i \in 1 .. n}
    BY <2>1, <2>2, ImportedAll
  <2> QED BY <2>1, <2>2, <2>3
<1>3. ASSUME NEW i \in 1 .. n
      PROVE  \E k \in Key : Found(k) /\ Names[i] = KeyText[k] /\ Data[i] = ValueText[Contents[k]]
  <2>1. PICK m \in Slot, k \in Key : m = List[i] /\ k = table[m].key /\ FoundIn(k, m)
    BY <1>1, <1>3, EntriesAre
  <2>2. Contents[k] = table[m].data
    BY <2>1, ContentsAt DEF DataOfFound, MapInv
  <2>3. Found(k)
    BY <2>1 DEF Found
  <2>4. Names[i] = KeyText[k] /\ Data[i] = ValueText[Contents[k]]
    BY <1>1, <1>3, <2>1, <2>2 DEF Names, Data
  <2> QED BY <2>3, <2>4
<1>4. ASSUME NEW k \in Key, Found(k)
      PROVE  \E i \in 1 .. n : Names[i] = KeyText[k] /\ Data[i] = ValueText[Contents[k]]
  <2>1. PICK m \in Slot : FoundIn(k, m)
    BY <1>4 DEF Found
  <2>2. Live(m) /\ table[m].key = k
    BY <2>1, FoundIsLive DEF MapInv
  <2>3. PICK i \in 1 .. n : List[i] = m
    <3>1. m \in LiveSlots
      BY <2>2 DEF LiveSlots
    <3> QED BY <1>1, <3>1, ListIs
  <2>4. Contents[k] = table[m].data
    BY <2>1, ContentsAt DEF DataOfFound, MapInv
  <2>5. Names[i] = KeyText[k] /\ Data[i] = ValueText[Contents[k]]
    BY <1>1, <2>2, <2>3, <2>4 DEF Names, Data
  <2> QED BY <2>5
<1>5. {Pair(Names[i], Data[i]) : i \in 1 .. n} =
        {Pair(KeyText[k], ValueText[Contents[k]]) : k \in {k \in Key : Found(k)}}
  BY <1>3, <1>4
<1> QED BY <1>2, <1>5

-----------------------------------------------------------------------------
(***************************************************************************)
(* The size that hexport_r() computes.                                     *)
(***************************************************************************)
EscapedIn(w, m, sep) == {j \in 1 .. m : Escaped(w[j], sep)}

LEMMA EscapedCount ==
  ASSUME NEW w, NEW m \in Nat, NEW sep
  PROVE  /\ IsFiniteSet(EscapedIn(w, m, sep)) /\ Cardinality(EscapedIn(w, m, sep)) \in Nat
         /\ Cardinality(EscapedIn(w, m + 1, sep)) =
              Cardinality(EscapedIn(w, m, sep)) + (IF Escaped(w[m + 1], sep) THEN 1 ELSE 0)
<1>1. PICK A, B : A = EscapedIn(w, m, sep) /\ B = EscapedIn(w, m + 1, sep)
  OBVIOUS
<1>2. A \in SUBSET (1 .. m) /\ IsFiniteSet(1 .. m)
  BY <1>1, FS_Interval DEF EscapedIn
<1>3. IsFiniteSet(A)
  BY <1>2, FS_Subset
<1>4. Cardinality(A) \in Nat
  BY <1>3, FS_CardinalityType
<1>5. m + 1 \notin A /\ B = IF Escaped(w[m + 1], sep) THEN A \union {m + 1} ELSE A
  <2>1. 1 .. m + 1 = (1 .. m) \union {m + 1} /\ m + 1 \notin 1 .. m
    OBVIOUS
  <2> QED BY <1>1, <2>1 DEF EscapedIn
<1>6. Cardinality(A \union {m + 1}) = Cardinality(A) + 1
  BY <1>3, <1>5, FS_AddElement
<1>7. CASE Escaped(w[m + 1], sep)
  BY <1>1, <1>3, <1>4, <1>5, <1>6, <1>7
<1>8. CASE ~Escaped(w[m + 1], sep)
  BY <1>1, <1>3, <1>4, <1>5, <1>8
<1> QED BY <1>7, <1>8

\* An escape is one character more.
LEMMA EscapeLen ==
  ASSUME NEW w \in Seq(Char), NEW sep
  PROVE  /\ Len(Escape(w, sep)) = Len(w) + Cardinality(EscapedIn(w, Len(w), sep))
         /\ Cardinality(EscapedIn(w, Len(w), sep)) \in Nat
<1>1. PICK f : f = EscapeParts(w, sep)
  OBVIOUS
<1>2. PICK e : Offsets(f, Len(w), e) /\ Holds(Escape(w, sep), f, Len(w), e)
  BY <1>1, EscapeIs
<1>3. PICK n \in Nat : n = Len(w)
  OBVIOUS
<1> DEFINE c(m) == Cardinality(EscapedIn(w, m, sep))
           S == {m \in 0 .. n : e[m] = m + c(m)}
<1>4. 0 \in S
  <2>1. EscapedIn(w, 0, sep) = {}
    BY DEF EscapedIn
  <2>2. c(0) = 0
    BY <2>1, FS_EmptySet
  <2>3. e[0] = 0 /\ 0 \in 0 .. n
    BY <1>2 DEF Offsets
  <2> HIDE DEF c
  <2> QED BY <2>2, <2>3
<1>5. ASSUME NEW m \in 0 .. n - 1, m \in S PROVE m + 1 \in S
  <2>1. m + 1 \in 1 .. n /\ (m + 1) - 1 = m /\ m + 1 \in 0 .. n /\ m \in Nat
    OBVIOUS
  <2>2. e[m + 1] = e[m] + Len(f[m + 1])
    BY <1>2, <1>3, <2>1 DEF Offsets
  <2>3. Len(f[m + 1]) = IF Escaped(w[m + 1], sep) THEN 2 ELSE 1
    <3>1. EscapePart(f[m + 1], w[m + 1], sep)
      BY <1>1, <1>3, <2>1, EscapePartsAre
    <3> QED BY <3>1 DEF EscapePart
  <2>4. c(m + 1) = c(m) + (IF Escaped(w[m + 1], sep) THEN 1 ELSE 0) /\ c(m) \in Nat
    BY <2>1, EscapedCount
  <2>5. e[m] = m + c(m)
    BY <1>5
  <2> HIDE DEF c
  <2>6. e[m + 1] = (m + 1) + c(m + 1)
    <3>1. CASE Escaped(w[m + 1], sep)
      BY <2>1, <2>2, <2>3, <2>4, <2>5, <3>1
    <3>2. CASE ~Escaped(w[m + 1], sep)
      BY <2>1, <2>2, <2>3, <2>4, <2>5, <3>2
    <3> QED BY <3>1, <3>2
  <2> QED BY <2>1, <2>6
<1>6. \A m \in 0 .. n : m \in S
  <2> HIDE DEF S
  <2> QED BY <1>4, <1>5, Upwards
<1>7. e[n] = n + c(n)
  <2>1. n \in 0 .. n
    OBVIOUS
  <2>2. n \in S
    <3> HIDE DEF S
    <3> QED BY <1>6, <2>1
  <2> QED BY <2>2
<1>8. Len(Escape(w, sep)) = e[n] /\ c(n) \in Nat
  BY <1>2, <1>3, EscapedCount DEF Holds
<1> QED BY <1>3, <1>7, <1>8

\* Room and text of one entry.
LEMMA EntryFits ==
  ASSUME NEW k, IsName(k), NEW w, IsValue(w), NEW sep \in Sep,
         NEW b, b = Cardinality({i \in 1 .. Len(w) : w[i] = Backslash})
  PROVE  /\ b \in Nat /\ DataRoom(w, sep) \in Nat
         /\ Len(EntryOf(k, w, sep)) + 2 =
              Len(k) + 2 + DataRoom(w, sep) + 2 + (IF sep = Nul THEN b ELSE 0)
<1>1. k \in Seq(Char) /\ w \in Seq(Char) /\ \A i \in 1 .. Len(w) : w[i] # Nul
  BY DEF IsName, IsValue
<1>2. PICK l \in Nat, m \in Nat, n \in Nat, c \in Nat :
        /\ l = Len(k) /\ m = Len(w) /\ n = Len(Escape(w, sep))
        /\ c = Cardinality(EscapedIn(w, Len(w), sep))
  BY <1>1, EscapeIs, EscapeLen
<1>3. n = m + c
  BY <1>1, <1>2, EscapeLen
<1>4. Len(EntryOf(k, w, sep)) = l + 1 + n + 1
  BY <1>1, <1>2, EntryIs DEF Parts
<1>6. b \in Nat
  <2>1. PICK B : B = {i \in 1 .. m : w[i] = Backslash}
    OBVIOUS
  <2>2. B \in SUBSET (1 .. m) /\ IsFiniteSet(1 .. m)
    BY <2>1, FS_Interval
  <2>3. IsFiniteSet(B)
    BY <2>2, FS_Subset
  <2> QED BY <1>2, <2>1, <2>3, FS_CardinalityType
<1>7. CASE sep = Nul
  <2>1. DataRoom(w, sep) = m
    BY <1>2, <1>7 DEF DataRoom
  <2>2. EscapedIn(w, Len(w), sep) = {i \in 1 .. Len(w) : w[i] = Backslash}
    BY <1>1, <1>7 DEF EscapedIn, Escaped
  <2>3. c = b
    BY <1>2, <2>2
  <2>4. l + 1 + n + 1 + 2 = l + 2 + m + 2 + c
    BY <1>3
  <2>5. (IF sep = Nul THEN b ELSE 0) = c
    BY <1>7, <2>3
  <2> QED BY <1>2, <1>4, <1>6, <2>1, <2>4, <2>5
<1>8. CASE sep # Nul
  <2>1. DataRoom(w, sep) = m + c
    BY <1>2, <1>8 DEF DataRoom, EscapedIn
  <2>2. l + 1 + n + 1 + 2 = l + 2 + (m + c) + 2 + 0
    BY <1>3
  <2>3. (IF sep = Nul THEN b ELSE 0) = 0 /\ m + c \in Nat
    BY <1>8
  <2> QED BY <1>2, <1>4, <1>6, <2>1, <2>2, <2>3
<1> QED BY <1>7, <1>8

LEMMA Sums ==
  ASSUME NEW n \in Nat, NEW e \in [0 .. n -> Int], NEW r \in [0 .. n -> Int],
         NEW b \in [0 .. n -> Int], e[0] = 0, r[0] = 0, b[0] = 0,
         \A i \in 1 .. n : (e[i] - e[i - 1]) + 2 = (r[i] - r[i - 1]) + (b[i] - b[i - 1])
  PROVE  e[n] + 2 * n = r[n] + b[n]
<1> DEFINE S == {i \in 0 .. n : e[i] + 2 * i = r[i] + b[i]}
<1>1. 0 \in S
  OBVIOUS
<1>2. ASSUME NEW i \in 0 .. n - 1, i \in S PROVE i + 1 \in S
  <2>1. i + 1 \in 1 .. n /\ (i + 1) - 1 = i /\ i + 1 \in 0 .. n /\ i \in 0 .. n
    OBVIOUS
  <2>2. PICK e0 \in Int, e1 \in Int, r0 \in Int, r1 \in Int, b0 \in Int, b1 \in Int :
          e0 = e[i] /\ e1 = e[i + 1] /\ r0 = r[i] /\ r1 = r[i + 1] /\ b0 = b[i] /\ b1 = b[i + 1]
    BY <2>1
  <2>3. (e1 - e0) + 2 = (r1 - r0) + (b1 - b0) /\ e0 + 2 * i = r0 + b0
    BY <1>2, <2>1, <2>2
  <2>4. e1 + 2 * (i + 1) = r1 + b1
    BY <2>3
  <2> QED BY <2>1, <2>2, <2>4
<1>3. \A i \in 0 .. n : i \in S
  <2> HIDE DEF S
  <2> QED BY <1>1, <1>2, Upwards
<1>4. n \in 0 .. n
  OBVIOUS
<1>5. n \in S
  <2> HIDE DEF S
  <2> QED BY <1>3, <1>4
<1> QED BY <1>5

\* Beyond two backslashes for each entry the text never fits.
LEMMA FitsInv ==
  ASSUME MapInv, Whole, nomem = 0, NEW sep \in Sep
  PROVE  (Len(Export(sep)) <= ExportSize(sep)) <=>
            (sep # Nul \/ Backslashes <= 2 * Len(List))
<1>1. PICK n \in Nat : n = Len(List)
  BY EntriesAre
<1>2. PICK K, W : K = Names /\ W = Data
  OBVIOUS
<1>3. /\ \A i \in 1 .. n : IsName(K[i]) /\ IsValue(W[i])
      /\ Export(sep) = TextOf(n, K, W, sep)
  BY <1>1, <1>2, EntriesAre
<1>4. PICK f : f = [i \in 1 .. n |-> EntryOf(K[i], W[i], sep)]
  OBVIOUS
<1>5. PICK e : Offsets(f, n, e) /\ Len(Export(sep)) = e[n] + 1
  BY <1>3, <1>4, TextIs
<1>6. PICK room, back : /\ room = [i \in 1 .. n |-> EntryRoom(List[i], sep)]
                        /\ back = [i \in 1 .. n |-> BackslashesIn(List[i])]
  OBVIOUS
<1>8. ASSUME NEW i \in 1 .. n
      PROVE  /\ room[i] \in Int /\ back[i] \in Int
             /\ Len(f[i]) + 2 = room[i] + (IF sep = Nul THEN back[i] ELSE 0)
  <2>1. PICK k, w : k = K[i] /\ w = W[i]
    OBVIOUS
  <2>2. IsName(k) /\ IsValue(w)
    BY <1>3, <2>1
  <2>3. k = KeyText[table[List[i]].key] /\ w = ValueText[table[List[i]].data]
    BY <1>1, <1>2, <2>1 DEF Names, Data
  <2>4. PICK b : b = Cardinality({j \in 1 .. Len(w) : w[j] = Backslash})
    OBVIOUS
  <2>5. back[i] = b
    BY <1>6, <2>3, <2>4 DEF BackslashesIn
  <2>6. room[i] = Len(k) + 2 + DataRoom(w, sep) + 2
    BY <1>6, <2>3 DEF EntryRoom
  <2>7. f[i] = EntryOf(k, w, sep)
    BY <1>4, <2>1
  <2>8. /\ b \in Nat /\ DataRoom(w, sep) \in Nat
        /\ Len(EntryOf(k, w, sep)) + 2 =
             Len(k) + 2 + DataRoom(w, sep) + 2 + (IF sep = Nul THEN b ELSE 0)
    BY <2>2, <2>4, EntryFits
  <2>9. Len(k) \in Nat
    BY <2>2 DEF IsName
  <2> QED BY <2>5, <2>6, <2>7, <2>8, <2>9
<1>9. room \in [1 .. n -> Int] /\ back \in [1 .. n -> Int]
  BY <1>6, <1>8
<1>10. PICK r \in [0 .. n -> Int] : /\ r[0] = 0 /\ \A i \in 1 .. n : r[i] = r[i - 1] + room[i]
                                    /\ Total(room, n) = r[n]
  BY <1>9, TotalIs
<1>11. PICK b \in [0 .. n -> Int] : /\ b[0] = 0 /\ \A i \in 1 .. n : b[i] = b[i - 1] + back[i]
                                    /\ Total(back, n) = b[n]
  BY <1>9, TotalIs
<1>12. e \in [0 .. n -> Int] /\ e[0] = 0
  BY <1>5 DEF Offsets
<1>13. ASSUME NEW i \in 1 .. n
       PROVE  (e[i] - e[i - 1]) + 2 =
                (r[i] - r[i - 1]) + (IF sep = Nul THEN b[i] - b[i - 1] ELSE 0)
  <2>1. i \in 0 .. n /\ i - 1 \in 0 .. n
    OBVIOUS
  <2>2. PICK e0 \in Int, e1 \in Int, r0 \in Int, r1 \in Int, b0 \in Int, b1 \in Int :
          /\ e0 = e[i - 1] /\ e1 = e[i] /\ r0 = r[i - 1] /\ r1 = r[i]
          /\ b0 = b[i - 1] /\ b1 = b[i]
    BY <1>12, <2>1
  <2>3. PICK rm \in Int, bk \in Int : rm = room[i] /\ bk = back[i]
    BY <1>8
  <2>4. PICK ln \in Int : ln = Len(f[i])
    <3>1. K[i] \in Seq(Char) /\ W[i] \in Seq(Char)
      BY <1>3 DEF IsName, IsValue
    <3>2. f[i] \in Seq(Char)
      BY <1>4, <3>1, EntryIs
    <3>3. Len(f[i]) \in Int
      BY <3>2
    <3> QED BY <3>3
  <2>5. r1 = r0 + rm /\ b1 = b0 + bk
    BY <1>10, <1>11, <2>2, <2>3
  <2>6. e1 = e0 + ln
    BY <1>5, <2>2, <2>4 DEF Offsets
  <2>7. e1 - e0 = ln /\ r1 - r0 = rm /\ b1 - b0 = bk
    BY <2>5, <2>6
  <2>8. ln + 2 = rm + (IF sep = Nul THEN bk ELSE 0)
    BY <1>8, <2>3, <2>4
  <2> QED BY <2>2, <2>7, <2>8
<1>14. e[n] + 2 * n = r[n] + (IF sep = Nul THEN b[n] ELSE 0)
  <2>1. CASE sep = Nul
    <3>1. r[0] = 0 /\ b[0] = 0
      BY <1>10, <1>11
    <3>2. \A i \in 1 .. n : (e[i] - e[i - 1]) + 2 = (r[i] - r[i - 1]) + (b[i] - b[i - 1])
      BY <1>13, <2>1
    <3>3. e[n] + 2 * n = r[n] + b[n]
      BY <1>12, <3>1, <3>2, Sums
    <3> QED BY <2>1, <3>3
  <2>2. CASE sep # Nul
    <3>1. PICK z \in [0 .. n -> Int] : \A i \in 0 .. n : z[i] = 0
      <4>1. [i \in 0 .. n |-> 0] \in [0 .. n -> Int]
        OBVIOUS
      <4> QED BY <4>1
    <3>2. z[0] = 0 /\ z[n] = 0
      BY <3>1
    <3>3. \A i \in 1 .. n : z[i] - z[i - 1] = 0
      BY <3>1
    <3>4. \A i \in 1 .. n : (e[i] - e[i - 1]) + 2 = (r[i] - r[i - 1]) + (z[i] - z[i - 1])
      BY <1>13, <2>2, <3>3
    <3>5. r[0] = 0
      BY <1>10
    <3>6. e[n] + 2 * n = r[n] + z[n]
      BY <1>12, <3>2, <3>4, <3>5, Sums
    <3> QED BY <2>2, <3>2, <3>6
  <2> QED BY <2>1, <2>2
<1>15. ExportSize(sep) = r[n] + 1
  BY <1>1, <1>6, <1>10 DEF ExportSize
<1>16. Backslashes = b[n]
  BY <1>1, <1>6, <1>11 DEF Backslashes
<1>17. PICK en \in Int, rn \in Int, bn \in Int : en = e[n] /\ rn = r[n] /\ bn = b[n]
  <2>1. n \in 0 .. n
    OBVIOUS
  <2> QED BY <1>12, <2>1
<1>18. (en + 1 <= rn + 1) <=> (sep # Nul \/ bn <= 2 * n)
  <2>1. CASE sep = Nul
    <3>1. en + 2 * n = rn + bn
      BY <1>14, <1>17, <2>1
    <3> QED BY <2>1, <3>1
  <2>2. CASE sep # Nul
    <3>1. en + 2 * n = rn
      BY <1>14, <1>17, <2>2
    <3> QED BY <2>2, <3>1
  <2> QED BY <2>1, <2>2
<1> QED BY <1>1, <1>5, <1>15, <1>16, <1>17, <1>18

-----------------------------------------------------------------------------
(***************************************************************************)
(* The theorems.  The table satisfies the invariants above as long as      *)
(* there is one; an import that finds no memory for its table leaves       *)
(* none, until the next import.                                            *)
(***************************************************************************)
HashInv == MapInv /\ NamesKept /\ FilledIsEntries /\ Whole

NoTable ==
  /\ size = 0
  /\ table = [n \in 1 .. 0 |-> Empty]
  /\ filled = 0 /\ bound = {} /\ crowded = FALSE /\ nomem \in 1 .. MaxNoMem

LEMMA HashFresh == Fresh => HashInv
<1> SUFFICES ASSUME Fresh PROVE HashInv
  OBVIOUS
<1>1. Empty.used = 0
  BY DEF Empty
<1>2. {n \in Slot : Live(n)} = {}
  BY <1>1 DEF Fresh, Live, Slot
<1>3. FilledIsEntries
  BY <1>2, FS_EmptySet DEF Fresh, FilledIsEntries
<1>4. NamesKept
  BY DEF Fresh, NamesKept, NamesFound
<1> QED BY <1>3, <1>4, TypeFresh, ReachFresh, WholeFresh DEF HashInv, MapInv

LEMMA InitIsFresh == Init => Fresh
BY HashTableAssumption DEF Init, Fresh

LEMMA RecreateIsFresh == nomem \in 0 .. MaxNoMem /\ Recreate => Fresh'
BY DEF Recreate, Fresh

LEMMA GoneIsNoTable == nomem \in 0 .. MaxNoMem /\ RecreateNoMem => NoTable'
BY HashTableAssumption DEF RecreateNoMem, NoTable

\* Without a table there is only the next import.
LEMMA FromNoTable == NoTable /\ [Next]_vars => NoTable' \/ Fresh'
<1> SUFFICES ASSUME NoTable, [Next]_vars PROVE NoTable' \/ Fresh'
  OBVIOUS
<1>1. Slot = {} /\ nomem \in 0 .. MaxNoMem
  BY HashTableAssumption DEF NoTable, Slot
<1>2. ASSUME NEW k \in Key, TableFull(k) \/ Delete(k) PROVE FALSE
  BY <1>1, <1>2 DEF TableFull, Delete, NoTable
<1>3. ASSUME NEW k \in Key, NEW v \in Value, Update(k, v) \/ Create(k, v) \/ CreateNoMem(k, v)
      PROVE  FALSE
  BY <1>1, <1>3 DEF Update, Create, CreateNoMem
<1>4. CASE Recreate
  BY <1>1, <1>4, RecreateIsFresh
<1>5. CASE RecreateNoMem
  BY <1>1, <1>5, GoneIsNoTable
<1>6. CASE UNCHANGED vars
  BY <1>6 DEF vars, NoTable
<1> QED BY <1>2, <1>3, <1>4, <1>5, <1>6 DEF Next, Call

LEMMA HashStep == (HashInv \/ NoTable) /\ [Next]_vars => (HashInv \/ NoTable)'
<1> SUFFICES ASSUME HashInv \/ NoTable, [Next]_vars PROVE HashInv' \/ NoTable'
  OBVIOUS
<1>1. CASE NoTable
  <2>1. (Fresh => HashInv)'
    BY HashFresh, PTL
  <2> QED BY <1>1, <2>1, FromNoTable
<1>2. CASE HashInv /\ [Call]_vars
  BY <1>2, TypeStep, ReachStep, NamesStep, FilledStep, WholeStep DEF HashInv, MapInv
<1>3. CASE HashInv /\ RecreateNoMem
  BY <1>3, GoneIsNoTable DEF HashInv, MapInv, TableOK, TypeOK
<1> QED BY <1>1, <1>2, <1>3 DEF Next

LEMMA HashAlways == Spec => [](HashInv \/ NoTable)
<1>1. Init => HashInv \/ NoTable
  BY InitIsFresh, HashFresh
<1> QED BY <1>1, HashStep, PTL DEF Spec

LEMMA NothingIn == NoTable => Contents = [k \in Key |-> NoValue] /\ \A k \in Key : ~Found(k)
BY DEF NoTable, Contents, Found, Slot

LEMMA NothingInFresh == Fresh => Contents = [k \in Key |-> NoValue]
<1> SUFFICES ASSUME Fresh PROVE \A k \in Key : ~Found(k)
  BY DEF Contents
<1>1. Empty.used = 0
  BY DEF Empty
<1> SUFFICES ASSUME NEW k \in Key, NEW n \in Slot, Matches(k, n) PROVE FALSE
  BY DEF Found, FoundIn
<1>2. table[n].used = 0
  BY <1>1 DEF Fresh, Slot
<1>3. Home(size, k) \in 1 .. size - 1
  BY HomeType DEF Fresh
<1> QED BY <1>2, <1>3, SizeType DEF Matches, Fresh

LEMMA HashMapStep ==
  (HashInv \/ NoTable) /\ [Next]_vars => [Map!MapNext]_<<Contents, ~crowded>>
<1> SUFFICES ASSUME HashInv \/ NoTable, [Next]_vars
             PROVE  [Map!MapNext]_<<Contents, ~crowded>>
  OBVIOUS
<1>1. ASSUME NoTable' \/ Fresh' PROVE Map!MapNext
  <2>1. (NoTable => Contents = [k \in Key |-> NoValue])' /\ (Fresh => Contents = [k \in Key |-> NoValue])'
    BY NothingIn, NothingInFresh, PTL
  <2>2. ~crowded'
    BY <1>1 DEF NoTable, Fresh
  <2> QED BY <1>1, <2>1, <2>2 DEF Map!MapNext, Map!Clear
<1>2. CASE NoTable
  BY <1>1, <1>2, FromNoTable
<1>3. CASE HashInv /\ [Call]_vars
  BY <1>3, MapStep DEF HashInv
<1>4. CASE HashInv /\ RecreateNoMem
  BY <1>1, <1>4, GoneIsNoTable DEF HashInv, MapInv, TableOK, TypeOK
<1> QED BY <1>2, <1>3, <1>4 DEF Next

\* Every variable keeps its type: a slot's field used is a first index of the
\* table or one of the two marks, and filled stays in its unsigned int.
THEOREM HashTypeCorrect == Spec => []TypeOK
<1>1. NoTable => TypeOK
  <2> SUFFICES ASSUME NoTable PROVE TypeOK
    OBVIOUS
  <2>1. table \in [Slot -> Entry]
    BY DEF NoTable, Slot
  <2>2. 0 \in 0 .. FilledMod - 1
    <3>1. PICK s : s \in Sizes
      BY HashTableAssumption DEF Sizes
    <3> QED BY <3>1, SizeType
  <2>3. nomem \in 0 .. MaxNoMem
    BY HashTableAssumption DEF NoTable
  <2> QED BY <2>1, <2>2, <2>3 DEF NoTable, TypeOK
<1>2. HashInv => TypeOK
  BY DEF HashInv, MapInv, TableOK
<1> QED BY <1>1, <1>2, HashAlways, PTL

\* After any sequence of insertions, updates, deletions, imports and failed
\* allocations, the search for a key that has an entry ends at that entry, for
\* every hash function: no deletion cuts a probe sequence, and no key has two
\* entries.
THEOREM EntriesAlwaysReachable == Spec => []EntriesReachable
<1>1. HashInv \/ NoTable => EntriesReachable
  BY DEF HashInv, MapInv, NoTable, EntriesReachable, Slot
<1> QED BY <1>1, HashAlways, PTL

\* The hash table implements the map of names to values, for every hash
\* function, every table size and every failure of strdup() and calloc(); a
\* new entry that is made when no slot is left that was never used is an
\* overload.
THEOREM TableIsMap == Spec => IsMap
<1>1. Init => HashInv \/ NoTable
  BY InitIsFresh, HashFresh
<1> QED BY <1>1, HashStep, HashMapStep, MapInit, PTL DEF Spec, IsMap, Map!MapSpec

\* As long as no entry was made in a table whose every slot had been used,
\* every name that was entered and not deleted since is found, for every hash
\* function and whatever allocations failed.
THEOREM NamesAreKept == Spec => []NamesKept
<1>1. HashInv \/ NoTable => NamesKept
  BY DEF HashInv, NoTable, NamesKept, NamesFound
<1> QED BY <1>1, HashAlways, PTL

\* The counter that hsearch_r() compares with the size to refuse an entry is
\* the number of entries, through its unsigned wrap-around, unless memory ran
\* out or an entry was made in a table whose every slot had been used.
THEOREM FilledCounts == Spec => []FilledIsEntries
<1>1. HashInv \/ NoTable => FilledIsEntries
  BY DEF HashInv, NoTable, FilledIsEntries
<1> QED BY <1>1, HashAlways, PTL

\* "This is the inverse function to hexport()": for all names and values, in
\* whatever slots, with either separator, himport_r() reads back from what
\* hexport_r() wrote the environment that the table stands for.
THEOREM ImportsWhatWasExported == Spec => []ImportInverts
<1>1. HashInv => ImportInverts
  BY ImportInv DEF HashInv
<1>2. NoTable => ImportInverts
  BY DEF NoTable, ImportInverts, Exportable
<1> QED BY <1>1, <1>2, HashAlways, PTL

\* What hexport_r() writes fits into the size it computed, for all names and
\* values, if the separator is not NUL or the values have at most two
\* backslashes for each entry.  (Otherwise it never fits: see run hash_export.)
THEOREM ExportedTextFits == Spec => []ExportFits
<1>1. HashInv => ExportFits
  BY FitsInv DEF HashInv, ExportFits, Exportable
<1>2. NoTable => ExportFits
  BY DEF NoTable, ExportFits, Exportable
<1> QED BY <1>1, <1>2, HashAlways, PTL

====
