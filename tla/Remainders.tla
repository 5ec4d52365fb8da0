----------------------------- MODULE Remainders ----------------------------
(***************************************************************************)
(* Facts about % that the solver does not find by itself: the counters and *)
(* addresses of the system wrap at widths that are constants.              *)
(***************************************************************************)
EXTENDS Integers, TLAPS

\* Division with remainder is unique.
LEMMA ModUnique ==
    ASSUME NEW n \in Nat \ {0}, NEW q \in Nat, NEW k \in 0 .. n - 1
    PROVE  (n * q + k) % n = k
<1> DEFINE m == n * q + k
<1>1. m \in Nat
  OBVIOUS
<1>2. PICK d \in Nat : m = n * d + (m % n)
  <2>1. m \div n \in Nat /\ m = n * (m \div n) + (m % n)
    BY <1>1
  <2> QED
    BY <2>1
<1>3. m % n \in 0 .. n - 1
  BY <1>1
<1>4. n * (q - d) = (m % n) - k
  BY <1>1, <1>2, <1>3
<1>5. CASE q = d
  BY <1>2, <1>3, <1>5
<1>6. CASE q >= d + 1
  <2>1. n * (q - d) >= n
    BY <1>6
  <2> QED
    BY <2>1, <1>3, <1>4
<1>7. CASE d >= q + 1
  <2>1. n * (d - q) >= n
    BY <1>7
  <2>2. n * (q - d) = 0 - n * (d - q)
    OBVIOUS
  <2> QED
    BY <2>1, <2>2, <1>3, <1>4
<1> QED
  BY <1>5, <1>6, <1>7

\* A sum may be reduced before or after something is added to it.
LEMMA ModAdd ==
    ASSUME NEW n \in Nat \ {0}, NEW a \in Nat, NEW d \in Nat
    PROVE  ((a % n) + d) % n = (a + d) % n
<1> DEFINE x == (a % n) + d
<1>1. PICK p \in Nat : a = n * p + (a % n)
  <2>1. a \div n \in Nat /\ a = n * (a \div n) + (a % n)
    OBVIOUS
  <2> QED BY <2>1
<1>2. x \in Nat
  OBVIOUS
<1>3. PICK q \in Nat : x = n * q + (x % n)
  <2>1. x \div n \in Nat /\ x = n * (x \div n) + (x % n)
    BY <1>2
  <2> QED BY <2>1
<1>4. x % n \in 0 .. n - 1
  BY <1>2
<1>5. a + d = n * (p + q) + (x % n)
  <2>1. a + d = n * p + (n * q + (x % n))
    BY <1>1, <1>3
  <2>2. n * (p + q) = n * p + n * q
    OBVIOUS
  <2> QED BY <2>1, <2>2, <1>4
<1>6. (n * (p + q) + (x % n)) % n = x % n
  BY <1>4, ModUnique
<1> QED BY <1>5, <1>6

\* The quotient of a division with remainder.
LEMMA DivUnique ==
    ASSUME NEW n \in Nat \ {0}, NEW q \in Nat, NEW k \in 0 .. n - 1
    PROVE  (n * q + k) \div n = q
<1> DEFINE m == n * q + k
           d == m \div n
<1>1. m \in Nat /\ d \in Nat /\ m % n = k
  BY ModUnique
<1>2. m = n * d + (m % n)
  BY <1>1
<1>3. n * q = n * d
  <2> HIDE DEF d
  <2> QED BY <1>1, <1>2
<1>4. n * (q - d) = 0
  <2> HIDE DEF d
  <2>1. n * (q - d) = n * q - n * d
    BY <1>1
  <2> QED BY <1>1, <1>3, <2>1
<1>5. d = q
  <2> HIDE DEF d
  <2>1. CASE q >= d + 1
    <3>1. n * (q - d) >= n
      BY <1>1, <2>1
    <3> QED BY <3>1, <1>4
  <2>2. CASE d >= q + 1
    <3>1. n * (d - q) >= n
      BY <1>1, <2>2
    <3>2. n * (d - q) = n * d - n * q
      BY <1>1
    <3>3. n * d \in Nat
      BY <1>1
    <3> QED BY <3>1, <3>2, <3>3, <1>3
  <2> QED BY <1>1, <2>1, <2>2
<1> QED BY <1>5

\* A quotient is below w when the dividend is below w divisors.
LEMMA DivBelow ==
    ASSUME NEW k \in Nat \ {0}, NEW n \in Nat, NEW w \in Nat
    PROVE  n \div k < w <=> n < k * w
<1>1. PICK d \in Nat : d = n \div k
  OBVIOUS
<1>2. n = k * d + (n % k) /\ n % k \in 0 .. k - 1
  BY <1>1
<1>3. PICK e \in 0 .. k - 1 : n = k * d + e
  BY <1>2
<1>4. CASE d < w
  <2>1. k * (w - d) >= k
    BY <1>4
  <2>2. k * (w - d) = k * w - k * d
    OBVIOUS
  <2> QED BY <1>1, <1>3, <1>4, <2>1, <2>2
<1>5. CASE d >= w
  <2>1. k * (d - w) >= 0
    BY <1>5
  <2>2. k * (d - w) = k * d - k * w
    OBVIOUS
  <2> QED BY <1>1, <1>3, <1>5, <2>1, <2>2
<1> QED BY <1>4, <1>5
=============================================================================
