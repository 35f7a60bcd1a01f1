------------------------------ MODULE Counters ------------------------------
(***************************************************************************)
(* Arithmetic of counters that wrap: the nread and nwrite of a pipe, the   *)
(* indices of the virtio rings.  A counter a kept modulo m finds the same  *)
(* slot of a ring of n as a itself when n divides m, and two counters less *)
(* than n apart find different slots.  Last, what a search through numbers *)
(* finds.                                                                  *)
(***************************************************************************)
EXTENDS Integers, TLAPS

\* Quotient and remainder.
LEMMA DivMod ==
  ASSUME NEW a \in Int, NEW m \in Nat \ {0}
  PROVE  a \div m \in Int /\ a % m \in 0..m - 1 /\ a = m * (a \div m) + (a % m)
  OBVIOUS

\* A multiple of m that lies strictly between -m and m is zero.
LEMMA SmallMultiple ==
  ASSUME NEW m \in Nat \ {0}, NEW q \in Int, m * q < m, -m < m * q
  PROVE  q = 0
<1>1. CASE q >= 1
  <2>1. m * q = m + m * (q - 1) /\ m * (q - 1) >= 0
    BY <1>1
  <2>. QED BY <2>1
<1>2. CASE q <= -1
  <2>1. m * q = -m - m * (-q - 1) /\ m * (-q - 1) >= 0
    BY <1>2
  <2>. QED BY <2>1
<1>. QED BY <1>1, <1>2

\* The remainder is the only one of its range.
LEMMA ModIs ==
  ASSUME NEW m \in Nat \ {0}, NEW q \in Int, NEW r \in 0..m - 1, NEW a \in Int, a = m * q + r
  PROVE  a % m = r
<1>. DEFINE k == a \div m
            s == a % m
<1>1. k \in Int /\ s \in 0..m - 1 /\ a = m * k + s
  BY DivMod
<1>. HIDE DEF k, s
<1>2. m * (q - k) = s - r
  BY <1>1
<1>3. q - k = 0
  BY <1>1, <1>2, SmallMultiple
<1>4. s = r
  BY <1>1, <1>2, <1>3
<1>. QED BY <1>4 DEF s

\* Counting on from a wrapped counter.
LEMMA ModPlus ==
  ASSUME NEW m \in Nat \ {0}, NEW a \in Int, NEW c \in Int
  PROVE  ((a % m) + c) % m = (a + c) % m
<1>. DEFINE k == a \div m
            s == a % m
            j == (s + c) \div m
            t == (s + c) % m
<1>1. k \in Int /\ s \in 0..m - 1 /\ a = m * k + s
  BY DivMod
<1>2. j \in Int /\ t \in 0..m - 1 /\ s + c = m * j + t
  BY <1>1, DivMod
<1>. HIDE DEF k, s, j, t
<1>. DEFINE q == k + j
            e == a + c
<1>3. e = m * q + t /\ q \in Int /\ e \in Int
  BY <1>1, <1>2
<1>. HIDE DEF q, e
<1>4. e % m = t
  BY <1>2, <1>3, ModIs
<1>. QED BY <1>4 DEF s, t, e

\* A counter that wraps at a multiple of n still gives the place in n slots.
LEMMA ModMod ==
  ASSUME NEW m \in Nat \ {0}, NEW n \in Nat \ {0}, m % n = 0, NEW a \in Int
  PROVE  (a % m) % n = a % n
<1>. DEFINE k == a \div m
            s == a % m
            j == s \div n
            t == s % n
            h == m \div n
<1>1. k \in Int /\ s \in 0..m - 1 /\ a = m * k + s
  BY DivMod
<1>2. j \in Int /\ t \in 0..n - 1 /\ s = n * j + t
  BY <1>1, DivMod
<1>3. h \in Int /\ m = n * h
  BY DivMod
<1>. HIDE DEF k, s, j, t, h
<1>4. m * k = n * (h * k)
  BY <1>1, <1>3
<1>. DEFINE q == h * k + j
<1>5. a = n * q + t /\ q \in Int
  BY <1>1, <1>2, <1>3, <1>4
<1>. HIDE DEF q
<1>6. a % n = t
  BY <1>2, <1>5, ModIs
<1>. QED BY <1>6 DEF s, t

\* Two numbers less than m apart have different remainders.
LEMMA ModApart ==
  ASSUME NEW m \in Nat \ {0}, NEW a \in Int, NEW b \in Int, b - a < m, a - b < m, a % m = b % m
  PROVE  a = b
<1>. DEFINE k == a \div m
            s == a % m
            j == b \div m
<1>1. k \in Int /\ s \in 0..m - 1 /\ a = m * k + s
  BY DivMod
<1>2. j \in Int /\ b = m * j + s
  BY DivMod
<1>. HIDE DEF k, s, j
<1>3. m * (j - k) = b - a
  BY <1>1, <1>2
<1>4. j - k = 0
  BY <1>1, <1>2, <1>3, SmallMultiple
<1>. QED BY <1>1, <1>2, <1>4

\* The difference of two wrapped counters.
LEMMA ModMinus ==
  ASSUME NEW m \in Nat \ {0}, NEW a \in Int, NEW b \in Int, b - a \in 0..m - 1
  PROVE  ((b % m) + m - (a % m)) % m = b - a
<1>. DEFINE k == a \div m
            s == a % m
            j == b \div m
            t == b % m
<1>1. k \in Int /\ s \in 0..m - 1 /\ a = m * k + s
  BY DivMod
<1>2. j \in Int /\ t \in 0..m - 1 /\ b = m * j + t
  BY DivMod
<1>. HIDE DEF k, s, j, t
<1>. DEFINE q == 1 + k - j
            d == b - a
            e == t + m - s
<1>3. e = m * q + d /\ q \in Int /\ e \in Int /\ d \in 0..m - 1
  BY <1>1, <1>2
<1>. HIDE DEF q, d, e
<1>4. e % m = d
  BY <1>3, ModIs
<1>. QED BY <1>4 DEF s, t, d, e

-----------------------------------------------------------------------------
LOCAL INSTANCE WellFoundedInduction

\* A set of numbers has a lowest member: the first free descriptor, the last
\* unused buffer.
LEMMA Least ==
  ASSUME NEW S, S \subseteq Nat, S # {}
  PROVE  \E x \in S : \A y \in S : x <= y
<1>. DEFINE R == {ss \in Nat \X Nat : ss[1] < ss[2]}
<1>1. IsWellFoundedOn(R, Nat)
  BY NatLessThanWellFounded, Zenon DEF OpToRel
<1>. HIDE DEF R
<1>2. PICK x \in S : \A y \in S : ~(<<y, x>> \in R)
  BY <1>1, WFMin, Zenon
<1>3. ASSUME NEW y \in S PROVE x <= y
  <2>1. ~(<<y, x>> \in R)
    BY <1>2
  <2>. QED BY <2>1 DEF R
<1>. QED BY <1>3
=============================================================================
