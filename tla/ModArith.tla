------------------------------ MODULE ModArith ------------------------------
(***************************************************************************)
(* Facts about the remainder by an arbitrary positive number, used for the *)
(* slot index position % size of the trigger FIFO.                         *)
(***************************************************************************)
EXTENDS Integers, TLAPS

\* Division with remainder.
LEMMA DivMod ==
  ASSUME NEW n \in Nat \ {0}, NEW p \in Nat
  PROVE  p = (n * (p \div n)) + (p % n) /\ p \div n \in Int /\ p % n \in 0 .. n - 1
OBVIOUS

\* The only multiple of n in 0 .. n - 1 is zero.
LEMMA SmallMultiple ==
  ASSUME NEW n \in Nat \ {0}, NEW k \in Int, 0 <= n * k, n * k < n
  PROVE  k = 0
<1>1. CASE k >= 1
  <2>1. n * k >= n
    BY <1>1
  <2>. QED
    BY <2>1
<1>2. CASE k <= -1
  <2>1. n * k <= -n
    BY <1>2
  <2>. QED
    BY <2>1
<1>. QED
  BY <1>1, <1>2

\* Two positions less than n apart have different remainders.
LEMMA ModInjective ==
  ASSUME NEW n \in Nat \ {0}, NEW p \in Nat, NEW q \in Nat,
         p % n = q % n, p <= q, q < p + n
  PROVE  p = q
<1> DEFINE a == p \div n
           b == q \div n
<1>1. p = (n * a) + (p % n) /\ a \in Int
  BY DivMod
<1>2. q = (n * b) + (q % n) /\ b \in Int
  BY DivMod
<1> HIDE DEF a, b
<1>3. q - p = n * (b - a)
  BY <1>1, <1>2
<1>4. b - a = 0
  BY <1>1, <1>2, <1>3, SmallMultiple
<1>. QED
  BY <1>1, <1>2, <1>3, <1>4

\* The remainder is the only r in 0 .. n - 1 with p - r a multiple of n.
LEMMA ModUnique ==
  ASSUME NEW n \in Nat \ {0}, NEW k \in Int, NEW r \in 0 .. n - 1, NEW p \in Nat,
         p = (n * k) + r
  PROVE  p % n = r
<1> DEFINE a == p \div n
           s == p % n
<1>1. p = (n * a) + s /\ a \in Int /\ s \in 0 .. n - 1
  BY DivMod, Zenon
<1> HIDE DEF a, s
<1>2. s - r = n * (k - a) /\ r - s = n * (a - k)
  BY <1>1
<1>3. CASE s >= r
  <2>1. k - a = 0
    BY <1>1, <1>2, <1>3, SmallMultiple
  <2>. QED
    BY <1>1, <1>2, <2>1 DEF s
<1>4. CASE r >= s
  <2>1. a - k = 0
    BY <1>1, <1>2, <1>4, SmallMultiple
  <2>. QED
    BY <1>1, <1>2, <2>1 DEF s
<1>. QED
  BY <1>1, <1>3, <1>4

\* Going once around the ring comes back to the same slot.
LEMMA ModWrap ==
  ASSUME NEW n \in Nat \ {0}, NEW p \in Nat
  PROVE  (p + n) % n = p % n
<1> DEFINE a == p \div n
           s == p % n
<1>1. p = (n * a) + s /\ a \in Int /\ s \in 0 .. n - 1
  BY DivMod
<1> HIDE DEF a, s
<1>2. p + n = (n * (a + 1)) + s
  BY <1>1
<1>3. (p + n) % n = s
  BY <1>1, <1>2, ModUnique
<1>. QED
  BY <1>3 DEF s
=============================================================================
