----------------------------- MODULE Arithmetic -----------------------------
(***************************************************************************)
(* Division with remainder: the lemmas that the proofs about words, bytes, *)
(* bits and file offsets share.                                            *)
(***************************************************************************)
EXTENDS Integers, TLAPS

\* Quotient and remainder.
LEMMA DivMod ==
  ASSUME NEW x \in Int, NEW n \in Nat \ {0}
  PROVE  /\ x \div n \in Int /\ x % n \in 0 .. n - 1
         /\ x = n * (x \div n) + (x % n)
  OBVIOUS

\* There is one quotient and one remainder.
LEMMA DivModUnique ==
  ASSUME NEW n \in Nat \ {0}, NEW q \in Int, NEW m \in 0 .. n - 1,
         NEW x \in Int, x = n * q + m
  PROVE  x \div n = q /\ x % n = m
  <1> DEFINE d == x \div n
             k == x % n
  <1>1. d \in Int /\ k \in 0 .. n - 1 /\ x = n * d + k BY DivMod
  <1> HIDE DEF d, k
  <1>2. n * (d - q) = m - k
    <2>1. n * (d - q) = n * d - n * q BY <1>1
    <2> QED BY <1>1, <2>1
  <1>3. ~(d - q >= 1)
    <2> SUFFICES ASSUME d - q >= 1 PROVE FALSE OBVIOUS
    <2>1. n * (d - q) >= n BY <1>1
    <2> QED BY <1>1, <1>2, <2>1
  <1>4. ~(d - q <= -1)
    <2> SUFFICES ASSUME d - q <= -1 PROVE FALSE OBVIOUS
    <2>1. n * (d - q) <= -n BY <1>1
    <2> QED BY <1>1, <1>2, <2>1
  <1>5. d = q BY <1>1, <1>3, <1>4
  <1>6. k = m BY <1>1, <1>2, <1>5
  <1> QED BY <1>5, <1>6 DEF d, k

\* Whole turns do not show in a remainder.
LEMMA ModTurns ==
  ASSUME NEW n \in Nat \ {0}, NEW x \in 0 .. n - 1, NEW q \in Int
  PROVE  (x + n * q) % n = x
  BY DivModUnique

\* A remainder is what is left of any integer that differs by whole turns.
LEMMA ModShift ==
  ASSUME NEW n \in Nat \ {0}, NEW x \in Int, NEW q \in Int
  PROVE  (x + n * q) % n = x % n
  <1> DEFINE d == x \div n
             m == x % n
  <1>1. d \in Int /\ m \in 0 .. n - 1 /\ x = n * d + m BY DivMod
  <1> HIDE DEF d, m
  <1>2. x + n * q = n * (d + q) + m
    <2>1. n * (d + q) = n * d + n * q BY <1>1
    <2> QED BY <1>1, <2>1
  <1>3. d + q \in Int /\ x + n * q \in Int BY <1>1
  <1>4. (x + n * q) % n = m BY <1>1, <1>2, <1>3, DivModUnique
  <1> QED BY <1>4 DEF m

\* A remainder may be taken early.
LEMMA ModPlus ==
  ASSUME NEW n \in Nat \ {0}, NEW x \in Int, NEW y \in Int
  PROVE  ((x % n) + y) % n = (x + y) % n
  <1> DEFINE d == x \div n
             m == x % n
  <1>1. d \in Int /\ m \in Int /\ x = n * d + m BY DivMod
  <1> HIDE DEF d, m
  <1>2. x + y = (m + y) + n * d /\ m + y \in Int BY <1>1
  <1>3. ((m + y) + n * d) % n = (m + y) % n BY <1>1, <1>2, ModShift
  <1> QED BY <1>2, <1>3 DEF m

\* What is below the modulus is its own remainder.
LEMMA ModSmall ==
  ASSUME NEW n \in Nat \ {0}, NEW x \in 0 .. n - 1
  PROVE  x % n = x /\ x \div n = 0
  OBVIOUS

\* A remainder by a multiple decides the remainder.
LEMMA ModMod ==
  ASSUME NEW a \in Nat \ {0}, NEW b \in Nat \ {0}, NEW x \in Int
  PROVE  (x % (a * b)) % a = x % a
  <1> DEFINE n == a * b
             d == x \div n
             m == x % n
  <1>0. n = a * b OBVIOUS
  <1>1. n \in Nat \ {0} OBVIOUS
  <1> HIDE DEF n
  <1>2. d \in Int /\ m \in Int /\ x = n * d + m BY <1>1, DivMod
  <1> HIDE DEF d, m
  <1>3. n * d = a * (b * d) BY <1>0, <1>2
  <1>4. b * d \in Int /\ x = m + a * (b * d) BY <1>2, <1>3
  <1>5. x % a = m % a BY <1>2, <1>4, ModShift
  <1> QED BY <1>5 DEF m, n

\* Dividing twice is dividing by the product.
LEMMA DivDiv ==
  ASSUME NEW a \in Nat \ {0}, NEW b \in Nat \ {0}, NEW x \in Int
  PROVE  (x \div a) \div b = x \div (a * b)
  <1> DEFINE q == x \div a
             m == x % a
             p == q \div b
             k == q % b
  <1>1. q \in Int /\ m \in 0 .. a - 1 /\ x = a * q + m BY DivMod
  <1>2. p \in Int /\ k \in 0 .. b - 1 /\ q = b * p + k
    <2> HIDE DEF q
    <2> QED BY <1>1, DivMod
  <1> HIDE DEF q, m, p, k
  <1>3. x = (a * b) * p + (a * k + m)
    <2>1. a * q = a * (b * p) + a * k BY <1>1, <1>2
    <2>2. a * (b * p) = (a * b) * p BY <1>2
    <2> QED BY <1>1, <1>2, <2>1, <2>2
  <1>4. a * k + m \in 0 .. (a * b) - 1
    <2>1. a * k >= 0 /\ a * k \in Int BY <1>2
    <2>2. a * k <= a * (b - 1) BY <1>2
    <2>3. a * (b - 1) = (a * b) - a OBVIOUS
    <2> QED BY <1>1, <2>1, <2>2, <2>3
  <1>5. a * b \in Nat \ {0} OBVIOUS
  <1>6. x \div (a * b) = p BY <1>2, <1>3, <1>4, <1>5, DivModUnique
  <1> QED BY <1>6 DEF p, q

\* A digit may be cut out from the left or from the right first.
LEMMA ModDiv ==
  ASSUME NEW a \in Nat \ {0}, NEW b \in Nat \ {0}, NEW x \in Int
  PROVE  (x % (a * b)) \div a = (x \div a) % b
  <1> DEFINE n == a * b
             d == x \div n
             m == x % n
             q == m \div a
             k == m % a
  <1>0. n \in Nat \ {0} /\ n = a * b OBVIOUS
  <1> HIDE DEF n
  <1>1. d \in Int /\ m \in 0 .. n - 1 /\ x = n * d + m BY <1>0, DivMod
  <1>2. q \in Int /\ k \in 0 .. a - 1 /\ m = a * q + k
    <2>1. m \in Int BY <1>0, <1>1
    <2> HIDE DEF m
    <2> QED BY <2>1, DivMod
  <1> HIDE DEF d, m, q, k
  <1>3. n * d = a * (b * d) BY <1>0, <1>1
  <1>4. n = a * b BY <1>0
  <1>5. x = a * (b * d + q) + k
    <2>1. b * d \in Int BY <1>1
    <2>2. a * (b * d + q) = a * (b * d) + a * q BY <1>2, <2>1
    <2> QED BY <1>1, <1>2, <1>3, <2>2
  <1>6. x \div a = b * d + q
    <2>1. b * d + q \in Int BY <1>1, <1>2
    <2> QED BY <1>2, <1>5, <2>1, DivModUnique
  <1>7. q \in 0 .. b - 1
    <2>1. ~(q <= -1)
      <3> SUFFICES ASSUME q <= -1 PROVE FALSE OBVIOUS
      <3>1. a * q <= -a BY <1>2
      <3> QED BY <1>0, <1>1, <1>2, <3>1
    <2>2. ~(q >= b)
      <3> SUFFICES ASSUME q >= b PROVE FALSE OBVIOUS
      <3>1. a * q >= a * b BY <1>2
      <3> QED BY <1>0, <1>1, <1>2, <1>4, <3>1
    <2> QED BY <1>2, <2>1, <2>2
  <1>8. (x \div a) % b = q
    <2>1. b * d + q \in Int BY <1>1, <1>2
    <2> QED BY <1>1, <1>6, <1>7, <2>1, DivModUnique
  <1> QED BY <1>8 DEF q, m, n
=============================================================================
