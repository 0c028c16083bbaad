------------------------- MODULE AdvancedSHEProofs --------------------------
(***************************************************************************)
(* What AdvancedSHE promises, for every ring dimension, plaintext modulus, *)
(* vector, index and number of ciphertexts: rotations, sums, merges and    *)
(* products of packed vectors are what the documentation says, and the     *)
(* keys that EvalSumKeyGen makes serve every sum.                          *)
(***************************************************************************)
EXTENDS AdvancedSHE, FiniteSetTheorems, WellFoundedInduction, TLAPS

-----------------------------------------------------------------------------
(* Arithmetic modulo a number d.                                           *)

(* A remainder, and the quotient it belongs to.                            *)
LEMMA ModIs ==
  ASSUME NEW d \in Nat \ {0}, NEW x \in Int
  PROVE  x % d \in 0..(d - 1) /\ \E q \in Int : x = q * d + (x % d)
<1>1. x % d \in 0..(d - 1) /\ x = d * (x \div d) + (x % d)
  OBVIOUS
<1>2. x \div d \in Int /\ d * (x \div d) = (x \div d) * d
  OBVIOUS
<1> QED
  BY <1>1, <1>2

(* There is one such remainder.                                            *)
LEMMA ModUnique ==
  ASSUME NEW d \in Nat \ {0}, NEW x \in Int, NEW q \in Int,
         NEW r \in 0..(d - 1), x = q * d + r
  PROVE  x % d = r
<1>1. PICK p \in Int : x = p * d + (x % d)
  BY ModIs
<1>2. PICK s \in 0..(d - 1) : s = x % d
  BY ModIs
<1>3. PICK k \in Int : k = p - q
  OBVIOUS
<1>4. k * d = r - s
  <2>1. k * d = p * d - q * d
    BY <1>3
  <2>2. p * d + s = q * d + r
    BY <1>1, <1>2
  <2> QED
    BY <2>1, <2>2
<1>5. k = 0
  <2>1. ASSUME k >= 1 PROVE FALSE
    <3>1. k * d >= d
      BY <2>1
    <3> QED
      BY <3>1, <1>2, <1>4
  <2>2. ASSUME k <= -1 PROVE FALSE
    <3>1. k * d <= -d
      BY <2>2
    <3> QED
      BY <3>1, <1>2, <1>4
  <2> QED
    BY <2>1, <2>2
<1>6. r = s
  BY <1>2, <1>4, <1>5
<1> QED
  BY <1>2, <1>6

(* Multiples of the modulus do not matter.                                 *)
LEMMA ModShift ==
  ASSUME NEW d \in Nat \ {0}, NEW x \in Int, NEW k \in Int
  PROVE  (x + k * d) % d = x % d
<1>1. PICK q \in Int : x = q * d + (x % d)
  BY ModIs
<1>2. PICK r \in 0..(d - 1) : r = x % d
  BY ModIs
<1>3. x + k * d \in Int /\ q + k \in Int
  OBVIOUS
<1>4. x + k * d = (q + k) * d + r
  BY <1>1, <1>2
<1> QED
  BY <1>2, <1>3, <1>4, ModUnique

(* A number below d is its own remainder.                                  *)
LEMMA ModSmall ==
  ASSUME NEW d \in Nat \ {0}, NEW x \in 0..(d - 1)
  PROVE  x % d = x
<1>1. x \in Int /\ 0 \in Int /\ x = 0 * d + x
  OBVIOUS
<1> QED
  BY <1>1, ModUnique

(* Two numbers have one remainder if they differ by a multiple.            *)
LEMMA ModSame ==
  ASSUME NEW d \in Nat \ {0}, NEW x \in Int, NEW y \in Int
  PROVE  x % d = y % d <=> \E q \in Int : x = y + q * d
<1>1. ASSUME NEW q \in Int, x = y + q * d PROVE x % d = y % d
  BY <1>1, ModShift
<1>2. ASSUME x % d = y % d PROVE \E q \in Int : x = y + q * d
  <2>1. PICK p \in Int : x = p * d + (x % d)
    BY ModIs
  <2>2. PICK q \in Int : y = q * d + (y % d)
    BY ModIs
  <2>3. PICK r \in Int : r = x % d
    BY ModIs
  <2>4. p - q \in Int /\ x = y + (p - q) * d
    BY <2>1, <2>2, <2>3, <1>2
  <2> QED
    BY <2>4
<1> QED
  BY <1>1, <1>2

(* An operand of a sum or a product may be reduced first.                  *)
LEMMA ModLeft ==
  ASSUME NEW d \in Nat \ {0}, NEW a \in Int, NEW b \in Int
  PROVE  /\ ((a % d) + b) % d = (a + b) % d
         /\ ((a % d) * b) % d = (a * b) % d
         /\ a % d \in Int
<1>1. PICK q \in Int : a = q * d + (a % d)
  BY ModIs
<1>2. PICK r \in Int : r = a % d
  BY ModIs
<1>3. a + b = (r + b) + q * d /\ r + b \in Int
  BY <1>1, <1>2
<1>4. a * b = r * b + (q * b) * d /\ r * b \in Int /\ q * b \in Int
  <2>1. a = q * d + r
    BY <1>1, <1>2
  <2> QED
    BY <2>1
<1>5. ((r + b) + q * d) % d = (r + b) % d
  BY <1>3, ModShift
<1>6. (r * b + (q * b) * d) % d = (r * b) % d
  BY <1>4, ModShift
<1> QED
  BY <1>2, <1>3, <1>4, <1>5, <1>6

(* The operands of a sum or a product can be reduced first.                *)
LEMMA ModBoth ==
  ASSUME NEW d \in Nat \ {0}, NEW a \in Int, NEW b \in Int
  PROVE  /\ ((a % d) + (b % d)) % d = (a + b) % d
         /\ ((a % d) * (b % d)) % d = (a * b) % d
<1>1. PICK r \in Int : r = b % d
  BY ModLeft
<1>2. ((a % d) + r) % d = (a + r) % d /\ ((a % d) * r) % d = (a * r) % d
  BY ModLeft
<1>3. (r + a) % d = (b + a) % d /\ (r * a) % d = (b * a) % d
  BY <1>1, ModLeft
<1>4. a + r = r + a /\ a * r = r * a /\ a + b = b + a /\ a * b = b * a
  OBVIOUS
<1> QED
  BY <1>1, <1>2, <1>3, <1>4

(* A remainder modulo a multiple of d says what the one modulo d is.       *)
LEMMA ModOfMultiple ==
  ASSUME NEW d \in Nat \ {0}, NEW k \in Nat \ {0}, NEW x \in Int
  PROVE  (x % (k * d)) % d = x % d
<1>1. k * d \in Nat \ {0}
  OBVIOUS
<1>2. PICK q \in Int : x = q * (k * d) + (x % (k * d))
  BY <1>1, ModIs
<1>3. PICK r \in Int : r = x % (k * d)
  BY <1>1, ModIs
<1>4. PICK j \in Int : j = q * k
  OBVIOUS
<1>5. x = r + j * d
  <2>1. x = q * (k * d) + r
    BY <1>2, <1>3
  <2> QED
    BY <2>1, <1>4
<1>6. (r + j * d) % d = r % d
  BY ModShift
<1> QED
  BY <1>3, <1>5, <1>6

(* Equal remainders stay equal.                                            *)
LEMMA ModKept ==
  ASSUME NEW d \in Nat \ {0}, NEW x \in Int, NEW y \in Int, NEW z \in Int,
         x % d = y % d
  PROVE  /\ (x * z) % d = (y * z) % d /\ (z * x) % d = (z * y) % d
         /\ (- x) % d = (- y) % d
<1>1. PICK q \in Int : x = y + q * d
  BY ModSame
<1>2. PICK a \in Int, b \in Int, p \in Int :
        a = x * z /\ b = y * z /\ p = q * z
  OBVIOUS
<1>3. PICK u \in Int, v \in Int, w \in Int :
        u = - x /\ v = - y /\ w = - q
  OBVIOUS
<1>4. a = b + p * d /\ u = v + w * d
  BY <1>1, <1>2, <1>3
<1>5. a % d = b % d /\ u % d = v % d
  BY <1>4, ModSame
<1>6. z * x = x * z /\ z * y = y * z
  OBVIOUS
<1> QED
  BY <1>2, <1>3, <1>5, <1>6

-----------------------------------------------------------------------------
(* Induction and recursion over the naturals, in forms without operator    *)
(* parameters.                                                             *)

(* A set of naturals that is not empty has a least element.                *)
LEMMA HasLeast ==
  ASSUME NEW T, T \in SUBSET Nat, T # {}
  PROVE  \E k \in T : \A j \in T : k <= j
<1>1. PICK k \in T : \A j \in T : ~ (<<j, k>> \in OpToRel(<, Nat))
  BY NatLessThanWellFounded, WFMin
<1>2. \A j \in T : <<j, k>> \in Nat \X Nat
  OBVIOUS
<1>3. \A j \in T : ~ (j < k)
  BY <1>1, <1>2 DEF OpToRel
<1> QED
  BY <1>3

(* So one that holds 0, and with every number the next, holds them all.    *)
LEMMA Induction ==
  ASSUME NEW T, 0 \in T, \A k \in Nat : k \in T => k + 1 \in T
  PROVE  Nat \subseteq T
<1> SUFFICES ASSUME NEW k \in Nat, k \notin T
             PROVE  FALSE
  OBVIOUS
<1> DEFINE U == {j \in Nat : j \notin T}
<1>1. U \in SUBSET Nat /\ U # {}
  OBVIOUS
<1> HIDE DEF U
<1>2. PICK j \in U : \A i \in U : j <= i
  BY <1>1, HasLeast
<1>3. j \in Nat /\ j # 0
  BY <1>2 DEF U
<1>4. j - 1 \in Nat /\ j - 1 \notin U
  BY <1>2, <1>3
<1>5. (j - 1) + 1 \in T
  BY <1>4 DEF U
<1> QED
  BY <1>2, <1>3, <1>5 DEF U

(* The first values, up to k, of a function defined by recursion.          *)
Table(f, k, S, e, D) ==
  /\ f \in [0..k -> S] /\ f[0] = e
  /\ \A j \in 1..k : f[j] = D[<<f[j - 1], j>>]

(* Every recursion has such values.                                        *)
LEMMA TableExists ==
  ASSUME NEW S, NEW e \in S, NEW D \in [S \X Nat -> S], NEW k \in Nat
  PROVE  \E f : Table(f, k, S, e, D)
<1> DEFINE T == {i \in Nat : \E f : Table(f, i, S, e, D)}
<1>1. 0 \in T
  <2>1. Table([j \in 0..0 |-> e], 0, S, e, D)
    BY DEF Table
  <2> QED
    BY <2>1
<1>2. ASSUME NEW i \in Nat, i \in T
      PROVE  i + 1 \in T
  <2>1. PICK f : Table(f, i, S, e, D)
    BY <1>2
  <2> DEFINE g == [j \in 0..(i + 1) |->
                     IF j <= i THEN f[j] ELSE D[<<f[i], i + 1>>]]
  <2>2. f[i] \in S /\ \A j \in 0..i : f[j] \in S
    BY <2>1 DEF Table
  <2>3. D[<<f[i], i + 1>>] \in S
    BY <2>2
  <2>4. g \in [0..(i + 1) -> S] /\ g[0] = e
    BY <2>1, <2>2, <2>3 DEF Table
  <2>5. ASSUME NEW j \in 1..(i + 1)
        PROVE  g[j] = D[<<g[j - 1], j>>]
    <3>1. CASE j <= i
      BY <3>1, <2>1 DEF Table
    <3>2. CASE j = i + 1
      <4>1. g[j] = D[<<f[i], i + 1>>] /\ g[j - 1] = f[i]
        BY <3>2
      <4> QED
        BY <4>1, <3>2
    <3> QED
      BY <3>1, <3>2
  <2> HIDE DEF g
  <2>6. Table(g, i + 1, S, e, D)
    BY <2>4, <2>5 DEF Table
  <2> QED
    BY <2>6
<1> HIDE DEF T
<1>3. k \in T
  BY <1>1, <1>2, Induction
<1> QED
  BY <1>3 DEF T

(* And only one choice of them.                                            *)
LEMMA TableUnique ==
  ASSUME NEW S, NEW e \in S, NEW D \in [S \X Nat -> S],
         NEW k \in Nat, NEW i \in Nat, i <= k,
         NEW f, NEW g, Table(f, k, S, e, D), Table(g, i, S, e, D)
  PROVE  \A j \in 0..i : f[j] = g[j]
<1> DEFINE T == {j \in Nat : j <= i => f[j] = g[j]}
<1>1. 0 \in T
  BY DEF Table
<1>2. ASSUME NEW j \in Nat, j \in T
      PROVE  j + 1 \in T
  <2> SUFFICES ASSUME j + 1 <= i
               PROVE  f[j + 1] = g[j + 1]
    OBVIOUS
  <2>1. f[j] = g[j] /\ j + 1 \in 1..i /\ j + 1 \in 1..k /\ (j + 1) - 1 = j
    BY <1>2
  <2>2. /\ f[j + 1] = D[<<f[(j + 1) - 1], j + 1>>]
        /\ g[j + 1] = D[<<g[(j + 1) - 1], j + 1>>]
    BY <2>1 DEF Table
  <2> QED
    BY <2>1, <2>2
<1> HIDE DEF T
<1>3. Nat \subseteq T
  BY <1>1, <1>2, Induction
<1> QED
  BY <1>3 DEF T

(* The function that a recursion over the naturals defines.                *)
Recurs(f, S, e, D) ==
  /\ f \in [Nat -> S] /\ f[0] = e
  /\ \A k \in Nat : f[k + 1] = D[<<f[k], k + 1>>]

(* So there is the whole function.                                         *)
LEMMA Recursion ==
  ASSUME NEW S, NEW e \in S, NEW D \in [S \X Nat -> S]
  PROVE  \E f : Recurs(f, S, e, D)
<1> DEFINE F(k) == CHOOSE f : Table(f, k, S, e, D)
           f == [k \in Nat |-> F(k)[k]]
<1>1. \A k \in Nat : Table(F(k), k, S, e, D)
  BY TableExists
<1> HIDE DEF F
<1>2. f \in [Nat -> S] /\ f[0] = e
  BY <1>1 DEF Table
<1>3. ASSUME NEW k \in Nat
      PROVE  f[k + 1] = D[<<f[k], k + 1>>]
  <2>1. /\ Table(F(k + 1), k + 1, S, e, D) /\ Table(F(k), k, S, e, D)
        /\ k + 1 \in Nat /\ k <= k + 1 /\ k \in 0..k
    BY <1>1
  <2>2. F(k + 1)[k] = F(k)[k]
    <3> DEFINE g == F(k + 1)
               h == F(k)
               l == k + 1
    <3>1. /\ l \in Nat /\ k <= l /\ Table(g, l, S, e, D)
          /\ Table(h, k, S, e, D)
      BY <2>1
    <3> HIDE DEF g, h, l
    <3>2. \A j \in 0..k : g[j] = h[j]
      BY <3>1, TableUnique
    <3> QED
      BY <3>2, <2>1 DEF g, h
  <2>3. F(k + 1)[k + 1] = D[<<F(k + 1)[(k + 1) - 1], k + 1>>]
    BY <2>1 DEF Table
  <2>4. (k + 1) - 1 = k
    OBVIOUS
  <2> QED
    BY <2>2, <2>3, <2>4
<1> HIDE DEF f
<1> QED
  BY <1>2, <1>3 DEF Recurs

-----------------------------------------------------------------------------
(* Powers of two.                                                          *)

(* The powers of two are what their recursion says, and positive.          *)
LEMMA TwoToIs ==
  /\ TwoTo[0] = 1 /\ TwoTo \in [Nat -> Nat \ {0}]
  /\ \A k \in Nat : TwoTo[k + 1] = 2 * TwoTo[k]
<1> DEFINE S == Nat \ {0}
           D == [p \in S \X Nat |-> 2 * p[1]]
<1>1. 1 \in S /\ D \in [S \X Nat -> S]
  OBVIOUS
<1>2. \A x \in S, k \in Nat : D[<<x, k>>] = 2 * x
  OBVIOUS
<1> HIDE DEF D
<1>3. PICK f : Recurs(f, S, 1, D)
  <2> HIDE DEF S
  <2> QED
    BY <1>1, Recursion
<1>4. \A k \in Nat : f[k] = IF k = 0 THEN 1 ELSE 2 * f[k - 1]
  <2> SUFFICES ASSUME NEW k \in Nat, k # 0
               PROVE  f[k] = 2 * f[k - 1]
    BY <1>3 DEF Recurs
  <2>1. k - 1 \in Nat /\ (k - 1) + 1 = k
    OBVIOUS
  <2>2. f[(k - 1) + 1] = D[<<f[k - 1], (k - 1) + 1>>]
    BY <2>1, <1>3 DEF Recurs
  <2>3. f[k - 1] \in S
    BY <2>1, <1>3 DEF Recurs
  <2> QED
    BY <2>1, <2>2, <2>3, <1>2
<1>5. f = [k \in Nat |-> IF k = 0 THEN 1 ELSE 2 * f[k - 1]]
  BY <1>3, <1>4 DEF Recurs
<1>6. TwoTo = [k \in Nat |-> IF k = 0 THEN 1 ELSE 2 * TwoTo[k - 1]]
  BY <1>5 DEF TwoTo
<1>7. TwoTo[0] = 1 /\ \A k \in Nat : TwoTo[k + 1] = 2 * TwoTo[k]
  <2>1. \A k \in Nat : k + 1 \in Nat /\ k + 1 # 0 /\ (k + 1) - 1 = k
    OBVIOUS
  <2> QED
    BY <1>6, <2>1
<1> DEFINE T == {k \in Nat : TwoTo[k] \in Nat \ {0}}
<1>8. 0 \in T /\ \A k \in Nat : k \in T => k + 1 \in T
  BY <1>7
<1> HIDE DEF T
<1>9. Nat \subseteq T
  BY <1>8, Induction
<1>10. TwoTo \in [Nat -> Nat \ {0}]
  BY <1>6, <1>9 DEF T
<1> QED
  BY <1>7, <1>10

(* Twice a power, and twice that.                                          *)
LEMMA TwoToNext ==
  ASSUME NEW k \in Nat
  PROVE  /\ TwoTo[k] \in Nat \ {0} /\ TwoTo[k + 1] = 2 * TwoTo[k]
         /\ TwoTo[k + 2] = 4 * TwoTo[k] /\ TwoTo[k + 3] = 8 * TwoTo[k]
<1>1. /\ k + 1 \in Nat /\ k + 2 \in Nat
      /\ k + 2 = (k + 1) + 1 /\ k + 3 = (k + 2) + 1
  OBVIOUS
<1>2. /\ TwoTo[k] \in Nat \ {0} /\ TwoTo[k + 1] = 2 * TwoTo[k]
      /\ TwoTo[(k + 1) + 1] = 2 * TwoTo[k + 1]
      /\ TwoTo[(k + 2) + 1] = 2 * TwoTo[k + 2]
  BY <1>1, TwoToIs
<1> QED
  BY <1>1, <1>2

(* A power of two that divides a product with an odd number divides the    *)
(* other number.                                                           *)
LEMMA OddCancels ==
  \A a \in Nat : \A y, u, q \in Int :
    y * (2 * u + 1) = q * TwoTo[a] => \E z \in Int : y = z * TwoTo[a]
<1> DEFINE T == {a \in Nat : \A y, u, q \in Int :
                   y * (2 * u + 1) = q * TwoTo[a]
                     => \E z \in Int : y = z * TwoTo[a]}
<1>1. 0 \in T
  <2>1. \A y \in Int : y = y * TwoTo[0]
    BY TwoToIs
  <2> QED
    BY <2>1
<1>2. ASSUME NEW a \in Nat, a \in T
      PROVE  a + 1 \in T
  <2> SUFFICES ASSUME NEW y \in Int, NEW u \in Int, NEW q \in Int,
                      y * (2 * u + 1) = q * TwoTo[a + 1]
               PROVE  \E z \in Int : y = z * TwoTo[a + 1]
    OBVIOUS
  <2>1. PICK p \in Nat \ {0} : p = TwoTo[a] /\ TwoTo[a + 1] = 2 * p
    BY TwoToNext
  <2>2. y * (2 * u + 1) = 2 * (q * p)
    BY <2>1
  <2>3. y = 2 * ((q * p) - (y * u))
    BY <2>2
  <2>4. PICK v \in Int : v = (q * p) - (y * u)
    BY <2>1
  <2>5. y = 2 * v
    BY <2>3, <2>4
  <2>6. v * (2 * u + 1) = q * p
    BY <2>2, <2>5
  <2>7. PICK z \in Int : v = z * p
    BY <2>1, <2>6, <1>2
  <2>8. y = z * (2 * p)
    BY <2>5, <2>7
  <2> QED
    BY <2>1, <2>8
<1> HIDE DEF T
<1>3. Nat \subseteq T
  BY <1>1, <1>2, Induction
<1> QED
  BY <1>3 DEF T

-----------------------------------------------------------------------------
(* Powers, and the powers of 5 modulo powers of two.                       *)

(* Powers as a function of the exponent.                                   *)
Exp(g) == CHOOSE f : Recurs(f, Int, 1, [p \in Int \X Nat |-> p[1] * g])

(* The recursion of powers.                                                *)
LEMMA ExpIs ==
  ASSUME NEW g \in Int
  PROVE  /\ Exp(g) \in [Nat -> Int] /\ Exp(g)[0] = 1
         /\ \A k \in Nat : Exp(g)[k + 1] = Exp(g)[k] * g
<1> DEFINE D == [p \in Int \X Nat |-> p[1] * g]
<1>1. D \in [Int \X Nat -> Int] /\ 1 \in Int
  OBVIOUS
<1>2. \A x \in Int, k \in Nat : D[<<x, k>>] = x * g
  OBVIOUS
<1>3. Recurs(Exp(g), Int, 1, D)
  <2> HIDE DEF D
  <2>1. \E f : Recurs(f, Int, 1, D)
    BY <1>1, Recursion
  <2> QED
    BY <2>1 DEF Exp, D
<1> HIDE DEF D
<1>4. /\ Exp(g) \in [Nat -> Int] /\ Exp(g)[0] = 1
      /\ \A k \in Nat : Exp(g)[k + 1] = D[<<Exp(g)[k], k + 1>>]
  BY <1>3 DEF Recurs
<1>5. ASSUME NEW k \in Nat PROVE Exp(g)[k + 1] = Exp(g)[k] * g
  <2>1. Exp(g)[k] \in Int /\ k + 1 \in Nat
    BY <1>4
  <2> QED
    BY <2>1, <1>2, <1>4
<1> QED
  BY <1>4, <1>5

(* Exponents of a product add up.                                          *)
LEMMA ExpSum ==
  ASSUME NEW g \in Int, NEW a \in Nat
  PROVE  \A b \in Nat : Exp(g)[a + b] = Exp(g)[a] * Exp(g)[b]
<1> DEFINE T == {b \in Nat : Exp(g)[a + b] = Exp(g)[a] * Exp(g)[b]}
<1>1. 0 \in T
  <2>1. Exp(g)[a] \in Int /\ a + 0 = a /\ Exp(g)[0] = 1
    BY ExpIs
  <2> QED
    BY <2>1
<1>2. ASSUME NEW b \in Nat, b \in T
      PROVE  b + 1 \in T
  <2>0. a + b \in Nat
    OBVIOUS
  <2>1. /\ Exp(g)[a] \in Int /\ Exp(g)[b] \in Int
        /\ Exp(g)[(a + b) + 1] = Exp(g)[a + b] * g
        /\ Exp(g)[b + 1] = Exp(g)[b] * g
    BY <2>0, ExpIs
  <2>2. (Exp(g)[a] * Exp(g)[b]) * g = Exp(g)[a] * (Exp(g)[b] * g)
    BY <2>1
  <2>3. a + (b + 1) = (a + b) + 1
    OBVIOUS
  <2> QED
    BY <2>1, <2>2, <2>3, <1>2
<1> HIDE DEF T
<1>3. Nat \subseteq T
  BY <1>1, <1>2, Induction
<1> QED
  BY <1>3 DEF T

(* The powers of 5.                                                        *)
Five == Exp(5)

(* The same of the powers of 5.                                            *)
LEMMA FiveIs ==
  /\ Five \in [Nat -> Int] /\ Five[0] = 1
  /\ \A k \in Nat : Five[k + 1] = Five[k] * 5
  /\ \A a, b \in Nat : Five[a + b] = Five[a] * Five[b]
<1>1. \A g \in Int : /\ Exp(g) \in [Nat -> Int] /\ Exp(g)[0] = 1
                     /\ \A k \in Nat : Exp(g)[k + 1] = Exp(g)[k] * g
                     /\ \A a, b \in Nat :
                          Exp(g)[a + b] = Exp(g)[a] * Exp(g)[b]
  BY ExpIs, ExpSum
<1>2. 5 \in Int
  OBVIOUS
<1> QED
  BY <1>1, <1>2, Zenon DEF Five

(* They are 1 modulo 4.                                                    *)
LEMMA FiveModFour ==
  \A k \in Nat : \E y \in Int : Five[k] = 1 + 4 * y
<1> DEFINE T == {k \in Nat : \E y \in Int : Five[k] = 1 + 4 * y}
<1>1. 0 \in T
  <2>1. Five[0] = 1 + 4 * 0 /\ 0 \in Int
    BY FiveIs
  <2> QED
    BY <2>1
<1>2. ASSUME NEW k \in Nat, k \in T
      PROVE  k + 1 \in T
  <2>1. PICK y \in Int : Five[k] = 1 + 4 * y
    BY <1>2
  <2>2. Five[k + 1] = Five[k] * 5
    BY FiveIs
  <2>3. PICK z \in Int : z = 5 * y + 1
    OBVIOUS
  <2>4. Five[k + 1] = 1 + 4 * z
    BY <2>1, <2>2, <2>3
  <2>5. k + 1 \in Nat
    OBVIOUS
  <2> QED
    BY <2>4, <2>5
<1> HIDE DEF T
<1>3. Nat \subseteq T
  BY <1>1, <1>2, Induction
<1> QED
  BY <1>3 DEF T

(* 5 to the power 2^a is 1 modulo 2^(a + 2).                               *)
LEMMA FiveReturns ==
  \A a \in Nat : \E q \in Int : Five[TwoTo[a]] = 1 + q * TwoTo[a + 2]
<1> DEFINE T == {a \in Nat : \E q \in Int :
                   Five[TwoTo[a]] = 1 + q * TwoTo[a + 2]}
<1>1. 0 \in T
  <2>1. TwoTo[0] = 1 /\ TwoTo[0 + 2] = 4
    BY TwoToNext, TwoToIs
  <2>2. Five[0 + 1] = 1 * 5
    BY FiveIs
  <2>3. Five[TwoTo[0]] = 1 + 1 * TwoTo[0 + 2]
    BY <2>1, <2>2
  <2> QED
    BY <2>3
<1>2. ASSUME NEW a \in Nat, a \in T
      PROVE  a + 1 \in T
  <2>1. PICK p \in Nat \ {0} :
          /\ p = TwoTo[a] /\ TwoTo[a + 1] = 2 * p /\ TwoTo[a + 2] = 4 * p
          /\ TwoTo[a + 3] = 8 * p
    BY TwoToNext
  <2>2. PICK q \in Int : Five[p] = 1 + q * (4 * p)
    BY <1>2, <2>1
  <2>3. Five[p + p] = Five[p] * Five[p]
    BY FiveIs
  <2>4. PICK r \in Int : r = q * p
    OBVIOUS
  <2>5. Five[p] = 1 + 4 * r
    BY <2>2, <2>4
  <2>6. Five[2 * p] = 1 + 8 * r + 16 * (r * r)
    <3>1. (1 + 4 * r) * (1 + 4 * r) = 1 + 8 * r + 16 * (r * r)
      OBVIOUS
    <3>2. p + p = 2 * p
      OBVIOUS
    <3> QED
      BY <2>3, <2>5, <3>1, <3>2
  <2>7. 8 * r + 16 * (r * r) = (q + 2 * (r * q)) * (8 * p)
    <3>1. r * r = (r * q) * p
      BY <2>4
    <3>2. (q + 2 * (r * q)) * (8 * p) = 8 * (q * p) + 16 * ((r * q) * p)
      OBVIOUS
    <3> QED
      BY <2>4, <3>1, <3>2
  <2>8. q + 2 * (r * q) \in Int /\ (a + 1) + 2 = a + 3
    OBVIOUS
  <2>9. Five[TwoTo[a + 1]] = 1 + (q + 2 * (r * q)) * TwoTo[(a + 1) + 2]
    BY <2>1, <2>6, <2>7, <2>8
  <2> QED
    BY <2>8, <2>9
<1> HIDE DEF T
<1>3. Nat \subseteq T
  BY <1>1, <1>2, Induction
<1> QED
  BY <1>3 DEF T

(* No smaller power is.                                                    *)
LEMMA FiveNotBefore ==
  \A a \in Nat : \A d \in 1..(TwoTo[a] - 1), q \in Int :
    Five[d] # 1 + q * TwoTo[a + 2]
<1> DEFINE T == {a \in Nat : \A d \in 1..(TwoTo[a] - 1), q \in Int :
                   Five[d] # 1 + q * TwoTo[a + 2]}
<1>1. 0 \in T
  BY TwoToIs
<1>2. ASSUME NEW a \in Nat, a \in T
      PROVE  a + 1 \in T
  <2> SUFFICES ASSUME NEW d \in 1..(TwoTo[a + 1] - 1), NEW q \in Int,
                      Five[d] = 1 + q * TwoTo[(a + 1) + 2]
               PROVE  FALSE
    OBVIOUS
  <2>1. PICK p \in Nat \ {0} :
          /\ p = TwoTo[a] /\ TwoTo[a + 1] = 2 * p /\ TwoTo[a + 2] = 4 * p
          /\ TwoTo[a + 3] = 8 * p
    BY TwoToNext
  <2>2. Five[d] = 1 + q * (8 * p)
    <3>1. (a + 1) + 2 = a + 3
      OBVIOUS
    <3> QED
      BY <2>1, <3>1
  <2>3. PICK e \in Nat : d = 2 * e \/ d = 2 * e + 1
    <3>1. d \in Int /\ d \in 1..(2 * p - 1)
      BY <2>1
    <3>2. d \div 2 \in Nat /\ (d = 2 * (d \div 2) \/ d = 2 * (d \div 2) + 1)
      BY <3>1
    <3> QED
      BY <3>2
  <2>4. PICK y \in Int : Five[e] = 1 + 4 * y
    BY FiveModFour
  <2>5. Five[2 * e] = 1 + 8 * y + 16 * (y * y)
    <3>1. Five[e + e] = Five[e] * Five[e]
      BY FiveIs
    <3>2. (1 + 4 * y) * (1 + 4 * y) = 1 + 8 * y + 16 * (y * y)
      OBVIOUS
    <3>3. e + e = 2 * e
      OBVIOUS
    <3> QED
      BY <2>4, <3>1, <3>2, <3>3
  <2>6. CASE d = 2 * e + 1
    <3>1. Five[2 * e + 1] = Five[2 * e] * 5
      BY FiveIs
    <3>2. 5 + 40 * y + 80 * (y * y) = 1 + 8 * (q * p)
      <4>1. q * (8 * p) = 8 * (q * p)
        OBVIOUS
      <4> QED
        BY <2>2, <2>5, <2>6, <3>1, <4>1
    <3>3. PICK u \in Int, v \in Int : u = y * y /\ v = q * p
      OBVIOUS
    <3> QED
      BY <3>2, <3>3
  <2>7. CASE d = 2 * e
    <3>1. e \in 1..(p - 1)
      BY <2>1, <2>7
    <3>2. y * (2 * y + 1) = q * p
      <4>1. 1 + 8 * y + 16 * (y * y) = 1 + 8 * (q * p)
        BY <2>2, <2>5, <2>7
      <4> QED
        BY <4>1
    <3>3. PICK z \in Int : y = z * p
      BY <3>2, <2>1, OddCancels
    <3>4. Five[e] = 1 + z * (4 * p)
      BY <2>4, <3>3
    <3> QED
      BY <3>1, <3>4, <2>1, <1>2
  <2> QED
    BY <2>3, <2>6, <2>7
<1> HIDE DEF T
<1>3. Nat \subseteq T
  BY <1>1, <1>2, Induction
<1> QED
  BY <1>3 DEF T

-----------------------------------------------------------------------------
(* The ring: rows of Half slots, exponents modulo m.                       *)

(* The number of slots in a row.                                           *)
Half == n \div 2

(* The sizes that the ring dimension, a power of two, gives.               *)
LEMMA SizesAre ==
  /\ Half \in Nat /\ Half >= 2 /\ n = 2 * Half /\ m = 4 * Half
  /\ n \in Nat /\ m \in Nat \ {0} /\ m >= 8 /\ Slot = 0..(2 * Half - 1)
  /\ \E a \in Nat : /\ Half = TwoTo[a + 1] /\ m = TwoTo[(a + 1) + 2]
                    /\ n = TwoTo[(a + 1) + 1]
<1>1. PICK k \in 2..n : n = TwoTo[k]
  BY AdvancedSHEAssumption
<1>2. PICK a \in Nat : k = a + 2
  <2>1. n \in Nat /\ k \in Nat /\ k - 2 \in Nat /\ k = (k - 2) + 2
    BY AdvancedSHEAssumption
  <2> QED
    BY <2>1
<1>3. PICK p \in Nat \ {0} :
        /\ p = TwoTo[a] /\ TwoTo[a + 1] = 2 * p /\ TwoTo[a + 2] = 4 * p
        /\ TwoTo[a + 3] = 8 * p
  BY TwoToNext
<1>4. n = 4 * p
  BY <1>1, <1>2, <1>3
<1>5. Half = 2 * p
  BY <1>4 DEF Half
<1>6. m = 8 * p
  BY <1>4 DEF m
<1>7. (a + 1) + 2 = a + 3 /\ (a + 1) + 1 = a + 2
  OBVIOUS
<1>8. Slot = 0..(2 * Half - 1)
  BY <1>4, <1>5 DEF Slot
<1>9. /\ Half = TwoTo[a + 1] /\ m = TwoTo[(a + 1) + 2]
      /\ n = TwoTo[(a + 1) + 1]
  BY <1>3, <1>4, <1>5, <1>6, <1>7
<1>10. /\ Half \in Nat /\ Half >= 2 /\ n = 2 * Half /\ m = 4 * Half
       /\ n \in Nat /\ m \in Nat \ {0} /\ m >= 8
  BY <1>3, <1>4, <1>5, <1>6
<1> QED
  BY <1>8, <1>9, <1>10

(* Those that most proofs use.                                             *)
LEMMA Sizes ==
  /\ Half \in Nat \ {0} /\ Half >= 2 /\ n = 2 * Half /\ m = 4 * Half
  /\ n \in Nat \ {0} /\ m \in Nat \ {0} /\ m >= 8
<1>1. /\ Half \in Nat /\ Half >= 2 /\ n = 2 * Half /\ m = 4 * Half
      /\ n \in Nat /\ m \in Nat \ {0} /\ m >= 8
  BY SizesAre, Zenon
<1>2. Half \in Nat \ {0} /\ n \in Nat \ {0}
  BY <1>1
<1> QED
  BY <1>1, <1>2

(* The slots by the size of a row.                                         *)
LEMMA SlotIs == Slot = 0..(2 * Half - 1)
  BY SizesAre, Zenon

(* Wrapping at W does not disturb products modulo m, which divides W.      *)
LEMMA MulIs ==
  ASSUME NEW a \in Int, NEW b \in Int
  PROVE  Mul(a, b) = (a * b) % m /\ Mul(a, b) \in 0..(m - 1)
<1>1. m \in Nat \ {0} /\ W \in Nat \ {0} /\ W % m = 0
  BY Sizes, AdvancedSHEAssumption
<1>2. PICK k \in Int : W = k * m
  <2>0. W \in Int
    BY <1>1
  <2>1. PICK k \in Int : W = k * m + (W % m)
    BY <2>0, <1>1, ModIs
  <2>2. W = k * m
    BY <1>1, <2>1
  <2> QED
    BY <2>2
<1>3. k \in Nat \ {0}
  <2>1. ASSUME k <= 0 PROVE FALSE
    <3>1. k * m <= 0
      BY <1>1, <2>1
    <3> QED
      BY <1>1, <1>2, <3>1
  <2> QED
    BY <2>1
<1>4. a * b \in Int
  OBVIOUS
<1>5. ((a * b) % (k * m)) % m = (a * b) % m
  BY <1>1, <1>3, <1>4, ModOfMultiple
<1>6. (a * b) % m \in 0..(m - 1)
  BY <1>1, <1>4, ModIs
<1> QED
  BY <1>2, <1>5, <1>6 DEF Mul

(* Power is the power of integers, modulo m.                               *)
LEMMA PowerIs ==
  ASSUME NEW g \in Int, NEW k \in Nat
  PROVE  Power(g, k) = Exp(g)[k] % m
<1> DEFINE Next1(f, j) == IF j = 0 THEN 1 ELSE Mul(f[j - 1], g)
           f == CHOOSE f : f = [j \in 0..k |-> IF j = 0 THEN 1
                                              ELSE Mul(f[j - 1], g)]
           h == [j \in 0..k |-> Exp(g)[j] % m]
<1>1. Exp(g)[0] % m = 1
  <2>1. 1 \in 0..(m - 1)
    BY Sizes
  <2> QED
    BY <2>1, Sizes, ModSmall, ExpIs
<1>2. ASSUME NEW j \in Nat
      PROVE  Mul(Exp(g)[j] % m, g) = Exp(g)[j + 1] % m
  <2>1. PICK x \in Int : x = Exp(g)[j]
    BY ExpIs
  <2>2. Exp(g)[j + 1] = x * g
    BY <2>1, ExpIs
  <2>3. x % m \in Int /\ ((x % m) * g) % m = (x * g) % m
    BY Sizes, ModLeft
  <2> QED
    BY <2>1, <2>2, <2>3, MulIs
<1>3. h = [j \in 0..k |-> IF j = 0 THEN 1 ELSE Mul(h[j - 1], g)]
  <2> SUFFICES ASSUME NEW j \in 0..k, j # 0
               PROVE  Exp(g)[j] % m = Mul(h[j - 1], g)
    BY <1>1
  <2>1. j - 1 \in Nat /\ j - 1 \in 0..k /\ (j - 1) + 1 = j
    OBVIOUS
  <2>2. h[j - 1] = Exp(g)[j - 1] % m
    BY <2>1
  <2> QED
    BY <2>1, <2>2, <1>2
<1>4. f = [j \in 0..k |-> IF j = 0 THEN 1 ELSE Mul(f[j - 1], g)]
  <2> HIDE DEF h
  <2> QED
    BY <1>3
<1> HIDE DEF f
<1> DEFINE T == {j \in Nat : j <= k => f[j] = Exp(g)[j] % m}
<1>5. 0 \in T
  BY <1>1, <1>4
<1>6. ASSUME NEW j \in Nat, j \in T
      PROVE  j + 1 \in T
  <2> SUFFICES ASSUME j + 1 <= k
               PROVE  f[j + 1] = Exp(g)[j + 1] % m
    OBVIOUS
  <2>1. j + 1 \in 0..k /\ j + 1 # 0 /\ (j + 1) - 1 = j /\ j <= k
    OBVIOUS
  <2>2. f[j + 1] = Mul(f[j], g)
    BY <1>4, <2>1
  <2> QED
    BY <2>1, <2>2, <1>2, <1>6
<1> HIDE DEF T
<1>7. Nat \subseteq T
  BY <1>5, <1>6, Induction
<1>8. f[k] = Exp(g)[k] % m
  BY <1>7 DEF T
<1>9. Power(g, k) = f[k]
  BY DEF Power, f
<1> QED
  BY <1>8, <1>9

(* 5 has order Half.                                                       *)
LEMMA FiveOrder ==
  /\ \A k, q \in Nat : Five[k + q * Half] % m = Five[k] % m
  /\ \A i, j \in 0..(Half - 1) : Five[i] % m = Five[j] % m => i = j
<1>1. PICK a \in Nat : Half = TwoTo[a + 1] /\ m = TwoTo[(a + 1) + 2]
  BY SizesAre
<1>2. a + 1 \in Nat /\ Half \in Nat /\ m \in Nat \ {0}
  BY Sizes
<1>3. PICK r \in Int : Five[Half] = 1 + r * m
  BY <1>1, <1>2, FiveReturns
<1>4. ASSUME NEW k \in Nat
      PROVE  Five[k + Half] % m = Five[k] % m
  <2>1. PICK x \in Int : x = Five[k]
    BY FiveIs
  <2>2. Five[k + Half] = x * (1 + r * m)
    BY <1>2, <1>3, <2>1, FiveIs
  <2>3. PICK y \in Int : y = x * r
    OBVIOUS
  <2>4. Five[k + Half] = x + y * m
    BY <1>2, <2>2, <2>3
  <2>5. (x + y * m) % m = x % m
    BY <1>2, ModShift
  <2> QED
    BY <2>1, <2>4, <2>5
<1>5. ASSUME NEW k \in Nat
      PROVE  \A q \in Nat : Five[k + q * Half] % m = Five[k] % m
  <2> DEFINE T == {q \in Nat : Five[k + q * Half] % m = Five[k] % m}
  <2>1. 0 \in T
    <3>1. k + 0 * Half = k
      BY <1>2
    <3> QED
      BY <3>1
  <2>2. ASSUME NEW q \in Nat, q \in T
        PROVE  q + 1 \in T
    <3>1. k + q * Half \in Nat
      BY <1>2
    <3>2. k + (q + 1) * Half = (k + q * Half) + Half
      BY <1>2
    <3>3. Five[(k + q * Half) + Half] % m = Five[k + q * Half] % m
      BY <3>1, <1>4
    <3> QED
      BY <3>2, <3>3, <2>2
  <2> HIDE DEF T
  <2>3. Nat \subseteq T
    BY <2>1, <2>2, Induction
  <2> QED
    BY <2>3 DEF T
<1>6. ASSUME NEW i \in 0..(Half - 1), NEW j \in 0..(Half - 1), i < j,
             Five[i] % m = Five[j] % m
      PROVE  FALSE
  <2>1. PICK d \in Nat : d = j - i
    BY <1>2, <1>6
  <2>2. d \in 1..(Half - 1) /\ j = i + d /\ i \in Nat
    BY <1>2, <1>6, <2>1
  <2>3. PICK x \in Int, y \in Int : x = Five[i] /\ y = Five[d]
    BY <2>2, FiveIs
  <2>4. Five[j] = x * y
    BY <2>2, <2>3, FiveIs
  <2>5. PICK q \in Int : x * y = x + q * m
    <3>1. (x * y) % m = x % m /\ x * y \in Int
      BY <1>6, <2>3, <2>4
    <3> QED
      BY <3>1, <1>2, ModSame
  (* The inverse of 5^i is 5^(Half - i).                                   *)
  <2>6. PICK z \in Int, s \in Int : z * x = 1 + s * m
    <3>1. Half - i \in Nat /\ (Half - i) + i = Half
      BY <1>2
    <3>2. PICK z \in Int : z = Five[Half - i]
      BY <3>1, FiveIs
    <3>3. Five[(Half - i) + i] = z * x
      BY <3>1, <3>2, <2>2, <2>3, FiveIs
    <3> QED
      BY <3>1, <3>3, <1>3
  <2>7. z * (x * y) = z * x + z * (q * m)
    BY <2>5, <1>2
  <2>8. (z * x) * y = z * x + (z * q) * m
    BY <2>7, <1>2
  <2>9. (1 + s * m) * y = (1 + s * m) + (z * q) * m
    BY <2>6, <2>8
  <2>10. y = 1 + (s + z * q - s * y) * m
    BY <2>9, <1>2
  <2>11. s + z * q - s * y \in Int
    OBVIOUS
  <2>12. Five[d] = 1 + (s + z * q - s * y) * TwoTo[(a + 1) + 2]
    BY <2>3, <2>10, <1>1
  <2>13. d \in 1..(TwoTo[a + 1] - 1)
    BY <2>2, <1>1
  <2> QED
    BY <2>11, <2>12, <2>13, <1>2, FiveNotBefore
<1>7. \A i, j \in 0..(Half - 1) : Five[i] % m = Five[j] % m => i = j
  <2> SUFFICES ASSUME NEW i \in 0..(Half - 1), NEW j \in 0..(Half - 1),
                      Five[i] % m = Five[j] % m, i # j
               PROVE  FALSE
    OBVIOUS
  <2>1. i < j \/ j < i
    BY <1>2
  <2> QED
    BY <2>1, <1>6
<1> QED
  BY <1>5, <1>7

-----------------------------------------------------------------------------
(* The exponents of the slots: 5^i in the first row, -5^i in the second.   *)

(* The exponent of slot i, not reduced: row 0 has powers of 5, row 1 their *)
(* negatives.                                                              *)
Value(i) == IF i < Half THEN Five[i] ELSE - Five[i - Half]

(* The exponents are these values modulo m.                                *)
LEMMA ExponentIs ==
  ASSUME NEW i \in Slot
  PROVE  Value(i) \in Int /\ Exponent[i] = Value(i) % m
<1>1. i \in Nat /\ Half \in Nat /\ m \in Nat \ {0} /\ m - 1 \in Int
  BY Sizes, SlotIs
<1>2. Exponent[i] = IF i < Half THEN Power(5, i)
                    ELSE Mul(Power(5, i - Half), m - 1)
  BY DEF Exponent, Half
<1>3. ASSUME NEW k \in Nat PROVE Power(5, k) = Five[k] % m
  <2>1. \A g \in Int : Power(g, k) = Exp(g)[k] % m
    BY PowerIs
  <2>2. 5 \in Int
    OBVIOUS
  <2> QED
    BY <2>1, <2>2, Zenon DEF Five
<1>4. CASE i < Half
  BY <1>1, <1>2, <1>3, <1>4, FiveIs DEF Value
<1>5. CASE ~ (i < Half)
  <2>1. i - Half \in Nat
    BY <1>1, <1>5
  <2>2. PICK x \in Int : x = Five[i - Half]
    BY <2>1, FiveIs
  <2>3. Exponent[i] = Mul(x % m, m - 1)
    BY <1>2, <1>3, <1>5, <2>1, <2>2
  <2>4. x % m \in Int /\ ((x % m) * (m - 1)) % m = (x * (m - 1)) % m
    BY <1>1, ModLeft
  <2>5. Exponent[i] = (x * (m - 1)) % m
    BY <1>1, <2>3, <2>4, MulIs
  <2>6. x * (m - 1) = (- x) + x * m /\ - x \in Int
    BY <1>1
  <2>7. ((- x) + x * m) % m = (- x) % m
    BY <1>1, <2>6, ModShift
  <2> QED
    BY <1>5, <2>2, <2>5, <2>6, <2>7 DEF Value
<1> QED
  BY <1>4, <1>5

(* No two slots have one exponent.                                         *)
LEMMA ExponentsDiffer ==
  ASSUME NEW i \in Slot, NEW j \in Slot, Exponent[i] = Exponent[j]
  PROVE  i = j
<1>1. /\ i \in Nat /\ j \in Nat /\ Half \in Nat /\ m = 4 * Half
      /\ m \in Nat \ {0} /\ i < 2 * Half /\ j < 2 * Half
  BY Sizes, SlotIs
<1>2. Value(i) % m = Value(j) % m
  BY ExponentIs
<1>3. ASSUME NEW x \in Int, NEW y \in Int, (- x) % m = (- y) % m
      PROVE  x % m = y % m
  <2>1. - x \in Int /\ - y \in Int /\ 0 \in Int
    OBVIOUS
  <2>2. (- (- x)) % m = (- (- y)) % m
    BY <1>1, <1>3, <2>1, ModKept
  <2>3. - (- x) = x /\ - (- y) = y
    OBVIOUS
  <2> QED
    BY <2>2, <2>3
<1>4. ASSUME NEW k \in Nat, NEW l \in Nat
      PROVE  Five[k] % m # (- Five[l]) % m
  <2>1. PICK u \in Int : Five[k] = 1 + 4 * u
    BY FiveModFour
  <2>2. PICK v \in Int : Five[l] = 1 + 4 * v
    BY FiveModFour
  <2> SUFFICES ASSUME (1 + 4 * u) % m = (- (1 + 4 * v)) % m
               PROVE  FALSE
    BY <2>1, <2>2
  <2>3. PICK x \in Int, y \in Int : x = 1 + 4 * u /\ y = - (1 + 4 * v)
    OBVIOUS
  <2>4. PICK q \in Int : x = y + q * m
    <3>1. x % m = y % m /\ m \in Nat \ {0}
      BY <1>1, <2>3
    <3> QED
      BY <3>1, ModSame, Zenon
  <2>5. PICK w \in Int : w = q * Half
    BY <1>1
  <2>6. 1 + 4 * u = (- (1 + 4 * v)) + 4 * w
    BY <1>1, <2>3, <2>4, <2>5
  <2> QED
    BY <2>6
<1>5. CASE i < Half /\ j < Half
  BY <1>1, <1>2, <1>5, FiveOrder DEF Value
<1>6. CASE i < Half /\ ~ (j < Half)
  <2>1. j - Half \in Nat
    BY <1>1, <1>6
  <2> QED
    BY <1>1, <1>2, <1>4, <1>6, <2>1 DEF Value
<1>7. CASE ~ (i < Half) /\ j < Half
  <2>1. i - Half \in Nat
    BY <1>1, <1>7
  <2> QED
    BY <1>1, <1>2, <1>4, <1>7, <2>1 DEF Value
<1>8. CASE ~ (i < Half) /\ ~ (j < Half)
  <2>1. i - Half \in 0..(Half - 1) /\ j - Half \in 0..(Half - 1)
    BY <1>1, <1>8
  <2>2. PICK x \in Int, y \in Int :
          x = Five[i - Half] /\ y = Five[j - Half]
    BY <2>1, FiveIs
  <2>3. x % m = y % m
    BY <1>2, <1>3, <1>8, <2>2 DEF Value
  <2>4. i - Half = j - Half
    BY <2>1, <2>2, <2>3, FiveOrder
  <2> QED
    BY <1>1, <2>4
<1> QED
  BY <1>5, <1>6, <1>7, <1>8

(* So each exponent has one slot.                                          *)
LEMMA SlotOfExponent ==
  ASSUME NEW i \in Slot
  PROVE  SlotOf(Exponent[i]) = i
BY ExponentsDiffer DEF SlotOf

(* An automorphism that takes the exponent of every slot to that of p of   *)
(* the slot puts the value of slot p[i] into slot i.                       *)
LEMMA PermutedIs ==
  ASSUME NEW s, NEW k \in Int, NEW p \in [Slot -> Slot],
         \A i \in Slot : (Value(i) * k) % m = Value(p[i]) % m
  PROVE  Permuted(s, k) = [i \in Slot |-> s[p[i]]]
<1> SUFFICES ASSUME NEW i \in Slot
             PROVE  SlotOf(Mul(Exponent[i], k)) = p[i]
  BY DEF Permuted
<1>1. PICK x \in Int : x = Value(i)
  BY ExponentIs
<1>2. m \in Nat \ {0} /\ x % m \in Int
  BY Sizes, SlotIs, ModLeft
<1>3. Mul(x % m, k) = (x * k) % m
  <2>1. PICK r \in Int : r = x % m
    BY <1>2
  <2>2. Mul(r, k) = (r * k) % m
    BY MulIs
  <2>3. ((x % m) * k) % m = (x * k) % m
    BY <1>2, ModLeft
  <2> QED
    BY <2>1, <2>2, <2>3
<1>4. Mul(Exponent[i], k) = Exponent[p[i]]
  BY <1>1, <1>3, ExponentIs
<1> QED
  BY <1>4, SlotOfExponent

-----------------------------------------------------------------------------
(* Rows.                                                                   *)

(* Moving within a row stays in the row.                                   *)
LEMMA InRowIs ==
  ASSUME NEW i \in Slot, NEW d \in Int
  PROVE  /\ InRow(i, d) = (IF i < Half THEN 0 ELSE Half) + ((i + d) % Half)
         /\ InRow(i, d) \in Slot
         /\ InRow(i, d) < Half <=> i < Half
         /\ (i + d) % Half \in 0..(Half - 1)
<1>1. Half \in Nat \ {0} /\ i \in Nat /\ i + d \in Int
      /\ Slot = 0..(2 * Half - 1)
  BY Sizes, SlotIs
<1>2. PICK r \in 0..(Half - 1) : r = (i + d) % Half
  BY <1>1, ModIs
<1>3. InRow(i, d) = IF i < Half THEN r ELSE Half + r
  BY <1>2 DEF InRow, Half
<1> QED
  BY <1>1, <1>2, <1>3

(* Steps within a row add up.                                              *)
LEMMA InRowAdd ==
  ASSUME NEW i \in Slot, NEW d \in Int, NEW e \in Int
  PROVE  InRow(InRow(i, d), e) = InRow(i, d + e)
<1>1. Half \in Nat \ {0} /\ i + d \in Int /\ d + e \in Int
  BY Sizes, SlotIs
<1>2. PICK r \in Int : r = (i + d) % Half
  BY <1>1, ModLeft
<1>3. (r + e) % Half = ((i + d) + e) % Half
  BY <1>1, <1>2, ModLeft
<1>4. (i + d) + e = i + (d + e)
  BY Sizes, SlotIs
<1>5. ((r + e) + 1 * Half) % Half = (r + e) % Half
  <2>1. r + e \in Int /\ 1 \in Int
    OBVIOUS
  <2> QED
    BY <1>1, <2>1, ModShift
<1>6. PICK j \in Slot : j = InRow(i, d)
  BY InRowIs
<1>7. j = (IF i < Half THEN 0 ELSE Half) + r /\ (j < Half <=> i < Half)
  BY <1>2, <1>6, InRowIs
<1>8. (j + e) % Half = (i + (d + e)) % Half
  <2>1. CASE i < Half
    BY <1>3, <1>4, <1>7, <2>1
  <2>2. CASE ~ (i < Half)
    <3>1. j + e = (r + e) + 1 * Half
      BY <1>1, <1>7, <2>2
    <3> QED
      BY <1>3, <1>4, <1>5, <3>1
  <2> QED
    BY <2>1, <2>2
<1>9. InRow(j, e) = (IF j < Half THEN 0 ELSE Half) + ((j + e) % Half)
  BY InRowIs
<1>10. InRow(i, d + e) =
         (IF i < Half THEN 0 ELSE Half) + ((i + (d + e)) % Half)
  BY <1>1, InRowIs
<1> QED
  BY <1>6, <1>7, <1>8, <1>9, <1>10

(* Moving by 0 goes nowhere.                                               *)
LEMMA InRowZero ==
  ASSUME NEW i \in Slot
  PROVE  InRow(i, 0) = i
<1>1. Half \in Nat \ {0} /\ i \in 0..(2 * Half - 1)
  BY Sizes, SlotIs
<1>2. CASE i < Half
  <2>1. i \in 0..(Half - 1) /\ i + 0 = i
    BY <1>1, <1>2
  <2>2. i % Half = i
    BY <1>1, <2>1, ModSmall
  <2> QED
    BY <1>2, <2>1, <2>2, InRowIs
<1>3. CASE ~ (i < Half)
  <2>1. i - Half \in 0..(Half - 1) /\ i + 0 = (i - Half) + 1 * Half
        /\ i - Half \in Int /\ 1 \in Int
    BY <1>1, <1>3
  <2>2. (i + 0) % Half = i - Half
    <3>1. PICK r \in 0..(Half - 1), e \in Int : r = i - Half /\ e = 1
      BY <2>1
    <3>2. r % Half = r
      BY <1>1, ModSmall
    <3>3. (r + e * Half) % Half = r % Half
      <4>1. r \in Int
        BY <1>1
      <4> QED
        BY <1>1, <4>1, ModShift
    <3> QED
      BY <2>1, <3>1, <3>2, <3>3
  <2>3. InRow(i, 0) = Half + ((i + 0) % Half)
    BY <1>3, InRowIs
  <2> QED
    BY <1>1, <2>2, <2>3
<1> QED
  BY <1>2, <1>3

(* Exchanging rows changes the sign of the value.                          *)
LEMMA OtherRowIs ==
  ASSUME NEW i \in Slot
  PROVE  /\ OtherRow(i) = IF i < Half THEN i + Half ELSE i - Half
         /\ OtherRow(i) \in Slot /\ Value(OtherRow(i)) = - Value(i)
<1>1. /\ Half \in Nat \ {0} /\ i \in 0..(2 * Half - 1) /\ n = 2 * Half
      /\ n \in Nat \ {0} /\ Slot = 0..(2 * Half - 1)
  BY Sizes, SlotIs
<1>2. OtherRow(i) = (i + Half) % n
  BY DEF OtherRow, Half
<1>3. OtherRow(i) = IF i < Half THEN i + Half ELSE i - Half
  <2>1. CASE i < Half
    <3>1. i + Half \in 0..(n - 1)
      BY <1>1, <2>1
    <3> QED
      BY <1>1, <1>2, <2>1, <3>1, ModSmall
  <2>2. CASE ~ (i < Half)
    <3>1. i - Half \in 0..(n - 1) /\ i - Half \in Int /\ 1 \in Int
          /\ i + Half = (i - Half) + 1 * n
      BY <1>1, <2>2
    <3>2. ((i - Half) + 1 * n) % n = i - Half
      BY <1>1, <3>1, ModSmall, ModShift
    <3> QED
      BY <1>2, <2>2, <3>1, <3>2
  <2> QED
    BY <2>1, <2>2
<1>4. OtherRow(i) \in Slot
  BY <1>1, <1>3
<1>5. Value(OtherRow(i)) = - Value(i)
  <2>1. CASE i < Half
    <3>1. OtherRow(i) = i + Half /\ ~ (i + Half < Half)
          /\ (i + Half) - Half = i
      BY <1>1, <1>3, <2>1
    <3> QED
      BY <2>1, <3>1 DEF Value
  <2>2. CASE ~ (i < Half)
    <3>1. OtherRow(i) = i - Half /\ i - Half < Half /\ i - Half \in Nat
      BY <1>1, <1>3, <2>2
    <3>2. Five[i - Half] \in Int
      BY <3>1, FiveIs
    <3>3. Five[i - Half] = - (- Five[i - Half])
      BY <3>2
    <3> QED
      BY <2>2, <3>1, <3>3 DEF Value
  <2> QED
    BY <2>1, <2>2
<1> QED
  BY <1>3, <1>4, <1>5

(* 5^d moves a slot by d in its row.                                       *)
LEMMA ValueInRow ==
  ASSUME NEW i \in Slot, NEW d \in Nat
  PROVE  (Value(i) * Five[d]) % m = Value(InRow(i, d)) % m
<1>1. /\ Half \in Nat \ {0} /\ i \in 0..(2 * Half - 1) /\ m \in Nat \ {0}
      /\ d \in Int
  BY Sizes, SlotIs
<1>2. PICK r \in 0..(Half - 1) : r = (i + d) % Half
  BY <1>1, InRowIs
<1>3. InRow(i, d) = (IF i < Half THEN 0 ELSE Half) + r
  BY <1>1, <1>2, InRowIs
<1>4. ASSUME NEW k \in Nat, NEW q \in Int, k = r + q * Half
      PROVE  Five[k] % m = Five[r] % m
  <2>1. q \in Nat
    <3>1. ASSUME q <= -1 PROVE FALSE
      <4>1. q * Half <= - Half
        BY <1>1, <3>1
      <4> QED
        BY <1>1, <1>2, <1>4, <4>1
    <3> QED
      BY <3>1
  <2>2. r \in Nat
    BY <1>1
  <2>3. Five[r + q * Half] % m = Five[r] % m
    BY <2>1, <2>2, FiveOrder
  <2> QED
    BY <1>4, <2>3
<1>5. PICK q \in Int : i + d = r + q * Half
  <2>1. i + d \in Int
    BY <1>1
  <2>2. PICK q \in Int : i + d = q * Half + ((i + d) % Half)
    BY <1>1, <2>1, ModIs
  <2>3. i + d = q * Half + r
    BY <1>2, <2>2
  <2> QED
    BY <1>1, <2>3
<1>6. PICK y \in Int : y = Five[d]
  BY FiveIs
<1>7. CASE i < Half
  <2>1. i + d \in Nat /\ i \in Nat
    BY <1>1
  <2>2. Five[i + d] % m = Five[r] % m
    BY <1>4, <1>5, <2>1
  <2>3. Five[i] * Five[d] = Five[i + d]
    BY <2>1, FiveIs
  <2>4. InRow(i, d) = r /\ r < Half
    BY <1>1, <1>3, <1>7
  <2> QED
    BY <1>7, <2>2, <2>3, <2>4 DEF Value
<1>8. CASE ~ (i < Half)
  <2>1. i - Half \in Nat /\ (i - Half) + d \in Nat /\ q - 1 \in Int
        /\ (i - Half) + d = r + (q - 1) * Half
    BY <1>1, <1>5, <1>8
  <2>2. Five[(i - Half) + d] % m = Five[r] % m
    BY <1>4, <2>1
  <2>3. PICK x \in Int, z \in Int : x = Five[i - Half] /\ z = Five[r]
    <3>1. r \in Nat
      BY <1>1
    <3>2. Five[i - Half] \in Int /\ Five[r] \in Int
      BY <2>1, <3>1, FiveIs
    <3> QED
      BY <3>2
  <2>4. Five[(i - Half) + d] = x * y
    BY <1>6, <2>1, <2>3, FiveIs
  <2>5. (- (x * y)) % m = (- z) % m
    <3>1. x * y \in Int /\ 0 \in Int
      OBVIOUS
    <3> QED
      BY <1>1, <2>2, <2>3, <2>4, <3>1, ModKept
  <2>6. (- x) * y = - (x * y)
    OBVIOUS
  <2>7. InRow(i, d) = Half + r /\ ~ (Half + r < Half) /\ (Half + r) - Half = r
    BY <1>1, <1>3, <1>8
  <2>8. Value(InRow(i, d)) = - z /\ Value(i) = - x
    BY <1>8, <2>3, <2>7 DEF Value
  <2> QED
    BY <1>6, <2>5, <2>6, <2>8
<1> QED
  BY <1>7, <1>8

-----------------------------------------------------------------------------
(* The automorphisms of rotations.                                         *)

(* The order of 5 modulo m is the size of a row.                           *)
LEMMA OneIs ==
  1 % m = 1 /\ Five[0] % m = 1 /\ Five[Half] % m = 1
<1>1. 1 % m = 1
  <2>1. 1 \in 0..(m - 1) /\ m \in Nat \ {0}
    BY Sizes
  <2> QED
    BY <2>1, ModSmall
<1>2. Five[0 + 1 * Half] % m = Five[0] % m
  BY FiveOrder
<1>3. 0 + 1 * Half = Half
  BY Sizes
<1> QED
  BY <1>1, <1>2, <1>3, FiveIs

(* Equal modulo m.                                                         *)
Same(x, y) == x % m = y % m

(* Same values have the same multiples.                                    *)
LEMMA SameTimes ==
  ASSUME NEW x \in Int, NEW y \in Int, NEW z \in Int, Same(x, y)
  PROVE  Same(x * z, y * z)
<1>1. m \in Nat \ {0} /\ x % m = y % m
  BY Sizes DEF Same
<1> QED
  BY <1>1, ModKept DEF Same

(* A factor that is 1 modulo m can be left out.                            *)
LEMMA SameOne ==
  ASSUME NEW x \in Int, NEW z \in Int, x % m = 1
  PROVE  Same(x * z, z)
<1>1. PICK o \in Int : o = 1
  OBVIOUS
<1>2. Same(x, o)
  BY <1>1, OneIs DEF Same
<1>3. Same(x * z, o * z)
  BY <1>2, SameTimes
<1>4. o * z = z
  BY <1>1
<1> QED
  BY <1>3, <1>4

(* An inverse undoes the multiplication.                                   *)
Inverts(f, e) == (f * e) % m = 1
(* The factor f leads from w to v.                                         *)
Leads(w, f, v) == (w * f) % m = v % m

(* Multiplying by an inverse leads back.                                   *)
LEMMA ModUndone ==
  ASSUME NEW v \in Int, NEW w \in Int, NEW f \in Int, NEW e \in Int,
         Leads(w, f, v), Inverts(f, e)
  PROVE  (v * e) % m = w % m
<1>1. PICK a \in Int : a = w * f
  OBVIOUS
<1>2. PICK b \in Int : b = f * e
  OBVIOUS
<1>3. Same(a, v) /\ b % m = 1
  BY <1>1, <1>2 DEF Same, Leads, Inverts
<1>4. Same(a * e, v * e)
  BY <1>3, SameTimes
<1>5. Same(b * w, w)
  BY <1>3, SameOne
<1>6. a * e = b * w
  BY <1>1, <1>2
<1> QED
  BY <1>4, <1>5, <1>6 DEF Same

(* 5 has an inverse modulo m, which is what ModInverse finds.              *)
LEMMA InverseFive ==
  ModInverse(5) \in 1..(m - 1) /\ (5 * ModInverse(5)) % m = 1
<1>1. m \in Nat \ {0} /\ Half - 1 \in Nat /\ (Half - 1) + 1 = Half
  BY Sizes
<1>2. PICK x \in Int : x = Five[Half - 1]
  BY <1>1, FiveIs
<1>3. Five[Half] = x * 5
  <2>1. Five[(Half - 1) + 1] = Five[Half - 1] * 5
    BY <1>1, FiveIs
  <2> QED
    BY <1>1, <1>2, <2>1
<1>4. PICK w \in 0..(m - 1) : w = x % m
  BY <1>1, ModIs
<1>5. PICK f \in Int : f = 5
  OBVIOUS
<1>6. (w * f) % m = (x * f) % m
  BY <1>1, <1>4, ModLeft
<1>7. (f * w) % m = 1
  <2>1. f * w = w * f
    BY <1>1
  <2> QED
    BY <1>3, <1>5, <1>6, <2>1, OneIs
<1>8. w # 0
  <2>1. ASSUME w = 0 PROVE FALSE
    <3>1. f * w = 0
      BY <2>1
    <3>2. 0 % m = 0
      BY <1>1
    <3> QED
      BY <1>7, <3>1, <3>2
  <2> QED
    BY <2>1
<1>9. w \in 1..(m - 1) /\ (5 * w) % m = 1
  BY <1>1, <1>5, <1>7, <1>8
<1> QED
  BY <1>9 DEF ModInverse

(* -1 is its own inverse.                                                  *)
LEMMA InverseMinusOne == ModInverse(m - 1) = m - 1
<1>1. m \in Nat \ {0} /\ m >= 8
  BY Sizes
<1>2. ((m - 1) * (m - 1)) % m = 1 /\ m - 1 \in 1..(m - 1)
  <2>1. PICK o \in Int, q \in Int : o = 1 /\ q = m - 2
    BY <1>1
  <2>2. (m - 1) * (m - 1) = o + q * m
    BY <1>1, <2>1
  <2>3. (o + q * m) % m = o % m
    BY <1>1, ModShift
  <2> QED
    BY <1>1, <2>1, <2>2, <2>3, OneIs
<1>3. PICK b \in 1..(m - 1) :
        b = ModInverse(m - 1) /\ ((m - 1) * b) % m = 1
  BY <1>2 DEF ModInverse
<1>4. PICK x \in Int, o \in Int : x = (m - 1) * b /\ o = 1
  BY <1>1
<1>5. PICK q \in Int : x = o + q * m
  <2>1. x % m = o % m
    BY <1>3, <1>4, OneIs
  <2> QED
    BY <1>1, <2>1, ModSame
<1>6. m * (b - q) = b + 1
  BY <1>1, <1>4, <1>5
<1>7. PICK k \in Int : k = b - q
  BY <1>1
<1>8. k = 1
  <2>1. m * k = b + 1 /\ b + 1 \in 2..m
    BY <1>1, <1>6, <1>7
  <2>2. ASSUME k <= 0 PROVE FALSE
    <3>1. m * k <= 0
      BY <1>1, <2>2
    <3> QED
      BY <2>1, <3>1
  <2>3. ASSUME k >= 2 PROVE FALSE
    <3>1. m * k >= m * 2
      BY <1>1, <2>3
    <3> QED
      BY <1>1, <2>1, <3>1
  <2> QED
    BY <2>2, <2>3
<1> QED
  BY <1>1, <1>3, <1>6, <1>7, <1>8

(* The powers of the inverse of 5.                                         *)
Fifth == Exp(ModInverse(5))

(* The recursion of the powers of the inverse of 5.                        *)
LEMMA FifthIs ==
  /\ Fifth \in [Nat -> Int] /\ Fifth[0] = 1
  /\ \A k \in Nat : Fifth[k + 1] = Fifth[k] * ModInverse(5)
<1>1. ModInverse(5) \in Int
  BY InverseFive, Sizes
<1> QED
  BY <1>1, ExpIs DEF Fifth

(* They are the inverses of the powers of 5.                               *)
LEMMA FifthInverts ==
  \A d \in Nat : (Five[d] * Fifth[d]) % m = 1
<1> DEFINE T == {d \in Nat : (Five[d] * Fifth[d]) % m = 1}
<1>0. m \in Nat \ {0}
  BY Sizes
<1>1. 0 \in T
  <2>1. Five[0] * Fifth[0] = 1
    BY FiveIs, FifthIs
  <2> QED
    BY <2>1, OneIs
<1>2. ASSUME NEW d \in Nat, d \in T
      PROVE  d + 1 \in T
  <2>1. PICK b \in Int, g \in Int : b = ModInverse(5) /\ g = 5
    BY InverseFive, Sizes
  <2>2. PICK x \in Int, y \in Int : x = Five[d] /\ y = Fifth[d]
    BY FiveIs, FifthIs
  <2>3. Five[d + 1] = x * g /\ Fifth[d + 1] = y * b
    BY <2>1, <2>2, FiveIs, FifthIs
  <2>4. PICK p \in Int, q \in Int, o \in Int :
          p = x * y /\ q = g * b /\ o = 1
    OBVIOUS
  <2>5. p % m = o /\ q % m = o
    BY <1>2, <2>1, <2>2, <2>4, InverseFive
  <2>6. ((p % m) * (q % m)) % m = (p * q) % m
    BY <1>0, ModBoth
  <2>7. (p * q) % m = 1
    BY <2>4, <2>5, <2>6, OneIs
  <2>8. (x * g) * (y * b) = p * q
    BY <2>4
  <2> QED
    BY <2>3, <2>7, <2>8
<1> HIDE DEF T
<1>3. Nat \subseteq T
  BY <1>1, <1>2, Induction
<1> QED
  BY <1>3 DEF T

(* They move a slot back in its row.                                       *)
LEMMA ValueBackInRow ==
  ASSUME NEW i \in Slot, NEW d \in Nat
  PROVE  (Value(i) * Fifth[d]) % m = Value(InRow(i, - d)) % m
<1>1. PICK e \in Int, z \in Int : e = - d /\ z = 0
  OBVIOUS
<1>2. PICK j \in Slot : j = InRow(i, e)
  BY InRowIs
<1>3. InRow(j, d) = i
  <2>1. InRow(j, d) = InRow(i, e + d)
    BY <1>2, InRowAdd
  <2>2. e + d = 0
    BY <1>1
  <2> QED
    BY <2>1, <2>2, InRowZero
<1>4. PICK v \in Int, w \in Int, x \in Int, y \in Int :
        v = Value(i) /\ w = Value(j) /\ x = Five[d] /\ y = Fifth[d]
  BY ExponentIs, FiveIs, FifthIs
<1>5. Leads(w, x, v)
  BY <1>3, <1>4, ValueInRow DEF Leads
<1>6. Inverts(x, y)
  BY <1>4, FifthInverts DEF Inverts
<1>7. (v * y) % m = w % m
  BY <1>5, <1>6, ModUndone
<1> QED
  BY <1>1, <1>2, <1>4, <1>7

(* An automorphism index y that moves slot i to p[i] in the other row's    *)
(* image, or in its own, for any remainder that stands for y.              *)
LEMMA MovesSame ==
  ASSUME NEW s, NEW y \in Int, NEW p \in [Slot -> Slot],
         \A i \in Slot : (Value(i) * y) % m = Value(p[i]) % m
  PROVE  Permuted(s, y % m) = [i \in Slot |-> s[p[i]]]
<1>1. m \in Nat \ {0}
  BY Sizes
<1>2. PICK r \in Int : r = y % m
  BY <1>1, ModLeft
<1>3. ASSUME NEW i \in Slot
      PROVE  (Value(i) * r) % m = Value(p[i]) % m
  <2>1. PICK v \in Int : v = Value(i)
    BY ExponentIs
  <2>2. (r * v) % m = (y * v) % m
    BY <1>1, <1>2, ModLeft
  <2>3. r * v = v * r /\ y * v = v * y
    OBVIOUS
  <2> QED
    BY <2>1, <2>2, <2>3
<1>4. Permuted(s, r) = [i \in Slot |-> s[p[i]]]
  BY <1>3, PermutedIs
<1> QED
  BY <1>2, <1>4

(* The same with an exchange of rows.                                      *)
LEMMA MovesOther ==
  ASSUME NEW s, NEW y \in Int, NEW p \in [Slot -> Slot],
         \A i \in Slot : (Value(i) * y) % m = Value(p[i]) % m
  PROVE  Permuted(s, Mul(m - 1, y % m))
           = [i \in Slot |-> s[p[OtherRow(i)]]]
<1>1. m \in Nat \ {0} /\ m - 1 \in Int
  BY Sizes
<1>2. PICK r \in Int : r = y % m
  BY <1>1, ModLeft
<1>3. PICK u \in Int, z \in Int : u = m - 1 /\ z = - y
  BY <1>1
<1>4. Mul(u, r) = z % m
  <2>1. (r * u) % m = (y * u) % m
    BY <1>1, <1>2, ModLeft
  <2>2. r * u = u * r /\ y * u = z + y * m
    BY <1>1, <1>3
  <2>3. (z + y * m) % m = z % m
    BY <1>1, ModShift
  <2> QED
    BY <2>1, <2>2, <2>3, MulIs
<1> DEFINE q == [i \in Slot |-> p[OtherRow(i)]]
<1>5. q \in [Slot -> Slot]
  BY OtherRowIs
<1>6. ASSUME NEW i \in Slot
      PROVE  (Value(i) * z) % m = Value(q[i]) % m
  <2>1. PICK j \in Slot : j = OtherRow(i) /\ Value(j) = - Value(i)
    BY OtherRowIs
  <2>2. PICK v \in Int, w \in Int : v = Value(i) /\ w = Value(j)
    BY ExponentIs
  <2>3. v * z = w * y
    BY <1>3, <2>1, <2>2
  <2> QED
    BY <2>1, <2>2, <2>3
<1> HIDE DEF q
<1>7. Permuted(s, z % m) = [i \in Slot |-> s[q[i]]]
  BY <1>3, <1>5, <1>6, MovesSame
<1> QED
  BY <1>2, <1>3, <1>4, <1>7 DEF q

(* What FindAutomorphismIndex2n returns.                                   *)
LEMMA IndexIs ==
  ASSUME NEW i \in Int
  PROVE  FindAutomorphismIndex2n(i) =
           IF i >= 0
           THEN IF i < Half THEN Five[i] % m
                ELSE Mul(m - 1, Five[i - Half] % m)
           ELSE IF - Half < i THEN Fifth[- i] % m
                ELSE Mul(m - 1, Fifth[- i - Half] % m)
<1>1. ASSUME NEW k \in Nat PROVE Power(5, k) = Five[k] % m
  <2>1. \A g \in Int : Power(g, k) = Exp(g)[k] % m
    BY PowerIs
  <2>2. 5 \in Int
    OBVIOUS
  <2> QED
    BY <2>1, <2>2, Zenon DEF Five
<1>2. ASSUME NEW k \in Nat PROVE Power(ModInverse(5), k) = Fifth[k] % m
  <2>1. ModInverse(5) \in Int
    BY InverseFive, Sizes
  <2> QED
    BY <2>1, PowerIs DEF Fifth
<1>3. Half \in Nat \ {0} /\ Half = n \div 2
  BY Sizes DEF Half
<1>4. CASE i = 0
  <2>1. Five[i] % m = 1
    BY <1>4, OneIs
  <2> QED
    BY <1>3, <1>4, <2>1 DEF FindAutomorphismIndex2n
<1>5. CASE i > 0
  <2>1. FindAutomorphismIndex2n(i) =
          IF i < Half THEN Power(5, i) ELSE Mul(m - 1, Power(5, i - Half))
    BY <1>3, <1>5 DEF FindAutomorphismIndex2n
  <2>2. i \in Nat /\ (~ (i < Half) => i - Half \in Nat)
    BY <1>3, <1>5
  <2> QED
    BY <1>1, <1>5, <2>1, <2>2
<1>6. CASE i < 0
  <2>1. FindAutomorphismIndex2n(i) =
          IF - i < Half THEN Power(ModInverse(5), - i)
          ELSE Mul(m - 1, Power(ModInverse(5), - i - Half))
    BY <1>3, <1>6, InverseMinusOne DEF FindAutomorphismIndex2n
  <2>2. /\ - i \in Nat /\ (- i < Half <=> - Half < i)
        /\ ~ (- i < Half) => - i - Half \in Nat
    BY <1>3, <1>6
  <2> QED
    BY <1>2, <1>6, <2>1, <2>2
<1> QED
  BY <1>4, <1>5, <1>6

(* The automorphism that a rotation applies makes of the slots what the    *)
(* documentation says, whatever the index.                                 *)
THEOREM RotationIs ==
  ASSUME NEW s, NEW i \in Int
  PROVE  Permuted(s, FindAutomorphismIndex2n(i)) = Rotated(s, i)
<1>1. Half \in Nat \ {0} /\ Half = n \div 2
  BY Sizes DEF Half
<1>2. Rotated(s, i) =
        CASE - Half < i /\ i < Half -> [j \in Slot |-> s[InRow(j, i)]]
          [] i >= Half -> [j \in Slot |-> s[InRow(OtherRow(j), i - Half)]]
          [] i <= - Half -> [j \in Slot |-> s[InRow(OtherRow(j), i + Half)]]
  BY DEF Rotated, Half
<1> DEFINE p(d) == [j \in Slot |-> InRow(j, d)]
<1>3. ASSUME NEW d \in Nat
      PROVE  /\ Permuted(s, Five[d] % m) = [j \in Slot |-> s[InRow(j, d)]]
             /\ Permuted(s, Mul(m - 1, Five[d] % m))
                  = [j \in Slot |-> s[InRow(OtherRow(j), d)]]
  <2>1. d \in Int
    OBVIOUS
  <2>2. p(d) \in [Slot -> Slot]
    BY <2>1, InRowIs
  <2>3. PICK y \in Int : y = Five[d]
    BY FiveIs
  <2>4. \A j \in Slot : (Value(j) * y) % m = Value(p(d)[j]) % m
    BY <2>3, ValueInRow
  <2>5. \A j \in Slot : p(d)[j] = InRow(j, d) /\ OtherRow(j) \in Slot
    BY OtherRowIs
  <2> HIDE DEF p
  <2>6. Permuted(s, y % m) = [j \in Slot |-> s[p(d)[j]]]
    BY <2>2, <2>4, MovesSame
  <2>7. Permuted(s, Mul(m - 1, y % m)) = [j \in Slot |-> s[p(d)[OtherRow(j)]]]
    BY <2>2, <2>4, MovesOther
  <2> QED
    BY <2>3, <2>5, <2>6, <2>7
<1>4. ASSUME NEW d \in Nat, NEW e \in Int, e = - d
      PROVE  /\ Permuted(s, Fifth[d] % m) = [j \in Slot |-> s[InRow(j, e)]]
             /\ Permuted(s, Mul(m - 1, Fifth[d] % m))
                  = [j \in Slot |-> s[InRow(OtherRow(j), e)]]
  <2>2. p(e) \in [Slot -> Slot]
    BY InRowIs
  <2>3. PICK y \in Int : y = Fifth[d]
    BY FifthIs
  <2>4. \A j \in Slot : (Value(j) * y) % m = Value(p(e)[j]) % m
    BY <1>4, <2>3, ValueBackInRow
  <2>5. \A j \in Slot : p(e)[j] = InRow(j, e) /\ OtherRow(j) \in Slot
    BY OtherRowIs
  <2> HIDE DEF p
  <2>6. Permuted(s, y % m) = [j \in Slot |-> s[p(e)[j]]]
    BY <2>2, <2>4, MovesSame
  <2>7. Permuted(s, Mul(m - 1, y % m)) = [j \in Slot |-> s[p(e)[OtherRow(j)]]]
    BY <2>2, <2>4, MovesOther
  <2> QED
    BY <2>3, <2>5, <2>6, <2>7
<1>5. CASE i >= 0 /\ i < Half
  <2>1. i \in Nat /\ - Half < i /\ ~ (i >= Half) /\ ~ (i <= - Half)
    BY <1>1, <1>5
  <2> QED
    BY <1>2, <1>3, <1>5, <2>1, IndexIs
<1>6. CASE i >= Half
  <2>1. PICK d \in Nat : d = i - Half
    BY <1>1, <1>6
  <2>2. ~ (i < Half) /\ i >= 0 /\ ~ (i <= - Half)
    BY <1>1, <1>6
  <2>3. FindAutomorphismIndex2n(i) = Mul(m - 1, Five[d] % m)
    BY <2>1, <2>2, IndexIs
  <2>4. Rotated(s, i) = [j \in Slot |-> s[InRow(OtherRow(j), d)]]
    BY <1>2, <1>6, <2>1, <2>2
  <2> QED
    BY <1>3, <2>3, <2>4
<1>7. CASE i < 0 /\ - Half < i
  <2>1. PICK d \in Nat : d = - i
    BY <1>7
  <2>2. ~ (i >= 0) /\ i < Half /\ ~ (i >= Half) /\ ~ (i <= - Half) /\ i = - d
    BY <1>1, <1>7, <2>1
  <2>3. FindAutomorphismIndex2n(i) = Fifth[d] % m
    BY <1>7, <2>1, <2>2, IndexIs
  <2>4. Rotated(s, i) = [j \in Slot |-> s[InRow(j, i)]]
    BY <1>2, <1>7, <2>2
  <2> QED
    BY <1>4, <2>2, <2>3, <2>4
<1>8. CASE i < 0 /\ i <= - Half
  <2>1. PICK d \in Nat, e \in Int : d = - i - Half /\ e = i + Half
    BY <1>1, <1>8
  <2>2. ~ (i >= 0) /\ ~ (- Half < i) /\ ~ (i >= Half) /\ e = - d
    BY <1>1, <1>8, <2>1
  <2>3. FindAutomorphismIndex2n(i) = Mul(m - 1, Fifth[d] % m)
    BY <2>1, <2>2, IndexIs
  <2>4. Rotated(s, i) = [j \in Slot |-> s[InRow(OtherRow(j), e)]]
    BY <1>2, <1>8, <2>1, <2>2
  <2> QED
    BY <1>4, <2>2, <2>3, <2>4
<1> QED
  BY <1>1, <1>5, <1>6, <1>7, <1>8

-----------------------------------------------------------------------------
(* Automorphism indices are odd numbers below m.                           *)

(* The indices an automorphism can have.                                   *)
Odd == {2 * j + 1 : j \in Slot}

(* An odd integer is one of them modulo m, which is even.                  *)
LEMMA OddIs ==
  ASSUME NEW y \in Int, NEW u \in Int, y = 1 + 2 * u
  PROVE  y % m \in Odd
<1>1. Half \in Nat \ {0} /\ m = 4 * Half /\ m \in Nat \ {0}
  BY Sizes
<1>2. PICK r \in 0..(m - 1) : r = y % m
  BY <1>1, ModIs
<1>3. PICK q \in Int : y = q * m + r
  BY <1>1, <1>2, ModIs
<1>4. PICK h \in Int : h = q * Half
  BY <1>1
<1>5. 1 + 2 * u = 4 * h + r
  <2>1. q * m = 4 * (q * Half)
    BY <1>1
  <2> QED
    BY <1>3, <1>4, <2>1
<1>6. PICK j \in Int : j = u - 2 * h
  OBVIOUS
<1>7. r = 2 * j + 1
  BY <1>1, <1>5, <1>6
<1>8. j \in 0..(2 * Half - 1)
  BY <1>1, <1>7
<1> QED
  BY <1>2, <1>7, <1>8, SlotIs DEF Odd

(* The powers of the inverse of 5 are odd.                                 *)
LEMMA FifthOdd ==
  \A k \in Nat : \E u \in Int : Fifth[k] = 1 + 2 * u
<1>1. PICK b \in Int, v \in Int : b = ModInverse(5) /\ b = 1 + 2 * v
  <2>1. Half \in Nat \ {0} /\ m = 4 * Half /\ m \in Nat \ {0}
    BY Sizes
  <2>2. PICK b \in 0..(m - 1) : b = ModInverse(5) /\ (5 * b) % m = 1
    BY <2>1, InverseFive
  <2>3. PICK x \in Int, o \in Int : x = 5 * b /\ o = 1
    BY <2>1
  <2>4. PICK q \in Int : x = o + q * m
    <3>1. x % m = o % m
      BY <2>2, <2>3, OneIs
    <3> QED
      BY <2>1, <3>1, ModSame
  <2>5. PICK h \in Int : h = q * Half
    BY <2>1
  <2>6. 5 * b = 1 + 4 * h
    <3>1. q * m = 4 * (q * Half)
      BY <2>1
    <3> QED
      BY <2>3, <2>4, <2>5, <3>1
  <2>9. b \in Int
    BY <2>1
  <2>7. PICK c \in Int : c = h - b
    BY <2>9
  <2>10. PICK v \in Int : v = 2 * c
    OBVIOUS
  <2>8. b = 1 + 2 * v
    BY <2>9, <2>6, <2>7, <2>10
  <2> QED
    BY <2>2, <2>8, <2>9
<1> DEFINE T == {k \in Nat : \E u \in Int : Fifth[k] = 1 + 2 * u}
<1>2. 0 \in T
  <2>1. Fifth[0] = 1 + 2 * 0
    BY FifthIs
  <2> QED
    BY <2>1
<1>3. ASSUME NEW k \in Nat, k \in T
      PROVE  k + 1 \in T
  <2>1. PICK u \in Int : Fifth[k] = 1 + 2 * u
    BY <1>3
  <2>2. Fifth[k + 1] = (1 + 2 * u) * (1 + 2 * v)
    BY <1>1, <2>1, FifthIs
  <2>3. PICK w \in Int : w = u + v + 2 * (u * v)
    OBVIOUS
  <2>4. Fifth[k + 1] = 1 + 2 * w
    BY <2>2, <2>3
  <2> QED
    BY <2>4
<1> HIDE DEF T
<1>4. Nat \subseteq T
  BY <1>2, <1>3, Induction
<1> QED
  BY <1>4 DEF T

(* So are their negatives.                                                 *)
LEMMA MinusOdd ==
  ASSUME NEW y \in Int, NEW u \in Int, y = 1 + 2 * u
  PROVE  Mul(m - 1, y % m) \in Odd
<1>1. Half \in Nat \ {0} /\ m = 4 * Half /\ m \in Nat \ {0} /\ m - 1 \in Int
  BY Sizes
<1>2. PICK r \in Int : r = y % m
  BY <1>1, ModLeft
<1>3. PICK z \in Int, v \in Int, k \in Int :
        z = m - 1 /\ v = - u - 1 /\ k = - y
  BY <1>1
<1>4. (r * z) % m = (y * z) % m
  <2>1. m \in Nat \ {0}
    BY <1>1
  <2>2. ((y % m) * z) % m = (y * z) % m
    BY <2>1, ModLeft
  <2> QED
    BY <1>2, <2>2
<1>5. y * z = k + y * m /\ r * z = z * r
  BY <1>1, <1>3
<1>6. (k + y * m) % m = k % m
  BY <1>1, ModShift
<1>7. Mul(z, r) = k % m
  BY <1>4, <1>5, <1>6, MulIs
<1>8. k = 1 + 2 * v
  BY <1>3
<1> QED
  BY <1>2, <1>3, <1>7, <1>8, OddIs

(* Every index of a rotation is that of an automorphism.                   *)
LEMMA IndexOdd ==
  ASSUME NEW i \in Int
  PROVE  FindAutomorphismIndex2n(i) \in Odd
<1>1. Half \in Nat \ {0}
  BY Sizes
<1>2. ASSUME NEW k \in Nat
      PROVE  /\ Five[k] % m \in Odd /\ Mul(m - 1, Five[k] % m) \in Odd
             /\ Fifth[k] % m \in Odd /\ Mul(m - 1, Fifth[k] % m) \in Odd
  <2>1. PICK y \in Int, z \in Int : y = Five[k] /\ z = Fifth[k]
    BY FiveIs, FifthIs
  <2>2. PICK u \in Int : y = 1 + 2 * u
    <3>1. PICK w \in Int : y = 1 + 4 * w
      BY <2>1, FiveModFour
    <3>2. y = 1 + 2 * (2 * w) /\ 2 * w \in Int
      BY <3>1
    <3> QED
      BY <3>2
  <2>3. PICK v \in Int : z = 1 + 2 * v
    BY <2>1, FifthOdd
  <2> QED
    BY <2>1, <2>2, <2>3, OddIs, MinusOdd
<1>3. /\ i >= 0 => i \in Nat
      /\ ~ (i < Half) => i - Half \in Nat
      /\ ~ (i >= 0) => - i \in Nat
      /\ ~ (- Half < i) => - i - Half \in Nat
  BY <1>1
<1> QED
  BY <1>2, <1>3, IndexIs

-----------------------------------------------------------------------------
(* The steps of sums, and the keys for them.                               *)

(* Powers of two grow.                                                     *)
LEMMA TwoToGrows ==
  /\ \A k \in Nat : TwoTo[k] > k
  /\ \A j, k \in Nat : j < k => 2 * TwoTo[j] <= TwoTo[k]
  /\ \A j, k \in Nat : j <= k => TwoTo[j] <= TwoTo[k]
<1> DEFINE T == {k \in Nat : TwoTo[k] > k}
<1>1. 0 \in T
  BY TwoToIs
<1>2. ASSUME NEW k \in Nat, k \in T
      PROVE  k + 1 \in T
  <2>1. PICK p \in Nat \ {0} : p = TwoTo[k] /\ TwoTo[k + 1] = 2 * p
    BY TwoToNext
  <2> QED
    BY <1>2, <2>1
<1> HIDE DEF T
<1>3. Nat \subseteq T
  BY <1>1, <1>2, Induction
<1>4. ASSUME NEW j \in Nat
      PROVE  \A k \in Nat : j < k => 2 * TwoTo[j] <= TwoTo[k]
  <2> DEFINE U == {k \in Nat : j < k => 2 * TwoTo[j] <= TwoTo[k]}
  <2>1. 0 \in U
    OBVIOUS
  <2>2. ASSUME NEW k \in Nat, k \in U
        PROVE  k + 1 \in U
    <3>1. PICK p \in Nat \ {0} : p = TwoTo[k] /\ TwoTo[k + 1] = 2 * p
      BY TwoToNext
    <3>2. PICK q \in Nat \ {0} : q = TwoTo[j]
      BY TwoToNext
    <3>3. CASE j < k
      BY <2>2, <3>1, <3>2, <3>3
    <3>4. CASE j = k
      BY <3>1, <3>4
    <3>5. CASE j > k
      BY <3>5
    <3> QED
      BY <3>3, <3>4, <3>5
  <2> HIDE DEF U
  <2>3. Nat \subseteq U
    BY <2>1, <2>2, Induction
  <2> QED
    BY <2>3 DEF U
<1>5. ASSUME NEW j \in Nat, NEW k \in Nat, j <= k
      PROVE  TwoTo[j] <= TwoTo[k]
  <2>1. PICK p \in Nat \ {0} : p = TwoTo[j]
    BY TwoToNext
  <2>2. PICK q \in Nat \ {0} : q = TwoTo[k]
    BY TwoToNext
  <2>3. j < k => 2 * p <= q
    BY <1>4, <2>1, <2>2
  <2>4. j = k => p = q
    BY <2>1, <2>2
  <2> QED
    BY <1>5, <2>1, <2>2, <2>3, <2>4
<1> QED
  BY <1>3, <1>4, <1>5 DEF T

(* CeilLog2 finds a power of two that is enough and no larger.             *)
LEMMA CeilLog2Is ==
  ASSUME NEW b \in 1..n
  PROVE  /\ CeilLog2(b) \in Nat /\ TwoTo[CeilLog2(b)] >= b
         /\ CeilLog2(b) = 0 \/ TwoTo[CeilLog2(b) - 1] < b
<1> DEFINE T == {k \in Nat : TwoTo[k] >= b}
<1>0. n \in Nat
  BY Sizes
<1>1. n \in T
  <2>1. PICK p \in Nat : p = TwoTo[n]
    BY <1>0, TwoToNext
  <2>2. p > n
    BY <1>0, <2>1, TwoToGrows
  <2> QED
    BY <1>0, <2>1, <2>2
<1>2. T \in SUBSET Nat /\ T # {}
  BY <1>1
<1> HIDE DEF T
<1>3. PICK k \in T : \A j \in T : k <= j
  BY <1>2, HasLeast
<1>4. k \in 0..n /\ TwoTo[k] >= b
  BY <1>0, <1>1, <1>2, <1>3 DEF T
<1>5. k = 0 \/ TwoTo[k - 1] < b
  <2> SUFFICES ASSUME k # 0
               PROVE  TwoTo[k - 1] < b
    OBVIOUS
  <2>1. k - 1 \in Nat /\ k - 1 < k
    BY <1>4
  <2>2. k - 1 \notin T
    BY <1>3, <1>4, <2>1
  <2>3. TwoTo[k - 1] \in Nat
    BY <2>1, TwoToNext
  <2> QED
    BY <1>0, <2>1, <2>2, <2>3 DEF T
<1>6. CeilLog2(b) \in 0..n
  BY <1>4, <1>5 DEF CeilLog2
<1> QED
  BY <1>0, <1>4, <1>5, <1>6 DEF CeilLog2

(* It is the least.                                                        *)
LEMMA CeilLog2Least ==
  ASSUME NEW b \in 1..n, NEW k \in Nat, TwoTo[k] >= b
  PROVE  CeilLog2(b) <= k
<1> SUFFICES ASSUME CeilLog2(b) > k
             PROVE  FALSE
  BY CeilLog2Is
<1>1. PICK c \in Nat : c = CeilLog2(b) - 1 /\ k <= c
  BY CeilLog2Is
<1>2. TwoTo[c] < b
  BY <1>1, CeilLog2Is
<1>3. PICK p \in Nat \ {0} : p = TwoTo[c]
  BY <1>1, TwoToNext
<1>4. PICK q \in Nat \ {0} : q = TwoTo[k]
  BY TwoToNext
<1>5. q <= p
  BY <1>1, <1>3, <1>4, TwoToGrows
<1> QED
  BY <1>2, <1>3, <1>4, <1>5, Sizes

(* Of a power of two it is the exponent.                                   *)
LEMMA CeilLog2Exact ==
  ASSUME NEW k \in Nat, TwoTo[k] <= n
  PROVE  CeilLog2(TwoTo[k]) = k
<1>1. PICK p \in Nat \ {0} : p = TwoTo[k]
  BY TwoToNext
<1>2. p \in 1..n
  BY <1>1, Sizes
<1>3. PICK c \in Nat : c = CeilLog2(p) /\ TwoTo[c] >= p
  BY <1>2, CeilLog2Is
<1>4. c <= k
  BY <1>1, <1>2, <1>3, CeilLog2Least
<1>5. ~ (c < k)
  <2>1. ASSUME c < k PROVE FALSE
    <3>1. PICK q \in Nat \ {0} : q = TwoTo[c]
      BY TwoToNext
    <3>2. 2 * q <= p
      BY <1>1, <2>1, <3>1, TwoToGrows
    <3> QED
      BY <1>1, <1>3, <3>1, <3>2
  <2> QED
    BY <2>1
<1> QED
  BY <1>1, <1>3, <1>4, <1>5

(* The base-two logarithm of n, and that of the slots of a row.            *)
LEMMA LogsAre ==
  /\ CeilLog2(n) \in Nat /\ CeilLog2(n) >= 2
  /\ TwoTo[CeilLog2(n)] = n /\ TwoTo[CeilLog2(n) - 1] = Half
<1>1. PICK a \in Nat : Half = TwoTo[a + 1] /\ n = TwoTo[(a + 1) + 1]
  BY SizesAre
<1>2. PICK k \in Nat : k = (a + 1) + 1
  OBVIOUS
<1>3. TwoTo[k] = n /\ TwoTo[k] <= n
  BY <1>1, <1>2, Sizes
<1>4. CeilLog2(TwoTo[k]) = k
  BY <1>3, CeilLog2Exact
<1>5. CeilLog2(n) = k
  BY <1>3, <1>4
<1>6. k - 1 = a + 1 /\ k >= 2
  BY <1>2
<1> QED
  BY <1>1, <1>3, <1>5, <1>6

(* The batch size is a power of two up to the number of slots.             *)
LEMMA BatchIs ==
  /\ batchSize \in 1..n /\ TwoTo[CeilLog2(batchSize)] = batchSize
<1>1. PICK k \in 0..n : batchSize = TwoTo[k] /\ batchSize <= n
  BY AdvancedSHEAssumption
<1>2. k \in Nat /\ TwoTo[k] \in Nat \ {0}
  BY <1>1, Sizes, TwoToNext
<1>3. CeilLog2(TwoTo[k]) = k
  BY <1>1, <1>2, CeilLog2Exact
<1>4. batchSize \in 1..n
  BY <1>1, <1>2, Sizes
<1> QED
  BY <1>1, <1>3, <1>4

(* The squares of the loops are powers of 5, and odd.                      *)
LEMMA SquareIs ==
  ASSUME NEW i \in Nat
  PROVE  Square(i) = Five[TwoTo[i]] % m /\ Square(i) \in Odd
<1>1. PICK k \in Nat : k = TwoTo[i]
  BY TwoToNext
<1>2. Power(5, k) = Five[k] % m
  <2>1. \A g \in Int : Power(g, k) = Exp(g)[k] % m
    BY PowerIs
  <2>2. 5 \in Int
    OBVIOUS
  <2> QED
    BY <2>1, <2>2, Zenon DEF Five
<1>3. PICK y \in Int : y = Five[k]
  BY FiveIs
<1>4. PICK u \in Int : y = 1 + 2 * u
  <2>1. PICK w \in Int : y = 1 + 4 * w
    BY <1>3, FiveModFour
  <2>2. y = 1 + 2 * (2 * w) /\ 2 * w \in Int
    BY <2>1
  <2> QED
    BY <2>2
<1>5. y % m \in Odd
  BY <1>4, OddIs
<1> QED
  BY <1>1, <1>2, <1>3, <1>5 DEF Square

(* The steps of EvalSum_2n one by one: -1 comes last, for all the slots    *)
(* only.                                                                   *)
LEMMA StepsAre ==
  ASSUME NEW b \in 1..n
  PROVE  /\ CeilLog2(b) \in Nat /\ Len(SumSteps(b)) = CeilLog2(b)
         /\ \A i \in 1..CeilLog2(b) :
              SumSteps(b)[i] = IF i = CeilLog2(b) /\ b = n THEN m - 1
                               ELSE Square(i - 1)
         /\ Range(SumSteps(b)) =
              {SumSteps(b)[i] : i \in 1..CeilLog2(b)}
<1>1. PICK c \in Nat : c = CeilLog2(b)
  BY CeilLog2Is
<1>2. 2 * b < m <=> b # n
  BY Sizes
<1>3. SumSteps(b) = [i \in 1..c |-> IF i < c THEN Square(i - 1)
                                    ELSE IF 2 * b < m THEN Square(i - 1)
                                         ELSE m - 1]
  BY <1>1 DEF SumSteps
<1>4. Len(SumSteps(b)) = c
  BY <1>3
<1>5. \A i \in 1..c : SumSteps(b)[i] = IF i = c /\ b = n THEN m - 1
                                       ELSE Square(i - 1)
  <2> SUFFICES ASSUME NEW i \in 1..c
               PROVE  SumSteps(b)[i] = IF i = c /\ b = n THEN m - 1
                                       ELSE Square(i - 1)
    OBVIOUS
  <2>1. i < c <=> i # c
    OBVIOUS
  <2> QED
    BY <1>2, <1>3, <2>1
<1>6. DOMAIN SumSteps(b) = 1..c
  BY <1>3
<1> QED
  BY <1>1, <1>4, <1>5, <1>6 DEF Range

(* The indices that EvalSumKeyGen makes keys for are automorphisms'.       *)
LEMMA GeneratorsOdd == GenerateIndices_2n(batchSize) \subseteq Odd
<1>1. m - 1 \in Odd
  <2>1. m - 1 = 2 * (2 * Half - 1) + 1 /\ 2 * Half - 1 \in Slot
    BY Sizes, SlotIs
  <2> QED
    BY <2>1 DEF Odd
<1>2. PICK c \in Nat : c = CeilLog2(batchSize)
  BY BatchIs, CeilLog2Is
<1>3. batchSize > 1 => c - 1 \in Nat
  <2>1. c = 0 => batchSize = 1
    BY <1>2, BatchIs, TwoToIs
  <2> QED
    BY <1>2, <2>1, BatchIs, Sizes
<1>4. \A i \in 0..(c - 2) : Square(i) \in Odd
  BY SquareIs
<1>5. batchSize > 1 => Square(c - 1) \in Odd
  BY <1>3, SquareIs
<1> QED
  BY <1>1, <1>2, <1>4, <1>5 DEF GenerateIndices_2n

(* The last square of a row is the identity.                               *)
LEMMA LastSquare == Square(CeilLog2(n) - 1) = 1
<1>1. PICK c \in Nat : c = CeilLog2(n) - 1 /\ TwoTo[c] = Half
  BY LogsAre
<1>2. Square(c) = Five[Half] % m
  BY <1>1, SquareIs
<1>3. PICK o \in Nat, e \in Nat : o = 0 /\ e = 1 /\ o + e * Half = Half
  BY Sizes
<1>4. Five[o + e * Half] % m = Five[o] % m
  BY FiveOrder
<1>5. Five[o] = 1 /\ 1 % m = 1
  BY <1>3, FiveIs, OneIs
<1> QED
  BY <1>1, <1>2, <1>3, <1>4, <1>5

(* The generators for batchSize are steps enough for every smaller sum,    *)
(* but for the identity between half and all the slots.                    *)
LEMMA StepsGenerated ==
  ASSUME NEW b \in 2..batchSize
  PROVE  Range(SumSteps(b)) \subseteq
           GenerateIndices_2n(batchSize) \cup IF Between(b) THEN {1} ELSE {}
<1>1. /\ batchSize \in 1..n /\ b \in 1..n /\ b <= batchSize /\ batchSize > 1
      /\ n = 2 * Half /\ Half \in Nat \ {0} /\ m = 4 * Half
  BY BatchIs, Sizes
<1>2. PICK c \in Nat : c = CeilLog2(b)
  BY <1>1, CeilLog2Is
<1>3. PICK d \in Nat : d = CeilLog2(batchSize) /\ TwoTo[d] = batchSize
  BY <1>1, BatchIs, CeilLog2Is
<1>4. c <= d
  <2>1. TwoTo[d] >= b
    BY <1>1, <1>3
  <2> QED
    BY <1>1, <1>2, <2>1, CeilLog2Least
<1>5. SUFFICES ASSUME NEW i \in 1..c
               PROVE  \/ SumSteps(b)[i] \in GenerateIndices_2n(batchSize)
                      \/ Between(b) /\ SumSteps(b)[i] = 1
  <2>1. Range(SumSteps(b)) = {SumSteps(b)[i] : i \in 1..CeilLog2(b)}
    BY <1>1, StepsAre, Zenon
  <2> QED
    BY <1>2, <2>1
<1>6. SumSteps(b)[i] = IF i = c /\ b = n THEN m - 1 ELSE Square(i - 1)
  BY <1>1, <1>2, StepsAre
<1>7. GenerateIndices_2n(batchSize) =
        {Square(j) : j \in 0..(d - 2)} \cup
          {IF 2 * batchSize < m THEN Square(d - 1) ELSE m - 1}
  BY <1>1, <1>3 DEF GenerateIndices_2n
<1>8. CASE b = n
  <2>1. batchSize = n /\ ~ (2 * batchSize < m) /\ c = d
    BY <1>1, <1>2, <1>3, <1>8
  <2>2. CASE i = c
    BY <1>6, <1>7, <1>8, <2>1, <2>2
  <2>3. CASE i # c
    <3>1. i - 1 \in 0..(d - 2)
      BY <2>1, <2>3
    <3> QED
      BY <1>6, <1>7, <2>3, <3>1
  <2> QED
    BY <2>2, <2>3
<1>9. CASE b # n /\ batchSize = n /\ Between(b)
  <2>1. c <= d /\ d = CeilLog2(n)
    BY <1>3, <1>4, <1>9
  <2>2. CASE i = d
    <3>1. PICK l \in Nat : l = CeilLog2(n) - 1 /\ l = i - 1
      BY <2>1, <2>2, LogsAre
    <3>2. Square(l) = 1
      BY <3>1, LastSquare
    <3> QED
      BY <1>6, <1>9, <3>1, <3>2
  <2>3. CASE i # d
    <3>1. i - 1 \in 0..(d - 2)
      BY <2>1, <2>3
    <3> QED
      BY <1>6, <1>7, <1>9, <3>1
  <2> QED
    BY <2>2, <2>3
<1>11. CASE b # n /\ batchSize = n /\ ~ Between(b)
  <2>1. b <= Half
    BY <1>1, <1>11 DEF Between, Half
  <2>2. d = CeilLog2(n)
    BY <1>3, <1>11
  <2>3. d - 1 \in Nat /\ TwoTo[d - 1] >= b
    BY <2>1, <2>2, LogsAre, <1>1
  <2>4. c <= d - 1
    BY <1>1, <1>2, <2>3, CeilLog2Least
  <2>5. i - 1 \in 0..(d - 2)
    BY <2>4
  <2> QED
    BY <1>6, <1>7, <1>11, <2>5
<1>10. CASE b # n /\ batchSize # n
  <2>1. 2 * batchSize < m
    BY <1>1, <1>10
  <2>2. i - 1 \in 0..(d - 2) \/ i - 1 = d - 1
    BY <1>4
  <2> QED
    BY <1>6, <1>7, <1>10, <2>1, <2>2
<1> QED
  BY <1>8, <1>9, <1>10, <1>11

-----------------------------------------------------------------------------
(* Sums and products of any number of operands. U is an operation on V     *)
(* that is associative and commutative and has the neutral element e.      *)

(* Such an operation.                                                      *)
Monoid(V, U, e) ==
  /\ U \in [V \X V -> V] /\ e \in V
  /\ \A x, y, z \in V : U[<<x, U[<<y, z>>]>>] = U[<<U[<<x, y>>], z>>]
  /\ \A x, y \in V : U[<<x, y>>] = U[<<y, x>>]
  /\ \A x \in V : U[<<x, e>>] = x

(* The total of the k values of h from the a-th on.                        *)
Step(V, U, e, h, a) ==
  [p \in V \X Nat |-> IF p[2] = 0 THEN e ELSE U[<<p[1], h[a + p[2] - 1]>>]]

(* That total, by recursion over the number of values.                     *)
Total(V, U, e, h, a, k) ==
  (CHOOSE f : Recurs(f, V, e, Step(V, U, e, h, a)))[k]

(* The laws of the operation.                                              *)
LEMMA MonoidIs ==
  ASSUME NEW V, NEW U, NEW e, Monoid(V, U, e)
  PROVE  /\ U \in [V \X V -> V] /\ e \in V
         /\ \A x, y \in V : U[<<x, y>>] \in V
         /\ \A x, y, z \in V : U[<<x, U[<<y, z>>]>>] = U[<<U[<<x, y>>], z>>]
         /\ \A x, y \in V : U[<<x, y>>] = U[<<y, x>>]
         /\ \A x \in V : U[<<x, e>>] = x /\ U[<<e, x>>] = x
BY DEF Monoid

(* The recursion of totals.                                                *)
LEMMA TotalIs ==
  ASSUME NEW V, NEW U, NEW e, Monoid(V, U, e), NEW h \in [Nat -> V],
         NEW a \in Nat
  PROVE  /\ Total(V, U, e, h, a, 0) = e
         /\ \A k \in Nat :
              /\ Total(V, U, e, h, a, k) \in V
              /\ Total(V, U, e, h, a, k + 1) =
                   U[<<Total(V, U, e, h, a, k), h[a + k]>>]
<1> DEFINE D == Step(V, U, e, h, a)
<1>1. e \in V /\ D \in [V \X Nat -> V]
  <2> SUFFICES ASSUME NEW p \in V \X Nat
               PROVE  (IF p[2] = 0 THEN e ELSE U[<<p[1], h[a + p[2] - 1]>>])
                        \in V
    BY MonoidIs DEF Step
  <2>1. p[1] \in V /\ p[2] \in Nat
    OBVIOUS
  <2>2. p[2] # 0 => a + p[2] - 1 \in Nat
    BY <2>1
  <2>3. p[2] # 0 => h[a + p[2] - 1] \in V
    BY <2>2
  <2> QED
    BY <2>1, <2>3, MonoidIs
<1>2. ASSUME NEW x \in V, NEW k \in Nat
      PROVE  D[<<x, k + 1>>] = U[<<x, h[a + k]>>]
  <2>1. <<x, k + 1>> \in V \X Nat /\ k + 1 # 0 /\ a + (k + 1) - 1 = a + k
    OBVIOUS
  <2> QED
    BY <2>1 DEF Step
<1> HIDE DEF D
<1> DEFINE f == CHOOSE g : Recurs(g, V, e, D)
<1>3. Recurs(f, V, e, D)
  <2>1. \E g : Recurs(g, V, e, D)
    BY <1>1, Recursion
  <2> QED
    BY <2>1
<1> HIDE DEF f
<1>4. \A k : Total(V, U, e, h, a, k) = f[k]
  BY DEF Total, f, D
<1>5. /\ f \in [Nat -> V] /\ f[0] = e
      /\ \A k \in Nat : f[k + 1] = D[<<f[k], k + 1>>]
  BY <1>3 DEF Recurs
<1>6. ASSUME NEW k \in Nat
      PROVE  f[k] \in V /\ f[k + 1] = U[<<f[k], h[a + k]>>]
  BY <1>2, <1>5
<1> QED
  BY <1>4, <1>5, <1>6

(* A total is determined by the values it is of.                           *)
Alike(h, a, g, b, k) == \A i \in 0..(k - 1) : h[a + i] = g[b + i]

(* The same values have the same total.                                    *)
LEMMA TotalSame ==
  ASSUME NEW V, NEW U, NEW e, Monoid(V, U, e),
         NEW h \in [Nat -> V], NEW g \in [Nat -> V],
         NEW a \in Nat, NEW b \in Nat, NEW k \in Nat,
         Alike(h, a, g, b, k)
  PROVE  Total(V, U, e, h, a, k) = Total(V, U, e, g, b, k)
<1> DEFINE T == {j \in Nat : j <= k => Total(V, U, e, h, a, j)
                                         = Total(V, U, e, g, b, j)}
<1>1. 0 \in T
  BY TotalIs
<1>2. ASSUME NEW j \in Nat, j \in T
      PROVE  j + 1 \in T
  <2>1. /\ Total(V, U, e, h, a, j + 1)
             = U[<<Total(V, U, e, h, a, j), h[a + j]>>]
        /\ Total(V, U, e, g, b, j + 1)
             = U[<<Total(V, U, e, g, b, j), g[b + j]>>]
    BY TotalIs
  <2>2. j + 1 <= k => j \in 0..(k - 1) /\ j <= k
    OBVIOUS
  <2> QED
    BY <1>2, <2>1, <2>2 DEF Alike
<1> HIDE DEF T
<1>3. Nat \subseteq T
  BY <1>1, <1>2, Induction
<1> QED
  BY <1>3 DEF T

(* It is that of the first values with that of the others.                 *)
LEMMA TotalSplit ==
  ASSUME NEW V, NEW U, NEW e, Monoid(V, U, e), NEW h \in [Nat -> V],
         NEW a \in Nat, NEW k \in Nat, NEW l \in Nat
  PROVE  Total(V, U, e, h, a, k + l) =
           U[<<Total(V, U, e, h, a, k), Total(V, U, e, h, a + k, l)>>]
<1>0. PICK b \in Nat : b = a + k
  OBVIOUS
<1> DEFINE T == {j \in Nat : Total(V, U, e, h, a, k + j) =
                   U[<<Total(V, U, e, h, a, k),
                       Total(V, U, e, h, b, j)>>]}
<1>1. 0 \in T
  <2>1. Total(V, U, e, h, a, k) \in V
    BY TotalIs
  <2>2. Total(V, U, e, h, b, 0) = e
    BY TotalIs
  <2>3. k + 0 = k
    OBVIOUS
  <2> QED
    BY <2>1, <2>2, <2>3 DEF Monoid
<1>2. ASSUME NEW j \in Nat, j \in T
      PROVE  j + 1 \in T
  <2>1. PICK x \in V : x = Total(V, U, e, h, a, k)
    BY TotalIs
  <2>2. PICK y \in V : y = Total(V, U, e, h, b, j)
    BY TotalIs
  <2>3. PICK z \in V : z = h[b + j]
    OBVIOUS
  <2>4. Total(V, U, e, h, b, j + 1) = U[<<y, z>>]
    BY <2>2, <2>3, TotalIs
  <2>5. Total(V, U, e, h, a, k + (j + 1)) = U[<<U[<<x, y>>], z>>]
    <3>1. k + j \in Nat /\ (k + j) + 1 = k + (j + 1) /\ a + (k + j) = b + j
      BY <1>0
    <3>2. Total(V, U, e, h, a, (k + j) + 1)
            = U[<<Total(V, U, e, h, a, k + j), h[a + (k + j)]>>]
      BY <3>1, TotalIs
    <3> QED
      BY <1>2, <2>1, <2>2, <2>3, <3>1, <3>2
  <2>6. U[<<x, U[<<y, z>>]>>] = U[<<U[<<x, y>>], z>>]
    BY DEF Monoid
  <2> QED
    BY <2>1, <2>4, <2>5, <2>6
<1> HIDE DEF T
<1>3. Nat \subseteq T
  BY <1>1, <1>2, Induction
<1> QED
  BY <1>0, <1>3 DEF T

(* The k values from the a-th on are all e.                                *)
AllAre(e, h, a, k) == \A i \in 0..(k - 1) : h[a + i] = e

(* The total of neutral values is neutral.                                 *)
LEMMA TotalNeutral ==
  ASSUME NEW V, NEW U, NEW e, Monoid(V, U, e), NEW h \in [Nat -> V],
         NEW a \in Nat, NEW k \in Nat, AllAre(e, h, a, k)
  PROVE  Total(V, U, e, h, a, k) = e
<1> DEFINE T == {j \in Nat : j <= k => Total(V, U, e, h, a, j) = e}
<1>1. 0 \in T
  BY TotalIs
<1>2. ASSUME NEW j \in Nat, j \in T
      PROVE  j + 1 \in T
  <2>1. Total(V, U, e, h, a, j + 1)
          = U[<<Total(V, U, e, h, a, j), h[a + j]>>]
    BY TotalIs
  <2>2. j + 1 <= k => j \in 0..(k - 1) /\ j <= k
    OBVIOUS
  <2>3. e \in V /\ U[<<e, e>>] = e
    BY DEF Monoid
  <2> QED
    BY <1>2, <2>1, <2>2, <2>3 DEF AllAre
<1> HIDE DEF T
<1>3. Nat \subseteq T
  BY <1>1, <1>2, Induction
<1> QED
  BY <1>3 DEF T

(* The total of one value is the value.                                    *)
LEMMA TotalOne ==
  ASSUME NEW V, NEW U, NEW e, Monoid(V, U, e), NEW h \in [Nat -> V],
         NEW a \in Nat
  PROVE  Total(V, U, e, h, a, 1) = h[a]
<1>1. /\ Total(V, U, e, h, a, 0 + 1)
           = U[<<Total(V, U, e, h, a, 0), h[a + 0]>>]
      /\ Total(V, U, e, h, a, 0) = e
  BY TotalIs
<1>2. a + 0 = a /\ 0 + 1 = 1
  OBVIOUS
<1>3. PICK x \in V : x = h[a]
  OBVIOUS
<1>4. U[<<e, x>>] = x
  BY DEF Monoid
<1> QED
  BY <1>1, <1>2, <1>3, <1>4

(* Any of the values may be taken first.                                   *)
LEMMA TotalRemove ==
  ASSUME NEW V, NEW U, NEW e, Monoid(V, U, e),
         NEW h \in [Nat -> V], NEW g \in [Nat -> V], NEW x \in Nat,
         g[x] = e, \A i \in Nat : i # x => g[i] = h[i]
  PROVE  \A k \in Nat : x < k => Total(V, U, e, h, 0, k)
                                   = U[<<h[x], Total(V, U, e, g, 0, k)>>]
<1> DEFINE T == {k \in Nat : x < k => Total(V, U, e, h, 0, k)
                                   = U[<<h[x], Total(V, U, e, g, 0, k)>>]}
<1>1. 0 \in T
  OBVIOUS
<1>2. ASSUME NEW k \in Nat, k \in T
      PROVE  k + 1 \in T
  <2>1. 0 \in Nat /\ 0 + k = k
    OBVIOUS
  <2>2. PICK y \in V : y = Total(V, U, e, h, 0, k)
    BY TotalIs
  <2>3. PICK z \in V : z = Total(V, U, e, g, 0, k)
    BY TotalIs
  <2>4. /\ Total(V, U, e, h, 0, k + 1) = U[<<y, h[k]>>]
        /\ Total(V, U, e, g, 0, k + 1) = U[<<z, g[k]>>]
    BY <2>1, <2>2, <2>3, TotalIs
  <2>5. PICK v \in V : v = h[x]
    OBVIOUS
  <2>9. PICK w \in V : w = h[k]
    OBVIOUS
  <2>6. CASE x < k
    <3>1. y = U[<<v, z>>] /\ g[k] = w
      BY <1>2, <2>2, <2>3, <2>5, <2>6, <2>9
    <3>2. U[<<v, U[<<z, w>>]>>] = U[<<U[<<v, z>>], w>>]
      BY DEF Monoid
    <3> QED
      BY <2>4, <2>5, <2>9, <3>1, <3>2
  <2>7. CASE x = k
    <3>0. PICK o \in Nat : o = 0
      OBVIOUS
    <3>1. Alike(h, o, g, o, k)
      BY <2>7, <3>0 DEF Alike
    <3>2. y = z
      <4>1. Total(V, U, e, h, o, k) = Total(V, U, e, g, o, k)
        BY <3>1, TotalSame
      <4> QED
        BY <2>2, <2>3, <3>0, <4>1
    <3>3. U[<<z, e>>] = z /\ U[<<z, v>>] = U[<<v, z>>]
      BY DEF Monoid
    <3> QED
      BY <2>4, <2>5, <2>7, <3>2, <3>3
  <2>8. CASE k < x
    BY <2>8
  <2> QED
    BY <2>6, <2>7, <2>8
<1> HIDE DEF T
<1>3. Nat \subseteq T
  BY <1>1, <1>2, Induction
<1> QED
  BY <1>3 DEF T

-----------------------------------------------------------------------------
(* FoldFunction of the community modules takes the values in any order.    *)

(* The values of F on the set s, and neutral ones elsewhere.               *)
Cut(F, s, e) == [i \in Nat |-> IF i \in s THEN F[i] ELSE e]

(* A total over a set of numbers can be taken in any order.                *)
LEMMA TotalOfSubset ==
  ASSUME NEW V, NEW U, NEW e, Monoid(V, U, e), NEW K \in Nat,
         NEW S \in SUBSET (0..(K - 1)), NEW F \in [S -> V],
         NEW s \in SUBSET S
  PROVE  /\ Total(V, U, e, Cut(F, s, e), 0, K) \in V
         /\ s = {} => Total(V, U, e, Cut(F, s, e), 0, K) = e
         /\ \A x \in s :
              Total(V, U, e, Cut(F, s, e), 0, K) =
                U[<<F[x], Total(V, U, e, Cut(F, s \ {x}, e), 0, K)>>]
<1>1. e \in V
  BY MonoidIs
<1>2. \A r \in SUBSET S : Cut(F, r, e) \in [Nat -> V]
  BY <1>1 DEF Cut
<1>3. Total(V, U, e, Cut(F, s, e), 0, K) \in V
  BY <1>2, TotalIs
<1>4. ASSUME s = {} PROVE Total(V, U, e, Cut(F, s, e), 0, K) = e
  <2>1. PICK g \in [Nat -> V] : g = Cut(F, s, e)
    BY <1>2
  <2>2. PICK o \in Nat : o = 0
    OBVIOUS
  <2>3. AllAre(e, g, o, K)
    BY <1>4, <2>1, <2>2 DEF Cut, AllAre
  <2>4. Total(V, U, e, g, o, K) = e
    BY <2>3, TotalNeutral
  <2> QED
    BY <2>1, <2>2, <2>4
<1>5. ASSUME NEW x \in s
      PROVE  Total(V, U, e, Cut(F, s, e), 0, K) =
                U[<<F[x], Total(V, U, e, Cut(F, s \ {x}, e), 0, K)>>]
  <2>1. PICK h \in [Nat -> V] : h = Cut(F, s, e)
    BY <1>2
  <2>2. PICK g \in [Nat -> V] : g = Cut(F, s \ {x}, e)
    <3>1. s \ {x} \in SUBSET S
      OBVIOUS
    <3> QED
      BY <1>2, <3>1
  <2>3. x \in Nat /\ x < K
    OBVIOUS
  <2>4. h[x] = F[x] /\ g[x] = e /\ \A i \in Nat : i # x => g[i] = h[i]
    BY <2>1, <2>2, <2>3 DEF Cut
  <2>5. Total(V, U, e, h, 0, K) = U[<<h[x], Total(V, U, e, g, 0, K)>>]
    BY <2>3, <2>4, TotalRemove
  <2> QED
    BY <2>1, <2>2, <2>4, <2>5
<1> QED
  BY <1>3, <1>4, <1>5

(* What a recursion over the subsets of S comes to.                        *)
Iterates(V, U, e, S, F, iter) ==
  /\ iter[{}] = e
  /\ \A s \in SUBSET S :
       s # {} => \E x \in s : iter[s \ {x}] \in V
                                => iter[s] = U[<<F[x], iter[s \ {x}]>>]

(* So whatever element it picks, a fold is the total.                      *)
LEMMA IterIs ==
  ASSUME NEW V, NEW U, NEW e, Monoid(V, U, e), NEW K \in Nat,
         NEW S \in SUBSET (0..(K - 1)), NEW F \in [S -> V], NEW iter,
         Iterates(V, U, e, S, F, iter)
  PROVE  iter[S] = Total(V, U, e, Cut(F, S, e), 0, K)
<1> DEFINE G(s) == Total(V, U, e, Cut(F, s, e), 0, K)
           T == {k \in Nat : \A s \in SUBSET S :
                               Cardinality(s) = k => iter[s] = G(s)}
<1>1. /\ IsFiniteSet(S)
      /\ \A s \in SUBSET S : IsFiniteSet(s) /\ Cardinality(s) \in Nat
  <2>1. IsFiniteSet(0..(K - 1))
    BY FS_Interval
  <2>2. IsFiniteSet(S) /\ \A s \in SUBSET S : IsFiniteSet(s)
    BY <2>1, FS_Subset
  <2> QED
    BY <2>2, FS_CardinalityType
<1>2. \A s \in SUBSET S : /\ G(s) \in V /\ (s = {} => G(s) = e)
                          /\ \A x \in s : G(s) = U[<<F[x], G(s \ {x})>>]
  BY TotalOfSubset
<1> HIDE DEF G
<1>3. 0 \in T
  <2> SUFFICES ASSUME NEW s \in SUBSET S, Cardinality(s) = 0
               PROVE  iter[s] = G(s)
    OBVIOUS
  <2>1. s = {}
    BY <1>1, FS_EmptySet
  <2> QED
    BY <1>2, <2>1 DEF Iterates
<1>4. ASSUME NEW k \in Nat, k \in T
      PROVE  k + 1 \in T
  <2> SUFFICES ASSUME NEW s \in SUBSET S, Cardinality(s) = k + 1
               PROVE  iter[s] = G(s)
    OBVIOUS
  <2>1. s # {}
    <3>1. Cardinality({}) = 0 /\ k + 1 # 0
      BY FS_EmptySet
    <3>2. ASSUME s = {} PROVE FALSE
      BY <3>1, <3>2
    <3> QED
      BY <3>2
  <2>2. PICK x \in s : iter[s \ {x}] \in V
                         => iter[s] = U[<<F[x], iter[s \ {x}]>>]
    BY <2>1 DEF Iterates
  <2>3. s \ {x} \in SUBSET S /\ Cardinality(s \ {x}) = k
    <3>1. Cardinality(s \ {x}) = Cardinality(s) - 1
      BY <1>1, FS_RemoveElement
    <3> QED
      BY <3>1
  <2>4. iter[s \ {x}] = G(s \ {x}) /\ G(s \ {x}) \in V
    BY <1>2, <1>4, <2>3
  <2> QED
    BY <1>2, <2>2, <2>4
<1> HIDE DEF T
<1>5. Cardinality(S) \in T
  <2>1. Nat \subseteq T
    BY <1>3, <1>4, Induction
  <2> QED
    BY <1>1, <2>1
<1> QED
  BY <1>5 DEF T, G

-----------------------------------------------------------------------------
(* The operations that are folded: of integers, of residues modulo t, of   *)
(* truth values.                                                           *)

(* Sums of integers.                                                       *)
PlusInt == [p \in Int \X Int |-> p[1] + p[2]]
(* Products of integers.                                                   *)
TimesInt == [p \in Int \X Int |-> p[1] * p[2]]
(* Sums of residues.                                                       *)
PlusRes == [p \in Residue \X Residue |-> (p[1] + p[2]) % t]
(* Products of residues.                                                   *)
TimesRes == [p \in Residue \X Residue |-> (p[1] * p[2]) % t]
(* Conjunctions.                                                           *)
And == [p \in BOOLEAN \X BOOLEAN |-> p[1] /\ p[2]]

(* The residues modulo t.                                                  *)
LEMMA ResidueIs ==
  /\ t \in Nat \ {0} /\ t > 1 /\ Residue = 0..(t - 1)
  /\ 0 \in Residue /\ 1 \in Residue
  /\ Residue \subseteq Int /\ \A x \in Residue : x % t = x
  /\ \A x \in Int : x % t \in Residue
<1>1. t \in Nat \ {0} /\ t > 1 /\ Residue = 0..(t - 1)
  BY AdvancedSHEAssumption DEF Residue
<1>2. \A x \in Residue : x % t = x
  BY <1>1, ModSmall
<1>3. \A x \in Int : x % t \in Residue
  BY <1>1, ModIs
<1> QED
  BY <1>1, <1>2, <1>3

(* Integers form monoids under + and *.                                    *)
LEMMA IntMonoids ==
  /\ Monoid(Int, PlusInt, 0) /\ Monoid(Int, TimesInt, 1)
  /\ \A x, y \in Int : PlusInt[<<x, y>>] = x + y /\ TimesInt[<<x, y>>] = x * y
<1>1. \A x, y \in Int : PlusInt[<<x, y>>] = x + y
  BY DEF PlusInt
<1>2. \A x, y \in Int : TimesInt[<<x, y>>] = x * y
  BY DEF TimesInt
<1>3. PlusInt \in [Int \X Int -> Int] /\ TimesInt \in [Int \X Int -> Int]
  BY DEF PlusInt, TimesInt
<1>4. Monoid(Int, PlusInt, 0)
  <2>1. \A x, y \in Int : x + y \in Int
    OBVIOUS
  <2>2. \A x, y, z \in Int : x + (y + z) = (x + y) + z /\ x + y = y + x
                             /\ x + 0 = x
    OBVIOUS
  <2> QED
    BY <1>1, <1>3, <2>1, <2>2 DEF Monoid
<1>5. Monoid(Int, TimesInt, 1)
  <2>1. \A x, y \in Int : x * y \in Int
    OBVIOUS
  <2>2. \A x, y, z \in Int : x * (y * z) = (x * y) * z /\ x * y = y * x
                             /\ x * 1 = x
    OBVIOUS
  <2> QED
    BY <1>2, <1>3, <2>1, <2>2 DEF Monoid
<1> QED
  BY <1>1, <1>2, <1>4, <1>5

(* Residues form a monoid under addition modulo t.                         *)
LEMMA PlusResIs ==
  /\ Monoid(Residue, PlusRes, 0)
  /\ \A x, y \in Residue : PlusRes[<<x, y>>] = (x + y) % t
<1>1. \A x, y \in Residue : PlusRes[<<x, y>>] = (x + y) % t
  BY DEF PlusRes
<1>2. \A x, y \in Residue : x + y \in Int /\ (x + y) % t \in Residue
  BY ResidueIs
<1>3. PlusRes \in [Residue \X Residue -> Residue]
  BY <1>2 DEF PlusRes
<1>4. \A x, y \in Residue : PlusRes[<<x, y>>] = PlusRes[<<y, x>>]
  <2> SUFFICES ASSUME NEW x \in Residue, NEW y \in Residue
               PROVE  PlusRes[<<x, y>>] = PlusRes[<<y, x>>]
    OBVIOUS
  <2>1. x \in Int /\ y \in Int
    BY ResidueIs
  <2>2. x + y = y + x
    BY <2>1
  <2> QED
    BY <1>1, <2>2
<1>5. \A x \in Residue : PlusRes[<<x, 0>>] = x
  <2>1. \A x \in Residue : x + 0 = x /\ x % t = x /\ 0 \in Residue
    BY ResidueIs
  <2> QED
    BY <1>1, <2>1
<1>6. ASSUME NEW x \in Residue, NEW y \in Residue, NEW z \in Residue
      PROVE  PlusRes[<<x, PlusRes[<<y, z>>]>>]
               = PlusRes[<<PlusRes[<<x, y>>], z>>]
  <2>1. PICK a \in Int, b \in Int, c \in Int : a = x /\ b = y /\ c = z
    BY ResidueIs
  <2>2. PICK v \in Int : v = a + b
    OBVIOUS
  <2>3. PICK w \in Int : w = b + c
    OBVIOUS
  <2>4. PlusRes[<<PlusRes[<<x, y>>], z>>] = ((v % t) + c) % t
    <3>1. PICK p \in Residue : p = v % t /\ PlusRes[<<x, y>>] = p
      BY <1>1, <1>2, <2>1, <2>2
    <3>2. PlusRes[<<p, z>>] = (p + z) % t
      BY <1>1
    <3> QED
      BY <2>1, <3>1, <3>2
  <2>5. PlusRes[<<x, PlusRes[<<y, z>>]>>] = ((w % t) + a) % t
    <3>1. PlusRes[<<PlusRes[<<y, z>>], x>>] = ((w % t) + a) % t
      BY <1>1, <1>2, <2>1, <2>3
    <3>2. PlusRes[<<y, z>>] \in Residue
      BY <1>1, <1>2
    <3> QED
      BY <1>4, <3>1, <3>2
  <2>6. /\ ((v % t) + c) % t = (v + c) % t
        /\ ((w % t) + a) % t = (w + a) % t
    <3>1. t \in Nat \ {0}
      BY ResidueIs
    <3>2. ((v % t) + c) % t = (v + c) % t
      BY <3>1, ModLeft
    <3>3. ((w % t) + a) % t = (w + a) % t
      BY <3>1, ModLeft
    <3> QED
      BY <3>2, <3>3
  <2>7. v + c = w + a
    BY <2>2, <2>3
  <2> QED
    BY <2>4, <2>5, <2>6, <2>7
<1>7. 0 \in Residue
  BY ResidueIs
<1> QED
  BY <1>1, <1>3, <1>4, <1>5, <1>6, <1>7 DEF Monoid

(* They form one under multiplication modulo t.                            *)
LEMMA TimesResIs ==
  /\ Monoid(Residue, TimesRes, 1)
  /\ \A x, y \in Residue : TimesRes[<<x, y>>] = (x * y) % t
<1>1. \A x, y \in Residue : TimesRes[<<x, y>>] = (x * y) % t
  BY DEF TimesRes
<1>2. \A x, y \in Residue : x * y \in Int /\ (x * y) % t \in Residue
  BY ResidueIs
<1>3. TimesRes \in [Residue \X Residue -> Residue]
  BY <1>2 DEF TimesRes
<1>4. \A x, y \in Residue : TimesRes[<<x, y>>] = TimesRes[<<y, x>>]
  <2> SUFFICES ASSUME NEW x \in Residue, NEW y \in Residue
               PROVE  TimesRes[<<x, y>>] = TimesRes[<<y, x>>]
    OBVIOUS
  <2>1. x \in Int /\ y \in Int
    BY ResidueIs
  <2>2. x * y = y * x
    BY <2>1
  <2> QED
    BY <1>1, <2>2
<1>5. \A x \in Residue : TimesRes[<<x, 1>>] = x
  <2>1. \A x \in Residue : x * 1 = x /\ x % t = x /\ 1 \in Residue
    BY ResidueIs
  <2> QED
    BY <1>1, <2>1
<1>6. ASSUME NEW x \in Residue, NEW y \in Residue, NEW z \in Residue
      PROVE  TimesRes[<<x, TimesRes[<<y, z>>]>>]
               = TimesRes[<<TimesRes[<<x, y>>], z>>]
  <2>1. PICK a \in Int, b \in Int, c \in Int : a = x /\ b = y /\ c = z
    BY ResidueIs
  <2>2. PICK v \in Int : v = a * b
    OBVIOUS
  <2>3. PICK w \in Int : w = b * c
    OBVIOUS
  <2>4. TimesRes[<<TimesRes[<<x, y>>], z>>] = ((v % t) * c) % t
    <3>1. PICK p \in Residue : p = v % t /\ TimesRes[<<x, y>>] = p
      BY <1>1, <1>2, <2>1, <2>2
    <3>2. TimesRes[<<p, z>>] = (p * z) % t
      BY <1>1
    <3> QED
      BY <2>1, <3>1, <3>2
  <2>5. TimesRes[<<x, TimesRes[<<y, z>>]>>] = ((w % t) * a) % t
    <3>1. TimesRes[<<TimesRes[<<y, z>>], x>>] = ((w % t) * a) % t
      BY <1>1, <1>2, <2>1, <2>3
    <3>2. TimesRes[<<y, z>>] \in Residue
      BY <1>1, <1>2
    <3> QED
      BY <1>4, <3>1, <3>2
  <2>6. /\ ((v % t) * c) % t = (v * c) % t
        /\ ((w % t) * a) % t = (w * a) % t
    <3>1. t \in Nat \ {0}
      BY ResidueIs
    <3>2. ((v % t) * c) % t = (v * c) % t
      BY <3>1, ModLeft
    <3>3. ((w % t) * a) % t = (w * a) % t
      BY <3>1, ModLeft
    <3> QED
      BY <3>2, <3>3
  <2>7. v * c = w * a
    BY <2>2, <2>3
  <2> QED
    BY <2>4, <2>5, <2>6, <2>7
<1>7. 1 \in Residue
  BY ResidueIs
<1> QED
  BY <1>1, <1>3, <1>4, <1>5, <1>6, <1>7 DEF Monoid

(* Truth values form one under conjunction.                                *)
LEMMA AndIs ==
  /\ Monoid(BOOLEAN, And, TRUE)
  /\ \A x, y \in BOOLEAN : And[<<x, y>>] = (x /\ y)
<1>1. \A x, y \in BOOLEAN : And[<<x, y>>] = (x /\ y)
  BY DEF And
<1>2. And \in [BOOLEAN \X BOOLEAN -> BOOLEAN]
  BY DEF And
<1>3. \A x, y, z \in BOOLEAN :
        And[<<x, And[<<y, z>>]>>] = And[<<And[<<x, y>>], z>>]
  <2> SUFFICES ASSUME NEW x \in BOOLEAN, NEW y \in BOOLEAN, NEW z \in BOOLEAN
               PROVE  And[<<x, And[<<y, z>>]>>] = And[<<And[<<x, y>>], z>>]
    OBVIOUS
  <2>1. x = TRUE \/ x = FALSE
    OBVIOUS
  <2>2. z = TRUE \/ z = FALSE
    OBVIOUS
  <2>3. y = TRUE \/ y = FALSE
    OBVIOUS
  <2>4. /\ And[<<TRUE, TRUE>>] = TRUE /\ And[<<TRUE, FALSE>>] = FALSE
        /\ And[<<FALSE, TRUE>>] = FALSE /\ And[<<FALSE, FALSE>>] = FALSE
    BY <1>1
  <2> QED
    BY <2>1, <2>2, <2>3, <2>4
<1>4. \A x, y \in BOOLEAN : And[<<x, y>>] = And[<<y, x>>]
  BY <1>1
<1>5. \A x \in BOOLEAN : And[<<x, TRUE>>] = x
  BY <1>1
<1> QED
  BY <1>1, <1>2, <1>3, <1>4, <1>5 DEF Monoid

-----------------------------------------------------------------------------
(* The folds of the model.                                                 *)

(* Folding + over a function on numbers is the total of its values.        *)
LEMMA FoldPlusIs ==
  ASSUME NEW K \in Nat, NEW S \in SUBSET (0..(K - 1)), NEW F \in [S -> Int]
  PROVE  FoldFunction(+, 0, F) = Total(Int, PlusInt, 0, Cut(F, S, 0), 0, K)
<1>0. PICK o : o = 0 /\ Monoid(Int, PlusInt, o)
  BY IntMonoids
<1> DEFINE G(s) == Total(Int, PlusInt, o, Cut(F, s, o), 0, K)
           iter[s \in SUBSET S] ==
             IF s = {} THEN 0
             ELSE F[CHOOSE x \in s : TRUE] + iter[s \ {CHOOSE x \in s : TRUE}]
           g == [s \in SUBSET S |-> G(s)]
<1>1. FoldFunction(+, 0, F) = iter[S]
  <2>1. DOMAIN F = S
    OBVIOUS
  <2> QED
    BY <2>1 DEF FoldFunction, FoldFunctionOnSet, MapThenFoldSet
<1>2. \A s \in SUBSET S : /\ G(s) \in Int /\ (s = {} => G(s) = o)
                          /\ \A x \in s : G(s) = F[x] + G(s \ {x})
  <2> SUFFICES ASSUME NEW s \in SUBSET S
               PROVE  /\ G(s) \in Int /\ (s = {} => G(s) = o)
                      /\ \A x \in s : G(s) = F[x] + G(s \ {x})
    OBVIOUS
  <2>1. /\ G(s) \in Int /\ (s = {} => G(s) = o)
        /\ \A x \in s : G(s) = PlusInt[<<F[x], G(s \ {x})>>]
    BY <1>0, TotalOfSubset
  <2>2. \A x \in s : F[x] \in Int /\ G(s \ {x}) \in Int
    <3> SUFFICES ASSUME NEW x \in s PROVE G(s \ {x}) \in Int
      OBVIOUS
    <3>1. s \ {x} \in SUBSET S
      OBVIOUS
    <3> QED
      BY <3>1, <1>0, TotalOfSubset
  <2> HIDE DEF G
  <2>3. ASSUME NEW x \in s
        PROVE  G(s) = F[x] + G(s \ {x})
    <3>1. G(s) = PlusInt[<<F[x], G(s \ {x})>>]
      BY <2>1
    <3>2. F[x] \in Int /\ G(s \ {x}) \in Int
      BY <2>2
    <3>3. \A y, z \in Int : PlusInt[<<y, z>>] = y + z
      BY IntMonoids
    <3> QED
      BY <3>1, <3>2, <3>3
  <2> QED
    BY <2>1, <2>3
<1> HIDE DEF G
<1>3. g = [s \in SUBSET S |->
             IF s = {} THEN 0
             ELSE F[CHOOSE x \in s : TRUE] + g[s \ {CHOOSE x \in s : TRUE}]]
  <2> SUFFICES ASSUME NEW s \in SUBSET S, s # {}
               PROVE  G(s) = F[CHOOSE x \in s : TRUE]
                               + g[s \ {CHOOSE x \in s : TRUE}]
    BY <1>0, <1>2
  <2>1. PICK y \in s : y = CHOOSE x \in s : TRUE
    OBVIOUS
  <2>2. g[s \ {y}] = G(s \ {y})
    OBVIOUS
  <2> QED
    BY <1>2, <2>1, <2>2
<1>4. iter = [s \in SUBSET S |->
             IF s = {} THEN 0
             ELSE F[CHOOSE x \in s : TRUE]
                    + iter[s \ {CHOOSE x \in s : TRUE}]]
  <2> HIDE DEF g
  <2> QED
    BY <1>3
<1> HIDE DEF iter
<1>5. iter[{}] = o
  BY <1>0, <1>4
<1>6. ASSUME NEW s \in SUBSET S, s # {}
      PROVE  \E x \in s : iter[s \ {x}] \in Int
                 => iter[s] = PlusInt[<<F[x], iter[s \ {x}]>>]
  <2>1. PICK y \in s : y = CHOOSE x \in s : TRUE
    BY <1>6
  <2>2. iter[s] = F[y] + iter[s \ {y}] /\ F[y] \in Int
    BY <1>4, <1>6, <2>1
  <2> QED
    BY <2>2, IntMonoids
<1>7. iter[S] = Total(Int, PlusInt, o, Cut(F, S, o), 0, K)
  <2>1. Iterates(Int, PlusInt, o, S, F, iter)
    BY <1>5, <1>6 DEF Iterates
  <2> QED
    BY <1>0, <2>1, IterIs
<1> QED
  BY <1>0, <1>1, <1>7

(* Folding * is the product of its values.                                 *)
LEMMA FoldTimesIs ==
  ASSUME NEW K \in Nat, NEW S \in SUBSET (0..(K - 1)), NEW F \in [S -> Int]
  PROVE  FoldFunction( * , 1, F) = Total(Int, TimesInt, 1, Cut(F, S, 1), 0, K)
<1>0. PICK o : o = 1 /\ Monoid(Int, TimesInt, o)
  BY IntMonoids
<1> DEFINE G(s) == Total(Int, TimesInt, o, Cut(F, s, o), 0, K)
           iter[s \in SUBSET S] ==
             IF s = {} THEN 1
             ELSE F[CHOOSE x \in s : TRUE] * iter[s \ {CHOOSE x \in s : TRUE}]
           g == [s \in SUBSET S |-> G(s)]
<1>1. FoldFunction( * , 1, F) = iter[S]
  <2>1. DOMAIN F = S
    OBVIOUS
  <2> QED
    BY <2>1 DEF FoldFunction, FoldFunctionOnSet, MapThenFoldSet
<1>2. \A s \in SUBSET S : /\ G(s) \in Int /\ (s = {} => G(s) = o)
                          /\ \A x \in s : G(s) = F[x] * G(s \ {x})
  <2> SUFFICES ASSUME NEW s \in SUBSET S
               PROVE  /\ G(s) \in Int /\ (s = {} => G(s) = o)
                      /\ \A x \in s : G(s) = F[x] * G(s \ {x})
    OBVIOUS
  <2>1. /\ G(s) \in Int /\ (s = {} => G(s) = o)
        /\ \A x \in s : G(s) = TimesInt[<<F[x], G(s \ {x})>>]
    BY <1>0, TotalOfSubset
  <2>2. \A x \in s : F[x] \in Int /\ G(s \ {x}) \in Int
    <3> SUFFICES ASSUME NEW x \in s PROVE G(s \ {x}) \in Int
      OBVIOUS
    <3>1. s \ {x} \in SUBSET S
      OBVIOUS
    <3> QED
      BY <3>1, <1>0, TotalOfSubset
  <2> HIDE DEF G
  <2>3. ASSUME NEW x \in s
        PROVE  G(s) = F[x] * G(s \ {x})
    <3>1. G(s) = TimesInt[<<F[x], G(s \ {x})>>]
      BY <2>1
    <3>2. F[x] \in Int /\ G(s \ {x}) \in Int
      BY <2>2
    <3>3. \A y, z \in Int : TimesInt[<<y, z>>] = y * z
      BY IntMonoids
    <3> QED
      BY <3>1, <3>2, <3>3
  <2> QED
    BY <2>1, <2>3
<1> HIDE DEF G
<1>3. g = [s \in SUBSET S |->
             IF s = {} THEN 1
             ELSE F[CHOOSE x \in s : TRUE] * g[s \ {CHOOSE x \in s : TRUE}]]
  <2> SUFFICES ASSUME NEW s \in SUBSET S, s # {}
               PROVE  G(s) = F[CHOOSE x \in s : TRUE]
                               * g[s \ {CHOOSE x \in s : TRUE}]
    BY <1>0, <1>2
  <2>1. PICK y \in s : y = CHOOSE x \in s : TRUE
    OBVIOUS
  <2>2. g[s \ {y}] = G(s \ {y})
    OBVIOUS
  <2> QED
    BY <1>2, <2>1, <2>2
<1>4. iter = [s \in SUBSET S |->
             IF s = {} THEN 1
             ELSE F[CHOOSE x \in s : TRUE]
                    * iter[s \ {CHOOSE x \in s : TRUE}]]
  <2> HIDE DEF g
  <2> QED
    BY <1>3
<1> HIDE DEF iter
<1>5. iter[{}] = o
  BY <1>0, <1>4
<1>6. ASSUME NEW s \in SUBSET S, s # {}
      PROVE  \E x \in s : iter[s \ {x}] \in Int
                 => iter[s] = TimesInt[<<F[x], iter[s \ {x}]>>]
  <2>1. PICK y \in s : y = CHOOSE x \in s : TRUE
    BY <1>6
  <2>2. iter[s] = F[y] * iter[s \ {y}] /\ F[y] \in Int
    BY <1>4, <1>6, <2>1
  <2> QED
    BY <2>2, IntMonoids
<1>7. iter[S] = Total(Int, TimesInt, o, Cut(F, S, o), 0, K)
  <2>1. Iterates(Int, TimesInt, o, S, F, iter)
    BY <1>5, <1>6 DEF Iterates
  <2> QED
    BY <1>0, <2>1, IterIs
<1> QED
  BY <1>0, <1>1, <1>7

(* Reducing at every step is reducing at the end.                          *)
LEMMA TotalReduced ==
  ASSUME NEW h \in [Nat -> Residue], NEW a \in Nat
  PROVE  \A k \in Nat :
           /\ Total(Int, PlusInt, 0, h, a, k) % t
                = Total(Residue, PlusRes, 0, h, a, k)
           /\ Total(Int, TimesInt, 1, h, a, k) % t
                = Total(Residue, TimesRes, 1, h, a, k)
<1> DEFINE A(k) == Total(Int, PlusInt, 0, h, a, k)
           B(k) == Total(Residue, PlusRes, 0, h, a, k)
           C(k) == Total(Int, TimesInt, 1, h, a, k)
           D(k) == Total(Residue, TimesRes, 1, h, a, k)
<1>0. h \in [Nat -> Int] /\ t \in Nat \ {0}
  BY ResidueIs
<1>1. PICK o : o = 0 /\ Monoid(Int, PlusInt, o) /\ Monoid(Residue, PlusRes, o)
  BY IntMonoids, PlusResIs
<1>2. PICK u : u = 1 /\ Monoid(Int, TimesInt, u)
                    /\ Monoid(Residue, TimesRes, u)
  BY IntMonoids, TimesResIs
<1>3. /\ A(0) = o
      /\ \A k \in Nat : A(k) \in Int /\ A(k + 1) = PlusInt[<<A(k), h[a + k]>>]
  <2> DEFINE F(k) == Total(Int, PlusInt, o, h, a, k)
  <2>1. /\ F(0) = o
        /\ \A k \in Nat :
             F(k) \in Int /\ F(k + 1) = PlusInt[<<F(k), h[a + k]>>]
    BY <1>0, <1>1, TotalIs
  <2> QED
    BY <1>1, <2>1
<1>4. /\ B(0) = o
      /\ \A k \in Nat :
           B(k) \in Residue /\ B(k + 1) = PlusRes[<<B(k), h[a + k]>>]
  <2> DEFINE F(k) == Total(Residue, PlusRes, o, h, a, k)
  <2>1. /\ F(0) = o
        /\ \A k \in Nat :
             F(k) \in Residue /\ F(k + 1) = PlusRes[<<F(k), h[a + k]>>]
    BY <1>1, TotalIs
  <2> QED
    BY <1>1, <2>1
<1>5. /\ C(0) = u
      /\ \A k \in Nat : C(k) \in Int /\ C(k + 1) = TimesInt[<<C(k), h[a + k]>>]
  <2> DEFINE F(k) == Total(Int, TimesInt, u, h, a, k)
  <2>1. /\ F(0) = u
        /\ \A k \in Nat :
             F(k) \in Int /\ F(k + 1) = TimesInt[<<F(k), h[a + k]>>]
    BY <1>0, <1>2, TotalIs
  <2> QED
    BY <1>2, <2>1
<1>6. /\ D(0) = u
      /\ \A k \in Nat :
           D(k) \in Residue /\ D(k + 1) = TimesRes[<<D(k), h[a + k]>>]
  <2> DEFINE F(k) == Total(Residue, TimesRes, u, h, a, k)
  <2>1. /\ F(0) = u
        /\ \A k \in Nat :
             F(k) \in Residue /\ F(k + 1) = TimesRes[<<F(k), h[a + k]>>]
    BY <1>2, TotalIs
  <2> QED
    BY <1>2, <2>1
<1> HIDE DEF A, B, C, D
<1> DEFINE T == {k \in Nat : A(k) % t = B(k) /\ C(k) % t = D(k)}
<1>7. 0 \in T
  <2>1. o % t = o /\ u % t = u
    BY <1>1, <1>2, ResidueIs
  <2> QED
    BY <1>3, <1>4, <1>5, <1>6, <2>1
<1>8. ASSUME NEW k \in Nat, k \in T
      PROVE  k + 1 \in T
  <2>1. PICK x \in Int, y \in Int : x = A(k) /\ y = C(k)
    BY <1>3, <1>5
  <2>2. PICK z \in Residue : z = h[a + k]
    OBVIOUS
  <2>3. z \in Int
    BY ResidueIs
  <2>4. A(k + 1) = x + z /\ C(k + 1) = y * z
    <3>1. A(k + 1) = PlusInt[<<x, z>>] /\ C(k + 1) = TimesInt[<<y, z>>]
      BY <1>3, <1>5, <2>1, <2>2
    <3>2. PlusInt[<<x, z>>] = x + z /\ TimesInt[<<y, z>>] = y * z
      BY <2>3, IntMonoids
    <3> QED
      BY <3>1, <3>2
  <2>5. B(k) = x % t /\ D(k) = y % t
    BY <1>8, <2>1
  <2>6. B(k + 1) = ((x % t) + z) % t
    <3>1. PICK v \in Residue : v = B(k)
      BY <1>4
    <3>2. B(k + 1) = PlusRes[<<v, z>>]
      BY <1>4, <2>2, <3>1
    <3>3. PlusRes[<<v, z>>] = (v + z) % t
      BY PlusResIs
    <3> QED
      BY <2>5, <3>1, <3>2, <3>3
  <2>7. D(k + 1) = ((y % t) * z) % t
    <3>1. PICK v \in Residue : v = D(k)
      BY <1>6
    <3>2. D(k + 1) = TimesRes[<<v, z>>]
      BY <1>6, <2>2, <3>1
    <3>3. TimesRes[<<v, z>>] = (v * z) % t
      BY TimesResIs
    <3> QED
      BY <2>5, <3>1, <3>2, <3>3
  <2>8. ((x % t) + z) % t = (x + z) % t
    BY <1>0, <2>3, ModLeft
  <2>9. ((y % t) * z) % t = (y * z) % t
    BY <1>0, <2>3, ModLeft
  <2> QED
    BY <2>4, <2>6, <2>7, <2>8, <2>9
<1> HIDE DEF T
<1>9. Nat \subseteq T
  BY <1>7, <1>8, Induction
<1> QED
  BY <1>9 DEF T, A, B, C, D

(* So a fold that is reduced modulo t is a total of residues.              *)
LEMMA FoldReduced ==
  ASSUME NEW K \in Nat, NEW S \in SUBSET (0..(K - 1)), NEW F \in [S -> Residue]
  PROVE  /\ FoldFunction(+, 0, F) % t
              = Total(Residue, PlusRes, 0, Cut(F, S, 0), 0, K)
         /\ FoldFunction( * , 1, F) % t
              = Total(Residue, TimesRes, 1, Cut(F, S, 1), 0, K)
<1>1. F \in [S -> Int]
  BY ResidueIs
<1>2. PICK g : g = Cut(F, S, 0)
  OBVIOUS
<1>3. PICK h : h = Cut(F, S, 1)
  OBVIOUS
<1>4. g \in [Nat -> Residue] /\ h \in [Nat -> Residue]
  BY <1>2, <1>3, ResidueIs DEF Cut
<1>5. /\ FoldFunction(+, 0, F) = Total(Int, PlusInt, 0, g, 0, K)
      /\ FoldFunction( * , 1, F) = Total(Int, TimesInt, 1, h, 0, K)
  BY <1>1, <1>2, <1>3, FoldPlusIs, FoldTimesIs
<1>6. /\ Total(Int, PlusInt, 0, g, 0, K) % t
           = Total(Residue, PlusRes, 0, g, 0, K)
      /\ Total(Int, TimesInt, 1, h, 0, K) % t
           = Total(Residue, TimesRes, 1, h, 0, K)
  <2>1. 0 \in Nat
    OBVIOUS
  <2> QED
    BY <1>4, <2>1, TotalReduced, Zenon
<1> QED
  BY <1>2, <1>3, <1>5, <1>6

-----------------------------------------------------------------------------
(* Sums of residues.                                                       *)

(* The sum of the k values from the a-th on.                               *)
SumT(h, a, k) == Total(Residue, PlusRes, 0, h, a, k)

(* The sum of one value, and of two runs of values.                        *)
LEMMA SumTIs ==
  ASSUME NEW h \in [Nat -> Residue], NEW a \in Nat, NEW k \in Nat
  PROVE  /\ SumT(h, a, k) \in Residue /\ SumT(h, a, 1) = h[a]
         /\ \A l \in Nat :
              SumT(h, a, k + l) = PlusRes[<<SumT(h, a, k), SumT(h, a + k, l)>>]
<1>1. PICK o : o = 0 /\ Monoid(Residue, PlusRes, o)
  BY PlusResIs
<1>2. \A b, l : SumT(h, b, l) = Total(Residue, PlusRes, o, h, b, l)
  BY <1>1 DEF SumT
<1>3. \A b, l \in Nat : SumT(h, b, l) \in Residue
  <2> SUFFICES ASSUME NEW b \in Nat, NEW l \in Nat
               PROVE  SumT(h, b, l) \in Residue
    OBVIOUS
  <2>1. Total(Residue, PlusRes, o, h, b, l) \in Residue
    BY <1>1, TotalIs
  <2> QED
    BY <1>2, <2>1
<1>4. SumT(h, a, 1) = h[a]
  BY <1>1, <1>2, TotalOne
<1>5. ASSUME NEW l \in Nat
      PROVE  SumT(h, a, k + l) = PlusRes[<<SumT(h, a, k), SumT(h, a + k, l)>>]
  <2>1. Total(Residue, PlusRes, o, h, a, k + l) =
          PlusRes[<<Total(Residue, PlusRes, o, h, a, k),
                    Total(Residue, PlusRes, o, h, a + k, l)>>]
    BY <1>1, TotalSplit
  <2> QED
    BY <1>2, <2>1
<1> QED
  BY <1>3, <1>4, <1>5

(* The same values have the same sum.                                      *)
LEMMA SumTSame ==
  ASSUME NEW h \in [Nat -> Residue], NEW g \in [Nat -> Residue],
         NEW a \in Nat, NEW b \in Nat, NEW k \in Nat, Alike(h, a, g, b, k)
  PROVE  SumT(h, a, k) = SumT(g, b, k)
<1>1. PICK o : o = 0 /\ Monoid(Residue, PlusRes, o)
  BY PlusResIs
<1>2. Total(Residue, PlusRes, o, h, a, k) = Total(Residue, PlusRes, o, g, b, k)
  BY <1>1, TotalSame
<1> QED
  BY <1>1, <1>2 DEF SumT

(* Two parts may be summed in either order.                                *)
Turned(h, g, a, b, q, r) ==
  /\ b = a + r
  /\ SumT(h, 0, q) = SumT(g, b, q) /\ SumT(h, q, r) = SumT(g, a, r)

(* Exchanging two runs of values does not change the sum.                  *)
LEMMA SumTTurned ==
  ASSUME NEW h \in [Nat -> Residue], NEW g \in [Nat -> Residue],
         NEW a \in Nat, NEW b \in Nat, NEW q \in Nat, NEW r \in Nat,
         Turned(h, g, a, b, q, r)
  PROVE  SumT(h, 0, q + r) = SumT(g, a, r + q)
<1>1. PICK o \in Nat : o = 0
  OBVIOUS
<1>2. SumT(h, o, q + r) = PlusRes[<<SumT(h, o, q), SumT(h, o + q, r)>>]
  BY SumTIs
<1>3. SumT(g, a, r + q) = PlusRes[<<SumT(g, a, r), SumT(g, a + r, q)>>]
  BY SumTIs
<1>4. PICK x \in Residue : x = SumT(g, b, q)
  BY SumTIs
<1>5. PICK y \in Residue : y = SumT(g, a, r)
  BY SumTIs
<1>6. PlusRes[<<x, y>>] = PlusRes[<<y, x>>]
  BY PlusResIs DEF Monoid
<1>7. o + q = q
  BY <1>1
<1> QED
  BY <1>1, <1>2, <1>3, <1>4, <1>5, <1>6, <1>7 DEF Turned

-----------------------------------------------------------------------------
(* EvalSum.                                                                *)

(* The slots of a ciphertext.                                              *)
Vector == [Slot -> Residue]

(* The slots from j on, in the row of j.                                   *)
Run(s, j) == [d \in Nat |-> s[InRow(j, d)]]
(* The sum of the k slots from each slot on, within its row.               *)
RunSums(s, k) == [j \in Slot |-> SumT(Run(s, j), 0, k)]

(* The slots one after the other, and then zeros.                          *)
Line(s) == Cut(s, Slot, 0)

(* These runs are of residues.                                             *)
LEMMA RunIs ==
  ASSUME NEW s \in Vector, NEW j \in Slot
  PROVE  Run(s, j) \in [Nat -> Residue] /\ Line(s) \in [Nat -> Residue]
<1>1. \A d \in Nat : InRow(j, d) \in Slot
  BY InRowIs
<1> QED
  BY <1>1, ResidueIs DEF Run, Line, Cut, Vector

(* So their sums are vectors.                                              *)
LEMMA RunSumsIs ==
  ASSUME NEW s \in Vector, NEW k \in Nat
  PROVE  RunSums(s, k) \in Vector
<1>1. ASSUME NEW j \in Slot PROVE SumT(Run(s, j), 0, k) \in Residue
  <2>1. 0 \in Nat /\ Run(s, j) \in [Nat -> Residue]
    BY RunIs
  <2> QED
    BY <2>1, SumTIs, Zenon
<1> QED
  BY <1>1 DEF RunSums, Vector

(* One step doubles the number of slots that are summed.                   *)
LEMMA Doubled ==
  ASSUME NEW s \in Vector, NEW k \in Nat
  PROVE  LET u == RunSums(s, TwoTo[k])
         IN  Added(u, Permuted(u, Square(k))) = RunSums(s, TwoTo[k + 1])
<1>1. PICK d \in Nat : d = TwoTo[k] /\ TwoTo[k + 1] = d + d
  BY TwoToNext
<1>2. PICK u \in Vector : u = RunSums(s, d)
  BY RunSumsIs
<1>3. Permuted(u, Square(k)) = [j \in Slot |-> u[InRow(j, d)]]
  <2>1. PICK y \in Int : y = Five[d]
    BY FiveIs
  <2> DEFINE p == [j \in Slot |-> InRow(j, d)]
  <2>2. p \in [Slot -> Slot] /\ \A j \in Slot : p[j] = InRow(j, d)
    <3>1. d \in Int
      OBVIOUS
    <3> QED
      BY <3>1, InRowIs
  <2> HIDE DEF p
  <2>3. \A j \in Slot : (Value(j) * y) % m = Value(p[j]) % m
    BY <2>1, <2>2, ValueInRow
  <2>4. Permuted(u, y % m) = [j \in Slot |-> u[p[j]]]
    BY <2>2, <2>3, MovesSame
  <2>5. Square(k) = y % m
    BY <1>1, <2>1, SquareIs
  <2> QED
    BY <2>2, <2>4, <2>5
<1>4. ASSUME NEW j \in Slot
      PROVE  (u[j] + u[InRow(j, d)]) % t = SumT(Run(s, j), 0, d + d)
  <2>0. d \in Int /\ 0 \in Nat
    OBVIOUS
  <2>1. PICK i \in Slot : i = InRow(j, d)
    BY <2>0, InRowIs
  <2>2. PICK g \in [Nat -> Residue] : g = Run(s, i)
    BY RunIs
  <2>3. PICK h \in [Nat -> Residue] : h = Run(s, j)
    BY RunIs
  <2>4. PICK o \in Nat : o = 0
    OBVIOUS
  <2>5. Alike(g, o, h, d, d)
    <3> SUFFICES ASSUME NEW e \in 0..(d - 1)
                 PROVE  g[o + e] = h[d + e]
      BY DEF Alike
    <3>1. e \in Int /\ e \in Nat /\ d + e \in Nat /\ o + e = e
      BY <2>4
    <3>2. InRow(InRow(j, d), e) = InRow(j, d + e)
      BY <2>0, <3>1, InRowAdd
    <3> QED
      BY <2>1, <2>2, <2>3, <3>1, <3>2 DEF Run
  <2>6. SumT(g, o, d) = SumT(h, d, d)
    BY <2>5, SumTSame
  <2>7. SumT(h, o, d + d) = PlusRes[<<SumT(h, o, d), SumT(h, o + d, d)>>]
    BY SumTIs
  <2>8. o + d = d
    BY <2>4
  <2>9. u[j] = SumT(h, o, d) /\ u[i] = SumT(g, o, d)
    BY <1>2, <2>2, <2>3, <2>4 DEF RunSums
  <2>10. u[j] \in Residue /\ u[i] \in Residue
    BY DEF Vector
  <2>11. PlusRes[<<u[j], u[i]>>] = (u[j] + u[i]) % t
    BY <2>10, PlusResIs
  <2> QED
    BY <2>1, <2>3, <2>4, <2>6, <2>7, <2>8, <2>9, <2>11
<1>5. Added(u, Permuted(u, Square(k))) = RunSums(s, d + d)
  <2>1. \A j \in Slot : Permuted(u, Square(k))[j] = u[InRow(j, d)]
    BY <1>3
  <2> QED
    BY <1>4, <2>1 DEF Added, RunSums
<1> QED
  BY <1>1, <1>2, <1>5

(* The slots of a row, from whichever on.                                  *)
LEMMA RowSum ==
  ASSUME NEW s \in Vector, NEW j \in Slot, NEW a \in Nat,
         a = IF j < Half THEN 0 ELSE Half
  PROVE  SumT(Run(s, j), 0, Half) = SumT(Line(s), a, Half)
<1>1. Half \in Nat \ {0} /\ j \in 0..(2 * Half - 1) /\ Slot = 0..(2 * Half - 1)
  BY Sizes, SlotIs
<1>2. PICK r \in 0..(Half - 1) : r = j - a
  <2>1. CASE j < Half
    BY <1>1, <2>1
  <2>2. CASE ~ (j < Half)
    BY <1>1, <2>2
  <2> QED
    BY <2>1, <2>2
<1>3. PICK h \in [Nat -> Residue] : h = Run(s, j)
  BY RunIs
<1>4. PICK g \in [Nat -> Residue] : g = Line(s)
  BY RunIs
<1>5. PICK q \in Nat, b \in Nat, o \in Nat :
        q = Half - r /\ b = a + r /\ o = 0
  BY <1>1
<1>6. ASSUME NEW d \in 0..(Half - 1)
      PROVE  h[d] = IF d < q THEN g[b + d] ELSE g[a + (d - q)]
  <2>1. d \in Nat /\ d \in Int /\ j + d \in Int
    BY <1>1
  <2>2. InRow(j, d) = a + ((j + d) % Half) /\ InRow(j, d) \in Slot
    BY <2>1, InRowIs
  <2>8. PICK v \in Int : v = (j + d) % Half
    BY <1>1, <2>1, ModLeft
  <2>3. h[d] = g[InRow(j, d)]
    <3>1. InRow(j, d) \in Nat
      BY <1>1, <2>2
    <3> QED
      BY <1>3, <1>4, <2>1, <2>2, <3>1 DEF Run, Line, Cut
  <2>4. PICK x \in Int : x = r + d
    BY <1>1
  <2>5. (j + d) % Half = x % Half
    <3>1. PICK c \in Int : a = c * Half
      <4>1. a = 0 * Half \/ a = 1 * Half
        BY <1>1
      <4> QED
        BY <4>1
    <3>2. j + d = x + c * Half
      BY <1>2, <2>4, <3>1, <1>1
    <3>3. (x + c * Half) % Half = x % Half
      BY <1>1, ModShift
    <3> QED
      BY <3>2, <3>3
  <2>6. CASE d < q
    <3>1. x \in 0..(Half - 1)
      BY <1>1, <1>5, <2>4, <2>6
    <3>2. x % Half = x
      BY <1>1, <3>1, ModSmall
    <3>4. v = x
      BY <2>5, <2>8, <3>2
    <3>3. InRow(j, d) = b + d
      BY <1>1, <1>5, <2>2, <2>4, <2>8, <3>4
    <3> QED
      BY <2>3, <2>6, <3>3
  <2>7. CASE ~ (d < q)
    <3>1. PICK y \in 0..(Half - 1) : y = x - Half
      BY <1>1, <1>5, <2>4, <2>7
    <3>2. PICK e \in Int : e = 1
      OBVIOUS
    <3>3. x = y + e * Half /\ y \in Int
      BY <1>1, <3>1, <3>2
    <3>4. (y + e * Half) % Half = y % Half
      BY <1>1, <3>3, ModShift
    <3>5. y % Half = y
      BY <1>1, ModSmall
    <3>7. v = y
      BY <2>5, <2>8, <3>3, <3>4, <3>5
    <3>6. InRow(j, d) = a + (d - q)
      BY <1>1, <1>5, <2>2, <2>4, <2>8, <3>1, <3>7
    <3> QED
      BY <2>3, <2>7, <3>6
  <2> QED
    BY <2>6, <2>7
<1>7. SumT(h, o, q) = SumT(g, b, q)
  <2>1. Alike(h, o, g, b, q)
    <3> SUFFICES ASSUME NEW i \in 0..(q - 1)
                 PROVE  h[o + i] = g[b + i]
      BY DEF Alike
    <3>1. i \in 0..(Half - 1) /\ i < q /\ o + i = i
      BY <1>1, <1>5
    <3> QED
      BY <1>6, <3>1
  <2> QED
    BY <2>1, SumTSame
<1>8. SumT(h, q, r) = SumT(g, a, r)
  <2>1. Alike(h, q, g, a, r)
    <3> SUFFICES ASSUME NEW i \in 0..(r - 1)
                 PROVE  h[q + i] = g[a + i]
      BY DEF Alike
    <3>1. q + i \in 0..(Half - 1) /\ ~ (q + i < q) /\ (q + i) - q = i
      BY <1>1, <1>5
    <3> QED
      BY <1>6, <3>1
  <2>2. r \in Nat
    BY <1>1
  <2> QED
    BY <2>1, <2>2, SumTSame
<1>9. PICK l \in Nat : l = r
  BY <1>1
<1>10. Turned(h, g, a, b, q, l)
  BY <1>5, <1>7, <1>8, <1>9 DEF Turned
<1>11. q + l = Half /\ l + q = Half
  BY <1>1, <1>5, <1>9
<1>12. SumT(h, 0, q + l) = SumT(g, a, l + q)
  BY <1>10, SumTTurned
<1> QED
  BY <1>3, <1>4, <1>11, <1>12

(* The last step of a sum over everything adds the other row.              *)
LEMMA BothRows ==
  ASSUME NEW s \in Vector
  PROVE  LET u == RunSums(s, Half)
         IN  Added(u, Permuted(u, m - 1))
               = [j \in Slot |-> SumT(Line(s), 0, n)]
<1>1. Half \in Nat /\ n = Half + Half /\ m \in Nat \ {0} /\ m - 1 \in Int
  BY Sizes
<1>2. PICK u \in Vector : u = RunSums(s, Half)
  BY <1>1, RunSumsIs
<1>3. Permuted(u, m - 1) = [j \in Slot |-> u[OtherRow(j)]]
  <2> DEFINE p == [j \in Slot |-> OtherRow(j)]
  <2>1. p \in [Slot -> Slot] /\ \A j \in Slot : p[j] = OtherRow(j)
    BY OtherRowIs
  <2> HIDE DEF p
  <2>2. ASSUME NEW j \in Slot
        PROVE  (Value(j) * (m - 1)) % m = Value(p[j]) % m
    <3>1. PICK v \in Int, w \in Int : v = Value(j) /\ w = - v
      BY ExponentIs
    <3>2. v * (m - 1) = w + v * m
      BY <1>1, <3>1
    <3>3. (w + v * m) % m = w % m
      BY <1>1, ModShift
    <3> QED
      BY <2>1, <3>1, <3>2, <3>3, OtherRowIs
  <2>3. Permuted(u, m - 1) = [j \in Slot |-> u[p[j]]]
    BY <1>1, <2>1, <2>2, PermutedIs
  <2> QED
    BY <2>1, <2>3
<1>4. PICK g \in [Nat -> Residue] : g = Line(s)
  <2>1. 0 \in Slot
    BY SlotIs, Sizes
  <2> QED
    BY <2>1, RunIs
<1>5. PICK o \in Nat : o = 0
  OBVIOUS
<1>7. PICK x \in Int, y \in Int :
        /\ x = SumT(g, o, Half) /\ y = SumT(g, Half, Half)
        /\ PlusRes[<<x, y>>] = (x + y) % t
  <2>1. SumT(g, o, Half) \in Residue /\ SumT(g, Half, Half) \in Residue
    BY <1>1, SumTIs
  <2>2. PICK x \in Residue, y \in Residue :
          x = SumT(g, o, Half) /\ y = SumT(g, Half, Half)
    BY <2>1
  <2>3. x \in Int /\ y \in Int
    BY ResidueIs
  <2>4. PlusRes[<<x, y>>] = (x + y) % t
    BY PlusResIs
  <2> QED
    BY <2>2, <2>3, <2>4
<1>6. SumT(g, o, Half + Half) = PlusRes[<<SumT(g, o, Half),
                                          SumT(g, o + Half, Half)>>]
  BY <1>1, SumTIs
<1>8. \A j \in Slot : u[j] = IF j < Half THEN x ELSE y
  <2> SUFFICES ASSUME NEW j \in Slot
               PROVE  u[j] = IF j < Half THEN x ELSE y
    OBVIOUS
  <2>1. PICK a \in Nat : a = IF j < Half THEN 0 ELSE Half
    BY <1>1
  <2>2. SumT(Run(s, j), 0, Half) = SumT(g, a, Half)
    BY <1>4, <2>1, RowSum
  <2>3. u[j] = SumT(Run(s, j), 0, Half)
    BY <1>2 DEF RunSums
  <2> QED
    BY <1>5, <1>7, <2>1, <2>2, <2>3
<1>9. ASSUME NEW j \in Slot
      PROVE  (u[j] + u[OtherRow(j)]) % t = (x + y) % t
  <2>1. /\ OtherRow(j) = IF j < Half THEN j + Half ELSE j - Half
        /\ OtherRow(j) \in Slot /\ j \in 0..(2 * Half - 1)
    BY OtherRowIs, SlotIs
  <2>2. OtherRow(j) < Half <=> ~ (j < Half)
    BY <1>1, <2>1
  <2>3. u[j] + u[OtherRow(j)] = x + y
    <3>1. CASE j < Half
      <4>1. u[j] = x /\ u[OtherRow(j)] = y
        BY <1>8, <2>1, <2>2, <3>1
      <4> QED
        BY <4>1
    <3>2. CASE ~ (j < Half)
      <4>1. u[j] = y /\ u[OtherRow(j)] = x
        BY <1>8, <2>1, <2>2, <3>2
      <4> QED
        BY <4>1
    <3> QED
      BY <3>1, <3>2
  <2> QED
    BY <2>3
<1>10. Added(u, Permuted(u, m - 1)) = [j \in Slot |-> (x + y) % t]
  <2>1. \A j \in Slot : Permuted(u, m - 1)[j] = u[OtherRow(j)]
    BY <1>3
  <2> QED
    BY <1>9, <2>1 DEF Added
<1>11. o + Half = Half
  BY <1>1, <1>5
<1> QED
  BY <1>1, <1>2, <1>4, <1>5, <1>6, <1>7, <1>10, <1>11

(* What the steps come to.                                                 *)
LEMMA StepsSum ==
  ASSUME NEW s \in Vector, NEW b \in 1..n
  PROVE  EvalSum_2n(s, b) =
           IF b = n THEN [j \in Slot |-> SumT(Line(s), 0, n)]
           ELSE RunSums(s, TwoTo[CeilLog2(b)])
<1>1. PICK c \in Nat : c = CeilLog2(b) /\ Len(SumSteps(b)) = c
  BY StepsAre
<1> DEFINE all == [j \in Slot |-> SumT(Line(s), 0, n)]
           g == [k \in 0..c |-> IF k = c /\ b = n THEN all
                                ELSE RunSums(s, TwoTo[k])]
<1>2. \A i \in 1..c : SumSteps(b)[i] = IF i = c /\ b = n THEN m - 1
                                       ELSE Square(i - 1)
  BY <1>1, StepsAre
<1>3. b = n => c >= 2 /\ TwoTo[c - 1] = Half
  BY <1>1, LogsAre
<1>4. RunSums(s, TwoTo[0]) = s
  <2>1. ASSUME NEW j \in Slot PROVE SumT(Run(s, j), 0, 1) = s[j]
    <3>1. PICK h \in [Nat -> Residue] : h = Run(s, j)
      BY RunIs
    <3>2. PICK o \in Nat : o = 0
      OBVIOUS
    <3>3. SumT(h, o, 1) = h[o]
      BY SumTIs
    <3>4. h[o] = s[InRow(j, 0)]
      BY <3>1, <3>2 DEF Run
    <3> QED
      BY <3>1, <3>2, <3>3, <3>4, InRowZero
  <2>2. RunSums(s, 1) = [j \in Slot |-> s[j]]
    BY <2>1 DEF RunSums
  <2> QED
    BY <2>2, TwoToIs DEF Vector
<1>5. ASSUME NEW k \in 1..c
      PROVE  g[k] = Added(g[k - 1], Permuted(g[k - 1], SumSteps(b)[k]))
  <2>1. k - 1 \in Nat /\ k - 1 \in 0..c /\ k - 1 # c /\ k \in 0..c
        /\ (k - 1) + 1 = k
    OBVIOUS
  <2>2. g[k - 1] = RunSums(s, TwoTo[k - 1])
    BY <2>1
  <2>3. CASE k = c /\ b = n
    <3>1. g[k - 1] = RunSums(s, Half) /\ g[k] = all /\ SumSteps(b)[k] = m - 1
      BY <1>2, <1>3, <2>1, <2>2, <2>3
    <3> QED
      BY <3>1, BothRows
  <2>4. CASE ~ (k = c /\ b = n)
    <3>1. g[k] = RunSums(s, TwoTo[k]) /\ SumSteps(b)[k] = Square(k - 1)
      BY <1>2, <2>1, <2>4
    <3>2. PICK l \in Nat : l = k - 1 /\ l + 1 = k
      BY <2>1
    <3>3. Added(RunSums(s, TwoTo[l]),
                Permuted(RunSums(s, TwoTo[l]), Square(l)))
            = RunSums(s, TwoTo[l + 1])
      BY Doubled
    <3> QED
      BY <2>2, <3>1, <3>2, <3>3
  <2> QED
    BY <2>3, <2>4
<1>6. g[0] = s
  <2>1. ~ (0 = c /\ b = n)
    BY <1>3
  <2> QED
    BY <1>4, <2>1
<1> HIDE DEF all
<1> DEFINE f[k \in 0..c] ==
             IF k = 0 THEN s
             ELSE Added(f[k - 1], Permuted(f[k - 1], SumSteps(b)[k]))
<1>7. EvalSum_2n(s, b) = f[c]
  BY <1>1 DEF EvalSum_2n
<1>8. g = [k \in 0..c |->
             IF k = 0 THEN s
             ELSE Added(g[k - 1], Permuted(g[k - 1], SumSteps(b)[k]))]
  <2>1. \A k \in 0..c : g[k] = IF k = 0 THEN s
             ELSE Added(g[k - 1], Permuted(g[k - 1], SumSteps(b)[k]))
    <3> HIDE DEF g
    <3>1. \A k \in 0..c : k # 0 => k \in 1..c
      OBVIOUS
    <3> QED
      BY <1>5, <1>6, <3>1
  <2>2. g = [k \in 0..c |-> g[k]]
    OBVIOUS
  <2> HIDE DEF g
  <2> QED
    BY <2>1, <2>2
<1>9. f = [k \in 0..c |->
             IF k = 0 THEN s
             ELSE Added(f[k - 1], Permuted(f[k - 1], SumSteps(b)[k]))]
  <2> HIDE DEF g
  <2> QED
    BY <1>8
<1>10. g[c] = IF b = n THEN all ELSE RunSums(s, TwoTo[c])
  OBVIOUS
<1> HIDE DEF f, g
<1> DEFINE T == {k \in Nat : k <= c => f[k] = g[k]}
<1>11. 0 \in T
  BY <1>6, <1>9
<1>12. ASSUME NEW k \in Nat, k \in T
       PROVE  k + 1 \in T
  <2> SUFFICES ASSUME k + 1 <= c
               PROVE  f[k + 1] = g[k + 1]
    OBVIOUS
  <2>1. k + 1 \in 0..c /\ k + 1 # 0 /\ (k + 1) - 1 = k /\ k <= c
    OBVIOUS
  <2>2. f[k + 1] = Added(f[k], Permuted(f[k], SumSteps(b)[k + 1]))
    BY <1>9, <2>1
  <2>3. g[k + 1] = Added(g[k], Permuted(g[k], SumSteps(b)[k + 1]))
    BY <1>8, <2>1
  <2> QED
    BY <1>12, <2>1, <2>2, <2>3
<1> HIDE DEF T
<1>13. Nat \subseteq T
  BY <1>11, <1>12, Induction
<1>14. f[c] = g[c]
  BY <1>13 DEF T
<1> QED
  BY <1>1, <1>7, <1>10, <1>14 DEF all

(* The slots from j on, through its row and then the other.                *)
Walk(s, j) == [d \in Nat |-> s[Onward(j, d)]]

LEMMA OnwardIs ==
  ASSUME NEW j \in Slot, NEW d \in Nat
  PROVE  Onward(j, d) \in Slot
<1>1. CASE d < Half
  BY <1>1, InRowIs DEF Onward, Half
<1>2. CASE ~ (d < Half)
  <2>1. PICK i \in Slot, e \in Nat : i = OtherRow(j) /\ e = d - Half
    BY <1>2, Sizes, OtherRowIs
  <2>2. InRow(i, e) \in Slot
    BY InRowIs
  <2> QED
    BY <1>2, <2>1, <2>2 DEF Onward, Half
<1> QED
  BY <1>1, <1>2

LEMMA WalkIs ==
  ASSUME NEW s \in Vector, NEW j \in Slot
  PROVE  Walk(s, j) \in [Nat -> Residue]
BY OnwardIs DEF Walk, Vector

(* A sum as the documentation has it is that of the slots of the walk.     *)
LEMMA SumIs ==
  ASSUME NEW s \in Vector, NEW b \in 1..n
  PROVE  /\ Sum(s, b) = [j \in Slot |-> SumT(Walk(s, j), 0, b)]
         /\ Sum(s, b) \in Vector
<1> DEFINE F(j) == [d \in 0..(b - 1) |-> s[Onward(j, d)]]
<1>1. ASSUME NEW j \in Slot
      PROVE  /\ FoldFunction(+, 0, F(j)) % t = SumT(Walk(s, j), 0, b)
             /\ SumT(Walk(s, j), 0, b) \in Residue
  <2>0. PICK k \in Nat : k = b
    BY Sizes
  <2>1. PICK S \in SUBSET (0..(k - 1)) : S = 0..(k - 1)
    OBVIOUS
  <2>2. F(j) \in [S -> Residue]
    <3>1. \A d \in 0..(k - 1) : Onward(j, d) \in Slot
      BY OnwardIs
    <3> QED
      BY <2>0, <2>1, <3>1 DEF Vector
  <2>3. \A i \in S : F(j)[i] = s[Onward(j, i)]
    BY <2>0, <2>1
  <2> HIDE DEF F
  <2>4. FoldFunction(+, 0, F(j)) % t = SumT(Cut(F(j), S, 0), 0, k)
    BY <2>2, FoldReduced DEF SumT
  <2>5. PICK g \in [Nat -> Residue] : g = Cut(F(j), S, 0)
    BY <2>2, ResidueIs DEF Cut
  <2>6. PICK h \in [Nat -> Residue] : h = Walk(s, j)
    BY WalkIs
  <2>7. PICK o \in Nat : o = 0
    OBVIOUS
  <2>8. Alike(g, o, h, o, k)
    <3> SUFFICES ASSUME NEW i \in 0..(k - 1)
                 PROVE  g[o + i] = h[o + i]
      BY DEF Alike
    <3>1. o + i = i /\ i \in Nat /\ i \in S
      BY <2>1, <2>7
    <3> QED
      BY <2>3, <2>5, <2>6, <3>1 DEF Cut, Walk
  <2>9. SumT(g, o, k) = SumT(h, o, k)
    BY <2>8, SumTSame
  <2>10. SumT(h, o, k) \in Residue
    BY SumTIs
  <2> QED
    BY <2>0, <2>4, <2>5, <2>6, <2>7, <2>9, <2>10
<1>2. Sum(s, b) = [j \in Slot |-> FoldFunction(+, 0, F(j)) % t]
  BY DEF Sum
<1> HIDE DEF F
<1>3. Sum(s, b) = [j \in Slot |-> SumT(Walk(s, j), 0, b)]
  BY <1>1, <1>2
<1> QED
  BY <1>1, <1>3 DEF Vector

(* As far as the row goes the walk is a run.                               *)
LEMMA WalkInRow ==
  ASSUME NEW s \in Vector, NEW j \in Slot, NEW k \in Nat, k <= Half
  PROVE  SumT(Walk(s, j), 0, k) = SumT(Run(s, j), 0, k)
<1>1. PICK g \in [Nat -> Residue] : g = Walk(s, j)
  BY WalkIs
<1>2. PICK h \in [Nat -> Residue] : h = Run(s, j)
  BY RunIs
<1>3. PICK o \in Nat : o = 0
  OBVIOUS
<1>4. Alike(g, o, h, o, k)
  <2> SUFFICES ASSUME NEW i \in 0..(k - 1)
               PROVE  g[o + i] = h[o + i]
    BY DEF Alike
  <2>1. o + i = i /\ i \in Nat /\ i < Half
    BY <1>3, Sizes
  <2>2. Onward(j, i) = InRow(j, i)
    BY <2>1 DEF Onward, Half
  <2> QED
    BY <1>1, <1>2, <2>1, <2>2 DEF Walk, Run
<1>5. SumT(g, o, k) = SumT(h, o, k)
  BY <1>4, SumTSame
<1> QED
  BY <1>1, <1>2, <1>3, <1>5

(* The second half of the walk is a run through the other row.             *)
LEMMA WalkOther ==
  ASSUME NEW s \in Vector, NEW j \in Slot, NEW q \in Slot, q = OtherRow(j)
  PROVE  SumT(Walk(s, j), Half, Half) = SumT(Run(s, q), 0, Half)
<1>1. PICK g \in [Nat -> Residue] : g = Walk(s, j)
  BY WalkIs
<1>2. PICK h \in [Nat -> Residue] : h = Run(s, q)
  BY RunIs
<1>3. PICK o \in Nat, k \in Nat : o = 0 /\ k = Half
  BY Sizes
<1>4. Alike(g, k, h, o, k)
  <2> SUFFICES ASSUME NEW i \in 0..(k - 1)
               PROVE  g[k + i] = h[o + i]
    BY DEF Alike
  <2>1. o + i = i /\ i \in Nat /\ k + i \in Nat /\ (k + i) - k = i
        /\ ~ (k + i < k)
    BY <1>3
  <2>2. Onward(j, k + i) = InRow(q, i)
    BY <1>3, <2>1 DEF Onward, Half
  <2> QED
    BY <1>1, <1>2, <2>1, <2>2 DEF Walk, Run
<1>5. SumT(g, k, k) = SumT(h, o, k)
  BY <1>4, SumTSame
<1> QED
  BY <1>1, <1>2, <1>3, <1>5

(* A whole walk sums all the slots.                                        *)
LEMMA WalkAll ==
  ASSUME NEW s \in Vector, NEW j \in Slot
  PROVE  SumT(Walk(s, j), 0, n) = SumT(Line(s), 0, n)
<1>1. PICK h \in [Nat -> Residue], g \in [Nat -> Residue] :
        h = Walk(s, j) /\ g = Line(s)
  BY WalkIs, RunIs
<1>2. PICK k \in Nat : k = Half
  BY Sizes
<1>3. n = k + k
  BY <1>2, Sizes
<1>4. PICK q \in Slot : q = OtherRow(j)
  BY OtherRowIs
<1>5. PICK a \in Nat, c \in Nat : /\ a = IF j < Half THEN 0 ELSE Half
                                  /\ c = IF q < Half THEN 0 ELSE Half
  BY <1>2
<1>6. SumT(h, 0, k) = SumT(g, a, k)
  <2>1. SumT(Walk(s, j), 0, k) = SumT(Run(s, j), 0, k)
    BY <1>2, WalkInRow
  <2>2. SumT(Run(s, j), 0, Half) = SumT(Line(s), a, Half)
    BY <1>5, RowSum
  <2> QED
    BY <1>1, <1>2, <2>1, <2>2
<1>7. SumT(h, k, k) = SumT(g, c, k)
  <2>1. SumT(Walk(s, j), Half, Half) = SumT(Run(s, q), 0, Half)
    BY <1>4, WalkOther
  <2>2. SumT(Run(s, q), 0, Half) = SumT(Line(s), c, Half)
    BY <1>5, RowSum
  <2> QED
    BY <1>1, <1>2, <2>1, <2>2
<1>8. OtherRow(j) = IF j < Half THEN j + Half ELSE j - Half
  BY OtherRowIs
<1>9. j \in 0..(2 * Half - 1)
  BY SlotIs
<1>10. CASE j < Half
  <2>1. a = 0 /\ c = k
    BY <1>2, <1>4, <1>5, <1>8, <1>9, <1>10
  <2>2. PICK o \in Nat : o = 0 /\ o + k = k
    BY <1>2
  <2>3. SumT(h, o, k + k) = PlusRes[<<SumT(h, o, k), SumT(h, o + k, k)>>]
    BY SumTIs
  <2>4. SumT(g, o, k + k) = PlusRes[<<SumT(g, o, k), SumT(g, o + k, k)>>]
    BY SumTIs
  <2> QED
    BY <1>1, <1>3, <1>6, <1>7, <2>1, <2>2, <2>3, <2>4
<1>11. CASE ~ (j < Half)
  <2>1. a = k /\ c = 0
    BY <1>2, <1>4, <1>5, <1>8, <1>9, <1>11
  <2>2. PICK o \in Nat : o = 0 /\ k = o + k
    BY <1>2
  <2>3. Turned(h, g, o, k, k, k)
    BY <1>6, <1>7, <2>1, <2>2 DEF Turned
  <2>4. SumT(h, 0, k + k) = SumT(g, o, k + k)
    BY <2>3, SumTTurned
  <2> QED
    BY <1>1, <1>3, <2>2, <2>4
<1> QED
  BY <1>10, <1>11

(* Powers of two.                                                          *)
LEMMA PowerOfTwoIs ==
  ASSUME NEW b \in 1..n, IsPowerOfTwo(b)
  PROVE  TwoTo[CeilLog2(b)] = b /\ (b # n => b <= Half)
<1>1. PICK k \in 0..n : b = TwoTo[k]
  BY DEF IsPowerOfTwo
<1>2. k \in Nat /\ b <= n /\ b \in Nat
  BY <1>1, Sizes
<1>3. CeilLog2(TwoTo[k]) = k
  BY <1>1, <1>2, CeilLog2Exact
<1>4. ASSUME b # n
      PROVE  b <= Half
  <2>1. PICK l \in Nat : n = TwoTo[l]
    BY LogsAre
  <2>2. k < l
    <3>1. l <= k => TwoTo[l] <= TwoTo[k]
      BY <1>2, TwoToGrows
    <3> QED
      BY <1>1, <1>2, <1>4, <2>1, <3>1, Sizes
  <2>3. 2 * TwoTo[k] <= TwoTo[l]
    BY <1>2, <2>2, TwoToGrows
  <2> QED
    BY <1>1, <1>2, <2>1, <2>3, Sizes
<1> QED
  BY <1>1, <1>3, <1>4

(* If the number of slots is a power of two, the automorphisms and the     *)
(* additions of EvalSum_2n put into every slot the sum that the            *)
(* documentation names, over that many slots from there on.                *)
THEOREM EvalSumIs ==
  ASSUME NEW s \in [Slot -> Residue], NEW b \in 1..n, IsPowerOfTwo(b)
  PROVE  EvalSum_2n(s, b) = Sum(s, b) /\ Sum(s, b) \in [Slot -> Residue]
<1>0. s \in Vector
  BY DEF Vector
<1>1. /\ Sum(s, b) = [j \in Slot |-> SumT(Walk(s, j), 0, b)]
      /\ Sum(s, b) \in Vector
  BY <1>0, SumIs
<1>2. CASE b = n
  <2>1. EvalSum_2n(s, b) = [j \in Slot |-> SumT(Line(s), 0, n)]
    BY <1>0, <1>2, StepsSum
  <2>2. \A j \in Slot : SumT(Walk(s, j), 0, n) = SumT(Line(s), 0, n)
    BY <1>0, WalkAll
  <2> QED
    BY <1>1, <1>2, <2>1, <2>2 DEF Vector
<1>3. CASE b # n
  <2>1. PICK k \in Nat : k = b /\ k <= Half /\ TwoTo[CeilLog2(b)] = k
    BY <1>3, PowerOfTwoIs, Sizes
  <2>2. EvalSum_2n(s, b) = RunSums(s, k)
    BY <1>0, <1>3, <2>1, StepsSum
  <2>3. \A j \in Slot : SumT(Walk(s, j), 0, k) = SumT(Run(s, j), 0, k)
    BY <1>0, <2>1, WalkInRow
  <2>4. RunSums(s, k) = [j \in Slot |-> SumT(Walk(s, j), 0, k)]
    BY <2>3 DEF RunSums
  <2> QED
    BY <1>1, <2>1, <2>2, <2>4 DEF Vector
<1> QED
  BY <1>2, <1>3

-----------------------------------------------------------------------------
(* The loops over many ciphertexts, for any operation.                     *)

(* Each value beyond the first size is of the next two of all of them.     *)
Queue(V, U, h, size) ==
  /\ h \in [Nat -> V]
  /\ \A j \in 1..(size - 1) : h[size + j] = U[<<h[2 * j - 1], h[2 * j]>>]

(* The last one is the total of the first size.                            *)
LEMMA QueueTotal ==
  ASSUME NEW V, NEW U, NEW e, Monoid(V, U, e), NEW size \in Nat \ {0}, NEW h,
         Queue(V, U, h, size)
  PROVE  h[2 * size - 1] = Total(V, U, e, h, 1, size)
<1>0. h \in [Nat -> V]
  BY DEF Queue
<1> DEFINE T == {j \in Nat : j <= size - 1 =>
                   Total(V, U, e, h, 2 * j + 1, size - j)
                     = Total(V, U, e, h, 1, size)}
<1>1. 0 \in T
  <2>1. 2 * 0 + 1 = 1 /\ size - 0 = size
    OBVIOUS
  <2> QED
    BY <2>1
<1>2. ASSUME NEW j \in Nat, j \in T
      PROVE  j + 1 \in T
  <2> SUFFICES ASSUME j + 1 <= size - 1
               PROVE  Total(V, U, e, h, 2 * (j + 1) + 1, size - (j + 1))
                        = Total(V, U, e, h, 1, size)
    OBVIOUS
  <2>1. PICK l \in Nat : l = size - j - 2
    OBVIOUS
  <2>2. PICK a \in Nat : a = 2 * j + 1
    OBVIOUS
  <2>3. PICK b \in Nat : b = a + 1
    OBVIOUS
  <2>4. PICK c \in Nat : c = a + 2
    OBVIOUS
  <2>5. PICK x \in V : x = h[a]
    BY <1>0
  <2>6. PICK y \in V : y = h[b]
    BY <1>0
  <2>7. PICK z \in V : z = Total(V, U, e, h, c, l)
    BY <1>0, TotalIs
  <2>8. Total(V, U, e, h, a, 1 + 1) = U[<<x, y>>]
    <3>1. Total(V, U, e, h, a, 1 + 1)
            = U[<<Total(V, U, e, h, a, 1), h[a + 1]>>]
      BY <1>0, TotalIs
    <3>2. Total(V, U, e, h, a, 1) = x
      BY <1>0, <2>5, TotalOne
    <3> QED
      BY <2>3, <2>6, <3>1, <3>2
  <2>9. Total(V, U, e, h, a, size - j) = U[<<U[<<x, y>>], z>>]
    <3>1. PICK w \in Nat : w = 2
      OBVIOUS
    <3>2. Total(V, U, e, h, a, w + l)
            = U[<<Total(V, U, e, h, a, w), Total(V, U, e, h, a + w, l)>>]
      BY <1>0, TotalSplit
    <3>3. w + l = size - j /\ a + w = c /\ w = 1 + 1
      BY <2>1, <2>4, <3>1
    <3> QED
      BY <2>7, <2>8, <3>2, <3>3
  <2>10. h[c + l] = U[<<x, y>>]
    <3>1. j + 1 \in 1..(size - 1) /\ 2 * (j + 1) - 1 = a /\ 2 * (j + 1) = b
          /\ c + l = size + (j + 1)
      BY <2>1, <2>2, <2>3, <2>4
    <3>2. h[size + (j + 1)] = U[<<h[2 * (j + 1) - 1], h[2 * (j + 1)]>>]
      BY <3>1 DEF Queue
    <3> QED
      BY <2>5, <2>6, <3>1, <3>2
  <2>11. Total(V, U, e, h, c, l + 1) = U[<<z, U[<<x, y>>]>>]
    BY <1>0, <2>7, <2>10, TotalIs
  <2>12. U[<<z, U[<<x, y>>]>>] = U[<<U[<<x, y>>], z>>]
    <3>1. U[<<x, y>>] \in V
      BY MonoidIs
    <3> QED
      BY <3>1 DEF Monoid
  <2>13. l + 1 = size - (j + 1) /\ c = 2 * (j + 1) + 1 /\ j <= size - 1
    BY <2>1, <2>2, <2>4
  <2> QED
    BY <1>2, <2>2, <2>9, <2>11, <2>12, <2>13
<1> HIDE DEF T
<1>3. Nat \subseteq T
  BY <1>1, <1>2, Induction
<1>4. PICK j \in Nat : j = size - 1
  OBVIOUS
<1>5. Total(V, U, e, h, 2 * j + 1, size - j) = Total(V, U, e, h, 1, size)
  BY <1>3, <1>4 DEF T
<1>6. PICK a \in Nat : a = 2 * size - 1
  OBVIOUS
<1>7. Total(V, U, e, h, a, 1) = h[a]
  BY <1>0, TotalOne
<1>8. 2 * j + 1 = a /\ size - j = 1
  BY <1>4, <1>6
<1> QED
  BY <1>5, <1>6, <1>7, <1>8

(* The rounds of the loop at distances 1, 2, 4 and so on.                  *)
Rounds(V, U, e, H, size) ==
  /\ \A r \in 0..size : /\ H[r] \in [Nat -> V]
                        /\ \A k \in Nat : k > size => H[r][k] = e
  /\ \A r \in 0..(size - 1) : \A k \in 1..size :
       H[r + 1][k] =
         IF (k - 1) % (2 * TwoTo[r]) = 0 /\ k + TwoTo[r] <= size
         THEN U[<<H[r][k], H[r][k + TwoTo[r]]>>] ELSE H[r][k]

(* After the last round the first value is the total.                      *)
LEMMA RoundsTotal ==
  ASSUME NEW V, NEW U, NEW e, Monoid(V, U, e), NEW size \in Nat \ {0}, NEW H,
         Rounds(V, U, e, H, size)
  PROVE  H[size][1] = Total(V, U, e, H[0], 1, size)
<1>0. PICK g \in [Nat -> V] :
        g = H[0] /\ \A k \in Nat : k > size => g[k] = e
  BY DEF Rounds
<1>11. \A r \in 0..size, k \in Nat : k > size => H[r][k] = e
  BY DEF Rounds
<1> DEFINE T == {r \in Nat : r <= size =>
                   \A k \in Nat \ {0} : (k - 1) % TwoTo[r] = 0
                     => H[r][k] = Total(V, U, e, g, k, TwoTo[r])}
<1>1. 0 \in T
  <2>1. \A k \in Nat \ {0} : Total(V, U, e, g, k, 1) = g[k]
    BY TotalOne
  <2> QED
    BY <1>0, <2>1, TwoToIs
<1>2. ASSUME NEW r \in Nat, r \in T
      PROVE  r + 1 \in T
  <2> SUFFICES ASSUME r + 1 <= size, NEW k \in Nat \ {0},
                      (k - 1) % TwoTo[r + 1] = 0
               PROVE  H[r + 1][k] = Total(V, U, e, g, k, TwoTo[r + 1])
    OBVIOUS
  <2>1. PICK d \in Nat \ {0} : d = TwoTo[r] /\ TwoTo[r + 1] = 2 * d
    BY TwoToNext
  <2>2. PICK q \in Int : k - 1 = q * (2 * d)
    <3>1. PICK dd \in Nat \ {0} : dd = 2 * d
      OBVIOUS
    <3>2. PICK x \in Int : x = k - 1
      OBVIOUS
    <3>3. PICK q \in Int : x = q * dd + (x % dd)
      BY ModIs
    <3>4. x % dd = 0
      BY <2>1, <3>1, <3>2
    <3>5. x = q * dd
      BY <3>3, <3>4
    <3> QED
      BY <3>1, <3>2, <3>5
  <2>3. (k - 1) % d = 0 /\ ((k + d) - 1) % d = 0
    <3>1. PICK z \in 0..(d - 1) : z = 0
      OBVIOUS
    <3>2. PICK x \in Int, y \in Int : x = k - 1 /\ y = (k + d) - 1
      OBVIOUS
    <3>3. PICK u \in Int, v \in Int : u = q * 2 /\ v = q * 2 + 1
      OBVIOUS
    <3>4. x = u * d + z /\ y = v * d + z
      BY <2>2, <3>1, <3>2, <3>3
    <3>5. x % d = z
      BY <3>4, ModUnique
    <3>6. y % d = z
      BY <3>4, ModUnique
    <3> QED
      BY <3>1, <3>2, <3>5, <3>6
  <2>4. r <= size /\ r \in 0..size /\ r \in 0..(size - 1) /\ r + 1 \in 0..size
    OBVIOUS
  <2>5. PICK l \in Nat \ {0} : l = k + d
    OBVIOUS
  <2>6. PICK x \in V : x = H[r][k] /\ x = Total(V, U, e, g, k, d)
    <3>1. H[r][k] = Total(V, U, e, g, k, d)
      BY <1>2, <2>1, <2>3, <2>4
    <3>2. H[r][k] \in V
      BY <2>4 DEF Rounds
    <3> QED
      BY <3>1, <3>2
  <2>7. PICK y \in V : y = H[r][l] /\ y = Total(V, U, e, g, l, d)
    <3>1. H[r][l] = Total(V, U, e, g, l, d)
      BY <1>2, <2>1, <2>3, <2>4, <2>5
    <3>2. H[r][l] \in V
      BY <2>4 DEF Rounds
    <3> QED
      BY <3>1, <3>2
  <2>8. Total(V, U, e, g, k, d + d) = U[<<x, y>>]
    <3>1. Total(V, U, e, g, k, d + d)
            = U[<<Total(V, U, e, g, k, d), Total(V, U, e, g, k + d, d)>>]
      BY TotalSplit
    <3> QED
      BY <2>5, <2>6, <2>7, <3>1
  <2>9. d + d = 2 * d
    OBVIOUS
  <2>10. H[r + 1][k] = U[<<x, y>>]
    <3>1. CASE k > size
      <4>0. k \in Nat /\ l \in Nat /\ l > size
        BY <2>5, <3>1
      <4>1. x = e /\ y = e /\ H[r + 1][k] = e
        BY <1>11, <2>4, <2>6, <2>7, <3>1, <4>0
      <4>2. e \in V /\ U[<<e, e>>] = e
        BY DEF Monoid
      <4> QED
        BY <4>1, <4>2
    <3>2. CASE k <= size
      <4>1. k \in 1..size
        BY <3>2
      <4>2. H[r + 1][k] =
              IF (k - 1) % (2 * TwoTo[r]) = 0 /\ k + TwoTo[r] <= size
              THEN U[<<H[r][k], H[r][k + TwoTo[r]]>>] ELSE H[r][k]
        BY <2>4, <4>1 DEF Rounds
      <4>3. H[r + 1][k] = IF l <= size THEN U[<<x, y>>] ELSE x
        BY <2>1, <2>5, <2>6, <2>7, <4>2
      <4>4. ~ (l <= size) => y = e
        <5>1. ~ (l <= size) => l \in Nat /\ l > size
          OBVIOUS
        <5> QED
          BY <1>11, <2>4, <2>7, <5>1
      <4>5. U[<<x, e>>] = x
        BY DEF Monoid
      <4> QED
        BY <4>3, <4>4, <4>5
    <3> QED
      BY <3>1, <3>2
  <2> QED
    BY <2>1, <2>8, <2>9, <2>10
<1> HIDE DEF T
<1>3. Nat \subseteq T
  BY <1>1, <1>2, Induction
<1>4. H[size][1] = Total(V, U, e, g, 1, TwoTo[size])
  <2>1. PICK d \in Nat \ {0} : d = TwoTo[size]
    BY TwoToNext
  <2>2. PICK o \in Nat \ {0} : o = 1
    OBVIOUS
  <2>3. (o - 1) % d = 0
    <3>1. 0 \in 0..(d - 1) /\ o - 1 = 0
      BY <2>2
    <3> QED
      BY <3>1, ModSmall
  <2>4. size \in T /\ size <= size /\ size \in Nat
    BY <1>3
  <2>5. \A k \in Nat \ {0} : (k - 1) % TwoTo[size] = 0
           => H[size][k] = Total(V, U, e, g, k, TwoTo[size])
    BY <2>4 DEF T
  <2> QED
    BY <2>1, <2>2, <2>3, <2>5
<1>5. PICK d \in Nat : d = TwoTo[size] - size /\ TwoTo[size] = size + d
  <2>1. PICK x \in Nat : x = TwoTo[size]
    BY TwoToNext
  <2>2. x > size
    BY <2>1, TwoToGrows
  <2> QED
    BY <2>1, <2>2
<1>6. PICK o \in Nat : o = 1
  OBVIOUS
<1>7. Total(V, U, e, g, o, size + d)
        = U[<<Total(V, U, e, g, o, size), Total(V, U, e, g, o + size, d)>>]
  BY TotalSplit
<1>8. Total(V, U, e, g, o + size, d) = e
  <2>1. PICK a \in Nat : a = o + size
    OBVIOUS
  <2>2. AllAre(e, g, a, d)
    BY <1>0, <1>6, <2>1 DEF AllAre
  <2>3. Total(V, U, e, g, a, d) = e
    BY <2>2, TotalNeutral
  <2> QED
    BY <2>1, <2>3
<1>9. PICK x \in V : x = Total(V, U, e, g, o, size)
  BY TotalIs
<1>10. U[<<x, e>>] = x
  BY DEF Monoid
<1> QED
  BY <1>0, <1>4, <1>5, <1>6, <1>7, <1>8, <1>9, <1>10

(* A conjunction holds if all its parts do.                                *)
LEMMA AndAll ==
  ASSUME NEW h \in [Nat -> BOOLEAN], NEW a \in Nat
  PROVE  \A k \in Nat : Total(BOOLEAN, And, TRUE, h, a, k)
                          => \A i \in 0..(k - 1) : h[a + i]
<1> DEFINE A(k) == Total(BOOLEAN, And, TRUE, h, a, k)
           T == {k \in Nat : A(k) => \A i \in 0..(k - 1) : h[a + i]}
<1>1. \A k \in Nat : A(k) \in BOOLEAN /\ A(k + 1) = And[<<A(k), h[a + k]>>]
  <2>1. PICK V, o, g : /\ V = BOOLEAN /\ o = TRUE /\ g = h
                       /\ Monoid(V, And, o) /\ g \in [Nat -> V]
    BY AndIs
  <2>2. Monoid(V, And, o) /\ g \in [Nat -> V]
    BY <2>1
  <2>3. \A k \in Nat : /\ Total(V, And, o, g, a, k) \in V
                       /\ Total(V, And, o, g, a, k + 1)
                            = And[<<Total(V, And, o, g, a, k), g[a + k]>>]
    BY <2>2, TotalIs
  <2> QED
    BY <2>1, <2>3
<1> HIDE DEF A
<1>2. 0 \in T
  OBVIOUS
<1>3. ASSUME NEW k \in Nat, k \in T
      PROVE  k + 1 \in T
  <2>1. A(k + 1) = (A(k) /\ h[a + k])
    <3>1. PICK j \in Nat : j = a + k
      OBVIOUS
    <3>2. PICK x \in BOOLEAN : x = h[j]
      OBVIOUS
    <3>3. PICK y \in BOOLEAN : y = A(k)
      BY <1>1
    <3>4. A(k + 1) = And[<<y, x>>]
      BY <1>1, <3>1, <3>2, <3>3
    <3>5. And[<<y, x>>] = (y /\ x)
      BY AndIs
    <3> QED
      BY <3>1, <3>2, <3>3, <3>4, <3>5
  <2>2. \A i \in 0..((k + 1) - 1) : i \in 0..(k - 1) \/ i = k
    OBVIOUS
  <2> QED
    BY <1>3, <2>1, <2>2
<1> HIDE DEF T
<1>4. Nat \subseteq T
  BY <1>2, <1>3, Induction
<1> QED
  BY <1>4 DEF T, A

-----------------------------------------------------------------------------
(* Operations on ciphertexts.                                              *)

(* Sums, products and masks of vectors are vectors.                        *)
LEMMA VectorsAre ==
  ASSUME NEW s \in Vector, NEW u \in Vector
  PROVE  /\ Added(s, u) \in Vector /\ Multiplied(s, u) \in Vector
         /\ FirstSlot(s) \in Vector
<1>1. \A x, y \in Residue :
        (x + y) % t \in Residue /\ (x * y) % t \in Residue /\ 0 \in Residue
  <2> SUFFICES ASSUME NEW x \in Residue, NEW y \in Residue
               PROVE  (x + y) % t \in Residue /\ (x * y) % t \in Residue
                      /\ 0 \in Residue
    OBVIOUS
  <2>1. x \in Int /\ y \in Int
    BY ResidueIs
  <2>2. PICK a \in Int, b \in Int : a = x + y /\ b = x * y
    BY <2>1
  <2>3. a % t \in Residue /\ b % t \in Residue /\ 0 \in Residue
    BY ResidueIs
  <2> QED
    BY <2>2, <2>3
<1>2. \A i \in Slot : s[i] \in Residue /\ u[i] \in Residue
  BY DEF Vector
<1> QED
  BY <1>1, <1>2 DEF Added, Multiplied, FirstSlot, Vector

(* So are rotations.                                                       *)
LEMMA RotatedVector ==
  ASSUME NEW s \in Vector, NEW i \in Int
  PROVE  Rotated(s, i) \in Vector
<1>1. Half \in Nat \ {0} /\ Half = n \div 2
  BY Sizes DEF Half
<1>2. Rotated(s, i) =
        CASE - Half < i /\ i < Half -> [j \in Slot |-> s[InRow(j, i)]]
          [] i >= Half -> [j \in Slot |-> s[InRow(OtherRow(j), i - Half)]]
          [] i <= - Half -> [j \in Slot |-> s[InRow(OtherRow(j), i + Half)]]
  BY DEF Rotated, Half
<1>3. \A d \in Int : \A j \in Slot :
        InRow(j, d) \in Slot /\ InRow(OtherRow(j), d) \in Slot
  BY InRowIs, OtherRowIs
<1>4. \A d \in Int : /\ [j \in Slot |-> s[InRow(j, d)]] \in Vector
                     /\ [j \in Slot |-> s[InRow(OtherRow(j), d)]] \in Vector
  BY <1>3 DEF Vector
<1>5. i - Half \in Int /\ i + Half \in Int
  BY <1>1
<1>6. (- Half < i /\ i < Half) \/ i >= Half \/ i <= - Half
  BY <1>1
<1> QED
  BY <1>2, <1>4, <1>5, <1>6

(* The parts of a ciphertext.                                              *)
LEMMA CiphertextIs ==
  ASSUME NEW c \in Ciphertext
  PROVE  /\ c.elems \in Nat /\ c.elems >= 2
         /\ c.slots \in Vector /\ c.want \in Vector /\ c.exact \in BOOLEAN
         /\ \A i \in Slot : c.slots[i] \in Residue /\ c.want[i] \in Residue
BY DEF Ciphertext, Vector

(* A ciphertext that holds what it should, or is known not to.             *)
Good(c) == c \in Ciphertext /\ (c.exact => c.slots = c.want)

(* Adding two ciphertexts that are good gives a good one.                  *)
LEMMA PlusIs ==
  ASSUME NEW c \in Ciphertext, NEW d \in Ciphertext
  PROVE  /\ Plus(c, d) \in Ciphertext
         /\ Plus(c, d).exact = (c.exact /\ d.exact)
         /\ \A i \in Slot :
              Plus(c, d).slots[i] = PlusRes[<<c.slots[i], d.slots[i]>>]
         /\ Good(c) /\ Good(d) => Good(Plus(c, d))
<1>1. /\ c.slots \in Vector /\ d.slots \in Vector /\ c.want \in Vector
      /\ d.want \in Vector /\ c.exact \in BOOLEAN /\ d.exact \in BOOLEAN
      /\ c.elems \in Nat \ {0, 1} /\ d.elems \in Nat \ {0, 1}
  BY DEF Ciphertext, Vector
<1>2. Larger(c.elems, d.elems) \in Nat \ {0, 1}
  BY <1>1 DEF Larger
<1>3. Added(c.slots, d.slots) \in Vector /\ Added(c.want, d.want) \in Vector
  BY <1>1, VectorsAre
<1>4. Plus(c, d) \in Ciphertext
  BY <1>1, <1>2, <1>3 DEF Plus, Ciphertext, Vector
<1>5. \A i \in Slot :
        Plus(c, d).slots[i] = PlusRes[<<c.slots[i], d.slots[i]>>]
  <2>1. \A i \in Slot : c.slots[i] \in Residue /\ d.slots[i] \in Residue
    BY CiphertextIs
  <2> QED
    BY <2>1, PlusResIs DEF Plus, Added
<1> QED
  BY <1>1, <1>4, <1>5 DEF Plus, Good

(* Multiplying them too.                                                   *)
LEMMA TimesIs ==
  ASSUME NEW c \in Ciphertext, NEW d \in Ciphertext
  PROVE  /\ Times(c, d) \in Ciphertext
         /\ Times(c, d).exact = (c.exact /\ d.exact)
         /\ \A i \in Slot :
              Times(c, d).slots[i] = TimesRes[<<c.slots[i], d.slots[i]>>]
         /\ Good(c) /\ Good(d) => Good(Times(c, d))
<1>1. /\ c.slots \in Vector /\ d.slots \in Vector /\ c.want \in Vector
      /\ d.want \in Vector /\ c.exact \in BOOLEAN /\ d.exact \in BOOLEAN
      /\ c.elems \in Nat \ {0, 1} /\ d.elems \in Nat \ {0, 1}
  BY DEF Ciphertext, Vector
<1>2. c.elems + d.elems - 1 \in Nat \ {0, 1}
  BY <1>1
<1>3. /\ Multiplied(c.slots, d.slots) \in Vector
      /\ Multiplied(c.want, d.want) \in Vector
  BY <1>1, VectorsAre
<1>4. Times(c, d) \in Ciphertext
  BY <1>1, <1>2, <1>3 DEF Times, Ciphertext, Vector
<1>5. \A i \in Slot :
        Times(c, d).slots[i] = TimesRes[<<c.slots[i], d.slots[i]>>]
  <2>1. \A i \in Slot : c.slots[i] \in Residue /\ d.slots[i] \in Residue
    BY CiphertextIs
  <2> QED
    BY <2>1, TimesResIs DEF Times, Multiplied
<1> QED
  BY <1>1, <1>4, <1>5 DEF Times, Good

(* Switching to two polynomials changes nothing else.                      *)
LEMMA SwitchedIs ==
  ASSUME NEW c \in Ciphertext
  PROVE  /\ [c EXCEPT !.elems = 2] \in Ciphertext
         /\ [c EXCEPT !.elems = 2].exact = c.exact
         /\ [c EXCEPT !.elems = 2].slots = c.slots
         /\ Good(c) => Good([c EXCEPT !.elems = 2])
         /\ Good(c) => Good(SwitchThird(c))
<1>1. 2 \in Nat \ {0, 1}
  OBVIOUS
<1>2. [c EXCEPT !.elems = 2] \in Ciphertext
  BY <1>1 DEF Ciphertext
<1>3. (c.exact /\ c.elems <= 3) \in BOOLEAN
  BY DEF Ciphertext
<1>4. SwitchThird(c) \in Ciphertext
  BY <1>1, <1>3 DEF SwitchThird, Ciphertext
<1>5. /\ [c EXCEPT !.elems = 2].exact = c.exact
      /\ [c EXCEPT !.elems = 2].slots = c.slots
      /\ [c EXCEPT !.elems = 2].want = c.want
  BY DEF Ciphertext
<1>6. /\ SwitchThird(c).slots = c.slots /\ SwitchThird(c).want = c.want
      /\ SwitchThird(c).exact => c.exact
  BY DEF SwitchThird, Ciphertext
<1> QED
  BY <1>2, <1>4, <1>5, <1>6 DEF Good

(* And multiplying and relinearizing them.                                 *)
LEMMA RelinearizedIs ==
  ASSUME NEW c \in Ciphertext, NEW d \in Ciphertext
  PROVE  /\ Relinearized(c, d) \in Ciphertext
         /\ Relinearized(c, d).exact = (c.exact /\ d.exact)
         /\ \A i \in Slot :
              Relinearized(c, d).slots[i]
                = TimesRes[<<c.slots[i], d.slots[i]>>]
         /\ Good(c) /\ Good(d) => Good(Relinearized(c, d))
<1>1. PICK v \in Ciphertext : v = Times(c, d)
  BY TimesIs
<1>2. Relinearized(c, d) = [v EXCEPT !.elems = 2]
  BY <1>1 DEF Relinearized
<1>3. /\ v.exact = (c.exact /\ d.exact)
      /\ \A i \in Slot : v.slots[i] = TimesRes[<<c.slots[i], d.slots[i]>>]
      /\ Good(c) /\ Good(d) => Good(v)
  BY <1>1, TimesIs
<1> QED
  BY <1>2, <1>3, SwitchedIs

(* A rotated ciphertext is good: RotationIs for what it holds.             *)
LEMMA RotateGood ==
  ASSUME NEW c, Good(c), NEW i \in Int
  PROVE  Good(Rotate(c, i))
<1>1. c \in Ciphertext /\ c.slots \in Vector /\ c.want \in Vector
  BY CiphertextIs DEF Good
<1>2. /\ Permuted(c.slots, FindAutomorphismIndex2n(i)) = Rotated(c.slots, i)
      /\ Rotated(c.slots, i) \in Vector /\ Rotated(c.want, i) \in Vector
  BY <1>1, RotationIs, RotatedVector
<1>3. Rotate(c, i) = [c EXCEPT !.slots = Rotated(c.slots, i),
                              !.want = Rotated(c.want, i)]
  BY <1>2 DEF Rotate
<1>4. Rotate(c, i) \in Ciphertext
  BY <1>1, <1>2, <1>3 DEF Ciphertext, Vector
<1>5. /\ Rotate(c, i).slots = Rotated(c.slots, i)
      /\ Rotate(c, i).want = Rotated(c.want, i)
      /\ Rotate(c, i).exact = c.exact
  BY <1>1, <1>3 DEF Ciphertext
<1> QED
  BY <1>4, <1>5 DEF Good

(* So is one that was rotated with digits precomputed.                     *)
LEMMA FastRotateGood ==
  ASSUME NEW c, Good(c), NEW i \in Int
  PROVE  Good([Rotate(c, i) EXCEPT !.elems = 2, !.exact = @ /\ c.elems = 2])
<1>1. PICK v \in Ciphertext : v = Rotate(c, i) /\ Good(v)
  BY RotateGood DEF Good
<1>2. v.exact \in BOOLEAN
  BY CiphertextIs
<1>3. PICK w : w = [v EXCEPT !.elems = 2, !.exact = @ /\ c.elems = 2]
  OBVIOUS
<1>4. 2 \in Nat \ {0, 1}
  OBVIOUS
<1>5. w \in Ciphertext
  BY <1>2, <1>3, <1>4 DEF Ciphertext
<1>6. w.slots = v.slots /\ w.want = v.want /\ (w.exact => v.exact)
  BY <1>3 DEF Ciphertext
<1> QED
  BY <1>1, <1>3, <1>5, <1>6 DEF Good

(* What the loop gives is a vector.                                        *)
LEMMA EvalSumVector ==
  ASSUME NEW s \in Vector, NEW b \in 1..n
  PROVE  EvalSum_2n(s, b) \in Vector
<1>1. CASE b = n
  <2>1. EvalSum_2n(s, b) = [j \in Slot |-> SumT(Line(s), 0, n)]
    BY <1>1, StepsSum
  <2>2. PICK g \in [Nat -> Residue] : g = Line(s)
    <3>1. 0 \in Slot
      BY SlotIs, Sizes
    <3> QED
      BY <3>1, RunIs
  <2>3. SumT(Line(s), 0, n) \in Residue
    <3>1. 0 \in Nat /\ n \in Nat
      BY Sizes
    <3> QED
      BY <2>2, <3>1, SumTIs, Zenon
  <2> QED
    BY <2>1, <2>3 DEF Vector
<1>2. CASE b # n
  <2>1. PICK k \in Nat : k = TwoTo[CeilLog2(b)]
    BY CeilLog2Is, TwoToNext
  <2>2. EvalSum_2n(s, b) = RunSums(s, k)
    BY <1>2, <2>1, StepsSum
  <2> QED
    BY <2>2, RunSumsIs
<1> QED
  BY <1>1, <1>2

(* So is a sum: EvalSumIs, if it is over a power of two.                   *)
LEMMA SummedGood ==
  ASSUME NEW c, Good(c), NEW b \in 1..n
  PROVE  Good(Summed(c, b))
<1>1. c \in Ciphertext /\ c.slots \in Vector /\ c.want \in Vector
      /\ c.exact \in BOOLEAN
  BY CiphertextIs DEF Good
<1>2. PICK v \in Vector, w \in Vector :
        v = EvalSum_2n(c.slots, b) /\ w = Sum(c.want, b)
  BY <1>1, EvalSumVector, SumIs
<1>3. PICK x \in BOOLEAN : x = (c.exact /\ IsPowerOfTwo(b))
  BY <1>1
<1>4. Summed(c, b) = [c EXCEPT !.slots = v, !.want = w, !.exact = x]
  BY <1>2, <1>3 DEF Summed
<1>5. Summed(c, b) \in Ciphertext
  BY <1>1, <1>2, <1>4 DEF Ciphertext, Vector
<1>6. /\ Summed(c, b).slots = v /\ Summed(c, b).want = w
      /\ Summed(c, b).exact = x
  BY <1>1, <1>4 DEF Ciphertext
<1>7. x => v = w
  <2>1. x => c.slots = c.want /\ IsPowerOfTwo(b)
    BY <1>3 DEF Good
  <2> QED
    BY <1>1, <1>2, <2>1, EvalSumIs DEF Vector
<1> QED
  BY <1>5, <1>6, <1>7 DEF Good

-----------------------------------------------------------------------------
(* A neutral value in front of the others changes no total.                *)
LEMMA TotalAfterZero ==
  ASSUME NEW V, NEW U, NEW e, Monoid(V, U, e), NEW g \in [Nat -> V],
         g[0] = e, NEW size \in Nat
  PROVE  Total(V, U, e, g, 0, size + 1) = Total(V, U, e, g, 1, size)
<1>1. PICK z \in Nat, o \in Nat : z = 0 /\ o = 1
  OBVIOUS
<1>2. PICK x \in V : x = Total(V, U, e, g, o, size)
  BY TotalIs
<1>3. z + o = o /\ o + size = size + 1
  BY <1>1
<1>4. Total(V, U, e, g, z, o + size)
        = U[<<Total(V, U, e, g, z, o), Total(V, U, e, g, z + o, size)>>]
  BY TotalSplit
<1>5. Total(V, U, e, g, z, 1) = g[z]
  BY TotalOne
<1>6. Total(V, U, e, g, z, o + size) = U[<<e, x>>]
  BY <1>1, <1>2, <1>3, <1>4, <1>5
<1>7. U[<<e, x>>] = x
  BY DEF Monoid
<1> QED
  BY <1>1, <1>2, <1>3, <1>6, <1>7

(* The total over the set 1..size is that of the values from 1 on.         *)
LEMMA CutTotal ==
  ASSUME NEW V, NEW U, NEW e, Monoid(V, U, e), NEW size \in Nat \ {0},
         NEW F \in [1..size -> V], NEW h \in [Nat -> V],
         \A k \in 1..size : h[k] = F[k]
  PROVE  Total(V, U, e, Cut(F, 1..size, e), 0, size + 1)
           = Total(V, U, e, h, 1, size)
<1>1. e \in V
  BY DEF Monoid
<1>2. PICK g \in [Nat -> V] : g = Cut(F, 1..size, e)
  BY <1>1 DEF Cut
<1>3. g[0] = e /\ \A k \in 1..size : g[k] = h[k]
  BY <1>2 DEF Cut
<1>4. PICK a \in Nat : a = 1
  OBVIOUS
<1>5. size \in Nat
  OBVIOUS
<1>6. Total(V, U, e, g, 0, size + 1) = Total(V, U, e, g, 1, size)
  BY <1>3, <1>5, TotalAfterZero
<1>7. Alike(g, a, h, a, size)
  <2>1. \A k \in 0..(size - 1) : a + k \in 1..size
    BY <1>4
  <2> QED
    BY <1>3, <2>1 DEF Alike
<1>8. Total(V, U, e, g, a, size) = Total(V, U, e, h, a, size)
  BY <1>5, <1>7, TotalSame
<1> QED
  BY <1>2, <1>4, <1>6, <1>8

(* What many ciphertexts should add up or multiply to, as a total.         *)
LEMMA AllOfIs ==
  ASSUME NEW size \in Nat \ {0}, NEW c \in [1..size -> Ciphertext],
         NEW i \in Slot, NEW h \in [Nat -> Residue],
         \A k \in 1..size : h[k] = c[k].want[i]
  PROVE  /\ AllOf(+, 0, c)[i] = Total(Residue, PlusRes, 0, h, 1, size)
         /\ AllOf( * , 1, c)[i] = Total(Residue, TimesRes, 1, h, 1, size)
<1>1. PICK F \in [1..size -> Residue] : F = [k \in 1..size |-> c[k].want[i]]
  BY CiphertextIs
<1>2. Len(c) = size
  OBVIOUS
<1>3. /\ AllOf(+, 0, c)[i] = FoldFunction(+, 0, F) % t
      /\ AllOf( * , 1, c)[i] = FoldFunction( * , 1, F) % t
  BY <1>1, <1>2 DEF AllOf
<1>4. /\ FoldFunction(+, 0, F) % t
           = Total(Residue, PlusRes, 0, Cut(F, 1..size, 0), 0, size + 1)
      /\ FoldFunction( * , 1, F) % t
           = Total(Residue, TimesRes, 1, Cut(F, 1..size, 1), 0, size + 1)
  <2>1. PICK K \in Nat : K = size + 1
    OBVIOUS
  <2>2. PICK S \in SUBSET (0..(K - 1)) : S = 1..size
    BY <2>1
  <2>3. F \in [S -> Residue]
    BY <2>2
  <2>4. /\ FoldFunction(+, 0, F) % t
             = Total(Residue, PlusRes, 0, Cut(F, S, 0), 0, K)
        /\ FoldFunction( * , 1, F) % t
             = Total(Residue, TimesRes, 1, Cut(F, S, 1), 0, K)
    BY <2>3, FoldReduced, Zenon
  <2> QED
    BY <2>1, <2>2, <2>4
<1>5. \A k \in 1..size : h[k] = F[k]
  BY <1>1
<1>6. Monoid(Residue, PlusRes, 0) /\ Monoid(Residue, TimesRes, 1)
  BY PlusResIs, TimesResIs
<1>7. Total(Residue, PlusRes, 0, Cut(F, 1..size, 0), 0, size + 1)
        = Total(Residue, PlusRes, 0, h, 1, size)
  <2>1. PICK V, U, e :
          /\ V = Residue /\ U = PlusRes /\ e = 0
          /\ Monoid(V, U, e) /\ F \in [1..size -> V] /\ h \in [Nat -> V]
    BY <1>6, Zenon
  <2>2. Monoid(V, U, e) /\ F \in [1..size -> V] /\ h \in [Nat -> V]
    BY <2>1, Zenon
  <2>3. Total(V, U, e, Cut(F, 1..size, e), 0, size + 1)
          = Total(V, U, e, h, 1, size)
    BY <1>5, <2>2, CutTotal
  <2> QED
    BY <2>1, <2>3, Zenon
<1>8. Total(Residue, TimesRes, 1, Cut(F, 1..size, 1), 0, size + 1)
        = Total(Residue, TimesRes, 1, h, 1, size)
  <2>1. PICK V, U, e :
          /\ V = Residue /\ U = TimesRes /\ e = 1
          /\ Monoid(V, U, e) /\ F \in [1..size -> V] /\ h \in [Nat -> V]
    BY <1>6, Zenon
  <2>2. Monoid(V, U, e) /\ F \in [1..size -> V] /\ h \in [Nat -> V]
    BY <2>1, Zenon
  <2>3. Total(V, U, e, Cut(F, 1..size, e), 0, size + 1)
          = Total(V, U, e, h, 1, size)
    BY <1>5, <2>2, CutTotal
  <2> QED
    BY <2>1, <2>3, Zenon
<1> QED
  BY <1>3, <1>4, <1>7, <1>8, Zenon

(* All the values of AllOf are residues.                                   *)
LEMMA AllOfVector ==
  ASSUME NEW size \in Nat \ {0}, NEW c \in [1..size -> Ciphertext]
  PROVE  AllOf(+, 0, c) \in Vector /\ AllOf( * , 1, c) \in Vector
<1>1. PICK V : V = Residue /\ Monoid(V, PlusRes, 0) /\ Monoid(V, TimesRes, 1)
  BY PlusResIs, TimesResIs
<1>2. ASSUME NEW i \in Slot
      PROVE  AllOf(+, 0, c)[i] \in Residue /\ AllOf( * , 1, c)[i] \in Residue
  <2>1. PICK h \in [Nat -> Residue] : \A k \in 1..size : h[k] = c[k].want[i]
    <3>1. PICK h : h = [k \in Nat |->
                       IF k \in 1..size THEN c[k].want[i] ELSE 0]
      OBVIOUS
    <3>2. \A k \in 1..size : c[k].want[i] \in Residue
      BY CiphertextIs
    <3>3. 0 \in Residue
      BY ResidueIs
    <3> QED
      BY <3>1, <3>2, <3>3
  <2>2. /\ AllOf(+, 0, c)[i] = Total(Residue, PlusRes, 0, h, 1, size)
        /\ AllOf( * , 1, c)[i] = Total(Residue, TimesRes, 1, h, 1, size)
    BY <2>1, AllOfIs
  <2>3. 1 \in Nat
    OBVIOUS
  <2>4. /\ Total(V, PlusRes, 0, h, 1, size) \in V
        /\ Total(V, TimesRes, 1, h, 1, size) \in V
    <3>1. PICK a, z, o : a \in Nat /\ a = 1 /\ z = 0 /\ o = 1
      OBVIOUS
    <3>2. Total(V, PlusRes, z, h, a, size) \in V
      BY <1>1, <3>1, TotalIs
    <3>3. Total(V, TimesRes, o, h, a, size) \in V
      BY <1>1, <3>1, TotalIs
    <3> QED
      BY <3>1, <3>2, <3>3
  <2> QED
    BY <1>1, <2>2, <2>4
<1>3. /\ AllOf(+, 0, c) = [i \in Slot |-> AllOf(+, 0, c)[i]]
      /\ AllOf( * , 1, c) = [i \in Slot |-> AllOf( * , 1, c)[i]]
  BY DEF AllOf
<1> QED
  BY <1>2, <1>3 DEF Vector

(* A ciphertext that is the sum, or the product, of many.                  *)
Totals(v, U, e, c, size) ==
  /\ v \in Ciphertext
  /\ v.exact => \A k \in 1..size : c[k].exact
  /\ \A i \in Slot : \A h \in [Nat -> Residue] :
       (\A k \in 1..size : h[k] = c[k].slots[i])
         => v.slots[i] = Total(Residue, U, e, h, 1, size)

(* If the many hold what they should, it holds what it should.             *)
LEMMA TotalsGood ==
  ASSUME NEW size \in Nat \ {0}, NEW c \in [1..size -> Ciphertext],
         \A k \in 1..size : Good(c[k]), NEW v
  PROVE  /\ Totals(v, PlusRes, 0, c, size)
              => Good([v EXCEPT !.want = AllOf(+, 0, c)])
         /\ Totals(v, TimesRes, 1, c, size)
              => Good([v EXCEPT !.want = AllOf( * , 1, c)])
<1>1. ASSUME NEW i \in Slot
      PROVE  \E h \in [Nat -> Residue] :
               \A k \in 1..size : h[k] = c[k].slots[i]
  <2>1. PICK h : h = [k \in Nat |-> IF k \in 1..size THEN c[k].slots[i] ELSE 0]
    OBVIOUS
  <2>2. \A k \in 1..size : c[k].slots[i] \in Residue
    BY CiphertextIs
  <2>3. 0 \in Residue
    BY ResidueIs
  <2> QED
    BY <2>1, <2>2, <2>3
<1>2. \A x \in Vector : v \in Ciphertext =>
        /\ [v EXCEPT !.want = x] \in Ciphertext
        /\ [v EXCEPT !.want = x].want = x
        /\ [v EXCEPT !.want = x].slots = v.slots
        /\ [v EXCEPT !.want = x].exact = v.exact
  BY DEF Ciphertext, Vector
<1>3. (\A k \in 1..size : c[k].exact)
        => \A k \in 1..size : c[k].slots = c[k].want
  BY DEF Good
<1>4. ASSUME Totals(v, PlusRes, 0, c, size), v.exact
      PROVE  v.slots = AllOf(+, 0, c)
  <2>1. \A k \in 1..size : c[k].slots = c[k].want
    BY <1>3, <1>4 DEF Totals
  <2>0. PICK w \in Vector : w = AllOf(+, 0, c)
    BY AllOfVector
  <2>2. ASSUME NEW i \in Slot
        PROVE  v.slots[i] = w[i]
    <3>1. PICK h \in [Nat -> Residue] :
            \A k \in 1..size : h[k] = c[k].slots[i]
      BY <1>1
    <3>2. v.slots[i] = Total(Residue, PlusRes, 0, h, 1, size)
      BY <1>4, <3>1 DEF Totals
    <3>3. \A k \in 1..size : h[k] = c[k].want[i]
      BY <2>1, <3>1
    <3> QED
      BY <2>0, <3>2, <3>3, AllOfIs
  <2>3. v.slots \in Vector
    BY <1>4, CiphertextIs DEF Totals
  <2>4. ASSUME NEW x \in Vector, NEW y \in Vector,
               \A i \in Slot : x[i] = y[i]
        PROVE  x = y
    BY <2>4 DEF Vector
  <2>5. v.slots = w
    BY <2>2, <2>3, <2>4
  <2> QED
    BY <2>0, <2>5
<1>5. ASSUME Totals(v, TimesRes, 1, c, size), v.exact
      PROVE  v.slots = AllOf( * , 1, c)
  <2>1. \A k \in 1..size : c[k].slots = c[k].want
    BY <1>3, <1>5 DEF Totals
  <2>0. PICK w \in Vector : w = AllOf( * , 1, c)
    BY AllOfVector
  <2>2. ASSUME NEW i \in Slot
        PROVE  v.slots[i] = w[i]
    <3>1. PICK h \in [Nat -> Residue] :
            \A k \in 1..size : h[k] = c[k].slots[i]
      BY <1>1
    <3>2. v.slots[i] = Total(Residue, TimesRes, 1, h, 1, size)
      BY <1>5, <3>1 DEF Totals
    <3>3. \A k \in 1..size : h[k] = c[k].want[i]
      BY <2>1, <3>1
    <3> QED
      BY <2>0, <3>2, <3>3, AllOfIs
  <2>3. v.slots \in Vector
    BY <1>5, CiphertextIs DEF Totals
  <2>4. ASSUME NEW x \in Vector, NEW y \in Vector,
               \A i \in Slot : x[i] = y[i]
        PROVE  x = y
    BY <2>4 DEF Vector
  <2>5. v.slots = w
    BY <2>2, <2>3, <2>4
  <2> QED
    BY <2>0, <2>5
<1>6. PICK x \in Vector, y \in Vector :
        x = AllOf(+, 0, c) /\ y = AllOf( * , 1, c)
  BY AllOfVector
<1>7. Totals(v, PlusRes, 0, c, size)
        => Good([v EXCEPT !.want = AllOf(+, 0, c)])
  BY <1>2, <1>4, <1>6 DEF Totals, Good
<1>8. Totals(v, TimesRes, 1, c, size)
        => Good([v EXCEPT !.want = AllOf( * , 1, c)])
  BY <1>2, <1>5, <1>6 DEF Totals, Good
<1> QED
  BY <1>7, <1>8

-----------------------------------------------------------------------------
(* The first l values of the loops of EvalAddMany and EvalMultMany.        *)
Grown(f, l, size, c, S, D) ==
  /\ f \in [1..l -> S]
  /\ \A k \in 1..size : f[k] = c[k]
  /\ \A j \in 1..(l - size) : f[size + j] = D[<<f[2 * j - 1], f[2 * j]>>]

(* There are such values.                                                  *)
LEMMA GrownExists ==
  ASSUME NEW S, NEW size \in Nat \ {0}, NEW c \in [1..size -> S],
         NEW D \in [S \X S -> S]
  PROVE  \E f : Grown(f, 2 * size - 1, size, c, S, D)
<1> DEFINE Z == {i \in Nat : i <= size - 1 =>
                   \E f : Grown(f, size + i, size, c, S, D)}
<1>1. 0 \in Z
  <2>1. size + 0 = size
    OBVIOUS
  <2>2. Grown(c, size, size, c, S, D)
    BY DEF Grown
  <2> QED
    BY <2>1, <2>2
<1>2. ASSUME NEW i \in Nat, i \in Z
      PROVE  i + 1 \in Z
  <2> SUFFICES ASSUME i + 1 <= size - 1
               PROVE  \E f : Grown(f, size + (i + 1), size, c, S, D)
    OBVIOUS
  <2>1. PICK f : Grown(f, size + i, size, c, S, D)
    BY <1>2
  <2>2. PICK l \in Nat, a \in Nat, b \in Nat :
          l = size + i /\ a = 2 * (i + 1) - 1 /\ b = 2 * (i + 1)
    OBVIOUS
  <2>3. a \in 1..l /\ b \in 1..l
    BY <2>2
  <2>4. f \in [1..l -> S]
    BY <2>1, <2>2 DEF Grown
  <2>5. PICK w \in S : w = D[<<f[a], f[b]>>]
    BY <2>3, <2>4
  <2> DEFINE g == [k \in 1..(l + 1) |-> IF k <= l THEN f[k] ELSE w]
  <2>6. /\ g \in [1..(l + 1) -> S] /\ g[l + 1] = w
        /\ \A k \in 1..l : g[k] = f[k]
    BY <2>4
  <2> HIDE DEF g
  <2>7. \A k \in 1..size : g[k] = c[k]
    BY <2>1, <2>2, <2>6 DEF Grown
  <2>8. ASSUME NEW j \in 1..(i + 1)
        PROVE  g[size + j] = D[<<g[2 * j - 1], g[2 * j]>>]
    <3>1. CASE j = i + 1
      <4>1. size + j = l + 1 /\ 2 * j - 1 = a /\ 2 * j = b
        BY <2>2, <3>1
      <4> QED
        BY <2>3, <2>5, <2>6, <4>1
    <3>2. CASE j # i + 1
      <4>1. j \in 1..((size + i) - size)
        BY <3>2
      <4>2. size + j \in 1..l /\ 2 * j - 1 \in 1..l /\ 2 * j \in 1..l
        BY <2>2, <4>1
      <4>3. f[size + j] = D[<<f[2 * j - 1], f[2 * j]>>]
        BY <2>1, <4>1 DEF Grown
      <4> QED
        BY <2>6, <4>2, <4>3
    <3> QED
      BY <3>1, <3>2
  <2>9. size + (i + 1) = l + 1 /\ (size + (i + 1)) - size = i + 1
    BY <2>2
  <2>10. Grown(g, size + (i + 1), size, c, S, D)
    BY <2>6, <2>7, <2>8, <2>9 DEF Grown
  <2> QED
    BY <2>10
<1> HIDE DEF Z
<1>3. Nat \subseteq Z
  BY <1>1, <1>2, Induction
<1>4. PICK i \in Nat : i = size - 1 /\ i <= size - 1
  OBVIOUS
<1>5. PICK f : Grown(f, size + i, size, c, S, D)
  BY <1>3, <1>4 DEF Z
<1>6. size + i = 2 * size - 1
  BY <1>4
<1> QED
  BY <1>5, <1>6

(* Values that are computed from the first ones alone are all of S.        *)
LEMMA GrownClosed ==
  ASSUME NEW S, NEW size \in Nat \ {0}, NEW f,
         \A k \in 1..size : f[k] \in S,
         \A j \in 1..(size - 1) :
           f[2 * j - 1] \in S /\ f[2 * j] \in S => f[size + j] \in S
  PROVE  \A k \in 1..(2 * size - 1) : f[k] \in S
<1> DEFINE Z == {i \in Nat : i <= size - 1 =>
                   \A k \in 1..(size + i) : f[k] \in S}
<1>1. 0 \in Z
  OBVIOUS
<1>2. ASSUME NEW i \in Nat, i \in Z
      PROVE  i + 1 \in Z
  <2> SUFFICES ASSUME i + 1 <= size - 1, NEW k \in 1..(size + (i + 1))
               PROVE  f[k] \in S
    OBVIOUS
  <2>1. \A j \in 1..(size + i) : f[j] \in S
    BY <1>2
  <2>2. CASE k <= size + i
    BY <2>1, <2>2
  <2>3. CASE k > size + i
    <3>1. PICK j \in 1..(size - 1) : j = i + 1
      OBVIOUS
    <3>2. /\ k = size + j /\ 2 * j - 1 \in 1..(size + i)
          /\ 2 * j \in 1..(size + i)
      BY <2>3, <3>1
    <3> QED
      BY <2>1, <3>2
  <2> QED
    BY <2>2, <2>3
<1> HIDE DEF Z
<1>3. Nat \subseteq Z
  BY <1>1, <1>2, Induction
<1>4. size - 1 \in Nat /\ size + (size - 1) = 2 * size - 1
  OBVIOUS
<1> QED
  BY <1>3, <1>4 DEF Z

(* One more ciphertext of two others.                                      *)
Combined(v, x, y, U) ==
  /\ v.exact = (x.exact /\ y.exact)
  /\ \A i \in Slot : v.slots[i] = U[<<x.slots[i], y.slots[i]>>]

(* The last of the ciphertexts of those loops is their total.              *)
LEMMA GrownTotals ==
  ASSUME NEW size \in Nat \ {0}, NEW c \in [1..size -> Ciphertext],
         NEW U, NEW e, Monoid(Residue, U, e),
         NEW f \in [1..(2 * size - 1) -> Ciphertext],
         \A k \in 1..size : f[k] = c[k],
         \A j \in 1..(size - 1) :
           Combined(f[size + j], f[2 * j - 1], f[2 * j], U)
  PROVE  Totals(f[2 * size - 1], U, e, c, size)
<1>1. PICK l \in Nat \ {0} : l = 2 * size - 1 /\ size <= l
  OBVIOUS
<1>2. f \in [1..l -> Ciphertext] /\ f[l] \in Ciphertext
  BY <1>1
<1>3. \A j \in 1..(size - 1) : /\ size + j \in 1..l /\ 2 * j - 1 \in 1..l
                               /\ 2 * j \in 1..l
                               /\ size + j \in Nat /\ 2 * j - 1 \in Nat
                               /\ 2 * j \in Nat
  BY <1>1
<1>4. ASSUME NEW i \in Slot, NEW h \in [Nat -> Residue],
             \A k \in 1..size : h[k] = c[k].slots[i]
      PROVE  f[l].slots[i] = Total(Residue, U, e, h, 1, size)
  <2> DEFINE g == [k \in Nat |-> IF k \in 1..l THEN f[k].slots[i] ELSE e]
  <2>1. \A k \in 1..l : f[k].slots[i] \in Residue
    BY <1>2, CiphertextIs
  <2>2. e \in Residue
    BY MonoidIs
  <2>3. g \in [Nat -> Residue] /\ \A k \in 1..l : g[k] = f[k].slots[i]
    BY <2>1, <2>2
  <2> HIDE DEF g
  <2>4. \A j \in 1..(size - 1) :
          f[size + j].slots[i]
            = U[<<f[2 * j - 1].slots[i], f[2 * j].slots[i]>>]
    BY DEF Combined
  <2>5. \A j \in 1..(size - 1) :
          g[size + j] = U[<<g[2 * j - 1], g[2 * j]>>]
    BY <1>3, <2>3, <2>4
  <2>6. Queue(Residue, U, g, size)
    BY <2>3, <2>5 DEF Queue
  <2>7. g[2 * size - 1] = Total(Residue, U, e, g, 1, size)
    BY <2>6, QueueTotal
  <2>8. l \in 1..l
    BY <1>1
  <2>9. f[l].slots[i] = Total(Residue, U, e, g, 1, size)
    BY <1>1, <2>3, <2>7, <2>8
  <2>10. PICK o \in Nat : o = 1
    OBVIOUS
  <2>11. Alike(g, o, h, o, size)
    <3>1. \A k \in 0..(size - 1) : o + k \in 1..size /\ o + k \in 1..l
      BY <1>1, <2>10
    <3> QED
      BY <1>4, <2>3, <3>1 DEF Alike
  <2>12. Total(Residue, U, e, g, o, size) = Total(Residue, U, e, h, o, size)
    BY <2>3, <2>11, TotalSame
  <2> QED
    BY <2>9, <2>10, <2>12
<1>5. ASSUME f[l].exact
      PROVE  \A k \in 1..size : c[k].exact
  <2> DEFINE g == [k \in Nat |-> IF k \in 1..l THEN f[k].exact ELSE TRUE]
  <2>1. \A k \in 1..l : f[k].exact \in BOOLEAN
    BY <1>2, CiphertextIs
  <2>2. g \in [Nat -> BOOLEAN] /\ \A k \in 1..l : g[k] = f[k].exact
    <3>1. \A k \in 1..l : g[k] = f[k].exact
      BY <1>1
    <3>2. \A k \in Nat : (IF k \in 1..l THEN f[k].exact ELSE TRUE) \in BOOLEAN
      BY <2>1
    <3> QED
      BY <3>1, <3>2
  <2> HIDE DEF g
  <2>3. \A j \in 1..(size - 1) :
          g[size + j] = And[<<g[2 * j - 1], g[2 * j]>>]
    <3> SUFFICES ASSUME NEW j \in 1..(size - 1)
                 PROVE  g[size + j] = And[<<g[2 * j - 1], g[2 * j]>>]
      OBVIOUS
    <3>1. f[size + j].exact = (f[2 * j - 1].exact /\ f[2 * j].exact)
      BY DEF Combined
    <3>2. PICK x \in BOOLEAN, y \in BOOLEAN :
            x = g[2 * j - 1] /\ y = g[2 * j]
      BY <1>3, <2>2
    <3>3. x = f[2 * j - 1].exact /\ y = f[2 * j].exact
      BY <1>3, <2>2, <3>2
    <3>4. g[size + j] = (x /\ y)
      BY <1>3, <2>2, <3>1, <3>3
    <3>5. And[<<x, y>>] = (x /\ y)
      BY AndIs
    <3> QED
      BY <3>2, <3>4, <3>5
  <2>4. PICK V, o, a : /\ V = BOOLEAN /\ o = TRUE /\ a = 1 /\ a \in Nat
                       /\ Monoid(V, And, o) /\ g \in [Nat -> V]
    BY <2>2, AndIs
  <2>5. Queue(V, And, g, size)
    BY <2>3, <2>4 DEF Queue
  <2>6. g[2 * size - 1] = Total(V, And, o, g, 1, size)
    <3>1. Monoid(V, And, o)
      BY <2>4
    <3> QED
      BY <2>5, <3>1, QueueTotal, Zenon
  <2>7. l \in 1..l
    BY <1>1
  <2>8. g[l] = TRUE
    BY <1>5, <2>1, <2>2, <2>7
  <2>9. Total(BOOLEAN, And, TRUE, g, a, size)
    BY <1>1, <2>4, <2>6, <2>8
  <2>10. \A k \in 0..(size - 1) : g[a + k]
    <3>1. a \in Nat /\ size \in Nat
      BY <2>4
    <3> QED
      BY <2>2, <2>9, <3>1, AndAll, Zenon
  <2> SUFFICES ASSUME NEW k \in 1..size PROVE c[k].exact
    OBVIOUS
  <2>11. k - 1 \in 0..(size - 1) /\ a + (k - 1) = k /\ k \in 1..l
    BY <1>1, <2>4
  <2>12. g[k]
    BY <2>10, <2>11
  <2> QED
    BY <2>2, <2>11, <2>12
<1> QED
  BY <1>1, <1>2, <1>4, <1>5 DEF Totals

-----------------------------------------------------------------------------
(* EvalAddMany adds all its operands.                                       *)
LEMMA TreePlus ==
  ASSUME NEW size \in Nat \ {0}, NEW c \in [1..size -> Ciphertext]
  PROVE  Totals(Tree(c, Plus), PlusRes, 0, c, size)
<1> DEFINE R == [p \in Ciphertext \X Ciphertext |-> Plus(p[1], p[2])]
           f[k \in 1..(2 * size - 1)] ==
             IF k <= size THEN c[k]
             ELSE Plus(f[2 * (k - size) - 1], f[2 * (k - size)])
<1>1. \A x, y \in Ciphertext : Plus(x, y) \in Ciphertext
  BY PlusIs
<1>2. /\ R \in [Ciphertext \X Ciphertext -> Ciphertext]
      /\ \A x, y \in Ciphertext : R[<<x, y>>] = Plus(x, y)
  BY <1>1
<1> HIDE DEF R
<1>3. Len(c) = size
  OBVIOUS
<1>4. Tree(c, Plus) = f[2 * size - 1]
  BY <1>3 DEF Tree
<1>5. PICK g : Grown(g, 2 * size - 1, size, c, Ciphertext, R)
  BY <1>2, GrownExists
<1>6. /\ g \in [1..(2 * size - 1) -> Ciphertext]
      /\ \A k \in 1..size : g[k] = c[k]
      /\ \A j \in 1..(size - 1) :
           g[size + j] = R[<<g[2 * j - 1], g[2 * j]>>]
  <2>1. (2 * size - 1) - size = size - 1
    OBVIOUS
  <2> QED
    BY <1>5, <2>1 DEF Grown
<1>7. g = [k \in 1..(2 * size - 1) |->
             IF k <= size THEN c[k]
             ELSE Plus(g[2 * (k - size) - 1], g[2 * (k - size)])]
  <2> SUFFICES ASSUME NEW k \in 1..(2 * size - 1)
               PROVE  g[k] = IF k <= size THEN c[k]
                             ELSE Plus(g[2 * (k - size) - 1],
                                  g[2 * (k - size)])
    BY <1>6
  <2>1. CASE k <= size
    BY <1>6, <2>1
  <2>2. CASE k > size
    <3>1. PICK j \in 1..(size - 1) : j = k - size
      BY <2>2
    <3>2. PICK a \in 1..(2 * size - 1), b \in 1..(2 * size - 1) :
            a = 2 * j - 1 /\ b = 2 * j
      OBVIOUS
    <3>3. k = size + j
      BY <3>1
    <3>4. g[k] = R[<<g[a], g[b]>>]
      BY <1>6, <3>2, <3>3
    <3>5. g[a] \in Ciphertext /\ g[b] \in Ciphertext
      BY <1>6
    <3>6. g[k] = Plus(g[a], g[b])
      BY <1>2, <3>4, <3>5
    <3> QED
      BY <2>2, <3>1, <3>2, <3>6
  <2> QED
    BY <2>1, <2>2
<1>8. f = [k \in 1..(2 * size - 1) |->
             IF k <= size THEN c[k]
             ELSE Plus(f[2 * (k - size) - 1], f[2 * (k - size)])]
  BY <1>7
<1> HIDE DEF f
<1>9. \A k \in 1..size : f[k] = c[k]
  <2>1. \A k \in 1..size : k \in 1..(2 * size - 1) /\ k <= size
    OBVIOUS
  <2> QED
    BY <1>8, <2>1
<1>10. ASSUME NEW j \in 1..(size - 1)
       PROVE  f[size + j] = Plus(f[2 * j - 1], f[2 * j])
  <2>1. PICK k \in 1..(2 * size - 1) : k = size + j /\ ~ (k <= size)
    OBVIOUS
  <2>2. k - size = j
    BY <2>1
  <2> QED
    BY <1>8, <2>1, <2>2
<1>11. \A k \in 1..(2 * size - 1) : f[k] \in Ciphertext
  <2>1. \A k \in 1..size : f[k] \in Ciphertext
    BY <1>9
  <2>2. \A j \in 1..(size - 1) :
          f[2 * j - 1] \in Ciphertext /\ f[2 * j] \in Ciphertext
            => f[size + j] \in Ciphertext
    BY <1>1, <1>10
  <2> QED
    BY <2>1, <2>2, GrownClosed
<1>12. f \in [1..(2 * size - 1) -> Ciphertext]
  BY <1>8, <1>11
<1>13. ASSUME NEW j \in 1..(size - 1)
       PROVE  Combined(f[size + j], f[2 * j - 1], f[2 * j], PlusRes)
  <2>1. 2 * j - 1 \in 1..(2 * size - 1) /\ 2 * j \in 1..(2 * size - 1)
    OBVIOUS
  <2>2. PICK x \in Ciphertext, y \in Ciphertext :
          x = f[2 * j - 1] /\ y = f[2 * j]
    BY <1>11, <2>1
  <2>3. Combined(Plus(x, y), x, y, PlusRes)
    BY PlusIs DEF Combined
  <2> QED
    BY <1>10, <2>2, <2>3
<1>14. PICK e : e = 0 /\ Monoid(Residue, PlusRes, e)
  BY PlusResIs
<1>15. Totals(f[2 * size - 1], PlusRes, e, c, size)
  BY <1>9, <1>12, <1>13, <1>14, GrownTotals
<1> QED
  BY <1>4, <1>14, <1>15

(* EvalMultMany multiplies all its operands.                                *)
LEMMA TreeRelinearized ==
  ASSUME NEW size \in Nat \ {0}, NEW c \in [1..size -> Ciphertext]
  PROVE  Totals(Tree(c, Relinearized), TimesRes, 1, c, size)
<1> DEFINE R == [p \in Ciphertext \X Ciphertext |-> Relinearized(p[1], p[2])]
           f[k \in 1..(2 * size - 1)] ==
             IF k <= size THEN c[k]
             ELSE Relinearized(f[2 * (k - size) - 1], f[2 * (k - size)])
<1>1. \A x, y \in Ciphertext : Relinearized(x, y) \in Ciphertext
  BY RelinearizedIs
<1>2. /\ R \in [Ciphertext \X Ciphertext -> Ciphertext]
      /\ \A x, y \in Ciphertext : R[<<x, y>>] = Relinearized(x, y)
  BY <1>1
<1> HIDE DEF R
<1>3. Len(c) = size
  OBVIOUS
<1>4. Tree(c, Relinearized) = f[2 * size - 1]
  BY <1>3 DEF Tree
<1>5. PICK g : Grown(g, 2 * size - 1, size, c, Ciphertext, R)
  BY <1>2, GrownExists
<1>6. /\ g \in [1..(2 * size - 1) -> Ciphertext]
      /\ \A k \in 1..size : g[k] = c[k]
      /\ \A j \in 1..(size - 1) :
           g[size + j] = R[<<g[2 * j - 1], g[2 * j]>>]
  <2>1. (2 * size - 1) - size = size - 1
    OBVIOUS
  <2> QED
    BY <1>5, <2>1 DEF Grown
<1>7. g = [k \in 1..(2 * size - 1) |->
             IF k <= size THEN c[k]
             ELSE Relinearized(g[2 * (k - size) - 1], g[2 * (k - size)])]
  <2> SUFFICES ASSUME NEW k \in 1..(2 * size - 1)
               PROVE  g[k] = IF k <= size THEN c[k]
                             ELSE Relinearized(g[2 * (k - size) - 1],
                                  g[2 * (k - size)])
    BY <1>6
  <2>1. CASE k <= size
    BY <1>6, <2>1
  <2>2. CASE k > size
    <3>1. PICK j \in 1..(size - 1) : j = k - size
      BY <2>2
    <3>2. PICK a \in 1..(2 * size - 1), b \in 1..(2 * size - 1) :
            a = 2 * j - 1 /\ b = 2 * j
      OBVIOUS
    <3>3. k = size + j
      BY <3>1
    <3>4. g[k] = R[<<g[a], g[b]>>]
      BY <1>6, <3>2, <3>3
    <3>5. g[a] \in Ciphertext /\ g[b] \in Ciphertext
      BY <1>6
    <3>6. g[k] = Relinearized(g[a], g[b])
      BY <1>2, <3>4, <3>5
    <3> QED
      BY <2>2, <3>1, <3>2, <3>6
  <2> QED
    BY <2>1, <2>2
<1>8. f = [k \in 1..(2 * size - 1) |->
             IF k <= size THEN c[k]
             ELSE Relinearized(f[2 * (k - size) - 1], f[2 * (k - size)])]
  BY <1>7
<1> HIDE DEF f
<1>9. \A k \in 1..size : f[k] = c[k]
  <2>1. \A k \in 1..size : k \in 1..(2 * size - 1) /\ k <= size
    OBVIOUS
  <2> QED
    BY <1>8, <2>1
<1>10. ASSUME NEW j \in 1..(size - 1)
       PROVE  f[size + j] = Relinearized(f[2 * j - 1], f[2 * j])
  <2>1. PICK k \in 1..(2 * size - 1) : k = size + j /\ ~ (k <= size)
    OBVIOUS
  <2>2. k - size = j
    BY <2>1
  <2> QED
    BY <1>8, <2>1, <2>2
<1>11. \A k \in 1..(2 * size - 1) : f[k] \in Ciphertext
  <2>1. \A k \in 1..size : f[k] \in Ciphertext
    BY <1>9
  <2>2. \A j \in 1..(size - 1) :
          f[2 * j - 1] \in Ciphertext /\ f[2 * j] \in Ciphertext
            => f[size + j] \in Ciphertext
    BY <1>1, <1>10
  <2> QED
    BY <2>1, <2>2, GrownClosed
<1>12. f \in [1..(2 * size - 1) -> Ciphertext]
  BY <1>8, <1>11
<1>13. ASSUME NEW j \in 1..(size - 1)
       PROVE  Combined(f[size + j], f[2 * j - 1], f[2 * j], TimesRes)
  <2>1. 2 * j - 1 \in 1..(2 * size - 1) /\ 2 * j \in 1..(2 * size - 1)
    OBVIOUS
  <2>2. PICK x \in Ciphertext, y \in Ciphertext :
          x = f[2 * j - 1] /\ y = f[2 * j]
    BY <1>11, <2>1
  <2>3. Combined(Relinearized(x, y), x, y, TimesRes)
    BY RelinearizedIs DEF Combined
  <2> QED
    BY <1>10, <2>2, <2>3
<1>14. PICK e : e = 1 /\ Monoid(Residue, TimesRes, e)
  BY TimesResIs
<1>15. Totals(f[2 * size - 1], TimesRes, e, c, size)
  BY <1>9, <1>12, <1>13, <1>14, GrownTotals
<1> QED
  BY <1>4, <1>14, <1>15

-----------------------------------------------------------------------------
(* The r-th round of the loop of EvalAddManyInPlace.                       *)
Round(v, r, size) ==
  [k \in 1..size |->
     IF (k - 1) % (2 * TwoTo[r - 1]) = 0 /\ k + TwoTo[r - 1] <= size
     THEN Plus(v[k], v[k + TwoTo[r - 1]]) ELSE v[k]]

(* It leaves ciphertexts.                                                  *)
LEMMA RoundIs ==
  ASSUME NEW size \in Nat \ {0}, NEW v \in [1..size -> Ciphertext],
         NEW r \in Nat \ {0}
  PROVE  Round(v, r, size) \in [1..size -> Ciphertext]
<1>1. PICK i \in Nat : i = r - 1
  OBVIOUS
<1>2. PICK d \in Nat \ {0} : d = TwoTo[i]
  BY TwoToNext
<1>3. Round(v, r, size) =
        [k \in 1..size |->
           IF (k - 1) % (2 * d) = 0 /\ k + d <= size
           THEN Plus(v[k], v[k + d]) ELSE v[k]]
  BY <1>1, <1>2 DEF Round
<1>4. ASSUME NEW k \in 1..size, k + d <= size
      PROVE  Plus(v[k], v[k + d]) \in Ciphertext
  <2>1. k + d \in 1..size
    BY <1>4
  <2> QED
    BY <2>1, PlusIs
<1> QED
  BY <1>3, <1>4

(* The first of the ciphertexts after the last round is their total.       *)
LEMMA RoundsTotals ==
  ASSUME NEW size \in Nat \ {0}, NEW c \in [1..size -> Ciphertext],
         NEW f, f[0] = c,
         \A r \in 0..size : f[r] \in [1..size -> Ciphertext],
         \A r \in 0..(size - 1) : f[r + 1] = Round(f[r], r + 1, size)
  PROVE  Totals(f[size][1], PlusRes, 0, c, size)
<1>1. 1 \in 1..size /\ size \in 0..size /\ 0 \in 0..size /\ size \in Nat
  OBVIOUS
<1>2. ASSUME NEW r \in 0..(size - 1), NEW k \in 1..size
      PROVE  /\ f[r + 1][k] =
                  IF (k - 1) % (2 * TwoTo[r]) = 0 /\ k + TwoTo[r] <= size
                  THEN Plus(f[r][k], f[r][k + TwoTo[r]]) ELSE f[r][k]
             /\ k + TwoTo[r] <= size => k + TwoTo[r] \in 1..size
             /\ r \in 0..size /\ r + 1 \in 0..size
  <2>1. r \in Nat /\ r \in 0..size /\ r + 1 \in 0..size /\ (r + 1) - 1 = r
    OBVIOUS
  <2>2. PICK d \in Nat \ {0} : d = TwoTo[r]
    BY <2>1, TwoToNext
  <2>3. k + d <= size => k + d \in 1..size
    OBVIOUS
  <2>4. f[r + 1] = Round(f[r], r + 1, size)
    OBVIOUS
  <2>5. f[r + 1] =
          [j \in 1..size |->
             IF (j - 1) % (2 * TwoTo[r]) = 0 /\ j + TwoTo[r] <= size
             THEN Plus(f[r][j], f[r][j + TwoTo[r]]) ELSE f[r][j]]
    BY <2>1, <2>4 DEF Round
  <2> QED
    BY <2>1, <2>2, <2>3, <2>5
<1>3. ASSUME NEW i \in Slot, NEW h \in [Nat -> Residue],
             \A k \in 1..size : h[k] = c[k].slots[i]
      PROVE  f[size][1].slots[i] = Total(Residue, PlusRes, 0, h, 1, size)
  <2>0. PICK e : e = 0 /\ Monoid(Residue, PlusRes, e) /\ e \in Residue
    BY PlusResIs, ResidueIs
  <2> DEFINE H == [r \in 0..size |-> [k \in Nat |->
                     IF k \in 1..size THEN f[r][k].slots[i] ELSE e]]
  <2>1. \A r \in 0..size : \A k \in 1..size : f[r][k].slots[i] \in Residue
    BY CiphertextIs
  <2>2. /\ \A r \in 0..size : H[r] \in [Nat -> Residue]
        /\ \A r \in 0..size : \A k \in 1..size : H[r][k] = f[r][k].slots[i]
        /\ \A r \in 0..size : \A k \in Nat : k > size => H[r][k] = e
    BY <2>0, <2>1
  <2> HIDE DEF H
  <2>3. ASSUME NEW r \in 0..(size - 1), NEW k \in 1..size
        PROVE  H[r + 1][k] =
                 IF (k - 1) % (2 * TwoTo[r]) = 0 /\ k + TwoTo[r] <= size
                 THEN PlusRes[<<H[r][k], H[r][k + TwoTo[r]]>>] ELSE H[r][k]
    <3>1. PICK l : l = k + TwoTo[r] /\ (l <= size => l \in 1..size)
      BY <1>2
    <3>2. PICK B \in BOOLEAN :
            B = ((k - 1) % (2 * TwoTo[r]) = 0 /\ l <= size)
      OBVIOUS
    <3>3. f[r + 1][k] = IF B THEN Plus(f[r][k], f[r][l]) ELSE f[r][k]
      BY <1>2, <3>1, <3>2
    <3>4. r \in 0..size /\ r + 1 \in 0..size /\ (B => l \in 1..size)
      BY <1>2, <3>1, <3>2
    <3>5. H[r + 1][k] = f[r + 1][k].slots[i] /\ H[r][k] = f[r][k].slots[i]
      BY <2>2, <3>4
    <3>6. B => H[r][l] = f[r][l].slots[i]
      BY <2>2, <3>4
    <3>7. B => Plus(f[r][k], f[r][l]).slots[i]
                 = PlusRes[<<f[r][k].slots[i], f[r][l].slots[i]>>]
      BY <3>4, PlusIs
    <3>8. H[r + 1][k] = IF B THEN PlusRes[<<H[r][k], H[r][l]>>] ELSE H[r][k]
      BY <3>3, <3>5, <3>6, <3>7
    <3> QED
      BY <3>1, <3>2, <3>8
  <2>4. Rounds(Residue, PlusRes, e, H, size)
    BY <2>2, <2>3 DEF Rounds
  <2>5. H[size][1] = Total(Residue, PlusRes, e, H[0], 1, size)
    BY <2>0, <2>4, RoundsTotal
  <2>6. f[size][1].slots[i] = Total(Residue, PlusRes, e, H[0], 1, size)
    BY <1>1, <2>2, <2>5
  <2>7. PICK g \in [Nat -> Residue], o \in Nat : g = H[0] /\ o = 1
    BY <1>1, <2>2
  <2>8. Alike(g, o, h, o, size)
    <3>1. \A k \in 0..(size - 1) : o + k \in 1..size
      BY <2>7
    <3> QED
      BY <1>1, <1>3, <2>2, <2>7, <3>1 DEF Alike
  <2>9. Total(Residue, PlusRes, e, g, o, size)
          = Total(Residue, PlusRes, e, h, o, size)
    BY <2>0, <2>8, TotalSame
  <2> QED
    BY <2>0, <2>6, <2>7, <2>9
<1>4. ASSUME f[size][1].exact
      PROVE  \A k \in 1..size : c[k].exact
  <2>0. PICK V, e, a : /\ V = BOOLEAN /\ e = TRUE /\ a = 1 /\ a \in Nat
                       /\ Monoid(V, And, e)
    BY AndIs
  <2> DEFINE H == [r \in 0..size |-> [k \in Nat |->
                     IF k \in 1..size THEN f[r][k].exact ELSE e]]
  <2>1. \A r \in 0..size : \A k \in 1..size : f[r][k].exact \in V
    BY <2>0, CiphertextIs
  <2>2. /\ \A r \in 0..size : H[r] \in [Nat -> V]
        /\ \A r \in 0..size : \A k \in 1..size : H[r][k] = f[r][k].exact
        /\ \A r \in 0..size : \A k \in Nat : k > size => H[r][k] = e
    <3>1. e \in V
      BY <2>0
    <3> HIDE <2>0
    <3> QED
      BY <2>1, <3>1
  <2> HIDE DEF H
  <2>3. ASSUME NEW r \in 0..(size - 1), NEW k \in 1..size
        PROVE  H[r + 1][k] =
                 IF (k - 1) % (2 * TwoTo[r]) = 0 /\ k + TwoTo[r] <= size
                 THEN And[<<H[r][k], H[r][k + TwoTo[r]]>>] ELSE H[r][k]
    <3>1. PICK l : l = k + TwoTo[r] /\ (l <= size => l \in 1..size)
      BY <1>2
    <3>2. PICK B \in BOOLEAN :
            B = ((k - 1) % (2 * TwoTo[r]) = 0 /\ l <= size)
      OBVIOUS
    <3>3. f[r + 1][k] = IF B THEN Plus(f[r][k], f[r][l]) ELSE f[r][k]
      BY <1>2, <3>1, <3>2
    <3>4. r \in 0..size /\ r + 1 \in 0..size /\ (B => l \in 1..size)
      BY <1>2, <3>1, <3>2
    <3>5. H[r + 1][k] = f[r + 1][k].exact /\ H[r][k] = f[r][k].exact
      BY <2>2, <3>4
    <3>6. ASSUME B
          PROVE  H[r + 1][k] = And[<<H[r][k], H[r][l]>>]
      <4>1. PICK x \in Ciphertext, y \in Ciphertext :
              x = f[r][k] /\ y = f[r][l]
        BY <3>4, <3>6
      <4>2. H[r][l] = y.exact /\ H[r][k] = x.exact
        BY <2>2, <3>4, <3>5, <3>6, <4>1
      <4>3. H[r + 1][k] = Plus(x, y).exact
        BY <3>3, <3>5, <3>6, <4>1
      <4>4. Plus(x, y).exact = (x.exact /\ y.exact)
        BY PlusIs
      <4>5. And[<<x.exact, y.exact>>] = (x.exact /\ y.exact)
        BY AndIs, CiphertextIs
      <4> QED
        BY <4>2, <4>3, <4>4, <4>5
    <3>7. ~ B => H[r + 1][k] = H[r][k]
      BY <3>3, <3>5
    <3> QED
      BY <3>1, <3>2, <3>6, <3>7
  <2>4. Rounds(V, And, e, H, size)
    BY <2>2, <2>3 DEF Rounds
  <2>5. H[size][1] = Total(V, And, e, H[0], 1, size)
    <3>1. Monoid(V, And, e)
      BY <2>0
    <3> QED
      BY <2>4, <3>1, RoundsTotal
  <2>6. H[size][1] = TRUE
    BY <1>1, <1>4, <2>0, <2>1, <2>2
  <2>7. PICK g \in [Nat -> BOOLEAN] : g = H[0]
    BY <1>1, <2>0, <2>2
  <2>8. Total(BOOLEAN, And, TRUE, g, a, size)
    BY <2>0, <2>5, <2>6, <2>7
  <2>9. \A k \in 0..(size - 1) : g[a + k]
    <3>1. a \in Nat
      BY <2>0
    <3> QED
      BY <1>1, <2>8, <3>1, AndAll, Zenon
  <2> SUFFICES ASSUME NEW k \in 1..size PROVE c[k].exact
    OBVIOUS
  <2>10. k - 1 \in 0..(size - 1) /\ a + (k - 1) = k
    BY <2>0
  <2>11. g[k]
    BY <2>9, <2>10
  <2>12. g[k] = c[k].exact
    BY <1>1, <2>2, <2>7
  <2> QED
    BY <2>11, <2>12
<1> QED
  BY <1>1, <1>3, <1>4 DEF Totals

(* EvalAddManyInPlace adds all its operands.                               *)
LEMMA InPlaceTotals ==
  ASSUME NEW size \in Nat \ {0}, NEW c \in [1..size -> Ciphertext]
  PROVE  Totals(InPlace(c, Plus), PlusRes, 0, c, size)
<1> DEFINE S == [1..size -> Ciphertext]
           R == [p \in S \X Nat |->
                   IF p[2] = 0 THEN p[1] ELSE Round(p[1], p[2], size)]
           f[r \in 0..size] ==
             IF r = 0 THEN c
             ELSE LET d == TwoTo[r - 1] IN
                  [k \in 1..size |->
                     IF (k - 1) % (2 * d) = 0 /\ k + d <= size
                     THEN Plus(f[r - 1][k], f[r - 1][k + d]) ELSE f[r - 1][k]]
<1>1. Len(c) = size
  OBVIOUS
<1>2. InPlace(c, Plus) = f[size][1]
  BY <1>1 DEF InPlace
<1>3. \A v \in S : \A r \in Nat \ {0} : Round(v, r, size) \in S
  BY RoundIs
<1>4. /\ R \in [S \X Nat -> S]
      /\ \A v \in S : \A r \in Nat \ {0} : R[<<v, r>>] = Round(v, r, size)
  <2> HIDE DEF S
  <2> QED
    BY <1>3
<1>5. PICK g : Table(g, size, S, c, R)
  <2> HIDE DEF R
  <2>1. c \in S
    OBVIOUS
  <2> HIDE DEF S
  <2> QED
    BY <1>4, <2>1, TableExists
<1>6. /\ g \in [0..size -> S] /\ g[0] = c
      /\ \A r \in 1..size : g[r] = Round(g[r - 1], r, size)
  <2> HIDE DEF R
  <2>1. g \in [0..size -> S] /\ g[0] = c
    BY <1>5 DEF Table
  <2>2. ASSUME NEW r \in 1..size
        PROVE  g[r] = Round(g[r - 1], r, size)
    <3>1. g[r] = R[<<g[r - 1], r>>]
      BY <1>5 DEF Table
    <3>2. r - 1 \in 0..size /\ r \in Nat \ {0}
      OBVIOUS
    <3>3. g[r - 1] \in S
      BY <2>1, <3>2
    <3> HIDE DEF S
    <3> QED
      BY <1>4, <3>1, <3>2, <3>3
  <2> QED
    BY <2>1, <2>2
<1> HIDE DEF R
<1>7. g = [r \in 0..size |->
             IF r = 0 THEN c
             ELSE LET d == TwoTo[r - 1] IN
                  [k \in 1..size |->
                     IF (k - 1) % (2 * d) = 0 /\ k + d <= size
                     THEN Plus(g[r - 1][k], g[r - 1][k + d]) ELSE g[r - 1][k]]]
  <2> HIDE DEF S
  <2>1. g = [r \in 0..size |-> IF r = 0 THEN c
                               ELSE Round(g[r - 1], r, size)]
    <3>1. \A r \in 0..size : r # 0 => r \in 1..size
      OBVIOUS
    <3> QED
      BY <1>6, <3>1
  <2> QED
    BY <2>1 DEF Round
<1>8. f = [r \in 0..size |->
             IF r = 0 THEN c
             ELSE LET d == TwoTo[r - 1] IN
                  [k \in 1..size |->
                     IF (k - 1) % (2 * d) = 0 /\ k + d <= size
                     THEN Plus(f[r - 1][k], f[r - 1][k + d]) ELSE f[r - 1][k]]]
  <2> HIDE DEF S
  <2> QED
    BY <1>7
<1> HIDE DEF f
<1>9. f[0] = c
  BY <1>8
<1>10. ASSUME NEW r \in 0..(size - 1)
       PROVE  f[r + 1] = Round(f[r], r + 1, size)
  <2>1. PICK j \in 0..size : j = r + 1 /\ j # 0 /\ j - 1 = r
    OBVIOUS
  <2>2. f[j] = Round(f[j - 1], j, size)
    BY <1>8, <2>1 DEF Round
  <2> QED
    BY <2>1, <2>2
<1> DEFINE Z == {r \in Nat : r <= size => f[r] \in S}
<1>11. 0 \in Z
  BY <1>9
<1>12. ASSUME NEW r \in Nat, r \in Z
       PROVE  r + 1 \in Z
  <2> SUFFICES ASSUME r + 1 <= size
               PROVE  f[r + 1] \in S
    OBVIOUS
  <2>1. f[r] \in S
    BY <1>12
  <2>2. r \in 0..(size - 1) /\ r + 1 \in Nat \ {0}
    OBVIOUS
  <2> HIDE DEF S
  <2> QED
    BY <1>3, <1>10, <2>1, <2>2
<1> HIDE DEF Z
<1>13. Nat \subseteq Z
  BY <1>11, <1>12, Induction
<1>14. \A r \in 0..size : f[r] \in S
  BY <1>13 DEF Z
<1>15. Totals(f[size][1], PlusRes, 0, c, size)
  BY <1>9, <1>10, <1>14, RoundsTotals
<1> QED
  BY <1>2, <1>15

-----------------------------------------------------------------------------
(* Within a row only the distance 0 leads back.                            *)
LEMMA RowHit ==
  ASSUME NEW x \in (1 - Half)..(Half - 1)
  PROVE  x % Half = 0 <=> x = 0
<1>1. Half \in Nat \ {0}
  BY Sizes
<1>2. CASE x >= 0
  <2>1. x \in 0..(Half - 1)
    BY <1>1, <1>2
  <2> QED
    BY <1>1, <2>1, ModSmall
<1>3. CASE x < 0
  <2>1. PICK y \in 0..(Half - 1) : y = x + Half /\ y # 0
    BY <1>1, <1>3
  <2>2. PICK u \in Int : u = -1
    OBVIOUS
  <2>3. x = u * Half + y
    BY <1>1, <2>1, <2>2
  <2>4. x % Half = y
    <3>1. x \in Int
      BY <1>1
    <3> QED
      BY <1>1, <2>1, <2>3, <3>1, ModUnique
  <2> QED
    BY <1>3, <2>1, <2>4
<1> QED
  BY <1>1, <1>2, <1>3

(* A vector that holds nothing beyond slot 0, rotated to another slot.     *)
LEMMA PlaceIs ==
  ASSUME NEW s \in Vector, NEW k \in 1..n, NEW j \in Slot,
         \A i \in Slot : i # 0 => s[i] = 0
  PROVE  Rotated(s, 1 - k)[j] = IF j = k - 1 THEN s[0] ELSE 0
<1>1. /\ Half \in Nat \ {0} /\ Half = n \div 2 /\ n = 2 * Half
      /\ j \in 0..(2 * Half - 1) /\ k \in 1..(2 * Half)
      /\ 0 \in Slot /\ Slot = 0..(2 * Half - 1)
  BY Sizes, SlotIs DEF Half
<1>2. PICK i \in Int : i = 1 - k
  BY <1>1
<1>3. Rotated(s, i) =
        CASE - Half < i /\ i < Half -> [l \in Slot |-> s[InRow(l, i)]]
          [] i >= Half -> [l \in Slot |-> s[InRow(OtherRow(l), i - Half)]]
          [] i <= - Half -> [l \in Slot |-> s[InRow(OtherRow(l), i + Half)]]
  BY DEF Rotated, Half
<1>4. CASE k <= Half
  <2>1. - Half < i /\ i < Half /\ ~ (i >= Half) /\ ~ (i <= - Half)
    BY <1>1, <1>2, <1>4
  <2>2. Rotated(s, i)[j] = s[InRow(j, i)]
    BY <1>3, <2>1
  <2>3. PICK l \in Slot : l = InRow(j, i)
    BY InRowIs
  <2>4. l = (IF j < Half THEN 0 ELSE Half) + ((j + i) % Half)
        /\ (l < Half <=> j < Half)
    BY <2>3, InRowIs
  <2>5. CASE j < Half
    <3>1. PICK x \in (1 - Half)..(Half - 1) : x = j + i
      BY <1>1, <1>2, <1>4, <2>5
    <3>2. x % Half = 0 <=> x = 0
      BY RowHit
    <3>3. x = 0 <=> j = k - 1
      BY <1>1, <1>2, <3>1
    <3>4. (j + i) % Half \in Nat
      BY <1>1, InRowIs
    <3>5. l = 0 <=> j = k - 1
      BY <2>4, <2>5, <3>1, <3>2, <3>3, <3>4
    <3> QED
      BY <1>2, <2>2, <2>3, <3>5
  <2>6. CASE ~ (j < Half)
    <3>1. l # 0 /\ j # k - 1
      BY <1>1, <1>4, <2>4, <2>6
    <3> QED
      BY <1>2, <2>2, <2>3, <3>1
  <2> QED
    BY <2>5, <2>6
<1>5. CASE k > Half
  <2>1. i <= - Half /\ ~ (i >= Half) /\ ~ (- Half < i)
    BY <1>1, <1>2, <1>5
  <2>2. PICK d \in Int : d = i + Half
    BY <1>1
  <2>3. PICK o \in Slot : o = OtherRow(j)
                          /\ o = IF j < Half THEN j + Half ELSE j - Half
    BY OtherRowIs
  <2>4. Rotated(s, i)[j] = s[InRow(o, d)]
    BY <1>3, <2>1, <2>2, <2>3
  <2>5. PICK l \in Slot : l = InRow(o, d)
    BY InRowIs
  <2>6. l = (IF o < Half THEN 0 ELSE Half) + ((o + d) % Half)
        /\ (l < Half <=> o < Half) /\ (o + d) % Half \in 0..(Half - 1)
    BY <2>5, InRowIs
  <2>7. CASE ~ (j < Half)
    <3>1. PICK x \in (1 - Half)..(Half - 1) : x = o + d /\ x = j + i
      BY <1>1, <1>2, <1>5, <2>2, <2>3, <2>7
    <3>2. x % Half = 0 <=> x = 0
      BY RowHit
    <3>3. x = 0 <=> j = k - 1
      BY <1>1, <1>2, <3>1
    <3>4. o < Half
      BY <1>1, <2>3, <2>7
    <3>5. l = 0 <=> j = k - 1
      BY <1>1, <2>6, <3>1, <3>2, <3>3, <3>4
    <3> QED
      BY <1>2, <2>4, <2>5, <3>5
  <2>8. CASE j < Half
    <3>1. l # 0 /\ j # k - 1
      BY <1>1, <1>5, <2>3, <2>6, <2>8
    <3> QED
      BY <1>2, <2>4, <2>5, <3>1
  <2> QED
    BY <2>7, <2>8
<1> QED
  BY <1>1, <1>4, <1>5

(* Adding a vector that holds only what is new.                            *)
LEMMA FilledNext ==
  ASSUME NEW size \in 1..n, NEW c \in [1..size -> Ciphertext],
         NEW k \in 2..size
  PROVE  [i \in Slot |-> IF i < k THEN c[i + 1].slots[0] ELSE 0]
           = Added([i \in Slot |-> IF i < k - 1 THEN c[i + 1].slots[0] ELSE 0],
                   Permuted(FirstSlot(c[k].slots),
                            FindAutomorphismIndex2n(1 - k)))
<1>1. /\ n \in Nat \ {0} /\ 0 \in Slot /\ Slot = 0..(n - 1) /\ k \in 1..size
      /\ k \in 1..n /\ 1 - k \in Int
  BY Sizes DEF Slot
<1>2. PICK s \in Vector : s = FirstSlot(c[k].slots)
  BY <1>1, CiphertextIs, VectorsAre
<1>3. /\ s[0] = c[k].slots[0] /\ s[0] \in Residue
      /\ \A i \in Slot : i # 0 => s[i] = 0
  BY <1>1, <1>2 DEF FirstSlot, Vector
<1>4. Permuted(s, FindAutomorphismIndex2n(1 - k)) = Rotated(s, 1 - k)
  BY <1>1, RotationIs DEF Vector
<1>5. \A i \in Slot : Rotated(s, 1 - k)[i] = IF i = k - 1 THEN s[0] ELSE 0
  BY <1>1, <1>3, PlaceIs
<1>6. PICK u : u = [i \in Slot |-> IF i < k - 1 THEN c[i + 1].slots[0] ELSE 0]
  OBVIOUS
<1>7. ASSUME NEW i \in Slot
      PROVE  (IF i < k THEN c[i + 1].slots[0] ELSE 0)
               = (u[i] + Rotated(s, 1 - k)[i]) % t
  <2>0. i \in Nat /\ i \in Int
    BY <1>1
  <2>1. CASE i < k - 1
    <3>1. i + 1 \in 1..size /\ i < k /\ i # k - 1
      BY <1>1, <2>0, <2>1
    <3>2. PICK x \in Residue : x = c[i + 1].slots[0]
      BY <1>1, <3>1, CiphertextIs
    <3>3. u[i] = x /\ Rotated(s, 1 - k)[i] = 0
      BY <1>5, <1>6, <2>1, <3>1, <3>2
    <3>4. x + 0 = x /\ x % t = x
      <4>1. x \in Int /\ x % t = x
        BY ResidueIs
      <4> QED
        BY <4>1
    <3> QED
      BY <3>1, <3>2, <3>3, <3>4
  <2>2. CASE i = k - 1
    <3>1. i + 1 = k /\ i < k /\ ~ (i < k - 1)
      BY <1>1, <2>0, <2>2
    <3>2. u[i] = 0 /\ Rotated(s, 1 - k)[i] = s[0]
      BY <1>5, <1>6, <2>2, <3>1
    <3>3. 0 + s[0] = s[0] /\ s[0] % t = s[0]
      <4>1. PICK x \in Residue : x = s[0]
        BY <1>3
      <4>2. x \in Int /\ x % t = x
        BY ResidueIs
      <4> QED
        BY <4>1, <4>2
    <3> QED
      BY <1>3, <3>1, <3>2, <3>3
  <2>3. CASE i > k - 1
    <3>1. ~ (i < k) /\ ~ (i < k - 1) /\ i # k - 1
      BY <1>1, <2>0, <2>3
    <3>2. u[i] = 0 /\ Rotated(s, 1 - k)[i] = 0
      BY <1>5, <1>6, <3>1
    <3>3. 0 + 0 = 0 /\ 0 % t = 0
      BY ResidueIs
    <3> QED
      BY <3>1, <3>2, <3>3
  <2> QED
    BY <1>1, <2>0, <2>1, <2>2, <2>3
<1>8. Added(u, Rotated(s, 1 - k))
        = [i \in Slot |-> IF i < k THEN c[i + 1].slots[0] ELSE 0]
  BY <1>7 DEF Added
<1> QED
  BY <1>2, <1>4, <1>6, <1>8

(* The slots of a merged ciphertext are the first slots of its operands.   *)
LEMMA MergedSlots ==
  ASSUME NEW size \in 1..n, NEW c \in [1..size -> Ciphertext]
  PROVE  Merged(c) =
           [elems |-> c[1].elems,
            slots |-> [i \in Slot |->
                         IF i < size THEN c[i + 1].slots[0] ELSE 0],
            want |-> [i \in Slot |-> IF i < size THEN c[i + 1].want[0] ELSE 0],
            exact |-> \A k \in 1..size : c[k].exact]
<1> DEFINE masked(k) == [c[k] EXCEPT !.slots = FirstSlot(c[k].slots),
                                     !.want = FirstSlot(c[k].want)]
           place(k) == Permuted(masked(k).slots,
                                FindAutomorphismIndex2n(1 - k))
           f[k \in 1..size] ==
             IF k = 1 THEN masked(1).slots ELSE Added(f[k - 1], place(k))
           filled(k) == [i \in Slot |-> IF i < k THEN c[i + 1].slots[0] ELSE 0]
           g == [k \in 1..size |-> filled(k)]
<1>1. Len(c) = size /\ size \in Nat \ {0} /\ n \in Nat
  BY Sizes
<1>2. Merged(c) =
        [elems |-> c[1].elems, slots |-> f[size],
         want |-> [i \in Slot |-> IF i < size THEN c[i + 1].want[0] ELSE 0],
         exact |-> \A k \in 1..size : c[k].exact]
  BY <1>1 DEF Merged
<1>3. \A k \in 1..size : masked(k).slots = FirstSlot(c[k].slots)
  BY DEF Ciphertext
<1>4. \A k \in 1..size : place(k) = Permuted(FirstSlot(c[k].slots),
                                            FindAutomorphismIndex2n(1 - k))
  BY <1>3
<1>5. filled(1) = masked(1).slots
  <2>1. 1 \in 1..size
    BY <1>1
  <2>2. masked(1).slots = [i \in Slot |-> IF i = 0 THEN c[1].slots[i] ELSE 0]
    BY <1>3, <2>1 DEF FirstSlot
  <2>3. ASSUME NEW i \in Slot
        PROVE  (IF i < 1 THEN c[i + 1].slots[0] ELSE 0)
                 = IF i = 0 THEN c[1].slots[i] ELSE 0
    <3>1. i \in Nat
      BY Sizes DEF Slot
    <3>2. CASE i = 0
      BY <3>2
    <3>3. CASE i # 0
      BY <3>1, <3>3
    <3> QED
      BY <3>2, <3>3
  <2> QED
    BY <2>2, <2>3
<1>6. \A k \in 2..size : filled(k) = Added(filled(k - 1), place(k))
  <2> HIDE DEF masked, place
  <2> SUFFICES ASSUME NEW k \in 2..size
               PROVE  filled(k) = Added(filled(k - 1), place(k))
    OBVIOUS
  <2>1. k \in 1..size
    BY <1>1
  <2>2. place(k) = Permuted(FirstSlot(c[k].slots),
                            FindAutomorphismIndex2n(1 - k))
    BY <1>4, <2>1
  <2>3. filled(k) = Added(filled(k - 1),
                          Permuted(FirstSlot(c[k].slots),
                                   FindAutomorphismIndex2n(1 - k)))
    BY FilledNext
  <2> QED
    BY <2>2, <2>3
<1> HIDE DEF masked, place, filled
<1>7. g = [k \in 1..size |-> IF k = 1 THEN masked(1).slots
                             ELSE Added(g[k - 1], place(k))]
  <2> SUFFICES ASSUME NEW k \in 1..size
               PROVE  g[k] = IF k = 1 THEN masked(1).slots
                             ELSE Added(g[k - 1], place(k))
    OBVIOUS
  <2>1. CASE k = 1
    BY <1>5, <2>1
  <2>2. CASE k # 1
    <3>1. k \in 2..size /\ k - 1 \in 1..size
      BY <1>1, <2>2
    <3> QED
      BY <1>6, <2>2, <3>1
  <2> QED
    BY <2>1, <2>2
<1>8. f = [k \in 1..size |-> IF k = 1 THEN masked(1).slots
                             ELSE Added(f[k - 1], place(k))]
  <2> HIDE DEF g
  <2> QED
    BY <1>7
<1> HIDE DEF f, g
<1> DEFINE Z == {k \in Nat : k + 1 <= size => f[k + 1] = filled(k + 1)}
<1>9. 0 \in Z
  <2>1. 1 \in 1..size /\ 0 + 1 = 1
    BY <1>1
  <2> QED
    BY <1>5, <1>8, <2>1
<1>10. ASSUME NEW k \in Nat, k \in Z
       PROVE  k + 1 \in Z
  <2> SUFFICES ASSUME (k + 1) + 1 <= size
               PROVE  f[(k + 1) + 1] = filled((k + 1) + 1)
    OBVIOUS
  <2>1. PICK j \in 2..size : j = (k + 1) + 1 /\ j - 1 = k + 1 /\ j # 1
                             /\ j \in 1..size /\ k + 1 <= size
    BY <1>1
  <2>2. f[j - 1] = filled(j - 1)
    BY <1>10, <2>1
  <2>3. f[j] = Added(f[j - 1], place(j))
    BY <1>8, <2>1
  <2> QED
    BY <1>6, <2>1, <2>2, <2>3
<1> HIDE DEF Z
<1>11. Nat \subseteq Z
  BY <1>9, <1>10, Induction
<1>12. PICK k \in Nat : size = k + 1
  <2>1. size - 1 \in Nat /\ size = (size - 1) + 1
    BY <1>1
  <2> QED
    BY <2>1
<1>13. k \in Z /\ k + 1 <= size
  BY <1>1, <1>11, <1>12
<1>14. f[size] = filled(size)
  BY <1>12, <1>13 DEF Z
<1> QED
  BY <1>2, <1>14 DEF filled

(* So it holds what it should if its operands do.                          *)
LEMMA MergedGood ==
  ASSUME NEW size \in 1..n, NEW c \in [1..size -> Ciphertext],
         \A k \in 1..size : Good(c[k])
  PROVE  Good(Merged(c))
<1> DEFINE x == [i \in Slot |-> IF i < size THEN c[i + 1].slots[0] ELSE 0]
           y == [i \in Slot |-> IF i < size THEN c[i + 1].want[0] ELSE 0]
           a == \A k \in 1..size : c[k].exact
<1>1. Merged(c) = [elems |-> c[1].elems, slots |-> x, want |-> y, exact |-> a]
  BY MergedSlots
<1>2. /\ n \in Nat \ {0} /\ size \in Nat \ {0} /\ 0 \in Slot
      /\ \A i \in Slot : i < size => i + 1 \in 1..size
  BY Sizes DEF Slot
<1>3. \A k \in 1..size : /\ c[k].slots[0] \in Residue
                         /\ c[k].want[0] \in Residue
                         /\ c[k].exact => c[k].slots = c[k].want
  BY <1>2, CiphertextIs DEF Good
<1>4. x \in [Slot -> Residue] /\ y \in [Slot -> Residue]
  <2>1. 0 \in Residue
    BY ResidueIs
  <2> QED
    BY <1>2, <1>3, <2>1
<1>5. a => x = y
  BY <1>2, <1>3
<1>6. a \in BOOLEAN
  OBVIOUS
<1>7. c[1].elems \in Nat \ {0, 1}
  <2>1. 1 \in 1..size
    BY <1>2
  <2> QED
    BY <2>1 DEF Ciphertext
<1> HIDE DEF x, y, a
<1>8. Merged(c) \in Ciphertext
  BY <1>1, <1>4, <1>6, <1>7 DEF Ciphertext
<1>9. Merged(c).slots = x /\ Merged(c).want = y /\ Merged(c).exact = a
  BY <1>1
<1> QED
  BY <1>5, <1>8, <1>9 DEF Good

-----------------------------------------------------------------------------
(* The inductive invariant: each variable is empty or holds a ciphertext   *)
(* that decodes to what it should, and after EvalSumKeyGen, until the keys *)
(* are cleared, all the generators have a key.                             *)
SumKeysFiled == sumKeys => GenerateIndices_2n(batchSize) \subseteq autoKeys

(* The inductive invariant.                                                *)
Inv == /\ TypeOK
       /\ reg \in [Reg -> Ciphertext \cup {NONE}]
       /\ Decodes
       /\ SumKeysFiled

(* No ciphertext is the empty variable.                                    *)
LEMMA NoneIs ==
  /\ NONE \notin Ciphertext
  /\ \A c : Good(c) => c # NONE
<1>1. NONE.elems = 0
  BY DEF NONE
<1>2. \A c \in Ciphertext : c.elems # 0
  BY DEF Ciphertext
<1> QED
  BY <1>1, <1>2 DEF Good

(* What a variable holds is a good ciphertext.                             *)
LEMMA HeldGood ==
  ASSUME Inv, NEW x \in Held
  PROVE  x \in Reg /\ Good(reg[x])
BY DEF Inv, TypeOK, Decodes, Held, Good

(* It stays so when a good one is put into a variable.                     *)
LEMMA PutGood ==
  ASSUME Inv, NEW r \in Reg, NEW c, Good(c), reg' = [reg EXCEPT ![r] = c],
         calls' \in 0..MaxCalls, UNCHANGED <<autoKeys, multKeys, sumKeys>>
  PROVE  Inv'
<1>1. reg \in [Reg -> Ciphertext \cup {NONE}] /\ c \in Ciphertext
  BY DEF Inv, Good
<1>2. reg' \in [Reg -> Ciphertext \cup {NONE}]
  BY <1>1
<1>3. \A x \in Held' : x \in Reg /\ Good(reg'[x])
  <2> SUFFICES ASSUME NEW x \in Reg, reg'[x] # NONE
               PROVE  Good(reg'[x])
    BY DEF Held
  <2>1. CASE x = r
    BY <1>1, <2>1
  <2>2. CASE x # r
    <3>1. reg'[x] = reg[x]
      BY <1>1, <2>2
    <3>2. x \in Held
      BY <3>1 DEF Held
    <3> QED
      BY <3>1, <3>2, HeldGood
  <2> QED
    BY <2>1, <2>2
<1>4. TypeOK' /\ Decodes'
  BY <1>3 DEF Inv, TypeOK, Decodes, Good
<1>5. SumKeysFiled'
  BY DEF Inv, SumKeysFiled
<1> QED
  BY <1>2, <1>4, <1>5 DEF Inv

(* The same for an operation that assigns.                                 *)
LEMMA AssignGood ==
  ASSUME Inv, NEW r \in Reg, NEW c, Good(c), Assign(r, c)
  PROVE  Inv'
<1>1. calls \in 0..MaxCalls /\ MaxCalls \in Nat
  BY AdvancedSHEAssumption DEF Inv, TypeOK
<1>2. calls' \in 0..MaxCalls
  BY <1>1 DEF Assign
<1> QED
  BY <1>2, PutGood DEF Assign

(* Filing keys keeps the ciphertexts, and the generators' keys.            *)
LEMMA KeysKeep ==
  ASSUME Inv, UNCHANGED <<reg, calls>>, autoKeys' \subseteq Odd,
         multKeys' \in 0..(maxRelinSkDeg - 1), sumKeys' \in BOOLEAN,
         SumKeysFiled'
  PROVE  Inv'
<1>1. Held' = Held
  BY DEF Held
<1> QED
  BY <1>1 DEF Inv, TypeOK, Decodes, Odd

(* The invariant holds at first.                                           *)
LEMMA InitInv == Init => Inv
<1> SUFFICES ASSUME Init PROVE Inv
  OBVIOUS
<1>1. Held = {}
  BY DEF Init, Held
<1>2. maxRelinSkDeg \in Nat /\ maxRelinSkDeg > 1 /\ MaxCalls \in Nat
  BY AdvancedSHEAssumption
<1>3. TypeOK
  <2>1. 0 \in 0..(maxRelinSkDeg - 1) /\ 0 \in 0..MaxCalls
    BY <1>2
  <2> QED
    BY <1>1, <2>1 DEF Init, TypeOK
<1>4. Decodes
  BY <1>1 DEF Decodes
<1> QED
  BY <1>3, <1>4 DEF Init, Inv, SumKeysFiled

(* Making and clearing keys preserve it.                                   *)
LEMMA KeysInv ==
  ASSUME Inv, Keys
  PROVE  Inv'
<1>0. /\ autoKeys \subseteq Odd /\ multKeys \in 0..(maxRelinSkDeg - 1)
      /\ sumKeys \in BOOLEAN /\ SumKeysFiled
      /\ maxRelinSkDeg \in Nat /\ maxRelinSkDeg > 1
  BY AdvancedSHEAssumption DEF Inv, TypeOK, Odd
<1>1. ASSUME NEW list \in IndexList, EvalRotateKeyGen(list)
      PROVE  Inv'
  <2>1. {FindAutomorphismIndex2n(i) : i \in list} \subseteq Odd
    <3>1. \A i \in list : i \in Int
      BY AdvancedSHEAssumption
    <3> QED
      BY <3>1, IndexOdd
  <2>2. SumKeysFiled'
    BY <1>0, <1>1 DEF EvalRotateKeyGen, FileKeys, SumKeysFiled
  <2> QED
    BY <1>0, <1>1, <2>1, <2>2, KeysKeep DEF EvalRotateKeyGen, FileKeys
<1>2. ASSUME EvalSumKeyGen
      PROVE  Inv'
  <2>1. SumKeysFiled'
    BY <1>2 DEF EvalSumKeyGen, FileKeys, SumKeysFiled
  <2> QED
    BY <1>0, <1>2, <2>1, GeneratorsOdd, KeysKeep DEF EvalSumKeyGen, FileKeys
<1>3. ASSUME NEW k \in 0..(maxRelinSkDeg - 1), FileMultKeys(k)
      PROVE  Inv'
  <2>1. SumKeysFiled'
    BY <1>0, <1>3 DEF FileMultKeys, SumKeysFiled
  <2> QED
    BY <1>0, <1>3, <2>1, KeysKeep DEF FileMultKeys
<1>4. ASSUME EvalMultKeyGen PROVE Inv'
  <2>1. 1 \in 0..(maxRelinSkDeg - 1)
    BY <1>0
  <2> QED
    BY <1>3, <1>4, <2>1 DEF EvalMultKeyGen
<1>5. ASSUME EvalMultKeysGen PROVE Inv'
  <2>1. maxRelinSkDeg - 1 \in 0..(maxRelinSkDeg - 1)
    BY <1>0
  <2> QED
    BY <1>3, <1>5, <2>1 DEF EvalMultKeysGen
<1>6. ASSUME ClearEvalAutomorphismKeys PROVE Inv'
  <2>1. SumKeysFiled'
    BY <1>6 DEF ClearEvalAutomorphismKeys, SumKeysFiled
  <2> QED
    BY <1>0, <1>6, <2>1, KeysKeep DEF ClearEvalAutomorphismKeys
<1>7. ASSUME ClearEvalMultKeys PROVE Inv'
  <2>1. SumKeysFiled'
    BY <1>0, <1>7 DEF ClearEvalMultKeys, SumKeysFiled
  <2>2. 0 \in 0..(maxRelinSkDeg - 1)
    BY <1>0
  <2> QED
    BY <1>0, <1>7, <2>1, <2>2, KeysKeep DEF ClearEvalMultKeys
<1> QED
  BY <1>1, <1>2, <1>4, <1>5, <1>6, <1>7 DEF Keys

(* The operands of an operation on many ciphertexts.                       *)
LEMMA OperandsGood ==
  ASSUME Inv, NEW xs \in Vectors
  PROVE  \E size \in 1..n :
           /\ Len(xs) = size /\ size \in Nat \ {0}
           /\ Operands(xs) \in [1..size -> Ciphertext]
           /\ \A k \in 1..size : Good(Operands(xs)[k])
<1>1. PICK size \in 1..MaxMany : xs \in [1..size -> Held]
  BY DEF Vectors
<1>2. size \in 1..n /\ size \in Nat \ {0}
  <2>1. MaxMany \in 1..n /\ n \in Nat
    BY AdvancedSHEAssumption
  <2> QED
    BY <2>1
<1>3. Len(xs) = size /\ DOMAIN xs = 1..size
  BY <1>1, <1>2
<1>4. Operands(xs) = [k \in 1..size |-> reg[xs[k]]]
  BY <1>3 DEF Operands
<1>5. \A k \in 1..size : Good(reg[xs[k]])
  BY <1>1, HeldGood
<1>6. \A k \in 1..size : reg[xs[k]] \in Ciphertext
  BY <1>5 DEF Good
<1> QED
  BY <1>2, <1>3, <1>4, <1>5, <1>6

(* The operations on many ciphertexts preserve it.                         *)
LEMMA ManyInv ==
  ASSUME Inv, NEW r \in Reg, NEW xs \in Vectors,
         EvalMerge(r, xs) \/ EvalAddMany(r, xs) \/ EvalAddManyInPlace(r, xs)
           \/ EvalMultMany(r, xs)
  PROVE  Inv'
<1>1. PICK c : c = Operands(xs)
  OBVIOUS
<1>2. PICK size \in 1..n : /\ size \in Nat \ {0}
                           /\ c \in [1..size -> Ciphertext]
                           /\ \A k \in 1..size : Good(c[k])
  BY <1>1, OperandsGood
<1>3. CASE EvalMerge(r, xs)
  <2>1. Assign(r, Merged(c))
    BY <1>1, <1>3 DEF EvalMerge
  <2> QED
    BY <1>2, <2>1, MergedGood, AssignGood
<1>4. CASE EvalAddMany(r, xs)
  <2>1. Assign(r, [Tree(c, Plus) EXCEPT !.want = AllOf(+, 0, c)])
    BY <1>1, <1>4 DEF EvalAddMany
  <2>2. Good([Tree(c, Plus) EXCEPT !.want = AllOf(+, 0, c)])
    BY <1>2, TreePlus, TotalsGood
  <2> QED
    BY <2>1, <2>2, AssignGood
<1>5. CASE EvalAddManyInPlace(r, xs)
  <2>1. Assign(r, [InPlace(c, Plus) EXCEPT !.want = AllOf(+, 0, c)])
    BY <1>1, <1>5 DEF EvalAddManyInPlace
  <2>2. Good([InPlace(c, Plus) EXCEPT !.want = AllOf(+, 0, c)])
    BY <1>2, InPlaceTotals, TotalsGood
  <2> QED
    BY <2>1, <2>2, AssignGood
<1>6. CASE EvalMultMany(r, xs)
  <2>1. Assign(r, [Tree(c, Relinearized) EXCEPT !.want = AllOf( * , 1, c)])
    BY <1>1, <1>6 DEF EvalMultMany
  <2>2. Good([Tree(c, Relinearized) EXCEPT !.want = AllOf( * , 1, c)])
    BY <1>2, TreeRelinearized, TotalsGood
  <2> QED
    BY <2>1, <2>2, AssignGood
<1> QED
  BY <1>3, <1>4, <1>5, <1>6

(* The operations on one ciphertext.                                       *)
LEMMA OneInv ==
  ASSUME Inv, NEW r \in Reg, NEW x \in Held,
         \/ Relinearize(r, x)
         \/ \E i \in Rotation : \/ EvalRotate(r, x, i) \/ EvalAtIndex(r, x, i)
                                \/ EvalFastRotation(r, x, i)
         \/ \E b \in SumSize : EvalSum(r, x, b)
  PROVE  Inv'
<1>1. PICK c : c = reg[x] /\ Good(c)
  BY HeldGood
<1>2. \A i \in Rotation : i \in Int
  BY AdvancedSHEAssumption
<1>3. CASE Relinearize(r, x)
  <2>1. Assign(r, [c EXCEPT !.elems = 2])
    BY <1>1, <1>3 DEF Relinearize
  <2>2. Good([c EXCEPT !.elems = 2])
    BY <1>1, SwitchedIs DEF Good
  <2> QED
    BY <2>1, <2>2, AssignGood
<1>4. ASSUME NEW i \in Rotation, EvalRotate(r, x, i)
      PROVE  Inv'
  <2>1. Assign(r, Rotate(c, i))
    BY <1>1, <1>4 DEF EvalRotate
  <2> QED
    BY <1>1, <1>2, <2>1, RotateGood, AssignGood
<1>5. ASSUME NEW i \in Rotation, EvalAtIndex(r, x, i)
      PROVE  Inv'
  <2>1. Assign(r, IF i = 0 THEN c ELSE Rotate(c, i))
    BY <1>1, <1>5 DEF EvalAtIndex
  <2> QED
    BY <1>1, <1>2, <2>1, RotateGood, AssignGood
<1>6. ASSUME NEW i \in Rotation, EvalFastRotation(r, x, i)
      PROVE  Inv'
  <2> DEFINE w == [Rotate(c, i) EXCEPT !.elems = 2, !.exact = @ /\ c.elems = 2]
  <2>1. Assign(r, IF i = 0 THEN c ELSE w)
    BY <1>1, <1>6 DEF EvalFastRotation
  <2>2. Good(w)
    BY <1>1, <1>2, FastRotateGood
  <2> HIDE DEF w
  <2> QED
    BY <1>1, <2>1, <2>2, AssignGood
<1>7. ASSUME NEW b \in SumSize, EvalSum(r, x, b)
      PROVE  Inv'
  <2>1. Assign(r, Summed(c, b)) /\ b \in 1..n
    BY <1>1, <1>7, AdvancedSHEAssumption DEF EvalSum
  <2> QED
    BY <1>1, <2>1, SummedGood, AssignGood
<1> QED
  BY <1>3, <1>4, <1>5, <1>6, <1>7

(* The operations on two.                                                  *)
LEMMA TwoInv ==
  ASSUME Inv, NEW r \in Reg, NEW x \in Held, NEW y \in Held,
         \/ EvalAdd(r, x, y) \/ EvalMult(r, x, y)
         \/ EvalMultNoRelin(r, x, y) \/ EvalMultAndRelinearize(r, x, y)
         \/ \E b \in SumSize : EvalInnerProduct(r, x, y, b)
  PROVE  Inv'
<1>1. PICK c, d : c = reg[x] /\ d = reg[y] /\ Good(c) /\ Good(d)
  BY HeldGood
<1>2. c \in Ciphertext /\ d \in Ciphertext
  BY <1>1 DEF Good
<1>3. Good(Plus(c, d))
  BY <1>1, <1>2, PlusIs
<1>4. Good(Times(c, d)) /\ Times(c, d) \in Ciphertext
  BY <1>1, <1>2, TimesIs
<1>5. Good(SwitchThird(Times(c, d)))
  BY <1>4, SwitchedIs
<1>6. Good(Relinearized(c, d))
  BY <1>1, <1>2, RelinearizedIs
<1>7. CASE EvalAdd(r, x, y)
  <2>1. Assign(r, Plus(c, d))
    BY <1>1, <1>7 DEF EvalAdd
  <2> QED
    BY <1>3, <2>1, AssignGood
<1>8. CASE EvalMult(r, x, y)
  <2>1. Assign(r, SwitchThird(Times(c, d)))
    BY <1>1, <1>8 DEF EvalMult
  <2> QED
    BY <1>5, <2>1, AssignGood
<1>9. CASE EvalMultNoRelin(r, x, y)
  <2>1. Assign(r, Times(c, d))
    BY <1>1, <1>9 DEF EvalMultNoRelin
  <2> QED
    BY <1>4, <2>1, AssignGood
<1>10. CASE EvalMultAndRelinearize(r, x, y)
  <2>1. Assign(r, Relinearized(c, d))
    BY <1>1, <1>10 DEF EvalMultAndRelinearize
  <2> QED
    BY <1>6, <2>1, AssignGood
<1>11. ASSUME NEW b \in SumSize, EvalInnerProduct(r, x, y, b)
       PROVE  Inv'
  <2>1. Assign(r, Summed(SwitchThird(Times(c, d)), b)) /\ b \in 1..n
    BY <1>1, <1>11, AdvancedSHEAssumption DEF EvalInnerProduct
  <2>2. Good(Summed(SwitchThird(Times(c, d)), b))
    BY <1>5, <2>1, SummedGood
  <2> QED
    BY <2>1, <2>2, AssignGood
<1> QED
  BY <1>7, <1>8, <1>9, <1>10, <1>11

(* Encrypting preserves it.                                                *)
LEMMA EncryptInv ==
  ASSUME Inv, NEW r \in Reg, NEW v \in Fresh, Encrypt(r, v)
  PROVE  Inv'
<1>1. PICK c : c = [elems |-> 2, slots |-> v, want |-> v, exact |-> TRUE]
  OBVIOUS
<1>2. v \in [Slot -> Residue]
  BY AdvancedSHEAssumption
<1>3. c \in Ciphertext
  BY <1>1, <1>2 DEF Ciphertext
<1>4. Good(c)
  BY <1>1, <1>3 DEF Good
<1>5. calls' \in 0..MaxCalls
  BY DEF Encrypt, Inv, TypeOK
<1> QED
  BY <1>1, <1>4, <1>5, PutGood DEF Encrypt

(* Every step preserves the invariant.                                     *)
LEMMA NextInv == Inv /\ [Next]_vars => Inv'
<1> SUFFICES ASSUME Inv, [Next]_vars PROVE Inv'
  OBVIOUS
<1>1. CASE UNCHANGED vars
  BY <1>1 DEF vars, Inv, TypeOK, Decodes, SumKeysFiled, Held
<1>2. CASE Keys
  BY <1>2, KeysInv
<1>3. ASSUME NEW r \in Reg, Operation(r)
      PROVE  Inv'
  BY <1>3, EncryptInv, OneInv, TwoInv, ManyInv DEF Operation
<1> QED
  BY <1>1, <1>2, <1>3 DEF Next

(* So it always holds.                                                     *)
LEMMA InvHolds == Spec => []Inv
<1> QED
  BY InitInv, NextInv, PTL DEF Spec

(* Type correctness.                                                       *)
THEOREM TypeCorrect == Spec => []TypeOK
<1>1. Inv => TypeOK
  BY DEF Inv
<1> QED
  BY <1>1, InvHolds, PTL

(* Whatever is rotated, summed over powers of two, merged, added and       *)
(* multiplied in whatever order, for every ring dimension, plaintext       *)
(* modulus and batch size: the slots hold what the documentation says.     *)
(* Nothing is said of ciphertexts that sums over other numbers of slots or *)
(* products that lost polynomials went into.                               *)
THEOREM DecodesHolds == Spec => []Decodes
<1>1. Inv => Decodes
  BY DEF Inv
<1> QED
  BY <1>1, InvHolds, PTL

(* After EvalSumKeyGen the only key that a sum over up to batchSize slots  *)
(* may lack is that of the identity, and only if it is over more than half *)
(* of the slots and not all.                                               *)
THEOREM SumsServedHolds == Spec => []SumsServed
<1>1. Inv => SumsServed
  BY StepsGenerated DEF Inv, SumKeysFiled, SumsServed
<1> QED
  BY <1>1, InvHolds, PTL
=============================================================================
