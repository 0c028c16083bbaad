--------------------------- MODULE LeveledBGVProofs ---------------------------
(***************************************************************************)
(* Proofs about LeveledBGV, for every prime plaintext modulus, any number  *)
(* of moduli with any residues, any values and all four techniques: that   *)
(* whatever a program computes decrypts to what its formula gives, and     *)
(* that the depth asked for is the depth to be had.                        *)
(***************************************************************************)
EXTENDS LeveledBGV, FiniteSetTheorems, NaturalsInduction,
        WellFoundedInduction, TLAPS

-----------------------------------------------------------------------------
(* The invariant.                                                          *)

Fields == {"level", "towers", "deg", "sf", "enc", "val", "depth", "final"}

Shaped(c) == c = [x \in Fields |-> c[x]]

(* As many moduli as the level leaves, and one at least.                   *)
Sound(c) ==
  /\ Shaped(c)
  /\ c.level \in Nat /\ c.towers \in Nat \ {0} /\ c.level + c.towers = sizeQ
  /\ c.deg \in Nat /\ c.depth \in Nat

(* Unless the program reduces by hand: levels and degrees are paid for by  *)
(* multiplications.                                                        *)
Paid(c) ==
  ~ FIXEDMANUAL =>
    c.deg \in {1, 2} /\ c.level + c.deg <= c.depth + FreshDegree

Good(c) == Sound(c) /\ Paid(c)

(* The entry of the table at level k, after those before it.               *)
Entry(f, k) ==
  IF k = 0 THEN ModReduceFactorInt(sizeQ - 1)
  ELSE IF EXT /\ k = 1 THEN ModReduceFactorInt(sizeQ - 2)
  ELSE IF k < sizeQ - isFlexibleAutoExt THEN NextFactor(k, f[k - 1])
  ELSE 0

IsTable(f, n) == f = [k \in 0..n |-> Entry(f, k)]

(* The factor that a ciphertext of a level and degree has.                 *)

Single(f, k) ==
  IF Fixed THEN 1
  ELSE IF EXT /\ k = sizeQ - 1 /\ k > 1 THEN NextFactor(k, f[k - 1])
  ELSE f[k]

Double(f, k) ==
  IF Fixed THEN 1
  ELSE IF EXT /\ k = 0 THEN ModMul(f[0], f[1])
  ELSE ModMul(Single(f, k), Single(f, k))

(* The factor is the one the slot is multiplied by, and can be divided by. *)
Right(c) ==
  c.val \in Residue /\ c.sf \in Unit /\ c.enc = ModMul(c.val, c.sf)

(* It is the one of the level and the degree; at the top level of          *)
(* FLEXIBLEAUTOEXT there is none of degree 1.                              *)
InScale(f, c) ==
  /\ c.sf = IF c.deg = 2 THEN Double(f, c.level) ELSE Single(f, c.level)
  /\ EXT /\ c.level = 0 => c.deg = 2

Exact(f, c) == Right(c) /\ InScale(f, c) /\ c.final = FALSE

(* No plaintext is made at the level for which the table has no factor.    *)
Covered ==
  "FLEXIBLEAUTOEXT" \in Techniques
    => sizeQ - 1 \notin PlainLevel["FLEXIBLEAUTOEXT"]

(* Levels and degrees are what they should be whatever plaintexts there    *)
(* are, factors and slots while every plaintext has a factor.              *)
Valid(f, c) == Good(c) /\ (Covered => Exact(f, c))

(* A compressed ciphertext.                                                *)
Sealed(c) ==
  /\ Sound(c) /\ (~ FIXEDMANUAL => c.deg \in {1, 2})
  /\ Right(c) /\ c.final = TRUE

Lasting(f, c) == (c.final /\ (Covered => Sealed(c))) \/ Valid(f, c)

ValidInv(f) ==
  /\ m_scalTechnique \in Techniques
  /\ reg = [r \in Reg |-> reg[r]]
  /\ \A r \in Reg : reg[r] = NONE \/ Lasting(f, reg[r])

(* The table is a state function only because the technique is a variable: *)
(* as the one solution of its equation it may be named for all states.     *)
Inv == \A f : IsTable(f, sizeQ - 1) => ValidInv(f)

-----------------------------------------------------------------------------
(* Arithmetic modulo a prime.                                              *)

LEMMA TIsNat == t \in Nat \ {0, 1}
  BY ScalingFactorsAssumption

(* A remainder, and the quotient it belongs to.                            *)
LEMMA ModIs ==
  ASSUME NEW x \in Int
  PROVE  x % t \in Residue /\ \E q \in Int : x = q * t + (x % t)
<1>1. x % t \in 0..(t - 1) /\ x = t * (x \div t) + (x % t)
  BY TIsNat
<1>2. x \div t \in Int /\ t * (x \div t) = (x \div t) * t
  BY TIsNat
<1> QED
  BY <1>1, <1>2 DEF Residue

(* There is one such remainder.                                            *)
LEMMA ModUnique ==
  ASSUME NEW x \in Int, NEW q \in Int, NEW r \in Residue, x = q * t + r
  PROVE  x % t = r
<1>1. PICK p \in Int : x = p * t + (x % t)
  BY ModIs
<1>2. PICK s \in Int : s = x % t
  BY ModIs DEF Residue
<1>3. s \in 0..(t - 1) /\ r \in 0..(t - 1)
  BY <1>2, ModIs DEF Residue
<1>4. PICK k \in Int : k = p - q
  OBVIOUS
<1>5. k * t = r - s
  <2>1. k * t = p * t - q * t
    BY <1>4, TIsNat
  <2> QED
    BY <2>1, <1>1, <1>2, <1>3, TIsNat
<1>6. k = 0
  <2>1. ASSUME k >= 1 PROVE FALSE
    <3>1. k * t >= t
      BY <2>1, TIsNat
    <3> QED
      BY <3>1, <1>3, <1>5, TIsNat
  <2>2. ASSUME k <= -1 PROVE FALSE
    <3>1. k * t <= -t
      BY <2>2, TIsNat
    <3> QED
      BY <3>1, <1>3, <1>5, TIsNat
  <2> QED
    BY <2>1, <2>2
<1>7. r = s
  BY <1>3, <1>5, <1>6, TIsNat
<1> QED
  BY <1>2, <1>7

(* Multiples of the modulus do not matter.                                 *)
LEMMA ModShift ==
  ASSUME NEW x \in Int, NEW k \in Int
  PROVE  (x + k * t) % t = x % t
<1>1. PICK q \in Int : x = q * t + (x % t)
  BY ModIs
<1>2. PICK r \in Residue : r = x % t
  BY ModIs
<1>3. r \in Int /\ t \in Int /\ x + k * t \in Int /\ q + k \in Int
  BY <1>2, TIsNat DEF Residue
<1>4. x + k * t = (q + k) * t + r
  BY <1>1, <1>2, <1>3
<1> QED
  BY <1>2, <1>3, <1>4, ModUnique

(* An operand may be reduced first.                                        *)
LEMMA ModMulLeft ==
  ASSUME NEW a \in Int, NEW b \in Int
  PROVE  ModMul(a % t, b) = ModMul(a, b)
<1>1. PICK q \in Int : a = q * t + (a % t)
  BY ModIs
<1>2. PICK r \in Int : r = a % t
  BY ModIs DEF Residue
<1>3. t \in Int
  BY TIsNat
<1>4. a = q * t + r
  BY <1>1, <1>2
<1>5. a * b = r * b + (q * b) * t
  BY <1>3, <1>4
<1>6. r * b \in Int /\ q * b \in Int
  OBVIOUS
<1>7. (r * b + (q * b) * t) % t = (r * b) % t
  BY <1>6, ModShift
<1> QED
  BY <1>2, <1>5, <1>7 DEF ModMul

(* Products modulo t commute, associate and have a 1.                      *)
LEMMA ModMulComm ==
  ASSUME NEW a \in Int, NEW b \in Int
  PROVE  ModMul(a, b) = ModMul(b, a) /\ ModMul(a, b) \in Residue
<1>1. a * b = b * a /\ a * b \in Int
  OBVIOUS
<1> QED
  BY <1>1, ModIs DEF ModMul

LEMMA ModMulAssoc ==
  ASSUME NEW a \in Int, NEW b \in Int, NEW c \in Int
  PROVE  ModMul(ModMul(a, b), c) = ModMul(a, ModMul(b, c))
<1>1. a * b \in Int /\ b * c \in Int /\ ModMul(b, c) \in Int
  BY ModIs, TIsNat DEF ModMul, Residue
<1>2. ModMul(ModMul(a, b), c) = ((a * b) * c) % t
  BY <1>1, ModMulLeft DEF ModMul
<1>3. ModMul(a, ModMul(b, c)) = ModMul(ModMul(b, c), a)
  BY <1>1, ModMulComm
<1>4. ModMul(ModMul(b, c), a) = ((b * c) * a) % t
  BY <1>1, ModMulLeft DEF ModMul
<1>5. (b * c) * a = (a * b) * c
  OBVIOUS
<1> QED
  BY <1>2, <1>3, <1>4, <1>5

LEMMA ModMulOne ==
  ASSUME NEW a \in Residue
  PROVE  ModMul(a, 1) = a /\ ModMul(1, a) = a
<1>1. a \in Int /\ a = 0 * t + a /\ a * 1 = a /\ 1 * a = a
  BY TIsNat DEF Residue
<1>2. a % t = a
  BY <1>1, ModUnique
<1> QED
  BY <1>1, <1>2 DEF ModMul

(* They distribute over sums, differences and negation.                    *)
LEMMA ModMulSum ==
  ASSUME NEW a \in Int, NEW b \in Int, NEW s \in Int
  PROVE  /\ (ModMul(a, s) + ModMul(b, s)) % t = ModMul((a + b) % t, s)
         /\ (ModMul(a, s) - ModMul(b, s)) % t = ModMul((a - b) % t, s)
         /\ (- ModMul(a, s)) % t = ModMul((- a) % t, s)
<1>1. PICK p \in Int, q \in Int :
        a * s = p * t + ModMul(a, s) /\ b * s = q * t + ModMul(b, s)
  <2>1. a * s \in Int /\ b * s \in Int
    OBVIOUS
  <2> QED
    BY <2>1, ModIs DEF ModMul
<1>2. PICK x \in Int, y \in Int : x = ModMul(a, s) /\ y = ModMul(b, s)
  <2>1. ModMul(a, s) \in Int /\ ModMul(b, s) \in Int
    BY ModMulComm, TIsNat DEF Residue
  <2> QED
    BY <2>1
<1>3. t \in Int /\ a * s = p * t + x /\ b * s = q * t + y
  BY <1>1, <1>2, TIsNat
<1>4. /\ (a + b) * s = (x + y) + (p + q) * t
      /\ (a - b) * s = (x - y) + (p - q) * t
      /\ (- a) * s = (- x) + (- p) * t
  BY <1>3
<1>5. /\ ModMul((a + b) % t, s) = ((a + b) * s) % t
      /\ ModMul((a - b) % t, s) = ((a - b) * s) % t
      /\ ModMul((- a) % t, s) = ((- a) * s) % t
  <2>1. a + b \in Int /\ a - b \in Int /\ - a \in Int
    OBVIOUS
  <2> QED
    BY <2>1, ModMulLeft DEF ModMul
<1>6. /\ ((x + y) + (p + q) * t) % t = (x + y) % t
      /\ ((x - y) + (p - q) * t) % t = (x - y) % t
      /\ ((- x) + (- p) * t) % t = (- x) % t
  <2>1. /\ x + y \in Int /\ p + q \in Int /\ x - y \in Int /\ p - q \in Int
        /\ - x \in Int /\ - p \in Int
    OBVIOUS
  <2> QED
    BY <2>1, ModShift
<1> QED
  BY <1>2, <1>4, <1>5, <1>6

(* t is prime: a product of units is a unit.                               *)
LEMMA UnitMul ==
  ASSUME NEW a \in Unit, NEW b \in Unit
  PROVE  ModMul(a, b) \in Unit
<1>1. (a * b) % t # 0 /\ a * b \in Int
  BY ScalingFactorsAssumption DEF Unit
<1>2. ModMul(a, b) \in Residue /\ ModMul(a, b) # 0
  BY <1>1, ModIs DEF ModMul
<1> QED
  BY <1>2, TIsNat DEF Residue, Unit

(* Products with a unit differ, so that one of them is 1.                  *)
LEMMA InverseIs ==
  ASSUME NEW a \in Unit
  PROVE  /\ ModInverse(a) \in Unit
         /\ ModMul(a, ModInverse(a)) = 1 /\ ModMul(ModInverse(a), a) = 1
<1> DEFINE f == [b \in Unit |-> ModMul(a, b)]
<1>0. \A b \in Unit : b \in Int /\ b \in Residue
  BY TIsNat DEF Unit, Residue
<1>1. f \in [Unit -> Unit]
  BY UnitMul
<1>2. ASSUME NEW b \in Unit, NEW c \in Unit, b < c, f[b] = f[c] PROVE FALSE
  <2>1. c - b \in Unit
    BY <1>2, TIsNat DEF Unit
  <2>2. (ModMul(c, a) - ModMul(b, a)) % t = ModMul((c - b) % t, a)
    BY <1>0, ModMulSum
  <2>3. ModMul(c, a) = ModMul(a, c) /\ ModMul(b, a) = ModMul(a, b)
        /\ ModMul(a, c) = ModMul(a, b) /\ ModMul(a, b) \in Int
    BY <1>0, <1>2, ModMulComm DEF Residue
  <2>4. ModMul(c - b, a) = 0
    <3>1. ModMul((c - b) % t, a) = ModMul(c - b, a)
      BY <1>0, <2>1, ModMulLeft
    <3>2. (ModMul(c, a) - ModMul(b, a)) % t = 0
      BY <2>3, TIsNat
    <3> QED
      BY <2>2, <3>1, <3>2
  <2> QED
    BY <2>1, <2>4, UnitMul DEF Unit
<1>3. \A b, c \in Unit : f[b] = f[c] => b = c
  BY <1>2 DEF Unit
<1>4. f \in Injection(Unit, Unit)
  BY <1>1, <1>3 DEF Injection, IsInjective
<1>5. IsFiniteSet(Unit)
  BY FS_Interval, TIsNat DEF Unit
<1>6. f \in Surjection(Unit, Unit)
  <2> HIDE DEF f
  <2> QED
    BY <1>4, <1>5, FS_Injection
<1>7. 1 \in Unit
  BY TIsNat DEF Unit
<1>8. \E b \in Unit : ModMul(a, b) = 1
  BY <1>6, <1>7 DEF Surjection
<1>9. ModInverse(a) \in Unit /\ ModMul(a, ModInverse(a)) = 1
  BY <1>8 DEF ModInverse, Inverses
<1> QED
  BY <1>0, <1>9, ModMulComm

-----------------------------------------------------------------------------
(* The tables of factors.                                                  *)

(* A set of naturals that is not empty has a least element.                *)
LEMMA HasLeast ==
  ASSUME NEW T, T \in SUBSET Nat, T # {}
  PROVE  \E n \in T : \A m \in T : n <= m
<1>1. PICK n \in T : \A m \in T : ~ (<<m, n>> \in OpToRel(<, Nat))
  BY NatLessThanWellFounded, WFMin
<1>2. \A m \in T : <<m, n>> \in Nat \X Nat
  OBVIOUS
<1>3. \A m \in T : ~ (m < n)
  BY <1>1, <1>2 DEF OpToRel
<1> QED
  BY <1>3

LEMMA SizeIsNat == sizeQ \in Nat /\ sizeQ >= 2 /\ sizeQ - 1 \in Nat
  BY ScalingFactorsAssumption

(* The equation of the table has a solution: the least level up to which   *)
(* it had none would have one from the levels before.                      *)
LEMMA TableExists ==
  ASSUME NEW n \in Nat
  PROVE  \E f : IsTable(f, n)
<1> DEFINE T == {m \in Nat : ~ \E f : IsTable(f, m)}
<1> SUFFICES ASSUME T # {} PROVE FALSE
  OBVIOUS
<1>1. PICK m \in T : \A i \in T : m <= i
  <2>1. T \in SUBSET Nat /\ T # {}
    OBVIOUS
  <2> HIDE DEF T
  <2> QED
    BY <2>1, HasLeast
<1>2. m # 0
  <2>1. IsTable([k \in 0..0 |-> ModReduceFactorInt(sizeQ - 1)], 0)
    BY DEF IsTable, Entry
  <2> QED
    BY <2>1, <1>1
<1>3. m - 1 \in Nat /\ m - 1 \notin T
  BY <1>1, <1>2
<1>4. PICK f : IsTable(f, m - 1)
  BY <1>3
<1> DEFINE g == [k \in 0..m |-> IF k <= m - 1 THEN f[k] ELSE Entry(f, m)]
<1>5. \A k \in 0..(m - 1) : f[k] = Entry(f, k)
  BY <1>4 DEF IsTable
<1>6. ASSUME NEW k \in 0..m
      PROVE  g[k] = Entry(g, k)
  <2>1. k # 0 => g[k - 1] = f[k - 1]
    BY <1>2, <1>3
  <2>2. Entry(g, k) = Entry(f, k)
    BY <2>1 DEF Entry
  <2>3. k <= m - 1 \/ k = m
    OBVIOUS
  <2> QED
    BY <2>2, <2>3, <1>3, <1>5
<1>7. g = [k \in 0..m |-> g[k]]
  OBVIOUS
<1> HIDE DEF g
<1>8. IsTable(g, m)
  BY <1>6, <1>7 DEF IsTable
<1> QED
  BY <1>1, <1>8

(* It has one only.                                                        *)
LEMMA TableUnique ==
  ASSUME NEW n \in Nat, NEW f, NEW g, IsTable(f, n), IsTable(g, n)
  PROVE  f = g
<1>1. /\ f = [k \in 0..n |-> f[k]] /\ g = [k \in 0..n |-> g[k]]
      /\ \A k \in 0..n : f[k] = Entry(f, k) /\ g[k] = Entry(g, k)
  BY DEF IsTable
<1> DEFINE T == {k \in 0..n : f[k] # g[k]}
<1>2. T = {}
  <2> SUFFICES ASSUME T # {} PROVE FALSE
    OBVIOUS
  <2>1. PICK k \in T : \A i \in T : k <= i
    <3>1. T \in SUBSET Nat /\ T # {}
      OBVIOUS
    <3> HIDE DEF T
    <3> QED
      BY <3>1, HasLeast
  <2>2. k # 0 => f[k - 1] = g[k - 1]
    BY <2>1
  <2>3. Entry(f, k) = Entry(g, k)
    BY <2>2 DEF Entry
  <2> QED
    BY <2>1, <2>3, <1>1
<1> QED
  BY <1>1, <1>2

LEMMA TheTable == IsTable(m_scalingFactorsInt, sizeQ - 1)
<1>1. m_scalingFactorsInt = CHOOSE f : IsTable(f, sizeQ - 1)
  BY DEF m_scalingFactorsInt, IsTable, Entry
<1> QED
  BY <1>1, TableExists, SizeIsNat

(* Every modulus, and every factor of the table, can be divided by.        *)
LEMMA ModuliAreUnits ==
  ASSUME NEW i \in 0..(sizeQ - 1)
  PROVE  ModReduceFactorInt(i) \in Unit
<1>1. 1 \in Unit
  BY TIsNat DEF Unit
<1>2. i + 1 \in 1..sizeQ
  BY SizeIsNat
<1> QED
  BY <1>1, <1>2, ScalingFactorsAssumption DEF ModReduceFactorInt, m_fixedSF

LEMMA NextIsUnit ==
  ASSUME NEW k \in 1..(sizeQ - 1), NEW s \in Unit
  PROVE  NextFactor(k, s) \in Unit
<1>1. sizeQ - k \in 0..(sizeQ - 1)
  BY SizeIsNat
<1>2. ModInverse(ModReduceFactorInt(sizeQ - k)) \in Unit
  BY <1>1, ModuliAreUnits, InverseIs
<1> QED
  BY <1>2, UnitMul DEF NextFactor

(* All entries but the one the loop of FLEXIBLEAUTOEXT leaves out.         *)
LEMMA EntriesAreUnits ==
  ASSUME NEW f, IsTable(f, sizeQ - 1), NEW k \in 0..(sizeQ - 1),
         ~ (EXT /\ k = sizeQ - 1 /\ k > 1)
  PROVE  f[k] \in Unit
<1>1. \A i \in 0..(sizeQ - 1) : f[i] = Entry(f, i)
  BY DEF IsTable
<1> DEFINE Has(i) == EXT /\ i = sizeQ - 1 /\ i > 1
           T == {i \in 0..(sizeQ - 1) : ~ Has(i) /\ f[i] \notin Unit}
<1>2. T = {}
  <2> SUFFICES ASSUME T # {} PROVE FALSE
    OBVIOUS
  <2>1. PICK i \in T : \A j \in T : i <= j
    <3>1. T \in SUBSET Nat /\ T # {}
      BY SizeIsNat
    <3> HIDE DEF T
    <3> QED
      BY <3>1, HasLeast
  <2>2. i \in 0..(sizeQ - 1) /\ ~ Has(i) /\ f[i] \notin Unit
    BY <2>1
  <2>3. CASE i = 0 \/ (EXT /\ i = 1)
    <3>1. \/ f[i] = ModReduceFactorInt(sizeQ - 1)
          \/ f[i] = ModReduceFactorInt(sizeQ - 2)
      BY <2>2, <2>3, <1>1 DEF Entry
    <3>2. sizeQ - 1 \in 0..(sizeQ - 1) /\ sizeQ - 2 \in 0..(sizeQ - 1)
      BY SizeIsNat
    <3> QED
      BY <3>1, <3>2, <2>2, ModuliAreUnits
  <2>4. CASE ~ (i = 0 \/ (EXT /\ i = 1))
    <3>1. i - 1 \in 0..(sizeQ - 1) /\ ~ Has(i - 1) /\ i \in 1..(sizeQ - 1)
      BY <2>2, <2>4, SizeIsNat
    <3>2. f[i - 1] \in Unit
      BY <2>1, <2>2, <3>1, SizeIsNat
    <3>3. i < sizeQ - isFlexibleAutoExt
      BY <2>2, <2>4, SizeIsNat DEF isFlexibleAutoExt
    <3>4. f[i] = NextFactor(i, f[i - 1])
      BY <2>2, <2>4, <3>3, <1>1 DEF Entry
    <3> QED
      BY <2>2, <3>1, <3>2, <3>4, NextIsUnit
  <2> QED
    BY <2>3, <2>4
<1> QED
  BY <1>2

(* The fixed factor.                                                       *)
LEMMA OneIsUnit == 1 \in Unit /\ ModMul(1, 1) = 1 /\ ModInverse(1) = 1
<1>1. 1 \in Unit /\ 1 \in Residue
  BY TIsNat DEF Unit, Residue
<1>2. ModMul(1, 1) = 1
  BY <1>1, ModMulOne
<1>3. ModInverse(1) \in Unit /\ ModMul(1, ModInverse(1)) = 1
  BY <1>1, InverseIs
<1>4. ModInverse(1) \in Residue
  BY <1>3, TIsNat DEF Unit, Residue
<1> QED
  BY <1>1, <1>2, <1>3, <1>4, ModMulOne

(* So can the factors of all levels and degrees.                           *)
LEMMA SingleIsUnit ==
  ASSUME NEW f, IsTable(f, sizeQ - 1), NEW k \in 0..(sizeQ - 1)
  PROVE  Single(f, k) \in Unit
<1>1. CASE EXT /\ k = sizeQ - 1 /\ k > 1
  <2>1. k - 1 \in 0..(sizeQ - 1) /\ k - 1 # sizeQ - 1 /\ k \in 1..(sizeQ - 1)
    BY <1>1, SizeIsNat
  <2>2. f[k - 1] \in Unit
    BY <2>1, EntriesAreUnits
  <2> QED
    BY <2>1, <2>2, NextIsUnit, OneIsUnit, <1>1 DEF Single
<1>2. CASE ~(EXT /\ k = sizeQ - 1 /\ k > 1)
  BY <1>2, EntriesAreUnits, OneIsUnit DEF Single
<1> QED
  BY <1>1, <1>2

LEMMA DoubleIsUnit ==
  ASSUME NEW f, IsTable(f, sizeQ - 1), NEW k \in 0..(sizeQ - 1)
  PROVE  Double(f, k) \in Unit
<1>1. f[0] \in Unit /\ f[1] \in Unit
  <2>1. 0 \in 0..(sizeQ - 1) /\ 1 \in 0..(sizeQ - 1)
    BY SizeIsNat
  <2> QED
    BY <2>1, EntriesAreUnits
<1> QED
  BY <1>1, SingleIsUnit, UnitMul, OneIsUnit DEF Double

(* A reduction turns the factor of degree 2 into that of the next level.   *)
LEMMA ReducedFactor ==
  ASSUME NEW f, IsTable(f, sizeQ - 1), NEW k \in 0..(sizeQ - 2)
  PROVE  ModMul(Double(f, k), ModInverse(ModReduceFactorInt(sizeQ - k - 1)))
           = Single(f, k + 1)
<1>1. \A i \in 0..(sizeQ - 1) : f[i] = Entry(f, i)
  BY DEF IsTable
<1>2. k + 1 \in 0..(sizeQ - 1) /\ k \in 0..(sizeQ - 1) /\ k \in Nat
  BY SizeIsNat
<1>3. sizeQ - (k + 1) = sizeQ - k - 1
  BY SizeIsNat
<1>4. CASE Fixed
  BY <1>4, OneIsUnit DEF Double, Single, ModReduceFactorInt, m_fixedSF
<1>5. CASE ~ Fixed /\ EXT /\ k = 0
  <2>1. f[0] = ModReduceFactorInt(sizeQ - 1)
        /\ f[1] = ModReduceFactorInt(sizeQ - 2)
    BY <1>1, <1>2, <1>5 DEF Entry
  <2>2. f[0] \in Unit /\ f[1] \in Unit
    <3>1. sizeQ - 1 \in 0..(sizeQ - 1) /\ sizeQ - 2 \in 0..(sizeQ - 1)
      BY SizeIsNat
    <3> QED
      BY <2>1, <3>1, ModuliAreUnits
  <2>3. PICK a, b, i : a = f[0] /\ b = f[1] /\ i = ModInverse(a)
    OBVIOUS
  <2>4. i \in Unit /\ a \in Unit /\ b \in Unit /\ ModMul(a, i) = 1
    BY <2>2, <2>3, InverseIs
  <2>5. a \in Int /\ b \in Int /\ i \in Int /\ b \in Residue
    BY <2>4, TIsNat DEF Unit, Residue
  <2>6. ModMul(ModMul(a, b), i) = b
    <3>1. ModMul(a, b) = ModMul(b, a)
      BY <2>5, ModMulComm
    <3>2. ModMul(ModMul(b, a), i) = ModMul(b, ModMul(a, i))
      BY <2>5, ModMulAssoc
    <3> QED
      BY <3>1, <3>2, <2>4, <2>5, ModMulOne
  <2>7. Double(f, k) = ModMul(a, b)
    BY <1>5, <2>3 DEF Double
  <2>8. Single(f, k + 1) = b
    BY <1>5, <2>3 DEF Single
  <2>9. sizeQ - k - 1 = sizeQ - 1
    BY <1>5, SizeIsNat
  <2> QED
    BY <2>1, <2>3, <2>6, <2>7, <2>8, <2>9
<1>6. CASE ~ Fixed /\ ~ (EXT /\ k = 0)
  <2>1. Single(f, k) = f[k]
    BY <1>6, <1>2, SizeIsNat DEF Single
  <2>2. Double(f, k) = ModMul(f[k], f[k])
    BY <1>6, <2>1 DEF Double
  <2>3. k + 1 - 1 = k
    BY <1>2
  <2>4. Single(f, k + 1) = NextFactor(k + 1, f[k])
    <3>1. CASE EXT /\ k + 1 = sizeQ - 1
      BY <3>1, <1>6, <1>2, <2>3 DEF Single
    <3>2. CASE ~ (EXT /\ k + 1 = sizeQ - 1)
      <4>1. k + 1 < sizeQ - isFlexibleAutoExt
        BY <3>2, <1>2, SizeIsNat DEF isFlexibleAutoExt
      <4>2. f[k + 1] = NextFactor(k + 1, f[k])
        BY <4>1, <1>1, <1>2, <1>6, <2>3 DEF Entry
      <4> QED
        BY <4>2, <3>2, <1>6 DEF Single
    <3> QED
      BY <3>1, <3>2
  <2> QED
    BY <2>2, <2>4, <1>3 DEF NextFactor
<1> QED
  BY <1>4, <1>5, <1>6

(* Squaring a factor of degree 1 gives that of degree 2.                   *)
LEMMA Squared ==
  ASSUME NEW f, NEW k, ~ (EXT /\ k = 0)
  PROVE  ModMul(Single(f, k), Single(f, k)) = Double(f, k)
  BY OneIsUnit DEF Single, Double

(* The accessors return these factors.                                     *)
LEMMA AccessorsReturn ==
  ASSUME NEW f, f = m_scalingFactorsInt, NEW k \in 0..(sizeQ - 1)
  PROVE  /\ ~ (EXT /\ k = sizeQ - 1 /\ k > 1)
              => GetScalingFactorInt(k) = Single(f, k)
         /\ k < sizeQ - 1 => GetScalingFactorIntBig(k) = Double(f, k)
<1>1. k \in Nat /\ k < sizeQ
  BY SizeIsNat
<1>2. ~ (EXT /\ k = sizeQ - 1 /\ k > 1)
        => GetScalingFactorInt(k) = Single(f, k)
  BY <1>1, SizeIsNat DEF GetScalingFactorInt, Single, m_fixedSF
<1>3. ASSUME k < sizeQ - 1 PROVE GetScalingFactorIntBig(k) = Double(f, k)
  <2>1. ~ Fixed => Single(f, k) = f[k]
    BY <1>3, <1>1, SizeIsNat DEF Single
  <2> QED
    BY <2>1, <1>3, <1>1, SizeIsNat
    DEF GetScalingFactorIntBig, m_scalingFactorsIntBig, Double, m_fixedSF
<1> QED
  BY <1>2, <1>3

-----------------------------------------------------------------------------
(* Levels, moduli, degrees and depths.                                     *)

(* The degrees met in the automatic techniques do not wrap.                *)
LEMMA SmallDegree == \A k \in 0..9 : Degree(k) = k
  BY DEF Degree

LEMMA DegreeIsNat == \A k \in Int : Degree(k) \in Nat
  BY DEF Degree

-----------------------------------------------------------------------------
(* The steps of the adjustment.                                            *)

LEMMA ScaleFacts ==
  ASSUME NEW c, Shaped(c), NEW s
  PROVE  LET e == Scale(c, s) IN
         /\ Shaped(e) /\ e.level = c.level /\ e.towers = c.towers
         /\ e.deg = Degree(c.deg + 1) /\ e.depth = c.depth
  BY DEF Scale, Shaped, Fields

LEMMA ModReduceFacts ==
  ASSUME NEW c, Shaped(c)
  PROVE  LET e == ModReduce(c) IN
         /\ Shaped(e) /\ e.level = c.level + 1 /\ e.towers = c.towers - 1
         /\ e.deg = Degree(c.deg - 1) /\ e.depth = c.depth
  BY DEF ModReduce, Shaped, Fields

LEMMA LevelReduceFacts ==
  ASSUME NEW c, Shaped(c), NEW k
  PROVE  LET e == LevelReduce(c, k) IN
         /\ Shaped(e) /\ e.level = c.level + k /\ e.towers = c.towers - k
         /\ e.deg = c.deg /\ e.depth = c.depth
  BY DEF LevelReduce, Shaped, Fields

LEMMA SetFactorFacts ==
  ASSUME NEW c, Shaped(c), NEW s
  PROVE  LET e == SetFactor(c, s) IN
         /\ Shaped(e) /\ e.level = c.level /\ e.towers = c.towers
         /\ e.deg = c.deg /\ e.depth = c.depth
  BY DEF SetFactor, Shaped, Fields

(* The operand at the lower level comes to the level and degree of the     *)
(* other, in all five cases.                                               *)
LEMMA RaiseFacts ==
  ASSUME NEW c, NEW d, Good(c), Good(d), ~ FIXEDMANUAL, c.level < d.level
  PROVE  LET e == Raise(c, d) IN
         /\ Shaped(e) /\ e.level = d.level /\ e.towers = d.towers
         /\ e.deg = d.deg /\ e.depth = c.depth
<1> DEFINE down == d.level - c.level
           inv == ModInverse(c.sf)
           ql == ModReduceFactorInt(c.towers - 1)
<1>1. /\ Shaped(c) /\ c.level \in Nat /\ c.towers \in Nat /\ sizeQ \in Nat
      /\ d.level \in Nat /\ d.towers \in Nat
      /\ c.level + c.towers = sizeQ /\ d.level + d.towers = sizeQ
      /\ c.deg \in {1, 2} /\ d.deg \in {1, 2}
      /\ down \in Nat \ {0}
  <2>1. Sound(c) /\ Sound(d)
    BY DEF Good
  <2>2. c.deg \in {1, 2} /\ d.deg \in {1, 2}
    BY DEF Good, Paid
  <2>3. sizeQ \in Nat
    BY ScalingFactorsAssumption
  <2>4. /\ Shaped(c) /\ c.level \in Nat /\ c.towers \in Nat
        /\ c.level + c.towers = sizeQ
    BY <2>1 DEF Sound
  <2>5. /\ d.level \in Nat /\ d.towers \in Nat
        /\ d.level + d.towers = sizeQ
    BY <2>1 DEF Sound
  <2>6. down \in Nat \ {0}
    <3>1. c.level \in Nat /\ d.level \in Nat /\ c.level < d.level
      BY <2>4, <2>5
    <3>2. QED  BY <3>1
  <2>7. QED  BY <2>2, <2>3, <2>4, <2>5, <2>6
<1>2. CASE c.deg = 2 /\ d.deg = 2
  <2> DEFINE s == ModMul(ModMul(d.sf, inv), ql)
             e1 == Scale(c, s)
             e2 == ModReduce(e1)
             e3 == LevelReduce(e2, down - 1)
             e4 == SetFactor(e3, d.sf)
  <2>1. Shaped(e1) /\ e1.level = c.level /\ e1.towers = c.towers
        /\ e1.deg = 3 /\ e1.depth = c.depth
    BY <1>1, <1>2, ScaleFacts, SmallDegree
  <2>2. Shaped(e2) /\ e2.level = c.level + 1 /\ e2.towers = c.towers - 1
        /\ e2.deg = 2 /\ e2.depth = c.depth
    BY <2>1, ModReduceFacts, SmallDegree
  <2>3. Shaped(e3) /\ e3.level = d.level /\ e3.towers = d.towers
        /\ e3.deg = 2 /\ e3.depth = c.depth
    <3>1. down - 1 \in Nat
      BY <1>1
    <3>2. e2.level + (down - 1) = d.level
          /\ e2.towers - (down - 1) = d.towers
      BY <1>1, <2>2
    <3>3. QED  BY <2>2, <3>1, <3>2, LevelReduceFacts
  <2>4. Shaped(e4) /\ e4.level = d.level /\ e4.towers = d.towers
        /\ e4.deg = 2 /\ e4.depth = c.depth
    BY <2>3, SetFactorFacts
  <2>5. Raise(c, d) = e4
    BY <1>2 DEF Raise
  <2> QED
    BY <1>2, <2>4, <2>5
<1>3. CASE c.deg = 2 /\ d.deg # 2 /\ down = 1
  <2>1. Raise(c, d) = ModReduce(c)
    BY <1>3 DEF Raise
  <2> QED
    BY <1>1, <1>3, <2>1, ModReduceFacts, SmallDegree
<1>4. CASE c.deg = 2 /\ d.deg # 2 /\ down # 1
  <2> DEFINE s == ModMul(ModMul(FactorBefore(d), inv), ql)
             e1 == Scale(c, s)
             e2 == ModReduce(e1)
             e3 == LevelReduce(e2, down - 2)
             e4 == ModReduce(e3)
             e5 == SetFactor(e4, d.sf)
  <2>1. Shaped(e1) /\ e1.level = c.level /\ e1.towers = c.towers
        /\ e1.deg = 3 /\ e1.depth = c.depth
    BY <1>1, <1>4, ScaleFacts, SmallDegree
  <2>2. Shaped(e2) /\ e2.level = c.level + 1 /\ e2.towers = c.towers - 1
        /\ e2.deg = 2 /\ e2.depth = c.depth
    BY <2>1, ModReduceFacts, SmallDegree
  <2>3. Shaped(e3) /\ e3.level = d.level - 1 /\ e3.towers = d.towers + 1
        /\ e3.deg = 2 /\ e3.depth = c.depth
    BY <1>1, <2>2, LevelReduceFacts
  <2>4. Shaped(e4) /\ e4.level = d.level /\ e4.towers = d.towers
        /\ e4.deg = 1 /\ e4.depth = c.depth
    BY <1>1, <2>3, ModReduceFacts, SmallDegree
  <2>5. Shaped(e5) /\ e5.level = d.level /\ e5.towers = d.towers
        /\ e5.deg = 1 /\ e5.depth = c.depth
    BY <2>4, SetFactorFacts
  <2>6. Raise(c, d) = e5
    BY <1>4 DEF Raise
  <2> QED
    BY <1>1, <1>4, <2>5, <2>6
<1>5. CASE c.deg # 2 /\ d.deg = 2
  <2> DEFINE e1 == Scale(c, ModMul(d.sf, inv))
             e2 == LevelReduce(e1, down)
             e3 == SetFactor(e2, d.sf)
  <2>1. Shaped(e1) /\ e1.level = c.level /\ e1.towers = c.towers
        /\ e1.deg = 2 /\ e1.depth = c.depth
    BY <1>1, <1>5, ScaleFacts, SmallDegree
  <2>2. Shaped(e2) /\ e2.level = d.level /\ e2.towers = d.towers
        /\ e2.deg = 2 /\ e2.depth = c.depth
    BY <1>1, <2>1, LevelReduceFacts
  <2>3. Shaped(e3) /\ e3.level = d.level /\ e3.towers = d.towers
        /\ e3.deg = 2 /\ e3.depth = c.depth
    BY <2>2, SetFactorFacts
  <2>4. Raise(c, d) = e3
    BY <1>5 DEF Raise
  <2> QED
    BY <1>5, <2>3, <2>4
<1>6. CASE c.deg # 2 /\ d.deg # 2
  <2> DEFINE e1 == Scale(c, ModMul(FactorBefore(d), inv))
             e2 == LevelReduce(e1, down - 1)
             e3 == ModReduce(e2)
             e4 == SetFactor(e3, d.sf)
  <2>1. Shaped(e1) /\ e1.level = c.level /\ e1.towers = c.towers
        /\ e1.deg = 2 /\ e1.depth = c.depth
    BY <1>1, <1>6, ScaleFacts, SmallDegree
  <2>2. Shaped(e2) /\ e2.level = d.level - 1 /\ e2.towers = d.towers + 1
        /\ e2.deg = 2 /\ e2.depth = c.depth
    BY <1>1, <2>1, LevelReduceFacts
  <2>3. Shaped(e3) /\ e3.level = d.level /\ e3.towers = d.towers
        /\ e3.deg = 1 /\ e3.depth = c.depth
    BY <1>1, <2>2, ModReduceFacts, SmallDegree
  <2>4. Shaped(e4) /\ e4.level = d.level /\ e4.towers = d.towers
        /\ e4.deg = 1 /\ e4.depth = c.depth
    BY <2>3, SetFactorFacts
  <2>5. Raise(c, d) = e4
    BY <1>6 DEF Raise
  <2> QED
    BY <1>1, <1>6, <2>4, <2>5
<1> QED
  BY <1>2, <1>3, <1>4, <1>5, <1>6

(* What the adjustment leaves of an operand: both operands come to the     *)
(* same level and, unless the program reduces by hand, the same degree,    *)
(* and what it costs is paid for by the other operand's depth.             *)
LEMMA AdjustedFacts ==
  ASSUME NEW c, NEW d, Good(c), Good(d)
  PROVE  LET e == Adjusted(c, d) IN
         /\ Good(e)
         /\ e.level = Larger(c.level, d.level)
         /\ e.depth <= Larger(c.depth, d.depth)
         /\ ~ FIXEDMANUAL =>
              e.deg = IF c.level < d.level THEN d.deg
                      ELSE IF d.level < c.level THEN c.deg
                      ELSE Larger(c.deg, d.deg)
<1> DEFINE f == CASE FIXEDMANUAL -> AdjustLevels(c, d)
                  [] ~ FIXEDMANUAL /\ c.level < d.level -> Raise(c, d)
                  [] ~ FIXEDMANUAL /\ c.level = d.level /\ c.deg < d.deg ->
                       Scale(c, c.sf)
                  [] OTHER -> c
           e == [f EXCEPT !.depth = IF f = c THEN c.depth
                                    ELSE Larger(c.depth, d.depth)]
<1>1. /\ Shaped(c) /\ c.level \in Nat /\ c.towers \in Nat \ {0}
      /\ d.level \in Nat /\ d.towers \in Nat \ {0} /\ sizeQ \in Nat
      /\ c.level + c.towers = sizeQ /\ d.level + d.towers = sizeQ
      /\ c.deg \in Nat /\ d.deg \in Nat /\ c.depth \in Nat /\ d.depth \in Nat
  BY ScalingFactorsAssumption DEF Good, Sound
<1>2. ~ FIXEDMANUAL =>
         /\ c.deg \in {1, 2} /\ d.deg \in {1, 2}
         /\ c.level + c.deg <= c.depth + FreshDegree
         /\ d.level + d.deg <= d.depth + FreshDegree
  BY DEF Good, Paid
<1>3. FreshDegree \in Nat
  BY DEF FreshDegree
<1>4. e = Adjusted(c, d)
  BY DEF Adjusted
<1>5. Shaped(f) => /\ Shaped(e) /\ e.level = f.level /\ e.towers = f.towers
                   /\ e.deg = f.deg
                   /\ e.depth = IF f = c THEN c.depth
                                ELSE Larger(c.depth, d.depth)
  BY DEF Shaped, Fields
<1> HIDE DEF e
<1>6. CASE FIXEDMANUAL
  <2>1. f = AdjustLevels(c, d)
    BY <1>6
  <2>2. CASE c.towers > d.towers
    <3>1. f = LevelReduce(c, c.towers - d.towers)
      BY <2>1, <2>2 DEF AdjustLevels
    <3>2. /\ Shaped(f) /\ f.level = c.level + (c.towers - d.towers)
          /\ f.towers = c.towers - (c.towers - d.towers) /\ f.deg = c.deg
      BY <3>1, <1>1, LevelReduceFacts
    <3>3. /\ Shaped(e) /\ e.level = d.level /\ e.towers = d.towers
          /\ e.deg = c.deg /\ e.depth \in {c.depth, d.depth}
          /\ e.depth <= Larger(c.depth, d.depth)
      BY <3>2, <1>1, <1>5 DEF Larger
    <3> QED
      BY <3>3, <2>2, <1>1, <1>4, <1>6 DEF Good, Sound, Paid, Larger
  <2>3. CASE ~(c.towers > d.towers)
    <3>1. f = c
      BY <2>1, <2>3 DEF AdjustLevels
    <3>2. /\ Shaped(e) /\ e.level = c.level /\ e.towers = c.towers
          /\ e.deg = c.deg /\ e.depth = c.depth
      BY <3>1, <1>1, <1>5
    <3> QED
      BY <3>2, <2>3, <1>1, <1>4, <1>6 DEF Good, Sound, Paid, Larger
  <2> QED
    BY <2>2, <2>3
<1>7. CASE ~ FIXEDMANUAL /\ c.level < d.level
  <2>1. f = Raise(c, d)
    BY <1>7, <1>1
  <2>2. /\ Shaped(f) /\ f.level = d.level /\ f.towers = d.towers
        /\ f.deg = d.deg
    BY <2>1, <1>7, RaiseFacts
  <2>3. f # c
    BY <2>2, <1>7, <1>1
  <2>4. /\ Shaped(e) /\ e.level = d.level /\ e.towers = d.towers
        /\ e.deg = d.deg /\ e.depth = Larger(c.depth, d.depth)
    BY <2>2, <2>3, <1>5
  <2>5. e.level + e.deg <= e.depth + FreshDegree /\ e.depth \in Nat
    BY <2>4, <1>1, <1>2, <1>3, <1>7 DEF Larger
  <2> QED
    BY <2>4, <2>5, <1>1, <1>2, <1>4, <1>7 DEF Good, Sound, Paid, Larger
<1>8. CASE ~ FIXEDMANUAL /\ c.level = d.level /\ c.deg < d.deg
  <2>1. f = Scale(c, c.sf)
    BY <1>8, <1>1
  <2>2. c.deg = 1 /\ d.deg = 2
    BY <1>8, <1>2
  <2>3. /\ Shaped(f) /\ f.level = c.level /\ f.towers = c.towers /\ f.deg = 2
    BY <2>1, <2>2, <1>1, ScaleFacts, SmallDegree
  <2>4. f # c
    BY <2>2, <2>3
  <2>5. /\ Shaped(e) /\ e.level = d.level /\ e.towers = d.towers
        /\ e.deg = d.deg /\ e.depth = Larger(c.depth, d.depth)
    BY <2>2, <2>3, <2>4, <1>1, <1>5, <1>8
  <2>6. e.level + e.deg <= e.depth + FreshDegree /\ e.depth \in Nat
    BY <2>5, <1>1, <1>2, <1>3, <1>8 DEF Larger
  <2> QED
    BY <2>2, <2>5, <2>6, <1>1, <1>4, <1>8 DEF Good, Sound, Paid, Larger
<1>9. CASE /\ ~ FIXEDMANUAL
           /\ d.level < c.level \/ (c.level = d.level /\ ~(c.deg < d.deg))
  <2>1. f = c
    BY <1>9, <1>1
  <2>2. /\ Shaped(e) /\ e.level = c.level /\ e.towers = c.towers
        /\ e.deg = c.deg /\ e.depth = c.depth
    BY <2>1, <1>1, <1>5
  <2> QED
    BY <2>2, <1>1, <1>2, <1>4, <1>9 DEF Good, Sound, Paid, Larger
<1> QED
  BY <1>1, <1>6, <1>7, <1>8, <1>9

(* Two adjusted operands agree.                                            *)
LEMMA BothAdjusted ==
  ASSUME NEW c, NEW d, Good(c), Good(d)
  PROVE  LET e == Adjusted(c, d)
             f == Adjusted(d, c)
         IN /\ Good(e) /\ Good(f) /\ e.level = f.level /\ e.towers = f.towers
            /\ ~ FIXEDMANUAL => e.deg = f.deg
            /\ e.depth <= Larger(c.depth, d.depth)
            /\ f.depth <= Larger(c.depth, d.depth)
<1> DEFINE e == Adjusted(c, d)
           f == Adjusted(d, c)
<1>1. /\ c.level \in Nat /\ d.level \in Nat /\ c.deg \in Nat /\ d.deg \in Nat
      /\ c.depth \in Nat /\ d.depth \in Nat
  BY DEF Good, Sound
<1>2. /\ Good(e) /\ e.level = Larger(c.level, d.level)
      /\ e.depth <= Larger(c.depth, d.depth)
      /\ ~ FIXEDMANUAL =>
           e.deg = IF c.level < d.level THEN d.deg
                   ELSE IF d.level < c.level THEN c.deg
                   ELSE Larger(c.deg, d.deg)
  BY AdjustedFacts
<1>3. /\ Good(f) /\ f.level = Larger(d.level, c.level)
      /\ f.depth <= Larger(d.depth, c.depth)
      /\ ~ FIXEDMANUAL =>
           f.deg = IF d.level < c.level THEN c.deg
                   ELSE IF c.level < d.level THEN d.deg
                   ELSE Larger(d.deg, c.deg)
  BY AdjustedFacts
<1> HIDE DEF e, f
<1>4. /\ Larger(c.level, d.level) = Larger(d.level, c.level)
      /\ Larger(c.deg, d.deg) = Larger(d.deg, c.deg)
      /\ Larger(c.depth, d.depth) = Larger(d.depth, c.depth)
  BY <1>1 DEF Larger
<1>5. e.level = f.level /\ (~ FIXEDMANUAL => e.deg = f.deg)
  BY <1>1, <1>2, <1>3, <1>4
<1>6. e.towers = f.towers
  <2>1. /\ e.level \in Nat /\ e.towers \in Nat /\ f.towers \in Nat
        /\ e.level + e.towers = f.level + f.towers
    BY <1>2, <1>3 DEF Good, Sound
  <2> QED
    BY <2>1, <1>5
<1> QED
  BY <1>2, <1>3, <1>4, <1>5, <1>6 DEF e, f

(* Reducing costs a level and gives a degree.                              *)
LEMMA ModReduceGood ==
  ASSUME NEW c, Good(c), ~ TooFewTowers(c), ~ FIXEDMANUAL => c.deg = 2
  PROVE  LET e == ModReduce(c) IN
         /\ Good(e) /\ e.level = c.level + 1 /\ e.towers = c.towers - 1
         /\ e.depth = c.depth /\ (~ FIXEDMANUAL => e.deg = 1)
<1> DEFINE e == ModReduce(c)
<1>1. /\ Shaped(c) /\ c.level \in Nat /\ c.towers \in Nat \ {0}
      /\ c.level + c.towers = sizeQ /\ c.deg \in Nat /\ c.depth \in Nat
      /\ sizeQ \in Nat
  BY ScalingFactorsAssumption DEF Good, Sound
<1>2. /\ Shaped(e) /\ e.level = c.level + 1 /\ e.towers = c.towers - 1
      /\ e.deg = Degree(c.deg - 1) /\ e.depth = c.depth
  BY <1>1, ModReduceFacts
<1> HIDE DEF e
<1>3. e.deg \in Nat
  BY <1>1, <1>2, DegreeIsNat
<1>4. e.level \in Nat /\ e.towers \in Nat \ {0} /\ e.level + e.towers = sizeQ
  BY <1>1, <1>2 DEF TooFewTowers
<1>5. ~ FIXEDMANUAL => e.deg = 1
  BY <1>2, SmallDegree
<1>6. ~ FIXEDMANUAL => e.level + e.deg <= e.depth + FreshDegree
  <2>1. FreshDegree \in Nat
    BY DEF FreshDegree
  <2>2. ~ FIXEDMANUAL => c.level + 2 <= c.depth + FreshDegree
    BY DEF Good, Paid
  <2> QED
    BY <2>1, <2>2, <1>1, <1>2, <1>5
<1> QED
  BY <1>1, <1>2, <1>3, <1>4, <1>5, <1>6 DEF Good, Sound, Paid, e

LEMMA LevelReduceGood ==
  ASSUME NEW c, Good(c), FIXEDMANUAL, NEW k \in Nat, k < c.towers
  PROVE  Good(LevelReduce(c, k))
<1> DEFINE e == LevelReduce(c, k)
<1>1. /\ Shaped(c) /\ c.level \in Nat /\ c.towers \in Nat \ {0}
      /\ c.level + c.towers = sizeQ /\ c.deg \in Nat /\ c.depth \in Nat
      /\ sizeQ \in Nat
  BY ScalingFactorsAssumption DEF Good, Sound
<1>2. /\ Shaped(e) /\ e.level = c.level + k /\ e.towers = c.towers - k
      /\ e.deg = c.deg /\ e.depth = c.depth
  BY <1>1, LevelReduceFacts
<1> QED
  BY <1>1, <1>2 DEF Good, Sound, Paid

(* The two operands of a product.                                          *)
LEMMA FirstSecond ==
  ASSUME NEW c, NEW d, Good(c), Good(d), ~ MultThrows(c, d)
  PROVE  LET e == First(c, d)
             f == Second(c, d)
         IN /\ Good(e) /\ Good(f) /\ e.level = f.level /\ e.towers = f.towers
            /\ ~ FIXEDMANUAL => e.deg = 1 /\ f.deg = 1
            /\ e.depth <= Larger(c.depth, d.depth)
            /\ f.depth <= Larger(c.depth, d.depth)
<1> DEFINE g == Adjusted(c, d)
           h == Adjusted(d, c)
<1>1. /\ Good(g) /\ Good(h) /\ g.level = h.level /\ g.towers = h.towers
      /\ ~ FIXEDMANUAL => g.deg = h.deg
      /\ g.depth <= Larger(c.depth, d.depth)
      /\ h.depth <= Larger(c.depth, d.depth)
  BY BothAdjusted
<1>2. First(c, d) = ToOne(g, g) /\ Second(c, d) = ToOne(h, g)
  BY DEF First, Second
<1>3. ~ (~ FIXEDMANUAL /\ g.deg = 2 /\ TooFewTowers(g))
  BY DEF MultThrows
<1> HIDE DEF g, h
<1>4. CASE ~ FIXEDMANUAL /\ g.deg = 2
  <2>1. ~ TooFewTowers(g) /\ ~ TooFewTowers(h)
    BY <1>1, <1>3, <1>4 DEF TooFewTowers
  <2>2. /\ Good(ModReduce(g)) /\ ModReduce(g).level = g.level + 1
        /\ ModReduce(g).towers = g.towers - 1
        /\ ModReduce(g).depth = g.depth /\ ModReduce(g).deg = 1
    BY <1>1, <1>4, <2>1, ModReduceGood
  <2>3. /\ Good(ModReduce(h)) /\ ModReduce(h).level = h.level + 1
        /\ ModReduce(h).towers = h.towers - 1
        /\ ModReduce(h).depth = h.depth /\ ModReduce(h).deg = 1
    BY <1>1, <1>4, <2>1, ModReduceGood
  <2>4. ToOne(g, g) = ModReduce(g) /\ ToOne(h, g) = ModReduce(h)
    BY <1>4 DEF ToOne
  <2> QED
    BY <2>2, <2>3, <2>4, <1>1, <1>2, <1>4
<1>5. CASE ~(~ FIXEDMANUAL /\ g.deg = 2)
  <2>1. ToOne(g, g) = g /\ ToOne(h, g) = h
    BY <1>5 DEF ToOne
  <2>2. ~ FIXEDMANUAL => g.deg = 1
    BY <1>1, <1>5 DEF Good, Paid
  <2> QED
    BY <2>1, <2>2, <1>1, <1>2
<1> QED
  BY <1>4, <1>5

-----------------------------------------------------------------------------
(* What the operations make.                                               *)

LEMMA SumGood ==
  ASSUME NEW c, NEW d, Good(c), Good(d)
  PROVE  /\ Good(Plus(Adjusted(c, d), Adjusted(d, c)))
         /\ Good(Minus(Adjusted(c, d), Adjusted(d, c)))
<1> DEFINE e == Adjusted(c, d)
           f == Adjusted(d, c)
<1>1. Good(e) /\ Good(f)
  BY BothAdjusted
<1> HIDE DEF e, f
<1>2. /\ Shaped(Plus(e, f)) /\ Plus(e, f).level = e.level
      /\ Plus(e, f).towers = e.towers /\ Plus(e, f).deg = e.deg
      /\ Plus(e, f).depth = Larger(e.depth, f.depth)
  BY <1>1 DEF Plus, Good, Sound, Shaped, Fields
<1>3. /\ Shaped(Minus(e, f)) /\ Minus(e, f).level = e.level
      /\ Minus(e, f).towers = e.towers /\ Minus(e, f).deg = e.deg
      /\ Minus(e, f).depth = Larger(e.depth, f.depth)
  BY <1>1 DEF Minus, Good, Sound, Shaped, Fields
<1>4. /\ Larger(e.depth, f.depth) \in Nat
      /\ Larger(e.depth, f.depth) >= e.depth
  BY <1>1 DEF Good, Sound, Larger
<1>5. FreshDegree \in Nat
  BY DEF FreshDegree
<1>6. ASSUME NEW g, Shaped(g), g.level = e.level, g.towers = e.towers,
             g.deg = e.deg, g.depth = Larger(e.depth, f.depth)
      PROVE  Good(g)
  BY <1>1, <1>4, <1>5, <1>6 DEF Good, Sound, Paid
<1>7. Good(Plus(e, f)) /\ Good(Minus(e, f))
  BY <1>2, <1>3, <1>6
<1> QED
  BY <1>7 DEF e, f

LEMMA NegatedGood ==
  ASSUME NEW c, Good(c)
  PROVE  Good(Negated(c))
<1>1. /\ Shaped(Negated(c)) /\ Negated(c).level = c.level
      /\ Negated(c).towers = c.towers /\ Negated(c).deg = c.deg
      /\ Negated(c).depth = c.depth
  BY DEF Negated, Good, Sound, Shaped, Fields
<1> QED
  BY <1>1 DEF Good, Sound, Paid

(* A product costs a depth and gains a degree.                             *)
LEMMA TimesGood ==
  ASSUME NEW e, NEW f, Good(e), Good(f), e.level = f.level,
         ~ FIXEDMANUAL => e.deg = 1 /\ f.deg = 1
  PROVE  Good(Times(e, f)) /\ Good(TimesPlain(e, f))
<1>1. /\ Shaped(Times(e, f)) /\ Times(e, f).level = e.level
      /\ Times(e, f).towers = e.towers
      /\ Times(e, f).deg = Degree(e.deg + f.deg)
      /\ Times(e, f).depth = Larger(e.depth, f.depth) + 1
  BY DEF Times, Good, Sound, Shaped, Fields
<1>2. /\ Shaped(TimesPlain(e, f)) /\ TimesPlain(e, f).level = e.level
      /\ TimesPlain(e, f).towers = e.towers
      /\ TimesPlain(e, f).deg = Degree(e.deg + f.deg)
      /\ TimesPlain(e, f).depth = Larger(e.depth, f.depth) + 1
  BY <1>1, SetFactorFacts DEF TimesPlain
<1>3. /\ Larger(e.depth, f.depth) \in Nat
      /\ Larger(e.depth, f.depth) >= e.depth
  BY DEF Good, Sound, Larger
<1>4. Degree(e.deg + f.deg) \in Nat
  BY DegreeIsNat DEF Good, Sound
<1>5. ~ FIXEDMANUAL => Degree(e.deg + f.deg) = 2
  BY SmallDegree
<1>6. FreshDegree \in Nat
  BY DEF FreshDegree
<1>7. ASSUME NEW g, Shaped(g), g.level = e.level, g.towers = e.towers,
             g.deg = Degree(e.deg + f.deg),
             g.depth = Larger(e.depth, f.depth) + 1
      PROVE  Good(g)
  <2>1. Sound(g)
    BY <1>3, <1>4, <1>7 DEF Good, Sound
  <2>2. ASSUME ~ FIXEDMANUAL
        PROVE  g.deg \in {1, 2} /\ g.level + g.deg <= g.depth + FreshDegree
    <3>1. e.level + 1 <= e.depth + FreshDegree /\ e.level \in Nat
          /\ e.depth \in Nat
      BY <2>2 DEF Good, Sound, Paid
    <3> QED
      BY <3>1, <2>2, <1>3, <1>5, <1>6, <1>7
  <2> QED
    BY <2>1, <2>2 DEF Good, Paid
<1> QED
  BY <1>1, <1>2, <1>7

LEMMA ProductGood ==
  ASSUME NEW c, NEW d, Good(c), Good(d), ~ MultThrows(c, d)
  PROVE  /\ Good(First(c, d)) /\ Good(Second(c, d))
         /\ Good(Times(First(c, d), Second(c, d)))
         /\ Good(TimesPlain(First(c, d), Second(c, d)))
<1>1. /\ Good(First(c, d)) /\ Good(Second(c, d))
      /\ First(c, d).level = Second(c, d).level
      /\ ~ FIXEDMANUAL => First(c, d).deg = 1 /\ Second(c, d).deg = 1
  BY FirstSecond
<1> QED
  BY <1>1, TimesGood

(* A plaintext, fresh or at a level of its own, counts as deep as that     *)
(* level.                                                                  *)
LEMMA PlainGood ==
  ASSUME m_scalTechnique \in Techniques, NEW v,
         NEW level \in Levels, NEW d \in {1, 2}
  PROVE  Good(MakePlaintext(v, level, d))
<1> DEFINE p == MakePlaintext(v, level, d)
           deg == IF EXT /\ level = 0 THEN 2 ELSE d
<1>1. /\ level \in Nat /\ sizeQ \in Nat /\ level <= sizeQ - 1
  BY ScalingFactorsAssumption, LeveledBGVAssumption DEF Levels
<1>2. /\ Shaped(p) /\ p.level = level /\ p.towers = sizeQ - level
      /\ p.deg = deg
      /\ p.depth = IF level + deg > FreshDegree THEN level + deg - FreshDegree
                   ELSE 0
  BY DEF MakePlaintext, Shaped, Fields
<1>3. deg \in {1, 2}
  OBVIOUS
<1>4. FreshDegree \in Nat
  BY DEF FreshDegree
<1> HIDE DEF p, deg
<1>5. Sound(p)
  BY <1>1, <1>2, <1>3, <1>4 DEF Sound
<1>6. p.level + p.deg <= p.depth + FreshDegree
  BY <1>1, <1>2, <1>3, <1>4
<1> QED
  BY <1>2, <1>3, <1>5, <1>6 DEF Good, Paid, p

-----------------------------------------------------------------------------
(* Factors and slots.                                                      *)

Table(f) == f = m_scalingFactorsInt

LEMMA UnitsAreInts == /\ \A a \in Unit : a \in Residue /\ a \in Int
                      /\ \A a \in Residue : a \in Int
  BY TIsNat DEF Unit, Residue

(* What the adjustment multiplies by takes the old factor away.            *)
LEMMA Cancel ==
  ASSUME NEW a \in Unit, NEW h \in Unit
  PROVE  /\ ModMul(a, ModMul(h, ModInverse(a))) = h
         /\ ModMul(ModMul(h, a), ModInverse(a)) = h
<1> PICK i : i = ModInverse(a)
  OBVIOUS
<1>1. i \in Unit /\ ModMul(a, i) = 1 /\ ModMul(i, a) = 1
  BY InverseIs
<1>2. a \in Int /\ h \in Int /\ i \in Int /\ h \in Residue
  BY <1>1, UnitsAreInts
<1>3. ModMul(ModMul(h, a), i) = h
  BY <1>1, <1>2, ModMulAssoc, ModMulOne
<1>4. ModMul(h, i) \in Int /\ ModMul(h, i) \in Residue
  BY <1>2, ModMulComm, UnitsAreInts
<1>5. ModMul(a, ModMul(h, i)) = ModMul(ModMul(h, i), a)
  BY <1>2, <1>4, ModMulComm
<1>6. ModMul(ModMul(h, i), a) = ModMul(h, 1)
  BY <1>1, <1>2, ModMulAssoc
<1> QED
  BY <1>2, <1>3, <1>5, <1>6, ModMulOne

(* The same when a reduction follows that divides by q.                    *)
LEMMA CancelBoth ==
  ASSUME NEW a \in Unit, NEW h \in Unit, NEW q \in Unit
  PROVE  ModMul(ModMul(a, ModMul(ModMul(h, ModInverse(a)), q)), ModInverse(q))
           = h
<1> PICK i, j, s : /\ i = ModInverse(a) /\ j = ModInverse(q)
                   /\ s = ModMul(h, i)
  OBVIOUS
<1>1. i \in Unit /\ j \in Unit /\ s \in Unit
  BY InverseIs, UnitMul
<1>2. a \in Int /\ q \in Int /\ s \in Int
  BY <1>1, UnitsAreInts
<1>3. ModMul(a, ModMul(s, q)) = ModMul(ModMul(a, s), q)
  BY <1>2, ModMulAssoc
<1>4. ModMul(a, s) = h
  BY Cancel
<1> QED
  BY <1>3, <1>4, Cancel

(* The product of two slots, each times its factor.                        *)
LEMMA SlotProduct ==
  ASSUME NEW v \in Residue, NEW w \in Residue, NEW a \in Unit, NEW b \in Unit
  PROVE  ModMul(ModMul(v, a), ModMul(w, b))
           = ModMul(ModMul(v, w), ModMul(a, b))
<1>1. /\ v \in Int /\ w \in Int /\ a \in Int /\ b \in Int
      /\ ModMul(w, b) \in Int /\ ModMul(v, w) \in Int /\ ModMul(a, b) \in Int
      /\ ModMul(a, w) \in Int
  BY UnitsAreInts, ModMulComm
<1>2. ModMul(ModMul(v, a), ModMul(w, b)) = ModMul(v, ModMul(a, ModMul(w, b)))
  BY <1>1, ModMulAssoc
<1>3. ModMul(a, ModMul(w, b)) = ModMul(ModMul(a, w), b)
  BY <1>1, ModMulAssoc
<1>4. ModMul(a, w) = ModMul(w, a)
  BY <1>1, ModMulComm
<1>5. ModMul(ModMul(w, a), b) = ModMul(w, ModMul(a, b))
  BY <1>1, ModMulAssoc
<1>6. ModMul(v, ModMul(w, ModMul(a, b))) = ModMul(ModMul(v, w), ModMul(a, b))
  BY <1>1, ModMulAssoc
<1> QED
  BY <1>2, <1>3, <1>4, <1>5, <1>6

(* The steps of the adjustment keep the slot right.                        *)
LEMMA ScaleRight ==
  ASSUME NEW c, Shaped(c), Right(c), NEW s \in Unit
  PROVE  LET e == Scale(c, s) IN
         Right(e) /\ e.sf = ModMul(c.sf, s) /\ e.final = c.final
<1>1. LET e == Scale(c, s) IN
      /\ e.sf = ModMul(c.sf, s) /\ e.val = c.val /\ e.final = c.final
      /\ e.enc = ModMul(c.enc, s)
  BY DEF Scale, Shaped, Fields
<1>2. PICK v, b : v = c.val /\ b = c.sf
  OBVIOUS
<1>3. v \in Residue /\ b \in Unit /\ v \in Int /\ b \in Int /\ s \in Int
  BY <1>2, UnitsAreInts DEF Right
<1>4. ModMul(ModMul(v, b), s) = ModMul(v, ModMul(b, s))
      /\ ModMul(b, s) \in Unit
  BY <1>3, ModMulAssoc, UnitMul
<1> QED
  BY <1>1, <1>2, <1>3, <1>4 DEF Right

LEMMA ModReduceRight ==
  ASSUME NEW c, Shaped(c), Right(c), c.towers \in 1..sizeQ
  PROVE  LET e == ModReduce(c) IN
         /\ Right(e) /\ e.final = c.final
         /\ e.sf = ModMul(c.sf, ModInverse(ModReduceFactorInt(c.towers - 1)))
<1>1. PICK n : n = c.towers - 1
  OBVIOUS
<1>2. PICK s : s = ModInverse(ModReduceFactorInt(n))
  OBVIOUS
<1>3. n \in 0..(sizeQ - 1)
  BY <1>1, SizeIsNat
<1>4. s \in Unit
  BY <1>2, <1>3, ModuliAreUnits, InverseIs
<1>5. LET e == ModReduce(c) IN
      /\ e.sf = ModMul(c.sf, s) /\ e.val = c.val /\ e.final = c.final
      /\ e.enc = ModMul(c.enc, s)
  BY <1>1, <1>2 DEF ModReduce, Shaped, Fields
<1>6. PICK v, b : v = c.val /\ b = c.sf
  OBVIOUS
<1>7. v \in Residue /\ b \in Unit /\ v \in Int /\ b \in Int /\ s \in Int
  BY <1>4, <1>6, UnitsAreInts DEF Right
<1>8. ModMul(ModMul(v, b), s) = ModMul(v, ModMul(b, s))
      /\ ModMul(b, s) \in Unit
  BY <1>4, <1>7, ModMulAssoc, UnitMul
<1> QED
  BY <1>1, <1>2, <1>5, <1>6, <1>7, <1>8 DEF Right

LEMMA LevelReduceRight ==
  ASSUME NEW c, Shaped(c), Right(c), NEW k
  PROVE  LET e == LevelReduce(c, k) IN
         Right(e) /\ e.sf = c.sf /\ e.final = c.final
  BY DEF LevelReduce, Shaped, Fields, Right

LEMMA SetFactorRight ==
  ASSUME NEW c, Shaped(c), Right(c), NEW s, s = c.sf
  PROVE  LET e == SetFactor(c, s) IN
         Right(e) /\ e.sf = s /\ e.final = c.final
  BY DEF SetFactor, Shaped, Fields, Right

(* The operand at the lower level comes to the other's factor, and its     *)
(* slot with it, in all five cases.                                        *)
LEMMA RaiseRight ==
  ASSUME NEW f, Table(f), NEW c, NEW d, Good(c), Good(d),
         Exact(f, c), Exact(f, d), ~ FIXEDMANUAL, c.level < d.level
  PROVE  LET e == Raise(c, d) IN
         Right(e) /\ e.sf = d.sf /\ e.final = FALSE
<1> DEFINE down == d.level - c.level
           inv == ModInverse(c.sf)
           ql == ModReduceFactorInt(c.towers - 1)
           fb == FactorBefore(d)
<1>1. /\ Shaped(c) /\ c.level \in Nat /\ c.towers \in Nat /\ sizeQ \in Nat
      /\ d.level \in Nat /\ d.towers \in Nat \ {0}
      /\ c.level + c.towers = sizeQ /\ d.level + d.towers = sizeQ
      /\ c.deg \in {1, 2} /\ d.deg \in {1, 2}
      /\ down \in Nat \ {0} /\ Right(c) /\ c.final = FALSE
  BY SizeIsNat DEF Good, Sound, Paid, Exact
<1>2. c.sf \in Unit /\ d.sf \in Unit /\ inv \in Unit
  BY InverseIs DEF Exact, Right
<1>3. c.towers \in 1..sizeQ /\ c.towers - 1 \in 0..(sizeQ - 1)
      /\ d.towers + 1 \in 1..sizeQ
  BY <1>1
<1>4. ql \in Unit
  BY <1>3, ModuliAreUnits
<1>5. IsTable(f, sizeQ - 1)
  BY TheTable DEF Table
<1>6. fb = Double(f, d.level - 1) /\ fb \in Unit
  <2>1. d.level - 1 \in 0..(sizeQ - 1) /\ d.level - 1 < sizeQ - 1
    BY <1>1
  <2> QED
    BY <2>1, <1>5, AccessorsReturn, DoubleIsUnit DEF FactorBefore, Table
<1>7. ModMul(fb, ModInverse(ModReduceFactorInt(d.towers)))
        = Single(f, d.level)
  <2>1. PICK k : k = d.level - 1
    OBVIOUS
  <2>2. /\ k \in 0..(sizeQ - 2) /\ sizeQ - k - 1 = d.towers
        /\ k + 1 = d.level
    BY <2>1, <1>1
  <2>3. ModMul(Double(f, k), ModInverse(ModReduceFactorInt(sizeQ - k - 1)))
          = Single(f, k + 1)
    BY <2>2, <1>5, ReducedFactor
  <2> QED
    BY <2>1, <2>2, <2>3, <1>6
<1>8. d.deg # 2 => d.sf = Single(f, d.level)
  BY DEF Exact, InScale
<1> HIDE DEF fb, ql, inv
<1>9. CASE c.deg = 2 /\ d.deg = 2
  <2> DEFINE s == ModMul(ModMul(d.sf, inv), ql)
             e1 == Scale(c, s)
             e2 == ModReduce(e1)
             e3 == LevelReduce(e2, down - 1)
             e4 == SetFactor(e3, d.sf)
  <2>0. s \in Unit
    BY <1>2, <1>4, UnitMul
  <2>1. Shaped(e1) /\ e1.towers = c.towers /\ Right(e1)
        /\ e1.sf = ModMul(c.sf, s) /\ e1.final = FALSE
    BY <2>0, <1>1, ScaleFacts, ScaleRight
  <2>2. Shaped(e2) /\ Right(e2) /\ e2.final = FALSE
        /\ e2.sf = ModMul(e1.sf, ModInverse(ModReduceFactorInt(c.towers - 1)))
    BY <2>1, <1>3, ModReduceFacts, ModReduceRight
  <2>3. e2.sf = d.sf
    BY <2>1, <2>2, <1>2, <1>4, CancelBoth DEF inv, ql
  <2>4. Shaped(e3) /\ Right(e3) /\ e3.sf = d.sf /\ e3.final = FALSE
    BY <2>2, <2>3, LevelReduceFacts, LevelReduceRight
  <2>5. Right(e4) /\ e4.sf = d.sf /\ e4.final = FALSE
    BY <2>4, SetFactorRight
  <2>6. Raise(c, d) = e4
    BY <1>9 DEF Raise, inv, ql
  <2> QED
    BY <2>5, <2>6
<1>10. CASE c.deg = 2 /\ d.deg # 2 /\ down = 1
  <2>1. Raise(c, d) = ModReduce(c)
    BY <1>10 DEF Raise
  <2>2. c.towers = d.towers + 1 /\ c.level = d.level - 1
    BY <1>1, <1>10
  <2>3. c.sf = fb /\ c.towers - 1 = d.towers
    BY <2>2, <1>1, <1>6, <1>10 DEF Exact, InScale
  <2> QED
    BY <2>1, <2>2, <2>3, <1>1, <1>3, <1>7, <1>8, <1>10, ModReduceRight
<1>11. CASE c.deg = 2 /\ d.deg # 2 /\ down # 1
  <2> DEFINE s == ModMul(ModMul(fb, inv), ql)
             e1 == Scale(c, s)
             e2 == ModReduce(e1)
             e3 == LevelReduce(e2, down - 2)
             e4 == ModReduce(e3)
             e5 == SetFactor(e4, d.sf)
  <2>0. s \in Unit
    BY <1>2, <1>4, <1>6, UnitMul
  <2>1. Shaped(e1) /\ e1.towers = c.towers /\ Right(e1)
        /\ e1.sf = ModMul(c.sf, s) /\ e1.final = FALSE
    BY <2>0, <1>1, ScaleFacts, ScaleRight
  <2>2. Shaped(e2) /\ Right(e2) /\ e2.final = FALSE
        /\ e2.towers = c.towers - 1
        /\ e2.sf = ModMul(e1.sf, ModInverse(ModReduceFactorInt(c.towers - 1)))
    BY <2>1, <1>3, ModReduceFacts, ModReduceRight
  <2>3. e2.sf = fb
    BY <2>1, <2>2, <1>2, <1>4, <1>6, CancelBoth DEF inv, ql
  <2>4. Shaped(e3) /\ Right(e3) /\ e3.sf = fb /\ e3.final = FALSE
        /\ e3.towers = c.towers - 1 - (down - 2)
    BY <2>2, <2>3, LevelReduceFacts, LevelReduceRight
  <2>5. e3.towers = d.towers + 1
    BY <2>4, <1>1
  <2>6. Shaped(e4) /\ Right(e4) /\ e4.final = FALSE
        /\ e4.sf = ModMul(fb, ModInverse(ModReduceFactorInt(d.towers)))
    <3> HIDE DEF e3
    <3>1. /\ Shaped(e4) /\ Right(e4) /\ e4.final = FALSE
          /\ e4.sf = ModMul(e3.sf,
                           ModInverse(ModReduceFactorInt(e3.towers - 1)))
      BY <2>4, <2>5, <1>3, ModReduceFacts, ModReduceRight
    <3>2. e3.towers - 1 = d.towers
      BY <2>5, <1>1
    <3> QED
      BY <3>1, <3>2, <2>4
  <2>7. e4.sf = d.sf
    BY <2>6, <1>7, <1>8, <1>11
  <2>8. Right(e5) /\ e5.sf = d.sf /\ e5.final = FALSE
    BY <2>6, <2>7, SetFactorRight
  <2>9. Raise(c, d) = e5
    BY <1>11 DEF Raise, inv, ql, fb
  <2> QED
    BY <2>8, <2>9
<1>12. CASE c.deg # 2 /\ d.deg = 2
  <2> DEFINE s == ModMul(d.sf, inv)
             e1 == Scale(c, s)
             e2 == LevelReduce(e1, down)
             e3 == SetFactor(e2, d.sf)
  <2>0. s \in Unit
    BY <1>2, UnitMul
  <2>1. Shaped(e1) /\ Right(e1) /\ e1.sf = ModMul(c.sf, s)
        /\ e1.final = FALSE
    BY <2>0, <1>1, ScaleFacts, ScaleRight
  <2>2. e1.sf = d.sf
    BY <2>1, <1>2, Cancel DEF inv
  <2>3. Shaped(e2) /\ Right(e2) /\ e2.sf = d.sf /\ e2.final = FALSE
    BY <2>1, <2>2, LevelReduceFacts, LevelReduceRight
  <2>4. Right(e3) /\ e3.sf = d.sf /\ e3.final = FALSE
    BY <2>3, SetFactorRight
  <2>5. Raise(c, d) = e3
    BY <1>12 DEF Raise, inv
  <2> QED
    BY <2>4, <2>5
<1>13. CASE c.deg # 2 /\ d.deg # 2
  <2> DEFINE s == ModMul(fb, inv)
             e1 == Scale(c, s)
             e2 == LevelReduce(e1, down - 1)
             e3 == ModReduce(e2)
             e4 == SetFactor(e3, d.sf)
  <2>0. s \in Unit
    BY <1>2, <1>6, UnitMul
  <2>1. Shaped(e1) /\ Right(e1) /\ e1.sf = ModMul(c.sf, s)
        /\ e1.final = FALSE /\ e1.towers = c.towers
    BY <2>0, <1>1, ScaleFacts, ScaleRight
  <2>2. e1.sf = fb
    BY <2>1, <1>2, <1>6, Cancel DEF inv
  <2>3. Shaped(e2) /\ Right(e2) /\ e2.sf = fb /\ e2.final = FALSE
        /\ e2.towers = c.towers - (down - 1)
    BY <2>1, <2>2, LevelReduceFacts, LevelReduceRight
  <2>4. e2.towers = d.towers + 1
    BY <2>3, <1>1
  <2>5. Shaped(e3) /\ Right(e3) /\ e3.final = FALSE
        /\ e3.sf = ModMul(fb, ModInverse(ModReduceFactorInt(d.towers)))
    <3> HIDE DEF e2
    <3>1. /\ Shaped(e3) /\ Right(e3) /\ e3.final = FALSE
          /\ e3.sf = ModMul(e2.sf,
                           ModInverse(ModReduceFactorInt(e2.towers - 1)))
      BY <2>3, <2>4, <1>3, ModReduceFacts, ModReduceRight
    <3>2. e2.towers - 1 = d.towers
      BY <2>4, <1>1
    <3> QED
      BY <3>1, <3>2, <2>3
  <2>6. e3.sf = d.sf
    BY <2>5, <1>7, <1>8, <1>13
  <2>7. Right(e4) /\ e4.sf = d.sf /\ e4.final = FALSE
    BY <2>5, <2>6, SetFactorRight
  <2>8. Raise(c, d) = e4
    BY <1>13 DEF Raise, inv, fb
  <2> QED
    BY <2>7, <2>8
<1> QED
  BY <1>9, <1>10, <1>11, <1>12, <1>13

(* In the fixed techniques all factors are 1.                              *)
LEMMA FixedFactors ==
  ASSUME FIXEDMANUAL, NEW f
  PROVE  /\ \A k : Single(f, k) = 1 /\ Double(f, k) = 1
         /\ \A i : ModReduceFactorInt(i) = 1
         /\ ~ EXT /\ Fixed
  BY DEF FIXEDMANUAL, Fixed, EXT, Single, Double, ModReduceFactorInt,
     m_fixedSF

(* What the adjustment leaves of an operand is exact.                      *)
LEMMA AdjustedExact ==
  ASSUME NEW f, Table(f), NEW c, NEW d, Good(c), Good(d),
         Exact(f, c), Exact(f, d)
  PROVE  Exact(f, Adjusted(c, d))
<1> DEFINE g == CASE FIXEDMANUAL -> AdjustLevels(c, d)
                  [] ~ FIXEDMANUAL /\ c.level < d.level -> Raise(c, d)
                  [] ~ FIXEDMANUAL /\ c.level = d.level /\ c.deg < d.deg ->
                       Scale(c, c.sf)
                  [] OTHER -> c
           e == [g EXCEPT !.depth = IF g = c THEN c.depth
                                    ELSE Larger(c.depth, d.depth)]
<1>1. /\ Shaped(c) /\ c.level \in Nat /\ d.level \in Nat
      /\ c.deg \in Nat /\ d.deg \in Nat
      /\ (~ FIXEDMANUAL => c.deg \in {1, 2} /\ d.deg \in {1, 2})
      /\ Right(c) /\ InScale(f, c) /\ c.final = FALSE
  BY DEF Good, Sound, Paid, Exact
<1>2. e = Adjusted(c, d)
  BY DEF Adjusted
<1>3. Shaped(g) /\ Exact(f, g) => Exact(f, e)
  <2> SUFFICES ASSUME Shaped(g), Exact(f, g)
               PROVE  Exact(f, e)
    OBVIOUS
  <2> HIDE DEF g
  <2>1. e.sf = g.sf /\ e.enc = g.enc /\ e.val = g.val
    BY DEF Shaped, Fields
  <2>2. e.level = g.level /\ e.deg = g.deg /\ e.final = g.final
    BY DEF Shaped, Fields
  <2> HIDE DEF e
  <2>3. Right(e)
    BY <2>1 DEF Exact, Right
  <2>4. InScale(f, e)
    BY <2>1, <2>2 DEF Exact, InScale
  <2>5. QED
    BY <2>2, <2>3, <2>4 DEF Exact
<1> HIDE DEF e
<1>4. CASE FIXEDMANUAL
  <2>1. g = AdjustLevels(c, d)
    BY <1>4
  <2>2. g = c \/ g = LevelReduce(c, c.towers - d.towers)
    BY <2>1 DEF AdjustLevels
  <2>3. Shaped(g) /\ Right(g) /\ g.sf = c.sf /\ g.final = FALSE
    BY <2>2, <1>1, LevelReduceFacts, LevelReduceRight
  <2>4. c.sf = 1
    BY <1>1, <1>4, FixedFactors DEF InScale
  <2>5. InScale(f, g)
    BY <2>3, <2>4, <1>4, FixedFactors DEF InScale
  <2> QED
    BY <2>3, <2>5, <1>2, <1>3 DEF Exact
<1>5. CASE ~ FIXEDMANUAL /\ c.level < d.level
  <2>1. g = Raise(c, d)
    BY <1>5, <1>1
  <2>2. /\ Shaped(g) /\ g.level = d.level /\ g.deg = d.deg
    BY <2>1, <1>5, RaiseFacts
  <2>3. Right(g) /\ g.sf = d.sf /\ g.final = FALSE
    <3>1. LET r == Raise(c, d) IN
          Right(r) /\ r.sf = d.sf /\ r.final = FALSE
      BY <1>5, RaiseRight
    <3> QED
      BY <3>1, <2>1
  <2>4. InScale(f, g)
    BY <2>2, <2>3 DEF Exact, InScale
  <2> QED
    BY <2>2, <2>3, <2>4, <1>2, <1>3 DEF Exact
<1>6. CASE ~ FIXEDMANUAL /\ c.level = d.level /\ c.deg < d.deg
  <2>1. g = Scale(c, c.sf)
    BY <1>6, <1>1
  <2>2. c.deg = 1 /\ Degree(c.deg + 1) = 2
    BY <1>1, <1>6, SmallDegree
  <2>3. /\ Shaped(g) /\ g.level = c.level /\ g.deg = 2
    BY <2>1, <2>2, <1>1, ScaleFacts
  <2>4. Right(g) /\ g.sf = ModMul(c.sf, c.sf) /\ g.final = FALSE
    BY <2>1, <1>1, ScaleRight DEF Right
  <2>5. ~ (EXT /\ c.level = 0) /\ c.sf = Single(f, c.level)
    BY <2>2, <1>1 DEF InScale
  <2>6. InScale(f, g)
    BY <2>3, <2>4, <2>5, Squared DEF InScale
  <2> QED
    BY <2>3, <2>4, <2>6, <1>2, <1>3 DEF Exact
<1>7. CASE /\ ~ FIXEDMANUAL
           /\ d.level < c.level \/ (c.level = d.level /\ ~(c.deg < d.deg))
  <2>1. g = c
    BY <1>7, <1>1
  <2> QED
    BY <2>1, <1>1, <1>2, <1>3
<1> QED
  BY <1>1, <1>4, <1>5, <1>6, <1>7

(* Two of the same level and degree have the same factor.                  *)
LEMMA OneFactor ==
  ASSUME NEW f, NEW c, NEW d, Exact(f, c), Exact(f, d), c.level = d.level,
         FIXEDMANUAL \/ c.deg = d.deg
  PROVE  c.sf = d.sf
  BY FixedFactors DEF Exact, InScale

(* What a reduction leaves of it.                                          *)
LEMMA ModReduceExact ==
  ASSUME NEW f, Table(f), NEW c, Good(c), Exact(f, c), ~ TooFewTowers(c),
         ~ FIXEDMANUAL => c.deg = 2
  PROVE  Exact(f, ModReduce(c))
<1> PICK e : e = ModReduce(c)
  OBVIOUS
<1>1. /\ Shaped(c) /\ c.level \in Nat /\ c.towers \in Nat \ {0}
      /\ c.level + c.towers = sizeQ /\ sizeQ \in Nat
      /\ Right(c) /\ c.final = FALSE
  BY SizeIsNat DEF Good, Sound, Exact
<1>2. PICK k : k = c.level
  OBVIOUS
<1>3. /\ c.towers \in 1..sizeQ /\ k \in 0..(sizeQ - 2)
      /\ c.towers - 1 = sizeQ - k - 1
  BY <1>1, <1>2 DEF TooFewTowers
<1>4. /\ Right(e) /\ e.final = FALSE
      /\ e.sf = ModMul(c.sf, ModInverse(ModReduceFactorInt(c.towers - 1)))
      /\ e.level = k + 1 /\ e.deg = Degree(c.deg - 1)
  BY <1>1, <1>2, <1>3, ModReduceFacts, ModReduceRight
<1>5. e.level # 0
  BY <1>3, <1>4
<1>6. CASE FIXEDMANUAL
  <2>1. e.sf = 1
    BY <1>4, <1>6, FixedFactors, OneIsUnit DEF Exact, InScale
  <2> QED
    BY <2>1, <1>4, <1>6, FixedFactors DEF Exact, InScale
<1>7. CASE ~ FIXEDMANUAL
  <2>1. e.deg = 1 /\ c.sf = Double(f, k)
    BY <1>2, <1>4, <1>7, SmallDegree DEF Exact, InScale
  <2>2. IsTable(f, sizeQ - 1)
    BY TheTable DEF Table
  <2>3. ModMul(Double(f, k), ModInverse(ModReduceFactorInt(sizeQ - k - 1)))
          = Single(f, k + 1)
    BY <2>2, <1>3, ReducedFactor
  <2>4. e.sf = Single(f, e.level)
    BY <2>1, <2>3, <1>3, <1>4
  <2> QED
    BY <2>1, <2>4, <1>4, <1>5 DEF Exact, InScale
<1> QED
  BY <1>6, <1>7

LEMMA LevelReduceExact ==
  ASSUME NEW f, NEW c, Good(c), Exact(f, c), FIXEDMANUAL, NEW k
  PROVE  Exact(f, LevelReduce(c, k))
<1> PICK e : e = LevelReduce(c, k)
  OBVIOUS
<1>1. Right(e) /\ e.sf = c.sf /\ e.final = FALSE
  BY LevelReduceRight DEF Good, Sound, Exact
<1>2. InScale(f, e)
  BY <1>1, FixedFactors DEF Exact, InScale
<1> QED
  BY <1>1, <1>2 DEF Exact

LEMMA FirstSecondExact ==
  ASSUME NEW f, Table(f), NEW c, NEW d, Good(c), Good(d),
         Exact(f, c), Exact(f, d), ~ MultThrows(c, d)
  PROVE  Exact(f, First(c, d)) /\ Exact(f, Second(c, d))
<1> PICK g, h : g = Adjusted(c, d) /\ h = Adjusted(d, c)
  OBVIOUS
<1>1. /\ Good(g) /\ Good(h) /\ g.towers = h.towers
      /\ ~ FIXEDMANUAL => g.deg = h.deg
  BY BothAdjusted
<1>2. Exact(f, g) /\ Exact(f, h)
  BY AdjustedExact
<1>3. First(c, d) = ToOne(g, g) /\ Second(c, d) = ToOne(h, g)
  BY DEF First, Second
<1>4. ~ (~ FIXEDMANUAL /\ g.deg = 2 /\ TooFewTowers(g))
  BY DEF MultThrows
<1>5. CASE ~ FIXEDMANUAL /\ g.deg = 2
  <2>1. ~ TooFewTowers(g) /\ ~ TooFewTowers(h)
    BY <1>1, <1>4, <1>5 DEF TooFewTowers
  <2>2. Exact(f, ModReduce(g)) /\ Exact(f, ModReduce(h))
    BY <2>1, <1>1, <1>2, <1>5, ModReduceExact
  <2> QED
    BY <2>2, <1>3, <1>5 DEF ToOne
<1>6. CASE ~(~ FIXEDMANUAL /\ g.deg = 2)
  BY <1>2, <1>3, <1>6 DEF ToOne
<1> QED
  BY <1>5, <1>6

(* The slots are added at one factor.                                      *)
LEMMA SumExact ==
  ASSUME NEW f, NEW e, NEW g, Good(e), Good(g), Exact(f, e), Exact(f, g),
         e.sf = g.sf
  PROVE  Exact(f, Plus(e, g)) /\ Exact(f, Minus(e, g))
<1>1. PICK v, w, s : v = e.val /\ w = g.val /\ s = e.sf
  OBVIOUS
<1>2. /\ v \in Residue /\ w \in Residue /\ s \in Unit
      /\ e.enc = ModMul(v, s) /\ g.enc = ModMul(w, s)
  BY <1>1 DEF Exact, Right
<1>3. v \in Int /\ w \in Int /\ s \in Int /\ v + w \in Int /\ v - w \in Int
  BY <1>2, UnitsAreInts
<1>4. /\ (v + w) % t \in Residue /\ (v - w) % t \in Residue
      /\ (ModMul(v, s) + ModMul(w, s)) % t = ModMul((v + w) % t, s)
      /\ (ModMul(v, s) - ModMul(w, s)) % t = ModMul((v - w) % t, s)
  BY <1>3, ModMulSum, ModIs
<1>5. LET p == Plus(e, g) IN
      /\ p.val = (v + w) % t /\ p.enc = (e.enc + g.enc) % t /\ p.sf = s
      /\ p.level = e.level /\ p.deg = e.deg /\ p.final = e.final
  BY <1>1 DEF Plus, Good, Sound, Shaped, Fields
<1>6. LET p == Minus(e, g) IN
      /\ p.val = (v - w) % t /\ p.enc = (e.enc - g.enc) % t /\ p.sf = s
      /\ p.level = e.level /\ p.deg = e.deg /\ p.final = e.final
  BY <1>1 DEF Minus, Good, Sound, Shaped, Fields
<1>7. Exact(f, Plus(e, g))
  BY <1>1, <1>2, <1>4, <1>5 DEF Exact, Right, InScale
<1>8. Exact(f, Minus(e, g))
  BY <1>1, <1>2, <1>4, <1>6 DEF Exact, Right, InScale
<1> QED
  BY <1>7, <1>8

LEMMA NegatedExact ==
  ASSUME NEW f, NEW c, Good(c), Exact(f, c)
  PROVE  Exact(f, Negated(c))
<1>1. PICK v, s : v = c.val /\ s = c.sf
  OBVIOUS
<1>2. v \in Residue /\ s \in Unit /\ c.enc = ModMul(v, s)
  BY <1>1 DEF Exact, Right
<1>3. v \in Int /\ s \in Int /\ - v \in Int
  BY <1>2, UnitsAreInts
<1>4. (- v) % t \in Residue /\ (- ModMul(v, s)) % t = ModMul((- v) % t, s)
  BY <1>3, ModMulSum, ModIs
<1>5. LET p == Negated(c) IN
      /\ p.val = (- v) % t /\ p.enc = (- c.enc) % t /\ p.sf = s
      /\ p.level = c.level /\ p.deg = c.deg /\ p.final = c.final
  BY <1>1 DEF Negated, Good, Sound, Shaped, Fields
<1> QED
  BY <1>1, <1>2, <1>4, <1>5 DEF Exact, Right, InScale

(* The factors of two of degree 1 multiply to that of degree 2.            *)
LEMMA TimesExact ==
  ASSUME NEW f, NEW e, NEW g, Good(e), Good(g), Exact(f, e), Exact(f, g),
         e.level = g.level, ~ FIXEDMANUAL => e.deg = 1 /\ g.deg = 1
  PROVE  Exact(f, Times(e, g)) /\ Exact(f, TimesPlain(e, g))
<1>1. PICK v, w, s : v = e.val /\ w = g.val /\ s = e.sf
  OBVIOUS
<1>2. g.sf = s
  BY <1>1, OneFactor
<1>3. /\ v \in Residue /\ w \in Residue /\ s \in Unit
      /\ e.enc = ModMul(v, s) /\ g.enc = ModMul(w, s)
  BY <1>1, <1>2 DEF Exact, Right
<1>4. /\ ModMul(v, w) \in Residue /\ ModMul(s, s) \in Unit
      /\ ModMul(ModMul(v, s), ModMul(w, s))
           = ModMul(ModMul(v, w), ModMul(s, s))
  BY <1>3, SlotProduct, UnitsAreInts, ModMulComm, UnitMul
<1>5. LET p == Times(e, g) IN
      /\ Shaped(p) /\ p.val = ModMul(v, w) /\ p.enc = ModMul(e.enc, g.enc)
      /\ p.sf = ModMul(s, s) /\ p.level = e.level
      /\ p.deg = Degree(e.deg + g.deg) /\ p.final = e.final
  BY <1>1, <1>2 DEF Times, Good, Sound, Shaped, Fields
<1>6. Right(Times(e, g))
  BY <1>3, <1>4, <1>5 DEF Right
<1>7. /\ Right(TimesPlain(e, g)) /\ TimesPlain(e, g).sf = ModMul(s, s)
      /\ TimesPlain(e, g).final = e.final
      /\ TimesPlain(e, g).level = e.level
      /\ TimesPlain(e, g).deg = Degree(e.deg + g.deg)
  BY <1>1, <1>5, <1>6, SetFactorFacts, SetFactorRight DEF TimesPlain
<1>8. ASSUME NEW p, p.sf = ModMul(s, s), p.level = e.level,
             p.deg = Degree(e.deg + g.deg)
      PROVE  InScale(f, p)
  <2>1. CASE FIXEDMANUAL
    BY <2>1, <1>1, <1>8, FixedFactors, OneIsUnit DEF Exact, InScale
  <2>2. CASE ~ FIXEDMANUAL
    <3>1. p.deg = 2
      BY <2>2, <1>8, SmallDegree
    <3>2. s = Single(f, e.level) /\ ~ (EXT /\ e.level = 0)
      BY <2>2, <1>1 DEF Exact, InScale
    <3> QED
      BY <3>1, <3>2, <1>8, Squared DEF InScale
  <2> QED
    BY <2>1, <2>2
<1> QED
  BY <1>5, <1>6, <1>7, <1>8 DEF Exact

(* A plaintext is exact.                                                   *)
LEMMA PlainExact ==
  ASSUME NEW f, Table(f), Covered, m_scalTechnique \in Techniques,
         NEW v \in Values, NEW level \in Levels, NEW d \in {1, 2}
  PROVE  Exact(f, MakePlaintext(v, level, d))
<1>1. /\ level \in 0..(sizeQ - 1) /\ v \in Residue
      /\ ~ (EXT /\ level = sizeQ - 1)
  BY LeveledBGVAssumption DEF Levels, Values, Covered, EXT
<1>2. IsTable(f, sizeQ - 1)
  BY TheTable DEF Table
<1>3. GetScalingFactorInt(level) = Single(f, level)
  BY <1>1, AccessorsReturn DEF Table
<1>4. EXT /\ level = 0 => GetScalingFactorIntBig(0) = Double(f, 0)
  <2>1. 0 \in 0..(sizeQ - 1) /\ 0 < sizeQ - 1
    BY SizeIsNat
  <2> QED
    BY <2>1, AccessorsReturn DEF Table
<1>5. Single(f, level) \in Unit /\ Double(f, level) \in Unit
  BY <1>1, <1>2, SingleIsUnit, DoubleIsUnit
<1>6. LET p == MakePlaintext(v, level, d) IN
      /\ p.val = v /\ p.enc = ModMul(v, p.sf) /\ p.level = level
      /\ p.deg = IF EXT /\ level = 0 THEN 2 ELSE d
      /\ p.sf = IF EXT /\ level = 0 THEN Double(f, 0)
                ELSE IF d = 2 THEN ModMul(Single(f, level), Single(f, level))
                ELSE Single(f, level)
      /\ p.final = FALSE
  BY <1>3, <1>4 DEF MakePlaintext
<1>7. ~ (EXT /\ level = 0) =>
         ModMul(Single(f, level), Single(f, level)) = Double(f, level)
  BY Squared
<1> PICK p : p = MakePlaintext(v, level, d)
  OBVIOUS
<1>8. p.sf = IF p.deg = 2 THEN Double(f, level) ELSE Single(f, level)
  BY <1>6, <1>7
<1> QED
  BY <1>1, <1>5, <1>6, <1>8 DEF Exact, Right, InScale

-----------------------------------------------------------------------------
(* What the operations make, of valid ciphertexts.                         *)

LEMMA SumValid ==
  ASSUME NEW f, Table(f), NEW c, NEW d, Valid(f, c), Valid(f, d)
  PROVE  /\ Valid(f, Adjusted(c, d)) /\ Valid(f, Adjusted(d, c))
         /\ Valid(f, Plus(Adjusted(c, d), Adjusted(d, c)))
         /\ Valid(f, Minus(Adjusted(c, d), Adjusted(d, c)))
<1>1. PICK e, g : e = Adjusted(c, d) /\ g = Adjusted(d, c)
  OBVIOUS
<1>2. /\ Good(e) /\ Good(g) /\ e.level = g.level
      /\ ~ FIXEDMANUAL => e.deg = g.deg
      /\ Good(Plus(e, g)) /\ Good(Minus(e, g))
  BY <1>1, BothAdjusted, SumGood DEF Valid
<1>3. ASSUME Covered
      PROVE  /\ Exact(f, e) /\ Exact(f, g)
             /\ Exact(f, Plus(e, g)) /\ Exact(f, Minus(e, g))
  <2>1. Exact(f, e) /\ Exact(f, g)
    BY <1>1, <1>3, AdjustedExact DEF Valid
  <2>2. e.sf = g.sf
    BY <1>2, <2>1, OneFactor
  <2> QED
    BY <1>2, <2>1, <2>2, SumExact
<1> QED
  BY <1>1, <1>2, <1>3 DEF Valid

LEMMA NegatedValid ==
  ASSUME NEW f, NEW c, Valid(f, c)
  PROVE  Valid(f, Negated(c))
  BY NegatedGood, NegatedExact DEF Valid

LEMMA TimesValid ==
  ASSUME NEW f, NEW e, NEW g, Valid(f, e), Valid(f, g), e.level = g.level,
         ~ FIXEDMANUAL => e.deg = 1 /\ g.deg = 1
  PROVE  Valid(f, Times(e, g)) /\ Valid(f, TimesPlain(e, g))
  BY TimesGood, TimesExact DEF Valid

LEMMA ProductValid ==
  ASSUME NEW f, Table(f), NEW c, NEW d, Valid(f, c), Valid(f, d),
         ~ MultThrows(c, d)
  PROVE  /\ Valid(f, First(c, d)) /\ Valid(f, Second(c, d))
         /\ Valid(f, Times(First(c, d), Second(c, d)))
         /\ Valid(f, TimesPlain(First(c, d), Second(c, d)))
<1>1. PICK e, g : e = First(c, d) /\ g = Second(c, d)
  OBVIOUS
<1>2. /\ Good(e) /\ Good(g) /\ e.level = g.level
      /\ ~ FIXEDMANUAL => e.deg = 1 /\ g.deg = 1
  BY <1>1, FirstSecond DEF Valid
<1>3. Covered => Exact(f, e) /\ Exact(f, g)
  BY <1>1, FirstSecondExact DEF Valid
<1>4. Valid(f, e) /\ Valid(f, g)
  BY <1>2, <1>3 DEF Valid
<1> QED
  BY <1>1, <1>2, <1>4, TimesValid

LEMMA ModReduceValid ==
  ASSUME NEW f, Table(f), NEW c, Valid(f, c), ~ TooFewTowers(c),
         ~ FIXEDMANUAL => c.deg = 2
  PROVE  Valid(f, ModReduce(c)) /\ (~ FIXEDMANUAL => ModReduce(c).deg = 1)
<1>1. Good(ModReduce(c)) /\ (~ FIXEDMANUAL => ModReduce(c).deg = 1)
  BY ModReduceGood DEF Valid
<1>2. Covered => Exact(f, ModReduce(c))
  BY ModReduceExact DEF Valid
<1> QED
  BY <1>1, <1>2 DEF Valid

LEMMA LevelReduceValid ==
  ASSUME NEW f, NEW c, Valid(f, c), FIXEDMANUAL, NEW k \in Nat, k < c.towers
  PROVE  Valid(f, LevelReduce(c, k))
  BY LevelReduceGood, LevelReduceExact DEF Valid

LEMMA PlainValid ==
  ASSUME NEW f, Table(f), m_scalTechnique \in Techniques,
         NEW v \in Values, NEW level \in Levels, NEW d \in {1, 2}
  PROVE  Valid(f, MakePlaintext(v, level, d))
  BY PlainGood, PlainExact DEF Valid

-----------------------------------------------------------------------------
(* Compress: a recursion on the number of reductions.                      *)

(* The values of i reductions, for every i up to k.                        *)
Reduces(g, c, k) ==
  g = [i \in 0..k |-> IF i = 0 THEN c ELSE ModReduce(g[i - 1])]

LEMMA ReducesExists ==
  ASSUME NEW c, NEW k \in Nat
  PROVE  \E g : Reduces(g, c, k)
<1> DEFINE T == {n \in Nat : ~ \E g : Reduces(g, c, n)}
<1> SUFFICES ASSUME T # {} PROVE FALSE
  OBVIOUS
<1>1. PICK n \in T : \A m \in T : n <= m
  <2>1. T \in SUBSET Nat /\ T # {}
    OBVIOUS
  <2> HIDE DEF T
  <2> QED
    BY <2>1, HasLeast
<1>2. n # 0
  <2>1. Reduces([i \in 0..0 |-> c], c, 0)
    BY DEF Reduces
  <2> QED
    BY <2>1, <1>1
<1>3. n - 1 \in Nat /\ n - 1 \notin T
  BY <1>1, <1>2
<1>4. PICK g : Reduces(g, c, n - 1)
  BY <1>3
<1> DEFINE h == [i \in 0..n |-> IF i <= n - 1 THEN g[i]
                                ELSE ModReduce(g[n - 1])]
<1>5. \A i \in 0..(n - 1) : g[i] = IF i = 0 THEN c ELSE ModReduce(g[i - 1])
  BY <1>4 DEF Reduces
<1>6. ASSUME NEW i \in 0..n
      PROVE  h[i] = IF i = 0 THEN c ELSE ModReduce(h[i - 1])
  BY <1>2, <1>3, <1>5
<1>7. h = [i \in 0..n |-> h[i]]
  OBVIOUS
<1> HIDE DEF h
<1>8. Reduces(h, c, n)
  BY <1>6, <1>7 DEF Reduces
<1> QED
  BY <1>1, <1>8

(* Each reduction costs a modulus and leaves the slot right.               *)
LEMMA ReducedFacts ==
  ASSUME NEW c, Shaped(c), c.level \in Nat, c.towers \in Nat, c.deg \in Nat,
         c.level + c.towers = sizeQ, NEW k \in Nat, k < c.towers
  PROVE  LET e == Reduced(c, k) IN
         /\ Shaped(e) /\ e.level = c.level + k /\ e.towers = c.towers - k
         /\ e.deg \in Nat /\ e.depth = c.depth
         /\ k = 0 => e.deg = c.deg
         /\ k = 1 => e.deg = Degree(c.deg - 1)
         /\ Right(c) => Right(e)
<1> DEFINE f == CHOOSE g : Reduces(g, c, k)
<1>1. Reduced(c, k) = f[k]
  BY DEF Reduced, Reduces
<1>2. Reduces(f, c, k)
  BY ReducesExists
<1> HIDE DEF f
<1>3. \A i \in 0..k : f[i] = IF i = 0 THEN c ELSE ModReduce(f[i - 1])
  BY <1>2 DEF Reduces
<1> DEFINE So(i) == /\ Shaped(f[i]) /\ f[i].level = c.level + i
                    /\ f[i].towers = c.towers - i /\ f[i].deg \in Nat
                    /\ f[i].depth = c.depth /\ (Right(c) => Right(f[i]))
           T == {n \in 0..k : ~ So(n)}
<1>4. T = {}
  <2> SUFFICES ASSUME T # {} PROVE FALSE
    OBVIOUS
  <2>1. PICK n \in T : \A m \in T : n <= m
    <3>1. T \in SUBSET Nat /\ T # {}
      OBVIOUS
    <3> HIDE DEF T
    <3> QED
      BY <3>1, HasLeast
  <2>2. n \in 0..k /\ ~ So(n)
    BY <2>1
  <2>3. n # 0
    <3>1. ASSUME n = 0 PROVE So(n)
      BY <3>1, <1>3
    <3> QED
      BY <3>1, <2>2
  <2>4. n - 1 \in 0..k /\ n - 1 \notin T
    BY <2>1, <2>3
  <2>5. So(n - 1)
    BY <2>4
  <2>6. PICK d : d = f[n - 1]
    OBVIOUS
  <2>7. f[n] = ModReduce(d)
    BY <2>2, <2>3, <2>6, <1>3
  <2>8. /\ Shaped(d) /\ d.level = c.level + (n - 1)
        /\ d.towers = c.towers - (n - 1) /\ d.deg \in Nat
        /\ d.depth = c.depth /\ (Right(c) => Right(d))
    BY <2>5, <2>6
  <2>9. d.towers \in 1..sizeQ /\ n \in Nat
    BY <2>2, <2>3, <2>8, SizeIsNat
  <2>10. LET e == ModReduce(d) IN
         /\ Shaped(e) /\ e.level = d.level + 1 /\ e.towers = d.towers - 1
         /\ e.deg = Degree(d.deg - 1) /\ e.depth = d.depth
    BY <2>8, ModReduceFacts
  <2>11. ModReduce(d).deg \in Nat
    BY <2>8, <2>10, DegreeIsNat
  <2>12. Right(c) => Right(ModReduce(d))
    BY <2>8, <2>9, ModReduceRight
  <2>13. So(n)
    BY <2>7, <2>8, <2>9, <2>10, <2>11, <2>12
  <2> QED
    BY <2>2, <2>13
<1>5. So(k)
  BY <1>4
<1>6. k = 0 => f[k] = c
  BY <1>3
<1>7. k = 1 => f[k] = ModReduce(c)
  BY <1>3
<1>8. ModReduce(c).deg = Degree(c.deg - 1)
  BY ModReduceFacts
<1> QED
  BY <1>1, <1>5, <1>6, <1>7, <1>8

(* What is made to be sent still decrypts.                                 *)
LEMMA CompressedLasting ==
  ASSUME NEW f, NEW c, Valid(f, c), NEW n \in 1..sizeQ, NEW d \in {1, 2},
         Excess(c, d) < c.towers
  PROVE  LET e == Reduced(c, Excess(c, d))
             g == IF n < e.towers THEN LevelReduce(e, e.towers - n) ELSE e
         IN Lasting(f, [g EXCEPT !.final = TRUE])
<1>1. PICK k : k = Excess(c, d)
  OBVIOUS
<1>2. PICK e : e = Reduced(c, k)
  OBVIOUS
<1>3. PICK g : g = IF n < e.towers THEN LevelReduce(e, e.towers - n) ELSE e
  OBVIOUS
<1>4. PICK h : h = [g EXCEPT !.final = TRUE]
  OBVIOUS
<1>5. /\ Shaped(c) /\ c.level \in Nat /\ c.towers \in Nat /\ c.deg \in Nat
      /\ c.depth \in Nat /\ c.level + c.towers = sizeQ /\ sizeQ \in Nat
      /\ (~ FIXEDMANUAL => c.deg \in {1, 2})
  BY SizeIsNat DEF Valid, Good, Sound, Paid
<1>6. k \in Nat /\ k < c.towers
  BY <1>1, <1>5 DEF Excess
<1>7. /\ Shaped(e) /\ e.level = c.level + k /\ e.towers = c.towers - k
      /\ e.deg \in Nat /\ e.depth = c.depth
      /\ k = 0 => e.deg = c.deg
      /\ k = 1 => e.deg = Degree(c.deg - 1)
      /\ Right(c) => Right(e)
  BY <1>2, <1>5, <1>6, ReducedFacts
<1>8. ~ FIXEDMANUAL => e.deg \in {1, 2}
  <2>1. ASSUME ~ FIXEDMANUAL PROVE k = 0 \/ (k = 1 /\ c.deg = 2)
    BY <2>1, <1>1, <1>5 DEF Excess
  <2>2. Degree(2 - 1) = 1
    BY SmallDegree
  <2> QED
    BY <2>1, <2>2, <1>5, <1>7
<1>9. /\ Shaped(g) /\ g.level + g.towers = sizeQ /\ g.level \in Nat
      /\ g.towers \in Nat \ {0} /\ g.deg = e.deg /\ g.depth = c.depth
      /\ Right(c) => Right(g)
  <2>1. CASE n < e.towers
    <3>1. g = LevelReduce(e, e.towers - n)
      BY <2>1, <1>3
    <3>2. /\ Shaped(g) /\ g.level = e.level + (e.towers - n)
          /\ g.towers = e.towers - (e.towers - n) /\ g.deg = e.deg
          /\ g.depth = e.depth /\ (Right(e) => Right(g))
      BY <3>1, <1>7, LevelReduceFacts, LevelReduceRight
    <3> QED
      BY <3>2, <2>1, <1>5, <1>6, <1>7
  <2>2. CASE ~ (n < e.towers)
    BY <2>2, <1>3, <1>5, <1>6, <1>7
  <2> QED
    BY <2>1, <2>2
<1>10. /\ Shaped(h) /\ h.level = g.level /\ h.towers = g.towers
       /\ h.deg = g.deg /\ h.depth = g.depth /\ h.final = TRUE
       /\ Right(g) => Right(h)
  BY <1>4, <1>9 DEF Shaped, Fields, Right
<1>11. Sound(h)
  BY <1>5, <1>7, <1>9, <1>10 DEF Sound
<1>12. Covered => Right(h)
  BY <1>9, <1>10 DEF Valid, Exact
<1>13. Lasting(f, h)
  BY <1>8, <1>9, <1>10, <1>11, <1>12 DEF Lasting, Sealed
<1> QED
  BY <1>1, <1>2, <1>3, <1>4, <1>13

-----------------------------------------------------------------------------
(* The invariant is kept.                                                  *)

(* What validity says depends on the technique alone.                      *)
LEMMA SameTechnique ==
  ASSUME UNCHANGED m_scalTechnique, NEW f, NEW c, Lasting(f, c)
  PROVE  Lasting(f, c)'
<1>1. Good(c) <=> Good(c)'
  BY DEF Good, Sound, Paid, FIXEDMANUAL, FreshDegree, EXT
<1>2. Sealed(c) <=> Sealed(c)'
  BY DEF Sealed, FIXEDMANUAL
<1>3. \A i : ModReduceFactorInt(i) = ModReduceFactorInt(i)'
  BY DEF ModReduceFactorInt, Fixed
<1>4. \A k : Single(f, k) = Single(f, k)'
  BY <1>3 DEF Single, NextFactor, Fixed, EXT
<1>5. \A k : Double(f, k) = Double(f, k)'
  BY <1>4 DEF Double, Fixed, EXT
<1>6. Exact(f, c) <=> Exact(f, c)'
  BY <1>4, <1>5 DEF Exact, InScale, EXT
<1> QED
  BY <1>1, <1>2, <1>6 DEF Lasting, Valid

(* An operation assigns some variables lasting ciphertexts.                *)
LEMMA Kept ==
  ASSUME NEW f, ValidInv(f), UNCHANGED m_scalTechnique, DOMAIN reg' = Reg,
         reg' = [s \in Reg |-> reg'[s]],
         \A s \in Reg : reg'[s] = reg[s] \/ Lasting(f, reg'[s])
  PROVE  ValidInv(f)'
<1>1. ASSUME NEW s \in Reg, reg'[s] # NONE
      PROVE  Lasting(f, reg[s])'
  <2>1. PICK c : c = reg'[s]
    OBVIOUS
  <2>2. Lasting(f, c)
    BY <1>1, <2>1 DEF ValidInv
  <2>3. Lasting(f, c)'
    BY <2>2, SameTechnique
  <2> QED
    BY <2>1, <2>3
<1> QED
  BY <1>1 DEF ValidInv

LEMMA UsableValid ==
  ASSUME NEW f, ValidInv(f), NEW r \in Usable
  PROVE  r \in Reg /\ Valid(f, reg[r])
  BY DEF ValidInv, Usable, Held, Lasting

(* One variable assigned, for Compress too.                                *)
LEMMA LastingKept ==
  ASSUME NEW f, ValidInv(f), UNCHANGED m_scalTechnique,
         NEW r \in Reg, NEW e,
         Lasting(f, e), reg' = [reg EXCEPT ![r] = e]
  PROVE  ValidInv(f)'
<1>1. \A s \in Reg : reg'[s] = reg[s] \/ Lasting(f, reg'[s])
  BY DEF ValidInv, Lasting
<1>2. DOMAIN reg' = Reg /\ reg' = [s \in Reg |-> reg'[s]]
  BY DEF ValidInv
<1> QED
  BY <1>1, <1>2, Kept

(* One variable, or two or three, assigned.                                *)
LEMMA OneKept ==
  ASSUME NEW f, ValidInv(f), UNCHANGED m_scalTechnique,
         NEW r \in Reg, NEW e, Valid(f, e), reg' = [reg EXCEPT ![r] = e]
  PROVE  ValidInv(f)'
  BY LastingKept DEF Lasting

LEMMA ThreeKept ==
  ASSUME NEW f, ValidInv(f), UNCHANGED m_scalTechnique,
         NEW x \in Reg, NEW y \in Reg, NEW r \in Reg,
         NEW c, NEW d, NEW e, Valid(f, c), Valid(f, d), Valid(f, e),
         reg' = [reg EXCEPT ![x] = c, ![y] = d, ![r] = e]
  PROVE  ValidInv(f)'
<1>1. \A s \in Reg : reg'[s] = reg[s] \/ Lasting(f, reg'[s])
  BY DEF ValidInv, Lasting
<1>2. DOMAIN reg' = Reg /\ reg' = [s \in Reg |-> reg'[s]]
  BY DEF ValidInv
<1> QED
  BY <1>1, <1>2, Kept

LEMMA TwoKept ==
  ASSUME NEW f, ValidInv(f), UNCHANGED m_scalTechnique,
         NEW x \in Reg, NEW r \in Reg, NEW c, NEW e, Valid(f, c), Valid(f, e),
         reg' = [reg EXCEPT ![x] = c, ![r] = e]
  PROVE  ValidInv(f)'
<1>1. \A s \in Reg : reg'[s] = reg[s] \/ Lasting(f, reg'[s])
  BY DEF ValidInv, Lasting
<1>2. DOMAIN reg' = Reg /\ reg' = [s \in Reg |-> reg'[s]]
  BY DEF ValidInv
<1> QED
  BY <1>1, <1>2, Kept

(* The operations on two ciphertexts.                                      *)
LEMMA SumStep ==
  ASSUME NEW f, Table(f), ValidInv(f), UNCHANGED m_scalTechnique,
         NEW r \in Reg,
         NEW x \in Usable, NEW y \in Usable,
         \/ EvalAdd(r, x, y) \/ EvalAddMutable(r, x, y)
         \/ EvalSub(r, x, y) \/ EvalSubMutable(r, x, y)
  PROVE  ValidInv(f)'
<1>1. x \in Reg /\ y \in Reg /\ Valid(f, reg[x]) /\ Valid(f, reg[y])
  BY UsableValid
<1>2. PICK c, d : c = reg[x] /\ d = reg[y]
  OBVIOUS
<1>3. Valid(f, c) /\ Valid(f, d)
  BY <1>1, <1>2
<1>4. PICK p, m, e, g : /\ p = Plus(Adjusted(c, d), Adjusted(d, c))
                        /\ m = Minus(Adjusted(c, d), Adjusted(d, c))
                        /\ e = Adjusted(c, d) /\ g = Adjusted(d, c)
  OBVIOUS
<1>5. Valid(f, p) /\ Valid(f, m) /\ Valid(f, e) /\ Valid(f, g)
  BY <1>3, <1>4, SumValid
<1>6. CASE EvalAdd(r, x, y)
  <2>1. reg' = [reg EXCEPT ![r] = p]
    BY <1>2, <1>4, <1>6 DEF EvalAdd, Adjust
  <2> QED
    BY <2>1, <1>5, OneKept
<1>7. CASE EvalSub(r, x, y)
  <2>1. reg' = [reg EXCEPT ![r] = m]
    BY <1>2, <1>4, <1>7 DEF EvalSub, Adjust
  <2> QED
    BY <2>1, <1>5, OneKept
<1>8. CASE EvalAddMutable(r, x, y)
  <2>1. reg' = [reg EXCEPT ![x] = e, ![y] = g, ![r] = p]
    BY <1>2, <1>4, <1>8 DEF EvalAddMutable, Adjust
  <2> QED
    BY <2>1, <1>1, <1>5, ThreeKept
<1>9. CASE EvalSubMutable(r, x, y)
  <2>1. reg' = [reg EXCEPT ![x] = e, ![y] = g, ![r] = m]
    BY <1>2, <1>4, <1>9 DEF EvalSubMutable, Adjust
  <2> QED
    BY <2>1, <1>1, <1>5, ThreeKept
<1> QED
  BY <1>6, <1>7, <1>8, <1>9

LEMMA ProductStep ==
  ASSUME NEW f, Table(f), ValidInv(f), UNCHANGED m_scalTechnique,
         NEW r \in Reg,
         NEW x \in Usable, NEW y \in Usable,
         \/ EvalMult(r, x, y) \/ EvalMultMutable(r, x, y)
         \/ ComposedEvalMult(r, x, y)
  PROVE  ValidInv(f)'
<1>1. x \in Reg /\ y \in Reg /\ Valid(f, reg[x]) /\ Valid(f, reg[y])
  BY UsableValid
<1>2. PICK c, d : c = reg[x] /\ d = reg[y]
  OBVIOUS
<1>3. Valid(f, c) /\ Valid(f, d)
  BY <1>1, <1>2
<1>4. PICK p, e, q, g, h : /\ p = Times(First(c, d), Second(c, d))
                           /\ e = First(c, d) /\ q = Second(c, d)
                           /\ g = Adjusted(c, d) /\ h = Adjusted(d, c)
  OBVIOUS
<1>5. ~ MultThrows(c, d) => Valid(f, p) /\ Valid(f, e) /\ Valid(f, q)
  BY <1>3, <1>4, ProductValid
<1>6. Valid(f, g) /\ Valid(f, h)
  BY <1>3, <1>4, SumValid
<1>7. CASE EvalMult(r, x, y)
  <2>1. ~ MultThrows(c, d) /\ reg' = [reg EXCEPT ![r] = p]
    BY <1>2, <1>4, <1>7 DEF EvalMult
  <2> QED
    BY <2>1, <1>5, OneKept
<1>8. CASE EvalMultMutable(r, x, y)
  <2>1. CASE ~ MultThrows(c, d)
    <3>1. reg' = [reg EXCEPT ![x] = e, ![y] = q, ![r] = p]
      BY <1>2, <1>4, <1>8, <2>1 DEF EvalMultMutable
    <3> QED
      BY <3>1, <2>1, <1>1, <1>5, ThreeKept
  <2>2. CASE MultThrows(c, d)
    <3>1. reg' = [reg EXCEPT ![x] = g, ![y] = h]
      BY <1>2, <1>4, <1>8, <2>2 DEF EvalMultMutable, Adjust
    <3> QED
      BY <3>1, <1>1, <1>6, TwoKept
  <2> QED
    BY <2>1, <2>2
<1>9. CASE ComposedEvalMult(r, x, y)
  <2>1. /\ ~ MultThrows(c, d) /\ (FIXEDMANUAL => ~ TooFewTowers(p))
        /\ reg' = [reg EXCEPT ![r] = IF FIXEDMANUAL THEN ModReduce(p) ELSE p]
    BY <1>2, <1>4, <1>9 DEF ComposedEvalMult
  <2>2. PICK z : z = IF FIXEDMANUAL THEN ModReduce(p) ELSE p
    OBVIOUS
  <2>3. Valid(f, z)
    BY <2>1, <2>2, <1>5, ModReduceValid
  <2>4. reg' = [reg EXCEPT ![r] = z]
    BY <2>1, <2>2
  <2> QED
    BY <2>3, <2>4, OneKept
<1> QED
  BY <1>7, <1>8, <1>9

(* The operations on one ciphertext.                                       *)
LEMMA SquareStep ==
  ASSUME NEW f, Table(f), ValidInv(f), UNCHANGED m_scalTechnique,
         NEW r \in Reg,
         NEW x \in Usable, EvalSquare(r, x) \/ EvalSquareMutable(r, x)
  PROVE  ValidInv(f)'
<1>1. x \in Reg /\ Valid(f, reg[x])
  BY UsableValid
<1>2. PICK c, e : /\ c = reg[x]
                  /\ e = IF FIXEDMANUAL \/ c.deg = 1 THEN c ELSE ModReduce(c)
  OBVIOUS
<1>3. ~ FIXEDMANUAL => c.deg \in {1, 2}
  BY <1>1, <1>2 DEF Valid, Good, Paid
<1>4. ~ SquareThrows(c) => Valid(f, e) /\ (~ FIXEDMANUAL => e.deg = 1)
  BY <1>1, <1>2, <1>3, ModReduceValid DEF SquareThrows
<1>5. PICK p : p = Times(e, e)
  OBVIOUS
<1>6. ~ SquareThrows(c) => Valid(f, p)
  BY <1>4, <1>5, TimesValid
<1>7. CASE EvalSquare(r, x)
  <2>1. ~ SquareThrows(c) /\ reg' = [reg EXCEPT ![r] = p]
    BY <1>2, <1>5, <1>7 DEF EvalSquare
  <2> QED
    BY <2>1, <1>6, OneKept
<1>8. CASE EvalSquareMutable(r, x)
  <2>1. ~ SquareThrows(c)
    BY <1>2, <1>3, <1>8 DEF EvalSquareMutable, SquareThrows
  <2>2. e = ToOne(c, c)
    BY <1>2, <1>3 DEF ToOne
  <2>3. reg' = [reg EXCEPT ![x] = e, ![r] = p]
    BY <2>2, <1>2, <1>5, <1>8 DEF EvalSquareMutable
  <2> QED
    BY <2>1, <2>3, <1>1, <1>4, <1>6, TwoKept
<1> QED
  BY <1>7, <1>8

LEMMA UnaryStep ==
  ASSUME NEW f, Table(f), ValidInv(f), UNCHANGED m_scalTechnique,
         NEW r \in Reg,
         NEW x \in Usable,
         \/ EvalNegate(r, x) \/ EvalModReduce(r, x)
         \/ \E n \in 1..sizeQ : EvalLevelReduce(r, x, n)
  PROVE  ValidInv(f)'
<1>1. Valid(f, reg[x])
  BY UsableValid
<1>2. PICK c : c = reg[x]
  OBVIOUS
<1>3. Valid(f, c)
  BY <1>1, <1>2
<1>4. CASE EvalNegate(r, x)
  <2>1. Valid(f, Negated(c)) /\ reg' = [reg EXCEPT ![r] = Negated(c)]
    BY <1>2, <1>3, <1>4, NegatedValid DEF EvalNegate
  <2> QED
    BY <2>1, OneKept
<1>5. CASE EvalModReduce(r, x)
  <2>1. PICK e : e = IF FIXEDMANUAL THEN ModReduce(c) ELSE c
    OBVIOUS
  <2>2. (FIXEDMANUAL => ~ TooFewTowers(c)) /\ reg' = [reg EXCEPT ![r] = e]
    BY <2>1, <1>2, <1>5 DEF EvalModReduce
  <2>3. Valid(f, e)
    BY <2>1, <2>2, <1>3, ModReduceValid
  <2> QED
    BY <2>2, <2>3, OneKept
<1>6. ASSUME NEW n \in 1..sizeQ, EvalLevelReduce(r, x, n)
      PROVE  ValidInv(f)'
  <2>1. PICK e : e = IF FIXEDMANUAL THEN LevelReduce(c, n) ELSE c
    OBVIOUS
  <2>2. (FIXEDMANUAL => n < c.towers) /\ reg' = [reg EXCEPT ![r] = e]
    BY <2>1, <1>2, <1>6 DEF EvalLevelReduce
  <2>3. n \in Nat
    OBVIOUS
  <2>4. Valid(f, e)
    BY <2>1, <2>2, <2>3, <1>3, LevelReduceValid
  <2> QED
    BY <2>2, <2>4, OneKept
<1> QED
  BY <1>4, <1>5, <1>6

(* The compressed ciphertext is final.                                     *)
LEMMA CompressStep ==
  ASSUME NEW f, Table(f), ValidInv(f), UNCHANGED m_scalTechnique,
         NEW r \in Reg, NEW x \in Usable, NEW n \in 1..sizeQ,
         NEW d \in {1, 2}, Compress(r, x, n, d)
  PROVE  ValidInv(f)'
<1>1. Valid(f, reg[x])
  BY UsableValid
<1>2. PICK c : c = reg[x]
  OBVIOUS
<1>3. PICK e : e = Reduced(c, Excess(c, d))
  OBVIOUS
<1>4. PICK g : g = IF n < e.towers THEN LevelReduce(e, e.towers - n) ELSE e
  OBVIOUS
<1>5. PICK h : h = [g EXCEPT !.final = TRUE]
  OBVIOUS
<1>6. Excess(c, d) < c.towers /\ reg' = [reg EXCEPT ![r] = h]
  BY <1>2, <1>3, <1>4, <1>5 DEF Compress
<1>7. Lasting(f, h)
  BY <1>1, <1>2, <1>3, <1>4, <1>5, <1>6, CompressedLasting
<1> QED
  BY <1>6, <1>7, LastingKept

(* The operations with a plaintext.                                        *)
LEMMA PlainStep ==
  ASSUME NEW f, Table(f), ValidInv(f), UNCHANGED m_scalTechnique,
         NEW r \in Reg,
         NEW x \in Usable, NEW p \in Plaintexts,
         \/ EvalAddPlain(r, x, p) \/ EvalAddPlainMutable(r, x, p)
         \/ EvalSubPlain(r, x, p) \/ EvalSubPlainMutable(r, x, p)
         \/ EvalPlainSub(r, x, p) \/ EvalPlainSubMutable(r, x, p)
         \/ EvalMultPlain(r, x, p) \/ EvalMultPlainMutable(r, x, p)
  PROVE  ValidInv(f)'
<1>1. x \in Reg /\ Valid(f, reg[x]) /\ Valid(f, p)
  BY UsableValid, PlainValid DEF ValidInv, Plaintexts
<1>2. PICK c, d : c = reg[x] /\ d = p
  OBVIOUS
<1>3. Valid(f, c) /\ Valid(f, d)
  BY <1>1, <1>2
<1>4. PICK n : n = Negated(c)
  OBVIOUS
<1>5. Valid(f, n)
  BY <1>3, <1>4, NegatedValid
<1>6. PICK e, s, m : /\ e = Adjusted(c, d)
                     /\ s = Plus(Adjusted(c, d), Adjusted(d, c))
                     /\ m = Minus(Adjusted(c, d), Adjusted(d, c))
  OBVIOUS
<1>7. Valid(f, e) /\ Valid(f, s) /\ Valid(f, m)
  BY <1>3, <1>6, SumValid
<1>8. PICK en, sn, nn : /\ en = Adjusted(n, d) /\ nn = Negated(en)
                        /\ sn = Plus(Adjusted(n, d), Adjusted(d, n))
  OBVIOUS
<1>9. Valid(f, nn) /\ Valid(f, sn)
  BY <1>3, <1>5, <1>8, SumValid, NegatedValid
<1>10. PICK a, ap, aq : /\ a = First(c, d)
                        /\ ap = Times(First(c, d), Second(c, d))
                        /\ aq = TimesPlain(First(c, d), Second(c, d))
  OBVIOUS
<1>11. ~ MultThrows(c, d) => Valid(f, a) /\ Valid(f, ap) /\ Valid(f, aq)
  BY <1>3, <1>10, ProductValid
<1>12. CASE EvalAddPlain(r, x, p)
  <2>1. reg' = [reg EXCEPT ![r] = s]
    BY <1>2, <1>6, <1>12 DEF EvalAddPlain
  <2> QED
    BY <2>1, <1>7, OneKept
<1>13. CASE EvalSubPlain(r, x, p)
  <2>1. reg' = [reg EXCEPT ![r] = m]
    BY <1>2, <1>6, <1>13 DEF EvalSubPlain
  <2> QED
    BY <2>1, <1>7, OneKept
<1>14. CASE EvalPlainSub(r, x, p)
  <2>1. reg' = [reg EXCEPT ![r] = sn]
    BY <1>2, <1>4, <1>8, <1>14 DEF EvalPlainSub
  <2> QED
    BY <2>1, <1>9, OneKept
<1>15. CASE EvalMultPlain(r, x, p)
  <2>1. ~ MultThrows(c, d) /\ reg' = [reg EXCEPT ![r] = aq]
    BY <1>2, <1>10, <1>15 DEF EvalMultPlain
  <2> QED
    BY <2>1, <1>11, OneKept
<1>16. CASE EvalAddPlainMutable(r, x, p)
  <2>1. reg' = [reg EXCEPT ![x] = e, ![r] = s]
    BY <1>2, <1>6, <1>16 DEF EvalAddPlainMutable
  <2> QED
    BY <2>1, <1>1, <1>7, TwoKept
<1>17. CASE EvalSubPlainMutable(r, x, p)
  <2>1. reg' = [reg EXCEPT ![x] = e, ![r] = m]
    BY <1>2, <1>6, <1>17 DEF EvalSubPlainMutable
  <2> QED
    BY <2>1, <1>1, <1>7, TwoKept
<1>18. CASE EvalPlainSubMutable(r, x, p)
  <2>1. reg' = [reg EXCEPT ![x] = nn, ![r] = sn]
    BY <1>2, <1>4, <1>8, <1>18 DEF EvalPlainSubMutable
  <2> QED
    BY <2>1, <1>1, <1>9, TwoKept
<1>19. CASE EvalMultPlainMutable(r, x, p)
  <2>1. CASE ~ MultThrows(c, d)
    <3>1. reg' = [reg EXCEPT ![x] = a, ![r] = ap]
      BY <1>2, <1>10, <1>19, <2>1 DEF EvalMultPlainMutable
    <3> QED
      BY <3>1, <2>1, <1>1, <1>11, TwoKept
  <2>2. CASE MultThrows(c, d)
    <3>1. reg' = [reg EXCEPT ![x] = e]
      BY <1>2, <1>6, <1>19, <2>2 DEF EvalMultPlainMutable
    <3> QED
      BY <3>1, <1>1, <1>7, OneKept
  <2> QED
    BY <2>1, <2>2
<1> QED
  BY <1>12, <1>13, <1>14, <1>15, <1>16, <1>17, <1>18, <1>19

-----------------------------------------------------------------------------
(* The steps together, while no call is given a variable twice.            *)

(* At first no variable has a ciphertext.                                  *)
LEMMA InitInv == Init => Inv
  BY DEF Init, Inv, ValidInv

LEMMA ValidNext ==
  ASSUME ~ Aliased, NEW f, Table(f), ValidInv(f), [Next]_vars
  PROVE  ValidInv(f)'
<1>1. CASE UNCHANGED vars
  <2>1. \A s \in Reg : reg'[s] = reg[s]
    BY <1>1 DEF vars
  <2>2. DOMAIN reg' = Reg /\ reg' = [s \in Reg |-> reg'[s]]
    BY <1>1 DEF vars, ValidInv
  <2> QED
    BY <2>1, <2>2, <1>1, Kept DEF vars
<1>2. CASE Next
  <2> USE <1>2 DEF Next
  <2>1. ASSUME NEW r \in Reg, NEW v \in Values, NEW l \in Levels,
               NEW d \in {1, 2}, Encrypt(r, v, l, d)
        PROVE  ValidInv(f)'
    <3>1. PICK p : p = MakePlaintext(v, l, d)
      OBVIOUS
    <3>2. Valid(f, p)
      BY <3>1, PlainValid DEF ValidInv
    <3>3. reg' = [reg EXCEPT ![r] = p]
      BY <2>1, <3>1 DEF Encrypt
    <3> QED
      BY <1>2, <3>2, <3>3, OneKept
  <2>2. ASSUME NEW r \in Reg, NEW x \in Usable, NEW y \in Usable,
               \/ EvalAdd(r, x, y) \/ EvalAddMutable(r, x, y)
               \/ EvalSub(r, x, y) \/ EvalSubMutable(r, x, y)
               \/ EvalMult(r, x, y) \/ EvalMultMutable(r, x, y)
               \/ ComposedEvalMult(r, x, y)
        PROVE  ValidInv(f)'
    BY <2>2, SumStep, ProductStep
  <2>3. ASSUME NEW r \in Reg, NEW x \in Usable,
               EvalMultMutableAliased(r, x)
        PROVE  ValidInv(f)'
    BY <2>3 DEF EvalMultMutableAliased
  <2>4. ASSUME NEW r \in Reg, NEW x \in Usable,
               \/ EvalSquare(r, x) \/ EvalSquareMutable(r, x)
               \/ EvalNegate(r, x) \/ EvalModReduce(r, x)
               \/ \E n \in 1..sizeQ : EvalLevelReduce(r, x, n)
        PROVE  ValidInv(f)'
    BY <2>4, SquareStep, UnaryStep
  <2>5. ASSUME NEW r \in Reg, NEW x \in Usable, NEW p \in Plaintexts,
               \/ EvalAddPlain(r, x, p) \/ EvalAddPlainMutable(r, x, p)
               \/ EvalSubPlain(r, x, p) \/ EvalSubPlainMutable(r, x, p)
               \/ EvalPlainSub(r, x, p) \/ EvalPlainSubMutable(r, x, p)
               \/ EvalMultPlain(r, x, p) \/ EvalMultPlainMutable(r, x, p)
        PROVE  ValidInv(f)'
    BY <2>5, PlainStep
  <2>6. ASSUME NEW r \in Reg, NEW x \in Usable, NEW n \in 1..sizeQ,
               NEW d \in {1, 2}, Compress(r, x, n, d)
        PROVE  ValidInv(f)'
    BY <2>6, CompressStep
  <2> QED
    BY <2>1, <2>2, <2>3, <2>4, <2>5, <2>6 DEF Operation
<1> QED
  BY <1>1, <1>2

LEMMA NextInv ==
  ASSUME ~ Aliased, Inv, [Next]_vars
  PROVE  Inv'
<1>1. UNCHANGED m_scalTechnique
  BY DEF Next, vars
<1>2. ASSUME NEW f, IsTable(f, sizeQ - 1)'
      PROVE  ValidInv(f)'
  <2>1. \A i : ModReduceFactorInt(i) = ModReduceFactorInt(i)'
    BY <1>1 DEF ModReduceFactorInt, Fixed
  <2>2. \A k : Entry(f, k) = Entry(f, k)'
    BY <1>1, <2>1 DEF Entry, NextFactor, EXT, isFlexibleAutoExt
  <2>3. IsTable(f, sizeQ - 1)
    BY <1>2, <2>2 DEF IsTable
  <2>4. Table(f)
    BY <2>3, TheTable, TableUnique, SizeIsNat DEF Table
  <2> QED
    BY <2>3, <2>4, ValidNext DEF Inv
<1> QED
  BY <1>2 DEF Inv

(* The inductive invariant.                                                *)
LEMMA Invariance ==
  ASSUME ~ Aliased
  PROVE  Spec => []Inv
<1>1. Init => Inv
  BY InitInv
<1>2. Inv /\ [Next]_vars => Inv'
  BY NextInv
<1> QED
  BY <1>1, <1>2, PTL DEF Spec

LEMMA ThereIsATable ==
  ASSUME Inv
  PROVE  \E f : Table(f) /\ ValidInv(f)
<1>1. PICK f : f = m_scalingFactorsInt
  OBVIOUS
<1>2. IsTable(f, sizeQ - 1)
  BY <1>1, TheTable
<1> QED
  BY <1>1, <1>2 DEF Inv, Table

-----------------------------------------------------------------------------
(* Decryption.                                                             *)

IsToFirst(g, n) ==
  g = [i \in 0..n |->
         IF i <= 1 THEN 1
         ELSE ModMul(g[i - 1], ModInverse(ModReduceFactorInt(i - 1)))]

(* The factor that decryption reduces by is a unit.                        *)
LEMMA ToFirstExists ==
  ASSUME NEW n \in Nat
  PROVE  \E g : IsToFirst(g, n)
<1> DEFINE T == {m \in Nat : ~ \E g : IsToFirst(g, m)}
<1> SUFFICES ASSUME T # {} PROVE FALSE
  OBVIOUS
<1>1. PICK m \in T : \A i \in T : m <= i
  <2>1. T \in SUBSET Nat /\ T # {}
    OBVIOUS
  <2> HIDE DEF T
  <2> QED
    BY <2>1, HasLeast
<1>2. m # 0
  <2>1. IsToFirst([i \in 0..0 |-> 1], 0)
    BY DEF IsToFirst
  <2> QED
    BY <2>1, <1>1
<1>3. m - 1 \in Nat /\ m - 1 \notin T
  BY <1>1, <1>2
<1>4. PICK g : IsToFirst(g, m - 1)
  BY <1>3
<1> DEFINE Step(h, i) ==
             IF i <= 1 THEN 1
             ELSE ModMul(h[i - 1], ModInverse(ModReduceFactorInt(i - 1)))
           h == [i \in 0..m |-> IF i <= m - 1 THEN g[i] ELSE Step(g, m)]
<1>5. \A i \in 0..(m - 1) : g[i] = Step(g, i)
  BY <1>4 DEF IsToFirst
<1>6. ASSUME NEW i \in 0..m
      PROVE  h[i] = Step(h, i)
  <2>1. i # 0 => h[i - 1] = g[i - 1]
    BY <1>2, <1>3
  <2>2. Step(h, i) = Step(g, i)
    <3> HIDE DEF h
    <3> QED
      BY <2>1
  <2>3. i <= m - 1 \/ i = m
    OBVIOUS
  <2> HIDE DEF Step
  <2> QED
    BY <2>2, <2>3, <1>3, <1>5
<1>7. h = [i \in 0..m |-> h[i]]
  OBVIOUS
<1> HIDE DEF h
<1>8. IsToFirst(h, m)
  BY <1>6, <1>7 DEF IsToFirst
<1> QED
  BY <1>1, <1>8

LEMMA ToFirstIsUnit ==
  ASSUME NEW n \in 0..sizeQ
  PROVE  ToFirst[n] \in Unit
<1>1. ToFirst = CHOOSE g : IsToFirst(g, sizeQ)
  BY DEF ToFirst, IsToFirst
<1>2. IsToFirst(ToFirst, sizeQ)
  BY <1>1, ToFirstExists, SizeIsNat
<1>3. \A i \in 0..sizeQ : ToFirst[i] =
        IF i <= 1 THEN 1
        ELSE ModMul(ToFirst[i - 1], ModInverse(ModReduceFactorInt(i - 1)))
  <2> PICK g : g = ToFirst
    OBVIOUS
  <2>1. IsToFirst(g, sizeQ)
    BY <1>2
  <2> QED
    BY <2>1 DEF IsToFirst
<1> DEFINE T == {i \in 0..sizeQ : ToFirst[i] \notin Unit}
<1>4. T = {}
  <2> SUFFICES ASSUME T # {} PROVE FALSE
    OBVIOUS
  <2>1. PICK i \in T : \A j \in T : i <= j
    <3>1. T \in SUBSET Nat /\ T # {}
      BY SizeIsNat
    <3> HIDE DEF T
    <3> QED
      BY <3>1, HasLeast
  <2>2. i \in 0..sizeQ /\ ToFirst[i] \notin Unit
    BY <2>1
  <2>3. ~ (i <= 1)
    BY <2>2, <1>3, OneIsUnit
  <2>4. i - 1 \in 0..(sizeQ - 1) /\ i - 1 \in 0..sizeQ
    BY <2>2, <2>3, SizeIsNat
  <2>5. ToFirst[i - 1] \in Unit
    BY <2>1, <2>2, <2>4, SizeIsNat
  <2>6. ModInverse(ModReduceFactorInt(i - 1)) \in Unit
    BY <2>4, ModuliAreUnits, InverseIs
  <2>7. ToFirst[i]
          = ModMul(ToFirst[i - 1], ModInverse(ModReduceFactorInt(i - 1)))
    BY <2>2, <2>3, <1>3
  <2> QED
    BY <2>2, <2>5, <2>6, <2>7, UnitMul
<1> QED
  BY <1>4

(* A right slot decrypts to its value.                                     *)
LEMMA RightDecrypts ==
  ASSUME NEW c, Right(c), c.towers \in 0..sizeQ
  PROVE  Decrypt(c) = c.val
<1>1. PICK v, s, u : v = c.val /\ s = c.sf /\ u = ToFirst[c.towers]
  OBVIOUS
<1>2. v \in Residue /\ s \in Unit /\ u \in Unit /\ c.enc = ModMul(v, s)
  BY <1>1, ToFirstIsUnit DEF Right
<1>3. PICK w, i : w = ModMul(s, u) /\ i = ModInverse(w)
  OBVIOUS
<1>4. w \in Unit /\ i \in Unit /\ ModMul(w, i) = 1
  BY <1>2, <1>3, UnitMul, InverseIs
<1>5. v \in Int /\ s \in Int /\ u \in Int /\ w \in Int /\ i \in Int
  BY <1>2, <1>4, UnitsAreInts
<1>6. ModMul(ModMul(v, s), u) = ModMul(v, w)
  BY <1>3, <1>5, ModMulAssoc
<1>7. ModMul(ModMul(v, w), i) = ModMul(v, ModMul(w, i))
  BY <1>5, ModMulAssoc
<1>8. ModMul(v, 1) = v
  BY <1>2, ModMulOne
<1> QED
  BY <1>1, <1>2, <1>3, <1>4, <1>6, <1>7, <1>8 DEF Decrypt

-----------------------------------------------------------------------------
(* The theorems.                                                           *)

(* A ciphertext in a variable, compressed or not.                          *)
LEMMA HeldFacts ==
  ASSUME NEW f, ValidInv(f), Covered, NEW r \in Held
  PROVE  /\ r \in Reg /\ Sound(reg[r]) /\ Right(reg[r])
         /\ reg[r].final \in BOOLEAN
         /\ FIXEDMANUAL \/ reg[r].deg \in {1, 2}
<1>1. r \in Reg /\ Lasting(f, reg[r])
  BY DEF ValidInv, Held
<1>2. CASE Valid(f, reg[r])
  BY <1>1, <1>2 DEF Valid, Good, Paid, Exact
<1>3. CASE reg[r].final /\ (Covered => Sealed(reg[r]))
  BY <1>1, <1>3 DEF Sealed
<1> QED
  BY <1>1, <1>2, <1>3 DEF Lasting

(* The types, for any prime plaintext modulus, any number of moduli and    *)
(* all techniques: a ciphertext never runs out of moduli, its factor can   *)
(* always be divided by, and no automatic technique leaves a degree above  *)
(* 2.                                                                      *)
THEOREM TypeCorrect ==
  ASSUME ~ Aliased, Covered
  PROVE  Spec => []TypeOK
<1>1. ASSUME Inv PROVE TypeOK
  <2>1. PICK f : Table(f) /\ ValidInv(f)
    BY <1>1, ThereIsATable
  <2>2. ASSUME NEW r \in Held PROVE reg[r] \in Ciphertext
    <3>1. PICK c : c = reg[r]
      OBVIOUS
    <3>2. Sound(c) /\ Right(c) /\ c.final \in BOOLEAN
      BY <2>1, <3>1, HeldFacts
    <3>3. /\ c.level \in 0..sizeQ /\ c.towers \in 0..sizeQ /\ c.deg \in Nat
          /\ c.depth \in Nat
      BY <3>2, SizeIsNat DEF Sound
    <3>4. c.sf \in Residue /\ c.enc \in Residue /\ c.val \in Residue
      BY <3>2, UnitsAreInts, ModMulComm DEF Right
    <3>5. c \in Ciphertext
      BY <3>2, <3>3, <3>4 DEF Ciphertext, Sound, Shaped, Fields
    <3> QED
      BY <3>1, <3>5
  <2>3. reg \in [Reg -> Ciphertext \cup {NONE}]
    BY <2>1, <2>2 DEF ValidInv, Held
  <2>4. ASSUME NEW r \in Held
        PROVE  /\ FIXEDMANUAL \/ reg[r].deg \in {1, 2}
               /\ reg[r].sf \in Unit
               /\ reg[r].level + reg[r].towers = sizeQ
               /\ reg[r].towers >= 1
    BY <2>1, HeldFacts DEF Sound, Right
  <2> QED
    BY <2>1, <2>3, <2>4 DEF TypeOK, ValidInv
<1> QED
  BY <1>1, Invariance, PTL

(* Correctness of leveled evaluation, for any prime plaintext modulus, any *)
(* number of moduli, any values and all techniques: whatever a program     *)
(* computes, each of its ciphertexts decrypts to what its formula gives.   *)
(* Excluded are what the two findings are about: one variable given twice  *)
(* to a Mutable product, and a plaintext at the last level of              *)
(* FLEXIBLEAUTOEXT.                                                        *)
THEOREM DecodesHolds ==
  ASSUME ~ Aliased, Covered
  PROVE  Spec => []Decodes
<1>1. ASSUME Inv PROVE Decodes
  <2>1. PICK f : Table(f) /\ ValidInv(f)
    BY <1>1, ThereIsATable
  <2>2. ASSUME NEW r \in Held
        PROVE  reg[r].sf # 0 /\ Decrypt(reg[r]) = reg[r].val
    <3>1. PICK c : c = reg[r]
      OBVIOUS
    <3>2. Sound(c) /\ Right(c)
      BY <2>1, <3>1, HeldFacts
    <3>3. c.towers \in 0..sizeQ
      BY <3>2, SizeIsNat DEF Sound
    <3>4. Decrypt(c) = c.val
      BY <3>2, <3>3, RightDecrypts
    <3>5. c.sf # 0
      BY <3>2 DEF Right, Unit
    <3> QED
      BY <3>1, <3>4, <3>5
  <2> QED
    BY <2>2 DEF Decodes
<1> QED
  BY <1>1, Invariance, PTL

(* What AdjustLevelsAndDepthInPlace relies on: two ciphertexts of one      *)
(* level and one degree carry one scaling factor, that of the tables,      *)
(* whatever their histories.                                               *)
THEOREM SameScaleHolds ==
  ASSUME ~ Aliased, Covered
  PROVE  Spec => []SameScale
<1>1. ASSUME Inv PROVE SameScale
  <2>1. PICK f : Table(f) /\ ValidInv(f)
    BY <1>1, ThereIsATable
  <2>2. ASSUME NEW r \in Usable, NEW s \in Usable,
               reg[r].level = reg[s].level, reg[r].deg = reg[s].deg
        PROVE  reg[r].sf = reg[s].sf
    <3>1. PICK c, d : c = reg[r] /\ d = reg[s]
      OBVIOUS
    <3>2. Exact(f, c) /\ Exact(f, d)
      BY <2>1, <3>1, UsableValid DEF Valid
    <3> QED
      BY <2>2, <3>1, <3>2, OneFactor
  <2> QED
    BY <2>2 DEF SameScale
<1> QED
  BY <1>1, Invariance, PTL

(* The check of the core operations that both operands have the same       *)
(* moduli left never throws: the adjustment brings any two ciphertexts to  *)
(* the same level and the same number of moduli.                           *)
THEOREM TowersAgreeHolds ==
  ASSUME ~ Aliased
  PROVE  Spec => []TowersAgree
<1>1. ASSUME Inv PROVE TowersAgree
  <2>1. PICK f : Table(f) /\ ValidInv(f)
    BY <1>1, ThereIsATable
  <2>2. ASSUME NEW r \in Usable, NEW s \in Usable
        PROVE  /\ Adjust(r, s).towers = Adjust(s, r).towers
               /\ Adjust(r, s).level = Adjust(s, r).level
    <3>1. PICK c, d : c = reg[r] /\ d = reg[s]
      OBVIOUS
    <3>2. Good(c) /\ Good(d)
      BY <2>1, <3>1, UsableValid DEF Valid
    <3> QED
      BY <3>1, <3>2, BothAdjusted DEF Adjust
  <2> QED
    BY <2>2 DEF TowersAgree
<1> QED
  BY <1>1, Invariance, PTL

(* Two adjusted operands agree in everything a sum needs: level, moduli,   *)
(* factor and, unless the program reduces by hand, degree.                 *)
THEOREM AdjustedAgreeHolds ==
  ASSUME ~ Aliased, Covered
  PROVE  Spec => []AdjustedAgree
<1>1. ASSUME Inv PROVE AdjustedAgree
  <2>1. PICK f : Table(f) /\ ValidInv(f)
    BY <1>1, ThereIsATable
  <2>2. ASSUME NEW r \in Usable, NEW s \in Usable
        PROVE  /\ Adjust(r, s).towers = Adjust(s, r).towers
               /\ Adjust(r, s).level = Adjust(s, r).level
               /\ FIXEDMANUAL \/ Adjust(r, s).deg = Adjust(s, r).deg
               /\ Adjust(r, s).sf = Adjust(s, r).sf
    <3>1. PICK c, d : c = reg[r] /\ d = reg[s]
      OBVIOUS
    <3>2. Valid(f, c) /\ Valid(f, d)
      BY <2>1, <3>1, UsableValid
    <3>3. PICK e, g : e = Adjusted(c, d) /\ g = Adjusted(d, c)
      OBVIOUS
    <3>4. /\ e.level = g.level /\ e.towers = g.towers
          /\ FIXEDMANUAL \/ e.deg = g.deg
      BY <3>2, <3>3, BothAdjusted DEF Valid
    <3>5. Exact(f, e) /\ Exact(f, g)
      BY <2>1, <3>2, <3>3, SumValid DEF Valid
    <3>6. e.sf = g.sf
      BY <3>4, <3>5, OneFactor
    <3> QED
      BY <3>1, <3>3, <3>4, <3>6 DEF Adjust
  <2> QED
    BY <2>2 DEF AdjustedAgree, TowersAgree
<1> QED
  BY <1>1, Invariance, PTL

(* The depth of an operand that leaves too few moduli.                     *)
LEMMA ThrownDepth ==
  ASSUME NEW e, Good(e), ~ FIXEDMANUAL, e.deg = 2, TooFewTowers(e)
  PROVE  e.depth > multiplicativeDepth
<1>1. /\ e.level \in Nat /\ e.towers \in Nat \ {0} /\ e.depth \in Nat
      /\ e.level + e.towers = sizeQ /\ sizeQ \in Nat
      /\ e.level + 2 <= e.depth + FreshDegree
  BY SizeIsNat DEF Good, Sound, Paid
<1>2. e.towers = 1
  BY <1>1 DEF TooFewTowers
<1>3. FreshDegree = 1 + isFlexibleAutoExt /\ isFlexibleAutoExt \in Nat
  BY DEF FreshDegree, isFlexibleAutoExt
<1> QED
  BY <1>1, <1>2, <1>3 DEF multiplicativeDepth

(* However many moduli there are and whatever the program computes, in all *)
(* four techniques: a product or a square fails for want of moduli only if *)
(* an operand is deeper than the depth the moduli were generated for. The  *)
(* adjustments of sums and of operands at different levels cost none.      *)
THEOREM DepthSufficesHolds ==
  ASSUME ~ Aliased
  PROVE  Spec => []DepthSuffices
<1>1. ASSUME Inv, NEW r \in Usable, NEW s \in Usable,
             MultThrows(reg[r], reg[s])
      PROVE  Larger(reg[r].depth, reg[s].depth) > multiplicativeDepth
  <2>1. Good(reg[r]) /\ Good(reg[s])
    BY <1>1, ThereIsATable, UsableValid DEF Valid
  <2>2. PICK c, d : c = reg[r] /\ d = reg[s]
    OBVIOUS
  <2>3. PICK e : e = Adjusted(c, d)
    OBVIOUS
  <2>4. Good(e) /\ e.depth <= Larger(c.depth, d.depth)
    BY <2>1, <2>2, <2>3, BothAdjusted
  <2>5. e.depth > multiplicativeDepth
    BY <1>1, <2>2, <2>3, <2>4, ThrownDepth DEF MultThrows
  <2>6. /\ e.depth \in Nat /\ c.depth \in Nat /\ d.depth \in Nat
        /\ multiplicativeDepth \in Int
    BY <2>1, <2>2, <2>4, SizeIsNat
    DEF Good, Sound, multiplicativeDepth, isFlexibleAutoExt
  <2> QED
    BY <2>2, <2>4, <2>5, <2>6 DEF Larger
<1>2. ASSUME Inv, NEW r \in Usable, SquareThrows(reg[r])
      PROVE  reg[r].depth > multiplicativeDepth
  <2>1. PICK c : c = reg[r]
    OBVIOUS
  <2>2. Good(c)
    BY <1>2, <2>1, ThereIsATable, UsableValid DEF Valid
  <2>3. ~ FIXEDMANUAL /\ c.deg = 2 /\ TooFewTowers(c)
    BY <1>2, <2>1, <2>2 DEF SquareThrows, Good, Paid
  <2> QED
    BY <2>1, <2>2, <2>3, ThrownDepth
<1>3. Inv => DepthSuffices
  BY <1>1, <1>2 DEF DepthSuffices
<1> QED
  BY <1>3, Invariance, PTL
=============================================================================
