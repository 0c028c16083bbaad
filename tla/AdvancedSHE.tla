---------------------------- MODULE AdvancedSHE ----------------------------
(***************************************************************************)
(* Packed ciphertexts of the SGX port of OpenFHE under rotation, summation *)
(* and multiplication: which automorphism each operation applies, what     *)
(* that does to the slots, which evaluation keys it needs, and which keys  *)
(* the key generation calls make (base-advancedshe.cpp,                    *)
(* base-leveledshe.cpp, nbtheory2.cpp, packedencoding.cpp).                *)
(*                                                                         *)
(* One secret key; levels and scaling factors are those of LeveledBGV and  *)
(* are left out. A ciphertext is its slots, which an automorphism permutes *)
(* by the arithmetic of exponents modulo m, beside want, what the          *)
(* documentation says they should hold.                                    *)
(***************************************************************************)
EXTENDS Integers, Sequences, FiniteSets, FiniteSetsExt, Functions

CONSTANTS n,         \* the ring dimension, the number of slots
          W,         \* unsigned products wrap at W (2^32 in the code)
          t,         \* the plaintext modulus
          batchSize, \* of the encoding parameters
          maxRelinSkDeg,
          Reg,       \* the program's ciphertext variables
          Fresh,     \* the vectors it encrypts
          IndexList, \* the indices it passes to EvalRotateKeyGen at once
          Rotation,  \* the indices it rotates by
          SumSize,   \* the sizes it passes to EvalSum
          MaxMany,   \* bound: ciphertexts merged, added or multiplied at once
          MaxCalls   \* bound: operations, but for encryptions

m == 2 * n
Slot == 0..(n - 1)
Residue == 0..(t - 1)

(* Powers of two.                                                          *)
TwoTo[k \in Nat] == IF k = 0 THEN 1 ELSE 2 * TwoTo[k - 1]

ASSUME AdvancedSHEAssumption ==
  /\ n \in Nat /\ \E k \in 2..n : n = TwoTo[k]
  /\ W \in Nat \ {0} /\ W % m = 0
  /\ \E k \in 0..n : batchSize = TwoTo[k] /\ batchSize <= n
  /\ t \in Nat /\ t > 1 /\ maxRelinSkDeg \in Nat /\ maxRelinSkDeg > 1
  /\ Fresh \subseteq [Slot -> Residue]
  /\ IndexList \subseteq SUBSET Int
  /\ Rotation \subseteq (1 - n)..(n - 1)
  /\ SumSize \subseteq 1..n
  /\ MaxMany \in 1..n /\ MaxCalls \in Nat

VARIABLES autoKeys, \* the automorphism indices that have a key
          multKeys, \* the number of relinearization keys filed
          sumKeys,  \* has EvalSumKeyGen been called?
          reg,      \* the ciphertext in each variable
          calls

vars == <<autoKeys, multKeys, sumKeys, reg, calls>>

NONE == [elems |-> 0]

-----------------------------------------------------------------------------
(* Arithmetic on automorphism indices, in 32-bit unsigned integers.        *)
Mul(a, b) == ((a * b) % W) % m

Power(g, k) == LET f[j \in 0..k] == IF j = 0 THEN 1 ELSE Mul(f[j - 1], g)
               IN f[k]

ModInverse(a) == CHOOSE b \in 1..(m - 1) : (a * b) % m = 1

(* Variant: the second row is reached one step late.                       *)
FindAutomorphismIndex2n_OffByOne(i) ==
  LET f1   == IF i < 0 THEN ModInverse(5) ELSE 5
      f2   == IF i < 0 THEN ModInverse(m - 1) ELSE m - 1
      size == IF i < 0 THEN -i ELSE i
  IN IF i = 0 THEN 1
     ELSE IF size <= n \div 2 THEN Power(f1, size)
     ELSE Mul(f2, Power(f1, size - n \div 2))

(* FindAutomorphismIndex2n: powers of 5 within a row of n / 2 slots, and   *)
(* -1 to change rows; for a negative index the inverses.                   *)
FindAutomorphismIndex2n(i) ==
  LET f1   == IF i < 0 THEN ModInverse(5) ELSE 5
      f2   == IF i < 0 THEN ModInverse(m - 1) ELSE m - 1
      size == IF i < 0 THEN -i ELSE i
  IN IF i = 0 THEN 1
     ELSE IF size < n \div 2 THEN Power(f1, size)
     ELSE Mul(f2, Power(f1, size - n \div 2))

(* SetParams_2n: slot i is the value at the root of this exponent.         *)
Exponent == [i \in Slot |-> IF i < n \div 2 THEN Power(5, i)
                            ELSE Mul(Power(5, i - n \div 2), m - 1)]
SlotOf(e) == CHOOSE i \in Slot : Exponent[i] = e

(* PrecomputeAutoMap and AutomorphismTransform: X becomes X^k, and the     *)
(* value at an exponent the one that was at k times the exponent.          *)
Permuted(s, k) == [i \in Slot |-> s[SlotOf(Mul(Exponent[i], k))]]

CeilLog2(b) ==
  CHOOSE k \in 0..n : TwoTo[k] >= b /\ (k = 0 \/ TwoTo[k - 1] < b)

(* The i-th square 5^(2^i) of the loops below.                             *)
Square(i) == Power(5, TwoTo[i])

(* Variant: a generator is missing.                                        *)
GenerateIndices_2n_OneFewer(b) ==
  IF b > 1 THEN {Square(i) : i \in 0..(CeilLog2(b) - 3)} \cup
                {IF 2 * b < m THEN Square(CeilLog2(b) - 1) ELSE m - 1}
  ELSE {}

(* GenerateIndices_2n: what EvalSumKeyGen makes keys for.                  *)
GenerateIndices_2n(b) ==
  IF b > 1 THEN {Square(i) : i \in 0..(CeilLog2(b) - 2)} \cup
                {IF 2 * b < m THEN Square(CeilLog2(b) - 1) ELSE m - 1}
  ELSE {}

(* EvalSum_2n: the automorphisms it applies one after the other, adding    *)
(* each image to what it has.                                              *)
SumSteps(b) ==
  [i \in 1..CeilLog2(b) |->
     IF i < CeilLog2(b) THEN Square(i - 1)
     ELSE IF 2 * b < m THEN Square(i - 1) ELSE m - 1]

Added(s, u) == [i \in Slot |-> (s[i] + u[i]) % t]

EvalSum_2n(s, b) ==
  LET f[k \in 0..Len(SumSteps(b))] ==
        IF k = 0 THEN s
        ELSE Added(f[k - 1], Permuted(f[k - 1], SumSteps(b)[k]))
  IN f[Len(SumSteps(b))]

-----------------------------------------------------------------------------
(* What the documentation says. The slots are two rows; a positive index   *)
(* rotates left, and one of n / 2 or more also exchanges the rows.         *)
InRow(i, d) == IF i < n \div 2 THEN (i + d) % (n \div 2)
               ELSE n \div 2 + ((i + d) % (n \div 2))

OtherRow(i) == (i + n \div 2) % n

Rotated(s, i) ==
  LET half == n \div 2 IN
  CASE -half < i /\ i < half -> [j \in Slot |-> s[InRow(j, i)]]
    [] i >= half  -> [j \in Slot |-> s[InRow(OtherRow(j), i - half)]]
    [] i <= -half -> [j \in Slot |-> s[InRow(OtherRow(j), i + half)]]

(* The d-th slot from slot j on: through its row, then through the other.  *)
Onward(j, d) == IF d < n \div 2 THEN InRow(j, d)
                ELSE InRow(OtherRow(j), d - n \div 2)

(* A sum over b slots, from each slot on.                                  *)
Sum(s, b) ==
  [j \in Slot |->
     FoldFunction(+, 0, [d \in 0..(b - 1) |-> s[Onward(j, d)]]) % t]

IsPowerOfTwo(b) == \E k \in 0..n : b = TwoTo[k]

-----------------------------------------------------------------------------
(* elems is the number of polynomials, 2 unless a product is not           *)
(* relinearized. exact is FALSE where the library does not do what the     *)
(* documentation says and gives no sign of it: from a sum over a number of *)
(* slots that is no power of two on, which it computes over another        *)
(* number, and once polynomials of a product were cut off.                 *)
Ciphertext == [elems : Nat \ {0, 1}, slots : [Slot -> Residue],
               want : [Slot -> Residue], exact : BOOLEAN]

Held == {r \in Reg : reg[r] # NONE}

Init == /\ autoKeys = {} /\ multKeys = 0 /\ sumKeys = FALSE
        /\ reg = [r \in Reg |-> NONE]
        /\ calls = 0

Larger(a, b) == IF a > b THEN a ELSE b

Plus(c, d) ==
  [elems |-> Larger(c.elems, d.elems), slots |-> Added(c.slots, d.slots),
   want |-> Added(c.want, d.want), exact |-> c.exact /\ d.exact]

Multiplied(s, u) == [i \in Slot |-> (s[i] * u[i]) % t]

(* EvalMultCore                                                            *)
Times(c, d) ==
  [elems |-> c.elems + d.elems - 1,
   slots |-> Multiplied(c.slots, d.slots),
   want |-> Multiplied(c.want, d.want), exact |-> c.exact /\ d.exact]

(* EvalMult with one key: the third polynomial is switched, and what is    *)
(* beyond it cut off.                                                      *)
SwitchThird(c) == [c EXCEPT !.elems = 2, !.exact = c.exact /\ c.elems <= 3]

(* The mask of EvalMerge.                                                  *)
FirstSlot(s) == [i \in Slot |-> IF i = 0 THEN s[i] ELSE 0]

Rotate(c, i) ==
  [c EXCEPT !.slots = Permuted(c.slots, FindAutomorphismIndex2n(i)),
            !.want = Rotated(c.want, i)]

(* The key map of the key tag is looked up first, and must be there.       *)
CanRotate(c, i) == c.elems = 2 /\ FindAutomorphismIndex2n(i) \in autoKeys

CanSum(c, b) ==
  /\ autoKeys # {}
  /\ b > 1 => c.elems = 2 /\ Range(SumSteps(b)) \subseteq autoKeys

Summed(c, b) ==
  [c EXCEPT !.slots = EvalSum_2n(c.slots, b),
            !.want = Sum(c.want, b),
            !.exact = c.exact /\ IsPowerOfTwo(b)]

(* The loops of EvalAddMany and EvalMultMany: each result is of the next   *)
(* two of the inputs followed by the results so far.                       *)
Tree(s, op(_, _)) ==
  LET size == Len(s)
      f[k \in 1..(2 * size - 1)] ==
        IF k <= size THEN s[k]
        ELSE op(f[2 * (k - size) - 1], f[2 * (k - size)])
  IN f[2 * size - 1]

(* The loops of EvalAddManyInPlace, at distances 1, 2, 4 and so on.        *)
InPlace(s, op(_, _)) ==
  LET f[r \in 0..Len(s)] ==
        IF r = 0 THEN s
        ELSE LET d == TwoTo[r - 1] IN
             [k \in 1..Len(s) |->
                IF (k - 1) % (2 * d) = 0 /\ k + d <= Len(s)
                THEN op(f[r - 1][k], f[r - 1][k + d]) ELSE f[r - 1][k]]
  IN f[Len(s)][1]

-----------------------------------------------------------------------------
(* Key generation. A key that is already filed is kept.                    *)
FileKeys(indices) ==
  /\ autoKeys' = autoKeys \cup indices
  /\ UNCHANGED <<multKeys, reg, calls>>

EvalRotateKeyGen(list) ==
  /\ FileKeys({FindAutomorphismIndex2n(i) : i \in list})
  /\ UNCHANGED sumKeys

EvalSumKeyGen ==
  /\ FileKeys(GenerateIndices_2n(batchSize))
  /\ sumKeys' = TRUE

FileMultKeys(k) ==
  /\ multKeys = 0 /\ multKeys' = k
  /\ UNCHANGED <<autoKeys, sumKeys, reg, calls>>

EvalMultKeyGen == FileMultKeys(1)

(* Variant: one key for each power of the secret key, the first included.  *)
EvalMultKeysGen_OneTooMany == FileMultKeys(maxRelinSkDeg)

EvalMultKeysGen == FileMultKeys(maxRelinSkDeg - 1)

ClearEvalAutomorphismKeys ==
  /\ autoKeys' = {} /\ sumKeys' = FALSE
  /\ UNCHANGED <<multKeys, reg, calls>>

ClearEvalMultKeys ==
  /\ multKeys' = 0
  /\ UNCHANGED <<autoKeys, sumKeys, reg, calls>>

-----------------------------------------------------------------------------
(* Operations on ciphertexts, which leave their operands alone.            *)
Assign(r, c) == /\ calls < MaxCalls /\ calls' = calls + 1
                /\ reg' = [reg EXCEPT ![r] = c]
                /\ UNCHANGED <<autoKeys, multKeys, sumKeys>>

(* Bound: once into each variable. It is not counted among the calls.      *)
Encrypt(r, v) ==
  /\ reg[r] = NONE
  /\ reg' = [reg EXCEPT ![r] = [elems |-> 2, slots |-> v, want |-> v,
                                exact |-> TRUE]]
  /\ UNCHANGED <<autoKeys, multKeys, sumKeys, calls>>

EvalRotate(r, x, i) ==
  /\ CanRotate(reg[x], i)
  /\ Assign(r, Rotate(reg[x], i))

(* By 0 it returns a copy, and looks for no key.                           *)
EvalAtIndex(r, x, i) ==
  /\ i = 0 \/ CanRotate(reg[x], i)
  /\ Assign(r, IF i = 0 THEN reg[x] ELSE Rotate(reg[x], i))

(* With digits precomputed. It does not look how many polynomials there    *)
(* are, and uses two.                                                      *)
EvalFastRotation(r, x, i) ==
  /\ i = 0 \/ FindAutomorphismIndex2n(i) \in autoKeys
  /\ Assign(r, IF i = 0 THEN reg[x]
               ELSE [Rotate(reg[x], i) EXCEPT
                       !.elems = 2, !.exact = @ /\ reg[x].elems = 2])

EvalSum(r, x, b) ==
  /\ CanSum(reg[x], b)
  /\ Assign(r, Summed(reg[x], b))

EvalAdd(r, x, y) == Assign(r, Plus(reg[x], reg[y]))

EvalMult(r, x, y) ==
  /\ multKeys > 0
  /\ Assign(r, SwitchThird(Times(reg[x], reg[y])))

EvalMultNoRelin(r, x, y) == Assign(r, Times(reg[x], reg[y]))

Relinearize(r, x) ==
  /\ multKeys > 0 /\ multKeys >= reg[x].elems - 2
  /\ Assign(r, [reg[x] EXCEPT !.elems = 2])

CanRelinearize(c, d) == multKeys > 0 /\ multKeys >= c.elems + d.elems - 3

Relinearized(c, d) == [Times(c, d) EXCEPT !.elems = 2]

EvalMultAndRelinearize(r, x, y) ==
  /\ CanRelinearize(reg[x], reg[y])
  /\ Assign(r, Relinearized(reg[x], reg[y]))

EvalInnerProduct(r, x, y, b) ==
  LET product == SwitchThird(Times(reg[x], reg[y])) IN
  /\ multKeys > 0 /\ CanSum(product, b)
  /\ Assign(r, Summed(product, b))

Operands(xs) == [k \in DOMAIN xs |-> reg[xs[k]]]

(* Slot 0 of each, rotated to the slot of its place in the vector.         *)
Merged(c) ==
  LET masked(k) == [c[k] EXCEPT !.slots = FirstSlot(c[k].slots),
                                !.want = FirstSlot(c[k].want)]
      place(k) == Permuted(masked(k).slots, FindAutomorphismIndex2n(1 - k))
      slots[k \in 1..Len(c)] ==
        IF k = 1 THEN masked(1).slots ELSE Added(slots[k - 1], place(k))
  IN [elems |-> c[1].elems,
      slots |-> slots[Len(c)],
      want |-> [i \in Slot |-> IF i < Len(c) THEN c[i + 1].want[0] ELSE 0],
      exact |-> \A k \in 1..Len(c) : c[k].exact]

EvalMerge(r, xs) ==
  LET c == Operands(xs) IN
  /\ autoKeys # {}
  /\ \A k \in 2..Len(xs) : CanRotate(c[k], 1 - k)
  /\ Assign(r, Merged(c))

(* What the sum or the product of many ciphertexts should hold.            *)
AllOf(op(_, _), e, c) ==
  [i \in Slot |-> FoldFunction(op, e, [k \in 1..Len(c) |-> c[k].want[i]]) % t]

EvalAddMany(r, xs) ==
  LET c == Operands(xs) IN
  Assign(r, [Tree(c, Plus) EXCEPT !.want = AllOf(+, 0, c)])

EvalAddManyInPlace(r, xs) ==
  LET c == Operands(xs) IN
  Assign(r, [InPlace(c, Plus) EXCEPT !.want = AllOf(+, 0, c)])

(* The program passes ciphertexts that its keys can relinearize, as the    *)
(* note at EvalMultMany demands. A single one is returned as it is.        *)
EvalMultMany(r, xs) ==
  LET c == Operands(xs) IN
  /\ Len(xs) > 1
  /\ multKeys > 0 /\ \A k \in 1..Len(xs) : 2 * c[k].elems - 3 <= multKeys
  /\ Assign(r, [Tree(c, Relinearized) EXCEPT !.want = AllOf( * , 1, c)])

-----------------------------------------------------------------------------
Keys == \/ \E list \in IndexList : EvalRotateKeyGen(list)
        \/ EvalSumKeyGen \/ EvalMultKeyGen \/ EvalMultKeysGen
        \/ ClearEvalAutomorphismKeys \/ ClearEvalMultKeys

Vectors == UNION {[1..k -> Held] : k \in 1..MaxMany}

Operation(r) ==
  \/ \E v \in Fresh : Encrypt(r, v)
  \/ \E x \in Held :
       \/ Relinearize(r, x)
       \/ \E i \in Rotation :
            EvalRotate(r, x, i) \/ EvalAtIndex(r, x, i)
              \/ EvalFastRotation(r, x, i)
       \/ \E b \in SumSize : EvalSum(r, x, b)
       \/ \E y \in Held :
            \/ EvalAdd(r, x, y) \/ EvalMult(r, x, y)
            \/ EvalMultNoRelin(r, x, y) \/ EvalMultAndRelinearize(r, x, y)
            \/ \E b \in SumSize : EvalInnerProduct(r, x, y, b)
  \/ \E xs \in Vectors : \/ EvalMerge(r, xs) \/ EvalAddMany(r, xs)
                         \/ EvalAddManyInPlace(r, xs) \/ EvalMultMany(r, xs)

Next == Keys \/ \E r \in Reg : Operation(r)

Spec == Init /\ [][Next]_vars

-----------------------------------------------------------------------------
TypeOK == /\ autoKeys \subseteq {2 * i + 1 : i \in Slot}
          /\ multKeys \in 0..(maxRelinSkDeg - 1)
          /\ sumKeys \in BOOLEAN
          /\ \A r \in Held : reg[r] \in Ciphertext
          /\ calls \in 0..MaxCalls

(* Whatever is rotated, summed over powers of two, merged, added and       *)
(* multiplied in whatever order, the slots hold what the documentation     *)
(* says. Ciphertexts that are not exact are not compared: for them it does *)
(* not hold, as AlwaysDecodes shows of sums.                               *)
Decodes == \A r \in Held : reg[r].exact => reg[r].slots = reg[r].want

(* The documentation of EvalSum makes no exception: the slots hold sums    *)
(* over batchSize of them (cryptocontext.h:3036-3043,                      *)
(* base-advancedshe.h:396-398).                                            *)
AlwaysDecodes == \A r \in Held : reg[r].slots = reg[r].want

(* EvalSum between n / 2 and n: the last of its automorphisms is the       *)
(* identity.                                                               *)
Between(b) == n \div 2 < b /\ b < n

(* After EvalSumKeyGen a sum over up to batchSize slots lacks no key,      *)
(* whatever other keys were asked for before and after, except between     *)
(* half and all the slots: there it may lack the key of the identity, and  *)
(* then EvalSum throws, but it never lacks any other.                      *)
SumsServed ==
  sumKeys => \A b \in 2..batchSize :
               LET lacking == Range(SumSteps(b)) \ autoKeys
               IN  lacking \subseteq IF Between(b) THEN {1} ELSE {}
=============================================================================
