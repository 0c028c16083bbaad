----------------------------- MODULE LeveledBGV -----------------------------
(***************************************************************************)
(* Leveled homomorphic evaluation in the BGV scheme of the SGX port of     *)
(* OpenFHE, in its four scaling techniques. In FIXEDAUTO, FLEXIBLEAUTO and *)
(* FLEXIBLEAUTOEXT (the default) the library brings two operands to a      *)
(* common level and degree before every operation, by multiplying one by a *)
(* constant, reducing its modulus and dropping moduli, so that both carry  *)
(* the same scaling factor modulo t and may be added slot by slot. In      *)
(* FIXEDMANUAL it only drops moduli, and the program reduces.              *)
(*                                                                         *)
(* A program holds ciphertexts in variables (Reg) and applies operations   *)
(* in any order. A Mutable operation adjusts its operands in place; the    *)
(* others work on clones. Noise, the polynomials and the keys are left     *)
(* out: the ciphertext is one slot of the plaintext, times its factor.     *)
(***************************************************************************)
EXTENDS ScalingFactors

CONSTANTS Reg,        \* the program's ciphertext variables
          Techniques, \* the scaling techniques it may choose from
          Value,      \* the values it encodes, under each technique
          PlainLevel, \* the levels it encodes them at
          MaxDepth,   \* bound: multiplications in sequence
          MaxDegree,  \* bound: degree of an operand (2 unless Aliased)
          Aliased     \* may one Mutable operation be given a variable twice?

ASSUME LeveledBGVAssumption ==
  /\ Techniques \subseteq Technique
  /\ \A s \in Techniques : /\ Value[s] \subseteq Residue
                           /\ PlainLevel[s] \subseteq 0..(sizeQ - 1)
  /\ MaxDepth \in Nat /\ MaxDegree \in Nat
  /\ Aliased \in BOOLEAN

VARIABLE reg  \* the ciphertext in each variable, or NONE before the first

vars == <<reg, m_scalTechnique>>

NONE == [level |-> -1]
Held == {r \in Reg : reg[r] # NONE}
Usable == {r \in Held : ~ reg[r].final /\ reg[r].deg <= MaxDegree}

Larger(m, n) == IF m > n THEN m ELSE n

Init == /\ reg = [r \in Reg |-> NONE]
        /\ m_scalTechnique \in Techniques

FIXEDMANUAL == m_scalTechnique = "FIXEDMANUAL"

-----------------------------------------------------------------------------
(* Steps of the adjustment, on one ciphertext.                             *)

(* A degree is a uint32_t; every width above the degrees met acts alike.   *)
Degree(n) == n % 65536

(* EvalMultCoreInPlace with a scalar.                                      *)
Scale(c, s) ==
  [c EXCEPT !.enc = ModMul(c.enc, s), !.sf = ModMul(c.sf, s),
            !.deg = Degree(c.deg + 1)]

(* Variant: two moduli are taken for too few.                              *)
TooFewTowers_OffByOne(c) == c.towers <= 2

(* ModReduceInternalInPlace of one level throws with one modulus left.     *)
TooFewTowers(c) == c.towers <= 1

(* Variant: the scaling factor keeps its old value.                        *)
ModReduce_KeepsFactor(c) ==
  LET inv == ModInverse(ModReduceFactorInt(c.towers - 1)) IN
  [c EXCEPT !.enc = ModMul(c.enc, inv), !.towers = c.towers - 1,
            !.level = c.level + 1, !.deg = Degree(c.deg - 1)]

(* ModReduceInternalInPlace of one level.                                  *)
ModReduce(c) ==
  LET inv == ModInverse(ModReduceFactorInt(c.towers - 1)) IN
  [c EXCEPT !.enc = ModMul(c.enc, inv), !.sf = ModMul(c.sf, inv),
            !.towers = c.towers - 1, !.level = c.level + 1,
            !.deg = Degree(c.deg - 1)]

(* LevelReduceInternalInPlace: moduli are dropped, the slot stays.         *)
LevelReduce(c, levels) ==
  [c EXCEPT !.towers = c.towers - levels, !.level = c.level + levels]

SetFactor(c, sf) == [c EXCEPT !.sf = sf]

(* The factor of degree 2 that one reduction turns into hi's factor.       *)
FactorBefore(hi) == GetScalingFactorIntBig(hi.level - 1)

(* Variant: the modulus about to be dropped is not compensated for.        *)
Raise_NoCompensation(lo, hi) ==
  LET inv  == ModInverse(lo.sf)
      down == hi.level - lo.level
  IN CASE lo.deg = 2 /\ hi.deg = 2 ->
            SetFactor(LevelReduce(ModReduce(Scale(lo, ModMul(hi.sf, inv))),
                                  down - 1), hi.sf)
       [] lo.deg = 2 /\ hi.deg # 2 /\ down = 1 -> ModReduce(lo)
       [] lo.deg = 2 /\ hi.deg # 2 /\ down # 1 ->
            SetFactor(ModReduce(LevelReduce(ModReduce(
              Scale(lo, ModMul(FactorBefore(hi), inv))), down - 2)), hi.sf)
       [] lo.deg # 2 /\ hi.deg = 2 ->
            LevelReduce(Scale(lo, ModMul(hi.sf, inv)), down)
       [] OTHER ->
            SetFactor(ModReduce(LevelReduce(
              Scale(lo, ModMul(FactorBefore(hi), inv)), down - 1)), hi.sf)

(* AdjustLevelsAndDepthInPlace where lo is the operand at the lower level: *)
(* it is taken to the level and the degree of hi.                          *)
Raise(lo, hi) ==
  LET inv  == ModInverse(lo.sf)
      ql   == ModReduceFactorInt(lo.towers - 1)
      down == hi.level - lo.level
  IN CASE lo.deg = 2 /\ hi.deg = 2 ->
            SetFactor(LevelReduce(ModReduce(
              Scale(lo, ModMul(ModMul(hi.sf, inv), ql))), down - 1), hi.sf)
       [] lo.deg = 2 /\ hi.deg # 2 /\ down = 1 -> ModReduce(lo)
       [] lo.deg = 2 /\ hi.deg # 2 /\ down # 1 ->
            SetFactor(ModReduce(LevelReduce(ModReduce(
              Scale(lo, ModMul(ModMul(FactorBefore(hi), inv), ql))),
              down - 2)), hi.sf)
       [] lo.deg # 2 /\ hi.deg = 2 ->
            SetFactor(LevelReduce(Scale(lo, ModMul(hi.sf, inv)), down), hi.sf)
       [] OTHER ->
            SetFactor(ModReduce(LevelReduce(
              Scale(lo, ModMul(FactorBefore(hi), inv)), down - 1)), hi.sf)

(* AdjustLevelsInPlace: the operand with more moduli loses some.           *)
AdjustLevels(c, d) ==
  IF c.towers > d.towers THEN LevelReduce(c, c.towers - d.towers) ELSE c

(* AdjustForAddOrSubInPlace for c, when the other operand is d: only the   *)
(* operand at the lower level changes, or the one of lower degree at the   *)
(* same level.                                                             *)
Adjusted(c, d) ==
  LET e == CASE FIXEDMANUAL -> AdjustLevels(c, d)
             [] ~ FIXEDMANUAL /\ c.level < d.level -> Raise(c, d)
             [] ~ FIXEDMANUAL /\ c.level = d.level /\ c.deg < d.deg ->
                  Scale(c, c.sf)
             [] OTHER -> c
  IN [e EXCEPT !.depth = IF e = c THEN c.depth ELSE Larger(c.depth, d.depth)]

(* Variant: operands of degree 2 are multiplied without a reduction.       *)
ToOne_Never(c, first) == c

(* AdjustLevelsAndDepthToOneInPlace reduces both operands if the adjusted  *)
(* first has degree 2.                                                     *)
ToOne(c, first) ==
  IF ~ FIXEDMANUAL /\ first.deg = 2 THEN ModReduce(c) ELSE c

First(c, d) == ToOne(Adjusted(c, d), Adjusted(c, d))
Second(c, d) == ToOne(Adjusted(d, c), Adjusted(c, d))

(* It throws if there is then no modulus left to reduce by.                *)
MultThrows(c, d) ==
  LET e == Adjusted(c, d) IN ~ FIXEDMANUAL /\ e.deg = 2 /\ TooFewTowers(e)

-----------------------------------------------------------------------------
(* What the core operations make of two adjusted operands. A result has    *)
(* the level, degree and factor of the first, except that of a product.    *)
Plus(c, d) == [c EXCEPT !.enc = (c.enc + d.enc) % t,
                        !.val = (c.val + d.val) % t,
                        !.depth = Larger(c.depth, d.depth)]

Minus(c, d) == [c EXCEPT !.enc = (c.enc - d.enc) % t,
                         !.val = (c.val - d.val) % t,
                         !.depth = Larger(c.depth, d.depth)]

Negated(c) == [c EXCEPT !.enc = (- c.enc) % t, !.val = (- c.val) % t]

(* Variant: the factor of the product is that of the first operand.        *)
Times_FirstFactor(c, d) ==
  [c EXCEPT !.enc = ModMul(c.enc, d.enc), !.val = ModMul(c.val, d.val),
            !.deg = Degree(c.deg + d.deg),
            !.depth = Larger(c.depth, d.depth) + 1]

Times(c, d) ==
  [c EXCEPT !.enc = ModMul(c.enc, d.enc), !.val = ModMul(c.val, d.val),
            !.deg = Degree(c.deg + d.deg), !.sf = ModMul(c.sf, d.sf),
            !.depth = Larger(c.depth, d.depth) + 1]

(* EvalMultInPlace squares the ciphertext's factor instead of taking the   *)
(* plaintext's: they are equal once the two are adjusted. (In the fixed    *)
(* modes it leaves the factor, which is 1.)                                *)
TimesPlain(c, p) == SetFactor(Times(c, p), ModMul(c.sf, c.sf))

-----------------------------------------------------------------------------
(* The operations. x and y are the operands and r the variable the result  *)
(* is assigned to, which may be one of them: with r = x they are also the  *)
(* operations InPlace. One that throws assigns no result.                  *)
Adjust(x, y) == Adjusted(reg[x], reg[y])

Shallow(m) == m < MaxDepth

Encrypt(r, v, level, d) ==
  reg' = [reg EXCEPT ![r] = MakePlaintext(v, level, d)]

EvalAdd(r, x, y) ==
  reg' = [reg EXCEPT ![r] = Plus(Adjust(x, y), Adjust(y, x))]

EvalSub(r, x, y) ==
  reg' = [reg EXCEPT ![r] = Minus(Adjust(x, y), Adjust(y, x))]

EvalMult(r, x, y) ==
  /\ ~ MultThrows(reg[x], reg[y])
  /\ Shallow(Larger(reg[x].depth, reg[y].depth))
  /\ reg' = [reg EXCEPT ![r] = Times(First(reg[x], reg[y]),
                                     Second(reg[x], reg[y]))]

EvalAddMutable(r, x, y) ==
  reg' = [reg EXCEPT ![x] = Adjust(x, y), ![y] = Adjust(y, x),
                     ![r] = Plus(Adjust(x, y), Adjust(y, x))]

EvalSubMutable(r, x, y) ==
  reg' = [reg EXCEPT ![x] = Adjust(x, y), ![y] = Adjust(y, x),
                     ![r] = Minus(Adjust(x, y), Adjust(y, x))]

(* Two variables: both are adjusted in place, also if the call then throws.*)
EvalMultMutable(r, x, y) ==
  LET c == First(reg[x], reg[y])
      d == Second(reg[x], reg[y])
  IN /\ x # y
     /\ \/ /\ ~ MultThrows(reg[x], reg[y])
           /\ Shallow(Larger(reg[x].depth, reg[y].depth))
           /\ reg' = [reg EXCEPT ![x] = c, ![y] = d, ![r] = Times(c, d)]
        \/ /\ MultThrows(reg[x], reg[y])
           /\ reg' = [reg EXCEPT ![x] = Adjust(x, y), ![y] = Adjust(y, x)]

(* One variable twice: the object is adjusted as the first operand, then   *)
(* as the second, without a second look at its degree.                     *)
EvalMultMutableAliased(r, x) ==
  LET c == reg[x] IN
  /\ Aliased
  /\ Shallow(c.depth)
  /\ \/ /\ c.deg # 2
        /\ reg' = [reg EXCEPT ![r] = Times(c, c)]
     \/ /\ c.deg = 2 /\ c.towers = 2  \* the second reduction throws
        /\ reg' = [reg EXCEPT ![x] = ModReduce(c)]
     \/ /\ c.deg = 2 /\ c.towers > 2
        /\ LET e == ModReduce(ModReduce(c)) IN
           reg' = [reg EXCEPT ![x] = e, ![r] = Times(e, e)]

SquareThrows(c) == ~ FIXEDMANUAL /\ c.deg # 1 /\ TooFewTowers(c)

EvalSquare(r, x) ==
  LET c == IF FIXEDMANUAL \/ reg[x].deg = 1 THEN reg[x]
           ELSE ModReduce(reg[x]) IN
  /\ ~ SquareThrows(reg[x])
  /\ Shallow(reg[x].depth)
  /\ reg' = [reg EXCEPT ![r] = Times(c, c)]

EvalSquareMutable(r, x) ==
  LET c == ToOne(reg[x], reg[x]) IN
  /\ ~ (~ FIXEDMANUAL /\ reg[x].deg = 2 /\ TooFewTowers(reg[x]))
  /\ Shallow(reg[x].depth)
  /\ reg' = [reg EXCEPT ![x] = c, ![r] = Times(c, c)]

EvalNegate(r, x) == reg' = [reg EXCEPT ![r] = Negated(reg[x])]

(* With a plaintext p, which MorphPlaintext makes a ciphertext of: the     *)
(* copy is adjusted, p never is.                                           *)
EvalAddPlain(r, x, p) ==
  reg' = [reg EXCEPT ![r] = Plus(Adjusted(reg[x], p), Adjusted(p, reg[x]))]

EvalSubPlain(r, x, p) ==
  reg' = [reg EXCEPT ![r] = Minus(Adjusted(reg[x], p), Adjusted(p, reg[x]))]

(* EvalSub of a ciphertext from a plaintext.                               *)
EvalPlainSub(r, x, p) ==
  LET n == Negated(reg[x]) IN
  reg' = [reg EXCEPT ![r] = Plus(Adjusted(n, p), Adjusted(p, n))]

EvalMultPlain(r, x, p) ==
  /\ ~ MultThrows(reg[x], p)
  /\ Shallow(Larger(reg[x].depth, p.depth))
  /\ reg' = [reg EXCEPT ![r] = TimesPlain(First(reg[x], p),
                                          Second(reg[x], p))]

EvalAddPlainMutable(r, x, p) ==
  LET c == Adjusted(reg[x], p) IN
  reg' = [reg EXCEPT ![x] = c, ![r] = Plus(c, Adjusted(p, reg[x]))]

EvalSubPlainMutable(r, x, p) ==
  LET c == Adjusted(reg[x], p) IN
  reg' = [reg EXCEPT ![x] = c, ![r] = Minus(c, Adjusted(p, reg[x]))]

(* The ciphertext is negated, adjusted, added, and negated back.           *)
EvalPlainSubMutable(r, x, p) ==
  LET n == Negated(reg[x])
      c == Adjusted(n, p)
  IN reg' = [reg EXCEPT ![x] = Negated(c), ![r] = Plus(c, Adjusted(p, n))]

EvalMultPlainMutable(r, x, p) ==
  LET c == First(reg[x], p) IN
  \/ /\ ~ MultThrows(reg[x], p)
     /\ Shallow(Larger(reg[x].depth, p.depth))
     /\ reg' = [reg EXCEPT ![x] = c,
                           ![r] = Times(c, Second(reg[x], p))]
  \/ /\ MultThrows(reg[x], p)
     /\ reg' = [reg EXCEPT ![x] = Adjusted(reg[x], p)]

(* What the program calls itself in FIXEDMANUAL; otherwise they only copy. *)
EvalModReduce(r, x) ==
  /\ FIXEDMANUAL => ~ TooFewTowers(reg[x])
  /\ reg' = [reg EXCEPT ![r] =
                IF FIXEDMANUAL THEN ModReduce(reg[x]) ELSE reg[x]]

EvalLevelReduce(r, x, levels) ==
  /\ FIXEDMANUAL => levels < reg[x].towers
  /\ reg' = [reg EXCEPT ![r] =
                IF FIXEDMANUAL THEN LevelReduce(reg[x], levels) ELSE reg[x]]

(* A product, relinearized, and reduced in FIXEDMANUAL.                    *)
ComposedEvalMult(r, x, y) ==
  LET p == Times(First(reg[x], reg[y]), Second(reg[x], reg[y])) IN
  /\ ~ MultThrows(reg[x], reg[y])
  /\ Shallow(Larger(reg[x].depth, reg[y].depth))
  /\ FIXEDMANUAL => ~ TooFewTowers(p)
  /\ reg' = [reg EXCEPT ![r] = IF FIXEDMANUAL THEN ModReduce(p) ELSE p]

(* A number of reductions, one after the other.                            *)
Reduced(c, k) ==
  LET f[i \in 0..k] == IF i = 0 THEN c ELSE ModReduce(f[i - 1]) IN f[k]

(* The degrees above noiseScaleDeg, each reduced away.                     *)
Excess(c, noiseScaleDeg) ==
  IF c.deg > noiseScaleDeg THEN c.deg - noiseScaleDeg ELSE 0

(* Then moduli are dropped down to towersLeft. The result is made to be    *)
(* sent and decrypted: no operation takes it afterwards.                   *)
Compress(r, x, towersLeft, noiseScaleDeg) ==
  /\ towersLeft >= noiseScaleDeg
  /\ Excess(reg[x], noiseScaleDeg) < reg[x].towers
  /\ LET e == Reduced(reg[x], Excess(reg[x], noiseScaleDeg))
         f == IF towersLeft < e.towers
              THEN LevelReduce(e, e.towers - towersLeft) ELSE e
     IN reg' = [reg EXCEPT ![r] = [f EXCEPT !.final = TRUE]]

Values == Value[m_scalTechnique]
Levels == PlainLevel[m_scalTechnique]

Plaintexts == {MakePlaintext(v, l, d) : v \in Values, l \in Levels,
                                        d \in {1, 2}}

Operation ==
  \E r \in Reg :
    \/ \E v \in Values, l \in Levels, d \in {1, 2} : Encrypt(r, v, l, d)
    \/ \E x, y \in Usable :
         \/ EvalAdd(r, x, y) \/ EvalAddMutable(r, x, y)
         \/ EvalSub(r, x, y) \/ EvalSubMutable(r, x, y)
         \/ EvalMult(r, x, y) \/ EvalMultMutable(r, x, y)
         \/ ComposedEvalMult(r, x, y)
    \/ \E x \in Usable :
         \/ EvalMultMutableAliased(r, x)
         \/ EvalSquare(r, x) \/ EvalSquareMutable(r, x) \/ EvalNegate(r, x)
         \/ EvalModReduce(r, x)
         \/ \E n \in 1..sizeQ : EvalLevelReduce(r, x, n)
         \/ \E p \in Plaintexts :
              \/ EvalAddPlain(r, x, p) \/ EvalAddPlainMutable(r, x, p)
              \/ EvalSubPlain(r, x, p) \/ EvalSubPlainMutable(r, x, p)
              \/ EvalPlainSub(r, x, p) \/ EvalPlainSubMutable(r, x, p)
              \/ EvalMultPlain(r, x, p) \/ EvalMultPlainMutable(r, x, p)
         \/ \E n \in 1..sizeQ, d \in {1, 2} : Compress(r, x, n, d)

Next == Operation /\ UNCHANGED m_scalTechnique

Spec == Init /\ [][Next]_vars

-----------------------------------------------------------------------------
(* Every ciphertext has a factor that can be divided by, as many moduli as *)
(* its level leaves and, unless the program reduces by hand, a degree of 1 *)
(* or 2.                                                                   *)
TypeOK ==
  /\ m_scalTechnique \in Techniques
  /\ reg \in [Reg -> Ciphertext \cup {NONE}]
  /\ \A r \in Held : /\ FIXEDMANUAL \/ reg[r].deg \in {1, 2}
                     /\ reg[r].sf \in Unit
                     /\ reg[r].level + reg[r].towers = sizeQ
                     /\ reg[r].towers >= 1

(* Whatever the operations that made it, and the levels at which they met, *)
(* a ciphertext decrypts to what its formula gives on the values encoded:  *)
(* the factor it carries is the one its slots are multiplied by. A factor  *)
(* set without the slots, or slots added at different factors, corrupt the *)
(* result without an error.                                                *)
Decodes == \A r \in Held : reg[r].sf # 0 /\ Decrypt(reg[r]) = reg[r].val

(* Two ciphertexts of one level and one degree have one scaling factor,    *)
(* whatever their histories. AdjustLevelsAndDepthInPlace relies on it: it  *)
(* compares levels and degrees, never factors, before a sum.               *)
SameScale ==
  \A r, s \in Usable :
    (reg[r].level = reg[s].level /\ reg[r].deg = reg[s].deg)
      => reg[r].sf = reg[s].sf

(* After the adjustment two operands have the same moduli left, so the     *)
(* check VerifyNumOfTowers of the core operations never throws.            *)
TowersAgree ==
  \A r, s \in Usable :
    /\ Adjust(r, s).towers = Adjust(s, r).towers
    /\ Adjust(r, s).level = Adjust(s, r).level

(* After it they agree in everything a sum needs: level, moduli, factor    *)
(* and, unless the program reduces by hand, degree.                        *)
AdjustedAgree ==
  /\ TowersAgree
  /\ \A r, s \in Usable : /\ FIXEDMANUAL \/ Adjust(r, s).deg = Adjust(s, r).deg
                          /\ Adjust(r, s).sf = Adjust(s, r).sf

(* What the parameter generation made the moduli for.                      *)
multiplicativeDepth == sizeQ - 1 - isFlexibleAutoExt

(* A multiplication or a square fails for want of moduli only if an        *)
(* operand is already deeper than the depth the user asked for: the        *)
(* adjustments of additions and of mixed levels cost no depth.             *)
DepthSuffices ==
  /\ \A r, s \in Usable :
       MultThrows(reg[r], reg[s])
         => Larger(reg[r].depth, reg[s].depth) > multiplicativeDepth
  /\ \A r \in Usable :
       SquareThrows(reg[r]) => reg[r].depth > multiplicativeDepth
=============================================================================
