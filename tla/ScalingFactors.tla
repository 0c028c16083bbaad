--------------------------- MODULE ScalingFactors ---------------------------
(***************************************************************************)
(* The tables of scaling factors modulo t that the crypto parameters of    *)
(* the BGV scheme precompute for the modes FLEXIBLEAUTO and                *)
(* FLEXIBLEAUTOEXT (bgvrns-cryptoparameters.cpp), and their accessors; in  *)
(* the modes FIXEDMANUAL and FIXEDAUTO every factor is m_fixedSF.          *)
(*                                                                         *)
(* Of a modulus q_i only its residue modulo t matters to a plaintext: it   *)
(* is what a modulus reduction divides the plaintext by. The fixed modes   *)
(* are given moduli of residue 1 (bgvrns-parametergeneration.cpp).         *)
(***************************************************************************)
EXTENDS Integers

CONSTANTS t,      \* the plaintext modulus
          sizeQ,  \* the number of moduli q_0 .. q_(sizeQ - 1)
          qModt   \* their residues: qModt[i + 1] is q_i % t

(* The technique chosen with the parameters; no operation changes it.      *)
VARIABLE m_scalTechnique

Technique == {"FIXEDMANUAL", "FIXEDAUTO", "FLEXIBLEAUTO", "FLEXIBLEAUTOEXT"}
EXT == m_scalTechnique = "FLEXIBLEAUTOEXT"
Fixed == m_scalTechnique \in {"FIXEDMANUAL", "FIXEDAUTO"}

Residue == 0..(t - 1)
Unit == 1..(t - 1)

(* t is prime, and the moduli are other primes.                            *)
ASSUME ScalingFactorsAssumption ==
  /\ t \in Nat \ {0, 1}
  /\ \A a, b \in Unit : (a * b) % t # 0
  /\ sizeQ \in Nat \ {0, 1}
  /\ qModt \in [1..sizeQ -> Unit]

(* NativeInteger::ModMul and ModInverse; 0 has no inverse, and ModInverse  *)
(* throws.                                                                 *)
ModMul(a, b) == (a * b) % t
Inverses == [a \in Unit |-> CHOOSE b \in Unit : ModMul(a, b) = 1]
ModInverse(a) == Inverses[a]

(* m_fixedSF, the factor of the fixed modes, which the accessors return    *)
(* beyond the tables too.                                                  *)
m_fixedSF == 1

(* GetModReduceFactorInt                                                   *)
ModReduceFactorInt(i) == IF Fixed THEN m_fixedSF ELSE qModt[i + 1]

isFlexibleAutoExt == IF EXT THEN 1 ELSE 0

(* A square reduced by the modulus that the step to level k drops.         *)
NextFactor(k, prevSF) ==
  ModMul(ModMul(prevSF, prevSF), ModInverse(ModReduceFactorInt(sizeQ - k)))

(* The scaling factor of a ciphertext of degree 1 at level k. In mode      *)
(* FLEXIBLEAUTOEXT the loop ends one entry early and the last stays 0.     *)
m_scalingFactorsInt[k \in 0..(sizeQ - 1)] ==
  IF k = 0 THEN ModReduceFactorInt(sizeQ - 1)
  ELSE IF EXT /\ k = 1 THEN ModReduceFactorInt(sizeQ - 2)
  ELSE IF k < sizeQ - isFlexibleAutoExt
       THEN NextFactor(k, m_scalingFactorsInt[k - 1])
  ELSE 0

(* The same of degree 2.                                                   *)
m_scalingFactorsIntBig(k) ==
  IF EXT /\ k = 0 THEN ModMul(m_scalingFactorsInt[0], m_scalingFactorsInt[1])
  ELSE ModMul(m_scalingFactorsInt[k], m_scalingFactorsInt[k])

GetScalingFactorInt(l) ==
  IF Fixed \/ l >= sizeQ THEN m_fixedSF ELSE m_scalingFactorsInt[l]

GetScalingFactorIntBig(l) ==
  IF Fixed \/ l >= sizeQ - 1 THEN m_fixedSF ELSE m_scalingFactorsIntBig(l)

-----------------------------------------------------------------------------
(* A plaintext or a ciphertext, as far as decryption depends on it: its    *)
(* level and the moduli (towers) it has left, the degree and the value of  *)
(* the scaling factor it carries, and one slot of what it encrypts. val is *)
(* what that slot stands for and depth how many multiplications deep it    *)
(* is; the program knows neither.                                          *)
Ciphertext ==
  [level : 0..sizeQ, towers : 0..sizeQ, deg : Nat, sf : Residue,
   enc : Residue, val : Residue, depth : Nat, final : BOOLEAN]

(* One for the degree a value has before it is first multiplied.           *)
FreshDegree == IF EXT THEN 2 ELSE 1

(* MakePlaintext and PackedEncoding::Encode of value v at a level, with    *)
(* noise scale degree d; at level 0 of FLEXIBLEAUTOEXT the degree is 2.    *)
MakePlaintext(v, level, d) ==
  LET atTop == EXT /\ level = 0
      scf   == IF atTop THEN GetScalingFactorIntBig(0)
               ELSE IF d = 2 THEN ModMul(GetScalingFactorInt(level),
                                         GetScalingFactorInt(level))
               ELSE GetScalingFactorInt(level)
      deg   == IF atTop THEN 2 ELSE d
  IN [level |-> level, towers |-> sizeQ - level, deg |-> deg, sf |-> scf,
      enc |-> ModMul(v, scf), val |-> v,
      depth |-> IF level + deg > FreshDegree THEN level + deg - FreshDegree
                ELSE 0,
      final |-> FALSE]

(* What reducing to the first modulus divides by.                          *)
ToFirst[n \in 0..sizeQ] ==
  IF n <= 1 THEN 1
  ELSE ModMul(ToFirst[n - 1], ModInverse(ModReduceFactorInt(n - 1)))

(* PKEBGVRNS::Decrypt reduces to the first modulus, and PackedEncoding::   *)
(* Decode divides by the scaling factor.                                   *)
Decrypt(c) == ModMul(ModMul(c.enc, ToFirst[c.towers]),
                     ModInverse(ModMul(c.sf, ToFirst[c.towers])))
=============================================================================
