---------------------------- MODULE MCLeveledBGV ----------------------------
(***************************************************************************)
(* Two ciphertext variables, four moduli with different residues modulo 7, *)
(* plaintexts of one value at every level: under FLEXIBLEAUTOEXT not at    *)
(* the last, for which there is no factor. In the fixed techniques all     *)
(* factors are 1 and the value is 0: only levels, moduli and degrees       *)
(* differ. In FIXEDMANUAL the program reaches the levels between by itself.*)
(***************************************************************************)
EXTENDS LeveledBGV, TLC

CONSTANTS a, b

MCReg == {a, b}
MCQ4 == <<3, 5, 2, 6>>
MCValue == [s \in Technique |->
              IF s \in {"FIXEDMANUAL", "FIXEDAUTO"} THEN {0} ELSE {3}]
MCLevels == [s \in Technique |->
               CASE s = "FIXEDMANUAL" -> {0, 3}
                 [] s = "FLEXIBLEAUTOEXT" -> 0..2
                 [] OTHER -> 0..3]
MCTop == [s \in {"FLEXIBLEAUTO"} |-> {0}]
MCLast == [s \in {"FLEXIBLEAUTOEXT"} |-> {0, 3}]
Symmetric == Permutations(MCReg)
=============================================================================
