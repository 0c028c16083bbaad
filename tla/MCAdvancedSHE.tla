---------------------------- MODULE MCAdvancedSHE ----------------------------
(* A ring of dimension 8: two rows of four slots, modulo 17. Rotations     *)
(* within a row, to the other row and beyond, in both directions; sums     *)
(* over every size, powers of two or not; relinearization keys for the     *)
(* second and the third power of the secret at most.                       *)
EXTENDS AdvancedSHE, TLC

MCFresh == {[i \in 0..7 |-> i + 1], [i \in 0..7 |-> (3 * i * i + 2) % 17]}
MCIndexList == {{-1, -2, 0, 4, -5}}
MCRotation == {-5, -1, 0, 4}
MCSumSize == {1, 2, 3, 6, 8}
Symmetric == Permutations(Reg)
=============================================================================
