----------------------------- MODULE MCKeyCache -----------------------------
(* Two sets of parameters, two secret keys, two automorphism indices and   *)
(* one release: a tag may have keys of a released context beside those of  *)
(* the context that took its place.                                        *)
EXTENDS KeyCache, TLC

MCTag == 1..2
MCIndex == {3, 5}
Symmetric == Permutations(Param)
=============================================================================
