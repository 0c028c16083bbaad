------------------------------- MODULE MCPRNG -------------------------------
(* Two threads, four engines in turn, two blocks of three numbers each.    *)
EXTENDS PRNGStreams, TLC

Symmetric == Permutations(Thread) \cup Permutations(Seed)
=============================================================================
