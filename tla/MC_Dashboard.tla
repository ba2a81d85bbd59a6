---------------------------- MODULE MC_Dashboard ----------------------------
(* Two developers at one tab, one of whose tokens may be in the build; four *)
(* requests out at the same time.                                           *)
EXTENDS Dashboard, TLC

CONSTANT t1

MCBuilds == {None, t1}
Symmetry == Permutations(Request)
=============================================================================
