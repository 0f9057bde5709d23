--------------------------- MODULE MC_MergedCache ---------------------------
(***************************************************************************)
(* Small instances of MergedCache: model values for two or three threads   *)
(* and for the names, and two systems, which the cfgs make fail or not.    *)
(***************************************************************************)
EXTENDS MergedCache_proofs, TLC

Symmetry == Permutations(Threads)
=============================================================================
