---------------------------- MODULE MC_PhysicalFS ----------------------------
(***************************************************************************)
(* Small instances of PhysicalFS: a root with two names, of which "d" can  *)
(* be a directory with a child of its own.                                 *)
(***************************************************************************)
EXTENDS PhysicalFS_proofs

SmallPaths == {Root, <<"d">>, <<"d", "f">>, <<"e">>, <<"e", "f">>}

(* A name of the level, a name below it, and the entry's own.              *)
AllTargets == Paths

AllModes == SUBSET OpenMode \ {{}, {MODE_MEMORY_MAPPED}}

AllMasks == {Operations, {OP_READ}}

StuckPaths == {<<"d", "f">>}

(* The root takes no file "d", the directory "e" no file at all.           *)
UnwritablePaths == {<<"d">>, <<"e", "f">>}

Symmetry == Permutations(Threads)
=============================================================================
