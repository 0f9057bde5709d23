---------------------------- MODULE MC_MergedTree ----------------------------
(***************************************************************************)
(* Small instances of MergedTree: two systems with the same few paths, so  *)
(* that files and directories of one shadow those of the other; and one    *)
(* file that three systems can have, for open.                             *)
(***************************************************************************)
EXTENDS MergedTree_proofs

OneBranch == {Root, <<"d">>, <<"d", "f">>, <<"e">>}

AllTrees == {k \in [Paths -> EntryType] : IsTree(k) /\ k[Root] = DIRECTORY}

BothWritable == <<Operations, Operations>>

(* Enough for the system in front; calls make every other tree behind it.  *)
Sparse == {k \in AllTrees : k[<<"d", "f">>] # DIRECTORY}

(* The one in front only deletes and renames; new entries, and files that  *)
(* are written, are behind it.                                             *)
DeletableFirst == <<{OP_READ, OP_DELETE}, Operations>>

(* A path and systems for open: between two that can be written one that   *)
(* cannot.                                                                 *)
OneFile == {Root, <<"f">>}

ReadOnlyBetween == <<Operations, {OP_READ}, {OP_READ, OP_WRITE}>>

AllModes == {{MODE_READ}, {MODE_WRITE}, {MODE_READ, MODE_WRITE}}
=============================================================================
