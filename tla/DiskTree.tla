------------------------------ MODULE DiskTree ------------------------------
(***************************************************************************)
(* The directory tree of the operating system, as boost::filesystem shows  *)
(* it to PhysicalEntry: external code, modelled from how src/ uses it.  A  *)
(* tree maps each path (relative to the physical root) to its kind;        *)
(* UNKNOWN is a path that does not exist.                                  *)
(***************************************************************************)
EXTENDS VfsCore, SequencesExt

CONSTANT Paths  \* the paths that occur, Root among them

ASSUME PathsAssumption ==
    /\ Root \in Paths
    /\ \A p \in Paths \ {Root} : ParentPath(p) \in Paths
    /\ Paths \subseteq Seq(STRING)

Exists(tree, p) == tree[p] # UNKNOWN

ChildrenOf(p) == {q \in Paths \ {Root} : ParentPath(q) = p}

(* p itself and every path below it.                                       *)
Subtree(p) == {q \in Paths : IsPrefix(p, q)}

(* Whether p lies in a directory; the physical root always does.           *)
HasParent(tree, p) == p = Root \/ tree[ParentPath(p)] = DIRECTORY

CanMake(tree, p) == ~Exists(tree, p) /\ HasParent(tree, p)

(* Everything that exists, but for the root, lies in a directory.          *)
IsTree(tree) == \A p \in Paths : Exists(tree, p) => HasParent(tree, p)

IsLeaf(tree, p) == \A q \in ChildrenOf(p) : ~Exists(tree, q)

(* The directories create_directories(p) has still to make, the first one  *)
(* that is missing or no directory.                                        *)
FirstMissing(tree, p, q) ==
    /\ IsPrefix(q, p)
    /\ tree[q] # DIRECTORY
    /\ \A r \in Paths : IsStrictPrefix(r, q) => tree[r] = DIRECTORY

(* Where the path q below from lies when from becomes to.                  *)
Rebase(q, from, to) == to \o SubSeq(q, Len(from) + 1, Len(q))

(* The moved tree stays within Paths: other paths are too long.            *)
MoveFits(tree, src, dst) ==
    \A p \in Subtree(src) : Exists(tree, p) => Rebase(p, src, dst) \in Paths

(* rename(2): the source exists and the target is not inside it; a file    *)
(* replaces a file, a directory an empty one; a path renamed to itself     *)
(* stays.                                                                  *)
CanMove(tree, src, dst) ==
    /\ Exists(tree, src)
    /\ HasParent(tree, dst)
    /\ ~IsStrictPrefix(src, dst)
    /\ ~IsStrictPrefix(dst, src)
    /\ Exists(tree, dst) => tree[dst] = tree[src]
    /\ tree[dst] = DIRECTORY => src = dst \/ IsLeaf(tree, dst)
    /\ MoveFits(tree, src, dst)

Moved(tree, src, dst) ==
    [q \in Paths |->
        IF IsPrefix(dst, q)
        THEN IF Rebase(q, dst, src) \in Paths THEN tree[Rebase(q, dst, src)] ELSE UNKNOWN
        ELSE IF IsPrefix(src, q) THEN UNKNOWN ELSE tree[q]]

(* The files with content after the move, of those with content before.    *)
MovedFiles(files, src, dst) ==
    {q \in Paths :
        \/ IsPrefix(dst, q) /\ Rebase(q, dst, src) \in files
        \/ ~IsPrefix(dst, q) /\ ~IsPrefix(src, q) /\ q \in files}
=============================================================================
