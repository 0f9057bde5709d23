-------------------------- MODULE MergedTree_proofs --------------------------
(***************************************************************************)
(* Proofs about MergedTree for every set of paths and every list of        *)
(* systems: the cached tree answers what the systems hold.                 *)
(***************************************************************************)
EXTENDS MergedTree, DiskTree_proofs

DiskOK ==
    /\ disk \in [Systems -> [Paths -> EntryType]]
    /\ \A s \in Systems : IsTree(disk[s]) /\ disk[s][Root] = DIRECTORY

CacheOK ==
    /\ added \in 0..NumSystems
    /\ known \in [Paths -> 0..added]
    /\ known[Root] = 0
    /\ \A p \in Entries \ {Root} : ParentPath(p) \in Entries
    /\ dirty \in [Paths -> BOOLEAN]
    /\ halved \subseteq Paths

ControlOK ==
    /\ pc \in PC
    /\ what \in Calls
    /\ at \in Entries
    /\ {goal, name} \cup todo \subseteq Paths
    /\ mode \in Modes \cup {{}}
    /\ levels \in Nat
    /\ answer \in 0..added
    /\ outcome \in Outcomes \cup {"none", "null", "true", "false"}
    /\ refused \subseteq 1..added

(* What a call knows in each of its places.                                *)
CallInv ==
    /\ pc = "walk" => what \in {"getChild", "deleteChild", "rename"}
    /\ pc = "walk" => IsPrefix(at, goal)
    /\ pc # "done" => answer = 0
    /\ pc \in {"walk", "done"} /\ what = "deleteChild" => name # Root /\ goal = ParentPath(name)
    /\ pc \in {"walk", "done"} /\ what = "getChild" => goal # Root
    /\ pc = "populate" =>
        /\ what = "populateEntries" /\ at = Root
        /\ todo \subseteq Entries
        /\ \A p, q \in todo : ~IsStrictPrefix(p, q)

LEMMA SystemsAre == NumSystems \in Nat /\ \A s \in Systems : Ops[s] \subseteq Operations
<1>1. NumSystems \in Nat
  BY SystemsAssumption DEF NumSystems
<1>2. \A s \in 1..Len(Ops) : Ops[s] \in SUBSET Operations
  BY SystemsAssumption, ElementOfSeq
<1> QED
  BY <1>1, <1>2 DEF Systems, NumSystems

(* The first of some systems.                                              *)
LEMMA FirstExists ==
    ASSUME NEW S, S \subseteq Nat, S # {}
    PROVE  \E s \in S : IsFirst(s, S)
  BY LeastNumber DEF IsFirst

LEMMA WithIs ==
    ASSUME CacheOK, NEW op
    PROVE  With(op) \subseteq 1..added /\ With(op) \subseteq Systems
  BY SystemsAre DEF With, CacheOK, Systems

(* What addChildren and cacheChildren put in the cache is the system that  *)
(* supplies the path.                                                      *)
LEMMA OverlayIs ==
    ASSUME CacheOK, NEW p
    PROVE  Overlay(p) \in 0..added /\ Supplies(Overlay(p), p)
<1>1. Holders(p) \subseteq 1..added /\ added \in Nat
  BY WithIs, SystemsAre DEF Holders, CacheOK
<1>2. CASE Holders(p) = {}
  <2>1. Overlay(p) = 0
    BY <1>2 DEF Overlay
  <2> QED
    BY <1>1, <1>2, <2>1 DEF Supplies, Holders, Exists
<1>3. CASE Holders(p) # {}
  <2>1. \E s \in Holders(p) : IsFirst(s, Holders(p))
    BY <1>1, <1>3, FirstExists
  <2>2. Overlay(p) \in Holders(p) /\ IsFirst(Overlay(p), Holders(p))
    BY <1>3, <2>1 DEF Overlay
  <2>3. \A r \in With(OP_READ) : r < Overlay(p) => disk[r][p] = UNKNOWN
    <3> SUFFICES ASSUME NEW r \in With(OP_READ), r < Overlay(p), disk[r][p] # UNKNOWN
                 PROVE  FALSE
      OBVIOUS
    <3>1. r \in Holders(p)
      BY DEF Holders, Exists
    <3>2. Overlay(p) <= r /\ r \in Nat /\ Overlay(p) \in Nat
      BY <1>1, <2>2, <3>1 DEF IsFirst
    <3> QED
      BY <3>2
  <2> QED
    BY <1>1, <2>2, <2>3 DEF Supplies, Holders, Exists
<1> QED
  BY <1>2, <1>3

-----------------------------------------------------------------------------
(***************************************************************************)
(* The disks stay trees.                                                   *)
(***************************************************************************)
LEMMA MadeKeepsTree ==
    ASSUME NEW tree \in [Paths -> EntryType], IsTree(tree), NEW q \in Paths, q # Root,
           NEW type, ~Refuses(tree, type, q), type \in EntryType
    PROVE  /\ Made(tree, type, q) \in [Paths -> EntryType]
           /\ IsTree(Made(tree, type, q))
<1> DEFINE new == Made(tree, type, q)
<1>1. new \in [Paths -> EntryType]
  BY DEF Made, EntryType
<1>2. ASSUME NEW r \in Paths, Exists(new, r), r # Root
      PROVE  new[ParentPath(r)] = DIRECTORY
  <2>1. /\ r \in Strings /\ q \in Strings /\ ParentPath(r) \in Paths /\ ParentPath(r) \in Strings
        /\ IsPrefix(ParentPath(r), r) /\ ~IsPrefix(r, ParentPath(r)) /\ ParentPath(r) # r
    BY <1>2, PathsAssumption, PathsAreStrings, ParentPrefix, PrefixReflexive
  <2>2. CASE IsPrefix(r, q)
    <3>1. IsPrefix(ParentPath(r), q) /\ ParentPath(r) # q
      BY <2>1, <2>2, PrefixTransitive
    <3> QED
      BY <2>1, <3>1 DEF Made, IsStrictPrefix
  <2>3. CASE ~IsPrefix(r, q)
    <3>1. r # q
      BY <2>1, <2>3, PrefixReflexive
    <3>2. tree[ParentPath(r)] = DIRECTORY
      BY <1>2, <2>3, <3>1 DEF Made, IsStrictPrefix, Exists, IsTree, HasParent
    <3>3. ParentPath(r) # q
      BY <3>2 DEF Refuses, Exists, DIRECTORY, FILE, UNKNOWN
    <3> QED
      BY <2>1, <3>2, <3>3 DEF Made
  <2> QED
    BY <2>2, <2>3
<1> QED
  BY <1>1, <1>2 DEF IsTree, HasParent

(* Of a file that the ofstream fails to make, the directories are left.    *)
LEMMA CreationsKeepTree ==
    ASSUME NEW tree \in [Paths -> EntryType], IsTree(tree), tree[Root] = DIRECTORY,
           NEW q \in Paths, q # Root, NEW type \in EntryType, ~Refuses(tree, type, q),
           NEW k \in Creations(tree, type, q)
    PROVE  k \in [Paths -> EntryType] /\ IsTree(k) /\ k[Root] = DIRECTORY
<1>1. /\ Made(tree, type, q) \in [Paths -> EntryType]
      /\ IsTree(Made(tree, type, q))
  BY MadeKeepsTree
<1>2. Made(tree, type, q)[Root] = DIRECTORY /\ Made(tree, type, q)[q] = type /\ Root \in Paths
  BY PathsAssumption DEF Made
<1> DEFINE made == Made(tree, type, q)
<1> HIDE DEF made
<1>3. CASE k = made
  BY <1>1, <1>2, <1>3 DEF made
<1>4. CASE k = [made EXCEPT ![q] = UNKNOWN] /\ type = FILE
  <2>1. k \in [Paths -> EntryType] /\ k[Root] = DIRECTORY
    BY <1>1, <1>2, <1>4 DEF made, EntryType
  <2>2. ASSUME NEW r \in Paths, Exists(k, r), r # Root
        PROVE  k[ParentPath(r)] = DIRECTORY
    <3>1. Exists(made, r) /\ ParentPath(r) \in Paths
      BY <1>1, <1>4, <2>2, PathsAssumption DEF made, Exists
    <3>2. made[ParentPath(r)] = DIRECTORY
      BY <1>1, <2>2, <3>1 DEF made, IsTree, HasParent
    <3>3. ParentPath(r) # q
      BY <1>2, <1>4, <3>2 DEF made, FILE, DIRECTORY
    <3> QED
      BY <1>1, <1>4, <3>1, <3>2, <3>3 DEF made
  <2> QED
    BY <2>1, <2>2 DEF IsTree, HasParent
<1> QED
  BY <1>3, <1>4 DEF Creations, made

LEMMA CreateKeepsDisk ==
    ASSUME DiskOK, CacheOK, NEW p \in Paths, NEW type \in EntryType, NEW q \in Paths,
           CreateEntry(p, type, q)
    PROVE  DiskOK'
<1>0. PICK s \in CreatesIn(p) :
          /\ ~Refuses(disk[s], type, q)
          /\ \E k \in Creations(disk[s], type, q) : disk' = [disk EXCEPT ![s] = k]
  BY DEF CreateEntry
<1>1. PICK k \in Creations(disk[s], type, q) : disk' = [disk EXCEPT ![s] = k]
  BY <1>0
<1>2. s \in Systems
  BY WithIs DEF CreatesIn
<1>3. IsStrictPrefix(p, q)
  BY DEF CreateEntry
<1>4. q # Root
  BY <1>3, PathsAreStrings, RootPrefix DEF IsStrictPrefix
<1>5. k \in [Paths -> EntryType] /\ IsTree(k) /\ k[Root] = DIRECTORY
  BY <1>0, <1>1, <1>2, <1>4, CreationsKeepTree DEF DiskOK
<1> QED
  BY <1>1, <1>2, <1>5 DEF DiskOK

(* What a deletion does to the systems, and what it leaves in them.        *)
LEMMA DeleteHereIs ==
    ASSUME DeleteHere
    PROVE  \E rest \in [DeletesIn(name) -> SUBSET Subtree(name)] :
             /\ \A s \in DeletesIn(name) : MayLeave(s, rest[s])
             /\ disk' = [s \in Systems |->
                            IF s \in DeletesIn(name)
                            THEN [p \in Paths |-> IF IsPrefix(name, p) /\ p \notin rest[s]
                                                  THEN UNKNOWN ELSE disk[s][p]]
                            ELSE disk[s]]
             /\ refused' = {s \in DeletesIn(name) : rest[s] # {}}
             /\ \/ Invalidated(at) /\ halved' = halved
                \/ /\ \A s \in DeletesIn(name) : rest[s] # {}
                   /\ UNCHANGED dirty
                   /\ halved' = IF disk' # disk THEN halved \cup {name} ELSE halved
  BY DEF DeleteHere

LEMMA DeleteKeepsDisk ==
    ASSUME DiskOK, CallInv, ControlOK, DeleteHere
    PROVE  DiskOK'
<1>1. name \in Paths /\ name # Root
  BY DEF DeleteHere, Arrived, CallInv, ControlOK
<1>2. ~IsPrefix(name, Root)
  BY <1>1, PathsAreStrings, RootPrefix
<1>3. PICK rest \in [DeletesIn(name) -> SUBSET Subtree(name)] :
          /\ \A s \in DeletesIn(name) : MayLeave(s, rest[s])
          /\ disk' = [s \in Systems |->
                         IF s \in DeletesIn(name)
                         THEN [p \in Paths |-> IF IsPrefix(name, p) /\ p \notin rest[s]
                                               THEN UNKNOWN ELSE disk[s][p]]
                         ELSE disk[s]]
  BY DeleteHereIs
<1> DEFINE Cleared(s) == [p \in Paths |-> IF IsPrefix(name, p) /\ p \notin rest[s]
                                          THEN UNKNOWN ELSE disk[s][p]]
<1>4. ASSUME NEW s \in Systems, s \in DeletesIn(name)
      PROVE  Cleared(s) \in [Paths -> EntryType] /\ IsTree(Cleared(s)) /\ Cleared(s)[Root] = DIRECTORY
  <2>1. disk[s] \in [Paths -> EntryType] /\ IsTree(disk[s]) /\ disk[s][Root] = DIRECTORY
    BY DEF DiskOK
  <2>2. \A q \in rest[s], r \in Subtree(name) : IsPrefix(r, q) => r \in rest[s]
    BY <1>3, <1>4 DEF MayLeave
  <2>3. IsTree(Cleared(s))
    BY <1>1, <2>1, <2>2, ClearKeepsTree
  <2> QED
    BY <1>2, <2>1, <2>3, PathsAssumption DEF EntryType
<1>5. disk' = [s \in Systems |-> IF s \in DeletesIn(name) THEN Cleared(s) ELSE disk[s]]
  BY <1>3
<1> HIDE DEF Cleared
<1> QED
  BY <1>4, <1>5 DEF DiskOK

(* rename: neither path of a move that the system allows is its root.      *)
LEMMA RenameKeepsDisk ==
    ASSUME DiskOK, CacheOK, NEW p \in Paths, NEW q \in Paths, Rename(p, q)
    PROVE  DiskOK'
<1>1. p # Root /\ known[p] \in Systems /\ CanMove(disk[known[p]], p, q)
      /\ disk' = [disk EXCEPT ![known[p]] = Moved(@, p, q)]
  BY SystemsAre DEF Rename, RenameAllowed, IsRoot, Entries, CacheOK, Systems
<1> DEFINE tree == disk[known[p]]
<1>2. tree \in [Paths -> EntryType] /\ IsTree(tree) /\ tree[Root] = DIRECTORY
  BY <1>1 DEF DiskOK
<1> HIDE DEF tree
<1>3. q # Root
  BY <1>1, PathsAreStrings, RootPrefix DEF CanMove, IsStrictPrefix
<1>4. ~IsPrefix(p, Root) /\ ~IsPrefix(q, Root)
  BY <1>1, <1>3, PathsAreStrings, RootPrefix
<1>5. Moved(tree, p, q) \in [Paths -> EntryType] /\ Moved(tree, p, q)[Root] = DIRECTORY
  BY <1>2, <1>4, PathsAssumption DEF Moved, EntryType
<1>6. IsTree(Moved(tree, p, q))
  BY <1>1, <1>2, MoveKeepsTree DEF tree
<1> QED
  BY <1>1, <1>5, <1>6 DEF DiskOK, tree

LEMMA DiskOKStep == DiskOK /\ CacheOK /\ ControlOK /\ CallInv /\ [Next]_vars => DiskOK'
<1> SUFFICES ASSUME DiskOK, CacheOK, ControlOK, CallInv, [Next]_vars
             PROVE  DiskOK'
  OBVIOUS
<1>1. CASE UNCHANGED disk
  BY <1>1 DEF DiskOK
<1>2. CASE Request
  <2>1. ASSUME NEW p \in Paths, NEW q \in Paths, Rename(p, q) PROVE DiskOK'
    BY <2>1, RenameKeepsDisk
  <2>2. ASSUME NEW p \in Paths, NEW q \in Paths, NEW type \in EntryType, CreateEntry(p, type, q)
        PROVE  DiskOK'
    BY <2>2, CreateKeepsDisk
  <2> QED
    BY <1>1, <1>2, <2>1, <2>2 DEF Request, GetChild, DeleteChild, RenameFails, CreateFails,
       ListChildren, Open, PopulateEntries
<1>3. CASE DeleteHere
  BY <1>3, DeleteKeepsDisk
<1> QED
  BY <1>1, <1>2, <1>3 DEF Next, AddFileSystem, PassOnTheWay, GoDown, NothingThere,
     GetChildReturns, DeleteThrows, RenameReturns, PopulateLevel, Populated, Return, vars

-----------------------------------------------------------------------------
(***************************************************************************)
(* A pass of cacheChildren.                                                *)
(***************************************************************************)
Passed(S) == {p \in S : dirty[p]}

BelowPassed(S, q) == \E p \in Passed(S) : IsStrictPrefix(p, q)

LEMMA PassIs ==
    ASSUME NEW S, Pass(S)
    PROVE  /\ known' = [q \in Paths |->
                            IF ~BelowPassed(S, q) THEN known[q]
                            ELSE IF ParentPath(q) \in Passed(S) THEN Overlay(q) ELSE 0]
           /\ dirty' = [q \in Paths |->
                            IF q \in Passed(S) THEN FALSE ELSE BelowPassed(S, q) \/ dirty[q]]
           /\ halved' = {h \in halved : \A p \in Passed(S) : ~IsPrefix(p, h)}
  BY DEF Pass, Passed, BelowPassed

(* What is not below the passed entries stays in the cache.                *)
LEMMA PassKeeps ==
    ASSUME NEW S, Pass(S), NEW p \in Entries, ~BelowPassed(S, p)
    PROVE  p \in Entries' /\ known'[p] = known[p]
  BY PassIs DEF Entries

(* A pass over entries of which none is below another keeps the cache a    *)
(* tree: the children it caches are in it with the entries they belong to. *)
LEMMA PassKeepsCache ==
    ASSUME CacheOK, NEW S, S \subseteq Entries, \A p, q \in S : ~IsStrictPrefix(p, q),
           Pass(S), UNCHANGED added
    PROVE  CacheOK' /\ S \subseteq Entries'
<1>1. known' \in [Paths -> 0..added'] /\ dirty' \in [Paths -> BOOLEAN]
  <2>1. \A q \in Paths : Overlay(q) \in 0..added
    BY OverlayIs
  <2>2. \A q \in Paths : known'[q] \in 0..added
    <3>1. 0 \in 0..added /\ \A q \in Paths : known[q] \in 0..added
      BY SystemsAre DEF CacheOK
    <3> QED
      BY <2>1, <3>1, PassIs
  <2>3. \A q \in Paths : dirty'[q] \in BOOLEAN
    BY PassIs DEF CacheOK
  <2>4. known' = [q \in Paths |-> known'[q]] /\ dirty' = [q \in Paths |-> dirty'[q]]
    BY PassIs
  <2> QED
    BY <2>2, <2>3, <2>4
<1>2. Passed(S) \subseteq S /\ S \subseteq Paths
  BY DEF Passed, Entries
<1>3. \A p \in S : ~BelowPassed(S, p)
  BY <1>2 DEF BelowPassed
<1>4. S \subseteq Entries'
  BY <1>3, PassKeeps
<1>5. known'[Root] = 0
  <2>1. ~BelowPassed(S, Root)
    BY <1>2, PathsAreStrings, RootPrefix DEF BelowPassed, IsStrictPrefix
  <2> QED
    BY <2>1, PassIs, PathsAssumption DEF CacheOK
<1>6. ASSUME NEW q \in Entries' \ {Root}
      PROVE  ParentPath(q) \in Entries'
  <2>1. q \in Paths /\ known'[q] # 0 /\ ParentPath(q) \in Paths
    BY <1>6, PathsAssumption DEF Entries
  <2>2. CASE BelowPassed(S, q)
    <3>1. ParentPath(q) \in S
      BY <1>2, <2>1, <2>2, PassIs
    <3> QED
      BY <1>4, <3>1
  <2>3. CASE ~BelowPassed(S, q)
    <3>0. known'[q] = known[q]
      BY <2>1, <2>3, PassIs
    <3>1. ParentPath(q) \in Entries
      BY <1>6, <2>1, <3>0 DEF CacheOK, Entries
    <3>2. ~BelowPassed(S, ParentPath(q))
      <4> SUFFICES ASSUME NEW p \in Passed(S), IsStrictPrefix(p, ParentPath(q))
                   PROVE  FALSE
        BY DEF BelowPassed
      <4>1. p \in Strings /\ q \in Strings /\ ParentPath(q) \in Strings
        BY <1>2, <2>1, PathsAreStrings
      <4>2. IsPrefix(ParentPath(q), q) /\ ~IsPrefix(q, ParentPath(q))
        BY <1>6, <4>1, ParentPrefix
      <4>3. IsPrefix(p, q) /\ p # q
        BY <4>1, <4>2, PrefixTransitive DEF IsStrictPrefix
      <4> QED
        BY <2>3, <4>3 DEF BelowPassed, IsStrictPrefix
    <3> QED
      BY <3>1, <3>2, PassKeeps
  <2> QED
    BY <2>2, <2>3
<1>7. halved' \subseteq Paths
  BY PassIs DEF CacheOK
<1> QED
  BY <1>1, <1>4, <1>5, <1>6, <1>7 DEF CacheOK

-----------------------------------------------------------------------------
(***************************************************************************)
(* The cache stays a tree, and a call stays within it.                     *)
(***************************************************************************)
Shape == DiskOK /\ CacheOK /\ ControlOK /\ CallInv

LEMMA InvalidatedKeepsCache ==
    ASSUME CacheOK, NEW p \in Paths, Invalidated(p) \/ UNCHANGED dirty, UNCHANGED <<added, known>>,
           halved' \subseteq Paths
    PROVE  CacheOK' /\ Entries' = Entries
  BY DEF CacheOK, Entries, Invalidated

LEMMA CacheOKStep == Shape /\ [Next]_vars => CacheOK'
<1> SUFFICES ASSUME Shape, [Next]_vars
             PROVE  CacheOK'
  OBVIOUS
<1> USE DEF Shape
<1>1. ASSUME UNCHANGED <<added, known>>, NEW p \in Paths, Invalidated(p) \/ UNCHANGED dirty,
             halved' \subseteq Paths
      PROVE  CacheOK'
  BY <1>1, InvalidatedKeepsCache
<1>2. /\ Root \in Paths /\ at \in Paths /\ \A p \in Entries : p \in Paths
      /\ name \in Paths /\ halved \subseteq Paths
  BY PathsAssumption DEF ControlOK, Entries, CacheOK
<1>3. CASE Request
  <2>1. ASSUME NEW p \in Paths, ListChildren(p) PROVE CacheOK'
    <3>1. CASE Pass({p})
      BY <2>1, <3>1, PassKeepsCache DEF ListChildren, Call, IsStrictPrefix
    <3> QED
      BY <1>1, <1>2, <2>1, <3>1 DEF ListChildren, cache
  <2>2. ASSUME NEW p \in Paths, NEW q \in Paths, NEW type \in EntryType, CreateEntry(p, type, q)
        PROVE  CacheOK'
    BY <1>1, <1>2, <2>2 DEF CreateEntry
  <2>3. ASSUME UNCHANGED <<added, cache>> PROVE CacheOK'
    BY <1>1, <1>2, <2>3 DEF cache
  <2> QED
    BY <1>3, <2>1, <2>2, <2>3 DEF Request, GetChild, DeleteChild, Rename, RenameFails, CreateFails,
       Open, PopulateEntries
<1>4. CASE AddFileSystem
  <2>1. /\ added' = added + 1 /\ added + 1 \in 0..NumSystems /\ added \in Nat
        /\ known' = known /\ dirty' = dirty /\ halved' = halved
    BY <1>4, SystemsAre DEF AddFileSystem, CacheOK, cache
  <2> QED
    BY <2>1 DEF CacheOK, Entries
<1>5. CASE PassOnTheWay
  BY <1>5, PassKeepsCache DEF PassOnTheWay, ControlOK, IsStrictPrefix
<1>6. CASE PopulateLevel
  BY <1>6, PassKeepsCache DEF PopulateLevel, CallInv
<1>7. CASE NothingThere \/ DeleteHere \/ RenameReturns
  <2>1. CASE DeleteHere
    <3>1. (Invalidated(at) \/ UNCHANGED dirty) /\ halved' \subseteq halved \cup {name}
      BY <2>1, DeleteHereIs
    <3> QED
      BY <1>1, <1>2, <2>1, <3>1 DEF DeleteHere
  <2> QED
    BY <1>1, <1>2, <1>7, <2>1 DEF NothingThere, RenameReturns
<1>8. CASE UNCHANGED <<added, cache>>
  BY <1>1, <1>2, <1>8 DEF cache
<1> QED
  BY <1>3, <1>4, <1>5, <1>6, <1>7, <1>8 DEF Next, GoDown, GetChildReturns, DeleteThrows,
     Populated, Return, vars

(* The entry at, at which a call is, is one the cache holds.               *)
LEMMA ControlOKStep == Shape /\ CacheOK' /\ [Next]_vars => ControlOK'
<1> SUFFICES ASSUME Shape, CacheOK', [Next]_vars
             PROVE  ControlOK'
  OBVIOUS
<1> USE DEF Shape, ControlOK, PC, Calls, Outcomes
<1>1. ASSUME UNCHANGED <<added, known>> PROVE Entries' = Entries
  BY <1>1 DEF Entries
<1>2. Root \in Paths /\ at \in Paths /\ Root \in Entries /\ Entries \subseteq Paths
      /\ Root \in Entries' /\ added \in Nat
  BY PathsAssumption, SystemsAre DEF Entries, CacheOK
<1>3. ASSUME NEW p \in Paths, NEW q \in Paths,
             GetChild(p, q) \/ DeleteChild(p, q) \/ Rename(p, q) \/ RenameFails(p, q)
      PROVE  ControlOK'
  <2>1. q # Root => ParentPath(q) \in Paths
    BY PathsAssumption
  <2>2. p # Root => ParentPath(p) \in Paths
    BY PathsAssumption
  <2>3. IsStrictPrefix(p, q) => q # Root
    BY PathsAreStrings, RootPrefix DEF IsStrictPrefix
  <2>4. CASE GetChild(p, q)
    BY <1>1, <2>4 DEF GetChild, Call, Finish, cache
  <2>5. CASE DeleteChild(p, q)
    BY <1>1, <2>1, <2>3, <2>5 DEF DeleteChild, Call, Finish, cache
  <2>6. CASE Rename(p, q)
    BY <1>1, <1>2, <2>2, <2>6 DEF Rename, RenameAllowed, IsRoot, Call, cache
  <2>7. CASE RenameFails(p, q)
    BY <1>1, <2>7 DEF RenameFails, Call, Finish, cache
  <2> QED
    BY <1>3, <2>4, <2>5, <2>6, <2>7
<1>4. ASSUME NEW p \in Paths, NEW q \in Paths, NEW type \in EntryType,
             CreateEntry(p, type, q) \/ CreateFails(p, type, q)
      PROVE  ControlOK'
  <2>1. CASE CreateEntry(p, type, q)
    <3>1. answer' \in 0..added /\ added' = added /\ known' = known
      BY <2>1, <1>2, WithIs DEF CreateEntry, CreatesIn
    <3> QED
      BY <1>1, <2>1, <3>1 DEF CreateEntry, Call, Finish
  <2>2. CASE CreateFails(p, type, q)
    BY <1>1, <2>2 DEF CreateFails, Call, Finish, cache
  <2> QED
    BY <1>4, <2>1, <2>2
<1>5. ASSUME NEW p \in Paths, ListChildren(p) PROVE ControlOK'
  <2>1. p \in Entries'
    <3>1. CASE Pass({p})
      BY <1>5, <3>1, PassKeepsCache DEF ListChildren, Call, IsStrictPrefix
    <3> QED
      BY <1>1, <1>5, <3>1 DEF ListChildren, Call, cache
  <2> QED
    BY <1>5, <2>1 DEF ListChildren, Call, Finish
<1>6. ASSUME NEW p \in Paths, NEW m \in Modes, Open(p, m) PROVE ControlOK'
  <2>1. refused' \subseteq 1..added
    BY <1>6 DEF Open
  <2> QED
    BY <1>1, <1>6, <2>1 DEF Open, Call, Finish, OpenResult, cache
<1>7. ASSUME NEW n \in 0..2, PopulateEntries(n) PROVE ControlOK'
  BY <1>1, <1>2, <1>7 DEF PopulateEntries, Call, cache
<1>8. CASE AddFileSystem
  <2>1. added' = added + 1 /\ Entries' = Entries
    BY <1>8 DEF AddFileSystem, Entries, cache
  <2>2. answer' \in 0..added' /\ refused' \subseteq 1..added'
    BY <1>2, <1>8, <2>1 DEF AddFileSystem, args
  <2> QED
    BY <1>8, <2>1, <2>2 DEF AddFileSystem, args
<1>9. CASE PassOnTheWay
  <2>1. at \in Entries'
    BY <1>9, PassKeepsCache DEF PassOnTheWay, IsStrictPrefix
  <2> QED
    BY <1>9, <2>1 DEF PassOnTheWay, args
<1>10. CASE GoDown
  <2>1. NextOnTheWay \in Paths /\ known[NextOnTheWay] # 0
    BY <1>2, <1>10, NextOnPath DEF GoDown, OnTheWay, NextOnTheWay, CallInv
  <2>2. at' \in Entries'
    BY <1>10, <2>1 DEF GoDown, Entries, cache
  <2> QED
    BY <1>10, <2>2 DEF GoDown, args, cache
<1>11. CASE NothingThere
  BY <1>1, <1>11 DEF NothingThere, OnTheWay, CallInv, Finish, args
<1>12. CASE GetChildReturns
  <2>1. answer' \in 0..added'
    BY <1>12 DEF GetChildReturns, CacheOK
  <2> QED
    BY <1>1, <1>12, <2>1 DEF GetChildReturns, Finish, cache
<1>13. CASE DeleteThrows \/ DeleteHere \/ RenameReturns
  <2>1. CASE DeleteHere
    <3>1. refused' \subseteq 1..added
      BY <2>1, DeleteHereIs, WithIs DEF DeletesIn
    <3>2. /\ UNCHANGED <<added, known, at, what, goal, name, mode, todo, levels, answer>>
          /\ pc' = "done" /\ outcome' \in {"true", "false"}
      BY <2>1 DEF DeleteHere, Finish
    <3> QED
      BY <1>1, <3>1, <3>2
  <2> QED
    BY <1>1, <1>13, <2>1 DEF DeleteThrows, RenameReturns, Finish, args, cache
<1>14. CASE PopulateLevel
  <2>1. at \in Entries'
    BY <1>2, <1>14 DEF PopulateLevel, CallInv
  <2>2. todo' \subseteq Paths /\ levels' \in Nat
    BY <1>14 DEF PopulateLevel, ChildrenOf
  <2> QED
    BY <1>14, <2>1, <2>2 DEF PopulateLevel
<1>15. CASE Populated
  BY <1>1, <1>15 DEF Populated, Finish, args, cache
<1>16. CASE Return
  BY <1>1, <1>2, <1>16 DEF Return, cache
<1>17. CASE UNCHANGED vars
  BY <1>1, <1>17 DEF vars, args, cache
<1> QED
  BY <1>3, <1>4, <1>5, <1>6, <1>7, <1>8, <1>9, <1>10, <1>11, <1>12, <1>13, <1>14, <1>15, <1>16,
     <1>17 DEF Next, Request

LEMMA CallInvStep == Shape /\ CacheOK' /\ [Next]_vars => CallInv'
<1> SUFFICES ASSUME Shape, CacheOK', [Next]_vars
             PROVE  CallInv'
  OBVIOUS
<1> USE DEF Shape, CallInv
<1>1. CASE Request
  <2>1. ASSUME NEW p \in Paths, NEW q \in Paths, GetChild(p, q) \/ DeleteChild(p, q)
        PROVE  CallInv'
    <3>1. IsStrictPrefix(p, q)
      BY <2>1 DEF GetChild, DeleteChild
    <3>2. q # Root /\ IsPrefix(p, q) /\ IsPrefix(p, ParentPath(q))
      BY <3>1, PathsAreStrings, RootPrefix, ParentPrefix DEF IsStrictPrefix
    <3> QED
      BY <2>1, <3>2 DEF GetChild, DeleteChild, Call, Finish
  <2>2. ASSUME NEW p \in Paths, NEW q \in Paths, Rename(p, q) PROVE CallInv'
    <3>1. p # Root
      BY <2>2 DEF Rename, RenameAllowed, IsRoot
    <3>2. ParentPath(p) \in Paths
      BY <3>1, PathsAssumption
    <3>3. IsPrefix(Root, ParentPath(p))
      BY <3>2, PathsAreStrings, RootPrefix
    <3> QED
      BY <2>2, <3>3 DEF Rename, Call
  <2>3. ASSUME NEW p \in Paths, NEW q \in Paths,
               \/ RenameFails(p, q)
               \/ \E type \in EntryType : CreateEntry(p, type, q) \/ CreateFails(p, type, q)
        PROVE  CallInv'
    <3>1. pc = "idle" /\ pc' = "done" /\ what' \in {"rename", "createEntry"}
      BY <2>3 DEF RenameFails, CreateEntry, CreateFails, Call, Finish
    <3> QED
      BY <3>1
  <2>4. ASSUME NEW p \in Paths, ListChildren(p) \/ \E m \in Modes : Open(p, m) PROVE CallInv'
    BY <2>4 DEF ListChildren, Open, Call, Finish
  <2>5. ASSUME NEW n \in 0..2, PopulateEntries(n) PROVE CallInv'
    <3>1. todo' = {Root} /\ pc' = "populate" /\ what' = "populateEntries" /\ at' = Root
          /\ answer' = answer
      BY <2>5 DEF PopulateEntries, Call
    <3>2. Root \in Entries'
      BY PathsAssumption DEF Entries
    <3> QED
      BY <2>5, <3>1, <3>2 DEF PopulateEntries, Call, IsStrictPrefix
  <2> QED
    BY <1>1, <2>1, <2>2, <2>3, <2>4, <2>5 DEF Request
<1>2. CASE AddFileSystem
  BY <1>2 DEF AddFileSystem, args, cache
<1>3. CASE PassOnTheWay
  BY <1>3 DEF PassOnTheWay, OnTheWay, args
<1>4. CASE GoDown
  <2>1. IsPrefix(NextOnTheWay, goal)
    BY <1>4, NextOnPath DEF GoDown, OnTheWay, NextOnTheWay, ControlOK, Entries
  <2> QED
    BY <1>4, <2>1 DEF GoDown, OnTheWay, args
<1>5. CASE NothingThere \/ GetChildReturns \/ DeleteThrows \/ DeleteHere \/ RenameReturns
  BY <1>5 DEF NothingThere, OnTheWay, GetChildReturns, DeleteThrows, DeleteHere, RenameReturns,
              Arrived, Finish, args
<1>6. CASE PopulateLevel
  <2>1. what' = "populateEntries" /\ at' = Root /\ pc' = "populate" /\ answer' = answer
        /\ todo' = {q \in UNION {ChildrenOf(p) : p \in todo} :
                        known'[q] # 0 /\ disk[known'[q]][q] = DIRECTORY}
    BY <1>6 DEF PopulateLevel
  <2>2. todo' \subseteq Entries'
    BY <2>1 DEF Entries, ChildrenOf
  <2>3. ASSUME NEW p \in todo', NEW q \in todo', IsStrictPrefix(p, q)
        PROVE  FALSE
    <3>1. /\ p \in Paths /\ p # Root /\ ParentPath(p) \in todo
          /\ q \in Paths /\ q # Root /\ ParentPath(q) \in todo
      BY <2>1 DEF ChildrenOf
    <3>2. p \in Strings /\ q \in Strings /\ ParentPath(p) \in Strings /\ ParentPath(q) \in Strings
      BY <3>1, PathsAreStrings, ParentPrefix
    <3>3. IsPrefix(p, ParentPath(q)) /\ IsPrefix(ParentPath(p), p) /\ ~IsPrefix(p, ParentPath(p))
      BY <2>3, <3>1, <3>2, ParentPrefix DEF IsStrictPrefix
    <3>4. IsPrefix(ParentPath(p), ParentPath(q)) /\ ParentPath(p) # ParentPath(q)
      BY <3>2, <3>3, PrefixTransitive
    <3> QED
      BY <1>6, <3>1, <3>4 DEF PopulateLevel, IsStrictPrefix
  <2> QED
    BY <1>6, <2>1, <2>2, <2>3 DEF PopulateLevel
<1>7. CASE Populated
  BY <1>7 DEF Populated, Finish, args
<1>8. CASE Return
  BY <1>8 DEF Return
<1>9. CASE UNCHANGED vars
  BY <1>9 DEF vars, args, cache, Entries
<1> QED
  BY <1>1, <1>2, <1>3, <1>4, <1>5, <1>6, <1>7, <1>8, <1>9 DEF Next

LEMMA ShapeInit == Init => Shape
<1> SUFFICES ASSUME Init PROVE Shape
  OBVIOUS
<1>1. DiskOK
  <2>1. ASSUME NEW s \in Systems
        PROVE  disk[s] \in [Paths -> EntryType] /\ IsTree(disk[s]) /\ disk[s][Root] = DIRECTORY
    BY SystemsAssumption DEF Init
  <2> QED
    BY <2>1 DEF Init, DiskOK
<1>2. CacheOK
  <2>1. 0 \in 0..NumSystems /\ 0 \in 0..0
    BY SystemsAre
  <2> QED
    BY <2>1, PathsAssumption DEF Init, CacheOK, Entries
<1>3. ControlOK
  BY PathsAssumption DEF Init, ControlOK, Entries, PC, Calls
<1>4. CallInv
  BY DEF Init, CallInv
<1> QED
  BY <1>1, <1>2, <1>3, <1>4 DEF Shape

LEMMA ShapeStep == Shape /\ [Next]_vars => Shape'
<1> SUFFICES ASSUME Shape, [Next]_vars
             PROVE  Shape'
  OBVIOUS
<1>1. DiskOK'
  BY DiskOKStep DEF Shape
<1>2. CacheOK'
  BY CacheOKStep
<1>3. ControlOK' /\ CallInv'
  BY <1>2, ControlOKStep, CallInvStep
<1> QED
  BY <1>1, <1>2, <1>3 DEF Shape

-----------------------------------------------------------------------------
(***************************************************************************)
(* A clean entry has cached what the systems hold.                         *)
(***************************************************************************)
(* A clean entry with no dirty one above it, in no unfinished rename.      *)
Trusted(p) == Live(p) /\ ~dirty[p] /\ ~Renaming(p)

(* What is cached of q below p is right, or of what a failed deletion took *)
(* away.                                                                   *)
Right(p, q) == Supplies(known[q], q) \/ (Halved(p) /\ known[q] # 0)

Fresh == \A p \in Paths : Trusted(p) => \A q \in ChildrenOf(p) : Right(p, q)

(* A step that changes neither the cache of p's children nor what the      *)
(* systems hold of them leaves a trusted p right.                          *)
LEMMA FreshKeeps ==
    ASSUME Shape, Fresh, UNCHANGED added, NEW p \in Paths, Trusted(p), NEW q \in ChildrenOf(p),
           known'[q] = known[q], \A s \in Systems : disk'[s][q] = disk[s][q],
           Halved(p) => Halved(p)'
    PROVE  Right(p, q)'
<1>1. With(OP_READ)' = With(OP_READ) /\ With(OP_READ) \subseteq Systems
  BY WithIs DEF With, Shape
<1>2. Right(p, q)
  BY DEF Fresh
<1>3. Supplies(known[q], q) => Supplies(known[q], q)'
  BY <1>1 DEF Supplies
<1> QED
  BY <1>2, <1>3 DEF Right

(* Where a step has only dirtied entries, what is trusted now was before.  *)
LEMMA TrustedBefore ==
    ASSUME CacheOK, NEW p \in Paths, Trusted(p)', NEW r \in Paths,
           Invalidated(r) \/ UNCHANGED dirty, UNCHANGED known
    PROVE  /\ Live(p) /\ ~dirty[p]
           /\ Invalidated(r) => ~IsPrefix(r, p)
<1>1. \A u \in Paths : dirty[u] => dirty'[u]
  BY DEF Invalidated, CacheOK
<1>2. Live(p) /\ ~dirty[p]
  BY <1>1 DEF Trusted, Live, Entries
<1>3. ASSUME Invalidated(r), IsPrefix(r, p) PROVE FALSE
  <2>1. dirty'[r]
    BY <1>3 DEF Invalidated, CacheOK
  <2> QED
    BY <1>3, <2>1 DEF Trusted, Live, IsStrictPrefix
<1> QED
  BY <1>2, <1>3

(* The parts of the entries a child and its parent are.                    *)
LEMMA ChildIs ==
    ASSUME NEW p, NEW q \in ChildrenOf(p)
    PROVE  /\ q \in Paths /\ q # Root /\ q \in Strings /\ ParentPath(q) = p /\ p \in Paths
           /\ p \in Strings /\ IsPrefix(p, q) /\ ~IsPrefix(q, p) /\ IsStrictPrefix(p, q)
           /\ \A r \in Strings : IsStrictPrefix(r, q) => IsPrefix(r, p)
<1>1. q \in Paths /\ q # Root /\ ParentPath(q) = p
  BY DEF ChildrenOf
<1>2. q \in Strings /\ p \in Paths /\ p \in Strings
  BY <1>1, PathsAssumption, PathsAreStrings
<1> QED
  BY <1>1, <1>2, ParentPrefix DEF IsStrictPrefix

(* A pass makes the passed entries right and dirties what is below them.   *)
LEMMA PassFresh ==
    ASSUME Shape, Fresh, NEW S, S \subseteq Entries, Pass(S), UNCHANGED <<added, disk>>,
           \A r \in Paths : ~Renaming(r)' => ~Renaming(r)
    PROVE  Fresh'
<1> SUFFICES ASSUME NEW p \in Paths, Trusted(p)', NEW q \in ChildrenOf(p)
             PROVE  Right(p, q)'
  BY DEF Fresh, ChildrenOf
<1>1. q \in Paths /\ q \in Strings /\ p \in Strings /\ ParentPath(q) = p /\ IsStrictPrefix(p, q)
      /\ \A r \in Strings : IsStrictPrefix(r, q) => IsPrefix(r, p)
  BY ChildIs
<1>2. Passed(S) \subseteq Paths
  BY DEF Passed, Entries
<1>3. CASE p \in Passed(S)
  <2>1. known'[q] = Overlay(q)
    BY <1>1, <1>3, PassIs DEF BelowPassed
  <2>2. Supplies(Overlay(q), q)
    BY OverlayIs DEF Shape
  <2> QED
    BY <2>1, <2>2 DEF Right, Supplies, With
<1>4. CASE p \notin Passed(S)
  <2>1. ~BelowPassed(S, p) /\ ~dirty[p]
    BY <1>4, PassIs DEF Trusted
  <2>2. p \in Entries
    <3>1. p \in Paths /\ (p = Root \/ known'[p] # 0)
      BY DEF Trusted, Live, Entries
    <3>2. known'[p] = known[p]
      BY <2>1, PassIs
    <3> QED
      BY <3>1, <3>2 DEF Entries
  <2>3. ASSUME NEW r \in Paths, IsStrictPrefix(r, p) PROVE ~dirty[r]
    <3>1. ~dirty'[r]
      BY <2>3 DEF Trusted, Live
    <3>2. r \notin Passed(S)
      BY <2>1, <2>3 DEF BelowPassed
    <3> QED
      BY <3>1, <3>2, PassIs
  <2>4. ~BelowPassed(S, q)
    BY <1>1, <1>2, <1>4, <2>1, PathsAreStrings DEF BelowPassed, IsStrictPrefix
  <2>5. known'[q] = known[q]
    BY <1>1, <2>4, PassIs
  <2>6. Trusted(p)
    BY <2>1, <2>2, <2>3 DEF Trusted, Live
  <2>7. ASSUME NEW h \in halved, IsPrefix(h, p)
        PROVE  h \in halved'
    <3> SUFFICES ASSUME NEW r \in Passed(S), IsPrefix(r, h)
                 PROVE  FALSE
      BY PassIs
    <3>1. r \in Strings /\ h \in Strings
      BY <1>2, PathsAreStrings DEF Shape, CacheOK
    <3>2. IsPrefix(r, p)
      BY <1>1, <2>7, <3>1, PrefixTransitive
    <3> QED
      BY <1>4, <2>1, <3>2 DEF BelowPassed, IsStrictPrefix
  <2>8. Halved(p) => Halved(p)'
    BY <2>7 DEF Halved
  <2> QED
    BY <2>5, <2>6, <2>8, FreshKeeps
<1> QED
  BY <1>3, <1>4

(* deleteChild changes what lies below the directory it dirties; where it  *)
(* fails in every system it only takes away from what is below the name.   *)
LEMMA DeleteFresh ==
    ASSUME Shape, Fresh, DeleteHere
    PROVE  Fresh'
<1> SUFFICES ASSUME NEW p \in Paths, Trusted(p)', NEW q \in ChildrenOf(p)
             PROVE  Right(p, q)'
  BY DEF Fresh, ChildrenOf
<1>1. PICK rest \in [DeletesIn(name) -> SUBSET Subtree(name)] :
          /\ \A s \in DeletesIn(name) : MayLeave(s, rest[s])
          /\ disk' = [s \in Systems |->
                         IF s \in DeletesIn(name)
                         THEN [r \in Paths |-> IF IsPrefix(name, r) /\ r \notin rest[s]
                                               THEN UNKNOWN ELSE disk[s][r]]
                         ELSE disk[s]]
          /\ \/ Invalidated(at) /\ halved' = halved
             \/ /\ \A s \in DeletesIn(name) : rest[s] # {}
                /\ UNCHANGED dirty
                /\ halved' = IF disk' # disk THEN halved \cup {name} ELSE halved
  BY DeleteHereIs
<1>2. /\ UNCHANGED <<added, known>> /\ at \in Paths /\ what = "deleteChild" /\ pc = "walk"
      /\ at = ParentPath(name) /\ name \in Paths /\ name # Root
      /\ Invalidated(at) \/ UNCHANGED dirty
  BY <1>1 DEF DeleteHere, Arrived, Shape, CallInv, ControlOK, Entries
<1>3. Trusted(p)
  BY <1>2, TrustedBefore DEF Shape, Trusted, Renaming
<1>4. /\ name \in ChildrenOf(at) /\ name \in Strings /\ at \in Strings
      /\ IsPrefix(at, name)
  BY <1>2, ChildIs DEF ChildrenOf
<1>5. q \in Paths /\ q \in Strings /\ p \in Strings /\ ParentPath(q) = p
      /\ \A r \in Strings : IsStrictPrefix(r, q) => IsPrefix(r, p)
  BY ChildIs
<1>6. Halved(p) => Halved(p)'
  BY <1>1 DEF Halved
<1>7. CASE ~IsPrefix(name, q)
  <2>1. \A s \in Systems : disk'[s][q] = disk[s][q]
    BY <1>1, <1>5, <1>7
  <2> QED
    BY <1>2, <1>3, <1>6, <2>1, FreshKeeps
<1>8. CASE IsPrefix(name, q) /\ Invalidated(at)
  <2>1. ~IsPrefix(at, p)
    BY <1>2, <1>8, TrustedBefore DEF Shape
  <2>2. IsPrefix(at, p)
    <3>1. CASE name = q
      BY <1>2, <1>4, <1>5, <3>1, PrefixReflexive
    <3>2. CASE name # q
      BY <1>4, <1>5, <1>8, <3>2, PrefixTransitive DEF IsStrictPrefix
    <3> QED
      BY <3>1, <3>2
  <2> QED
    BY <2>1, <2>2
<1>9. CASE IsPrefix(name, q) /\ ~Invalidated(at)
  <2>1. \A s \in DeletesIn(name) : name \in rest[s]
    <3> SUFFICES ASSUME NEW s \in DeletesIn(name)
                 PROVE  name \in rest[s]
      OBVIOUS
    <3>1. PICK r \in rest[s] : TRUE
      BY <1>1, <1>9
    <3>2. IsPrefix(name, r) /\ name \in Subtree(name)
      BY <1>2, <1>4, PrefixReflexive DEF Subtree
    <3> QED
      BY <1>1, <3>1, <3>2 DEF MayLeave
  <2>2. CASE q = name
    <3>1. \A s \in Systems : disk'[s][q] = disk[s][q]
      BY <1>1, <1>5, <2>1, <2>2
    <3> QED
      BY <1>2, <1>3, <1>6, <3>1, FreshKeeps
  <2>3. CASE disk' = disk
    BY <1>2, <1>3, <1>6, <2>3, FreshKeeps
  <2>4. CASE q # name /\ disk' # disk
    <3>1. IsPrefix(name, p)
      BY <1>4, <1>5, <1>9, <2>4 DEF IsStrictPrefix
    <3>2. Halved(p)'
      BY <1>1, <1>9, <2>4, <3>1 DEF Halved
    <3>3. CASE known[q] # 0
      BY <1>2, <3>2, <3>3 DEF Right
    <3>4. CASE known[q] = 0
      <4>1. \A r \in With(OP_READ) : r \in Systems /\ disk[r][q] = UNKNOWN
        BY <1>3, <3>4, WithIs DEF Fresh, Right, Supplies, Shape
      <4>2. \A r \in With(OP_READ) : disk'[r][q] = UNKNOWN
        BY <1>1, <1>5, <4>1
      <4> QED
        BY <1>2, <3>4, <4>2 DEF Right, Supplies, With
    <3> QED
      BY <3>3, <3>4
  <2> QED
    BY <2>2, <2>3, <2>4
<1> QED
  BY <1>7, <1>8, <1>9

(* createEntry adds paths below the entry it dirties only: the directories *)
(* above are there already.                                                *)
LEMMA CreateFresh ==
    ASSUME Shape, Fresh, NEW p0 \in Paths, NEW type \in EntryType, NEW q0 \in Paths,
           CreateEntry(p0, type, q0)
    PROVE  Fresh'
<1> SUFFICES ASSUME NEW p \in Paths, Trusted(p)', NEW q \in ChildrenOf(p)
             PROVE  Right(p, q)'
  BY DEF Fresh, ChildrenOf
<1>1. /\ UNCHANGED <<added, known>> /\ Invalidated(p0) /\ pc = "idle"
      /\ IsStrictPrefix(p0, q0)
  BY DEF CreateEntry, Call
<1>2. Trusted(p) /\ ~IsPrefix(p0, p)
  BY <1>1, TrustedBefore DEF Shape, Trusted, Renaming
<1>0. PICK s \in CreatesIn(p0) :
          \E k \in Creations(disk[s], type, q0) : disk' = [disk EXCEPT ![s] = k]
  BY DEF CreateEntry
<1>3. PICK k \in Creations(disk[s], type, q0) : disk' = [disk EXCEPT ![s] = k]
  BY <1>0
<1>4. s \in Systems /\ disk[s][p0] = DIRECTORY
  BY <1>3, WithIs DEF CreatesIn, Shape
<1>5. q \in Paths /\ q \in Strings /\ p0 \in Strings /\ q0 \in Strings
  BY ChildIs, PathsAreStrings
<1>6. ASSUME IsPrefix(q, q0)
      PROVE  IsStrictPrefix(q, q0) /\ disk[s][q] = DIRECTORY
  <2>1. IsPrefix(q, p0) \/ IsPrefix(p0, q)
    BY <1>1, <1>5, <1>6, PrefixesCompare DEF IsStrictPrefix
  <2>2. IsPrefix(q, p0)
    BY <1>2, <1>5, <2>1, ChildIs, PrefixReflexive DEF IsStrictPrefix
  <2>3. q # q0
    <3>1. p0 # q0 /\ IsPrefix(p0, q0)
      BY <1>1 DEF IsStrictPrefix
    <3>2. ASSUME q = q0 PROVE FALSE
      BY <1>2, <1>5, <3>1, <3>2, ChildIs DEF IsStrictPrefix
    <3> QED
      BY <3>2
  <2>4. disk[s][q] = DIRECTORY
    <3>1. IsTree(disk[s])
      BY <1>4 DEF Shape, DiskOK
    <3> QED
      BY <1>4, <1>5, <2>2, <3>1, NothingBelow DEF Exists, UNKNOWN, DIRECTORY
  <2> QED
    BY <1>6, <2>3, <2>4 DEF IsStrictPrefix
<1>7. k[q] = disk[s][q]
  <2>1. Made(disk[s], type, q0)[q] = disk[s][q] /\ q # q0
    BY <1>5, <1>6, PrefixReflexive DEF Made, IsStrictPrefix
  <2>2. \/ k = Made(disk[s], type, q0)
        \/ k = [Made(disk[s], type, q0) EXCEPT ![q0] = UNKNOWN]
    BY <1>3 DEF Creations
  <2> QED
    BY <1>5, <2>1, <2>2 DEF Made
<1>8. \A r \in Systems : disk'[r][q] = disk[r][q]
  BY <1>3, <1>4, <1>7 DEF Shape, DiskOK
<1>9. Halved(p) => Halved(p)'
  BY DEF CreateEntry, Halved
<1> QED
  BY <1>1, <1>2, <1>8, <1>9, FreshKeeps

(* rename within a directory changes what lies below that directory.       *)
LEMMA RenameFresh ==
    ASSUME Disciplined, Shape, Fresh, NEW p0 \in Paths, NEW q0 \in Paths, Rename(p0, q0)
    PROVE  Fresh'
<1> SUFFICES ASSUME NEW p \in Paths, Trusted(p)', NEW q \in ChildrenOf(p)
             PROVE  Right(p, q)'
  BY DEF Fresh, ChildrenOf
<1> DEFINE dir == ParentPath(p0)
<1>1. /\ UNCHANGED <<added, known, dirty>> /\ pc = "idle" /\ p0 # Root /\ q0 # Root
      /\ ParentPath(q0) = dir /\ goal' = dir /\ pc' = "walk" /\ what' = "rename"
      /\ disk' = [disk EXCEPT ![known[p0]] = Moved(@, p0, q0)]
  BY DEF Rename, RenameAllowed, MayRename, IsRoot, Call, cache
<1>2. Trusted(p) /\ ~IsPrefix(dir, p)
  BY <1>1 DEF Trusted, Live, Entries, Renaming
<1>3. p0 \in ChildrenOf(dir) /\ q0 \in ChildrenOf(dir)
  BY <1>1 DEF ChildrenOf
<1> HIDE DEF dir
<1>4. ASSUME NEW r \in ChildrenOf(dir), IsPrefix(r, q) PROVE FALSE
  <2>1. r \in Strings /\ dir \in Strings /\ IsPrefix(dir, r) /\ ParentPath(r) = dir
    BY ChildIs
  <2>2. CASE r = q
    BY <1>2, <2>1, <2>2, ChildIs, PrefixReflexive
  <2>3. CASE r # q
    <3>1. IsPrefix(r, p) /\ p \in Strings
      BY <1>4, <2>1, <2>3, ChildIs DEF IsStrictPrefix
    <3> QED
      BY <1>2, <2>1, <3>1, PrefixTransitive
  <2> QED
    BY <2>2, <2>3
<1>5. ~IsPrefix(p0, q) /\ ~IsPrefix(q0, q) /\ q \in Paths
  BY <1>3, <1>4, ChildIs
<1>6. \A s \in Systems : disk'[s][q] = disk[s][q]
  BY <1>1, <1>5 DEF Moved, Shape, DiskOK
<1>7. Halved(p) => Halved(p)'
  BY DEF Rename, cache, Halved
<1> QED
  BY <1>1, <1>2, <1>6, <1>7, FreshKeeps

LEMMA FreshStep ==
    ASSUME Disciplined, Shape, Fresh, [Next]_vars
    PROVE  Fresh'
<1>1. ASSUME UNCHANGED <<disk, added, known, halved>>, NEW r \in Paths,
             Invalidated(r) \/ UNCHANGED dirty,
             \A p \in Paths : Renaming(p) /\ ~Renaming(p)' => Invalidated(r) /\ IsPrefix(r, p)
      PROVE  Fresh'
  <2> SUFFICES ASSUME NEW p \in Paths, Trusted(p)', NEW q \in ChildrenOf(p)
               PROVE  Right(p, q)'
    BY DEF Fresh, ChildrenOf
  <2>1. Live(p) /\ ~dirty[p] /\ (Invalidated(r) => ~IsPrefix(r, p))
    BY <1>1, TrustedBefore DEF Shape
  <2>2. Trusted(p)
    BY <1>1, <2>1 DEF Trusted
  <2> QED
    BY <1>1, <2>2, FreshKeeps DEF Halved
<1>2. Root \in Paths /\ at \in Paths /\ at \in Entries
  BY PathsAssumption DEF Shape, ControlOK, Entries
<1>3. ASSUME UNCHANGED <<disk, added, cache>>, \A p \in Paths : Renaming(p) => Renaming(p)'
      PROVE  Fresh'
  BY <1>1, <1>2, <1>3 DEF cache
<1>4. CASE Request
  <2>1. pc = "idle"
    <3> SUFFICES ASSUME pc # "idle" PROVE FALSE
      OBVIOUS
    <3>1. \A p, q : ~(GetChild(p, q) \/ DeleteChild(p, q) \/ Rename(p, q) \/ RenameFails(p, q))
      BY DEF GetChild, DeleteChild, Rename, RenameFails, Call
    <3>2. \A p, q, type : ~(CreateEntry(p, type, q) \/ CreateFails(p, type, q))
      BY DEF CreateEntry, CreateFails, Call
    <3>3. \A p, m, n : ~(ListChildren(p) \/ Open(p, m) \/ PopulateEntries(n))
      BY DEF ListChildren, Open, PopulateEntries, Call
    <3> QED
      BY <1>4, <3>1, <3>2, <3>3 DEF Request
  <2>2. \A p \in Paths : ~Renaming(p)
    BY <1>4, <2>1 DEF Renaming
  <2>3. ASSUME NEW p \in Paths, NEW q \in Paths, Rename(p, q) PROVE Fresh'
    BY <2>3, RenameFresh
  <2>4. ASSUME NEW p \in Paths, NEW q \in Paths, NEW type \in EntryType, CreateEntry(p, type, q)
        PROVE  Fresh'
    BY <2>4, CreateFresh
  <2>5. ASSUME NEW p \in Paths, ListChildren(p) PROVE Fresh'
    <3>1. CASE Pass({p})
      BY <2>2, <2>5, <3>1, PassFresh DEF ListChildren, Call
    <3> QED
      BY <1>3, <2>2, <2>5, <3>1 DEF ListChildren
  <2> QED
    BY <1>3, <1>4, <2>2, <2>3, <2>4, <2>5 DEF Request, GetChild, DeleteChild, RenameFails,
       CreateFails, Open, PopulateEntries
<1>5. CASE AddFileSystem
  <2>1. dirty'[Root]
    BY <1>5 DEF AddFileSystem, MayAdd, cache
  <2>2. ASSUME NEW p \in Paths, Trusted(p)' PROVE FALSE
    BY <2>1, <2>2, PathsAreStrings, PathsAssumption, RootPrefix DEF Trusted, Live, IsStrictPrefix
  <2> QED
    BY <2>2 DEF Fresh
<1>6. CASE PassOnTheWay
  BY <1>2, <1>6, PassFresh DEF PassOnTheWay, Renaming, args
<1>7. CASE PopulateLevel
  BY <1>7, PassFresh DEF PopulateLevel, Renaming, Shape, CallInv
<1>8. CASE NothingThere
  <2>1. what = "rename" => Invalidated(Root)
    BY <1>8 DEF NothingThere
  <2>2. \A p \in Paths : Renaming(p) => Invalidated(Root) /\ IsPrefix(Root, p)
    BY <2>1, PathsAreStrings, RootPrefix DEF Renaming
  <2> QED
    BY <1>1, <1>2, <1>8, <2>2 DEF NothingThere
<1>9. CASE DeleteHere
  BY <1>9, DeleteFresh
<1>10. CASE RenameReturns
  <2>1. \A p \in Paths : Renaming(p) => IsPrefix(at, p)
    BY <1>10 DEF RenameReturns, Arrived, Renaming
  <2> QED
    BY <1>1, <1>2, <1>10, <2>1 DEF RenameReturns
<1>11. CASE GoDown
  BY <1>3, <1>11 DEF GoDown, Renaming, args
<1>12. CASE GetChildReturns \/ DeleteThrows
  <2>1. what # "rename"
    BY <1>12 DEF GetChildReturns, Arrived, DeleteThrows, MayPass
  <2> QED
    BY <1>3, <1>12, <2>1 DEF GetChildReturns, DeleteThrows, Renaming
<1>13. CASE Populated \/ Return
  <2>1. pc # "walk"
    BY <1>13 DEF Populated, Return
  <2> QED
    BY <1>3, <1>13, <2>1 DEF Populated, Return, Renaming
<1>14. CASE UNCHANGED vars
  BY <1>3, <1>14 DEF vars, Renaming, args
<1> QED
  BY <1>4, <1>5, <1>6, <1>7, <1>8, <1>9, <1>10, <1>11, <1>12, <1>13, <1>14 DEF Next

-----------------------------------------------------------------------------
(***************************************************************************)
(* What the calls return.                                                  *)
(***************************************************************************)
(* How a call comes to its end, and which steps find it there.             *)
LEMMA LastStep ==
    ASSUME CallInv, [Next]_vars, pc' = "done"
    PROVE  /\ what' = "getChild" /\ outcome' # InvalidOperation =>
                GetChildReturns \/ NothingThere \/ UNCHANGED vars
           /\ what' = "deleteChild" /\ outcome' \in {"true", "false"} =>
                DeleteHere \/ NothingThere \/ UNCHANGED vars
           /\ what' = "open" => UNCHANGED vars \/ \E p \in Paths, m \in Modes : Open(p, m)
<1>1. CASE Request
  <2>1. ASSUME NEW p \in Paths, NEW q \in Paths, GetChild(p, q)
        PROVE  what' = "getChild" /\ outcome' = InvalidOperation
    BY <2>1 DEF GetChild, Call, Finish
  <2>2. ASSUME NEW p \in Paths, NEW q \in Paths, DeleteChild(p, q)
        PROVE  what' = "deleteChild" /\ outcome' \notin {"true", "false"}
    BY <2>2 DEF DeleteChild, Call, Finish, InvalidOperation
  <2>3. ASSUME NEW p \in Paths, NEW q \in Paths, Rename(p, q) \/ RenameFails(p, q)
        PROVE  what' = "rename"
    BY <2>3 DEF Rename, RenameFails, Call
  <2>4. ASSUME NEW p \in Paths, NEW q \in Paths, NEW type \in EntryType,
               CreateEntry(p, type, q) \/ CreateFails(p, type, q)
        PROVE  what' = "createEntry"
    BY <2>4 DEF CreateEntry, CreateFails, Call
  <2>5. ASSUME NEW p \in Paths, ListChildren(p) PROVE what' = "listChildren"
    BY <2>5 DEF ListChildren, Call
  <2>6. ASSUME NEW n \in 0..2, PopulateEntries(n) PROVE FALSE
    BY <2>6 DEF PopulateEntries
  <2>7. ASSUME NEW p \in Paths, NEW m \in Modes, Open(p, m) PROVE what' = "open"
    BY <2>7 DEF Open, Call
  <2> QED
    BY <1>1, <2>1, <2>2, <2>3, <2>4, <2>5, <2>6, <2>7 DEF Request
<1>2. CASE AddFileSystem \/ PassOnTheWay \/ GoDown \/ PopulateLevel \/ Return
  BY <1>2 DEF AddFileSystem, PassOnTheWay, OnTheWay, GoDown, PopulateLevel, Return
<1>3. CASE NothingThere
  <2>1. what' # "open"
    BY <1>3 DEF NothingThere, args, OnTheWay, CallInv
  <2> QED
    BY <1>3, <2>1
<1>4. CASE GetChildReturns
  BY <1>4 DEF GetChildReturns, Arrived
<1>5. CASE DeleteThrows
  BY <1>5 DEF DeleteThrows, MayPass, Finish, args, InvalidOperation
<1>6. CASE DeleteHere
  BY <1>6 DEF DeleteHere, Arrived
<1>7. CASE RenameReturns
  BY <1>7 DEF RenameReturns, Arrived, args
<1>8. CASE Populated
  BY <1>8 DEF Populated, args, CallInv
<1> QED
  BY <1>1, <1>2, <1>3, <1>4, <1>5, <1>6, <1>7, <1>8 DEF Next

(* What supplies nothing at a path supplies nothing below it.              *)
LEMMA NoneBelow ==
    ASSUME Shape, NEW p \in Paths, NEW q \in Paths, IsPrefix(p, q), Supplies(0, p)
    PROVE  Supplies(0, q)
<1>1. \A r \in With(OP_READ) : r \in Systems /\ r \in 1..added /\ added \in Nat
  BY WithIs, SystemsAre DEF Shape, CacheOK
<1>2. ASSUME NEW r \in With(OP_READ) PROVE disk[r][q] = UNKNOWN
  <2>1. disk[r][p] = UNKNOWN
    BY <1>1 DEF Supplies
  <2>2. IsTree(disk[r])
    BY <1>1 DEF Shape, DiskOK
  <2> QED
    BY <2>1, <2>2, NothingBelow DEF Exists, UNKNOWN, DIRECTORY
<1> QED
  BY <1>2 DEF Supplies

(* Where the walk finds nothing on its way, no system supplies its goal.   *)
LEMMA NothingThereIs ==
    ASSUME Shape, Fresh, NothingThere, what # "rename", Live(at)
    PROVE  Supplies(0, goal)
<1>1. pc = "walk" /\ at # goal /\ ~dirty[at] /\ known[NextOnTheWay] = 0
  BY DEF NothingThere, OnTheWay
<1>2. IsPrefix(at, goal) /\ at \in Paths /\ goal \in Paths
  BY <1>1 DEF Shape, CallInv, ControlOK, Entries
<1>3. /\ NextOnTheWay \in Paths /\ NextOnTheWay \in ChildrenOf(at)
      /\ IsPrefix(NextOnTheWay, goal)
  BY <1>1, <1>2, NextOnPath DEF NextOnTheWay, ChildrenOf
<1>4. Trusted(at)
  BY <1>1 DEF Trusted, Renaming
<1>5. Supplies(0, NextOnTheWay)
  BY <1>1, <1>2, <1>3, <1>4 DEF Fresh, Right
<1> QED
  BY <1>2, <1>3, <1>5, NoneBelow

LEMMA LookupStep ==
    ASSUME Disciplined, Shape, Fresh, LookupIsCurrent, [Next]_vars
    PROVE  LookupIsCurrent'
<1> SUFFICES ASSUME pc' = "done", what' = "getChild", outcome' # InvalidOperation, Live(at)'
             PROVE  (Supplies(answer, goal) \/ (answer # 0 /\ Halved(ParentPath(goal))))'
  BY DEF LookupIsCurrent
<1>1. CASE UNCHANGED vars
  BY <1>1 DEF vars, cache, args, LookupIsCurrent, Live, Entries, Supplies, With, Halved
<1>2. CASE GetChildReturns
  <2>1. /\ UNCHANGED <<disk, added, known, dirty, halved, at, goal>>
        /\ what = "getChild" /\ pc = "walk"
        /\ answer' = known[goal] /\ at = goal
    BY <1>2 DEF GetChildReturns, Arrived, cache
  <2>2. goal \in Paths /\ goal # Root /\ goal \in ChildrenOf(ParentPath(goal))
    BY <2>1 DEF Shape, ControlOK, CallInv, ChildrenOf
  <2>3. Live(goal)
    BY <2>1 DEF Live, Entries
  <2>4. ParentPath(goal) \in Paths /\ IsStrictPrefix(ParentPath(goal), goal)
        /\ ParentPath(goal) \in Strings /\ goal \in Strings
    BY <2>2, ChildIs
  <2>5. Trusted(ParentPath(goal))
    <3>1. ParentPath(goal) \in Entries
      BY <2>2, <2>3 DEF Live, Shape, CacheOK
    <3>2. ASSUME NEW r \in Paths, IsStrictPrefix(r, ParentPath(goal)) PROVE IsStrictPrefix(r, goal)
      <4>1. r \in Strings /\ IsPrefix(r, goal)
        BY <2>4, <3>2, PathsAreStrings, PrefixTransitive DEF IsStrictPrefix
      <4>2. r # goal
        BY <2>2, <2>4, <3>2, ChildIs DEF IsStrictPrefix
      <4> QED
        BY <4>1, <4>2 DEF IsStrictPrefix
    <3>3. ~dirty[ParentPath(goal)] /\ ~Renaming(ParentPath(goal))
      BY <2>1, <2>3, <2>4 DEF Live, Renaming
    <3> QED
      BY <2>3, <3>1, <3>2, <3>3 DEF Trusted, Live
  <2>6. Right(ParentPath(goal), goal)
    BY <2>2, <2>4, <2>5 DEF Fresh
  <2> QED
    BY <2>1, <2>6 DEF Right, Supplies, With, Halved
<1>3. CASE NothingThere
  <2>1. /\ UNCHANGED <<disk, added, at, goal, answer, dirty, known>> /\ what = "getChild"
    BY <1>3 DEF NothingThere, args
  <2>2. answer = 0 /\ goal \in Paths
    BY <1>3 DEF NothingThere, OnTheWay, Shape, CallInv, ControlOK
  <2>3. Live(at)
    BY <2>1 DEF Live, Entries
  <2>4. Supplies(0, goal)
    BY <1>3, <2>1, <2>3, NothingThereIs
  <2> QED
    BY <2>1, <2>2, <2>4 DEF Supplies, With
<1> QED
  BY <1>1, <1>2, <1>3, LastStep DEF Shape

LEMMA DeletedStep ==
    ASSUME Disciplined, Shape, Fresh, DeletedUnlessRefused, [Next]_vars
    PROVE  DeletedUnlessRefused'
<1> SUFFICES ASSUME pc' = "done", what' = "deleteChild", outcome' \in {"true", "false"}, Live(at)',
                    NEW s \in (With(OP_DELETE)' \cap With(OP_READ)') \ refused',
                    NEW p \in Subtree(name')
             PROVE  ~Exists(disk'[s], p)
  BY DEF DeletedUnlessRefused, Subtree
<1>1. CASE UNCHANGED vars
  BY <1>1 DEF vars, args, cache, DeletedUnlessRefused, With, Subtree, Live, Entries
<1>2. CASE DeleteHere
  <2>1. /\ name' = name /\ With(OP_DELETE)' = With(OP_DELETE) /\ s \in Systems
        /\ name \in Paths
    BY <1>2, WithIs DEF DeleteHere, With, Shape, ControlOK
  <2>2. p \in Paths /\ IsPrefix(name, p)
    BY <2>1 DEF Subtree
  <2>3. PICK rest \in [DeletesIn(name) -> SUBSET Subtree(name)] :
            /\ disk' = [r \in Systems |->
                           IF r \in DeletesIn(name)
                           THEN [q \in Paths |-> IF IsPrefix(name, q) /\ q \notin rest[r]
                                                 THEN UNKNOWN ELSE disk[r][q]]
                           ELSE disk[r]]
            /\ refused' = {r \in DeletesIn(name) : rest[r] # {}}
    BY <1>2, DeleteHereIs
  <2>4. CASE s \in DeletesIn(name)
    BY <2>1, <2>2, <2>3, <2>4 DEF Exists
  <2>5. CASE s \notin DeletesIn(name)
    <3>1. ~Exists(disk[s], name) /\ IsTree(disk[s])
      BY <2>1, <2>5 DEF DeletesIn, Shape, DiskOK
    <3>2. ~Exists(disk[s], p)
      BY <2>1, <2>2, <3>1, NothingBelow DEF Exists, UNKNOWN, DIRECTORY
    <3> QED
      BY <2>1, <2>3, <2>5, <3>2
  <2> QED
    BY <2>4, <2>5
<1>3. CASE NothingThere
  <2>1. /\ UNCHANGED <<disk, added, at, goal, name, known, dirty>> /\ what = "deleteChild"
        /\ With(OP_READ)' = With(OP_READ) /\ pc = "walk"
    BY <1>3 DEF NothingThere, OnTheWay, args, With
  <2>2. name \in Paths /\ name # Root /\ goal = ParentPath(name) /\ goal \in Paths
    BY <2>1 DEF Shape, CallInv, ControlOK
  <2>3. Supplies(0, goal)
    BY <1>3, <2>1, NothingThereIs DEF Live, Entries
  <2>4. p \in Paths /\ IsPrefix(goal, p)
    <3>1. p \in Paths /\ IsPrefix(name, p)
      BY <2>1 DEF Subtree
    <3> QED
      BY <2>2, <3>1, PathsAreStrings, ParentPrefix, PrefixTransitive
  <2>5. Supplies(0, p)
    BY <2>2, <2>3, <2>4, NoneBelow
  <2>6. s \in With(OP_READ) /\ 0 \notin With(OP_READ)
    BY <2>1, WithIs DEF Shape, Systems
  <2> QED
    BY <2>1, <2>5, <2>6 DEF Supplies, Exists
<1> QED
  BY <1>1, <1>2, <1>3, LastStep DEF Shape

(* The first of the systems open has left to try is s or one before it,    *)
(* and has all the operations of the mode.                                 *)
LEMMA OpenStep ==
    ASSUME Shape, OpenFallsBack, [Next]_vars
    PROVE  OpenFallsBack'
<1> SUFFICES ASSUME pc' = "done", what' = "open", TypeOf(at)' = FILE, ModeToOperation(mode') # {},
                    NEW s \in (1..added') \ refused', OpensIn(s, at, mode)',
                    \A r \in Tries(at, mode)' : r < s => OpensIn(r, at, mode)'
             PROVE  outcome' = Returned
  BY DEF OpenFallsBack
<1>1. CASE UNCHANGED vars
  <2>1. /\ pc = "done" /\ what = "open" /\ TypeOf(at) = FILE /\ ModeToOperation(mode) # {}
        /\ s \in (1..added) \ refused /\ OpensIn(s, at, mode)
        /\ Tries(at, mode)' = Tries(at, mode) /\ outcome' = outcome
    BY <1>1 DEF vars, args, cache, TypeOf, OpensIn, Tries
  <2>2. \A r \in Tries(at, mode) : r < s => OpensIn(r, at, mode)
    BY <1>1, <2>1 DEF vars, args, OpensIn
  <2> QED
    BY <2>1, <2>2 DEF OpenFallsBack
<1>2. ASSUME NEW p \in Paths, NEW m \in Modes, Open(p, m)
      PROVE  outcome' = Returned
  <2>1. /\ at' = p /\ mode' = m /\ UNCHANGED <<disk, added, known>>
        /\ outcome' = OpenResult(p, m, refused')
    BY <1>2 DEF Open, Call, Finish, cache
  <2>2. /\ TypeOf(p) = FILE /\ OpensIn(s, p, m) /\ s \in (1..added) \ refused'
        /\ ModeToOperation(m) # {}
    BY <2>1 DEF TypeOf, OpensIn
  <2>3. \A r \in Tries(p, m) : r < s => OpensIn(r, p, m)
    BY <2>1 DEF Tries, OpensIn
  <2>4. Supported \cap ModeToOperation(m) # {}
    <3>1. ModeToOperation(m) \subseteq Operations
      BY DEF ModeToOperation, Operations
    <3> QED
      BY <2>2, <3>1 DEF Supported, With, OpensIn
  <2>5. s \in Left(p, m, refused') /\ Left(p, m, refused') \subseteq Tries(p, m)
    BY <2>2 DEF Left, Tries, OpensIn
  <2>6. Tries(p, m) \subseteq Nat
    BY SystemsAre DEF Tries, Shape, CacheOK
  <2>7. PICK first \in Left(p, m, refused') : IsFirst(first, Left(p, m, refused'))
    BY <2>5, <2>6, FirstExists
  <2>8. OpensIn(first, p, m)
    <3>1. first <= s /\ first \in Nat /\ s \in Nat /\ first \in Tries(p, m)
      BY <2>5, <2>6, <2>7 DEF IsFirst
    <3> QED
      BY <2>2, <2>3, <3>1
  <2> QED
    BY <2>1, <2>2, <2>4, <2>5, <2>7, <2>8 DEF OpenResult
<1> QED
  BY <1>1, <1>2, LastStep DEF Shape

-----------------------------------------------------------------------------
(***************************************************************************)
(* The theorems.                                                           *)
(***************************************************************************)
LEMMA ShapeInvariance == Spec => []Shape
  BY ShapeInit, ShapeStep, PTL DEF Spec

(* Whatever calls a client makes: the disks stay trees with a directory at *)
(* the root, the cached entries a tree of their own with a system for each *)
(* of them, and every call works on an entry the cache holds.              *)
THEOREM TypeCorrect == Spec => []TypeOK
<1>1. Shape => TypeOK
  BY DEF Shape, DiskOK, CacheOK, ControlOK, TypeOK
<1> QED
  BY <1>1, ShapeInvariance, PTL

(* Every clean entry with no dirty one above it has cached, for each of    *)
(* its children, the first readable system that has it, for any systems    *)
(* and any calls of a client that renames within a directory and adds file *)
(* systems while the root is dirty (cacheChildren and every dirty = true). *)
(* Below what a failed deletion has left behind it misses none.            *)
THEOREM CacheStaysFresh == Spec => []CacheFresh
<1>1. CASE ~Disciplined
  <2>1. CacheFresh
    BY <1>1 DEF CacheFresh
  <2> QED
    BY <2>1, PTL
<1>2. CASE Disciplined
  <2>1. Init => Fresh
    BY DEF Init, Fresh, Trusted
  <2>2. Shape /\ Fresh /\ [Next]_vars => Fresh'
    BY <1>2, FreshStep
  <2>3. Fresh => CacheFresh
    BY DEF Fresh, Right, Trusted, CacheFresh
  <2> QED
    BY <2>1, <2>2, <2>3, ShapeInvariance, PTL DEF Spec
<1> QED
  BY <1>1, <1>2

(* getChild answers, through any number of cached levels, with the first   *)
(* readable system that has the path, and with null only when none has;    *)
(* only below what a failed deletion has left can it find what is gone.    *)
THEOREM LookupsAreCurrent == Spec => []LookupIsCurrent
<1>1. CASE ~Disciplined
  <2>1. LookupIsCurrent
    BY <1>1 DEF LookupIsCurrent
  <2> QED
    BY <2>1, PTL
<1>2. CASE Disciplined
  <2>1. Init => Fresh /\ LookupIsCurrent
    BY DEF Init, Fresh, Trusted, LookupIsCurrent
  <2>2. Shape /\ Fresh /\ LookupIsCurrent /\ [Next]_vars => (Fresh /\ LookupIsCurrent)'
    BY <1>2, FreshStep, LookupStep
  <2> QED
    BY <2>1, <2>2, ShapeInvariance, PTL DEF Spec
<1> QED
  BY <1>1, <1>2

(* Once deleteChild has returned, whether it walked to the directory or    *)
(* found on its way that nothing is there, a system that can be read and   *)
(* allows deleting has nothing of the name, unless its deletion threw.     *)
THEOREM DeletedFromAll == Spec => []DeletedUnlessRefused
<1>1. CASE ~Disciplined
  <2>1. DeletedUnlessRefused
    BY <1>1 DEF DeletedUnlessRefused
  <2> QED
    BY <2>1, PTL
<1>2. CASE Disciplined
  <2>1. Init => Fresh /\ DeletedUnlessRefused
    BY DEF Init, Fresh, Trusted, DeletedUnlessRefused
  <2>2. Shape /\ Fresh /\ DeletedUnlessRefused /\ [Next]_vars => (Fresh /\ DeletedUnlessRefused)'
    BY <1>2, FreshStep, DeletedStep
  <2> QED
    BY <2>1, <2>2, ShapeInvariance, PTL DEF Spec
<1> QED
  BY <1>1, <1>2

(* For any modes, and whichever systems fail: open succeeds when some      *)
(* system opens the file and none before it has only a part of the         *)
(* operations the mode asks for.                                           *)
THEOREM CapableSystemIsFound == Spec => []OpenFallsBack
<1>1. Init => OpenFallsBack
  BY DEF Init, OpenFallsBack
<1>2. Shape /\ OpenFallsBack /\ [Next]_vars => OpenFallsBack'
  BY OpenStep
<1> QED
  BY <1>1, <1>2, ShapeInvariance, PTL DEF Spec
=============================================================================
