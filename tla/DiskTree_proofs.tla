--------------------------- MODULE DiskTree_proofs ---------------------------
(***************************************************************************)
(* Facts about paths and trees: prefixes, and that making, removing and    *)
(* moving keep a tree a tree.                                              *)
(***************************************************************************)
EXTENDS DiskTree, SequenceTheorems, WellFoundedInduction, TLAPS

Strings == Seq(STRING)

LEMMA PathsAreStrings == Paths \subseteq Strings
  BY PathsAssumption DEF Strings

(* A prefix agrees with the whole wherever it has a component.             *)
LEMMA PrefixIs ==
    ASSUME NEW p \in Strings, NEW q \in Strings
    PROVE  IsPrefix(p, q) <=> Len(p) <= Len(q) /\ \A i \in 1..Len(p) : p[i] = q[i]
<1>1. Len(p) \in Nat /\ Len(q) \in Nat
  BY DEF Strings
<1>2. SubSeq(p, 1, Len(p)) = p
  BY SubSeqFull DEF Strings
<1>3. CASE Len(p) <= Len(q)
  <2>1. \A i \in 1..Len(p) : q[i] \in STRING
    BY <1>1, <1>3 DEF Strings
  <2>2. /\ SubSeq(q, 1, Len(p)) \in Strings
        /\ Len(SubSeq(q, 1, Len(p))) = Len(p)
        /\ \A i \in 1..Len(p) : SubSeq(q, 1, Len(p))[i] = q[i]
    BY <1>1, <2>1, SubSeqProperties DEF Strings
  <2>3. SubSeq(q, 1, Len(p)) = p <=> \A i \in 1..Len(p) : p[i] = q[i]
    BY <2>2, SeqEqual DEF Strings
  <2> QED
    BY <1>2, <1>3, <2>3 DEF IsPrefix
<1>4. CASE ~(Len(p) <= Len(q))
  BY <1>4 DEF IsPrefix
<1> QED
  BY <1>3, <1>4

LEMMA PrefixReflexive ==
    ASSUME NEW p \in Strings
    PROVE  IsPrefix(p, p)
  BY PrefixIs DEF Strings

LEMMA PrefixTransitive ==
    ASSUME NEW p \in Strings, NEW q \in Strings, NEW r \in Strings,
           IsPrefix(p, q), IsPrefix(q, r)
    PROVE  IsPrefix(p, r)
<1>1. Len(p) \in Nat /\ Len(q) \in Nat /\ Len(r) \in Nat
  BY DEF Strings
<1> QED
  BY <1>1, PrefixIs

(* Of two prefixes of one path one is a prefix of the other.               *)
LEMMA PrefixesCompare ==
    ASSUME NEW p \in Strings, NEW q \in Strings, NEW r \in Strings,
           IsPrefix(p, r), IsPrefix(q, r)
    PROVE  IsPrefix(p, q) \/ IsPrefix(q, p)
<1>1. Len(p) \in Nat /\ Len(q) \in Nat /\ Len(r) \in Nat
  BY DEF Strings
<1> QED
  BY <1>1, PrefixIs

LEMMA ParentIs ==
    ASSUME NEW p \in Strings, p # Root
    PROVE  /\ ParentPath(p) \in Strings
           /\ Len(p) \in Nat \ {0}
           /\ Len(ParentPath(p)) = Len(p) - 1
           /\ \A i \in 1..(Len(p) - 1) : ParentPath(p)[i] = p[i]
<1>1. Len(p) \in Nat \ {0}
  BY EmptySeq DEF Strings, Root
<1>2. PICK n \in Nat : n = Len(p) - 1
  BY <1>1
<1>3. /\ SubSeq(p, 1, n) \in Strings
      /\ Len(SubSeq(p, 1, n)) = n
      /\ \A i \in 1..n : SubSeq(p, 1, n)[i] = p[i]
  <2>1. \A i \in 1..n : p[i] \in STRING
    BY <1>1, <1>2 DEF Strings
  <2>2. /\ SubSeq(p, 1, n) \in Seq(STRING)
        /\ Len(SubSeq(p, 1, n)) = IF 1 <= n THEN n - 1 + 1 ELSE 0
        /\ \A i \in 1..(n - 1 + 1) : SubSeq(p, 1, n)[i] = p[1 + i - 1]
    BY <2>1, SubSeqProperties
  <2> QED
    BY <2>2 DEF Strings
<1> QED
  BY <1>1, <1>2, <1>3 DEF ParentPath

(* The parent is the longest of the prefixes that are not all of it.       *)
LEMMA ParentPrefix ==
    ASSUME NEW p \in Strings, p # Root
    PROVE  /\ ParentPath(p) \in Strings
           /\ IsPrefix(ParentPath(p), p)
           /\ ~IsPrefix(p, ParentPath(p))
           /\ \A q \in Strings : IsPrefix(q, p) /\ q # p => IsPrefix(q, ParentPath(p))
<1>1. /\ ParentPath(p) \in Strings /\ Len(p) \in Nat \ {0}
      /\ Len(ParentPath(p)) = Len(p) - 1
      /\ \A i \in 1..(Len(p) - 1) : ParentPath(p)[i] = p[i]
  BY ParentIs
<1>2. IsPrefix(ParentPath(p), p) /\ ~IsPrefix(p, ParentPath(p))
  BY <1>1, PrefixIs
<1>3. ASSUME NEW q \in Strings, IsPrefix(q, p), q # p
      PROVE  IsPrefix(q, ParentPath(p))
  <2>1. Len(q) \in Nat /\ Len(q) <= Len(p) /\ \A i \in 1..Len(q) : q[i] = p[i]
    BY <1>3, PrefixIs DEF Strings
  <2>2. Len(q) # Len(p)
    BY <1>3, <2>1, SeqEqual DEF Strings
  <2> QED
    BY <1>1, <2>1, <2>2, PrefixIs
<1> QED
  BY <1>1, <1>2, <1>3

LEMMA RootPrefix ==
    ASSUME NEW p \in Strings
    PROVE  /\ Root \in Strings /\ IsPrefix(Root, p)
           /\ IsPrefix(p, Root) => p = Root
<1>1. Root \in Strings /\ Len(Root) = 0 /\ Len(p) \in Nat
  BY DEF Root, Strings
<1>2. IsPrefix(Root, p)
  BY <1>1, PrefixIs
<1>3. ASSUME IsPrefix(p, Root) PROVE p = Root
  <2>1. Len(p) = 0
    BY <1>1, <1>3, PrefixIs
  <2> QED
    BY <2>1, EmptySeq DEF Root, Strings
<1> QED
  BY <1>1, <1>2, <1>3

-----------------------------------------------------------------------------
LEMMA LeastNumber ==
    ASSUME NEW S, S \subseteq Nat, S # {}
    PROVE  \E n \in S : \A m \in S : n <= m
<1>1. \E n \in S : \A m \in S : <<m, n>> \notin OpToRel(<, Nat)
  BY NatLessThanWellFounded, WFMin
<1>2. PICK n \in S : \A m \in S : <<m, n>> \notin OpToRel(<, Nat)
  BY <1>1
<1>3. \A m \in S : ~(m < n)
  BY <1>2 DEF OpToRel
<1> QED
  BY <1>3

(* The prefixes of a path that occurs occur.                               *)
LEMMA PrefixInPaths ==
    ASSUME NEW p \in Strings, NEW q \in Paths, IsPrefix(p, q)
    PROVE  p \in Paths
<1> DEFINE Above == {r \in Paths : IsPrefix(p, r)}
<1>1. PICK n \in {Len(r) : r \in Above} : \A m \in {Len(r) : r \in Above} : n <= m
  <2>1. {Len(r) : r \in Above} \subseteq Nat
    BY PathsAreStrings DEF Strings
  <2>2. q \in Above
    OBVIOUS
  <2> QED
    BY <2>1, <2>2, LeastNumber
<1>2. PICK r \in Above : n = Len(r)
  BY <1>1
<1>3. CASE r = p
  BY <1>3
<1>4. CASE r # p
  <2>1. r \in Strings
    BY PathsAreStrings
  <2>2. r # Root
    BY <1>4, RootPrefix
  <2>3. ParentPath(r) \in Above /\ Len(ParentPath(r)) < Len(r)
    BY <1>4, <2>1, <2>2, ParentPrefix, ParentIs, PathsAssumption
  <2> QED
    BY <1>1, <1>2, <2>1, <2>3 DEF Strings
<1> QED
  BY <1>3, <1>4

(* The next component on the way from p down to q.                         *)
LEMMA NextOnPath ==
    ASSUME NEW p \in Paths, NEW q \in Paths, IsPrefix(p, q), p # q
    PROVE  /\ SubSeq(q, 1, Len(p) + 1) \in Paths
           /\ SubSeq(q, 1, Len(p) + 1) # Root
           /\ ParentPath(SubSeq(q, 1, Len(p) + 1)) = p
           /\ IsPrefix(SubSeq(q, 1, Len(p) + 1), q)
<1>1. p \in Strings /\ q \in Strings
  BY PathsAreStrings
<1>2. /\ Len(p) \in Nat /\ Len(q) \in Nat /\ Len(p) <= Len(q)
      /\ \A i \in 1..Len(p) : p[i] = q[i]
  BY <1>1, PrefixIs DEF Strings
<1>3. Len(p) # Len(q)
  BY <1>1, <1>2, SeqEqual DEF Strings
<1>4. PICK n \in Nat : n = Len(p) + 1
  BY <1>2
<1> DEFINE next == SubSeq(q, 1, n)
<1>5. next \in Strings /\ Len(next) = n /\ \A i \in 1..n : next[i] = q[i]
  <2>1. \A i \in 1..n : q[i] \in STRING
    BY <1>1, <1>2, <1>3, <1>4 DEF Strings
  <2>2. /\ SubSeq(q, 1, n) \in Seq(STRING)
        /\ Len(SubSeq(q, 1, n)) = IF 1 <= n THEN n - 1 + 1 ELSE 0
        /\ \A i \in 1..(n - 1 + 1) : SubSeq(q, 1, n)[i] = q[1 + i - 1]
    BY <2>1, SubSeqProperties
  <2> QED
    BY <1>2, <1>4, <2>2 DEF Strings
<1> HIDE DEF next
<1>6. IsPrefix(next, q)
  BY <1>1, <1>2, <1>3, <1>4, <1>5, PrefixIs
<1>7. next # Root
  BY <1>2, <1>4, <1>5 DEF Root
<1>8. ParentPath(next) = p
  <2>1. /\ ParentPath(next) \in Strings /\ Len(ParentPath(next)) = n - 1
        /\ \A i \in 1..(n - 1) : ParentPath(next)[i] = next[i]
    BY <1>5, <1>7, ParentIs
  <2> QED
    BY <1>1, <1>2, <1>4, <1>5, <2>1, SeqEqual DEF Strings
<1> QED
  BY <1>4, <1>5, <1>6, <1>7, <1>8, PrefixInPaths DEF next

(* Below what is no directory nothing exists.                              *)
LEMMA NothingBelow ==
    ASSUME NEW tree, IsTree(tree), NEW p \in Paths, tree[p] # DIRECTORY,
           NEW q \in Paths, IsPrefix(p, q), q # p
    PROVE  ~Exists(tree, q)
<1> SUFFICES ASSUME Exists(tree, q)
             PROVE  FALSE
  OBVIOUS
<1> DEFINE Bad == {r \in Paths : IsPrefix(p, r) /\ r # p /\ Exists(tree, r)}
<1>1. PICK n \in {Len(r) : r \in Bad} : \A m \in {Len(r) : r \in Bad} : n <= m
  <2>1. {Len(r) : r \in Bad} \subseteq Nat
    BY PathsAreStrings DEF Strings
  <2>2. q \in Bad
    OBVIOUS
  <2> QED
    BY <2>1, <2>2, LeastNumber
<1>2. PICK r \in Bad : n = Len(r)
  BY <1>1
<1>3. r \in Strings /\ p \in Strings
  BY PathsAreStrings
<1>4. r # Root
  BY <1>3, RootPrefix
<1>5. /\ ParentPath(r) \in Paths /\ tree[ParentPath(r)] = DIRECTORY
      /\ IsPrefix(p, ParentPath(r)) /\ Len(ParentPath(r)) < Len(r)
  BY <1>3, <1>4, ParentPrefix, ParentIs, PathsAssumption DEF IsTree, HasParent
<1>6. ParentPath(r) \in Bad
  BY <1>5 DEF Exists, UNKNOWN, DIRECTORY
<1> QED
  BY <1>1, <1>2, <1>3, <1>5, <1>6 DEF Strings

-----------------------------------------------------------------------------
(* Making a path that is not there, in a directory, keeps the tree.        *)
LEMMA MakeKeepsTree ==
    ASSUME NEW tree \in [Paths -> EntryType], IsTree(tree), NEW p \in Paths, CanMake(tree, p),
           NEW type \in {DIRECTORY, FILE}
    PROVE  IsTree([tree EXCEPT ![p] = type])
<1> DEFINE new == [tree EXCEPT ![p] = type]
<1> SUFFICES ASSUME NEW q \in Paths, Exists(new, q), q # Root
             PROVE  new[ParentPath(q)] = DIRECTORY
  BY DEF IsTree, HasParent
<1>1. ParentPath(q) \in Paths
  BY PathsAssumption
<1>2. CASE q = p
  <2>1. ParentPath(p) # p
    BY <1>2, PathsAreStrings, ParentPrefix
  <2> QED
    BY <1>1, <1>2, <2>1 DEF CanMake, HasParent
<1>3. CASE q # p
  <2>1. tree[ParentPath(q)] = DIRECTORY
    BY <1>3 DEF IsTree, HasParent, Exists
  <2>2. ParentPath(q) # p
    BY <2>1 DEF CanMake, Exists, DIRECTORY, UNKNOWN
  <2> QED
    BY <1>1, <2>1, <2>2
<1> QED
  BY <1>2, <1>3

(* Removing a path without children keeps the tree.                        *)
LEMMA RemoveKeepsTree ==
    ASSUME NEW tree \in [Paths -> EntryType], IsTree(tree), NEW p \in Paths, IsLeaf(tree, p)
    PROVE  IsTree([tree EXCEPT ![p] = UNKNOWN])
<1> DEFINE new == [tree EXCEPT ![p] = UNKNOWN]
<1> SUFFICES ASSUME NEW q \in Paths, Exists(new, q), q # Root
             PROVE  new[ParentPath(q)] = DIRECTORY
  BY DEF IsTree, HasParent
<1>1. ParentPath(q) \in Paths
  BY PathsAssumption
<1>2. q # p /\ Exists(tree, q)
  BY DEF Exists
<1>3. tree[ParentPath(q)] = DIRECTORY
  BY <1>2 DEF IsTree, HasParent
<1>4. ParentPath(q) # p
  BY <1>2 DEF IsLeaf, ChildrenOf
<1> QED
  BY <1>1, <1>3, <1>4

(* Taking away what is below p, but for a part that holds with each path   *)
(* those between p and it, keeps the tree.                                 *)
LEMMA ClearKeepsTree ==
    ASSUME NEW tree \in [Paths -> EntryType], IsTree(tree), NEW p \in Paths,
           NEW rest, \A q \in rest, r \in Subtree(p) : IsPrefix(r, q) => r \in rest
    PROVE  IsTree([q \in Paths |-> IF IsPrefix(p, q) /\ q \notin rest THEN UNKNOWN ELSE tree[q]])
<1> DEFINE new == [q \in Paths |-> IF IsPrefix(p, q) /\ q \notin rest THEN UNKNOWN ELSE tree[q]]
<1> SUFFICES ASSUME NEW q \in Paths, Exists(new, q), q # Root
             PROVE  new[ParentPath(q)] = DIRECTORY
  BY DEF IsTree, HasParent
<1>1. ParentPath(q) \in Paths
  BY PathsAssumption
<1>2. (~IsPrefix(p, q) \/ q \in rest) /\ Exists(tree, q)
  BY DEF Exists
<1>3. tree[ParentPath(q)] = DIRECTORY
  BY <1>2 DEF IsTree, HasParent
<1>4. IsPrefix(p, ParentPath(q)) => IsPrefix(p, q)
  BY <1>1, PathsAreStrings, ParentPrefix, PrefixTransitive
<1>5. IsPrefix(p, ParentPath(q)) /\ q \in rest => ParentPath(q) \in rest
  BY <1>1, PathsAreStrings, ParentPrefix DEF Subtree
<1> QED
  BY <1>1, <1>2, <1>3, <1>4, <1>5

-----------------------------------------------------------------------------
(* Rebase puts to in the place of the prefix from.                         *)
LEMMA RebaseIs ==
    ASSUME NEW from \in Strings, NEW to \in Strings, NEW q \in Strings, IsPrefix(from, q)
    PROVE  /\ Rebase(q, from, to) \in Strings
           /\ Len(Rebase(q, from, to)) = Len(to) + Len(q) - Len(from)
           /\ \A i \in 1..(Len(to) + Len(q) - Len(from)) :
                Rebase(q, from, to)[i] = IF i <= Len(to) THEN to[i]
                                         ELSE q[Len(from) + (i - Len(to))]
<1>1. Len(from) \in Nat /\ Len(to) \in Nat /\ Len(q) \in Nat /\ Len(from) <= Len(q)
  BY PrefixIs DEF Strings
<1>2. PICK m \in Nat, n \in Nat : m = Len(from) + 1 /\ n = Len(q)
  BY <1>1
<1> DEFINE rest == SubSeq(q, m, n)
<1>3. /\ rest \in Seq(STRING) /\ Len(rest) = Len(q) - Len(from)
      /\ \A i \in 1..(Len(q) - Len(from)) : rest[i] = q[Len(from) + i]
  <2>1. \A i \in m..n : q[i] \in STRING
    BY <1>1, <1>2 DEF Strings
  <2>2. /\ rest \in Seq(STRING)
        /\ Len(rest) = IF m <= n THEN n - m + 1 ELSE 0
        /\ \A i \in 1..(n - m + 1) : rest[i] = q[m + i - 1]
    BY <2>1, SubSeqProperties
  <2> HIDE DEF rest
  <2>3. Len(rest) = Len(q) - Len(from)
    BY <1>1, <1>2, <2>2
  <2>4. ASSUME NEW i \in 1..(Len(q) - Len(from)) PROVE rest[i] = q[Len(from) + i]
    <3>1. i \in 1..(n - m + 1) /\ m + i - 1 = Len(from) + i
      BY <1>1, <1>2
    <3> QED
      BY <2>2, <3>1
  <2> QED
    BY <2>2, <2>3, <2>4
<1>4. Rebase(q, from, to) = to \o rest
  BY <1>2 DEF Rebase
<1> HIDE DEF rest
<1>5. /\ to \o rest \in Seq(STRING)
      /\ Len(to \o rest) = Len(to) + Len(rest)
      /\ \A i \in 1..(Len(to) + Len(rest)) :
            (to \o rest)[i] = IF i <= Len(to) THEN to[i] ELSE rest[i - Len(to)]
  BY <1>3, ConcatProperties DEF Strings
<1>6. ASSUME NEW i \in 1..(Len(to) + Len(q) - Len(from))
      PROVE  (to \o rest)[i] = IF i <= Len(to) THEN to[i] ELSE q[Len(from) + (i - Len(to))]
  <2>1. i \in 1..(Len(to) + Len(rest))
    BY <1>1, <1>3
  <2>2. CASE i <= Len(to)
    BY <1>5, <2>1, <2>2
  <2>3. CASE ~(i <= Len(to))
    <3>1. i - Len(to) \in 1..(Len(q) - Len(from))
      BY <1>1, <2>3
    <3> QED
      BY <1>3, <1>5, <2>1, <2>3, <3>1
  <2> QED
    BY <2>2, <2>3
<1> QED
  BY <1>1, <1>3, <1>4, <1>5, <1>6 DEF Strings

LEMMA RebaseSame ==
    ASSUME NEW p \in Strings, NEW q \in Strings, IsPrefix(p, q)
    PROVE  Rebase(q, p, p) = q
<1>1. Len(p) \in Nat /\ Len(q) \in Nat /\ Len(p) <= Len(q)
      /\ \A i \in 1..Len(p) : p[i] = q[i]
  BY PrefixIs DEF Strings
<1>2. /\ Rebase(q, p, p) \in Strings /\ Len(Rebase(q, p, p)) = Len(q)
      /\ \A i \in 1..Len(q) : Rebase(q, p, p)[i] = q[i]
  <2>1. /\ Rebase(q, p, p) \in Strings
        /\ Len(Rebase(q, p, p)) = Len(p) + Len(q) - Len(p)
        /\ \A i \in 1..(Len(p) + Len(q) - Len(p)) :
             Rebase(q, p, p)[i] = IF i <= Len(p) THEN p[i]
                                           ELSE q[Len(p) + (i - Len(p))]
    BY RebaseIs
  <2>2. Len(p) + Len(q) - Len(p) = Len(q)
    BY <1>1
  <2>3. ASSUME NEW i \in 1..Len(q) PROVE Rebase(q, p, p)[i] = q[i]
    <3>1. ~(i <= Len(p)) => Len(p) + (i - Len(p)) = i
      BY <1>1
    <3>2. i <= Len(p) => p[i] = q[i]
      BY <1>1
    <3> QED
      BY <2>1, <2>2, <3>1, <3>2
  <2> QED
    BY <2>1, <2>2, <2>3
<1> QED
  BY <1>2, SeqEqual DEF Strings

LEMMA RebaseWhole ==
    ASSUME NEW p \in Strings, NEW to \in Strings
    PROVE  Rebase(p, p, to) = to
<1>1. Len(p) \in Nat /\ Len(to) \in Nat /\ IsPrefix(p, p)
  BY PrefixReflexive DEF Strings
<1>2. /\ Rebase(p, p, to) \in Strings /\ Len(Rebase(p, p, to)) = Len(to)
      /\ \A i \in 1..Len(to) : Rebase(p, p, to)[i] = to[i]
  <2>1. /\ Rebase(p, p, to) \in Strings
        /\ Len(Rebase(p, p, to)) = Len(to) + Len(p) - Len(p)
        /\ \A i \in 1..(Len(to) + Len(p) - Len(p)) :
             Rebase(p, p, to)[i] = IF i <= Len(to) THEN to[i]
                                           ELSE p[Len(p) + (i - Len(to))]
    BY <1>1, RebaseIs
  <2>2. Len(to) + Len(p) - Len(p) = Len(to)
    BY <1>1
  <2> QED
    BY <1>1, <2>1, <2>2
<1> QED
  BY <1>2, SeqEqual DEF Strings

LEMMA RebaseParent ==
    ASSUME NEW from \in Strings, NEW to \in Strings, NEW q \in Strings,
           IsPrefix(from, q), q # from
    PROVE  /\ IsPrefix(from, ParentPath(q))
           /\ Rebase(q, from, to) # Root
           /\ Rebase(ParentPath(q), from, to) = ParentPath(Rebase(q, from, to))
<1> DEFINE new == Rebase(q, from, to)
<1>1. q # Root
  BY RootPrefix
<1>2. IsPrefix(from, ParentPath(q))
  BY <1>1, ParentPrefix
<1>3. /\ Len(from) \in Nat /\ Len(to) \in Nat /\ Len(q) \in Nat \ {0}
      /\ ParentPath(q) \in Strings /\ Len(ParentPath(q)) = Len(q) - 1
      /\ Len(from) <= Len(q) - 1
      /\ \A i \in 1..(Len(q) - 1) : ParentPath(q)[i] = q[i]
  BY <1>1, <1>2, ParentIs, PrefixIs DEF Strings
<1>4. /\ new \in Strings /\ Len(new) = Len(to) + Len(q) - Len(from)
      /\ \A i \in 1..(Len(to) + Len(q) - Len(from)) :
            new[i] = IF i <= Len(to) THEN to[i] ELSE q[Len(from) + (i - Len(to))]
  BY RebaseIs
<1>5. /\ Rebase(ParentPath(q), from, to) \in Strings
      /\ Len(Rebase(ParentPath(q), from, to)) = Len(to) + (Len(q) - 1) - Len(from)
      /\ \A i \in 1..(Len(to) + (Len(q) - 1) - Len(from)) :
            Rebase(ParentPath(q), from, to)[i] =
                IF i <= Len(to) THEN to[i] ELSE ParentPath(q)[Len(from) + (i - Len(to))]
  <2> DEFINE up == ParentPath(q)
  <2>1. /\ Rebase(up, from, to) \in Strings
        /\ Len(Rebase(up, from, to)) = Len(to) + Len(up) - Len(from)
        /\ \A i \in 1..(Len(to) + Len(up) - Len(from)) :
             Rebase(up, from, to)[i] = IF i <= Len(to) THEN to[i]
                                           ELSE up[Len(from) + (i - Len(to))]
    <3>1. up \in Strings /\ IsPrefix(from, up)
      BY <1>2, <1>3
    <3> HIDE DEF up
    <3> QED
      BY <3>1, RebaseIs
  <2>2. Len(up) = Len(q) - 1
    BY <1>3
  <2> HIDE DEF up
  <2>3. /\ Rebase(up, from, to) \in Strings
        /\ Len(Rebase(up, from, to)) = Len(to) + (Len(q) - 1) - Len(from)
        /\ \A i \in 1..(Len(to) + (Len(q) - 1) - Len(from)) :
             Rebase(up, from, to)[i] = IF i <= Len(to) THEN to[i]
                                       ELSE up[Len(from) + (i - Len(to))]
    BY <2>1, <2>2
  <2> QED
    BY <2>3 DEF up
<1> HIDE DEF new
<1>6. new # Root
  BY <1>3, <1>4 DEF Root
<1>7. /\ ParentPath(new) \in Strings /\ Len(ParentPath(new)) = Len(new) - 1
      /\ \A i \in 1..(Len(new) - 1) : ParentPath(new)[i] = new[i]
  BY <1>4, <1>6, ParentIs
<1>8. ASSUME NEW i \in 1..(Len(new) - 1)
      PROVE  Rebase(ParentPath(q), from, to)[i] = ParentPath(new)[i]
  <2>1. /\ i \in 1..(Len(to) + (Len(q) - 1) - Len(from))
        /\ i \in 1..(Len(to) + Len(q) - Len(from))
    BY <1>3, <1>4
  <2>2. ~(i <= Len(to)) => Len(from) + (i - Len(to)) \in 1..(Len(q) - 1)
    BY <1>3, <2>1
  <2>3. CASE i <= Len(to)
    BY <1>4, <1>5, <1>7, <2>1, <2>3
  <2>4. CASE ~(i <= Len(to))
    BY <1>3, <1>4, <1>5, <1>7, <2>1, <2>2, <2>4
  <2> QED
    BY <2>3, <2>4
<1>9. Len(Rebase(ParentPath(q), from, to)) = Len(ParentPath(new))
      /\ Len(ParentPath(new)) = Len(new) - 1
  BY <1>3, <1>4, <1>5, <1>7
<1>10. Rebase(ParentPath(q), from, to) = ParentPath(new)
  BY <1>5, <1>7, <1>8, <1>9, SeqEqual DEF Strings
<1> QED
  BY <1>2, <1>6, <1>10 DEF new

(* A rename that rename(2) allows keeps the tree.                          *)
LEMMA MoveKeepsTree ==
    ASSUME NEW tree \in [Paths -> EntryType], IsTree(tree),
           NEW src \in Paths, NEW dst \in Paths, CanMove(tree, src, dst)
    PROVE  IsTree(Moved(tree, src, dst))
<1> DEFINE new == Moved(tree, src, dst)
<1> SUFFICES ASSUME NEW q \in Paths, Exists(new, q), q # Root
             PROVE  new[ParentPath(q)] = DIRECTORY
  BY DEF IsTree, HasParent
<1>1. src \in Strings /\ dst \in Strings /\ q \in Strings
  BY PathsAreStrings
<1>2. ParentPath(q) \in Paths /\ ParentPath(q) \in Strings /\ IsPrefix(ParentPath(q), q)
  BY <1>1, PathsAssumption, ParentPrefix
<1>3. \A r \in Paths : new[r] = IF IsPrefix(dst, r)
                               THEN IF Rebase(r, dst, src) \in Paths
                                    THEN tree[Rebase(r, dst, src)] ELSE UNKNOWN
                               ELSE IF IsPrefix(src, r) THEN UNKNOWN ELSE tree[r]
  BY DEF Moved
<1> HIDE DEF new
<1>4. CASE IsPrefix(dst, q) /\ q # dst
  <2>1. /\ IsPrefix(dst, ParentPath(q))
        /\ Rebase(q, dst, src) # Root
        /\ Rebase(ParentPath(q), dst, src) = ParentPath(Rebase(q, dst, src))
    BY <1>1, <1>4, RebaseParent
  <2>2. Rebase(q, dst, src) \in Paths /\ Exists(tree, Rebase(q, dst, src))
    BY <1>3, <1>4 DEF Exists
  <2>3. /\ ParentPath(Rebase(q, dst, src)) \in Paths
        /\ tree[ParentPath(Rebase(q, dst, src))] = DIRECTORY
    BY <2>1, <2>2, PathsAssumption DEF IsTree, HasParent
  <2> QED
    BY <1>2, <1>3, <2>1, <2>3
<1>5. CASE q = dst
  <2>1. tree[ParentPath(dst)] = DIRECTORY
    BY <1>5 DEF CanMove, HasParent
  <2>2. ~IsPrefix(dst, ParentPath(dst))
    BY <1>1, <1>5, ParentPrefix
  <2>3. CASE src = dst
    <3>1. ~IsPrefix(src, ParentPath(dst))
      BY <2>2, <2>3
    <3> QED
      BY <1>2, <1>3, <1>5, <2>1, <2>2, <3>1
  <2>4. CASE src # dst
    <3>1. ~IsPrefix(src, ParentPath(dst))
      BY <1>1, <1>2, <1>5, <2>4, PrefixTransitive DEF CanMove, IsStrictPrefix
    <3> QED
      BY <1>2, <1>3, <1>5, <2>1, <2>2, <3>1
  <2> QED
    BY <2>3, <2>4
<1>6. CASE ~IsPrefix(dst, q)
  <2>1. ~IsPrefix(src, q) /\ Exists(tree, q)
    BY <1>3, <1>6 DEF Exists
  <2>2. tree[ParentPath(q)] = DIRECTORY
    BY <2>1 DEF IsTree, HasParent
  <2>3. ~IsPrefix(dst, ParentPath(q)) /\ ~IsPrefix(src, ParentPath(q))
    BY <1>1, <1>2, <1>6, <2>1, PrefixTransitive
  <2> QED
    BY <1>2, <1>3, <2>2, <2>3
<1> QED
  BY <1>1, <1>4, <1>5, <1>6, PrefixReflexive
=============================================================================
