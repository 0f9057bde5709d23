--------------------------- MODULE MemoryFS_proofs ---------------------------
(***************************************************************************)
(* Theorems about MemoryFS, for every set of names and lookups, all        *)
(* contents and any bound on the number of entries.                        *)
(*                                                                         *)
(* The inductive invariant is Tree /\ Indexed: objects only refer to       *)
(* objects that exist, and each name of an index leads to an entry that    *)
(* bears it.  What a merged file system above finds needs FirstOfName as   *)
(* well: names are normal, and an index has the first entry of each.       *)
(***************************************************************************)
EXTENDS MemoryFS, TLAPS

(* What the folds of the model do with one element.                        *)
Cut(par, parts, c) ==
    IF c = Separator THEN Append(parts, << >>)
    ELSE [parts EXCEPT ![Len(parts)] = Append(@, c)]

WalkStep(par, at, name) == IF at = NoEntry THEN NoEntry ELSE Find(at, name)

FileStep(caseInsensitive, map, child) ==
    FirstKept(map, MergedName(child, caseInsensitive), child)

Words == INSTANCE Strings_proofs WITH Op <- Cut
Walks == INSTANCE Strings_proofs WITH Op <- WalkStep
Filed == INSTANCE Strings_proofs WITH Op <- FileStep

(* What addChild may rely on of one object, when there are n of them.      *)
Entry(o, n) ==
    /\ o = [path |-> o.path, type |-> o.type, fileEntries |-> o.fileEntries,
            indexMapping |-> o.indexMapping, data |-> o.data]
    /\ o.type \in EntryType
    /\ o.fileEntries \in Seq(1..n)
    /\ \A name \in DOMAIN o.indexMapping :
            o.indexMapping[name] \in 1..Len(o.fileEntries)
    /\ o.data \in Contents \union {NoData}
    /\ o.type # DIRECTORY => o.fileEntries = << >>

Tree ==
    /\ Len(entries) \in 1..MaxEntries
    /\ entries = [i \in 1..Len(entries) |-> entries[i]]
    /\ \A i \in 1..Len(entries) : Entry(entries[i], Len(entries))
    /\ result.out \in Outcomes

(* The entry that a name of an index leads to was added under that name.   *)
Indexed ==
    \A e \in 1..Len(entries) : \A name \in DOMAIN entries[e].indexMapping :
        entries[Find(e, name)].path = name

-----------------------------------------------------------------------------
(***************************************************************************)
(* Appending to a sequence, and inserting into a map.                      *)
(***************************************************************************)
LEMMA Appended ==
    ASSUME NEW s, Len(s) \in Nat, s = [i \in 1..Len(s) |-> s[i]], NEW x
    PROVE  LET t == s \o <<x>>
           IN  /\ Len(t) = Len(s) + 1
               /\ t = [i \in 1..Len(t) |-> t[i]]
               /\ \A i \in 1..Len(s) : t[i] = s[i]
               /\ t[Len(s) + 1] = x
<1> DEFINE S == {s[i] : i \in 1..Len(s)} \union {x}
<1>1. s \in [1..Len(s) -> S] /\ x \in S
  OBVIOUS
<1>2. s \in Seq(S)
  BY <1>1
<1>3. <<x>> \in Seq(S) /\ Len(<<x>>) = 1 /\ <<x>>[1] = x
  BY <1>1
<1> HIDE DEF S
<1> QED
  BY <1>2, <1>3

(* What addChild changes of the objects.                                   *)
LEMMA AddChildAdds ==
    ASSUME Tree, NEW e \in Ids, NEW name, NEW type, NEW data,
           AddChild(e, name, type, data)
    PROVE  LET n == Len(entries)
               map == Inserted(entries[e].indexMapping, Key(name), Position(entries[e]))
           IN  /\ entries[e].type = DIRECTORY
               /\ n < MaxEntries
               /\ Len(entries') = n + 1
               /\ entries' = [i \in 1..(n + 1) |-> entries'[i]]
               /\ entries'[n + 1] = NewEntry(name, type, data)
               /\ \A i \in 1..n : i # e => entries'[i] = entries[i]
               /\ entries'[e] = [path |-> entries[e].path, type |-> entries[e].type,
                                 fileEntries |-> Append(entries[e].fileEntries, n + 1),
                                 indexMapping |-> map, data |-> entries[e].data]
               /\ result'.out = Returned
<1> DEFINE n == Len(entries)
           o == entries[e]
           map == Inserted(o.indexMapping, Key(name), Position(o))
           s == [entries EXCEPT ![e] = WithChild(@, n + 1, name)]
<1>1. n \in Nat /\ e \in 1..n /\ entries = [i \in 1..n |-> entries[i]] /\ Entry(o, n)
  <2>1. DOMAIN entries = 1..n
    BY DEF Tree
  <2> QED
    BY <2>1, MaxEntriesAssumption DEF Tree, Ids
<1>2. /\ o.type = DIRECTORY /\ n < MaxEntries /\ result'.out = Returned
      /\ entries' = s \o <<NewEntry(name, type, data)>>
  BY DEF AddChild, Rejects, Ends
<1> HIDE DEF map
<1>3. /\ Len(s) = n /\ s = [i \in 1..n |-> s[i]]
      /\ \A i \in 1..n : i # e => s[i] = entries[i]
      /\ s[e] = [path |-> o.path, type |-> o.type,
                 fileEntries |-> Append(o.fileEntries, n + 1),
                 indexMapping |-> map, data |-> o.data]
  <2>1. /\ s = [i \in 1..n |-> s[i]]
        /\ \A i \in 1..n : i # e => s[i] = entries[i]
    BY <1>1
  <2>2. Len(s) = n
    BY <2>1, <1>1
  <2>3. s[e] = WithChild(o, n + 1, name)
    BY <1>1
  <2>4. s[e] = [path |-> o.path, type |-> o.type,
                fileEntries |-> Append(o.fileEntries, n + 1),
                indexMapping |-> map, data |-> o.data]
    BY <2>3, <1>1 DEF Entry, WithChild, map
  <2> QED
    BY <2>1, <2>2, <2>4
<1> HIDE DEF s
<1>4. /\ Len(entries') = n + 1
      /\ entries' = [i \in 1..(n + 1) |-> entries'[i]]
      /\ \A i \in 1..n : entries'[i] = s[i]
      /\ entries'[n + 1] = NewEntry(name, type, data)
  BY <1>1, <1>2, <1>3, Appended
<1> QED
  BY <1>1, <1>2, <1>3, <1>4 DEF map

(* All other calls leave the objects alone and end as Outcomes says.       *)
LEMMA OthersRead ==
    ASSUME [Next]_vars
    PROVE  \/ \E e \in Ids, name \in Names, type \in EntryType, data \in Contents :
                AddChild(e, name, type, data)
           \/ UNCHANGED entries /\ (result'.out \in Outcomes \/ UNCHANGED result)
<1>1. Returned \in Outcomes /\ InvalidOperation \in Outcomes
  BY DEF Outcomes
<1>2. CASE UNCHANGED vars
  BY <1>2 DEF vars
<1>3. CASE Next
  <2>1. PICK e \in Ids :
            \/ \E name \in Names, type \in EntryType, data \in Contents :
                  AddChild(e, name, type, data)
            \/ \E name \in Names : AddChildThrows(e, name)
            \/ NoDirectory(e)
            \/ \E path \in Lookups : GetChild(e, path)
            \/ NumChildren(e)
            \/ ListChildren(e)
            \/ \E mode \in SUBSET OpenMode : Open(e, mode)
            \/ Unsupported(e)
    BY <1>3 DEF Next
  <2>2. ASSUME NEW out \in {Returned, InvalidOperation}, NEW value, Reads(out, value)
        PROVE  UNCHANGED entries /\ result'.out \in Outcomes
    BY <1>1, <2>2 DEF Reads, Ends
  <2>3. Throws => UNCHANGED entries /\ result'.out \in Outcomes
    BY <2>2 DEF Throws
  <2>4. CASE \/ \E name \in Names : AddChildThrows(e, name)
             \/ NoDirectory(e)
             \/ Unsupported(e)
    BY <2>3, <2>4 DEF AddChildThrows, NoDirectory, Unsupported
  <2>5. CASE \/ \E path \in Lookups : GetChild(e, path)
             \/ NumChildren(e)
             \/ ListChildren(e)
             \/ \E mode \in SUBSET OpenMode : Open(e, mode)
    BY <2>2, <2>3, <2>5 DEF GetChild, NumChildren, ListChildren, Open
  <2> QED
    BY <2>1, <2>4, <2>5
<1> QED
  BY <1>2, <1>3

-----------------------------------------------------------------------------
(***************************************************************************)
(* The invariant.                                                          *)
(***************************************************************************)
LEMMA TreeInit == Init => Tree /\ Indexed
<1> SUFFICES ASSUME Init PROVE Tree /\ Indexed
  OBVIOUS
<1>1. /\ Len(entries) = 1 /\ entries = [i \in 1..1 |-> entries[i]]
      /\ entries[1] = NewEntry(<< >>, DIRECTORY, NoData)
      /\ result.out = Returned
  BY DEF Init
<1>2. Entry(entries[1], 1)
  <2> DEFINE o == NewEntry(<< >>, DIRECTORY, NoData)
  <2>1. /\ o = [path |-> NormalizePath(<< >>, FALSE), type |-> DIRECTORY,
                fileEntries |-> << >>, indexMapping |-> << >>, data |-> NoData]
        /\ DIRECTORY \in EntryType
    BY DEF NewEntry, EntryType, DIRECTORY, FILE
  <2>2. << >> \in Seq(1..1) /\ DOMAIN << >> = {}
    OBVIOUS
  <2> HIDE DEF o
  <2>3. /\ o = [path |-> o.path, type |-> o.type, fileEntries |-> o.fileEntries,
                indexMapping |-> o.indexMapping, data |-> o.data]
        /\ o.type = DIRECTORY /\ o.fileEntries = << >> /\ o.indexMapping = << >>
        /\ o.data = NoData
    BY <2>1
  <2>4. Entry(o, 1)
    BY <2>1, <2>2, <2>3 DEF Entry
  <2> QED
    BY <1>1, <2>4 DEF o
<1>3. Tree
  BY <1>1, <1>2, MaxEntriesAssumption DEF Tree, Outcomes
<1>4. DOMAIN entries[1].indexMapping = {}
  BY <1>1 DEF NewEntry
<1> QED
  BY <1>1, <1>3, <1>4 DEF Indexed

(* One object that is not touched stays one when there are more of them.   *)
LEMMA EntryGrows ==
    ASSUME NEW o, NEW n \in Nat, Entry(o, n)
    PROVE  Entry(o, n + 1)
<1>1. o.fileEntries \in Seq(1..(n + 1))
  BY DEF Entry
<1> QED
  BY <1>1 DEF Entry

LEMMA TreeStep ==
    ASSUME Tree, [Next]_vars
    PROVE  Tree'
<1>1. CASE UNCHANGED entries /\ (result'.out \in Outcomes \/ UNCHANGED result)
  BY <1>1 DEF Tree
<1>2. ASSUME NEW e \in Ids, NEW name \in Names, NEW type \in EntryType,
             NEW data \in Contents, AddChild(e, name, type, data)
      PROVE  Tree'
  <2> DEFINE n == Len(entries)
             o == entries[e]
             map == Inserted(o.indexMapping, Key(name), Position(o))
             new == entries'[e]
  <2>1. n \in Nat /\ Ids = 1..n
    BY MaxEntriesAssumption DEF Tree, Ids
  <2>2. /\ Entry(o, n) /\ o.type = DIRECTORY
        /\ n < MaxEntries
        /\ Len(entries') = n + 1
        /\ entries' = [i \in 1..(n + 1) |-> entries'[i]]
        /\ entries'[n + 1] = NewEntry(name, type, data)
        /\ \A i \in 1..n : i # e => entries'[i] = entries[i]
        /\ new = [path |-> o.path, type |-> o.type,
                   fileEntries |-> Append(o.fileEntries, n + 1),
                   indexMapping |-> map, data |-> o.data]
        /\ result'.out = Returned
    <3>1. Entry(o, n)
      BY <2>1 DEF Tree
    <3> QED
      BY <3>1, <1>2, AddChildAdds
  <2>3. Entry(NewEntry(name, type, data), n + 1)
    BY DEF Entry, NewEntry
  <2>4. Entry(new, n + 1)
    <3>1. /\ new.fileEntries \in Seq(1..(n + 1))
          /\ Len(new.fileEntries) = Len(o.fileEntries) + 1
          /\ Len(o.fileEntries) \in Nat
      BY <2>1, <2>2 DEF Entry
    <3>2. ASSUME NEW other \in DOMAIN map
          PROVE  map[other] \in 1..Len(new.fileEntries)
      <4>1. CASE other \in DOMAIN o.indexMapping
        BY <2>2, <3>1, <4>1 DEF Entry, Inserted
      <4>2. CASE other \notin DOMAIN o.indexMapping
        <5>1. map[other] = Position(o)
          BY <4>2 DEF Inserted
        <5> QED
          BY <3>1, <5>1 DEF Position
      <4> QED
        BY <4>1, <4>2
    <3> HIDE DEF map
    <3> QED
      BY <2>2, <3>1, <3>2 DEF Entry
  <2>5. ASSUME NEW i \in 1..(n + 1) PROVE Entry(entries'[i], n + 1)
    <3>1. CASE i = n + 1
      BY <2>2, <2>3, <3>1
    <3>2. CASE i = e
      BY <2>4, <3>2
    <3>3. CASE i \in 1..n /\ i # e
      <4>1. Entry(entries[i], n) /\ entries'[i] = entries[i]
        BY <2>2, <3>3 DEF Tree
      <4> QED
        BY <2>1, <4>1, EntryGrows
    <3> QED
      BY <2>1, <3>1, <3>2, <3>3
  <2>6. Len(entries') \in 1..MaxEntries
    BY <2>1, <2>2, MaxEntriesAssumption
  <2>7. Returned \in Outcomes
    BY DEF Outcomes
  <2> QED
    BY <2>2, <2>5, <2>6, <2>7 DEF Tree, Entry
<1> QED
  BY <1>1, <1>2, OthersRead

(* A name once in an index leads to the same object after any step.        *)
LEMMA FindIsStable ==
    ASSUME Tree, [Next]_vars, NEW e \in Ids, NEW name \in DOMAIN entries[e].indexMapping
    PROVE  /\ name \in DOMAIN entries'[e].indexMapping
           /\ Find(e, name)' = Find(e, name)
           /\ Find(e, name) \in 1..Len(entries)
<1>1. Len(entries) \in Nat /\ Ids = 1..Len(entries) /\ Entry(entries[e], Len(entries))
  BY MaxEntriesAssumption DEF Tree, Ids
<1>2. /\ entries[e].indexMapping[name] \in 1..Len(entries[e].fileEntries)
      /\ entries[e].fileEntries \in Seq(1..Len(entries))
  BY <1>1 DEF Entry
<1>3. Find(e, name) \in 1..Len(entries)
  BY <1>2 DEF Find
<1>4. CASE UNCHANGED entries
  BY <1>3, <1>4 DEF Find
<1>5. ASSUME NEW d \in Ids, NEW added \in Names, NEW type \in EntryType,
             NEW data \in Contents, AddChild(d, added, type, data)
      PROVE  /\ name \in DOMAIN entries'[e].indexMapping
             /\ Find(e, name)' = Find(e, name)
  <2>1. CASE d # e
    <3>1. entries'[e] = entries[e]
      BY <1>1, <1>5, <2>1, AddChildAdds
    <3> QED
      BY <3>1 DEF Find
  <2>2. CASE d = e
    <3> DEFINE o == entries[e]
               map == Inserted(o.indexMapping, Key(added), Position(o))
    <3>0. entries'[e] = [path |-> o.path, type |-> o.type,
                         fileEntries |-> Append(o.fileEntries, Len(entries) + 1),
                         indexMapping |-> map, data |-> o.data]
      BY <1>5, <2>2, AddChildAdds
    <3>1. /\ entries'[e].indexMapping = map
          /\ entries'[e].fileEntries = Append(o.fileEntries, Len(entries) + 1)
      BY <3>0
    <3>2. name \in DOMAIN map /\ map[name] = o.indexMapping[name]
      BY DEF Inserted
    <3>3. Append(o.fileEntries, Len(entries) + 1)[o.indexMapping[name]]
                = o.fileEntries[o.indexMapping[name]]
      BY <1>2
    <3> HIDE DEF map
    <3> QED
      BY <3>1, <3>2, <3>3 DEF Find
  <2> QED
    BY <2>1, <2>2
<1> QED
  BY <1>3, <1>4, <1>5, OthersRead

LEMMA IndexedStep ==
    ASSUME Tree, Indexed, [Next]_vars
    PROVE  Indexed'
<1>1. Len(entries) \in Nat /\ Ids = 1..Len(entries)
  BY MaxEntriesAssumption DEF Tree, Ids
<1>2. CASE UNCHANGED entries
  BY <1>2 DEF Indexed, Find
<1>3. ASSUME NEW d \in Ids, NEW added \in Names, NEW type \in EntryType,
             NEW data \in Contents, AddChild(d, added, type, data)
      PROVE  Indexed'
  <2> DEFINE n == Len(entries)
             o == entries[d]
             map == Inserted(o.indexMapping, Key(added), Position(o))
  <2>1. /\ Entry(o, n)
        /\ Len(entries') = n + 1
        /\ entries'[n + 1] = NewEntry(added, type, data)
        /\ \A i \in 1..n : i # d => entries'[i] = entries[i]
        /\ entries'[d] = [path |-> o.path, type |-> o.type,
                          fileEntries |-> Append(o.fileEntries, n + 1),
                          indexMapping |-> map, data |-> o.data]
    <3>1. Entry(o, n)
      BY <1>1 DEF Tree
    <3> QED
      BY <3>1, <1>3, AddChildAdds
  <2>2. \A i \in 1..n : entries'[i].path = entries[i].path
    BY <2>1
  <2>3. entries'[n + 1].path = Key(added) /\ entries'[n + 1].indexMapping = << >>
    BY <2>1 DEF NewEntry, Key
  <2> HIDE DEF map
  <2> SUFFICES ASSUME NEW e \in 1..(n + 1), NEW name \in DOMAIN entries'[e].indexMapping
               PROVE  entries'[Find(e, name)'].path = name
    BY <2>1 DEF Indexed
  <2>4. e \in 1..n
    BY <1>1, <2>3
  <2>5. CASE name \in DOMAIN entries[e].indexMapping
    BY <1>1, <2>2, <2>4, <2>5, FindIsStable DEF Indexed
  <2>6. CASE name \notin DOMAIN entries[e].indexMapping
    <3>1. e = d
      BY <2>1, <2>4, <2>6
    <3>2. name = Key(added) /\ map[name] = Position(o)
      BY <2>1, <2>6, <3>1 DEF map, Inserted
    <3>3. Append(o.fileEntries, n + 1)[Len(o.fileEntries) + 1] = n + 1
      BY <1>1, <2>1 DEF Entry
    <3> HIDE DEF map
    <3>4. Find(e, name)' = n + 1
      BY <2>1, <3>1, <3>2, <3>3 DEF Find, Position
    <3> QED
      BY <2>3, <3>2, <3>4
  <2> QED
    BY <2>5, <2>6
<1> QED
  BY <1>2, <1>3, OthersRead

LEMMA TreeInvariance == Spec => [](Tree /\ Indexed)
<1>1. Tree /\ Indexed /\ [Next]_vars => (Tree /\ Indexed)'
  BY TreeStep, IndexedStep
<1> QED
  BY <1>1, TreeInit, PTL DEF Spec

-----------------------------------------------------------------------------
(***************************************************************************)
(* Names and their components.                                             *)
(***************************************************************************)
Trimmed(s, chars) == s # << >> => s[1] \notin chars /\ s[Len(s)] \notin chars
Plain(s) == \A i \in 1..Len(s) : s[i] # Separator

LEMMA TrimTrims ==
    ASSUME NEW Letter, NEW s \in Seq(Letter), NEW chars
    PROVE  /\ TrimIf(s, chars) \in Seq(Letter)
           /\ Trimmed(TrimIf(s, chars), chars)
           /\ \A i \in 1..Len(TrimIf(s, chars)) :
                \E j \in 1..Len(s) : TrimIf(s, chars)[i] = s[j]
           /\ Trimmed(s, chars) => TrimIf(s, chars) = s
<1>1. TrimIf(s, chars) = Words!TrimIf(s, chars)
  BY DEF TrimIf, Words!TrimIf, Min, Max, Words!Min, Words!Max
<1> QED
  BY <1>1, Words!TrimTrims, Words!TrimNothing DEF Trimmed, Words!Trimmed

LEMMA ComponentsAre ==
    ASSUME NEW Letter, NEW s \in Seq(Letter)
    PROVE  /\ Components(s) \in Seq(Seq(Letter))
           /\ Components(s) # << >>
           /\ Plain(s) => Components(s) = <<s>>
<1>1. Words!Cuts
  BY DEF Words!Cuts, Words!WordStep, Words!Separator, Cut, Separator
<1>2. Components(s) = Words!Parts(s)
  BY DEF Components, Words!Parts, Words!Fold, Cut, FoldLeft, MapThenFoldSet,
         Words!FoldLeft, Words!MapThenFoldSet, Max, Words!Max
<1>3. /\ Words!Parts(s) \in Seq(Seq(Letter)) /\ Len(Words!Parts(s)) # 0
      /\ Words!Plain(s) => Words!Parts(s) = <<s>>
  BY <1>1, Words!PartsAre
<1>4. Len(<< >>) = 0
  OBVIOUS
<1> QED
  BY <1>2, <1>3, <1>4 DEF Plain, Words!Plain, Separator, Words!Separator

LEMMA WalkFold ==
    ASSUME NEW e, NEW path
    PROVE  GetChildInternal(e, path) = Walks!Fold(0, e, Components(path))
  BY DEF GetChildInternal, Walks!Fold, WalkStep, FoldLeft, MapThenFoldSet,
         Walks!FoldLeft, Walks!MapThenFoldSet, Max, Walks!Max

(* One step of a walk: what an index has.                                  *)
LEMMA FindHasTheName ==
    ASSUME Tree, Indexed, NEW e \in Ids, NEW name, Find(e, name) # NoEntry
    PROVE  Find(e, name) \in Ids /\ entries[Find(e, name)].path = name
<1>1. Ids = 1..Len(entries) /\ name \in DOMAIN entries[e].indexMapping
  BY DEF Tree, Ids, Find
<1>2. [Next]_vars => Find(e, name) \in 1..Len(entries)
  BY <1>1, FindIsStable
<1>3. Entry(entries[e], Len(entries)) /\ Len(entries) \in Nat
  BY <1>1, MaxEntriesAssumption DEF Tree
<1>4. Find(e, name) \in 1..Len(entries)
  BY <1>1, <1>3 DEF Find, Entry
<1> QED
  BY <1>1, <1>4 DEF Indexed

(* A walk ends at an entry with the name of the last component.            *)
LEMMA WalkEnds ==
    ASSUME Tree, Indexed, NEW e \in Ids, NEW path \in Seq(STRING),
           GetChildInternal(e, path) # NoEntry
    PROVE  entries[GetChildInternal(e, path)].path = Last(Components(path))
<1> DEFINE words == Components(path)
           n == Len(words)
<1>1. n \in Nat /\ n # 0 /\ DOMAIN words = 1..n
  BY ComponentsAre
<1> HIDE DEF words
<1>2. PICK g : Walks!Steps(g, 0, e, words, n)
  BY <1>1, Walks!FoldSteps
<1>3. /\ g[0] = e
      /\ \A k \in 1..n : g[k] = WalkStep(0, g[k - 1], words[k])
      /\ GetChildInternal(e, path) = g[n]
  BY <1>2, WalkFold DEF Walks!Steps, words
<1> DEFINE S == {k \in 0..n : g[k] # NoEntry =>
                    g[k] \in Ids /\ (k # 0 => entries[g[k]].path = words[k])}
<1>4. 0 \in S
  BY <1>1, <1>3
<1>5. ASSUME NEW k \in 1..n, k - 1 \in S PROVE k \in S
  <2>1. CASE g[k - 1] = NoEntry
    BY <1>3, <2>1 DEF WalkStep
  <2>2. CASE g[k - 1] # NoEntry
    <3>1. g[k - 1] \in Ids /\ g[k] = Find(g[k - 1], words[k])
      BY <1>3, <1>5, <2>2 DEF WalkStep
    <3>2. g[k] # NoEntry => g[k] \in Ids /\ entries[g[k]].path = words[k]
      BY <3>1, FindHasTheName
    <3> QED
      BY <3>2
  <2> QED
    BY <2>1, <2>2
<1> HIDE DEF S
<1>6. \A k \in 0..n : k \in S
  BY <1>1, <1>4, <1>5, Walks!Induction
<1>7. n \in S
  BY <1>1, <1>6
<1> QED
  BY <1>1, <1>3, <1>7 DEF S, Last, words

LEMMA NormalIsString ==
    ASSUME NEW s \in Seq(STRING)
    PROVE  NormalizePath(s, FALSE) \in Seq(STRING)
  BY TrimTrims DEF NormalizePath

-----------------------------------------------------------------------------
(***************************************************************************)
(* The merged file system above.                                           *)
(***************************************************************************)
(* What the key of a child is: trimming it again leaves it alone.          *)
Normal(s) == s \in Seq(STRING) /\ Plain(s) /\ Trimmed(s, {Space})

LEMMA PlainIsTrimmed ==
    ASSUME NEW Letter, NEW s \in Seq(Letter), Plain(s)
    PROVE  TrimIf(s, {Separator}) = s
<1>1. Trimmed(s, {Separator})
  <2>1. s # << >> => 1 \in 1..Len(s) /\ Len(s) \in 1..Len(s)
    OBVIOUS
  <2> QED
    BY <2>1 DEF Plain, Trimmed
<1> QED
  BY <1>1, TrimTrims

LEMMA KeyIsNormal ==
    ASSUME NEW name \in Seq(STRING), Plain(name)
    PROVE  Normal(Key(name))
<1> DEFINE t == TrimIf(name, {Space})
<1>1. /\ t \in Seq(STRING) /\ Trimmed(t, {Space})
      /\ \A i \in 1..Len(t) : \E j \in 1..Len(name) : t[i] = name[j]
  <2>1. \A chars : /\ TrimIf(name, chars) \in Seq(STRING)
                    /\ Trimmed(TrimIf(name, chars), chars)
                    /\ \A i \in 1..Len(TrimIf(name, chars)) :
                        \E j \in 1..Len(name) : TrimIf(name, chars)[i] = name[j]
    <3> TAKE chars
    <3>1. TrimIf(name, chars) \in Seq(STRING)
      BY TrimTrims
    <3>2. Trimmed(TrimIf(name, chars), chars)
      BY TrimTrims
    <3> QED
      BY <3>1, <3>2, TrimTrims
  <2> QED
    BY <2>1
<1>2. Plain(t)
  BY <1>1 DEF Plain
<1>3. Key(name) = t
  BY <1>1, <1>2, PlainIsTrimmed DEF Key, NormalizePath
<1> QED
  BY <1>1, <1>2, <1>3 DEF Normal

(* A merged file system files a child of normal name under this name, or   *)
(* under its lower case.                                                   *)
LEMMA NormalIsFiled ==
    ASSUME NEW s, Normal(s), NEW caseInsensitive \in BOOLEAN
    PROVE  /\ Components(NormalizePath(s, caseInsensitive))[1]
                = NormalizePath(s, caseInsensitive)
           /\ NormalizePath(s, FALSE) = s
<1>1. TrimIf(s, {Space}) = s /\ TrimIf(s, {Separator}) = s
  BY TrimTrims, PlainIsTrimmed DEF Normal
<1>2. NormalizePath(s, FALSE) = s
  BY <1>1 DEF NormalizePath
<1> DEFINE t == [i \in DOMAIN s |-> ToLower(s[i])]
           Letters == STRING \union {"a", "b"}
<1>3. t \in Seq(Letters) /\ Plain(t)
  <2>1. s \in [1..Len(s) -> STRING] /\ Len(s) \in Nat /\ DOMAIN s = 1..Len(s)
    BY DEF Normal
  <2>2. \A c \in STRING : ToLower(c) \in Letters /\ (c # "/" => ToLower(c) # "/")
    <3> TAKE c \in STRING
    <3>1. "a" # "/" /\ "b" # "/"
      OBVIOUS
    <3>2. ToLower(c) \in {"a", "b", c}
      BY Zenon DEF ToLower
    <3> QED
      BY <3>1, <3>2
  <2> HIDE DEF Letters
  <2>3. t \in [1..Len(s) -> Letters]
    BY <2>1, <2>2
  <2>4. t \in Seq(Letters) /\ Len(t) = Len(s)
    BY <2>1, <2>3
  <2> QED
    BY <2>1, <2>2, <2>4 DEF Normal, Plain, Separator
<1>4. NormalizePath(s, TRUE) = t
  BY <1>1 DEF NormalizePath
<1>5. Components(s) = <<s>> /\ Components(t) = <<t>>
  BY <1>3, ComponentsAre DEF Normal
<1> HIDE DEF t, Letters
<1>6. caseInsensitive = TRUE \/ caseInsensitive = FALSE
  OBVIOUS
<1>7. Components(s)[1] = s /\ Components(t)[1] = t
  BY <1>5
<1> QED
  BY <1>2, <1>4, <1>6, <1>7

(* The second part of the invariant: a directory's children are in their   *)
(* order, their names are normal and its index has the first of each name. *)
FirstOfName ==
    \A e \in 1..Len(entries) :
        LET kids == entries[e].fileEntries
        IN  /\ \A i, j \in 1..Len(kids) : i <= j => kids[i] <= kids[j]
            /\ \A i \in 1..Len(kids) :
                LET name == entries[kids[i]].path
                IN  /\ Normal(name)
                    /\ name \in DOMAIN entries[e].indexMapping
                    /\ entries[e].indexMapping[name] <= i

(* What a sequence of members of a set has at a place.                    *)
LEMMA MemberOf ==
    ASSUME NEW S, NEW s \in Seq(S), NEW i \in 1..Len(s)
    PROVE  s[i] \in S
OBVIOUS

LEMMA FirstOfNameStep ==
    ASSUME Tree, FirstOfName, [Next]_vars
    PROVE  FirstOfName'
<1>1. Len(entries) \in Nat /\ Ids = 1..Len(entries)
  BY MaxEntriesAssumption DEF Tree, Ids
<1>2. CASE UNCHANGED entries
  BY <1>2 DEF FirstOfName
<1>3. ASSUME NEW d \in Ids, NEW added \in Names, NEW type \in EntryType,
             NEW data \in Contents, AddChild(d, added, type, data)
      PROVE  FirstOfName'
  <2> DEFINE n == Len(entries)
             o == entries[d]
             map == Inserted(o.indexMapping, Key(added), Position(o))
  <2>1. /\ Len(entries') = n + 1
        /\ entries'[n + 1] = NewEntry(added, type, data)
        /\ \A i \in 1..n : i # d => entries'[i] = entries[i]
        /\ entries'[d] = [path |-> o.path, type |-> o.type,
                          fileEntries |-> Append(o.fileEntries, n + 1),
                          indexMapping |-> map, data |-> o.data]
    BY <1>3, AddChildAdds
  <2>2. \A i \in 1..n : entries'[i].path = entries[i].path
    BY <2>1
  <2>3. entries'[n + 1].path = Key(added) /\ entries'[n + 1].fileEntries = << >>
    BY <2>1 DEF NewEntry, Key
  <2>4. Normal(Key(added))
    <3>1. added \in Seq(STRING)
      BY StringsAssumption
    <3>2. Plain(added)
      BY <1>3, <3>1 DEF AddChild, Rejects, Plain
    <3> QED
      BY <3>1, <3>2, KeyIsNormal
  <2>5. \A e \in 1..n : entries[e].fileEntries \in Seq(1..n)
    BY <1>1 DEF Tree, Entry
  <2> HIDE DEF map
  <2> SUFFICES ASSUME NEW e \in 1..(n + 1)
               PROVE  LET kids == entries'[e].fileEntries
                      IN  /\ \A i, j \in 1..Len(kids) : i <= j => kids[i] <= kids[j]
                          /\ \A i \in 1..Len(kids) :
                                LET name == entries'[kids[i]].path
                                IN  /\ Normal(name)
                                    /\ name \in DOMAIN entries'[e].indexMapping
                                    /\ entries'[e].indexMapping[name] <= i
    BY <2>1 DEF FirstOfName
  <2>6. CASE e = n + 1
    <3>1. 1..Len(entries'[e].fileEntries) = {}
      BY <2>3, <2>6
    <3> QED
      BY <3>1
  <2>7. CASE e \in 1..n /\ e # d
    <3>1. entries'[e] = entries[e]
      BY <2>1, <2>7
    <3>2. \A i \in 1..Len(entries[e].fileEntries) :
            entries'[entries[e].fileEntries[i]].path = entries[entries[e].fileEntries[i]].path
      <4> TAKE i \in 1..Len(entries[e].fileEntries)
      <4>1. entries[e].fileEntries \in Seq(1..n)
        BY <2>5, <2>7
      <4>2. entries[e].fileEntries[i] \in 1..n
        BY <4>1, MemberOf
      <4> QED
        BY <2>2, <4>2
    <3> QED
      BY <2>7, <3>1, <3>2 DEF FirstOfName
  <2>8. CASE e = d
    <3> DEFINE kids == o.fileEntries
               all == Append(kids, n + 1)
    <3>1. /\ kids \in Seq(1..n) /\ Len(kids) \in Nat
          /\ entries'[e].fileEntries = all /\ entries'[e].indexMapping = map
      BY <1>1, <2>1, <2>5, <2>8
    <3>2. /\ Len(all) = Len(kids) + 1 /\ all[Len(kids) + 1] = n + 1
          /\ \A i \in 1..Len(kids) : all[i] = kids[i] /\ kids[i] \in 1..n
      BY <3>1
    <3> HIDE DEF all
    <3>3. ASSUME NEW i \in 1..Len(all), NEW j \in 1..Len(all), i <= j
          PROVE  all[i] <= all[j]
      <4>1. CASE j \in 1..Len(kids)
        <5>1. i \in 1..Len(kids)
          BY <3>1, <3>2, <3>3, <4>1
        <5>2. kids[i] <= kids[j]
          BY <1>1, <3>3, <4>1, <5>1 DEF FirstOfName
        <5> QED
          BY <3>2, <4>1, <5>1, <5>2
      <4>2. CASE j = Len(kids) + 1
        <5>1. all[j] = n + 1 /\ (i = j \/ i \in 1..Len(kids))
          BY <3>1, <3>2, <3>3, <4>2
        <5>2. all[i] <= n + 1
          BY <1>1, <3>2, <5>1
        <5> QED
          BY <5>1, <5>2
      <4>3. j \in 1..Len(kids) \/ j = Len(kids) + 1
        BY <3>1, <3>2
      <4> QED
        BY <4>1, <4>2, <4>3
    <3>4. ASSUME NEW i \in 1..Len(all)
          PROVE  LET name == entries'[all[i]].path
                 IN  Normal(name) /\ name \in DOMAIN map /\ map[name] <= i
      <4> DEFINE name == entries'[all[i]].path
      <4>1. CASE i \in 1..Len(kids)
        <5>1. name = entries[kids[i]].path
          BY <2>2, <3>2, <4>1
        <5>2. /\ Normal(name) /\ name \in DOMAIN o.indexMapping
              /\ o.indexMapping[name] <= i
          BY <1>1, <4>1, <5>1 DEF FirstOfName
        <5>3. name \in DOMAIN map /\ map[name] = o.indexMapping[name]
          BY <5>2 DEF map, Inserted
        <5> QED
          BY <5>2, <5>3
      <4>2. CASE i = Len(kids) + 1
        <5>1. name = Key(added)
          BY <2>3, <3>2, <4>2
        <5>2. Key(added) \in DOMAIN map
          BY DEF map, Inserted
        <5>3. map[Key(added)] <= i
          <6>1. CASE Key(added) \in DOMAIN o.indexMapping
            <7>1. o.indexMapping[Key(added)] \in 1..Len(kids)
              BY <1>1, <6>1 DEF Tree, Entry
            <7> QED
              BY <3>1, <4>2, <6>1, <7>1 DEF map, Inserted
          <6>2. CASE Key(added) \notin DOMAIN o.indexMapping
            <7>1. map[Key(added)] = Len(kids) + 1
              BY <6>2 DEF map, Inserted, Position
            <7> QED
              BY <3>1, <4>2, <7>1
          <6> QED
            BY <6>1, <6>2
        <5> QED
          BY <2>4, <5>1, <5>2, <5>3
      <4>3. i \in 1..Len(kids) \/ i = Len(kids) + 1
        BY <3>1, <3>2
      <4> QED
        BY <4>1, <4>2, <4>3
    <3> QED
      BY <3>1, <3>3, <3>4
  <2> QED
    BY <1>1, <2>6, <2>7, <2>8
<1> QED
  BY <1>2, <1>3, OthersRead

LEMMA FirstOfNameInvariance == Spec => [](Tree /\ Indexed /\ FirstOfName)
<1>1. Init => FirstOfName
  <2> SUFFICES ASSUME Init PROVE FirstOfName
    OBVIOUS
  <2>1. Len(entries) = 1 /\ entries[1].fileEntries = << >>
    BY DEF Init, NewEntry
  <2>2. 1..Len(<< >>) = {}
    OBVIOUS
  <2> QED
    BY <2>1, <2>2 DEF FirstOfName
<1>2. Tree /\ FirstOfName /\ [Next]_vars => FirstOfName'
  BY FirstOfNameStep
<1> QED
  BY <1>1, <1>2, TreeInvariance, PTL DEF Spec

LEMMA FiledFold ==
    ASSUME NEW caseInsensitive
    PROVE  MergedChildren(caseInsensitive)
                = Filed!Fold(caseInsensitive, << >>, entries[1].fileEntries)
  BY DEF MergedChildren, Filed!Fold, FileStep, FoldLeft, MapThenFoldSet,
         Filed!FoldLeft, Filed!MapThenFoldSet, Max, Filed!Max

(* map has the names of the first k children, and for each name the first  *)
(* child that has it.                                                      *)
FirstFiled(map, caseInsensitive, kids, k) ==
    /\ \A name : name \in DOMAIN map <=>
            \E i \in 1..k : MergedName(kids[i], caseInsensitive) = name
    /\ \A name \in DOMAIN map : \E i \in 1..k :
            /\ map[name] = kids[i]
            /\ MergedName(kids[i], caseInsensitive) = name
            /\ \A j \in 1..k : MergedName(kids[j], caseInsensitive) = name => i <= j

LEMMA FilesOneMore ==
    ASSUME NEW map, NEW caseInsensitive, NEW kids, NEW n \in Nat, NEW k \in 1..n,
           FirstFiled(map, caseInsensitive, kids, k - 1)
    PROVE  FirstFiled(FileStep(caseInsensitive, map, kids[k]), caseInsensitive, kids, k)
<1> DEFINE Name(i) == MergedName(kids[i], caseInsensitive)
           added == Name(k)
           more == FileStep(caseInsensitive, map, kids[k])
<1>1. /\ \A name : name \in DOMAIN map <=> \E i \in 1..(k - 1) : Name(i) = name
      /\ \A name \in DOMAIN map : \E i \in 1..(k - 1) :
            /\ map[name] = kids[i] /\ Name(i) = name
            /\ \A j \in 1..(k - 1) : Name(j) = name => i <= j
  BY DEF FirstFiled
<1>2. /\ \A name : name \in DOMAIN more <=> name \in DOMAIN map \/ name = added
      /\ \A name \in DOMAIN map : more[name] = map[name]
      /\ added \notin DOMAIN map => more[added] = kids[k]
  BY DEF FileStep, FirstKept, Inserted
<1> HIDE DEF more
<1>3. 1..k = (1..(k - 1)) \union {k} /\ k \notin 1..(k - 1)
  OBVIOUS
<1>4. \A name : name \in DOMAIN more <=> \E i \in 1..k : Name(i) = name
  <2> TAKE name
  <2>1. name \in DOMAIN more <=> name \in DOMAIN map \/ name = added
    BY <1>2
  <2>2. name \in DOMAIN map <=> \E i \in 1..(k - 1) : Name(i) = name
    BY <1>1
  <2> HIDE DEF Name
  <2>3. (\E i \in 1..k : Name(i) = name)
            <=> (\E i \in 1..(k - 1) : Name(i) = name) \/ Name(k) = name
    BY <1>3
  <2> QED
    BY <2>1, <2>2, <2>3
<1>5. ASSUME NEW name \in DOMAIN more
      PROVE  \E i \in 1..k : /\ more[name] = kids[i] /\ Name(i) = name
                             /\ \A j \in 1..k : Name(j) = name => i <= j
  <2>1. CASE name \in DOMAIN map
    <3>1. PICK i \in 1..(k - 1) :
            /\ map[name] = kids[i] /\ Name(i) = name
            /\ \A j \in 1..(k - 1) : Name(j) = name => i <= j
      BY <1>1, <2>1
    <3>2. i \in 1..k /\ i <= k /\ more[name] = kids[i]
      BY <1>2, <2>1, <3>1
    <3> HIDE DEF Name
    <3>3. \A j \in 1..k : Name(j) = name => i <= j
      BY <1>3, <3>1, <3>2
    <3> QED
      BY <3>1, <3>2, <3>3
  <2>2. CASE name \notin DOMAIN map
    <3>1. name = added /\ more[name] = kids[k]
      BY <1>2, <1>5, <2>2
    <3>2. \A j \in 1..(k - 1) : Name(j) # name
      BY <1>1, <2>2
    <3> HIDE DEF Name
    <3>3. k \in 1..k /\ \A j \in 1..k : Name(j) = name => k <= j
      BY <1>3, <3>2
    <3> QED
      BY <3>1, <3>3
  <2> QED
    BY <2>1, <2>2
<1> QED
  BY <1>4, <1>5 DEF FirstFiled, more

LEMMA MergedHasFirsts ==
    ASSUME NEW caseInsensitive, Tree
    PROVE  FirstFiled(MergedChildren(caseInsensitive), caseInsensitive,
                      entries[1].fileEntries, Len(entries[1].fileEntries))
<1> DEFINE kids == entries[1].fileEntries
           n == Len(kids)
<1>1. n \in Nat /\ DOMAIN kids = 1..n
  <2>1. 1 \in 1..Len(entries)
    BY MaxEntriesAssumption DEF Tree
  <2>2. kids \in Seq(1..Len(entries))
    BY <2>1 DEF Tree, Entry
  <2> QED
    BY <2>2
<1> HIDE DEF kids
<1>2. PICK g : Filed!Steps(g, caseInsensitive, << >>, kids, n)
  BY <1>1, Filed!FoldSteps
<1>3. /\ g[0] = << >>
      /\ \A k \in 1..n : g[k] = FileStep(caseInsensitive, g[k - 1], kids[k])
      /\ MergedChildren(caseInsensitive) = g[n]
  BY <1>2, FiledFold DEF Filed!Steps, kids
<1> DEFINE S == {k \in 0..n : FirstFiled(g[k], caseInsensitive, kids, k)}
<1>4. 0 \in S
  <2>1. 1..0 = {} /\ DOMAIN g[0] = {}
    BY <1>3
  <2>2. FirstFiled(g[0], caseInsensitive, kids, 0)
    BY <2>1 DEF FirstFiled
  <2> QED
    BY <1>1, <2>2
<1>5. ASSUME NEW k \in 1..n, k - 1 \in S PROVE k \in S
  <2>1. FirstFiled(g[k - 1], caseInsensitive, kids, k - 1)
    BY <1>5
  <2>2. FirstFiled(g[k], caseInsensitive, kids, k)
    BY <1>1, <1>3, <2>1, FilesOneMore
  <2> QED
    BY <2>2
<1> HIDE DEF S
<1>6. \A k \in 0..n : k \in S
  BY <1>1, <1>4, <1>5, Filed!Induction
<1>7. n \in S
  BY <1>1, <1>6
<1> QED
  BY <1>3, <1>7 DEF S, kids

-----------------------------------------------------------------------------
(***************************************************************************)
(* The theorems.                                                           *)
(***************************************************************************)
(* However many children addChild adds, and wherever: the objects refer to *)
(* objects and positions that exist, and only directories have children.   *)
THEOREM TypeCorrect == Spec => []TypeOK
<1>1. ASSUME Tree PROVE TypeOK
  <2>1. Ids = 1..Len(entries) /\ Len(entries) \in 1..MaxEntries
    BY <1>1 DEF Tree, Ids
  <2>2. ASSUME NEW e \in Ids
        PROVE  /\ entries[e].type \in EntryType
               /\ Range(entries[e].fileEntries) \subseteq Ids
               /\ \A name \in DOMAIN entries[e].indexMapping :
                    entries[e].indexMapping[name] \in DOMAIN entries[e].fileEntries
               /\ entries[e].data \in Contents \union {NoData}
               /\ entries[e].type # DIRECTORY => entries[e].fileEntries = << >>
    BY <1>1, <2>1 DEF Tree, Entry, Range
  <2> QED
    BY <1>1, <2>1, <2>2 DEF TypeOK, Tree
<1> QED
  BY <1>1, TreeInvariance, PTL

(* The entry that a directory's index has for a name was added under this  *)
(* very name, whatever else was added there before or since under which    *)
(* spelling: getChild's last step, on which FoundHasTheName rests.         *)
THEOREM IndexLeadsToTheName == Spec => []Indexed
  BY TreeInvariance, PTL

(* A walk down any number of directories ends at an entry that was added   *)
(* under the last component of the path, or at none (getChildInternal).    *)
THEOREM WalksFindTheName == Spec => []FoundHasTheName
<1>1. ASSUME Tree, Indexed PROVE FoundHasTheName
  <2>1. ASSUME NEW path \in Lookups PROVE NormalizePath(path, FALSE) \in Seq(STRING)
    BY StringsAssumption, NormalIsString
  <2> QED
    BY <1>1, <2>1, WalkEnds DEF FoundHasTheName
<1> QED
  BY <1>1, TreeInvariance, PTL

(* A name that a directory once found leads to that entry for ever: no     *)
(* later addChild takes it away (insert and push_back in addChild).        *)
THEOREM NamesStayFound == Spec => LookupIsStable
<1>1. ASSUME Tree, [Next]_vars
      PROVE  [\A e \in Ids : \A name \in DOMAIN entries[e].indexMapping :
                Find(e, name)' = Find(e, name)]_vars
  BY <1>1, FindIsStable
<1> QED
  BY <1>1, TreeInvariance, PTL DEF Spec, LookupIsStable

(* What a merged file system above finds, however the children were        *)
(* spelled and in whatever order they came: under each name the object     *)
(* that the memory file system's getChild finds, and in lower case the     *)
(* earliest of the spellings (addChildren and cacheChildren over addChild).*)
THEOREM MergedFilesTheSame == Spec => []MergedAgrees
<1>1. ASSUME Tree, Indexed, FirstOfName PROVE MergedAgrees
  <2> DEFINE kids == entries[1].fileEntries
             index == entries[1].indexMapping
             n == Len(kids)
             merged == MergedChildren(FALSE)
             folded == MergedChildren(TRUE)
             Name(i) == entries[kids[i]].path
             Folded(i) == NormalizePath(Name(i), TRUE)
  <2>1. 1 \in 1..Len(entries) /\ Len(entries) \in Nat
    BY <1>1, MaxEntriesAssumption DEF Tree
  <2>2. kids \in Seq(1..Len(entries)) /\ n \in Nat /\ DOMAIN kids = 1..n
    BY <1>1, <2>1 DEF Tree, Entry
  <2>3. /\ \A i, j \in 1..n : i <= j => kids[i] <= kids[j]
        /\ \A i \in 1..n : Normal(Name(i)) /\ Name(i) \in DOMAIN index /\ index[Name(i)] <= i
    BY <1>1, <2>1 DEF FirstOfName
  <2>4. \A name \in DOMAIN index : index[name] \in 1..n /\ Name(index[name]) = name
    <3>1. \A name \in DOMAIN index : index[name] \in 1..n
      BY <1>1, <2>1 DEF Tree, Entry
    <3>2. \A name \in DOMAIN index : entries[Find(1, name)].path = name
      BY <1>1, <2>1 DEF Indexed
    <3> QED
      BY <3>1, <3>2 DEF Find
  <2>5. \A i \in 1..n : /\ MergedName(kids[i], FALSE) = Name(i)
                        /\ MergedName(kids[i], TRUE) = Folded(i)
    <3> TAKE i \in 1..n
    <3>1. Normal(entries[kids[i]].path)
      BY <2>3
    <3> QED
      BY <3>1, NormalIsFiled DEF MergedName
  <2>6. /\ FirstFiled(merged, FALSE, kids, n)
        /\ FirstFiled(folded, TRUE, kids, n)
    BY <1>1, MergedHasFirsts
  <2> HIDE DEF kids, index, n, merged, folded, Name, Folded
  <2>7. DOMAIN merged = DOMAIN index
    <3>1. \A name : name \in DOMAIN merged <=> \E i \in 1..n : Name(i) = name
      BY <2>5, <2>6 DEF FirstFiled
    <3> QED
      BY <2>3, <2>4, <3>1
  <2>8. ASSUME NEW name \in DOMAIN merged PROVE merged[name] = Find(1, name)
    <3>0. PICK i \in 1..n :
            /\ merged[name] = kids[i] /\ MergedName(kids[i], FALSE) = name
            /\ \A j \in 1..n : MergedName(kids[j], FALSE) = name => i <= j
      BY <2>6, <2>8 DEF FirstFiled
    <3>1. /\ merged[name] = kids[i] /\ Name(i) = name
          /\ \A j \in 1..n : Name(j) = name => i <= j
      BY <2>5, <3>0
    <3>2. index[name] \in 1..n /\ Name(index[name]) = name /\ index[name] <= i
      BY <2>3, <2>4, <2>7, <2>8, <3>1
    <3>3. index[name] = i
      BY <3>1, <3>2
    <3>4. Find(1, name) = kids[index[name]]
      BY <2>7, <2>8 DEF Find, kids, index
    <3> QED
      BY <3>1, <3>3, <3>4
  <2>9. ASSUME NEW i \in 1..n
        PROVE  /\ Folded(i) \in DOMAIN folded
               /\ folded[Folded(i)] <= kids[i]
               /\ NormalizePath(entries[folded[Folded(i)]].path, TRUE) = Folded(i)
    <3>0. PICK low : low = Folded(i)
      OBVIOUS
    <3>1. low \in DOMAIN folded
      BY <2>5, <2>6, <3>0 DEF FirstFiled
    <3>2. PICK j \in 1..n :
            /\ folded[low] = kids[j] /\ MergedName(kids[j], TRUE) = low
            /\ \A m \in 1..n : MergedName(kids[m], TRUE) = low => j <= m
      BY <2>6, <3>1 DEF FirstFiled
    <3>3. j <= i /\ Folded(j) = low
      BY <2>5, <3>0, <3>2
    <3>4. kids[j] <= kids[i]
      BY <2>3, <3>3
    <3>5. NormalizePath(entries[folded[low]].path, TRUE) = low
      BY <3>2, <3>3 DEF Folded, Name
    <3> QED
      BY <3>0, <3>1, <3>2, <3>4, <3>5
  <2>10. \A i \in DOMAIN kids : Folded(i) = NormalizePath(entries[kids[i]].path, TRUE)
    BY DEF Folded, Name
  <2> QED
    BY <2>2, <2>7, <2>8, <2>9, <2>10 DEF MergedAgrees, kids, index, merged, folded
<1> QED
  BY <1>1, FirstOfNameInvariance, PTL
=============================================================================
