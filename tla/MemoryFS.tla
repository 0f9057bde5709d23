------------------------------ MODULE MemoryFS ------------------------------
(***************************************************************************)
(* The memory file system: a tree that addChild builds entry by entry, and *)
(* that a merged file system may read.                                     *)
(*                                                                         *)
(* An entry is an object; its shared_ptr is its number, the root is entry  *)
(* 1.  A directory keeps its children twice: in fileEntries, the order in  *)
(* which they were added, and in indexMapping, from names to positions in  *)
(* fileEntries.  Names and paths are strings (module Paths).               *)
(***************************************************************************)
EXTENDS Paths

CONSTANTS
    Names,      \* what a client passes to addChild
    Lookups,    \* what a client passes to getChild
    Contents,   \* the bytes of a file
    MaxEntries  \* bound on the number of entries

ASSUME MaxEntriesAssumption == MaxEntries \in Nat \ {0}

ASSUME StringsAssumption == Names \union Lookups \subseteq Seq(STRING)

VARIABLES
    entries,    \* the objects
    result      \* how the last call ended, and with what

vars == <<entries, result>>

Ids     == DOMAIN entries
NoEntry == 0
NoData  == "no data"

(* A MemoryFileEntry: IFileSystemEntry normalises the name it is given.    *)
NewEntry(name, type, data) ==
    [path |-> NormalizePath(name, FALSE), type |-> type,
     fileEntries |-> << >>, indexMapping |-> << >>,
     data |-> IF type = FILE THEN data ELSE NoData]

Ends(out, value) == result' = [out |-> out, value |-> value]

Reads(out, value) == Ends(out, value) /\ UNCHANGED entries

Throws == Reads(InvalidOperation, NoEntry)

(* getChildInternal walks through an entry without asking whether it is a  *)
(* directory.  It may: only directories ever have children.                *)
TypeOK ==
    /\ Len(entries) \in 1..MaxEntries
    /\ \A e \in Ids :
        /\ entries[e].type \in EntryType
        /\ Range(entries[e].fileEntries) \subseteq Ids
        /\ \A name \in DOMAIN entries[e].indexMapping :
            entries[e].indexMapping[name] \in DOMAIN entries[e].fileEntries
        /\ entries[e].data \in Contents \union {NoData}
        /\ entries[e].type # DIRECTORY => entries[e].fileEntries = << >>
    /\ result.out \in Outcomes

Init ==
    /\ entries = <<NewEntry(<< >>, DIRECTORY, NoData)>>
    /\ result = [out |-> Returned, value |-> NoEntry]

-----------------------------------------------------------------------------
(***************************************************************************)
(* addChild.                                                               *)
(***************************************************************************)
(* Seeded fault: a file may get children.                                  *)
RejectsSeparator(e, name) == \E i \in DOMAIN name : name[i] = Separator

Rejects(e, name) ==
    \/ entries[e].type # DIRECTORY
    \/ \E i \in DOMAIN name : name[i] = Separator

(* Seeded fault: map[name] = position instead of insert.                   *)
Assigned(map, name, position) == (name :> position) @@ map

(* unordered_map::insert leaves a name alone that is already there.        *)
Inserted(map, name, position) ==
    [n \in DOMAIN map \union {name} |-> IF n \in DOMAIN map THEN map[n] ELSE position]

(* Seeded fault: the name goes into the index as it was given.             *)
KeyAsGiven(name) == name

(* The name under which a directory indexes a child.                       *)
Key(name) == NormalizePath(name, FALSE)

(* size() - 1 after push_back, counted from one.                           *)
Position(dir) == Len(dir.fileEntries) + 1

(* A directory with one more child, in both of its tables.                 *)
WithChild(dir, child, name) ==
    [dir EXCEPT !.fileEntries = Append(@, child),
                !.indexMapping = Inserted(@, Key(name), Position(dir))]

AddChild(e, name, type, data) ==
    /\ ~Rejects(e, name)
    /\ Len(entries) < MaxEntries
    /\ LET child == Len(entries) + 1
       IN  /\ entries' = [entries EXCEPT ![e] = WithChild(@, child, name)]
                            \o <<NewEntry(name, type, data)>>
           /\ Ends(Returned, child)

AddChildThrows(e, name) ==
    /\ Rejects(e, name)
    /\ Throws

-----------------------------------------------------------------------------
(***************************************************************************)
(* The reading calls.                                                      *)
(***************************************************************************)
Find(e, name) ==
    IF name \in DOMAIN entries[e].indexMapping
    THEN entries[e].fileEntries[entries[e].indexMapping[name]]
    ELSE NoEntry

(* getChildInternal goes down one component at a time and asks no entry on *)
(* the way for its type.                                                   *)
GetChildInternal(e, path) ==
    FoldLeft(LAMBDA at, name : IF at = NoEntry THEN NoEntry ELSE Find(at, name),
             e, Components(path))

(* getChild, numChildren and listChildren all begin with this test.        *)
NoDirectory(e) ==
    /\ entries[e].type # DIRECTORY
    /\ Throws

GetChild(e, path) ==
    /\ entries[e].type = DIRECTORY
    /\ Reads(Returned, GetChildInternal(e, NormalizePath(path, FALSE)))

NumChildren(e) ==
    /\ entries[e].type = DIRECTORY
    /\ Reads(Returned, Len(entries[e].fileEntries))

ListChildren(e) ==
    /\ entries[e].type = DIRECTORY
    /\ Reads(Returned, entries[e].fileEntries)

Open(e, mode) ==
    IF entries[e].type # FILE \/ MODE_WRITE \in mode \/ MODE_MEMORY_MAPPED \in mode
    THEN Throws
    ELSE Reads(Returned, entries[e].data)

(* deleteChild, createEntry and rename.                                    *)
Unsupported(e) == Throws

Next ==
    \E e \in Ids :
        \/ \E name \in Names, type \in EntryType, data \in Contents :
            AddChild(e, name, type, data)
        \/ \E name \in Names : AddChildThrows(e, name)
        \/ NoDirectory(e)
        \/ \E path \in Lookups : GetChild(e, path)
        \/ NumChildren(e)
        \/ ListChildren(e)
        \/ \E mode \in SUBSET OpenMode : Open(e, mode)
        \/ Unsupported(e)

Spec == Init /\ [][Next]_vars

-----------------------------------------------------------------------------
(***************************************************************************)
(* A merged file system above (MergedEntry::addChildren and cacheChildren, *)
(* with this as its only system): the name it files each child of the root *)
(* under, the first child of a name winning.                               *)
(***************************************************************************)
(* Seeded fault: every entry is filed as it is spelled.                    *)
MergedNameAsSpelled(child, caseInsensitive) == entries[child].path

MergedName(child, caseInsensitive) ==
    Components(NormalizePath(entries[child].path, caseInsensitive))[1]

(* Of two children with one name the one that was listed first stays.      *)
FirstKept(map, name, child) == Inserted(map, name, child)

MergedChildren(caseInsensitive) ==
    FoldLeft(LAMBDA map, child :
                FirstKept(map, MergedName(child, caseInsensitive), child),
             << >>, entries[1].fileEntries)

-----------------------------------------------------------------------------
(***************************************************************************)
(* Properties.                                                             *)
(***************************************************************************)
(* The entry getChild returns bears the last component of the path it was  *)
(* asked for: positions and objects stay in step however many children of  *)
(* however many spellings were added before (addChild's size() - 1).       *)
FoundHasTheName ==
    \A e \in Ids, path \in Lookups :
        LET wanted == NormalizePath(path, FALSE)
            found  == GetChildInternal(e, wanted)
        IN  found # NoEntry =>
                entries[found].path = Last(Components(wanted))

(* A name that a directory once found leads to that entry for ever,        *)
(* whatever is added later under the same name: an earlier handle never    *)
(* goes stale (insert and push_back in addChild).                          *)
LookupIsStable ==
    [][\A e \in Ids : \A name \in DOMAIN entries[e].indexMapping :
        Find(e, name)' = Find(e, name)]_vars

(* A merged file system over this one files the children of the root under *)
(* the names, and resolves their duplicates to the objects, that the       *)
(* memory file system's own getChild does: it finds what was added, and    *)
(* opens the same file.  With caseInsensitive set a name in lower case     *)
(* leads to the earliest child that was added in some spelling of it.      *)
MergedAgrees ==
    LET merged == MergedChildren(FALSE)
        folded == MergedChildren(TRUE)
        kids   == entries[1].fileEntries
    IN  /\ DOMAIN merged = DOMAIN entries[1].indexMapping
        /\ \A name \in DOMAIN merged : merged[name] = Find(1, name)
        /\ \A i \in DOMAIN kids :
            LET name == NormalizePath(entries[kids[i]].path, TRUE)
            IN  /\ name \in DOMAIN folded
                /\ folded[name] <= kids[i]
                /\ NormalizePath(entries[folded[name]].path, TRUE) = name
=============================================================================
