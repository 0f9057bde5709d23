----------------------------- MODULE MergedTree -----------------------------
(***************************************************************************)
(* A MergedFileSystem over several physical trees, and the tree of cached  *)
(* MergedEntry objects below its root entry, used by one client: lookups   *)
(* through many levels, and the writes of one level that must invalidate   *)
(* what others have cached.  MergedCache has the threads that share one    *)
(* directory; here calls do not overlap.                                   *)
(*                                                                         *)
(* The entry that the cache holds at path p is known[p], the system of its *)
(* containedEntry (0: there is none), and dirty[p].  A pass over p makes   *)
(* new entries for the children of p, so the cache forgets all below them. *)
(* The client calls entries that the cache holds; what it may still do     *)
(* with an entry the cache has dropped is not modelled.  A system may fail *)
(* any deletion, also half way through, any opening of a file and, without *)
(* a word, any making of one.  Names are never empty, and files are opened *)
(* without MODE_MEMORY_MAPPED: what a physical system makes of these is in *)
(* PhysicalFS.                                                             *)
(***************************************************************************)
EXTENDS DiskTree, FiniteSets

CONSTANTS
    Ops,         \* Ops[s]: supportedOperations() of the s-th system
    Starts,      \* the trees a system can have at first
    Modes,       \* the mode masks open is called with
    Disciplined  \* the client keeps to MayRename and MayAdd

NumSystems == Len(Ops)
Systems    == 1..NumSystems

ASSUME SystemsAssumption ==
    /\ Ops \in Seq(SUBSET Operations)
    /\ Starts \subseteq {k \in [Paths -> EntryType] : IsTree(k) /\ k[Root] = DIRECTORY}
    /\ Modes \subseteq SUBSET {MODE_READ, MODE_WRITE}
    /\ Disciplined \in BOOLEAN

VARIABLES
    disk,    \* disk[s]: the tree of system s
    added,   \* MergedFileSystem::fileSystems.size(): the first systems
    known,   \* known[p]: the system of the cached entry p, 0 for none
    dirty,   \* dirty[p]: MergedEntry::dirty of the entry p
    pc,      \* where the client's call is
    what,    \* the call
    at,      \* the entry whose code runs
    goal,    \* the path getEntryInternal goes down to
    name,    \* what deleteChild deletes in goal
    mode,    \* the mode open was called with
    todo,    \* the entries populateChildren has reached
    levels,  \* and its level
    answer,  \* the system of the entry the call returns, 0 for null
    outcome, \* how the call ended
    (***********************************************************************)
    (* History: no step depends on these.                                  *)
    (***********************************************************************)
    refused, \* the systems whose FileSystemException the call has swallowed
    halved   \* the names of which a failed deletion took a part away since
             \* a pass last made new entries for them or for what is below

cache == <<known, dirty, halved>>
args  == <<what, goal, name, mode, todo, levels, answer, refused>>
vars  == <<disk, added, cache, pc, at, args, outcome>>

PC    == {"idle", "walk", "populate", "done"}
Calls == {"none", "getChild", "listChildren", "deleteChild", "createEntry",
          "rename", "open", "populateEntries"}

(* MergedFileSystem::supportedOperations is the union over the systems.    *)
With(op)  == {s \in 1..added : op \in Ops[s]}
Supported == {op \in Operations : With(op) # {}}

(* The entries the cache holds.                                            *)
Entries == {p \in Paths : p = Root \/ known[p] # 0}

(* MergedEntry::getType: the contained entry asks the disk each time.      *)
TypeOf(p) == IF IsRoot(p) THEN DIRECTORY ELSE disk[known[p]][p]

(* BOOST_FOREACH over fileSystems, up to the first system that will do.    *)
IsFirst(s, S) == s \in S /\ \A r \in S : s <= r

(***************************************************************************)
(* The decisions the properties depend on, each with a seeded fault.       *)
(***************************************************************************)
Holders(p) == {s \in With(OP_READ) : Exists(disk[s], p)}

(* Seeded fault: the last system that lists a name supplies its entry.     *)
LastHolder(p) ==
    IF Holders(p) = {} THEN 0 ELSE CHOOSE s \in Holders(p) : \A r \in Holders(p) : r <= s

(* addChildren: the first readable system with the name; 0 if none has it. *)
Overlay(p) ==
    IF Holders(p) = {} THEN 0 ELSE CHOOSE s \in Holders(p) : IsFirst(s, Holders(p))

(* Seeded fault: deleteChild stops at the first system that has the name.  *)
DeletesInFirst(p) ==
    {s \in With(OP_DELETE) : IsFirst(s, {r \in With(OP_DELETE) : Exists(disk[r], p)})}

(* All the systems that allow it and have the name.                        *)
DeletesIn(p) == {s \in With(OP_DELETE) : Exists(disk[s], p)}

CreatesIn(p) == {s \in With(OP_CREATE) : disk[s][p] = DIRECTORY}

(* Seeded fault: rename leaves the directory of the entry clean.           *)
LeftClean(p) == UNCHANGED dirty

Invalidated(p) == dirty' = [dirty EXCEPT ![p] = TRUE]

(* The systems whose file open tries after the contained entry has failed. *)
Tries(p, m) == {s \in 1..added : Ops[s] \cap ModeToOperation(m) # {} /\ disk[s][p] = FILE}

OpensIn(s, p, m) == disk[s][p] = FILE /\ ModeToOperation(m) \subseteq Ops[s]

(* Seeded fault: the first system whose file cannot be opened ends open.   *)
FirstLeft(p, m, failing) ==
    {s \in Tries(p, m) : IsFirst(s, Tries(p, m)) /\ ~(OpensIn(s, p, m) /\ s \in failing)}

(* The systems that are left when "Ignore filesystem errors and continue   *)
(* searching" has passed over those that fail.                             *)
Left(p, m, failing) == {s \in Tries(p, m) : ~(OpensIn(s, p, m) /\ s \in failing)}

-----------------------------------------------------------------------------
Init ==
    /\ disk \in [Systems -> Starts]
    /\ added = 0
    /\ known = [p \in Paths |-> 0]
    /\ dirty = [p \in Paths |-> TRUE]
    /\ pc = "idle"
    /\ what = "none"
    /\ at = Root
    /\ goal = Root
    /\ name = Root
    /\ mode = {}
    /\ todo = {}
    /\ levels = 0
    /\ answer = 0
    /\ outcome = "none"
    /\ refused = {}
    /\ halved = {}

Finish(result) == pc' = "done" /\ outcome' = result

Call(w, p) == pc = "idle" /\ p \in Entries /\ what' = w /\ at' = p

(***************************************************************************)
(* cacheChildren of the dirty entries in S, none of them below another.  A *)
(* child lies in the systems where the entry's path is a directory.        *)
(***************************************************************************)
Pass(S) ==
    LET passed  == {p \in S : dirty[p]}
        Below(q) == \E p \in passed : IsStrictPrefix(p, q)
    IN  /\ known' = [q \in Paths |->
                        IF ~Below(q) THEN known[q]
                        ELSE IF ParentPath(q) \in passed THEN Overlay(q) ELSE 0]
        /\ dirty' = [q \in Paths |-> IF q \in passed THEN FALSE ELSE Below(q) \/ dirty[q]]
        /\ halved' = {h \in halved : \A p \in passed : ~IsPrefix(p, h)}

(***************************************************************************)
(* getEntryInternal(goal) from at on: a pass over each dirty entry on the  *)
(* way, the type of which only deleteChild tests.                          *)
(***************************************************************************)
MayPass == what = "deleteChild" => TypeOf(at) = DIRECTORY

OnTheWay == pc = "walk" /\ at # goal /\ MayPass

Arrived(w) == pc = "walk" /\ at = goal /\ MayPass /\ what = w

NextOnTheWay == SubSeq(goal, 1, Len(at) + 1)

PassOnTheWay ==
    /\ OnTheWay
    /\ dirty[at]
    /\ Pass({at})
    /\ UNCHANGED <<disk, added, pc, at, args, outcome>>

GoDown ==
    /\ OnTheWay
    /\ ~dirty[at]
    /\ known[NextOnTheWay] # 0
    /\ at' = NextOnTheWay
    /\ UNCHANGED <<disk, added, cache, pc, args, outcome>>

(* Nothing there: getChild returns null, deleteChild false, and rename has *)
(* the root entry recached.                                                *)
NothingThere ==
    /\ OnTheWay
    /\ ~dirty[at]
    /\ known[NextOnTheWay] = 0
    /\ IF what = "rename" THEN Invalidated(Root) ELSE UNCHANGED dirty
    /\ Finish(CASE what = "getChild"    -> "null"
                [] what = "deleteChild" -> "false"
                [] what = "rename"      -> Returned)
    /\ UNCHANGED <<disk, added, known, halved, at, args>>

-----------------------------------------------------------------------------
GetChild(p, q) ==
    /\ Call("getChild", p)
    /\ IsStrictPrefix(p, q)
    /\ goal' = q
    /\ IF TypeOf(p) = DIRECTORY THEN pc' = "walk" /\ UNCHANGED outcome ELSE Finish(InvalidOperation)
    /\ UNCHANGED <<disk, added, cache, name, mode, todo, levels, answer, refused>>

GetChildReturns ==
    /\ Arrived("getChild")
    /\ answer' = known[goal]
    /\ Finish(Returned)
    /\ UNCHANGED <<disk, added, cache, at, what, goal, name, mode, todo, levels, refused>>

(* numChildren and listChildren.                                           *)
ListChildren(p) ==
    /\ Call("listChildren", p)
    /\ IF TypeOf(p) = DIRECTORY THEN Pass({p}) /\ Finish(Returned)
       ELSE Finish(InvalidOperation) /\ UNCHANGED cache
    /\ UNCHANGED <<disk, added, goal, name, mode, todo, levels, answer, refused>>

(***************************************************************************)
(* deleteChild: the entry of the directory that holds the name deletes it. *)
(***************************************************************************)
DeleteChild(p, q) ==
    /\ Call("deleteChild", p)
    /\ IsStrictPrefix(p, q)
    /\ goal' = ParentPath(q)
    /\ name' = q
    /\ IF OP_DELETE \in Supported THEN pc' = "walk" /\ UNCHANGED outcome ELSE Finish(InvalidOperation)
    /\ UNCHANGED <<disk, added, cache, mode, todo, levels, answer, refused>>

DeleteThrows ==
    /\ pc = "walk" /\ ~MayPass
    /\ Finish(InvalidOperation)
    /\ UNCHANGED <<disk, added, cache, at, args>>

(* What remove_all can leave in system s: nothing, or with an exception    *)
(* the name and any part of what was below it.                             *)
MayLeave(s, rest) ==
    /\ rest \subseteq {p \in Subtree(name) : Exists(disk[s], p)}
    /\ \A p \in rest, q \in Subtree(name) : IsPrefix(q, p) => q \in rest

(* The loop over the systems.  The exception of one is swallowed and the   *)
(* loop goes on; only a deletion that succeeds makes the entry dirty.      *)
DeleteHere ==
    /\ Arrived("deleteChild")
    /\ \E rest \in [DeletesIn(name) -> SUBSET Subtree(name)] :
           LET deleted == {s \in DeletesIn(name) : rest[s] = {}}
           IN  /\ \A s \in DeletesIn(name) : MayLeave(s, rest[s])
               /\ disk' = [s \in Systems |->
                              IF s \in DeletesIn(name)
                              THEN [p \in Paths |-> IF IsPrefix(name, p) /\ p \notin rest[s]
                                                    THEN UNKNOWN ELSE disk[s][p]]
                              ELSE disk[s]]
               /\ refused' = DeletesIn(name) \ deleted
               /\ IF deleted = {} THEN Finish("false") /\ UNCHANGED dirty
                  ELSE Finish("true") /\ Invalidated(at)
               /\ halved' = IF deleted = {} /\ disk' # disk THEN halved \cup {name} ELSE halved
    /\ UNCHANGED <<added, known, at, what, goal, name, mode, todo, levels, answer>>

(***************************************************************************)
(* createEntry: the first system that allows it and has the directory.     *)
(***************************************************************************)
(* PhysicalEntry::createEntry: an existing directory is refused too.       *)
Refuses(k, type, q) ==
    \/ type = UNKNOWN
    \/ Exists(k, q) /\ ~(type = FILE /\ k[q] = FILE)

FileInTheWay(k, q) == \E p \in Paths : IsStrictPrefix(p, q) /\ k[p] = FILE

(* Seeded fault: the directories of a new entry's path are not made.       *)
MadeAlone(k, type, q) == [k EXCEPT ![q] = type]

Made(k, type, q) ==
    [p \in Paths |-> IF p = q THEN type ELSE IF IsStrictPrefix(p, q) THEN DIRECTORY ELSE k[p]]

(* The ofstream that should make a file may fail without a word.           *)
Creations(k, type, q) ==
    {Made(k, type, q)} \cup
    IF type = FILE /\ ~Exists(k, q) THEN {[Made(k, type, q) EXCEPT ![q] = UNKNOWN]} ELSE {}

CreateEntry(p, type, q) ==
    /\ Call("createEntry", p)
    /\ IsStrictPrefix(p, q)
    /\ OP_CREATE \in Supported /\ TypeOf(p) = DIRECTORY
    /\ \E s \in CreatesIn(p) :
           /\ IsFirst(s, CreatesIn(p))
           /\ ~Refuses(disk[s], type, q) /\ ~FileInTheWay(disk[s], q)
           /\ \E k \in Creations(disk[s], type, q) : disk' = [disk EXCEPT ![s] = k]
           /\ answer' = s
    /\ Invalidated(p)
    /\ Finish(Returned)
    /\ goal' = q
    /\ UNCHANGED <<added, known, halved, name, mode, todo, levels, refused>>

CreateFails(p, type, q) ==
    /\ Call("createEntry", p)
    /\ IsStrictPrefix(p, q)
    /\ \/ OP_CREATE \notin Supported /\ Finish(InvalidOperation)
       \/ OP_CREATE \in Supported /\ TypeOf(p) # DIRECTORY /\ Finish(InvalidOperation)
       \/ OP_CREATE \in Supported /\ TypeOf(p) = DIRECTORY /\ CreatesIn(p) = {} /\ Finish("null")
       \/ /\ OP_CREATE \in Supported /\ TypeOf(p) = DIRECTORY
          /\ \E s \in CreatesIn(p) :
                 /\ IsFirst(s, CreatesIn(p))
                 /\ \/ Refuses(disk[s], type, q) /\ Finish(InvalidOperation)
                    \/ ~Refuses(disk[s], type, q) /\ FileInTheWay(disk[s], q) /\ Finish(LibraryError)
    /\ UNCHANGED <<disk, added, cache, goal, name, mode, todo, levels, answer, refused>>

(***************************************************************************)
(* rename: the contained entry is renamed, to a path from the root of its  *)
(* system; then getParent goes down from the root entry to the directory   *)
(* the entry was in, which becomes dirty.                                  *)
(***************************************************************************)
RenameAllowed(p) == ~IsRoot(p) /\ Ops[known[p]] \cap {OP_DELETE, OP_CREATE} # {}

MayRename(p, q) == Disciplined => ~IsRoot(q) /\ ParentPath(p) = ParentPath(q)

Rename(p, q) ==
    /\ Call("rename", Root)
    /\ p \in Entries
    /\ RenameAllowed(p) /\ MayRename(p, q)
    /\ CanMove(disk[known[p]], p, q)
    /\ disk' = [disk EXCEPT ![known[p]] = Moved(@, p, q)]
    /\ goal' = ParentPath(p)
    /\ pc' = "walk"
    /\ UNCHANGED <<added, cache, name, mode, todo, levels, answer, refused, outcome>>

RenameFails(p, q) ==
    /\ Call("rename", p)
    /\ \/ IsRoot(p) /\ Finish(FileSystemError)
       \/ ~IsRoot(p) /\ ~RenameAllowed(p) /\ Finish(InvalidOperation)
       \/ RenameAllowed(p) /\ ~CanMove(disk[known[p]], p, q) /\ Finish(LibraryError)
    /\ UNCHANGED <<disk, added, cache, goal, name, mode, todo, levels, answer, refused>>

RenameReturns ==
    /\ Arrived("rename")
    /\ Invalidated(at)
    /\ Finish(Returned)
    /\ UNCHANGED <<disk, added, known, halved, at, args>>

(***************************************************************************)
(* open: the contained entry first, whatever that throws; then the systems *)
(* that have some operation asked for.  One that fails to open its file is *)
(* passed over; one that lacks another operation throws                    *)
(* InvalidOperationException, which open does not catch.                   *)
(***************************************************************************)
OpenResult(p, m, failing) ==
    IF Supported \cap ModeToOperation(m) = {} \/ TypeOf(p) # FILE THEN InvalidOperation
    ELSE IF OpensIn(known[p], p, m) /\ known[p] \notin failing THEN Returned
    ELSE IF Left(p, m, failing) = {} THEN FileSystemError
    ELSE IF \E s \in Left(p, m, failing) : IsFirst(s, Left(p, m, failing)) /\ OpensIn(s, p, m)
         THEN Returned
    ELSE InvalidOperation

Open(p, m) ==
    /\ Call("open", p)
    /\ mode' = m
    /\ refused' \in SUBSET {s \in 1..added : OpensIn(s, p, m)}
    /\ Finish(OpenResult(p, m, refused'))
    /\ UNCHANGED <<disk, added, cache, goal, name, todo, levels, answer>>

(***************************************************************************)
(* MergedFileSystem: addFileSystem and populateEntries.                    *)
(***************************************************************************)
MayAdd == Disciplined => dirty[Root]

AddFileSystem ==
    /\ pc = "idle"
    /\ added < NumSystems
    /\ MayAdd
    /\ added' = added + 1
    /\ UNCHANGED <<disk, cache, pc, at, args, outcome>>

PopulateEntries(n) ==
    /\ Call("populateEntries", Root)
    /\ todo' = {Root}
    /\ levels' = n
    /\ pc' = "populate"
    /\ UNCHANGED <<disk, added, cache, goal, name, mode, answer, refused, outcome>>

(* One level of populateChildren, for all the directories it has reached.  *)
PopulateLevel ==
    /\ pc = "populate"
    /\ levels > 0
    /\ Pass(todo)
    /\ todo' = {q \in UNION {ChildrenOf(p) : p \in todo} :
                    known'[q] # 0 /\ disk[known'[q]][q] = DIRECTORY}
    /\ levels' = levels - 1
    /\ UNCHANGED <<disk, added, pc, at, what, goal, name, mode, answer, refused, outcome>>

Populated ==
    /\ pc = "populate"
    /\ levels = 0
    /\ Finish(Returned)
    /\ UNCHANGED <<disk, added, cache, at, args>>

-----------------------------------------------------------------------------
(* The call returns to the client.                                         *)
Return ==
    /\ pc = "done"
    /\ pc' = "idle"
    /\ what' = "none" /\ at' = Root /\ goal' = Root /\ name' = Root /\ mode' = {}
    /\ todo' = {} /\ levels' = 0 /\ answer' = 0 /\ outcome' = "none" /\ refused' = {}
    /\ UNCHANGED <<disk, added, cache>>

Request ==
    \/ \E p, q \in Paths :
           \/ GetChild(p, q) \/ DeleteChild(p, q) \/ Rename(p, q) \/ RenameFails(p, q)
           \/ \E type \in EntryType : CreateEntry(p, type, q) \/ CreateFails(p, type, q)
    \/ \E p \in Paths : ListChildren(p) \/ \E m \in Modes : Open(p, m)
    \/ \E n \in 0..2 : PopulateEntries(n)

Next ==
    \/ Request \/ AddFileSystem
    \/ PassOnTheWay \/ GoDown \/ NothingThere
    \/ GetChildReturns \/ DeleteThrows \/ DeleteHere \/ RenameReturns
    \/ PopulateLevel \/ Populated \/ Return

Spec == Init /\ [][Next]_vars

-----------------------------------------------------------------------------
(* The entries form a tree, and the code never asks an entry it has not.   *)
TypeOK ==
    /\ disk \in [Systems -> [Paths -> EntryType]]
    /\ \A s \in Systems : IsTree(disk[s]) /\ disk[s][Root] = DIRECTORY
    /\ added \in 0..NumSystems
    /\ known \in [Paths -> 0..added]
    /\ known[Root] = 0
    /\ \A p \in Entries \ {Root} : ParentPath(p) \in Entries
    /\ dirty \in [Paths -> BOOLEAN]
    /\ pc \in PC
    /\ what \in Calls
    /\ at \in Entries
    /\ {goal, name} \cup todo \subseteq Paths
    /\ mode \in Modes \cup {{}}
    /\ levels \in Nat
    /\ answer \in 0..added
    /\ outcome \in Outcomes \cup {"none", "null", "true", "false"}
    /\ refused \subseteq 1..added
    /\ halved \subseteq Paths

(* No entry on the way from the root entry to p is dirty.                  *)
Live(p) == p \in Entries /\ \A r \in Paths : IsStrictPrefix(r, p) => ~dirty[r]

(* rename has changed a disk and not yet invalidated the directory.        *)
Renaming(p) == what = "rename" /\ pc = "walk" /\ IsPrefix(goal, p)

(* System s is the first readable one that has p, or 0 and none has it.    *)
Supplies(s, p) ==
    \/ s = 0 /\ \A r \in With(OP_READ) : disk[r][p] = UNKNOWN
    \/ /\ s \in With(OP_READ) /\ disk[s][p] # UNKNOWN
       /\ \A r \in With(OP_READ) : r < s => disk[r][p] = UNKNOWN

(* A deletion that failed has taken a part of what is below p.             *)
Halved(p) == \E h \in halved : IsPrefix(h, p)

(***************************************************************************)
(* What a clean entry has cached is what cacheChildren would find now, for *)
(* every entry with no dirty one above it: each write invalidates the one  *)
(* entry whose children it changed, and passes above make new entries for  *)
(* the levels below.  Where a deletion has failed half way (MergedEntry    *)
(* .cpp:303 swallows it and leaves the entry clean) the cache may hold     *)
(* names that are gone, but still none is missing.                         *)
(***************************************************************************)
CacheFresh ==
    Disciplined =>
        \A p \in Paths : Live(p) /\ ~dirty[p] /\ ~Renaming(p) =>
            \A q \in ChildrenOf(p) : Supplies(known[q], q) \/ (Halved(p) /\ known[q] # 0)

(***************************************************************************)
(* getChild of a path of any length, after any calls, answers what asking  *)
(* every system for the whole path would: the first readable one that has  *)
(* it, and null only when none has.  Only below a directory that a failed  *)
(* deletion has left behind may it find what is gone.                      *)
(***************************************************************************)
LookupIsCurrent ==
    Disciplined /\ pc = "done" /\ what = "getChild" /\ outcome # InvalidOperation /\ Live(at) =>
        Supplies(answer, goal) \/ (answer # 0 /\ Halved(ParentPath(goal)))

(***************************************************************************)
(* When deleteChild returns, with either answer, nothing of the name is    *)
(* left in any system that can be read and allows deleting, whatever the   *)
(* walk through the cached levels has found, but in those whose exception  *)
(* was swallowed.                                                          *)
(***************************************************************************)
DeletedUnlessRefused ==
    Disciplined /\ pc = "done" /\ what = "deleteChild" /\ outcome \in {"true", "false"} /\ Live(at) =>
        \A s \in (With(OP_DELETE) \cap With(OP_READ)) \ refused :
            \A p \in Subtree(name) : ~Exists(disk[s], p)

(***************************************************************************)
(* MergedEntry.cpp:210 and 233: if the contained entry cannot be opened, a *)
(* file of another system is, past those that fail: open succeeds when     *)
(* some system opens the file and each system asked before it has all the  *)
(* operations of the mode.                                                 *)
(***************************************************************************)
OpenFallsBack ==
    /\ pc = "done" /\ what = "open"
    /\ TypeOf(at) = FILE /\ ModeToOperation(mode) # {}
    /\ \E s \in (1..added) \ refused :
           /\ OpensIn(s, at, mode)
           /\ \A r \in Tries(at, mode) : r < s => OpensIn(r, at, mode)
    => outcome = Returned

-----------------------------------------------------------------------------
(* The next three do not hold of the code.                                 *)
(***************************************************************************)
(* A deleteChild that returns true has deleted the name, as                *)
(* test/system/directory.cpp:127-129 expects of the physical systems: none *)
(* of those that allow deleting has it any more.                           *)
(***************************************************************************)
DeletedEverywhere ==
    pc = "done" /\ what = "deleteChild" /\ outcome = "true" =>
        \A s \in With(OP_DELETE) : ~Exists(disk[s], name)

(***************************************************************************)
(* getChild finds nothing where no system has anything, as                 *)
(* test/merged/merged.cpp:105 expects it.                                  *)
(***************************************************************************)
AbsentNotFound ==
    /\ Disciplined /\ pc = "done" /\ what = "getChild" /\ outcome = Returned /\ Live(at)
    => \E s \in 1..added : Exists(disk[s], goal)

(***************************************************************************)
(* MergedEntry.cpp:210: if the contained entry cannot be opened, open will *)
(* "try to open a file of another filesystem": it succeeds when some       *)
(* system has the file and all the operations asked for and opens it.      *)
(***************************************************************************)
OpenFindsCapable ==
    /\ pc = "done" /\ what = "open"
    /\ TypeOf(at) = FILE /\ ModeToOperation(mode) # {}
    /\ \E s \in (1..added) \ refused : OpensIn(s, at, mode)
    => outcome = Returned
=============================================================================
