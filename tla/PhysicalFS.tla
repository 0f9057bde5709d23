----------------------------- MODULE PhysicalFS -----------------------------
(***************************************************************************)
(* PhysicalFileSystem and the calls on its PhysicalEntry objects.  An      *)
(* entry keeps nothing but its path and the allowed operations of its      *)
(* system, so every call asks the disk several times: each such question   *)
(* and each change of the disk is a step of its own here, and steps of     *)
(* other threads come between.                                             *)
(***************************************************************************)
EXTENDS DiskTree, FiniteSets

CONSTANTS
    Threads,    \* the callers
    Targets,    \* the names calls pass, as paths
    Modes,      \* the mode masks open is called with
    Masks,      \* the masks setAllowedOperations is called with
    Unwritable, \* paths at which no file can be created
    Stuck,      \* paths that cannot be removed
    Apart       \* callers keep calls on the same subtree apart

ASSUME CallersAssumption ==
    /\ Targets \subseteq Paths
    /\ Modes \subseteq SUBSET OpenMode
    /\ Masks \subseteq SUBSET Operations
    /\ Unwritable \subseteq Paths
    /\ Stuck \subseteq Paths
    /\ Apart \in BOOLEAN

VARIABLES
    kind,    \* kind[p]: what is on the disk at p
    filled,  \* the files that are not empty
    ops,     \* PhysicalFileSystem::operations
    pc,      \* pc[t]: the next step of thread t's call
    call,    \* call[t]: the call and its arguments
    granted, \* granted[t]: the operations that were allowed when t's call
             \* passed its checks (a history variable, no step depends on it)
    removed, \* removed[t]: remove_all has removed something
    outcome, \* outcome[t]: how the call ended
    ret      \* ret[t]: the paths of the entries it returned

disk   == <<kind, filled>>
locals == <<call, removed, outcome, ret>>
vars   == <<kind, filled, ops, pc, call, granted, removed, outcome, ret>>

Calls == {"none", "getChild", "listChildren", "createEntry", "deleteChild", "open", "rename"}
PC    == {"idle", "enter", "look", "parents", "make", "remove", "remove_all", "act", "done"}

(* Besides the exceptions: a result, deleteChild's booleans, a null entry. *)
Results == Outcomes \cup {"none", "true", "false", "null"}

NoCall == [what |-> "none", at |-> Root, name |-> Root, type |-> UNKNOWN, mode |-> {}]

Init ==
    /\ kind \in {k \in [Paths -> EntryType] : IsTree(k)}
    /\ filled = {p \in Paths : kind[p] = FILE}
    /\ ops = Operations
    /\ pc = [t \in Threads |-> "idle"]
    /\ call = [t \in Threads |-> NoCall]
    /\ granted = [t \in Threads |-> {}]
    /\ removed = [t \in Threads |-> FALSE]
    /\ outcome = [t \in Threads |-> "none"]
    /\ ret = [t \in Threads |-> {}]

Goto(t, label) == pc' = [pc EXCEPT ![t] = label]

At(t, what, label) == call[t].what = what /\ pc[t] = label

(* The call returns result, or throws it, with these entries.              *)
Finish(t, result, entries) ==
    /\ Goto(t, "done")
    /\ outcome' = [outcome EXCEPT ![t] = result]
    /\ ret' = [ret EXCEPT ![t] = entries]
    /\ UNCHANGED <<ops, call, granted, removed>>

Continue(t, label) == Goto(t, label) /\ UNCHANGED <<ops, granted, locals>>

(* entryPath / name                                                        *)
Target(t) == call[t].at \o call[t].name

(* rename takes its new name from the root, not from the parent.           *)
Scope(c) == IF c.what = "rename" THEN {c.at, c.name} ELSE {c.at \o c.name}

MayCall(t, c) ==
    Apart => \A u \in Threads \ {t} : pc[u] # "idle" =>
        \A p \in Scope(call[u]), q \in Scope(c) : ~IsPrefix(p, q) /\ ~IsPrefix(q, p)

Begin(t, c) ==
    /\ pc[t] = "idle"
    /\ c.what # "rename" => c.at \o c.name \in Paths
    /\ MayCall(t, c)
    /\ call' = [call EXCEPT ![t] = c]
    /\ Goto(t, "enter")
    /\ UNCHANGED <<disk, ops, granted, removed, outcome, ret>>

Return(t) ==
    /\ pc[t] = "done"
    /\ Goto(t, "idle")
    /\ call' = [call EXCEPT ![t] = NoCall]
    /\ granted' = [granted EXCEPT ![t] = {}]
    /\ removed' = [removed EXCEPT ![t] = FALSE]
    /\ outcome' = [outcome EXCEPT ![t] = "none"]
    /\ ret' = [ret EXCEPT ![t] = {}]
    /\ UNCHANGED <<disk, ops>>

(* setAllowedOperations, also while calls are under way.                   *)
SetAllowedOperations(allowed) ==
    /\ ops' = allowed
    /\ UNCHANGED <<disk, pc, granted, locals>>

IsDirectory(p) == kind[p] = DIRECTORY
IsFile(p)      == kind[p] = FILE

(***************************************************************************)
(* The tests the calls rest on, each after the seeded fault a property     *)
(* must notice.                                                            *)
(***************************************************************************)
(* Seeded fault: supportedOperations() is not asked.                       *)
NoMask(t) == TRUE

Allowed(t) ==
    CASE call[t].what = "listChildren" -> OP_READ \in ops
      [] call[t].what = "deleteChild"  -> OP_DELETE \in ops
      [] call[t].what = "createEntry"  -> OP_CREATE \in ops
      [] call[t].what = "open"         -> ModeToOperation(call[t].mode) \subseteq ops
      [] call[t].what = "rename"       -> ops \cap {OP_DELETE, OP_CREATE} # {}
      [] OTHER                         -> TRUE

(* Seeded fault: getType() is not asked.                                   *)
NoType(t) == TRUE

RightType(t) ==
    CASE call[t].what = "open"   -> IsFile(call[t].at)
      [] call[t].what = "rename" -> TRUE
      [] OTHER                   -> IsDirectory(call[t].at)

RightArgument(t) == call[t].what = "createEntry" => call[t].type \in {DIRECTORY, FILE}

(* Seeded fault: the name is not tested to be free.                        *)
NoTest(t) == TRUE

IsFree(t) == ~Exists(kind, Target(t))

(* Seeded fault: an existing path of any type will do for a file.          *)
AnyFile(t) == call[t].type = FILE

(* An existing file is accepted; an existing directory never: the switch   *)
(* falls through from a matching DIRECTORY to the default label.           *)
Accepted(t) == call[t].type = FILE /\ IsFile(Target(t))

Removable(p) == Exists(kind, p) /\ IsLeaf(kind, p) /\ p \notin Stuck

(* Seeded fault: the first removal ends remove_all.                        *)
SomeGone(t) == removed[t]

AllGone(t) == ~Exists(kind, Target(t))

(***************************************************************************)
(* The checks at the head of each call.                                    *)
(***************************************************************************)
Reject(t) ==
    /\ pc[t] = "enter"
    /\ ~(Allowed(t) /\ RightType(t) /\ RightArgument(t))
    /\ Finish(t, InvalidOperation, {})
    /\ UNCHANGED disk

FirstStep(what) ==
    CASE what \in {"getChild", "createEntry", "deleteChild"} -> "look"
      [] OTHER -> "act"

Enter(t) ==
    /\ pc[t] = "enter"
    /\ Allowed(t) /\ RightType(t) /\ RightArgument(t)
    /\ Goto(t, FirstStep(call[t].what))
    /\ granted' = [granted EXCEPT ![t] = ops]
    /\ UNCHANGED <<disk, ops, locals>>

(***************************************************************************)
(* getChild: the entry it returns has the name as its whole path.          *)
(***************************************************************************)
GetChild(t) ==
    /\ At(t, "getChild", "look")
    /\ IF Exists(kind, Target(t))
       THEN Finish(t, Returned, {call[t].name})
       ELSE Finish(t, "null", {})
    /\ UNCHANGED disk

(* directory_iterator throws when the directory has gone by now.           *)
ListChildren(t) ==
    /\ At(t, "listChildren", "act")
    /\ IF IsDirectory(call[t].at)
       THEN Finish(t, Returned, {p \in ChildrenOf(call[t].at) : Exists(kind, p)})
       ELSE Finish(t, LibraryError, {})
    /\ UNCHANGED disk

(***************************************************************************)
(* createEntry                                                             *)
(***************************************************************************)
FindExisting(t) ==
    /\ At(t, "createEntry", "look")
    /\ Exists(kind, Target(t))
    /\ IF Accepted(t)
       THEN Finish(t, Returned, {call[t].name})
       ELSE Finish(t, InvalidOperation, {})
    /\ UNCHANGED disk

FindMissing(t) ==
    /\ At(t, "createEntry", "look")
    /\ IsFree(t)
    /\ Continue(t, "parents")
    /\ UNCHANGED disk

(* What create_directories is called with.                                 *)
Directory(t) == IF call[t].type = FILE THEN ParentPath(Target(t)) ELSE Target(t)

(* Seeded fault: the directory asked for is made before its parents.       *)
MakeLast(t) ==
    /\ At(t, "createEntry", "parents")
    /\ ~Exists(kind, Directory(t))
    /\ kind' = [kind EXCEPT ![Directory(t)] = DIRECTORY]
    /\ UNCHANGED <<filled, ops, pc, granted, locals>>

(* create_directories makes one directory, the uppermost that is missing.  *)
MakeDirectory(t) ==
    /\ At(t, "createEntry", "parents")
    /\ \E p \in Paths :
           /\ FirstMissing(kind, Directory(t), p)
           /\ CanMake(kind, p)
           /\ kind' = [kind EXCEPT ![p] = DIRECTORY]
    /\ UNCHANGED <<filled, ops, pc, granted, locals>>

CannotMakeDirectory(t) ==
    /\ At(t, "createEntry", "parents")
    /\ \E p \in Paths : FirstMissing(kind, Directory(t), p) /\ ~CanMake(kind, p)
    /\ Finish(t, LibraryError, {})
    /\ UNCHANGED disk

DirectoriesMade(t) ==
    /\ At(t, "createEntry", "parents")
    /\ IsDirectory(Directory(t))
    /\ IF call[t].type = FILE
       THEN Continue(t, "make")
       ELSE Finish(t, Returned, {call[t].name})
    /\ UNCHANGED disk

(* ofstream newFile(createPath): creates the file, or empties the one that *)
(* is there by now, or fails without a word.                               *)
CanOpenForWriting(p) == IsFile(p) \/ (CanMake(kind, p) /\ p \notin Unwritable)

Truncate(p) ==
    /\ kind' = [kind EXCEPT ![p] = FILE]
    /\ filled' = filled \ {p}

MakeFile(t) ==
    /\ At(t, "createEntry", "make")
    /\ IF CanOpenForWriting(Target(t)) THEN Truncate(Target(t)) ELSE UNCHANGED disk
    /\ Finish(t, Returned, {call[t].name})

(***************************************************************************)
(* deleteChild                                                             *)
(***************************************************************************)
DeleteMissing(t) ==
    /\ At(t, "deleteChild", "look")
    /\ ~Exists(kind, Target(t))
    /\ Finish(t, "false", {})
    /\ UNCHANGED disk

DeleteExisting(t) ==
    /\ At(t, "deleteChild", "look")
    /\ Exists(kind, Target(t))
    /\ Continue(t, IF IsDirectory(Target(t)) THEN "remove_all" ELSE "remove")
    /\ UNCHANGED disk

Unlink(p) ==
    /\ kind' = [kind EXCEPT ![p] = UNKNOWN]
    /\ filled' = filled \ {p}

(* remove_all removes one path, all of whose children are gone.            *)
RemoveOne(t) ==
    /\ At(t, "deleteChild", "remove_all")
    /\ \E p \in Subtree(Target(t)) : Removable(p) /\ Unlink(p)
    /\ removed' = [removed EXCEPT ![t] = TRUE]
    /\ UNCHANGED <<ops, pc, call, granted, outcome, ret>>

RemovedAll(t) ==
    /\ At(t, "deleteChild", "remove_all")
    /\ AllGone(t)
    /\ Finish(t, IF removed[t] THEN "true" ELSE "false", {})
    /\ UNCHANGED disk

(* A path resists, or another thread put a child into a directory that     *)
(* remove_all is about to remove; what it removed before is gone.          *)
RemoveAllFails(t) ==
    /\ At(t, "deleteChild", "remove_all")
    /\ \E p \in Subtree(Target(t)) :
           /\ Exists(kind, p)
           /\ \/ p \in Stuck /\ IsLeaf(kind, p)
              \/ ~Apart /\ ~IsLeaf(kind, p)
    /\ Finish(t, FileSystemError, {})
    /\ UNCHANGED disk

RemoveFile(t) ==
    /\ At(t, "deleteChild", "remove")
    /\ \/ /\ Removable(Target(t))
          /\ Unlink(Target(t))
          /\ Finish(t, "true", {})
       \/ /\ ~Exists(kind, Target(t))
          /\ Finish(t, "false", {})
          /\ UNCHANGED disk
       \/ /\ Exists(kind, Target(t))
          /\ ~Removable(Target(t))
          /\ Finish(t, FileSystemError, {})
          /\ UNCHANGED disk

(***************************************************************************)
(* open                                                                    *)
(***************************************************************************)
Mapped(t) == MODE_MEMORY_MAPPED \in call[t].mode
Reads(t)  == MODE_READ  \in call[t].mode
Writes(t) == MODE_WRITE \in call[t].mode

(* filebuf::open with out alone creates the file or empties it.            *)
OpenTruncating(t) ==
    /\ At(t, "open", "act")
    /\ ~Mapped(t) /\ Writes(t) /\ ~Reads(t)
    /\ CanOpenForWriting(call[t].at)
    /\ Truncate(call[t].at)
    /\ Finish(t, Returned, {})

(* filebuf::open with in, and mapped_file, which maps no empty file and    *)
(* wants in among its modes.                                               *)
OpenExisting(t) ==
    /\ At(t, "open", "act")
    /\ Reads(t)
    /\ IsFile(call[t].at)
    /\ Mapped(t) => call[t].at \in filled
    /\ Finish(t, Returned, {})
    /\ UNCHANGED disk

OpenFails(t) ==
    /\ At(t, "open", "act")
    /\ \/ Mapped(t)  /\ ~(Reads(t) /\ call[t].at \in filled)
       \/ ~Mapped(t) /\ Reads(t) /\ ~IsFile(call[t].at)
       \/ ~Mapped(t) /\ Writes(t) /\ ~Reads(t) /\ ~CanOpenForWriting(call[t].at)
       \/ ~Mapped(t) /\ ~Writes(t) /\ ~Reads(t)
    /\ Finish(t, IF Mapped(t) THEN LibraryError ELSE FileSystemError, {})
    /\ UNCHANGED disk

(* The caller writes to the stream it got.                                 *)
WriteStream(t) ==
    /\ At(t, "open", "done")
    /\ outcome[t] = Returned /\ Writes(t)
    /\ IsFile(call[t].at)
    /\ filled' = filled \cup {call[t].at}
    /\ UNCHANGED <<kind, ops, pc, granted, locals>>

(***************************************************************************)
(* rename: to physicalRoot / newName.  The entry keeps its old path.       *)
(***************************************************************************)
Rename(t) ==
    /\ At(t, "rename", "act")
    /\ CanMove(kind, call[t].at, call[t].name)
    /\ kind' = Moved(kind, call[t].at, call[t].name)
    /\ filled' = MovedFiles(filled, call[t].at, call[t].name)
    /\ Finish(t, Returned, {})

RenameFails(t) ==
    /\ At(t, "rename", "act")
    /\ ~CanMove(kind, call[t].at, call[t].name)
    /\ Finish(t, LibraryError, {})
    /\ UNCHANGED disk

-----------------------------------------------------------------------------
(* The calls a client makes.  Bound: createEntry is given a name.          *)
ClientCalls ==
    [what : {"getChild", "deleteChild"}, at : Paths, name : Targets, type : {UNKNOWN}, mode : {{}}]
    \cup [what : {"listChildren"}, at : Paths, name : {Root}, type : {UNKNOWN}, mode : {{}}]
    \cup [what : {"createEntry"}, at : Paths, name : Targets \ {Root}, type : EntryType, mode : {{}}]
    \cup [what : {"open"}, at : Paths, name : {Root}, type : {UNKNOWN}, mode : Modes]
    \cup [what : {"rename"}, at : Paths, name : Targets, type : {UNKNOWN}, mode : {{}}]

CreateEntry(t) ==
    \/ FindExisting(t) \/ FindMissing(t) \/ MakeDirectory(t) \/ CannotMakeDirectory(t)
    \/ DirectoriesMade(t) \/ MakeFile(t)

DeleteChild(t) ==
    \/ DeleteMissing(t) \/ DeleteExisting(t) \/ RemoveOne(t) \/ RemovedAll(t)
    \/ RemoveAllFails(t) \/ RemoveFile(t)

Open(t) == OpenTruncating(t) \/ OpenExisting(t) \/ OpenFails(t)

Step(t) ==
    \/ Reject(t) \/ Enter(t) \/ GetChild(t) \/ ListChildren(t) \/ CreateEntry(t)
    \/ DeleteChild(t) \/ Open(t) \/ Rename(t) \/ RenameFails(t) \/ Return(t)

Next ==
    \/ \E t \in Threads : Step(t) \/ WriteStream(t) \/ \E c \in ClientCalls : Begin(t, c)
    \/ \E allowed \in Masks : SetAllowedOperations(allowed)

Spec == Init /\ [][Next]_vars

-----------------------------------------------------------------------------
TypeOK ==
    /\ kind \in [Paths -> EntryType]
    /\ filled \subseteq {p \in Paths : kind[p] = FILE}
    /\ ops \subseteq Operations
    /\ pc \in [Threads -> PC]
    /\ call \in [Threads -> ClientCalls \cup {NoCall}]
    /\ granted \in [Threads -> SUBSET Operations]
    /\ removed \in [Threads -> BOOLEAN]
    /\ outcome \in [Threads -> Results]
    /\ ret \in [Threads -> SUBSET Paths]
    /\ IsTree(kind)

(***************************************************************************)
(* A createEntry that returns an entry leaves an entry of the type asked   *)
(* for at entryPath / name: "This creates the file"                        *)
(* (PhysicalEntry.cpp:230), and MergedEntry.cpp:346 stops there because it *)
(* has "sucessfully created an entry".  The code does not keep this: the   *)
(* ofstream is never asked whether it could be opened.                     *)
(***************************************************************************)
CreatedExists ==
    \A t \in Threads : At(t, "createEntry", "done") /\ outcome[t] = Returned =>
        kind[Target(t)] = call[t].type

(***************************************************************************)
(* What createEntry does keep: the entry it returns is on the disk with    *)
(* the type asked for, or it is a file the system refused to create, and   *)
(* then nothing else is there; a directory it returns is always made.      *)
(***************************************************************************)
CreatedUnlessRefused ==
    \A t \in Threads : At(t, "createEntry", "done") /\ outcome[t] = Returned =>
        \/ kind[Target(t)] = call[t].type
        \/ call[t].type = FILE /\ Target(t) \in Unwritable /\ ~Exists(kind, Target(t))

(***************************************************************************)
(* A deleteChild that returns, with either answer, leaves nothing of the   *)
(* child and what was below it.                                            *)
(***************************************************************************)
DeletedIsGone ==
    \A t \in Threads : At(t, "deleteChild", "done") /\ outcome[t] \in {"true", "false"} =>
        \A p \in Subtree(Target(t)) : ~Exists(kind, p)

(***************************************************************************)
(* createEntry destroys nothing: it tests that the path is free before it  *)
(* opens it with a truncating ofstream.                                    *)
(***************************************************************************)
CreateKeepsContent ==
    [][\A t \in Threads : At(t, "createEntry", "make") /\ pc'[t] = "done" =>
           filled \subseteq filled']_vars

(***************************************************************************)
(* Nothing comes into being but by createEntry and rename: open tests that *)
(* the file is there before it opens it in a mode that would create it.    *)
(***************************************************************************)
OpenCreatesNothing ==
    [][\A t \in Threads : At(t, "open", "act") /\ pc'[t] = "done" =>
           \A p \in Paths : Exists(kind', p) => Exists(kind, p)]_vars

(***************************************************************************)
(* A system restricted to OP_READ (as test/merged/merged.cpp:61-62 sets it *)
(* up) keeps its disk as soon as the calls that were admitted before the   *)
(* restriction are over: while no call under way, and no stream a call     *)
(* returned, was granted more, no step changes anything, whatever the mask *)
(* is by now.  supportedOperations() is asked once, at the head of a call: *)
(* a call admitted before the restriction still does its work.             *)
(***************************************************************************)
ReadOnlyKept == [][(\A t \in Threads : granted[t] \subseteq {OP_READ}) => UNCHANGED disk]_vars
=============================================================================
