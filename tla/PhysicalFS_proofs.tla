------------------------- MODULE PhysicalFS_proofs -------------------------
(***************************************************************************)
(* Proofs about PhysicalFS for every set of paths, every number of threads *)
(* and all modes.                                                          *)
(***************************************************************************)
EXTENDS PhysicalFS, DiskTree_proofs

Typed ==
    /\ ops \subseteq Operations
    /\ pc \in [Threads -> PC]
    /\ call \in [Threads -> ClientCalls \cup {NoCall}]
    /\ granted \in [Threads -> SUBSET Operations]
    /\ removed \in [Threads -> BOOLEAN]
    /\ outcome \in [Threads -> Results]
    /\ ret \in [Threads -> SUBSET Paths]

DiskOK ==
    /\ kind \in [Paths -> EntryType]
    /\ filled \subseteq {p \in Paths : kind[p] = FILE}
    /\ IsTree(kind)

(* A call under way is one that a client makes, about a path that occurs.  *)
CallInv ==
    \A t \in Threads : pc[t] # "idle" =>
        /\ call[t] \in ClientCalls
        /\ call[t].what # "rename" => Target(t) \in Paths

(* The operations a call does.                                             *)
Needs(c) ==
    CASE c.what = "createEntry" -> {OP_CREATE}
      [] c.what = "deleteChild" -> {OP_DELETE}
      [] c.what = "open"        -> ModeToOperation(c.mode)
      [] OTHER                  -> {}

(* A call past its checks was granted what it does, until it is over; a    *)
(* rename one of two operations.                                           *)
GrantedEnough(t) ==
    pc[t] \notin {"idle", "enter", "done"} =>
        /\ Needs(call[t]) \subseteq granted[t]
        /\ call[t].what = "rename" => granted[t] \cap {OP_DELETE, OP_CREATE} # {}

(* A call that returned a stream keeps what it was granted, too.           *)
StreamGranted(t) ==
    At(t, "open", "done") /\ outcome[t] = Returned => Needs(call[t]) \subseteq granted[t]

GrantedInv == \A t \in Threads : GrantedEnough(t) /\ StreamGranted(t)

(* What the checks have found when they let the call pass.                 *)
LEMMA AllowedOperations ==
    ASSUME NEW t, Allowed(t)
    PROVE  /\ Needs(call[t]) \subseteq ops
           /\ call[t].what = "rename" => ops \cap {OP_DELETE, OP_CREATE} # {}
  BY DEF Allowed, Needs

(* The parts of a call are of their types.                                 *)
LEMMA CallParts ==
    ASSUME NEW c \in ClientCalls \cup {NoCall}
    PROVE  /\ c.what \in Calls /\ c.at \in Paths /\ c.name \in Paths
           /\ c.type \in EntryType /\ c.mode \in SUBSET OpenMode
  BY CallersAssumption, PathsAssumption DEF ClientCalls, NoCall, Calls, EntryType

(* Every step keeps the types of what belongs to the calls.                *)
LEMMA TypedStep == Typed /\ [Next]_vars => Typed'
<1> SUFFICES ASSUME Typed, [Next]_vars
             PROVE  Typed'
  OBVIOUS
<1> USE DEF Typed, Goto, Finish, Continue, locals, PC, Results, Outcomes
<1>1. ASSUME NEW t \in Threads, Step(t) PROVE Typed'
  <2>a. call[t].name \in Paths
    BY CallParts
  <2>1. CASE Reject(t) \/ Enter(t)
    BY <2>1 DEF Reject, Enter, FirstStep
  <2>2. CASE GetChild(t) \/ ListChildren(t)
    BY <2>2, <2>a DEF GetChild, ListChildren, ChildrenOf
  <2>3. CASE CreateEntry(t)
    BY <2>3, <2>a DEF CreateEntry, FindExisting, FindMissing, MakeDirectory, CannotMakeDirectory,
                DirectoriesMade, MakeFile
  <2>4. CASE DeleteChild(t)
    BY <2>4 DEF DeleteChild, DeleteMissing, DeleteExisting, RemoveOne, RemovedAll,
                RemoveAllFails, RemoveFile
  <2>5. CASE Open(t)
    BY <2>5 DEF Open, OpenTruncating, OpenExisting, OpenFails
  <2>6. CASE Rename(t) \/ RenameFails(t)
    BY <2>6 DEF Rename, RenameFails
  <2>7. CASE Return(t)
    BY <2>7 DEF Return
  <2> QED
    BY <1>1, <2>1, <2>2, <2>3, <2>4, <2>5, <2>6, <2>7 DEF Step
<1>2. ASSUME NEW t \in Threads, WriteStream(t) PROVE Typed'
  BY <1>2 DEF WriteStream
<1>3. ASSUME NEW t \in Threads, NEW c \in ClientCalls, Begin(t, c) PROVE Typed'
  BY <1>3 DEF Begin
<1>4. ASSUME NEW allowed \in Masks, SetAllowedOperations(allowed) PROVE Typed'
  BY <1>4, CallersAssumption DEF SetAllowedOperations
<1>5. CASE UNCHANGED vars
  BY <1>5 DEF vars
<1> QED
  BY <1>1, <1>2, <1>3, <1>4, <1>5 DEF Next

(* A step of a call that changes neither it nor what it was granted.       *)
LEMMA KeepsGranted ==
    ASSUME Typed, GrantedInv, NEW t \in Threads, NEW label,
           pc' = [pc EXCEPT ![t] = label], UNCHANGED <<call, granted>>,
           \A u \in Threads \ {t} : outcome'[u] = outcome[u],
           pc[t] \notin {"idle", "enter", "done"} \/ label = "enter"
               \/ (label = "done" /\ outcome'[t] # Returned)
    PROVE  GrantedInv'
<1> SUFFICES ASSUME NEW u \in Threads
             PROVE  GrantedEnough(u)' /\ StreamGranted(u)'
  BY DEF GrantedInv
<1>1. GrantedEnough(u) /\ StreamGranted(u)
  BY DEF GrantedInv
<1>2. CASE u # t
  BY <1>1, <1>2 DEF Typed, GrantedEnough, StreamGranted, At
<1>3. CASE u = t
  BY <1>1, <1>3 DEF Typed, GrantedEnough, StreamGranted, At
<1> QED
  BY <1>2, <1>3

(* Every step keeps GrantedInv, whenever the mask changes.                 *)
LEMMA GrantedStep == Typed /\ GrantedInv /\ [Next]_vars => GrantedInv'
<1> SUFFICES ASSUME Typed, GrantedInv, [Next]_vars
             PROVE  GrantedInv'
  OBVIOUS
<1> USE DEF Goto, Finish, Continue, locals
<1>1. ASSUME NEW t \in Threads, Step(t) PROVE GrantedInv'
  <2>1. CASE Reject(t)
    BY <2>1, KeepsGranted DEF Reject, Typed, Returned, InvalidOperation
  <2>2. CASE Enter(t)
    <3>1. Allowed(t) /\ call' = call /\ outcome' = outcome /\ granted'[t] = ops
          /\ pc'[t] # "done"
          /\ \A u \in Threads \ {t} : granted'[u] = granted[u] /\ pc'[u] = pc[u]
      BY <2>2 DEF Enter, Typed, FirstStep
    <3>2. GrantedEnough(t)' /\ StreamGranted(t)'
      BY <3>1, AllowedOperations DEF GrantedEnough, StreamGranted, At
    <3>3. ASSUME NEW u \in Threads \ {t} PROVE GrantedEnough(u)' /\ StreamGranted(u)'
      BY <3>1 DEF GrantedInv, GrantedEnough, StreamGranted, At
    <3> QED
      BY <3>2, <3>3 DEF GrantedInv
  <2>3. ASSUME CreateEntry(t) \/ DeleteChild(t) \/ Open(t) \/ GetChild(t) \/ ListChildren(t)
               \/ Rename(t) \/ RenameFails(t)
        PROVE  GrantedInv'
    <3>1. pc[t] \notin {"idle", "enter", "done"}
      BY <2>3 DEF CreateEntry, FindExisting, FindMissing, MakeDirectory, CannotMakeDirectory,
                  DirectoriesMade, MakeFile, DeleteChild, DeleteMissing, DeleteExisting,
                  RemoveOne, RemovedAll, RemoveAllFails, RemoveFile, Open, OpenTruncating,
                  OpenExisting, OpenFails, GetChild, ListChildren, Rename, RenameFails, At
    <3>2. /\ UNCHANGED <<call, granted>>
          /\ \A u \in Threads \ {t} : outcome'[u] = outcome[u]
          /\ \E label : pc' = [pc EXCEPT ![t] = label]
      <4>1. CASE CreateEntry(t)
        BY <4>1 DEF CreateEntry, FindExisting, FindMissing, MakeDirectory,
                    CannotMakeDirectory, DirectoriesMade, MakeFile, Typed
      <4>2. CASE DeleteChild(t)
        BY <4>2 DEF DeleteChild, DeleteMissing, DeleteExisting, RemoveOne, RemovedAll,
                    RemoveAllFails, RemoveFile, Typed
      <4>3. CASE Open(t)
        BY <4>3 DEF Open, OpenTruncating, OpenExisting, OpenFails, Typed
      <4>4. CASE GetChild(t) \/ ListChildren(t) \/ Rename(t) \/ RenameFails(t)
        BY <4>4 DEF GetChild, ListChildren, Rename, RenameFails, Typed
      <4> QED
        BY <2>3, <4>1, <4>2, <4>3, <4>4
    <3> QED
      BY <3>1, <3>2, KeepsGranted
  <2>4. CASE Return(t)
    BY <2>4 DEF Return, Typed, GrantedInv, GrantedEnough, StreamGranted, At
  <2> QED
    BY <1>1, <2>1, <2>2, <2>3, <2>4 DEF Step
<1>2. ASSUME NEW t \in Threads, WriteStream(t) PROVE GrantedInv'
  BY <1>2 DEF WriteStream, GrantedInv, GrantedEnough, StreamGranted, At
<1>3. ASSUME NEW t \in Threads, NEW c \in ClientCalls, Begin(t, c) PROVE GrantedInv'
  BY <1>3 DEF Begin, Typed, GrantedInv, GrantedEnough, StreamGranted, At
<1>4. ASSUME NEW allowed \in Masks, SetAllowedOperations(allowed) PROVE GrantedInv'
  BY <1>4 DEF SetAllowedOperations, GrantedInv, GrantedEnough, StreamGranted, At
<1>5. CASE UNCHANGED vars
  BY <1>5 DEF vars, GrantedInv, GrantedEnough, StreamGranted, At
<1> QED
  BY <1>1, <1>2, <1>3, <1>4, <1>5 DEF Next

(* The steps that change the disk, and the call and the place in it they   *)
(* belong to.                                                              *)
LEMMA DiskStep ==
    ASSUME [Next]_vars, ~UNCHANGED disk
    PROVE  \E t \in Threads :
               \/ At(t, "createEntry", "parents")
               \/ At(t, "createEntry", "make")
               \/ At(t, "deleteChild", "remove")
               \/ At(t, "deleteChild", "remove_all")
               \/ At(t, "open", "act") /\ Writes(t)
               \/ At(t, "open", "done") /\ outcome[t] = Returned /\ Writes(t)
               \/ At(t, "rename", "act")
<1> USE DEF disk
<1>1. PICK t \in Threads : Step(t) \/ WriteStream(t) \/ \E c \in ClientCalls : Begin(t, c)
  BY DEF Next, SetAllowedOperations, vars
<1>2. ~\E c \in ClientCalls : Begin(t, c)
  BY DEF Begin
<1>3. CreateEntry(t) \/ DeleteChild(t) \/ Open(t) \/ Rename(t) \/ WriteStream(t)
  BY <1>1, <1>2 DEF Step, Reject, Enter, GetChild, ListChildren, RenameFails, Return
<1>4. CASE CreateEntry(t)
  BY <1>4 DEF CreateEntry, FindExisting, FindMissing, MakeDirectory, CannotMakeDirectory,
              DirectoriesMade, MakeFile
<1>5. CASE DeleteChild(t)
  BY <1>5 DEF DeleteChild, DeleteMissing, DeleteExisting, RemoveOne, RemovedAll,
              RemoveAllFails, RemoveFile
<1>6. CASE Open(t)
  BY <1>6 DEF Open, OpenTruncating, OpenExisting, OpenFails
<1>7. CASE Rename(t)
  BY <1>7 DEF Rename
<1>8. CASE WriteStream(t)
  BY <1>8 DEF WriteStream
<1> QED
  BY <1>3, <1>4, <1>5, <1>6, <1>7, <1>8

-----------------------------------------------------------------------------
(***************************************************************************)
(* The disk stays a tree.                                                  *)
(***************************************************************************)
LEMMA TruncateKeepsDisk ==
    ASSUME DiskOK, NEW p \in Paths, CanOpenForWriting(p), Truncate(p)
    PROVE  DiskOK'
<1>1. kind' \in [Paths -> EntryType] /\ filled' \subseteq {q \in Paths : kind'[q] = FILE}
  BY DEF DiskOK, Truncate, EntryType
<1>2. CASE IsFile(p)
  <2>1. kind' = kind
    BY <1>2 DEF IsFile, Truncate, DiskOK
  <2> QED
    BY <1>1, <2>1 DEF DiskOK
<1>3. CASE CanMake(kind, p)
  BY <1>1, <1>3, MakeKeepsTree DEF DiskOK, Truncate
<1> QED
  BY <1>2, <1>3 DEF CanOpenForWriting

LEMMA UnlinkKeepsDisk ==
    ASSUME DiskOK, NEW p \in Paths, Removable(p), Unlink(p)
    PROVE  DiskOK'
<1>1. kind' \in [Paths -> EntryType] /\ filled' \subseteq {q \in Paths : kind'[q] = FILE}
  BY DEF DiskOK, Unlink, EntryType
<1>2. IsTree(kind')
  BY RemoveKeepsTree DEF DiskOK, Unlink, Removable
<1> QED
  BY <1>1, <1>2 DEF DiskOK

LEMMA MoveKeepsDisk ==
    ASSUME DiskOK, NEW src \in Paths, NEW dst \in Paths, CanMove(kind, src, dst),
           kind' = Moved(kind, src, dst), filled' = MovedFiles(filled, src, dst)
    PROVE  DiskOK'
<1>1. kind' \in [Paths -> EntryType]
  BY DEF DiskOK, Moved, EntryType
<1>2. filled' \subseteq {q \in Paths : kind'[q] = FILE}
  BY DEF DiskOK, Moved, MovedFiles
<1>3. IsTree(kind')
  BY MoveKeepsTree DEF DiskOK
<1> QED
  BY <1>1, <1>2, <1>3 DEF DiskOK

LEMMA DiskOKStep == Typed /\ CallInv /\ DiskOK /\ [Next]_vars => DiskOK'
<1> SUFFICES ASSUME Typed, CallInv, DiskOK, [Next]_vars
             PROVE  DiskOK'
  OBVIOUS
<1>1. CASE UNCHANGED disk
  BY <1>1 DEF DiskOK, disk
<1>2. ASSUME NEW t \in Threads, CreateEntry(t) \/ DeleteChild(t) \/ Open(t) \/ Rename(t)
      PROVE  DiskOK'
  <2>1. pc[t] # "idle" /\ call[t].at \in Paths /\ call[t].name \in Paths
    <3>1. pc[t] # "idle"
      BY <1>2 DEF At, CreateEntry, FindExisting, FindMissing, MakeDirectory,
                  CannotMakeDirectory, DirectoriesMade, MakeFile, DeleteChild, DeleteMissing,
                  DeleteExisting, RemoveOne, RemovedAll, RemoveAllFails, RemoveFile, Open,
                  OpenTruncating, OpenExisting, OpenFails, Rename
    <3> QED
      BY <3>1, CallParts DEF Typed
  <2>2. call[t].what # "rename" => Target(t) \in Paths
    BY <2>1 DEF CallInv
  <2>3. CASE MakeDirectory(t)
    <3>1. PICK p \in Paths : CanMake(kind, p) /\ kind' = [kind EXCEPT ![p] = DIRECTORY]
                             /\ filled' = filled
      BY <2>3 DEF MakeDirectory
    <3>2. kind' \in [Paths -> EntryType] /\ filled' \subseteq {q \in Paths : kind'[q] = FILE}
      BY <3>1 DEF DiskOK, EntryType, CanMake, Exists, UNKNOWN, FILE
    <3>3. IsTree(kind')
      BY <3>1, MakeKeepsTree DEF DiskOK
    <3> QED
      BY <3>2, <3>3 DEF DiskOK
  <2>4. CASE MakeFile(t)
    BY <1>1, <2>2, <2>4, TruncateKeepsDisk DEF MakeFile, At
  <2>5. CASE RemoveOne(t)
    BY <2>5, UnlinkKeepsDisk DEF RemoveOne, Subtree
  <2>6. CASE RemoveFile(t)
    BY <1>1, <2>2, <2>6, UnlinkKeepsDisk DEF RemoveFile, At
  <2>7. CASE OpenTruncating(t)
    BY <2>1, <2>7, TruncateKeepsDisk DEF OpenTruncating
  <2>8. CASE Rename(t)
    BY <2>1, <2>8, MoveKeepsDisk DEF Rename
  <2>9. CASE FindExisting(t) \/ FindMissing(t) \/ CannotMakeDirectory(t) \/ DirectoriesMade(t)
    BY <1>1, <2>9 DEF FindExisting, FindMissing, CannotMakeDirectory, DirectoriesMade
  <2>10. CASE DeleteMissing(t) \/ DeleteExisting(t) \/ RemovedAll(t) \/ RemoveAllFails(t)
    BY <1>1, <2>10 DEF DeleteMissing, DeleteExisting, RemovedAll, RemoveAllFails
  <2>11. CASE OpenExisting(t) \/ OpenFails(t)
    BY <1>1, <2>11 DEF OpenExisting, OpenFails
  <2> QED
    BY <1>2, <2>3, <2>4, <2>5, <2>6, <2>7, <2>8, <2>9, <2>10, <2>11
       DEF CreateEntry, DeleteChild, Open
<1>3. ASSUME NEW t \in Threads, Step(t) PROVE DiskOK'
  BY <1>1, <1>2, <1>3 DEF Step, Reject, Enter, GetChild, ListChildren, RenameFails, Return
<1>4. ASSUME NEW t \in Threads, WriteStream(t) PROVE DiskOK'
  <2>1. call[t].at \in Paths
    BY CallParts DEF Typed
  <2> QED
    BY <1>4, <2>1 DEF WriteStream, DiskOK, IsFile
<1>5. ASSUME NEW t \in Threads, NEW c \in ClientCalls, Begin(t, c) PROVE DiskOK'
  BY <1>1, <1>5 DEF Begin
<1>6. ASSUME NEW allowed \in Masks, SetAllowedOperations(allowed) PROVE DiskOK'
  BY <1>1, <1>6 DEF SetAllowedOperations
<1>7. CASE UNCHANGED vars
  BY <1>1, <1>7 DEF vars, disk
<1> QED
  BY <1>3, <1>4, <1>5, <1>6, <1>7 DEF Next

-----------------------------------------------------------------------------
(***************************************************************************)
(* What a step leaves alone.                                               *)
(***************************************************************************)
(* A step of one thread's call is made under way and moves no other call;  *)
(* only Return gives the call up.                                          *)
LEMMA OwnStep ==
    ASSUME Typed, NEW t \in Threads, Step(t) \/ WriteStream(t)
    PROVE  /\ pc[t] # "idle"
           /\ \A u \in Threads \ {t} :
                pc'[u] = pc[u] /\ call'[u] = call[u] /\ outcome'[u] = outcome[u]
           /\ pc'[t] # "idle" => call'[t] = call[t]
<1> USE DEF Typed, Goto, Finish, Continue, locals, At
<1>1. CASE Reject(t) \/ Enter(t)
  BY <1>1 DEF Reject, Enter, FirstStep
<1>2. CASE GetChild(t) \/ ListChildren(t)
  BY <1>2 DEF GetChild, ListChildren
<1>3. CASE CreateEntry(t)
  BY <1>3 DEF CreateEntry, FindExisting, FindMissing, MakeDirectory, CannotMakeDirectory,
              DirectoriesMade, MakeFile
<1>4. CASE DeleteChild(t)
  BY <1>4 DEF DeleteChild, DeleteMissing, DeleteExisting, RemoveOne, RemovedAll,
              RemoveAllFails, RemoveFile
<1>5. CASE Open(t)
  BY <1>5 DEF Open, OpenTruncating, OpenExisting, OpenFails
<1>6. CASE Rename(t) \/ RenameFails(t)
  BY <1>6 DEF Rename, RenameFails
<1>7. CASE Return(t)
  BY <1>7 DEF Return
<1>8. CASE WriteStream(t)
  BY <1>8 DEF WriteStream
<1> QED
  BY <1>1, <1>2, <1>3, <1>4, <1>5, <1>6, <1>7, <1>8 DEF Step

LEMMA CallStep == Typed /\ CallInv /\ [Next]_vars => CallInv'
<1> SUFFICES ASSUME Typed, CallInv, [Next]_vars
             PROVE  CallInv'
  OBVIOUS
<1>1. ASSUME NEW t \in Threads, Step(t) \/ WriteStream(t) PROVE CallInv'
  BY <1>1, OwnStep DEF CallInv, Target
<1>2. ASSUME NEW t \in Threads, NEW c \in ClientCalls, Begin(t, c) PROVE CallInv'
  BY <1>2 DEF Begin, CallInv, Target, Goto, Typed
<1>3. ASSUME NEW allowed \in Masks, SetAllowedOperations(allowed) PROVE CallInv'
  BY <1>3 DEF SetAllowedOperations, CallInv, Target, locals
<1>4. CASE UNCHANGED vars
  BY <1>4 DEF vars, CallInv, Target
<1> QED
  BY <1>1, <1>2, <1>3, <1>4 DEF Next

(* Calls that overlap are about paths none of which is above another.      *)
ApartInv ==
    \A t, u \in Threads : t # u /\ pc[t] # "idle" /\ pc[u] # "idle" =>
        \A p \in Scope(call[t]), q \in Scope(call[u]) : ~IsPrefix(p, q)

LEMMA ApartStep ==
    ASSUME Apart, Typed, ApartInv, [Next]_vars
    PROVE  ApartInv'
<1>1. ASSUME NEW t \in Threads, Step(t) \/ WriteStream(t) PROVE ApartInv'
  <2> SUFFICES ASSUME NEW u \in Threads, NEW v \in Threads, u # v, pc'[u] # "idle",
                      pc'[v] # "idle", NEW p \in Scope(call'[u]), NEW q \in Scope(call'[v])
               PROVE  ~IsPrefix(p, q)
    BY DEF ApartInv
  <2>1. pc[u] # "idle" /\ call'[u] = call[u] /\ pc[v] # "idle" /\ call'[v] = call[v]
    BY <1>1, OwnStep
  <2> QED
    BY <2>1 DEF ApartInv
<1>2. ASSUME NEW t \in Threads, NEW c \in ClientCalls, Begin(t, c) PROVE ApartInv'
  <2>1. MayCall(t, c) /\ pc' = [pc EXCEPT ![t] = "enter"] /\ call' = [call EXCEPT ![t] = c]
    BY <1>2 DEF Begin, Goto
  <2> SUFFICES ASSUME NEW u \in Threads, NEW v \in Threads, u # v, pc'[u] # "idle",
                      pc'[v] # "idle", NEW p \in Scope(call'[u]), NEW q \in Scope(call'[v])
               PROVE  ~IsPrefix(p, q)
    BY DEF ApartInv
  <2>2. CASE u = t
    <3>1. pc[v] # "idle" /\ call'[v] = call[v] /\ call'[u] = c
      BY <2>1, <2>2 DEF Typed
    <3> QED
      BY <2>1, <2>2, <3>1 DEF MayCall
  <2>3. CASE v = t
    <3>1. pc[u] # "idle" /\ call'[u] = call[u] /\ call'[v] = c
      BY <2>1, <2>3 DEF Typed
    <3> QED
      BY <2>1, <2>3, <3>1 DEF MayCall
  <2>4. CASE u # t /\ v # t
    <3>1. pc[u] # "idle" /\ call'[u] = call[u] /\ pc[v] # "idle" /\ call'[v] = call[v]
      BY <2>1, <2>4 DEF Typed
    <3> QED
      BY <3>1 DEF ApartInv
  <2> QED
    BY <2>2, <2>3, <2>4
<1>3. ASSUME NEW allowed \in Masks, SetAllowedOperations(allowed) PROVE ApartInv'
  BY <1>3 DEF SetAllowedOperations, ApartInv, locals
<1>4. CASE UNCHANGED vars
  BY <1>4 DEF vars, ApartInv
<1> QED
  BY <1>1, <1>2, <1>3, <1>4 DEF Next

(* The path a call is about: what it joins, or for open its own entry.     *)
LEMMA TargetIs ==
    ASSUME Typed, CallInv, NEW t \in Threads, pc[t] # "idle"
    PROVE  /\ call[t] \in ClientCalls /\ call[t].at \in Paths /\ call[t].name \in Paths
           /\ call[t].what # "rename" => Target(t) \in Paths /\ Target(t) \in Scope(call[t])
           /\ call[t].what = "createEntry" =>
                Target(t) # Root /\ ParentPath(Target(t)) \in Paths
           /\ call[t].what = "open" => Target(t) = call[t].at
<1>1. call[t] \in ClientCalls /\ call[t].at \in Strings /\ call[t].name \in Strings
  BY CallParts, PathsAreStrings DEF CallInv
<1>2. call[t].what # "rename" => Target(t) \in Paths /\ Target(t) \in Scope(call[t])
  BY DEF CallInv, Scope, Target
<1>3. ASSUME call[t].what = "createEntry"
      PROVE  Target(t) # Root /\ ParentPath(Target(t)) \in Paths
  <2>1. call[t].name # Root
    BY <1>1, <1>3 DEF ClientCalls
  <2>2. Target(t) # Root
    BY <1>1, <2>1, ConcatEqualIffEmpty DEF Target, Root, Strings
  <2> QED
    BY <1>2, <1>3, <2>2, PathsAssumption
<1>4. ASSUME call[t].what = "open" PROVE Target(t) = call[t].at
  <2>1. call[t].name = Root
    BY <1>1, <1>4 DEF ClientCalls
  <2> QED
    BY <1>1, <2>1, ConcatEmptySeq DEF Target, Root, Strings
<1> QED
  BY <1>1, <1>2, <1>3, <1>4, CallParts

(* A call changes the disk below the paths it is about, and makes missing  *)
(* directories above them.                                                 *)
LEMMA ChangesInScope ==
    ASSUME Typed, CallInv, NEW t \in Threads, Step(t) \/ WriteStream(t),
           NEW q \in Paths, kind'[q] # kind[q], kind \in [Paths -> EntryType]
    PROVE  \E s \in Scope(call[t]) : IsPrefix(s, q) \/ (IsPrefix(q, s) /\ kind[q] # DIRECTORY)
<1>1. pc[t] # "idle"
  BY OwnStep
<1>2. MakeDirectory(t) \/ MakeFile(t) \/ RemoveOne(t) \/ RemoveFile(t) \/ OpenTruncating(t)
      \/ Rename(t)
  BY DEF Step, Reject, Enter, GetChild, ListChildren, CreateEntry, FindExisting, FindMissing,
         CannotMakeDirectory, DirectoriesMade, DeleteChild, DeleteMissing, DeleteExisting,
         RemovedAll, RemoveAllFails, Open, OpenExisting, OpenFails, RenameFails, Return,
         WriteStream, disk
<1>3. q \in Strings /\ IsPrefix(q, q)
  BY PathsAreStrings, PrefixReflexive
<1>4. CASE MakeDirectory(t)
  <2>1. PICK p \in Paths : FirstMissing(kind, Directory(t), p)
                          /\ kind' = [kind EXCEPT ![p] = DIRECTORY]
    BY <1>4 DEF MakeDirectory
  <2>2. q = p /\ kind[q] # DIRECTORY /\ IsPrefix(q, Directory(t))
    BY <2>1 DEF FirstMissing
  <2>3. Target(t) \in Paths /\ Target(t) \in Scope(call[t]) /\ Target(t) # Root
        /\ ParentPath(Target(t)) \in Paths
    BY <1>1, <1>4, TargetIs DEF MakeDirectory, At
  <2>4. Directory(t) \in Paths /\ IsPrefix(Directory(t), Target(t))
    BY <2>3, PathsAreStrings, ParentPrefix, PrefixReflexive DEF Directory
  <2>5. IsPrefix(q, Target(t))
    BY <1>3, <2>2, <2>3, <2>4, PathsAreStrings, PrefixTransitive
  <2> QED
    BY <2>2, <2>3, <2>5
<1>5. CASE MakeFile(t)
  <2>1. kind' = [kind EXCEPT ![Target(t)] = FILE]
    BY <1>5 DEF MakeFile, Truncate, disk
  <2>2. Target(t) \in Scope(call[t])
    BY <1>1, <1>5, TargetIs DEF MakeFile, At
  <2> QED
    BY <1>3, <2>1, <2>2
<1>6. CASE RemoveOne(t)
  <2>1. PICK p \in Subtree(Target(t)) : kind' = [kind EXCEPT ![p] = UNKNOWN]
    BY <1>6 DEF RemoveOne, Unlink
  <2>2. Target(t) \in Scope(call[t])
    BY <1>1, <1>6, TargetIs DEF RemoveOne, At
  <2> QED
    BY <2>1, <2>2 DEF Subtree
<1>7. CASE RemoveFile(t)
  <2>1. kind' = [kind EXCEPT ![Target(t)] = UNKNOWN]
    BY <1>7 DEF RemoveFile, Unlink, disk
  <2>2. Target(t) \in Scope(call[t])
    BY <1>1, <1>7, TargetIs DEF RemoveFile, At
  <2> QED
    BY <1>3, <2>1, <2>2
<1>8. CASE OpenTruncating(t)
  <2>1. kind' = [kind EXCEPT ![call[t].at] = FILE]
    BY <1>8 DEF OpenTruncating, Truncate
  <2>2. call[t].at \in Scope(call[t])
    BY <1>1, <1>8, TargetIs DEF OpenTruncating, At
  <2> QED
    BY <1>3, <2>1, <2>2
<1>9. CASE Rename(t)
  <2>1. call[t].at \in Scope(call[t]) /\ call[t].name \in Scope(call[t])
    BY <1>9 DEF Rename, At, Scope
  <2>2. IsPrefix(call[t].at, q) \/ IsPrefix(call[t].name, q)
    BY <1>9 DEF Rename, Moved
  <2> QED
    BY <2>1, <2>2
<1> QED
  BY <1>2, <1>4, <1>5, <1>6, <1>7, <1>8, <1>9

(* While a call is under way no other changes what lies at or below its    *)
(* path, or takes away a directory above it.                               *)
LEMMA OthersStayApart ==
    ASSUME Typed, CallInv, ApartInv, kind \in [Paths -> EntryType], kind' \in [Paths -> EntryType],
           NEW t \in Threads, NEW u \in Threads \ {t}, Step(u) \/ WriteStream(u),
           pc[t] # "idle", NEW p \in Scope(call[t]), p \in Paths
    PROVE  /\ \A q \in Paths : IsPrefix(p, q) => kind'[q] = kind[q]
           /\ \A q \in Paths : IsPrefix(q, p) /\ kind[q] = DIRECTORY => kind'[q] = DIRECTORY
<1>1. pc[u] # "idle"
  BY OwnStep
<1>2. \A s \in Scope(call[u]) : s \in Paths
  <2>1. call[u].at \in Paths /\ call[u].name \in Paths
        /\ (call[u].what # "rename" => Target(u) \in Paths)
    BY <1>1, TargetIs
  <2> QED
    BY <2>1 DEF Scope, Target
<1>3. ASSUME NEW q \in Paths, kind'[q] # kind[q], IsPrefix(p, q) \/ (IsPrefix(q, p) /\ kind[q] = DIRECTORY)
      PROVE  FALSE
  <2>1. PICK s \in Scope(call[u]) : IsPrefix(s, q) \/ (IsPrefix(q, s) /\ kind[q] # DIRECTORY)
    BY <1>3, ChangesInScope
  <2>2. p \in Strings /\ q \in Strings /\ s \in Strings
    BY <1>2, PathsAreStrings
  <2>3. ~IsPrefix(p, s) /\ ~IsPrefix(s, p)
    BY <1>1 DEF ApartInv
  <2>4. CASE IsPrefix(p, q) /\ IsPrefix(s, q)
    BY <2>2, <2>3, <2>4, PrefixesCompare
  <2>5. CASE IsPrefix(p, q) /\ IsPrefix(q, s)
    BY <2>2, <2>3, <2>5, PrefixTransitive
  <2>6. CASE IsPrefix(q, p) /\ IsPrefix(s, q)
    BY <2>2, <2>3, <2>6, PrefixTransitive
  <2> QED
    BY <1>3, <2>1, <2>4, <2>5, <2>6
<1> QED
  BY <1>3

-----------------------------------------------------------------------------
(***************************************************************************)
(* What a call has found out stays true until it uses it.                  *)
(***************************************************************************)
Knows(t) ==
    /\ At(t, "open", "act") => IsFile(call[t].at)
    /\ call[t].what = "createEntry" /\ pc[t] \in {"look", "parents", "make"} =>
            call[t].type \in {DIRECTORY, FILE}
    /\ At(t, "createEntry", "parents") /\ call[t].type = FILE => IsFree(t)
    /\ At(t, "createEntry", "make") => call[t].type = FILE /\ CanMake(kind, Target(t))

Made(t) ==
    At(t, "createEntry", "done") /\ outcome[t] = Returned =>
        \/ kind[Target(t)] = call[t].type
        \/ call[t].type = FILE /\ Target(t) \in Unwritable /\ ~Exists(kind, Target(t))

Gone(t) ==
    At(t, "deleteChild", "done") /\ outcome[t] \in {"true", "false"} =>
        \A p \in Subtree(Target(t)) : ~Exists(kind, p)

KnowsInv == \A t \in Threads : Knows(t)

(* Another thread's step leaves alone what a call relies on and what it    *)
(* has done.                                                               *)
LEMMA OthersKeep ==
    ASSUME Typed, CallInv, ApartInv, kind \in [Paths -> EntryType], kind' \in [Paths -> EntryType],
           NEW t \in Threads, NEW u \in Threads \ {t}, Step(u) \/ WriteStream(u)
    PROVE  /\ Knows(t) => Knows(t)'
           /\ Made(t) => Made(t)'
           /\ Gone(t) => Gone(t)'
<1>1. pc'[t] = pc[t] /\ call'[t] = call[t] /\ outcome'[t] = outcome[t] /\ Target(t)' = Target(t)
  BY OwnStep DEF Target
<1>2. CASE pc[t] = "idle"
  BY <1>1, <1>2 DEF Knows, Made, Gone, At
<1>3. CASE pc[t] # "idle" /\ call[t].what \in {"open", "createEntry", "deleteChild"}
  <2>1. Target(t) \in Paths /\ Target(t) \in Scope(call[t])
        /\ (call[t].what = "open" => Target(t) = call[t].at)
        /\ (call[t].what = "createEntry" =>
                Target(t) # Root /\ ParentPath(Target(t)) \in Paths)
    BY <1>3, TargetIs
  <2>2. /\ \A q \in Paths : IsPrefix(Target(t), q) => kind'[q] = kind[q]
        /\ \A q \in Paths :
                IsPrefix(q, Target(t)) /\ kind[q] = DIRECTORY => kind'[q] = DIRECTORY
    BY <1>3, <2>1, OthersStayApart
  <2>3. kind'[Target(t)] = kind[Target(t)]
    BY <2>1, <2>2, PathsAreStrings, PrefixReflexive
  <2>4. ASSUME call[t].what = "createEntry", CanMake(kind, Target(t))
        PROVE  CanMake(kind, Target(t))'
    <3>1. Target(t) # Root /\ ParentPath(Target(t)) \in Paths
          /\ IsPrefix(ParentPath(Target(t)), Target(t))
      BY <2>1, <2>4, PathsAreStrings, ParentPrefix
    <3> QED
      BY <1>1, <2>2, <2>3, <2>4, <3>1 DEF CanMake, Exists, HasParent
  <2>5. Knows(t) => Knows(t)'
    BY <1>1, <2>1, <2>3, <2>4 DEF Knows, At, IsFile, IsFree, Exists
  <2>6. Made(t) => Made(t)'
    BY <1>1, <2>3 DEF Made, At, Exists
  <2>7. Gone(t) => Gone(t)'
    BY <1>1, <2>2 DEF Gone, At, Subtree, Exists
  <2> QED
    BY <2>5, <2>6, <2>7
<1>4. CASE call[t].what \notin {"open", "createEntry", "deleteChild"}
  BY <1>1, <1>4 DEF Knows, Made, Gone, At
<1> QED
  BY <1>2, <1>3, <1>4

(* A step of the call itself: each test establishes what the next place    *)
(* relies on.                                                              *)
LEMMA OwnKnows ==
    ASSUME Typed, CallInv, kind \in [Paths -> EntryType], NEW t \in Threads,
           Step(t) \/ WriteStream(t), Knows(t)
    PROVE  Knows(t)'
<1> USE DEF Typed, Goto, Finish, Continue, locals, At
<1>1. CASE Reject(t)
  BY <1>1 DEF Reject, Knows
<1>2. CASE Enter(t)
  <2>1. call' = call /\ kind' = kind /\ pc'[t] = FirstStep(call[t].what)
    BY <1>2 DEF Enter, disk
  <2>2. call[t].what = "open" => IsFile(call[t].at)
    BY <1>2 DEF Enter, RightType
  <2>3. call[t].what = "createEntry" => call[t].type \in {DIRECTORY, FILE}
    BY <1>2 DEF Enter, RightArgument
  <2> QED
    BY <2>1, <2>2, <2>3 DEF Knows, FirstStep, IsFile
<1>3. CASE GetChild(t) \/ ListChildren(t)
  BY <1>3 DEF GetChild, ListChildren, Knows
<1>4. CASE FindExisting(t)
  BY <1>4 DEF FindExisting, Knows
<1>5. CASE FindMissing(t)
  BY <1>5 DEF FindMissing, Knows, IsFree, Target, disk
<1>6. CASE MakeDirectory(t)
  <2>1. PICK p \in Paths : FirstMissing(kind, Directory(t), p)
                          /\ kind' = [kind EXCEPT ![p] = DIRECTORY]
    BY <1>6 DEF MakeDirectory
  <2>2. call' = call /\ pc' = pc /\ call[t].what = "createEntry" /\ pc[t] = "parents"
    BY <1>6 DEF MakeDirectory
  <2>3. Target(t) \in Paths /\ Target(t) # Root
    BY <2>2, TargetIs
  <2>4. ASSUME call[t].type = FILE PROVE p # Target(t)
    BY <2>1, <2>3, <2>4, PathsAreStrings, ParentPrefix DEF FirstMissing, Directory
  <2>5. Target(t)' = Target(t)
    BY <2>2 DEF Target
  <2> QED
    BY <2>1, <2>2, <2>3, <2>4, <2>5 DEF Knows, IsFree, Exists
<1>7. CASE CannotMakeDirectory(t)
  BY <1>7 DEF CannotMakeDirectory, Knows
<1>8. CASE DirectoriesMade(t)
  <2>1. call' = call /\ kind' = kind /\ call[t].what = "createEntry" /\ pc[t] = "parents"
    BY <1>8 DEF DirectoriesMade, disk
  <2>2. CASE call[t].type = FILE
    <3>1. pc'[t] = "make" /\ kind[ParentPath(Target(t))] = DIRECTORY
      BY <1>8, <2>2 DEF DirectoriesMade, Directory, IsDirectory
    <3>2. IsFree(t)
      BY <2>1, <2>2 DEF Knows
    <3>3. CanMake(kind, Target(t)) /\ Target(t)' = Target(t)
      BY <2>1, <3>1, <3>2 DEF CanMake, HasParent, IsFree, Target
    <3> QED
      BY <2>1, <2>2, <3>1, <3>3 DEF Knows, CanMake, Exists, HasParent
  <2>3. CASE call[t].type # FILE
    BY <1>8, <2>1, <2>3 DEF DirectoriesMade, Knows
  <2> QED
    BY <2>2, <2>3
<1>9. CASE MakeFile(t)
  BY <1>9 DEF MakeFile, Knows
<1>10. CASE DeleteChild(t)
  BY <1>10 DEF DeleteChild, DeleteMissing, DeleteExisting, RemoveOne, RemovedAll,
               RemoveAllFails, RemoveFile, Knows
<1>11. CASE Open(t)
  BY <1>11 DEF Open, OpenTruncating, OpenExisting, OpenFails, Knows
<1>12. CASE Rename(t) \/ RenameFails(t)
  BY <1>12 DEF Rename, RenameFails, Knows
<1>13. CASE Return(t)
  BY <1>13 DEF Return, Knows
<1>14. CASE WriteStream(t)
  BY <1>14 DEF WriteStream, Knows
<1> QED
  BY <1>1, <1>2, <1>3, <1>4, <1>5, <1>6, <1>7, <1>8, <1>9, <1>10, <1>11, <1>12, <1>13, <1>14
     DEF Step, CreateEntry

(* createEntry returns an entry only when what it was asked for is there,  *)
(* or is a file that cannot be created.                                    *)
LEMMA OwnMade ==
    ASSUME Typed, CallInv, DiskOK, NEW t \in Threads,
           Step(t) \/ WriteStream(t), Knows(t), Made(t)
    PROVE  Made(t)'
<1> USE DEF Typed, Goto, Finish, Continue, locals, At
<1>1. CASE Reject(t)
  BY <1>1 DEF Reject, Made, Returned, InvalidOperation
<1>2. CASE Enter(t)
  BY <1>2 DEF Enter, FirstStep, Made
<1>3. CASE GetChild(t) \/ ListChildren(t) \/ DeleteChild(t) \/ Open(t) \/ Rename(t) \/ RenameFails(t)
  BY <1>3 DEF GetChild, ListChildren, DeleteChild, DeleteMissing, DeleteExisting, RemoveOne,
              RemovedAll, RemoveAllFails, RemoveFile, Open, OpenTruncating, OpenExisting,
              OpenFails, Rename, RenameFails, Made
<1>4. CASE FindExisting(t)
  BY <1>4 DEF FindExisting, Accepted, IsFile, Made, Target, disk, Returned, InvalidOperation
<1>5. CASE FindMissing(t) \/ MakeDirectory(t)
  BY <1>5 DEF FindMissing, MakeDirectory, Made
<1>6. CASE CannotMakeDirectory(t)
  BY <1>6 DEF CannotMakeDirectory, Made, Returned, LibraryError
<1>7. CASE DirectoriesMade(t)
  <2>1. call' = call /\ kind' = kind /\ call[t].type \in {DIRECTORY, FILE}
        /\ kind[Directory(t)] = DIRECTORY
        /\ (call[t].type = FILE => pc'[t] = "make")
    BY <1>7 DEF DirectoriesMade, disk, Knows, IsDirectory
  <2> QED
    BY <2>1 DEF Made, Directory, Target
<1>8. CASE MakeFile(t)
  <2>1. call[t].type = FILE /\ call' = call /\ CanMake(kind, Target(t))
    BY <1>8 DEF MakeFile, Knows
  <2>2. Target(t) \in Paths
    BY <1>8, TargetIs DEF MakeFile
  <2>3. CASE CanOpenForWriting(Target(t))
    <3>1. kind'[Target(t)] = FILE
      BY <1>8, <2>2, <2>3 DEF MakeFile, Truncate, DiskOK
    <3> QED
      BY <2>1, <3>1 DEF Made, Target
  <2>4. CASE ~CanOpenForWriting(Target(t))
    <3>1. Target(t) \in Unwritable /\ ~Exists(kind, Target(t)) /\ kind' = kind
      BY <1>8, <2>1, <2>4 DEF MakeFile, CanOpenForWriting, CanMake, disk
    <3> QED
      BY <2>1, <3>1 DEF Made, Target, Exists
  <2> QED
    BY <2>3, <2>4
<1>9. CASE Return(t)
  BY <1>9 DEF Return, Made
<1>10. CASE WriteStream(t)
  BY <1>10 DEF WriteStream, Made
<1> QED
  BY <1>1, <1>2, <1>3, <1>4, <1>5, <1>6, <1>7, <1>8, <1>9, <1>10 DEF Step, CreateEntry

(* deleteChild answers only when nothing is left.                          *)
LEMMA OwnGone ==
    ASSUME Typed, CallInv, DiskOK, DiskOK', NEW t \in Threads,
           Step(t) \/ WriteStream(t), Gone(t)
    PROVE  Gone(t)'
<1> USE DEF Typed, Goto, Finish, Continue, locals, At
<1>1. ASSUME call'[t] = call[t], call[t].what = "deleteChild", pc[t] # "idle",
             ~Exists(kind', Target(t))
      PROVE  Gone(t)'
  <2>1. Target(t)' = Target(t) /\ Target(t) \in Paths
    BY <1>1, TargetIs DEF Target
  <2>2. \A p \in Subtree(Target(t)) : ~Exists(kind', p)
    BY <1>1, <2>1, NothingBelow DEF DiskOK, Subtree, Exists, UNKNOWN, DIRECTORY
  <2> QED
    BY <2>1, <2>2 DEF Gone, Subtree
<1>2. CASE Reject(t)
  BY <1>2 DEF Reject, Gone, InvalidOperation
<1>3. CASE Enter(t)
  BY <1>3 DEF Enter, FirstStep, Gone
<1>4. CASE GetChild(t) \/ ListChildren(t) \/ CreateEntry(t) \/ Open(t) \/ Rename(t) \/ RenameFails(t)
  BY <1>4 DEF GetChild, ListChildren, CreateEntry, FindExisting, FindMissing, MakeDirectory,
              CannotMakeDirectory, DirectoriesMade, MakeFile, Open, OpenTruncating,
              OpenExisting, OpenFails, Rename, RenameFails, Gone
<1>5. CASE DeleteMissing(t) \/ RemovedAll(t)
  BY <1>1, <1>5 DEF DeleteMissing, RemovedAll, AllGone, disk
<1>6. CASE DeleteExisting(t) \/ RemoveOne(t)
  BY <1>6 DEF DeleteExisting, RemoveOne, Gone
<1>7. CASE RemoveAllFails(t)
  BY <1>7 DEF RemoveAllFails, Gone, FileSystemError
<1>8. CASE RemoveFile(t)
  <2>1. Target(t) \in Paths /\ call' = call /\ call[t].what = "deleteChild" /\ pc[t] = "remove"
    BY <1>8, TargetIs DEF RemoveFile
  <2>2. CASE Unlink(Target(t))
    <3>1. ~Exists(kind', Target(t))
      BY <2>1, <2>2 DEF Unlink, Exists, DiskOK
    <3> QED
      BY <1>1, <2>1, <3>1
  <2>3. CASE ~Exists(kind, Target(t)) /\ UNCHANGED disk
    BY <1>1, <2>1, <2>3 DEF disk
  <2>4. CASE Finish(t, FileSystemError, {})
    BY <2>4 DEF Gone, FileSystemError
  <2> QED
    BY <1>8, <2>2, <2>3, <2>4 DEF RemoveFile
<1>9. CASE Return(t)
  BY <1>9 DEF Return, Gone
<1>10. CASE WriteStream(t)
  BY <1>10 DEF WriteStream, Gone
<1> QED
  BY <1>2, <1>3, <1>4, <1>5, <1>6, <1>7, <1>8, <1>9, <1>10 DEF Step, DeleteChild

LEMMA OthersStep ==
    ASSUME Apart, Typed, CallInv, DiskOK, ApartInv, DiskOK', [Next]_vars,
           NEW t \in Threads, ~(Step(t) \/ WriteStream(t))
    PROVE  /\ Knows(t) => Knows(t)'
           /\ Made(t) => Made(t)'
           /\ Gone(t) => Gone(t)'
<1>1. ASSUME NEW u \in Threads, Step(u) \/ WriteStream(u)
      PROVE  /\ Knows(t) => Knows(t)'
             /\ Made(t) => Made(t)'
             /\ Gone(t) => Gone(t)'
  BY <1>1, OthersKeep DEF DiskOK
<1>2. ASSUME NEW u \in Threads, NEW c \in ClientCalls, Begin(u, c)
      PROVE  /\ Knows(t) => Knows(t)'
             /\ Made(t) => Made(t)'
             /\ Gone(t) => Gone(t)'
  <2>1. kind' = kind /\ outcome' = outcome
    BY <1>2 DEF Begin, disk
  <2>2. CASE u = t
    <3>1. pc'[t] = "enter"
      BY <1>2, <2>2 DEF Begin, Goto, Typed
    <3> QED
      BY <3>1 DEF Knows, Made, Gone, At
  <2>3. CASE u # t
    <3>1. pc'[t] = pc[t] /\ call'[t] = call[t]
      BY <1>2, <2>3 DEF Begin, Goto, Typed
    <3> QED
      BY <2>1, <3>1 DEF Knows, Made, Gone, At, Target, IsFile, IsFree, CanMake, Exists, HasParent
  <2> QED
    BY <2>2, <2>3
<1>3. ASSUME UNCHANGED <<disk, pc, call, outcome>>
      PROVE  /\ Knows(t) => Knows(t)'
             /\ Made(t) => Made(t)'
             /\ Gone(t) => Gone(t)'
  BY <1>3 DEF disk, Knows, Made, Gone, At, Target, IsFile, IsFree, CanMake, Exists, HasParent
<1> QED
  BY <1>1, <1>2, <1>3 DEF Next, SetAllowedOperations, vars, disk, locals

-----------------------------------------------------------------------------
(***************************************************************************)
(* The theorems.                                                           *)
(***************************************************************************)
Base == Typed /\ CallInv /\ DiskOK /\ ApartInv /\ KnowsInv

LEMMA InitOK == Init => Base
  BY DEF Init, Base, Typed, CallInv, DiskOK, ApartInv, KnowsInv, Knows, At, PC, Results,
         EntryType

LEMMA BaseStep ==
    ASSUME Apart, Base, [Next]_vars
    PROVE  Base'
<1>1. Typed' /\ CallInv' /\ DiskOK' /\ ApartInv'
  BY TypedStep, CallStep, DiskOKStep, ApartStep DEF Base
<1>2. ASSUME NEW t \in Threads PROVE Knows(t)'
  <2>1. Knows(t) /\ kind \in [Paths -> EntryType]
    BY DEF Base, KnowsInv, DiskOK
  <2>2. CASE Step(t) \/ WriteStream(t)
    BY <2>1, <2>2, OwnKnows DEF Base
  <2>3. CASE ~(Step(t) \/ WriteStream(t))
    BY <1>1, <2>1, <2>3, OthersStep DEF Base
  <2> QED
    BY <2>2, <2>3
<1> QED
  BY <1>1, <1>2 DEF Base, KnowsInv

LEMMA BaseInvariance ==
    ASSUME Apart
    PROVE  Spec => []Base
<1>1. Base /\ [Next]_vars => Base'
  BY BaseStep
<1> QED
  BY <1>1, InitOK, PTL DEF Spec

(* Whatever calls overlap, each variable keeps its type and the disk stays *)
(* a tree: everything that exists lies in a directory.                     *)
THEOREM TypeCorrect == Spec => []TypeOK
<1>1. Init => Typed /\ CallInv /\ DiskOK
  BY InitOK DEF Base
<1>2. Typed /\ CallInv /\ DiskOK /\ [Next]_vars => (Typed /\ CallInv /\ DiskOK)'
  BY TypedStep, CallStep, DiskOKStep
<1>3. Typed /\ CallInv /\ DiskOK => TypeOK
  BY DEF Typed, DiskOK, TypeOK
<1> QED
  BY <1>1, <1>2, <1>3, PTL DEF Spec

(* createEntry keeps its word when callers keep calls on one subtree       *)
(* apart: an entry it returns is there, with the type asked for, until the *)
(* call is over, or it is a file the system refused to create and nothing  *)
(* is there (PhysicalEntry::createEntry).                                  *)
THEOREM CreatedIsThere ==
    ASSUME Apart
    PROVE  Spec => []CreatedUnlessRefused
<1>1. Init => CreatedUnlessRefused
  BY DEF Init, CreatedUnlessRefused, At
<1>2. ASSUME Base, CreatedUnlessRefused, [Next]_vars
      PROVE  CreatedUnlessRefused'
  <2>1. DiskOK'
    BY <1>2, BaseStep DEF Base
  <2>2. ASSUME NEW t \in Threads PROVE Made(t)'
    <3>1. Made(t) /\ Knows(t)
      BY <1>2 DEF CreatedUnlessRefused, Made, Base, KnowsInv
    <3>2. CASE Step(t) \/ WriteStream(t)
      BY <1>2, <3>1, <3>2, OwnMade DEF Base
    <3>3. CASE ~(Step(t) \/ WriteStream(t))
      BY <1>2, <2>1, <3>1, <3>3, OthersStep DEF Base
    <3> QED
      BY <3>2, <3>3
  <2> QED
    BY <2>2 DEF CreatedUnlessRefused, Made
<1> QED
  BY <1>1, <1>2, BaseInvariance, PTL DEF Spec

(* deleteChild that answers leaves nothing of the child and of what was    *)
(* below it, under the same rule for callers, whatever cannot be removed   *)
(* (PhysicalEntry::deleteChild).                                           *)
THEOREM DeletedStaysGone ==
    ASSUME Apart
    PROVE  Spec => []DeletedIsGone
<1>1. Init => DeletedIsGone
  BY DEF Init, DeletedIsGone, At
<1>2. ASSUME Base, DeletedIsGone, [Next]_vars
      PROVE  DeletedIsGone'
  <2>1. DiskOK'
    BY <1>2, BaseStep DEF Base
  <2>2. ASSUME NEW t \in Threads PROVE Gone(t)'
    <3>1. Gone(t)
      BY <1>2 DEF DeletedIsGone, Gone
    <3>2. CASE Step(t) \/ WriteStream(t)
      BY <1>2, <2>1, <3>1, <3>2, OwnGone DEF Base
    <3>3. CASE ~(Step(t) \/ WriteStream(t))
      BY <1>2, <2>1, <3>1, <3>3, OthersStep DEF Base
    <3> QED
      BY <3>2, <3>3
  <2> QED
    BY <2>2 DEF DeletedIsGone, Gone
<1> QED
  BY <1>1, <1>2, BaseInvariance, PTL DEF Spec

(* The truncating ofstream of createEntry destroys no content: the path is *)
(* still free when it is opened.                                           *)
THEOREM CreateDestroysNothing ==
    ASSUME Apart
    PROVE  Spec => CreateKeepsContent
<1>1. ASSUME Base, [Next]_vars, NEW t \in Threads, At(t, "createEntry", "make"), pc'[t] = "done"
      PROVE  filled \subseteq filled'
  <2>1. Typed /\ pc[t] = "make" /\ call[t].what = "createEntry"
    BY <1>1 DEF Base, At
  <2>2. Step(t) \/ WriteStream(t)
    <3>1. ASSUME NEW u \in Threads, u # t, Step(u) \/ WriteStream(u) PROVE FALSE
      BY <1>1, <2>1, <3>1, OwnStep
    <3>2. ASSUME NEW u \in Threads, NEW c \in ClientCalls, Begin(u, c) PROVE FALSE
      BY <1>1, <2>1, <3>2 DEF Begin, Goto, Typed
    <3> QED
      BY <1>1, <2>1, <3>1, <3>2 DEF Next, SetAllowedOperations, vars
  <2>3. MakeFile(t)
    BY <2>1, <2>2 DEF Step, WriteStream, Reject, Enter, GetChild, ListChildren, CreateEntry,
         FindExisting, FindMissing, MakeDirectory, CannotMakeDirectory, DirectoriesMade,
         DeleteChild, DeleteMissing, DeleteExisting, RemoveOne, RemovedAll, RemoveAllFails,
         RemoveFile, Open, OpenTruncating, OpenExisting, OpenFails, Rename, RenameFails,
         Return, At
  <2>4. ~Exists(kind, Target(t))
    BY <1>1 DEF Base, KnowsInv, Knows, CanMake
  <2>5. Target(t) \notin filled
    BY <1>1, <2>4 DEF Base, DiskOK, Exists, UNKNOWN, FILE
  <2> QED
    BY <2>3, <2>5 DEF MakeFile, Truncate, disk
<1>2. ASSUME Base, [Next]_vars
      PROVE  [\A t \in Threads : At(t, "createEntry", "make") /\ pc'[t] = "done" =>
                  filled \subseteq filled']_vars
  BY <1>1, <1>2
<1> QED
  BY <1>2, BaseInvariance, PTL DEF Spec, CreateKeepsContent

(* open brings nothing into being: the file it tested for is still there   *)
(* when a mode that would create it opens it (PhysicalEntry::open).        *)
THEOREM OpenMakesNothing ==
    ASSUME Apart
    PROVE  Spec => OpenCreatesNothing
<1>1. ASSUME Base, [Next]_vars, NEW t \in Threads, At(t, "open", "act"), pc'[t] = "done"
      PROVE  \A p \in Paths : Exists(kind', p) => Exists(kind, p)
  <2>1. Typed /\ pc[t] = "act" /\ call[t].what = "open"
    BY <1>1 DEF Base, At
  <2>2. Step(t) \/ WriteStream(t)
    <3>1. ASSUME NEW u \in Threads, u # t, Step(u) \/ WriteStream(u) PROVE FALSE
      BY <1>1, <2>1, <3>1, OwnStep
    <3>2. ASSUME NEW u \in Threads, NEW c \in ClientCalls, Begin(u, c) PROVE FALSE
      BY <1>1, <2>1, <3>2 DEF Begin, Goto, Typed
    <3> QED
      BY <1>1, <2>1, <3>1, <3>2 DEF Next, SetAllowedOperations, vars
  <2>3. OpenTruncating(t) \/ UNCHANGED kind
    BY <2>1, <2>2 DEF Step, WriteStream, Reject, Enter, GetChild, ListChildren, CreateEntry,
         FindExisting, FindMissing, MakeDirectory, CannotMakeDirectory, DirectoriesMade,
         MakeFile, DeleteChild, DeleteMissing, DeleteExisting, RemoveOne, RemovedAll,
         RemoveAllFails, RemoveFile, Open, OpenExisting, OpenFails, Rename, RenameFails,
         Return, At, disk
  <2>4. IsFile(call[t].at)
    BY <1>1 DEF Base, KnowsInv, Knows
  <2>5. kind' = kind
    BY <1>1, <2>3, <2>4 DEF OpenTruncating, Truncate, IsFile, Base, DiskOK
  <2> QED
    BY <2>5
<1>2. ASSUME Base, [Next]_vars
      PROVE  [\A t \in Threads : At(t, "open", "act") /\ pc'[t] = "done" =>
                  \A p \in Paths : Exists(kind', p) => Exists(kind, p)]_vars
  BY <1>1, <1>2
<1> QED
  BY <1>2, BaseInvariance, PTL DEF Spec, OpenCreatesNothing

(* Whatever calls its clients make, on however many threads, and whenever  *)
(* setAllowedOperations restricts the system to OP_READ: once the calls    *)
(* that were admitted before are over, nothing on its disk changes         *)
(* (PhysicalEntry's checks of supportedOperations).                        *)
THEOREM ReadOnlySystemKeepsDisk == Spec => ReadOnlyKept
<1>1. Init => Typed /\ GrantedInv
  BY InitOK DEF Base, GrantedInv, GrantedEnough, StreamGranted, At, Init
<1>2. Typed /\ GrantedInv /\ [Next]_vars => (Typed /\ GrantedInv)'
  BY TypedStep, GrantedStep
<1>3. ASSUME GrantedInv, [Next]_vars, \A t \in Threads : granted[t] \subseteq {OP_READ}
      PROVE  UNCHANGED disk
  <2> SUFFICES ASSUME ~UNCHANGED disk
               PROVE  FALSE
    OBVIOUS
  <2>1. PICK t \in Threads :
               \/ At(t, "createEntry", "parents")
               \/ At(t, "createEntry", "make")
               \/ At(t, "deleteChild", "remove")
               \/ At(t, "deleteChild", "remove_all")
               \/ At(t, "open", "act") /\ Writes(t)
               \/ At(t, "open", "done") /\ outcome[t] = Returned /\ Writes(t)
               \/ At(t, "rename", "act")
    BY <1>3, DiskStep
  <2>2. /\ Needs(call[t]) \subseteq granted[t]
        /\ call[t].what = "rename" => granted[t] \cap {OP_DELETE, OP_CREATE} # {}
    BY <1>3, <2>1 DEF GrantedInv, GrantedEnough, StreamGranted, At
  <2>3. OP_CREATE \notin granted[t] /\ OP_DELETE \notin granted[t] /\ OP_WRITE \notin granted[t]
    BY <1>3 DEF OP_READ, OP_WRITE, OP_CREATE, OP_DELETE
  <2>4. Writes(t) => OP_WRITE \in ModeToOperation(call[t].mode)
    BY DEF Writes, ModeToOperation
  <2> QED
    BY <2>1, <2>2, <2>3, <2>4 DEF At, Needs
<1> QED
  BY <1>1, <1>2, <1>3, PTL DEF Spec, ReadOnlyKept
=============================================================================
