----------------------------- MODULE MergedCache -----------------------------
(***************************************************************************)
(* One non-root directory MergedEntry shared by several threads: the child *)
(* cache, its dirty flag and its mutex, and the read and write calls that  *)
(* use them, at the grain at which the threads can interleave.             *)
(*                                                                         *)
(* cachedChildEntries and cachedChildMapping are one function here: both   *)
(* are written only under childrenLock, in the same steps, and every       *)
(* reader uses just one of them.  An unsynchronised read of dirty sees the *)
(* old or the new value, as the order of the two steps has it; one of the  *)
(* cache that races with a pass sees any part of it (Seen).                *)
(***************************************************************************)
EXTENDS VfsCore, FiniteSets

CONSTANTS
    Threads,    \* the threads that call the entry
    NoThread,   \* the holder of a free mutex
    Names,      \* the child names that occur
    NoName,     \* the target of a thread that writes nothing
    Mutable,    \* the names the threads create and delete
    NumSystems, \* MergedFileSystem::fileSystems.size()
    Readable,   \* systems with OP_READ that hold this directory
    Creatable,  \* systems with OP_CREATE that hold it
    Deletable,  \* systems with OP_DELETE that hold it
    Faulty,     \* systems whose getChild throws InvalidOperationException
    Erring,     \* systems whose createEntry/deleteChild throws FileSystemException
    Populators, \* the threads that call populateEntries
    Exclusive,  \* callers keep a writer apart from every other caller
    MaxWrites   \* bound: how many write calls a behaviour has

Systems == 1..NumSystems

ASSUME ThreadsAssumption == NoThread \notin Threads /\ Populators \subseteq Threads
ASSUME NamesAssumption   == Mutable \subseteq Names /\ NoName \notin Names
ASSUME SystemsAssumption ==
    /\ NumSystems \in Nat
    /\ Readable \subseteq Systems
    /\ Creatable \subseteq Systems
    /\ Deletable \subseteq Systems
    /\ Faulty \subseteq Systems
    /\ Erring \subseteq Systems
ASSUME BoundsAssumption == Exclusive \in BOOLEAN /\ MaxWrites \in Nat

VARIABLES
    disk,    \* disk[s]: the names system s has in this directory
    dirty,   \* MergedEntry::dirty
    lock,    \* the thread that holds childrenLock
    cached,  \* cached[n]: the system of the cached child n, 0 for none
    pc,      \* pc[t]: the next statement of thread t
    next,    \* next[t]: the first system its loop has still to visit
    todo,    \* todo[t]: the children listed and not yet added
    target,  \* target[t]: the name its write call is about
    success, \* success[t]: deleteChild's local of that name
    found,   \* found[t]: what its read call saw in the cache
    writes   \* how many write calls were started

vars == <<disk, dirty, lock, cached, pc, next, todo, target, success, found, writes>>

PassPC  == {"recheck", "clear", "list", "add"}
ReadPC  == {"test", "lock", "read", "done"} \cup PassPC
WritePC == {"create", "delete", "mark"}
PC      == {"idle"} \cup ReadPC \cup WritePC

Answers == [Names -> 0..NumSystems]
Nothing == [n \in Names |-> 0]

(* s is the next member of S a loop that has reached system k visits.      *)
IsNext(S, k, s) == s \in S /\ s >= k /\ \A r \in S : r >= k => r >= s

IsLast(S, k) == \A r \in S : r < k

Init ==
    /\ disk \in [Systems -> SUBSET Names]
    /\ dirty = TRUE
    /\ lock = NoThread
    /\ cached = Nothing
    /\ pc = [t \in Threads |-> "idle"]
    /\ next = [t \in Threads |-> 1]
    /\ todo = [t \in Threads |-> {}]
    /\ target = [t \in Threads |-> NoName]
    /\ success = [t \in Threads |-> FALSE]
    /\ found = [t \in Threads |-> Nothing]
    /\ writes = 0

Goto(t, label) == pc' = [pc EXCEPT ![t] = label]

(* The locals of t as at the start of a call.                              *)
ResetLocals(t) ==
    /\ next' = [next EXCEPT ![t] = 1]
    /\ todo' = [todo EXCEPT ![t] = {}]
    /\ target' = [target EXCEPT ![t] = NoName]
    /\ success' = [success EXCEPT ![t] = FALSE]
    /\ found' = [found EXCEPT ![t] = Nothing]

Return(t) == Goto(t, "idle") /\ ResetLocals(t)

locals == <<next, todo, target, success, found>>

(***************************************************************************)
(* The decisions the cache protocol rests on, each with the seeded fault a *)
(* property must notice.                                                   *)
(***************************************************************************)
(* Seeded fault: a thread does not wait for the mutex.                     *)
LockIgnored == TRUE

LockFree == lock = NoThread

(* Seeded fault: cacheChildren does not test dirty again under the mutex.  *)
NoSecondTest == TRUE

StillDirty == dirty

(* Seeded fault: an exception leaves the mutex locked.                     *)
StayLocked == lock' = lock

(* ~lock_guard on the way out of cacheChildren by an exception.            *)
Unwind == lock' = NoThread

(* Seeded fault: a later system replaces the child of an earlier one.      *)
LastWins(old, s) == s

(* The system cached for a name after addChildren met it in system s.      *)
FirstWins(old, s) == IF old = 0 THEN s ELSE old

(* Seeded fault: dirty = false is missing.                                 *)
KeepFlag == dirty' = dirty

ClearFlag == dirty' = FALSE

(* Seeded fault: a write does not invalidate the cache.                    *)
NoInvalidation == dirty' = dirty

Invalidate == dirty' = TRUE

(* Seeded fault: the write call loses its name.                            *)
Nameless(t) == target' = target

TakeName(t) == \E n \in Mutable : target' = [target EXCEPT ![t] = n]

(***************************************************************************)
(* Read calls: getChild, numChildren, listChildren and populateChildren.   *)
(***************************************************************************)
MayRead == Exclusive => \A u \in Threads : pc[u] \notin WritePC

MayWrite(t) == Exclusive => \A u \in Threads \ {t} : pc[u] = "idle"

BeginRead(t) ==
    /\ pc[t] = "idle"
    /\ MayRead
    /\ Goto(t, "test")
    /\ UNCHANGED <<disk, dirty, lock, cached, locals, writes>>

(* populateChildren calls cacheChildren without testing dirty first.       *)
BeginPopulate(t) ==
    /\ t \in Populators
    /\ pc[t] = "idle"
    /\ MayRead
    /\ Goto(t, "lock")
    /\ UNCHANGED <<disk, dirty, lock, cached, locals, writes>>

(* if (dirty) cacheChildren(): read without the mutex.                     *)
TestDirty(t) ==
    /\ pc[t] = "test"
    /\ Goto(t, IF dirty THEN "lock" ELSE "read")
    /\ UNCHANGED <<disk, dirty, lock, cached, locals, writes>>

(* What t can see in the cache: while another thread clears or fills it    *)
(* the lookup races with the updates and can miss any of the children.     *)
Seen(t) ==
    IF \E u \in Threads \ {t} : pc[u] \in {"clear", "add"}
    THEN {m \in Answers : \A n \in Names : m[n] \in {0, cached[n]}}
    ELSE {cached}

(* The lookup, the size or the copy a read call ends with: also without    *)
(* the mutex.                                                              *)
ReadCache(t) ==
    /\ pc[t] = "read"
    /\ \E m \in Seen(t) : found' = [found EXCEPT ![t] = m]
    /\ Goto(t, "done")
    /\ UNCHANGED <<disk, dirty, lock, cached, next, todo, target, success, writes>>

EndRead(t) ==
    /\ pc[t] = "done"
    /\ Return(t)
    /\ UNCHANGED <<disk, dirty, lock, cached, writes>>

(***************************************************************************)
(* cacheChildren.                                                          *)
(***************************************************************************)
Lock(t) ==
    /\ pc[t] = "lock"
    /\ LockFree
    /\ lock' = t
    /\ Goto(t, "recheck")
    /\ UNCHANGED <<disk, dirty, cached, locals, writes>>

RecheckClean(t) ==
    /\ pc[t] = "recheck"
    /\ ~dirty
    /\ lock' = NoThread
    /\ Goto(t, "read")
    /\ UNCHANGED <<disk, dirty, cached, locals, writes>>

RecheckDirty(t) ==
    /\ pc[t] = "recheck"
    /\ StillDirty
    /\ Goto(t, "clear")
    /\ UNCHANGED <<disk, dirty, lock, cached, locals, writes>>

ClearCache(t) ==
    /\ pc[t] = "clear"
    /\ cached' = Nothing
    /\ next' = [next EXCEPT ![t] = 1]
    /\ Goto(t, "list")
    /\ UNCHANGED <<disk, dirty, lock, todo, target, success, found, writes>>

(* The children of this directory in the next readable system.             *)
ListSystem(t) ==
    /\ pc[t] = "list"
    /\ \E s \in Readable :
           /\ IsNext(Readable, next[t], s)
           /\ todo' = [todo EXCEPT ![t] = disk[s]]
           /\ next' = [next EXCEPT ![t] = s]
    /\ Goto(t, "add")
    /\ UNCHANGED <<disk, dirty, lock, cached, target, success, found, writes>>

(* The system's root is no directory: its getChild throws out of           *)
(* cacheChildren and of the read call; lock_guard releases the mutex and   *)
(* dirty stays true.                                                       *)
ListThrows(t) ==
    /\ pc[t] = "list"
    /\ \E s \in Readable \cap Faulty : IsNext(Readable, next[t], s)
    /\ Unwind
    /\ Return(t)
    /\ UNCHANGED <<disk, dirty, cached, writes>>

(* addChildren, one child: the first system that has the name keeps it.    *)
AddChild(t) ==
    /\ pc[t] = "add"
    /\ \E n \in todo[t] :
           /\ todo' = [todo EXCEPT ![t] = @ \ {n}]
           /\ cached' = [cached EXCEPT ![n] = FirstWins(@, next[t])]
    /\ UNCHANGED <<disk, dirty, lock, pc, next, target, success, found, writes>>

EndSystem(t) ==
    /\ pc[t] = "add"
    /\ todo[t] = {}
    /\ next' = [next EXCEPT ![t] = @ + 1]
    /\ Goto(t, "list")
    /\ UNCHANGED <<disk, dirty, lock, cached, todo, target, success, found, writes>>

(* dirty = false and the release of the mutex: nothing comes between.      *)
EndPass(t) ==
    /\ pc[t] = "list"
    /\ IsLast(Readable, next[t])
    /\ ClearFlag
    /\ lock' = NoThread
    /\ Goto(t, "read")
    /\ UNCHANGED <<disk, cached, locals, writes>>

(***************************************************************************)
(* Write calls: createEntry and deleteChild with a name of this level.     *)
(* They never take the mutex.                                              *)
(***************************************************************************)
BeginWrite(t, label) ==
    /\ pc[t] = "idle"
    /\ MayWrite(t)
    /\ writes < MaxWrites
    /\ writes' = writes + 1
    /\ TakeName(t)
    /\ Goto(t, label)
    /\ UNCHANGED <<disk, dirty, lock, cached, next, todo, success, found>>

(* createEntry stops at the first system that creates the entry.           *)
CreateInSystem(t) ==
    /\ pc[t] = "create"
    /\ \E s \in Creatable :
           /\ IsNext(Creatable, next[t], s)
           /\ disk' = [disk EXCEPT ![s] = @ \cup {target[t]}]
    /\ Goto(t, "mark")
    /\ UNCHANGED <<dirty, lock, cached, locals, writes>>

(* deleteChild goes through all systems.                                   *)
DeleteInSystem(t) ==
    /\ pc[t] = "delete"
    /\ \E s \in Deletable :
           /\ IsNext(Deletable, next[t], s)
           /\ disk' = [disk EXCEPT ![s] = @ \ {target[t]}]
           /\ success' = [success EXCEPT ![t] = @ \/ target[t] \in disk[s]]
           /\ next' = [next EXCEPT ![t] = s + 1]
    /\ UNCHANGED <<dirty, lock, cached, pc, todo, target, found, writes>>

(* The systems the loop of the write call goes through.                    *)
Loop(t) == IF pc[t] = "create" THEN Creatable ELSE Deletable

(* catch (const FileSystemException&): go on with the next system.         *)
SkipSystem(t) ==
    /\ pc[t] \in {"create", "delete"}
    /\ \E s \in Loop(t) \cap Erring :
           /\ IsNext(Loop(t), next[t], s)
           /\ next' = [next EXCEPT ![t] = s + 1]
    /\ UNCHANGED <<disk, dirty, lock, cached, pc, todo, target, success, found, writes>>

(* getChild's InvalidOperationException is not caught: the call ends, and  *)
(* what it deleted before does not make the cache dirty.                   *)
WriteThrows(t) ==
    /\ pc[t] \in {"create", "delete"}
    /\ \E s \in Loop(t) \cap Faulty : IsNext(Loop(t), next[t], s)
    /\ Return(t)
    /\ UNCHANGED <<disk, dirty, lock, cached, writes>>

(* if (success) dirty = true; otherwise nothing was deleted.               *)
EndDelete(t) ==
    /\ pc[t] = "delete"
    /\ IsLast(Deletable, next[t])
    /\ success[t]
    /\ Goto(t, "mark")
    /\ UNCHANGED <<disk, dirty, lock, cached, locals, writes>>

EndDeleteNothing(t) ==
    /\ pc[t] = "delete"
    /\ IsLast(Deletable, next[t])
    /\ ~success[t]
    /\ Return(t)
    /\ UNCHANGED <<disk, dirty, lock, cached, writes>>

(* No system created the entry: a null pointer is returned.                *)
EndCreate(t) ==
    /\ pc[t] = "create"
    /\ IsLast(Creatable, next[t])
    /\ Return(t)
    /\ UNCHANGED <<disk, dirty, lock, cached, writes>>

(* dirty = true, without the mutex.                                        *)
MarkDirty(t) ==
    /\ pc[t] = "mark"
    /\ Invalidate
    /\ Return(t)
    /\ UNCHANGED <<disk, lock, cached, writes>>

-----------------------------------------------------------------------------
Pass(t) ==
    \/ RecheckClean(t) \/ RecheckDirty(t) \/ ClearCache(t) \/ ListSystem(t)
    \/ ListThrows(t) \/ AddChild(t) \/ EndSystem(t) \/ EndPass(t)

Write(t) ==
    \/ CreateInSystem(t) \/ DeleteInSystem(t) \/ SkipSystem(t) \/ WriteThrows(t)
    \/ EndDelete(t) \/ EndDeleteNothing(t) \/ EndCreate(t) \/ MarkDirty(t)

(* The steps a thread inside a call takes on its own.                      *)
Step(t) == TestDirty(t) \/ ReadCache(t) \/ EndRead(t) \/ Lock(t) \/ Pass(t) \/ Write(t)

Next ==
    \E t \in Threads :
        \/ BeginRead(t)
        \/ BeginPopulate(t)
        \/ BeginWrite(t, "create")
        \/ BeginWrite(t, "delete")
        \/ Step(t)

Spec == Init /\ [][Next]_vars

(* A thread inside a call keeps running; nothing is assumed about which    *)
(* waiter the mutex picks, and no caller has to start a call.              *)
FairSpec == Spec /\ \A t \in Threads : WF_vars(Step(t))

-----------------------------------------------------------------------------
TypeOK ==
    /\ disk \in [Systems -> SUBSET Names]
    /\ dirty \in BOOLEAN
    /\ lock \in Threads \cup {NoThread}
    /\ cached \in Answers
    /\ pc \in [Threads -> PC]
    /\ next \in [Threads -> Nat \ {0}]
    /\ todo \in [Threads -> SUBSET Names]
    /\ target \in [Threads -> Names \cup {NoName}]
    /\ success \in [Threads -> BOOLEAN]
    /\ found \in [Threads -> Answers]
    /\ writes \in 0..MaxWrites
    /\ \A t \in Threads :
           /\ pc[t] = "add" => next[t] \in Readable
           /\ pc[t] \in WritePC => target[t] \in Mutable

(* What the callers see of a thread at a statement, for MergedDirectory.   *)
Seems(label) ==
    CASE label = "done"     -> "answered"
      [] label \in WritePC  -> "writing"
      [] label = "idle"     -> "idle"
      [] OTHER              -> "reading"

Call == [t \in Threads |-> Seems(pc[t])]

Promise == INSTANCE MergedDirectory WITH call <- Call, answer <- found

(***************************************************************************)
(* deleteChild can be cut short by a system whose root vanished without    *)
(* having deleted anything: no such system follows one it deletes in.      *)
(***************************************************************************)
FaultsComeFirst == \A f \in Deletable \cap Faulty : \A d \in Deletable : f <= d

(***************************************************************************)
(* What a read call returns is what the systems hold: with callers that    *)
(* keep a writer apart from everybody else, getChild and listChildren find *)
(* exactly the overlay of the readable systems, through the dirty test,    *)
(* concurrent passes, failed passes and failed writes.                     *)
(***************************************************************************)
AnswersCurrent ==
    Exclusive /\ FaultsComeFirst =>
        \A t \in Threads : pc[t] = "done" => Promise!IsOverlay(found[t], disk)

(***************************************************************************)
(* In every interleaving, writers included: a cache that is not dirty is   *)
(* right about every name nobody creates or deletes.  The passes of        *)
(* cacheChildren are serialised and none starts on a clean cache.          *)
(***************************************************************************)
CleanCacheHoldsStable ==
    ~dirty => \A n \in Names \ Mutable : Promise!Wins(disk, n, cached[n])

(***************************************************************************)
(* cacheChildren changes the cache only while it is dirty and only in the  *)
(* thread that holds childrenLock: a reader that found the entry clean is  *)
(* disturbed by nobody until a writer marks it dirty.                      *)
(***************************************************************************)
CleanCacheUntouched ==
    [][cached' # cached => dirty /\ lock \in Threads /\ pc[lock] \in PassPC]_vars

(***************************************************************************)
(* test/merged/merged.cpp:99-106 expects getChild of an existing file to   *)
(* find it: whatever the other threads do, a name that is there all along, *)
(* and that no thread writes, is found.                                    *)
(***************************************************************************)
StableNamesFound ==
    \A t \in Threads : pc[t] = "done" =>
        \A n \in Names \ Mutable : Promise!Wins(disk, n, found[t][n])

(***************************************************************************)
(* childrenLock is held only by a thread inside cacheChildren: a pass that *)
(* ends, one that finds the cache clean and one that a system's exception  *)
(* ends have all released it.                                              *)
(***************************************************************************)
LockedInPassOnly == lock # NoThread => pc[lock] \in PassPC

(***************************************************************************)
(* Every call returns, although the mutex may let others pass a waiting    *)
(* thread: a pass leaves the cache clean, and no read of a clean cache     *)
(* needs the mutex.  Only two things can keep a thread waiting for ever:   *)
(* passes that fail again and again, so that the cache stays dirty, and    *)
(* somebody who repeats populateEntries, which takes the mutex in any case.*)
(***************************************************************************)
CallsReturn ==
    \/ \A t \in Threads : pc[t] # "idle" ~> pc[t] = "idle"
    \/ []<><<\E u \in Threads : ListThrows(u)>>_vars
    \/ []<><<\E u \in Threads : BeginPopulate(u)>>_vars

(***************************************************************************)
(* The cache implements the cacheless directory of MergedDirectory, for    *)
(* callers that keep writers apart.                                        *)
(***************************************************************************)
ImplementsDirectory == Promise!Spec
-----------------------------------------------------------------------------
(***************************************************************************)
(* What does not hold of the code, whether writers overlap with a pass or  *)
(* a system's exception ends a deletion: while no call is under way a      *)
(* cache that is not dirty is what the systems hold, so that the next      *)
(* getChild finds what is there and nothing that is not, as test/merged/   *)
(* merged.cpp:99-105 expects.                                              *)
(***************************************************************************)
QuietCacheCurrent ==
    ~dirty /\ (\A t \in Threads : pc[t] = "idle") => Promise!IsOverlay(cached, disk)
=============================================================================
