--------------------------- MODULE MergedDirectory ---------------------------
(***************************************************************************)
(* What one directory of a merged file system promises its callers,        *)
(* without the cache: a read answers with the overlay of the directory's   *)
(* listings in all systems, taken at one moment of the call, and a write   *)
(* changes the systems.  MergedCache implements this when its callers keep *)
(* writers apart from readers.                                             *)
(***************************************************************************)
EXTENDS VfsCore

CONSTANTS
    Threads,    \* the callers
    Names,      \* the child names that occur
    NumSystems, \* the length of MergedFileSystem::fileSystems
    Readable,   \* systems with OP_READ that hold this directory
    Creatable,  \* systems with OP_CREATE that hold it
    Deletable   \* systems with OP_DELETE that hold it

Systems == 1..NumSystems

VARIABLES
    disk,   \* disk[s]: the names system s has in this directory
    call,   \* call[t]: what thread t is doing
    answer  \* answer[t]: what its read returned, 0 for a name not found

vars == <<disk, call, answer>>

(***************************************************************************)
(* System s supplies the entry for name n: it is the first readable system *)
(* in the order of addFileSystem that has n; 0 when none has it.           *)
(***************************************************************************)
Wins(d, n, s) ==
    \/ /\ s = 0
       /\ \A r \in Readable : n \notin d[r]
    \/ /\ s \in Readable
       /\ n \in d[s]
       /\ \A r \in Readable : r < s => n \notin d[r]

(* The map m from names to systems is the overlay of the listings d.       *)
IsOverlay(m, d) == \A n \in Names : Wins(d, n, m[n])

Answers == [Names -> 0..NumSystems]
Nothing == [n \in Names |-> 0]

Init ==
    /\ disk \in [Systems -> SUBSET Names]
    /\ call = [t \in Threads |-> "idle"]
    /\ answer = [t \in Threads |-> Nothing]

Start(t, what) ==
    /\ call[t] = "idle"
    /\ call' = [call EXCEPT ![t] = what]
    /\ UNCHANGED <<disk, answer>>

(* The answer is the overlay of what is on disk at this moment.            *)
Answer(t) ==
    /\ call[t] = "reading"
    /\ call' = [call EXCEPT ![t] = "answered"]
    /\ \E m \in Answers :
           /\ IsOverlay(m, disk)
           /\ answer' = [answer EXCEPT ![t] = m]
    /\ UNCHANGED disk

Create(t, n, s) ==
    /\ call[t] = "writing"
    /\ disk' = [disk EXCEPT ![s] = @ \cup {n}]
    /\ UNCHANGED <<call, answer>>

Delete(t, n, s) ==
    /\ call[t] = "writing"
    /\ disk' = [disk EXCEPT ![s] = @ \ {n}]
    /\ UNCHANGED <<call, answer>>

(* A call ends, with its answer or (a read or a write) with an exception.  *)
Finish(t) ==
    /\ call[t] # "idle"
    /\ call' = [call EXCEPT ![t] = "idle"]
    /\ answer' = [answer EXCEPT ![t] = Nothing]
    /\ UNCHANGED disk

Next ==
    \E t \in Threads :
        \/ \E what \in {"reading", "writing"} : Start(t, what)
        \/ Answer(t)
        \/ \E n \in Names, s \in Creatable : Create(t, n, s)
        \/ \E n \in Names, s \in Deletable : Delete(t, n, s)
        \/ Finish(t)

Spec == Init /\ [][Next]_vars
=============================================================================
