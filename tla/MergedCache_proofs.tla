------------------------- MODULE MergedCache_proofs -------------------------
(***************************************************************************)
(* Proofs about MergedCache for every set of threads and names, every      *)
(* number of systems and every interleaving: its type invariant, the       *)
(* serialisation of the passes, the truth of a clean cache and of the      *)
(* answers, and that it implements MergedDirectory.                        *)
(***************************************************************************)
EXTENDS MergedCache, TLAPS

(***************************************************************************)
(* The inductive invariant, in parts.                                      *)
(***************************************************************************)
(* The mutex is held by the one thread inside cacheChildren.               *)
LockInv == \A t \in Threads : pc[t] \in PassPC <=> lock = t

(* Exclusive callers: beside a writer everybody is idle.                   *)
ExclusionInv ==
    Exclusive => \A t, u \in Threads : pc[t] \in WritePC /\ u # t => pc[u] = "idle"

(* success[t] means that an earlier system of deleteChild's loop had the   *)
(* name.                                                                   *)
WriterInv ==
    \A t \in Threads :
        /\ success[t] => pc[t] \in {"delete", "mark"}
        /\ pc[t] = "delete" /\ success[t] => \E d \in Deletable : d < next[t]

(* c is the overlay's choice for n among the readable systems before k.    *)
UpTo(n, c, k) ==
    \/ /\ c = 0
       /\ \A r \in Readable : r < k => n \notin disk[r]
    \/ /\ c \in Readable
       /\ c < k
       /\ n \in disk[c]
       /\ \A r \in Readable : r < c => n \notin disk[r]

(* No thread changes the disk at n during a pass.                          *)
Settled(n) == n \notin Mutable \/ Exclusive

(* A pass has merged the systems before next[t], and of system next[t] the *)
(* children that are not in todo[t] any more.                              *)
PassInv ==
    \A t \in Threads :
        /\ pc[t] \in {"clear", "list", "add"} => dirty
        /\ pc[t] = "list" =>
               \A n \in Names : Settled(n) => UpTo(n, cached[n], next[t])
        /\ pc[t] = "add" =>
               \A n \in Names : Settled(n) =>
                   /\ n \in todo[t] => n \in disk[next[t]]
                   /\ \/ /\ UpTo(n, cached[n], next[t])
                         /\ n \in disk[next[t]] => n \in todo[t] \/ cached[n] # 0
                      \/ UpTo(n, cached[n], next[t] + 1) /\ cached[n] = next[t]

(* A write call that changed the disk and has not set dirty.               *)
Touched(t) == pc[t] = "mark" \/ success[t]

(* A clean cache is the overlay, but for what such a call changed.         *)
CleanInv ==
    ~dirty =>
        \A n \in Names :
            \/ n \notin Mutable
            \/ Exclusive /\ FaultsComeFirst /\ \A u \in Threads : ~Touched(u)
            => Promise!Wins(disk, n, cached[n])

(* Exclusive callers: what a read is about to return, or returns.          *)
ReadInv ==
    Exclusive /\ FaultsComeFirst =>
        \A t \in Threads :
            /\ pc[t] = "read" => ~dirty
            /\ pc[t] = "done" => Promise!IsOverlay(found[t], disk)

IInv ==
    /\ TypeOK
    /\ LockInv
    /\ ExclusionInv
    /\ WriterInv
    /\ PassInv
    /\ CleanInv
    /\ ReadInv

-----------------------------------------------------------------------------
(***************************************************************************)
(* Type correctness.                                                       *)
(***************************************************************************)
(* The initial states of MergedCache are of the right types.               *)
LEMMA InitType == Init => TypeOK
  BY SystemsAssumption, BoundsAssumption
     DEF Init, TypeOK, Nothing, Answers, PC, WritePC, Systems

(* Every step of MergedCache keeps the type invariant.                     *)
LEMMA TypeStep == TypeOK /\ [Next]_vars => TypeOK'
<1> SUFFICES ASSUME TypeOK, [Next]_vars
             PROVE  TypeOK'
  OBVIOUS
<1> USE SystemsAssumption, NamesAssumption, BoundsAssumption
    DEF TypeOK, Goto, Return, ResetLocals, locals, Answers, Nothing,
        PC, ReadPC, WritePC, PassPC, Systems
<1>1. ASSUME NEW t \in Threads, BeginRead(t) PROVE TypeOK'
  BY <1>1 DEF BeginRead
<1>2. ASSUME NEW t \in Threads, BeginPopulate(t) PROVE TypeOK'
  BY <1>2 DEF BeginPopulate
<1>3. ASSUME NEW t \in Threads, BeginWrite(t, "create") PROVE TypeOK'
  BY <1>3 DEF BeginWrite, TakeName
<1>4. ASSUME NEW t \in Threads, BeginWrite(t, "delete") PROVE TypeOK'
  BY <1>4 DEF BeginWrite, TakeName
<1>5. ASSUME NEW t \in Threads, TestDirty(t) PROVE TypeOK'
  BY <1>5 DEF TestDirty
<1>6. ASSUME NEW t \in Threads, ReadCache(t) PROVE TypeOK'
  BY <1>6 DEF ReadCache, Seen
<1>7. ASSUME NEW t \in Threads, EndRead(t) PROVE TypeOK'
  BY <1>7 DEF EndRead
<1>8. ASSUME NEW t \in Threads, Lock(t) PROVE TypeOK'
  BY <1>8 DEF Lock, LockFree
<1>9. ASSUME NEW t \in Threads, RecheckClean(t) PROVE TypeOK'
  BY <1>9 DEF RecheckClean
<1>10. ASSUME NEW t \in Threads, RecheckDirty(t) PROVE TypeOK'
  BY <1>10 DEF RecheckDirty, StillDirty
<1>11. ASSUME NEW t \in Threads, ClearCache(t) PROVE TypeOK'
  BY <1>11 DEF ClearCache
<1>12. ASSUME NEW t \in Threads, ListSystem(t) PROVE TypeOK'
  BY <1>12 DEF ListSystem, IsNext
<1>13. ASSUME NEW t \in Threads, ListThrows(t) PROVE TypeOK'
  BY <1>13 DEF ListThrows, Unwind
<1>14. ASSUME NEW t \in Threads, AddChild(t) PROVE TypeOK'
  BY <1>14 DEF AddChild, FirstWins
<1>15. ASSUME NEW t \in Threads, EndSystem(t) PROVE TypeOK'
  BY <1>15 DEF EndSystem
<1>16. ASSUME NEW t \in Threads, EndPass(t) PROVE TypeOK'
  BY <1>16 DEF EndPass, ClearFlag
<1>17. ASSUME NEW t \in Threads, CreateInSystem(t) PROVE TypeOK'
  BY <1>17 DEF CreateInSystem, IsNext
<1>18. ASSUME NEW t \in Threads, DeleteInSystem(t) PROVE TypeOK'
  BY <1>18 DEF DeleteInSystem, IsNext
<1>19. ASSUME NEW t \in Threads, SkipSystem(t) PROVE TypeOK'
  BY <1>19 DEF SkipSystem, IsNext, Loop
<1>20. ASSUME NEW t \in Threads, WriteThrows(t) PROVE TypeOK'
  BY <1>20 DEF WriteThrows
<1>21. ASSUME NEW t \in Threads, EndDelete(t) PROVE TypeOK'
  BY <1>21 DEF EndDelete
<1>22. ASSUME NEW t \in Threads, EndCreate(t) PROVE TypeOK'
  BY <1>22 DEF EndCreate
<1>23. ASSUME NEW t \in Threads, MarkDirty(t) PROVE TypeOK'
  BY <1>23 DEF MarkDirty, Invalidate
<1>24. ASSUME NEW t \in Threads, EndDeleteNothing(t) PROVE TypeOK'
  BY <1>24 DEF EndDeleteNothing
<1>25. CASE UNCHANGED vars
  BY <1>25 DEF vars
<1> QED
  BY <1>1, <1>2, <1>3, <1>4, <1>5, <1>6, <1>7, <1>8, <1>9, <1>10, <1>11, <1>12,
     <1>13, <1>14, <1>15, <1>16, <1>17, <1>18, <1>19, <1>20, <1>21, <1>22, <1>23,
     <1>24, <1>25 DEF Next, Step, Pass, Write

(* Every variable of MergedCache keeps its type in every behaviour.        *)
THEOREM TypeCorrect == Spec => []TypeOK
  BY InitType, TypeStep, PTL DEF Spec

-----------------------------------------------------------------------------
(***************************************************************************)
(* Who is where: the mutex, exclusion, and the locals of a write call.     *)
(***************************************************************************)
Control == LockInv /\ ExclusionInv /\ WriterInv

(* Every step keeps who holds childrenLock, who is alone, who writes.      *)
LEMMA ControlStep == TypeOK /\ Control /\ [Next]_vars => Control'
<1> SUFFICES ASSUME TypeOK, Control, [Next]_vars
             PROVE  Control'
  OBVIOUS
<1> USE ThreadsAssumption, SystemsAssumption, BoundsAssumption
    DEF TypeOK, Control, LockInv, ExclusionInv, WriterInv, Goto, Return, ResetLocals,
        locals, PC, ReadPC, WritePC, PassPC, Systems
<1>1. ASSUME NEW t \in Threads, BeginRead(t) PROVE Control'
  BY <1>1 DEF BeginRead, MayRead
<1>2. ASSUME NEW t \in Threads, BeginPopulate(t) PROVE Control'
  BY <1>2 DEF BeginPopulate, MayRead
<1>3. ASSUME NEW t \in Threads, BeginWrite(t, "create") PROVE Control'
  BY <1>3 DEF BeginWrite, MayWrite, TakeName
<1>4. ASSUME NEW t \in Threads, BeginWrite(t, "delete") PROVE Control'
  BY <1>4 DEF BeginWrite, MayWrite, TakeName
<1>5. ASSUME NEW t \in Threads, TestDirty(t) PROVE Control'
  BY <1>5 DEF TestDirty
<1>6. ASSUME NEW t \in Threads, ReadCache(t) PROVE Control'
  BY <1>6 DEF ReadCache, Seen
<1>7. ASSUME NEW t \in Threads, EndRead(t) PROVE Control'
  BY <1>7 DEF EndRead
<1>8. ASSUME NEW t \in Threads, Lock(t) PROVE Control'
  BY <1>8 DEF Lock, LockFree
<1>9. ASSUME NEW t \in Threads, RecheckClean(t) PROVE Control'
  BY <1>9 DEF RecheckClean
<1>10. ASSUME NEW t \in Threads, RecheckDirty(t) PROVE Control'
  BY <1>10 DEF RecheckDirty, StillDirty
<1>11. ASSUME NEW t \in Threads, ClearCache(t) PROVE Control'
  BY <1>11 DEF ClearCache
<1>12. ASSUME NEW t \in Threads, ListSystem(t) PROVE Control'
  BY <1>12 DEF ListSystem, IsNext
<1>13. ASSUME NEW t \in Threads, ListThrows(t) PROVE Control'
  BY <1>13 DEF ListThrows, Unwind
<1>14. ASSUME NEW t \in Threads, AddChild(t) PROVE Control'
  BY <1>14 DEF AddChild, FirstWins
<1>15. ASSUME NEW t \in Threads, EndSystem(t) PROVE Control'
  BY <1>15 DEF EndSystem
<1>16. ASSUME NEW t \in Threads, EndPass(t) PROVE Control'
  BY <1>16 DEF EndPass, ClearFlag
<1>17. ASSUME NEW t \in Threads, CreateInSystem(t) PROVE Control'
  BY <1>17 DEF CreateInSystem, IsNext
<1>18. ASSUME NEW t \in Threads, DeleteInSystem(t) PROVE Control'
  BY <1>18 DEF DeleteInSystem, IsNext
<1>19. ASSUME NEW t \in Threads, SkipSystem(t) PROVE Control'
  BY <1>19 DEF SkipSystem, IsNext, Loop
<1>20. ASSUME NEW t \in Threads, WriteThrows(t) PROVE Control'
  BY <1>20 DEF WriteThrows
<1>21. ASSUME NEW t \in Threads, EndDelete(t) PROVE Control'
  BY <1>21 DEF EndDelete
<1>22. ASSUME NEW t \in Threads, EndDeleteNothing(t) PROVE Control'
  BY <1>22 DEF EndDeleteNothing
<1>23. ASSUME NEW t \in Threads, EndCreate(t) PROVE Control'
  BY <1>23 DEF EndCreate
<1>24. ASSUME NEW t \in Threads, MarkDirty(t) PROVE Control'
  BY <1>24 DEF MarkDirty, Invalidate
<1>25. CASE UNCHANGED vars
  BY <1>25 DEF vars
<1> QED
  BY <1>1, <1>2, <1>3, <1>4, <1>5, <1>6, <1>7, <1>8, <1>9, <1>10, <1>11, <1>12,
     <1>13, <1>14, <1>15, <1>16, <1>17, <1>18, <1>19, <1>20, <1>21, <1>22, <1>23,
     <1>24, <1>25 DEF Next, Step, Pass, Write

-----------------------------------------------------------------------------
(***************************************************************************)
(* What a pass has merged so far.                                          *)
(***************************************************************************)
(* Before the first system nothing is merged.                              *)
LEMMA UpToStart == ASSUME NEW n PROVE UpTo(n, 0, 1)
  BY SystemsAssumption DEF UpTo, Systems

(* No readable system lies between the loop's place and its next system.   *)
LEMMA UpToNext ==
    ASSUME NEW n, NEW c \in 0..NumSystems, NEW k \in Nat, NEW s \in Readable,
           IsNext(Readable, k, s), UpTo(n, c, k)
    PROVE  UpTo(n, c, s)
  BY SystemsAssumption DEF UpTo, IsNext, Systems

(* A system all of whose children are merged is behind the loop.           *)
LEMMA UpToDone ==
    ASSUME NEW n, NEW c \in 0..NumSystems, NEW k \in Readable,
           UpTo(n, c, k), n \in disk[k] => c # 0
    PROVE  UpTo(n, c, k + 1)
<1> USE SystemsAssumption DEF UpTo, Systems
<1>1. CASE c = 0
  BY <1>1
<1>2. CASE c # 0
  BY <1>2
<1> QED
  BY <1>1, <1>2

(* After the last system the merge is the overlay.                         *)
LEMMA UpToWins ==
    ASSUME NEW n, NEW c \in 0..NumSystems, NEW k \in Nat, IsLast(Readable, k), UpTo(n, c, k)
    PROVE  Promise!Wins(disk, n, c)
  BY SystemsAssumption DEF UpTo, IsLast, Systems, Promise!Wins

(* Every step keeps what the pass that holds childrenLock has merged.      *)
LEMMA PassStep == TypeOK /\ Control /\ PassInv /\ [Next]_vars => PassInv'
<1> SUFFICES ASSUME TypeOK, Control, PassInv, [Next]_vars
             PROVE  PassInv'
  OBVIOUS
<1> USE ThreadsAssumption, SystemsAssumption, NamesAssumption, BoundsAssumption
    DEF TypeOK, Control, LockInv, ExclusionInv, WriterInv, Goto, Return, ResetLocals,
        locals, PC, ReadPC, WritePC, PassPC, Systems, PassInv, Settled, UpTo, Answers, Nothing
<1>1. ASSUME NEW t \in Threads, BeginRead(t) PROVE PassInv'
  BY <1>1 DEF BeginRead, MayRead
<1>2. ASSUME NEW t \in Threads, BeginPopulate(t) PROVE PassInv'
  BY <1>2 DEF BeginPopulate, MayRead
<1>3. ASSUME NEW t \in Threads, BeginWrite(t, "create") PROVE PassInv'
  BY <1>3 DEF BeginWrite, MayWrite, TakeName
<1>4. ASSUME NEW t \in Threads, BeginWrite(t, "delete") PROVE PassInv'
  BY <1>4 DEF BeginWrite, MayWrite, TakeName
<1>5. ASSUME NEW t \in Threads, TestDirty(t) PROVE PassInv'
  BY <1>5 DEF TestDirty
<1>6. ASSUME NEW t \in Threads, ReadCache(t) PROVE PassInv'
  BY <1>6 DEF ReadCache, Seen
<1>7. ASSUME NEW t \in Threads, EndRead(t) PROVE PassInv'
  BY <1>7 DEF EndRead
<1>8. ASSUME NEW t \in Threads, Lock(t) PROVE PassInv'
  BY <1>8 DEF Lock, LockFree
<1>9. ASSUME NEW t \in Threads, RecheckClean(t) PROVE PassInv'
  BY <1>9 DEF RecheckClean
<1>10. ASSUME NEW t \in Threads, RecheckDirty(t) PROVE PassInv'
  BY <1>10 DEF RecheckDirty, StillDirty
<1>11. ASSUME NEW t \in Threads, ClearCache(t) PROVE PassInv'
  BY <1>11 DEF ClearCache
<1>12. ASSUME NEW t \in Threads, ListSystem(t) PROVE PassInv'
  BY <1>12 DEF ListSystem, IsNext
<1>13. ASSUME NEW t \in Threads, ListThrows(t) PROVE PassInv'
  BY <1>13 DEF ListThrows, Unwind
<1>14. ASSUME NEW t \in Threads, AddChild(t) PROVE PassInv'
  <2>1. PICK m \in todo[t] :
            /\ todo' = [todo EXCEPT ![t] = @ \ {m}]
            /\ cached' = [cached EXCEPT ![m] = FirstWins(@, next[t])]
    BY <1>14 DEF AddChild
  <2>2. /\ pc[t] = "add" /\ dirty /\ next[t] \in Readable /\ m \in Names
        /\ UNCHANGED <<disk, dirty, pc, next>>
    BY <1>14, <2>1 DEF AddChild
  <2>3. \A u \in Threads : u # t => pc[u] \notin PassPC
    BY <2>2
  <2>4. ASSUME NEW n \in Names, Settled(n), n # m
        PROVE  /\ n \in todo'[t] => n \in disk[next[t]]
               /\ \/ /\ UpTo(n, cached'[n], next[t])
                     /\ n \in disk[next[t]] => n \in todo'[t] \/ cached'[n] # 0
                  \/ UpTo(n, cached'[n], next[t] + 1) /\ cached'[n] = next[t]
    BY <2>1, <2>2, <2>4
  <2>5. ASSUME Settled(m)
        PROVE  /\ m \notin todo'[t]
               /\ \/ /\ UpTo(m, cached'[m], next[t])
                     /\ m \in disk[next[t]] => cached'[m] # 0
                  \/ UpTo(m, cached'[m], next[t] + 1) /\ cached'[m] = next[t]
    <3>1. m \notin todo'[t] /\ m \in disk[next[t]]
      BY <2>1, <2>2, <2>5
    <3>2. CASE cached[m] = 0
      BY <2>1, <2>2, <2>5, <3>1, <3>2 DEF FirstWins
    <3>3. CASE cached[m] # 0
      BY <2>1, <2>2, <2>5, <3>1, <3>3 DEF FirstWins
    <3> QED
      BY <3>1, <3>2, <3>3
  <2> QED
    BY <2>1, <2>2, <2>3, <2>4, <2>5
<1>15. ASSUME NEW t \in Threads, EndSystem(t) PROVE PassInv'
  <2>1. /\ pc[t] = "add" /\ todo[t] = {} /\ dirty /\ next[t] \in Readable
        /\ pc' = [pc EXCEPT ![t] = "list"] /\ next' = [next EXCEPT ![t] = @ + 1]
        /\ UNCHANGED <<disk, dirty, cached, todo>>
    BY <1>15 DEF EndSystem
  <2>2. \A u \in Threads : u # t => pc[u] \notin PassPC
    BY <2>1
  <2>3. ASSUME NEW n \in Names, Settled(n) PROVE UpTo(n, cached[n], next[t] + 1)
    <3>1. \/ /\ UpTo(n, cached[n], next[t])
             /\ n \in disk[next[t]] => cached[n] # 0
          \/ UpTo(n, cached[n], next[t] + 1)
      BY <2>1, <2>3
    <3> QED
      BY <2>1, <3>1, UpToDone
  <2> QED
    BY <2>1, <2>2, <2>3
<1>16. ASSUME NEW t \in Threads, EndPass(t) PROVE PassInv'
  BY <1>16 DEF EndPass, ClearFlag
<1>17. ASSUME NEW t \in Threads, CreateInSystem(t) PROVE PassInv'
  BY <1>17 DEF CreateInSystem, IsNext
<1>18. ASSUME NEW t \in Threads, DeleteInSystem(t) PROVE PassInv'
  BY <1>18 DEF DeleteInSystem, IsNext
<1>19. ASSUME NEW t \in Threads, SkipSystem(t) PROVE PassInv'
  BY <1>19 DEF SkipSystem, IsNext, Loop
<1>20. ASSUME NEW t \in Threads, WriteThrows(t) PROVE PassInv'
  BY <1>20 DEF WriteThrows
<1>21. ASSUME NEW t \in Threads, EndDelete(t) PROVE PassInv'
  BY <1>21 DEF EndDelete
<1>22. ASSUME NEW t \in Threads, EndDeleteNothing(t) PROVE PassInv'
  BY <1>22 DEF EndDeleteNothing
<1>23. ASSUME NEW t \in Threads, EndCreate(t) PROVE PassInv'
  BY <1>23 DEF EndCreate
<1>24. ASSUME NEW t \in Threads, MarkDirty(t) PROVE PassInv'
  BY <1>24 DEF MarkDirty, Invalidate
<1>25. CASE UNCHANGED vars
  BY <1>25 DEF vars
<1> QED
  BY <1>1, <1>2, <1>3, <1>4, <1>5, <1>6, <1>7, <1>8, <1>9, <1>10, <1>11, <1>12,
     <1>13, <1>14, <1>15, <1>16, <1>17, <1>18, <1>19, <1>20, <1>21, <1>22, <1>23,
     <1>24, <1>25 DEF Next, Step, Pass, Write

-----------------------------------------------------------------------------
(***************************************************************************)
(* The cache when it is clean.                                             *)
(***************************************************************************)
(* Every step keeps a clean cache right.                                   *)
LEMMA CleanStep ==
    TypeOK /\ Control /\ PassInv /\ CleanInv /\ [Next]_vars => CleanInv'
<1> SUFFICES ASSUME TypeOK, Control, PassInv, CleanInv, [Next]_vars
             PROVE  CleanInv'
  OBVIOUS
<1> USE ThreadsAssumption, SystemsAssumption, NamesAssumption, BoundsAssumption
    DEF TypeOK, Control, LockInv, ExclusionInv, WriterInv, Goto, Return, ResetLocals,
        locals, PC, ReadPC, WritePC, PassPC, Systems, CleanInv, Touched, Promise!Wins
<1>1. ASSUME NEW t \in Threads, BeginRead(t) PROVE CleanInv'
  BY <1>1 DEF BeginRead, MayRead
<1>2. ASSUME NEW t \in Threads, BeginPopulate(t) PROVE CleanInv'
  BY <1>2 DEF BeginPopulate, MayRead
<1>3. ASSUME NEW t \in Threads, BeginWrite(t, "create") PROVE CleanInv'
  BY <1>3 DEF BeginWrite, MayWrite, TakeName
<1>4. ASSUME NEW t \in Threads, BeginWrite(t, "delete") PROVE CleanInv'
  BY <1>4 DEF BeginWrite, MayWrite, TakeName
<1>5. ASSUME NEW t \in Threads, TestDirty(t) PROVE CleanInv'
  BY <1>5 DEF TestDirty
<1>6. ASSUME NEW t \in Threads, ReadCache(t) PROVE CleanInv'
  BY <1>6 DEF ReadCache
<1>7. ASSUME NEW t \in Threads, EndRead(t) PROVE CleanInv'
  BY <1>7 DEF EndRead
<1>8. ASSUME NEW t \in Threads, Lock(t) PROVE CleanInv'
  BY <1>8 DEF Lock, LockFree
<1>9. ASSUME NEW t \in Threads, RecheckClean(t) PROVE CleanInv'
  BY <1>9 DEF RecheckClean
<1>10. ASSUME NEW t \in Threads, RecheckDirty(t) PROVE CleanInv'
  BY <1>10 DEF RecheckDirty, StillDirty
<1>11. ASSUME NEW t \in Threads, ClearCache(t) PROVE CleanInv'
  <2>1. dirty /\ dirty' = dirty
    BY <1>11 DEF ClearCache, PassInv
  <2> QED
    BY <2>1
<1>12. ASSUME NEW t \in Threads, ListSystem(t) PROVE CleanInv'
  BY <1>12 DEF ListSystem, IsNext
<1>13. ASSUME NEW t \in Threads, ListThrows(t) PROVE CleanInv'
  BY <1>13 DEF ListThrows, Unwind
<1>14. ASSUME NEW t \in Threads, AddChild(t) PROVE CleanInv'
  <2>1. dirty /\ dirty' = dirty
    BY <1>14 DEF AddChild, PassInv
  <2> QED
    BY <2>1
<1>15. ASSUME NEW t \in Threads, EndSystem(t) PROVE CleanInv'
  BY <1>15 DEF EndSystem
<1>16. ASSUME NEW t \in Threads, EndPass(t) PROVE CleanInv'
  <2>1. /\ pc[t] = "list" /\ IsLast(Readable, next[t])
        /\ UNCHANGED <<disk, cached>>
    BY <1>16 DEF EndPass
  <2>2. ASSUME NEW n \in Names, Settled(n) PROVE UpTo(n, cached[n], next[t])
    BY <2>1, <2>2 DEF PassInv
  <2>3. ASSUME NEW n \in Names, Settled(n) PROVE Promise!Wins(disk, n, cached[n])
    <3>1. cached[n] \in 0..NumSystems /\ next[t] \in Nat
      BY DEF Answers
    <3> HIDE DEF Promise!Wins
    <3> QED
      BY <2>1, <2>2, <2>3, <3>1, UpToWins
  <2> QED
    BY <2>1, <2>3 DEF Settled
<1>17. ASSUME NEW t \in Threads, CreateInSystem(t) PROVE CleanInv'
  BY <1>17 DEF CreateInSystem, IsNext
<1>18. ASSUME NEW t \in Threads, DeleteInSystem(t) PROVE CleanInv'
  BY <1>18 DEF DeleteInSystem, IsNext
<1>19. ASSUME NEW t \in Threads, SkipSystem(t) PROVE CleanInv'
  BY <1>19 DEF SkipSystem, IsNext, Loop
<1>20. ASSUME NEW t \in Threads, WriteThrows(t) PROVE CleanInv'
  <2>1. CASE ~success[t]
    BY <1>20, <2>1 DEF WriteThrows
  <2>2. CASE success[t]
    <3>1. PICK d \in Deletable : d < next[t]
      BY <1>20, <2>2 DEF WriteThrows
    <3>2. PICK s \in Deletable \cap Faulty : s >= next[t]
      BY <1>20, <2>2 DEF WriteThrows, Loop, IsNext
    <3>3. ~(s <= d)
      <4>1. d \in Nat /\ s \in Nat /\ next[t] \in Nat
        BY <3>1, <3>2
      <4> QED
        BY <3>1, <3>2, <4>1
    <3>4. ~FaultsComeFirst
      BY <3>2, <3>3 DEF FaultsComeFirst
    <3>5. ~FaultsComeFirst'
      BY <3>4 DEF FaultsComeFirst
    <3> QED
      BY <1>20, <3>5 DEF WriteThrows
  <2> QED
    BY <2>1, <2>2
<1>21. ASSUME NEW t \in Threads, EndDelete(t) PROVE CleanInv'
  BY <1>21 DEF EndDelete
<1>22. ASSUME NEW t \in Threads, EndDeleteNothing(t) PROVE CleanInv'
  BY <1>22 DEF EndDeleteNothing
<1>23. ASSUME NEW t \in Threads, EndCreate(t) PROVE CleanInv'
  BY <1>23 DEF EndCreate
<1>24. ASSUME NEW t \in Threads, MarkDirty(t) PROVE CleanInv'
  BY <1>24 DEF MarkDirty, Invalidate
<1>25. CASE UNCHANGED vars
  BY <1>25 DEF vars
<1> QED
  BY <1>1, <1>2, <1>3, <1>4, <1>5, <1>6, <1>7, <1>8, <1>9, <1>10, <1>11, <1>12,
     <1>13, <1>14, <1>15, <1>16, <1>17, <1>18, <1>19, <1>20, <1>21, <1>22, <1>23,
     <1>24, <1>25 DEF Next, Step, Pass, Write

(* Every step keeps what exclusive readers see right.                      *)
LEMMA ReadStep ==
    TypeOK /\ Control /\ PassInv /\ CleanInv /\ ReadInv /\ [Next]_vars => ReadInv'
<1> SUFFICES ASSUME TypeOK, Control, PassInv, CleanInv, ReadInv, [Next]_vars,
                    Exclusive, FaultsComeFirst
             PROVE  ReadInv'
  BY DEF ReadInv, FaultsComeFirst
<1> USE ThreadsAssumption, SystemsAssumption, NamesAssumption, BoundsAssumption
    DEF TypeOK, Control, LockInv, ExclusionInv, WriterInv, Goto, Return, ResetLocals,
        locals, PC, ReadPC, WritePC, PassPC, Systems, ReadInv, Promise!IsOverlay, Promise!Wins
<1>1. ASSUME NEW t \in Threads, BeginRead(t) PROVE ReadInv'
  BY <1>1 DEF BeginRead, MayRead
<1>2. ASSUME NEW t \in Threads, BeginPopulate(t) PROVE ReadInv'
  BY <1>2 DEF BeginPopulate, MayRead
<1>3. ASSUME NEW t \in Threads, BeginWrite(t, "create") PROVE ReadInv'
  BY <1>3 DEF BeginWrite, MayWrite, TakeName
<1>4. ASSUME NEW t \in Threads, BeginWrite(t, "delete") PROVE ReadInv'
  BY <1>4 DEF BeginWrite, MayWrite, TakeName
<1>5. ASSUME NEW t \in Threads, TestDirty(t) PROVE ReadInv'
  BY <1>5 DEF TestDirty
<1>6. ASSUME NEW t \in Threads, ReadCache(t) PROVE ReadInv'
  <2>1. /\ pc[t] = "read" /\ ~dirty
        /\ pc' = [pc EXCEPT ![t] = "done"] /\ UNCHANGED <<disk, dirty>>
    BY <1>6 DEF ReadCache
  <2>2. \A u \in Threads : pc[u] \notin {"clear", "list", "add"} \cup WritePC
    BY <2>1 DEF PassInv
  <2>3. found' = [found EXCEPT ![t] = cached]
    BY <1>6, <2>2 DEF ReadCache, Seen
  <2>4. \A n \in Names : Promise!Wins(disk, n, cached[n])
    BY <2>1, <2>2 DEF CleanInv, Touched
  <2> QED
    BY <2>1, <2>3, <2>4
<1>7. ASSUME NEW t \in Threads, EndRead(t) PROVE ReadInv'
  <2>1. /\ pc' = [pc EXCEPT ![t] = "idle"]
        /\ found' = [found EXCEPT ![t] = Nothing]
        /\ UNCHANGED <<disk, dirty>>
    BY <1>7 DEF EndRead
  <2>2. ASSUME NEW u \in Threads, u # t
        PROVE  found'[u] = found[u] /\ pc'[u] = pc[u]
    BY <2>1, <2>2
  <2> QED
    BY <2>1, <2>2
<1>8. ASSUME NEW t \in Threads, Lock(t) PROVE ReadInv'
  BY <1>8 DEF Lock, LockFree
<1>9. ASSUME NEW t \in Threads, RecheckClean(t) PROVE ReadInv'
  BY <1>9 DEF RecheckClean
<1>10. ASSUME NEW t \in Threads, RecheckDirty(t) PROVE ReadInv'
  BY <1>10 DEF RecheckDirty, StillDirty
<1>11. ASSUME NEW t \in Threads, ClearCache(t) PROVE ReadInv'
  BY <1>11 DEF ClearCache
<1>12. ASSUME NEW t \in Threads, ListSystem(t) PROVE ReadInv'
  BY <1>12 DEF ListSystem, IsNext
<1>13. ASSUME NEW t \in Threads, ListThrows(t) PROVE ReadInv'
  BY <1>13 DEF ListThrows, Unwind
<1>14. ASSUME NEW t \in Threads, AddChild(t) PROVE ReadInv'
  BY <1>14 DEF AddChild, FirstWins
<1>15. ASSUME NEW t \in Threads, EndSystem(t) PROVE ReadInv'
  BY <1>15 DEF EndSystem
<1>16. ASSUME NEW t \in Threads, EndPass(t) PROVE ReadInv'
  BY <1>16 DEF EndPass, ClearFlag
<1>17. ASSUME NEW t \in Threads, CreateInSystem(t) PROVE ReadInv'
  BY <1>17 DEF CreateInSystem, IsNext
<1>18. ASSUME NEW t \in Threads, DeleteInSystem(t) PROVE ReadInv'
  BY <1>18 DEF DeleteInSystem, IsNext
<1>19. ASSUME NEW t \in Threads, SkipSystem(t) PROVE ReadInv'
  BY <1>19 DEF SkipSystem, IsNext, Loop
<1>20. ASSUME NEW t \in Threads, WriteThrows(t) PROVE ReadInv'
  BY <1>20 DEF WriteThrows
<1>21. ASSUME NEW t \in Threads, EndDelete(t) PROVE ReadInv'
  BY <1>21 DEF EndDelete
<1>22. ASSUME NEW t \in Threads, EndDeleteNothing(t) PROVE ReadInv'
  BY <1>22 DEF EndDeleteNothing
<1>23. ASSUME NEW t \in Threads, EndCreate(t) PROVE ReadInv'
  BY <1>23 DEF EndCreate
<1>24. ASSUME NEW t \in Threads, MarkDirty(t) PROVE ReadInv'
  BY <1>24 DEF MarkDirty, Invalidate
<1>25. CASE UNCHANGED vars
  BY <1>25 DEF vars
<1> QED
  BY <1>1, <1>2, <1>3, <1>4, <1>5, <1>6, <1>7, <1>8, <1>9, <1>10, <1>11, <1>12,
     <1>13, <1>14, <1>15, <1>16, <1>17, <1>18, <1>19, <1>20, <1>21, <1>22, <1>23,
     <1>24, <1>25 DEF Next, Step, Pass, Write

-----------------------------------------------------------------------------
(***************************************************************************)
(* The theorems.                                                           *)
(***************************************************************************)
(* The invariant holds in every reachable state.                           *)
THEOREM Invariance == Spec => []IInv
<1>1. Init => IInv
  <2>1. Init => TypeOK
    BY InitType
  <2> QED
    BY <2>1, ThreadsAssumption
       DEF Init, IInv, LockInv, ExclusionInv, WriterInv, PassInv, CleanInv, ReadInv,
           PassPC, WritePC
<1>2. IInv /\ [Next]_vars => IInv'
  BY TypeStep, ControlStep, PassStep, CleanStep, ReadStep DEF IInv, Control
<1> QED
  BY <1>1, <1>2, PTL DEF Spec

(* Whatever the threads do, writers included, a cache that is not dirty is *)
(* right about the names nobody writes (cacheChildren and its callers).    *)
THEOREM CleanCacheIsRight == Spec => []CleanCacheHoldsStable
<1>1. IInv => CleanCacheHoldsStable
  BY DEF IInv, CleanInv, CleanCacheHoldsStable
<1> QED
  BY <1>1, Invariance, PTL

(* childrenLock is never left locked, also by a pass that throws.          *)
THEOREM MutexIsReleased == Spec => []LockedInPassOnly
<1>1. IInv => LockedInPassOnly
  BY ThreadsAssumption DEF IInv, LockInv, LockedInPassOnly, TypeOK
<1> QED
  BY <1>1, Invariance, PTL

(* Callers that keep writers apart get the overlay of the systems from     *)
(* getChild and listChildren, whatever passes run and fail beside them.    *)
THEOREM ReadersSeeTheOverlay == Spec => []AnswersCurrent
<1>1. IInv => AnswersCurrent
  BY DEF IInv, ReadInv, AnswersCurrent
<1> QED
  BY <1>1, Invariance, PTL

(* Only cacheChildren, under its mutex and while dirty, changes the cache. *)
THEOREM PassesAreSerialised == Spec => CleanCacheUntouched
<1>1. ASSUME IInv, [Next]_vars, cached' # cached
      PROVE  dirty /\ lock \in Threads /\ pc[lock] \in PassPC
  <2> USE <1>1, ThreadsAssumption
      DEF IInv, TypeOK, LockInv, PassInv, PassPC, Goto, Return, ResetLocals, locals
  <2>1. PICK t \in Threads : ClearCache(t) \/ AddChild(t)
    BY DEF Next, vars, Step, Pass, Write,
           BeginRead, BeginPopulate, BeginWrite, TestDirty, ReadCache, EndRead, Lock, RecheckClean,
           RecheckDirty, ListSystem, ListThrows, EndSystem, EndPass, CreateInSystem,
           DeleteInSystem, SkipSystem, WriteThrows, EndDelete, EndDeleteNothing,
           EndCreate, MarkDirty
  <2>2. CASE ClearCache(t)
    BY <2>2 DEF ClearCache
  <2>3. CASE AddChild(t)
    BY <2>3 DEF AddChild
  <2> QED
    BY <2>1, <2>2, <2>3
<1> QED
  BY <1>1, Invariance, PTL DEF Spec, CleanCacheUntouched

-----------------------------------------------------------------------------
(***************************************************************************)
(* The cacheless directory.                                                *)
(***************************************************************************)
(* A thread that moves to another statement changes its own call at most.  *)
LEMMA CallMoves ==
    ASSUME TypeOK, NEW t \in Threads, NEW label, pc' = [pc EXCEPT ![t] = label]
    PROVE  Call' = [Call EXCEPT ![t] = Seems(label)]
  BY DEF TypeOK, Call

(* Each step is a step of MergedDirectory or changes nothing it shows.     *)
LEMMA RefinementStep ==
    ASSUME Exclusive, FaultsComeFirst, IInv, IInv', [Next]_vars
    PROVE  [Promise!Next]_(Promise!vars)
<1> USE SystemsAssumption, NamesAssumption
    DEF Promise!vars, Goto, Return, ResetLocals, locals
<1>a. TypeOK
  BY DEF IInv
<1>b. ASSUME NEW t \in Threads, NEW label,
             pc' = [pc EXCEPT ![t] = label], Seems(label) = Seems(pc[t]),
             UNCHANGED <<disk, found>>
      PROVE  UNCHANGED Promise!vars
  BY <1>a, <1>b, CallMoves DEF Call
<1>d. Seems("test") = "reading" /\ Seems("lock") = "reading" /\ Seems("idle") = "idle"
  BY DEF Seems, WritePC
<1>c. ASSUME NEW t \in Threads, Return(t), pc[t] # "idle", UNCHANGED disk
      PROVE  Promise!Finish(t)
  <2>1. Call' = [Call EXCEPT ![t] = "idle"]
    BY <1>a, <1>c, CallMoves DEF Seems, WritePC
  <2>2. Call[t] # "idle"
    BY <1>a, <1>c DEF Call, Seems, WritePC
  <2> QED
    BY <1>c, <2>1, <2>2 DEF Promise!Finish, Promise!Nothing, Nothing
<1>1. ASSUME NEW t \in Threads, BeginRead(t) PROVE [Promise!Next]_(Promise!vars)
  <2>1. Call' = [Call EXCEPT ![t] = "reading"] /\ Call[t] = "idle"
    <3>1. pc[t] = "idle" /\ pc' = [pc EXCEPT ![t] = "test"]
      BY <1>1 DEF BeginRead
    <3>2. Call' = [Call EXCEPT ![t] = Seems("test")]
      BY <1>a, <3>1, CallMoves
    <3> QED
      BY <1>d, <3>1, <3>2 DEF Call
  <2> QED
    BY <1>1, <2>1 DEF BeginRead, Promise!Next, Promise!Start
<1>2. ASSUME NEW t \in Threads, BeginPopulate(t) PROVE [Promise!Next]_(Promise!vars)
  <2>1. Call' = [Call EXCEPT ![t] = "reading"] /\ Call[t] = "idle"
    <3>1. pc[t] = "idle" /\ pc' = [pc EXCEPT ![t] = "lock"]
      BY <1>2 DEF BeginPopulate
    <3>2. Call' = [Call EXCEPT ![t] = Seems("lock")]
      BY <1>a, <3>1, CallMoves
    <3> QED
      BY <1>d, <3>1, <3>2 DEF Call
  <2> QED
    BY <1>2, <2>1 DEF BeginPopulate, Promise!Next, Promise!Start
<1>3. ASSUME NEW t \in Threads, BeginWrite(t, "create") PROVE [Promise!Next]_(Promise!vars)
  <2>1. Call' = [Call EXCEPT ![t] = "writing"] /\ Call[t] = "idle"
    BY <1>a, <1>3, CallMoves DEF BeginWrite, Call, Seems, WritePC
  <2> QED
    BY <1>3, <2>1 DEF BeginWrite, Promise!Next, Promise!Start
<1>4. ASSUME NEW t \in Threads, BeginWrite(t, "delete") PROVE [Promise!Next]_(Promise!vars)
  <2>1. Call' = [Call EXCEPT ![t] = "writing"] /\ Call[t] = "idle"
    BY <1>a, <1>4, CallMoves DEF BeginWrite, Call, Seems, WritePC
  <2> QED
    BY <1>4, <2>1 DEF BeginWrite, Promise!Next, Promise!Start
<1>5. ASSUME NEW t \in Threads, TestDirty(t) PROVE [Promise!Next]_(Promise!vars)
  BY <1>a, <1>b, <1>5 DEF TestDirty, Seems, WritePC
<1>6. ASSUME NEW t \in Threads, ReadCache(t) PROVE [Promise!Next]_(Promise!vars)
  <2>1. Call' = [Call EXCEPT ![t] = "answered"] /\ Call[t] = "reading"
    BY <1>a, <1>6, CallMoves DEF ReadCache, Call, Seems, WritePC
  <2>2. PICK m \in Answers : found' = [found EXCEPT ![t] = m]
    BY <1>a, <1>6 DEF ReadCache, Seen, TypeOK
  <2>3. Promise!IsOverlay(m, disk)
    <3>1. pc'[t] = "done" /\ found'[t] = m /\ disk' = disk
      BY <1>a, <1>6, <2>2 DEF ReadCache, TypeOK
    <3> QED
      BY <3>1 DEF IInv, ReadInv, FaultsComeFirst, Promise!IsOverlay, Promise!Wins
  <2>4. Promise!Answer(t)
    BY <1>6, <2>1, <2>2, <2>3 DEF ReadCache, Promise!Answer, Promise!Answers, Answers
  <2> QED
    BY <2>4 DEF Promise!Next
<1>7. ASSUME NEW t \in Threads, EndRead(t) PROVE [Promise!Next]_(Promise!vars)
  BY <1>c, <1>7 DEF EndRead, Promise!Next
<1>8. ASSUME NEW t \in Threads, Lock(t) PROVE [Promise!Next]_(Promise!vars)
  BY <1>a, <1>b, <1>8 DEF Lock, Seems, WritePC
<1>9. ASSUME NEW t \in Threads, RecheckClean(t) PROVE [Promise!Next]_(Promise!vars)
  BY <1>a, <1>b, <1>9 DEF RecheckClean, Seems, WritePC
<1>10. ASSUME NEW t \in Threads, RecheckDirty(t) PROVE [Promise!Next]_(Promise!vars)
  BY <1>a, <1>b, <1>10 DEF RecheckDirty, Seems, WritePC
<1>11. ASSUME NEW t \in Threads, ClearCache(t) PROVE [Promise!Next]_(Promise!vars)
  BY <1>a, <1>b, <1>11 DEF ClearCache, Seems, WritePC
<1>12. ASSUME NEW t \in Threads, ListSystem(t) PROVE [Promise!Next]_(Promise!vars)
  BY <1>a, <1>b, <1>12 DEF ListSystem, Seems, WritePC
<1>13. ASSUME NEW t \in Threads, ListThrows(t) PROVE [Promise!Next]_(Promise!vars)
  BY <1>c, <1>13 DEF ListThrows, Promise!Next
<1>14. ASSUME NEW t \in Threads, AddChild(t) PROVE [Promise!Next]_(Promise!vars)
  BY <1>14 DEF AddChild, Call
<1>15. ASSUME NEW t \in Threads, EndSystem(t) PROVE [Promise!Next]_(Promise!vars)
  BY <1>a, <1>b, <1>15 DEF EndSystem, Seems, WritePC
<1>16. ASSUME NEW t \in Threads, EndPass(t) PROVE [Promise!Next]_(Promise!vars)
  BY <1>a, <1>b, <1>16 DEF EndPass, Seems, WritePC
<1>17. ASSUME NEW t \in Threads, CreateInSystem(t) PROVE [Promise!Next]_(Promise!vars)
  <2>1. UNCHANGED <<Call, found>> /\ Call[t] = "writing" /\ target[t] \in Names
    BY <1>a, <1>17, CallMoves DEF CreateInSystem, TypeOK, Call, Seems, WritePC
  <2>2. PICK s \in Creatable : Promise!Create(t, target[t], s)
    BY <1>17, <2>1 DEF CreateInSystem, Promise!Create
  <2> QED
    BY <2>1, <2>2 DEF Promise!Next
<1>18. ASSUME NEW t \in Threads, DeleteInSystem(t) PROVE [Promise!Next]_(Promise!vars)
  <2>1. UNCHANGED <<Call, found>> /\ Call[t] = "writing" /\ target[t] \in Names
    BY <1>a, <1>18, CallMoves DEF DeleteInSystem, TypeOK, Call, Seems, WritePC
  <2>2. PICK s \in Deletable : Promise!Delete(t, target[t], s)
    BY <1>18, <2>1 DEF DeleteInSystem, Promise!Delete
  <2> QED
    BY <2>1, <2>2 DEF Promise!Next
<1>19. ASSUME NEW t \in Threads, SkipSystem(t) PROVE [Promise!Next]_(Promise!vars)
  BY <1>19 DEF SkipSystem, Call
<1>20. ASSUME NEW t \in Threads, WriteThrows(t) PROVE [Promise!Next]_(Promise!vars)
  BY <1>c, <1>20 DEF WriteThrows, Promise!Next
<1>21. ASSUME NEW t \in Threads, EndDelete(t) PROVE [Promise!Next]_(Promise!vars)
  BY <1>a, <1>b, <1>21 DEF EndDelete, Seems, WritePC
<1>22. ASSUME NEW t \in Threads, EndDeleteNothing(t) PROVE [Promise!Next]_(Promise!vars)
  BY <1>c, <1>22 DEF EndDeleteNothing, Promise!Next
<1>23. ASSUME NEW t \in Threads, EndCreate(t) PROVE [Promise!Next]_(Promise!vars)
  BY <1>c, <1>23 DEF EndCreate, Promise!Next
<1>24. ASSUME NEW t \in Threads, MarkDirty(t) PROVE [Promise!Next]_(Promise!vars)
  BY <1>c, <1>24 DEF MarkDirty, Promise!Next
<1>25. CASE UNCHANGED vars
  BY <1>25 DEF vars, Call
<1> QED
  BY <1>1, <1>2, <1>3, <1>4, <1>5, <1>6, <1>7, <1>8, <1>9, <1>10, <1>11, <1>12,
     <1>13, <1>14, <1>15, <1>16, <1>17, <1>18, <1>19, <1>20, <1>21, <1>22, <1>23,
     <1>24, <1>25 DEF Next, Step, Pass, Write

(* With exclusive writers, and no vanished root behind a deletion, the     *)
(* cache implements the directory without a cache.                         *)
THEOREM CacheIsTransparent ==
    ASSUME Exclusive, FaultsComeFirst
    PROVE  Spec => ImplementsDirectory
<1>1. Init => Promise!Init
  BY DEF Init, Promise!Init, Promise!Systems, Systems, Promise!Nothing, Nothing,
         Call, Seems, WritePC
<1>2. IInv /\ IInv' /\ [Next]_vars => [Promise!Next]_(Promise!vars)
  BY RefinementStep
<1> QED
  BY <1>1, <1>2, Invariance, PTL DEF Spec, ImplementsDirectory, Promise!Spec
=============================================================================
