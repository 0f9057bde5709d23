--------------------------- MODULE SevenZip_proofs ---------------------------
(***************************************************************************)
(* Theorems about SevenZip, for all archives, threads, names and failures. *)
(*                                                                         *)
(* What makes the block cache right under several threads is what a thread *)
(* in each place of SzArEx_Extract knows of the buffer (Knows), what the   *)
(* buffer holds when nobody is at it (Buffer), and that a thread that      *)
(* touches the cache is alone, but for threads that have passed it in the  *)
(* same block (Alone).  What makes the index right is what a fold over     *)
(* its entries (Children) and over the characters of a name (Components)   *)
(* leaves; that the offset of a file in its block is right is a fold over  *)
(* the items before it.                                                    *)
(***************************************************************************)
EXTENDS SevenZip, SequenceTheorems, TLAPS

Places  == {"idle", "extract", "seek", "decode", "slice", "copy"}
Past(t) == pc[t] \in {"slice", "copy"}

(* What nobody but the constructor changes.                                *)
IndexTyped ==
    /\ archive \in Archives
    /\ Len(fileData) \in Nat
    /\ fileData = [k \in 1..Len(fileData) |-> fileData[k]]
    /\ \A k \in 1..Len(fileData) :
        fileData[k].index \in Items /\ fileData[k].type \in {DIRECTORY, FILE}
    /\ Len(fileData) <= Len(archive.items)
    /\ \A name \in DOMAIN fileIndexes : fileIndexes[name] \in DOMAIN fileData

CacheTyped ==
    /\ blockIndex \in {NoFolder} \union DOMAIN archive.folders
    /\ outBufferSize \in Nat
    /\ pc \in [Threads -> Places]
    /\ extracting \in [Threads -> Items \union {NoItem}]
    /\ \A t \in Threads : pc[t] # "idle" => extracting[t] \in Items
    /\ faults \in 0..MaxFaults

(* The buffer has the length of block f, and outBufferSize says so.        *)
Full(f) ==
    /\ outBufferSize = Folder(f).size
    /\ outBuffer = [k \in 1..outBufferSize |-> outBuffer[k]]

(* No read has failed, and block f decodes to what it should.              *)
Sound(f) == faults = 0 /\ ~Folder(f).damaged

(* What thread t may rely on in its place.                                 *)
Knows(t) ==
    /\ pc[t] \in {"seek", "decode", "slice", "copy"} =>
            FolderOf(t) # NoFolder /\ blockIndex = FolderOf(t)
    /\ pc[t] = "seek" => outBuffer = Null
    /\ pc[t] \in {"decode", "slice", "copy"} => Full(FolderOf(t))
    /\ Past(t) /\ Sound(FolderOf(t)) => outBuffer = Block(FolderOf(t))
    /\ pc[t] = "copy" /\ Item(extracting[t]).crcDefined =>
            Slice(extracting[t]) = Content(extracting[t])

(* What is left behind for the next call.                                  *)
Buffer ==
    outBuffer # Null =>
        /\ blockIndex # NoFolder
        /\ Full(blockIndex)
        /\ Sound(blockIndex) /\ (\A t \in Threads : pc[t] # "decode") =>
                outBuffer = Block(blockIndex)

(* Of two calls that overlap, in one block, one is past the cache; and if  *)
(* the other fills the buffer then there is nothing to fill.               *)
Alone ==
    \A t, u \in Threads :
        t # u /\ pc[t] # "idle" /\ pc[u] # "idle" =>
            /\ FolderOf(t) = FolderOf(u)
            /\ Past(t) \/ Past(u)
            /\ Past(t) /\ pc[u] \in {"seek", "decode"} => outBuffer = Null

IInv ==
    /\ IndexTyped /\ CacheTyped
    /\ \A t \in Threads : Knows(t)
    /\ Buffer
    /\ Alone

-----------------------------------------------------------------------------
(***************************************************************************)
(* The initial states, the constructor, and the calls that only read.      *)
(***************************************************************************)
(* A block that a file is in is one of the archive's, and has a size.      *)
LEMMA FoldersExist ==
    ASSUME archive \in Archives, NEW i \in Items, Item(i).folder # NoFolder
    PROVE  /\ Item(i).folder \in DOMAIN archive.folders
           /\ Folder(Item(i).folder).size \in Nat
  BY ArchivesAssumption DEF Items, Item, Folder

LEMMA IInvInit == Init => IInv
<1> SUFFICES ASSUME Init PROVE IInv
  OBVIOUS
<1>1. IndexTyped
  BY ArchivesAssumption DEF Init, IndexTyped
<1>2. CacheTyped
  BY BoundsAssumption DEF Init, CacheTyped, Places
<1>3. ASSUME NEW t \in Threads PROVE Knows(t)
  BY DEF Init, Knows, Past
<1>4. Buffer /\ Alone
  BY DEF Init, Buffer, Alone
<1> QED
  BY <1>1, <1>2, <1>3, <1>4 DEF IInv

(* push_back keeps the elements and adds one.                              *)
LEMMA Pushed ==
    ASSUME NEW s, Len(s) \in Nat, s = [k \in 1..Len(s) |-> s[k]], NEW x
    PROVE  LET t == Append(s, x)
           IN  /\ Len(t) = Len(s) + 1
               /\ t = [k \in 1..(Len(s) + 1) |-> t[k]]
               /\ \A k \in 1..Len(s) : t[k] = s[k]
               /\ t[Len(s) + 1] = x
<1> DEFINE S == {s[k] : k \in 1..Len(s)} \union {x}
<1>1. s \in [1..Len(s) -> S] /\ x \in S
  OBVIOUS
<1>2. s \in Seq(S)
  BY <1>1
<1> HIDE DEF S
<1>3. /\ Append(s, x) \in Seq(S)
      /\ Len(Append(s, x)) = Len(s) + 1
      /\ \A k \in 1..Len(s) : Append(s, x)[k] = s[k]
      /\ Append(s, x)[Len(s) + 1] = x
  BY <1>1, <1>2, AppendProperties
<1>4. \A t \in Seq(S) : t = [k \in 1..Len(t) |-> t[k]]
  OBVIOUS
<1> QED
  BY <1>3, <1>4

(* What a thread knows outlasts the steps that leave it and the cache      *)
(* alone, also if another read has failed meanwhile.                       *)
LEMMA KnowsKept ==
    ASSUME NEW t \in Threads, Knows(t), UNCHANGED <<archive, cache>>,
           pc'[t] = pc[t], extracting'[t] = extracting[t], faults' = 0 => faults = 0
    PROVE  Knows(t)'
<1>1. UNCHANGED <<archive, blockIndex, outBuffer, outBufferSize>>
  BY DEF cache
<1>2. PICK f : f = FolderOf(t)
  OBVIOUS
<1>3. PICK i : i = extracting[t]
  OBVIOUS
<1>4. FolderOf(t)' = f /\ Item(i)' = Item(i) /\ Folder(f)' = Folder(f)
  BY <1>1, <1>2 DEF FolderOf, Item, Folder
<1>5. Block(f)' = Block(f) /\ Slice(i)' = Slice(i)
  BY <1>1 DEF Block, Slice, Folder, Item
<1>6. Content(i)' = Content(i)
  BY <1>1 DEF Content, Block, Folder, Item
<1>7. pc[t] \in {"seek", "decode", "slice", "copy"} => f # NoFolder /\ blockIndex = f
  BY <1>2 DEF Knows
<1>8. pc[t] = "seek" => outBuffer = Null
  BY DEF Knows
<1>9. pc[t] \in {"decode", "slice", "copy"} => Full(f)'
  BY <1>1, <1>2, <1>4 DEF Knows, Full
<1>10. Past(t)' /\ Sound(f)' => outBuffer' = Block(f)'
  BY <1>1, <1>2, <1>4, <1>5 DEF Knows, Sound, Past
<1>11. pc[t] = "copy" /\ Item(i).crcDefined' => Slice(i)' = Content(i)'
  BY <1>3, <1>4, <1>5, <1>6 DEF Knows
<1> QED
  BY <1>1, <1>3, <1>4, <1>7, <1>8, <1>9, <1>10, <1>11 DEF Knows

(* So does what is left behind, if no thread leaves the decoder.           *)
LEMMA BufferKept ==
    ASSUME Buffer, UNCHANGED <<archive, cache>>, faults' = 0 => faults = 0,
           \A t \in Threads : pc[t] = "decode" => pc'[t] = "decode"
    PROVE  Buffer'
<1>1. UNCHANGED <<archive, blockIndex, outBuffer, outBufferSize>>
  BY DEF cache
<1>2. Block(blockIndex)' = Block(blockIndex) /\ Folder(blockIndex)' = Folder(blockIndex)
  BY <1>1 DEF Block, Folder
<1> QED
  BY <1>1, <1>2 DEF Buffer, Full, Sound

(* Only fileData and fileIndexes change.                                   *)
LEMMA AddFileDataKeeps ==
    ASSUME IInv, AddFileData
    PROVE  IInv'
<1>1. UNCHANGED <<archive, blockIndex, outBuffer, outBufferSize, pc, extracting, faults>>
  BY DEF AddFileData, cache, locals
<1>2. IndexTyped'
  <2> DEFINE n == Len(fileData)
             i == n + 1
             name == IndexName(Item(i).name)
             data == [name |-> name, index |-> i,
                      type |-> IF Item(i).isDir THEN DIRECTORY ELSE FILE]
  <2>1. /\ fileData' = Append(fileData, data)
        /\ fileIndexes' = Indexed(name, i)
        /\ n # Len(archive.items)
    BY DEF AddFileData, Built
  <2>2. /\ n \in Nat /\ n <= Len(archive.items)
        /\ fileData = [k \in 1..n |-> fileData[k]]
        /\ archive \in Archives
    BY DEF IInv, IndexTyped
  <2>3. Len(archive.items) \in Nat /\ Items = 1..Len(archive.items)
    BY <2>2, ArchivesAssumption DEF Items
  <2>4. i \in Items /\ i <= Len(archive.items)
    BY <2>1, <2>2, <2>3
  <2>5. data.index = i /\ data.type \in {DIRECTORY, FILE}
    OBVIOUS
  <2> HIDE DEF data, name
  <2>6. /\ Len(fileData') = n + 1
        /\ fileData' = [k \in 1..(n + 1) |-> fileData'[k]]
        /\ \A k \in 1..n : fileData'[k] = fileData[k]
        /\ fileData'[n + 1] = data
    BY <2>1, <2>2, Pushed
  <2>7. ASSUME NEW k \in 1..(n + 1)
        PROVE  fileData'[k].index \in Items' /\ fileData'[k].type \in {DIRECTORY, FILE}
    <3>1. Items' = Items
      BY <1>1 DEF Items
    <3>2. CASE k = n + 1
      BY <2>4, <2>5, <2>6, <3>1, <3>2
    <3>3. CASE k \in 1..n
      BY <2>6, <3>1, <3>3 DEF IInv, IndexTyped
    <3> QED
      BY <2>2, <3>2, <3>3
  <2>8. ASSUME NEW other \in DOMAIN fileIndexes' PROVE fileIndexes'[other] \in DOMAIN fileData'
    <3>1. DOMAIN fileData = 1..n /\ DOMAIN fileData' = 1..(n + 1)
      BY <2>2, <2>6
    <3>2. fileIndexes'[other] \in 1..n \union {i}
      BY <2>1, <3>1 DEF Indexed, IInv, IndexTyped
    <3> QED
      BY <2>2, <3>1, <3>2
  <2> QED
    BY <1>1, <2>2, <2>4, <2>6, <2>7, <2>8 DEF IndexTyped
<1>3. CacheTyped'
  BY <1>1 DEF IInv, CacheTyped, Items
<1>4. ASSUME NEW t \in Threads PROVE Knows(t)'
  BY <1>1, KnowsKept DEF IInv, cache
<1>5. Buffer'
  BY <1>1, BufferKept DEF IInv, cache
<1>6. Alone'
  BY <1>1 DEF IInv, Alone, Past, FolderOf, Item
<1> QED
  BY <1>2, <1>3, <1>4, <1>5, <1>6 DEF IInv

(* The calls that end as soon as they begin change nothing but the result. *)
Reading(t) ==
    /\ pc[t] = "idle"
    /\ UNCHANGED <<index, cache, faults>>
    /\ pc' = [pc EXCEPT ![t] = "idle"]
    /\ extracting' = [extracting EXCEPT ![t] = NoItem]

LEMMA NextCases ==
    ASSUME [Next]_vars
    PROVE  \/ AddFileData
           \/ \E t \in Threads : Extract(t)
           \/ \E t \in Threads : Reading(t)
           \/ \E t \in Threads, p \in EntryPaths : Open(t, p)
           \/ UNCHANGED vars
<1>1. ASSUME NEW t, NEW how, Answers(t, how) PROVE Reading(t)
  BY <1>1 DEF Answers, Ends, Reading
<1>2. ASSUME NEW t \in Threads, ReadOnly(t) PROVE Reading(t)
  BY <1>1, <1>2 DEF ReadOnly
<1>3. ASSUME NEW t \in Threads, NEW p \in EntryPaths,
             \/ NoDirectory(t, p) \/ NumChildren(t, p) \/ ListChildren(t, p)
             \/ \E arg \in Arguments : GetChild(t, p, arg)
             \/ \E mode \in SUBSET OpenMode : OpenRefused(t, p, mode)
             \/ OpenUnknown(t, p)
      PROVE  Reading(t)
  <2>1. CASE NoDirectory(t, p)
    BY <1>1, <2>1 DEF NoDirectory
  <2>2. CASE NumChildren(t, p)
    BY <1>1, <2>2 DEF NumChildren
  <2>3. CASE ListChildren(t, p)
    BY <1>1, <2>3 DEF ListChildren
  <2>4. CASE \E arg \in Arguments : GetChild(t, p, arg)
    BY <1>1, <2>4 DEF GetChild
  <2>5. CASE \E mode \in SUBSET OpenMode : OpenRefused(t, p, mode)
    BY <1>1, <2>5 DEF OpenRefused
  <2>6. CASE OpenUnknown(t, p)
    BY <1>1, <2>6 DEF OpenUnknown
  <2> QED
    BY <1>3, <2>1, <2>2, <2>3, <2>4, <2>5, <2>6
<1> QED
  BY <1>2, <1>3 DEF Next

LEMMA ReadingKeeps ==
    ASSUME IInv, NEW t \in Threads, Reading(t)
    PROVE  IInv'
<1>1. /\ UNCHANGED <<archive, fileData, fileIndexes, blockIndex, outBuffer,
                     outBufferSize, faults, pc>>
      /\ extracting' \in [Threads -> Items \union {NoItem}]
      /\ \A u \in Threads : pc[u] # "idle" => extracting'[u] = extracting[u]
  BY DEF Reading, index, cache, IInv, CacheTyped
<1>2. IndexTyped' /\ CacheTyped'
  BY <1>1 DEF IInv, IndexTyped, CacheTyped, Items
<1>3. ASSUME NEW u \in Threads PROVE Knows(u)'
  <2>1. CASE pc[u] = "idle"
    BY <1>1, <2>1 DEF Knows, Past
  <2>2. CASE pc[u] # "idle"
    BY <1>1, <2>2, KnowsKept DEF IInv, cache
  <2> QED
    BY <2>1, <2>2
<1>4. Buffer'
  BY <1>1, BufferKept DEF IInv, cache
<1>5. Alone'
  BY <1>1 DEF IInv, Alone, Past, FolderOf, Item
<1> QED
  BY <1>2, <1>3, <1>4, <1>5 DEF IInv

LEMMA OpenKeeps ==
    ASSUME IInv, NEW t \in Threads, NEW p \in EntryPaths, Open(t, p)
    PROVE  IInv'
<1> DEFINE i == GetFileData(BasePath(p)).index
<1>1. /\ UNCHANGED <<archive, fileData, fileIndexes, blockIndex, outBuffer,
                     outBufferSize, faults>>
      /\ pc[t] = "idle" /\ pc' = [pc EXCEPT ![t] = "extract"]
      /\ extracting' = [extracting EXCEPT ![t] = i]
      /\ MayExtract(t, i)
  BY DEF Open, index, cache
<1>2. i \in Items
  <2>1. Known(BasePath(p)) \/ BasePath(p) = << >>
    BY DEF Open, GetEntryType, UNKNOWN, FILE
  <2>2. Known(BasePath(p))
    BY <2>1 DEF Open, GetEntryType, DIRECTORY, FILE, UNKNOWN
  <2> QED
    BY <2>2 DEF Known, GetFileData, IInv, IndexTyped
<1> HIDE DEF i
<1>3. /\ pc' \in [Threads -> Places] /\ pc'[t] = "extract"
      /\ extracting' \in [Threads -> Items \union {NoItem}] /\ extracting'[t] = i
      /\ \A u \in Threads \ {t} : pc'[u] = pc[u] /\ extracting'[u] = extracting[u]
  BY <1>1, <1>2 DEF IInv, CacheTyped, Places
<1>4. IndexTyped' /\ CacheTyped'
  BY <1>1, <1>2, <1>3 DEF IInv, IndexTyped, CacheTyped, Items
<1>5. ASSUME NEW u \in Threads PROVE Knows(u)'
  <2>1. CASE u = t
    BY <1>3, <2>1 DEF Knows, Past
  <2>2. CASE u # t
    BY <1>1, <1>3, <2>2, KnowsKept DEF IInv, cache
  <2> QED
    BY <2>1, <2>2
<1>6. Buffer'
  <2>1. \A u \in Threads : pc[u] = "decode" => pc'[u] = "decode"
    BY <1>1, <1>3
  <2> QED
    BY <1>1, <2>1, BufferKept DEF IInv, cache
<1>7. Alone'
  BY <1>1, <1>3 DEF IInv, Alone, MayExtract, Past, FolderOf, Item
<1> QED
  BY <1>4, <1>5, <1>6, <1>7 DEF IInv

-----------------------------------------------------------------------------
(***************************************************************************)
(* The steps of SzArEx_Extract.                                            *)
(***************************************************************************)
(* What the invariant says of the block that thread t is about.            *)
LEMMA BlockOf ==
    ASSUME IInv, NEW t \in Threads, pc[t] # "idle", FolderOf(t) # NoFolder
    PROVE  /\ FolderOf(t) \in DOMAIN archive.folders
           /\ Folder(FolderOf(t)).size \in Nat
  BY FoldersExist DEF IInv, IndexTyped, CacheTyped, FolderOf

(* An empty buffer is full only for an empty block.                        *)
LEMMA EmptyIfNull ==
    ASSUME NEW f, Full(f), outBuffer = Null, outBufferSize \in Nat
    PROVE  outBufferSize = 0
  BY DEF Full, Null

(* While another call is under way thread t finds nothing to change in the *)
(* cache: it is past it, or fills the empty buffer of an empty block.      *)
LEMMA OthersKeepTheCache ==
    ASSUME IInv, NEW t \in Threads, Extract(t),
           NEW u \in Threads, u # t, pc[u] # "idle"
    PROVE  UNCHANGED cache
<1>1. /\ pc[t] # "idle" => FolderOf(t) = FolderOf(u) /\ (Past(t) \/ Past(u))
      /\ Past(u) /\ pc[t] \in {"seek", "decode"} => outBuffer = Null
  BY DEF IInv, Alone
<1>2. /\ Past(u) => FolderOf(u) # NoFolder /\ blockIndex = FolderOf(u) /\ Full(FolderOf(u))
      /\ outBufferSize \in Nat
  BY DEF IInv, Knows, Past, CacheTyped
<1>3. CASE SliceFails(t) \/ SliceDone(t) \/ Copy(t)
  BY <1>3 DEF SliceFails, SliceDone, Copy
<1>4. CASE ExtractEmpty(t)
  BY <1>1, <1>2, <1>4 DEF ExtractEmpty, Past
<1>5. CASE ExtractCached(t)
  BY <1>5 DEF ExtractCached
<1>6. CASE ExtractBlock(t)
  BY <1>1, <1>2, <1>6 DEF ExtractBlock, NotCached, DroppedBuffer, cache, Past
<1>7. CASE SeekFails(t)
  BY <1>7 DEF SeekFails
<1>8. ASSUME pc[t] \in {"seek", "decode"}
      PROVE  /\ outBuffer = Null /\ outBufferSize = 0 /\ Folder(FolderOf(t)).size = 0
  BY <1>1, <1>2, <1>8, EmptyIfNull DEF Past, Full
<1>9. CASE AllocFails(t)
  BY <1>8, <1>9 DEF AllocFails
<1>10. CASE Seek(t)
  BY <1>8, <1>10 DEF Seek, BufferSize, Null, cache
<1>11. CASE DecodeFails(t)
  BY <1>8, <1>11 DEF DecodeFails, Partly, Null, cache
<1>12. CASE Decode(t)
  BY <1>8, <1>12 DEF Decode, Block, Null, cache
<1> QED
  BY <1>3, <1>4, <1>5, <1>6, <1>7, <1>9, <1>10, <1>11, <1>12 DEF Extract

(* What every step of thread t has in common.                              *)
LEMMA ExtractSteps ==
    ASSUME IInv, NEW t \in Threads, Extract(t)
    PROVE  /\ UNCHANGED index
           /\ pc[t] # "idle" /\ extracting[t] \in Items
           /\ faults' \in 0..MaxFaults /\ faults <= faults'
           /\ \/ /\ UNCHANGED extracting
                 /\ \/ pc[t] = "extract" /\ pc' = [pc EXCEPT ![t] = "slice"]
                    \/ pc[t] = "extract" /\ pc' = [pc EXCEPT ![t] = "seek"]
                    \/ pc[t] = "seek" /\ pc' = [pc EXCEPT ![t] = "decode"]
                    \/ pc[t] = "decode" /\ pc' = [pc EXCEPT ![t] = "slice"]
                    \/ pc[t] = "slice" /\ pc' = [pc EXCEPT ![t] = "copy"]
              \/ /\ extracting' = [extracting EXCEPT ![t] = NoItem]
                 /\ pc' = [pc EXCEPT ![t] = "idle"]
<1> DEFINE Same == faults' \in 0..MaxFaults /\ faults <= faults'
<1>1. UNCHANGED faults \/ Fault => Same
  BY BoundsAssumption DEF IInv, CacheTyped, Fault
<1>2. pc[t] # "idle" => extracting[t] \in Items
  BY DEF IInv, CacheTyped
<1> HIDE DEF Same
<1>3. CASE ExtractEmpty(t) \/ ExtractCached(t) \/ ExtractBlock(t)
  BY <1>1, <1>2, <1>3 DEF ExtractEmpty, ExtractCached, ExtractBlock, Goto, Ends, Same
<1>4. CASE SeekFails(t) \/ AllocFails(t) \/ Seek(t)
  BY <1>1, <1>2, <1>4 DEF SeekFails, AllocFails, Seek, Goto, Fails, Ends, Same
<1>5. CASE DecodeFails(t)
  BY <1>1, <1>2, <1>5 DEF DecodeFails, Fails, Ends, Same
<1>6. CASE Decode(t)
  BY <1>1, <1>2, <1>6 DEF Decode, Goto, Fails, Ends, Same
<1>7. CASE SliceFails(t) \/ SliceDone(t) \/ Copy(t)
  BY <1>1, <1>2, <1>7 DEF SliceFails, SliceDone, Copy, Goto, Fails, Ends, Same
<1> QED
  BY <1>3, <1>4, <1>5, <1>6, <1>7 DEF Extract

LEMMA IndexStep ==
    ASSUME IInv, NEW t \in Threads, Extract(t)
    PROVE  IndexTyped'
  BY ExtractSteps DEF IInv, IndexTyped, index, Items

LEMMA CacheStep ==
    ASSUME IInv, NEW t \in Threads, Extract(t)
    PROVE  CacheTyped'
<1>1. archive' = archive /\ Items' = Items
  BY ExtractSteps DEF index, Items
<1>2. /\ pc' \in [Threads -> Places]
      /\ extracting' \in [Threads -> Items \union {NoItem}]
      /\ \A u \in Threads : pc'[u] # "idle" => extracting'[u] \in Items
      /\ faults' \in 0..MaxFaults
  BY ExtractSteps DEF IInv, CacheTyped, Places
<1>3. pc[t] # "idle" /\ extracting[t] \in Items /\ archive \in Archives
  BY ExtractSteps DEF IInv, IndexTyped
<1>4. FolderOf(t) \in {NoFolder} \union DOMAIN archive.folders
  BY <1>3, FoldersExist DEF FolderOf
<1>5. FolderOf(t) # NoFolder => Folder(FolderOf(t)).size \in Nat
  BY <1>3, BlockOf
<1>6. pc[t] \in {"seek", "decode", "slice", "copy"} => FolderOf(t) # NoFolder
  BY DEF IInv, Knows
<1>7. blockIndex' \in {NoFolder} \union DOMAIN archive.folders /\ outBufferSize' \in Nat
  <2>1. UNCHANGED blockIndex \/ blockIndex' = NoFolder \/ blockIndex' = FolderOf(t)
    BY DEF Extract, ExtractEmpty, ExtractCached, ExtractBlock, SeekFails, AllocFails, Seek,
           DecodeFails, Decode, SliceFails, SliceDone, Copy, cache
  <2>2. \/ UNCHANGED outBufferSize
        \/ outBufferSize' = 0
        \/ pc[t] = "seek" /\ outBufferSize' = Folder(FolderOf(t)).size
    BY DEF Extract, ExtractEmpty, ExtractCached, ExtractBlock, SeekFails, AllocFails, Seek,
           DecodeFails, Decode, SliceFails, SliceDone, Copy, cache, BufferSize
  <2> QED
    BY <1>4, <1>5, <1>6, <2>1, <2>2 DEF IInv, CacheTyped
<1> QED
  BY <1>1, <1>2, <1>7 DEF CacheTyped

(* What the others know they know still.                                   *)
LEMMA OthersKnow ==
    ASSUME IInv, NEW t \in Threads, Extract(t), NEW u \in Threads, u # t
    PROVE  Knows(u)'
<1>1. pc'[u] = pc[u] /\ extracting'[u] = extracting[u]
  BY ExtractSteps DEF IInv, CacheTyped
<1>2. CASE pc[u] = "idle"
  BY <1>1, <1>2 DEF Knows, Past
<1>3. CASE pc[u] # "idle"
  <2>1. UNCHANGED <<archive, cache>>
    BY <1>3, OthersKeepTheCache, ExtractSteps DEF index
  <2>2. faults' = 0 => faults = 0
    BY ExtractSteps DEF IInv, CacheTyped
  <2> QED
    BY <1>1, <2>1, <2>2, KnowsKept DEF IInv
<1> QED
  BY <1>2, <1>3

LEMMA AloneStep ==
    ASSUME IInv, NEW t \in Threads, Extract(t)
    PROVE  Alone'
<1>1. /\ archive' = archive
      /\ \A u \in Threads \ {t} : pc'[u] = pc[u] /\ extracting'[u] = extracting[u]
      /\ pc'[t] # "idle" => extracting'[t] = extracting[t]
      /\ Past(t) /\ pc'[t] # "idle" => pc'[t] \in {"slice", "copy"}
      /\ pc[t] # "idle"
  BY ExtractSteps DEF IInv, CacheTyped, index, Past
<1>2. ASSUME NEW u \in Threads, u # t, pc'[t] # "idle", pc[u] # "idle"
      PROVE  /\ FolderOf(t)' = FolderOf(u)'
             /\ Past(t)' \/ Past(u)'
             /\ Past(t)' /\ pc'[u] \in {"seek", "decode"} => outBuffer' = Null
             /\ Past(u)' /\ pc'[t] \in {"seek", "decode"} => outBuffer' = Null
  <2>1. UNCHANGED outBuffer /\ UNCHANGED outBufferSize
    BY <1>2, OthersKeepTheCache DEF cache
  <2>2. FolderOf(t) = FolderOf(u) /\ (Past(t) \/ Past(u))
    BY <1>1, <1>2 DEF IInv, Alone
  <2>3. FolderOf(t)' = FolderOf(u)'
    BY <1>1, <1>2, <2>2 DEF FolderOf, Item
  <2>4. Past(t)' \/ Past(u)'
    BY <1>1, <1>2, <2>2 DEF Past
  <2>5. Past(t)' /\ pc'[u] \in {"seek", "decode"} => outBuffer' = Null
    BY <1>1, <1>2, <2>1, <2>2 DEF Past, IInv, Alone
  <2>6. Past(u)' /\ pc'[t] \in {"seek", "decode"} => outBuffer' = Null
    <3>1. CASE pc[t] \in {"seek", "decode"}
      BY <1>1, <1>2, <2>1, <3>1 DEF Past, IInv, Alone
    <3>2. CASE ExtractBlock(t)
      BY <3>2 DEF ExtractBlock, DroppedBuffer
    <3>3. CASE pc[t] \notin {"seek", "decode"} /\ ~ExtractBlock(t)
      <4>1. pc'[t] \notin {"seek", "decode"}
        BY <3>3 DEF Extract, ExtractEmpty, ExtractCached, SeekFails, AllocFails, Seek,
                    DecodeFails, Decode, SliceFails, SliceDone, Copy, Goto, Fails, Ends,
                    IInv, CacheTyped
      <4> QED
        BY <4>1
    <3> QED
      BY <3>1, <3>2, <3>3
  <2> QED
    BY <2>3, <2>4, <2>5, <2>6
<1>3. ASSUME NEW u \in Threads, NEW v \in Threads, u # v, u # t, v # t,
             pc[u] # "idle", pc[v] # "idle"
      PROVE  /\ FolderOf(u)' = FolderOf(v)'
             /\ Past(u)' \/ Past(v)'
             /\ Past(u)' /\ pc'[v] \in {"seek", "decode"} => outBuffer' = Null
  <2>1. UNCHANGED outBuffer
    BY <1>3, OthersKeepTheCache DEF cache
  <2>2. /\ FolderOf(u) = FolderOf(v)
        /\ Past(u) \/ Past(v)
        /\ Past(u) /\ pc[v] \in {"seek", "decode"} => outBuffer = Null
    BY <1>3 DEF IInv, Alone
  <2> QED
    BY <1>1, <1>3, <2>1, <2>2 DEF FolderOf, Item, Past
<1> QED
  BY <1>1, <1>2, <1>3 DEF Alone

(* What thread t knows after its own step, and what it leaves behind.      *)
LEMMA OwnStep ==
    ASSUME IInv, NEW t \in Threads, Extract(t)
    PROVE  Knows(t)' /\ Buffer'
<1>1. PICK f : f = FolderOf(t)
  OBVIOUS
<1>2. PICK i : i = extracting[t]
  OBVIOUS
<1>3. /\ UNCHANGED archive /\ pc[t] # "idle" /\ i \in Items /\ f = Item(i).folder
      /\ \A u \in Threads \ {t} : pc'[u] = pc[u]
      /\ pc'[t] # "idle" => extracting'[t] = i
      /\ outBufferSize \in Nat /\ faults \in Nat /\ (faults' = 0 => faults = 0)
      /\ pc \in [Threads -> Places]
  BY <1>1, <1>2, ExtractSteps DEF IInv, CacheTyped, index, FolderOf
<1>4. /\ Folder(f)' = Folder(f) /\ Item(i)' = Item(i)
      /\ Block(f)' = Block(f) /\ Content(i)' = Content(i)
      /\ pc'[t] # "idle" => FolderOf(t)' = f
  BY <1>1, <1>3 DEF Folder, Item, Block, Content, FolderOf
<1>5. f # NoFolder => Folder(f).size \in Nat
  BY <1>1, <1>3, BlockOf
<1>6. Knows(t) /\ Buffer
  BY DEF IInv
<1>7. CASE ExtractEmpty(t)
  <2>1. outBuffer' = Null /\ pc'[t] = "idle"
    BY <1>3, <1>7 DEF ExtractEmpty, Ends
  <2> QED
    BY <2>1 DEF Knows, Past, Buffer
<1>8. CASE ExtractCached(t)
  <2>1. /\ f # NoFolder /\ outBuffer # Null /\ blockIndex = f
        /\ pc[t] = "extract" /\ pc' = [pc EXCEPT ![t] = "slice"]
        /\ UNCHANGED <<archive, blockIndex, outBuffer, outBufferSize, faults>>
    BY <1>1, <1>8 DEF ExtractCached, NotCached, Goto, index, cache
  <2>2. pc'[t] = "slice"
    BY <1>3, <2>1
  <2>3. Full(f) /\ Full(f)'
    BY <1>4, <1>6, <2>1 DEF Buffer, Full
  <2>4. Buffer'
    <3>1. \A u \in Threads : pc[u] = "decode" => pc'[u] = "decode"
      BY <1>3, <2>1
    <3> QED
      BY <1>6, <2>1, <3>1, BufferKept DEF cache
  <2>5. (\A u \in Threads : pc[u] # "decode")
    <3>1. ASSUME NEW u \in Threads \ {t}, pc[u] = "decode" PROVE FALSE
      BY <2>1, <3>1 DEF IInv, Alone, Past
    <3> QED
      BY <2>1, <3>1
  <2>6. Sound(f)' => outBuffer' = Block(f)'
    BY <1>4, <1>6, <2>1, <2>5 DEF Buffer, Sound
  <2> QED
    BY <1>4, <2>1, <2>2, <2>3, <2>4, <2>6 DEF Knows, Past
<1>9. CASE ExtractBlock(t)
  <2>1. /\ f # NoFolder /\ blockIndex' = f /\ outBuffer' = Null /\ pc'[t] = "seek"
    BY <1>1, <1>3, <1>9 DEF ExtractBlock, Goto, DroppedBuffer
  <2> QED
    BY <1>4, <2>1 DEF Knows, Past, Buffer
<1>10. CASE SeekFails(t) \/ AllocFails(t)
  <2>1. /\ pc'[t] = "idle" /\ outBuffer' = outBuffer /\ outBuffer = Null
    BY <1>3, <1>6, <1>10 DEF SeekFails, AllocFails, Fails, Ends, cache, Knows
  <2> QED
    BY <2>1 DEF Knows, Past, Buffer
<1>11. CASE Seek(t)
  <2>1. /\ outBufferSize' = Folder(f).size
        /\ outBuffer' = [k \in 1..Folder(f).size |-> Garbage]
        /\ blockIndex' = blockIndex /\ blockIndex = f /\ f # NoFolder
        /\ pc'[t] = "decode"
    BY <1>1, <1>3, <1>6, <1>11 DEF Seek, BufferSize, Goto, Knows
  <2>2. Full(f)'
    BY <1>4, <2>1 DEF Full
  <2> QED
    BY <1>4, <2>1, <2>2 DEF Knows, Past, Buffer
<1>12. CASE DecodeFails(t)
  <2>1. /\ outBuffer' \in Partly(f) /\ blockIndex' = blockIndex
        /\ outBufferSize' = outBufferSize /\ pc'[t] = "idle"
        /\ Folder(f).damaged \/ faults' # 0
        /\ blockIndex = f /\ f # NoFolder /\ outBufferSize = Folder(f).size
    BY <1>1, <1>3, <1>6, <1>12 DEF DecodeFails, Fails, Ends, Fault, Knows, Full
  <2>2. PICK n \in 0..Folder(f).size :
            outBuffer' = [k \in 1..Folder(f).size |-> IF k <= n THEN <<f, k>> ELSE Garbage]
    BY <2>1 DEF Partly
  <2>3. Full(f)'
    BY <1>4, <2>1, <2>2 DEF Full
  <2>4. ~Sound(f)'
    BY <1>4, <2>1 DEF Sound
  <2> QED
    BY <2>1, <2>3, <2>4 DEF Knows, Past, Buffer
<1>13. CASE Decode(t)
  <2>1. PICK bytes \in {Block(f)} \union
                        (IF Folder(f).damaged
                         THEN {[k \in 1..Folder(f).size |-> Garbage]} ELSE {}) :
            outBuffer' = bytes
    BY <1>1, <1>13 DEF Decode
  <2>2. /\ blockIndex' = blockIndex /\ outBufferSize' = outBufferSize
        /\ blockIndex = f /\ f # NoFolder /\ outBufferSize = Folder(f).size
        /\ pc'[t] \in {"idle", "slice"} /\ faults' = faults
    BY <1>1, <1>3, <1>6, <1>13 DEF Decode, Fails, Ends, Goto, Knows, Full
  <2>3. Full(f)'
    BY <1>4, <2>1, <2>2 DEF Full, Block
  <2>4. Sound(f)' => outBuffer' = Block(f)'
    BY <1>4, <2>1 DEF Sound
  <2> QED
    BY <1>4, <2>2, <2>3, <2>4 DEF Knows, Past, Buffer
<1>14. CASE SliceFails(t) \/ SliceDone(t) \/ Copy(t)
  <2>1. /\ UNCHANGED <<archive, cache, faults>> /\ pc'[t] \in {"idle", "copy"} /\ pc[t] # "decode"
        /\ pc'[t] = "copy" => pc[t] = "slice" /\ ~CrcDiffers(i)
    BY <1>2, <1>3, <1>14 DEF SliceFails, SliceDone, Copy, Fails, Ends, Goto, index
  <2>2. Buffer'
    <3>1. \A u \in Threads : pc[u] = "decode" => pc'[u] = "decode"
      BY <1>3, <2>1
    <3> QED
      BY <1>6, <2>1, <3>1, BufferKept
  <2>3. CASE pc'[t] = "idle"
    BY <2>2, <2>3 DEF Knows, Past
  <2>4. CASE pc'[t] = "copy"
    <3>1. blockIndex = f /\ f # NoFolder /\ Full(f) /\ (Sound(f) => outBuffer = Block(f))
      BY <1>1, <1>6, <2>1, <2>4 DEF Knows, Past
    <3>2. Full(f)' /\ (Sound(f)' => outBuffer' = Block(f)')
      BY <1>4, <2>1, <3>1 DEF Full, Sound, cache
    <3>3. Slice(i)' = Slice(i)
      BY <2>1 DEF Slice, Item, cache
    <3>4. Item(i).crcDefined => Slice(i) = Content(i)
      BY <2>1, <2>4 DEF CrcDiffers
    <3>5. blockIndex' = f /\ extracting'[t] = i /\ FolderOf(t)' = f
      BY <1>3, <1>4, <2>1, <2>4, <3>1 DEF cache
    <3> QED
      BY <1>4, <2>2, <2>4, <3>1, <3>2, <3>3, <3>4, <3>5 DEF Knows, Past
  <2> QED
    BY <2>1, <2>3, <2>4
<1> QED
  BY <1>7, <1>8, <1>9, <1>10, <1>11, <1>12, <1>13, <1>14 DEF Extract

LEMMA IInvStep ==
    ASSUME IInv, [Next]_vars
    PROVE  IInv'
<1>1. ASSUME NEW t \in Threads, Extract(t) PROVE IInv'
  <2>1. IndexTyped' /\ CacheTyped' /\ Buffer' /\ Alone'
    BY <1>1, IndexStep, CacheStep, OwnStep, AloneStep
  <2>2. \A u \in Threads : Knows(u)'
    BY <1>1, OwnStep, OthersKnow
  <2> QED
    BY <2>1, <2>2 DEF IInv
<1>2. CASE UNCHANGED vars
  <2>1. /\ UNCHANGED <<archive, fileData, fileIndexes, blockIndex, outBuffer, outBufferSize>>
        /\ UNCHANGED <<pc, extracting, faults>>
    BY <1>2 DEF vars, index, cache, locals
  <2>2. IndexTyped' /\ CacheTyped'
    BY <2>1 DEF IInv, IndexTyped, CacheTyped, Items
  <2>3. \A u \in Threads : Knows(u)'
    BY <2>1, KnowsKept DEF IInv, cache
  <2>4. Buffer'
    BY <2>1, BufferKept DEF IInv, cache
  <2>5. Alone'
    BY <2>1 DEF IInv, Alone, Past, FolderOf, Item
  <2> QED
    BY <2>2, <2>3, <2>4, <2>5 DEF IInv
<1> QED
  BY <1>1, <1>2, NextCases, AddFileDataKeeps, ReadingKeeps, OpenKeeps

(* The whole of the protocol of the block cache holds at all times.        *)
THEOREM Invariance == Spec => []IInv
  BY IInvInit, IInvStep, PTL DEF Spec

-----------------------------------------------------------------------------
(***************************************************************************)
(* The names of the index.                                                 *)
(***************************************************************************)
(* What the folds of the model do with one element.                        *)
Cut(par, parts, c) ==
    IF c = Separator THEN Append(parts, << >>)
    ELSE [parts EXCEPT ![Len(parts)] = Append(@, c)]

ListStep(p, listed, data) ==
    IF IsChild(BasePath(p), data.name) THEN Append(listed, data) ELSE listed

Words == INSTANCE Strings_proofs WITH Op <- Cut
Lists == INSTANCE Strings_proofs WITH Op <- ListStep

Letters  == STRING \union {NUL}
Plain(s) == \A i \in 1..Len(s) : s[i] # Separator
Trimmed(s, chars) == s # << >> => s[1] \notin chars /\ s[Len(s)] \notin chars

LEMMA TrimTrims ==
    ASSUME NEW s \in Seq(Letters), NEW chars
    PROVE  TrimIf(s, chars) \in Seq(Letters) /\ Trimmed(TrimIf(s, chars), chars)
<1>1. TrimIf(s, chars) = Words!TrimIf(s, chars)
  BY DEF TrimIf, Words!TrimIf, Min, Max, Words!Min, Words!Max
<1> QED
  BY <1>1, Words!TrimTrims DEF Trimmed, Words!Trimmed

(* Nothing stands before a name's first separator but a component.         *)
Named(name) == name \in Seq(Letters) /\ (name # << >> => name[1] # Separator)

LEMMA IndexNameIsNamed ==
    ASSUME NEW name \in Seq(STRING)
    PROVE  Named(IndexName(name))
<1> DEFINE s == Append(name, NUL)
           u == TrimIf(s, {Space})
           t == TrimIf(u, {Separator})
<1>1. s \in Seq(Letters)
  <2>1. name \in Seq(Letters) /\ NUL \in Letters
    BY DEF Letters
  <2> QED
    BY <2>1
<1> HIDE DEF s
<1>2. u \in Seq(Letters)
  BY <1>1, TrimTrims
<1> HIDE DEF u
<1>3. t \in Seq(Letters) /\ Trimmed(t, {Separator})
  BY <1>2, TrimTrims
<1>4. IndexName(name) = IF Last(t) = NUL THEN Front(t) ELSE t
  BY DEF IndexName, NormalizePath, s, u
<1> HIDE DEF t
<1>5. t # << >> => t[1] # Separator
  BY <1>3 DEF Trimmed
<1>6. CASE IndexName(name) = t
  BY <1>3, <1>5, <1>6 DEF Named
<1>7. CASE IndexName(name) = Front(t)
  <2>0. Len(t) \in Nat
    BY <1>3
  <2>1. CASE Len(t) = 0 \/ Len(t) = 1
    <3>1. \A n : n = 0 \/ n = 1 => SubSeq(t, 1, n - 1) = << >>
      BY <1>3
    <3>2. Front(t) = << >>
      BY <2>1, <3>1 DEF Front
    <3>3. << >> \in Seq(Letters)
      OBVIOUS
    <3> QED
      BY <1>7, <3>2, <3>3 DEF Named
  <2>2. CASE Len(t) # 0 /\ Len(t) # 1
    <3>1. Len(t) - 1 \in 1..Len(t)
      <4>1. \A m \in Nat : m # 0 /\ m # 1 => m - 1 \in 1..m
        OBVIOUS
      <4> QED
        BY <2>0, <2>2, <4>1
    <3>2. Front(t) \in Seq(Letters) /\ Front(t)[1] = t[1]
      BY <1>3, <3>1 DEF Front
    <3>3. t # << >>
      BY <2>2
    <3> QED
      BY <1>5, <1>7, <3>2, <3>3 DEF Named
  <2> QED
    BY <2>1, <2>2
<1> QED
  BY <1>4, <1>6, <1>7

LEMMA LastSlashIs ==
    ASSUME NEW name \in Seq(Letters)
    PROVE  \/ LastSlash(name) = 0 /\ Plain(name)
           \/ /\ LastSlash(name) \in 1..Len(name)
              /\ name[LastSlash(name)] = Separator
              /\ \A i \in 1..Len(name) : i > LastSlash(name) => name[i] # Separator
<1> DEFINE slashes == {i \in DOMAIN name : name[i] = Separator}
<1>1. Len(name) \in Nat /\ DOMAIN name = 1..Len(name)
  OBVIOUS
<1>2. CASE slashes = {}
  BY <1>1, <1>2 DEF LastSlash, Plain
<1>3. CASE slashes # {}
  <2>1. LastSlash(name) = Max(slashes)
    BY <1>3 DEF LastSlash
  <2>2. slashes \in SUBSET (1..Len(name))
    BY <1>1
  <2>3. \A i \in 1..Len(name) : name[i] = Separator => i \in slashes
    BY <1>1
  <2>4. \A i \in slashes : name[i] = Separator
    OBVIOUS
  <2> HIDE DEF slashes
  <2>5. Max(slashes) = Words!Max(slashes)
    BY DEF Max, Words!Max
  <2>6. Max(slashes) \in slashes /\ \A i \in slashes : i <= Max(slashes)
    BY <1>1, <1>3, <2>2, <2>5, Words!MaxIs
  <2>7. Max(slashes) \in 1..Len(name) /\ Max(slashes) \in Nat
    <3>1. \A i \in slashes : i \in 1..Len(name)
      BY <2>2
    <3> QED
      BY <2>6, <3>1
  <2>8. \A i \in 1..Len(name) : i > Max(slashes) => name[i] # Separator
    BY <2>3, <2>6, <2>7
  <2> QED
    BY <2>1, <2>2, <2>4, <2>6, <2>8
<1> QED
  BY <1>2, <1>3

(* Components, by the facts about strings.                                 *)
LEMMA CutsAtSeparators ==
    /\ Words!Cuts
    /\ \A s : Components(s) = Words!Parts(s)
    /\ \A s : Plain(s) <=> Words!Plain(s)
    /\ Separator = Words!Separator
<1>1. Separator = Words!Separator
  BY DEF Separator, Words!Separator
<1>2. Words!Cuts
  BY <1>1 DEF Words!Cuts, Words!WordStep, Cut
<1>3. ASSUME NEW s PROVE Components(s) = Words!Parts(s)
  BY DEF Components, Words!Parts, Words!Fold, Cut, FoldLeft, MapThenFoldSet,
         Words!FoldLeft, Words!MapThenFoldSet, Max, Words!Max
<1>4. ASSUME NEW s PROVE Plain(s) <=> Words!Plain(s)
  BY <1>1 DEF Plain, Words!Plain
<1> QED
  BY <1>1, <1>2, <1>3, <1>4

LEMMA ComponentsAre ==
    ASSUME NEW s \in Seq(Letters)
    PROVE  /\ Components(s) \in Seq(Seq(Letters)) /\ Len(Components(s)) # 0
           /\ Plain(s) => Components(s) = <<s>>
  BY CutsAtSeparators, Words!PartsAre

LEMMA ComponentsTell ==
    ASSUME NEW s \in Seq(Letters), NEW t \in Seq(Letters), Components(s) = Components(t)
    PROVE  s = t
  BY CutsAtSeparators, Words!PartsTell

(* Where a name stands: the directory's components, and its own.           *)
LEMMA LevelIs ==
    ASSUME NEW name, Named(name), name # << >>
    PROVE  LET p == LastSlash(name)
           IN  /\ p = 0 => Front(Level(name)) = << >> /\ Last(Level(name)) = name
               /\ p # 0 =>
                    /\ p \in 2..Len(name) /\ name[p] = Separator
                    /\ Front(Level(name)) = Components(SubSeq(name, 1, p - 1))
                    /\ Last(Level(name)) = SubSeq(name, p + 1, Len(name))
                    /\ Plain(SubSeq(name, p + 1, Len(name)))
<1> DEFINE p == LastSlash(name)
<1>1. name \in Seq(Letters) /\ Level(name) = Components(name) /\ name[1] # Separator
  BY DEF Named, Level
<1>2. CASE p = 0
  <2>1. Components(name) = <<name>>
    BY <1>1, <1>2, LastSlashIs, ComponentsAre
  <2>2. Front(<<name>>) = << >> /\ Last(<<name>>) = name
    BY DEF Front, Last
  <2> QED
    BY <1>1, <1>2, <2>1, <2>2
<1>3. CASE p # 0
  <2>1. /\ p \in 1..Len(name) /\ name[p] = Separator
        /\ \A i \in 1..Len(name) : i > p => name[i] # Separator
    BY <1>1, <1>3, LastSlashIs
  <2>2. p \in 2..Len(name)
    BY <1>1, <2>1
  <2> DEFINE q == SubSeq(name, 1, p - 1)
             rest == SubSeq(name, p + 1, Len(name))
  <2> HIDE DEF p
  <2>3. Components(name) = Append(Components(q), rest)
    BY <1>1, <2>1, CutsAtSeparators, Words!PartsBehind
  <2>4. q \in Seq(Letters) /\ rest \in Seq(Letters)
    BY <1>1, <2>1
  <2>5. Components(q) \in Seq(Seq(Letters))
    BY <2>4, ComponentsAre
  <2>6. Plain(rest)
    <3>1. Len(rest) = Len(name) - p /\ \A i \in 1..Len(rest) : rest[i] = name[p + i]
      BY <1>1, <2>1
    <3>2. \A i \in 1..Len(rest) : p + i \in 1..Len(name) /\ p + i > p
      BY <1>1, <2>1, <3>1
    <3> QED
      BY <2>1, <3>1, <3>2 DEF Plain
  <2>7. ASSUME NEW a \in Seq(Seq(Letters)), NEW b \in Seq(Letters)
        PROVE  Front(Append(a, b)) = a /\ Last(Append(a, b)) = b
    BY <2>7 DEF Front, Last
  <2> HIDE DEF q, rest
  <2>8. Front(Components(name)) = Components(q) /\ Last(Components(name)) = rest
    BY <2>3, <2>4, <2>5, <2>7
  <2> QED
    BY <1>1, <1>3, <2>1, <2>2, <2>6, <2>8 DEF p, q, rest
<1> QED
  BY <1>2, <1>3

(* The prefix test and the last separator tell a directory's children.     *)
LEMMA ChildIs ==
    ASSUME NEW name, Named(name), name # << >>, NEW path, path \in Seq(Letters)
    PROVE  IsChild(path, name) <=> Front(Level(name)) = Level(path)
<1> DEFINE p == LastSlash(name)
           q == SubSeq(name, 1, p - 1)
<1>1. name \in Seq(Letters) /\ Len(name) \in Nat /\ Len(path) \in Nat
  BY DEF Named
<1>2. StartsWith(name, path) <=> Len(path) <= Len(name) /\ path = SubSeq(name, 1, Len(path))
  <2>1. SubSeq(path, 1, Len(path)) = path
    OBVIOUS
  <2> QED
    BY <2>1 DEF StartsWith, IsPrefix
<1>3. path # << >> => Level(path) = Components(path) /\ Len(Components(path)) # 0
  BY ComponentsAre DEF Level
<1>4. Len(<< >>) = 0 /\ Level(<< >>) = << >>
  BY DEF Level
<1>5. CASE p = 0
  <2>1. IsChild(path, name) <=> path = << >>
    <3>1. SubSeq(name, 1, 0) = << >>
      BY <1>1
    <3> QED
      BY <1>1, <1>2, <1>4, <1>5, <3>1 DEF IsChild
  <2>2. Front(Level(name)) = << >>
    BY <1>5, LevelIs
  <2>3. Level(path) = << >> <=> path = << >>
    BY <1>3, <1>4
  <2> QED
    BY <2>1, <2>2, <2>3
<1>6. CASE p # 0
  <2>1. p \in 2..Len(name) /\ Front(Level(name)) = Components(q)
    BY <1>6, LevelIs
  <2> HIDE DEF p
  <2>2. q \in Seq(Letters) /\ Len(q) = p - 1 /\ q # << >>
    <3>1. q \in Seq(Letters) /\ Len(q) = p - 1
      BY <1>1, <2>1
    <3> QED
      BY <1>4, <2>1, <3>1
  <2>3. IsChild(path, name) <=> StartsWith(name, path) /\ p = Len(path) + 1
    BY <1>6 DEF IsChild, p
  <2>4. ASSUME IsChild(path, name) PROVE path = q
    <3>1. Len(path) = p - 1
      BY <1>1, <2>3, <2>4
    <3> QED
      BY <1>2, <2>3, <2>4, <3>1
  <2>5. ASSUME path = q PROVE IsChild(path, name)
    <3>1. Len(path) = p - 1 /\ Len(path) <= Len(name)
      BY <1>1, <2>1, <2>2, <2>5
    <3> HIDE DEF q
    <3>2. path = SubSeq(name, 1, Len(path))
      BY <2>5, <3>1 DEF q
    <3> QED
      BY <1>1, <1>2, <2>1, <2>3, <3>1, <3>2
  <2> HIDE DEF q
  <2>6. path = q => Level(path) = Components(q)
    BY <1>3, <2>2
  <2>7. ASSUME Level(path) = Components(q) PROVE path = q
    <3>1. path # << >>
      <4>1. Len(Components(q)) # 0
        BY <2>2, ComponentsAre
      <4> QED
        BY <1>4, <2>7, <4>1
    <3> QED
      BY <1>3, <2>2, <2>7, <3>1, ComponentsTell
  <2> QED
    BY <2>1, <2>4, <2>5, <2>6, <2>7
<1> QED
  BY <1>5, <1>6

(* getChild of a listed name's last component: the name, or the directory  *)
(* itself if it is empty.                                                  *)
LEMMA ChildIsFound ==
    ASSUME NEW name, Named(name), name # << >>,
           NEW path, path \in Seq(Letters), Trimmed(path, {Separator}),
           IsChild(path, name)
    PROVE  Join(path, Last(Level(name))) \in {path, name}
<1> DEFINE p == LastSlash(name)
           rest == SubSeq(name, p + 1, Len(name))
<1>1. name \in Seq(Letters) /\ Len(name) \in Nat /\ Len(path) \in Nat
  BY DEF Named
<1>2. CASE p = 0
  <2>1. path = << >> /\ Last(Level(name)) = name
    BY <1>2, LevelIs DEF IsChild
  <2>2. << >> \o name = name
    BY <1>1
  <2> QED
    BY <2>1, <2>2 DEF Join
<1>3. CASE p # 0
  <2>1. /\ p \in 2..Len(name) /\ name[p] = Separator
        /\ Last(Level(name)) = rest /\ Plain(rest)
    BY <1>3, LevelIs
  <2>2. p = Len(path) + 1 /\ IsPrefix(path, name)
    BY <1>3 DEF IsChild, StartsWith
  <2> HIDE DEF p
  <2>3. rest \in Seq(Letters) /\ Len(rest) = Len(name) - p
    BY <1>1, <2>1
  <2>4. path = SubSeq(name, 1, p - 1)
    <3>1. SubSeq(path, 1, Len(path)) = path
      OBVIOUS
    <3>2. SubSeq(path, 1, Len(path)) = SubSeq(name, 1, Len(path))
      BY <2>2 DEF IsPrefix
    <3> QED
      BY <1>1, <2>2, <3>1, <3>2
  <2>5. name = path \o <<Separator>> \o rest
    <3>1. name = SubSeq(name, 1, p - 1) \o <<name[p]>> \o SubSeq(name, p + 1, Len(name))
      BY <1>1, <2>1
    <3> QED
      BY <2>1, <2>4, <3>1
  <2>6. path # << >> /\ path[Len(path)] # Separator
    <3>1. Len(path) # 0
      BY <1>1, <2>1, <2>2
    <3>2. path # << >>
      BY <3>1
    <3> QED
      BY <3>2 DEF Trimmed
  <2> HIDE DEF rest
  <2>7. CASE rest = << >>
    <3>1. path \o << >> = path
      OBVIOUS
    <3> QED
      BY <2>1, <2>7, <3>1 DEF Join
  <2>8. CASE rest # << >>
    <3>1. rest[1] # Separator
      <4>1. 1 \in 1..Len(rest)
        BY <2>3, <2>8
      <4> QED
        BY <2>1, <4>1 DEF Plain
    <3> QED
      BY <2>1, <2>5, <2>6, <2>8, <3>1 DEF Join
  <2> QED
    BY <2>7, <2>8
<1> QED
  BY <1>2, <1>3

-----------------------------------------------------------------------------
(***************************************************************************)
(* The lists.                                                              *)
(***************************************************************************)
(* A list of the children among the first k items.                         *)
Collects(list, p, k) ==
    /\ list \in Seq({fileData[i] : i \in 1..Len(fileData)})
    /\ \A data : (\E m \in 1..Len(list) : list[m] = data) <=>
            \E i \in 1..k : fileData[i] = data /\ IsChild(BasePath(p), data.name)

LEMMA CollectsOneMore ==
    ASSUME NEW list, NEW p, NEW k \in 1..Len(fileData), Len(fileData) \in Nat,
           Collects(list, p, k - 1)
    PROVE  Collects(ListStep(p, list, fileData[k]), p, k)
<1> DEFINE All == {fileData[i] : i \in 1..Len(fileData)}
           data == fileData[k]
<1>1. /\ list \in Seq(All) /\ data \in All /\ Len(list) \in Nat
      /\ \A x : (\E m \in 1..Len(list) : list[m] = x) <=>
            \E i \in 1..(k - 1) : fileData[i] = x /\ IsChild(BasePath(p), x.name)
  <2>1. list \in Seq(All)
    BY DEF Collects
  <2>2. \A x : (\E m \in 1..Len(list) : list[m] = x) <=>
            \E i \in 1..(k - 1) : fileData[i] = x /\ IsChild(BasePath(p), x.name)
    BY Zenon DEF Collects
  <2>3. data \in All
    OBVIOUS
  <2> HIDE DEF All
  <2>4. Len(list) \in Nat
    BY <2>1
  <2> QED
    BY <2>1, <2>2, <2>3, <2>4
<1>2. \A i : i \in 1..k <=> i \in 1..(k - 1) \/ i = k
  OBVIOUS
<1>3. CASE IsChild(BasePath(p), data.name)
  <2> DEFINE longer == Append(list, data)
  <2>1. ListStep(p, list, data) = longer
    BY <1>3 DEF ListStep
  <2> HIDE DEF All
  <2>2. /\ longer \in Seq(All) /\ Len(longer) = Len(list) + 1
        /\ longer[Len(list) + 1] = data
        /\ \A m \in 1..Len(list) : longer[m] = list[m]
    BY <1>1
  <2> HIDE DEF longer, data
  <2>3. \A m : m \in 1..Len(longer) <=> m \in 1..Len(list) \/ m = Len(list) + 1
    BY <1>1, <2>2
  <2>4. ASSUME NEW x
        PROVE  (\E m \in 1..Len(longer) : longer[m] = x)
                    <=> (\E m \in 1..Len(list) : list[m] = x) \/ x = data
    BY <2>2, <2>3
  <2>5. ASSUME NEW x
        PROVE  (\E i \in 1..k : fileData[i] = x /\ IsChild(BasePath(p), x.name))
                    <=> \/ \E i \in 1..(k - 1) : fileData[i] = x /\ IsChild(BasePath(p), x.name)
                        \/ x = data
    BY <1>2, <1>3 DEF data
  <2>6. Collects(longer, p, k)
    BY <1>1, <2>2, <2>4, <2>5 DEF Collects, All
  <2> QED
    BY <2>1, <2>6 DEF data
<1>4. CASE ~IsChild(BasePath(p), data.name)
  <2>1. ListStep(p, list, data) = list
    BY <1>4 DEF ListStep
  <2>2. ASSUME NEW x
        PROVE  (\E i \in 1..k : fileData[i] = x /\ IsChild(BasePath(p), x.name))
                    <=> \E i \in 1..(k - 1) : fileData[i] = x /\ IsChild(BasePath(p), x.name)
    BY <1>2, <1>4
  <2> QED
    BY <1>1, <2>1, <2>2 DEF Collects
<1> QED
  BY <1>3, <1>4

LEMMA ChildrenAre ==
    ASSUME IndexTyped, NEW p
    PROVE  Collects(Children(p), p, Len(fileData))
<1> DEFINE n == Len(fileData)
<1>1. n \in Nat /\ DOMAIN fileData = 1..n
  BY DEF IndexTyped
<1>2. PICK g : Lists!Steps(g, p, << >>, fileData, n)
  BY <1>1, Lists!FoldSteps
<1>3. /\ g[0] = << >>
      /\ \A k \in 1..n : g[k] = ListStep(p, g[k - 1], fileData[k])
      /\ Children(p) = g[n]
  <2>1. Children(p) = Lists!Fold(p, << >>, fileData)
    BY DEF Children, Lists!Fold, ListStep, FoldLeft, MapThenFoldSet,
           Lists!FoldLeft, Lists!MapThenFoldSet, Max, Lists!Max
  <2> QED
    BY <1>2, <2>1 DEF Lists!Steps
<1> DEFINE S == {k \in 0..n : Collects(g[k], p, k)}
<1>4. 0 \in S
  <2>1. << >> \in Seq({fileData[i] : i \in 1..n}) /\ Len(<< >>) = 0
    OBVIOUS
  <2>2. 1..0 = {}
    OBVIOUS
  <2>3. Collects(<< >>, p, 0)
    BY <2>1, <2>2 DEF Collects
  <2> QED
    BY <1>1, <1>3, <2>3
<1>5. ASSUME NEW k \in 1..n, k - 1 \in S PROVE k \in S
  <2>1. Collects(g[k - 1], p, k - 1)
    BY <1>5
  <2>2. Collects(g[k], p, k)
    BY <1>1, <1>3, <2>1, CollectsOneMore
  <2> QED
    BY <2>2
<1> HIDE DEF S
<1>6. \A k \in 0..n : k \in S
  BY <1>1, <1>4, <1>5, Lists!Induction
<1> QED
  BY <1>1, <1>3, <1>6 DEF S

(* The names that the constructor files.                                   *)
NamesTyped ==
    \A k \in 1..Len(fileData) :
        Named(fileData[k].name) /\ fileData[k].name \in DOMAIN fileIndexes

LEMMA NamesInvariance == Spec => []NamesTyped
<1>1. Init => NamesTyped
  <2> SUFFICES ASSUME Init PROVE NamesTyped
    OBVIOUS
  <2>1. 1..Len(fileData) = {}
    BY DEF Init
  <2> QED
    BY <2>1 DEF NamesTyped
<1>2. ASSUME IInv, NamesTyped, [Next]_vars PROVE NamesTyped'
  <2>1. CASE AddFileData
    <3> DEFINE n == Len(fileData)
               i == n + 1
               name == IndexName(Item(i).name)
               data == [name |-> name, index |-> i,
                        type |-> IF Item(i).isDir THEN DIRECTORY ELSE FILE]
    <3>1. /\ fileData' = Append(fileData, data)
          /\ fileIndexes' = Indexed(name, i)
          /\ n # Len(archive.items)
      BY <2>1 DEF AddFileData, Built
    <3>2. /\ n \in Nat /\ n <= Len(archive.items) /\ archive \in Archives
          /\ fileData = [k \in 1..n |-> fileData[k]]
      BY <1>2 DEF IInv, IndexTyped
    <3>3. i \in DOMAIN archive.items
      BY <3>1, <3>2, ArchivesAssumption
    <3>4. Named(name)
      <4>1. Item(i).name \in Seq(STRING)
        BY <3>2, <3>3, ArchivesAssumption DEF Item
      <4> QED
        BY <4>1, IndexNameIsNamed
    <3>5. data.name = name
      OBVIOUS
    <3> HIDE DEF data, name
    <3>6. /\ Len(fileData') = n + 1
          /\ \A k \in 1..n : fileData'[k] = fileData[k]
          /\ fileData'[n + 1] = data
      BY <3>1, <3>2, Pushed
    <3>7. DOMAIN fileIndexes' = DOMAIN fileIndexes \union {name}
      BY <3>1 DEF Indexed
    <3>8. \A k \in 1..(n + 1) : k = n + 1 \/ k \in 1..n
      BY <3>2
    <3> QED
      BY <1>2, <3>4, <3>5, <3>6, <3>7, <3>8 DEF NamesTyped
  <2>2. CASE UNCHANGED index
    BY <1>2, <2>2 DEF NamesTyped, index
  <2>3. UNCHANGED vars => UNCHANGED index
    BY DEF vars
  <2>4. ASSUME NEW t \in Threads, Extract(t) PROVE UNCHANGED index
    BY <1>2, <2>4, ExtractSteps
  <2>5. ASSUME NEW t \in Threads, Reading(t) PROVE UNCHANGED index
    BY <2>5 DEF Reading
  <2>6. ASSUME NEW t \in Threads, NEW p \in EntryPaths, Open(t, p) PROVE UNCHANGED index
    BY <2>6 DEF Open
  <2> QED
    BY <1>2, <2>1, <2>2, <2>3, <2>4, <2>5, <2>6, NextCases
<1>3. IInv /\ NamesTyped /\ [Next]_vars => NamesTyped'
  BY <1>2
<1> QED
  BY <1>1, <1>3, Invariance, PTL DEF Spec

-----------------------------------------------------------------------------
(***************************************************************************)
(* The sizes.                                                              *)
(***************************************************************************)
(* Each file lies in its block where the sum of the sizes before it says,  *)
(* and ends within the block.                                              *)
SizesFit ==
    \A db \in Archives : \A i \in DOMAIN db.items :
        LET f == db.items[i].folder
        IN  f # NoFolder =>
                /\ Offset(db, i) = PlaceOf(db, i)
                /\ Offset(db, i) + db.items[i].size <= db.folders[f].size

(* What writers pack: the files of a block one after the other, with only  *)
(* files and directories without content between them, as many bytes as    *)
(* the block has, and no size that the cast of 7zIn.c:1394 would cut.      *)
WellPacked ==
    \A db \in Archives :
        /\ \A i \in DOMAIN db.items :
            /\ db.items[i].size \in 0..(WordSize - 1)
            /\ db.items[i].folder = NoFolder => db.items[i].size = 0
            /\ db.items[i].folder # NoFolder =>
                PlaceOf(db, i) + db.items[i].size <= db.folders[db.items[i].folder].size
        /\ \A i, j \in DOMAIN db.items : \A k \in i..j :
            db.items[i].folder = db.items[j].folder /\ db.items[i].folder # NoFolder =>
                db.items[k].folder \in {NoFolder, db.items[i].folder}

SizeStep(db, sum, j) == db.items[j].size + sum
CastStep(db, sum, j) == (db.items[j].size % WordSize) + sum

Sizes == INSTANCE Strings_proofs WITH Op <- SizeStep
Casts == INSTANCE Strings_proofs WITH Op <- CastStep

LEMMA CastIsSize ==
    ASSUME NEW size \in 0..(WordSize - 1)
    PROVE  size % WordSize = size
BY BoundsAssumption

LEMMA OrdersAreFree ==
    ASSUME WellPacked, NEW db \in Archives
    PROVE  /\ Sizes!OrderIsFree(db, Nat, Len(db.items))
           /\ Casts!OrderIsFree(db, Nat, Len(db.items))
<1>1. DOMAIN db.items = 1..Len(db.items)
  BY ArchivesAssumption
<1>2. \A i \in 1..Len(db.items) : /\ db.items[i].size \in Nat
                                 /\ db.items[i].size % WordSize = db.items[i].size
  BY <1>1, CastIsSize DEF WellPacked
<1>3. Sizes!OrderIsFree(db, Nat, Len(db.items))
  BY <1>2 DEF Sizes!OrderIsFree, SizeStep
<1>4. Casts!OrderIsFree(db, Nat, Len(db.items))
  BY <1>2 DEF Casts!OrderIsFree, CastStep
<1> QED
  BY <1>3, <1>4

(* The sum over everything from the block's first file on is the sum over  *)
(* the block's files.                                                      *)
LEMMA OffsetIsPlace ==
    ASSUME WellPacked, NEW db \in Archives, NEW i \in DOMAIN db.items,
           db.items[i].folder # NoFolder
    PROVE  Offset(db, i) = PlaceOf(db, i)
<1> DEFINE n == Len(db.items)
           f == db.items[i].folder
           Files == {j \in DOMAIN db.items : db.items[j].folder = f}
           first == Min(Files)
           Until(k) == {j \in DOMAIN db.items : first <= j /\ j < k}
           Before(k) == {j \in DOMAIN db.items : j < k /\ db.items[j].folder = f}
           Offsets(k) == Casts!SetFold(db, 0, Until(k))
           Sums(k) == Sizes!SetFold(db, 0, Before(k))
<1>1. n \in Nat /\ DOMAIN db.items = 1..n /\ i \in 1..n
  BY ArchivesAssumption
<1>2. Offset(db, i) = Offsets(i) /\ PlaceOf(db, i) = Sums(i)
  <2>1. Offset(db, i) = Offsets(i)
    BY DEF Offset, Casts!SetFold, CastStep, FoldSet, MapThenFoldSet,
           Casts!FoldSet, Casts!MapThenFoldSet
  <2>2. PlaceOf(db, i) = Sums(i)
    BY DEF PlaceOf, Sizes!SetFold, SizeStep, FoldSet, MapThenFoldSet,
           Sizes!FoldSet, Sizes!MapThenFoldSet
  <2> QED
    BY <2>1, <2>2
<1>3. first \in Files /\ \A j \in Files : first <= j
  <2>1. Files # {} /\ Files \subseteq Nat
    BY <1>1
  <2>2. \E m \in Files : \A j \in Files : m <= j
    BY <2>1, Sizes!LeastNumber
  <2> HIDE DEF Files
  <2> QED
    BY <2>2 DEF Min
<1>4. first \in 1..n /\ db.items[first].folder = f
  BY <1>1, <1>3
<1>5. \A k : Until(k) \in SUBSET (1..n) /\ Before(k) \in SUBSET (1..n)
  BY <1>1
<1> DEFINE G == {k \in 0..n : k < i => Offsets(k + 1) = Sums(k + 1)}
<1>6. ASSUME NEW k \in 0..n, k < first PROVE Offsets(k + 1) = Sums(k + 1)
  <2>1. Until(k + 1) = {}
    <3> HIDE DEF first
    <3> QED
      BY <1>1, <1>4, <1>6
  <2>2. Before(k + 1) = {}
    <3>1. ASSUME NEW j \in Before(k + 1) PROVE FALSE
      <4>1. j \in Files /\ j \in 1..n /\ j < k + 1
        BY <1>1
      <4>2. first <= j
        BY <1>3, <4>1
      <4> HIDE DEF first
      <4> QED
        BY <1>1, <1>4, <1>6, <4>1, <4>2
    <3> QED
      BY <3>1
  <2> HIDE DEF Until, Before
  <2> QED
    BY <2>1, <2>2, Casts!SetFoldEmpty, Sizes!SetFoldEmpty
<1>7. 0 \in G
  <2> HIDE DEF first, Offsets, Sums
  <2> QED
    BY <1>1, <1>4, <1>6
<1>8. ASSUME NEW k \in 1..n, k - 1 \in G PROVE k \in G
  <2> SUFFICES ASSUME k < i PROVE Offsets(k + 1) = Sums(k + 1)
    BY <1>1
  <2>1. Offsets(k) = Sums(k)
    <3> HIDE DEF Offsets, Sums
    <3>1. (k - 1) + 1 = k /\ k - 1 < i
      BY <1>1
    <3> QED
      BY <1>8, <3>1
  <2>2. CASE k < first
    <3> HIDE DEF first, Offsets, Sums
    <3> QED
      BY <1>6, <2>2
  <2>3. CASE ~(k < first)
    <3> DEFINE size == db.items[k].size
    <3>1. size \in Nat /\ size % WordSize = size
      BY <1>1, CastIsSize DEF WellPacked
    <3>2. k \in Until(k + 1) /\ Until(k + 1) \ {k} = Until(k)
      <4> HIDE DEF first
      <4> QED
        BY <1>1, <1>4, <2>3
    <3>3. Offsets(k + 1) = size + Offsets(k)
      <4>1. Offsets(k + 1) = CastStep(db, Offsets(k), k)
        <5> HIDE DEF Until
        <5> QED
          BY <1>1, <1>5, <3>2, OrdersAreFree, Casts!SetFoldLast
      <4> QED
        BY <3>1, <4>1 DEF CastStep
    <3>4. CASE db.items[k].folder = f
      <4>1. k \in Before(k + 1) /\ Before(k + 1) \ {k} = Before(k)
        BY <1>1, <3>4
      <4>2. Sums(k + 1) = SizeStep(db, Sums(k), k)
        <5> HIDE DEF Before
        <5> QED
          BY <1>1, <1>5, <4>1, OrdersAreFree, Sizes!SetFoldLast
      <4> HIDE DEF Offsets, Sums
      <4> QED
        BY <2>1, <3>3, <4>2 DEF SizeStep
    <3>5. CASE db.items[k].folder # f
      <4>1. size = 0
        <5> HIDE DEF first
        <5>1. k \in first..i
          BY <1>1, <1>4, <2>3
        <5>2. db.items[k].folder \in {NoFolder, f}
          BY <1>1, <1>4, <5>1 DEF WellPacked
        <5> QED
          BY <1>1, <3>5, <5>2 DEF WellPacked
      <4>2. Before(k + 1) = Before(k)
        BY <1>1, <3>5
      <4>3. Offsets(k) \in Nat
        <5>1. Sums(k) \in Nat
          <6> HIDE DEF Before
          <6> QED
            BY <1>1, <1>5, OrdersAreFree, Sizes!SetFoldTyped
        <5> QED
          BY <2>1, <5>1
      <4>4. Sums(k + 1) = Sums(k)
        BY <4>2
      <4> HIDE DEF Offsets, Sums
      <4> QED
        BY <2>1, <3>3, <4>1, <4>3, <4>4
    <3> QED
      BY <3>4, <3>5
  <2> QED
    BY <2>2, <2>3
<1>9. \A k \in 0..n : k \in G
  <2> HIDE DEF G, n
  <2> QED
    BY <1>1, <1>7, <1>8, Sizes!Induction
<1>10. Offsets(i) = Sums(i)
  <2> HIDE DEF Offsets, Sums
  <2>1. i - 1 \in 0..n /\ i - 1 < i /\ (i - 1) + 1 = i
    BY <1>1
  <2> QED
    BY <1>9, <2>1
<1> QED
  BY <1>2, <1>10

(* The offset that SzArEx_Extract adds up is the file's place in its       *)
(* block, for any number of files of any sizes with anything empty between *)
(* them, as long as the 32-bit cast of the sum's terms cuts none.          *)
THEOREM SizesAddUp ==
    ASSUME WellPacked
    PROVE  SizesFit
<1>1. ASSUME NEW db \in Archives, NEW i \in DOMAIN db.items, db.items[i].folder # NoFolder
      PROVE  Offset(db, i) = PlaceOf(db, i)
  BY <1>1, OffsetIsPlace
<1> QED
  BY <1>1 DEF SizesFit, WellPacked

-----------------------------------------------------------------------------
(***************************************************************************)
(* The theorems.                                                           *)
(***************************************************************************)
(* Every variable keeps its type: the index refers to items and entries    *)
(* that exist, and a call to an item of the archive.                       *)
THEOREM TypeCorrect == Spec => []TypeOK
<1>1. IInv => TypeOK
  <2> SUFFICES ASSUME IInv PROVE TypeOK
    OBVIOUS
  <2>1. DOMAIN fileData = 1..Len(fileData)
    BY DEF IInv, IndexTyped
  <2> QED
    BY <2>1 DEF IInv, IndexTyped, CacheTyped, Places, TypeOK
<1> QED
  BY <1>1, Invariance, PTL

(* Whatever failed before, in whatever order threads opened files: while   *)
(* no call is under way the buffer is as long as the remembered block, so  *)
(* that no later copy leaves the allocation (SzArEx_Extract's separate     *)
(* assignments to blockIndex, outBuffer and outBufferSize).                *)
THEOREM BufferAlwaysFits == Spec => []BufferFitsItsBlock
<1>1. IInv => BufferFitsItsBlock
  <2> SUFFICES ASSUME IInv, outBuffer # Null
               PROVE  /\ blockIndex # NoFolder
                      /\ Len(outBuffer) = outBufferSize
                      /\ outBufferSize = Folder(blockIndex).size
    BY DEF BufferFitsItsBlock
  <2>1. blockIndex # NoFolder /\ Full(blockIndex) /\ outBufferSize \in Nat
    BY DEF IInv, Buffer, CacheTyped
  <2>2. Len(outBuffer) = outBufferSize
    BY <2>1 DEF Full
  <2> QED
    BY <2>1, <2>2 DEF Full
<1> QED
  BY <1>1, Invariance, PTL

(* A call that ends in a step is at an end of SzArEx_Extract.              *)
LEMMA OpensByExtract ==
    ASSUME IInv, [Next]_vars, NEW t \in Threads, Opens(t)
    PROVE  Extract(t)
<1>1. pc[t] # "idle" /\ pc'[t] = "idle" /\ pc \in [Threads -> Places]
  BY DEF Opens, IInv, CacheTyped
<1>2. ~AddFileData /\ ~UNCHANGED vars
  BY <1>1 DEF AddFileData, vars, locals
<1>3. ASSUME NEW u \in Threads, Reading(u) PROVE FALSE
  BY <1>1, <1>3 DEF Reading
<1>4. ASSUME NEW u \in Threads, NEW p \in EntryPaths, Open(u, p) PROVE FALSE
  BY <1>1, <1>4 DEF Open
<1>5. ASSUME NEW u \in Threads, Extract(u), u # t PROVE FALSE
  BY <1>1, <1>5, ExtractSteps
<1> QED
  BY <1>2, <1>3, <1>4, <1>5, NextCases

(* A sound block in the buffer has the file where it is cut out.           *)
LEMMA SliceIsContent ==
    ASSUME SizesFit, archive \in Archives, NEW i \in Items, Item(i).folder # NoFolder,
           outBuffer = Block(Item(i).folder)
    PROVE  Slice(i) = Content(i)
<1>1. Offset(archive, i) = PlaceOf(archive, i)
  BY DEF SizesFit, Items, Item
<1> QED
  BY <1>1 DEF Slice, Content

(* What open returns is the file's own data, however many threads open     *)
(* what files in what order, and whatever failed before - for a file with  *)
(* a checksum; for another as long as its block is sound and no read has   *)
(* failed.                                                                 *)
THEOREM OpenGivesTheFile ==
    ASSUME SizesFit
    PROVE  Spec => OpenReturnsItsData
<1> DEFINE Own(t) ==
        LET i == extracting[t]
        IN  /\ Opens(t) /\ result'.out = Returned
            /\ \/ Item(i).crcDefined \/ Item(i).folder = NoFolder
               \/ ~Folder(Item(i).folder).damaged /\ faults = 0
            => result'.data = Content(i)
<1>1. ASSUME IInv, [Next]_vars, NEW t \in Threads PROVE Own(t)
  <2>1. PICK i : i = extracting[t]
    OBVIOUS
  <2> SUFFICES ASSUME Opens(t), result'.out = Returned,
                      \/ Item(i).crcDefined \/ Item(i).folder = NoFolder
                      \/ ~Folder(Item(i).folder).damaged /\ faults = 0
               PROVE  result'.data = Content(i)
    BY <2>1
  <2>2. Extract(t) /\ pc[t] # "idle" /\ pc'[t] = "idle" /\ pc \in [Threads -> Places]
    BY <1>1, OpensByExtract DEF Opens, IInv, CacheTyped
  <2>3. i \in Items /\ archive \in Archives /\ Knows(t)
    BY <1>1, <2>1, <2>2 DEF IInv, IndexTyped, CacheTyped
  <2>4. ASSUME NEW why, Fails(t, why) PROVE FALSE
    BY <2>4 DEF Fails, Ends, Throws, FileSystemError, Returned
  <2>5. ASSUME NEW place \in Places \ {"idle"}, Goto(t, place) PROVE FALSE
    BY <2>2, <2>5 DEF Goto
  <2>6. ExtractEmpty(t) \/ Copy(t)
    BY <2>2, <2>4, <2>5 DEF Extract, ExtractCached, ExtractBlock, SeekFails, AllocFails, Seek,
                            DecodeFails, Decode, SliceFails, SliceDone, Places
  <2>7. CASE ExtractEmpty(t)
    BY <2>1, <2>7 DEF ExtractEmpty, Ends, FolderOf, Content
  <2>8. CASE Copy(t)
    <3>1. result'.data = Slice(i) /\ pc[t] = "copy"
      BY <2>1, <2>8 DEF Copy, Ends
    <3>2. Item(i).folder # NoFolder
      BY <2>1, <2>3, <3>1 DEF Knows, FolderOf
    <3>3. CASE Item(i).crcDefined
      BY <2>1, <2>3, <3>1, <3>3 DEF Knows
    <3>4. CASE ~Folder(Item(i).folder).damaged /\ faults = 0
      <4>1. outBuffer = Block(Item(i).folder)
        BY <2>1, <2>3, <3>1, <3>4 DEF Knows, Past, Sound, FolderOf
      <4> QED
        BY <2>3, <3>1, <3>2, <4>1, SliceIsContent
    <3> QED
      BY <3>2, <3>3, <3>4
  <2> QED
    BY <2>6, <2>7, <2>8
<1>2. IInv /\ [Next]_vars => [\A t \in Threads : Own(t)]_vars
  BY <1>1
<1> QED
  BY <1>2, Invariance, PTL DEF Spec, OpenReturnsItsData

(* As long as no read and no allocation has failed, open succeeds for      *)
(* every file of a sound block: what other opens left in the cache never   *)
(* makes it fail.                                                          *)
THEOREM SoundFilesAlwaysOpen ==
    ASSUME SizesFit
    PROVE  Spec => SoundFilesOpen
<1>1. ASSUME IInv, [Next]_vars, NEW t \in Threads,
             Opens(t), result'.out # Returned
      PROVE  faults' > 0 \/ Folder(FolderOf(t)).damaged
  <2>1. /\ Extract(t) /\ pc[t] # "idle" /\ pc'[t] = "idle" /\ pc \in [Threads -> Places]
        /\ faults \in Nat
    BY <1>1, OpensByExtract DEF Opens, IInv, CacheTyped
  <2>2. PICK i : i = extracting[t]
    OBVIOUS
  <2>3. i \in Items /\ archive \in Archives /\ Knows(t) /\ FolderOf(t) = Item(i).folder
    BY <1>1, <2>1, <2>2 DEF IInv, IndexTyped, CacheTyped, FolderOf
  <2>4. ASSUME NEW place \in Places \ {"idle"}, Goto(t, place) PROVE FALSE
    BY <2>1, <2>4 DEF Goto
  <2>5. ~ExtractEmpty(t) /\ ~Copy(t)
    BY <1>1 DEF ExtractEmpty, Copy, Ends
  <2>6. SeekFails(t) \/ AllocFails(t) \/ DecodeFails(t) \/ Decode(t) \/ SliceFails(t)
    BY <2>1, <2>4, <2>5 DEF Extract, ExtractCached, ExtractBlock, Seek, SliceDone, Places
  <2>7. CASE SeekFails(t) \/ AllocFails(t) \/ DecodeFails(t)
    BY <2>1, <2>7 DEF SeekFails, AllocFails, DecodeFails, Fault
  <2>8. CASE Decode(t)
    <3>1. ~Goto(t, "slice")
      BY <2>4 DEF Places
    <3> QED
      BY <2>8, <3>1 DEF Decode
  <2>9. CASE SliceFails(t)
    <3> SUFFICES ASSUME faults = 0, ~Folder(FolderOf(t)).damaged
                 PROVE  FALSE
      BY <2>1, <2>9 DEF SliceFails
    <3>1. /\ pc[t] = "slice" /\ (SliceFits(i) => CrcDiffers(i))
      BY <2>2, <2>9 DEF SliceFails
    <3>2. /\ Item(i).folder # NoFolder
          /\ outBuffer = Block(Item(i).folder)
          /\ outBufferSize = Folder(Item(i).folder).size
      BY <2>3, <3>1 DEF Knows, Past, Sound, Full
    <3>3. SliceFits(i)
      BY <2>3, <3>2 DEF SizesFit, SliceFits, Items, Item, Folder
    <3> QED
      BY <2>3, <3>1, <3>2, <3>3, SliceIsContent DEF CrcDiffers
  <2> QED
    BY <2>6, <2>7, <2>8, <2>9
<1>2. IInv /\ [Next]_vars =>
        [\A t \in Threads :
            /\ Opens(t) /\ result'.out # Returned
            => \/ faults' > 0
               \/ Folder(FolderOf(t)).damaged]_vars
  BY <1>1
<1> QED
  BY <1>2, Invariance, PTL DEF Spec, SoundFilesOpen

(* What listChildren of a directory lists, whatever names an archive has:  *)
(* the items whose parent it is and no others, each of which getChild of   *)
(* its last component finds (the prefix and last-separator tests).         *)
THEOREM ListsTheDirectory == Spec => []ListingIsTheDirectory
<1>1. ASSUME IInv, NamesTyped PROVE ListingIsTheDirectory
  <2> SUFFICES ASSUME NEW p \in EntryPaths, GetEntryType(p) = DIRECTORY, p = BasePath(p)
               PROVE  LET listed == {Children(p)[k].name : k \in DOMAIN Children(p)} \ {<< >>}
                      IN  /\ listed = {name \in EntryPaths \ {<< >>} :
                                        Front(Level(name)) = Level(p)}
                          /\ \A name \in listed :
                                GetEntryType(Join(p, Last(Level(name)))) # UNKNOWN
    BY DEF ListingIsTheDirectory
  <2> DEFINE n == Len(fileData)
             listed == {Children(p)[k].name : k \in DOMAIN Children(p)} \ {<< >>}
  <2>1. n \in Nat /\ DOMAIN fileData = 1..n
    BY <1>1 DEF IInv, IndexTyped
  <2>2. \A k \in 1..n : Named(fileData[k].name) /\ Known(fileData[k].name)
    BY <1>1 DEF NamesTyped, Known
  <2>3. p \in Seq(Letters) /\ Trimmed(p, {Separator})
    <3>1. p \in Seq(Letters)
      <4>1. << >> \in Seq(Letters)
        OBVIOUS
      <4> QED
        BY <2>1, <2>2, <4>1 DEF EntryPaths, Named
    <3>2. p = TrimIf(TrimIf(p, {Space}), {Separator})
      BY DEF BasePath, NormalizePath
    <3>3. TrimIf(p, {Space}) \in Seq(Letters)
      BY <3>1, TrimTrims
    <3>4. Trimmed(TrimIf(TrimIf(p, {Space}), {Separator}), {Separator})
      BY <3>3, TrimTrims
    <3> QED
      BY <3>1, <3>2, <3>4
  <2>4. ASSUME NEW name
        PROVE  name \in listed <=>
                /\ name # << >>
                /\ \E k \in 1..n : fileData[k].name = name /\ IsChild(p, name)
    <3>1. PICK list : list = Children(p)
      OBVIOUS
    <3>2. /\ list \in Seq({fileData[i] : i \in 1..n})
          /\ \A data : (\E m \in 1..Len(list) : list[m] = data) <=>
                \E i \in 1..n : fileData[i] = data /\ IsChild(p, data.name)
      BY <1>1, <3>1, ChildrenAre DEF IInv, Collects
    <3>3. DOMAIN list = 1..Len(list)
      BY <3>2
    <3>4. name \in listed <=> name # << >> /\ \E m \in 1..Len(list) : list[m].name = name
      BY <3>1, <3>3
    <3>5. (\E m \in 1..Len(list) : list[m].name = name) <=>
            \E k \in 1..n : fileData[k].name = name /\ IsChild(p, name)
      BY <3>2
    <3> QED
      BY <3>4, <3>5
  <2> HIDE DEF listed
  <2>5. ASSUME NEW name, name # << >>
        PROVE  name \in listed <=>
                    name \in EntryPaths \ {<< >>} /\ Front(Level(name)) = Level(p)
    <3>1. name \in EntryPaths <=> \E k \in 1..n : fileData[k].name = name
      BY <2>1, <2>5 DEF EntryPaths
    <3>2. name \in listed <=>
            \E k \in 1..n : fileData[k].name = name /\ IsChild(p, name)
      BY <2>4, <2>5
    <3>3. name \in EntryPaths => (IsChild(p, name) <=> Front(Level(name)) = Level(p))
      BY <2>2, <2>3, <2>5, <3>1, ChildIs
    <3> QED
      BY <2>5, <3>1, <3>2, <3>3
  <2>6. << >> \notin listed
    BY <2>4
  <2>7. ASSUME NEW name \in listed
        PROVE  GetEntryType(Join(p, Last(Level(name)))) # UNKNOWN
    <3>1. PICK k \in 1..n : fileData[k].name = name /\ IsChild(p, name)
      BY <2>4
    <3>2. Join(p, Last(Level(name))) \in {p, name}
      BY <2>2, <2>3, <2>6, <3>1, ChildIsFound
    <3>3. DIRECTORY # UNKNOWN /\ FILE # UNKNOWN
      BY DEF DIRECTORY, FILE, UNKNOWN
    <3>4. GetEntryType(name) # UNKNOWN
      <4>1. Known(name) /\ fileIndexes[name] \in 1..n
        BY <1>1, <2>1, <2>2, <3>1 DEF IInv, IndexTyped, Known
      <4>2. GetFileData(name).type \in {DIRECTORY, FILE}
        BY <1>1, <4>1 DEF IInv, IndexTyped, GetFileData
      <4> QED
        BY <2>6, <3>3, <4>1, <4>2 DEF GetEntryType
    <3> QED
      BY <3>2, <3>3, <3>4
  <2>8. listed = {name \in EntryPaths \ {<< >>} : Front(Level(name)) = Level(p)}
    BY <2>5, <2>6
  <2> QED
    BY <2>7, <2>8 DEF listed
<1> QED
  BY <1>1, Invariance, NamesInvariance, PTL
=============================================================================
