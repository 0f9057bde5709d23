------------------------------ MODULE SevenZip ------------------------------
(***************************************************************************)
(* The 7-zip file system: the index of names its constructor builds, the   *)
(* entries that read it, and the one-block cache behind open.              *)
(*                                                                         *)
(* The archive's database (CSzArEx) is the parser's result: items in the   *)
(* order of the archive, each in one of the folders - 7-zip's word for a   *)
(* solid block - or in none.  open decodes the whole block of a file into  *)
(* outBuffer and copies the file out of it; blockIndex remembers which     *)
(* block that was.  Nothing locks the cache: several threads call at once, *)
(* as far as their clients let them (MayExtract).                          *)
(***************************************************************************)
EXTENDS Paths

CONSTANTS
    Threads,
    Archives,   \* databases: [items |-> sequence, folders |-> sequence]
    Arguments,  \* what clients pass to getChild
    MaxFaults,  \* bound on the reads and allocations that fail
    WordSize    \* 2^32: the cast in the sum of the sizes before a file

ASSUME BoundsAssumption == MaxFaults \in Nat /\ WordSize \in Nat \ {0}

VARIABLES
    archive,        \* db; the constructor never changes it again
    fileData, fileIndexes,                  \* ArchiveFileSystem
    blockIndex, outBuffer, outBufferSize,   \* SevenZipFileSystem
    pc, extracting,         \* per thread: its place, and fd.index
    result,                 \* how the last call to end ended
    faults

index  == <<archive, fileData, fileIndexes>>
cache  == <<blockIndex, outBuffer, outBufferSize>>
locals == <<pc, extracting>>
vars   == <<index, cache, locals, result, faults>>

NoFolder == 0           \* (UInt32)-1
Null     == << >>       \* no buffer; none is allocated for an empty block
Garbage  == <<0, 0>>    \* what a buffer holds that nobody filled
NoItem   == 0

(* What the parser hands over: each item has a folder of the archive or    *)
(* none, and each folder a size.                                           *)
ASSUME ArchivesAssumption ==
    \A db \in Archives :
        /\ Len(db.items) \in Nat /\ DOMAIN db.items = 1..Len(db.items)
        /\ NoFolder \notin DOMAIN db.folders
        /\ \A f \in DOMAIN db.folders : db.folders[f].size \in Nat
        /\ \A i \in DOMAIN db.items :
                /\ db.items[i].name \in Seq(STRING)
                /\ db.items[i].folder \in {NoFolder} \union DOMAIN db.folders

Items   == DOMAIN archive.items
Item(i) == archive.items[i]
Folder(f) == archive.folders[f]

(* A byte is known by its block and its place there; a checksum by what it *)
(* is the checksum of.                                                     *)
Block(f) == [k \in 1..Folder(f).size |-> <<f, k>>]

(* What the file is, whatever the code does: its bytes in its block.       *)
PlaceOf(db, i) ==
    LET before == {j \in DOMAIN db.items :
                        j < i /\ db.items[j].folder = db.items[i].folder}
    IN  FoldSet(LAMBDA j, sum : db.items[j].size + sum, 0, before)

Content(i) ==
    IF Item(i).folder = NoFolder THEN << >>
    ELSE SubSeq(Block(Item(i).folder), PlaceOf(archive, i) + 1,
                                       PlaceOf(archive, i) + Item(i).size)

TypeOK ==
    /\ \A k \in DOMAIN fileData :
        fileData[k].index \in Items /\ fileData[k].type \in {DIRECTORY, FILE}
    /\ \A name \in DOMAIN fileIndexes : fileIndexes[name] \in DOMAIN fileData
    /\ blockIndex \in {NoFolder} \union DOMAIN archive.folders
    /\ outBufferSize \in Nat
    /\ pc \in [Threads -> {"idle", "extract", "seek", "decode", "slice", "copy"}]
    /\ \A t \in Threads : extracting[t] \in Items \union {NoItem}
    /\ faults \in 0..MaxFaults

Init ==
    /\ archive \in Archives
    /\ fileData = << >> /\ fileIndexes = << >>
    /\ blockIndex = NoFolder /\ outBuffer = Null /\ outBufferSize = 0
    /\ pc = [t \in Threads |-> "idle"]
    /\ extracting = [t \in Threads |-> NoItem]
    /\ result = [out |-> Returned, count |-> 0]
    /\ faults = 0

-----------------------------------------------------------------------------
(***************************************************************************)
(* The constructor: one item after the other goes into the index.          *)
(***************************************************************************)
(* The name still ends in a NUL when it is normalised, so nothing is       *)
(* trimmed behind it; the NUL goes last.                                   *)
IndexName(name) ==
    LET normal == NormalizePath(Append(name, NUL), FALSE)
    IN  IF Last(normal) = NUL THEN Front(normal) ELSE normal

Built == Len(fileData) = Len(archive.items)

(* Seeded fault: the size after push_back is taken for the position.       *)
IndexedNext(name, position) ==
    IF name \in DOMAIN fileIndexes THEN fileIndexes
    ELSE fileIndexes @@ (name :> position + 1)

(* insert keeps the first item of a name.                                  *)
Indexed(name, position) ==
    [n \in DOMAIN fileIndexes \union {name} |->
        IF n \in DOMAIN fileIndexes THEN fileIndexes[n] ELSE position]

AddFileData ==
    /\ ~Built
    /\ LET i    == Len(fileData) + 1
           name == IndexName(Item(i).name)
       IN  /\ fileData' = Append(fileData,
                [name |-> name, index |-> i,
                 type |-> IF Item(i).isDir THEN DIRECTORY ELSE FILE])
           /\ fileIndexes' = Indexed(name, i)
    /\ UNCHANGED <<archive, cache, locals, result, faults>>

(* getFileData and getEntryType; a data_type() has the type UNKNOWN.       *)
Known(path) == path \in DOMAIN fileIndexes

GetFileData(path) == fileData[fileIndexes[path]]

GetEntryType(path) ==
    IF path = << >> THEN DIRECTORY
    ELSE IF Known(path) THEN GetFileData(path).type ELSE UNKNOWN

-----------------------------------------------------------------------------
(***************************************************************************)
(* SevenZipFileEntry.  An entry was made for a name of the index or for    *)
(* the root; entryPath is that name, and path is it normalised once more.  *)
(***************************************************************************)
EntryPaths == {<< >>} \union {fileData[k].name : k \in DOMAIN fileData}

BasePath(p) == NormalizePath(p, FALSE)

StartsWith(name, path) == IsPrefix(path, name)

LastSlash(name) ==
    LET slashes == {i \in DOMAIN name : name[i] = Separator}
    IN  IF slashes = {} THEN 0 ELSE Max(slashes)

(* Seeded fault: a directory lists everything below it.                    *)
IsBelow(path, name) == StartsWith(name, path)

(* numChildren and listChildren: the name begins with the path, and its    *)
(* last separator comes right behind it.                                   *)
IsChild(path, name) ==
    /\ StartsWith(name, path)
    /\ IF LastSlash(name) = 0 THEN path = << >>
                              ELSE LastSlash(name) = Len(path) + 1

Children(p) ==
    FoldLeft(LAMBDA listed, data : IF IsChild(BasePath(p), data.name)
                                   THEN Append(listed, data) ELSE listed,
             << >>, fileData)

Ends(t, how) ==
    /\ result' = how
    /\ pc' = [pc EXCEPT ![t] = "idle"]
    /\ extracting' = [extracting EXCEPT ![t] = NoItem]

Answers(t, how) ==
    /\ Built /\ pc[t] = "idle"
    /\ Ends(t, how)
    /\ UNCHANGED <<index, cache, faults>>

Throws(out, why) == [out |-> out, why |-> why]

Invalid == Throws(InvalidOperation, "")

(* getChild, numChildren and listChildren of what is no directory.         *)
NoDirectory(t, p) ==
    /\ GetEntryType(p) # DIRECTORY
    /\ Answers(t, Invalid)

GetChild(t, p, arg) ==
    /\ GetEntryType(p) = DIRECTORY
    /\ LET childPath == Join(p, arg)
       IN  Answers(t, [out |-> Returned,
                       names |-> IF GetEntryType(childPath) = UNKNOWN
                                 THEN << >> ELSE <<childPath>>])

NumChildren(t, p) ==
    /\ GetEntryType(p) = DIRECTORY
    /\ Answers(t, [out |-> Returned, count |-> Len(Children(p))])

ListChildren(t, p) ==
    /\ GetEntryType(p) = DIRECTORY
    /\ Answers(t, [out |-> Returned,
                   names |-> [k \in DOMAIN Children(p) |-> Children(p)[k].name]])

(* deleteChild, createEntry and rename.                                    *)
ReadOnly(t) == Answers(t, Invalid)

-----------------------------------------------------------------------------
(***************************************************************************)
(* open, extractEntry and SzArEx_Extract.                                  *)
(***************************************************************************)
FolderOf(t) == Item(extracting[t]).folder

(* Seeded fault: a buffer that is there is taken for the block's.          *)
NoBuffer(f) == outBuffer = Null

(* The block has to be decoded.                                            *)
NotCached(f) == outBuffer = Null \/ blockIndex # f

(* The client's rule: a call may overlap another only if none of them has  *)
(* to touch the cache.                                                     *)
MayExtract(t, i) ==
    \A u \in Threads \ {t} :
        pc[u] # "idle" =>
            /\ pc[u] \in {"slice", "copy"}
            /\ Item(i).folder = FolderOf(u)

OpenRefused(t, p, mode) ==
    \/ /\ GetEntryType(p) # FILE \/ MODE_WRITE \in mode
       /\ Answers(t, Invalid)
    \/ /\ GetEntryType(p) = FILE /\ MODE_WRITE \notin mode
       /\ MODE_MEMORY_MAPPED \in mode
       /\ Answers(t, Throws(FileSystemError, ""))

(* extractEntry looks the normalised path up, open's own test the other.   *)
OpenUnknown(t, p) ==
    /\ GetEntryType(p) = FILE /\ GetEntryType(BasePath(p)) # FILE
    /\ Answers(t, Throws(FileSystemError, ""))

Open(t, p) ==
    /\ Built /\ pc[t] = "idle"
    /\ GetEntryType(p) = FILE /\ GetEntryType(BasePath(p)) = FILE
    /\ LET i == GetFileData(BasePath(p)).index
       IN  /\ MayExtract(t, i)
           /\ extracting' = [extracting EXCEPT ![t] = i]
    /\ pc' = [pc EXCEPT ![t] = "extract"]
    /\ UNCHANGED <<index, cache, result, faults>>

Goto(t, place) ==
    /\ pc' = [pc EXCEPT ![t] = place]
    /\ UNCHANGED <<index, extracting, result>>

Fails(t, why) ==
    /\ Ends(t, Throws(FileSystemError, why))
    /\ UNCHANGED index

(* A read or an allocation fails.                                          *)
Fault == faults < MaxFaults /\ faults' = faults + 1

(* A file without a folder is empty, and drops the cache.                  *)
ExtractEmpty(t) ==
    /\ pc[t] = "extract" /\ FolderOf(t) = NoFolder
    /\ blockIndex' = NoFolder /\ outBuffer' = Null /\ outBufferSize' = 0
    /\ Ends(t, [out |-> Returned, data |-> << >>])
    /\ UNCHANGED <<index, faults>>

ExtractCached(t) ==
    /\ pc[t] = "extract" /\ FolderOf(t) # NoFolder
    /\ ~NotCached(FolderOf(t))
    /\ Goto(t, "slice") /\ UNCHANGED <<cache, faults>>

(* Seeded fault: the old buffer is freed only when the new one is there.   *)
KeptBuffer == outBuffer

DroppedBuffer == Null

ExtractBlock(t) ==
    /\ pc[t] = "extract" /\ FolderOf(t) # NoFolder
    /\ NotCached(FolderOf(t))
    /\ blockIndex' = FolderOf(t)
    /\ outBuffer' = DroppedBuffer
    /\ Goto(t, "seek") /\ UNCHANGED <<outBufferSize, faults>>

SeekFails(t) ==
    /\ pc[t] = "seek"
    /\ Fault /\ Fails(t, "SZ_ERROR_READ") /\ UNCHANGED cache

AllocFails(t) ==
    /\ pc[t] = "seek" /\ Folder(FolderOf(t)).size # 0
    /\ outBufferSize' = Folder(FolderOf(t)).size
    /\ Fault /\ Fails(t, "SZ_ERROR_MEM") /\ UNCHANGED <<blockIndex, outBuffer>>

(* Seeded fault: the size goes with the old buffer.                        *)
StaleSize(f) == outBufferSize

BufferSize(f) == Folder(f).size

(* SeekTo and the allocation.                                              *)
Seek(t) ==
    /\ pc[t] = "seek"
    /\ LET size == Folder(FolderOf(t)).size
       IN  /\ outBufferSize' = BufferSize(FolderOf(t))
           /\ outBuffer' = [k \in 1..size |-> Garbage]
    /\ Goto(t, "decode") /\ UNCHANGED <<blockIndex, faults>>

(* What SzFolder_Decode has filled when it gives up: blockIndex and the    *)
(* half-filled buffer stay.                                                *)
Partly(f) ==
    {[k \in 1..Folder(f).size |-> IF k <= n THEN <<f, k>> ELSE Garbage] :
        n \in 0..Folder(f).size}

DecodeFails(t) ==
    /\ pc[t] = "decode"
    /\ outBuffer' \in Partly(FolderOf(t))
    /\ \/ /\ Folder(FolderOf(t)).damaged
          /\ Fails(t, "SZ_ERROR_DATA") /\ UNCHANGED faults
       \/ Fault /\ Fails(t, "SZ_ERROR_READ")
    /\ UNCHANGED <<blockIndex, outBufferSize>>

(* A damaged block may still decode, to other bytes.                       *)
Decode(t) ==
    /\ pc[t] = "decode"
    /\ LET f == FolderOf(t)
           wrong == [k \in 1..Folder(f).size |-> Garbage]
       IN  \E bytes \in {Block(f)} \union
                        (IF Folder(f).damaged THEN {wrong} ELSE {}) :
            /\ outBuffer' = bytes
            /\ IF Folder(f).crcDefined /\ bytes # Block(f)
               THEN Fails(t, "SZ_ERROR_CRC")
               ELSE Goto(t, "slice")
    /\ UNCHANGED <<blockIndex, outBufferSize, faults>>

(* The sum of the files from FolderStartFileIndex on, each size cast to 32 *)
(* bits, whatever stands between them (only directories and empty files).  *)
Offset(db, i) ==
    LET first == Min({j \in DOMAIN db.items : db.items[j].folder = db.items[i].folder})
    IN  FoldSet(LAMBDA j, sum : (db.items[j].size % WordSize) + sum, 0,
                {j \in DOMAIN db.items : first <= j /\ j < i})

Slice(i) ==
    SubSeq(outBuffer, Offset(archive, i) + 1, Offset(archive, i) + Item(i).size)

CrcDiffers(i) == Item(i).crcDefined /\ Slice(i) # Content(i)

SliceFits(i) == Offset(archive, i) + Item(i).size <= outBufferSize

SliceFails(t) ==
    /\ pc[t] = "slice"
    /\ LET i == extracting[t]
       IN  /\ SliceFits(i) => CrcDiffers(i)
           /\ Fails(t, IF SliceFits(i) THEN "SZ_ERROR_CRC" ELSE "SZ_ERROR_FAIL")
    /\ UNCHANGED <<cache, faults>>

SliceDone(t) ==
    /\ pc[t] = "slice"
    /\ SliceFits(extracting[t])
    /\ ~CrcDiffers(extracting[t])
    /\ Goto(t, "copy") /\ UNCHANGED <<cache, faults>>

(* extractEntry's memcpy out of outBuffer.                                 *)
Copy(t) ==
    /\ pc[t] = "copy"
    /\ Ends(t, [out |-> Returned, data |-> Slice(extracting[t])])
    /\ UNCHANGED <<index, cache, faults>>

Extract(t) ==
    \/ ExtractEmpty(t) \/ ExtractCached(t) \/ ExtractBlock(t)
    \/ SeekFails(t) \/ AllocFails(t) \/ Seek(t)
    \/ DecodeFails(t) \/ Decode(t)
    \/ SliceFails(t) \/ SliceDone(t) \/ Copy(t)

Next ==
    \/ AddFileData
    \/ \E t \in Threads :
        \/ Extract(t)
        \/ ReadOnly(t)
        \/ \E p \in EntryPaths :
            \/ NoDirectory(t, p) \/ NumChildren(t, p) \/ ListChildren(t, p)
            \/ \E arg \in Arguments : GetChild(t, p, arg)
            \/ \E mode \in SUBSET OpenMode : OpenRefused(t, p, mode)
            \/ OpenUnknown(t, p)
            \/ Open(t, p)

Spec == Init /\ [][Next]_vars

-----------------------------------------------------------------------------
(***************************************************************************)
(* Properties.                                                             *)
(***************************************************************************)
(* The prefix test of listChildren, which knows no components, lists the   *)
(* items whose parent directory this is and no others; every name listed   *)
(* is found again by getChild of its last component.  Left out are the     *)
(* calls of an entry whose name normalisation would change, and in the     *)
(* root's list the items whose name normalises to nothing: they are the    *)
(* root once more.                                                         *)
Level(name) == IF name = << >> THEN << >> ELSE Components(name)

ListingIsTheDirectory ==
    \A p \in EntryPaths :
        GetEntryType(p) = DIRECTORY /\ p = BasePath(p) =>
            LET listed == {Children(p)[k].name : k \in DOMAIN Children(p)} \ {<< >>}
            IN  /\ listed = {name \in EntryPaths \ {<< >>} :
                                Front(Level(name)) = Level(p)}
                /\ \A name \in listed :
                        GetEntryType(Join(p, Last(Level(name)))) # UNKNOWN

(* While no call is under way the buffer is the remembered block's in      *)
(* length, whatever failed before: a copy never leaves the allocation.     *)
BufferFitsItsBlock ==
    (\A t \in Threads : pc[t] = "idle") /\ outBuffer # Null =>
        /\ blockIndex # NoFolder
        /\ Len(outBuffer) = outBufferSize
        /\ outBufferSize = Folder(blockIndex).size

Opens(t) == pc[t] # "idle" /\ pc'[t] = "idle"

(* What open returns is the file's own data: after other blocks, after     *)
(* failures that left the block cache half filled, and next to other       *)
(* threads' opens of the same block.  A file without a checksum has this   *)
(* promise only while nothing is damaged and no read has failed.           *)
OpenReturnsItsData ==
    [][\A t \in Threads :
        LET i == extracting[t]
        IN  /\ Opens(t) /\ result'.out = Returned
            /\ \/ Item(i).crcDefined \/ Item(i).folder = NoFolder
               \/ ~Folder(Item(i).folder).damaged /\ faults = 0
            => result'.data = Content(i)]_vars

(* As long as no read and no allocation has failed, open succeeds for every *)
(* file of a sound block, whatever was opened before.                      *)
SoundFilesOpen ==
    [][\A t \in Threads :
        /\ Opens(t) /\ result'.out # Returned
        => \/ faults' > 0
           \/ Folder(FolderOf(t)).damaged]_vars

=============================================================================
