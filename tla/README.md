# A verification project for vfspp

vfspp is a C++ library for virtual file systems: a physical directory, an
in-memory tree, a 7-zip archive, and a *merged* file system that lays several of
them over each other. This directory models its behaviour in TLA+, checks the
models with TLC on small instances, and proves the most important properties with
TLAPS for every instance. Line numbers refer to the files under `src/`,
`include/VFSPP/` and `lib/` of the repository.

## The system

| Component | State it keeps | Operations | What makes it correct |
|---|---|---|---|
| Core (`core.hpp`, `VFSPP.cpp`) | the path of an entry | `modeToOperation`, the interfaces | masks and modes agree |
| Merged (`merged/`) | per entry: `containedEntry`, the child cache, `dirty`, `childrenLock`; per system: `fileSystems`, `rootEntry`, `caseInsensitive` | `getChild`, `numChildren`, `listChildren`, `open`, `deleteChild`, `createEntry`, `rename`, `addFileSystem`, `populateEntries` | a lookup answers what the first readable system has, now; a write reaches the right systems and invalidates the right cache |
| Physical (`system/`) | `physicalRoot`, the mask `operations`; the state proper is the disk | the same calls, `setAllowedOperations` | what a call reports is what is on the disk; a restricted system does not change it |
| Memory (`memory/`) | a tree of entries with data, an index by name | `addChild`, lookups, `open` | each child is found by the name it was added with, for ever |
| 7-zip (`7zip/`) | the archive's index, one decoded block, a shared input stream | the constructor, lookups, `extractEntry` | names found are names listed; data is that of the entry |
| Paths (`util.hpp`) | none; `ArchiveFileSystem` keeps a vector and an index | `normalizePath`, `addFileData`, `getFileData` | equal names normalise to equal names |
| LZMA SDK (`lib/7z`) | the database of an archive; the state of a decoder between calls; the look buffer | `SzArEx_Open`, `SzArEx_Extract`, `SzFolder_Decode`, the LZMA, LZMA2 and BCJ2 decoders, the look stream | what comes out is what was packed, however input and output are cut; all else is refused |
| utf8cpp (`lib/utf8`) | none | `utf16to8` | well-formed UTF-8 out of UTF-16 |

How they interact: `MergedFileSystem` owns its systems and asks them through
`IFileSystem`/`IFileSystemEntry` only. A `MergedEntry` wraps the entry of the first
system that listed its name and keeps its children in a cache that is rebuilt on
demand (`cacheChildren`, a *pass*) when `dirty`; writes forward to the systems and
set `dirty`. Entries of a physical system hold no state: every call asks the disk.
Those of an archive hold a name, and all share the system's index, its one decoded
block and its input stream; the constructor has the SDK read the header and copies
the names out of it, `open` has it decode a block. There are no callbacks and no
messages; what is shared is memory (the cache, the flag, the 7-zip buffers) and the
disk.

What is hard: `childrenLock` serialises passes and nothing else, so readers and
writers meet the cache without it; a call makes several disk accesses that another
call can come between; calls go through several systems, of which one can throw;
caches at several levels must be invalidated by a write at one of them; a block
cache is left behind by a decoder that gave up; a decoder must resume at any byte of
its input and output; a header has many optional parts. The complete list, line by
line, is under `hazards` in `PROJECT.json`.

## The modules

| Module | Models | State and actions |
|---|---|---|
| `VfsCore` | enumerations of `core.hpp`, `modeToOperation`, paths | a path is a sequence of components, a bit mask a set of flags |
| `Paths` | names as strings: `normalizePath`, the components of a path, boost's `/` | a string is a sequence of characters: space, separator, NUL, letters in both cases |
| `Strings_proofs` | lemmas about folds, recursive functions and strings | |
| `MergedDirectory` | what one merged directory promises, without a cache | a read answers with the overlay of the systems at one moment of the call |
| `MergedCache` | one directory `MergedEntry` shared by threads | `dirty`, `lock` (`childrenLock`), `cached` (both child containers), `disk`, and per thread the statement (`pc`) and the locals. One action per statement that touches shared state: `TestDirty`, `Lock`, `RecheckClean`/`RecheckDirty`, `ClearCache`, `ListSystem`, `AddChild`, `EndPass`, `ReadCache`; for writers `CreateInSystem`, `DeleteInSystem`, `SkipSystem`, `WriteThrows`, `MarkDirty` |
| `MergedCache_proofs` | theorems about it | |
| `DiskTree` | boost::filesystem's tree (external) | kinds of paths; what `create_directories`, `remove_all` and `rename` do |
| `DiskTree_proofs` | lemmas about it | |
| `PhysicalFS` | `PhysicalFileSystem` and its entries | the disk, the mask, and per thread the call, what it was `granted` on entry, and its next step: the checks (`Enter`/`Reject`), the tests of existence, each directory made, each path removed, the open that creates or truncates |
| `PhysicalFS_proofs` | theorems about it | |
| `MergedTree` | the tree of `MergedEntry` objects over several physical trees, one client | `known[p]`/`dirty[p]`: the cached entry at path `p`; `getEntryInternal` is one action per level (`PassOnTheWay`, `GoDown`, `NothingThere`, `Arrived`), a pass makes new entries for one level and drops those below; `DeleteHere` has each system delete, refuse, or stop half way |
| `MergedTree_proofs` | theorems about it | |
| `MemoryFS` | `MemoryFileEntry`, and the directory a merged file system makes of one | `entries`: the objects with `fileEntries` and `indexMapping`; one action per call |
| `MemoryFS_proofs` | theorems about it | |
| `SevenZip` | `SevenZipFileSystem`, its entries and `SzArEx_Extract` | `fileData`/`fileIndexes` (the index), `blockIndex`/`outBuffer`/`outBufferSize` (the block cache); `AddFileData` is a turn of the constructor's loop; per thread, `open` in the steps between which it can fail: `ExtractBlock`, `Seek`, `Decode`, `SliceDone`, `Copy` and their failures |
| `SevenZip_proofs` | theorems about it | |
| `ArchiveHeader` | `SzArEx_Open`, `SzArEx_Fill` and the constructor's conversion of names | `sd` (the bytes left), `at` (the loop that runs), `db`, `streams`, `files`, `fill`; one action per property a loop can meet |
| `ArchiveHeader_proofs` | theorems about it, and lemmas about each reader | |
| `HeaderReader` | the readers of `7zIn.c`: numbers, bit vectors, digests, folders | pure: from the bytes that are left to a value, fewer bytes, or a refusal |
| `ArchiveWriter` | a writer of headers (external) | pure: the bytes of a described archive, with each optional part or without |
| `Utf8` | `utf16to8`, `utf8to16` and what they rest on | pure |
| `FolderDecoder` | `SzFolder_Decode`, `SzDecodeLzma`, `SzDecodeLzma2`, `SzDecodeCopy` | `phase` and `ci` (the place in `SzFolder_Decode2`), `coding` (the decoder at work), `stream`, `out`, `tempBuf`; one action per turn of a loop |
| `LookStream` | `CLookToRead` over `CFileInStream` | pure, on a record of the stream |
| `LzmaDec`, `Lzma2Dec` | the decoders, on records like `CLzmaDec` and `CLzma2Dec` | pure: one call maps a decoder, a limit and some input to the decoder after it |
| `LzmaCalls` | a caller of the decoders (external) | each step feeds any number of bytes and asks for any number, in either finish mode, through `DecodeToDic` or `DecodeToBuf` |
| `LzmaStream` | an encoder (external) | pure: the bytes of a sequence of symbols |
| `Bcj2` | `Bcj2_Decode`, and an encoder (external) | pure |
| `MC_*` | small instances | `MC_Streams` has the streams that several of them use |

`MergedCache` `INSTANCE`s `MergedDirectory` with the refinement mapping
`call <- Call, answer <- found`; `MergedTree` and `PhysicalFS` share `DiskTree`;
`MemoryFS` and `SevenZip` extend `Paths`. `FolderDecoder` is composed of
`LookStream`, `LzmaDec`, `Lzma2Dec` and `Bcj2`, and `LzmaCalls` drives the two
decoders alone; `ArchiveHeader` is composed of `HeaderReader` and `Utf8` and is fed
by `ArchiveWriter`. `SevenZip` starts from the database that `ArchiveHeader` ends
with, and takes for granted what `FolderDecoder` shows of `SzFolder_Decode`: it
yields the block, or fails with anything in the buffer.

A definition whose comment starts with "Seeded fault" is not part of the model:
it is a plausible bug in the definition that follows it, used to see that the
properties notice.

### How data is abstracted

* A file of a physical tree is empty or *filled*, enough to see content destroyed.
* A byte of an archive's block is known by its block and its place there; a checksum
  by what it is the checksum of.
* A symbol of an LZMA stream costs as many bytes as the cost it is given, and each
  byte names its symbol. The decoder makes that symbol of them exactly if its model
  (state, reps, literal context, properties, number of symbols since the reset)
  equals the encoder's; otherwise *Lesser* bytes come out that belong to nothing. So
  every mistake in the bookkeeping shows, and the arithmetic of the range coder does
  not have to be carried along. The constants `RC_INIT_SIZE` and
  `REQUIRED_INPUT_MAX` (5 and 20 in the code) are 2 and 3: what matters is that a
  symbol can be cut and that `tempBuf` can be full.
* A header is a sequence of real bytes. Numbers are exact below `Huge` = 2^31-1, the
  largest TLC has; `Huge` stands for all from there on, most of which the 32-bit readers
  refuse anyway.
* Where a header makes the code read or write outside an array, or use what nobody has
  written, it ends as *undefined*: nothing is promised from there on. `7zIn.c` never looks
  at 746 (the number of streams wraps around), 814-842 (a second list of digests),
  1101-1103 and 1111 (more files with a stream than streams, or without one than
  `kEmptyFile` has bits), 1181 (more packed streams than sizes). The one case that ends
  in a value, a header without `PackInfo`, has the position of its data left to the
  `Memory` (1162).
* What `SzReadSubStreamsInfo` allocates and does not write (7zIn.c:765-793: without
  `kSize` one size is written for each folder, however many files it has) holds
  whatever was in the `Memory`.

## Runs

All constants are in the `.cfg` files and `MC_*` modules.

| Run | Question | Instance |
|---|---|---|
| `cache_exclusive` | do readers see the overlay when writers are kept apart? does the cache implement `MergedDirectory`? | 3 threads, 2 names, 2 systems, both failing, 2 writes |
| `cache_interleaved` | what holds with writers at any time? is the mutex released after every pass? does every call return? | the same, one name that nobody writes, 1 write, fairness |
| `physical_apart` | does each call do what it reports, between calls on other subtrees? | 2 threads, two directories with a file each, one path that cannot be removed, two that cannot be made files, three masks |
| `tree` | do the cached levels and lookups through them agree with the disks after any calls? what does `deleteChild` leave? when does `open` fall back to another system? | 2 systems that delete and rename, of which only the one behind creates and writes; each may fail to delete, to make or to open; 4 paths, nearly every pair of initial trees, every mode |
| `memory` | is what was added found, by the memory file system and by a merged one above it? | up to 4 entries, names that differ in spaces, case and separators, lookups of two components |
| `archive` | do the index and `open` give each file its own data, after failures and next to other threads? | 2 threads; archives with solid, damaged, empty blocks, files with and without checksums, nested names; one failing read or allocation |
| `lzma` | does the result depend on where input and output are cut? | LZMA and LZMA2 streams with every kind of symbol, chunk and reset, with and without end mark, spoilt ones; up to 5 bytes fed and 5 asked for in a call |
| `folder` | does a folder decode to what was packed, through a small look buffer and with failures? | copy, LZMA, LZMA2, filters, BCJ2; look buffers of several sizes; truncated, spoilt, too early or too late ends; properties too short; one failure |
| `header` | does a sound archive open as what was put into it, and is everything else refused? | some fifty archives: solid, filtered, BCJ2, empty folders, directories, each optional part, unknown properties, packed headers, several scripts of names, sizes above 2^24 and 2^28; cut at every byte, with wrong checksums, versions and sizes |

A disagreement between the code and what it says of itself is a run whose property
TLC refutes:

| Run | Property | What the code does |
|---|---|---|
| `cache_stable_lookup` | `StableNamesFound` | a lookup during another thread's pass misses an unchanged name |
| `physical_unwritable` | `CreatedExists` | the `ofstream` that "creates the file" could not be opened and nobody asks (`PhysicalEntry.cpp:230-232`) |
| `tree_both_modes` | `OpenFindsCapable` | for reading and writing together, a read-only system in front throws what `open` does not catch (`MergedEntry.cpp:231`) |

Four more configurations are kept for whoever changes the code; they are not in the list of
runs, and TLC finds a counterexample with each:

| Configuration | Property | What the code does |
|---|---|---|
| `cache_lost_invalidation.cfg` | `QuietCacheCurrent` | a pass that listed a system before a write to it sets `dirty = false` after it (`MergedEntry.cpp:111`, 344): the cache stays wrong when all have returned |
| `cache_fault_between.cfg` | `QuietCacheCurrent` | a system throws `InvalidOperationException` after an earlier one has deleted (302, 312): the name stays in a clean cache |
| `tree_refused_delete.cfg` | `DeletedEverywhere` | the exception of a system that cannot delete is swallowed and another's `true` returned (302) |
| `tree_half_deleted.cfg` | `AbsentNotFound` | a `remove_all` that stops half way leaves the entry clean (302-313): lookups find what is gone |

The passing runs say what is left of each promise: `CleanCacheHoldsStable` and
`AnswersCurrent`, `CreatedUnlessRefused`, `DeletedUnlessRefused`, `CacheFresh` and
`LookupIsCurrent` (which except what lies below a directory deleted by half), `OpenFallsBack`.

The file systems never stop, so deadlock is checked there; `lzma`
and `header` end, and have the check off.

### Observations

What the models show besides, each followed by the code faithfully:

* `PhysicalEntry.cpp:100` and `:264`: `getChild` and `createEntry` build the entry from
  the name alone, that is from the physical root, having tested the path below the
  entry; `test/system/directory.cpp:80-81` expects the other. `Target` is what is tested.
* `PhysicalEntry.cpp:254`: the case `DIRECTORY` has no `break`; an existing directory
  is refused as an invalid type.
* `PhysicalEntry.cpp:334`: `rename` passes its check with either of `OP_DELETE` and
  `OP_CREATE`.
* `MergedEntry.cpp:59`: the names of children are cut by the length of the parent's
  path; entries of a memory file system below the root have no parent's path in
  theirs (`MemoryFileEntry.cpp:147`).
* `SevenZipFileSystem.cpp:129`: names are normalised before their NUL goes, and
  entries normalise them again, so a name of the archive that ends in spaces or
  separators is listed but does not open. An item whose name normalises to nothing is
  listed by the root as a child that is the root once more; `ListingIsTheDirectory`
  leaves both out, and the archive `Names` of the run has them.
* `SevenZipFileSystem.cpp:259`: after a read that failed in the middle of a block,
  a file without a checksum of its own is served out of the half-filled buffer.
* `SevenZipFileSystem.cpp:127`: a name with a lone surrogate makes the constructor throw
  an exception of utf8cpp, not a `FileSystemException`.
* `7zDec.c:159` and `:209`: `dicBufSize != outSize` can never hold; a stream whose mark
  comes early is accepted, although `LzmaDec.h:96` asks the caller to compare sizes.
  The rest of the buffer stays as it was, and only a checksum tells.
* `7zDec.c:157` and `:207`: when all output is there and the look buffer ends inside
  the end mark, a sound stream is refused (`RefusedJustAtTheMark` has exactly this case).
* `7zIn.c:412`: a skip that fails is not noticed; the loop goes on with the bytes left
  and ends at the end of the header.

With `Apart = FALSE` `CreateKeepsContent` fails: of two callers that create one file
the later empties what the first has written.

### Why the bounds are enough

* *Threads.* Three are needed in `MergedCache`: one in a pass, one waiting for the
  mutex that then finds the cache clean, and one that writes or reads in between.
  Two suffice for a pair of physical calls, since a call races with
  one disk access of another, and for two users of one block.
* *Systems.* Two: one that shadows and one that is shadowed, either of which can fail.
* *Names.* Two in the cache: one written, one not; names are independent of each
  other. For trees a directory with a child and a name beside it: one name to shadow,
  one to rename to, and a level whose cache outlives a write above it. A third level
  repeats the step from the first to the second. That directories with children
  are renamed, and any number of systems, is left to the theorems, which are about all trees.
* *Writes.* `MaxWrites`: a lost invalidation needs one write during a pass, a
  repeated one two. `cache_exclusive` has two, `cache_interleaved` one with three threads
  (two threads with two writes give the same answers). All other counters are bounded by the code's loops.
* *Entries.* `MaxEntries = 4`: the root, a directory, and two children with names
  that collide, at one level or at two.
* *Faults.* `MaxFaults = 1`: what a failure leaves behind is met by the next call
  that succeeds; a second failure starts from the same states.
* *Words.* `WordSize = 16` is larger than every file of `archive`, as 2^32 is in
  practice: a larger file in front of another would shift it (7zIn.c:1394).
* *Cuts.* Calls of `lzma` take at most 5 bytes and give at most 5: more than a
  symbol costs, more than the window, and more than a match is long, so that each
  can be cut at every place and also pass uncut.
* *Archives.* `header` has no bound but its list; each part of a header occurs in
  front of, behind and without each part that can follow it.

### Fairness

`FairSpec` assumes weak fairness of the steps of each thread: a thread inside a call
keeps running, as the operating system's scheduler has it. Nothing is assumed about
which waiter gets the mutex (`boost::mutex` promises no order), nor that anybody
starts a call. `CallsReturn` therefore excepts two kinds of behaviour: one in which passes
fail for ever, so that the cache stays dirty, and one in which somebody repeats
`populateEntries` for ever, which takes the mutex whether or not the cache is dirty. In both a
waiter can be passed again and again. In all others the threads leave the cache clean and
cannot need the mutex again before a write, of which there are finitely many.

That the loops of the decoders and of the header end is stated without fairness, as
the invariants `LoopsEnd`: turns are counted and bounded by the bytes read and written.

### The rules for callers

`Exclusive` (in `MergedCache`), `Apart` (in `PhysicalFS`), `Disciplined` (in
`MergedTree`) and `MayExtract` (in `SevenZip`) are the rules under which the strong
properties hold; the code enforces none of them. `Exclusive`: a thread writes only
while no other is in a call. `Apart`: calls that overlap are about separate subtrees.
`Disciplined`: renames stay in one directory and systems are added before the first
read; clients that do otherwise see stale entries, and no property speaks of them. `MayExtract`: an `open` overlaps others only when they are past the cache and in
the same block. `cache_interleaved` and `cache_lost_invalidation` have the rule off, `ReadOnlyKept`
does not need it. `FaultsComeFirst` is the one order of systems under which a throwing
`deleteChild` leaves no stale cache; `cache_fault_between` has another. The races that a rule
excludes (`PhysicalEntry.cpp:218` and 281, `SevenZipFileSystem.cpp:259`, `MergedEntry.cpp:370`,
`MergedFileSystem.cpp:23`) are hazards that no property covers.

## What is proved

The theorems hold for every set of threads and names, every number of systems and
every tree, every string and every archive. They assume the named assumptions on the
constants (*Assumptions* below) and what each of them says it assumes.

`MergedCache_proofs` rests on the inductive invariant `IInv`:

* `TypeOK`;
* `LockInv`: a thread is between the lock and the end of its pass exactly if it holds the mutex;
* `ExclusionInv` and `WriterInv`: who is alone, and that `success` means that an
  earlier system had the name;
* `PassInv`: during a pass `dirty` is true, and the cache is the overlay of the
  systems already visited (`UpTo`), plus, of the current one, the children already added;
* `CleanInv`: a clean cache is the overlay, except for names that a write call has
  changed and not yet marked;
* `ReadInv`: what an exclusive reader is about to read, or has read, is the overlay.

`PassInv` is what makes it inductive: the overlay at the end of a pass follows from
what is true after each child, and only for names that nobody writes meanwhile
(`Settled`). From `IInv` follow `CleanCacheIsRight`, `MutexIsReleased`, `ReadersSeeTheOverlay` and
`PassesAreSerialised`; `CacheIsTransparent` shows that each step is a step
of `MergedDirectory` or a stutter: a read call answers at `ReadCache`, a write
takes effect at each `CreateInSystem` and `DeleteInSystem`.

`DiskTree_proofs` has what both file systems on disks rest on: making a path in a
directory, removing a leaf, clearing a subtree and moving one keep a tree a tree
(`MakeKeepsTree`, `RemoveKeepsTree`, `ClearKeepsTree`, `MoveKeepsTree`), and which paths
each of them changes.

`PhysicalFS_proofs` has a theorem for every property of the run. `TypeCorrect` needs no
rule for callers: whatever overlaps, the disk stays a tree. The others assume `Apart`, and
rest on `Base`:

* `Typed`, `DiskOK` (a tree, content only in files), `CallInv` (a call under way is one a
  client makes, about a path that occurs);
* `ApartInv`: the scopes of two calls under way do not contain each other;
* `KnowsInv`: what a call has found out and still relies on - the file that `open` tested for is a
  file, the path that `createEntry` found free is free, its directory is there.

`ChangesInScope` is the fact about the code that carries it: a step changes kinds only
below its call's scope, and above it only where no directory was. So another call's step
leaves alone what this one knows and what it has done (`OthersKeep`), and the call's own
steps are looked at one by one (`OwnKnows`, `OwnMade`, `OwnGone`). `CreatedIsThere` is about any
`Unwritable` paths: an entry that is not there is a file that could not be written. It is
the strongest that holds, since `createEntry` breaks its word just there (`physical_unwritable`).
`ReadOnlySystemKeepsDisk` needs no rule for callers either. Its invariant `GrantedInv` says
that past its checks a call was granted what it needs, and a stream its `OP_WRITE`; so every
step that takes a path, adds one or changes content belongs to a call or a stream that was
granted more than `OP_READ`, whatever the mask has become since. It does not say that
`setAllowedOperations` stops calls already let in: the code asks once, at the head of a call.

`MergedTree_proofs` has a theorem for every property of its passing run. `Shape` says that
disks and cache are trees and what a call knows of its place in its walk (`CallInv`: the entry it
stands on is above its goal; a level of `populateEntries` has no entry below another).
`TypeCorrect` and `CapableSystemIsFound` need no more. `Fresh` is `CacheFresh` with its
hypothesis taken out: a *trusted* entry, clean and below clean ones, has for each child the
system that supplies it now, or, where a deletion failed half way (`halved`), some system. It is inductive together with `Shape`, one lemma per call that
disturbs it (`PassFresh`, `DeleteFresh`, `CreateFresh`, `RenameFresh`): a write changes the
children of one entry and dirties that entry; a pass makes the entry right and replaces
those below by dirty ones, so that nothing the pass has overtaken is trusted. It holds for
`Disciplined` clients; for others `CacheFresh` says nothing. `LookupsAreCurrent` follows
since the walk goes down trusted entries only, and where an entry has no child for the
next component no system has anything below it (`NoneBelow`). `DeletedFromAll`
follows in the same way for an answer given on the walk, and from `DeleteHere` for one given at
its end: what is left is in systems whose exception was swallowed. `CapableSystemIsFound` is about any
modes and any failures; its hypothesis, that the systems asked before have all the operations
of the mode, is what the code lacks a test for (`tree_both_modes`).

`MemoryFS_proofs` rests on `Tree` (objects refer to objects and positions that exist),
`Indexed` (a name of an index leads to an entry that bears it) and `FirstOfName` (children
are in the order they came, and an index has the first of each name). `AddChildAdds`
says what `addChild` changes, the only call that changes anything. Two facts carry the
step: `insert` leaves a name alone that is there, and `push_back` leaves positions
alone; so `FindIsStable`, of which `NamesStayFound` is the temporal form. The other two
theorems are about folds: a lookup folds `Find` over the components of the path, and
`WalksFindTheName` needs its last step only, for paths of any length; `cacheChildren`
folds the children into a map, and `MergedFilesTheSame` follows from what such a map holds after k
children: for each name so far the first that has it (`MergedHasFirsts`).

`Strings_proofs` is what makes facts about folds provable. The prover cannot apply an
induction rule to a formula, but it can to a set: a set of numbers that has 0, and with a
number the next, has them all (`Induction`, from well-foundedness). With it the recursive
function behind `FoldLeft` is shown to exist, and a fold to be its base where the
sequence is empty and one `Op` more for each element (`FoldSteps`); and a fold over a set,
whose order is a `CHOOSE`, to be free to take any element last if `Op` commutes
(`SetFoldLast`). `RecursionIs` does the same for a function whose value at a number
rests on what it is below, which is what a loop over the bytes left is. `Op` is a constant of the module, which the proofs above instantiate once for each
operation they fold. On these rest the lemmas about strings: what trimming leaves, and that
the components of a string tell it (`PartsTell`) and where its last one begins
(`PartsBehind`).

`SevenZip_proofs` is about the block cache of `SzArEx_Extract` under threads that obey
`MayExtract`. Its inductive invariant `IInv` has the types and

* `Knows(t)`: what thread `t` may rely on in its place: from the seek on `blockIndex` is
  its block; from the allocation on the buffer has the block's length and
  `outBufferSize` says so; past the decoder the bytes are the block's, if it is sound;
  past the checksum the slice is the file's;
* `Buffer`: a buffer that is left behind is as long as the block `blockIndex` names and,
  if that block is sound and nothing has failed, holds it;
* `Alone`: of two calls that overlap both are in one block and one is past the cache;
  if the other fills the buffer the block is empty.

The argument turns on `OthersKeepTheCache`: whoever takes a step while another call is
under way leaves the cache as it is. The case that makes this more than exclusion is a
block of no bytes: its buffer is a null pointer, so that a second `open` decodes it
again although the first is past the cache. From `IInv` follow `BufferAlwaysFits`,
`OpenGivesTheFile` and `SoundFilesAlwaysOpen`; the last two assume `SizesFit`, that the
sum of 7zIn.c:1394 is where the file lies and that files end inside their block.
`SizesAddUp` shows that this is so for every archive that is `WellPacked`: no size reaches
`WordSize` (2^32), what stands between the files of a block is empty, and the files
are not larger than the block. `MC_SevenZip` evaluates both for the archives of the run.

`ListsTheDirectory` is about the index. Names of the index begin with no separator
(`NamesTyped`); `listChildren` collects the entries that pass `IsChild` (`ChildrenAre`, a
fold over the index); and `ChildIs` shows that the test by prefix and last separator is the
same as having the path's components and one more, because components tell the string and the
last of them is what stands behind the last separator. `ChildIsFound` puts a listed name
together again from the path and its last component, which is what `getChild` looks up.

`ArchiveHeader_proofs` is about what opening does with any bytes at all, up to the places where
the code leaves its arrays (*undefined*, above). `Keeps` and
`Gives` say of a reader what every caller relies on: it leaves no more bytes than it was
given, fails if it was given a failure, and otherwise yields a value of its kind.
There is a lemma for each reader of `HeaderReader`, from a byte (`SzReadByteIs`) up to the
folders with their sizes (`UnpackPrefixIs`). Readers that read lists rest on one lemma about
`ForEach` (`ListIs`), the loops that end on what they read (`SzWaitAttribute`, a coder's
alternatives) on one about `Loop` (`LoopIs`): each turn must use something up. The
inductive invariant `IInv` has `TypeOK` and

* `ParsedFits`: the database, the streams and the files have their types; `SizedFolders`
  are folders with a size for each output of their coders;
* `HeaderInv`: in the loop over digests there are as many sizes as the folders have files,
  which is what makes `Distributed` fill all places (`DistributedIs`); before the end of the
  header nothing is filled;
* `TurnsInv`: each step has been paid for by a byte that is gone. Two steps read nothing,
  `SubEnd` and `DecodePackedStreams`; the step before each of them has read for both (`Owed`),
  and the packed header's bytes are counted from the moment they come.

There is a lemma for each action. `ReadingOn` gathers what they share: a reader that
refuses ends all, and one that does not leaves fewer bytes. `FilledIs` is the invariant of
`SzArEx_Fill`'s loop (`GoodFill`): folders before the one at hand are full or empty, and a
folder that has files has its first one noted before a file goes to it. So
`TypeCorrect` says, with `IsPlaced`, that `SzArEx_Extract` finds a folder and a first file for
every file with a stream, which it does not look at itself (7zIn.c:1334, 1392); and
`LoopsAreBounded` that no file keeps `SzArEx_Open` busy for longer than its length allows.
Both hold for all bytes, but of a header that ends as undefined `TypeCorrect` says no more
than of one that is refused, and `LoopsAreBounded` counts it as ended.

### Assumptions

Besides the rules for callers named with each theorem: `PathsAssumption` (the paths of a
disk are sequences of strings, closed under parents), `CallersAssumption` and `SystemsAssumption`
(clients and systems use the modes, masks and paths there are), `StringsAssumption` and
`ArchivesAssumption` (names are sequences of characters; the parser's folder numbers
and sizes are what their types say), `FilesAssumption` (a header is a sequence of
numbers, and memory holds something), `MaxEntriesAssumption` and the `BoundsAssumption`s. TLC evaluates
each of them in the runs.

### Only model-checked

* `CallsReturn`: liveness under fairness is out of the prover's reach.
* The properties of the runs that expect a violation, which are false.
* `OpenedIsTheArchive`, `FilesAreWhereTheyWerePut` and `OpensJustIfSound` of `ArchiveHeader`: they
  relate what is read to what a writer wrote, byte by byte, which is an induction over
  both of them.
* `FolderDecoder` and `LzmaCalls`, their types included: the decoders are written with
  recursive operators, which the prover does not accept even in a module that a theorem
  only reaches. Each of their properties compares a decoder's state with an encoder's
  over a whole stream.

## Not modelled

* Empty names in calls of a merged entry, `lastWriteTime`, symbolic links and
  special files.
* In `MergedCache`: the root entry (it asks the systems' root entries directly and so
  meets no throwing `getChild`), and the identity of the child entries. The entry a
  call returns is represented by the system it came from.
* A read of `dirty` that races with a write sees the old or the new value. A lookup
  that races with `clear` or `insert` of another thread sees each child or
  not; that such a race may also crash is not modelled.
* In `MergedTree`: overlapping calls (`MergedCache` has them), disks that
  fail to list or to rename, systems whose root has vanished, memory-mapped opening (`PhysicalFS` has
  these), and entries that the cache has dropped and the client still holds.
* In `SevenZip`: opens that overlap against `MayExtract`, whose data races leave
  nothing to promise; allocations that fail in the constructor; the times, sizes and
  checksums of the index, which no call but `lastWriteTime` shows.
* In `ArchiveHeader`: allocations that fail; numbers of 2^31-1 and more told apart (as a
  count or a size, 2^31-1 itself is refused); what happens to a header after it has
  made the code leave an array; reads of the file that fail (`LookStream` has them,
  below `FolderDecoder`).
* In the decoders: the arithmetic of the range coder and its probabilities; the
  branch filters, which `FolderDecoder` takes as a function of the whole buffer.
* PPMd (`7zDec.c` does not compile its use), `CpuArch.c`, the checksum's tables, the
  lookahead mode of the stream, writing to files, and the Windows code.
* The entry points of utf8cpp that the library does not call.

## Plan

1. Done: `VfsCore`, `MergedDirectory`, `MergedCache`; `DiskTree`,
   `PhysicalFS`; `MergedTree`; `Paths`, `MemoryFS`, `SevenZip`;
   the SDK: `LzmaDec`, `Lzma2Dec`, `LookStream`, `Bcj2`, `FolderDecoder`,
   `HeaderReader`, `ArchiveHeader`, `Utf8`; a theorem for every safety property
   of the file systems, and those about the archive's header that hold for all bytes.
2. `FolderDecoder`'s turns with recursive functions in place of recursive operators, so that
   its `LoopsEnd` can be proved as that of `ArchiveHeader` is.
3. `MergedTree` with roots that vanish, and entries the client holds after the cache has
   dropped them.
