---------------------------- MODULE ArchiveHeader ---------------------------
(***************************************************************************)
(* SzArEx_Open of lib/7z/7zIn.c: from a file to the database of what is in *)
(* the archive, and on to the names that the 7-zip file system indexes     *)
(* (SevenZip models what it does with them).  A step is a turn of a loop   *)
(* over the header's properties, or the code between two such loops.       *)
(*                                                                         *)
(* A checksum is what it is the checksum of.  A packed header is decoded   *)
(* by FolderDecoder's SzFolder_Decode, which is right if it is asked for   *)
(* what was packed.                                                        *)
(***************************************************************************)
EXTENDS HeaderReader, Utf8

CONSTANTS
    Files,      \* what there is to open
    Memory      \* what a place of an array may hold that nobody has written

(* A header is bytes, and so is what the folder of a packed one decodes to. *)
ASSUME FilesAssumption ==
    /\ \A f \in Files : f.next \in Seq(Nat) /\ f.packed.bytes \in Seq(Nat)
    /\ Memory \in SUBSET Nat \ {{}}

VARIABLES
    file,       \* the file that is opened
    at,         \* the loop that is being run
    sd,         \* what is left of the header
    encoded,    \* no, or it tells where the header is packed, or was there
    db,         \* CSzAr, and dataPos without what comes in front of it
    streams,    \* unpackSizes, digests and whether a list of them was
                \* read, and the ID that ended the last loop
    files,      \* the items, and what is told of all of them together
    fill,       \* what SzArEx_Fill computes
    names,      \* utf8Name of each item, in the constructor
    result,
    turns       \* history: the steps that were taken

parsed == <<db, streams, files>>
vars == <<file, at, sd, encoded, parsed, fill, names, result, turns>>

k7zStartHeaderSize == 32

NoDb == [dataPos |-> 0, packSizes |-> << >>, packCrcs |-> << >>, folders |-> << >>]
NoStreams == [sizes |-> << >>, digests |-> << >>, listed |-> FALSE, type |-> k7zIdEnd]
NoFiles == [num |-> 0, names |-> << >>, emptyStream |-> << >>, emptyFile |-> << >>,
            mtime |-> << >>, attrib |-> << >>, items |-> << >>]
NoFill == [startPack |-> << >>, packPos |-> << >>, startFile |-> << >>, map |-> << >>]

Init ==
    /\ file \in Files
    /\ at = "open"
    /\ sd = << >>
    /\ encoded = "no"
    /\ db = NoDb /\ streams = NoStreams /\ files = NoFiles
    /\ fill = NoFill
    /\ names = << >>
    /\ result = "none"
    /\ turns = 0

(***************************************************************************)
(* The frame of a step.  A reader that refuses ends all; SzArEx_Open then  *)
(* frees what was read.  What a read or a write outside of an array leads  *)
(* to is not told: the result is "undefined".                              *)
(***************************************************************************)
Refuse(why) ==
    /\ at' = "done" /\ result' = why
    /\ sd' = << >> /\ db' = NoDb /\ streams' = NoStreams /\ files' = NoFiles
    /\ UNCHANGED <<file, encoded, fill, names>>

Opened(place) ==
    /\ at' = place
    /\ result' = IF place = "done" THEN "ok" ELSE result

Start == Reader(sd)

(* The next ID, one of ids; what Read reads behind it goes to Go.          *)
Reading(place, ids, Read(_), Go(_, _)) ==
    /\ at = place
    /\ \E id \in {SzReadID(Start)} :
         /\ ~Failed(id) /\ id.v \in ids
         /\ \E r \in {Read(id)} :
              IF Failed(r) THEN Refuse(r.res)
              ELSE sd' = r.sd /\ Go(r.v, id.v) /\ UNCHANGED <<file, names>>

(* There is no ID, or it is none of ids.                                   *)
Unexpected(place, ids, why) ==
    /\ at = place
    /\ \E id \in {SzReadID(Start)} :
         IF Failed(id) THEN Refuse(id.res) ELSE id.v \notin ids /\ Refuse(why)

(* A property of another kind is passed over.                              *)
Skipping(place, ids) ==
    /\ at = place
    /\ \E id \in {SzReadID(Start)} :
         IF Failed(id) THEN Refuse(id.res)
         ELSE /\ id.v \notin ids
              /\ \E r \in {SzSkeepData(id)} :
                   IF Failed(r) THEN Refuse(r.res)
                   ELSE /\ sd' = r.sd
                        /\ UNCHANGED <<file, at, encoded, parsed, fill, names, result>>

NoMore(r) == r

Goto(place) == Opened(place) /\ UNCHANGED <<encoded, parsed, fill>>

(***************************************************************************)
(* SzArEx_Open2: the start header, in this order of checks.                *)
(***************************************************************************)
NextHeaderFits == k7zStartHeaderSize + file.nextOffset + file.nextSize <= file.length

Refusal ==
    CASE file.length < k7zStartHeaderSize \/ ~file.signature -> "no archive"
      [] file.length >= k7zStartHeaderSize /\ file.signature /\ file.version # 0 -> "unsupported"
      [] OTHER ->
           IF file.startCrc # <<file.nextOffset, file.nextSize, file.nextCrc>> THEN "crc"
           ELSE IF file.nextSize > 0 /\ ~NextHeaderFits THEN "input eof"
           ELSE IF file.nextSize > 0 /\ file.nextCrc # file.next THEN "archive"
           ELSE "ok"

Open ==
    /\ at = "open"
    /\ IF Refusal # "ok" THEN Refuse(Refusal)
       ELSE /\ sd' = file.next
            /\ Opened(IF file.nextSize = 0 THEN "done" ELSE "type")
            /\ UNCHANGED <<file, encoded, parsed, fill, names>>

(* SzReadStreamsInfo may find no PackInfo, and then nobody has written the *)
(* position of the data.                                                   *)
StreamsInfo(how) ==
    /\ \E old \in Memory : db' = [db EXCEPT !.dataPos = old]
    /\ Opened("streams") /\ encoded' = how
    /\ UNCHANGED <<streams, files, fill>>

EncodedHeader ==
    /\ encoded = "no"
    /\ Reading("type", {k7zIdEncodedHeader}, NoMore, LAMBDA v, id : StreamsInfo("packed"))

Header == Reading("type", {k7zIdHeader}, NoMore, LAMBDA v, id : Goto("header"))

OtherHeader ==
    Unexpected("type", {k7zIdHeader} \cup (IF encoded = "no" THEN {k7zIdEncodedHeader} ELSE {}),
               "unsupported")

(***************************************************************************)
(* SzReadArchiveProperties does not look whether its skip succeeds.        *)
(***************************************************************************)
ArchiveProperties ==
    Reading("header", {k7zIdArchiveProperties}, NoMore, LAMBDA v, id : Goto("properties"))

(* Seeded fault: a skip that fails is tried again.                         *)
ArchivePropertyAgain ==
    /\ at = "properties"
    /\ \E id \in {SzReadID(Start)} :
         IF Failed(id) THEN Refuse(id.res)
         ELSE /\ sd' = IF id.v = k7zIdEnd THEN id.sd
                       ELSE IF Failed(SzSkeepData(id)) THEN sd ELSE SzSkeepData(id).sd
              /\ Goto(IF id.v = k7zIdEnd THEN "main" ELSE at)
              /\ UNCHANGED <<file, names>>

ArchiveProperty ==
    /\ at = "properties"
    /\ \E id \in {SzReadID(Start)} :
         IF Failed(id) THEN Refuse(id.res)
         ELSE /\ sd' = IF id.v = k7zIdEnd THEN id.sd ELSE SzSkeepData(id).sd
              /\ Goto(IF id.v = k7zIdEnd THEN "main" ELSE at)
              /\ UNCHANGED <<file, names>>

MainStreamsInfo ==
    \E place \in {"header", "main"} :
        Reading(place, {k7zIdMainStreamsInfo}, NoMore, LAMBDA v, id : StreamsInfo(encoded))

NoFilesInfo ==
    \E place \in {"header", "main", "files info"} :
        Reading(place, {k7zIdEnd}, NoMore, LAMBDA v, id : Goto("done"))

FilesInfo ==
    \E place \in {"header", "main", "files info"} :
        Reading(place, {k7zIdFilesInfo}, SzReadNumber32,
                LAMBDA v, id : /\ files' = [files EXCEPT !.num = v]
                               /\ Opened("files")
                               /\ UNCHANGED <<encoded, db, streams, fill>>)

NoInfo ==
    \/ Unexpected("header", {k7zIdArchiveProperties, k7zIdMainStreamsInfo,
                             k7zIdFilesInfo, k7zIdEnd}, "archive")
    \/ Unexpected("main", {k7zIdMainStreamsInfo, k7zIdFilesInfo, k7zIdEnd}, "archive")
    \/ Unexpected("files info", {k7zIdFilesInfo, k7zIdEnd}, "archive")

(***************************************************************************)
(* SzReadStreamsInfo and SzReadPackInfo.                                   *)
(***************************************************************************)
StreamsEnd ==
    Reading("streams", {k7zIdEnd}, NoMore,
            LAMBDA v, id : Goto(IF encoded = "packed" THEN "decode" ELSE "files info"))

NoStream ==
    Unexpected("streams", {k7zIdEnd, k7zIdPackInfo, k7zIdUnpackInfo, k7zIdSubStreamsInfo},
               "unsupported")

PackPrefix(r) ==
    LET Of(q, offset) == Value(q, [dataPos |-> offset, sizes |-> q.v])
        Sizes(n, offset) == Of(Numbers(SzWaitAttribute(n, k7zIdSize), n.v), offset)
        Count(o) == Sizes(SzReadNumber32(o), o.v)
    IN  Count(SzReadNumber(r))

PackInfoStart ==
    Reading("streams", {k7zIdPackInfo}, PackPrefix,
            LAMBDA v, id :
                /\ db' = [db EXCEPT !.dataPos = v.dataPos, !.packSizes = v.sizes,
                                    !.packCrcs = [i \in DOMAIN v.sizes |-> << >>]]
                /\ Opened("pack") /\ UNCHANGED <<encoded, streams, files, fill>>)

PackCrcs ==
    Reading("pack", {k7zIdCRC}, LAMBDA r : SzReadHashDigests(r, Len(db.packSizes)),
            LAMBDA v, id : /\ db' = [db EXCEPT !.packCrcs = v]
                           /\ Opened(at) /\ UNCHANGED <<encoded, streams, files, fill>>)

(***************************************************************************)
(* SzReadUnpackInfo.                                                       *)
(***************************************************************************)
FolderUnpackSizes(r, f) ==
    LET Of(q) == Value(q, [f EXCEPT !.sizes = q.v]) IN Of(Numbers(r, NumOut(f.coders)))

UnpackSizes(r, folders) == IF Failed(r) THEN r ELSE ForEach(r, folders, FolderUnpackSizes)

UnpackPrefix(r) ==
    LET Sizes(q) == UnpackSizes(SzWaitAttribute(q, k7zIdCodersUnpackSize), q.v)
        Folders(n) == Sizes(ForEach(SzReadSwitch(n), Times(n.v),
                                    LAMBDA q, i : SzGetNextFolderItem(q)))
    IN  Folders(SzReadNumber32(SzWaitAttribute(r, k7zIdFolder)))

SetFolders(folders, place) ==
    /\ db' = [db EXCEPT !.folders = folders]
    /\ Opened(place) /\ UNCHANGED <<encoded, streams, files, fill>>

WithCrcs(folders, crcs) == [i \in DOMAIN folders |-> [folders[i] EXCEPT !.crc = crcs[i]]]
WithNums(folders, nums) == [i \in DOMAIN folders |-> [folders[i] EXCEPT !.num = nums[i]]]

UnpackInfoStart ==
    Reading("streams", {k7zIdUnpackInfo}, UnpackPrefix,
            LAMBDA v, id : SetFolders(v, "unpack"))

UnpackCrcs ==
    Reading("unpack", {k7zIdCRC}, LAMBDA r : SzReadHashDigests(r, Len(db.folders)),
            LAMBDA v, id : SetFolders(WithCrcs(db.folders, v), at))

(***************************************************************************)
(* SzReadSubStreamsInfo: how many files a folder has, how long they are -  *)
(* the last one is what is left - and the digests that are not known yet.  *)
(***************************************************************************)
SubStreamsStart ==
    Reading("streams", {k7zIdSubStreamsInfo}, NoMore,
            LAMBDA v, id : SetFolders([i \in DOMAIN db.folders |->
                                         [db.folders[i] EXCEPT !.num = 1]], "sub"))

SubNumbers ==
    Reading("sub", {k7zIdNumUnpackStream}, LAMBDA r : Numbers32(r, Len(db.folders)),
            LAMBDA v, id : SetFolders(WithNums(db.folders, v), at))

(* Seeded fault: the last file is as long as all together.                 *)
LastSizeWhole(f, sizes) == SzFolder_GetUnpackSize(f)

LastSize(f, sizes) == SzFolder_GetUnpackSize(f) - Total(sizes)

(* The sizes of one folder's files, all but the last one read.             *)
FolderSizes(r, f, type) ==
    LET Of(q) == Value(q, Append(q.v, LastSize(f, q.v)))
    IN  IF f.num = 0 THEN Value(r, << >>)
        ELSE IF type = k7zIdSize THEN Of(Numbers(r, f.num - 1))
        ELSE Value(r, <<LastSize(f, << >>)>>)

NumUnpackStreams(folders) == Total([i \in DOMAIN folders |-> folders[i].num])

(* A count of 2^32 and more has wrapped around, and the arrays are short.  *)
Wrapped(folders) == NumUnpackStreams(folders) \div 4 >= 2 ^ 30

(* r.v is the ID in front of them.                                         *)
Sizes(r) ==
    LET Of(q, sizes) == Value(q, [sizes |-> FlattenSeq(sizes), type |-> q.v])
        Type(q, type) == Of(IF type = k7zIdSize THEN SzReadID(q) ELSE Value(q, type), q.v)
    IN  IF Wrapped(db.folders) THEN Refused(r, "undefined")
        ELSE Type(ForEach(r, db.folders, LAMBDA q, f : FolderSizes(q, f, r.v)), r.v)

(* There is a place for each file.  Without kSize one place is written for *)
(* a folder, and the last ones keep what was in the memory.                *)
Places(sizes, old) ==
    [i \in 1..NumUnpackStreams(db.folders) |-> IF i \in DOMAIN sizes THEN sizes[i] ELSE old]

SubSizes ==
    Reading("sub", {k7zIdSize, k7zIdCRC, k7zIdEnd}, Sizes,
            LAMBDA v, id :
                /\ \E old \in Memory :
                     streams' = [sizes |-> Places(v.sizes, old), type |-> v.type, listed |-> FALSE,
                                 digests |-> [i \in 1..NumUnpackStreams(db.folders) |-> << >>]]
                /\ Opened("digests") /\ UNCHANGED <<encoded, db, files, fill>>)

Known(f) == f.num = 1 /\ f.crc # << >>

NumDigests(folders) ==
    Total([i \in DOMAIN folders |-> IF Known(folders[i]) THEN 0 ELSE folders[i].num])

(* Seeded fault: there is no digest for a folder whose own is known.       *)
DistributedRead(folders, digests) ==
    LET Give(a, f) == IF Known(f) THEN a
                      ELSE [l |-> a.l \o SubSeq(digests, a.n + 1, a.n + f.num),
                            n |-> a.n + f.num]
    IN  FoldLeft(Give, [l |-> << >>, n |-> 0], folders).l

(* a.n of the digests are given, and a.l has a place for each file.        *)
GiveTo(digests, a, f) ==
    IF Known(f) THEN [a EXCEPT !.l = Append(@, f.crc)]
    ELSE [l |-> a.l \o SubSeq(digests, a.n + 1, a.n + f.num), n |-> a.n + f.num]

Distributed(folders, digests) ==
    FoldLeft(LAMBDA a, f : GiveTo(digests, a, f), [l |-> << >>, n |-> 0], folders).l

(* A turn of the last loop, whose ID was read before: then comes the next. *)
DigestsTurn(r, Taken(_), listed) ==
    IF Failed(r) THEN Refuse(r.res)
    ELSE \E id \in {SzReadID(r)} :
           IF Failed(id) THEN Refuse(id.res)
           ELSE /\ sd' = id.sd
                /\ streams' = [streams EXCEPT !.type = id.v, !.digests = Taken(r.v),
                                              !.listed = listed]
                /\ UNCHANGED <<file, at, encoded, db, files, fill, names, result>>

(* si starts at 0 just once: a second list goes behind the arrays.         *)
OnlyList(r) == IF streams.listed /\ streams.sizes # << >> THEN Refused(r, "undefined") ELSE r

SubDigests ==
    /\ at = "digests" /\ streams.type = k7zIdCRC
    /\ \E r \in {OnlyList(SzReadHashDigests(Start, NumDigests(db.folders)))} :
           DigestsTurn(r, LAMBDA v : Distributed(db.folders, v), TRUE)

SubOther ==
    /\ at = "digests" /\ streams.type \notin {k7zIdCRC, k7zIdEnd}
    /\ DigestsTurn(SzSkeepData(Start), LAMBDA v : streams.digests, streams.listed)

SubEnd ==
    /\ at = "digests" /\ streams.type = k7zIdEnd
    /\ Goto("streams") /\ UNCHANGED <<file, sd, names>>

(* What the other loops pass over, and how they end.                       *)
Skip ==
    \/ Skipping("pack", {k7zIdEnd, k7zIdCRC})
    \/ Skipping("unpack", {k7zIdEnd, k7zIdCRC})
    \/ Skipping("sub", {k7zIdNumUnpackStream, k7zIdSize, k7zIdCRC, k7zIdEnd})

EndOfLoop ==
    \E place \in {"pack", "unpack"} :
        Reading(place, {k7zIdEnd}, NoMore, LAMBDA v, id : Goto("streams"))

(***************************************************************************)
(* SzReadAndDecodePackedStreams: the header is the block of a folder.      *)
(***************************************************************************)
Asked(folder) ==
    [pos |-> k7zStartHeaderSize + db.dataPos, packSizes |-> db.packSizes,
     coders |-> folder.coders, bindPairs |-> folder.bindPairs,
     packStreams |-> folder.packStreams, size |-> SzFolder_GetUnpackSize(folder)]

DecodePackedStreams ==
    /\ at = "decode"
    /\ IF Len(db.folders) # 1 THEN Refuse("archive")
       ELSE \E folder \in {db.folders[1]} :
              IF Len(folder.packStreams) > Len(db.packSizes) THEN Refuse("undefined")
              ELSE IF Asked(folder) # file.packed.where THEN Refuse("data error")
              ELSE IF folder.crc \notin {<< >>, <<file.packed.crc>>} THEN Refuse("crc")
              ELSE /\ sd' = file.packed.bytes
                   /\ encoded' = "decoded"
                   /\ Opened("type")
                   /\ db' = NoDb /\ streams' = NoStreams
                   /\ UNCHANGED <<file, files, fill, names>>

(***************************************************************************)
(* SzReadHeader2: what is told of the files, by properties of known size.  *)
(***************************************************************************)
FilesProperty(id, Read(_, _), Go(_)) ==
    LET Of(n) == IF n.v > Len(n.sd) THEN Refused(n, "archive") ELSE Read(n, n.v)
    IN  Reading("files", {id}, LAMBDA r : Of(SzReadNumber(r)),
                LAMBDA v, type : /\ files' = Go(v)
                                 /\ Opened(at) /\ UNCHANGED <<encoded, db, streams, fill>>)

Utf16(bytes) ==
    [i \in 1..(Len(bytes) \div 2) |-> bytes[2 * i - 1] + 256 * bytes[2 * i]]

(* SzReadFileNames: each name ends in a zero, and the last one with all.   *)
FileNames(r, units, n) ==
    LET zeros == SelectSeq(Times(Len(units)), LAMBDA i : units[i] = 0)
        Names(z) == [i \in 1..n |-> SubSeq(units, 1 + IF i = 1 THEN 0 ELSE z[i - 1], z[i])]
        Checked(z) == IF Len(z) < n \/ (<<0>> \o z)[n + 1] # Len(units)
                      THEN Refused(r, "archive") ELSE Value(r, Names(z))
    IN  Checked(zeros)

NamesOf(r, size) ==
    LET Of(q) == IF Failed(q) THEN q ELSE FileNames(q, Utf16(q.v), files.num)
    IN  IF size % 2 = 0 THEN Refused(SzReadSwitch(r), "archive")
        ELSE Of(SzReadBytes(SzReadSwitch(r), size - 1))

Names == FilesProperty(k7zIdName, NamesOf, LAMBDA v : [files EXCEPT !.names = v])

EmptyStreams ==
    FilesProperty(k7zIdEmptyStream, LAMBDA r, size : SzReadBoolVector(r, files.num),
                  LAMBDA v : [files EXCEPT !.emptyStream = v])

NumEmptyStreams == Cardinality({i \in DOMAIN files.emptyStream : files.emptyStream[i]})

EmptyFiles ==
    FilesProperty(k7zIdEmptyFile, LAMBDA r, size : SzReadBoolVector(r, NumEmptyStreams),
                  LAMBDA v : [files EXCEPT !.emptyFile = v])

WinAttributes ==
    LET Of(q) == UInt32s(SzReadSwitch(q), q.v)
    IN  FilesProperty(k7zIdWinAttributes,
                      LAMBDA r, size : Of(SzReadBoolVector2(r, files.num)),
                      LAMBDA v : [files EXCEPT !.attrib = v])

(* Low and High.                                                           *)
Time(r) == ForEach(r, Times(2), LAMBDA q, i : SzReadUInt32(q))

TimeOption(r, is) ==
    LET Option(q) == Value(q, <<q.v>>) IN IF is THEN Option(Time(r)) ELSE Value(r, << >>)

Timed(r, defined) == IF Failed(r) THEN r ELSE ForEach(r, defined, TimeOption)

MTime ==
    LET Of(q) == Timed(SzReadSwitch(q), q.v)
    IN  FilesProperty(k7zIdMTime, LAMBDA r, size : Of(SzReadBoolVector2(r, files.num)),
                      LAMBDA v : [files EXCEPT !.mtime = v])

OtherProperty ==
    Skipping("files", {k7zIdEnd, k7zIdName, k7zIdEmptyStream, k7zIdEmptyFile,
                       k7zIdWinAttributes, k7zIdMTime})

(* The next of the streams goes to a file that has one.                    *)
Streamless(i) == files.emptyStream # << >> /\ files.emptyStream[i]

(* Nobody looks whether there are as many streams, and kEmptyFile bits.    *)
ItemsHavePlaces ==
    \E streamless \in {Cardinality({i \in 1..files.num : Streamless(i)})} :
        /\ files.num - streamless <= Len(streams.sizes)
        /\ files.emptyFile # << >> => streamless <= Len(files.emptyFile)

Item(i) ==
    LET before == Cardinality({k \in 1..i : Streamless(k)})
    IN  IF Streamless(i)
        THEN [hasStream |-> FALSE, size |-> 0, crc |-> << >>,
              isDir |-> files.emptyFile = << >> \/ ~files.emptyFile[before]]
        ELSE [hasStream |-> TRUE, isDir |-> FALSE,
              size |-> streams.sizes[i - before], crc |-> streams.digests[i - before]]

Items == [i \in 1..files.num |-> Item(i)]

(***************************************************************************)
(* SzArEx_Fill: where the packed streams of a folder start, which folder a *)
(* file is in, and which file is its first.                                *)
(***************************************************************************)
NoFolder == -1

SumsBefore(values) ==
    FoldLeft(LAMBDA a, n : [sum |-> a.sum + n, l |-> Append(a.l, a.sum)],
             [sum |-> 0, l |-> << >>], values).l

(* Seeded fault: a folder without files is taken for the next one.         *)
NextFolderOfAny(a, i) ==
    IF a.folder >= Len(db.folders) THEN [a EXCEPT !.res = "archive"]
    ELSE [a EXCEPT !.start[a.folder + 1] = i]

(* Folders without files are passed over, but have a first file.           *)
NextFolder(a, i) ==
    LET filled == {j \in a.folder..(Len(db.folders) - 1) : db.folders[j + 1].num # 0}
        To(g) == [a EXCEPT !.folder = g,
                           !.start = [j \in DOMAIN @ |-> IF j - 1 \in a.folder..g THEN i ELSE @[j]]]
    IN  IF filled = {} THEN [a EXCEPT !.res = "archive"] ELSE To(Min(filled))

(* The file goes to the folder at hand, which may be full then.            *)
Placed(a, item) ==
    LET map  == [a EXCEPT !.map = Append(@, a.folder)]
        Fills(q) == q.inFolder + 1 >= db.folders[q.folder + 1].num
    IN  IF ~item.hasStream THEN map
        ELSE IF Fills(map) THEN [map EXCEPT !.inFolder = 0, !.folder = @ + 1]
        ELSE [map EXCEPT !.inFolder = @ + 1]

FillFile(a, item) ==
    LET i == Len(a.map) + 1
        Place(q) == IF q.res # "ok" THEN q ELSE Placed(q, item)
    IN  IF a.res # "ok" THEN a
        ELSE IF ~item.hasStream /\ a.inFolder = 0 THEN [a EXCEPT !.map = Append(@, NoFolder)]
        ELSE Place(IF a.inFolder = 0 THEN NextFolder(a, i) ELSE a)

Filled(items) ==
    FoldLeft(FillFile, [folder |-> 0, inFolder |-> 0, map |-> << >>, res |-> "ok",
                        start |-> [j \in DOMAIN db.folders |-> 0]], items)

FilesEnd ==
    /\ at = "files"
    /\ \E id \in {SzReadID(Start)} :
         /\ ~Failed(id) /\ id.v = k7zIdEnd
         /\ IF ~ItemsHavePlaces THEN Refuse("undefined") ELSE
            \E items \in {Items} : \E a \in {Filled(items)} :
              IF a.res # "ok" THEN Refuse(a.res)
              ELSE /\ files' = [files EXCEPT !.items = items]
                   /\ fill' = [startFile |-> a.start, map |-> a.map,
                               packPos |-> SumsBefore(db.packSizes),
                               startPack |-> SumsBefore([j \in DOMAIN db.folders |->
                                                Len(db.folders[j].packStreams)])]
                   /\ sd' = id.sd
                   /\ at' = "names"
                   /\ UNCHANGED <<file, encoded, db, streams, names, result>>

(***************************************************************************)
(* The constructor's loop over the items, as far as it reads their names.  *)
(***************************************************************************)
GetFileName(i) == files.names[i]

(* Without kNames there are no offsets, and nobody looks.                  *)
ReadName ==
    /\ at = "names"
    /\ Len(names) < files.num
    /\ IF files.names = << >> THEN at' = "done" /\ result' = "undefined" /\ UNCHANGED names
       ELSE \E q \in {utf16to8(GetFileName(Len(names) + 1))} :
              IF q.res # "ok" THEN at' = "done" /\ result' = "thrown" /\ UNCHANGED names
              ELSE names' = Append(names, q.out) /\ UNCHANGED <<at, result>>
    /\ UNCHANGED <<file, sd, encoded, parsed, fill>>

AllNamed ==
    /\ at = "names"
    /\ Len(names) = files.num
    /\ Opened("done")
    /\ UNCHANGED <<file, sd, encoded, parsed, fill, names>>

Step ==
    \/ Open \/ EncodedHeader \/ Header \/ OtherHeader
    \/ ArchiveProperties \/ ArchiveProperty
    \/ MainStreamsInfo \/ FilesInfo \/ NoFilesInfo \/ NoInfo
    \/ StreamsEnd \/ NoStream \/ Skip \/ EndOfLoop
    \/ PackInfoStart \/ PackCrcs
    \/ UnpackInfoStart \/ UnpackCrcs
    \/ SubStreamsStart \/ SubNumbers \/ SubSizes \/ SubDigests \/ SubOther \/ SubEnd
    \/ DecodePackedStreams
    \/ Names \/ EmptyStreams \/ EmptyFiles \/ WinAttributes \/ MTime \/ OtherProperty
    \/ FilesEnd \/ ReadName \/ AllNamed

Next == Step /\ turns' = turns + 1

Spec == Init /\ [][Next]_vars

(***************************************************************************)
(* Properties.                                                             *)
(***************************************************************************)
(* SzArEx_Extract takes the folder of a file and the folder's first file   *)
(* out of these tables without a look whether there are such.              *)
IsPlaced(i) ==
    \/ fill.map[i] = NoFolder /\ ~files.items[i].hasStream
    \/ fill.map[i] + 1 \in DOMAIN db.folders /\ fill.startFile[fill.map[i] + 1] \in 1..i

TypeOK ==
    /\ file \in Files
    /\ at \in {"open", "type", "header", "properties", "main", "files info", "streams",
               "pack", "unpack", "sub", "digests", "decode", "files", "names", "done"}
    /\ encoded \in {"no", "packed", "decoded"}
    /\ Len(db.packCrcs) = Len(db.packSizes)
    /\ Len(streams.digests) = Len(streams.sizes)
    /\ Len(fill.map) = Len(files.items)
    /\ \A i \in DOMAIN fill.map : IsPlaced(i)
    /\ result = "none" <=> at # "done"

D == file.described

(* The files of all folders in their order, as the writer had them.        *)
Streams ==
    FlattenSeq([k \in DOMAIN D.folders |->
        [j \in DOMAIN D.folders[k].files |->
            [folder |-> k - 1, file |-> D.folders[k].files[j],
             only |-> Len(D.folders[k].files) = 1,
             before |-> FoldLeft(LAMBDA n, f : n + f.size, 0,
                                 SubSeq(D.folders[k].files, 1, j - 1))]]])

StreamIndex(i) == Len(SelectSeq(SubSeq(D.files, 1, i), LAMBDA f : f.kind = "stream"))

(* The names come out of UTF-16 as they went into it, and go back.         *)
Digits(cp, n) == [k \in 1..n |-> (cp \div 64 ^ (n - k)) % 64]

OctetsOf(cp) ==
    LET n == IF cp < 2048 THEN 2 ELSE IF cp < 65536 THEN 3 ELSE 4
        Marked(d) == [k \in 1..n |-> IF k = 1 THEN <<0, 192, 224, 240>>[n] + d[1] ELSE 128 + d[k]]
    IN  IF cp < 128 THEN <<cp>> ELSE Marked(Digits(cp, n))

NamesAreTheirs ==
    \A i \in DOMAIN names :
        /\ names[i] = FlattenSeq([k \in DOMAIN D.files[i].text |-> OctetsOf(D.files[i].text[k])])
                      \o <<0>>
        /\ utf8to16(names[i]) = [res |-> "ok", out |-> GetFileName(i)]

(* An archive that opens has the files that were put into it, whatever     *)
(* else the writer put between them: their names, kinds, sizes, checksums, *)
(* times and attributes.  A checksum that the writer left to the folder    *)
(* may stay with the folder (7zIn.c:820-846 hands it on just if others     *)
(* follow), but none is lost: SzArEx_Extract looks at both.                *)
Digest(s) == IF s.only /\ D.folders[s.folder + 1].crc # << >>
             THEN D.folders[s.folder + 1].crc ELSE s.file.crc

Checked(item, s) ==
    \/ item.crc = Digest(s)
    \/ item.crc = << >> /\ s.only /\ db.folders[s.folder + 1].crc = Digest(s)

SameItem(item, f, s) ==
    /\ item.hasStream = (f.kind = "stream")
    /\ item.isDir = (f.kind = "dir")
    /\ f.kind = "stream" => item.size = s.file.size /\ Checked(item, s)

OpenedIsTheArchive ==
    /\ NamesAreTheirs
    /\ at \in {"names", "done"} /\ files.num > 0 =>
        /\ files.num = Len(D.files)
        /\ \A s \in {Streams} : \A i \in 1..files.num :
               SameItem(files.items[i], D.files[i],
                        IF D.files[i].kind = "stream" THEN s[StreamIndex(i)] ELSE << >>)
        /\ files.mtime \in {<< >>, [i \in 1..files.num |-> D.files[i].mtime]}
        /\ files.attrib \in {<< >>, [i \in 1..files.num |-> D.files[i].attrib]}
        /\ (\E i \in 1..files.num : D.files[i].mtime # << >>) => files.mtime # << >>

(* SzArEx_Extract finds a file by its folder and by the sizes of the files *)
(* from that folder's first one on (7zIn.c:1392-1395), and the folder by   *)
(* the packed streams before it.  Both lead to where the writer put it,    *)
(* with folders that have no file and files that have no stream between.   *)
FoundAt(i) ==
    FoldLeft(LAMBDA n, item : n + item.size, 0,
             SubSeq(files.items, fill.startFile[fill.map[i] + 1], i - 1))

PackedAt(g) == k7zStartHeaderSize + db.dataPos + fill.packPos[fill.startPack[g + 1] + 1]

WrittenAt(g) ==
    FoldLeft(LAMBDA n, k : n + D.packSizes[k], k7zStartHeaderSize + D.packPos,
             [k \in 1..FoldLeft(LAMBDA n, f : n + Len(f.packStreams), 0,
                                SubSeq(D.folders, 1, g)) |-> k])

FilesAreWhereTheyWerePut ==
    at \in {"names", "done"} /\ files.num > 0 =>
        \A s \in {Streams} : \A i \in 1..files.num :
            D.files[i].kind = "stream" =>
                \E e \in {s[StreamIndex(i)]} :
                    /\ fill.map[i] = e.folder
                    /\ FoundAt(i) = e.before
                    /\ PackedAt(e.folder) = WrittenAt(e.folder)

(* A sound archive opens, however it is written; one that is cut short,    *)
(* damaged, of another version or of a kind that is not supported does     *)
(* not; a name that is no UTF-16 throws.                                   *)
OpensJustIfSound == at = "done" => (result = "ok" <=> file.sound)

(* The loops end on what any file holds: each turn uses up some of the     *)
(* header, also one whose skip failed and whose failure nobody looked at   *)
(* (7zIn.c:393-429, 536-1060).  SubEnd and the steps between headers read  *)
(* nothing.                                                                *)
Used == Len(file.next) + (IF encoded = "decoded" THEN Len(file.packed.bytes) ELSE 0) - Len(sd)

LoopsEnd == at \notin {"names", "done"} => turns <= 2 * Used + 2

=============================================================================
