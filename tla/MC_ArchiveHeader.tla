-------------------------- MODULE MC_ArchiveHeader --------------------------
(***************************************************************************)
(* Archives with every part that a header may have, written in four ways:  *)
(* with and without properties the reader does not know, plain and packed. *)
(* Then the same, damaged; and one cut short, everywhere.                  *)
(***************************************************************************)
EXTENDS ArchiveHeader

Plain1 == [id |-> <<33>>, numIn |-> 1, numOut |-> 1, props |-> <<24>>, other |-> FALSE]
Lzma == [Plain1 EXCEPT !.id = <<3, 1, 1>>, !.props = <<93, 0, 0, 1, 0>>]
Told == [Lzma EXCEPT !.other = TRUE]
Bcj == [Plain1 EXCEPT !.id = <<3, 3, 1, 3>>, !.props = << >>]
Bcj2 == [Bcj EXCEPT !.id = <<3, 3, 1, 27>>, !.numIn = 4]

Sub(size, crc) == [size |-> size, crc |-> crc]
Sum(subs) == FoldLeft(LAMBDA n, s : n + s.size, 0, subs)

Single(coder, crc, subs) ==
    [coders |-> <<coder>>, bindPairs |-> << >>, packStreams |-> <<0>>,
     sizes |-> <<Sum(subs)>>, crc |-> crc, files |-> subs]

Filter(crc, subs) ==
    [coders |-> <<Plain1, Bcj>>, bindPairs |-> << <<1, 0>> >>, packStreams |-> <<0>>,
     sizes |-> <<Sum(subs), Sum(subs)>>, crc |-> crc, files |-> subs]

Four(crc, subs) ==
    [coders |-> <<Told, Lzma, Plain1, Bcj2>>,
     bindPairs |-> << <<5, 0>>, <<4, 1>>, <<3, 2>> >>, packStreams |-> <<2, 6, 1, 0>>,
     sizes |-> <<3, 5, 130, Sum(subs)>>, crc |-> crc, files |-> subs]

(* Code points of one to four octets, at their boundaries.                 *)
UnitsOf(text) == FlattenSeq([k \in DOMAIN text |-> Units(text[k])])
File(kind, text) == [kind |-> kind, text |-> text, name |-> UnitsOf(text),
                     mtime |-> << >>, attrib |-> << >>]
Dated(f, t) == [f EXCEPT !.mtime = <<t>>, !.attrib = <<32>>]

Described(folders, packSizes, packCrcs, items) ==
    [folders |-> folders, packPos |-> 0, packSizes |-> packSizes, packCrcs |-> packCrcs,
     files |-> items]

NoStreams1 == Described(<< >>, << >>, << >>,
                        <<File("dir", <<97>>), File("empty", <<97, 47, 128>>)>>)

OneFile == Described(<<Single(Lzma, <<7>>, <<Sub(300, <<7>>)>>)>>, <<200>>, <<<< >>>>,
                     <<File("stream", <<2047, 2048, 65535>>)>>)

(* Two files and an empty one between them, a folder that has no file, a   *)
(* directory; the digests of some are with their folder.  Some sizes take  *)
(* four and five bytes.                                                    *)
Solid == Described(<<Four(<< >>, <<Sub(100, <<11>>), Sub(2 ^ 24 + 70000, << >>)>>),
                     Single(Lzma, << >>, << >>),
                     Filter(<<12>>, <<Sub(2 ^ 28 + 5, <<12>>)>>),
                     Single(Plain1, << >>, <<Sub(6, <<13>>), Sub(1, <<14>>), Sub(2, <<15>>)>>)>>,
                   <<200, 3, 2, 1, 1, 4, 6>>, <<<<1>>, << >>, << >>, <<2>>, << >>, << >>, << >>>>,
                   <<Dated(File("stream", <<97>>), <<1, 2>>), File("empty", <<65536>>),
                     File("stream", <<1114111, 98>>), File("dir", <<99>>),
                     Dated(File("stream", <<127>>), <<3, 4>>), File("stream", <<57344>>),
                     File("stream", <<98>>), File("dir", <<55295>>),
                     Dated(File("stream", <<100>>), <<5, 6>>)>>)

Unknown == Property(k7zIdDummy, <<7, 0>>)

(***************************************************************************)
(* Files.  A packed header lies behind the packed streams.                 *)
(***************************************************************************)
FileOf(d, header, offset, packed, sound) ==
    [described |-> d, signature |-> TRUE, version |-> 0,
     startCrc |-> <<offset, Len(header), header>>, nextOffset |-> offset, nextSize |-> Len(header),
     nextCrc |-> header, next |-> header, length |-> 32 + offset + Len(header),
     packed |-> packed, sound |-> sound]

DataSize(d) == d.packPos + FoldLeft(LAMBDA a, b : a + b, 0, d.packSizes)

NotPacked == [where |-> << >>, bytes |-> << >>, crc |-> 0]

PlainFile(d, header, sound) == FileOf(d, header, DataSize(d), NotPacked, sound)

PackedIn(d, size) ==
    [Described(<<Single(Lzma, <<9>>, <<Sub(size, <<9>>)>>)>>, <<50>>, <<<< >>>>, << >>)
        EXCEPT !.packPos = DataSize(d)]

Reads(e, bytes, crc) ==
    [where |-> [pos |-> 32 + e.packPos, packSizes |-> e.packSizes,
                coders |-> <<[id |-> <<3, 1, 1>>, numIn |-> 1, numOut |-> 1,
                              props |-> <<93, 0, 0, 1, 0>>]>>,
                bindPairs |-> << >>, packStreams |-> <<0>>, size |-> Len(bytes)],
     bytes |-> bytes, crc |-> crc]

PackedFile(d, header, e, x, crc, sound) ==
    FileOf(d, EncodedHeaderBytes(e, x), DataSize(d) + 50, Reads(e, header, crc), sound)

Packed(d, header, x, crc, sound) ==
    PackedFile(d, header, PackedIn(d, Len(header)), x, crc, sound)

Written ==
    UNION {{PlainFile(d, HeaderBytes(d, x), TRUE), Packed(d, HeaderBytes(d, x), x, 9, TRUE)} :
              d \in {NoStreams1, OneFile, Solid}, x \in {<< >>, Unknown}}

(* Nothing at all, no files, and streams of nothing.                       *)
EmptyArchives ==
    {PlainFile(Described(<< >>, << >>, << >>, << >>), h, TRUE) :
        h \in {<< >>, <<k7zIdHeader, k7zIdEnd>>,
               <<k7zIdHeader, k7zIdMainStreamsInfo, k7zIdEnd, k7zIdEnd>>}}

(* Folders of two files and of one, with digests but no sizes, that nobody *)
(* asks for.                                                               *)
Solid2 == Described(<<Single(Lzma, << >>, <<Sub(100, <<11>>), Sub(7, << >>)>>),
                      Single(Plain1, << >>, <<Sub(6, <<13>>)>>)>>,
                    <<200, 3>>, <<<<1>>, << >>>>, << >>)

Unasked ==
    {PlainFile(Solid2, <<k7zIdHeader, k7zIdMainStreamsInfo>>
        \o PackInfoBytes(Solid2, << >>) \o UnpackInfoBytes(Solid2, << >>)
        \o <<k7zIdSubStreamsInfo, k7zIdNumUnpackStream, 2, 1>>
        \o Digests(<<<<11>>, << >>, <<13>>>>) \o <<k7zIdEnd, k7zIdEnd, k7zIdEnd>>, TRUE)}

Spoiled(f) ==
    {[f EXCEPT !.sound = FALSE, !.signature = FALSE],
     [f EXCEPT !.sound = FALSE, !.version = 1],
     [f EXCEPT !.sound = FALSE, !.startCrc = << >>],
     [f EXCEPT !.sound = FALSE, !.length = @ - 1],
     [f EXCEPT !.sound = FALSE, !.length = 31],
     [f EXCEPT !.sound = FALSE, !.next = Append(Front(@), 99)]}

(* The reader does not read the last byte of a header.                     *)
Cut(d, h) == {PlainFile(d, SubSeq(h, 1, n), n = Len(h) - 1) : n \in 1..(Len(h) - 1)}

(* Names that are no UTF-16: half a pair, at the end and before another    *)
(* unit, and the wrong half in front.                                      *)
Named(d, units) == [d EXCEPT !.files[1].name = units]
BadNames(d) == {PlainFile(e, HeaderBytes(e, << >>), FALSE) :
                   e \in {Named(d, <<55296>>), Named(d, <<55296, 97>>), Named(d, <<56320, 97>>)}}

(* What is not supported or makes no sense: methods with long names, many  *)
(* coders or streams, nothing to give, more bound than there is; a header  *)
(* in a header, or of another kind, or with another checksum; 2^31 files.  *)
Coders1(d, coders) == [d EXCEPT !.folders[1].coders = coders]
Folders(d) ==
    {Coders1(d, <<[Lzma EXCEPT !.id = <<1, 2, 3, 4, 5, 6, 7, 8, 9>>]>>),
     Coders1(d, [i \in 1..33 |-> Lzma]),
     Coders1(d, <<[Lzma EXCEPT !.numIn = 33]>>),
     Coders1(d, <<[Lzma EXCEPT !.numOut = 0]>>),
     [Coders1(d, <<[Lzma EXCEPT !.numOut = 3]>>)
        EXCEPT !.folders[1].bindPairs = << <<0, 0>>, <<0, 1>> >>]}

Twice(f, h) ==
    {[f EXCEPT !.sound = FALSE, !.packed.bytes = <<k7zIdEncodedHeader>> \o Tail(h),
               !.packed.where.size = Len(h)]}

Unsupported(d) ==
    {PlainFile(e, HeaderBytes(e, << >>), FALSE) :
        e \in Folders(d)}
    \cup {PlainFile(d, h, FALSE) :
            h \in {<<k7zIdFilesInfo>>, <<k7zIdHeader, k7zIdFilesInfo, 240, 0, 0, 0, 128>>}}
    \cup UNION {Twice(Packed(d, h, << >>, 9, TRUE), h) \cup {Packed(d, h, << >>, 8, FALSE)} :
                   h \in {HeaderBytes(d, << >>)}}

MCFiles ==
    Written \cup EmptyArchives \cup Unasked
    \cup UNION {Spoiled(f) : f \in {PlainFile(NoStreams1, HeaderBytes(NoStreams1, << >>), TRUE)}}
    \cup UNION {Cut(d, h) \cup BadNames(d) \cup Unsupported(d) :
                   d \in {OneFile}, h \in {HeaderBytes(OneFile, Unknown)}}

MCMemory == {0, 3}
=============================================================================
