--------------------------- MODULE ArchiveWriter ----------------------------
(***************************************************************************)
(* What 7-Zip writes and the reader of lib/7z/7zIn.c parses: the header of *)
(* an archive, byte for byte, from a description d of it.  This is the     *)
(* parser's environment and the reference that its result is compared      *)
(* with.  x is written wherever the format lets a writer put what the      *)
(* reader does not know: nothing, or a property of a new kind.             *)
(*                                                                         *)
(* An optional value is a sequence of none or one.                         *)
(***************************************************************************)
EXTENDS Naturals, Sequences, SequencesExt, FiniteSetsExt

k7zIdEnd == 0
k7zIdHeader == 1
k7zIdArchiveProperties == 2
k7zIdMainStreamsInfo == 4
k7zIdFilesInfo == 5
k7zIdPackInfo == 6
k7zIdUnpackInfo == 7
k7zIdSubStreamsInfo == 8
k7zIdSize == 9
k7zIdCRC == 10
k7zIdFolder == 11
k7zIdCodersUnpackSize == 12
k7zIdNumUnpackStream == 13
k7zIdEmptyStream == 14
k7zIdEmptyFile == 15
k7zIdName == 17
k7zIdMTime == 20
k7zIdWinAttributes == 21
k7zIdEncodedHeader == 23
k7zIdDummy == 25

Each(seq, Bytes(_)) == FlattenSeq([i \in DOMAIN seq |-> Bytes(seq[i])])

UInt32(n) == <<n % 256, (n \div 256) % 256, (n \div 65536) % 256, n \div 2 ^ 24>>

(* As many high bits of the first byte are set as bytes follow it.         *)
Number(n) ==
    IF n < 2 ^ 7 THEN <<n>>
    ELSE IF n < 2 ^ 14 THEN <<128 + n \div 256>> \o SubSeq(UInt32(n), 1, 1)
    ELSE IF n < 2 ^ 21 THEN <<192 + n \div 65536>> \o SubSeq(UInt32(n), 1, 2)
    ELSE IF n < 2 ^ 28 THEN <<224 + n \div 2 ^ 24>> \o SubSeq(UInt32(n), 1, 3)
    ELSE <<240>> \o UInt32(n)

Property(id, bytes) == <<id>> \o Number(Len(bytes)) \o bytes

(* Eight to a byte, the first one highest.                                 *)
Bit(vector, i) == IF i \in DOMAIN vector /\ vector[i] THEN 1 ELSE 0
Bits(vector) ==
    [k \in 1..((Len(vector) + 7) \div 8) |->
        FoldLeft(LAMBDA byte, i : 2 * byte + Bit(vector, 8 * (k - 1) + i), 0,
                 [i \in 1..8 |-> i])]

Given(options) == [i \in DOMAIN options |-> options[i] # << >>]
AllGiven(options) == \A i \in DOMAIN options : options[i] # << >>

Defined(options) ==
    IF AllGiven(options) THEN <<1>> ELSE <<0>> \o Bits(Given(options))

Digests(options) ==
    IF \A i \in DOMAIN options : options[i] = << >> THEN << >>
    ELSE <<k7zIdCRC>> \o Defined(options) \o Each(FlattenSeq(options), UInt32)

Coder(c) ==
    LET flags == (IF c.numIn = 1 /\ c.numOut = 1 THEN 0 ELSE 16)
                 + (IF c.props = << >> THEN 0 ELSE 32) + (IF c.other THEN 128 ELSE 0)
    IN  <<flags + Len(c.id)>> \o c.id
        \o (IF c.numIn = 1 /\ c.numOut = 1 THEN << >> ELSE Number(c.numIn) \o Number(c.numOut))
        \o (IF c.props = << >> THEN << >> ELSE Number(Len(c.props)) \o c.props)
        \o (IF c.other THEN <<49, 99, 1, 1, 2, 8, 8>> ELSE << >>)

FolderBytes(f) ==
    Number(Len(f.coders)) \o Each(f.coders, Coder)
    \o Each(f.bindPairs, LAMBDA pair : Number(pair[1]) \o Number(pair[2]))
    \o IF Len(f.packStreams) = 1 THEN << >> ELSE Each(f.packStreams, Number)

PackInfoBytes(d, x) ==
    <<k7zIdPackInfo>> \o Number(d.packPos) \o Number(Len(d.packSizes)) \o x
    \o <<k7zIdSize>> \o Each(d.packSizes, Number) \o x \o Digests(d.packCrcs)
    \o <<k7zIdEnd>>

Crcs(d) == [i \in DOMAIN d.folders |-> d.folders[i].crc]

UnpackInfoBytes(d, x) ==
    <<k7zIdUnpackInfo>> \o x \o <<k7zIdFolder>> \o Number(Len(d.folders)) \o <<0>>
    \o Each(d.folders, FolderBytes) \o x \o <<k7zIdCodersUnpackSize>>
    \o Each(d.folders, LAMBDA f : Each(f.sizes, Number)) \o x \o Digests(Crcs(d)) \o <<k7zIdEnd>>

(* What is left out can be told from the folder: one file, the last size,  *)
(* the digest of the only file.                                            *)
SubStreamsInfoBytes(d, x) ==
    LET unknown(f) == IF Len(f.files) = 1 /\ f.crc # << >> THEN << >>
                      ELSE [i \in DOMAIN f.files |-> f.files[i].crc]
    IN  <<k7zIdSubStreamsInfo>> \o x
        \o (IF \A i \in DOMAIN d.folders : Len(d.folders[i].files) = 1 THEN << >>
            ELSE <<k7zIdNumUnpackStream>> \o Each(d.folders, LAMBDA f : Number(Len(f.files))))
        \o x
        \o (IF \A i \in DOMAIN d.folders : Len(d.folders[i].files) < 2 THEN << >>
            ELSE <<k7zIdSize>>
                 \o Each(d.folders, LAMBDA f : Each(SubSeq(f.files, 1, Len(f.files) - 1),
                                                      LAMBDA g : Number(g.size))))
        \o Digests(Each(d.folders, unknown)) \o x \o <<k7zIdEnd>>

(* Names are zero-terminated UTF-16.                                       *)
NameBytes(units) == Each(Append(units, 0), LAMBDA u : <<u % 256, u \div 256>>)

Optional(id, options, Bytes(_)) ==
    IF \A i \in DOMAIN options : options[i] = << >> THEN << >>
    ELSE Property(id, Defined(options) \o <<0>> \o Each(FlattenSeq(options), Bytes))

Vector(id, vector) ==
    IF \A i \in DOMAIN vector : ~vector[i] THEN << >> ELSE Property(id, Bits(vector))

FilesInfoBytes(d, x) ==
    LET streamless == SelectSeq(d.files, LAMBDA f : f.kind # "stream")
    IN  <<k7zIdFilesInfo>> \o Number(Len(d.files))
        \o Vector(k7zIdEmptyStream, [i \in DOMAIN d.files |-> d.files[i].kind # "stream"])
        \o Vector(k7zIdEmptyFile, [i \in DOMAIN streamless |-> streamless[i].kind = "empty"])
        \o x \o Property(k7zIdName, <<0>> \o Each(d.files, LAMBDA f : NameBytes(f.name)))
        \o Optional(k7zIdMTime, [i \in DOMAIN d.files |-> d.files[i].mtime],
                    LAMBDA t : UInt32(t[1]) \o UInt32(t[2]))
        \o x \o Optional(k7zIdWinAttributes, [i \in DOMAIN d.files |-> d.files[i].attrib], UInt32)
        \o <<k7zIdEnd>>

HeaderBytes(d, x) ==
    <<k7zIdHeader>>
    \o (IF x = << >> THEN << >> ELSE <<k7zIdArchiveProperties>> \o x \o <<k7zIdEnd>>)
    \o (IF d.folders = << >> THEN << >>
        ELSE <<k7zIdMainStreamsInfo>> \o PackInfoBytes(d, x) \o UnpackInfoBytes(d, x)
             \o SubStreamsInfoBytes(d, x) \o <<k7zIdEnd>>)
    \o FilesInfoBytes(d, x) \o <<k7zIdEnd>>

(* A header that is packed itself, in a folder of its own.                 *)
EncodedHeaderBytes(d, x) ==
    <<k7zIdEncodedHeader>> \o PackInfoBytes(d, x) \o UnpackInfoBytes(d, x) \o <<k7zIdEnd>>
=============================================================================
