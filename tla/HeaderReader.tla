---------------------------- MODULE HeaderReader ----------------------------
(***************************************************************************)
(* The readers of lib/7z/7zIn.c that take one thing off the header.  A     *)
(* reader maps a record r to another: sd are the bytes that are left, v is *)
(* the value that was read last, res what went wrong.  A reader that       *)
(* finds something wrong changes nothing any more (RINOK).                 *)
(*                                                                         *)
(* Numbers have up to 64 bits in the code.  Here they are exact below      *)
(* Huge, and all from Huge on are Huge, which stands for what              *)
(* SzReadNumber32 refuses: that starts at 2^31, one more than TLC has.     *)
(*                                                                         *)
(* res is "undefined" once the code would use a place it has not got.      *)
(***************************************************************************)
EXTENDS Naturals, Sequences, SequencesExt, FiniteSetsExt, ArchiveWriter

NUM_FOLDER_CODERS_MAX == 32
NUM_CODER_STREAMS_MAX == 32
Huge == 2147483647

Reader(bytes) == [sd |-> bytes, v |-> 0, res |-> "ok"]

Failed(r) == r.res # "ok"
Refused(r, why) == IF Failed(r) THEN r ELSE [r EXCEPT !.v = 0, !.res = why]
Value(r, v) == IF Failed(r) THEN r ELSE [r EXCEPT !.v = v]

SzReadByte(r) ==
    IF Failed(r) \/ r.sd = << >> THEN Refused(r, "archive")
    ELSE [r EXCEPT !.v = Head(r.sd), !.sd = Tail(@)]

(* A read that fails half way has used up everything.                      *)
SzReadBytes(r, size) ==
    IF Failed(r) THEN r
    ELSE IF size > Len(r.sd) THEN Refused([r EXCEPT !.sd = << >>], "archive")
    ELSE [r EXCEPT !.v = SubSeq(r.sd, 1, size), !.sd = SubSeq(@, size + 1, Len(@))]

Shifted(n, byte) == IF n >= 2 ^ 23 THEN Huge ELSE 256 * n + byte

LowEndian(bytes) == FoldLeft(Shifted, 0, Reverse(bytes))

SzReadUInt32(r) ==
    LET Of(q) == Value(q, LowEndian(q.v)) IN Of(SzReadBytes(r, 4))

Mask == <<128, 64, 32, 16, 8, 4, 2, 1>>
Has(byte, bit) == (byte \div bit) % 2 = 1

(* The leading ones of the first byte count the bytes behind it; its other *)
(* bits are the highest of the number.                                     *)
LeadingOnes(byte) == Cardinality({n \in 1..8 : \A k \in 1..n : Has(byte, Mask[k])})

(* Seeded fault: the high bits are put in front of the other bytes.        *)
HighBitsFirst(bytes, first) ==
    LowEndian(IF Len(bytes) < 8 THEN <<first % Mask[Len(bytes) + 1]>> \o bytes ELSE bytes)

WithHighBits(bytes, first) ==
    LowEndian(IF Len(bytes) < 8 THEN bytes \o <<first % Mask[Len(bytes) + 1]>> ELSE bytes)

SzReadNumber(r) ==
    LET Of(q, first) == Value(q, WithHighBits(q.v, first))
        Rest(q) == Of(SzReadBytes(q, LeadingOnes(q.v)), q.v)
    IN  Rest(SzReadByte(r))

SzReadNumber32(r) ==
    LET Small(q) == IF q.v >= Huge THEN Refused(q, "unsupported") ELSE q
    IN  Small(SzReadNumber(r))

SzReadID(r) == SzReadNumber(r)

SzSkeepDataSize(r, size) ==
    IF Failed(r) \/ size > Len(r.sd) THEN Refused(r, "archive")
    ELSE [r EXCEPT !.sd = SubSeq(@, size + 1, Len(@))]

SzSkeepData(r) ==
    LET Skip(q) == SzSkeepDataSize(q, q.v) IN Skip(SzReadNumber(r))

(* One reader for each of seq: the sequence of what they read.             *)
ForEach(r, seq, Read(_, _)) ==
    LET Add(q, l) == [r |-> q, l |-> Append(l, q.v)]
        Turn(a, x) == Add(Read(a.r, x), a.l)
        Ended(a) == Value(a.r, a.l)
    IN  Ended(FoldLeft(Turn, [r |-> r, l |-> << >>], seq))

Times(n) == [i \in 1..n |-> i]

Numbers(r, n) == ForEach(r, Times(n), LAMBDA q, i : SzReadNumber(q))
Numbers32(r, n) == ForEach(r, Times(n), LAMBDA q, i : SzReadNumber32(q))

(* A loop, as what comes of it when n bytes are left.  A turn's reader has *)
(* read something, or has failed and ends the loop.                        *)
Rest(r, n) == [r EXCEPT !.sd = SubSeq(@, Len(@) - n + 1, Len(@))]

Loop(r, Turn(_)) ==
    LET from[n \in 0..Len(r.sd)] ==
            LET After(t) == IF t.ends THEN t.r ELSE from[Len(t.r.sd)] IN After(Turn(Rest(r, n)))
    IN  from[Len(r.sd)]

Turned(r, ends) == [r |-> r, ends |-> ends \/ Failed(r)]

WaitTurn(r, attribute) ==
    LET Of(q) == IF q.v = attribute THEN Turned(q, TRUE)
                 ELSE IF q.v = k7zIdEnd THEN Turned(Refused(q, "archive"), TRUE)
                 ELSE Turned(SzSkeepData(q), FALSE)
    IN  Of(SzReadID(r))

SzWaitAttribute(r, attribute) == Loop(r, LAMBDA q : WaitTurn(q, attribute))

BitOf(bytes, i) == Has(bytes[1 + ((i - 1) \div 8)], Mask[1 + ((i - 1) % 8)])

SzReadBoolVector(r, n) ==
    LET Of(q) == Value(q, [i \in 1..n |-> BitOf(q.v, i)])
    IN  Of(SzReadBytes(r, (n + 7) \div 8))

SzReadBoolVector2(r, n) ==
    LET Of(q) == IF q.v = 0 THEN SzReadBoolVector(q, n) ELSE Value(q, [i \in 1..n |-> TRUE])
    IN  Of(SzReadByte(r))

(* A number of 32 bits for each that is defined.                           *)
UInt32Option(r, is) ==
    LET Option(q) == Value(q, <<q.v>>)
    IN  IF is THEN Option(SzReadUInt32(r)) ELSE Value(r, << >>)

UInt32s(r, defined) == IF Failed(r) THEN r ELSE ForEach(r, defined, UInt32Option)

SzReadHashDigests(r, n) ==
    LET Of(q) == UInt32s(q, q.v) IN Of(SzReadBoolVector2(r, n))

SzReadSwitch(r) ==
    LET Of(q) == IF q.v = 0 THEN q ELSE Refused(q, "unsupported") IN Of(SzReadByte(r))

(***************************************************************************)
(* A folder: its coders, how they are bound, and what is packed.           *)
(***************************************************************************)
MethodID(r, main) ==
    LET Of(q) == IF main % 16 > 8 THEN Refused(q, "unsupported") ELSE q
    IN  Of(SzReadBytes(r, main % 16))

CoderStreams(r, main) ==
    LET Of(q) == IF Failed(q) THEN q
                 ELSE IF \E i \in 1..2 : q.v[i] > NUM_CODER_STREAMS_MAX
                 THEN Refused(q, "unsupported") ELSE q
    IN  IF Has(main, 16) THEN Of(Numbers32(r, 2)) ELSE Value(r, <<1, 1>>)

CoderProps(r, main) ==
    LET Of(q) == SzReadBytes(q, q.v)
    IN  IF Has(main, 32) THEN Of(SzReadNumber(r)) ELSE Value(r, << >>)

(* The same coder in other words, which nobody wants to know.              *)
SkipStreams(r, main) == IF Has(main, 16) THEN Numbers32(r, 2) ELSE r
SkipProps(r, main) == IF Has(main, 32) THEN SzSkeepData(r) ELSE r

AlternativeTurn(r) ==
    LET Of(q, byte) ==
            Turned(SkipProps(SkipStreams(SzSkeepDataSize(q, byte % 16), byte), byte),
                   ~Has(byte, 128))
        Byte(q) == Of(q, q.v)
    IN  Byte(SzReadByte(r))

Alternatives(r, main) == IF Has(main, 128) THEN Loop(r, AlternativeTurn) ELSE r

ReadCoder(r) ==
    LET Of(p, main, id, streams) ==
            Value(Alternatives(p, main),
                  [id |-> id, numIn |-> streams[1], numOut |-> streams[2], props |-> p.v])
        Props(s, main, id) == Of(CoderProps(s, main), main, id, s.v)
        Streams(i, main) == Props(CoderStreams(i, main), main, i.v)
        Method(m) == Streams(MethodID(m, m.v), m.v)
    IN  Method(SzReadByte(r))

Total(numbers) == FoldLeft(LAMBDA a, b : a + b, 0, numbers)

NumIn(coders) == Total([i \in DOMAIN coders |-> coders[i].numIn])
NumOut(coders) == Total([i \in DOMAIN coders |-> coders[i].numOut])

(* SzFolder_FindBindPairForInStream and ...ForOutStream find one.          *)
InIsBound(pairs, i) == \E k \in DOMAIN pairs : pairs[k][1] = i
OutIsBound(pairs, i) == \E k \in DOMAIN pairs : pairs[k][2] = i

(* A single packed stream is the one that is not bound.                    *)
PackStreams(r, n, pairs) ==
    LET free == {i \in 0..(n - 1) : ~InIsBound(pairs, i)}
    IN  IF n < Len(pairs) THEN Refused(r, "unsupported")
        ELSE IF n - Len(pairs) # 1 THEN Numbers32(r, n - Len(pairs))
        ELSE IF free = {} THEN Refused(r, "unsupported")
        ELSE Value(r, <<Min(free)>>)

FolderItem(r, coders) ==
    LET Of(q, pairs) ==
            Value(q, [coders |-> coders, bindPairs |-> pairs, packStreams |-> q.v,
                      sizes |-> << >>, crc |-> << >>, num |-> 0])
        Streams(q) == IF Failed(q) THEN q ELSE Of(PackStreams(q, NumIn(coders), q.v), q.v)
        Pairs(n) == ForEach(r, Times(n - 1), LAMBDA q, i : Numbers32(q, 2))
    IN  IF NumOut(coders) = 0 THEN Refused(r, "unsupported") ELSE Streams(Pairs(NumOut(coders)))

SzGetNextFolderItem(r) ==
    LET Item(q) == IF Failed(q) THEN q ELSE FolderItem(q, q.v)
        Coders(n) == IF n.v > NUM_FOLDER_CODERS_MAX THEN Refused(n, "unsupported")
                     ELSE Item(ForEach(n, Times(n.v), LAMBDA q, i : ReadCoder(q)))
    IN  Coders(SzReadNumber32(r))

(* The size of what no other coder takes: the last such one.               *)
SzFolder_GetUnpackSize(f) ==
    LET free == {i \in 0..(NumOut(f.coders) - 1) : ~OutIsBound(f.bindPairs, i)}
    IN  IF free = {} THEN 0 ELSE f.sizes[1 + Max(free)]
=============================================================================
