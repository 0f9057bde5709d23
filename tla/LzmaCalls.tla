----------------------------- MODULE LzmaCalls ------------------------------
(***************************************************************************)
(* A caller of the LZMA and LZMA2 decoders, who follows the rules of       *)
(* LzmaDec.h and nothing more: it hands over a stream in pieces of any     *)
(* size, asks for any number of bytes, and passes LZMA_FINISH_END when its *)
(* output covers the last byte of the text and otherwise LZMA_FINISH_ANY.  *)
(* It keeps to one of the three interfaces: to the dictionary, to a        *)
(* buffer, or all in one call.                                             *)
(***************************************************************************)
EXTENDS Lzma2Dec

CONSTANTS
    Streams,   \* records: coding, interface, prop, dicSize, encoded, sound
    MaxFed,    \* at most this many bytes are handed over at once
    MaxAsked   \* at most this many bytes are asked for at once

VARIABLES
    stream,    \* the stream that is decoded
    p,         \* its decoder
    fed,       \* how many of its bytes the decoder has taken
    got        \* what came out

vars == <<stream, p, fed, got>>

Bytes == stream.encoded.bytes
Plain == stream.encoded.plain

Fed(n) == SubSeq(Bytes, fed + 1, fed + n)

(***************************************************************************)
(* The decoder of a stream.  The dictionary interface decodes into a       *)
(* buffer of the caller's, which is a dictionary that never wraps.         *)
(***************************************************************************)
Props(s) == IF s.coding = "lzma" THEN LzmaProps_Decode(s.prop, s.dicSize)[1]
            ELSE Lzma2Dec_GetOldProps(s.prop)[1]

NewDecoder(s) ==
    LET d == IF s.interface = "buffer" THEN Allocate(Props(s), s.encoded.syms)
             ELSE Decoder(Props(s), Len(s.encoded.plain), s.encoded.syms)
    IN  IF s.coding = "lzma" THEN LzmaDec_Init(d) ELSE Lzma2Dec_Init(d)

Dictionary(q) == IF stream.coding = "lzma" THEN q ELSE q.decoder

Result(q) == [p |-> q, out |-> Written(Dictionary(p), Dictionary(q)), read |-> q.srcLen]

ToDic(src, asked, finish) ==
    LET limit == Dictionary(p).dicPos + asked
    IN  Result(IF stream.coding = "lzma"
               THEN LzmaDec_DecodeToDic(p, limit, src, finish)
               ELSE Lzma2Dec_DecodeToDic(p, limit, src, finish))

ToBuf(src, asked, finish) ==
    IF stream.coding = "lzma" THEN LzmaDec_DecodeToBuf(p, asked, src, finish)
    ELSE Lzma2Dec_DecodeToBuf(p, asked, src, finish)

Call(n, asked) ==
    LET finish == IF Len(got) + asked = Len(Plain) THEN "end" ELSE "any"
    IN  IF stream.interface = "buffer" THEN ToBuf(Fed(n), asked, finish)
        ELSE ToDic(Fed(n), asked, finish)

OneCall(src) ==
    IF stream.coding = "lzma"
    THEN LzmaDecode(Len(Plain), src, stream.prop, stream.dicSize, "end",
                    stream.encoded.syms)
    ELSE Lzma2Decode(Len(Plain), src, stream.prop, "end", stream.encoded.syms)

(***************************************************************************)
(* The caller.                                                             *)
(***************************************************************************)
Init ==
    /\ stream \in Streams
    /\ p = NewDecoder(stream)
    /\ fed = 0
    /\ got = << >>

Decode(n, asked) ==
    /\ p.res = "ok"
    /\ n <= Len(Bytes) - fed
    /\ asked <= Len(Plain) - Len(got)
    /\ \E c \in {Call(n, asked)} :
           /\ p' = c.p
           /\ fed' = fed + c.read
           /\ got' = got \o c.out
    /\ UNCHANGED stream

Next == \E n \in 0..MaxFed, asked \in 0..MaxAsked : Decode(n, asked)

Spec == Init /\ [][Next]_vars

(***************************************************************************)
(* Properties.                                                             *)
(***************************************************************************)
(* What the records of the decoder hold.  Between calls tempBuf has fewer  *)
(* bytes than a symbol may need, but for those of a symbol that was        *)
(* refused (LzmaDec.c:756-835).                                            *)
TypeOK ==
    LET d == Dictionary(p)
    IN  /\ stream \in Streams
        /\ fed \in 0..Len(Bytes)
        /\ p.res \in {"ok", "data error", "bad"}
        /\ d.dicPos \in 0..d.dicBufSize
        /\ d.remainLen \in 0..kMatchSpecLenStart
        /\ Len(d.tempBuf) <= REQUIRED_INPUT_MAX
        /\ p.res = "ok" => Len(d.tempBuf) < REQUIRED_INPUT_MAX
        /\ d.checkDicSize \in {0, d.dicSize}
        /\ DOMAIN d.dic = 0..(d.dicBufSize - 1)

(* However a stream is cut and whatever is asked for at once, what has     *)
(* come out is how its text begins: symbols split over calls, matches cut  *)
(* by a limit and matches across the end of the dictionary come out right. *)
OutputIsTheText == p.res # "bad" /\ IsPrefix(got, Plain)

(* A sound stream is never refused, at no cut (LzmaDec.c:720-839), and     *)
(* from wherever the caller has got to, one call with all that is left     *)
(* brings all that is left, takes the last byte, and says that the stream  *)
(* is finished or, without an end mark, that it may be; and it never does  *)
(* so for a stream with a match from before its start, sizes that are not  *)
(* its own, or chunks that rely on what was not set.                       *)
Accepted(c) ==
    /\ c.p.res = "ok"
    /\ got \o c.out = Plain
    /\ fed + c.read = Len(Bytes)
    /\ c.p.status \in {"finished with mark", "maybe finished"}

RestInOneCall ==
    /\ stream.sound => p.res = "ok"
    /\ p.res = "ok" =>
        \A c \in {Call(Len(Bytes) - fed, Len(Plain) - Len(got))} :
            Accepted(c) <=> stream.sound

(* The third interface, given the bytes that the caller has got rid of so  *)
(* far, decodes the same text, and reports success just if they are all of *)
(* a sound stream (LzmaDec.c:970-993, Lzma2Dec.c:330-350).                 *)
OneCallAgrees ==
    \A o \in {OneCall(SubSeq(Bytes, 1, fed))} :
        /\ IsPrefix(o.out, Plain)
        /\ o.res = "ok" <=> stream.sound /\ fed = Len(Bytes)
        /\ o.res = "ok" => o.out = Plain
=============================================================================
