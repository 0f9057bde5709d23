------------------------------ MODULE Lzma2Dec ------------------------------
(***************************************************************************)
(* The LZMA2 decoder of lib/7z/Lzma2Dec.c.  p.decoder is the LZMA decoder  *)
(* of its chunks; p.srcLen, p.status and p.res are what a call returns.    *)
(***************************************************************************)
EXTENDS LzmaDec

CONSTANT LZMA2_DIC_BITS   \* the shift of the dictionary's size; 11 in the code

LZMA2_LCLP_MAX == 4

(* Lzma2Dec_GetOldProps: prop, at most 40, tells the dictionary's size; 40 *)
(* would be one more than fits.                                            *)
Lzma2Dec_GetOldProps(prop) ==
    LET size == (2 + (prop % 2)) * 2 ^ (prop \div 2 + LZMA2_DIC_BITS)
    IN  IF prop > 40 THEN << >>
        ELSE LzmaProps_Decode(LZMA2_LCLP_MAX, IF prop = 40 THEN size - 1 ELSE size)

Lzma2Dec_Init(decoder) ==
    [state |-> "control", control |-> 0, unpackSize |-> 0, packSize |-> 0,
     needInitDic |-> TRUE, needInitState |-> TRUE, needInitProp |-> TRUE,
     decoder |-> LzmaDec_Init(decoder),
     srcLen |-> 0, status |-> "not specified", res |-> "ok"]

IsUncompressed(p) == p.control < 128

LzmaMode(p) == (p.control \div 32) % 4

(* A properties byte whose lc and lp are more than the tables are for.     *)
BadProp(b) == b >= 225 \/ (b % 9) + ((b \div 9) % 5) > LZMA2_LCLP_MAX

(* One byte in front of a chunk's data.                                    *)
Lzma2Dec_UpdateState(p, b) ==
    CASE p.state = "control" ->
           [p EXCEPT !.control = b,
                     !.unpackSize = IF b >= 128 THEN (b % 32) * 65536
                                    ELSE IF b \in 1..2 THEN 0 ELSE @,
                     !.state = IF b = 0 THEN "finished"
                               ELSE IF b \in 3..127 THEN "error" ELSE "unpack0"]
      [] p.state = "unpack0" ->
           [p EXCEPT !.unpackSize = @ + 256 * b, !.state = "unpack1"]
      [] p.state = "unpack1" ->
           [p EXCEPT !.unpackSize = @ + b + 1,
                     !.state = IF IsUncompressed(p) THEN "data" ELSE "pack0"]
      [] p.state = "pack0" ->
           [p EXCEPT !.packSize = 256 * b, !.state = "pack1"]
      [] p.state = "pack1" ->
           [p EXCEPT !.packSize = @ + b + 1,
                     !.state = IF LzmaMode(p) >= 2 THEN "prop"
                               ELSE IF p.needInitProp THEN "error" ELSE "data"]
      [] p.state = "prop" ->
           IF BadProp(b) THEN [p EXCEPT !.state = "error"]
           ELSE [p EXCEPT !.decoder.prop = b, !.needInitProp = FALSE, !.state = "data"]

(* Bytes that were not packed go into the dictionary as they are.          *)
LzmaDec_UpdateWithUncompressed(d, bytes) ==
    LET size == Len(bytes)
        put  == FoldLeft(LAMBDA q, b : Put(q, b[2]), d, bytes)
    IN  [put EXCEPT !.checkDicSize = IF @ = 0 /\ d.dicSize - d.processedPos <= size
                                     THEN d.dicSize ELSE @,
                    !.processedPos = @ + size,
                    !.res = IF \E i \in DOMAIN bytes : bytes[i][1] # "raw"
                            THEN "bad" ELSE @]

(* A header byte that is part of a symbol shows that the decoder is lost.  *)
HeaderByte(p, byte) ==
    IF byte[1] # "hdr" THEN [p EXCEPT !.res = "bad"]
    ELSE [Lzma2Dec_UpdateState(p, byte[2]) EXCEPT !.srcLen = @ + 1]

(* The next part of a chunk of raw bytes: at most destSize, out of in.     *)
RawData(p, in, destSize) ==
    LET first   == p.state = "data"
        initDic == p.control = 1
        size    == Lesser(Len(in), destSize)
        d       == IF first THEN LzmaDec_InitDicAndState(p.decoder, initDic, FALSE)
                   ELSE p.decoder
        q       == LzmaDec_UpdateWithUncompressed(d, SubSeq(in, 1, size))
    IN  IF in = << >> THEN Returns(p, "needs more input")
        ELSE IF (first /\ ~initDic /\ p.needInitDic) \/ size = 0 THEN DataError(p)
        ELSE [p EXCEPT !.needInitProp = (first /\ initDic) \/ @,
                       !.needInitState = (first /\ initDic) \/ @,
                       !.needInitDic = FALSE,
                       !.decoder = q,
                       !.srcLen = @ + size,
                       !.unpackSize = @ - size,
                       !.state = IF p.unpackSize = size THEN "control" ELSE "data cont",
                       !.res = q.res]

(* The first part of an LZMA chunk resets what its control byte says.      *)
ChunkBegins(p) ==
    LET initDic   == LzmaMode(p) = 3
        initState == LzmaMode(p) > 0
    IN  IF p.state = "data cont" THEN p
        ELSE IF (~initDic /\ p.needInitDic) \/ (~initState /\ p.needInitState)
        THEN DataError(p)
        ELSE [p EXCEPT !.decoder = LzmaDec_InitDicAndState(@, initDic, initState),
                       !.needInitDic = FALSE, !.needInitState = FALSE,
                       !.state = "data cont"]

(* Seeded fault: a chunk may end with packed bytes left.                   *)
AfterAnyPackSize(p, d, out) ==
    LET q == [p EXCEPT !.decoder = d, !.srcLen = @ + d.srcLen,
                       !.packSize = @ - d.srcLen, !.unpackSize = @ - out]
    IN  IF d.res # "ok" \/ d.status = "needs more input"
        THEN [Returns(q, d.status) EXCEPT !.res = d.res]
        ELSE IF d.srcLen # 0 \/ out # 0 THEN q
        ELSE IF d.status = "maybe finished" /\ p.unpackSize = 0
        THEN [q EXCEPT !.state = "control"]
        ELSE DataError(q)

(* An LZMA chunk ends when a call that neither reads nor writes finds the  *)
(* coder's code at 0 and both sizes used up.                               *)
AfterLzmaData(p, d, out) ==
    LET q    == [p EXCEPT !.decoder = d, !.srcLen = @ + d.srcLen,
                          !.packSize = @ - d.srcLen, !.unpackSize = @ - out]
        idle == d.srcLen = 0 /\ out = 0
        over == d.status = "maybe finished" /\ p.unpackSize = 0 /\ p.packSize = 0
    IN  IF d.res # "ok" \/ d.status = "needs more input"
        THEN [Returns(q, d.status) EXCEPT !.res = d.res]
        ELSE IF ~idle THEN q
        ELSE IF over THEN [q EXCEPT !.state = "control"]
        ELSE DataError(q)

LzmaData(p, in, destSize, finish) ==
    LET Out(q, d)  == AfterLzmaData(q, d, d.dicPos - q.decoder.dicPos)
        Decode(q)  == LzmaDec_DecodeToDic(q.decoder, q.decoder.dicPos + destSize,
                          SubSeq(in, 1, Lesser(Len(in), q.packSize)), finish)
        Begun(q)   == IF q.res = "ok" THEN Out(q, Decode(q)) ELSE q
    IN  Begun(ChunkBegins(p))

Data(p, in, dest) ==
    LET Part(size, finish) ==
            IF IsUncompressed(p) THEN RawData(p, in, size)
            ELSE LzmaData(p, in, size, finish)
    IN  IF p.unpackSize <= dest THEN Part(p.unpackSize, "end") ELSE Part(dest, "any")

RECURSIVE Lzma2Loop(_, _, _, _)
Lzma2Loop(p, limit, src, finish) ==
    IF ~Decoding(p) THEN p
    ELSE IF p.state = "finished" THEN Returns(p, "finished with mark")
    ELSE IF p.state = "error" THEN DataError(p)
    ELSE IF p.decoder.dicPos = limit /\ finish = "any" THEN Returns(p, "not finished")
    ELSE IF p.state \in {"data", "data cont"}
    THEN Lzma2Loop(Data(p, Rest(p, src), limit - p.decoder.dicPos), limit, src, finish)
    ELSE IF p.srcLen = Len(src) THEN Returns(p, "needs more input")
    ELSE Lzma2Loop(HeaderByte(p, src[p.srcLen + 1]), limit, src, finish)

Lzma2Dec_DecodeToDic(p, limit, src, finish) ==
    Lzma2Loop([p EXCEPT !.srcLen = 0, !.status = "not specified", !.res = "ok"],
              limit, src, finish)

(* The buffer interface, as in LzmaDec.                                    *)
RECURSIVE Lzma2BufLoop(_, _, _, _)
Lzma2BufLoop(c, outSize, src, finish) ==
    LET Call(p, piece) ==
            Lzma2Dec_DecodeToDic(p, p.decoder.dicPos + piece[1], src, piece[2])
        Next(q, cur) ==
            LET next == [p |-> q, out |-> c.out \o cur, read |-> c.read + q.srcLen]
            IN  IF q.res # "ok" \/ cur = << >> \/ Len(cur) = outSize THEN next
                ELSE Lzma2BufLoop(next, outSize - Len(cur), Rest(q, src), finish)
        Got(p, q) == Next(q, Written(p.decoder, q.decoder))
        Do(p)     == Got(p, Call(p, Piece(p.decoder, outSize, finish)))
    IN  Do([c.p EXCEPT !.decoder = Window(@)])

Lzma2Dec_DecodeToBuf(p, outSize, src, finish) ==
    Lzma2BufLoop([p |-> p, out |-> << >>, read |-> 0], outSize, src, finish)

Lzma2Decode(outSize, src, prop, finish, syms) ==
    LET props == Lzma2Dec_GetOldProps(prop)
        Out(p, q) == [OneCallResult(p.decoder, q.decoder) EXCEPT
                          !.res = IF q.res = "ok" /\ q.status = "needs more input"
                                  THEN "input eof" ELSE q.res]
        Decode(p) == Out(p, Lzma2Dec_DecodeToDic(p, outSize, src, finish))
    IN  IF props = << >> THEN Failed("unsupported")
        ELSE Decode(Lzma2Dec_Init(Decoder(props[1], outSize, syms)))
=============================================================================
