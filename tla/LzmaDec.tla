------------------------------ MODULE LzmaDec -------------------------------
(***************************************************************************)
(* The LZMA decoder of lib/7z/LzmaDec.c: a record p, as CLzmaDec is, and   *)
(* the functions that advance it.  The dictionary is dic[0 .. dicBufSize). *)
(* What the calls return by other ways is kept in the record too: srcLen,  *)
(* status and res.  p.code stands for the range coder: the symbol it is in *)
(* front of, and whether its code is 0.  syms is what was encoded.  A      *)
(* symbol that is read from other bytes than its own, or with other        *)
(* probabilities, makes res "bad": what the decoder would do then is a     *)
(* matter of luck, and none of the calls does anything more.               *)
(***************************************************************************)
EXTENDS LzmaStream, FiniteSetsExt

CONSTANTS
    REQUIRED_INPUT_MAX,   \* bytes that a symbol can need; 20 in the code
    LZMA_DIC_MIN          \* the least dictionary; 4096 in the code

LZMA_PROPS_SIZE == 5        \* bytes of properties
kMatchSpecLenStart == 274   \* remainLen behind an end mark

Unset == 256                \* what no byte of the plain text is

Lesser(a, b) == IF a < b THEN a ELSE b

(***************************************************************************)
(* Setting up.                                                             *)
(***************************************************************************)
(* LzmaProps_Decode: d holds lc, lp and pb, which every symbol depends on. *)
LzmaProps_Decode(d, dicSize) ==
    IF d >= 225 THEN << >>
    ELSE <<[prop |-> d, dicSize |-> IF dicSize < LZMA_DIC_MIN THEN LZMA_DIC_MIN
                                    ELSE dicSize]>>

(* LzmaDec_AllocateProbs, dic and dicBufSize as the caller then sets them. *)
Decoder(props, dicBufSize, syms) ==
    [prop |-> props.prop, dicSize |-> props.dicSize,
     dic |-> [i \in 0..(dicBufSize - 1) |-> Unset], dicBufSize |-> dicBufSize,
     dicPos |-> 0, buf |-> 0, code |-> [next |-> 0, zero |-> FALSE],
     processedPos |-> 0, checkDicSize |-> 0, afterMatch |-> FALSE, since |-> 0,
     reps |-> <<1, 1, 1, 1>>, remainLen |-> 0, needFlush |-> TRUE,
     needInitState |-> TRUE, tempBuf |-> << >>, syms |-> syms,
     srcLen |-> 0, status |-> "not specified", res |-> "ok"]

(* LzmaDec_Allocate: a dictionary of its own, of the size it was told.     *)
Allocate(props, syms) == Decoder(props, props.dicSize, syms)

LzmaDec_InitDicAndState(p, initDic, initState) ==
    [p EXCEPT !.needFlush = TRUE, !.remainLen = 0, !.tempBuf = << >>,
              !.processedPos = IF initDic THEN 0 ELSE @,
              !.checkDicSize = IF initDic THEN 0 ELSE @,
              !.needInitState = initDic \/ initState \/ @]

LzmaDec_Init(p) == LzmaDec_InitDicAndState([p EXCEPT !.dicPos = 0], TRUE, TRUE)

LzmaDec_InitStateReal(p) ==
    [p EXCEPT !.since = 0, !.reps = <<1, 1, 1, 1>>, !.afterMatch = FALSE,
              !.needInitState = FALSE]

(* The first bytes tell the coder where it is.                             *)
LzmaDec_InitRc(p, data) ==
    [p EXCEPT !.code = [next |-> data[1][2], zero |-> FALSE],
              !.needFlush = FALSE,
              !.tempBuf = << >>,
              !.res = IF data = RcInit(data[1][2]) THEN @ ELSE "bad"]

(***************************************************************************)
(* The dictionary.                                                         *)
(***************************************************************************)
At(p, distance) ==
    p.dic[(p.dicPos - distance) + IF p.dicPos < distance THEN p.dicBufSize ELSE 0]

Put(p, byte) == [p EXCEPT !.dic[p.dicPos] = byte, !.dicPos = @ + 1]

Copied(p, n) == FoldLeft(LAMBDA q, i : Put(q, At(q, q.reps[1])), p, [i \in 1..n |-> i])

(* What a match brought beyond the limit of the last call.                 *)
LzmaDec_WriteRem(p, limit) ==
    LET len == Lesser(p.remainLen, limit - p.dicPos)
    IN  IF p.remainLen = 0 \/ p.remainLen >= kMatchSpecLenStart THEN p
        ELSE Copied([p EXCEPT
                 !.checkDicSize = IF @ = 0 /\ p.dicSize - p.processedPos <= len
                                  THEN p.dicSize ELSE @,
                 !.processedPos = @ + len,
                 !.remainLen = @ - len], len)

(***************************************************************************)
(* One symbol.                                                             *)
(***************************************************************************)
Symbols(p) == p.code.next \in DOMAIN p.syms

Upcoming(p) == p.syms[p.code.next]

AtStart(p) == p.checkDicSize = 0 /\ p.processedPos = 0

(* The probabilities that the decoder consults, and the encoder's.         *)
SameLiteral(p, c) ==
    /\ c.prev = IF AtStart(p) THEN << >>
                ELSE <<p.dic[(IF p.dicPos = 0 THEN p.dicBufSize ELSE p.dicPos) - 1]>>
    /\ c.match = IF p.afterMatch THEN <<At(p, p.reps[1])>> ELSE << >>

SameModel(p, c) ==
    /\ c.pos = p.processedPos
    /\ c.since = p.since
    /\ c.prop = p.prop
    /\ Upcoming(p).kind = "lit" => SameLiteral(p, c)

ComesOut(p, in) ==
    /\ SubSeq(in, p.buf + 1, p.buf + Cost(Upcoming(p)))
           = BytesOf(p.code.next, Cost(Upcoming(p)))
    /\ SameModel(p, Upcoming(p).context)

Consumed(p, s) ==
    [p EXCEPT !.buf = @ + Cost(s), !.since = @ + 1, !.afterMatch = s.kind # "lit",
              !.code = [next |-> @.next + 1, zero |-> s.zero],
              !.reps = IF s.kind = "end" THEN @ ELSE Distances(p, s)]

Advanced(p, n) == [p EXCEPT !.processedPos = @ + n]

DataError(p) == [p EXCEPT !.res = "data error"]

(* The bytes of a match up to the limit; the others are left to WriteRem.  *)
CopyMatch(p, len, limit) ==
    LET curLen == Lesser(limit - p.dicPos, len)
    IN  IF limit = p.dicPos THEN DataError(p)
        ELSE Copied([Advanced(p, curLen) EXCEPT !.remainLen = len - curLen], curLen)

(* How far back a match may reach.                                         *)
TooFar(p, distance) ==
    IF p.checkDicSize = 0 THEN distance > p.processedPos
    ELSE distance > p.checkDicSize

Effect(p, q, s, limit) ==
    CASE s.kind = "lit"   -> Advanced(Put(q, s.byte), 1)
      [] s.kind = "match" -> IF TooFar(q, s.dist) THEN DataError(q)
                             ELSE CopyMatch(q, s.len, limit)
      [] s.kind = "end"   -> [q EXCEPT !.remainLen = kMatchSpecLenStart + s.len]
      [] AtStart(p)       -> DataError(p)
      [] s.kind = "short" -> Advanced(Copied(q, 1), 1)
      [] s.kind = "rep"   -> CopyMatch(q, s.len, limit)

DecodeSymbol(p, in, limit) ==
    IF Symbols(p) /\ ComesOut(p, in)
    THEN Effect(p, Consumed(p, Upcoming(p)), Upcoming(p), limit)
    ELSE [p EXCEPT !.res = "bad"]

(* The do loop of LzmaDec_DecodeReal.  The limit on the input is compared  *)
(* with what is read before the normalisation behind the last symbol.      *)
RECURSIVE DecodeSymbols(_, _, _, _)
DecodeSymbols(p, in, limit, bufLimit) ==
    LET Repeat(q) ==
            IF /\ q.res = "ok"
               /\ q.remainLen < kMatchSpecLenStart
               /\ q.dicPos < limit
               /\ q.buf - Upcoming(p).cost[2] < bufLimit
            THEN DecodeSymbols(q, in, limit, bufLimit)
            ELSE q
    IN  Repeat(DecodeSymbol(p, in, limit))

(* The record is written back at the end; an error leaves it as it was.    *)
LzmaDec_DecodeReal(p, in, limit, bufLimit) ==
    LET WriteBack(q) == IF q.res = "data error" THEN DataError([p EXCEPT !.dic = q.dic])
                        ELSE q
    IN  WriteBack(DecodeSymbols(p, in, limit, bufLimit))

(* Until the dictionary is full the limit is held to where it will be.     *)
Limit2(p, limit) ==
    LET rem == p.dicSize - p.processedPos
    IN  IF p.checkDicSize = 0 /\ limit - p.dicPos > rem THEN p.dicPos + rem ELSE limit

(* Seeded fault: the dictionary is taken for full at what was decoded.     *)
FilledSoFar(q, limit) ==
    LzmaDec_WriteRem([q EXCEPT !.checkDicSize =
                          IF q.processedPos >= q.dicSize THEN q.processedPos ELSE @], limit)

Filled(q, limit) ==
    LzmaDec_WriteRem([q EXCEPT !.checkDicSize =
                          IF q.processedPos >= q.dicSize THEN q.dicSize ELSE @], limit)

RECURSIVE LzmaDec_DecodeReal2(_, _, _, _)
LzmaDec_DecodeReal2(p, in, limit, bufLimit) ==
    LET Repeat(q) ==
            IF /\ q.dicPos < limit
               /\ q.buf < bufLimit
               /\ q.remainLen < kMatchSpecLenStart
            THEN LzmaDec_DecodeReal2(q, in, limit, bufLimit)
            ELSE [q EXCEPT !.remainLen = Lesser(@, kMatchSpecLenStart)]
        Done(q) == IF q.res = "ok" THEN Repeat(Filled(q, limit)) ELSE q
    IN  Done(LzmaDec_DecodeReal(p, in, Limit2(p, limit), bufLimit))

(* LzmaDec_TryDummy reads a symbol and changes nothing: which kind is it,  *)
(* and are its bytes there, those of the normalisation behind it as well?  *)
(* Behind the last symbol the coder still asks for more.                   *)
LzmaDec_TryDummy(p, in) ==
    IF ~Symbols(p) \/ Len(in) < Cost(Upcoming(p)) THEN "error"
    ELSE IF Upcoming(p).kind = "lit" THEN "lit"
    ELSE IF Upcoming(p).kind \in {"match", "end"} THEN "match"
    ELSE "rep"

(***************************************************************************)
(* LzmaDec_DecodeToDic.                                                    *)
(***************************************************************************)
Returns(p, status) == [p EXCEPT !.status = status]

NotFinished(p) == DataError(Returns(p, "not finished"))

Rest(p, src) == SubSeq(src, p.srcLen + 1, Len(src))

(* TryDummy comes first where a symbol may not be all there, and where     *)
(* nothing but an end mark may come.                                       *)
Tried(p, in, checkEndMarkNow) ==
    LET dummy == LzmaDec_TryDummy(p, in)
    IN  IF Len(in) >= REQUIRED_INPUT_MAX /\ ~checkEndMarkNow THEN "go on"
        ELSE IF dummy = "error" THEN "needs more input"
        ELSE IF checkEndMarkNow /\ dummy # "match" THEN "not finished"
        ELSE "go on"

(* From the caller's bytes.  Those of a symbol that is not all there go to *)
(* tempBuf.                                                                *)
DecodeFromSource(p, in, limit, checkEndMarkNow) ==
    LET bufLimit == IF checkEndMarkNow THEN 0 ELSE Len(in) - REQUIRED_INPUT_MAX
        Taken(q) == IF q.res = "ok" THEN [q EXCEPT !.srcLen = @ + q.buf] ELSE q
        tried    == Tried(p, in, checkEndMarkNow)
    IN  CASE tried = "needs more input" ->
               Returns([p EXCEPT !.tempBuf = in, !.srcLen = @ + Len(in)], tried)
          [] tried = "not finished" -> NotFinished(p)
          [] tried = "go on" ->
               Taken(LzmaDec_DecodeReal2([p EXCEPT !.buf = 0], in, limit, bufLimit))

(* Seeded fault: what is left in tempBuf counts as taken.                  *)
DecodeFromTempKept(p, temp, look, limit, checkEndMarkNow) ==
    LET tried    == Tried(p, temp, checkEndMarkNow)
        Taken(q) == [q EXCEPT !.srcLen = @ + look, !.tempBuf = << >>]
    IN  IF tried # "go on" THEN Returns([p EXCEPT !.tempBuf = temp, !.srcLen = @ + look], tried)
        ELSE Taken(LzmaDec_DecodeReal2([p EXCEPT !.buf = 0], temp, limit, 0))

(* From tempBuf, filled up with look of the caller's bytes: one symbol,    *)
(* and what it did not need of the caller's is given back.                 *)
DecodeFromTemp(p, temp, look, limit, checkEndMarkNow) ==
    LET tried    == Tried(p, temp, checkEndMarkNow)
        Taken(q) == IF q.res # "ok" THEN [q EXCEPT !.tempBuf = temp]
                    ELSE [q EXCEPT
                        !.srcLen = @ + look - (Len(temp) - q.buf),
                        !.tempBuf = << >>,
                        !.res = IF Len(temp) - q.buf > look THEN "bad" ELSE @]
    IN  CASE tried = "needs more input" ->
               Returns([p EXCEPT !.tempBuf = temp, !.srcLen = @ + look], tried)
          [] tried = "not finished" -> NotFinished(p)
          [] tried = "go on" ->
               Taken(LzmaDec_DecodeReal2([p EXCEPT !.buf = 0], temp, limit, 0))

Sources(p, in, limit, checkEndMarkNow) ==
    LET look == Lesser(REQUIRED_INPUT_MAX - Len(p.tempBuf), Len(in))
    IN  IF p.tempBuf = << >> THEN DecodeFromSource(p, in, limit, checkEndMarkNow)
        ELSE DecodeFromTemp(p, p.tempBuf \o SubSeq(in, 1, look), look, limit,
                            checkEndMarkNow)

(* The bytes that start the range coder.                                   *)
Flush(p, in) ==
    LET n     == Lesser(RC_INIT_SIZE - Len(p.tempBuf), Len(in))
        Try(q) == IF Len(q.tempBuf) < RC_INIT_SIZE THEN Returns(q, "needs more input")
                  ELSE IF q.tempBuf[1][1] # "rc" THEN DataError(q)
                  ELSE LzmaDec_InitRc(q, q.tempBuf)
    IN  IF p.needFlush
        THEN Try([p EXCEPT !.tempBuf = @ \o SubSeq(in, 1, n), !.srcLen = @ + n])
        ELSE p

Decoding(p) == p.res = "ok" /\ p.status = "not specified"

(* At the limit: is the stream finished, may it be, or must it be?         *)
LimitReached(p, finish) ==
    IF p.remainLen = 0 /\ p.code.zero THEN Returns(p, "maybe finished")
    ELSE IF finish = "any" THEN Returns(p, "not finished")
    ELSE IF p.remainLen # 0 THEN NotFinished(p)
    ELSE p

Finished(p) == IF p.code.zero THEN Returns(p, "finished with mark") ELSE DataError(p)

RECURSIVE DecodeLoop(_, _, _, _)
DecodeLoop(p, limit, src, finish) ==
    LET Full(q)  == q.dicPos >= limit
        Limit(q) == IF Decoding(q) /\ Full(q) THEN LimitReached(q, finish) ELSE q
        Start(q) == IF q.needInitState THEN LzmaDec_InitStateReal(q) ELSE q
        Step(q)  == IF Decoding(q)
                    THEN DecodeLoop(Sources(Start(q), Rest(q, src), limit, Full(q)),
                                    limit, src, finish)
                    ELSE q
    IN  IF ~Decoding(p) THEN p
        ELSE IF p.remainLen = kMatchSpecLenStart THEN Finished(p)
        ELSE Step(Limit(Flush(p, Rest(p, src))))

LzmaDec_DecodeToDic(p, limit, src, finish) ==
    DecodeLoop([LzmaDec_WriteRem(p, limit) EXCEPT
                    !.srcLen = 0, !.status = "not specified", !.res = "ok"],
               limit, src, finish)

(***************************************************************************)
(* The buffer interface: the dictionary is circular, and what comes into   *)
(* it goes out to the caller.  c.out is what one call has handed out and   *)
(* c.read what it has taken.                                               *)
(***************************************************************************)
Window(p) == [p EXCEPT !.dicPos = IF @ = p.dicBufSize THEN 0 ELSE @]

Written(before, after) ==
    [i \in 1..(after.dicPos - before.dicPos) |-> after.dic[before.dicPos + i - 1]]

(* How far the next call may go, and whether it is the last: <<n, finish>>. *)
Piece(p, outSize, finish) ==
    IF outSize > p.dicBufSize - p.dicPos THEN <<p.dicBufSize - p.dicPos, "any">>
    ELSE <<outSize, finish>>

RECURSIVE LzmaBufLoop(_, _, _, _)
LzmaBufLoop(c, outSize, src, finish) ==
    LET Call(p, piece) ==
            LzmaDec_DecodeToDic(p, p.dicPos + piece[1], src, piece[2])
        Next(q, cur) ==
            LET next == [p |-> q, out |-> c.out \o cur, read |-> c.read + q.srcLen]
            IN  IF q.res # "ok" \/ cur = << >> \/ Len(cur) = outSize THEN next
                ELSE LzmaBufLoop(next, outSize - Len(cur), Rest(q, src), finish)
        Got(p, q) == Next(q, Written(p, q))
        Do(p)     == Got(p, Call(p, Piece(p, outSize, finish)))
    IN  Do(Window(c.p))

LzmaDec_DecodeToBuf(p, outSize, src, finish) ==
    LzmaBufLoop([p |-> p, out |-> << >>, read |-> 0], outSize, src, finish)

(* Seeded fault: input that ends too early is not told from success.       *)
ResultAsItIs(p, q) == [res |-> q.res, out |-> Written(p, q)]

(* LzmaDecode, the interface of one call: dest is the dictionary.          *)
OneCallResult(p, q) ==
    [res |-> IF q.res = "ok" /\ q.status = "needs more input" THEN "input eof" ELSE q.res,
     out |-> Written(p, q)]

Failed(res) == [res |-> res, out |-> << >>]

LzmaDecode(outSize, src, d, dicSize, finish, syms) ==
    LET props == LzmaProps_Decode(d, dicSize)
        Decode(p) == OneCallResult(p, LzmaDec_DecodeToDic(p, outSize, src, finish))
    IN  IF Len(src) < RC_INIT_SIZE THEN Failed("input eof")
        ELSE IF props = << >> THEN Failed("unsupported")
        ELSE Decode(LzmaDec_Init(Decoder(props[1], outSize, syms)))
=============================================================================
