---------------------------- MODULE FolderDecoder ---------------------------
(***************************************************************************)
(* SzFolder_Decode of lib/7z/7zDec.c, from reading the archive file to the *)
(* block of bytes that SzArEx_Extract caches: the coders of a folder one   *)
(* after the other, each over its packed stream, the way 7-Zip writes      *)
(* them: one main coder, a main coder with a branch filter, or BCJ2 over   *)
(* three main coders.  A step is one turn of a coder's loop.               *)
(*                                                                         *)
(* A byte of the file is <<k, byte>>, byte of the packed stream k.  What   *)
(* is read beyond a stream's own bytes is foreign to its decoder.          *)
(***************************************************************************)
EXTENDS Lzma2Dec, LookStream, Bcj2

CONSTANTS
    Jobs,            \* folders to decode, with what they were made from
    Convert(_, _),   \* x86_Convert, ARM_Convert over a whole buffer
    MaxFaults        \* how often the file system or the allocator may fail

VARIABLES
    job,        \* the folder, its packed streams and its file
    stream,     \* inStream
    phase,      \* where SzFolder_Decode2 is
    ci,         \* its coder, counted from 0
    coding,     \* the decoder at work, inSize, and how often its loop has turned
    out,        \* outBuffer
    tempBuf,    \* tempBuf[0], [1] and [2]
    result,     \* what SzFolder_Decode returns
    faults

vars == <<job, stream, phase, ci, coding, out, tempBuf, result, faults>>

(***************************************************************************)
(* What is supported.                                                      *)
(***************************************************************************)
IS_MAIN_METHOD(m) == m \in {"copy", "lzma", "lzma2"}

IS_SUPPORTED_CODER(c) == c.numIn = 1 /\ c.numOut = 1 /\ IS_MAIN_METHOD(c.method)

IS_BCJ2(c) == c.method = "bcj2" /\ c.numIn = 4 /\ c.numOut = 1

CheckSupportedFolder(f) ==
    LET c == f.coders
    IN  /\ Len(c) \in 1..4
        /\ IS_SUPPORTED_CODER(c[1])
        /\ \/ Len(c) = 1 /\ f.packStreams = <<0>> /\ f.bindPairs = << >>
           \/ /\ Len(c) = 2
              /\ c[2].numIn = 1 /\ c[2].numOut = 1
              /\ c[2].method \in {"bcj", "arm"}
              /\ f.packStreams = <<0>> /\ f.bindPairs = << <<1, 0>> >>
           \/ /\ Len(c) = 4
              /\ IS_SUPPORTED_CODER(c[2]) /\ IS_SUPPORTED_CODER(c[3]) /\ IS_BCJ2(c[4])
              /\ f.packStreams = <<2, 6, 1, 0>>
              /\ f.bindPairs = << <<5, 0>>, <<4, 1>>, <<3, 2>> >>

GetSum(values, index) == FoldLeft(LAMBDA sum, v : sum + v, 0, SubSeq(values, 1, index))

(***************************************************************************)
(* Where a main coder reads and writes.                                    *)
(***************************************************************************)
Folder == job.folder
Coder == Folder.coders[ci + 1]
OutSize == Len(job.plain)
InBcj2 == Len(Folder.coders) = 4
UnpackSize == Folder.unpackSizes[ci + 1]

(* The packed streams are main, range coder, call, jump.                   *)
PackIndex == IF InBcj2 THEN <<3, 2, 0>>[ci + 1] ELSE 0

OutSizeCur == IF InBcj2 THEN UnpackSize ELSE OutSize

(* The jump stream goes to tempBuf[1], the call stream to tempBuf[0], the  *)
(* main stream to the end of the buffer.                                   *)
Stored(bytes) ==
    IF InBcj2 /\ ci < 2
    THEN tempBuf' = [tempBuf EXCEPT ![1 - ci] = bytes] /\ out' = out
    ELSE out' = SubSeq(out, 1, OutSize - Len(bytes)) \o bytes /\ tempBuf' = tempBuf

(* The bytes that a look shows, as stream k's decoder takes them.          *)
Own(bytes, k) ==
    [i \in DOMAIN bytes |-> IF bytes[i][1] = k THEN bytes[i][2] ELSE <<"foreign", 0>>]

(***************************************************************************)
(* The steps.                                                              *)
(***************************************************************************)
NoCoding == << >>

Init ==
    /\ job \in Jobs
    /\ stream = LookToRead_Init(job.file, job.bufSize)
    /\ phase = "check"
    /\ ci = 0
    /\ coding = NoCoding
    /\ out = [i \in 1..OutSize |-> Unset]
    /\ tempBuf = [i \in 0..2 |-> << >>]
    /\ result = "none"
    /\ faults = 0

(* Every way out frees the probabilities and the temporary buffers.        *)
Return(res) ==
    /\ result' = res
    /\ phase' = "done"
    /\ coding' = NoCoding

Fault(fails) ==
    /\ fails => faults < MaxFaults
    /\ faults' = IF fails THEN faults + 1 ELSE faults

Check ==
    /\ phase = "check"
    /\ IF CheckSupportedFolder(Folder)
       THEN phase' = "coder" /\ UNCHANGED <<coding, result>>
       ELSE Return("unsupported")
    /\ UNCHANGED <<job, stream, ci, out, tempBuf, faults>>

(* The properties of the coder: << >> if they are not supported.           *)
Props(c) == IF c.method = "lzma2" THEN Lzma2Dec_GetOldProps(c.prop)
            ELSE IF c.propsSize < LZMA_PROPS_SIZE THEN << >>
            ELSE LzmaProps_Decode(c.prop, c.dicSize)

PropsResult(c) == IF c.method = "copy" THEN "ok"
                  ELSE IF c.method = "lzma2" /\ c.propsSize # 1 THEN "data error"
                  ELSE IF Props(c) = << >> THEN "unsupported" ELSE "ok"

NewCoding(c) ==
    LET d == Decoder(Props(c)[1], OutSizeCur, c.syms)
    IN  [dec |-> CASE c.method = "lzma"  -> LzmaDec_Init(d)
                   [] c.method = "lzma2" -> Lzma2Dec_Init(d)
                   [] c.method = "copy"  -> << >>,
         inSize |-> job.packSizes[PackIndex + 1], turns |-> 0]

(* tempBuf is allocated before the seek, the probabilities after it.       *)
StartMain ==
    /\ phase = "coder"
    /\ ci < Len(Folder.coders)
    /\ IS_MAIN_METHOD(Coder.method)
    /\ \E noTemp, noSeek, noProbs \in BOOLEAN :
         /\ noTemp => InBcj2 /\ ci < 2 /\ OutSizeCur > 0 /\ ~noSeek /\ ~noProbs
         /\ noProbs => ~noSeek /\ Coder.method # "copy" /\ PropsResult(Coder) = "ok"
         /\ Fault(noTemp \/ noSeek \/ noProbs)
         /\ IF noTemp THEN Return("no memory") /\ stream' = stream
            ELSE IF InBcj2 /\ ci = 2 /\ UnpackSize > OutSize
            THEN Return("param") /\ stream' = stream
            ELSE /\ stream' = LookToRead_Seek(stream,
                        job.startPos + GetSum(job.packSizes, PackIndex), noSeek)
                 /\ CASE noSeek -> Return("fail")
                      [] ~noSeek /\ Coder.method = "copy"
                             /\ job.packSizes[PackIndex + 1] # OutSizeCur ->
                           Return("data error")
                      [] ~noSeek /\ PropsResult(Coder) # "ok" -> Return(PropsResult(Coder))
                      [] noProbs -> Return("no memory")
                      [] OTHER -> /\ coding' = NewCoding(Coder)
                                  /\ phase' = Coder.method
                                  /\ result' = result
    /\ UNCHANGED <<job, ci, out, tempBuf>>

(* The coder has done its work, and wrote bytes.                           *)
CoderDone(bytes) ==
    /\ phase' = "coder"
    /\ ci' = ci + 1
    /\ coding' = NoCoding
    /\ result' = result
    /\ Stored(bytes)

CoderFails(res) == Return(res) /\ UNCHANGED <<ci, out, tempBuf>>

Continue(dec, n) ==
    /\ coding' = [dec |-> dec, inSize |-> coding.inSize - n, turns |-> coding.turns + 1]
    /\ UNCHANGED <<phase, ci, out, tempBuf, result>>

Looked(fails) == LookToRead_Look(stream, coding.inSize, fails)

(* A refused look needs one that reads.                                    *)
MayFail(fails) == fails => Unused(stream) = 0 /\ coding.inSize > 0

(* Seeded fault: a full buffer is taken for a finished stream.             *)
TurnTrusting(s, q, d, e, n, finished) ==
    IF q.res # "ok" THEN CoderFails(q.res) /\ stream' = s
    ELSE IF e.dicPos = e.dicBufSize \/ (q.srcLen = 0 /\ e.dicPos = d.dicPos)
    THEN /\ stream' = s
         /\ IF n = q.srcLen
            THEN CoderDone([i \in 1..e.dicBufSize |-> e.dic[i - 1]])
            ELSE CoderFails("data error")
    ELSE /\ stream' = LookToRead_Skip(s, q.srcLen)
         /\ Continue(q, q.srcLen)

(* Seeded fault: the loop does not see that nothing moves.                 *)
TurnAgain(s, q, d, e, n, finished) ==
    IF q.res # "ok" THEN CoderFails(q.res) /\ stream' = s
    ELSE IF e.dicPos = e.dicBufSize
    THEN /\ stream' = s
         /\ IF n = q.srcLen /\ q.status \in finished
            THEN CoderDone([i \in 1..e.dicBufSize |-> e.dic[i - 1]])
            ELSE CoderFails("data error")
    ELSE /\ stream' = LookToRead_Skip(s, q.srcLen)
         /\ Continue(q, q.srcLen)

(* A turn of the loop of SzDecodeLzma and SzDecodeLzma2: q is the decoder  *)
(* after it, d its dictionary before and e after, n what it was shown.     *)
(* Both stop when the buffer is full or nothing moves any more, and take   *)
(* the stream for sound only if the decoder says so at that time.          *)
Turn(s, q, d, e, n, finished) ==
    IF q.res # "ok" THEN CoderFails(q.res) /\ stream' = s
    ELSE IF e.dicPos = e.dicBufSize \/ (q.srcLen = 0 /\ e.dicPos = d.dicPos)
    THEN /\ stream' = s
         /\ IF n = q.srcLen /\ q.status \in finished
            THEN CoderDone([i \in 1..e.dicBufSize |-> e.dic[i - 1]])
            ELSE CoderFails("data error")
    ELSE /\ stream' = LookToRead_Skip(s, q.srcLen)
         /\ Continue(q, q.srcLen)

SzDecodeLzma ==
    /\ phase = "lzma"
    /\ \E fails \in BOOLEAN :
         /\ MayFail(fails)
         /\ Fault(fails)
         /\ \E s \in {Looked(fails)}, d \in {coding.dec} :
              IF s.res # "ok" THEN CoderFails(s.res) /\ stream' = s
              ELSE \E src \in {Own(Shown(s, coding.inSize), PackIndex)} :
                   \E q \in {LzmaDec_DecodeToDic(d, OutSizeCur, src, "end")} :
                       Turn(s, q, d, q, Len(src), {"finished with mark", "maybe finished"})
    /\ job' = job

SzDecodeLzma2 ==
    /\ phase = "lzma2"
    /\ \E fails \in BOOLEAN :
         /\ MayFail(fails)
         /\ Fault(fails)
         /\ \E s \in {Looked(fails)}, d \in {coding.dec} :
              IF s.res # "ok" THEN CoderFails(s.res) /\ stream' = s
              ELSE \E src \in {Own(Shown(s, coding.inSize), PackIndex)} :
                   \E q \in {Lzma2Dec_DecodeToDic(d, OutSizeCur, src, "end")} :
                       Turn(s, q, d.decoder, q.decoder, Len(src), {"finished with mark"})
    /\ job' = job

(* A turn of SzDecodeCopy; to is how it goes on when all is copied.        *)
CopyTurn(fails, k, to(_)) ==
    \E s \in {Looked(fails)} :
    \E bytes \in {Own(Shown(s, coding.inSize), k)} :
        IF s.res # "ok" THEN CoderFails(s.res) /\ stream' = s
        ELSE IF bytes = << >> THEN CoderFails("input eof") /\ stream' = s
        ELSE /\ stream' = LookToRead_Skip(s, Len(bytes))
             /\ Continue(coding.dec \o to(bytes), Len(bytes))

(* Raw bytes come out as what they are.                                    *)
Raws(bytes) == [i \in DOMAIN bytes |-> IF bytes[i][1] = "raw" THEN bytes[i][2] ELSE Unset]

SzDecodeCopy ==
    /\ phase = "copy"
    /\ \E fails \in BOOLEAN :
         /\ MayFail(fails)
         /\ Fault(fails)
         /\ IF coding.inSize = 0 THEN CoderDone(coding.dec) /\ stream' = stream
            ELSE CopyTurn(fails, PackIndex, Raws)
    /\ job' = job

(* BCJ2: its own range coded stream is not packed.                         *)
StartBcj2 ==
    /\ phase = "coder"
    /\ ci < Len(Folder.coders)
    /\ Coder.method = "bcj2"
    /\ \E noSeek, noTemp \in BOOLEAN :
         /\ noTemp => ~noSeek /\ job.packSizes[2] > 0
         /\ Fault(noSeek \/ noTemp)
         /\ stream' = LookToRead_Seek(stream, job.startPos + GetSum(job.packSizes, 1), noSeek)
         /\ IF noSeek THEN Return("fail")
            ELSE IF noTemp THEN Return("no memory")
            ELSE /\ coding' = [dec |-> << >>, inSize |-> job.packSizes[2], turns |-> 0]
                 /\ phase' = "bcj2"
                 /\ result' = result
    /\ UNCHANGED <<job, ci, out, tempBuf>>

Same(bytes) == bytes

DecodeBcj2 ==
    /\ phase = "bcj2"
    /\ \E fails \in BOOLEAN :
         /\ MayFail(fails)
         /\ Fault(fails)
         /\ IF coding.inSize > 0 THEN CopyTurn(fails, 1, Same)
            ELSE /\ stream' = stream
                 /\ \E r \in {Bcj2_Decode(out, Folder.unpackSizes[3], tempBuf[0], tempBuf[1],
                                          coding.dec, Coder.bits)} :
                      IF r.res # "ok" THEN CoderFails(r.res) ELSE CoderDone(r.out)
    /\ job' = job

(* A branch filter works in place on all of the output.                    *)
Filter ==
    /\ phase = "coder"
    /\ ci < Len(Folder.coders)
    /\ Coder.method \in {"bcj", "arm"}
    /\ CoderDone(Convert(Coder.method, out))
    /\ UNCHANGED <<job, stream, faults>>

Finish ==
    /\ phase = "coder"
    /\ ci = Len(Folder.coders)
    /\ Return("ok")
    /\ UNCHANGED <<job, stream, ci, out, tempBuf, faults>>

Returned == phase = "done" /\ UNCHANGED vars

Next ==
    \/ Check
    \/ StartMain
    \/ SzDecodeLzma
    \/ SzDecodeLzma2
    \/ SzDecodeCopy
    \/ StartBcj2
    \/ DecodeBcj2
    \/ Filter
    \/ Finish
    \/ Returned

Spec == Init /\ [][Next]_vars

(***************************************************************************)
(* Properties.                                                             *)
(***************************************************************************)
TypeOK ==
    /\ job \in Jobs
    /\ phase \in {"check", "coder", "lzma", "lzma2", "copy", "bcj2", "done"}
    /\ ci \in 0..Len(Folder.coders)
    /\ Len(out) = OutSize
    /\ stream.pos \in 0..Len(stream.buf)
    /\ Len(stream.buf) <= job.bufSize
    /\ faults \in 0..MaxFaults
    /\ phase = "done" <=> result # "none"
    /\ coding # NoCoding => coding.inSize \in Nat

(* A block that SzFolder_Decode hands out is what was packed, byte for     *)
(* byte, whatever the buffer's size, and although the main stream of BCJ2  *)
(* lies in the very buffer that is written (7zDec.c:379).  Only an end mark *)
(* that comes too early leaves bytes that nothing was written to.  No      *)
(* decoder is given a byte that is not its own stream's (7zDec.c:142-144,  *)
(* 385-387).                                                               *)
DecodedIsTheText ==
    /\ result # "bad"
    /\ result = "ok" =>
        \A i \in 1..OutSize :
            out[i] = job.plain[i] \/ (job.kind = "early" /\ out[i] = Unset)

(* Where the bytes of the buffer end inside the end mark, or in front of   *)
(* it, no more is read: the loops stop when all the text is there.         *)
MarkIsCut ==
    \E k \in DOMAIN job.marks : \E n \in job.marks[k] : n % job.bufSize = 0

(* A sound folder is refused only for a cut in its end mark, and always    *)
(* for that (7zDec.c:157-163, 207-213); one that is not sound, always,     *)
(* but for one whose end mark comes early.                                 *)
RefusedJustAtTheMark ==
    phase = "done" /\ faults = 0 =>
        (result = "ok" <=> (job.kind = "sound" /\ ~MarkIsCut) \/ job.kind = "early")

(* A loop turns at most once for every byte that it reads or writes: it    *)
(* ends, also on a file that is too short or refuses (7zDec.c:157, 207,    *)
(* 232).                                                                   *)
LoopsEnd == coding # NoCoding => coding.turns <= Len(job.file) + OutSize
=============================================================================
