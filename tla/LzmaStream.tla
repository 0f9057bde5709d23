----------------------------- MODULE LzmaStream -----------------------------
(***************************************************************************)
(* What an LZMA or LZMA2 encoder hands to the decoders: their environment, *)
(* and the reference that their output is compared with.                   *)
(*                                                                         *)
(* A stream is a sequence of chunks (LZMA has one), a chunk a sequence of  *)
(* symbols or, in LZMA2, of raw bytes.  The range coder's arithmetic is    *)
(* abstracted to what the decoder's control depends on.  A symbol costs a  *)
(* number of bytes, the normalisation behind it included, and comes out    *)
(* right only if exactly those bytes are read, in their order, and if the  *)
(* decoder consults the probabilities that the encoder did: the position,  *)
(* the byte before, the byte a match would have brought, the properties,   *)
(* and as many updates since the last reset.  Each byte of the stream is   *)
(* therefore a value of its own: byte j of symbol k is <<"sym", k, j>>.    *)
(***************************************************************************)
EXTENDS Naturals, Sequences, SequencesExt

CONSTANT RC_INIT_SIZE   \* bytes that start a range coder; 5 in the code

(* Symbols.  cost is <<n, m>>: n bytes are read for the symbol's bits, and  *)
(* m, at most 1, by the normalisation behind the last of them.  chance     *)
(* says that the coder's code happens to be 0 behind the symbol.           *)
Symbol(kind, byte, dist, which, len, cost) ==
    [kind |-> kind, byte |-> byte, dist |-> dist, which |-> which,
     len |-> len, cost |-> cost, chance |-> FALSE]

Lit(byte, cost)        == Symbol("lit", byte, 0, 0, 1, cost)
Match(dist, len, cost) == Symbol("match", 0, dist, 0, len, cost)
Rep(which, len, cost)  == Symbol("rep", 0, 0, which, len, cost)
ShortRep(cost)         == Symbol("short", 0, 0, 0, 1, cost)
EndMark(cost)          == Symbol("end", 0, 0, 0, 0, cost)

Cost(s) == s.cost[1] + s.cost[2]

(* Chunks.  The mode of an LZMA chunk is what its control byte resets: 0   *)
(* nothing, 1 the state, 2 the properties too, 3 the dictionary too.  Raw  *)
(* bytes have mode 4, or 5 if they start a dictionary.                     *)
Packed(mode, prop, syms) == [mode |-> mode, prop |-> prop, syms |-> syms, raw |-> << >>]
Raw(resetDic, bytes) == [mode |-> IF resetDic THEN 5 ELSE 4, prop |-> 0,
                         syms |-> << >>, raw |-> bytes]

(***************************************************************************)
(* The encoder's view while it writes: the plain text so far, where the    *)
(* dictionary began, the last four distances (the most recent in front),   *)
(* whether the last symbol was a match, and the symbols since a reset.     *)
(***************************************************************************)
Fresh == [plain |-> << >>, base |-> 0, reps |-> <<1, 1, 1, 1>>,
          afterMatch |-> FALSE, since |-> 0, prop |-> 0,
          syms |-> << >>, bytes |-> << >>]

(* A distance that is used moves to the front; a new one drops the last.   *)
Distances(e, s) ==
    IF s.kind = "match" THEN <<s.dist>> \o SubSeq(e.reps, 1, 3)
    ELSE IF s.kind = "rep"
    THEN <<e.reps[s.which + 1]>> \o RemoveAt(e.reps, s.which + 1)
    ELSE e.reps

(* Copying may run into what it has just written.                          *)
Extended(plain, dist, len) ==
    FoldLeft(LAMBDA text, i : Append(text, text[Len(text) + 1 - dist]),
             plain, [i \in 1..len |-> i])

Context(e) ==
    LET n == Len(e.plain)
    IN  [pos |-> n - e.base,
         prev |-> IF n = e.base THEN << >> ELSE <<e.plain[n]>>,
         match |-> IF e.afterMatch THEN <<e.plain[n + 1 - e.reps[1]]>> ELSE << >>,
         since |-> e.since, prop |-> e.prop]

BytesOf(k, cost) == [j \in 1..cost |-> <<"sym", k, j>>]

RcInit(k) == [j \in 1..RC_INIT_SIZE |-> <<"rc", k, j>>]

Write(e, s) ==
    LET k    == Len(e.syms) + 1
        reps == Distances(e, s)
    IN  [e EXCEPT
           !.plain = IF s.kind = "lit" THEN Append(@, s.byte)
                     ELSE Extended(@, reps[1], s.len),
           !.reps = reps,
           !.afterMatch = s.kind # "lit",
           !.since = @ + 1,
           !.syms = Append(@, s @@ [context |-> Context(e), zero |-> s.chance]),
           !.bytes = @ \o BytesOf(k, Cost(s))]

(* A reset of the state is one of the probabilities and the distances too. *)
Reset(e, chunk) ==
    LET dic   == chunk.mode \in {3, 5}
        state == chunk.mode \in {1, 2, 3}
    IN  [e EXCEPT
           !.base = IF dic THEN Len(e.plain) ELSE @,
           !.reps = IF state THEN <<1, 1, 1, 1>> ELSE @,
           !.afterMatch = IF state THEN FALSE ELSE @,
           !.since = IF state THEN 0 ELSE @,
           !.prop = IF chunk.mode \in {2, 3} THEN chunk.prop ELSE @]

(* The encoder flushes behind the last symbol of a chunk: code is 0 there. *)
WritePacked(e, chunk) ==
    LET written == FoldLeft(Write, [e EXCEPT !.bytes = @ \o RcInit(Len(e.syms) + 1)],
                            chunk.syms)
    IN  [written EXCEPT !.syms[Len(written.syms)].zero = TRUE]

Hdr(values) == [i \in DOMAIN values |-> <<"hdr", values[i]>>]

Hi(n) == n \div 256
Lo(n) == n % 256

(* The bytes in front of an LZMA2 chunk.                                   *)
Header(chunk, unpackSize, packSize) ==
    LET u == unpackSize - 1
        p == packSize - 1
    IN  IF chunk.mode >= 4
        THEN Hdr(<<6 - chunk.mode, Hi(u), Lo(u)>>)
        ELSE Hdr(<<128 + 32 * chunk.mode + u \div 65536, Hi(u % 65536), Lo(u),
                   Hi(p), Lo(p)>>
                 \o IF chunk.mode \in {2, 3} THEN <<chunk.prop>> ELSE << >>)

WriteChunk(e, chunk) ==
    LET start == Reset(e, chunk)
        empty == [start EXCEPT !.bytes = << >>]
        body  == IF chunk.syms = << >>
                 THEN [empty EXCEPT !.plain = @ \o chunk.raw,
                            !.bytes = [i \in DOMAIN chunk.raw |-> <<"raw", chunk.raw[i]>>]]
                 ELSE WritePacked(empty, chunk)
    IN  [body EXCEPT !.bytes =
            e.bytes \o Header(chunk, Len(body.plain) - Len(e.plain), Len(@)) \o @]

LzmaCoded(chunk) == WritePacked(Reset(Fresh, chunk), chunk)

(* The control byte 0 ends an LZMA2 stream.                                *)
Lzma2Coded(chunks) ==
    LET e == FoldLeft(WriteChunk, Fresh, chunks)
    IN  [e EXCEPT !.bytes = @ \o Hdr(<<0>>)]
=============================================================================
