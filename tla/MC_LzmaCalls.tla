---------------------------- MODULE MC_LzmaCalls ----------------------------
(***************************************************************************)
(* The streams of MC_Streams, and some that no encoder writes.             *)
(***************************************************************************)
EXTENDS LzmaCalls, MC_Streams

(* What is wrong with the others: the distance of a match, before and      *)
(* after the dictionary is full; a repeated match at the start; more text  *)
(* than was told, at a literal and inside a match.                         *)
UnsoundLzma ==
    {[Unmarked EXCEPT !.syms[6].dist = 5],
     [Unmarked EXCEPT !.syms[3].dist = 3],
     [Unmarked EXCEPT !.syms[1].kind = "rep"],
     [Marked EXCEPT !.plain = Front(@)],
     [Unmarked EXCEPT !.plain = Front(@)]}

(* A first chunk that does not start the dictionary, packed and raw; one   *)
(* without properties after a reset; properties beyond what is supported;  *)
(* a control byte that means nothing; sizes that are not the chunk's.      *)
Short == Packed(3, 4, <<Lit(1, <<1, 1>>), Match(1, 2, <<1, 0>>)>>)

UnsoundLzma2 ==
    {Lzma2Coded(<<[Short EXCEPT !.mode = 2]>>),
     Lzma2Coded(<<Raw(FALSE, <<1, 2>>)>>),
     Lzma2Coded(<<Raw(TRUE, <<1, 2>>), [Short EXCEPT !.mode = 1]>>),
     Lzma2Coded(<<Short, Raw(TRUE, <<1>>), [Short EXCEPT !.mode = 1]>>),
     Lzma2Coded(<<[Short EXCEPT !.prop = 44]>>)}
    \cup {[Lzma2Coded(<<Short, Short>>) EXCEPT !.bytes[b[1]] = <<"hdr", b[2]>>] :
              b \in {<<1, 3>>, <<3, 1>>, <<3, 3>>, <<5, 3>>, <<5, 5>>}}

Coded(coding, prop, encoded, sound) ==
    {[coding |-> coding, interface |-> i, prop |-> prop, dicSize |-> 4,
      encoded |-> e, sound |-> sound] : i \in {"dictionary", "buffer"}, e \in encoded}

MCStreams ==
    Coded("lzma", 93, {Marked, Unmarked}, TRUE)
    \cup Coded("lzma2", 0, {Chunked, Resets}, TRUE)
    \cup Coded("lzma", 93, UnsoundLzma, FALSE)
    \cup Coded("lzma2", 0, UnsoundLzma2, FALSE)
=============================================================================
