----------------------------- MODULE MC_Streams -----------------------------
(***************************************************************************)
(* Streams whose text is longer than the dictionary, with matches across   *)
(* its end, symbols of 0 to 3 bytes, and chunks of all modes.              *)
(***************************************************************************)
EXTENDS LzmaStream

Symbols1 == <<Lit(1, <<1, 0>>), Lit(2, <<0, 1>>), Match(2, 3, <<2, 1>>), ShortRep(<<0, 0>>),
              Lit(3, <<3, 0>>), Match(4, 2, <<1, 1>>), Rep(1, 5, <<2, 0>>)>>

Marked == LzmaCoded(Packed(3, 93, Symbols1 \o <<Lit(1, <<1, 0>>), EndMark(<<2, 1>>)>>))
Unmarked == LzmaCoded(Packed(3, 93, Symbols1 \o <<[Lit(2, <<1, 0>>) EXCEPT !.chance = TRUE],
                                                  Rep(0, 2, <<1, 1>>)>>))

Chunked == Lzma2Coded(<<Packed(3, 4, <<Lit(1, <<1, 1>>), Lit(2, <<1, 0>>), Match(2, 3, <<1, 1>>)>>),
                        Packed(0, 4, <<Rep(0, 3, <<2, 1>>), Lit(2, <<0, 1>>)>>),
                        Raw(FALSE, <<1, 3>>),
                        Packed(1, 4, <<Lit(2, <<1, 0>>), Match(3, 2, <<0, 1>>)>>)>>)
Resets == Lzma2Coded(<<Raw(TRUE, <<1, 2, 1>>),
                       Packed(2, 3, <<Match(2, 5, <<1, 1>>), Lit(3, <<2, 0>>)>>),
                       Packed(3, 2, <<Lit(2, <<1, 0>>), ShortRep(<<1, 0>>), Rep(0, 2, <<1, 1>>)>>)>>)
=============================================================================
