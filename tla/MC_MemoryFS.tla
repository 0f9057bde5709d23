----------------------------- MODULE MC_MemoryFS -----------------------------
EXTENDS MemoryFS_proofs

(* One letter in both cases and with a space before it, a name that   *)
(* normalises to nothing, and one that addChild refuses.                   *)
MCNames == {<<"a">>, <<" ", "a">>, <<"A">>, <<" ">>, <<"b", "/", "a">>}

(* The same, padded with separators, and down to the second level.         *)
MCLookups ==
    {<<"a">>, << >>, <<" ", "A", "/">>, <<"/", "a", "/", "A">>,
     <<"a", "/", " ", "a">>, <<"a", "/", "a", "/">>}
=============================================================================
