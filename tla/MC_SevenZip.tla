----------------------------- MODULE MC_SevenZip -----------------------------
EXTENDS SevenZip_proofs

CONSTANTS t1, t2

Symmetry == Permutations({t1, t2})

Dir(name)          == [name |-> name, isDir |-> TRUE, folder |-> NoFolder,
                       size |-> 0, crcDefined |-> FALSE]
Empty(name)        == [Dir(name) EXCEPT !.isDir = FALSE]
In(f, name, n, crc) == [name |-> name, isDir |-> FALSE, folder |-> f,
                       size |-> n, crcDefined |-> crc]
Solid(n, crc, bad) == [size |-> n, crcDefined |-> crc, damaged |-> bad]

(* Two blocks, the first with two files and an empty one between them.     *)
TwoBlocks(bad1, bad2) ==
    [items |-> <<In(1, <<"a">>, 1, TRUE), In(1, <<"E">>, 0, FALSE),
                 In(1, <<"b">>, 2, FALSE), In(2, <<"c">>, 1, FALSE),
                 Empty(<<"e">>)>>,
     folders |-> <<Solid(3, bad2, bad1), Solid(1, bad1, bad2)>>]

(* Names that begin alike on several levels, one that appears twice, two   *)
(* that normalisation would change once the NUL has gone, and one of which *)
(* it leaves nothing.                                                      *)
Names ==
    [items |-> <<Dir(<<"a">>), In(1, <<"a", "/", "a">>, 1, TRUE),
                 Empty(<<"a", "a">>), Dir(<<"a", "/", "b">>),
                 Empty(<<"a", "/", "b", "/", "a">>), Empty(<<"a", " ">>),
                 Empty(<<"a", "/", "a">>), Empty(<<" ", "/", "b", " ">>),
                 Empty(<<"/">>)>>,
     folders |-> <<Solid(1, FALSE, FALSE)>>]

(* A block of nothing: two files without bytes, packed all the same.       *)
EmptyBlock ==
    [items |-> <<In(1, <<"a">>, 0, TRUE), In(1, <<"b">>, 0, FALSE)>>,
     folders |-> <<Solid(0, TRUE, FALSE)>>]

MCArchives ==
    {Names, EmptyBlock} \union {TwoBlocks(bad1, bad2) : bad1, bad2 \in BOOLEAN}

MCArguments == {<<"a">>, <<"/", "b">>, <<"b", "/", "a">>, << >>, <<"a", " ">>}

(* The theorems that need the sizes of an archive to fit hold of these.    *)
ASSUME MCSizesFit == WellPacked /\ SizesFit
=============================================================================
