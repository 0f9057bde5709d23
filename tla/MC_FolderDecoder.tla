-------------------------- MODULE MC_FolderDecoder --------------------------
(***************************************************************************)
(* Folders of every shape that is supported, and some that are not, read   *)
(* through buffers of 1 to 7 bytes: every place of a stream is at the end  *)
(* of some buffer.                                                         *)
(***************************************************************************)
EXTENDS FolderDecoder, MC_Streams

Coders(method, e) ==
    [method |-> method, numIn |-> 1, numOut |-> 1, dicSize |-> 4,
     propsSize |-> CASE method = "lzma" -> 5 [] method = "lzma2" -> 1 [] OTHER -> 0,
     prop |-> IF method = "lzma" THEN 93 ELSE 0, syms |-> e.syms]

Plainly(bytes) == [plain |-> bytes, syms |-> << >>,
                   bytes |-> [i \in DOMAIN bytes |-> <<"raw", bytes[i]>>]]

Literally(bytes) ==
    LzmaCoded(Packed(3, 93, [i \in DOMAIN bytes |-> Lit(bytes[i], <<1, 0>>)]))

FilterCoder(method) == [method |-> method, numIn |-> 1, numOut |-> 1, dicSize |-> 0,
                        prop |-> 0, syms |-> << >>]

(* The filters' part is to be applied once, to all of the output.          *)
MCConvert(method, bytes) ==
    Reverse([i \in DOMAIN bytes |-> bytes[i] + IF method = "arm" THEN 10 ELSE 20])

Folder1(c) == [coders |-> <<c>>, packStreams |-> <<0>>, bindPairs |-> << >>]

Filtered(c, method) == [coders |-> <<c, FilterCoder(method)>>,
                        packStreams |-> <<0>>, bindPairs |-> << <<1, 0>> >>]

(* The file: other bytes, the packed streams, other bytes.                 *)
Other == <<9, <<"hdr", 0>>>>
Tagged(streams) ==
    FlattenSeq([k \in DOMAIN streams |->
                   [i \in DOMAIN streams[k] |-> <<k - 1, streams[k][i]>>]])

Job(folder, unpackSizes, streams, plain, marks, bufSize) ==
    [folder |-> folder @@ [unpackSizes |-> unpackSizes],
     packSizes |-> [k \in DOMAIN streams |-> Len(streams[k])],
     startPos |-> 2,
     file |-> <<Other, Other>> \o Tagged(streams) \o <<Other>>,
     plain |-> plain, marks |-> marks, bufSize |-> bufSize, kind |-> "sound"]

Job1(folder, e, plain, mark, bufSize) ==
    Job(folder, [i \in DOMAIN folder.coders |-> Len(plain)], <<e.bytes>>, plain, <<mark>>, bufSize)

LastByte(e) == {Len(e.bytes) - 1}
Mark(e) == (Len(e.bytes) - 3)..(Len(e.bytes) - 1)

Singles(unmarked, marked, chunked, resets, plainly, b) ==
    {Job1(Folder1(Coders("lzma", unmarked)), unmarked, unmarked.plain, {}, b),
     Job1(Folder1(Coders("lzma", marked)), marked, marked.plain, Mark(marked), b),
     Job1(Folder1(Coders("lzma2", chunked)), chunked, chunked.plain, LastByte(chunked), b),
     Job1(Folder1(Coders("lzma2", resets)), resets, resets.plain, LastByte(resets), b),
     Job1(Folder1(Coders("copy", plainly)), plainly, plainly.plain, {}, b),
     Job1(Filtered(Coders("lzma", unmarked), "bcj"), unmarked,
          MCConvert("bcj", unmarked.plain), {}, b),
     Job1(Filtered(Coders("lzma2", resets), "arm"), resets,
          MCConvert("arm", resets.plain), LastByte(resets), b)}

(* Calls, a jump and a conditional jump, taken out and left alone, the     *)
(* last one without its target.                                            *)
Code == <<1, 232, 3, 0, 15, 132, 1, 0, 233, 250, 255, 232, 9, 5, 233>>
Taken == << <<1, 1>>, <<1, 0>>, <<1, 1>>, <<0, 1>> >>

Bcj2Coder(bits) == [method |-> "bcj2", numIn |-> 4, numOut |-> 1, dicSize |-> 0,
                    prop |-> 0, syms |-> << >>, bits |-> bits]

Bcj2Folder(bits, main, call, jump) ==
    [coders |-> <<Coders("copy", jump), Coders("lzma2", call),
                  Coders("lzma", main), Bcj2Coder(bits)>>,
     packStreams |-> <<2, 6, 1, 0>>,
     bindPairs |-> << <<5, 0>>, <<4, 1>>, <<3, 2>> >>]

Bcj2Job(bits, rc, main, call, jump, b) ==
    Job(Bcj2Folder(bits, main, call, jump),
        <<Len(jump.plain), Len(call.plain), Len(main.plain), Len(Code)>>,
        <<main.bytes, rc, call.bytes, jump.bytes>>, Code,
        <<{}, {}, LastByte(call), {}>>, b)

Calls(bytes) ==
    Lzma2Coded(<<Packed(3, 4, [i \in DOMAIN bytes |-> Lit(bytes[i], <<1, 0>>)])>>)

Bcj2Jobs(apart, b) ==
    {Bcj2Job(apart.bits, apart.rc, Literally(apart.main), Calls(apart.call),
             Plainly(apart.jump), b)}

Sound(b) ==
    UNION {Singles(u, m, c, r, Plainly(<<1, 2, 3>>), b) :
              u \in {Unmarked}, m \in {Marked}, c \in {Chunked}, r \in {Resets}}
    \cup UNION {Bcj2Jobs(a, b) : a \in {Bcj2Coded(Code, Taken)}}

(* An end mark comes before the text is as long as the folder says.        *)
Early(j) ==
    IF Len(j.folder.coders) = 1 /\ j.marks # <<{}>>
    THEN {[j EXCEPT !.plain = Append(@, 0), !.kind = "early"]}
    ELSE {}

(* Too short a file, a packed stream or a text of another size, a shape    *)
(* and a method that are not supported, properties of another size.        *)
Spoiled(j) ==
    {[j EXCEPT !.file = SubSeq(@, 1, Len(@) - 2), !.kind = "spoiled"],
     [j EXCEPT !.packSizes[Len(j.packSizes)] = @ - 1, !.kind = "spoiled"],
     [j EXCEPT !.plain = SubSeq(@, 1, 2), !.kind = "spoiled"],
     [j EXCEPT !.folder.packStreams[1] = 1, !.kind = "spoiled"],
     [j EXCEPT !.folder.bindPairs = << <<4, 0>> >>, !.kind = "spoiled"],
     [j EXCEPT !.folder.coders[1].method = "ppmd", !.kind = "spoiled"]}
    \cup IF j.marks = <<{}>> \/ Len(j.marks) = 4
         THEN {[j EXCEPT !.plain = Append(@, 0), !.kind = "spoiled"]} ELSE {}
    \cup IF j.folder.coders[1].method = "copy" THEN {}
         ELSE {[j EXCEPT !.folder.coders[1].propsSize = 4, !.kind = "spoiled"]}

(* Sound folders are read through every buffer, spoiled ones through two.  *)
MCJobs ==
    UNION {{j} \cup Early(j) \cup (IF j.bufSize \in {2, 5} THEN Spoiled(j) ELSE {}) :
              j \in UNION {Sound(b) : b \in 1..7}}
=============================================================================
