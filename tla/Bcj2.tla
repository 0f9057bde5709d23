-------------------------------- MODULE Bcj2 --------------------------------
(***************************************************************************)
(* Bcj2_Decode of lib/7z/Bcj2.c: x86 code, with the targets of its calls   *)
(* and jumps in streams of their own, is put together again.  The main     *)
(* stream lies at the end of the very buffer that the code is written to.  *)
(* An address has AddressBytes bytes (4 in the code).  The range coder     *)
(* that tells which targets were taken out is abstracted as in LzmaStream: *)
(* decision k costs 0 or 1 byte, <<"bit", k>>, and comes out right if the  *)
(* decoder consults the probability that the encoder did.                  *)
(***************************************************************************)
EXTENDS Naturals, Sequences, SequencesExt, TLC

CONSTANTS AddressBytes, BCJ2_INIT_SIZE

IsJ(b0, b1) == b1 \in {232, 233} \/ (b0 = 15 /\ b1 \in 128..143)

Prob(prevByte, b) == IF b = 232 THEN prevByte ELSE IF b = 233 THEN 256 ELSE 257

AddressSpace == 256 ^ AddressBytes

BigEndian(bytes) == FoldLeft(LAMBDA n, b : 256 * n + b, 0, bytes)

(* The bytes of a number, the least significant in front.                  *)
LittleEndian(n) == [i \in 1..AddressBytes |-> (n \div 256 ^ (i - 1)) % 256]

(***************************************************************************)
(* The encoder: main, call and jump streams and the decisions.  taken says *)
(* of every call or jump, the one at the very end excepted, whether its    *)
(* target is taken out.                                                    *)
(***************************************************************************)
RECURSIVE Encode(_, _, _, _)
Encode(e, code, taken, prev) ==
    LET b      == code[e.at + 1]
        main   == [e EXCEPT !.main = Append(@, b), !.at = @ + 1]
        bit    == Head(taken)
        asked  == [main EXCEPT !.bits = Append(@, [bit |-> bit[1], cost |-> bit[2],
                                                   prob |-> Prob(prev, b)])]
        target == (BigEndian(Reverse(SubSeq(code, e.at + 2, e.at + 1 + AddressBytes)))
                       + e.at + 1 + AddressBytes) % AddressSpace
        out    == Reverse(LittleEndian(target))
        far    == [asked EXCEPT !.at = @ + AddressBytes,
                                !.call = IF b = 232 THEN @ \o out ELSE @,
                                !.jump = IF b = 232 THEN @ ELSE @ \o out]
    IN  IF e.at = Len(code) THEN e
        ELSE IF ~IsJ(prev, b) \/ e.at + 1 = Len(code) THEN Encode(main, code, taken, b)
        ELSE IF bit[1] = 0 THEN Encode(asked, code, Tail(taken), b)
        ELSE Encode(far, code, Tail(taken), code[e.at + 1 + AddressBytes])

RangeCoded(bits) ==
    FoldLeft(LAMBDA bytes, k : bytes \o [i \in 1..bits[k].cost |-> <<"bit", k>>],
             [i \in 1..BCJ2_INIT_SIZE |-> <<"bit", 0>>], [k \in DOMAIN bits |-> k])

Bcj2Coded(code, taken) ==
    LET Ended(e) == e @@ [rc |-> RangeCoded(e.bits)]
    IN  Ended(Encode([at |-> 0, main |-> << >>, call |-> << >>, jump |-> << >>,
                      bits |-> << >>], code, taken, 0))

(***************************************************************************)
(* The decoder.  d.out is the buffer, whose last size0 bytes are the main  *)
(* stream at first; d.in is buf0's offset in it plus inPos.                *)
(***************************************************************************)
Emit(d, byte) == [d EXCEPT !.out[d.outPos + 1] = byte, !.outPos = @ + 1]

Full(d) == d.outPos = Len(d.out)

(* The range coder: a decision, and the byte that its normalisation reads. *)
Decided(d, prob) ==
    LET k    == d.next
        cost == d.bits[k].cost
        got  == SubSeq(d.rc, d.read + 1, d.read + cost)
    IN  IF d.read + cost > Len(d.rc) THEN [d EXCEPT !.res = "data error"]
        ELSE IF \/ d.bits[k].prob # prob
                \/ cost = 1 /\ got # << <<"bit", k>> >>
        THEN [d EXCEPT !.res = "bad"]
        ELSE [d EXCEPT !.read = @ + cost, !.next = @ + 1]

(* Seeded fault: the distance is taken from the address, not from its end. *)
TargetFromBranch(d, v) ==
    LET dest  == (BigEndian(v) + AddressSpace - (d.outPos % AddressSpace)) % AddressSpace
        Room(q, byte) == IF Full(q) THEN q ELSE Emit(q, byte)
    IN  [FoldLeft(Room, d, LittleEndian(dest)) EXCEPT
            !.prevByte = LittleEndian(dest)[AddressBytes]]

(* The target back where it was, as far as there is room.                  *)
Target(d, v) ==
    LET dest  == (BigEndian(v) + AddressSpace - ((d.outPos + AddressBytes) % AddressSpace))
                     % AddressSpace
        Room(q, byte) == IF Full(q) THEN q ELSE Emit(q, byte)
    IN  [FoldLeft(Room, d, LittleEndian(dest)) EXCEPT
            !.prevByte = LittleEndian(dest)[AddressBytes]]

Converted(d, b) ==
    LET from == IF b = 232 THEN d.call ELSE d.jump
        rest == SubSeq(from, AddressBytes + 1, Len(from))
    IN  IF Len(from) < AddressBytes THEN [d EXCEPT !.res = "data error"]
        ELSE Target([d EXCEPT !.call = IF b = 232 THEN rest ELSE @,
                              !.jump = IF b = 232 THEN @ ELSE rest],
                    SubSeq(from, 1, AddressBytes))

Branch(d, b) ==
    LET Answer(q) == IF q.res # "ok" THEN q
                     ELSE IF d.bits[d.next].bit = 0 THEN [q EXCEPT !.prevByte = b]
                     ELSE Converted(q, b)
    IN  IF d.next > Len(d.bits) THEN [d EXCEPT !.res = "bad"]
        ELSE Answer(Decided(d, Prob(d.prevByte, b)))

(* One byte of the main stream; a branch is written, then decided on.      *)
RECURSIVE Bcj2Loop(_)
Bcj2Loop(d) ==
    LET b == d.out[d.in + 1]
        Copy(q) == IF ~IsJ(d.prevByte, b) THEN [q EXCEPT !.prevByte = b]
                   ELSE IF Full(q) THEN q ELSE Branch(q, b)
    IN  IF d.res # "ok" \/ d.in = Len(d.out) \/ Full(d) THEN d
        ELSE Bcj2Loop(Copy([Emit(d, b) EXCEPT !.in = @ + 1]))

(* The result and the buffer.                                              *)
Bcj2_Decode(out, size0, call, jump, rc, bits) ==
    LET Ended(d) == [res |-> IF d.res = "ok" /\ ~Full(d) THEN "data error" ELSE d.res,
                     out |-> d.out]
    IN  IF Len(rc) < BCJ2_INIT_SIZE THEN [res |-> "data error", out |-> out]
        ELSE Ended(Bcj2Loop([out |-> out, in |-> Len(out) - size0, outPos |-> 0,
                             call |-> call, jump |-> jump, rc |-> rc, bits |-> bits,
                             read |-> BCJ2_INIT_SIZE, next |-> 1, prevByte |-> 0,
                             res |-> "ok"]))
=============================================================================
