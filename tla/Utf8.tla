-------------------------------- MODULE Utf8 --------------------------------
(***************************************************************************)
(* The conversions of lib/utf8 that names go through: utf16to8, which the  *)
(* 7-zip file system calls, and utf8to16, its inverse, with what they rest *)
(* on.  Units are 16 bits wide, octets 8.  An exception is a res.          *)
(***************************************************************************)
EXTENDS Integers, Sequences, SequencesExt, TLC

is_trail(octet) == octet \div 64 = 2

is_lead_surrogate(cp)  == cp \in 55296..56319
is_trail_surrogate(cp) == cp \in 56320..57343
is_surrogate(cp)       == cp \in 55296..57343

is_code_point_valid(cp) == cp <= 1114111 /\ ~is_surrogate(cp)

(* LEAD_OFFSET and SURROGATE_OFFSET, the latter modulo 2^32.               *)
LEAD_OFFSET      == 55296 - 64
SURROGATE_OFFSET == 65536 - 55296 * 1024 - 56320

(***************************************************************************)
(* From code points to octets.                                             *)
(***************************************************************************)
Trail(cp, k) == 128 + ((cp \div 64 ^ k) % 64)

Encoded(cp) ==
    IF cp < 128 THEN <<cp>>
    ELSE IF cp < 2048 THEN <<192 + cp \div 64, Trail(cp, 0)>>
    ELSE IF cp < 65536 THEN <<224 + cp \div 4096, Trail(cp, 1), Trail(cp, 0)>>
    ELSE <<240 + cp \div 262144, Trail(cp, 2), Trail(cp, 1), Trail(cp, 0)>>

append(cp, out) ==
    IF is_code_point_valid(cp) THEN [res |-> "ok", out |-> out \o Encoded(cp)]
    ELSE [res |-> "invalid_code_point", out |-> out]

(* One unit of utf16to8; lead is the first half of a pair, or no unit yet. *)
Unit(q, unit) ==
    IF q.res # "ok" THEN q
    ELSE IF q.lead # << >>
    THEN IF is_trail_surrogate(unit)
         THEN append(q.lead[1] * 1024 + unit + SURROGATE_OFFSET, q.out) @@ [lead |-> << >>]
         ELSE [q EXCEPT !.res = "invalid_utf16"]
    ELSE IF is_lead_surrogate(unit) THEN [q EXCEPT !.lead = <<unit>>]
    ELSE IF is_trail_surrogate(unit) THEN [q EXCEPT !.res = "invalid_utf16"]
    ELSE append(unit, q.out) @@ [lead |-> << >>]

utf16to8(units) ==
    LET Ended(q) == IF q.lead = << >> THEN q ELSE [q EXCEPT !.res = "invalid_utf16"]
    IN  Ended(FoldLeft(Unit, [res |-> "ok", out |-> << >>, lead |-> << >>], units))

(***************************************************************************)
(* From octets to code points.  it is a place in the text, from 1.         *)
(***************************************************************************)
sequence_length(lead) ==
    IF lead < 128 THEN 1
    ELSE IF lead \div 32 = 6 THEN 2
    ELSE IF lead \div 16 = 14 THEN 3
    ELSE IF lead \div 8 = 30 THEN 4
    ELSE 0

is_overlong_sequence(cp, length) ==
    \/ cp < 128 /\ length # 1
    \/ cp \in 128..2047 /\ length # 2
    \/ cp \in 2048..65535 /\ length # 3

(* increase_safely, as often as there are trail octets to come.            *)
Trailing(text, it, length) ==
    LET missing == {k \in 1..(length - 1) : it + k > Len(text) \/ ~is_trail(text[it + k])}
    IN  IF missing = {} THEN "ok"
        ELSE IF it + (CHOOSE k \in missing : \A j \in missing : k <= j) > Len(text)
        THEN "not_enough_room" ELSE "invalid_utf8"

(* get_sequence_1 to get_sequence_4: six bits of each octet but the lead.  *)
CodePoint(text, it, length) ==
    LET lead == text[it] % <<128, 32, 16, 8>>[length]
    IN  FoldLeft(LAMBDA cp, octet : 64 * cp + (octet % 64), lead,
                 SubSeq(text, it + 1, it + length - 1))

(* validate_next, and next's exceptions; a refusal leaves it where it was. *)
Validated(cp, it, length) ==
    IF ~is_code_point_valid(cp) THEN [res |-> "invalid_code_point", cp |-> 0, it |-> it]
    ELSE IF is_overlong_sequence(cp, length)
    THEN [res |-> "invalid_utf8", cp |-> 0, it |-> it]
    ELSE [res |-> "ok", cp |-> cp, it |-> it + length]

next(text, it) ==
    LET length == sequence_length(text[it])
        res    == IF length = 0 THEN "invalid_utf8" ELSE Trailing(text, it, length)
    IN  IF res # "ok" THEN [res |-> res, cp |-> 0, it |-> it]
        ELSE Validated(CodePoint(text, it, length), it, length)

Units(cp) ==
    IF cp > 65535 THEN <<cp \div 1024 + LEAD_OFFSET, (cp % 1024) + 56320>> ELSE <<cp>>

(* utf8to16, as what is left to do from each place of the text.            *)
utf8to16(text) ==
    LET Step(r, rest(_)) ==
            IF r.res # "ok" THEN [res |-> r.res, out |-> << >>] ELSE rest(r)
        from[it \in 1..(Len(text) + 1)] ==
            LET Rest(r) == [res |-> from[r.it].res, out |-> Units(r.cp) \o from[r.it].out]
            IN  IF it > Len(text) THEN [res |-> "ok", out |-> << >>]
                ELSE Step(next(text, it), Rest)
    IN  from[1]
=============================================================================
