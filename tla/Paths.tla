-------------------------------- MODULE Paths --------------------------------
(***************************************************************************)
(* Names as the program first meets them, before they are the sequences of *)
(* components of VfsCore: strings, here sequences of characters.  A model  *)
(* uses the few characters that the string functions tell apart: the space *)
(* for everything std::isspace accepts, the separator, the NUL that ends a *)
(* name in an archive, and letters with their lower case.                  *)
(***************************************************************************)
EXTENDS VfsCore, FiniteSets, FiniteSetsExt, SequencesExt

Space     == " "
Separator == "/"
NUL       == "NUL"

(* std::tolower on the letters the models use.                             *)
ToLower(c) == IF c = "A" THEN "a" ELSE IF c = "B" THEN "b" ELSE c

(* boost::trim_if: the characters of the set go at both ends, never inside. *)
TrimIf(s, chars) ==
    LET kept == {i \in DOMAIN s : s[i] \notin chars}
    IN  IF kept = {} THEN << >> ELSE SubSeq(s, Min(kept), Max(kept))

(* util::normalizePath trims the spaces first and the separators second:   *)
(* spaces that a separator had shielded stay.                              *)
NormalizePath(s, lowerCase) ==
    LET trimmed == TrimIf(TrimIf(s, {Space}), {Separator})
    IN  IF lowerCase THEN [i \in DOMAIN trimmed |-> ToLower(trimmed[i])]
                     ELSE trimmed

(* The strings that a path is walked through by, which find_first_of(/)    *)
(* and substr(separator + 1) cut off: a separator begins the next, and two *)
(* of them in a row have an empty one between them.                        *)
Components(s) ==
    FoldLeft(LAMBDA parts, c : IF c = Separator THEN Append(parts, << >>)
                               ELSE [parts EXCEPT ![Len(parts)] = Append(@, c)],
             << << >> >>, s)

(* boost::filesystem::path's operator /.                                   *)
Join(dir, s) ==
    IF \/ dir = << >> \/ s = << >>
       \/ dir[Len(dir)] = Separator \/ s[1] = Separator
    THEN dir \o s
    ELSE dir \o <<Separator>> \o s
=============================================================================
