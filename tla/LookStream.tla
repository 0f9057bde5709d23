----------------------------- MODULE LookStream -----------------------------
(***************************************************************************)
(* The archive file as the decoders read it: CLookToRead of 7zStream.c, in *)
(* its exact form, over CFileInStream of 7zFile.c.  A record s holds the   *)
(* file, the position in it, the bytes of the last read from it (p->buf up *)
(* to p->size) and how many of them are used (p->pos).  fails says that    *)
(* the file system refuses; what a refused read left behind is nobody's.   *)
(***************************************************************************)
EXTENDS Naturals, Sequences

LOCAL Least(a, b) == IF a < b THEN a ELSE b

(* LookToRead_Init, over a file that was just opened.                      *)
LookToRead_Init(file, bufSize) ==
    [file |-> file, at |-> 0, buf |-> << >>, pos |-> 0, bufSize |-> bufSize, res |-> "ok"]

(* File_Read: fewer bytes at the end of the file are not an error.         *)
File_Read(s, size) ==
    LET left == IF s.at < Len(s.file) THEN Len(s.file) - s.at ELSE 0
    IN  SubSeq(s.file, s.at + 1, s.at + Least(size, left))

(* File_Seek may go beyond the end.  LookToRead_Seek drops what was read.  *)
LookToRead_Seek(s, offset, fails) ==
    [s EXCEPT !.buf = << >>, !.pos = 0,
              !.at = IF fails THEN @ ELSE offset,
              !.res = IF fails THEN "fail" ELSE "ok"]

Unused(s) == Len(s.buf) - s.pos

(* Seeded fault: a look reads as much as was asked for, into less room.    *)
LookToRead_LookAll(s, size, fails) ==
    LET bytes == File_Read(s, size)
    IN  IF Unused(s) # 0 \/ size = 0 THEN [s EXCEPT !.res = "ok"]
        ELSE IF fails THEN [s EXCEPT !.buf = << >>, !.pos = 0, !.res = "read error"]
        ELSE [s EXCEPT !.buf = bytes, !.pos = 0, !.at = @ + Len(bytes), !.res = "ok"]

(* LookToRead_Look_Exact: only when all is used is more read, and not more *)
(* than asked for or than fits.                                            *)
LookToRead_Look(s, size, fails) ==
    LET bytes == File_Read(s, Least(size, s.bufSize))
    IN  IF Unused(s) # 0 \/ size = 0 THEN [s EXCEPT !.res = "ok"]
        ELSE IF fails THEN [s EXCEPT !.buf = << >>, !.pos = 0, !.res = "read error"]
        ELSE [s EXCEPT !.buf = bytes, !.pos = 0, !.at = @ + Len(bytes), !.res = "ok"]

(* What a look that asked for size bytes shows.                            *)
Shown(s, size) == SubSeq(s.buf, s.pos + 1, s.pos + Least(size, Unused(s)))

LookToRead_Skip(s, n) == [s EXCEPT !.pos = @ + n]
=============================================================================
