------------------------------- MODULE VfsCore -------------------------------
(***************************************************************************)
(* The vocabulary every other module shares: the enumerations of core.hpp, *)
(* and paths as sequences of component names.                              *)
(*                                                                         *)
(* A path is what a string_type is after normalizePath and a split at      *)
(* DirectorySeparatorChar: <<>> is the root, <<"d", "f">> is "d/f".        *)
(* Bit masks (Operations, OpenMode) are sets of their flags.               *)
(***************************************************************************)
EXTENDS Naturals, Sequences

UNKNOWN   == "UNKNOWN"
DIRECTORY == "DIRECTORY"
FILE      == "FILE"
EntryType == {UNKNOWN, DIRECTORY, FILE}

OP_READ    == "OP_READ"
OP_WRITE   == "OP_WRITE"
OP_DELETE  == "OP_DELETE"
OP_CREATE  == "OP_CREATE"
Operations == {OP_READ, OP_WRITE, OP_DELETE, OP_CREATE}

MODE_READ          == "MODE_READ"
MODE_WRITE         == "MODE_WRITE"
MODE_MEMORY_MAPPED == "MODE_MEMORY_MAPPED"
OpenMode           == {MODE_READ, MODE_WRITE, MODE_MEMORY_MAPPED}

(* How a call can end: a value, or one of the two exception classes, or an *)
(* exception of a library below (boost::filesystem, std).                  *)
Returned         == "returned"
InvalidOperation == "InvalidOperationException"
FileSystemError  == "FileSystemException"
LibraryError     == "std::exception"
Outcomes == {Returned, InvalidOperation, FileSystemError, LibraryError}

(* util::modeToOperation: MODE_MEMORY_MAPPED asks for no operation.        *)
ModeToOperation(mode) ==
    {op \in {OP_READ, OP_WRITE} :
        \/ op = OP_READ  /\ MODE_READ  \in mode
        \/ op = OP_WRITE /\ MODE_WRITE \in mode}

(***************************************************************************)
(* Paths.                                                                  *)
(***************************************************************************)
Root == << >>

IsRoot(path) == path = Root

ParentPath(path) == SubSeq(path, 1, Len(path) - 1)
=============================================================================
