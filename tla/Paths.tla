-------------------------------- MODULE Paths --------------------------------
(***************************************************************************)
(* The names of files (src/src/fileutils.cpp, stringutils.cpp).  A path is *)
(* a sequence of tokens: separators, periods and what stands between them, *)
(* as in <<"gamemodes", "/", "gm", ".", "amx">>.                           *)
(***************************************************************************)
EXTENDS Integers, Sequences, SequencesExt

LastOf(path, tokens) == SelectLastInSeq(path, LAMBDA t : t \in tokens)

Separators == {"/", "\\"}

From(path, n) == SubSeq(path, n, Len(path))

GetDirectory(path) == SubSeq(path, 1, LastOf(path, Separators) - 1)

GetFileName(path) == From(path, LastOf(path, Separators) + 1)

\* Mutant: everything from the first period on is cut off.
BaseNameBeforePeriods(path) ==
    LET base == GetFileName(path)
        period == SelectInSeq(base, LAMBDA t : t = ".")
    IN  IF period = 0 THEN base ELSE SubSeq(base, 1, period - 1)

GetBaseName(path) ==
    LET base == GetFileName(path)
        period == LastOf(base, {"."})
    IN  IF period = 0 THEN base ELSE SubSeq(base, 1, period - 1)

ToUnixPath(path) ==
    [n \in DOMAIN path |-> IF path[n] = "\\" THEN "/" ELSE path[n]]

\* path.find(part) != npos
Has(path, part) ==
    \E n \in 0 .. Len(path) - Len(part) :
        SubSeq(path, n + 1, n + Len(part)) = part

IsGameMode(path) == Has(path, <<"gamemodes", "/">>)
IsFilterScript(path) == Has(path, <<"filterscripts", "/">>)

\* fileutils::SameFile, on a disk: a function from the paths of the files that
\* exist to the files.
SameFile(disk, p, q) == {p, q} \subseteq DOMAIN disk /\ disk[p] = disk[q]

\* amx_name_, which the names of all files of a script begin with.
AmxName(path) == GetDirectory(path) \o <<"/">> \o GetBaseName(path)
=============================================================================
