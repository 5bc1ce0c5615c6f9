---------------------------- MODULE MCScriptFile ----------------------------
(* Files with up to MaxLines lines of two cells of code each.              *)
EXTENDS ScriptFile

CONSTANT MaxLines

\* main() and a public share the code: it is divided after some line.  The
\* symbols begin with a global variable or end with it.
MCSymbols(n, cut, hidden, first) ==
    LET global == <<[ident |-> "variable", address |-> 2 * n + 2,
                     codestart |-> 2, codeend |-> 2 * n + 2, name |-> "v",
                     hidden |-> FALSE]>>
        others ==
            <<[ident |-> "function", address |-> 2, codestart |-> 2,
               codeend |-> 2 * cut + 2, name |-> "main", hidden |-> FALSE],
              [ident |-> "variable", address |-> 4, codestart |-> 2 * cut + 2,
               codeend |-> 2 * n + 2, name |-> "v", hidden |-> FALSE],
              [ident |-> "function", address |-> 2 * cut + 2,
               codestart |-> 2 * cut + 2, codeend |-> 2 * n + 2,
               name |-> "OnEvent", hidden |-> hidden]>>
    IN  IF first = "global" THEN global \o others ELSE others \o global

\* main() calls the public in its first line, the public calls main() in its
\* last one.  Whether opcodes are relocated goes with the bytes before the
\* lines, see below.
MCCode(n, cut, relocated) ==
    [a \in 0 .. 2 * n + 2 |->
        CASE a \in {2, 2 * n} -> IF relocated THEN 1000 ELSE OP_CALL
          [] a = 3 -> 2 * cut + 2
          [] a = 2 * n + 1 -> 2
          [] OTHER -> 7]

MCImage(n, cut, hidden, first, tags, flags, before) ==
    [magic |-> flags # "notScript", debug |-> flags # "noDebug",
     dbgMagic |-> flags # "noDbgHeader",
     files |-> <<[address |-> 2, name |-> "inc"],
                 [address |-> 2 * cut + 2, name |-> "gm"]>>
               \o (IF n = 4 THEN <<[address |-> 2 * n, name |-> "inc"]>>
                  ELSE <<>>),
     lines |-> [i \in 1 .. n |->
                   [address |-> 2 * i,
                    line |-> IF i > cut THEN i - cut ELSE i - 1]],
     symbols |-> MCSymbols(n, cut, hidden, first),
     code |-> MCCode(n, cut, before = 100),
     opcodes |-> IF before = 100 THEN 48 :> 999 @@ OP_CALL :> 1000 ELSE <<>>,
     tags |-> tags, automatons |-> <<>>, states |-> <<>>,
     publics |-> <<[address |-> 2 * cut + 2, name |-> "OnEvent"]>>,
     natives |-> <<[address |-> 1000, name |-> "print"],
                   [address |-> 1000, name |-> "printf"],
                   [address |-> 0, name |-> "missing"]>>,
     cip |-> 2, before |-> before]

MCTags == <<[id |-> 1, name |-> "bool"], [id |-> 2, name |-> "Float"]>>

\* The bytes before the lines may read as a small address or a large one.
MCImages ==
    {MCImage(size[1], size[2], FALSE, first, MCTags, "good", before) :
        size \in {s \in (2 .. MaxLines) \X (1 .. 2) : s[2] < s[1]},
        first \in {"function", "global"}, before \in {1, 100}}
    \cup {MCImage(3, 1, TRUE, "function", <<>>, flags, 1) :
            flags \in {"good", "notScript", "noDebug", "noDbgHeader"}}

MCQueries == 0 .. 2 * MaxLines + 3
=============================================================================
