------------------------------- MODULE AmxDbg -------------------------------
(***************************************************************************)
(* The file of a script as the plugin reads it: its debug information      *)
(* (src/src/amx/amxdbg.c, amxdbg.h) and its tables of publics and natives  *)
(* (src/src/amxprof/amx_utils.cpp).                                        *)
(*                                                                         *)
(* The debug tables lie one after the other in memory and their sizes are  *)
(* 16-bit counts, so the count of a long table of lines wraps around.      *)
(* dbg_LoadInfo guesses from the addresses where that table really ends.   *)
(***************************************************************************)
EXTENDS Integers, Sequences, FiniteSets, TLC

CONSTANTS
    CountLimit,   \* 2^16: one more than the greatest count in AMX_DBG_HDR
    NoName        \* the empty string

ASSUME AmxDbgAssumption == CountLimit \in Nat \ {0}

MAIN == -1   \* AMX_EXEC_MAIN
CONT == -2   \* AMX_EXEC_CONT
OP_CALL == 49

(***************************************************************************)
(* hidden  the name starts with '@'                                        *)
(* before  the last 8 bytes of the table of files read as if they were a   *)
(*         line: the address they stand for                                *)
(* tags, automatons, states  the tables of names                           *)
(* code    the cells of the program, by address, as the machine has them in *)
(*         memory: addresses count cells, and operands are relative         *)
(* opcodes  the machine's addresses of the instructions that the opcodes    *)
(*         were replaced by; empty if they were not                         *)
(***************************************************************************)
DebugFile(Name) == [address : Nat, name : Name]
DebugLine == [address : Nat, line : Nat]
Symbol(Name) == [ident : {"function", "variable"}, address : Nat,
                 codestart : Nat, codeend : Nat, name : Name,
                 hidden : BOOLEAN]
NamedId(Name) == [id : Nat, name : Name]
Stub(Name) == [address : Nat, name : Name]

IsProgram(f, Name) ==
    /\ {f.magic, f.debug} \subseteq BOOLEAN
    /\ f.publics \in Seq(Stub(Name)) /\ f.natives \in Seq(Stub(Name))
    /\ f.cip \in Nat
    /\ f.code \in [0 .. Cardinality(DOMAIN f.code) - 1 -> Nat]
    /\ f.opcodes \in [DOMAIN f.opcodes -> Nat]

IsDebugInfo(f, Name) ==
    /\ f.dbgMagic \in BOOLEAN
    /\ f.files \in Seq(DebugFile(Name)) /\ f.lines \in Seq(DebugLine)
    /\ f.symbols \in Seq(Symbol(Name))
    /\ {f.tags, f.automatons, f.states} \subseteq Seq(NamedId(Name))
    /\ f.before \in Int

-----------------------------------------------------------------------------
\* The address field of the n-th 8-byte entry after the start of the line
\* table: the symbols follow the lines, and begin with an address as well.
EntryAddress(f, n) ==
    IF n = 0 THEN f.before
    ELSE IF n <= Len(f.lines) THEN f.lines[n].address
    ELSE f.symbols[1].address

\* Mutant: the count in the header is taken as it is.
CountedLines(f) == Len(f.lines) % CountLimit

(***************************************************************************)
(* The number of entries that dbg_LoadInfo skips to get to the symbols:    *)
(* the wrapped count, and CountLimit more as long as the addresses grow.   *)
(* Once beyond the symbols it stays lost: what it reads there is not       *)
(* followed any further.                                                   *)
(***************************************************************************)
SkippedLines(f) ==
    LET skip[n \in Nat] ==
            IF n <= Len(f.lines) /\ EntryAddress(f, n + 1) > EntryAddress(f, n)
            THEN skip[n + CountLimit]
            ELSE n
    IN  skip[Len(f.lines) % CountLimit]

-----------------------------------------------------------------------------
\* Mutant: the entry after the address, not the last one before it.
NextEntry(table, address) ==
    Cardinality({n \in DOMAIN table : table[n].address < address})

\* The index at which the loops of dbg_LookupFile and dbg_LookupLine stop, as
\* it is after --index; 0 stands for a table that starts after the address.
EntryBefore(table, address) ==
    CHOOSE n \in 0 .. Len(table) :
        /\ \A m \in 1 .. n : table[m].address <= address
        /\ n < Len(table) => table[n + 1].address > address

LookupFile(f, address) ==
    LET index == EntryBefore(f.files, address)
    IN  IF index = 0 THEN NoName ELSE f.files[index].name

LookupLine(f, address) ==
    LET index == EntryBefore(f.lines, address)
    IN  IF index = 0 THEN 0 ELSE f.lines[index].line

First(found) == CHOOSE n \in found : \A m \in found : n <= m

\* The name in the first of some entries.
FirstName(table, found) ==
    IF found = {} THEN NoName ELSE table[First(found)].name

LookupFunction(f, address) ==
    FirstName(f.symbols, {n \in DOMAIN f.symbols :
                     /\ f.symbols[n].ident = "function"
                     /\ f.symbols[n].codestart <= address
                     /\ f.symbols[n].codeend > address
                     /\ ~f.symbols[n].hidden})

LookupFunctionExact(f, address) ==
    FirstName(f.symbols, {n \in DOMAIN f.symbols :
                     /\ f.symbols[n].ident = "function"
                     /\ f.symbols[n].codestart = address
                     /\ ~f.symbols[n].hidden})

-----------------------------------------------------------------------------
(***************************************************************************)
(* The rest of the library, for debuggers that set breakpoints: the plugin *)
(* is linked with it and does not call it.  A search finds an address, or  *)
(* nothing, or it follows a pointer that is not there.                     *)
(***************************************************************************)
Found(address) == [error |-> "NONE", address |-> address]
NotFound == [error |-> "NOTFOUND", address |-> 0]
Undefined == [error |-> "undefined", address |-> 0]

NameOf(table, id) ==
    FirstName(table, {n \in DOMAIN table : table[n].id = id})

GetTagName(f, tag) == NameOf(f.tags, tag)
GetAutomatonName(f, automaton) == NameOf(f.automatons, automaton)
GetStateName(f, state) == NameOf(f.states, state)

\* hdr->lines: here nothing works around its overflow.
HeaderLines(f) == Len(f.lines) % CountLimit

\* Where a loop over the lines that begins at n ends, at one of stops or behind
\* the table.
LineFrom(f, n, stops) ==
    First((stops \cap (n .. HeaderLines(f))) \cup {HeaderLines(f) + 1})

\* A later place where the file continues is looked at from the line where the
\* search stopped; after the last file filetbl[files] is read.
GetLineAddress(f, line, filename) ==
    LET IsFrom(file, k) == f.lines[k].address >= f.files[file].address
        IsAfter(file, k) == file < Len(f.files) /\ IsFrom(file + 1, k)
        lines == DOMAIN f.lines
        InFile(file, n) ==
            LineFrom(f, LineFrom(f, n, {k \in lines : IsFrom(file, k)}),
                     {k \in lines : f.lines[k].line >= line \/ IsAfter(file, k)})
        search[file \in Nat, n \in Nat] ==
            IF file > Len(f.files) THEN Undefined
            ELSE IF f.files[file].name # filename THEN search[file + 1, n]
            ELSE LET index == InFile(file, n)
                 IN  IF index > HeaderLines(f) THEN NotFound
                     ELSE IF f.lines[index].line >= line
                          THEN Found(f.lines[index].address)
                     ELSE search[file + 1, index]
    IN  search[1, 1]

\* The file is compared only if dbg_LookupFile has found none, and then with a
\* null pointer: any function of that name will do.
GetFunctionAddress(f, funcname, filename) ==
    LET found == {n \in DOMAIN f.symbols : /\ f.symbols[n].ident = "function"
                                           /\ f.symbols[n].name = funcname}
        address == f.symbols[First(found)].address
        reached == {k \in DOMAIN f.lines : f.lines[k].address >= address}
        index == LineFrom(f, 1, reached)
    IN  IF found = {} THEN NotFound
        ELSE IF LookupFile(f, address) = NoName THEN Undefined
        ELSE IF index > HeaderLines(f) THEN NotFound
        ELSE Found(f.lines[index].address)

\* The index of the symbol, 0 if there is none.  Variables of that name count
\* wherever they are in scope, functions only if scopeaddr is in them.
GetVariable(f, symname, scopeaddr) ==
    LET Matches(s) ==
            /\ s.name = symname
            /\ \/ s.ident # "function"
               \/ s.codestart <= scopeaddr /\ scopeaddr <= s.codeend
        Within(s, t) ==
            \/ t.codestart = 0 /\ t.codeend = 0
            \/ s.codestart >= t.codestart /\ s.codeend <= t.codeend
        best[n \in 0 .. Len(f.symbols)] ==
            IF n = 0 THEN 0
            ELSE IF /\ Matches(f.symbols[n])
                    /\ \/ best[n - 1] = 0
                       \/ Within(f.symbols[n], f.symbols[best[n - 1]])
                 THEN n ELSE best[n - 1]
    IN  best[Len(f.symbols)]

-----------------------------------------------------------------------------
\* FindOpcode, in the table that the machine gave GetOpcodeTable.
RelocateOpcode(f, opcode) ==
    LET found == {i \in DOMAIN f.opcodes : f.opcodes[i] = opcode}
    IN  IF found = {} THEN opcode ELSE First(found)

\* The function that a return address on the stack tells of; 0 if there was no
\* OP_CALL before it.
GetCalleeAddress(f, returnAddress) ==
    IF /\ returnAddress > 0 /\ returnAddress \in DOMAIN f.code
       /\ RelocateOpcode(f, f.code[returnAddress - 2]) = OP_CALL
    THEN f.code[returnAddress - 1] ELSE 0

-----------------------------------------------------------------------------
\* The addresses and names of functions, for Function::Public and ::Native.
\* Indices count from 0.  The addresses are read without a look at the size of
\* the table, so they are asked for entries of the table only.
IsEntry(table, index) == index \in 0 .. Len(table) - 1

GetPublicAddress(f, index) ==
    IF index = MAIN THEN f.cip
    ELSE IF index >= 0 THEN f.publics[index + 1].address
    ELSE 0

\* Mutant: main() is looked for in the table.
NameInTable(f, index) ==
    IF IsEntry(f.publics, index) THEN f.publics[index + 1].name ELSE NoName

GetPublicName(f, index) ==
    IF index = MAIN THEN "main"
    ELSE IF IsEntry(f.publics, index) THEN f.publics[index + 1].name
    ELSE NoName

GetNativeAddress(f, index) ==
    IF index >= 0 THEN f.natives[index + 1].address ELSE 0

GetNativeName(f, index) ==
    IF IsEntry(f.natives, index) THEN f.natives[index + 1].name ELSE NoName

\* The name of a function that nothing is known about; its address in decimal.
Unknown(address) == "unknown@" \o ToString(address)

\* Function::Normal: the name of a function that was entered by OP_CALL.
NormalName(f, loaded, address) ==
    LET name == IF address # 0 /\ loaded
                THEN LookupFunctionExact(f, address) ELSE NoName
    IN  IF name = NoName THEN Unknown(address) ELSE name
=============================================================================
