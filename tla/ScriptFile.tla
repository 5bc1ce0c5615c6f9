----------------------------- MODULE ScriptFile -----------------------------
(***************************************************************************)
(* The two readers of a script's file and what they take from the system:  *)
(* AMXPathFinder loads it into an AMX of its own to compare headers        *)
(* (AMXFile in src/src/amxpathfinder.cpp, src/src/amx/amxaux.c), and       *)
(* Attach reads its debug information (src/src/amxprof/debug_info.cpp,     *)
(* dbg_LoadInfo).  Every call of fopen or malloc may fail.                 *)
(*                                                                         *)
(* What was read gives the functions of the reports their names: the       *)
(* profiler creates the record of a function when it first meets its       *)
(* address, from whichever hook that happens (src/src/amxprof/profiler.cpp *)
(* and function.cpp).                                                      *)
(*                                                                         *)
(* A script that is loaded again gets a new ProfilerHandler with a         *)
(* DebugInfo of its own: a generation.  Attach loads the debug information *)
(* at most once in a generation.  DebugInfo has no destructor, and nothing *)
(* calls DebugInfo::Unload.                                                *)
(***************************************************************************)
EXTENDS AmxDbg

CONSTANTS
    Images,        \* the contents that the file may have
    Queries,       \* the addresses asked for
    MaxHandlers,   \* bound: generations
    Nothing        \* no AMXFile, no answer

ASSUME ScriptFileAssumption ==
    /\ \A f \in Images :
          LET tables == {f.files, f.symbols, f.tags, f.automatons, f.states,
                         f.publics, f.natives}
              names == {s.name : s \in UNION {{t[n] : n \in DOMAIN t} :
                                                 t \in tables}}
          IN  IsProgram(f, names) /\ IsDebugInfo(f, names)
    /\ Queries \subseteq Nat
    /\ MaxHandlers \in Nat \ {0}

\* The entries of the table of symbols that are functions, and where those start.
FunctionSymbols(f) ==
    {n \in DOMAIN f.symbols : f.symbols[n].ident = "function"}

CodeStarts(f) == {f.symbols[n].codestart : n \in FunctionSymbols(f)}

\* The return addresses that there may be on the stack: after a call, or 0,
\* which amx_Exec puts there.
ReturnAddresses(f) ==
    {0} \cup {a \in DOMAIN f.code : a > 1 /\ f.code[a - 2] =
                  (IF OP_CALL \in DOMAIN f.opcodes
                   THEN f.opcodes[OP_CALL] ELSE OP_CALL)}

(***************************************************************************)
(* What the compiler writes.  There is a symbol; every instruction of      *)
(* functions belongs to one of them, a call is one of the start of a       *)
(* function, and a public is a function of that name; every function has a *)
(* name.  The tables of lines and files are ordered by address.            *)
(***************************************************************************)
IsCompiled(f) ==
    /\ f.symbols # <<>>
    /\ \A n \in FunctionSymbols(f) :
          /\ f.symbols[n].codestart < f.symbols[n].codeend
          /\ f.symbols[n].name # NoName
          /\ \A m \in FunctionSymbols(f) \ {n} :
                \/ f.symbols[m].codeend <= f.symbols[n].codestart
                \/ f.symbols[n].codeend <= f.symbols[m].codestart
    /\ \A a \in ReturnAddresses(f) \ {0} : f.code[a - 1] \in CodeStarts(f)
    /\ \A n \in FunctionSymbols(f) :
          ~f.symbols[n].hidden =>
              /\ f.symbols[n].codestart = f.cip => f.symbols[n].name = "main"
              /\ \A i \in DOMAIN f.publics :
                    f.symbols[n].codestart = f.publics[i].address =>
                        f.symbols[n].name = f.publics[i].name
    /\ \A table \in {f.lines, f.files} : \A m, n \in DOMAIN table :
          m < n => table[m].address < table[n].address

ASSUME CompilerAssumption == \A f \in Images : IsCompiled(f)

VARIABLES
    image,       \* the file
    program,     \* an AMXFile has the program loaded
    generation,  \* of the handler
    asked,       \* Attach has called Load
    loaded,      \* is_loaded()
    lastError,   \* last_error_
    functions,   \* the functions in the statistics, by address
    heap,        \* the blocks that are allocated, the debug tables by generation
    streams,     \* how many FILEs are open
    answer       \* the question to the DebugInfo, and what it said

vars == <<image, program, generation, asked, loaded, lastError, functions,
          heap, streams, answer>>

Tables == {"hdr", "filetbl", "symboltbl", "tagtbl", "automatontbl", "statetbl"}
Blocks == {<<"amx", 0>>, <<"memblock", 0>>}
            \cup (Tables \cup {"AMX_DBG"}) \X (1 .. MaxHandlers)
Errors == {"NONE", "NOTFOUND", "FORMAT", "DEBUG", "MEMORY", "INIT"}

TypeOK ==
    /\ image \in Images
    /\ {program, asked, loaded} \subseteq BOOLEAN
    /\ generation \in 1 .. MaxHandlers
    /\ lastError \in Errors
    /\ DOMAIN functions \subseteq Nat \ {0}
    /\ heap \subseteq Blocks /\ streams \in 0 .. MaxHandlers

Init ==
    /\ image \in Images
    /\ program = FALSE /\ asked = FALSE /\ loaded = FALSE
    /\ generation = 1
    /\ lastError = "NONE"
    /\ functions = <<>>
    /\ heap = {} /\ streams = 0
    /\ answer = Nothing

-----------------------------------------------------------------------------
\* aux_LoadProgram: the error, with memblock allocated only if there is none.
LoadProgram(opens, memory, inits) ==
    IF ~opens THEN "NOTFOUND"
    ELSE IF ~image.magic THEN "FORMAT"
    ELSE IF ~memory THEN "MEMORY"
    ELSE IF ~inits THEN "INIT"
    ELSE "NONE"

\* Mutant: the AMX is kept although the program was not loaded into it.
AMXFileBlocks(error) ==
    IF error = "NONE" THEN {<<"amx", 0>>, <<"memblock", 0>>}
    ELSE {<<"amx", 0>>}

\* What AMXFile::AMXFile keeps allocated, once it has its AMX.
KeptBlocks(error) ==
    IF error = "NONE" THEN {<<"amx", 0>>, <<"memblock", 0>>} ELSE {}

\* new AMXFile(filename).
OpenScript(allocates, opens, memory, inits) ==
    /\ ~program
    /\ LET error == LoadProgram(opens, memory, inits)
       IN  /\ program' = (allocates /\ error = "NONE")
           /\ heap' = heap \cup (IF allocates THEN KeptBlocks(error) ELSE {})
    /\ UNCHANGED <<image, generation, asked, loaded, lastError, functions,
                   streams, answer>>

\* AMXFile::~AMXFile and aux_FreeProgram, when the plugin is unloaded.
CloseScript ==
    /\ program
    /\ program' = FALSE
    /\ heap' = heap \ {<<"amx", 0>>, <<"memblock", 0>>}
    /\ UNCHANGED <<image, generation, asked, loaded, lastError, functions,
                   streams, answer>>

-----------------------------------------------------------------------------
\* The tables that the counts in the header ask for.
NeededTables ==
    {"hdr"}
        \cup (IF image.tags # <<>> THEN {"tagtbl"} ELSE {})
        \cup (IF image.automatons # <<>> THEN {"automatontbl"} ELSE {})
        \cup (IF image.states # <<>> THEN {"statetbl"} ELSE {})
        \cup (IF image.files # <<>> THEN {"filetbl"} ELSE {})
        \cup (IF image.symbols # <<>> THEN {"symboltbl"} ELSE {})

\* dbg_FreeInfo: what is left of some tables.
FreeInfo(tables) == tables \ Tables

\* dbg_LoadInfo: the error and the tables that stay allocated, if malloc fails
\* for some of them.
LoadInfo(failing) ==
    IF ~image.magic THEN [error |-> "FORMAT", kept |-> {}]
    ELSE IF ~image.debug THEN [error |-> "DEBUG", kept |-> {}]
    ELSE IF ~image.dbgMagic THEN [error |-> "FORMAT", kept |-> {}]
    ELSE IF failing # {}
         THEN [error |-> "MEMORY", kept |-> FreeInfo(NeededTables \ failing)]
    ELSE [error |-> "NONE", kept |-> NeededTables]

\* How many FILEs DebugInfo::Load leaves open.
LeftOpen(opens, success) == IF success THEN 1 ELSE 0

\* Attach: HasDebugInfo, of the AMX in memory, and DebugInfo::Load.  The file
\* may be another one than the AMX was loaded from; if it was read it stays
\* open.
AttachWithoutDebugInfo ==
    /\ ~asked
    /\ asked' = TRUE
    /\ UNCHANGED <<image, program, generation, loaded, lastError, functions,
                   heap, streams, answer>>

LoadDebugInfo(opens, failing) ==
    /\ ~asked
    /\ asked' = TRUE
    /\ LET info == LoadInfo(failing)
           success == opens /\ info.error = "NONE"
           kept == IF opens THEN info.kept ELSE {}
       IN  /\ loaded' = success
           /\ lastError' = IF opens THEN info.error ELSE lastError
           /\ heap' = heap \cup
                 (kept \cup (IF success THEN {"AMX_DBG"} ELSE {}))
                     \X {generation}
           /\ streams' = streams + LeftOpen(opens, success)
    /\ UNCHANGED <<image, program, generation, functions, answer>>

\* The script is unloaded and loaded again: handler, profiler and DebugInfo are
\* new, and nothing of the old one is given back.
NewHandler ==
    /\ generation < MaxHandlers
    /\ generation' = generation + 1
    /\ asked' = FALSE /\ loaded' = FALSE /\ lastError' = "NONE"
    /\ functions' = <<>> /\ answer' = Nothing
    /\ UNCHANGED <<image, program, heap, streams>>

-----------------------------------------------------------------------------
\* The tables were found: otherwise the answers are what lies there instead.
TablesFound == SkippedLines(image) = Len(image.lines)

\* Bound: one question to each handler; an answer depends on no other.
Answer(question, address, said, found) ==
    /\ loaded /\ TablesFound
    /\ answer = Nothing
    /\ answer' = [question |-> question, address |-> address, said |-> said]
    /\ lastError' = IF found THEN "NONE" ELSE "NOTFOUND"
    /\ UNCHANGED <<image, program, generation, asked, loaded, functions, heap,
                   streams>>

AskLine(address) ==
    Answer("line", address, LookupLine(image, address),
           EntryBefore(image.lines, address) # 0)

AskFile(address) ==
    Answer("file", address, LookupFile(image, address),
           EntryBefore(image.files, address) # 0)

AskFunction(address) ==
    LET name == LookupFunction(image, address)
    IN  Answer("function", address, name, name # NoName)

AskFunctionExact(address) ==
    LET name == LookupFunctionExact(image, address)
    IN  Answer("exact", address, name, name # NoName)

-----------------------------------------------------------------------------
\* Mutant: a native that no plugin has registered is added as well.
MetWithoutAddress(address, function) ==
    IF address \in DOMAIN functions THEN functions
    ELSE functions @@ (address :> function)

\* GetFunction and AddFunction of a hook that has an address or 0.
Met(address, function) ==
    IF address \in {0} \cup DOMAIN functions THEN functions
    ELSE [a \in DOMAIN functions \cup {address} |->
             IF a = address THEN function ELSE functions[a]]

\* class Function; functions are told apart by their addresses.
Function(type, name) == [type |-> type, name |-> name]

\* A hook has an address: a function is added when it is new.  The hooks are
\* active only after Attach; questions are asked afterwards.
Meet(address, type, name) ==
    /\ asked /\ answer = Nothing
    /\ functions' = Met(address, Function(type, name))
    /\ UNCHANGED <<image, program, generation, asked, loaded, heap, streams,
                   answer>>
    /\ lastError' = IF /\ type = "NORMAL" /\ loaded
                       /\ address \notin DOMAIN functions
                    THEN IF LookupFunctionExact(image, address) = NoName
                         THEN "NOTFOUND" ELSE "NONE"
                    ELSE lastError

\* DebugHook: the script called a function by OP_CALL.
MeetByCall(returnAddress) ==
    LET address == GetCalleeAddress(image, returnAddress)
    IN  /\ address # 0
        /\ loaded => TablesFound
        /\ Meet(address, "NORMAL", NormalName(image, loaded, address))

\* ExecHook.
MeetByExec(index) ==
    Meet(GetPublicAddress(image, index), "PUBLIC", GetPublicName(image, index))

\* CallbackHook.
MeetByCallback(index) ==
    Meet(GetNativeAddress(image, index), "NATIVE", GetNativeName(image, index))

Next ==
    \/ \E allocates, opens, memory, inits \in BOOLEAN :
          OpenScript(allocates, opens, memory, inits)
    \/ CloseScript
    \/ \E opens \in BOOLEAN, failing \in SUBSET NeededTables :
          LoadDebugInfo(opens, failing)
    \/ AttachWithoutDebugInfo
    \/ NewHandler
    \/ \E address \in ReturnAddresses(image) : MeetByCall(address)
    \/ \E index \in {MAIN} \cup 0 .. Len(image.publics) - 1 : MeetByExec(index)
    \/ \E index \in 0 .. Len(image.natives) - 1 : MeetByCallback(index)
    \/ \E address \in Queries :
          \/ AskLine(address)
          \/ AskFile(address)
          \/ AskFunction(address)
          \/ AskFunctionExact(address)

Spec == Init /\ [][Next]_vars

-----------------------------------------------------------------------------
(* Properties                                                              *)

\* Every path through the readers gives back what it took, or keeps all of it:
\* an allocation that fails in the middle leaves no block behind, and a program
\* is allocated exactly while an AMXFile has one (aux_LoadProgram,
\* dbg_LoadInfo, dbg_FreeInfo).  What is kept of the debug information stays
\* until the server ends, also for handlers that are gone, and so does one open
\* FILE for each of them, and no other (DebugInfo::Load).
AllOrNothing ==
    /\ {b \in heap : b[2] = 0} =
           (IF program THEN {<<"amx", 0>>, <<"memblock", 0>>} ELSE {})
    /\ \A g \in 1 .. MaxHandlers :
          {b \in heap : b[2] = g} \in
              {{}, (NeededTables \cup {"AMX_DBG"}) \X {g}}
    /\ streams = Cardinality({g \in 1 .. MaxHandlers : <<"AMX_DBG", g>> \in heap})

(***************************************************************************)
(* Which files dbg_LoadInfo reads right however long their table of lines  *)
(* is: after the wrapped count there must be something that looks like the *)
(* end, or the entry before must look like a line with a smaller address.  *)
(* So a table of a multiple of CountLimit lines is lost if what precedes   *)
(* it reads as a large address, and any table is lost if the first symbol  *)
(* has a larger address than the last line.                                *)
(***************************************************************************)
FoundIfDetectable ==
    LET lines == image.lines
        n == Len(lines)
    IN  TablesFound <=>
            /\ n > 0 => image.symbols[1].address <= lines[n].address
            /\ n > 0 /\ n % CountLimit = 0 => image.before < lines[1].address
            /\ n = 0 => image.symbols[1].address <= image.before

\* The greatest entry of a table that is not after an address.
LastEntry(table, address, n) ==
    /\ n \in DOMAIN table /\ table[n].address <= address
    /\ \A m \in DOMAIN table :
          table[m].address <= address => table[m].address <= table[n].address

\* The function of the script that a code address is in; names that start with
\* '@' are left out.
IsFunctionAt(address, n) ==
    /\ n \in DOMAIN image.symbols
    /\ image.symbols[n].ident = "function" /\ ~image.symbols[n].hidden
    /\ address \in image.symbols[n].codestart .. image.symbols[n].codeend - 1

AnswersAreRight ==
    answer # Nothing =>
        LET a == answer.address
            right ==
                CASE answer.question = "line" ->
                         {image.lines[n].line :
                             n \in {m \in DOMAIN image.lines :
                                       LastEntry(image.lines, a, m)}}
                  [] answer.question = "file" ->
                         {image.files[n].name :
                             n \in {m \in DOMAIN image.files :
                                       LastEntry(image.files, a, m)}}
                  [] answer.question = "function" ->
                         {image.symbols[n].name :
                             n \in {m \in DOMAIN image.symbols :
                                       IsFunctionAt(a, m)}}
                  [] OTHER ->
                         {image.symbols[n].name :
                             n \in {m \in DOMAIN image.symbols :
                                       /\ IsFunctionAt(a, m)
                                       /\ ~IsFunctionAt(a - 1, m)}}
        IN  IF right = {} THEN lastError = "NOTFOUND"
            ELSE right = {answer.said} /\ lastError = "NONE"

IsLineOf(filename, line, n) ==
    /\ image.lines[n].line >= line
    /\ LookupFile(image, image.lines[n].address) = filename

\* The first line that comes after some part of a file.
EndsFile(filename, n) ==
    /\ n > 1
    /\ LookupFile(image, image.lines[n - 1].address) = filename
    /\ LookupFile(image, image.lines[n].address) # filename

\* A breakpoint for a line is set at a later line of that file, or by mistake
\* where another file begins; none is found only if there is none.  The search
\* goes too far only if the file does not end the program.
LineSearchIsRight(filename, line) ==
    LET r == GetLineAddress(image, line, filename)
    IN  CASE r.error = "NONE" ->
                 \E n \in DOMAIN image.lines :
                     /\ image.lines[n].address = r.address
                     /\ image.lines[n].line >= line
                     /\ IsLineOf(filename, line, n) \/ EndsFile(filename, n)
          [] r.error = "NOTFOUND" ->
                 Len(image.lines) < CountLimit =>
                     ~\E n \in DOMAIN image.lines : IsLineOf(filename, line, n)
          [] OTHER -> filename # image.files[Len(image.files)].name

\* Nothing smaller of that name is in the scope of the variable that is found.
VariableIsInnermost(symname, scopeaddr) ==
    LET n == GetVariable(image, symname, scopeaddr)
        Range(m) == image.symbols[m].codestart .. image.symbols[m].codeend
    IN  n # 0 =>
            ~\E m \in DOMAIN image.symbols :
                /\ image.symbols[m].name = symname
                /\ image.symbols[m].ident = "variable"
                /\ Range(m) \subseteq Range(n) /\ Range(m) # Range(n)

\* A breakpoint for a function is set at its first line, in whatever file.
FunctionSearchIsRight(n, filename) ==
    LET f == image.symbols[n]
        r == GetFunctionAddress(image, f.name, filename)
    IN  /\ r.error = "NONE" => r.address = f.address
        /\ r.error = "NOTFOUND" => Len(image.lines) >= CountLimit

SearchesAreRight ==
    /\ \A file \in DOMAIN image.files : \A line \in 1 .. Len(image.lines) + 1 :
          LineSearchIsRight(image.files[file].name, line)
    /\ \A s \in DOMAIN image.symbols :
          IF image.symbols[s].ident = "function"
          THEN \A file \in DOMAIN image.files :
                   FunctionSearchIsRight(s, image.files[file].name)
          ELSE \A address \in Queries :
                   VariableIsInnermost(image.symbols[s].name, address)
    /\ \A n \in DOMAIN image.tags :
          GetTagName(image, image.tags[n].id) = image.tags[n].name

\* A lookup finds what the compiler wrote for that address, and reports an
\* error exactly if that is nothing, however often the count of lines wrapped
\* (dbg_LookupLine, dbg_LookupFile, dbg_LookupFunction*).  The searches of the
\* library, which trust that count, go wrong in the stated cases only.
LookupsAreRight ==
    /\ AnswersAreRight
    /\ ~asked /\ ~program /\ generation = 1 => SearchesAreRight

\* The indices under which the script's tables list an address.
PublicsAt(address) ==
    {i \in {MAIN} \cup 0 .. Len(image.publics) - 1 :
        GetPublicAddress(image, i) = address}

NativesAt(address) ==
    {i \in 0 .. Len(image.natives) - 1 : GetNativeAddress(image, i) = address}

\* Whoever meets a public first, amx_Exec or a call in the script, the reports
\* show the same name for it; only without debug information, or if the name
\* starts with '@', a call shows the address instead.  What is met as a native
\* has one of the names of that native, and nothing else looks like a public or
\* a native.  What was called is a function of the script, also where opcodes
\* were replaced by addresses (Function::Normal, Public and Native, which the
\* three hooks use).
NamesAgree ==
    \A address \in DOMAIN functions :
        LET f == functions[address]
            named == loaded /\ \E n \in DOMAIN image.symbols :
                                   IsFunctionAt(address, n)
        IN  CASE f.type = "NATIVE" ->
                    \E i \in NativesAt(address) :
                        f.name = GetNativeName(image, i)
              [] f.type = "PUBLIC" ->
                    \E i \in PublicsAt(address) :
                        f.name = GetPublicName(image, i)
              [] OTHER ->
                    /\ address \in CodeStarts(image)
                    /\ IF ~named THEN f.name = Unknown(address)
                       ELSE PublicsAt(address) # {} =>
                            \E i \in PublicsAt(address) :
                                f.name = GetPublicName(image, i)
=============================================================================
