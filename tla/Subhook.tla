------------------------------ MODULE Subhook -------------------------------
(***************************************************************************)
(* Hooks on one function (src/deps/subhook/subhook_x86.c, subhook_unix.c,  *)
(* class Hook in subhook.h): the jump that is written over the function's  *)
(* first instructions, and the trampoline that runs them elsewhere.        *)
(*                                                                         *)
(* Several plugins may hook the same function, one after the other.  They  *)
(* call the original in one of two ways: amx_Exec_Profiler through the     *)
(* trampoline, FopenHook by taking the hook away meanwhile.                *)
(*                                                                         *)
(* The address space has Word bytes.  An operand of four bytes has its     *)
(* value in the first of them; arithmetic is modulo Word, as that of the   *)
(* 32-bit code is modulo 2^32.                                             *)
(***************************************************************************)
EXTENDS Disasm

CONSTANTS
    Hooks,       \* numbers 1, 2, ...: plugins, in no order
    Word,        \* size of the address space
    PageSize,    \* the unit in which mprotect works
    Srcs,        \* where the function may be
    Dst(_),      \* the hook function of a plugin
    Area(_),     \* where mmap finds room for the trampoline of a plugin
    Outside,     \* addresses that the function may call or jump to
    Insns,       \* instructions of the processor, see Insn
    Programs,    \* functions: sequences of instructions with their targets
    MaxCalls,    \* bound: calls of the function
    Null

JMP_OPCODE == \hE9
JmpSize == 5
TrampolineSize == JmpSize * 2 + 15

(***************************************************************************)
(* An instruction of the processor.  bytes: its code, with 0 where operand *)
(* is the offset of a relative operand; operand 0 if there is none.  kind: *)
(* what it does to the control flow.                                       *)
(***************************************************************************)
Insn(kind, bytes, operand) == [kind |-> kind, bytes |-> bytes,
                               operand |-> operand]

Step(insn, target) == [insn |-> insn, target |-> target]

Addresses == 0 .. Word - 1
Cells == (-1 .. 255) \cup Addresses

\* A subhook_struct, with the bytes that the jump replaced.
HookStruct == [code : [1 .. JmpSize -> Cells], trampoline : Addresses \cup {Null},
               trampoline_len : Nat, installed : BOOLEAN]

ASSUME SubhookAssumption ==
    /\ Word \in Nat \ {0} /\ PageSize \in Nat \ {0} /\ MaxCalls \in Nat
    /\ \A s \in Srcs : s .. s + JmpSize - 1 \subseteq Addresses
    /\ Srcs \subseteq Addresses /\ Outside \subseteq Addresses
    /\ \A h \in Hooks : {Dst(h), Area(h)} \subseteq Addresses
    /\ \A i \in Insns : /\ i.bytes \in Seq(0 .. 255) /\ Len(i.bytes) \in 1 .. 15
                        /\ i.operand \in Nat
    /\ \A p \in Programs :
          /\ p \in Seq([insn : Insns, target : Addresses \cup {Null}])
          /\ \A n \in DOMAIN p : p[n].insn.operand # 0 => p[n].target # Null
    /\ Null \notin Nat /\ Null \notin HookStruct /\ Null \notin Hooks

\* Where the relative operand is.
OperandOf(i) == IF i.operand = 0 THEN {} ELSE i.operand + 1 .. i.operand + 4

\* The processor tells the instructions apart by the bytes that are the same
\* wherever they are, and the jump of a hook is one of them.
ASSUME ProcessorAssumption ==
    /\ Insn("jmp", <<JMP_OPCODE, 0, 0, 0, 0>>, 1) \in Insns
    /\ \A i \in Insns : \A n \in OperandOf(i) : n \in DOMAIN i.bytes /\ i.bytes[n] = 0
    /\ \A i, j \in Insns : i # j =>
          \E n \in (DOMAIN i.bytes \cap DOMAIN j.bytes)
                      \ (OperandOf(i) \cup OperandOf(j)) : i.bytes[n] # j.bytes[n]

\* The bytes of an instruction at some address.
Encode(step, address) ==
    [n \in DOMAIN step.insn.bytes |->
        IF step.insn.operand # 0 /\ n = step.insn.operand + 1
        THEN (step.target - (address + Len(step.insn.bytes))) % Word
        ELSE step.insn.bytes[n]]

\* The number of bytes of some instructions.
Size(steps) ==
    Cardinality(UNION {{n} \X DOMAIN steps[n].insn.bytes : n \in DOMAIN steps})

\* The memory with a function at some address and nothing else.
MemoryWith(function, address) ==
    LET start == [n \in DOMAIN function |->
                     address + Size(SubSeq(function, 1, n - 1))]
        At(a) == {n \in DOMAIN function :
                     a - start[n] + 1 \in DOMAIN function[n].insn.bytes}
    IN  [a \in Addresses |->
            IF At(a) = {} THEN -1
            ELSE LET n == CHOOSE n \in At(a) : TRUE
                 IN  Encode(function[n], start[n])[a - start[n] + 1]]

\* mmap finds room that nothing else uses.
AreaOf(h) == Area(h) .. Area(h) + TrampolineSize - 1

ASSUME MmapAssumption ==
    \A h \in Hooks :
        /\ AreaOf(h) \subseteq Addresses
        /\ \A g \in Hooks \ {h} : AreaOf(g) \cap AreaOf(h) = {}
        /\ \A s \in Srcs, p \in Programs :
              /\ AreaOf(h) \cap (s .. s + JmpSize - 1) = {}
              /\ \A a \in AreaOf(h) : MemoryWith(p, s)[a] = -1

(***************************************************************************)
(* A function runs from its first instruction to the last, which leaves    *)
(* it; no shorter one than the jump can be hooked.  Functions, trampolines *)
(* and hook functions are in different places.                             *)
(***************************************************************************)
ASSUME FunctionAssumption ==
    /\ \A p \in Programs :
          /\ Size(p) >= JmpSize
          /\ \A n \in DOMAIN p :
                /\ p[n].insn.operand = 0 => p[n].target = Null
                /\ p[n].insn.kind \in {"ret", "jmp"} <=> n = Len(p)
                /\ p[n].insn.kind = "jmp" => p[n].target \in Outside
          /\ \A s \in Srcs :
                /\ s + Size(p) <= Word
                /\ (s .. s + Size(p) - 1)
                      \cap (Outside \cup {Dst(h) : h \in Hooks}) = {}
    /\ \A h \in Hooks : /\ Dst(h) \notin Outside
                        /\ AreaOf(h) \cap (Outside \cup {Dst(g) : g \in Hooks}) = {}
                        /\ \A g \in Hooks \ {h} : Dst(g) # Dst(h)

\* What a byte of an instruction may be in the memory, or one that follows it.
ByteOf(i, n) == IF n \in DOMAIN i.bytes \ OperandOf(i) THEN {i.bytes[n]} ELSE Cells

\* subhook_disasm knows nothing about an instruction, or its length and where its
\* relative operand is, whatever the operand is and whatever follows.
Agrees(i) ==
    \E n \in 0 .. Len(i.bytes) - 1 :
        /\ n <= Len(PrefixBytes)
        /\ (1 .. n + 1) \cap OperandOf(i) = {}
        /\ \A k \in 1 .. n : IsNextPrefix(i.bytes, k)
        /\ ~IsNextPrefix(i.bytes, n + 1)
        /\ \A next \in ByteOf(i, n + 2) :
              LET known == Known(i.bytes[n + 1], next)
                  flags == CHOOSE f \in known : TRUE
              IN  known # {} =>
                      /\ i.operand = IF RELOC \in flags THEN n + 1 ELSE 0
                      /\ \A sib \in IF MODRM \in flags THEN ByteOf(i, n + 3)
                                   ELSE {0} :
                            Len(i.bytes) = LengthOf(flags, n,
                                              OperandSize(i.bytes, n), next, sib)

(***************************************************************************)
(* What plugins call the machine by: the indices of the table that the     *)
(* server hands to Load.  The hooked function is one of these.  (The three *)
(* amx_Align functions, which the plugin replaces by functions that do     *)
(* nothing, are left out.)                                                 *)
(***************************************************************************)
AmxExports ==
    {"Allot", "Callback", "Cleanup", "Clone", "Exec", "FindNative",
     "FindPublic", "FindPubVar", "FindTagId", "Flags", "GetAddr", "GetNative",
     "GetPublic", "GetPubVar", "GetString", "GetTag", "GetUserData", "Init",
     "InitJIT", "MemInfo", "NameLength", "NativeInfo", "NumNatives",
     "NumPublics", "NumPubVars", "NumTags", "Push", "PushArray", "PushString",
     "RaiseError", "Register", "Release", "SetCallback", "SetDebugHook",
     "SetString", "SetUserData", "StrLen", "UTF8Check", "UTF8Get", "UTF8Len",
     "UTF8Put"}

VARIABLES
    src, program,  \* the function and where it is
    mem,           \* the memory, a byte or an operand at each address
    writable,      \* the pages that can be written
    hook,          \* hook_ of each plugin: a subhook_struct or Null
    style,         \* how each plugin calls the original
    heap,          \* the blocks allocated for the hooks
    pc,            \* where the running call is; Null if there is none
    caller,        \* the plugin that made the call; Null if it is the server
    trace,         \* what the call has done
    visited,       \* the hooks it went through
    removed,       \* the ScopedHookRemove objects of the call
    order,         \* history: the plugins with a hook, in order
    calls,         \* calls since a plugin came or went
    tidy,          \* history: the last hook was always the first to go
    crashed

vars == <<src, program, mem, writable, hook, style, heap, pc, caller, trace,
          visited, removed, order, calls, tidy, crashed>>
callVars == <<pc, caller, trace, visited, removed>>

Blocks == Hooks \X {"hook", "code", "trampoline"}

TypeOK ==
    /\ src \in Srcs /\ program \in Programs
    /\ mem \in [Addresses -> Cells]
    /\ hook \in [Hooks -> HookStruct \cup {Null}]
    /\ \A h \in Hooks : hook[h] # Null => hook[h].trampoline \in {Null, Area(h)}
    /\ style \in [Hooks -> {"trampoline", "remove"}]
    /\ heap \subseteq Blocks
    /\ pc \in Addresses \cup {Null}
    /\ caller \in Hooks \cup {Null}
    /\ removed \in Seq([hook : Hooks, was : BOOLEAN])
    /\ {visited, order} \subseteq Seq(Hooks)
    /\ calls \in Nat
    /\ {tidy, crashed} \subseteq BOOLEAN

\* Bytes at an address of a memory; the rest stays.
Written(m, address, bytes) ==
    [a \in Addresses |->
        IF a - address + 1 \in DOMAIN bytes THEN bytes[a - address + 1]
        ELSE m[a]]

CodeAt(m, address, n) == [k \in 1 .. n |-> m[(address + k - 1) % Word]]

Init ==
    /\ src \in Srcs /\ program \in Programs
    /\ mem = MemoryWith(program, src)
    /\ writable = {}
    /\ hook = [h \in Hooks |-> Null]
    /\ style \in [Hooks -> {"trampoline", "remove"}]
    /\ heap = {}
    /\ pc = Null /\ caller = Null
    /\ trace = <<>> /\ visited = <<>> /\ removed = <<>>
    /\ order = <<>> /\ calls = 0 /\ tidy = TRUE /\ crashed = FALSE

-----------------------------------------------------------------------------
\* subhook_make_jmp32
Jump(from, to) ==
    <<JMP_OPCODE, (to - (from + JmpSize)) % Word, 0, 0, 0>>

\* Mutant: the difference is not reduced to the width of the operand.
RelocateWide(bytes, operands, offset) ==
    [n \in DOMAIN bytes |-> bytes[n] - (IF n \in operands THEN offset ELSE 0)]

\* Mutant: the operands stay as they are.
RelocateNothing(bytes, operands, offset) == bytes

\* *op -= offset, of code that moves by offset.
Relocate(bytes, operands, offset) ==
    [n \in DOMAIN bytes |->
        IF n \in operands THEN (bytes[n] - offset) % Word ELSE bytes[n]]

\* Mutant: it goes back to the end of the hook's jump, inside an instruction.
JumpToCopied(start, from, size) == Jump(start + size, from + JmpSize)

\* The jump at the end of a trampoline.
JumpBack(start, from, size) == Jump(start + size, from + size)

\* Where the instructions are that a trampoline copies, counted from the start:
\* the first is at 0, and each ends where the next is, until there is room for
\* a jump.
Copied(insns) ==
    {at \in DOMAIN insns : \A places \in SUBSET DOMAIN insns :
        /\ 0 \in places
        /\ \A p \in places : LET end == p + insns[p].length
                            IN  end \in DOMAIN insns => end \in places
        => at \in places}

\* subhook_make_trampoline: what is written at start, for the code of from;
\* Null if an instruction is not known.
MakeTrampoline(start, from) ==
    LET insns == [at \in 0 .. JmpSize - 1 |->
                     Disassemble(CodeAt(mem, from + at, 24))]
        copied == Copied(insns)
        last == CHOOSE at \in copied : at + insns[at].length >= JmpSize
        size == last + insns[last].length
        operands == {at + insns[at].reloc + 1 :
                        at \in {p \in copied : insns[p].reloc # 0}}
    IN  IF \E at \in copied : insns[at].length = 0 THEN Null
        ELSE Relocate(CodeAt(mem, from, size), operands, start - from)
                 \o JumpBack(start, from, size)

Page(address) == address \div PageSize

\* subhook_unprotect: the size counts from the start of the page.
Unprotected(address, size) ==
    Page(address) .. Page(Page(address) * PageSize + size - 1)

\* Mutant: error_exit frees the code only.
BlocksOfFailure(blocks) == blocks \cap {"hook"}

\* What is left after error_exit.
BlocksAfterError(blocks) == {}

\* subhook_new, with the outcome of each call that may fail.
New(h, fails) ==
    LET error == fails \cap {"calloc", "malloc", "mprotect"} # {}
        code == IF "mmap" \in fails THEN Null ELSE MakeTrampoline(Area(h), src)
        blocks == IF "calloc" \in fails THEN {}
                  ELSE IF "malloc" \in fails THEN BlocksAfterError({"hook"})
                  ELSE IF "mprotect" \in fails
                       THEN BlocksAfterError({"hook", "code"})
                  ELSE {"hook", "code"}
                          \cup (IF code = Null THEN {} ELSE {"trampoline"})
    IN  [hook |-> IF error THEN Null
                  ELSE [code |-> CodeAt(mem, src, JmpSize),
                        trampoline |-> IF code = Null THEN Null ELSE Area(h),
                        trampoline_len |-> IF code = Null THEN 0 ELSE Len(code),
                        installed |-> TRUE],
         mem |-> IF error \/ code = Null THEN mem
                 ELSE Written(mem, Area(h), code),
         writable |-> IF error THEN {} ELSE Unprotected(src, JmpSize),
         heap |-> {h} \X blocks]

CanWrite(pages) == Page(src) .. Page(src + JmpSize - 1) \subseteq pages

\* Hook::Install(src, dst) of a plugin that has no hook yet, when it is loaded.
\* (None is loaded after others have gone in the wrong order.)
\* subhook_install ends the process if it writes to a page that is protected.
InstallNew(h, fails) ==
    /\ pc = Null /\ ~crashed
    /\ hook[h] = Null /\ tidy
    /\ \E new \in {New(h, fails)} :
           /\ hook' = [hook EXCEPT ![h] = new.hook]
           /\ writable' = writable \cup new.writable
           /\ heap' = heap \cup new.heap
           /\ mem' = IF new.hook = Null THEN mem
                     ELSE Written(new.mem, src, Jump(src, Dst(h)))
           /\ crashed' = (new.hook # Null /\ ~CanWrite(writable'))
           /\ order' = IF new.hook = Null THEN order ELSE Append(order, h)
    /\ calls' = 0
    /\ UNCHANGED <<src, program, style, callVars, tidy>>

\* Mutant: the code is not put back.
ForgetCode(m, h) == m

\* subhook_remove: the memory afterwards.
RestoreCode(m, h) ==
    IF hook[h].installed THEN Written(m, src, hook[h].code) ELSE m

\* Hook::~Hook, when a plugin is unloaded: the hook is removed and freed, and
\* the trampoline is unmapped.
DestroyHook(h) ==
    /\ pc = Null /\ ~crashed
    /\ hook[h] # Null
    /\ mem' = LET m == RestoreCode(mem, h)
              IN  IF hook[h].trampoline = Null THEN m
                  ELSE Written(m, Area(h), [n \in 1 .. TrampolineSize |-> -1])
    /\ hook' = [hook EXCEPT ![h] = Null]
    /\ heap' = heap \ ({h} \X {"hook", "code", "trampoline"})
    /\ tidy' = (tidy /\ Last(order) = h)
    /\ order' = RemoveAt(order, CHOOSE n \in DOMAIN order : order[n] = h)
    /\ calls' = 0
    /\ UNCHANGED <<src, program, writable, style, callVars, crashed>>

-----------------------------------------------------------------------------
\* A call, by the server or by a plugin, that begins at some address.
CallAt(address, from) ==
    /\ pc = Null /\ ~crashed
    /\ calls < MaxCalls
    /\ calls' = calls + 1
    /\ crashed' = (address = Null)
    /\ pc' = address
    /\ caller' = from
    /\ trace' = <<>> /\ visited' = <<>>
    /\ UNCHANGED <<src, program, mem, writable, hook, style, heap, removed,
                   order, tidy>>

\* The server calls the function.
Call == CallAt(src, Null)

\* The server's table: it has the other functions somewhere else.
RealExports ==
    [e \in AmxExports |->
        IF e = "Exec" THEN src ELSE CHOOSE a \in Outside : TRUE]

\* Load: the plugin's copy of the table.
Exports(h) == [RealExports EXCEPT !["Exec"] = hook[h].trampoline]

\* Each function amx_X of amxplugin.cpp jumps to its entry of pAMXFunctions.
Thunk(h, export) == Exports(h)[export]

\* A plugin with a trampoline calls the function on its own account, as
\* GetOpcodeTable does.
PluginCalls(h) ==
    /\ hook[h] # Null /\ style[h] = "trampoline"
    /\ CallAt(Thunk(h, "Exec"), h)

\* The instructions that the bytes at an address may be.
Decode(address) ==
    {i \in Insns :
        \A n \in DOMAIN i.bytes :
            \/ n \in OperandOf(i)
            \/ mem[(address + n - 1) % Word] = i.bytes[n]}

Target(i) == (pc + Len(i.bytes) + mem[(pc + i.operand) % Word]) % Word

\* The ScopedHookRemove objects that did remove a hook.
ToInstall == {n \in DOMAIN removed : removed[n].was}

\* The jump of one of them is written.
InstalledBy(n) ==
    mem' = Written(mem, src, Jump(src, Dst(removed[n].hook)))

\* Mutant: the hook that was removed first is installed first.
ReinstallInOrder ==
    IF ToInstall = {} THEN mem' = mem
    ELSE \E n \in ToInstall : /\ \A m \in ToInstall : m <= n
                             /\ InstalledBy(n)

\* ~ScopedHookRemove: the hook functions of the call return, the innermost
\* first, and install their hooks again.  The jumps are all of one size, so that
\* the last is the one that stays.
Reinstall ==
    IF ToInstall = {} THEN mem' = mem
    ELSE \E n \in ToInstall : /\ \A m \in ToInstall : n <= m
                             /\ InstalledBy(n)

\* The call is over.
Return ==
    /\ pc' = Null
    /\ removed' = <<>>
    /\ Reinstall
    /\ hook' = [h \in Hooks |->
                   IF \E n \in ToInstall : removed[n].hook = h
                   THEN [hook[h] EXCEPT !.installed = TRUE] ELSE hook[h]]

\* The processor runs the instruction at pc.
Execute ==
    /\ pc # Null /\ ~crashed
    /\ \A h \in Hooks : pc # Dst(h)
    /\ \E i \in Decode(pc) :
          /\ crashed' = FALSE
          /\ IF i.kind = "jmp" /\ Target(i) \notin Outside
             THEN /\ pc' = Target(i)
                  /\ UNCHANGED <<trace, removed, mem, hook>>
             ELSE /\ trace' = Append(trace,
                         Step(i, IF i.operand = 0 THEN Null ELSE Target(i)))
                  /\ IF i.kind \in {"ret", "jmp"} THEN Return
                     ELSE /\ pc' = (pc + Len(i.bytes)) % Word
                          /\ UNCHANGED <<removed, mem, hook>>
    /\ UNCHANGED <<src, program, writable, style, heap, caller, visited, order,
                   calls, tidy>>

\* The call gets to the hook function of a plugin.  Without a trampoline it
\* would call the address 0.
EnterHook(h) ==
    /\ pc = Dst(h) /\ hook[h] # Null /\ ~crashed
    /\ visited' = Append(visited, h)
    /\ IF style[h] = "trampoline"
       THEN /\ crashed' = (Thunk(h, "Exec") = Null)
            /\ pc' = IF crashed' THEN pc ELSE Thunk(h, "Exec")
            /\ UNCHANGED <<mem, hook, removed>>
       ELSE /\ crashed' = FALSE
            /\ pc' = src
            /\ mem' = RestoreCode(mem, h)
            /\ hook' = [hook EXCEPT ![h].installed = FALSE]
            /\ removed' = Append(removed,
                              [hook |-> h, was |-> hook[h].installed])
    /\ UNCHANGED <<src, program, writable, style, heap, caller, trace, order,
                   calls, tidy>>

\* There is no code at pc, or only that of a plugin that has gone.
Crash ==
    /\ pc # Null /\ ~crashed
    /\ IF \E h \in Hooks : pc = Dst(h)
       THEN \E h \in Hooks : pc = Dst(h) /\ hook[h] = Null
       ELSE Decode(pc) = {}
    /\ crashed' = TRUE
    /\ UNCHANGED <<src, program, mem, writable, hook, style, heap, callVars,
                   order, calls, tidy>>

Next ==
    \/ \E h \in Hooks, fails \in SUBSET {"calloc", "malloc", "mprotect", "mmap"} :
          InstallNew(h, fails)
    \/ \E h \in Hooks : DestroyHook(h)
    \/ Call
    \/ \E h \in Hooks : PluginCalls(h)
    \/ Execute
    \/ \E h \in Hooks : EnterHook(h)
    \/ Crash

Spec == Init /\ [][Next]_vars

-----------------------------------------------------------------------------
(* Properties                                                              *)

Returned == pc = Null /\ calls > 0 /\ ~crashed

\* Trampolines are no larger than what is allocated for them.
TrampolinesFit ==
    \A h \in Hooks : hook[h] # Null => hook[h].trampoline_len <= TrampolineSize

\* However many hooks a call goes through, and whether they use a trampoline or
\* take the hook away, the function does what it did without them: the same
\* instructions, each once, with the same targets, from trampolines that fit
\* (subhook_make_trampoline).
CallsRunTheOriginal == TrampolinesFit /\ (Returned => trace = program)

\* A hook that is there came before another one.
Older(g, h) == \E m, n \in DOMAIN order : m < n /\ order[m] = g /\ order[n] = h

\* A removing hook that is in the way of a younger one makes it lose its jump in
\* the first call: it puts back the code from before that one came.
Overwritten(h) ==
    style[h] = "trampoline" /\ \E g \in Hooks : Older(g, h) /\ style[g] = "remove"

\* The plugins that are between the caller and the function: those that were
\* there before it, for a plugin that uses its trampoline.
InTheWay ==
    {h \in Hooks : hook[h] # Null /\ (caller # Null => Older(h, caller))}

\* No plugin takes its hook away, or there are not more than two.
Simple ==
    \/ \A h \in Hooks : style[h] = "trampoline"
    \/ \E g, h \in Hooks : Hooks = {g, h}

\* Every call goes through hooks that are in its way, the youngest first and each
\* once; a plugin's own calls do not come back to it (Load, exports).  If no
\* plugin takes its hook away, it goes through all of them, and so it does with two
\* plugins, with one exception: FopenHook drops the trampolines that other
\* plugins put over it after the first call (ScopedHookRemove with
\* subhook_remove).
HooksAreVisited ==
    Returned /\ tidy =>
        /\ \A m, n \in DOMAIN visited : m < n => Older(visited[n], visited[m])
        /\ Range(visited) \subseteq InTheWay
        /\ Simple =>
              Range(visited) = {h \in InTheWay : calls > 1 => ~Overwritten(h)}

\* When all plugins have gone, the last one first, the function is what it was
\* (Hook::~Hook).
CodeIsRestored ==
    pc = Null /\ order = <<>> /\ tidy /\ ~crashed =>
        mem = MemoryWith(program, src)

\* Whatever fails in subhook_new, the blocks that are left are those of the
\* hooks: the error path frees what was allocated, and a trampoline that could
\* not be made is freed on its own.
BlocksAreHooks ==
    heap = UNION {{h} \X ({"hook", "code"}
                            \cup (IF hook[h].trampoline = Null THEN {}
                                  ELSE {"trampoline"})) :
                  h \in {g \in Hooks : hook[g] # Null}}

\* The process ends in three situations only: the first bytes of the function
\* are on two pages, of which subhook_unprotect makes the first one writable; a
\* plugin calls the original through a trampoline that could not be made; or
\* plugins went in another order, and the code of one that has gone came back.
CrashesExplained ==
    crashed =>
        \/ Page(src) # Page(src + JmpSize - 1)
        \/ \E h \in Hooks : /\ style[h] = "trampoline" /\ hook[h] # Null
                            /\ hook[h].trampoline = Null
        \/ ~tidy
=============================================================================
