------------------------------ MODULE MCSubhook ------------------------------
(* Functions that begin as compilers make them, at the start of a page and    *)
(* across two.                                                                *)
EXTENDS Subhook

MCSrcs == {32, 62}
MCDst(h) == 190 + 10 * h
MCArea(h) == 64 + 32 * h
MCOutside == {50, 240}

\* Encodings from the processor's manual.
push == Insn("other", <<\h55>>, 0)                         \* push ebp
mov == Insn("other", <<\h89, \hE5>>, 0)                    \* mov ebp, esp
sub == Insn("other", <<\h83, \hEC, 24>>, 0)                \* sub esp, 24
load == Insn("other", <<\h8B, \h44, \h24, 4>>, 0)          \* mov eax, [esp+4]
zero == Insn("other", <<\h31, \hC0>>, 0)                   \* xor eax, eax
local == Insn("other", <<\h8B, \h85, 248, 255, 255, 255>>, 0)
                                                          \* mov eax, [ebp-8]
word == Insn("other", <<\h66, \hC7, \h45, 6, 7, 1>>, 0)    \* mov word [ebp+6], 263
global == Insn("other", <<\hA1, 16, 0, 0, 0>>, 0)          \* mov eax, [16]
test == Insn("other", <<\h85, \hC0>>, 0)                   \* test eax, eax
movzx == Insn("other", <<\h0F, \hB6, \h01>>, 0)            \* movzx eax, byte [ecx]
call == Insn("call", <<\hE8, 0, 0, 0, 0>>, 1)
jmp == Insn("jmp", <<\hE9, 0, 0, 0, 0>>, 1)
ret == Insn("ret", <<\hC3>>, 0)

MCInsns == {push, mov, sub, load, zero, local, word, global, test, movzx,
            call, jmp, ret}

Plainly(insns) == [n \in DOMAIN insns |-> Step(insns[n], Null)]

MCPrograms ==
    {Plainly(<<push, mov, sub, ret>>),
     Plainly(<<load, zero, ret>>),
     Plainly(<<push, local, ret>>),
     Plainly(<<word, ret>>),
     Plainly(<<global, test, ret>>),
     Plainly(<<push, movzx, ret>>),
     <<Step(push, Null), Step(call, 240), Step(ret, Null)>>,
     <<Step(jmp, 50)>>}

\* subhook_disasm is right about these instructions.
ASSUME MCDisassembler == \A i \in Insns : Agrees(i)
=============================================================================
