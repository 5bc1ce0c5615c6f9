------------------------------- MODULE Disasm -------------------------------
(***************************************************************************)
(* subhook_disasm (src/deps/subhook/subhook_x86.c) as it is built for the  *)
(* 32-bit server: the length of an instruction, and where in it there is a *)
(* relative operand.                                                       *)
(***************************************************************************)
EXTENDS Integers, Sequences, FiniteSets, SequencesExt

MODRM == "MODRM"
IMM8 == "IMM8"
IMM16 == "IMM16"
IMM32 == "IMM32"
RELOC == "RELOC"

\* The prefixes in the order of the table.
PrefixBytes == <<\hF0, \hF2, \hF3, \h2E, \h36, \h3E, \h26, \h64, \h65, \h66, \h67>>

\* ADD, AND, OR, SUB and XOR take the same forms.
ArithmeticBases == {\h00, \h20, \h08, \h28, \h30}
ArithmeticRegs == {0, 4, 1, 5, 6}

(***************************************************************************)
(* The table of opcodes: the flags of the instructions it knows.           *)
(*   Plain   one opcode                                                    *)
(*   PlusR   8 opcodes, the low bits name a register (PLUS_R)              *)
(*   Group   the reg field of the ModR/M byte tells instructions apart     *)
(*           (REG_OPCODE)                                                  *)
(***************************************************************************)
Plain ==
    [flags : {{MODRM}},
     opcodes : {UNION {b .. b + 3 : b \in ArithmeticBases}
                    \cup {\h39, \h8D, \h8E, \h84, \h85} \cup \h88 .. \h8C}]
    \cup [flags : {{IMM8}},
          opcodes : {{b + 4 : b \in ArithmeticBases}
                         \cup {\hA0, \hA2, \h6A, \hA8}}]
    \cup [flags : {{IMM32}},
          opcodes : {{b + 5 : b \in ArithmeticBases}
                         \cup {\hA1, \hA3, \h68, \hA9}}]
    \cup [flags : {{IMM32, RELOC}}, opcodes : {{\hE8, \hE9}}]
    \cup [flags : {{IMM16, IMM8}}, opcodes : {{\hC8}}]
    \cup [flags : {{IMM16}}, opcodes : {{\hC2}}]
    \cup [flags : {{}}, opcodes : {{\hCC, \hC9, \h90, \hC3}}]

PlusR ==
    [flags : {{}}, first : {\h48, \h50, \h58}]
    \cup [flags : {{IMM8}}, first : {\hB0}]
    \cup [flags : {{IMM32}}, first : {\hB8}]

Group ==
    [flags : {{MODRM, IMM8}}, opcode : {\h80}, regs : {ArithmeticRegs}]
    \cup [flags : {{MODRM, IMM32}}, opcode : {\h81}, regs : {ArithmeticRegs}]
    \cup [flags : {{MODRM, IMM8}}, opcode : {\h83},
          regs : {ArithmeticRegs \cup {7}}]
    \cup [flags : {{MODRM}}, opcode : {\hFF}, regs : {{1, 2, 4, 6}}]
    \cup [flags : {{MODRM}}, opcode : {\hD9, \hDD, \h8F}, regs : {{0}}]
    \cup [flags : {{MODRM}}, opcode : {\hDB}, regs : {{5}}]
    \cup [flags : {{MODRM, IMM8}}, opcode : {\hC6, \hF6}, regs : {{0}}]
    \cup [flags : {{MODRM, IMM32}}, opcode : {\hC7, \hF7}, regs : {{0}}]

\* The flags of the instruction with an opcode and the byte after it; the empty
\* set if the table has no such instruction.
Known(opcode, next) ==
    {i.flags : i \in {p \in Plain : opcode \in p.opcodes}}
    \cup {i.flags : i \in {p \in PlusR : opcode \in p.first .. p.first + 7}}
    \cup {i.flags : i \in {g \in Group : /\ opcode = g.opcode
                                         /\ (next \div 8) % 8 \in g.regs}}

(***************************************************************************)
(* The displacement and SIB byte that a ModR/M byte asks for.  A SIB byte  *)
(* with base 5 adds a displacement of its own, and the one of the ModR/M   *)
(* byte is added to it.                                                    *)
(***************************************************************************)
OperandLength(modrm, sib) ==
    LET mod == modrm \div 64
        rm == modrm % 8
        hasSib == mod # 3 /\ rm = 4
    IN  (IF hasSib THEN 1 ELSE 0)
        + (IF hasSib /\ sib % 8 = 5 THEN (IF mod = 1 THEN 1 ELSE 4) ELSE 0)
        + (IF mod = 1 THEN 1 ELSE 0)
        + (IF mod = 2 \/ (mod = 0 /\ rm = 5) THEN 4 ELSE 0)

\* The place of a byte in the table of prefixes, 0 if it is none.
Place(byte) == IF byte \in Range(PrefixBytes)
               THEN CHOOSE n \in DOMAIN PrefixBytes : PrefixBytes[n] = byte
               ELSE 0

\* A prefix counts if it comes after those before it in the order of the table.
IsNextPrefix(code, k) ==
    /\ Place(code[k]) > 0
    /\ \A j \in 1 .. k - 1 : Place(code[j]) < Place(code[k])

\* How many prefixes there are at the start of some code: every one at most once,
\* and only in the order of the table.
PrefixCount(code) ==
    Cardinality({n \in DOMAIN PrefixBytes :
                    \A k \in 1 .. n : IsNextPrefix(code, k)})

OperandSize(code, prefixes) ==
    IF \E k \in 1 .. prefixes : code[k] = \h66 THEN 2 ELSE 4

\* The length of an instruction with these flags.
LengthOf(flags, prefixes, operandSize, modrm, sib) ==
    prefixes + 1
    + (IF MODRM \in flags THEN 1 + OperandLength(modrm, sib) ELSE 0)
    + (IF IMM8 \in flags THEN 1 ELSE 0)
    + (IF IMM16 \in flags THEN 2 ELSE 0)
    + (IF IMM32 \in flags THEN operandSize ELSE 0)

\* The length of the first instruction of some code, 0 if it is not known, and
\* the offset of its relative operand, 0 if it has none.
Disassemble(code) ==
    LET n == PrefixCount(code)
        known == Known(code[n + 1], code[n + 2])
        flags == CHOOSE f \in known : TRUE
    IN  IF known = {} THEN [length |-> 0, reloc |-> 0]
        ELSE [length |-> LengthOf(flags, n, OperandSize(code, n),
                                  code[n + 2], code[n + 3]),
              reloc |-> IF RELOC \in flags THEN n + 1 ELSE 0]
=============================================================================
