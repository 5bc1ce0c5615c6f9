--------------------------- MODULE SubhookProofs ---------------------------
(***************************************************************************)
(* Theorems about Subhook: for any number of plugins, any functions, any   *)
(* instructions of the processor and any size of the memory.               *)
(***************************************************************************)
EXTENDS Subhook, FiniteSetTheorems, SequenceTheorems, WellFoundedInduction, TLAPS

-----------------------------------------------------------------------------
(* What is in the memory                                                   *)

Memory == [Addresses -> Cells]

LEMMA AddressesAreCells == Addresses \subseteq Cells /\ Addresses \subseteq Nat
BY SubhookAssumption DEF SubhookAssumption, Addresses, Cells

\* Arithmetic on addresses wraps.
LEMMA Wrapped ==
    ASSUME NEW x \in Int
    PROVE  x % Word \in Addresses
BY SubhookAssumption DEF SubhookAssumption, Addresses

LEMMA CellsAreIntegers == Cells \subseteq Int
BY AddressesAreCells DEF Cells

LEMMA BytesAreCells == 0 .. 255 \subseteq Cells /\ -1 \in Cells
BY DEF Cells

LEMMA WrittenType ==
    ASSUME NEW m \in Memory, NEW address, NEW bytes \in Seq(Cells)
    PROVE  Written(m, address, bytes) \in Memory
<1>1. \A n \in DOMAIN bytes : bytes[n] \in Cells
  OBVIOUS
<1> QED BY <1>1 DEF Written, Memory

LEMMA CodeAtType ==
    ASSUME NEW m \in Memory, NEW address \in Int, NEW n \in Nat
    PROVE  /\ CodeAt(m, address, n) \in Seq(Cells)
           /\ Len(CodeAt(m, address, n)) = n
           /\ CodeAt(m, address, n) \in [1 .. n -> Cells]
<1>1. \A k \in 1 .. n : m[(address + k - 1) % Word] \in Cells
  BY Wrapped DEF Memory
<1>2. CodeAt(m, address, n) \in [1 .. n -> Cells]
  BY <1>1 DEF CodeAt
<1> QED BY <1>2

LEMMA JumpType ==
    ASSUME NEW from \in Int, NEW to \in Int
    PROVE  /\ Jump(from, to) \in Seq(Cells)
           /\ Len(Jump(from, to)) = JmpSize
           /\ DOMAIN Jump(from, to) = 1 .. JmpSize
<1>1. (to - (from + JmpSize)) % Word \in Cells
  <2>1. to - (from + JmpSize) \in Int
    BY DEF JmpSize
  <2> QED BY <2>1, Wrapped, AddressesAreCells
<1>2. JMP_OPCODE \in Cells /\ 0 \in Cells
  BY BytesAreCells DEF JMP_OPCODE
<1> QED BY <1>1, <1>2 DEF Jump, JmpSize

\* The parts of an instruction.
LEMMA InsnType ==
    ASSUME NEW i \in Insns
    PROVE  /\ i.bytes \in Seq(0 .. 255) /\ Len(i.bytes) \in 1 .. 15
           /\ DOMAIN i.bytes = 1 .. Len(i.bytes)
           /\ i.operand \in Nat
BY SubhookAssumption DEF SubhookAssumption

LEMMA ProgramType ==
    ASSUME NEW p \in Programs, NEW n \in DOMAIN p
    PROVE  /\ p \in Seq([insn : Insns, target : Addresses \cup {Null}])
           /\ p[n].insn \in Insns
           /\ p[n].insn.operand # 0 => p[n].target \in Addresses
           /\ n \in 1 .. Len(p)
<1>1. p \in Seq([insn : Insns, target : Addresses \cup {Null}])
  BY SubhookAssumption DEF SubhookAssumption
<1>2. n \in 1 .. Len(p)
  BY <1>1, LenProperties
<1>3. p[n] \in [insn : Insns, target : Addresses \cup {Null}]
  BY <1>1, <1>2, ElementOfSeq
<1>4. p[n].insn \in Insns /\ p[n].target \in Addresses \cup {Null}
  BY <1>3
<1>5. p[n].insn.operand # 0 => p[n].target # Null
  BY SubhookAssumption DEF SubhookAssumption
<1> QED BY <1>1, <1>2, <1>4, <1>5

\* The number of bytes is one.
LEMMA SizeType ==
    ASSUME NEW p \in Programs, NEW n \in Int, n <= Len(p)
    PROVE  Size(SubSeq(p, 1, n)) \in Nat
<1> DEFINE steps == SubSeq(p, 1, n)
           places == UNION {{k} \X DOMAIN steps[k].insn.bytes :
                               k \in DOMAIN steps}
<1>1. p \in Seq([insn : Insns, target : Addresses \cup {Null}])
  BY SubhookAssumption DEF SubhookAssumption
<1>2. Len(p) \in Nat /\ DOMAIN p = 1 .. Len(p)
  BY <1>1
<1>3. \A k \in DOMAIN steps : k \in 1 .. Len(p) /\ steps[k] = p[k]
  BY <1>1, <1>2
<1>4. \A k \in DOMAIN steps : DOMAIN steps[k].insn.bytes \subseteq 1 .. 15
  <2> SUFFICES ASSUME NEW k \in DOMAIN steps
               PROVE  DOMAIN p[k].insn.bytes \subseteq 1 .. 15
    BY <1>3
  <2> HIDE DEF steps
  <2>1. p[k].insn \in Insns
    BY <1>2, <1>3, ProgramType
  <2>2. /\ DOMAIN p[k].insn.bytes = 1 .. Len(p[k].insn.bytes)
        /\ Len(p[k].insn.bytes) \in 1 .. 15
    BY <2>1, InsnType
  <2>3. \A l \in 1 .. 15 : 1 .. l \subseteq 1 .. 15
    OBVIOUS
  <2> QED BY <2>2, <2>3
<1>5. places \subseteq (1 .. Len(p)) \X (1 .. 15)
  <2> HIDE DEF steps
  <2> QED BY <1>3, <1>4
<1>6. IsFiniteSet((1 .. Len(p)) \X (1 .. 15))
  <2>1. IsFiniteSet(1 .. Len(p)) /\ IsFiniteSet(1 .. 15)
    <3>1. 1 \in Int /\ 15 \in Int /\ Len(p) \in Int
      BY <1>2
    <3> QED BY <3>1, FS_Interval
  <2> QED BY <2>1, FS_Product
<1>7. IsFiniteSet(places)
  BY <1>5, <1>6, FS_Subset
<1> QED BY <1>7, FS_CardinalityType DEF Size

LEMMA MemoryType ==
    ASSUME NEW p \in Programs, NEW s \in Srcs
    PROVE  MemoryWith(p, s) \in Memory
<1> DEFINE start == [n \in DOMAIN p |-> s + Size(SubSeq(p, 1, n - 1))]
           At(a) == {n \in DOMAIN p :
                        a - start[n] + 1 \in DOMAIN p[n].insn.bytes}
           cell(a) == IF At(a) = {} THEN -1
                      ELSE LET n == CHOOSE n \in At(a) : TRUE
                           IN  Encode(p[n], start[n])[a - start[n] + 1]
<1>1. s \in Nat
  BY SubhookAssumption, AddressesAreCells DEF SubhookAssumption
<1>2. \A n \in DOMAIN p : start[n] \in Int
  <2> SUFFICES ASSUME NEW n \in DOMAIN p
               PROVE  start[n] \in Int
    OBVIOUS
  <2>1. n \in 1 .. Len(p) /\ Len(p) \in Nat
    BY ProgramType
  <2>2. Size(SubSeq(p, 1, n - 1)) \in Nat
    BY <2>1, SizeType
  <2> QED BY <1>1, <2>2
<1>3. \A n \in DOMAIN p : \A k \in DOMAIN p[n].insn.bytes :
          Encode(p[n], start[n])[k] \in Cells
  <2> SUFFICES ASSUME NEW n \in DOMAIN p, NEW k \in DOMAIN p[n].insn.bytes
               PROVE  Encode(p[n], start[n])[k] \in Cells
    OBVIOUS
  <2> HIDE DEF start
  <2>1. p[n].insn \in Insns /\ start[n] \in Int
    BY <1>2, ProgramType
  <2>2. Len(p[n].insn.bytes) \in Nat /\ p[n].insn.bytes[k] \in 0 .. 255
    <3>1. /\ p[n].insn.bytes \in Seq(0 .. 255)
          /\ k \in 1 .. Len(p[n].insn.bytes)
          /\ Len(p[n].insn.bytes) \in Nat
      BY <2>1, InsnType
    <3> QED BY <3>1, ElementOfSeq
  <2>3. CASE p[n].insn.operand # 0 /\ k = p[n].insn.operand + 1
    <3>1. p[n].target \in Nat
      BY <2>3, ProgramType, AddressesAreCells
    <3>2. (p[n].target - (start[n] + Len(p[n].insn.bytes))) % Word \in Addresses
      BY <2>1, <2>2, <3>1, Wrapped
    <3> QED BY <2>3, <3>2, AddressesAreCells DEF Encode
  <2>4. CASE ~(p[n].insn.operand # 0 /\ k = p[n].insn.operand + 1)
    BY <2>2, <2>4, BytesAreCells DEF Encode
  <2> QED BY <2>3, <2>4
<1>4. \A a \in Addresses : cell(a) \in Cells
  <2> SUFFICES ASSUME NEW a \in Addresses
               PROVE  cell(a) \in Cells
    OBVIOUS
  <2> DEFINE n == CHOOSE n \in At(a) : TRUE
  <2>1. CASE At(a) = {}
    BY <2>1, BytesAreCells
  <2>2. CASE At(a) # {}
    <3>1. n \in At(a)
      BY <2>2
    <3> QED BY <1>3, <2>2, <3>1
  <2> QED BY <2>1, <2>2
<1>5. MemoryWith(p, s) = [a \in Addresses |-> cell(a)]
  BY DEF MemoryWith
<1> HIDE DEF cell
<1> QED BY <1>4, <1>5 DEF Memory

-----------------------------------------------------------------------------
(* Trampolines                                                             *)

LEMMA PrefixCountType == ASSUME NEW code PROVE PrefixCount(code) \in Nat
<1> DEFINE counts == {n \in DOMAIN PrefixBytes :
                         \A k \in 1 .. n : IsNextPrefix(code, k)}
<1>1. DOMAIN PrefixBytes = 1 .. 11
  BY DEF PrefixBytes
<1>2. IsFiniteSet(1 .. 11)
  <2>1. 1 \in Int /\ 11 \in Int
    OBVIOUS
  <2> QED BY <2>1, FS_Interval
<1>3. IsFiniteSet(counts)
  BY <1>1, <1>2, FS_Subset
<1> QED BY <1>3, FS_CardinalityType DEF PrefixCount

LEMMA OperandLengthType ==
    ASSUME NEW modrm, NEW sib
    PROVE  OperandLength(modrm, sib) \in Nat
BY DEF OperandLength

LEMMA DisassembleType ==
    ASSUME NEW code
    PROVE  /\ Disassemble(code).length \in Nat
           /\ Disassemble(code).reloc \in Nat
<1> DEFINE n == PrefixCount(code)
           size == OperandSize(code, n)
           known == Known(code[n + 1], code[n + 2])
           flags == CHOOSE f \in known : TRUE
           operand == IF MODRM \in flags
                      THEN 1 + OperandLength(code[n + 2], code[n + 3]) ELSE 0
<1>1. n \in Nat
  BY PrefixCountType
<1>2. size \in Nat
  BY DEF OperandSize
<1>3. operand \in Nat
  BY OperandLengthType
<1>4. Disassemble(code) =
          IF known = {} THEN [length |-> 0, reloc |-> 0]
          ELSE [length |-> n + 1 + operand
                           + (IF IMM8 \in flags THEN 1 ELSE 0)
                           + (IF IMM16 \in flags THEN 2 ELSE 0)
                           + (IF IMM32 \in flags THEN size ELSE 0),
                reloc |-> IF RELOC \in flags THEN n + 1 ELSE 0]
  BY DEF Disassemble, LengthOf
<1> HIDE DEF n, size, known, flags, operand
<1> QED BY <1>1, <1>2, <1>3, <1>4

LEMMA RelocateType ==
    ASSUME NEW bytes \in Seq(Cells), NEW operands, NEW offset \in Int
    PROVE  /\ Relocate(bytes, operands, offset) \in Seq(Cells)
           /\ Len(Relocate(bytes, operands, offset)) = Len(bytes)
<1>1. Len(bytes) \in Nat /\ DOMAIN bytes = 1 .. Len(bytes)
  BY LenProperties
<1>2. ASSUME NEW n \in 1 .. Len(bytes)
      PROVE  Relocate(bytes, operands, offset)[n] \in Cells
  <2>1. bytes[n] \in Cells
    BY <1>2, ElementOfSeq
  <2>2. bytes[n] \in Int
    BY <2>1, CellsAreIntegers
  <2>3. bytes[n] - offset \in Int
    BY <2>2
  <2>4. (bytes[n] - offset) % Word \in Cells
    BY <2>3, Wrapped, AddressesAreCells
  <2> QED BY <1>1, <1>2, <2>1, <2>4 DEF Relocate
<1>3. Relocate(bytes, operands, offset) \in [1 .. Len(bytes) -> Cells]
  BY <1>1, <1>2 DEF Relocate
<1> QED BY <1>1, <1>3

\* The loop of subhook_make_trampoline ends: each instruction it copies has a
\* length, so one of them reaches the size of a jump.
LEMMA LastIsCopied ==
    ASSUME NEW insns, DOMAIN insns = 0 .. JmpSize - 1,
           \A at \in Copied(insns) : insns[at].length \in Nat \ {0}
    PROVE  \E at \in Copied(insns) : at + insns[at].length >= JmpSize
<1> DEFINE copied == Copied(insns)
<1>1. 0 \in copied
  BY DEF Copied, JmpSize
<1>2. \A p \in copied : p + insns[p].length \in 0 .. JmpSize - 1 =>
                           p + insns[p].length \in copied
  BY DEF Copied
<1>3. copied \subseteq 0 .. 4
  BY DEF Copied, JmpSize
<1> HIDE DEF copied
<1>4. SUFFICES ASSUME \A at \in copied : at + insns[at].length < 5
               PROVE  FALSE
  BY <1>3 DEF copied, JmpSize
<1>5. \A p \in copied : \E q \in copied : q > p
  <2> SUFFICES ASSUME NEW p \in copied
               PROVE  p + insns[p].length \in copied /\ p + insns[p].length > p
    OBVIOUS
  <2>1. p \in 0 .. 4 /\ insns[p].length \in Nat \ {0}
    BY <1>3 DEF copied
  <2>2. p + insns[p].length < 5
    BY <1>4 DEF copied
  <2> QED BY <1>2, <2>1, <2>2 DEF JmpSize
<1>6. ASSUME NEW p \in copied
      PROVE  p = 0 \/ p = 1 \/ p = 2 \/ p = 3 \/ p = 4
  <2>1. p \in 0 .. 4
    BY <1>3
  <2> QED BY <2>1
<1>7. 4 \notin copied
  BY <1>5, <1>6
<1>8. 3 \notin copied
  BY <1>5, <1>6, <1>7
<1>9. 2 \notin copied
  BY <1>5, <1>6, <1>7, <1>8
<1>10. 1 \notin copied
  BY <1>5, <1>6, <1>7, <1>8, <1>9
<1> QED BY <1>1, <1>5, <1>6, <1>7, <1>8, <1>9, <1>10

\* A trampoline, or none.
LEMMA TrampolineType ==
    ASSUME mem \in Memory, NEW start \in Int, NEW from \in Int
    PROVE  \/ MakeTrampoline(start, from) = Null
           \/ MakeTrampoline(start, from) \in Seq(Cells)
<1> DEFINE insns == [at \in 0 .. JmpSize - 1 |->
                        Disassemble(CodeAt(mem, from + at, 24))]
           copied == Copied(insns)
           last == CHOOSE at \in copied : at + insns[at].length >= JmpSize
           size == last + insns[last].length
           operands == {at + insns[at].reloc + 1 :
                           at \in {p \in copied : insns[p].reloc # 0}}
           moved == Relocate(CodeAt(mem, from, size), operands, start - from)
<1>1. MakeTrampoline(start, from) =
          IF \E at \in copied : insns[at].length = 0 THEN Null
          ELSE moved \o JumpBack(start, from, size)
  BY DEF MakeTrampoline
<1>2. SUFFICES ASSUME \A at \in copied : insns[at].length # 0
               PROVE  moved \o JumpBack(start, from, size) \in Seq(Cells)
  BY <1>1
<1>3. copied \subseteq 0 .. JmpSize - 1
  BY DEF Copied
<1>4. \A at \in 0 .. JmpSize - 1 : insns[at].length \in Nat
  BY DisassembleType
<1>5. DOMAIN insns = 0 .. JmpSize - 1
  OBVIOUS
<1> HIDE DEF insns
<1>6. \E at \in copied : at + insns[at].length >= JmpSize
  BY <1>2, <1>3, <1>4, <1>5, LastIsCopied
<1>7. last \in copied
  BY <1>6
<1>8. size \in Nat
  BY <1>3, <1>4, <1>7 DEF JmpSize
<1> HIDE DEF size
<1>9. moved \in Seq(Cells)
  BY <1>8, CodeAtType, RelocateType
<1>10. start + size \in Int /\ from + size \in Int
  BY <1>8
<1>11. JumpBack(start, from, size) \in Seq(Cells)
  BY <1>10, JumpType DEF JumpBack
<1> QED BY <1>9, <1>11, ConcatProperties

-----------------------------------------------------------------------------
(* Types                                                                   *)

\* Hooks that a call has removed are still there when it installs them again,
\* and every hook that is removed will be.
RemovedInv ==
    /\ pc = Null => removed = <<>>
    /\ \A n \in DOMAIN removed : hook[removed[n].hook] # Null
    /\ \A h \in Hooks :
          hook[h] # Null /\ ~hook[h].installed =>
              \E n \in ToInstall : removed[n].hook = h

LEMMA SrcIsAddress ==
    ASSUME src \in Srcs
    PROVE  src \in Addresses /\ src \in Nat
BY SubhookAssumption, AddressesAreCells DEF SubhookAssumption

LEMMA PlaceIsAddress ==
    ASSUME NEW h \in Hooks
    PROVE  /\ Area(h) \in Addresses /\ Area(h) \in Nat
           /\ Dst(h) \in Addresses /\ Dst(h) \in Nat
BY SubhookAssumption, AddressesAreCells DEF SubhookAssumption

LEMMA NullIsNothing ==
    Null \notin Addresses /\ Null \notin Nat /\ Null \notin HookStruct
BY SubhookAssumption, AddressesAreCells DEF SubhookAssumption

\* What subhook_new makes.
LEMMA NewIs ==
    ASSUME src \in Srcs, mem \in Memory, NEW h \in Hooks, NEW fails
    PROVE  LET new == New(h, fails)
           IN  /\ new.hook \in HookStruct \cup {Null}
               /\ new.hook # Null =>
                      /\ new.hook.trampoline \in {Null, Area(h)}
                      /\ new.hook.code = CodeAt(mem, src, JmpSize)
                      /\ new.hook.installed
               /\ new.heap = {h} \X (IF new.hook = Null THEN {}
                                     ELSE {"hook", "code"} \cup
                                          (IF new.hook.trampoline = Null THEN {}
                                           ELSE {"trampoline"}))
               /\ \/ new.mem = mem
                  \/ /\ new.hook # Null /\ new.hook.trampoline # Null
                     /\ \E code \in Seq(Cells) :
                           /\ new.hook.trampoline_len = Len(code)
                           /\ new.mem = Written(mem, Area(h), code)
<1> DEFINE error == fails \cap {"calloc", "malloc", "mprotect"} # {}
           code == IF "mmap" \in fails THEN Null
                   ELSE MakeTrampoline(Area(h), src)
           struct == [code |-> CodeAt(mem, src, JmpSize),
                      trampoline |-> IF code = Null THEN Null ELSE Area(h),
                      trampoline_len |-> IF code = Null THEN 0 ELSE Len(code),
                      installed |-> TRUE]
           blocks == {"hook", "code"}
                        \cup (IF code = Null THEN {} ELSE {"trampoline"})
           new == New(h, fails)
<1>1. /\ new.hook = IF error THEN Null ELSE struct
      /\ new.mem = IF error \/ code = Null THEN mem
                   ELSE Written(mem, Area(h), code)
      /\ new.heap = {h} \X (IF error THEN {} ELSE blocks)
  BY DEF New, BlocksAfterError
<1>2. code = Null \/ code \in Seq(Cells)
  BY SrcIsAddress, PlaceIsAddress, TrampolineType
<1> HIDE DEF code, error, new
<1>3. struct \in HookStruct
  <2>1. CodeAt(mem, src, JmpSize) \in [1 .. JmpSize -> Cells]
    <3>1. JmpSize \in Nat /\ src \in Int
      BY SrcIsAddress DEF JmpSize
    <3> QED BY <3>1, CodeAtType
  <2>2. CASE code = Null
    BY <2>1, <2>2 DEF HookStruct
  <2>3. CASE code # Null
    <3>1. Len(code) \in Nat
      BY <1>2, <2>3, LenProperties
    <3> QED BY <2>1, <2>3, <3>1, PlaceIsAddress DEF HookStruct
  <2> QED BY <2>2, <2>3
<1>4. struct # Null
  BY <1>3, NullIsNothing
<1>5. CASE error
  BY <1>1, <1>5 DEF new
<1>6. CASE ~error
  <2>1. new.hook = struct
    BY <1>1, <1>6
  <2>2. CASE code = Null
    BY <1>1, <1>3, <1>4, <1>6, <2>1, <2>2 DEF new
  <2>3. CASE code # Null
    <3>1. Area(h) # Null
      BY PlaceIsAddress, NullIsNothing
    <3>2. new.hook.trampoline = Area(h) /\ new.hook.trampoline_len = Len(code)
      BY <2>1, <2>3
    <3>3. /\ new.mem = Written(mem, Area(h), code)
          /\ new.heap = {h} \X ({"hook", "code"} \cup {"trampoline"})
      BY <1>1, <1>6, <2>3
    <3> QED BY <1>2, <1>3, <1>4, <2>1, <2>3, <3>1, <3>2, <3>3 DEF new
  <2> QED BY <2>2, <2>3
<1> QED BY <1>5, <1>6

TypeInv == TypeOK /\ RemovedInv

\* The parts of a hook that stay when its flag changes.
LEMMA FlagChanged ==
    ASSUME NEW r \in HookStruct, NEW b \in BOOLEAN
    PROVE  LET s == [r EXCEPT !.installed = b]
           IN  /\ s \in HookStruct /\ s # Null
               /\ s.installed = b
               /\ s.code = r.code
               /\ s.trampoline = r.trampoline
               /\ s.trampoline_len = r.trampoline_len
<1>1. [r EXCEPT !.installed = b] \in HookStruct
  BY DEF HookStruct
<1> QED BY <1>1, NullIsNothing DEF HookStruct

\* The code that a hook puts back.
LEMMA CodeOfHook ==
    ASSUME NEW r \in HookStruct
    PROVE  r.code \in Seq(Cells) /\ DOMAIN r.code = 1 .. JmpSize
<1>1. r.code \in [1 .. JmpSize -> Cells]
  BY DEF HookStruct
<1>2. JmpSize \in Nat
  BY DEF JmpSize
<1> QED BY <1>1, <1>2

LEMMA RemovedType ==
    ASSUME TypeOK, NEW n \in DOMAIN removed
    PROVE  removed[n].hook \in Hooks /\ removed[n].was \in BOOLEAN
<1>1. removed \in Seq([hook : Hooks, was : BOOLEAN])
  BY DEF TypeOK
<1>2. removed[n] \in [hook : Hooks, was : BOOLEAN]
  BY <1>1, LenProperties, ElementOfSeq
<1> QED BY <1>2

LEMMA RestoredType ==
    ASSUME TypeOK, NEW h \in Hooks, hook[h] # Null
    PROVE  RestoreCode(mem, h) \in Memory
<1>1. hook[h] \in HookStruct
  BY DEF TypeOK
<1>2. Written(mem, src, hook[h].code) \in Memory
  BY <1>1, CodeOfHook, WrittenType DEF TypeOK, Memory
<1> QED BY <1>2 DEF RestoreCode, TypeOK, Memory

LEMMA TypeInit == Init => TypeInv
<1> SUFFICES ASSUME Init
             PROVE  TypeInv
  OBVIOUS
<1> USE DEF Init
<1>1. mem \in [Addresses -> Cells]
  BY MemoryType DEF Memory
<1>2. /\ removed \in Seq([hook : Hooks, was : BOOLEAN])
      /\ {visited, order} \subseteq Seq(Hooks)
      /\ DOMAIN removed = {}
  OBVIOUS
<1>3. {tidy, crashed} \subseteq BOOLEAN
  OBVIOUS
<1>4. TypeOK
  BY <1>1, <1>2, <1>3 DEF TypeOK, Blocks
<1> QED BY <1>2, <1>4 DEF TypeInv, RemovedInv

LEMMA InstallKeepsTypes ==
    ASSUME TypeInv, NEW h \in Hooks, NEW fails, InstallNew(h, fails)
    PROVE  TypeInv'
<1> USE DEF TypeInv
<1> DEFINE new == New(h, fails)
<1>1. /\ hook[h] = Null /\ pc = Null
      /\ hook' = [hook EXCEPT ![h] = new.hook]
      /\ heap' = heap \cup new.heap
      /\ mem' = IF new.hook = Null THEN mem
                ELSE Written(new.mem, src, Jump(src, Dst(h)))
      /\ order' = IF new.hook = Null THEN order ELSE Append(order, h)
      /\ calls' = 0
      /\ crashed' = (new.hook # Null /\ ~CanWrite(writable'))
      /\ UNCHANGED <<src, program, style, pc, caller, trace, visited, removed, tidy>>
  BY DEF InstallNew, callVars
<1>2. /\ new.hook \in HookStruct \cup {Null}
      /\ new.hook # Null => /\ new.hook.trampoline \in {Null, Area(h)}
                            /\ new.hook.installed
      /\ new.heap \subseteq Blocks
      /\ \/ new.mem = mem
         \/ \E code \in Seq(Cells) : new.mem = Written(mem, Area(h), code)
  <2>1. src \in Srcs /\ mem \in Memory
    BY DEF TypeOK, Memory
  <2>2. {h} \X {"hook", "code", "trampoline"} \subseteq Blocks
    BY DEF Blocks
  <2> HIDE DEF new
  <2>3. new.heap \subseteq {h} \X {"hook", "code", "trampoline"}
    <3>1. new.heap = {h} \X (IF new.hook = Null THEN {}
                             ELSE {"hook", "code"} \cup
                                  (IF new.hook.trampoline = Null THEN {}
                                   ELSE {"trampoline"}))
      BY <2>1, NewIs DEF new
    <3> QED BY <3>1
  <2> QED BY <2>1, <2>2, <2>3, NewIs DEF new
<1> HIDE DEF new
<1>3. new.mem \in Memory
  BY <1>2, WrittenType DEF TypeOK, Memory
<1>4. mem' \in [Addresses -> Cells]
  <2>1. Jump(src, Dst(h)) \in Seq(Cells)
    BY SrcIsAddress, PlaceIsAddress, JumpType DEF TypeOK
  <2>2. Written(new.mem, src, Jump(src, Dst(h))) \in Memory
    BY <1>3, <2>1, WrittenType
  <2> QED BY <1>1, <2>2 DEF Memory, TypeOK
<1>5. hook' \in [Hooks -> HookStruct \cup {Null}]
  BY <1>1, <1>2 DEF TypeOK
<1>6. \A g \in Hooks : hook'[g] = IF g = h THEN new.hook ELSE hook[g]
  BY <1>1 DEF TypeOK
<1>7. \A g \in Hooks : hook'[g] # Null => hook'[g].trampoline \in {Null, Area(g)}
  BY <1>2, <1>6 DEF TypeOK
<1>8. order' \in Seq(Hooks) /\ visited' \in Seq(Hooks)
  BY <1>1, AppendProperties DEF TypeOK
<1>9. crashed' \in BOOLEAN /\ tidy' \in BOOLEAN
  BY <1>1 DEF TypeOK
<1>10. heap' \subseteq Blocks
  BY <1>1, <1>2 DEF TypeOK
<1>11. TypeOK'
  BY <1>1, <1>4, <1>5, <1>7, <1>8, <1>9, <1>10 DEF TypeOK
<1>12. RemovedInv'
  <2>1. removed' = <<>> /\ DOMAIN removed' = {}
    BY <1>1 DEF RemovedInv
  <2>2. ASSUME NEW g \in Hooks, hook'[g] # Null, ~hook'[g].installed
        PROVE  FALSE
    <3>1. g # h
      BY <1>2, <1>6, <2>2
    <3>2. \E n \in ToInstall : removed[n].hook = g
      BY <1>6, <2>2, <3>1 DEF RemovedInv
    <3> QED BY <1>1, <2>1, <3>2 DEF ToInstall
  <2> QED BY <2>1, <2>2 DEF RemovedInv
<1> QED BY <1>11, <1>12

\* What is left of a sequence without one element.
LEMMA RemovedAt ==
    ASSUME NEW S, NEW s \in Seq(S), NEW n \in DOMAIN s
    PROVE  /\ RemoveAt(s, n) \in Seq(S)
           /\ DOMAIN RemoveAt(s, n) = 1 .. Len(s) - 1
           /\ \A k \in 1 .. Len(s) - 1 :
                 RemoveAt(s, n)[k] = s[IF k < n THEN k ELSE k + 1]
<1>1. Len(s) \in Nat /\ n \in 1 .. Len(s)
  BY LenProperties
<1>2. SubSeq(s, 1, n - 1) \in Seq(S) /\ SubSeq(s, n + 1, Len(s)) \in Seq(S)
  BY <1>1, SubSeqProperties
<1>3. /\ Len(SubSeq(s, 1, n - 1)) = n - 1
      /\ \A k \in 1 .. n - 1 : SubSeq(s, 1, n - 1)[k] = s[k]
  BY <1>1, SubSeqProperties
<1>4. /\ Len(SubSeq(s, n + 1, Len(s))) = Len(s) - n
      /\ \A k \in 1 .. Len(s) - n :
            SubSeq(s, n + 1, Len(s))[k] = s[n + k]
  BY <1>1, SubSeqProperties
<1> DEFINE front == SubSeq(s, 1, n - 1)
           back == SubSeq(s, n + 1, Len(s))
<1>5. /\ front \in Seq(S) /\ Len(front) = n - 1
      /\ back \in Seq(S) /\ Len(back) = Len(s) - n
      /\ \A k \in 1 .. n - 1 : front[k] = s[k]
      /\ \A k \in 1 .. Len(s) - n : back[k] = s[n + k]
  BY <1>2, <1>3, <1>4
<1>6. RemoveAt(s, n) = front \o back
  BY DEF RemoveAt
<1> HIDE DEF front, back
<1>7. /\ front \o back \in Seq(S)
      /\ Len(front \o back) = Len(front) + Len(back)
      /\ \A k \in 1 .. Len(front) + Len(back) :
            (front \o back)[k] = IF k <= Len(front) THEN front[k]
                                 ELSE back[k - Len(front)]
  BY <1>5, ConcatProperties
<1>8. Len(front) + Len(back) = Len(s) - 1
  BY <1>1, <1>5
<1>9. ASSUME NEW k \in 1 .. Len(s) - 1
      PROVE  (front \o back)[k] = s[IF k < n THEN k ELSE k + 1]
  <2>1. CASE k < n
    <3>1. k \in 1 .. n - 1 /\ k <= n - 1
      BY <1>1, <2>1
    <3>2. (front \o back)[k] = front[k]
      BY <1>5, <1>7, <1>8, <3>1
    <3> QED BY <1>5, <2>1, <3>1, <3>2
  <2>2. CASE k >= n
    <3>1. k - (n - 1) \in 1 .. Len(s) - n
      BY <1>1, <2>2
    <3>2. back[k - (n - 1)] = s[n + (k - (n - 1))]
      BY <1>5, <3>1
    <3>3. n + (k - (n - 1)) = k + 1
      BY <1>1
    <3>4. k \in 1 .. Len(front) + Len(back) /\ ~(k <= Len(front))
      BY <1>1, <1>5, <1>8, <2>2
    <3>5. (front \o back)[k] = back[k - (n - 1)]
      BY <1>5, <1>7, <3>4
    <3>6. s[IF k < n THEN k ELSE k + 1] = s[k + 1]
      BY <1>1, <2>2
    <3> QED BY <3>2, <3>3, <3>5, <3>6
  <2>3. k < n \/ k >= n
    BY <1>1
  <2> QED BY <2>1, <2>2, <2>3
<1> QED BY <1>1, <1>6, <1>7, <1>8, <1>9, LenProperties

LEMMA DestroyKeepsTypes ==
    ASSUME TypeInv, NEW h \in Hooks, DestroyHook(h),
           \E n \in DOMAIN order : order[n] = h
    PROVE  TypeInv'
<1> USE DEF TypeInv
<1> DEFINE m == RestoreCode(mem, h)
           k == CHOOSE n \in DOMAIN order : order[n] = h
<1>1. /\ hook[h] # Null /\ pc = Null
      /\ mem' = IF hook[h].trampoline = Null THEN m
                ELSE Written(m, Area(h), [n \in 1 .. TrampolineSize |-> -1])
      /\ hook' = [hook EXCEPT ![h] = Null]
      /\ heap' \subseteq heap
      /\ tidy' = (tidy /\ Last(order) = h)
      /\ order' = RemoveAt(order, k)
      /\ calls' = 0
      /\ UNCHANGED <<src, program, writable, style, pc, caller, trace, visited,
                     removed, crashed>>
  BY DEF DestroyHook, callVars
<1>2. m \in Memory
  BY <1>1, RestoredType
<1>3. mem' \in [Addresses -> Cells]
  <2>1. TrampolineSize \in Nat
    BY DEF TrampolineSize, JmpSize
  <2>2. [n \in 1 .. TrampolineSize |-> -1] \in Seq(Cells)
    BY <2>1, BytesAreCells
  <2>3. Written(m, Area(h), [n \in 1 .. TrampolineSize |-> -1]) \in Memory
    BY <1>2, <2>2, WrittenType
  <2> HIDE DEF m
  <2> QED BY <1>1, <1>2, <2>3 DEF Memory
<1>4. hook' \in [Hooks -> HookStruct \cup {Null}]
      /\ \A g \in Hooks : hook'[g] = IF g = h THEN Null ELSE hook[g]
  BY <1>1 DEF TypeOK
<1>5. order' \in Seq(Hooks)
  <2>1. k \in DOMAIN order
    OBVIOUS
  <2> QED BY <1>1, <2>1, RemovedAt DEF TypeOK
<1>6. tidy' \in BOOLEAN
  BY <1>1 DEF TypeOK
<1>7. TypeOK'
  BY <1>1, <1>3, <1>4, <1>5, <1>6 DEF TypeOK
<1>8. RemovedInv'
  <2>1. removed' = <<>> /\ DOMAIN removed' = {} /\ DOMAIN removed = {}
    BY <1>1 DEF RemovedInv
  <2>2. ASSUME NEW g \in Hooks, hook'[g] # Null, ~hook'[g].installed
        PROVE  FALSE
    BY <1>4, <2>1, <2>2 DEF RemovedInv, ToInstall
  <2> QED BY <2>1, <2>2 DEF RemovedInv
<1> QED BY <1>7, <1>8

LEMMA CallKeepsTypes ==
    ASSUME TypeInv, NEW address \in Addresses \cup {Null},
           NEW from \in Hooks \cup {Null}, CallAt(address, from)
    PROVE  TypeInv'
<1> USE DEF TypeInv
<1>1. /\ pc = Null /\ pc' = address /\ caller' = from
      /\ calls' = calls + 1
      /\ crashed' \in BOOLEAN
      /\ visited' = <<>>
      /\ UNCHANGED <<src, program, mem, writable, hook, style, heap, removed,
                     order, tidy>>
  BY DEF CallAt
<1>2. visited' \in Seq(Hooks)
  BY <1>1
<1>3. TypeOK'
  BY <1>1, <1>2 DEF TypeOK
<1>4. ToInstall' = ToInstall
  BY <1>1 DEF ToInstall
<1>5. RemovedInv'
  BY <1>1, <1>4 DEF RemovedInv
<1> QED BY <1>3, <1>5

LEMMA TargetType ==
    ASSUME TypeOK, pc # Null, NEW i \in Insns
    PROVE  /\ Target(i) \in Addresses
           /\ (pc + Len(i.bytes)) % Word \in Addresses
<1>1. /\ pc \in Int /\ Len(i.bytes) \in Int /\ i.operand \in Int
  BY AddressesAreCells, InsnType DEF TypeOK
<1>2. (pc + i.operand) % Word \in Addresses
  BY <1>1, Wrapped
<1>3. mem[(pc + i.operand) % Word] \in Int
  BY <1>2, CellsAreIntegers DEF TypeOK
<1>4. pc + Len(i.bytes) + mem[(pc + i.operand) % Word] \in Int
  BY <1>1, <1>3
<1> QED BY <1>1, <1>4, Wrapped DEF Target

\* The hook functions return: every hook is installed.
LEMMA ReturnKeepsTypes ==
    ASSUME TypeInv, Return
    PROVE  /\ mem' \in Memory
           /\ hook' \in [Hooks -> HookStruct \cup {Null}]
           /\ \A h \in Hooks : hook'[h] # Null <=> hook[h] # Null
           /\ \A h \in Hooks : hook[h] # Null =>
                  /\ hook'[h].installed
                  /\ hook'[h].code = hook[h].code
                  /\ hook'[h].trampoline = hook[h].trampoline
                  /\ hook'[h].trampoline_len = hook[h].trampoline_len
<1> USE DEF TypeInv
<1>1. mem' \in Memory
  <2>1. CASE ToInstall = {}
    BY <2>1 DEF Return, Reinstall, TypeOK, Memory
  <2>2. CASE ToInstall # {}
    <3>1. PICK n \in ToInstall : InstalledBy(n)
      BY <2>2 DEF Return, Reinstall
    <3>2. removed[n].hook \in Hooks
      BY RemovedType DEF ToInstall
    <3>3. Jump(src, Dst(removed[n].hook)) \in Seq(Cells)
      BY <3>2, SrcIsAddress, PlaceIsAddress, JumpType DEF TypeOK
    <3>4. mem \in Memory
      BY DEF TypeOK, Memory
    <3> QED BY <3>1, <3>3, <3>4, WrittenType DEF InstalledBy
  <2> QED BY <2>1, <2>2
<1>2. ASSUME NEW h \in Hooks
      PROVE  /\ hook'[h] \in HookStruct \cup {Null}
             /\ hook'[h] # Null <=> hook[h] # Null
             /\ hook[h] # Null =>
                  /\ hook'[h].installed
                  /\ hook'[h].code = hook[h].code
                  /\ hook'[h].trampoline = hook[h].trampoline
                  /\ hook'[h].trampoline_len = hook[h].trampoline_len
  <2>1. hook'[h] = IF \E n \in ToInstall : removed[n].hook = h
                   THEN [hook[h] EXCEPT !.installed = TRUE] ELSE hook[h]
    BY DEF Return
  <2>2. hook[h] \in HookStruct \cup {Null}
    BY DEF TypeOK
  <2>3. CASE \E n \in ToInstall : removed[n].hook = h
    <3>1. hook[h] # Null
      BY <2>3 DEF ToInstall, RemovedInv
    <3>2. hook[h] \in HookStruct
      BY <2>2, <3>1
    <3>3. hook'[h] = [hook[h] EXCEPT !.installed = TRUE]
      BY <2>1, <2>3
    <3> QED BY <3>1, <3>2, <3>3, FlagChanged
  <2>4. CASE ~\E n \in ToInstall : removed[n].hook = h
    <3>1. hook'[h] = hook[h]
      BY <2>1, <2>4
    <3>2. hook[h] # Null => hook[h].installed
      BY <2>4 DEF RemovedInv
    <3> QED BY <2>2, <3>1, <3>2
  <2> QED BY <2>3, <2>4
<1>3. hook' = [h \in Hooks |-> hook'[h]]
  BY DEF Return
<1> QED BY <1>1, <1>2, <1>3

LEMMA ExecuteKeepsTypes ==
    ASSUME TypeInv, Execute
    PROVE  TypeInv'
<1> USE DEF TypeInv
<1>1. PICK i \in Insns :
          /\ pc # Null /\ crashed' = FALSE
          /\ \/ /\ pc' \in {Target(i), (pc + Len(i.bytes)) % Word}
                /\ UNCHANGED <<removed, mem, hook>>
             \/ Return
          /\ UNCHANGED <<src, program, writable, style, heap, caller, visited,
                         order, calls, tidy>>
  BY DEF Execute, Decode
<1>2. CASE /\ pc' \in {Target(i), (pc + Len(i.bytes)) % Word}
           /\ UNCHANGED <<removed, mem, hook>>
  <2>1. pc' \in Addresses /\ pc' # Null
    BY <1>1, <1>2, TargetType, NullIsNothing
  <2>2. TypeOK'
    BY <1>1, <1>2, <2>1 DEF TypeOK
  <2>3. ToInstall' = ToInstall
    BY <1>2 DEF ToInstall
  <2> QED BY <1>2, <2>1, <2>2, <2>3 DEF RemovedInv
<1>3. CASE Return
  <2>1. pc' = Null /\ removed' = <<>> /\ DOMAIN removed' = {}
    BY <1>3 DEF Return
  <2>2. /\ mem' \in [Addresses -> Cells]
        /\ hook' \in [Hooks -> HookStruct \cup {Null}]
        /\ \A h \in Hooks : hook'[h] # Null =>
               hook'[h].installed /\ hook'[h].trampoline \in {Null, Area(h)}
    BY <1>3, ReturnKeepsTypes DEF TypeOK, Memory
  <2>3. TypeOK'
    <3>1. removed' \in Seq([hook : Hooks, was : BOOLEAN])
      BY <2>1
    <3>2. pc' \in Addresses \cup {Null}
      BY <2>1
    <3>3. {tidy', crashed'} \subseteq BOOLEAN
      BY <1>1 DEF TypeOK
    <3> QED BY <1>1, <2>2, <3>1, <3>2, <3>3 DEF TypeOK
  <2>4. RemovedInv'
    BY <2>1, <2>2 DEF RemovedInv
  <2> QED BY <2>3, <2>4
<1> QED BY <1>1, <1>2, <1>3

LEMMA ThunkIs ==
    ASSUME NEW h \in Hooks
    PROVE  Thunk(h, "Exec") = hook[h].trampoline
BY DEF Thunk, Exports, RealExports, AmxExports

LEMMA EnterHookKeepsTypes ==
    ASSUME TypeInv, NEW h \in Hooks, EnterHook(h)
    PROVE  TypeInv'
<1> USE DEF TypeInv
<1>1. /\ pc = Dst(h) /\ hook[h] # Null
      /\ visited' = Append(visited, h)
      /\ UNCHANGED <<src, program, writable, style, heap, caller, trace, order,
                     calls, tidy>>
  BY DEF EnterHook
<1>2. visited' \in Seq(Hooks)
  BY <1>1, AppendProperties DEF TypeOK
<1>3. hook[h] \in HookStruct /\ hook[h].trampoline \in {Null, Area(h)}
  BY <1>1 DEF TypeOK
<1>4. CASE style[h] = "trampoline"
  <2>1. /\ crashed' = (Thunk(h, "Exec") = Null)
        /\ pc' = IF crashed' THEN pc ELSE Thunk(h, "Exec")
        /\ UNCHANGED <<mem, hook, removed>>
    BY <1>4 DEF EnterHook
  <2>2. crashed' \in BOOLEAN
    BY <2>1
  <2>3. pc' \in Addresses /\ pc' # Null
    <3>1. CASE Thunk(h, "Exec") = Null
      BY <1>1, <2>1, <3>1, PlaceIsAddress, NullIsNothing
    <3>2. CASE Thunk(h, "Exec") # Null
      BY <1>3, <2>1, <3>2, ThunkIs, PlaceIsAddress, NullIsNothing
    <3> QED BY <3>1, <3>2
  <2>4. TypeOK'
    BY <1>1, <1>2, <2>1, <2>2, <2>3 DEF TypeOK
  <2>5. ToInstall' = ToInstall
    BY <2>1 DEF ToInstall
  <2> QED BY <2>1, <2>3, <2>4, <2>5 DEF RemovedInv
<1>5. CASE style[h] # "trampoline"
  <2> DEFINE r == [hook |-> h, was |-> hook[h].installed]
  <2>1. /\ crashed' = FALSE
        /\ pc' = src
        /\ mem' = RestoreCode(mem, h)
        /\ hook' = [hook EXCEPT ![h].installed = FALSE]
        /\ removed' = Append(removed, r)
    BY <1>5 DEF EnterHook
  <2>2. r \in [hook : Hooks, was : BOOLEAN]
    BY <1>3 DEF HookStruct
  <2> DEFINE s == [hook[h] EXCEPT !.installed = FALSE]
  <2>3. /\ s \in HookStruct /\ s # Null /\ s.installed = FALSE
        /\ s.trampoline = hook[h].trampoline
    BY <1>3, FlagChanged
  <2>4. /\ hook' \in [Hooks -> HookStruct \cup {Null}]
        /\ \A g \in Hooks : hook'[g] = IF g = h THEN s ELSE hook[g]
    <3>1. hook' = [hook EXCEPT ![h] = s]
      BY <2>1
    <3> HIDE DEF s
    <3> QED BY <2>3, <3>1 DEF TypeOK
  <2> HIDE DEF s, r
  <2>5. /\ removed' \in Seq([hook : Hooks, was : BOOLEAN])
        /\ DOMAIN removed = 1 .. Len(removed) /\ Len(removed) \in Nat
        /\ DOMAIN removed' = 1 .. Len(removed) + 1
        /\ \A n \in 1 .. Len(removed) : removed'[n] = removed[n]
        /\ removed'[Len(removed) + 1] = r
    BY <2>1, <2>2, AppendProperties, LenProperties DEF TypeOK
  <2>6. mem' \in [Addresses -> Cells]
    BY <1>1, <2>1, RestoredType DEF Memory
  <2>7. pc' \in Addresses /\ pc' # Null
    BY <2>1, SrcIsAddress, NullIsNothing DEF TypeOK
  <2>8. TypeOK'
    <3>1. \A g \in Hooks : hook'[g] # Null =>
                               hook'[g].trampoline \in {Null, Area(g)}
      BY <1>3, <2>3, <2>4 DEF TypeOK
    <3> QED BY <1>1, <1>2, <2>1, <2>4, <2>5, <2>6, <2>7, <3>1 DEF TypeOK
  <2>9. r.hook = h /\ r.was = hook[h].installed
    BY DEF r
  <2>10. \A n \in DOMAIN removed' : hook'[removed'[n].hook] # Null
    <3>1. ASSUME NEW n \in 1 .. Len(removed)
          PROVE  hook'[removed[n].hook] # Null
      BY <2>3, <2>4, <2>5, RemovedType DEF RemovedInv
    <3> QED BY <2>3, <2>4, <2>5, <2>9, <3>1
  <2>11. ASSUME NEW g \in Hooks, hook'[g] # Null, ~hook'[g].installed
         PROVE  \E n \in ToInstall' : removed'[n].hook = g
    <3>1. CASE g = h /\ hook[h].installed
      <4>1. Len(removed) + 1 \in ToInstall'
        <5>1. removed'[Len(removed) + 1].was
          BY <2>5, <2>9, <3>1
        <5>2. Len(removed) + 1 \in DOMAIN removed'
          BY <2>5
        <5> QED BY <5>1, <5>2 DEF ToInstall
      <4> QED BY <2>5, <2>9, <3>1, <4>1
    <3>2. CASE g # h \/ ~hook[h].installed
      <4>1. hook[g] # Null /\ ~hook[g].installed
        BY <1>1, <2>4, <2>11, <3>2
      <4>2. PICK n \in ToInstall : removed[n].hook = g
        BY <4>1 DEF RemovedInv
      <4>3. n \in ToInstall' /\ removed'[n].hook = g
        BY <2>5, <4>2 DEF ToInstall
      <4> QED BY <4>3
    <3> QED BY <3>1, <3>2
  <2> QED BY <2>7, <2>8, <2>10, <2>11 DEF RemovedInv
<1> QED BY <1>4, <1>5

\* The plugins with a hook, each once.
OrderInv ==
    /\ \A h \in Hooks : hook[h] # Null <=> \E n \in DOMAIN order : order[n] = h
    /\ \A m, n \in DOMAIN order : order[m] = order[n] => m = n

LEMMA OrderType ==
    ASSUME TypeOK
    PROVE  /\ order \in Seq(Hooks) /\ Len(order) \in Nat
           /\ DOMAIN order = 1 .. Len(order)
           /\ \A n \in DOMAIN order : order[n] \in Hooks
<1>1. order \in Seq(Hooks)
  BY DEF TypeOK
<1> QED BY <1>1, LenProperties, ElementOfSeq

LEMMA InstallKeepsOrder ==
    ASSUME TypeInv, OrderInv, NEW h \in Hooks, NEW fails, InstallNew(h, fails)
    PROVE  OrderInv'
<1> DEFINE new == New(h, fails)
<1>1. /\ hook[h] = Null
      /\ hook' = [hook EXCEPT ![h] = new.hook]
      /\ order' = IF new.hook = Null THEN order ELSE Append(order, h)
  BY DEF InstallNew
<1>2. \A g \in Hooks : hook'[g] = IF g = h THEN new.hook ELSE hook[g]
  BY <1>1 DEF TypeInv, TypeOK
<1> HIDE DEF new
<1>3. CASE new.hook = Null
  BY <1>1, <1>2, <1>3 DEF OrderInv
<1>4. CASE new.hook # Null
  <2>1. /\ DOMAIN order' = 1 .. Len(order) + 1
        /\ \A n \in 1 .. Len(order) : order'[n] = order[n]
        /\ order'[Len(order) + 1] = h
        /\ DOMAIN order = 1 .. Len(order) /\ Len(order) \in Nat
    BY <1>1, <1>4, OrderType, AppendProperties, LenProperties DEF TypeInv
  <2>2. \A n \in 1 .. Len(order) : order[n] # h
    BY <1>1, <2>1 DEF OrderInv
  <2>3. ASSUME NEW g \in Hooks
        PROVE  hook'[g] # Null <=> \E n \in DOMAIN order' : order'[n] = g
    <3>1. CASE g = h
      <4>1. Len(order) + 1 \in DOMAIN order'
        BY <2>1
      <4> QED BY <1>2, <1>4, <2>1, <3>1, <4>1
    <3>2. CASE g # h
      BY <1>2, <2>1, <3>2 DEF OrderInv
    <3> QED BY <3>1, <3>2
  <2>4. ASSUME NEW m \in DOMAIN order', NEW n \in DOMAIN order', order'[m] = order'[n]
        PROVE  m = n
    BY <2>1, <2>2, <2>4 DEF OrderInv
  <2> QED BY <2>3, <2>4 DEF OrderInv
<1> QED BY <1>3, <1>4

LEMMA DestroyKeepsOrder ==
    ASSUME TypeInv, OrderInv, NEW h \in Hooks, DestroyHook(h)
    PROVE  OrderInv'
<1> DEFINE k == CHOOSE n \in DOMAIN order : order[n] = h
<1>1. /\ hook[h] # Null
      /\ hook' = [hook EXCEPT ![h] = Null]
      /\ order' = RemoveAt(order, k)
  BY DEF DestroyHook
<1>2. k \in DOMAIN order /\ order[k] = h
  BY <1>1 DEF OrderInv
<1> HIDE DEF k
<1>3. \A g \in Hooks : hook'[g] = IF g = h THEN Null ELSE hook[g]
  BY <1>1 DEF TypeInv, TypeOK
<1>4. /\ DOMAIN order = 1 .. Len(order) /\ Len(order) \in Nat
      /\ DOMAIN order' = 1 .. Len(order) - 1
      /\ \A n \in 1 .. Len(order) - 1 :
            order'[n] = order[IF n < k THEN n ELSE n + 1]
  BY <1>1, <1>2, OrderType, RemovedAt DEF TypeInv
<1> DEFINE old(n) == IF n < k THEN n ELSE n + 1
<1>5. \A n \in 1 .. Len(order) - 1 : old(n) \in DOMAIN order /\ old(n) # k
  BY <1>2, <1>4
<1>6. \A n \in DOMAIN order : n # k =>
          \E j \in 1 .. Len(order) - 1 : old(j) = n
  <2> SUFFICES ASSUME NEW n \in DOMAIN order, n # k
               PROVE  \E j \in 1 .. Len(order) - 1 : old(j) = n
    OBVIOUS
  <2>1. CASE n < k
    <3>1. n \in 1 .. Len(order) - 1 /\ old(n) = n
      BY <1>2, <1>4, <2>1
    <3> QED BY <3>1
  <2>2. CASE n > k
    <3>1. n - 1 \in 1 .. Len(order) - 1 /\ old(n - 1) = n
      BY <1>2, <1>4, <2>2
    <3> QED BY <3>1
  <2> QED BY <1>2, <1>4, <2>1, <2>2
<1>7. \A m, n \in 1 .. Len(order) - 1 : old(m) = old(n) => m = n
  BY <1>2, <1>4
<1> HIDE DEF old
<1>8. \A n \in 1 .. Len(order) - 1 : order'[n] = order[old(n)]
  BY <1>4 DEF old
<1>9. ASSUME NEW g \in Hooks
      PROVE  hook'[g] # Null <=> \E n \in DOMAIN order' : order'[n] = g
  <2>1. CASE g = h
    <3>1. \A n \in DOMAIN order' : order'[n] # h
      BY <1>2, <1>4, <1>5, <1>8 DEF OrderInv
    <3> QED BY <1>3, <2>1, <3>1
  <2>2. CASE g # h
    <3>1. hook'[g] # Null <=> \E n \in DOMAIN order : order[n] = g
      BY <1>3, <2>2 DEF OrderInv
    <3>2. ASSUME NEW n \in DOMAIN order, order[n] = g
          PROVE  \E j \in DOMAIN order' : order'[j] = g
      <4>1. PICK j \in 1 .. Len(order) - 1 : old(j) = n
        BY <1>2, <1>6, <2>2, <3>2
      <4> QED BY <1>4, <1>8, <3>2, <4>1
    <3>3. ASSUME NEW j \in DOMAIN order', order'[j] = g
          PROVE  \E n \in DOMAIN order : order[n] = g
      <4>1. old(j) \in DOMAIN order /\ order[old(j)] = g
        BY <1>4, <1>5, <1>8, <3>3
      <4> QED BY <4>1
    <3> QED BY <3>1, <3>2, <3>3
  <2> QED BY <2>1, <2>2
<1>10. \A m, n \in DOMAIN order' : order'[m] = order'[n] => m = n
  BY <1>4, <1>5, <1>7, <1>8 DEF OrderInv
<1> QED BY <1>9, <1>10 DEF OrderInv

\* A step that keeps the plugins' hooks keeps their order.
LEMMA SameHooksSameOrder ==
    ASSUME OrderInv, order' = order,
           \A h \in Hooks : hook'[h] # Null <=> hook[h] # Null
    PROVE  OrderInv'
BY DEF OrderInv

\* A call leaves each hook but for its flag.
SameHooks ==
    \A h \in Hooks :
        /\ hook'[h] # Null <=> hook[h] # Null
        /\ hook[h] # Null => /\ hook'[h].code = hook[h].code
                             /\ hook'[h].trampoline = hook[h].trampoline
                             /\ hook'[h].trampoline_len = hook[h].trampoline_len

LEMMA CallsKeepHooks ==
    ASSUME TypeInv,
           Execute \/ Call \/ Crash \/ UNCHANGED vars
               \/ \E h \in Hooks : PluginCalls(h) \/ EnterHook(h)
    PROVE  /\ SameHooks
           /\ UNCHANGED <<src, program, style, heap, order, tidy>>
<1>1. CASE Call \/ Crash \/ UNCHANGED vars \/ \E h \in Hooks : PluginCalls(h)
  BY <1>1 DEF Call, PluginCalls, CallAt, Crash, vars, SameHooks
<1>2. CASE Execute
  <2>1. UNCHANGED <<src, program, style, heap, order, tidy>>
    BY <1>2 DEF Execute
  <2>2. UNCHANGED hook \/ Return
    BY <1>2 DEF Execute
  <2>3. CASE UNCHANGED hook
    BY <2>1, <2>3 DEF SameHooks
  <2>4. CASE Return
    BY <2>1, <2>4, ReturnKeepsTypes DEF SameHooks
  <2> QED BY <2>2, <2>3, <2>4
<1>3. ASSUME NEW h \in Hooks, EnterHook(h)
      PROVE  /\ SameHooks
             /\ UNCHANGED <<src, program, style, heap, order, tidy>>
  <2>1. UNCHANGED <<src, program, style, heap, order, tidy>>
    BY <1>3 DEF EnterHook
  <2>2. hook[h] # Null /\ hook[h] \in HookStruct
    BY <1>3 DEF EnterHook, TypeInv, TypeOK
  <2>3. CASE style[h] = "trampoline"
    BY <1>3, <2>1, <2>3 DEF EnterHook, SameHooks
  <2>4. CASE style[h] # "trampoline"
    <3> DEFINE s == [hook[h] EXCEPT !.installed = FALSE]
    <3>1. /\ s # Null /\ s.code = hook[h].code
          /\ s.trampoline = hook[h].trampoline
          /\ s.trampoline_len = hook[h].trampoline_len
      BY <2>2, FlagChanged
    <3>2. hook' = [hook EXCEPT ![h] = s]
      BY <1>3, <2>4 DEF EnterHook
    <3> HIDE DEF s
    <3>3. \A g \in Hooks : hook'[g] = IF g = h THEN s ELSE hook[g]
      BY <3>2 DEF TypeInv, TypeOK
    <3> QED BY <2>1, <2>2, <3>1, <3>3 DEF SameHooks
  <2> QED BY <2>1, <2>3, <2>4
<1> QED BY <1>1, <1>2, <1>3

LEMMA OrderInit == Init => OrderInv
<1> SUFFICES ASSUME Init
             PROVE  OrderInv
  OBVIOUS
<1>1. DOMAIN order = {} /\ \A h \in Hooks : hook[h] = Null
  BY DEF Init
<1> QED BY <1>1 DEF OrderInv

LEMMA OrderStep ==
    ASSUME TypeInv, OrderInv, [Next]_vars
    PROVE  OrderInv'
<1>1. CASE \E h \in Hooks,
              fails \in SUBSET {"calloc", "malloc", "mprotect", "mmap"} :
              InstallNew(h, fails)
  BY <1>1, InstallKeepsOrder
<1>2. CASE \E h \in Hooks : DestroyHook(h)
  BY <1>2, DestroyKeepsOrder
<1>3. CASE Execute \/ Call \/ Crash \/ UNCHANGED vars
               \/ \E h \in Hooks : PluginCalls(h) \/ EnterHook(h)
  BY <1>3, CallsKeepHooks, SameHooksSameOrder DEF SameHooks
<1> QED BY <1>1, <1>2, <1>3 DEF Next

LEMMA TypeStep ==
    ASSUME TypeInv, OrderInv, [Next]_vars
    PROVE  TypeInv'
<1>1. CASE \E h \in Hooks,
              fails \in SUBSET {"calloc", "malloc", "mprotect", "mmap"} :
              InstallNew(h, fails)
  BY <1>1, InstallKeepsTypes
<1>2. ASSUME NEW h \in Hooks, DestroyHook(h)
      PROVE  TypeInv'
  <2>1. \E n \in DOMAIN order : order[n] = h
    BY <1>2 DEF DestroyHook, OrderInv
  <2> QED BY <1>2, <2>1, DestroyKeepsTypes
<1>3. CASE Call
  BY <1>3, SrcIsAddress, CallKeepsTypes DEF Call, TypeInv, TypeOK
<1>4. ASSUME NEW h \in Hooks, PluginCalls(h)
      PROVE  TypeInv'
  <2>1. hook[h].trampoline \in Addresses \cup {Null}
    BY <1>4, PlaceIsAddress DEF PluginCalls, TypeInv, TypeOK
  <2> QED BY <1>4, <2>1, ThunkIs, CallKeepsTypes DEF PluginCalls
<1>5. CASE Execute
  BY <1>5, ExecuteKeepsTypes
<1>6. CASE \E h \in Hooks : EnterHook(h)
  BY <1>6, EnterHookKeepsTypes
<1>7. CASE Crash
  <2>1. /\ crashed' = TRUE
        /\ UNCHANGED <<src, program, mem, writable, hook, style, heap, pc, caller,
                       trace, visited, removed, order, calls, tidy>>
    BY <1>7 DEF Crash, callVars
  <2>2. TypeOK'
    BY <2>1 DEF TypeInv, TypeOK
  <2>3. ToInstall' = ToInstall
    BY <2>1 DEF ToInstall
  <2> QED BY <2>1, <2>2, <2>3 DEF TypeInv, RemovedInv
<1>8. CASE UNCHANGED vars
  <2>1. TypeOK'
    BY <1>8 DEF vars, TypeInv, TypeOK
  <2>2. ToInstall' = ToInstall
    BY <1>8 DEF vars, ToInstall
  <2> QED BY <1>8, <2>1, <2>2 DEF vars, TypeInv, RemovedInv
<1> QED BY <1>1, <1>2, <1>3, <1>4, <1>5, <1>6, <1>7, <1>8 DEF Next

LEMMA TypeInvariant == Spec => [](TypeInv /\ OrderInv)
  BY TypeInit, OrderInit, TypeStep, OrderStep, PTL DEF Spec

\* Every cell of the memory holds a byte or an address whatever is written there:
\* operands wrap to their width wherever a trampoline is; hooks that a call took
\* away are still there when it installs them again; and each plugin's hook is
\* in the order once (subhook_make_jmp32, subhook_make_trampoline).
THEOREM TypeCorrect == Spec => []TypeOK
  BY TypeInvariant, PTL DEF TypeInv

-----------------------------------------------------------------------------
(* What is allocated                                                       *)

\* The blocks of one hook.
BlocksOf(h) ==
    {h} \X (IF hook[h] = Null THEN {}
            ELSE {"hook", "code"} \cup
                 (IF hook[h].trampoline = Null THEN {} ELSE {"trampoline"}))

LEMMA BlocksByHook ==
    BlocksAreHooks <=> heap = UNION {BlocksOf(h) : h \in Hooks}
BY DEF BlocksAreHooks, BlocksOf

\* A hook that is new brings its blocks.
LEMMA InstallKeepsBlocks ==
    ASSUME TypeInv, BlocksAreHooks, NEW h \in Hooks, NEW fails,
           InstallNew(h, fails)
    PROVE  BlocksAreHooks'
<1> DEFINE new == New(h, fails)
           blocks == {h} \X (IF new.hook = Null THEN {}
                             ELSE {"hook", "code"} \cup
                                  (IF new.hook.trampoline = Null THEN {}
                                   ELSE {"trampoline"}))
<1>1. /\ hook[h] = Null
      /\ hook' = [hook EXCEPT ![h] = new.hook]
      /\ heap' = heap \cup new.heap
  BY DEF InstallNew
<1>2. new.heap = blocks
  <2>1. src \in Srcs /\ mem \in Memory
    BY DEF TypeInv, TypeOK, Memory
  <2> QED BY <2>1, NewIs
<1>3. \A g \in Hooks : hook'[g] = IF g = h THEN new.hook ELSE hook[g]
  BY <1>1 DEF TypeInv, TypeOK
<1> HIDE DEF new
<1>4. BlocksOf(h)' = blocks /\ BlocksOf(h) = {}
  BY <1>1, <1>3 DEF BlocksOf
<1>5. \A g \in Hooks \ {h} : BlocksOf(g)' = BlocksOf(g)
  BY <1>3 DEF BlocksOf
<1>6. heap = UNION {BlocksOf(g) : g \in Hooks}
  BY BlocksByHook
<1> HIDE DEF blocks
<1>7. heap' = heap \cup blocks
  BY <1>1, <1>2
<1>8. heap' = UNION {BlocksOf(g)' : g \in Hooks}
  BY <1>4, <1>5, <1>6, <1>7
<1> QED BY <1>8 DEF BlocksAreHooks, BlocksOf

\* A hook that goes takes its blocks with it, and no others.
LEMMA DestroyKeepsBlocks ==
    ASSUME TypeInv, BlocksAreHooks, NEW h \in Hooks, DestroyHook(h)
    PROVE  BlocksAreHooks'
<1> DEFINE all == {h} \X {"hook", "code", "trampoline"}
<1>1. /\ hook' = [hook EXCEPT ![h] = Null]
      /\ heap' = heap \ all
  BY DEF DestroyHook
<1>2. \A g \in Hooks : hook'[g] = IF g = h THEN Null ELSE hook[g]
  BY <1>1 DEF TypeInv, TypeOK
<1>3. BlocksOf(h)' = {}
  BY <1>2 DEF BlocksOf
<1>4. \A g \in Hooks \ {h} : BlocksOf(g)' = BlocksOf(g)
  BY <1>2 DEF BlocksOf
<1>5. heap = UNION {BlocksOf(g) : g \in Hooks}
  BY BlocksByHook
<1>6. BlocksOf(h) \subseteq all
  BY DEF BlocksOf
<1>7. \A g \in Hooks \ {h} : BlocksOf(g) \cap all = {}
  BY DEF BlocksOf
<1> HIDE DEF all
<1>8. heap' = UNION {BlocksOf(g)' : g \in Hooks}
  BY <1>1, <1>3, <1>4, <1>5, <1>6, <1>7
<1> QED BY <1>8 DEF BlocksAreHooks, BlocksOf

LEMMA CallsKeepBlocks ==
    ASSUME BlocksAreHooks, SameHooks, heap' = heap
    PROVE  BlocksAreHooks'
<1>1. \A g \in Hooks : BlocksOf(g)' = BlocksOf(g)
  BY DEF BlocksOf, SameHooks
<1>2. heap' = UNION {BlocksOf(g)' : g \in Hooks}
  BY <1>1, BlocksByHook
<1> QED BY <1>2 DEF BlocksAreHooks, BlocksOf

LEMMA BlocksInit == Init => BlocksAreHooks
<1> SUFFICES ASSUME Init
             PROVE  BlocksAreHooks
  OBVIOUS
<1>1. heap = {} /\ \A h \in Hooks : hook[h] = Null
  BY DEF Init
<1>2. \A h \in Hooks : BlocksOf(h) = {}
  BY <1>1 DEF BlocksOf
<1> QED BY <1>1, <1>2, BlocksByHook

LEMMA BlocksStep ==
    ASSUME TypeInv, BlocksAreHooks, [Next]_vars
    PROVE  BlocksAreHooks'
<1>1. CASE \E h \in Hooks,
              fails \in SUBSET {"calloc", "malloc", "mprotect", "mmap"} :
              InstallNew(h, fails)
  BY <1>1, InstallKeepsBlocks
<1>2. CASE \E h \in Hooks : DestroyHook(h)
  BY <1>2, DestroyKeepsBlocks
<1>3. CASE Execute \/ Call \/ Crash \/ UNCHANGED vars
               \/ \E h \in Hooks : PluginCalls(h) \/ EnterHook(h)
  BY <1>3, CallsKeepHooks, CallsKeepBlocks
<1> QED BY <1>1, <1>2, <1>3 DEF Next

\* Whichever of the four calls of subhook_new fail, for whichever plugins, and
\* in whatever order plugins come and go: nothing is allocated that no hook
\* owns, and no hook lacks a block it will free (subhook_new, subhook_free).
THEOREM BlocksAlwaysHooks == Spec => []BlocksAreHooks
  BY TypeInvariant, BlocksInit, BlocksStep, PTL DEF Spec

-----------------------------------------------------------------------------
(* The code is restored                                                    *)

\* What is written, where, and what is left alone.
LEMMA WrittenIs ==
    ASSUME NEW m, NEW address \in Int, NEW S, NEW bytes \in Seq(S),
           NEW a \in Addresses
    PROVE  Written(m, address, bytes)[a] =
               IF a \in address .. address + Len(bytes) - 1
               THEN bytes[a - address + 1] ELSE m[a]
<1>1. Len(bytes) \in Nat /\ DOMAIN bytes = 1 .. Len(bytes)
  BY LenProperties
<1>2. a \in Int
  BY AddressesAreCells
<1>3. a - address + 1 \in 1 .. Len(bytes) <=>
          a \in address .. address + Len(bytes) - 1
  BY <1>1, <1>2
<1> QED BY <1>1, <1>3 DEF Written

\* Where the jumps are.
HeadOf(address) == address .. address + JmpSize - 1

LEMMA HeadIs ==
    ASSUME TypeOK
    PROVE  /\ HeadOf(src) \subseteq Addresses
           /\ src \in Int /\ JmpSize = 5
           /\ \A k \in 1 .. JmpSize : /\ src + k - 1 \in HeadOf(src)
                                      /\ (src + k - 1) % Word = src + k - 1
           /\ \A a \in HeadOf(src) : /\ a - src + 1 \in 1 .. JmpSize
                                     /\ src + (a - src + 1) - 1 = a
<1>1. src \in Int /\ JmpSize = 5 /\ src \in Srcs
  BY SrcIsAddress DEF TypeOK, JmpSize
<1>2. HeadOf(src) \subseteq Addresses
  BY <1>1, SubhookAssumption DEF SubhookAssumption, HeadOf
<1>3. \A k \in 1 .. JmpSize : src + k - 1 \in HeadOf(src)
  BY <1>1 DEF HeadOf
<1>4. \A a \in Addresses : a % Word = a
  BY SubhookAssumption DEF SubhookAssumption, Addresses
<1>5. \A a \in HeadOf(src) : /\ a - src + 1 \in 1 .. JmpSize
                             /\ src + (a - src + 1) - 1 = a
  BY <1>1 DEF HeadOf
<1> QED BY <1>1, <1>2, <1>3, <1>4, <1>5

\* No trampoline is where the function begins, nor where another one is.
LEMMA AreasApart ==
    ASSUME TypeOK, NEW h \in Hooks
    PROVE  /\ AreaOf(h) \subseteq Addresses
           /\ AreaOf(h) \cap HeadOf(src) = {}
           /\ \A g \in Hooks \ {h} : AreaOf(g) \cap AreaOf(h) = {}
           /\ \A a \in AreaOf(h) : MemoryWith(program, src)[a] = -1
<1>1. src \in Srcs /\ program \in Programs
  BY DEF TypeOK
<1> QED BY <1>1, MmapAssumption DEF MmapAssumption, HeadOf

\* The memory that no hook changes.
Kept ==
    {a \in Addresses \ HeadOf(src) :
        \A h \in Hooks : hook[h] # Null /\ hook[h].trampoline # Null =>
                             a \notin AreaOf(h)}

\* Elsewhere the memory is as it was.  The oldest hook has the code that was
\* there; when there is none, it is there again.
RestInv == \A a \in Kept : mem[a] = MemoryWith(program, src)[a]

HeadInv ==
    tidy =>
        /\ order = <<>> =>
              \A a \in HeadOf(src) : mem[a] = MemoryWith(program, src)[a]
        /\ order # <<>> =>
              \A k \in 1 .. JmpSize :
                 hook[order[1]].code[k] = MemoryWith(program, src)[src + k - 1]

CodeInv == RestInv /\ HeadInv

LEMMA CodeInit == Init => CodeInv
BY DEF Init, CodeInv, RestInv, HeadInv, Kept

LEMMA InstallKeepsRest ==
    ASSUME TypeInv, RestInv, NEW h \in Hooks, NEW fails, InstallNew(h, fails),
           TrampolinesFit'
    PROVE  RestInv'
<1> DEFINE new == New(h, fails)
<1>1. /\ hook[h] = Null
      /\ hook' = [hook EXCEPT ![h] = new.hook]
      /\ mem' = IF new.hook = Null THEN mem
                ELSE Written(new.mem, src, Jump(src, Dst(h)))
      /\ src' = src /\ program' = program
  BY DEF InstallNew
<1>2. \/ new.mem = mem
      \/ /\ new.hook # Null /\ new.hook.trampoline # Null
         /\ \E code \in Seq(Cells) :
               /\ new.hook.trampoline_len = Len(code)
               /\ new.mem = Written(mem, Area(h), code)
  <2>1. src \in Srcs /\ mem \in Memory
    BY DEF TypeInv, TypeOK, Memory
  <2> QED BY <2>1, NewIs
<1> HIDE DEF new
<1>3. \A g \in Hooks : hook'[g] = IF g = h THEN new.hook ELSE hook[g]
  BY <1>1 DEF TypeInv, TypeOK
<1>4. SUFFICES ASSUME NEW a \in Kept'
               PROVE  mem'[a] = MemoryWith(program, src)[a]
  BY <1>1 DEF RestInv
<1>5. a \in Addresses /\ a \notin HeadOf(src)
  BY <1>1 DEF Kept
<1>6. a \in Kept
  BY <1>1, <1>3, <1>5 DEF Kept
<1>7. mem[a] = MemoryWith(program, src)[a]
  BY <1>6 DEF RestInv
<1>8. new.mem[a] = mem[a]
  <2>1. CASE new.mem = mem
    BY <2>1
  <2>2. CASE new.mem # mem
    <3>1. new.hook # Null /\ new.hook.trampoline # Null
      BY <1>2, <2>2
    <3>2. PICK code \in Seq(Cells) : /\ new.hook.trampoline_len = Len(code)
                                     /\ new.mem = Written(mem, Area(h), code)
      BY <1>2, <2>2
    <3>3. a \notin AreaOf(h)
      BY <1>3, <3>1 DEF Kept
    <3>4. Len(code) <= TrampolineSize /\ Len(code) \in Nat
      <4>1. hook'[h].trampoline_len <= TrampolineSize
        BY <1>3, <3>1 DEF TrampolinesFit
      <4> QED BY <1>3, <3>2, <4>1, LenProperties
    <3>5. Area(h) \in Int /\ TrampolineSize \in Int
      BY PlaceIsAddress DEF TrampolineSize, JmpSize
    <3>6. a \notin Area(h) .. Area(h) + Len(code) - 1
      BY <3>3, <3>4, <3>5 DEF AreaOf
    <3> QED BY <1>5, <3>2, <3>5, <3>6, WrittenIs
  <2> QED BY <2>1, <2>2
<1>9. CASE new.hook = Null
  BY <1>1, <1>7, <1>9
<1>10. CASE new.hook # Null
  <2>1. /\ Jump(src, Dst(h)) \in Seq(Cells)
        /\ Len(Jump(src, Dst(h))) = JmpSize
        /\ src \in Int
    BY SrcIsAddress, PlaceIsAddress, JumpType DEF TypeInv, TypeOK
  <2>2. a \notin src .. src + Len(Jump(src, Dst(h))) - 1
    BY <1>5, <2>1 DEF HeadOf
  <2>3. mem' = Written(new.mem, src, Jump(src, Dst(h)))
    BY <1>1, <1>10
  <2>4. mem'[a] = new.mem[a]
    BY <1>5, <2>1, <2>2, <2>3, WrittenIs
  <2> QED BY <1>7, <1>8, <2>4
<1> QED BY <1>9, <1>10

\* The code goes back to where the jump was, and nowhere else.
LEMMA RestoredIs ==
    ASSUME TypeOK, NEW h \in Hooks, hook[h] # Null, NEW a \in Addresses
    PROVE  RestoreCode(mem, h)[a] =
               IF hook[h].installed /\ a \in HeadOf(src)
               THEN hook[h].code[a - src + 1] ELSE mem[a]
<1>1. hook[h] \in HookStruct
  BY DEF TypeOK
<1>2. hook[h].code \in Seq(Cells) /\ DOMAIN hook[h].code = 1 .. JmpSize
  BY <1>1, CodeOfHook
<1>3. Len(hook[h].code) = JmpSize
  <2>1. JmpSize \in Nat
    BY DEF JmpSize
  <2>2. DOMAIN hook[h].code = 1 .. Len(hook[h].code) /\ Len(hook[h].code) \in Nat
    BY <1>2, LenProperties
  <2> QED BY <1>2, <2>1, <2>2
<1>4. src \in Int
  BY SrcIsAddress DEF TypeOK
<1>5. Written(mem, src, hook[h].code)[a] =
          IF a \in HeadOf(src) THEN hook[h].code[a - src + 1] ELSE mem[a]
  BY <1>2, <1>3, <1>4, WrittenIs DEF HeadOf
<1> QED BY <1>5 DEF RestoreCode

LEMMA DestroyedIs ==
    ASSUME TypeOK, NEW h \in Hooks, DestroyHook(h), NEW a \in Addresses
    PROVE  mem'[a] = IF hook[h].trampoline # Null /\ a \in AreaOf(h) THEN -1
                     ELSE RestoreCode(mem, h)[a]
<1> DEFINE blank == [n \in 1 .. TrampolineSize |-> -1]
           m == RestoreCode(mem, h)
<1>1. mem' = IF hook[h].trampoline = Null THEN m ELSE Written(m, Area(h), blank)
  BY DEF DestroyHook
<1>2. TrampolineSize \in Nat
  BY DEF TrampolineSize, JmpSize
<1>3. blank \in Seq(Int) /\ Len(blank) = TrampolineSize
  BY <1>2
<1>4. \A n \in 1 .. TrampolineSize : blank[n] = -1
  OBVIOUS
<1> HIDE DEF blank, m
<1>5. Area(h) \in Int /\ a \in Int
  BY PlaceIsAddress, AddressesAreCells
<1>6. Written(m, Area(h), blank)[a] =
          IF a \in AreaOf(h) THEN blank[a - Area(h) + 1] ELSE m[a]
  BY <1>3, <1>5, WrittenIs DEF AreaOf
<1>7. a \in AreaOf(h) => a - Area(h) + 1 \in 1 .. TrampolineSize
  BY <1>2, <1>5 DEF AreaOf
<1> QED BY <1>1, <1>4, <1>6, <1>7 DEF m

LEMMA DestroyKeepsRest ==
    ASSUME TypeInv, RestInv, NEW h \in Hooks, DestroyHook(h)
    PROVE  RestInv'
<1> USE DEF TypeInv
<1>1. /\ hook[h] # Null
      /\ hook' = [hook EXCEPT ![h] = Null]
      /\ src' = src /\ program' = program
  BY DEF DestroyHook
<1>2. \A g \in Hooks : hook'[g] = IF g = h THEN Null ELSE hook[g]
  BY <1>1 DEF TypeOK
<1>3. SUFFICES ASSUME NEW a \in Kept'
               PROVE  mem'[a] = MemoryWith(program, src)[a]
  BY <1>1 DEF RestInv
<1>4. a \in Addresses /\ a \notin HeadOf(src)
  BY <1>1 DEF Kept
<1>5. CASE hook[h].trampoline # Null /\ a \in AreaOf(h)
  BY <1>4, <1>5, DestroyedIs, AreasApart
<1>6. CASE ~(hook[h].trampoline # Null /\ a \in AreaOf(h))
  <2>1. a \in Kept
    BY <1>1, <1>2, <1>4, <1>6 DEF Kept
  <2>2. mem'[a] = RestoreCode(mem, h)[a]
    BY <1>4, <1>6, DestroyedIs
  <2>3. RestoreCode(mem, h)[a] = mem[a]
    BY <1>1, <1>4, RestoredIs
  <2> QED BY <2>1, <2>2, <2>3 DEF RestInv
<1> QED BY <1>5, <1>6

\* A call writes jumps and code only where the jumps are, and only if there is a
\* hook.
LEMMA CallsWriteHead ==
    ASSUME TypeInv,
           Execute \/ Call \/ Crash \/ UNCHANGED vars
               \/ \E h \in Hooks : PluginCalls(h) \/ EnterHook(h)
    PROVE  /\ \A a \in Addresses : a \notin HeadOf(src) => mem'[a] = mem[a]
           /\ mem' # mem => \E h \in Hooks : hook[h] # Null
<1> USE DEF TypeInv
<1>1. CASE mem' = mem
  BY <1>1
<1>2. ASSUME NEW h \in Hooks, hook[h] # Null, mem' = RestoreCode(mem, h)
      PROVE  \A a \in Addresses : a \notin HeadOf(src) => mem'[a] = mem[a]
  BY <1>2, RestoredIs
<1>3. ASSUME Return
      PROVE  /\ \A a \in Addresses : a \notin HeadOf(src) => mem'[a] = mem[a]
             /\ mem' # mem => \E h \in Hooks : hook[h] # Null
  <2>1. CASE ToInstall = {}
    BY <1>3, <2>1 DEF Return, Reinstall
  <2>2. CASE ToInstall # {}
    <3>1. PICK n \in ToInstall : InstalledBy(n)
      BY <1>3, <2>2 DEF Return, Reinstall
    <3> DEFINE h == removed[n].hook
    <3>2. h \in Hooks /\ hook[h] # Null
      BY RemovedType DEF ToInstall, RemovedInv
    <3>3. mem' = Written(mem, src, Jump(src, Dst(h)))
      BY <3>1 DEF InstalledBy
    <3> HIDE DEF h
    <3>4. /\ Jump(src, Dst(h)) \in Seq(Cells)
          /\ Len(Jump(src, Dst(h))) = JmpSize
          /\ src \in Int
      BY <3>2, SrcIsAddress, PlaceIsAddress, JumpType DEF TypeOK
    <3>5. ASSUME NEW a \in Addresses, a \notin HeadOf(src)
          PROVE  mem'[a] = mem[a]
      BY <3>3, <3>4, <3>5, WrittenIs DEF HeadOf
    <3> QED BY <3>2, <3>5
  <2> QED BY <2>1, <2>2
<1>4. \/ mem' = mem
      \/ Return
      \/ \E h \in Hooks : hook[h] # Null /\ mem' = RestoreCode(mem, h)
  BY DEF Execute, Call, PluginCalls, CallAt, Crash, vars, EnterHook
<1> QED BY <1>1, <1>2, <1>3, <1>4

LEMMA CallsKeepCode ==
    ASSUME TypeInv, OrderInv, CodeInv,
           Execute \/ Call \/ Crash \/ UNCHANGED vars
               \/ \E h \in Hooks : PluginCalls(h) \/ EnterHook(h)
    PROVE  CodeInv'
<1>1. /\ SameHooks
      /\ src' = src /\ program' = program /\ order' = order /\ tidy' = tidy
  BY CallsKeepHooks
<1>2. /\ \A a \in Addresses : a \notin HeadOf(src) => mem'[a] = mem[a]
      /\ mem' # mem => \E h \in Hooks : hook[h] # Null
  BY CallsWriteHead
<1>3. Kept' = Kept
  BY <1>1 DEF SameHooks, Kept
<1>4. RestInv'
  <2>1. \A a \in Kept : a \in Addresses /\ a \notin HeadOf(src)
    BY DEF Kept
  <2> QED BY <1>1, <1>2, <1>3, <2>1 DEF CodeInv, RestInv
<1>5. HeadInv'
  <2>1. CASE order = <<>>
    <3>1. DOMAIN order = {}
      BY <2>1
    <3>2. mem' = mem
      BY <1>2, <3>1 DEF OrderInv
    <3> QED BY <1>1, <2>1, <3>2 DEF CodeInv, HeadInv
  <2>2. CASE order # <<>>
    <3>1. 1 \in DOMAIN order
      BY <2>2, OrderType, EmptySeq DEF TypeInv, TypeOK
    <3>2. order[1] \in Hooks
      BY <3>1, OrderType DEF TypeInv
    <3>3. hook[order[1]] # Null
      BY <3>1, <3>2 DEF OrderInv
    <3>4. hook'[order[1]].code = hook[order[1]].code
      BY <1>1, <3>2, <3>3 DEF SameHooks
    <3> QED BY <1>1, <2>2, <3>4 DEF CodeInv, HeadInv
  <2> QED BY <2>1, <2>2
<1> QED BY <1>4, <1>5 DEF CodeInv

LEMMA InstallKeepsHead ==
    ASSUME TypeInv, OrderInv, HeadInv, NEW h \in Hooks, NEW fails,
           InstallNew(h, fails)
    PROVE  HeadInv'
<1> DEFINE new == New(h, fails)
<1>1. /\ hook[h] = Null /\ tidy /\ tidy' = tidy
      /\ hook' = [hook EXCEPT ![h] = new.hook]
      /\ order' = IF new.hook = Null THEN order ELSE Append(order, h)
      /\ new.hook = Null => mem' = mem
      /\ src' = src /\ program' = program
  BY DEF InstallNew
<1>2. new.hook # Null => new.hook.code = CodeAt(mem, src, JmpSize)
  <2>1. src \in Srcs /\ mem \in Memory
    BY DEF TypeInv, TypeOK, Memory
  <2> QED BY <2>1, NewIs
<1> HIDE DEF new
<1>3. \A g \in Hooks : hook'[g] = IF g = h THEN new.hook ELSE hook[g]
  BY <1>1 DEF TypeInv, TypeOK
<1>4. order # <<>> => /\ 1 \in DOMAIN order /\ order[1] \in Hooks
                      /\ order[1] # h
  <2> SUFFICES ASSUME order # <<>>
               PROVE  /\ 1 \in DOMAIN order /\ order[1] \in Hooks
                      /\ order[1] # h
    OBVIOUS
  <2>1. 1 \in DOMAIN order
    BY OrderType, EmptySeq DEF TypeInv
  <2>2. order[1] \in Hooks
    BY <2>1, OrderType DEF TypeInv
  <2> QED BY <1>1, <2>1, <2>2 DEF OrderInv
<1>5. CASE new.hook = Null
  BY <1>1, <1>3, <1>4, <1>5 DEF HeadInv
<1>6. CASE new.hook # Null
  <2>1. /\ order' = Append(order, h)
        /\ order \in Seq(Hooks)
    BY <1>1, <1>6, OrderType DEF TypeInv
  <2>2. order' # <<>>
    BY <2>1
  <2>3. CASE order = <<>>
    <3>1. order'[1] = h
      BY <2>1, <2>3
    <3>2. ASSUME NEW k \in 1 .. JmpSize
          PROVE  new.hook.code[k] = MemoryWith(program, src)[src + k - 1]
      <4>1. /\ src + k - 1 \in HeadOf(src)
            /\ (src + k - 1) % Word = src + k - 1
        BY HeadIs DEF TypeInv
      <4>2. new.hook.code[k] = mem[src + k - 1]
        BY <1>2, <1>6, <4>1 DEF CodeAt
      <4> QED BY <1>1, <2>3, <4>1, <4>2 DEF HeadInv
    <3>3. hook'[order'[1]].code = new.hook.code
      BY <1>3, <3>1
    <3> QED BY <1>1, <2>2, <3>2, <3>3 DEF HeadInv
  <2>4. CASE order # <<>>
    <3>1. order'[1] = order[1]
      BY <1>4, <2>1, <2>4
    <3>2. hook'[order'[1]] = hook[order[1]]
      BY <1>3, <1>4, <2>4, <3>1
    <3> QED BY <1>1, <2>2, <2>4, <3>2 DEF HeadInv
  <2> QED BY <2>3, <2>4
<1> QED BY <1>5, <1>6

LEMMA DestroyKeepsHead ==
    ASSUME TypeInv, OrderInv, HeadInv, NEW h \in Hooks, DestroyHook(h)
    PROVE  HeadInv'
<1> DEFINE k == CHOOSE n \in DOMAIN order : order[n] = h
<1>1. /\ hook[h] # Null /\ pc = Null
      /\ hook' = [hook EXCEPT ![h] = Null]
      /\ order' = RemoveAt(order, k)
      /\ tidy' = (tidy /\ Last(order) = h)
      /\ src' = src /\ program' = program
  BY DEF DestroyHook
<1>2. k \in DOMAIN order /\ order[k] = h
  BY <1>1 DEF OrderInv
<1> HIDE DEF k
<1>3. \A g \in Hooks : hook'[g] = IF g = h THEN Null ELSE hook[g]
  BY <1>1 DEF TypeInv, TypeOK
<1>4. /\ DOMAIN order = 1 .. Len(order) /\ Len(order) \in Nat
      /\ DOMAIN order' = 1 .. Len(order) - 1
      /\ order' \in Seq(Hooks)
      /\ \A n \in 1 .. Len(order) - 1 :
            order'[n] = order[IF n < k THEN n ELSE n + 1]
  BY <1>1, <1>2, OrderType, RemovedAt DEF TypeInv
<1>5. SUFFICES ASSUME tidy'
               PROVE  HeadInv'
  BY DEF HeadInv
<1>6. tidy /\ order[Len(order)] = h
  BY <1>1, <1>5 DEF Last, TypeInv, TypeOK
<1>7. k = Len(order) /\ Len(order) >= 1
  BY <1>2, <1>4, <1>6 DEF OrderInv
<1>8. order # <<>>
  BY <1>7
<1>9. \A j \in 1 .. JmpSize :
          hook[order[1]].code[j] = MemoryWith(program, src)[src + j - 1]
  BY <1>6, <1>8 DEF HeadInv
<1>10. CASE Len(order) = 1
  <2>1. order' = <<>>
    BY <1>4, <1>10, EmptySeq
  <2>2. hook[h].installed
    BY <1>1 DEF TypeInv, RemovedInv, ToInstall
  <2>3. ASSUME NEW a \in HeadOf(src)
        PROVE  mem'[a] = MemoryWith(program, src)[a]
    <3>1. /\ a \in Addresses
          /\ a - src + 1 \in 1 .. JmpSize
          /\ src + (a - src + 1) - 1 = a
      BY HeadIs DEF TypeInv
    <3>2. a \notin AreaOf(h)
      BY AreasApart DEF TypeInv
    <3>3. mem'[a] = RestoreCode(mem, h)[a]
      BY <3>1, <3>2, DestroyedIs DEF TypeInv
    <3>4. RestoreCode(mem, h)[a] = hook[h].code[a - src + 1]
      BY <1>1, <2>2, <3>1, RestoredIs DEF TypeInv
    <3>5. order[1] = h
      BY <1>6, <1>10
    <3>6. hook[h].code[a - src + 1]
              = MemoryWith(program, src)[src + (a - src + 1) - 1]
      BY <1>9, <3>1, <3>5
    <3> QED BY <3>1, <3>3, <3>4, <3>6
  <2> QED BY <1>1, <2>1, <2>3 DEF HeadInv
<1>11. CASE Len(order) > 1
  <2>1. 1 \in DOMAIN order' /\ order'[1] = order[1]
    BY <1>4, <1>7, <1>11
  <2>2. order[1] # h /\ order[1] \in Hooks
    <3>1. 1 \in DOMAIN order /\ 1 # k
      BY <1>4, <1>7, <1>11
    <3> QED BY <1>2, <3>1, OrderType DEF OrderInv, TypeInv
  <2>3. hook'[order'[1]] = hook[order[1]]
    BY <1>3, <2>1, <2>2
  <2>4. order' # <<>>
    BY <2>1
  <2> QED BY <1>1, <1>9, <2>3, <2>4 DEF HeadInv
<1> QED BY <1>4, <1>7, <1>10, <1>11

LEMMA CodeStep ==
    ASSUME TypeInv, OrderInv, CodeInv, TrampolinesFit', [Next]_vars
    PROVE  CodeInv'
<1>1. CASE \E h \in Hooks,
              fails \in SUBSET {"calloc", "malloc", "mprotect", "mmap"} :
              InstallNew(h, fails)
  BY <1>1, InstallKeepsRest, InstallKeepsHead DEF CodeInv
<1>2. CASE \E h \in Hooks : DestroyHook(h)
  BY <1>2, DestroyKeepsRest, DestroyKeepsHead DEF CodeInv
<1>3. CASE Execute \/ Call \/ Crash \/ UNCHANGED vars
               \/ \E h \in Hooks : PluginCalls(h) \/ EnterHook(h)
  BY <1>3, CallsKeepCode
<1> QED BY <1>1, <1>2, <1>3 DEF Next

LEMMA CodeImplies ==
    ASSUME TypeInv, OrderInv, CodeInv
    PROVE  CodeIsRestored
<1> SUFFICES ASSUME order = <<>>, tidy
             PROVE  mem = MemoryWith(program, src)
  BY DEF CodeIsRestored
<1>1. \A h \in Hooks : hook[h] = Null
  <2>1. DOMAIN order = {}
    OBVIOUS
  <2> QED BY <2>1 DEF OrderInv
<1>2. ASSUME NEW a \in Addresses
      PROVE  mem[a] = MemoryWith(program, src)[a]
  <2>1. CASE a \in HeadOf(src)
    BY <2>1 DEF CodeInv, HeadInv
  <2>2. CASE a \notin HeadOf(src)
    <3>1. a \in Kept
      BY <1>1, <2>2 DEF Kept
    <3> QED BY <3>1 DEF CodeInv, RestInv
  <2> QED BY <2>1, <2>2
<1>3. mem \in [Addresses -> Cells]
  BY DEF TypeInv, TypeOK
<1>4. MemoryWith(program, src) \in [Addresses -> Cells]
  BY MemoryType DEF TypeInv, TypeOK, Memory
<1> QED BY <1>2, <1>3, <1>4

\* However many plugins hooked the function, whatever was called meanwhile, by
\* whom and through which hooks, and whatever failed: when the last one to come
\* was always the first to go, the function is byte for byte what it was, and
\* nothing is left of the trampolines.  A trampoline longer than its block would
\* stay in part, hence the hypothesis (Hook::~Hook, ~ScopedHookRemove).
THEOREM CodeAlwaysRestored == Spec /\ []TrampolinesFit => []CodeIsRestored
<1>1. TypeInv /\ OrderInv /\ CodeInv /\ TrampolinesFit' /\ [Next]_vars => CodeInv'
  BY CodeStep
<1>2. TypeInv /\ OrderInv /\ CodeInv => CodeIsRestored
  BY CodeImplies
<1> QED BY <1>1, <1>2, TypeInvariant, CodeInit, PTL DEF Spec

-----------------------------------------------------------------------------
(* Calls run the original                                                  *)

\* A remainder is the only number below Word that differs by a multiple of Word.
LEMMA RemainderIs ==
    ASSUME NEW x \in Int, NEW q \in Int, NEW r \in Addresses, x = q * Word + r
    PROVE  x % Word = r
<1>1. Word \in Nat \ {0} /\ r \in 0 .. Word - 1
  BY SubhookAssumption DEF SubhookAssumption, Addresses
<1> QED BY <1>1

LEMMA RemainderDiffers ==
    ASSUME NEW x \in Int
    PROVE  \E q \in Int : x = q * Word + (x % Word)
<1>1. Word \in Nat \ {0}
  BY SubhookAssumption DEF SubhookAssumption
<1>2. x = (x \div Word) * Word + (x % Word) /\ x \div Word \in Int
  BY <1>1
<1> QED BY <1>2

LEMMA RemainderOfAddress ==
    ASSUME NEW a \in Addresses
    PROVE  a % Word = a /\ a \in Int
BY SubhookAssumption DEF SubhookAssumption, Addresses

\* An operand that is moved twice.
LEMMA RemainderMoves ==
    ASSUME NEW x \in Int, NEW d \in Int
    PROVE  ((x % Word) + d) % Word = (x + d) % Word
<1>0. Word \in Nat \ {0}
  BY SubhookAssumption DEF SubhookAssumption
<1>1. PICK q \in Int : x = q * Word + (x % Word)
  BY RemainderDiffers
<1>2. x + d \in Int /\ x % Word \in Int
  BY <1>0
<1>3. PICK p \in Int : x + d = p * Word + ((x + d) % Word)
  BY <1>2, RemainderDiffers
<1>4. (x + d) % Word \in Addresses
  BY <1>2, Wrapped
<1> DEFINE r == (x + d) % Word
           y == x % Word
<1>5. y + d = (p - q) * Word + r
  <2>1. y = x - q * Word /\ x + d = p * Word + r /\ y \in Int /\ r \in Int
    BY <1>0, <1>1, <1>2, <1>3
  <2> HIDE DEF r, y
  <2>2. q * Word \in Int /\ p * Word \in Int /\ (p - q) * Word = p * Word - q * Word
    BY <1>0
  <2> QED BY <2>1, <2>2
<1>6. y + d \in Int /\ p - q \in Int /\ r \in Addresses
  BY <1>2, <1>4
<1> HIDE DEF r, y
<1>7. (y + d) % Word = r
  BY <1>5, <1>6, RemainderIs
<1> QED BY <1>7 DEF r, y

-----------------------------------------------------------------------------
\* Instructions one after the other.
StepSet == [insn : Insns, target : Addresses \cup {Null}]

IsCode(q) ==
    /\ q \in Seq(StepSet)
    /\ \A n \in 1 .. Len(q) :
          q[n].insn.operand # 0 => q[n].target \in Addresses

\* Where one of them begins.
Offset(q, n) == Size(SubSeq(q, 1, n - 1))

LEMMA StepOf ==
    ASSUME NEW q, IsCode(q), NEW n \in 1 .. Len(q)
    PROVE  /\ q[n] \in StepSet
           /\ q[n].insn \in Insns
           /\ q[n].insn.operand # 0 => q[n].target \in Addresses
           /\ q[n].insn.bytes \in Seq(0 .. 255)
           /\ Len(q[n].insn.bytes) \in 1 .. 15
           /\ DOMAIN q[n].insn.bytes = 1 .. Len(q[n].insn.bytes)
           /\ q[n].insn.operand \in Nat
<1>1. q[n] \in StepSet
  BY ElementOfSeq DEF IsCode
<1>2. q[n].insn \in Insns
  BY <1>1 DEF StepSet
<1> QED BY <1>1, <1>2, InsnType DEF IsCode

LEMMA ProgramIsCode ==
    ASSUME NEW p \in Programs
    PROVE  /\ IsCode(p) /\ Len(p) \in Nat /\ DOMAIN p = 1 .. Len(p)
<1>1. p \in Seq(StepSet)
  BY SubhookAssumption DEF SubhookAssumption, StepSet
<1>2. Len(p) \in Nat /\ DOMAIN p = 1 .. Len(p)
  BY <1>1
<1>3. \A n \in 1 .. Len(p) : p[n].insn.operand # 0 => p[n].target \in Addresses
  BY <1>2, ProgramType
<1> QED BY <1>1, <1>2, <1>3 DEF IsCode

LEMMA OffsetIs ==
    ASSUME NEW q, IsCode(q)
    PROVE  /\ Len(q) \in Nat
           /\ \A n \in 1 .. Len(q) + 1 : Offset(q, n) \in Nat
           /\ Offset(q, 1) = 0
           /\ Offset(q, Len(q) + 1) = Size(q)
           /\ \A n \in 1 .. Len(q) :
                 Offset(q, n + 1) = Offset(q, n) + Len(q[n].insn.bytes)
           /\ \A m, n \in 1 .. Len(q) + 1 : m <= n => Offset(q, m) <= Offset(q, n)
<1> DEFINE places(n) == UNION {{k} \X DOMAIN q[k].insn.bytes : k \in 1 .. n - 1}
<1>0. q \in Seq(StepSet) /\ Len(q) \in Nat
  BY DEF IsCode
<1>1. \A n \in 1 .. Len(q) + 1 : Offset(q, n) = Cardinality(places(n))
  <2> SUFFICES ASSUME NEW n \in 1 .. Len(q) + 1
               PROVE  Offset(q, n) = Cardinality(places(n))
    OBVIOUS
  <2> DEFINE steps == SubSeq(q, 1, n - 1)
  <2>1. DOMAIN steps = 1 .. n - 1 /\ \A k \in 1 .. n - 1 : steps[k] = q[k]
    BY <1>0
  <2>2. Offset(q, n) = Cardinality(UNION {{k} \X DOMAIN steps[k].insn.bytes :
                                             k \in DOMAIN steps})
    BY DEF Offset, Size
  <2> HIDE DEF steps
  <2>3. UNION {{k} \X DOMAIN steps[k].insn.bytes : k \in DOMAIN steps} = places(n)
    BY <2>1
  <2> QED BY <2>2, <2>3
<1>2. \A k \in 1 .. Len(q) : /\ DOMAIN q[k].insn.bytes = 1 .. Len(q[k].insn.bytes)
                             /\ Len(q[k].insn.bytes) \in 1 .. 15
  BY StepOf
<1>3. \A n \in 1 .. Len(q) + 1 : /\ IsFiniteSet(places(n))
                                 /\ Cardinality(places(n)) \in Nat
  <2> SUFFICES ASSUME NEW n \in 1 .. Len(q) + 1
               PROVE  IsFiniteSet(places(n))
    BY FS_CardinalityType
  <2>1. places(n) \subseteq (1 .. Len(q)) \X (1 .. 15)
    <3>1. \A k \in 1 .. n - 1 : k \in 1 .. Len(q)
      BY <1>0
    <3>2. \A l \in 1 .. 15 : 1 .. l \subseteq 1 .. 15
      OBVIOUS
    <3>3. \A k \in 1 .. n - 1 : DOMAIN q[k].insn.bytes \subseteq 1 .. 15
      BY <1>2, <3>1, <3>2
    <3> QED BY <3>1, <3>3
  <2>2. IsFiniteSet(1 .. Len(q)) /\ IsFiniteSet(1 .. 15)
    <3>1. 1 \in Int /\ 15 \in Int /\ Len(q) \in Int
      BY <1>0
    <3> QED BY <3>1, FS_Interval
  <2> QED BY <2>1, <2>2, FS_Product, FS_Subset
<1>4. Offset(q, 1) = 0
  <2>1. places(1) = {}
    OBVIOUS
  <2> QED BY <1>0, <1>1, <2>1, FS_EmptySet
<1>5. ASSUME NEW n \in 1 .. Len(q)
      PROVE  Offset(q, n + 1) = Offset(q, n) + Len(q[n].insn.bytes)
  <2> DEFINE last == {n} \X (1 .. Len(q[n].insn.bytes))
  <2>1. places(n + 1) = places(n) \cup last
    <3>1. 1 .. (n + 1) - 1 = (1 .. n - 1) \cup {n}
      BY <1>0
    <3>2. last = {n} \X DOMAIN q[n].insn.bytes
      BY <1>2
    <3> QED BY <3>1, <3>2
  <2>2. places(n) \cap last = {}
    <3>1. n \notin 1 .. n - 1
      BY <1>0
    <3> QED BY <3>1
  <2>3. IsFiniteSet(last) /\ Cardinality(last) = Len(q[n].insn.bytes)
    <3>1. Len(q[n].insn.bytes) \in 1 .. 15
      BY <1>2
    <3>2. /\ IsFiniteSet(1 .. Len(q[n].insn.bytes))
          /\ Cardinality(1 .. Len(q[n].insn.bytes)) = Len(q[n].insn.bytes)
      <4>1. \A l \in 1 .. 15 : /\ 1 \in Int /\ l \in Int /\ ~(1 > l)
                               /\ l - 1 + 1 = l
        OBVIOUS
      <4> QED BY <3>1, <4>1, FS_Interval
    <3>3. IsFiniteSet({n}) /\ Cardinality({n}) = 1
      BY FS_Singleton
    <3> DEFINE T == 1 .. Len(q[n].insn.bytes)
    <3>4. IsFiniteSet(T)
      BY <3>2
    <3>5. last = {n} \X T
      OBVIOUS
    <3> HIDE DEF T, last
    <3>6. IsFiniteSet(last) /\ Cardinality(last) = 1 * Cardinality(T)
      BY <3>3, <3>4, <3>5, FS_Product
    <3>7. Cardinality(T) = Len(q[n].insn.bytes)
      BY <3>2 DEF T
    <3> QED BY <3>1, <3>6, <3>7
  <2>4. n \in 1 .. Len(q) + 1 /\ n + 1 \in 1 .. Len(q) + 1
    BY <1>0
  <2> HIDE DEF places, last
  <2>5. Cardinality(places(n) \cup last)
            = Cardinality(places(n)) + Cardinality(last) - Cardinality(places(n) \cap last)
    BY <1>3, <2>3, <2>4, FS_Union
  <2>6. Cardinality(places(n) \cap last) = 0
    BY <2>2, FS_EmptySet
  <2>7. Cardinality(last) \in Nat
    BY <2>3, FS_CardinalityType
  <2>8. Cardinality(places(n)) \in Nat
    BY <1>3, <2>4
  <2>9. Cardinality(places(n + 1)) = Cardinality(places(n)) + Cardinality(last)
    <3> DEFINE old == places(n)
               new == places(n + 1)
    <3>1. /\ new = old \cup last
          /\ Cardinality(old \cup last)
                 = Cardinality(old) + Cardinality(last) - Cardinality(old \cap last)
          /\ Cardinality(old \cap last) = 0
          /\ Cardinality(last) \in Nat /\ Cardinality(old) \in Nat
      BY <2>1, <2>5, <2>6, <2>7, <2>8
    <3> HIDE DEF old, new
    <3>2. Cardinality(new) = Cardinality(old) + Cardinality(last)
      BY <3>1
    <3> QED BY <3>2 DEF old, new
  <2> QED BY <1>1, <2>3, <2>4, <2>9
<1>6. ASSUME NEW m \in 1 .. Len(q) + 1, NEW n \in 1 .. Len(q) + 1, m <= n
      PROVE  Offset(q, m) <= Offset(q, n)
  <2>1. places(m) \subseteq places(n)
    <3>1. 1 .. m - 1 \subseteq 1 .. n - 1
      BY <1>0, <1>6
    <3> QED BY <3>1
  <2> QED BY <1>1, <1>3, <2>1, FS_Subset
<1>7. Offset(q, Len(q) + 1) = Size(q)
  <2>1. (Len(q) + 1) - 1 = Len(q)
    BY <1>0
  <2>2. SubSeq(q, 1, Len(q)) = q
    BY <1>0
  <2> QED BY <2>1, <2>2 DEF Offset
<1> QED BY <1>0, <1>1, <1>3, <1>4, <1>5, <1>6, <1>7

-----------------------------------------------------------------------------
\* An instruction in the memory.
InsnAt(m, a, step) ==
    /\ a \in Addresses /\ a + Len(step.insn.bytes) - 1 \in Addresses
    /\ \A j \in 1 .. Len(step.insn.bytes) : m[a + j - 1] = Encode(step, a)[j]

IsStep(step) ==
    step \in StepSet /\ (step.insn.operand # 0 => step.target \in Addresses)

LEMMA StepIs ==
    ASSUME NEW step, IsStep(step)
    PROVE  LET i == step.insn
           IN  /\ i \in Insns /\ i.operand \in Nat
               /\ i.bytes \in Seq(0 .. 255)
               /\ Len(i.bytes) \in 1 .. 15
               /\ DOMAIN i.bytes = 1 .. Len(i.bytes)
               /\ \A n \in 1 .. Len(i.bytes) : i.bytes[n] \in 0 .. 255
               /\ i.operand # 0 => /\ i.operand + 1 \in 1 .. Len(i.bytes)
                                   /\ step.target \in Addresses
<1> DEFINE i == step.insn
<1>1. i \in Insns
  BY DEF IsStep, StepSet
<1>2. /\ i.bytes \in Seq(0 .. 255) /\ i.operand \in Nat
      /\ Len(i.bytes) \in 1 .. 15
      /\ DOMAIN i.bytes = 1 .. Len(i.bytes)
  BY <1>1, InsnType
<1>3. \A n \in 1 .. Len(i.bytes) : i.bytes[n] \in 0 .. 255
  BY <1>2, ElementOfSeq
<1>4. i.operand # 0 => i.operand + 1 \in 1 .. Len(i.bytes)
  <2> SUFFICES ASSUME i.operand # 0
               PROVE  i.operand + 1 \in DOMAIN i.bytes
    BY <1>2
  <2>1. i.operand + 1 \in OperandOf(i)
    BY <1>2 DEF OperandOf
  <2> QED BY <1>1, <2>1, ProcessorAssumption DEF ProcessorAssumption
<1> QED BY <1>1, <1>2, <1>3, <1>4 DEF IsStep

LEMMA CodeSteps ==
    ASSUME NEW q, IsCode(q), NEW n \in 1 .. Len(q)
    PROVE  IsStep(q[n])
BY StepOf DEF IsStep

\* The bytes of an instruction wherever it is.
LEMMA EncodeIs ==
    ASSUME NEW step, IsStep(step), NEW a, NEW j \in 1 .. Len(step.insn.bytes)
    PROVE  /\ Encode(step, a)[j] =
                 IF step.insn.operand # 0 /\ j = step.insn.operand + 1
                 THEN (step.target - (a + Len(step.insn.bytes))) % Word
                 ELSE step.insn.bytes[j]
           /\ DOMAIN Encode(step, a) = 1 .. Len(step.insn.bytes)
BY StepIs DEF Encode

\* The processor finds the instruction that is there, and its target.
LEMMA DecodeIs ==
    ASSUME NEW step, IsStep(step), InsnAt(mem, pc, step)
    PROVE  /\ Decode(pc) = {step.insn}
           /\ step.insn.operand # 0 => Target(step.insn) = step.target
<1> DEFINE i == step.insn
           l == Len(i.bytes)
<1>1. /\ i \in Insns /\ i.operand \in Nat /\ l \in 1 .. 15
      /\ DOMAIN i.bytes = 1 .. l
      /\ i.operand # 0 => i.operand + 1 \in 1 .. l /\ step.target \in Addresses
  BY StepIs
<1>2. pc \in Addresses /\ pc \in Int /\ pc + l - 1 \in Addresses
  BY RemainderOfAddress DEF InsnAt
<1>3. ASSUME NEW n \in 1 .. l
      PROVE  /\ (pc + n - 1) % Word = pc + n - 1
             /\ mem[(pc + n - 1) % Word] = Encode(step, pc)[n]
  <2>1. pc + n - 1 \in Addresses
    BY <1>1, <1>2, SubhookAssumption DEF SubhookAssumption, Addresses
  <2>2. (pc + n - 1) % Word = pc + n - 1
    BY <2>1, RemainderOfAddress
  <2> QED BY <2>2 DEF InsnAt
<1>4. i \in Decode(pc)
  <2> SUFFICES ASSUME NEW n \in 1 .. l, n \notin OperandOf(i)
               PROVE  mem[(pc + n - 1) % Word] = i.bytes[n]
    BY <1>1 DEF Decode
  <2>1. ~(i.operand # 0 /\ n = i.operand + 1)
    BY <1>1 DEF OperandOf
  <2> QED BY <1>3, <2>1, EncodeIs
<1>5. ASSUME NEW k \in Decode(pc)
      PROVE  k = i
  <2> SUFFICES ASSUME k # i
               PROVE  FALSE
    OBVIOUS
  <2>1. k \in Insns
    BY DEF Decode
  <2>2. PICK n \in (DOMAIN i.bytes \cap DOMAIN k.bytes)
                      \ (OperandOf(i) \cup OperandOf(k)) : i.bytes[n] # k.bytes[n]
    BY <1>1, <2>1, ProcessorAssumption DEF ProcessorAssumption
  <2>3. mem[(pc + n - 1) % Word] = k.bytes[n]
    BY <2>2 DEF Decode
  <2>4. mem[(pc + n - 1) % Word] = i.bytes[n]
    BY <1>4, <2>2 DEF Decode
  <2> QED BY <2>2, <2>3, <2>4
<1>6. ASSUME i.operand # 0
      PROVE  Target(i) = step.target
  <2> DEFINE x == step.target - (pc + l)
  <2>1. i.operand + 1 \in 1 .. l /\ step.target \in Addresses
    BY <1>1, <1>6
  <2>2. /\ (pc + (i.operand + 1) - 1) % Word = pc + (i.operand + 1) - 1
        /\ mem[(pc + (i.operand + 1) - 1) % Word] = Encode(step, pc)[i.operand + 1]
    BY <1>3, <2>1
  <2>3. Encode(step, pc)[i.operand + 1] = x % Word
    BY <1>6, <2>1, EncodeIs
  <2>4. pc + (i.operand + 1) - 1 = pc + i.operand
    BY <1>1, <1>2
  <2>5. mem[(pc + i.operand) % Word] = x % Word
    BY <2>2, <2>3, <2>4
  <2>6. step.target \in Int /\ x \in Int /\ x % Word \in Int
    <3>1. step.target \in Int
      BY <2>1, RemainderOfAddress
    <3>2. x \in Int
      BY <1>1, <1>2, <3>1
    <3>3. x % Word \in Addresses
      BY <3>2, Wrapped
    <3> QED BY <3>1, <3>2, <3>3, RemainderOfAddress
  <2>7. pc + l + (x % Word) = (x % Word) + (pc + l) /\ x + (pc + l) = step.target
    BY <1>1, <1>2, <2>6
  <2>8. ((x % Word) + (pc + l)) % Word = (x + (pc + l)) % Word
    <3>1. pc + l \in Int
      BY <1>1, <1>2
    <3> QED BY <2>6, <3>1, RemainderMoves
  <2> QED BY <2>1, <2>5, <2>7, <2>8, RemainderOfAddress DEF Target
<1> QED BY <1>4, <1>5, <1>6

-----------------------------------------------------------------------------
\* What the disassembler makes of code that begins with an instruction.
LEMMA PrefixesAre ==
    ASSUME NEW code, NEW n \in 0 .. 11,
           \A k \in 1 .. n : IsNextPrefix(code, k),
           ~IsNextPrefix(code, n + 1)
    PROVE  PrefixCount(code) = n
<1> DEFINE counted == {m \in DOMAIN PrefixBytes :
                          \A k \in 1 .. m : IsNextPrefix(code, k)}
<1>1. DOMAIN PrefixBytes = 1 .. 11
  BY DEF PrefixBytes
<1>2. counted = 1 .. n
  <2>1. ASSUME NEW m \in 1 .. n
        PROVE  m \in counted
    BY <1>1, <2>1
  <2>2. ASSUME NEW m \in counted
        PROVE  m \in 1 .. n
    <3> SUFFICES ASSUME m > n
                 PROVE  FALSE
      BY <1>1
    <3>1. n + 1 \in 1 .. m
      BY <1>1
    <3> QED BY <3>1
  <2> QED BY <2>1, <2>2
<1>3. Cardinality(1 .. n) = n
  <2>1. 1 \in Int /\ n \in Int
    OBVIOUS
  <2>2. Cardinality(1 .. n) = IF 1 > n THEN 0 ELSE n - 1 + 1
    BY <2>1, FS_Interval
  <2> QED BY <2>2
<1> QED BY <1>2, <1>3 DEF PrefixCount

LEMMA SameOperandSize ==
    ASSUME NEW c, NEW d, NEW n, \A k \in 1 .. n : c[k] = d[k]
    PROVE  OperandSize(c, n) = OperandSize(d, n)
BY DEF OperandSize

LEMMA Below ==
    \A l \in 1 .. 15 : \A n \in 0 .. l - 1 : n <= 11 =>
        n \in 0 .. 11 /\ n + 1 \in 1 .. 24 /\ n + 2 \in 1 .. 24 /\ n + 3 \in 1 .. 24
OBVIOUS

LEMMA DisassembledIs ==
    ASSUME NEW i \in Insns, Agrees(i), NEW code,
           \A k \in 1 .. 24 : code[k] \in ByteOf(i, k)
    PROVE  LET insn == Disassemble(code)
           IN  insn.length # 0 => /\ insn.length = Len(i.bytes)
                                  /\ insn.reloc = i.operand
<1> DEFINE agrees(n) ==
        /\ n <= Len(PrefixBytes)
        /\ (1 .. n + 1) \cap OperandOf(i) = {}
        /\ \A k \in 1 .. n : IsNextPrefix(i.bytes, k)
        /\ ~IsNextPrefix(i.bytes, n + 1)
        /\ \A next \in ByteOf(i, n + 2) :
              LET known == Known(i.bytes[n + 1], next)
                  flags == CHOOSE f \in known : TRUE
              IN  known # {} =>
                      /\ i.operand = IF RELOC \in flags THEN n + 1 ELSE 0
                      /\ \A sib \in IF MODRM \in flags THEN ByteOf(i, n + 3)
                                   ELSE {0} :
                            Len(i.bytes) = LengthOf(flags, n,
                                              OperandSize(i.bytes, n), next, sib)
<1>1. PICK n \in 0 .. Len(i.bytes) - 1 : agrees(n)
  BY DEF Agrees
<1>2. Len(i.bytes) \in 1 .. 15 /\ DOMAIN i.bytes = 1 .. Len(i.bytes)
  BY InsnType
<1>0. /\ n \in 0 .. Len(i.bytes) - 1 /\ n <= Len(PrefixBytes)
      /\ (1 .. n + 1) \cap OperandOf(i) = {}
  BY <1>1
<1>3. n \in 0 .. 11 /\ n + 1 \in 1 .. 24 /\ n + 2 \in 1 .. 24 /\ n + 3 \in 1 .. 24
  <2>1. Len(PrefixBytes) = 11
    BY DEF PrefixBytes
  <2> DEFINE l == Len(i.bytes)
  <2>2. l \in 1 .. 15 /\ n \in 0 .. l - 1 /\ n <= 11
    BY <1>0, <1>2, <2>1
  <2> HIDE DEF l
  <2> QED BY <2>2, Below, Zenon
<1>4. \A k \in 1 .. n + 1 : code[k] = i.bytes[k]
  <2> SUFFICES ASSUME NEW k \in 1 .. n + 1
               PROVE  code[k] = i.bytes[k]
    OBVIOUS
  <2>1. k \in DOMAIN i.bytes \ OperandOf(i) /\ k \in 1 .. 24
    <3>1. k \in 1 .. Len(i.bytes) /\ k \in 1 .. 24
      <4> DEFINE l == Len(i.bytes)
      <4>1. l \in 1 .. 15 /\ n \in 0 .. l - 1 /\ n \in 0 .. 11
        BY <1>0, <1>2, <1>3
      <4> HIDE DEF l
      <4>2. k \in 1 .. l /\ k \in 1 .. 24
        BY <4>1
      <4> QED BY <4>2 DEF l
    <3>2. k \notin OperandOf(i)
      BY <1>0
    <3> QED BY <1>2, <3>1, <3>2
  <2> QED BY <2>1 DEF ByteOf
<1>5. \A k \in 1 .. n + 1 : IsNextPrefix(code, k) <=> IsNextPrefix(i.bytes, k)
  <2> SUFFICES ASSUME NEW k \in 1 .. n + 1
               PROVE  IsNextPrefix(code, k) <=> IsNextPrefix(i.bytes, k)
    OBVIOUS
  <2>1. \A j \in 1 .. k - 1 : j \in 1 .. n + 1
    BY <1>3
  <2> QED BY <1>4, <2>1 DEF IsNextPrefix
<1>6. PrefixCount(code) = n
  <2>1. n + 1 \in 1 .. n + 1 /\ \A k \in 1 .. n : k \in 1 .. n + 1
    BY <1>3
  <2> QED BY <1>1, <1>3, <1>5, <2>1, PrefixesAre
<1>7. code[n + 1] = i.bytes[n + 1]
  <2>1. n + 1 \in 1 .. n + 1
    BY <1>3
  <2> QED BY <1>4, <2>1
<1>8. OperandSize(code, n) = OperandSize(i.bytes, n)
  <2>1. \A k \in 1 .. n : code[k] = i.bytes[k]
    BY <1>3, <1>4
  <2> QED BY <2>1, SameOperandSize
<1> DEFINE known == Known(i.bytes[n + 1], code[n + 2])
           flags == CHOOSE f \in known : TRUE
           length == LengthOf(flags, n, OperandSize(i.bytes, n), code[n + 2], code[n + 3])
<1>9. code[n + 2] \in ByteOf(i, n + 2) /\ code[n + 3] \in ByteOf(i, n + 3)
  BY <1>3
<1>10. Disassemble(code) =
           IF known = {} THEN [length |-> 0, reloc |-> 0]
           ELSE [length |-> length, reloc |-> IF RELOC \in flags THEN n + 1 ELSE 0]
  BY <1>6, <1>7, <1>8 DEF Disassemble
<1>11. CASE known = {}
  BY <1>10, <1>11
<1>12. CASE known # {}
  <2>1. /\ i.operand = IF RELOC \in flags THEN n + 1 ELSE 0
        /\ \A sib \in IF MODRM \in flags THEN ByteOf(i, n + 3) ELSE {0} :
              Len(i.bytes) = LengthOf(flags, n, OperandSize(i.bytes, n),
                                      code[n + 2], sib)
    BY <1>1, <1>9, <1>12
  <2> HIDE DEF known, flags
  <2>2. Len(i.bytes) = length
    <3>1. CASE MODRM \in flags
      BY <1>9, <2>1, <3>1
    <3>2. CASE MODRM \notin flags
      <4>1. 0 \in IF MODRM \in flags THEN ByteOf(i, n + 3) ELSE {0}
        BY <3>2
      <4>2. Len(i.bytes) = LengthOf(flags, n, OperandSize(i.bytes, n), code[n + 2], 0)
        BY <2>1, <4>1
      <4> QED BY <3>2, <4>2 DEF LengthOf
    <3> QED BY <3>1, <3>2
  <2> HIDE DEF length
  <2>3. Disassemble(code) = [length |-> length, reloc |-> i.operand]
    BY <1>10, <1>12, <2>1
  <2> QED BY <2>2, <2>3
<1> QED BY <1>11, <1>12

\* What it reads of an instruction in the memory.
LEMMA CodeAtIs ==
    ASSUME NEW m \in Memory, NEW a, NEW step, IsStep(step), InsnAt(m, a, step)
    PROVE  \A k \in 1 .. 24 : CodeAt(m, a, 24)[k] \in ByteOf(step.insn, k)
<1> DEFINE i == step.insn
           l == Len(i.bytes)
<1>1. l \in 1 .. 15 /\ DOMAIN i.bytes = 1 .. l /\ i.operand \in Nat
  BY StepIs
<1>2. a \in Addresses /\ a \in Int /\ a + l - 1 \in Addresses
  BY RemainderOfAddress DEF InsnAt
<1>3. SUFFICES ASSUME NEW k \in 1 .. 24
               PROVE  CodeAt(m, a, 24)[k] \in ByteOf(i, k)
  OBVIOUS
<1>4. CodeAt(m, a, 24)[k] = m[(a + k - 1) % Word]
  BY DEF CodeAt
<1>5. (a + k - 1) % Word \in Addresses
  BY <1>2, Wrapped
<1>6. CASE k \in DOMAIN i.bytes \ OperandOf(i)
  <2>1. k \in 1 .. l /\ ~(i.operand # 0 /\ k = i.operand + 1)
    BY <1>1, <1>6 DEF OperandOf
  <2>2. a + k - 1 \in Addresses
    BY <1>1, <1>2, <2>1, SubhookAssumption DEF SubhookAssumption, Addresses
  <2>3. (a + k - 1) % Word = a + k - 1
    BY <2>2, RemainderOfAddress
  <2>4. m[a + k - 1] = i.bytes[k]
    BY <2>1, EncodeIs DEF InsnAt
  <2> QED BY <1>4, <1>6, <2>3, <2>4 DEF ByteOf
<1>7. CASE k \notin DOMAIN i.bytes \ OperandOf(i)
  BY <1>4, <1>5, <1>7 DEF ByteOf, Memory
<1> QED BY <1>6, <1>7

-----------------------------------------------------------------------------
\* The jump of a hook, as an instruction and as a function of one instruction.
JumpStep(to) == Step(Insn("jmp", <<JMP_OPCODE, 0, 0, 0, 0>>, 1), to)
JumpCode(g) == <<JumpStep(Dst(g))>>

LEMMA JumpIs ==
    ASSUME NEW to \in Addresses
    PROVE  /\ IsStep(JumpStep(to))
           /\ JumpStep(to).insn.kind = "jmp" /\ JumpStep(to).insn.operand = 1
           /\ Len(JumpStep(to).insn.bytes) = JmpSize
           /\ JumpStep(to).target = to
           /\ \A a \in Int : \A j \in 1 .. JmpSize :
                 Encode(JumpStep(to), a)[j] = Jump(a, to)[j]
<1> DEFINE i == Insn("jmp", <<JMP_OPCODE, 0, 0, 0, 0>>, 1)
           bytes == <<JMP_OPCODE, 0, 0, 0, 0>>
<1>1. i \in Insns
  BY ProcessorAssumption DEF ProcessorAssumption
<1>2. /\ i.kind = "jmp" /\ i.operand = 1 /\ i.bytes = bytes
      /\ JumpStep(to).insn = i /\ JumpStep(to).target = to
  BY DEF Insn, Step, JumpStep
<1>3. JumpStep(to) \in StepSet
  BY <1>1 DEF JumpStep, Step, StepSet
<1>4. Len(bytes) = 5 /\ JmpSize = 5
  BY DEF JmpSize
<1>5. bytes[1] = JMP_OPCODE /\ \A j \in 2 .. 5 : bytes[j] = 0
  OBVIOUS
<1>6. IsStep(JumpStep(to))
  BY <1>2, <1>3 DEF IsStep
<1> HIDE DEF i, bytes
<1>7. ASSUME NEW a \in Int, NEW j \in 1 .. 5
      PROVE  Encode(JumpStep(to), a)[j] = Jump(a, to)[j]
  <2>1. Encode(JumpStep(to), a)[j] =
            IF j = 2 THEN (to - (a + 5)) % Word ELSE bytes[j]
    <3> DEFINE s == JumpStep(to)
    <3>1. /\ s.insn.operand = 1 /\ s.target = to /\ Len(s.insn.bytes) = 5
          /\ s.insn.bytes = bytes
      BY <1>2, <1>4
    <3>2. j \in 1 .. Len(s.insn.bytes)
      BY <3>1
    <3>3. IsStep(s)
      BY <1>6
    <3> HIDE DEF s
    <3>4. Encode(s, a)[j] = IF s.insn.operand # 0 /\ j = s.insn.operand + 1
                            THEN (s.target - (a + Len(s.insn.bytes))) % Word
                            ELSE s.insn.bytes[j]
      BY <3>2, <3>3, EncodeIs
    <3>5. Encode(s, a)[j] = IF j = 2 THEN (to - (a + 5)) % Word ELSE bytes[j]
      <4>1. s.insn.operand # 0 /\ s.insn.operand + 1 = 2
        BY <3>1
      <4>2. CASE j = 2
        BY <3>1, <3>4, <4>1, <4>2
      <4>3. CASE j # 2
        BY <3>1, <3>4, <4>1, <4>3
      <4> QED BY <4>2, <4>3
    <3> QED BY <3>5 DEF s
  <2>2. /\ Jump(a, to)[1] = JMP_OPCODE
        /\ Jump(a, to)[2] = (to - (a + 5)) % Word
        /\ Jump(a, to)[3] = 0 /\ Jump(a, to)[4] = 0 /\ Jump(a, to)[5] = 0
    BY DEF Jump, JmpSize
  <2>3. j = 1 \/ j = 2 \/ j = 3 \/ j = 4 \/ j = 5
    OBVIOUS
  <2>4. bytes[3] = 0 /\ bytes[4] = 0 /\ bytes[5] = 0
    BY <1>5
  <2> QED BY <1>5, <2>1, <2>2, <2>3, <2>4
<1> QED BY <1>2, <1>4, <1>6, <1>7

LEMMA JumpCodeIs ==
    ASSUME NEW g \in Hooks
    PROVE  /\ IsCode(JumpCode(g)) /\ Len(JumpCode(g)) = 1
           /\ JumpCode(g)[1] = JumpStep(Dst(g))
           /\ Offset(JumpCode(g), 1) = 0 /\ Offset(JumpCode(g), 2) = JmpSize
           /\ Size(JumpCode(g)) = JmpSize
<1> DEFINE q == JumpCode(g)
<1>1. Dst(g) \in Addresses
  BY PlaceIsAddress
<1>2. q = <<JumpStep(Dst(g))>>
  BY DEF JumpCode
<1>3. Len(q) = 1 /\ q[1] = JumpStep(Dst(g))
  BY <1>2
<1>4. IsStep(q[1]) /\ Len(q[1].insn.bytes) = JmpSize
  BY <1>1, <1>3, JumpIs
<1>5. IsCode(q)
  <2>1. q \in Seq(StepSet)
    BY <1>2, <1>3, <1>4 DEF IsStep
  <2> HIDE DEF q
  <2> QED BY <1>3, <1>4, <2>1 DEF IsCode, IsStep
<1> HIDE DEF q
<1>6. /\ Offset(q, 1) = 0 /\ Offset(q, 1 + 1) = Offset(q, 1) + Len(q[1].insn.bytes)
      /\ Offset(q, Len(q) + 1) = Size(q)
  <2>1. 1 \in 1 .. Len(q)
    BY <1>3
  <2> QED BY <1>5, <2>1, OffsetIs
<1> QED BY <1>3, <1>4, <1>5, <1>6 DEF q, JmpSize

-----------------------------------------------------------------------------
\* What a trampoline copies.
LEMMA LeastExists ==
    ASSUME NEW found \in SUBSET Nat, found # {}
    PROVE  \E n \in found : \A m \in found : n <= m
<1>1. PICK n \in found : \A m \in found : ~(<<m, n>> \in OpToRel(<, Nat))
  BY NatLessThanWellFounded, WFMin
<1>2. \A m \in found : ~(m < n)
  BY <1>1 DEF OpToRel
<1> QED BY <1>2

\* Code that can be hooked: long enough for the jump, and of instructions that
\* subhook_disasm knows rightly or not at all.
Hookable(q) ==
    /\ IsCode(q) /\ Size(q) >= JmpSize
    /\ \A n \in 1 .. Len(q) : Agrees(q[n].insn)

\* The code at an address begins with these instructions, as far as the jump of a
\* hook would be over them.
Begins(m, from, q) ==
    \A n \in 1 .. Len(q) :
        Offset(q, n) < JmpSize => InsnAt(m, from + Offset(q, n), q[n])

InsnsFrom(from) ==
    [at \in 0 .. JmpSize - 1 |-> Disassemble(CodeAt(mem, from + at, 24))]

LEMMA CopiedIs ==
    ASSUME mem \in Memory, NEW q, Hookable(q), NEW from, Begins(mem, from, q),
           \A at \in Copied(InsnsFrom(from)) : InsnsFrom(from)[at].length # 0
    PROVE  \E K \in 1 .. Len(q) :
              /\ Offset(q, K) < JmpSize /\ Offset(q, K + 1) >= JmpSize
              /\ Copied(InsnsFrom(from)) = {Offset(q, n) : n \in 1 .. K}
              /\ \A n \in 1 .. K :
                    /\ InsnsFrom(from)[Offset(q, n)].length = Len(q[n].insn.bytes)
                    /\ InsnsFrom(from)[Offset(q, n)].reloc = q[n].insn.operand
                    /\ n < K => Offset(q, n + 1) < JmpSize
<1> DEFINE insns == InsnsFrom(from)
           copied == Copied(insns)
           ends == {n \in 1 .. Len(q) : Offset(q, n + 1) >= JmpSize}
<1>0. JmpSize = 5
  BY DEF JmpSize
<1>1. /\ Len(q) \in Nat
      /\ \A n \in 1 .. Len(q) + 1 : Offset(q, n) \in Nat
      /\ Offset(q, 1) = 0
      /\ Offset(q, Len(q) + 1) >= 5
      /\ \A n \in 1 .. Len(q) :
            Offset(q, n + 1) = Offset(q, n) + Len(q[n].insn.bytes)
  BY <1>0, OffsetIs DEF Hookable
<1>2. Len(q) \in 1 .. Len(q)
  BY <1>1
<1>3. PICK K \in ends : \A n \in ends : K <= n
  <2>1. ends \in SUBSET Nat
    BY <1>1
  <2>2. Len(q) \in ends
    BY <1>0, <1>1, <1>2
  <2> HIDE DEF ends
  <2> QED BY <2>1, <2>2, LeastExists
<1>4. K \in 1 .. Len(q) /\ Offset(q, K + 1) >= 5
  BY <1>0, <1>3
<1>5. \A n \in 1 .. K - 1 : Offset(q, n + 1) < 5
  <2> SUFFICES ASSUME NEW n \in 1 .. K - 1, ~(Offset(q, n + 1) < 5)
               PROVE  FALSE
    OBVIOUS
  <2>1. n \in 1 .. Len(q) /\ n + 1 \in 1 .. Len(q) + 1 /\ ~(K <= n)
    BY <1>1, <1>4
  <2>2. n \in ends
    BY <1>0, <1>1, <2>1
  <2> QED BY <1>3, <2>1, <2>2
<1>6. \A n \in 1 .. K : Offset(q, n) \in 0 .. 4 /\ n \in 1 .. Len(q)
  <2> SUFFICES ASSUME NEW n \in 1 .. K
               PROVE  Offset(q, n) \in 0 .. 4 /\ n \in 1 .. Len(q)
    OBVIOUS
  <2>1. n \in 1 .. Len(q) + 1 /\ n \in 1 .. Len(q)
    BY <1>1, <1>4
  <2>2. CASE n = 1
    BY <1>1, <2>1, <2>2
  <2>3. CASE n # 1
    <3>1. n - 1 \in 1 .. K - 1 /\ (n - 1) + 1 = n
      BY <1>4, <2>3
    <3>2. Offset(q, n) < 5
      BY <1>5, <3>1
    <3> QED BY <1>1, <2>1, <3>2
  <2> QED BY <2>2, <2>3
<1>7. /\ 0 \in copied /\ copied \subseteq 0 .. 4
      /\ \A p \in copied : p + insns[p].length \in 0 .. 4 =>
                               p + insns[p].length \in copied
  <2>1. DOMAIN insns = 0 .. 4
    BY <1>0 DEF InsnsFrom
  <2> HIDE DEF insns
  <2> QED BY <2>1 DEF Copied
\* An instruction that is copied is known.
<1>8. ASSUME NEW n \in 1 .. K, Offset(q, n) \in copied
      PROVE  /\ insns[Offset(q, n)].length = Len(q[n].insn.bytes)
             /\ insns[Offset(q, n)].reloc = q[n].insn.operand
  <2> DEFINE a == from + Offset(q, n)
  <2>1. Offset(q, n) \in 0 .. 4 /\ n \in 1 .. Len(q)
    BY <1>6
  <2>2. InsnAt(mem, a, q[n])
    BY <1>0, <2>1 DEF Begins
  <2>3. insns[Offset(q, n)] = Disassemble(CodeAt(mem, a, 24))
    BY <1>0, <2>1 DEF InsnsFrom
  <2>4. insns[Offset(q, n)].length # 0
    BY <1>8
  <2>5. IsStep(q[n]) /\ q[n].insn \in Insns /\ Agrees(q[n].insn)
    BY <2>1, CodeSteps, StepOf DEF Hookable
  <2> HIDE DEF a, insns
  <2>6. \A k \in 1 .. 24 : CodeAt(mem, a, 24)[k] \in ByteOf(q[n].insn, k)
    BY <2>2, <2>5, CodeAtIs
  <2> DEFINE code == CodeAt(mem, a, 24)
  <2> HIDE DEF code
  <2>7. Disassemble(code).length # 0 =>
            /\ Disassemble(code).length = Len(q[n].insn.bytes)
            /\ Disassemble(code).reloc = q[n].insn.operand
    <3>1. \A k \in 1 .. 24 : code[k] \in ByteOf(q[n].insn, k)
      BY <2>6 DEF code
    <3> QED BY <2>5, <3>1, DisassembledIs
  <2> QED BY <2>3, <2>4, <2>7 DEF code
<1> HIDE DEF insns, copied
<1>9. ASSUME NEW n \in 1 .. K
      PROVE  Offset(q, n) \in copied
  <2> DEFINE bad == {k \in 1 .. K : Offset(q, k) \notin copied}
  <2> SUFFICES ASSUME bad # {}
               PROVE  FALSE
    OBVIOUS
  <2>1. bad \in SUBSET Nat
    BY <1>4
  <2>2. PICK k \in bad : \A j \in bad : k <= j
    <3> HIDE DEF bad
    <3> QED BY <2>1, LeastExists
  <2>3. k \in 1 .. K /\ Offset(q, k) \notin copied
    BY <2>2
  <2>4. k # 1
    BY <1>1, <1>7, <2>3
  <2>5. k - 1 \in 1 .. K /\ ~(k <= k - 1) /\ (k - 1) + 1 = k
    BY <1>4, <2>3, <2>4
  <2>6. Offset(q, k - 1) \in copied
    BY <2>2, <2>5
  <2>7. Offset(q, k - 1) + insns[Offset(q, k - 1)].length = Offset(q, k)
    <3>1. insns[Offset(q, k - 1)].length = Len(q[k - 1].insn.bytes)
      BY <1>8, <2>5, <2>6
    <3>2. k - 1 \in 1 .. Len(q)
      BY <1>6, <2>5
    <3> QED BY <1>1, <2>5, <3>1, <3>2
  <2>8. Offset(q, k) \in 0 .. 4
    BY <1>6, <2>3
  <2> QED BY <1>7, <2>3, <2>6, <2>7, <2>8
<1> DEFINE P == {Offset(q, n) : n \in 1 .. K}
<1>10. copied \subseteq P
  <2>1. P \in SUBSET (0 .. 4)
    BY <1>6
  <2>2. 0 \in P
    <3>1. 1 \in 1 .. K
      BY <1>4
    <3> QED BY <1>1, <3>1
  <2>3. ASSUME NEW p \in P, p + insns[p].length \in 0 .. 4
        PROVE  p + insns[p].length \in P
    <3>1. PICK n \in 1 .. K : p = Offset(q, n)
      OBVIOUS
    <3>2. p + insns[p].length = Offset(q, n + 1)
      BY <1>1, <1>6, <1>8, <1>9, <3>1
    <3>3. n # K
      BY <1>4, <2>3, <3>2
    <3>4. n + 1 \in 1 .. K
      BY <1>4, <3>3
    <3> QED BY <3>2, <3>4
  <2>4. DOMAIN insns = 0 .. 4
    BY <1>0 DEF insns, InsnsFrom
  <2> HIDE DEF P
  <2>5. ASSUME NEW at \in copied
        PROVE  at \in P
    <3>1. \A places \in SUBSET (0 .. 4) :
              /\ 0 \in places
              /\ \A p \in places : p + insns[p].length \in 0 .. 4 =>
                                       p + insns[p].length \in places
              => at \in places
      BY <2>4 DEF copied, Copied
    <3> QED BY <2>1, <2>2, <2>3, <3>1
  <2> QED BY <2>5
<1>11. copied = P
  BY <1>9, <1>10
<1>12. ASSUME NEW n \in 1 .. K
       PROVE  n < K => Offset(q, n + 1) < 5
  <2>1. n < K => n \in 1 .. K - 1
    BY <1>4
  <2> QED BY <1>5, <2>1
<1>13. Offset(q, K) < 5
  <2>1. K \in 1 .. K
    BY <1>4
  <2> QED BY <1>6, <2>1
<1> QED BY <1>0, <1>4, <1>8, <1>9, <1>11, <1>12, <1>13 DEF insns, copied

-----------------------------------------------------------------------------
\* A trampoline for some code: its first instructions, with the targets they had,
\* and a jump to the next one, if there is one.
IsTrampoline(m, start, from, q, K) ==
    /\ K \in 1 .. Len(q)
    /\ Offset(q, K + 1) \in JmpSize .. TrampolineSize - JmpSize
    /\ \A n \in 1 .. K : InsnAt(m, start + Offset(q, n), q[n])
    /\ K < Len(q) =>
          InsnAt(m, start + Offset(q, K + 1), JumpStep(from + Offset(q, K + 1)))

\* An instruction that moves, with its operand changed by as much.
LEMMA RelocatedIs ==
    ASSUME NEW step, IsStep(step), NEW a \in Int, NEW b \in Int,
           NEW j \in 1 .. Len(step.insn.bytes)
    PROVE  Encode(step, b)[j] =
               IF step.insn.operand # 0 /\ j = step.insn.operand + 1
               THEN (Encode(step, a)[j] - (b - a)) % Word ELSE Encode(step, a)[j]
<1> DEFINE l == Len(step.insn.bytes)
           x == step.target - (a + l)
<1>1. l \in Int
  BY StepIs
<1>2. CASE step.insn.operand # 0 /\ j = step.insn.operand + 1
  <2>1. step.target \in Int
    BY <1>2, StepIs, RemainderOfAddress
  <2>2. x \in Int /\ b - a \in Int /\ -(b - a) \in Int
    BY <1>1, <2>1
  <2>3. Encode(step, a)[j] = x % Word
    BY <1>2, EncodeIs
  <2>4. Encode(step, b)[j] = (step.target - (b + l)) % Word
    BY <1>2, EncodeIs
  <2>5. step.target - (b + l) = x + (-(b - a))
    BY <1>1, <2>1
  <2> HIDE DEF x
  <2>6. ((x % Word) + (-(b - a))) % Word = (x + (-(b - a))) % Word
    BY <2>2, RemainderMoves
  <2>7. x % Word \in Int
    BY <2>2, Wrapped, RemainderOfAddress
  <2>8. (x % Word) - (b - a) = (x % Word) + (-(b - a))
    BY <2>7
  <2> QED BY <1>2, <2>3, <2>4, <2>5, <2>6, <2>8
<1>3. CASE ~(step.insn.operand # 0 /\ j = step.insn.operand + 1)
  BY <1>3, EncodeIs
<1> QED BY <1>2, <1>3

Bytes(step) == Len(step.insn.bytes)

\* Code and trampolines do not go beyond the memory.
FitsAt(from, q) == from \in Addresses /\ from + Size(q) <= Word
RoomAt(start) == start \in Addresses /\ start + TrampolineSize - 1 \in Addresses

LEMMA TrampolineIs ==
    ASSUME mem \in Memory, NEW q, Hookable(q),
           NEW from, Begins(mem, from, q), FitsAt(from, q),
           NEW start, RoomAt(start),
           MakeTrampoline(start, from) # Null
    PROVE  LET code == MakeTrampoline(start, from)
           IN  /\ Len(code) <= TrampolineSize
               /\ \A m : (\A j \in 1 .. Len(code) : m[start + j - 1] = code[j]) =>
                             \E K \in 1 .. Len(q) : IsTrampoline(m, start, from, q, K)
<1> DEFINE insns == InsnsFrom(from)
           copied == Copied(insns)
           last == CHOOSE at \in copied : at + insns[at].length >= JmpSize
           size == last + insns[last].length
           operands == {at + insns[at].reloc + 1 :
                           at \in {p \in copied : insns[p].reloc # 0}}
           old == CodeAt(mem, from, size)
           moved == Relocate(old, operands, start - from)
           code == MakeTrampoline(start, from)
<1>0. JmpSize = 5 /\ TrampolineSize = 25
  BY DEF JmpSize, TrampolineSize
<1>1. code = IF \E at \in copied : insns[at].length = 0 THEN Null
             ELSE moved \o JumpBack(start, from, size)
  BY DEF MakeTrampoline, InsnsFrom
<1>2. /\ \A at \in copied : insns[at].length # 0
      /\ code = moved \o JumpBack(start, from, size)
  BY <1>1
<1>3. PICK K \in 1 .. Len(q) :
          /\ Offset(q, K) < 5 /\ Offset(q, K + 1) >= 5
          /\ copied = {Offset(q, n) : n \in 1 .. K}
          /\ \A n \in 1 .. K : /\ insns[Offset(q, n)].length = Bytes(q[n])
                               /\ insns[Offset(q, n)].reloc = q[n].insn.operand
                               /\ n < K => Offset(q, n + 1) < 5
  <2>1. PICK K \in 1 .. Len(q) :
            /\ Offset(q, K) < JmpSize /\ Offset(q, K + 1) >= JmpSize
            /\ copied = {Offset(q, n) : n \in 1 .. K}
            /\ \A n \in 1 .. K :
                  /\ insns[Offset(q, n)].length = Len(q[n].insn.bytes)
                  /\ insns[Offset(q, n)].reloc = q[n].insn.operand
                  /\ n < K => Offset(q, n + 1) < JmpSize
    BY <1>2, CopiedIs
  <2> HIDE DEF insns, copied
  <2> QED BY <1>0, <2>1 DEF Bytes
<1>4. /\ Len(q) \in Nat
      /\ \A n \in 1 .. Len(q) + 1 : Offset(q, n) \in Nat
      /\ Offset(q, 1) = 0
      /\ \A n \in 1 .. Len(q) :
            Offset(q, n + 1) = Offset(q, n) + Bytes(q[n])
      /\ \A k, n \in 1 .. Len(q) + 1 : k <= n => Offset(q, k) <= Offset(q, n)
      /\ Offset(q, Len(q) + 1) = Size(q)
  BY OffsetIs DEF Hookable, Bytes
<1>5. from \in Int /\ start \in Int /\ K \in Nat
  BY <1>3, <1>4, RemainderOfAddress DEF FitsAt, RoomAt
<1>6. \A n \in 1 .. K : /\ n \in 1 .. Len(q)
                        /\ Offset(q, n) \in 0 .. 4
                        /\ Bytes(q[n]) \in 1 .. 15
                        /\ InsnAt(mem, from + Offset(q, n), q[n])
                        /\ IsStep(q[n])
  <2> SUFFICES ASSUME NEW n \in 1 .. K
               PROVE  /\ n \in 1 .. Len(q)
                      /\ Offset(q, n) \in 0 .. 4
                      /\ Bytes(q[n]) \in 1 .. 15
                      /\ InsnAt(mem, from + Offset(q, n), q[n])
                      /\ IsStep(q[n])
    OBVIOUS
  <2>1. /\ n \in 1 .. Len(q) /\ n \in 1 .. Len(q) + 1 /\ K \in 1 .. Len(q) + 1
        /\ n <= K
    BY <1>3, <1>4
  <2>2. Offset(q, n) <= Offset(q, K) /\ Offset(q, K) \in Nat /\ Offset(q, n) \in Nat
    BY <1>4, <2>1
  <2>3. Offset(q, n) \in 0 .. 4
    BY <1>3, <2>2
  <2>4. InsnAt(mem, from + Offset(q, n), q[n])
    BY <1>0, <2>1, <2>3 DEF Begins
  <2> QED BY <2>1, <2>3, <2>4, StepOf, CodeSteps DEF Hookable, Bytes
\* Each ends where the next begins.
<1> DEFINE end(n) == Offset(q, n) + Bytes(q[n])
<1>e. \A n \in 1 .. K : end(n) = Offset(q, n + 1) /\ end(n) \in Nat
  BY <1>4, <1>5, <1>6
<1>f. \A x, y \in 1 .. K + 1 : x < y => end(x) <= Offset(q, y)
  <2> SUFFICES ASSUME NEW x \in 1 .. K + 1, NEW y \in 1 .. K + 1, x < y
               PROVE  end(x) <= Offset(q, y)
    OBVIOUS
  <2>1. /\ x \in 1 .. K /\ x + 1 \in 1 .. Len(q) + 1 /\ y \in 1 .. Len(q) + 1
        /\ x + 1 <= y
    BY <1>3, <1>4, <1>5
  <2> QED BY <1>4, <1>e, <2>1
<1>7. K \in 1 .. K
  BY <1>3, <1>4
<1>8. last = Offset(q, K)
  <2>1. \A at \in copied : at + insns[at].length >= 5 <=> at = Offset(q, K)
    <3> SUFFICES ASSUME NEW n \in 1 .. K
                 PROVE  Offset(q, n) + insns[Offset(q, n)].length >= 5
                            <=> Offset(q, n) = Offset(q, K)
      BY <1>3
    <3>1. Offset(q, n) + insns[Offset(q, n)].length = Offset(q, n + 1)
      BY <1>3, <1>e
    <3>2. CASE n = K
      BY <1>3, <3>1, <3>2
    <3>3. CASE n # K
      <4>1. n < K
        BY <1>3, <1>4, <3>3
      <4>2. Offset(q, n + 1) < 5
        BY <1>3, <4>1
      <4>3. end(n) <= Offset(q, K)
        <5>1. n \in 1 .. K + 1 /\ K \in 1 .. K + 1
          BY <1>5, <1>7
        <5> QED BY <1>f, <4>1, <5>1
      <4>4. Offset(q, n) # Offset(q, K)
        <5>1. end(n) > Offset(q, n)
          <6> DEFINE o == Offset(q, n)
                     l == Bytes(q[n])
          <6>1. o \in 0 .. 4 /\ l \in 1 .. 15
            BY <1>6
          <6> HIDE DEF o, l
          <6>2. o + l > o
            BY <6>1
          <6> QED BY <6>2 DEF o, l
        <5>2. end(n) \in Int /\ Offset(q, n) \in Int /\ Offset(q, K) \in Int
          BY <1>5, <1>6, <1>7, <1>e
        <5> HIDE DEF end
        <5> QED BY <4>3, <5>1, <5>2
      <4>5. Offset(q, n + 1) \in Nat
        BY <1>e
      <4> QED BY <3>1, <4>2, <4>4, <4>5
    <3> QED BY <3>2, <3>3
  <2>2. Offset(q, K) \in copied
    BY <1>3, <1>7
  <2> HIDE DEF copied, insns
  <2>3. \E at \in copied : at + insns[at].length >= JmpSize
    BY <1>0, <2>1, <2>2
  <2>4. last \in copied /\ last + insns[last].length >= JmpSize
    BY <2>3
  <2> QED BY <1>0, <2>1, <2>4
<1>9. size = Offset(q, K + 1) /\ size \in 5 .. 19
  <2>1. size = Offset(q, K) + Bytes(q[K])
    BY <1>3, <1>7, <1>8
  <2>2. end(K) = Offset(q, K + 1) /\ end(K) \in Nat
    BY <1>7, <1>e
  <2>3. Offset(q, K) \in 0 .. 4 /\ Bytes(q[K]) \in 1 .. 15
    BY <1>6, <1>7
  <2>4. size = end(K)
    BY <2>1
  <2>5. end(K) <= 19
    BY <2>3
  <2>6. size = Offset(q, K + 1)
    BY <2>2, <2>4
  <2>7. end(K) \in Nat /\ end(K) >= 5
    BY <1>3, <2>2
  <2> HIDE DEF size, end
  <2>8. end(K) \in 5 .. 19
    BY <2>5, <2>7
  <2> QED BY <2>4, <2>6, <2>8
<1> HIDE DEF last, size
<1>10. /\ Len(old) = size /\ Len(moved) = size /\ DOMAIN moved = 1 .. size
       /\ \A c \in 1 .. size :
             moved[c] = IF c \in operands THEN (old[c] - (start - from)) % Word
                        ELSE old[c]
  <2>1. old \in Seq(Cells) /\ Len(old) = size
    BY <1>5, <1>9, CodeAtType
  <2>2. start - from \in Int
    BY <1>5
  <2>3. DOMAIN old = 1 .. size
    BY <2>1
  <2> HIDE DEF old, operands
  <2>4. moved \in Seq(Cells) /\ Len(moved) = size
    BY <2>1, <2>2, RelocateType
  <2>5. DOMAIN moved = 1 .. size
    BY <2>4
  <2> QED BY <2>1, <2>3, <2>4, <2>5 DEF Relocate
<1>11. ASSUME NEW n \in 1 .. K, NEW j \in 1 .. Bytes(q[n])
       PROVE  /\ Offset(q, n) + j \in 1 .. size
              /\ old[Offset(q, n) + j] = Encode(q[n], from + Offset(q, n))[j]
  <2> DEFINE c == Offset(q, n) + j
  <2>1. c \in 1 .. size
    <3>1. Offset(q, n) \in 0 .. 4 /\ Bytes(q[n]) \in 1 .. 15
      BY <1>6
    <3>2. end(n) <= Offset(q, K + 1)
      <4>1. n \in 1 .. K + 1 /\ K + 1 \in 1 .. K + 1 /\ n < K + 1
        BY <1>5
      <4> QED BY <1>f, <4>1
    <3>3. end(n) <= size /\ size \in 5 .. 19
      BY <1>9, <3>2
    <3> DEFINE o == Offset(q, n)
               l == Bytes(q[n])
    <3>4. o \in 0 .. 4 /\ l \in 1 .. 15 /\ o + l <= size /\ j \in 1 .. l
      BY <3>1, <3>3
    <3> HIDE DEF o, l
    <3>5. o + j \in 1 .. size
      BY <3>3, <3>4
    <3> QED BY <3>5 DEF o
  <2>2. old[c] = mem[(from + c - 1) % Word]
    BY <2>1 DEF CodeAt
  <2>3. from + c - 1 = (from + Offset(q, n)) + j - 1
    <3> DEFINE o == Offset(q, n)
    <3>1. o \in 0 .. 4 /\ j \in Int
      BY <1>6
    <3> HIDE DEF o
    <3>2. from + (o + j) - 1 = (from + o) + j - 1
      BY <1>5, <3>1
    <3> QED BY <3>2 DEF o
  <2>4. from + c - 1 \in Addresses
    <3>1. /\ from + Offset(q, n) \in Addresses
          /\ (from + Offset(q, n)) + Bytes(q[n]) - 1 \in Addresses
      BY <1>5, <1>6 DEF InsnAt, Bytes
    <3> DEFINE b == from + Offset(q, n)
               l == Bytes(q[n])
    <3>2. b \in Addresses /\ b + l - 1 \in Addresses /\ l \in 1 .. 15 /\ j \in 1 .. l
      BY <1>6, <3>1
    <3> HIDE DEF b, l
    <3>3. Word \in Nat
      BY SubhookAssumption DEF SubhookAssumption
    <3>4. b + j - 1 \in Addresses
      BY <3>2, <3>3 DEF Addresses
    <3> QED BY <2>3, <3>4 DEF b
  <2>5. (from + c - 1) % Word = from + c - 1
    BY <2>4, RemainderOfAddress
  <2>6. mem[from + c - 1] = Encode(q[n], from + Offset(q, n))[j]
    BY <1>5, <1>6, <2>3 DEF InsnAt, Bytes
  <2> QED BY <2>1, <2>2, <2>5, <2>6
<1>12. ASSUME NEW n \in 1 .. K, NEW j \in 1 .. Bytes(q[n])
       PROVE  Offset(q, n) + j \in operands <=>
                  q[n].insn.operand # 0 /\ j = q[n].insn.operand + 1
  <2>1. ASSUME q[n].insn.operand # 0, j = q[n].insn.operand + 1
        PROVE  Offset(q, n) + j \in operands
    <3> DEFINE at == Offset(q, n)
    <3>1. at \in copied /\ insns[at].reloc # 0 /\ insns[at].reloc = q[n].insn.operand
      BY <1>3, <2>1
    <3>2. at \in 0 .. 4 /\ insns[at].reloc \in Nat
      <4>1. IsStep(q[n]) /\ at \in 0 .. 4
        BY <1>6
      <4> QED BY <3>1, <4>1, StepIs
    <3>3. j = insns[at].reloc + 1
      BY <2>1, <3>1
    <3> DEFINE r == insns[at].reloc
    <3>4. at + j = at + r + 1
      <4>1. j = r + 1 /\ r \in Nat /\ at \in 0 .. 4
        BY <3>2, <3>3
      <4> HIDE DEF r, at
      <4> QED BY <4>1
    <3> QED BY <3>1, <3>4
  <2>2. ASSUME Offset(q, n) + j \in operands
        PROVE  q[n].insn.operand # 0 /\ j = q[n].insn.operand + 1
    <3>1. PICK at \in copied : /\ insns[at].reloc # 0
                               /\ Offset(q, n) + j = at + insns[at].reloc + 1
      BY <2>2
    <3>2. PICK k \in 1 .. K : at = Offset(q, k)
      BY <1>3
    <3>3. /\ q[k].insn.operand # 0
          /\ Offset(q, n) + j = Offset(q, k) + q[k].insn.operand + 1
      BY <1>3, <3>1, <3>2
    <3>4. /\ q[k].insn.operand + 1 \in 1 .. Bytes(q[k])
          /\ q[k].insn.operand \in Nat
      BY <1>5, <1>6, <3>3, StepIs DEF Bytes
    <3> DEFINE x == Offset(q, n)
               y == Offset(q, k)
               a == Bytes(q[n])
               b == Bytes(q[k])
               f == q[k].insn.operand
    <3>5. n = k
      <4>1. n \in 1 .. K + 1 /\ k \in 1 .. K + 1 /\ n \in Nat /\ k \in Nat
        BY <1>5
      <4>2. /\ x \in 0 .. 4 /\ a \in 1 .. 15 /\ y \in 0 .. 4 /\ b \in 1 .. 15
            /\ j \in 1 .. a
        BY <1>5, <1>6
      <4>5. x + j = y + f + 1 /\ f \in Nat /\ f + 1 \in 1 .. b
        BY <3>3, <3>4
      <4>3. CASE n < k
        <5>1. x + a <= y
          BY <1>f, <4>1, <4>3
        <5> HIDE DEF x, y, a, b, f
        <5> QED BY <4>2, <4>5, <5>1
      <4>4. CASE k < n
        <5>1. y + b <= x
          BY <1>f, <4>1, <4>4
        <5> HIDE DEF x, y, a, b, f
        <5> QED BY <4>2, <4>5, <5>1
      <4> QED BY <4>1, <4>3, <4>4
    <3>6. x \in 0 .. 4 /\ f \in Nat /\ j \in Int /\ x + j = x + f + 1
      BY <1>6, <3>3, <3>4, <3>5
    <3>7. j = f + 1
      <4> HIDE DEF x, f
      <4> QED BY <3>6
    <3> QED BY <3>3, <3>5, <3>7
  <2> QED BY <2>1, <2>2
<1> HIDE DEF insns, copied, operands, old, moved, code
\* The copied instructions are those of the code.
<1>13. ASSUME NEW n \in 1 .. K, NEW j \in 1 .. Bytes(q[n])
       PROVE  moved[Offset(q, n) + j] = Encode(q[n], start + Offset(q, n))[j]
  <2>1. Offset(q, n) + j \in 1 .. size
    BY <1>11
  <2>2. moved[Offset(q, n) + j] =
            IF q[n].insn.operand # 0 /\ j = q[n].insn.operand + 1
            THEN (Encode(q[n], from + Offset(q, n))[j] - (start - from)) % Word
            ELSE Encode(q[n], from + Offset(q, n))[j]
    BY <1>10, <1>11, <1>12, <2>1
  <2>3. /\ from + Offset(q, n) \in Int /\ start + Offset(q, n) \in Int
        /\ (start + Offset(q, n)) - (from + Offset(q, n)) = start - from
    <3> DEFINE o == Offset(q, n)
    <3>1. o \in 0 .. 4
      BY <1>6
    <3> HIDE DEF o
    <3>2. /\ from + o \in Int /\ start + o \in Int
          /\ (start + o) - (from + o) = start - from
      BY <1>5, <3>1
    <3> QED BY <3>2 DEF o
  <2>4. IsStep(q[n])
    BY <1>5, <1>6
  <2>5. j \in 1 .. Len(q[n].insn.bytes)
    BY DEF Bytes
  <2> DEFINE a == from + Offset(q, n)
             b == start + Offset(q, n)
             t == q[n]
  <2>6. a \in Int /\ b \in Int /\ b - a = start - from
    BY <2>3
  <2> HIDE DEF a, b, t
  <2>7. Encode(t, b)[j] =
            IF t.insn.operand # 0 /\ j = t.insn.operand + 1
            THEN (Encode(t, a)[j] - (start - from)) % Word ELSE Encode(t, a)[j]
    <3>1. Encode(t, b)[j] =
              IF t.insn.operand # 0 /\ j = t.insn.operand + 1
              THEN (Encode(t, a)[j] - (b - a)) % Word ELSE Encode(t, a)[j]
      BY <2>4, <2>5, <2>6, RelocatedIs DEF t
    <3> QED BY <2>6, <3>1
  <2> QED BY <2>2, <2>7 DEF a, b, t
<1>14. /\ Len(code) = size + 5
       /\ \A c \in 1 .. size : code[c] = moved[c]
       /\ \A j \in 1 .. 5 : code[size + j] = Jump(start + size, from + size)[j]
  <2>1. /\ JumpBack(start, from, size) \in Seq(Cells)
        /\ Len(JumpBack(start, from, size)) = 5
        /\ JumpBack(start, from, size) = Jump(start + size, from + size)
    <3>1. start + size \in Int /\ from + size \in Int
      BY <1>5, <1>9
    <3> QED BY <1>0, <3>1, JumpType DEF JumpBack
  <2>2. moved \in Seq(Cells)
    <3>1. old \in Seq(Cells)
      BY <1>5, <1>9, CodeAtType DEF old
    <3>2. start - from \in Int
      BY <1>5
    <3> QED BY <3>1, <3>2, RelocateType DEF moved
  <2>3. code = moved \o JumpBack(start, from, size)
    BY <1>2
  <2>4. size \in Nat
    BY <1>9
  <2> DEFINE back == JumpBack(start, from, size)
  <2>5. /\ Len(moved \o back) = Len(moved) + Len(back)
        /\ \A c \in 1 .. Len(moved) + Len(back) :
              (moved \o back)[c] = IF c <= Len(moved) THEN moved[c]
                                   ELSE back[c - Len(moved)]
    BY <2>1, <2>2, ConcatProperties
  <2>6. /\ Len(code) = size + 5
        /\ \A c \in 1 .. size + 5 :
              code[c] = IF c <= size THEN moved[c] ELSE back[c - size]
    BY <1>10, <2>1, <2>3, <2>5
  <2>7. back = Jump(start + size, from + size)
    BY <2>1
  <2> HIDE DEF back
  <2>8. \A c \in 1 .. size : code[c] = moved[c]
    <3>1. \A c \in 1 .. size : c \in 1 .. size + 5 /\ c <= size
      BY <2>4
    <3> QED BY <2>6, <3>1
  <2>9. \A j \in 1 .. 5 : code[size + j] = back[j]
    <3>1. \A j \in 1 .. 5 : /\ size + j \in 1 .. size + 5 /\ ~(size + j <= size)
                            /\ (size + j) - size = j
      BY <2>4
    <3> QED BY <2>6, <3>1
  <2> QED BY <2>6, <2>7, <2>8, <2>9
<1>15. Len(code) <= TrampolineSize
  <2>1. size + 5 <= TrampolineSize
    BY <1>0, <1>9
  <2> QED BY <1>14, <2>1
<1>16. \A a \in start .. start + 24 : a \in Addresses
  BY <1>0, <1>5, SubhookAssumption DEF SubhookAssumption, Addresses, RoomAt
<1>17. ASSUME NEW m, \A j \in 1 .. Len(code) : m[start + j - 1] = code[j]
       PROVE  IsTrampoline(m, start, from, q, K)
  <2>0. \A j \in 1 .. size + 5 : m[start + j - 1] = code[j]
    BY <1>14, <1>17
  <2>1. ASSUME NEW n \in 1 .. K
        PROVE  InsnAt(m, start + Offset(q, n), q[n])
    <3>1. ASSUME NEW j \in 1 .. Bytes(q[n])
          PROVE  m[(start + Offset(q, n)) + j - 1]
                     = Encode(q[n], start + Offset(q, n))[j]
      <4> DEFINE o == Offset(q, n)
      <4>0. o \in 0 .. 4 /\ j \in Int /\ o + j \in 1 .. size /\ size \in 5 .. 19
        BY <1>6, <1>9, <1>11
      <4>1. /\ Offset(q, n) + j \in 1 .. size + 5
            /\ start + (Offset(q, n) + j) - 1 = (start + Offset(q, n)) + j - 1
        <5> HIDE DEF o
        <5>1. o + j \in 1 .. size + 5 /\ start + (o + j) - 1 = (start + o) + j - 1
          BY <1>5, <4>0
        <5> QED BY <5>1 DEF o
      <4>2. m[start + (Offset(q, n) + j) - 1] = code[Offset(q, n) + j]
        BY <2>0, <4>1
      <4> QED BY <1>11, <1>13, <1>14, <4>1, <4>2
    <3>2. /\ start + Offset(q, n) \in start .. start + 24
          /\ start + Offset(q, n) + Bytes(q[n]) - 1 \in start .. start + 24
      <4> DEFINE o == Offset(q, n)
                 l == Bytes(q[n])
      <4>1. o \in 0 .. 4 /\ l \in 1 .. 15
        BY <1>6
      <4> HIDE DEF o, l
      <4>2. start + o \in start .. start + 24 /\ start + o + l - 1 \in start .. start + 24
        BY <1>5, <4>1
      <4> QED BY <4>2 DEF o, l
    <3> QED BY <1>16, <3>1, <3>2 DEF InsnAt, Bytes
  <2>2. ASSUME K < Len(q)
        PROVE  InsnAt(m, start + Offset(q, K + 1), JumpStep(from + Offset(q, K + 1)))
    <3> DEFINE s == JumpStep(from + size)
    <3>1. from + size \in Addresses
      <4>1. K + 1 \in 1 .. Len(q) /\ K + 1 \in 1 .. Len(q) + 1
        BY <1>3, <1>4, <2>2
      <4>2. /\ Offset(q, (K + 1) + 1) = Offset(q, K + 1) + Bytes(q[K + 1])
            /\ Bytes(q[K + 1]) \in 1 .. 15
        BY <1>4, <4>1, StepOf DEF Hookable, Bytes
      <4>3. Offset(q, (K + 1) + 1) <= Offset(q, Len(q) + 1)
        <5>1. /\ (K + 1) + 1 \in 1 .. Len(q) + 1 /\ Len(q) + 1 \in 1 .. Len(q) + 1
              /\ (K + 1) + 1 <= Len(q) + 1
          BY <1>4, <4>1
        <5> QED BY <1>4, <5>1
      <4>4. Size(q) \in Nat /\ size + 1 <= Size(q)
        <5>1. Len(q) + 1 \in 1 .. Len(q) + 1
          BY <1>4
        <5>2. Size(q) \in Nat
          BY <1>4, <5>1
        <5> DEFINE o == Offset(q, K + 1)
                   l == Bytes(q[K + 1])
                   w == Offset(q, (K + 1) + 1)
                   z == Size(q)
        <5>3. w = o + l /\ l \in 1 .. 15 /\ w <= z /\ z \in Nat /\ size = o
          BY <1>4, <1>9, <4>2, <4>3, <5>2
        <5>4. size \in 5 .. 19
          BY <1>9
        <5>5. w = size + l
          BY <5>3
        <5> HIDE DEF o, l, w, z
        <5>6. size + l <= z
          BY <5>3, <5>5
        <5>7. size + 1 <= z
          BY <5>3, <5>4, <5>6
        <5> QED BY <5>3, <5>7 DEF z
      <4>5. from + Size(q) <= Word /\ from \in Nat /\ Word \in Nat
        BY SubhookAssumption DEF SubhookAssumption, Addresses, FitsAt
      <4>6. size \in 5 .. 19
        BY <1>9
      <4> DEFINE z == Size(q)
      <4>7. z \in Nat /\ size + 1 <= z /\ from + z <= Word
        BY <4>4, <4>5
      <4> HIDE DEF z
      <4> QED BY <4>5, <4>6, <4>7 DEF Addresses
    <3>2. /\ Len(s.insn.bytes) = 5
          /\ \A a \in Int : \A j \in 1 .. 5 :
                Encode(s, a)[j] = Jump(a, from + size)[j]
      BY <1>0, <3>1, JumpIs
    <3> HIDE DEF s
    <3>3. start + size \in Int
      BY <1>5, <1>9
    <3>4. ASSUME NEW j \in 1 .. 5
          PROVE  m[(start + size) + j - 1] = Encode(s, start + size)[j]
      <4>1. /\ size + j \in 1 .. size + 5
            /\ start + (size + j) - 1 = (start + size) + j - 1
        <5>1. size \in 5 .. 19
          BY <1>9
        <5> QED BY <1>5, <5>1
      <4>2. m[start + (size + j) - 1] = code[size + j]
        BY <2>0, <4>1
      <4> QED BY <1>14, <3>2, <3>3, <4>1, <4>2
    <3>5. /\ start + size \in start .. start + 24
          /\ start + size + 5 - 1 \in start .. start + 24
      <4>1. size \in 5 .. 19
        BY <1>9
      <4> QED BY <1>5, <4>1
    <3>6. InsnAt(m, start + size, s)
      BY <1>16, <3>2, <3>4, <3>5 DEF InsnAt, Bytes
    <3> QED BY <1>9, <3>6 DEF s
  <2>3. Offset(q, K + 1) \in JmpSize .. TrampolineSize - JmpSize
    <3>1. size \in JmpSize .. TrampolineSize - JmpSize
      BY <1>0, <1>9
    <3> QED BY <1>9, <3>1
  <2> QED BY <1>3, <2>1, <2>2, <2>3 DEF IsTrampoline
<1> QED BY <1>15, <1>17 DEF code

-----------------------------------------------------------------------------
\* The code in the memory.

LEMMA StepsApart ==
    ASSUME NEW q, IsCode(q), NEW n \in 1 .. Len(q)
    PROVE  /\ Offset(q, n) \in Nat /\ Bytes(q[n]) \in 1 .. 15
           /\ Size(q) \in Nat /\ Offset(q, n) + Bytes(q[n]) <= Size(q)
           /\ Offset(q, n + 1) = Offset(q, n) + Bytes(q[n])
           /\ \A m \in 1 .. Len(q) : n < m =>
                 Offset(q, n) + Bytes(q[n]) <= Offset(q, m)
<1>1. /\ Len(q) \in Nat
      /\ \A k \in 1 .. Len(q) + 1 : Offset(q, k) \in Nat
      /\ Offset(q, Len(q) + 1) = Size(q)
      /\ Offset(q, n + 1) = Offset(q, n) + Bytes(q[n])
      /\ \A k, m \in 1 .. Len(q) + 1 : k <= m => Offset(q, k) <= Offset(q, m)
  BY OffsetIs DEF Bytes
<1>2. /\ n \in 1 .. Len(q) + 1 /\ n + 1 \in 1 .. Len(q) + 1
      /\ Len(q) + 1 \in 1 .. Len(q) + 1 /\ n + 1 <= Len(q) + 1
  BY <1>1
<1>3. Offset(q, n) \in Nat /\ Offset(q, Len(q) + 1) \in Nat
  BY <1>1, <1>2
<1>4. Bytes(q[n]) \in 1 .. 15
  BY StepOf DEF Bytes
<1>5. Offset(q, n + 1) <= Offset(q, Len(q) + 1)
  BY <1>1, <1>2
<1>6. Size(q) \in Nat
  BY <1>1, <1>3
<1>7. Offset(q, n) + Bytes(q[n]) <= Size(q)
  BY <1>1, <1>5
<1>8. ASSUME NEW m \in 1 .. Len(q), n < m
      PROVE  Offset(q, n) + Bytes(q[n]) <= Offset(q, m)
  <2>1. m \in 1 .. Len(q) + 1 /\ n + 1 <= m
    BY <1>1, <1>8
  <2>2. Offset(q, n + 1) <= Offset(q, m)
    BY <1>1, <1>2, <2>1
  <2> QED BY <1>1, <2>2
<1> QED BY <1>1, <1>3, <1>4, <1>6, <1>7, <1>8

LEMMA MemoryHas ==
    ASSUME NEW q, IsCode(q), NEW s \in Nat, s + Size(q) <= Word,
           NEW n \in 1 .. Len(q)
    PROVE  InsnAt(MemoryWith(q, s), s + Offset(q, n), q[n])
<1> DEFINE start == [k \in DOMAIN q |-> s + Size(SubSeq(q, 1, k - 1))]
           At(a) == {k \in DOMAIN q : a - start[k] + 1 \in DOMAIN q[k].insn.bytes}
<1>1. DOMAIN q = 1 .. Len(q) /\ Len(q) \in Nat
  BY DEF IsCode
<1>2. \A k \in 1 .. Len(q) : start[k] = s + Offset(q, k)
  BY <1>1 DEF Offset
<1>3. \A a \in Addresses :
          MemoryWith(q, s)[a] =
              IF At(a) = {} THEN -1
              ELSE LET k == CHOOSE k \in At(a) : TRUE
                   IN  Encode(q[k], start[k])[a - start[k] + 1]
  BY DEF MemoryWith
<1>5. \A k \in 1 .. Len(q) : DOMAIN q[k].insn.bytes = 1 .. Bytes(q[k])
  BY StepOf DEF Bytes
<1> HIDE DEF start
<1> DEFINE o == Offset(q, n)
           l == Bytes(q[n])
<1>6. o \in Nat /\ l \in 1 .. 15 /\ s + o + l <= Word /\ Word \in Nat
  <2>1. o \in Nat /\ l \in 1 .. 15 /\ Size(q) \in Nat /\ o + l <= Size(q)
    BY StepsApart
  <2>2. Word \in Nat
    BY SubhookAssumption DEF SubhookAssumption
  <2> DEFINE z == Size(q)
  <2>3. z \in Nat /\ o + l <= z /\ s + z <= Word
    BY <2>1
  <2> HIDE DEF o, l, z
  <2> QED BY <2>1, <2>2, <2>3
<1>7. ASSUME NEW j \in 1 .. l
      PROVE  MemoryWith(q, s)[s + o + j - 1] = Encode(q[n], s + o)[j]
  <2> DEFINE a == s + o + j - 1
  <2>1. a \in Addresses /\ a \in Int
    <3> HIDE DEF o, l
    <3> QED BY <1>6 DEF Addresses
  <2>2. a - start[n] + 1 = j
    <3>1. a - (s + o) + 1 = j
      <4> HIDE DEF o, l
      <4> QED BY <1>6
    <3> QED BY <1>2, <3>1
  <2>3. n \in At(a)
    BY <1>1, <1>5, <2>2
  <2>4. ASSUME NEW k \in At(a)
        PROVE  k = n
    <3> DEFINE p == Offset(q, k)
               b == Bytes(q[k])
    <3>1. k \in 1 .. Len(q) /\ a - (s + p) + 1 \in 1 .. b
      BY <1>1, <1>2, <1>5
    <3>2. p \in Nat /\ b \in 1 .. 15
      BY <3>1, StepsApart
    <3>3. k < n => p + b <= o
      BY <3>1, StepsApart
    <3>4. n < k => o + l <= p
      BY <3>1, StepsApart
    <3>5. k \in Int /\ n \in Int
      BY <1>1, <3>1
    <3> HIDE DEF p, b, o, l
    <3> QED BY <1>6, <3>1, <3>2, <3>3, <3>4, <3>5
  <2>5. At(a) = {n}
    BY <2>3, <2>4
  <2> HIDE DEF At, a
  <2>6. MemoryWith(q, s)[a] = Encode(q[n], start[n])[a - start[n] + 1]
    BY <1>3, <2>1, <2>5
  <2> QED BY <1>2, <2>2, <2>6 DEF a
<1>8. s + o \in Addresses /\ s + o + l - 1 \in Addresses
  <2> HIDE DEF o, l
  <2> QED BY <1>6 DEF Addresses
<1> QED BY <1>7, <1>8 DEF InsnAt, Bytes

\* An instruction has bytes wherever it is.
LEMMA EncodedIs ==
    ASSUME NEW step, IsStep(step), NEW a \in Int, NEW j \in 1 .. Len(step.insn.bytes)
    PROVE  Encode(step, a)[j] \in Nat
<1>1. CASE step.insn.operand # 0 /\ j = step.insn.operand + 1
  <2>1. step.target \in Int /\ Len(step.insn.bytes) \in Int
    BY <1>1, StepIs, RemainderOfAddress
  <2>2. step.target - (a + Len(step.insn.bytes)) \in Int
    BY <2>1
  <2>3. (step.target - (a + Len(step.insn.bytes))) % Word \in Nat
    BY <2>2, Wrapped, AddressesAreCells
  <2> QED BY <1>1, <2>3, EncodeIs
<1>2. CASE ~(step.insn.operand # 0 /\ j = step.insn.operand + 1)
  <2>1. step.insn.bytes[j] \in 0 .. 255
    BY StepIs
  <2>2. \A x \in 0 .. 255 : x \in Nat
    OBVIOUS
  <2>3. step.insn.bytes[j] \in Nat
    BY <2>1, <2>2
  <2> QED BY <1>2, <2>3, EncodeIs
<1> QED BY <1>1, <1>2

\* An instruction stays if its bytes do.
LEMMA InsnStays ==
    ASSUME NEW step, IsStep(step), NEW a, NEW m, NEW n, InsnAt(m, a, step),
           \A c \in a .. a + Bytes(step) - 1 : n[c] = m[c]
    PROVE  InsnAt(n, a, step)
<1>1. a \in Int /\ Bytes(step) \in 1 .. 15
  BY StepIs, RemainderOfAddress DEF InsnAt, Bytes
<1>2. \A j \in 1 .. Bytes(step) : a + j - 1 \in a .. a + Bytes(step) - 1
  BY <1>1
<1> QED BY <1>2 DEF InsnAt, Bytes

-----------------------------------------------------------------------------
\* What the function may begin with: its own instructions, or the jump of a hook.
Codes == {program} \cup {JumpCode(g) : g \in Hooks}

LEMMA CodesAre ==
    ASSUME TypeOK, NEW q \in Codes
    PROVE  /\ IsCode(q) /\ Len(q) \in Nat \ {0}
           /\ Size(q) \in Nat /\ Size(q) >= JmpSize
           /\ src \in Nat /\ src + Size(q) <= Word
           /\ Size(q) <= Size(program)
           /\ Offset(q, 1) = 0
           /\ q # program => Len(q) = 1
<1>1. program \in Programs /\ src \in Srcs /\ src \in Nat
  BY SrcIsAddress DEF TypeOK
<1>2. IsCode(program) /\ Size(program) >= JmpSize /\ src + Size(program) <= Word
  BY <1>1, ProgramIsCode, FunctionAssumption DEF FunctionAssumption
<1>3. Size(program) \in Nat /\ Len(program) \in Nat /\ Offset(program, 1) = 0
  <2>1. Len(program) \in Nat
    BY <1>1, ProgramIsCode
  <2>2. Len(program) + 1 \in 1 .. Len(program) + 1
    BY <2>1
  <2> QED BY <1>2, <2>1, <2>2, OffsetIs
<1>4. Len(program) # 0
  <2> SUFFICES ASSUME Len(program) = 0
               PROVE  FALSE
    OBVIOUS
  <2>1. /\ Offset(program, 1) = 0 /\ Offset(program, Len(program) + 1) = Size(program)
    BY <1>2, OffsetIs
  <2>2. Len(program) + 1 = 1
    OBVIOUS
  <2>3. Size(program) = 0
    BY <2>1, <2>2
  <2> QED BY <1>2, <2>3 DEF JmpSize
<1>5. CASE q = program
  <2>1. /\ Size(program) >= JmpSize /\ Size(program) <= Size(program)
        /\ Len(program) \in Nat \ {0}
    BY <1>2, <1>3, <1>4
  <2> QED BY <1>1, <1>2, <1>3, <1>5, <2>1
<1>6. ASSUME NEW g \in Hooks, q = JumpCode(g)
      PROVE  /\ IsCode(q) /\ Len(q) = 1 /\ Size(q) = JmpSize /\ Offset(q, 1) = 0
  BY <1>6, JumpCodeIs
<1>7. src + JmpSize <= Word
  <2> DEFINE z == Size(program)
  <2>1. z \in Nat /\ z >= 5 /\ src + z <= Word /\ JmpSize = 5
    BY <1>2, <1>3 DEF JmpSize
  <2>2. Word \in Nat
    BY SubhookAssumption DEF SubhookAssumption
  <2> HIDE DEF z
  <2> QED BY <1>1, <2>1, <2>2
<1>8. JmpSize \in Nat /\ JmpSize >= JmpSize
  BY DEF JmpSize
<1>9. CASE q # program
  <2>1. PICK g \in Hooks : q = JumpCode(g)
    BY <1>9 DEF Codes
  <2>2. IsCode(q) /\ Len(q) = 1 /\ Size(q) = JmpSize /\ Offset(q, 1) = 0
    BY <1>6, <2>1
  <2> QED BY <1>1, <1>2, <1>7, <1>8, <2>2
<1> QED BY <1>5, <1>9

\* The bytes that the jump of a hook is written over, of some code.
HeadByte(q, k) == MemoryWith(q, src)[src + k - 1]

\* Some bytes are those that some code begins with.
CodeIs(code, q) == \A k \in 1 .. JmpSize : code[k] = HeadByte(q, k)
HeadIsOf(q) == CodeIs(CodeAt(mem, src, JmpSize), q)

LEMMA HeadReads ==
    ASSUME TypeOK, NEW m, NEW q
    PROVE  CodeIs(CodeAt(m, src, JmpSize), q) <=>
               \A k \in 1 .. JmpSize : m[src + k - 1] = HeadByte(q, k)
<1>1. \A k \in 1 .. JmpSize : CodeAt(m, src, JmpSize)[k] = m[src + k - 1]
  BY HeadIs DEF CodeAt
<1> QED BY <1>1 DEF CodeIs

\* All instructions of some code are in the memory.
HoldsAt(m, from, q, first) ==
    \A n \in first .. Len(q) : InsnAt(m, from + Offset(q, n), q[n])

\* A jump is written as the instruction that it is.
LEMMA JumpIsCode ==
    ASSUME TypeOK, NEW g \in Hooks
    PROVE  CodeIs(Jump(src, Dst(g)), JumpCode(g))
<1> DEFINE q == JumpCode(g)
<1>1. q \in Codes
  BY DEF Codes
<1>2. IsCode(q) /\ src \in Nat /\ src + Size(q) <= Word
  BY <1>1, CodesAre
<1>3. q[1] = JumpStep(Dst(g)) /\ Len(q) = 1 /\ Offset(q, 1) = 0
  BY JumpCodeIs
<1> HIDE DEF q
<1>4. InsnAt(MemoryWith(q, src), src + Offset(q, 1), q[1])
  <2>1. 1 \in 1 .. Len(q)
    BY <1>3
  <2> QED BY <1>2, <2>1, MemoryHas
<1>5. src + Offset(q, 1) = src
  BY <1>2, <1>3
<1>6. InsnAt(MemoryWith(q, src), src, JumpStep(Dst(g)))
  BY <1>3, <1>4, <1>5
<1>7. /\ Len(JumpStep(Dst(g)).insn.bytes) = JmpSize
      /\ \A j \in 1 .. JmpSize : Encode(JumpStep(Dst(g)), src)[j] = Jump(src, Dst(g))[j]
  <2>1. src \in Int
    BY <1>2
  <2> QED BY <2>1, PlaceIsAddress, JumpIs
<1> QED BY <1>6, <1>7 DEF InsnAt, CodeIs, HeadByte, q

\* Where the function is, and no trampoline.
LEMMA FunctionIs ==
    ASSUME TypeOK, NEW c \in src .. src + Size(program) - 1
    PROVE  /\ c \in Addresses
           /\ c \notin Outside
           /\ \A h \in Hooks : c # Dst(h)
<1>1. /\ src \in Nat /\ src + Size(program) <= Word /\ Size(program) \in Nat
  BY CodesAre DEF Codes
<1>2. c \in Addresses
  <2>1. Word \in Nat
    BY SubhookAssumption DEF SubhookAssumption
  <2> QED BY <1>1, <2>1 DEF Addresses
<1>3. (src .. src + Size(program) - 1)
          \cap (Outside \cup {Dst(h) : h \in Hooks}) = {}
  BY FunctionAssumption DEF FunctionAssumption, TypeOK
<1> QED BY <1>2, <1>3

\* The function is where it was, but for its first bytes.
RestIn(m) == \A a \in Kept : m[a] = MemoryWith(program, src)[a]

LEMMA RestHolds ==
    ASSUME TypeOK, NEW m, RestIn(m), NEW n \in 1 .. Len(program),
           NEW j \in 1 .. Bytes(program[n]),
           src + Offset(program, n) + j - 1 \notin HeadOf(src)
    PROVE  m[src + Offset(program, n) + j - 1]
               = Encode(program[n], src + Offset(program, n))[j]
<1> DEFINE a == src + Offset(program, n)
           c == a + j - 1
<1>0. /\ IsCode(program) /\ src \in Nat /\ src + Size(program) <= Word
  BY CodesAre DEF Codes
<1>1. InsnAt(MemoryWith(program, src), a, program[n])
  BY <1>0, MemoryHas
<1>2. a \in Nat /\ Bytes(program[n]) \in 1 .. 15
  BY <1>0, StepsApart
<1>3. c \in Addresses
  <2> DEFINE l == Bytes(program[n])
  <2>1. a \in Addresses /\ a + l - 1 \in Addresses /\ l \in 1 .. 15 /\ j \in 1 .. l
    BY <1>1, <1>2 DEF InsnAt, Bytes
  <2> HIDE DEF a, l
  <2> QED BY <2>1, SubhookAssumption DEF SubhookAssumption, Addresses
<1>4. MemoryWith(program, src)[c] = Encode(program[n], a)[j]
  BY <1>1 DEF InsnAt, Bytes
<1>5. Encode(program[n], a)[j] \in Nat
  <2>1. IsStep(program[n]) /\ a \in Int
    BY <1>0, <1>2, CodeSteps
  <2> QED BY <2>1, EncodedIs DEF Bytes
<1>6. c \in Kept
  <2> SUFFICES ASSUME NEW h \in Hooks, c \in AreaOf(h)
               PROVE  FALSE
    BY <1>3 DEF Kept
  <2>1. MemoryWith(program, src)[c] = -1
    BY AreasApart
  <2> HIDE DEF a, c
  <2>2. -1 \in Nat
    BY <1>4, <1>5, <2>1
  <2> QED BY <2>2
<1> QED BY <1>4, <1>6 DEF RestIn

LEMMA RestIsAfter ==
    ASSUME TypeOK, NEW m, RestIn(m), NEW n \in 1 .. Len(program),
           Offset(program, n) >= JmpSize
    PROVE  InsnAt(m, src + Offset(program, n), program[n])
<1> DEFINE a == src + Offset(program, n)
<1>0. /\ IsCode(program) /\ src \in Nat /\ src + Size(program) <= Word
  BY CodesAre DEF Codes
<1>1. InsnAt(MemoryWith(program, src), a, program[n])
  BY <1>0, MemoryHas
<1>2. ASSUME NEW j \in 1 .. Bytes(program[n])
      PROVE  m[a + j - 1] = Encode(program[n], a)[j]
  <2>1. a + j - 1 \notin HeadOf(src)
    <3> DEFINE o == Offset(program, n)
    <3>1. o \in Nat /\ o >= 5 /\ JmpSize = 5 /\ j \in Nat \ {0}
      BY <1>0, StepsApart DEF JmpSize
    <3> HIDE DEF o
    <3>2. src + o + j - 1 \notin src .. src + JmpSize - 1
      BY <1>0, <3>1
    <3> QED BY <3>2 DEF HeadOf, o
  <2> QED BY <2>1, RestHolds
<1> QED BY <1>1, <1>2 DEF InsnAt, Bytes

\* When the first bytes are those of some code, all of it is there.
LEMMA HeadHolds ==
    ASSUME TypeOK, NEW m, RestIn(m), NEW q \in Codes,
           CodeIs(CodeAt(m, src, JmpSize), q)
    PROVE  HoldsAt(m, src, q, 1)
<1>0. /\ IsCode(q) /\ src \in Nat /\ src + Size(q) <= Word
      /\ q # program => Len(q) = 1
  BY CodesAre
<1> SUFFICES ASSUME NEW n \in 1 .. Len(q)
             PROVE  InsnAt(m, src + Offset(q, n), q[n])
  BY DEF HoldsAt
<1> DEFINE a == src + Offset(q, n)
<1>1. InsnAt(MemoryWith(q, src), a, q[n])
  BY <1>0, MemoryHas
<1>2. Offset(q, n) \in Nat /\ Bytes(q[n]) \in 1 .. 15
  BY <1>0, StepsApart
<1>3. ASSUME NEW j \in 1 .. Bytes(q[n])
      PROVE  m[a + j - 1] = Encode(q[n], a)[j]
  <2>1. CASE a + j - 1 \in HeadOf(src)
    <3> DEFINE k == (a + j - 1) - src + 1
    <3>1. k \in 1 .. JmpSize /\ src + k - 1 = a + j - 1
      BY <2>1, HeadIs
    <3> HIDE DEF k
    <3>2. m[src + k - 1] = HeadByte(q, k)
      BY <3>1, HeadReads
    <3>3. MemoryWith(q, src)[a + j - 1] = Encode(q[n], a)[j]
      BY <1>1 DEF InsnAt, Bytes
    <3> HIDE DEF a
    <3> QED BY <3>1, <3>2, <3>3 DEF HeadByte
  <2>2. CASE a + j - 1 \notin HeadOf(src)
    <3>1. CASE q = program
      BY <2>2, <3>1, RestHolds
    <3>2. CASE q # program
      <4>1. PICK g \in Hooks : q = JumpCode(g)
        BY <3>2 DEF Codes
      <4>2. n = 1 /\ Offset(q, n) = 0 /\ Bytes(q[n]) = JmpSize /\ src \in Int
        <5>1. /\ Len(q) = 1 /\ q[1] = JumpStep(Dst(g)) /\ Offset(q, 1) = 0
          BY <4>1, JumpCodeIs
        <5>2. Len(JumpStep(Dst(g)).insn.bytes) = JmpSize
          BY PlaceIsAddress, JumpIs
        <5>3. n = 1
          BY <5>1
        <5> QED BY <1>0, <5>1, <5>2, <5>3 DEF Bytes
      <4>3. j \in 1 .. JmpSize /\ a = src
        BY <1>0, <4>2
      <4>4. src + j - 1 \in HeadOf(src)
        BY <4>3, HeadIs
      <4> QED BY <2>2, <4>3, <4>4
    <3> QED BY <3>1, <3>2
  <2> QED BY <2>1, <2>2
<1> QED BY <1>1, <1>3 DEF InsnAt, Bytes

-----------------------------------------------------------------------------
\* Some code is the function's, or jumps to a hook that is there, as long as the
\* last plugin was the first to go.
Alive(q) == tidy => \A g \in Hooks : q = JumpCode(g) => hook[g] # Null

\* The hooks that a call which runs some code goes through.
Ahead(q) ==
    {f \in Hooks : \E g \in Hooks :
        q = JumpCode(g) /\ hook[g] # Null /\ (f = g \/ Older(f, g))}

\* It is older than a hook; it is the next older one where nothing overwrites it.
Before(q, h) ==
    tidy => /\ \A g \in Hooks : q = JumpCode(g) => Older(g, h)
            /\ Simple => Ahead(q) = {f \in Hooks : Older(f, h)}

\* The hooks that the server's next call goes through, or its next but one.
Jumping(again) == {h \in Hooks : hook[h] # Null /\ (again => ~Overwritten(h))}

HeadKnown ==
    \E q \in Codes :
        /\ Alive(q) /\ HeadIsOf(q)
        /\ tidy /\ Simple /\ ~crashed /\ removed = <<>> =>
              Ahead(q) = Jumping(IF pc = Null THEN calls > 0 ELSE calls > 1)

CodesKnown ==
    \A h \in Hooks : hook[h] # Null =>
        \E q \in Codes : Before(q, h) /\ CodeIs(hook[h].code, q)

TrampolinesKnown ==
    \A h \in Hooks : hook[h] # Null /\ hook[h].trampoline # Null =>
        \E q \in Codes :
            /\ Before(q, h)
            /\ \E K \in 1 .. Len(q) : IsTrampoline(mem, Area(h), src, q, K)

\* The hooks that a call should go through; when it runs some code, what it has
\* visited and what is ahead of it are these.
Expected == {h \in InTheWay : calls > 1 => ~Overwritten(h)}

OnWay(q) ==
    tidy => /\ \A g \in Hooks : q = JumpCode(g) =>
                  /\ hook[g] # Null /\ g \in InTheWay
                  /\ \A n \in DOMAIN visited : Older(g, visited[n])
            /\ Simple => Range(visited) \cup Ahead(q) = Expected

\* Where a call is, and what it has done.
AtHook ==
    \E g \in Hooks : pc = Dst(g) /\ trace = <<>> /\ OnWay(JumpCode(g))

InFunction ==
    \E q \in Codes : \E n \in 1 .. Len(q) :
        /\ OnWay(q)
        /\ pc = src + Offset(q, n) /\ trace = SubSeq(q, 1, n - 1)
        /\ HoldsAt(mem, src, q, n)

InTrampoline ==
    \E h \in Hooks, q \in Codes : \E K, n \in 1 .. Len(q) :
        /\ OnWay(q) /\ n <= K + 1
        /\ pc = Area(h) + Offset(q, n) /\ trace = SubSeq(q, 1, n - 1)
        /\ IsTrampoline(mem, Area(h), src, q, K)

PlaceInv == pc # Null /\ ~crashed => AtHook \/ InFunction \/ InTrampoline

\* What a call has visited, and which hooks it has taken away.
CallerInv ==
    /\ pc # Null => calls > 0
    /\ calls > 0 /\ caller # Null =>
          hook[caller] # Null /\ style[caller] = "trampoline"

VisitedInv ==
    tidy /\ calls > 0 =>
        /\ \A m, n \in DOMAIN visited : m < n => Older(visited[n], visited[m])
        /\ Range(visited) \subseteq InTheWay

RemovedIs ==
    tidy =>
        /\ \A n \in DOMAIN removed :
              /\ removed[n].was /\ style[removed[n].hook] = "remove"
              /\ removed[n].hook \in Range(visited)
        /\ \A m, n \in DOMAIN removed :
              m < n => Older(removed[n].hook, removed[m].hook)
        /\ pc # Null =>
              \A k \in DOMAIN visited : style[visited[k]] = "remove" =>
                  \E n \in DOMAIN removed : removed[n].hook = visited[k]

VisitInv == ~crashed => CallerInv /\ VisitedInv /\ RemovedIs

CallInv ==
    /\ TrampolinesFit /\ HeadKnown /\ CodesKnown /\ TrampolinesKnown
    /\ PlaceInv /\ VisitInv
    /\ CallsRunTheOriginal /\ HooksAreVisited /\ CrashesExplained

-----------------------------------------------------------------------------
\* The jumps of two hooks differ, and none is a function.
LEMMA CodesDiffer ==
    ASSUME TypeOK, NEW g \in Hooks
    PROVE  /\ program # JumpCode(g)
           /\ \A f \in Hooks : JumpCode(f) = JumpCode(g) => f = g
<1>1. \A f \in Hooks : /\ Len(JumpCode(f)) = 1
                       /\ JumpCode(f)[1].target = Dst(f)
                       /\ JumpCode(f)[1].insn.kind = "jmp"
  BY JumpCodeIs, JumpIs, PlaceIsAddress
<1>2. program # JumpCode(g)
  <2> SUFFICES ASSUME program = JumpCode(g)
               PROVE  FALSE
    OBVIOUS
  <2>1. program \in Programs /\ 1 \in DOMAIN program
    BY <1>1, ProgramIsCode DEF TypeOK
  <2>2. program[1].insn.kind = "jmp" /\ program[1].target = Dst(g)
    BY <1>1
  <2>3. program[1].target \in Outside
    BY <2>1, <2>2, FunctionAssumption DEF FunctionAssumption
  <2> QED BY <2>2, <2>3, FunctionAssumption DEF FunctionAssumption
<1>3. ASSUME NEW f \in Hooks, JumpCode(f) = JumpCode(g)
      PROVE  f = g
  <2>1. Dst(f) = Dst(g)
    BY <1>1, <1>3
  <2> QED BY <2>1, FunctionAssumption DEF FunctionAssumption
<1> QED BY <1>2, <1>3

\* Coming before another hook is a strict order of those that are there.
LEMMA OlderIs ==
    ASSUME TypeOK, OrderInv
    PROVE  /\ \A f, g \in Hooks : Older(f, g) =>
                 hook[f] # Null /\ hook[g] # Null /\ ~Older(g, f)
           /\ \A f, g, h \in Hooks : Older(f, g) /\ Older(g, h) => Older(f, h)
           /\ \A f, g \in Hooks : hook[f] # Null /\ hook[g] # Null =>
                 f = g \/ Older(f, g) \/ Older(g, f)
<1>0. DOMAIN order \subseteq Int
  BY OrderType
<1>1. ASSUME NEW f \in Hooks, NEW g \in Hooks, Older(f, g)
      PROVE  hook[f] # Null /\ hook[g] # Null /\ ~Older(g, f)
  <2>1. PICK m, n \in DOMAIN order : m < n /\ order[m] = f /\ order[n] = g
    BY <1>1 DEF Older
  <2>2. hook[f] # Null /\ hook[g] # Null
    BY <2>1 DEF OrderInv
  <2>3. ASSUME NEW k \in DOMAIN order, NEW l \in DOMAIN order,
               k < l, order[k] = g, order[l] = f
        PROVE  FALSE
    <3>1. k = n /\ l = m
      BY <2>1, <2>3 DEF OrderInv
    <3> QED BY <1>0, <2>1, <2>3, <3>1
  <2> QED BY <2>2, <2>3 DEF Older
<1>2. ASSUME NEW f \in Hooks, NEW g \in Hooks, NEW h \in Hooks,
             Older(f, g), Older(g, h)
      PROVE  Older(f, h)
  <2>1. PICK m, n \in DOMAIN order : m < n /\ order[m] = f /\ order[n] = g
    BY <1>2 DEF Older
  <2>2. PICK k, l \in DOMAIN order : k < l /\ order[k] = g /\ order[l] = h
    BY <1>2 DEF Older
  <2>3. k = n
    BY <2>1, <2>2 DEF OrderInv
  <2>4. m < l
    BY <1>0, <2>1, <2>2, <2>3
  <2> QED BY <2>1, <2>2, <2>4 DEF Older
<1>3. ASSUME NEW f \in Hooks, NEW g \in Hooks, hook[f] # Null, hook[g] # Null
      PROVE  f = g \/ Older(f, g) \/ Older(g, f)
  <2>1. PICK m \in DOMAIN order : order[m] = f
    BY <1>3 DEF OrderInv
  <2>2. PICK n \in DOMAIN order : order[n] = g
    BY <1>3 DEF OrderInv
  <2>3. m = n \/ m < n \/ n < m
    BY <1>0
  <2> QED BY <2>1, <2>2, <2>3 DEF Older
<1> QED BY <1>1, <1>2, <1>3

\* What a call goes through that runs some code.
LEMMA AheadIs ==
    ASSUME TypeOK
    PROVE  /\ Ahead(program) = {}
           /\ \A g \in Hooks : hook[g] # Null =>
                 Ahead(JumpCode(g)) = {f \in Hooks : f = g \/ Older(f, g)}
BY CodesDiffer DEF Ahead

LEMMA ProgramIsAlive ==
    ASSUME TypeOK
    PROVE  Alive(program)
BY CodesDiffer DEF Alive

LEMMA JumpIsAlive ==
    ASSUME TypeOK, NEW g \in Hooks, hook[g] # Null
    PROVE  Alive(JumpCode(g))
BY CodesDiffer DEF Alive

LEMMA OlderIsAlive ==
    ASSUME TypeOK, OrderInv, NEW h \in Hooks, NEW q, Before(q, h)
    PROVE  Alive(q)
BY OlderIs DEF Before, Alive

\* A hook that takes itself away has one other beside it at most.
LEMMA SimpleIs ==
    ASSUME Simple, NEW g \in Hooks, NEW h \in Hooks, g # h,
           style[g] # "trampoline"
    PROVE  Hooks = {g, h}
BY DEF Simple

\* A hook that loses its jump is the younger one of two.
LEMMA OverwrittenIs ==
    ASSUME TypeOK, OrderInv, Simple, NEW h \in Hooks, Overwritten(h)
    PROVE  /\ \A f \in Hooks : hook[f] # Null /\ ~Older(h, f)
           /\ style[h] = "trampoline"
           /\ \E g \in Hooks : /\ Older(g, h) /\ style[g] = "remove"
                               /\ Hooks = {g, h}
<1>1. PICK g \in Hooks : Older(g, h) /\ style[g] = "remove"
  BY DEF Overwritten
<1>2. hook[g] # Null /\ hook[h] # Null /\ ~Older(h, g) /\ g # h /\ ~Older(h, h)
  BY <1>1, OlderIs
<1>3. Hooks = {g, h}
  BY <1>1, <1>2, SimpleIs
<1> QED BY <1>1, <1>2, <1>3 DEF Overwritten

\* A hook that is not there: all that are, are in the way of the server's calls.
LEMMA AllJump ==
    ASSUME TypeOK, OrderInv, Simple, NEW h \in Hooks, hook[h] = Null, NEW again
    PROVE  Jumping(again) = {f \in Hooks : hook[f] # Null}
BY OverwrittenIs DEF Jumping

\* Where the instructions of a trampoline are.
LEMMA TrampolineInsns ==
    ASSUME NEW q, IsCode(q), NEW K \in 1 .. Len(q), NEW n \in 1 .. Len(q),
           n <= K + 1, NEW m, NEW start \in Int, NEW from,
           IsTrampoline(m, start, from, q, K)
    PROVE  /\ n <= K => /\ InsnAt(m, start + Offset(q, n), q[n])
                        /\ Offset(q, n) + Bytes(q[n]) <= 20
           /\ n = K + 1 =>
                 InsnAt(m, start + Offset(q, n), JumpStep(from + Offset(q, n)))
           /\ Offset(q, n) \in 0 .. 20
<1>0. Len(q) \in Nat /\ K \in Nat /\ n \in Nat
  BY DEF IsCode
<1>1. Offset(q, K + 1) \in 0 .. 20 /\ Offset(q, K + 1) >= JmpSize
  BY DEF IsTrampoline, JmpSize, TrampolineSize
<1>2. CASE n <= K
  <2>1. n \in 1 .. K
    BY <1>0, <1>2
  <2>2. InsnAt(m, start + Offset(q, n), q[n])
    BY <2>1 DEF IsTrampoline
  <2>3. /\ Offset(q, n + 1) = Offset(q, n) + Bytes(q[n])
        /\ Offset(q, n + 1) <= Offset(q, K + 1)
        /\ Offset(q, n) \in Nat /\ Bytes(q[n]) \in 1 .. 15
    <3>1. n + 1 \in 1 .. Len(q) + 1 /\ K + 1 \in 1 .. Len(q) + 1 /\ n + 1 <= K + 1
      BY <1>0, <1>2
    <3> QED BY <3>1, OffsetIs, StepsApart
  <2> DEFINE o == Offset(q, n)
             l == Bytes(q[n])
             e == Offset(q, K + 1)
  <2>4. o \in Nat /\ l \in 1 .. 15 /\ o + l <= e /\ e \in 0 .. 20
    BY <1>1, <2>3
  <2> HIDE DEF o, l, e
  <2>5. o \in 0 .. 20 /\ o + l <= 20
    BY <2>4
  <2>6. n # K + 1
    BY <1>0, <1>2
  <2> QED BY <2>2, <2>5, <2>6 DEF o, l
<1>3. CASE n = K + 1
  <2>1. K < Len(q) /\ ~(n <= K)
    BY <1>0, <1>3
  <2> QED BY <1>1, <1>3, <2>1 DEF IsTrampoline
<1>4. n <= K \/ n = K + 1
  BY <1>0
<1> QED BY <1>2, <1>3, <1>4

\* A trampoline stays if its memory does.
LEMMA TrampolineStays ==
    ASSUME TypeOK, NEW q \in Codes, NEW K \in 1 .. Len(q), NEW h \in Hooks,
           NEW m, NEW n, IsTrampoline(m, Area(h), src, q, K),
           \A c \in AreaOf(h) : n[c] = m[c]
    PROVE  IsTrampoline(n, Area(h), src, q, K)
<1> DEFINE s == Area(h)
<1>0. IsCode(q) /\ Len(q) \in Nat /\ K \in Nat /\ s \in Int /\ src \in Nat
  BY CodesAre, PlaceIsAddress
<1>1. \A c \in s .. s + 24 : n[c] = m[c]
  BY DEF AreaOf, TrampolineSize, JmpSize
<1>2. ASSUME NEW i \in 1 .. K
      PROVE  InsnAt(n, s + Offset(q, i), q[i])
  <2>1. i \in 1 .. Len(q) /\ i <= K + 1 /\ i <= K
    BY <1>0
  <2>2. /\ InsnAt(m, s + Offset(q, i), q[i])
        /\ Offset(q, i) + Bytes(q[i]) <= 20 /\ Offset(q, i) \in 0 .. 20
    BY <1>0, <2>1, TrampolineInsns
  <2>3. Bytes(q[i]) \in 1 .. 15 /\ IsStep(q[i])
    BY <1>0, <2>1, StepsApart, CodeSteps
  <2> DEFINE o == Offset(q, i)
             l == Bytes(q[i])
  <2>4. \A c \in s + o .. s + o + l - 1 : c \in s .. s + 24
    <3>1. o \in 0 .. 20 /\ l \in 1 .. 15 /\ o + l <= 20
      BY <2>2, <2>3
    <3> HIDE DEF o, l, s
    <3> QED BY <1>0, <3>1
  <2> QED BY <1>1, <2>2, <2>3, <2>4, InsnStays
<1>3. ASSUME K < Len(q)
      PROVE  InsnAt(n, s + Offset(q, K + 1), JumpStep(src + Offset(q, K + 1)))
  <2> DEFINE o == Offset(q, K + 1)
  <2>0. Len(q) # 1 /\ K + 1 \in 1 .. Len(q) /\ K + 1 <= K + 1
    <3> DEFINE N == Len(q)
    <3>1. N \in Nat /\ K \in 1 .. N /\ K < N
      BY <1>0, <1>3
    <3> HIDE DEF N
    <3>2. N # 1 /\ K + 1 \in 1 .. N /\ K + 1 <= K + 1
      BY <3>1
    <3> QED BY <3>2 DEF N
  <2>1. K + 1 \in 1 .. Len(q) /\ K + 1 <= K + 1 /\ q = program
    BY <2>0, CodesAre
  <2>2. InsnAt(m, s + o, JumpStep(src + o)) /\ o \in 0 .. 20
    BY <1>0, <2>1, TrampolineInsns
  <2>3. src + o \in Addresses
    <3>1. /\ o \in Nat /\ Bytes(q[K + 1]) \in 1 .. 15 /\ Size(q) \in Nat
          /\ o + Bytes(q[K + 1]) <= Size(q)
      BY <1>0, <2>1, StepsApart
    <3> DEFINE l == Bytes(q[K + 1])
               z == Size(q)
    <3>2. o \in Nat /\ l \in 1 .. 15 /\ z \in Nat /\ o + l <= z
      BY <3>1
    <3> HIDE DEF o, l, z
    <3>3. src + o \in src .. src + z - 1
      BY <1>0, <3>2
    <3> QED BY <2>1, <3>3, FunctionIs DEF z
  <2> DEFINE t == JumpStep(src + o)
  <2>4. IsStep(t) /\ Bytes(t) = 5
    BY <2>3, JumpIs DEF Bytes, JmpSize
  <2>5. \A c \in s + o .. s + o + 5 - 1 : c \in s .. s + 24
    <3> HIDE DEF o, s
    <3> QED BY <1>0, <2>2
  <2>6. InsnAt(m, s + o, t)
    BY <2>2
  <2> HIDE DEF t, o
  <2>7. InsnAt(n, s + o, t)
    BY <1>1, <2>4, <2>5, <2>6, InsnStays
  <2> QED BY <2>7 DEF t, o
<1> QED BY <1>2, <1>3 DEF IsTrampoline

-----------------------------------------------------------------------------
\* A hook is installed.

\* The trampoline of a new hook.
LEMMA NewTrampoline ==
    ASSUME src \in Srcs, mem \in Memory, NEW h \in Hooks, NEW fails,
           New(h, fails).hook # Null
    PROVE  LET new == New(h, fails)
               code == MakeTrampoline(Area(h), src)
           IN  /\ new.hook.trampoline = Null =>
                      new.mem = mem /\ new.hook.trampoline_len = 0
               /\ new.hook.trampoline # Null =>
                      /\ code # Null /\ code \in Seq(Cells)
                      /\ new.hook.trampoline_len = Len(code)
                      /\ new.mem = Written(mem, Area(h), code)
               /\ new.writable = Unprotected(src, JmpSize)
<1> DEFINE error == fails \cap {"calloc", "malloc", "mprotect"} # {}
           code == IF "mmap" \in fails THEN Null
                   ELSE MakeTrampoline(Area(h), src)
           struct == [code |-> CodeAt(mem, src, JmpSize),
                      trampoline |-> IF code = Null THEN Null ELSE Area(h),
                      trampoline_len |-> IF code = Null THEN 0 ELSE Len(code),
                      installed |-> TRUE]
           new == New(h, fails)
<1>1. /\ new.hook = IF error THEN Null ELSE struct
      /\ new.mem = IF error \/ code = Null THEN mem
                   ELSE Written(mem, Area(h), code)
      /\ new.writable = IF error THEN {} ELSE Unprotected(src, JmpSize)
  BY DEF New
<1>2. MakeTrampoline(Area(h), src) = Null \/ MakeTrampoline(Area(h), src) \in Seq(Cells)
  BY SrcIsAddress, PlaceIsAddress, TrampolineType
<1> HIDE DEF error, new
<1>3. ~error /\ new.hook = struct
  BY <1>1 DEF new
<1>4. Area(h) # Null
  BY PlaceIsAddress, NullIsNothing
<1>5. CASE code = Null
  BY <1>1, <1>3, <1>4, <1>5 DEF new
<1>6. CASE code # Null
  <2>1. code = MakeTrampoline(Area(h), src)
    BY <1>6
  <2> HIDE DEF code
  <2>2. /\ new.hook.trampoline = Area(h) /\ new.hook.trampoline_len = Len(code)
        /\ new.mem = Written(mem, Area(h), code)
        /\ new.writable = Unprotected(src, JmpSize)
    BY <1>1, <1>3, <1>6
  <2> QED BY <1>2, <1>4, <1>6, <2>1, <2>2 DEF new
<1> QED BY <1>5, <1>6

\* The trampoline that is made is one for the code that is there.
LEMMA MadeIs ==
    ASSUME TypeOK, RestInv, \A i \in Insns : Agrees(i),
           NEW q \in Codes, HeadIsOf(q), NEW h \in Hooks,
           MakeTrampoline(Area(h), src) # Null
    PROVE  LET code == MakeTrampoline(Area(h), src)
           IN  /\ Len(code) <= TrampolineSize
               /\ \A m : (\A j \in 1 .. Len(code) : m[Area(h) + j - 1] = code[j]) =>
                      \E K \in 1 .. Len(q) : IsTrampoline(m, Area(h), src, q, K)
<1>1. /\ IsCode(q) /\ Size(q) >= JmpSize /\ src \in Addresses
      /\ src + Size(q) <= Word
  BY CodesAre, SrcIsAddress DEF TypeOK
<1>2. Hookable(q)
  <2>1. \A n \in 1 .. Len(q) : q[n].insn \in Insns
    BY <1>1, StepOf
  <2> QED BY <1>1, <2>1 DEF Hookable
<1>3. Begins(mem, src, q)
  BY HeadHolds DEF HoldsAt, Begins, RestInv, RestIn, HeadIsOf
<1>4. FitsAt(src, q)
  BY <1>1 DEF FitsAt
<1>5. RoomAt(Area(h))
  <2>1. Area(h) \in Addresses /\ Area(h) \in Nat
    BY PlaceIsAddress
  <2>2. Area(h) + TrampolineSize - 1 \in AreaOf(h)
    BY <2>1 DEF AreaOf, TrampolineSize, JmpSize
  <2> QED BY <2>1, <2>2, AreasApart DEF RoomAt
<1>6. mem \in Memory
  BY DEF TypeOK, Memory
<1> QED BY <1>2, <1>3, <1>4, <1>5, <1>6, TrampolineIs

\* What the memory is then.
LEMMA InstalledIs ==
    ASSUME TypeOK, NEW h \in Hooks, NEW fails, InstallNew(h, fails),
           New(h, fails).hook # Null
    PROVE  /\ hook'[h] = New(h, fails).hook
           /\ \A g \in Hooks \ {h} : hook'[g] = hook[g]
           /\ order' = Append(order, h)
           /\ HeadIsOf(JumpCode(h))'
           /\ \A a \in Addresses \ HeadOf(src) : mem'[a] = New(h, fails).mem[a]
<1> DEFINE new == New(h, fails)
           jump == Jump(src, Dst(h))
<1>1. /\ hook' = [hook EXCEPT ![h] = new.hook]
      /\ mem' = Written(new.mem, src, jump)
      /\ order' = Append(order, h)
      /\ src' = src /\ program' = program
  BY DEF InstallNew
<1>2. /\ jump \in Seq(Cells) /\ Len(jump) = JmpSize
      /\ src \in Int /\ JmpSize = 5
  BY SrcIsAddress, PlaceIsAddress, JumpType DEF TypeOK, JmpSize
<1> HIDE DEF new, jump
<1>3. \A a \in Addresses : mem'[a] = IF a \in HeadOf(src) THEN jump[a - src + 1]
                                    ELSE new.mem[a]
  <2> SUFFICES ASSUME NEW a \in Addresses
               PROVE  mem'[a] = IF a \in HeadOf(src) THEN jump[a - src + 1]
                                ELSE new.mem[a]
    OBVIOUS
  <2> DEFINE m == new.mem
  <2> HIDE DEF m
  <2>0. src \in Int /\ jump \in Seq(Cells)
    BY <1>2
  <2>1. Written(m, src, jump)[a] =
            IF a \in src .. src + Len(jump) - 1 THEN jump[a - src + 1] ELSE m[a]
    BY <2>0, WrittenIs
  <2>2. Len(jump) = JmpSize
    BY <1>2
  <2> QED BY <1>1, <2>1, <2>2 DEF HeadOf, m
<1>4. ASSUME NEW k \in 1 .. JmpSize
      PROVE  CodeAt(mem', src, JmpSize)[k] = HeadByte(JumpCode(h), k)
  <2>1. /\ src + k - 1 \in HeadOf(src) /\ (src + k - 1) % Word = src + k - 1
        /\ HeadOf(src) \subseteq Addresses
    BY HeadIs
  <2>2. mem'[src + k - 1] = jump[(src + k - 1) - src + 1]
    BY <1>3, <2>1
  <2>3. (src + k - 1) - src + 1 = k
    BY <1>2
  <2>4. jump[k] = HeadByte(JumpCode(h), k)
    BY JumpIsCode DEF CodeIs, jump
  <2> QED BY <2>1, <2>2, <2>3, <2>4 DEF CodeAt
<1>5. HeadIsOf(JumpCode(h))'
  BY <1>1, <1>4 DEF HeadIsOf, CodeIs, HeadByte
<1> QED BY <1>1, <1>3, <1>5 DEF new, TypeOK

\* A failure changes nothing of this.
LEMMA FailureKeepsKnown ==
    ASSUME TypeOK, CallInv, NEW h \in Hooks, NEW fails, InstallNew(h, fails),
           New(h, fails).hook = Null
    PROVE  mem' = mem /\ order' = order /\ hook' = hook
<1> QED BY DEF InstallNew, TypeOK

LEMMA InstallKeepsKnown ==
    ASSUME TypeInv, OrderInv, RestInv, CallInv, \A i \in Insns : Agrees(i),
           NEW h \in Hooks, NEW fails, InstallNew(h, fails)
    PROVE  /\ TrampolinesFit' /\ HeadKnown' /\ CodesKnown' /\ TrampolinesKnown'
<1> USE DEF TypeInv
<1> DEFINE new == New(h, fails)
           code == MakeTrampoline(Area(h), src)
<1>1. /\ hook[h] = Null /\ tidy /\ tidy' = tidy
      /\ src' = src /\ program' = program /\ Codes' = Codes
  BY DEF InstallNew, Codes
<1>2. pc = Null /\ pc' = Null /\ ~crashed /\ removed = <<>> /\ calls' = 0
  BY DEF InstallNew, callVars, RemovedInv
<1>a. PICK p \in Codes :
          /\ Alive(p) /\ HeadIsOf(p)
          /\ Simple => Ahead(p) = {f \in Hooks : hook[f] # Null}
  <2>1. PICK p \in Codes :
            /\ Alive(p) /\ HeadIsOf(p)
            /\ tidy /\ Simple /\ ~crashed /\ removed = <<>> =>
                  Ahead(p) = Jumping(IF pc = Null THEN calls > 0 ELSE calls > 1)
    BY DEF CallInv, HeadKnown
  <2> QED BY <1>1, <1>2, <2>1, AllJump
<1>3. CASE new.hook = Null
  <2>1. mem' = mem /\ order' = order /\ hook' = hook
    BY <1>3, FailureKeepsKnown
  <2>2. \A q : /\ Alive(q)' <=> Alive(q)
               /\ Ahead(q)' = Ahead(q)
               /\ HeadIsOf(q)' <=> HeadIsOf(q)
               /\ \A g \in Hooks : Before(q, g)' <=> Before(q, g)
    BY <1>1, <2>1 DEF Alive, Ahead, Before, Older, Simple, HeadIsOf, CodeIs,
       HeadByte, InstallNew
  <2>3. /\ Simple' <=> Simple
        /\ Jumping(IF pc = Null THEN calls > 0 ELSE calls > 1)'
              = {f \in Hooks : hook[f] # Null}
    BY <1>2, <2>1 DEF Simple, Jumping, InstallNew
  <2>4. HeadKnown'
    <3>1. p \in Codes' /\ Alive(p)' /\ HeadIsOf(p)'
      BY <1>1, <1>a, <2>2
    <3>2. Simple' =>
              Ahead(p)' = Jumping(IF pc = Null THEN calls > 0 ELSE calls > 1)'
      BY <1>a, <2>2, <2>3
    <3> QED BY <3>1, <3>2 DEF HeadKnown
  <2>5. TrampolinesFit' /\ CodesKnown'
    BY <1>1, <2>1, <2>2 DEF CallInv, TrampolinesFit, CodesKnown, CodeIs, HeadByte
  <2>6. TrampolinesKnown'
    BY <1>1, <2>1, <2>2 DEF CallInv, TrampolinesKnown
  <2> QED BY <2>4, <2>5, <2>6
<1>4. CASE new.hook # Null
  <2>0. mem \in Memory /\ src \in Srcs
    BY DEF TypeOK, Memory
  <2>1. /\ hook'[h] = new.hook
        /\ \A g \in Hooks \ {h} : hook'[g] = hook[g]
        /\ order' = Append(order, h)
        /\ HeadIsOf(JumpCode(h))'
        /\ \A a \in Addresses \ HeadOf(src) : mem'[a] = new.mem[a]
    BY <1>4, InstalledIs
  <2>2. /\ new.hook.code = CodeAt(mem, src, JmpSize)
        /\ new.hook.trampoline \in {Null, Area(h)}
    BY <1>4, <2>0, NewIs
  <2>3. /\ new.hook.trampoline = Null =>
               new.mem = mem /\ new.hook.trampoline_len = 0
        /\ new.hook.trampoline # Null =>
               /\ code # Null /\ code \in Seq(Cells)
               /\ new.hook.trampoline_len = Len(code)
               /\ new.mem = Written(mem, Area(h), code)
    BY <1>4, <2>0, NewTrampoline
  <2>4. new.hook.trampoline # Null =>
            /\ Len(code) <= TrampolineSize
            /\ \A m : (\A j \in 1 .. Len(code) : m[Area(h) + j - 1] = code[j]) =>
                   \E K \in 1 .. Len(p) : IsTrampoline(m, Area(h), src, p, K)
    BY <1>a, <2>3, MadeIs
  <2> HIDE DEF new, code
  <2>5. /\ DOMAIN order = 1 .. Len(order) /\ Len(order) \in Nat
        /\ DOMAIN order' = 1 .. Len(order) + 1
        /\ \A n \in 1 .. Len(order) : order'[n] = order[n]
        /\ order'[Len(order) + 1] = h
    BY <2>1, OrderType, AppendProperties, LenProperties
  \* It comes after all others, whose order stays.
  <2>o. /\ \A f, g \in Hooks : g # h => (Older(f, g)' <=> Older(f, g))
        /\ \A f \in Hooks : Older(f, h)' <=> hook[f] # Null
    <3>1. ASSUME NEW f \in Hooks, NEW g \in Hooks, g # h
          PROVE  Older(f, g)' <=> Older(f, g)
      <4>1. ASSUME Older(f, g)
            PROVE  Older(f, g)'
        BY <2>5, <4>1 DEF Older
      <4>2. ASSUME Older(f, g)'
            PROVE  Older(f, g)
        <5>1. PICK m, n \in DOMAIN order' : m < n /\ order'[m] = f /\ order'[n] = g
          BY <4>2 DEF Older
        <5>2. n # Len(order) + 1
          BY <2>5, <3>1, <5>1
        <5> DEFINE l == Len(order)
        <5> HIDE DEF l
        <5>3. /\ DOMAIN order = 1 .. l /\ DOMAIN order' = 1 .. l + 1 /\ l \in Nat
              /\ \A k \in 1 .. l : order'[k] = order[k]
              /\ n # l + 1
          BY <2>5, <5>2 DEF l
        <5>4. m \in 1 .. l /\ n \in 1 .. l
          BY <5>1, <5>3
        <5> QED BY <5>1, <5>3, <5>4 DEF Older
      <4> QED BY <4>1, <4>2
    <3>2. ASSUME NEW f \in Hooks
          PROVE  Older(f, h)' <=> hook[f] # Null
      <4>1. ASSUME hook[f] # Null
            PROVE  Older(f, h)'
        <5>1. PICK m \in DOMAIN order : order[m] = f
          BY <4>1 DEF OrderInv
        <5>2. /\ m \in DOMAIN order' /\ Len(order) + 1 \in DOMAIN order'
              /\ m < Len(order) + 1 /\ order'[m] = f
          BY <2>5, <5>1
        <5> QED BY <2>5, <5>2 DEF Older
      <4>2. ASSUME Older(f, h)'
            PROVE  hook[f] # Null
        <5>1. PICK m, n \in DOMAIN order' : m < n /\ order'[m] = f /\ order'[n] = h
          BY <4>2 DEF Older
        <5> DEFINE l == Len(order)
        <5> HIDE DEF l
        <5>2. /\ DOMAIN order = 1 .. l /\ DOMAIN order' = 1 .. l + 1 /\ l \in Nat
              /\ \A k \in 1 .. l : order'[k] = order[k]
          BY <2>5 DEF l
        <5>3. m \in 1 .. l
          BY <5>1, <5>2
        <5> QED BY <5>1, <5>2, <5>3 DEF OrderInv
      <4> QED BY <4>1, <4>2
    <3> QED BY <3>1, <3>2
  <2>s. Simple' <=> Simple
    BY DEF Simple, InstallNew
  \* What a call goes through that runs some code of before.
  <2>b. ASSUME NEW q, \A g \in Hooks : q = JumpCode(g) => hook[g] # Null
        PROVE  Ahead(q)' = Ahead(q)
    <3>1. ASSUME NEW f \in Hooks, NEW g \in Hooks, q = JumpCode(g)
          PROVE  hook'[g] # Null /\ hook[g] # Null /\ (Older(f, g)' <=> Older(f, g))
      BY <1>1, <2>1, <2>b, <2>o, <3>1
    <3> QED BY <3>1 DEF Ahead
  <2>6. ASSUME NEW q, NEW g \in Hooks, hook[g] # Null, Before(q, g)
        PROVE  Before(q, g)'
    <3>1. g # h
      BY <1>1, <2>6
    <3>2. \A f \in Hooks : q = JumpCode(f) => Older(f, g)
      BY <1>1, <2>6 DEF Before
    <3>3. Ahead(q)' = Ahead(q)
      BY <2>b, <3>2, OlderIs
    <3> QED BY <1>1, <2>6, <2>o, <2>s, <3>1, <3>3 DEF Before
  <2>7. Before(p, h)'
    <3>1. \A g \in Hooks : p = JumpCode(g) => hook[g] # Null
      BY <1>1, <1>a DEF Alive
    <3>2. Ahead(p)' = Ahead(p)
      BY <2>b, <3>1
    <3> QED BY <1>a, <2>o, <2>s, <3>1, <3>2 DEF Before
  \* The memory of the other trampolines stays.
  <2>8. ASSUME NEW g \in Hooks \ {h}, NEW a \in AreaOf(g)
        PROVE  mem'[a] = mem[a]
    <3>1. a \in Addresses \ HeadOf(src) /\ a \notin AreaOf(h)
      BY AreasApart
    <3>2. CASE new.hook.trampoline = Null
      BY <2>1, <2>3, <3>1, <3>2
    <3>3. CASE new.hook.trampoline # Null
      <4>1. Area(h) \in Int /\ Len(code) \in Nat /\ TrampolineSize \in Nat
        BY <2>3, <3>3, PlaceIsAddress, LenProperties DEF TrampolineSize, JmpSize
      <4>2. a \notin Area(h) .. Area(h) + Len(code) - 1
        <5> DEFINE l == Len(code)
        <5>1. l \in Nat /\ l <= TrampolineSize
          BY <2>4, <3>3, <4>1
        <5> HIDE DEF l
        <5>2. a \notin Area(h) .. Area(h) + l - 1
          BY <3>1, <4>1, <5>1 DEF AreaOf
        <5> QED BY <5>2 DEF l
      <4>3. new.mem[a] = mem[a]
        BY <2>3, <3>1, <3>3, <4>1, <4>2, WrittenIs
      <4> QED BY <2>1, <3>1, <4>3
    <3> QED BY <3>2, <3>3
  <2>9. ASSUME new.hook.trampoline # Null, NEW j \in 1 .. Len(code)
        PROVE  mem'[Area(h) + j - 1] = code[j]
    <3>1. Area(h) \in Int /\ Len(code) \in Nat /\ TrampolineSize \in Nat
      BY <2>3, <2>9, PlaceIsAddress, LenProperties DEF TrampolineSize, JmpSize
    <3>2. Len(code) <= TrampolineSize
      BY <2>4, <2>9
    <3> DEFINE l == Len(code)
               a == Area(h) + j - 1
    <3>3. a \in AreaOf(h) /\ a \in Area(h) .. Area(h) + l - 1 /\ a - Area(h) + 1 = j
      <4>1. l \in Nat /\ l <= TrampolineSize /\ j \in 1 .. l
        BY <3>1, <3>2
      <4> HIDE DEF l
      <4> QED BY <3>1, <4>1 DEF AreaOf
    <3> HIDE DEF a
    <3>4. a \in Addresses \ HeadOf(src)
      BY <3>3, AreasApart
    <3>5. new.mem[a] = code[a - Area(h) + 1]
      BY <2>3, <2>9, <3>1, <3>3, <3>4, WrittenIs
    <3> QED BY <2>1, <3>3, <3>4, <3>5 DEF a
  <2>10. TrampolinesFit'
    <3>1. \A g \in Hooks \ {h} : hook'[g] # Null =>
                                    hook'[g].trampoline_len <= TrampolineSize
      BY <2>1 DEF CallInv, TrampolinesFit
    <3>2. new.hook.trampoline_len <= TrampolineSize
      <4>1. 0 <= TrampolineSize
        BY DEF TrampolineSize, JmpSize
      <4> QED BY <2>3, <2>4, <4>1
    <3> QED BY <2>1, <3>1, <3>2 DEF TrampolinesFit
  <2>11. HeadKnown'
    <3>1. JumpCode(h) \in Codes'
      BY <1>1 DEF Codes
    <3>2. \A g \in Hooks : JumpCode(h) = JumpCode(g) <=> g = h
      BY CodesDiffer
    <3>3. hook'[h] # Null
      BY <1>4, <2>1
    <3>4. Alive(JumpCode(h))'
      BY <3>2, <3>3 DEF Alive
    <3>5. Ahead(JumpCode(h))' = {f \in Hooks : hook'[f] # Null}
      BY <1>1, <2>1, <2>o, <3>2, <3>3 DEF Ahead
    <3>6. Jumping(IF pc = Null THEN calls > 0 ELSE calls > 1)'
              = {f \in Hooks : hook'[f] # Null}
      BY <1>2 DEF Jumping
    <3> QED BY <2>1, <3>1, <3>4, <3>5, <3>6 DEF HeadKnown
  <2>12. CodesKnown'
    <3> SUFFICES ASSUME NEW g \in Hooks, hook'[g] # Null
                 PROVE  \E q \in Codes : /\ Before(q, g)'
                                         /\ CodeIs(hook[g].code, q)'
      BY <1>1 DEF CodesKnown
    <3>1. \A c, q : CodeIs(c, q) <=> \A k \in 1 .. JmpSize :
                                       c[k] = MemoryWith(q, src')[src' + k - 1]
      BY <1>1 DEF CodeIs, HeadByte
    <3>2. CASE g = h
      <4>1. CodeIs(hook'[h].code, p)
        BY <1>a, <2>1, <2>2 DEF HeadIsOf
      <4>2. CodeIs(hook[h].code, p)'
        BY <3>1, <4>1 DEF CodeIs, HeadByte
      <4> QED BY <2>7, <3>2, <4>2
    <3>3. CASE g # h
      <4>0. hook[g] # Null
        BY <2>1, <3>3
      <4>1. PICK q \in Codes : Before(q, g) /\ CodeIs(hook[g].code, q)
        BY <4>0 DEF CallInv, CodesKnown
      <4>2. CodeIs(hook'[g].code, q)
        BY <2>1, <3>3, <4>1
      <4>3. CodeIs(hook[g].code, q)'
        BY <3>1, <4>2 DEF CodeIs, HeadByte
      <4> QED BY <2>6, <4>0, <4>1, <4>3
    <3> QED BY <3>2, <3>3
  <2>13. TrampolinesKnown'
    <3> SUFFICES ASSUME NEW g \in Hooks, hook'[g] # Null, hook'[g].trampoline # Null
                 PROVE  \E q \in Codes :
                            /\ Before(q, g)'
                            /\ \E K \in 1 .. Len(q) :
                                  IsTrampoline(mem', Area(g), src, q, K)
      BY <1>1 DEF TrampolinesKnown
    <3>1. CASE g = h
      <4>1. new.hook.trampoline # Null
        BY <2>1, <3>1
      <4>2. \E K \in 1 .. Len(p) : IsTrampoline(mem', Area(h), src, p, K)
        BY <2>4, <2>9, <4>1
      <4> QED BY <1>a, <2>7, <3>1, <4>2
    <3>2. CASE g # h
      <4>0. hook[g] # Null
        BY <2>1, <3>2
      <4>1. PICK q \in Codes :
                /\ Before(q, g)
                /\ \E K \in 1 .. Len(q) : IsTrampoline(mem, Area(g), src, q, K)
        BY <2>1, <3>2, <4>0 DEF CallInv, TrampolinesKnown
      <4>2. PICK K \in 1 .. Len(q) : IsTrampoline(mem, Area(g), src, q, K)
        BY <4>1
      <4>3. IsTrampoline(mem', Area(g), src, q, K)
        BY <2>8, <3>2, <4>2, TrampolineStays
      <4> QED BY <2>6, <4>0, <4>1, <4>3
    <3> QED BY <3>1, <3>2
  <2> QED BY <2>10, <2>11, <2>12, <2>13
<1> QED BY <1>3, <1>4

\* The first bytes of the function can be written if they are on one page.
LEMMA OnePage ==
    ASSUME TypeOK, Page(src) = Page(src + JmpSize - 1),
           NEW pages, Unprotected(src, JmpSize) \subseteq pages
    PROVE  CanWrite(pages)
<1> DEFINE P == Page(src)
<1>1. src \in Nat /\ PageSize \in Nat \ {0} /\ JmpSize = 5
  BY SrcIsAddress, SubhookAssumption DEF TypeOK, SubhookAssumption, JmpSize
<1>2. P \in Int /\ Page(P * PageSize + JmpSize - 1) \in Int
      /\ P <= Page(P * PageSize + JmpSize - 1)
  <2>1. \A d \in Nat \ {0}, x \in Int : x \div d \in Int
    OBVIOUS
  <2>2. P \in Int
    BY <1>1, <2>1 DEF Page
  <2> HIDE DEF P
  <2>3. P * PageSize \in Int /\ P * PageSize + JmpSize - 1 \in Int
    BY <1>1, <2>2
  <2>4. P <= (P * PageSize + 4) \div PageSize
    <3> DEFINE y == (P * PageSize + 4) \div PageSize
    <3>1. \A d \in Nat \ {0}, x \in Int : x < (x \div d) * d + d
      OBVIOUS
    <3>2. P * PageSize + 4 < y * PageSize + PageSize /\ y \in Int
      BY <1>1, <2>1, <2>3, <3>1
    <3> HIDE DEF y
    <3>3. P < y + 1
      <4> SUFFICES ASSUME y + 1 <= P
                   PROVE  FALSE
        BY <2>2, <3>2
      <4>1. (y + 1) * PageSize <= P * PageSize
        BY <1>1, <2>2, <3>2
      <4>2. (y + 1) * PageSize = y * PageSize + PageSize
        BY <1>1, <3>2
      <4> DEFINE a == y * PageSize
                 b == P * PageSize
      <4>3. a \in Int /\ b \in Int /\ b + 4 < a + PageSize /\ a + PageSize <= b
        BY <1>1, <2>3, <3>2, <4>1, <4>2
      <4> HIDE DEF a, b
      <4> QED BY <1>1, <4>3
    <3> QED BY <2>2, <3>2, <3>3 DEF y
  <2> QED BY <1>1, <2>1, <2>2, <2>3, <2>4 DEF Page
<1>3. Unprotected(src, JmpSize) = P .. Page(P * PageSize + JmpSize - 1)
  BY DEF Unprotected
<1> HIDE DEF P
<1>4. P \in Unprotected(src, JmpSize)
  BY <1>2, <1>3
<1>5. Page(src) .. Page(src + JmpSize - 1) = {P}
  BY <1>2 DEF P
<1> QED BY <1>4, <1>5 DEF CanWrite

-----------------------------------------------------------------------------
\* A hook goes.

\* The code of a hook goes back.
LEMMA HeadAfterRestore ==
    ASSUME TypeOK, NEW h \in Hooks, hook[h] # Null, hook[h].installed,
           NEW q \in Codes, CodeIs(hook[h].code, q),
           NEW m, \A a \in HeadOf(src) : m[a] = RestoreCode(mem, h)[a]
    PROVE  CodeIs(CodeAt(m, src, JmpSize), q)
<1> SUFFICES ASSUME NEW k \in 1 .. JmpSize
             PROVE  CodeAt(m, src, JmpSize)[k] = HeadByte(q, k)
  BY DEF CodeIs
<1>1. /\ src + k - 1 \in HeadOf(src) /\ (src + k - 1) % Word = src + k - 1
      /\ HeadOf(src) \subseteq Addresses /\ src \in Int
  BY HeadIs
<1>2. m[src + k - 1] = hook[h].code[(src + k - 1) - src + 1]
  BY <1>1, RestoredIs
<1>3. (src + k - 1) - src + 1 = k
  BY <1>1
<1>4. CodeAt(m, src, JmpSize)[k] = m[src + k - 1]
  BY <1>1 DEF CodeAt
<1> QED BY <1>2, <1>3, <1>4 DEF CodeIs

LEMMA DestroyKeepsKnown ==
    ASSUME TypeInv, OrderInv, CallInv, NEW h \in Hooks, DestroyHook(h)
    PROVE  /\ TrampolinesFit' /\ HeadKnown' /\ CodesKnown' /\ TrampolinesKnown'
<1> USE DEF TypeInv
<1> DEFINE k == CHOOSE n \in DOMAIN order : order[n] = h
<1>1. /\ hook[h] # Null /\ pc = Null
      /\ hook' = [hook EXCEPT ![h] = Null]
      /\ order' = RemoveAt(order, k)
      /\ tidy' = (tidy /\ Last(order) = h)
      /\ src' = src /\ program' = program /\ Codes' = Codes
  BY DEF DestroyHook, Codes
<1>2. k \in DOMAIN order /\ order[k] = h
  BY <1>1 DEF OrderInv
<1> HIDE DEF k
<1>3. \A g \in Hooks : hook'[g] = IF g = h THEN Null ELSE hook[g]
  BY <1>1 DEF TypeOK
<1>4. /\ DOMAIN order = 1 .. Len(order) /\ Len(order) \in Nat
      /\ DOMAIN order' = 1 .. Len(order) - 1
      /\ \A n \in 1 .. Len(order) - 1 :
            order'[n] = order[IF n < k THEN n ELSE n + 1]
  BY <1>1, <1>2, OrderType, RemovedAt
\* When it was the last to come, the others keep their places.
<1>5. tidy' => /\ tidy /\ k = Len(order)
               /\ \A n \in DOMAIN order : n # k =>
                     n \in DOMAIN order' /\ order'[n] = order[n]
  <2> SUFFICES ASSUME tidy'
               PROVE  /\ tidy /\ k = Len(order)
                      /\ \A n \in DOMAIN order : n # k =>
                            n \in DOMAIN order' /\ order'[n] = order[n]
    OBVIOUS
  <2>1. tidy /\ order[Len(order)] = h
    BY <1>1 DEF Last, TypeOK
  <2>2. Len(order) \in DOMAIN order
    BY <1>2, <1>4
  <2>3. k = Len(order)
    BY <1>2, <2>1, <2>2 DEF OrderInv
  <2>4. ASSUME NEW n \in DOMAIN order, n # k
        PROVE  n \in DOMAIN order' /\ order'[n] = order[n]
    BY <1>4, <2>3, <2>4
  <2> QED BY <2>1, <2>3, <2>4
<1>o. tidy' => /\ \A f \in Hooks : Older(f, h) <=> hook[f] # Null /\ f # h
               /\ \A f, g \in Hooks : g # h =>
                     (Older(f, g)' <=> Older(f, g)) /\ ~Older(h, g)
  <2> SUFFICES ASSUME tidy'
               PROVE  /\ \A f \in Hooks : Older(f, h) <=> hook[f] # Null /\ f # h
                      /\ \A f, g \in Hooks : g # h =>
                            (Older(f, g)' <=> Older(f, g)) /\ ~Older(h, g)
    OBVIOUS
  <2> DEFINE l == Len(order)
  <2>1. /\ l \in Nat /\ k = l /\ k \in 1 .. l /\ order[k] = h
        /\ DOMAIN order = 1 .. l /\ DOMAIN order' = 1 .. l - 1
        /\ \A n \in 1 .. l - 1 : order'[n] = order[n]
    BY <1>2, <1>4, <1>5
  <2> HIDE DEF l
  <2>2. ASSUME NEW g \in Hooks, Older(h, g)
        PROVE  FALSE
    <3>1. PICK m, n \in DOMAIN order : m < n /\ order[m] = h /\ order[n] = g
      BY <2>2 DEF Older
    <3>2. m = k
      BY <2>1, <3>1 DEF OrderInv
    <3> QED BY <2>1, <3>1, <3>2
  <2>3. ASSUME NEW f \in Hooks
        PROVE  Older(f, h) <=> hook[f] # Null /\ f # h
    BY <1>1, <2>2, OlderIs
  <2>4. ASSUME NEW f \in Hooks, NEW g \in Hooks, g # h
        PROVE  Older(f, g)' <=> Older(f, g)
    <3>1. ASSUME Older(f, g)
          PROVE  Older(f, g)'
      <4>1. PICK m, n \in DOMAIN order : m < n /\ order[m] = f /\ order[n] = g
        BY <3>1 DEF Older
      <4>2. m \in 1 .. l - 1 /\ n \in 1 .. l - 1
        BY <2>1, <2>4, <4>1
      <4> QED BY <2>1, <4>1, <4>2 DEF Older
    <3>2. ASSUME Older(f, g)'
          PROVE  Older(f, g)
      <4>1. PICK m, n \in DOMAIN order' : m < n /\ order'[m] = f /\ order'[n] = g
        BY <3>2 DEF Older
      <4>2. /\ m \in 1 .. l /\ n \in 1 .. l
            /\ order[m] = f /\ order[n] = g
        BY <2>1, <4>1
      <4> QED BY <2>1, <4>1, <4>2 DEF Older
    <3> QED BY <3>1, <3>2
  <2> QED BY <2>2, <2>3, <2>4
<1>s. Simple' <=> Simple
  BY DEF Simple, DestroyHook
\* What a call goes through that ran into an older hook.
<1>b. ASSUME NEW q, NEW g \in Hooks, tidy',
             \A f \in Hooks : q = JumpCode(f) => Older(f, g)
      PROVE  Ahead(q)' = Ahead(q)
  <2>1. ASSUME NEW e \in Hooks, NEW f \in Hooks, q = JumpCode(f)
        PROVE  /\ hook'[f] # Null <=> hook[f] # Null
               /\ Older(e, f)' <=> Older(e, f)
    <3>1. Older(f, g)
      BY <1>b, <2>1
    <3>2. f # h
      BY <1>b, <1>o, <3>1, OlderIs
    <3> QED BY <1>3, <1>b, <1>o, <3>2
  <2> QED BY <2>1 DEF Ahead
<1>6. ASSUME NEW q, NEW g \in Hooks, g # h, Before(q, g)
      PROVE  Before(q, g)'
  <2> SUFFICES ASSUME tidy'
               PROVE  Before(q, g)'
    BY DEF Before
  <2>1. /\ \A f \in Hooks : q = JumpCode(f) => Older(f, g)
        /\ Simple => Ahead(q) = {f \in Hooks : Older(f, g)}
    BY <1>5, <1>6 DEF Before
  <2>2. Ahead(q)' = Ahead(q)
    BY <1>b, <2>1
  <2>3. \A f \in Hooks : Older(f, g)' <=> Older(f, g)
    BY <1>6, <1>o
  <2> QED BY <1>s, <2>1, <2>2, <2>3 DEF Before
<1>7. TrampolinesFit'
  BY <1>3 DEF CallInv, TrampolinesFit
<1>8. PICK p \in Codes : Before(p, h) /\ CodeIs(hook[h].code, p)
  BY <1>1 DEF CallInv, CodesKnown
<1>9. HeadKnown'
  <2>1. hook[h].installed
    BY <1>1 DEF RemovedInv, ToInstall
  <2>2. ASSUME NEW a \in HeadOf(src)
        PROVE  mem'[a] = RestoreCode(mem, h)[a]
    BY DestroyedIs, AreasApart, HeadIs
  <2>3. CodeIs(CodeAt(mem', src, JmpSize), p)
    BY <1>1, <1>8, <2>1, <2>2, HeadAfterRestore
  <2>4. HeadIsOf(p)'
    BY <1>1, <2>3 DEF HeadIsOf, CodeIs, HeadByte
  <2>5. tidy' => /\ \A g \in Hooks : p = JumpCode(g) => Older(g, h)
                 /\ Simple => Ahead(p) = {f \in Hooks : Older(f, h)}
    BY <1>5, <1>8 DEF Before
  <2>6. Alive(p)'
    BY <1>3, <1>o, <2>5 DEF Alive
  <2>7. ASSUME tidy', Simple'
        PROVE  Ahead(p)' = Jumping(IF pc = Null THEN calls > 0 ELSE calls > 1)'
    <3>1. Ahead(p)' = {f \in Hooks : Older(f, h)}
      BY <1>b, <1>s, <2>5, <2>7
    <3>2. {f \in Hooks : Older(f, h)} = {f \in Hooks : hook'[f] # Null}
      BY <1>3, <1>o, <2>7
    <3>3. pc' = Null /\ calls' = 0
      BY DEF DestroyHook, callVars
    <3> QED BY <3>1, <3>2, <3>3 DEF Jumping
  <2> QED BY <1>1, <2>4, <2>6, <2>7 DEF HeadKnown
<1>10. CodesKnown'
  <2> SUFFICES ASSUME NEW g \in Hooks, hook'[g] # Null
               PROVE  \E q \in Codes : Before(q, g)' /\ CodeIs(hook[g].code, q)'
    BY <1>1 DEF CodesKnown
  <2>1. g # h /\ hook'[g] = hook[g]
    BY <1>3
  <2>2. PICK q \in Codes : Before(q, g) /\ CodeIs(hook[g].code, q)
    BY <2>1 DEF CallInv, CodesKnown
  <2>3. CodeIs(hook[g].code, q)'
    BY <1>1, <2>1, <2>2 DEF CodeIs, HeadByte
  <2> QED BY <1>6, <2>1, <2>2, <2>3
<1>11. TrampolinesKnown'
  <2> SUFFICES ASSUME NEW g \in Hooks, hook'[g] # Null, hook'[g].trampoline # Null
               PROVE  \E q \in Codes :
                          /\ Before(q, g)'
                          /\ \E K \in 1 .. Len(q) :
                                IsTrampoline(mem', Area(g), src, q, K)
    BY <1>1 DEF TrampolinesKnown
  <2>1. g # h /\ hook'[g] = hook[g]
    BY <1>3
  <2>2. PICK q \in Codes :
            /\ Before(q, g)
            /\ \E K \in 1 .. Len(q) : IsTrampoline(mem, Area(g), src, q, K)
    BY <2>1 DEF CallInv, TrampolinesKnown
  <2>3. PICK K \in 1 .. Len(q) : IsTrampoline(mem, Area(g), src, q, K)
    BY <2>2
  <2>4. ASSUME NEW a \in AreaOf(g)
        PROVE  mem'[a] = mem[a]
    <3>1. a \in Addresses /\ a \notin HeadOf(src) /\ a \notin AreaOf(h)
      BY <2>1, AreasApart
    <3> QED BY <1>1, <3>1, DestroyedIs, RestoredIs
  <2>5. IsTrampoline(mem', Area(g), src, q, K)
    BY <2>3, <2>4, TrampolineStays
  <2> QED BY <1>6, <2>1, <2>2, <2>5
<1> QED BY <1>7, <1>9, <1>10, <1>11

-----------------------------------------------------------------------------
\* A call.

\* Some step of a call.
CallStep ==
    Execute \/ Call \/ Crash \/ UNCHANGED vars
        \/ \E h \in Hooks : PluginCalls(h) \/ EnterHook(h)

LEMMA CallsKeepAlive ==
    ASSUME TypeInv, CallStep, NEW q
    PROVE  /\ Codes' = Codes
           /\ Alive(q) => Alive(q)'
           /\ \A h \in Hooks : Before(q, h) => Before(q, h)'
           /\ Ahead(q)' = Ahead(q) /\ (Simple' <=> Simple)
           /\ \A f, g \in Hooks : Older(f, g)' <=> Older(f, g)
           /\ \A h \in Hooks : Overwritten(h)' <=> Overwritten(h)
<1>1. /\ SameHooks /\ src' = src /\ program' = program
      /\ order' = order /\ tidy' = tidy /\ style' = style
  BY CallsKeepHooks DEF CallStep
<1>2. /\ \A f, g \in Hooks : Older(f, g)' <=> Older(f, g)
      /\ Simple' <=> Simple
  BY <1>1 DEF Older, Simple
<1>3. \A h \in Hooks : Overwritten(h)' <=> Overwritten(h)
  BY <1>1, <1>2 DEF Overwritten
<1>4. Ahead(q)' = Ahead(q)
  BY <1>1, <1>2 DEF SameHooks, Ahead
<1>5. \A h \in Hooks : Before(q, h) => Before(q, h)'
  BY <1>1, <1>2, <1>4 DEF Before
<1>6. Codes' = Codes /\ (Alive(q) => Alive(q)')
  BY <1>1 DEF SameHooks, Codes, Alive
<1> QED BY <1>2, <1>3, <1>4, <1>5, <1>6

\* The jump of a hook is written.
LEMMA JumpWritten ==
    ASSUME TypeOK, NEW h \in Hooks, hook[h] # Null,
           mem' = Written(mem, src, Jump(src, Dst(h)))
    PROVE  /\ JumpCode(h) \in Codes /\ Alive(JumpCode(h))
           /\ CodeIs(CodeAt(mem', src, JmpSize), JumpCode(h))
<1> DEFINE jump == Jump(src, Dst(h))
<1>1. jump \in Seq(Cells) /\ Len(jump) = JmpSize /\ src \in Int
  BY SrcIsAddress, PlaceIsAddress, JumpType DEF TypeOK
<1>2. JumpCode(h) \in Codes /\ Alive(JumpCode(h)) /\ CodeIs(jump, JumpCode(h))
  BY JumpIsAlive, JumpIsCode DEF Codes
<1> HIDE DEF jump
<1>3. ASSUME NEW k \in 1 .. JmpSize
      PROVE  CodeAt(mem', src, JmpSize)[k] = jump[k]
  <2>1. /\ src + k - 1 \in HeadOf(src) /\ (src + k - 1) % Word = src + k - 1
        /\ src + k - 1 \in Addresses
    BY HeadIs
  <2>2. src + k - 1 \in src .. src + Len(jump) - 1
    BY <1>1, <2>1 DEF HeadOf
  <2>3. Written(mem, src, jump)[src + k - 1] = jump[(src + k - 1) - src + 1]
    BY <1>1, <2>1, <2>2, WrittenIs
  <2>4. (src + k - 1) - src + 1 = k
    BY <1>1
  <2>5. mem' = Written(mem, src, jump)
    BY DEF jump
  <2> QED BY <2>1, <2>3, <2>4, <2>5 DEF CodeAt
<1> QED BY <1>2, <1>3 DEF CodeIs

\* What the function begins with after a step of a call.
LEMMA HeadAfterCall ==
    ASSUME TypeInv, OrderInv, CallInv, CallStep
    PROVE  \E q \in Codes : Alive(q) /\ CodeIs(CodeAt(mem', src, JmpSize), q)
<1> USE DEF TypeInv
<1> DEFINE Found == \E q \in Codes :
                        Alive(q) /\ CodeIs(CodeAt(mem', src, JmpSize), q)
<1>2. ASSUME NEW q \in Codes, Alive(q), CodeIs(CodeAt(mem', src, JmpSize), q)
      PROVE  Found
  BY <1>2
<1> HIDE DEF Found
<1>3. ASSUME mem' = mem
      PROVE  Found
  <2>1. PICK q \in Codes : Alive(q) /\ HeadIsOf(q)
    BY DEF CallInv, HeadKnown
  <2> QED BY <1>2, <1>3, <2>1 DEF HeadIsOf
<1>4. ASSUME NEW h \in Hooks, hook[h] # Null, mem' = RestoreCode(mem, h)
      PROVE  Found
  <2>1. CASE ~hook[h].installed
    BY <1>3, <1>4, <2>1 DEF RestoreCode
  <2>2. CASE hook[h].installed
    <3>1. PICK q \in Codes : Before(q, h) /\ CodeIs(hook[h].code, q)
      BY <1>4 DEF CallInv, CodesKnown
    <3>2. CodeIs(CodeAt(mem', src, JmpSize), q)
      BY <1>4, <2>2, <3>1, HeadAfterRestore
    <3> QED BY <1>2, <3>1, <3>2, OlderIsAlive
  <2> QED BY <2>1, <2>2
<1>5. ASSUME Return
      PROVE  Found
  <2>1. CASE ToInstall = {}
    BY <1>3, <1>5, <2>1 DEF Return, Reinstall
  <2>2. CASE ToInstall # {}
    <3>1. PICK n \in ToInstall : InstalledBy(n)
      BY <1>5, <2>2 DEF Return, Reinstall
    <3>2. removed[n].hook \in Hooks /\ hook[removed[n].hook] # Null
      BY RemovedType DEF ToInstall, RemovedInv
    <3> QED BY <1>2, <3>1, <3>2, JumpWritten DEF InstalledBy
  <2> QED BY <2>1, <2>2
<1>6. \/ mem' = mem
      \/ Return
      \/ \E h \in Hooks : hook[h] # Null /\ mem' = RestoreCode(mem, h)
  BY DEF CallStep, Execute, Call, PluginCalls, CallAt, Crash, vars, EnterHook
<1> QED BY <1>3, <1>4, <1>5, <1>6 DEF Found

\* An instruction that does not end the call leaves this as it is.
LEMMA ExecuteIs ==
    ASSUME TypeOK, Execute
    PROVE  Return \/ (pc' # Null /\ mem' = mem /\ removed' = removed)
<1>1. PICK i \in Insns :
          \/ Return
          \/ /\ pc' \in {Target(i), (pc + Len(i.bytes)) % Word}
             /\ mem' = mem /\ removed' = removed
  BY DEF Execute, Decode
<1>2. pc # Null
  BY DEF Execute
<1> QED BY <1>1, <1>2, TargetType, NullIsNothing

\* When a call returns that went through all hooks it should, the jump that the
\* function begins with leads to those that nothing overwrites: no hook was taken
\* away, and so none is overwritten, or the first that was is installed last.
LEMMA ReturnedHead ==
    ASSUME TypeInv, OrderInv, CallInv, Execute, Return, tidy, Simple,
           Range(visited) = Expected
    PROVE  \E q \in Codes : /\ Alive(q) /\ CodeIs(CodeAt(mem', src, JmpSize), q)
                           /\ Ahead(q) = Jumping(TRUE)
<1> USE DEF TypeInv
<1>0. /\ pc # Null /\ ~crashed /\ calls > 0
      /\ caller # Null => hook[caller] # Null /\ style[caller] = "trampoline"
  BY DEF Execute, CallInv, VisitInv, CallerInv
<1>1. /\ \A n \in DOMAIN removed : /\ removed[n].was
                                 /\ style[removed[n].hook] = "remove"
                                 /\ removed[n].hook \in Range(visited)
      /\ \A m, n \in DOMAIN removed :
            m < n => Older(removed[n].hook, removed[m].hook)
      /\ \A g \in Range(visited) : style[g] = "remove" =>
            \E n \in DOMAIN removed : removed[n].hook = g
  BY <1>0 DEF CallInv, VisitInv, RemovedIs, Range
<1>2. caller \in Hooks \cup {Null}
  BY DEF TypeOK
<1>3. CASE removed = <<>>
  <2>1. ToInstall = {} /\ DOMAIN removed = {}
    BY <1>3 DEF ToInstall
  <2>2. mem' = mem
    BY <2>1 DEF Return, Reinstall
  <2>3. PICK q \in Codes : /\ Alive(q) /\ HeadIsOf(q)
                           /\ Ahead(q) = Jumping(calls > 1)
    BY <1>0, <1>3 DEF CallInv, HeadKnown
  <2>4. ASSUME NEW h \in Hooks, Overwritten(h), ~(calls > 1)
        PROVE  FALSE
    <3>1. PICK g \in Hooks : Older(g, h) /\ style[g] = "remove" /\ Hooks = {g, h}
      BY <2>4, OverwrittenIs
    <3>2. caller # Null => caller = h
      BY <1>0, <1>2, <3>1
    <3>3. g \in InTheWay
      BY <3>1, <3>2, OlderIs DEF InTheWay
    <3>4. g \in Range(visited)
      BY <2>4, <3>3 DEF Expected
    <3> QED BY <1>1, <2>1, <3>1, <3>4
  <2>5. Jumping(calls > 1) = Jumping(TRUE)
    BY <2>4 DEF Jumping
  <2> QED BY <2>2, <2>3, <2>5 DEF HeadIsOf
<1>4. CASE removed # <<>>
  <2> DEFINE y == removed[1].hook
  <2>1. DOMAIN removed = 1 .. Len(removed) /\ Len(removed) \in Nat /\ 1 \in DOMAIN removed
    BY <1>4, LenProperties, EmptySeq DEF TypeOK
  <2>2. ToInstall = DOMAIN removed
    BY <1>1 DEF ToInstall
  <2>3. mem' = Written(mem, src, Jump(src, Dst(y)))
    <3>1. PICK n \in ToInstall : InstalledBy(n) /\ \A m \in ToInstall : n <= m
      BY <2>1, <2>2 DEF Return, Reinstall
    <3>2. n = 1
      <4> DEFINE l == Len(removed)
      <4>1. n \in 1 .. l /\ l \in Nat /\ n <= 1
        BY <2>1, <2>2, <3>1
      <4> HIDE DEF l
      <4> QED BY <4>1
    <3> QED BY <3>1, <3>2 DEF InstalledBy
  <2>4. /\ y \in Hooks /\ hook[y] # Null /\ style[y] = "remove"
        /\ y \in Range(visited)
        /\ \A n \in DOMAIN removed :
              removed[n].hook \in Hooks /\ (n # 1 => Older(removed[n].hook, y))
    <3>1. \A n \in DOMAIN removed : n # 1 => 1 < n
      BY <2>1
    <3> QED BY <1>1, <2>1, <3>1, RemovedType DEF RemovedInv
  <2> HIDE DEF y
  <2>5. ASSUME NEW f \in Hooks, hook[f] # Null, ~Overwritten(f)
        PROVE  f = y \/ Older(f, y)
    <3> SUFFICES ASSUME f # y, Older(y, f)
                 PROVE  Older(f, y)
      BY <2>4, <2>5, OlderIs
    <3>1. style[f] = "remove"
      BY <2>4, <2>5 DEF Overwritten, TypeOK
    <3>2. Hooks = {y, f}
      BY <2>4, SimpleIs
    <3>3. caller = Null
      BY <1>0, <1>2, <2>4, <3>1, <3>2
    <3>4. f \in Range(visited)
      BY <2>5, <3>3 DEF InTheWay, Expected
    <3>5. PICK n \in DOMAIN removed : removed[n].hook = f
      BY <1>1, <3>1, <3>4
    <3>6. n # 1
      BY <3>5 DEF y
    <3> QED BY <2>4, <3>5, <3>6
  <2>6. ASSUME NEW f \in Hooks, f = y \/ Older(f, y)
        PROVE  hook[f] # Null /\ ~Overwritten(f)
    BY <2>4, <2>6, OlderIs, OverwrittenIs
  <2>7. Ahead(JumpCode(y)) = Jumping(TRUE)
    BY <2>4, <2>5, <2>6, AheadIs DEF Jumping
  <2> QED BY <2>3, <2>4, <2>7, JumpWritten
<1> QED BY <1>3, <1>4

LEMMA CallsKeepHead ==
    ASSUME TypeInv, OrderInv, CallInv, CallStep,
           Execute /\ pc' = Null /\ tidy /\ Simple => Range(visited) = Expected
    PROVE  HeadKnown'
<1> USE DEF TypeInv
<1>1. src' = src /\ program' = program /\ tidy' = tidy /\ SameHooks
  BY CallsKeepHooks DEF CallStep
<1>2. \A q : CodeIs(CodeAt(mem', src, JmpSize), q) <=> HeadIsOf(q)'
  BY <1>1 DEF HeadIsOf, CodeIs, HeadByte
<1> DEFINE exact == tidy /\ Simple /\ ~crashed' /\ removed' = <<>>
           again == IF pc = Null THEN calls > 0 ELSE calls > 1
           after == IF pc' = Null THEN calls' > 0 ELSE calls' > 1
<1>3. Simple' <=> Simple
  BY CallsKeepAlive
<1>4. Jumping(IF pc = Null THEN calls > 0 ELSE calls > 1)' = Jumping(after)
  BY <1>1, CallsKeepAlive DEF Jumping, SameHooks
<1>5. ASSUME NEW q \in Codes, Alive(q), CodeIs(CodeAt(mem', src, JmpSize), q),
             exact => Ahead(q) = Jumping(after)
      PROVE  HeadKnown'
  <2>1. q \in Codes' /\ Alive(q)' /\ HeadIsOf(q)' /\ Ahead(q)' = Ahead(q)
    BY <1>2, <1>5, CallsKeepAlive
  <2>2. tidy' /\ Simple' /\ ~crashed' /\ removed' = <<>> =>
            Ahead(q)' = Jumping(IF pc = Null THEN calls > 0 ELSE calls > 1)'
    <3>1. tidy' /\ Simple' /\ ~crashed' /\ removed' = <<>> => exact
      BY <1>1, <1>3
    <3> HIDE DEF exact, after
    <3> QED BY <1>4, <1>5, <2>1, <3>1
  <2> QED BY <2>1, <2>2 DEF HeadKnown
<1>6. CASE ~exact
  BY <1>5, <1>6, HeadAfterCall
<1>7. CASE exact
  <2>1. CASE Execute /\ Return
    <3>1. pc' = Null /\ after = TRUE
      <4>1. pc' = Null /\ calls' = calls /\ calls > 0
        BY <2>1 DEF Execute, Return, CallInv, VisitInv, CallerInv
      <4> QED BY <4>1
    <3>2. \E q \in Codes : /\ Alive(q) /\ CodeIs(CodeAt(mem', src, JmpSize), q)
                           /\ Ahead(q) = Jumping(TRUE)
      BY <1>7, <2>1, <3>1, ReturnedHead
    <3> HIDE DEF exact, after
    <3> QED BY <1>5, <3>1, <3>2
  <2>2. CASE ~(Execute /\ Return)
    <3>1. mem' = mem /\ removed = <<>> /\ ~crashed /\ after = again
      <4>1. CASE Execute
        BY <2>2, <1>7, <4>1, ExecuteIs DEF Execute
      <4>2. CASE Call
        <5>1. pc = Null /\ pc' # Null /\ calls' = calls + 1 /\ calls \in Nat
          BY <4>2, SrcIsAddress, NullIsNothing DEF Call, CallAt, TypeOK
        <5>2. calls' > 1 <=> calls > 0
          BY <5>1
        <5> QED BY <1>7, <4>2, <5>1, <5>2 DEF Call, CallAt
      <4>3. CASE \E h \in Hooks : PluginCalls(h)
        <5>1. pc = Null /\ pc' # Null /\ calls' = calls + 1 /\ calls \in Nat
          BY <1>7, <4>3 DEF PluginCalls, CallAt, TypeOK
        <5>2. calls' > 1 <=> calls > 0
          BY <5>1
        <5> QED BY <1>7, <4>3, <5>1, <5>2 DEF PluginCalls, CallAt
      <4>4. CASE \E h \in Hooks : EnterHook(h)
        <5>1. PICK h \in Hooks : EnterHook(h)
          BY <4>4
        <5>2. style[h] = "trampoline"
          <6> SUFFICES ASSUME style[h] # "trampoline"
                       PROVE  FALSE
            OBVIOUS
          <6> DEFINE r == [hook |-> h, was |-> hook[h].installed]
          <6>1. removed' = Append(removed, r)
            BY <5>1 DEF EnterHook
          <6>2. /\ r \in [hook : Hooks, was : BOOLEAN]
                /\ removed \in Seq([hook : Hooks, was : BOOLEAN])
            BY <5>1 DEF EnterHook, TypeOK, HookStruct
          <6> HIDE DEF r
          <6>3. removed' # <<>>
            BY <6>1, <6>2, AppendProperties
          <6> QED BY <1>7, <6>3
        <5>3. pc' # Null /\ pc # Null
          BY <1>7, <5>1, <5>2, PlaceIsAddress, NullIsNothing DEF EnterHook
        <5> QED BY <1>7, <5>1, <5>2, <5>3 DEF EnterHook
      <4>5. CASE UNCHANGED vars
        BY <1>7, <4>5 DEF vars
      <4>6. ~Crash
        BY <1>7 DEF Crash
      <4> QED BY <4>1, <4>2, <4>3, <4>4, <4>5, <4>6 DEF CallStep
    <3>2. PICK q \in Codes : Alive(q) /\ HeadIsOf(q) /\ Ahead(q) = Jumping(again)
      BY <1>7, <3>1 DEF CallInv, HeadKnown
    <3> HIDE DEF again, after, exact
    <3> QED BY <1>5, <3>1, <3>2 DEF HeadIsOf
  <2> QED BY <2>1, <2>2
<1> QED BY <1>6, <1>7

\* The memory of the trampolines stays.
LEMMA CallsKeepTrampolines ==
    ASSUME TypeInv, CallStep, NEW q \in Codes, NEW K \in 1 .. Len(q),
           NEW h \in Hooks, IsTrampoline(mem, Area(h), src, q, K)
    PROVE  IsTrampoline(mem', Area(h), src, q, K)
<1>1. \A a \in Addresses : a \notin HeadOf(src) => mem'[a] = mem[a]
  BY CallsWriteHead DEF CallStep
<1>2. \A a \in AreaOf(h) : mem'[a] = mem[a]
  BY <1>1, AreasApart DEF TypeInv
<1> QED BY <1>2, TrampolineStays DEF TypeInv

LEMMA CallsKeepKnown ==
    ASSUME TypeInv, OrderInv, CallInv, CallStep,
           Execute /\ pc' = Null /\ tidy /\ Simple => Range(visited) = Expected
    PROVE  /\ TrampolinesFit' /\ HeadKnown' /\ CodesKnown' /\ TrampolinesKnown'
<1>1. /\ SameHooks /\ src' = src /\ program' = program /\ Codes' = Codes
  BY CallsKeepHooks DEF CallStep, Codes
<1>2. TrampolinesFit'
  BY <1>1 DEF SameHooks, CallInv, TrampolinesFit
<1>3. CodesKnown'
  <2> SUFFICES ASSUME NEW g \in Hooks, hook'[g] # Null
               PROVE  \E q \in Codes : Before(q, g)' /\ CodeIs(hook[g].code, q)'
    BY <1>1 DEF CodesKnown
  <2>1. hook[g] # Null /\ hook'[g].code = hook[g].code
    BY <1>1 DEF SameHooks
  <2>2. PICK q \in Codes : Before(q, g) /\ CodeIs(hook[g].code, q)
    BY <2>1 DEF CallInv, CodesKnown
  <2>3. CodeIs(hook[g].code, q)'
    BY <1>1, <2>1, <2>2 DEF CodeIs, HeadByte
  <2> QED BY <2>2, <2>3, CallsKeepAlive
<1>4. TrampolinesKnown'
  <2> SUFFICES ASSUME NEW g \in Hooks, hook'[g] # Null, hook'[g].trampoline # Null
               PROVE  \E q \in Codes :
                          /\ Before(q, g)'
                          /\ \E K \in 1 .. Len(q) :
                                IsTrampoline(mem', Area(g), src, q, K)
    BY <1>1 DEF TrampolinesKnown
  <2>1. hook[g] # Null /\ hook[g].trampoline # Null
    BY <1>1 DEF SameHooks
  <2>2. PICK q \in Codes :
            /\ Before(q, g)
            /\ \E K \in 1 .. Len(q) : IsTrampoline(mem, Area(g), src, q, K)
    BY <2>1 DEF CallInv, TrampolinesKnown
  <2> QED BY <2>2, CallsKeepTrampolines, CallsKeepAlive
<1> QED BY <1>2, <1>3, <1>4, CallsKeepHead

-----------------------------------------------------------------------------
\* The processor runs an instruction.

LEMMA VisitedType ==
    ASSUME TypeOK
    PROVE  /\ visited \in Seq(Hooks) /\ Len(visited) \in Nat
           /\ DOMAIN visited = 1 .. Len(visited)
           /\ \A n \in DOMAIN visited : visited[n] \in Hooks
<1>1. visited \in Seq(Hooks)
  BY DEF TypeOK
<1> QED BY <1>1, LenProperties, ElementOfSeq

LEMMA FirstSteps ==
    ASSUME NEW q, IsCode(q)
    PROVE  /\ SubSeq(q, 1, 0) = <<>>
           /\ SubSeq(q, 1, Len(q)) = q
           /\ \A n \in 1 .. Len(q) : Append(SubSeq(q, 1, n - 1), q[n]) = SubSeq(q, 1, n)
<1>1. q \in Seq(StepSet) /\ Len(q) \in Nat
  BY DEF IsCode
<1>2. ASSUME NEW n \in 1 .. Len(q)
      PROVE  Append(SubSeq(q, 1, n - 1), q[n]) = SubSeq(q, 1, n)
  <2> DEFINE s == SubSeq(q, 1, n - 1)
             t == Append(s, q[n])
             u == SubSeq(q, 1, n)
  <2>1. /\ s \in Seq(StepSet) /\ Len(s) = n - 1
        /\ \A k \in 1 .. n - 1 : s[k] = q[k]
    BY <1>1, SubSeqProperties
  <2>2. /\ u \in Seq(StepSet) /\ Len(u) = n /\ \A k \in 1 .. n : u[k] = q[k]
    BY <1>1, SubSeqProperties
  <2>3. q[n] \in StepSet
    BY <1>1, ElementOfSeq
  <2> HIDE DEF s, u
  <2>4. /\ t \in Seq(StepSet) /\ Len(t) = n
        /\ \A k \in 1 .. n - 1 : t[k] = q[k]
        /\ t[n] = q[n]
    <3>1. n - 1 \in Nat /\ (n - 1) + 1 = n
      BY <1>1
    <3>2. /\ t \in Seq(StepSet) /\ Len(t) = Len(s) + 1
          /\ \A k \in 1 .. Len(s) : t[k] = s[k]
          /\ t[Len(s) + 1] = q[n]
      BY <2>1, <2>3, AppendProperties
    <3> QED BY <2>1, <3>1, <3>2
  <2>5. ASSUME NEW k \in 1 .. n
        PROVE  t[k] = u[k]
    <3>1. k \in 1 .. n - 1 \/ k = n
      BY <1>1
    <3> QED BY <2>2, <2>4, <3>1
  <2> HIDE DEF t
  <2> QED BY <2>2, <2>4, <2>5, SeqEqual DEF t, s, u
<1>3. SubSeq(q, 1, 0) = <<>> /\ SubSeq(q, 1, Len(q)) = q
  BY <1>1
<1> QED BY <1>2, <1>3

\* A jump.
LEMMA JumpRuns ==
    ASSUME TypeOK, Execute, NEW to \in Addresses, to \notin Outside,
           InsnAt(mem, pc, JumpStep(to))
    PROVE  pc' = to /\ trace' = trace /\ mem' = mem /\ hook' = hook
<1> DEFINE i == JumpStep(to).insn
<1>1. /\ IsStep(JumpStep(to)) /\ i.kind = "jmp" /\ i.operand # 0
      /\ JumpStep(to).target = to
  BY JumpIs
<1>2. Decode(pc) = {i} /\ Target(i) = to
  BY <1>1, DecodeIs
<1> HIDE DEF i
<1> QED BY <1>1, <1>2 DEF Execute

\* An instruction of the function, wherever it is.
LEMMA InsnRuns ==
    ASSUME TypeOK, Execute, NEW n \in 1 .. Len(program),
           InsnAt(mem, pc, program[n]), trace = SubSeq(program, 1, n - 1)
    PROVE  \/ /\ n < Len(program)
              /\ pc' = (pc + Bytes(program[n])) % Word
              /\ trace' = SubSeq(program, 1, n)
              /\ mem' = mem /\ hook' = hook
           \/ Return /\ trace' = program
<1> DEFINE s == program[n]
           i == s.insn
           done == Step(i, IF i.operand = 0 THEN Null ELSE Target(i))
<1>0. /\ program \in Programs /\ IsCode(program) /\ Len(program) \in Nat
      /\ n \in DOMAIN program
  BY ProgramIsCode DEF TypeOK
<1>1. /\ i.operand = 0 => s.target = Null
      /\ i.kind \in {"ret", "jmp"} <=> n = Len(program)
      /\ i.kind = "jmp" => s.target \in Outside
  BY <1>0, FunctionAssumption DEF FunctionAssumption
<1>2. IsStep(s) /\ s \in StepSet
  BY <1>0, CodeSteps, StepOf
<1>3. Decode(pc) = {i} /\ (i.operand # 0 => Target(i) = s.target)
  BY <1>2, DecodeIs
<1>4. done = s
  <2>1. s = [insn |-> s.insn, target |-> s.target]
    BY <1>2 DEF StepSet
  <2>2. (IF i.operand = 0 THEN Null ELSE Target(i)) = s.target
    BY <1>1, <1>3
  <2> QED BY <2>1, <2>2 DEF Step
<1>5. i.kind = "jmp" => Target(i) \in Outside
  <2> SUFFICES ASSUME i.kind = "jmp"
               PROVE  Target(i) \in Outside
    OBVIOUS
  <2>1. s.target \in Outside /\ s.target # Null
    BY <1>1, NullIsNothing, SubhookAssumption DEF SubhookAssumption
  <2> QED BY <1>1, <1>3, <2>1
<1>6. trace' = Append(trace, s)
  <2> HIDE DEF s
  <2> QED BY <1>3, <1>4, <1>5 DEF Execute
<1>7. trace' = SubSeq(program, 1, n)
  BY <1>0, <1>6, FirstSteps
<1>8. /\ i.kind \in {"ret", "jmp"} => Return
      /\ i.kind \notin {"ret", "jmp"} =>
            pc' = (pc + Len(i.bytes)) % Word /\ mem' = mem /\ hook' = hook
  <2> HIDE DEF i
  <2> QED BY <1>3, <1>5 DEF Execute
<1>9. CASE i.kind \in {"ret", "jmp"}
  BY <1>0, <1>1, <1>7, <1>8, <1>9, FirstSteps
<1>10. CASE i.kind \notin {"ret", "jmp"}
  <2>1. n < Len(program)
    BY <1>0, <1>1, <1>10
  <2> QED BY <1>7, <1>8, <1>10, <2>1 DEF Bytes
<1> QED BY <1>9, <1>10

\* What is ahead of a call stays as it runs.
LEMMA ExecuteKeepsWay ==
    ASSUME TypeInv, Execute \/ UNCHANGED vars, NEW q, OnWay(q)
    PROVE  OnWay(q)'
<1>1. UNCHANGED <<caller, visited, calls, tidy>> /\ CallStep
  BY DEF Execute, vars, CallStep
<1>2. SameHooks
  BY <1>1, CallsKeepHooks DEF CallStep
<1>3. /\ \A f, g \in Hooks : Older(f, g)' <=> Older(f, g)
      /\ \A h \in Hooks : Overwritten(h)' <=> Overwritten(h)
      /\ Ahead(q)' = Ahead(q) /\ (Simple' <=> Simple)
  BY <1>1, CallsKeepAlive
<1>4. InTheWay' = InTheWay
  <2>1. caller # Null => caller \in Hooks
    BY DEF TypeInv, TypeOK
  <2> QED BY <1>1, <1>2, <1>3, <2>1 DEF InTheWay, SameHooks
<1>5. Expected' = Expected
  <2>1. InTheWay \subseteq Hooks
    BY DEF InTheWay
  <2> QED BY <1>1, <1>3, <1>4, <2>1 DEF Expected
<1>6. \A n \in DOMAIN visited : visited[n] \in Hooks
  BY VisitedType DEF TypeInv
<1>7. Range(visited)' = Range(visited)
  BY <1>1 DEF Range
<1> QED BY <1>1, <1>2, <1>3, <1>4, <1>5, <1>6, <1>7 DEF OnWay, SameHooks

\* One of either kind.
LEMMA CodeRuns ==
    ASSUME TypeInv, Execute, NEW q \in Codes, OnWay(q), NEW n \in 1 .. Len(q),
           NEW at \in Nat, pc = at + Offset(q, n), InsnAt(mem, pc, q[n]),
           n < Len(q) => at + Offset(q, n + 1) \in Addresses,
           trace = SubSeq(q, 1, n - 1)
    PROVE  \/ AtHook'
           \/ /\ n < Len(q)
              /\ pc' = at + Offset(q, n + 1)
              /\ trace' = SubSeq(q, 1, n)
              /\ mem' = mem /\ hook' = hook
           \/ Return /\ trace' = program /\ OnWay(program)
<1> USE DEF TypeInv
<1>1. CASE q = program
  <2>1. \/ /\ n < Len(q)
           /\ pc' = (pc + Bytes(q[n])) % Word
           /\ trace' = SubSeq(q, 1, n)
           /\ mem' = mem /\ hook' = hook
        \/ Return /\ trace' = program
    BY <1>1, InsnRuns
  <2>2. ASSUME n < Len(q)
        PROVE  (pc + Bytes(q[n])) % Word = at + Offset(q, n + 1)
    <3> DEFINE o == Offset(q, n)
               l == Bytes(q[n])
    <3>1. o \in Nat /\ l \in 1 .. 15 /\ Offset(q, n + 1) = o + l
      BY CodesAre, StepsApart
    <3>2. at + (o + l) \in Addresses
      BY <2>2, <3>1
    <3> HIDE DEF o, l
    <3>3. (at + o) + l = at + (o + l)
      BY <3>1
    <3>4. ((at + o) + l) % Word = at + (o + l)
      BY <3>2, <3>3, RemainderOfAddress
    <3> QED BY <3>1, <3>4 DEF o, l
  <2> QED BY <1>1, <2>1, <2>2
<1>2. CASE q # program
  <2>1. PICK g \in Hooks : q = JumpCode(g)
    BY <1>2 DEF Codes
  <2>2. n = 1 /\ q[n] = JumpStep(Dst(g))
    BY <2>1, JumpCodeIs
  <2>3. Dst(g) \in Addresses /\ Dst(g) \notin Outside
    BY PlaceIsAddress, FunctionAssumption DEF FunctionAssumption
  <2>4. pc' = Dst(g) /\ trace' = trace /\ hook' = hook
    BY <2>2, <2>3, JumpRuns
  <2>5. trace' = <<>>
    BY <2>2, <2>4, CodesAre, FirstSteps
  <2>6. OnWay(JumpCode(g))'
    BY <2>1, ExecuteKeepsWay
  <2> QED BY <2>4, <2>5, <2>6 DEF AtHook
<1> QED BY <1>1, <1>2

-----------------------------------------------------------------------------
\* Where calls are.

\* A trampoline goes back into the function.
LEMMA JumpTarget ==
    ASSUME TypeOK, NEW q \in Codes, NEW n \in 1 .. Len(q)
    PROVE  /\ src + Offset(q, n) \in Addresses
           /\ src + Offset(q, n) \notin Outside
           /\ src + Offset(q, n) \in src .. src + Size(program) - 1
<1>0. /\ IsCode(q) /\ src \in Nat /\ Size(q) \in Nat /\ Size(q) <= Size(program)
  BY CodesAre
<1>1. Size(program) \in Nat
  BY CodesAre DEF Codes
<1>2. src + Offset(q, n) \in src .. src + Size(program) - 1
  <2> DEFINE o == Offset(q, n)
             l == Bytes(q[n])
             y == Size(q)
             z == Size(program)
  <2>1. o \in Nat /\ l \in 1 .. 15 /\ y \in Nat /\ o + l <= y /\ y <= z /\ z \in Nat
    BY <1>0, <1>1, StepsApart
  <2> HIDE DEF o, l, y, z
  <2>2. src + o \in src .. src + z - 1
    BY <1>0, <2>1
  <2> QED BY <2>2 DEF o, z
<1> QED BY <1>2, FunctionIs

\* There is an instruction, and no hook function.
LEMMA InFunctionIs ==
    ASSUME TypeOK, NEW q \in Codes, NEW n \in 1 .. Len(q),
           pc = src + Offset(q, n), HoldsAt(mem, src, q, n)
    PROVE  /\ InsnAt(mem, pc, q[n])
           /\ \A g \in Hooks : pc # Dst(g)
           /\ n < Len(q) => src + Offset(q, n + 1) \in Addresses
<1>0. Len(q) \in Nat
  BY CodesAre
<1>1. pc \in src .. src + Size(program) - 1
  BY JumpTarget
<1>3. n \in n .. Len(q)
  BY <1>0
<1>4. InsnAt(mem, pc, q[n])
  BY <1>3 DEF HoldsAt
<1>5. n < Len(q) => n + 1 \in 1 .. Len(q)
  BY <1>0
<1> QED BY <1>1, <1>4, <1>5, FunctionIs, JumpTarget

LEMMA InTrampolineIs ==
    ASSUME TypeOK, NEW h \in Hooks, NEW q \in Codes, NEW K \in 1 .. Len(q),
           NEW n \in 1 .. Len(q), n <= K + 1, pc = Area(h) + Offset(q, n),
           IsTrampoline(mem, Area(h), src, q, K)
    PROVE  /\ n <= K => InsnAt(mem, pc, q[n])
           /\ n = K + 1 => InsnAt(mem, pc, JumpStep(src + Offset(q, n)))
           /\ \A g \in Hooks : pc # Dst(g)
           /\ n < Len(q) /\ n <= K => Area(h) + Offset(q, n + 1) \in Addresses
<1>0. /\ IsCode(q) /\ Len(q) \in Nat /\ Area(h) \in Nat /\ K \in Nat /\ Area(h) \in Int
  BY CodesAre, PlaceIsAddress
<1>1. \A k \in 1 .. Len(q) : k <= K + 1 => Area(h) + Offset(q, k) \in AreaOf(h)
  <2> SUFFICES ASSUME NEW k \in 1 .. Len(q), k <= K + 1
               PROVE  Area(h) + Offset(q, k) \in AreaOf(h)
    OBVIOUS
  <2> DEFINE o == Offset(q, k)
  <2>1. o \in 0 .. 20
    BY <1>0, TrampolineInsns
  <2> HIDE DEF o
  <2>2. Area(h) + o \in AreaOf(h)
    BY <1>0, <2>1 DEF AreaOf, TrampolineSize, JmpSize
  <2> QED BY <2>2 DEF o
<1>2. \A a \in AreaOf(h) : a \in Addresses /\ \A g \in Hooks : a # Dst(g)
  BY AreasApart, FunctionAssumption DEF FunctionAssumption
<1>3. n < Len(q) /\ n <= K => n + 1 \in 1 .. Len(q) /\ n + 1 <= K + 1
  BY <1>0
<1> QED BY <1>0, <1>1, <1>2, <1>3, TrampolineInsns

\* A call that gets to a hook has done nothing yet.
LEMMA HookIs ==
    ASSUME TypeOK, PlaceInv, ~crashed, NEW h \in Hooks, pc = Dst(h)
    PROVE  trace = <<>> /\ OnWay(JumpCode(h)) /\ (tidy => hook[h] # Null)
<1>1. pc # Null
  BY PlaceIsAddress, NullIsNothing
<1>2. ~InFunction
  BY InFunctionIs DEF InFunction
<1>3. ~InTrampoline
  BY InTrampolineIs DEF InTrampoline
<1>4. PICK g \in Hooks : pc = Dst(g) /\ trace = <<>> /\ OnWay(JumpCode(g))
  BY <1>1, <1>2, <1>3 DEF PlaceInv, AtHook
<1>5. g = h
  BY <1>4, FunctionAssumption DEF FunctionAssumption
<1> QED BY <1>4, <1>5 DEF OnWay

\* Elsewhere there is an instruction.
LEMMA InsnIs ==
    ASSUME TypeOK, PlaceInv, ~crashed, pc # Null, \A h \in Hooks : pc # Dst(h)
    PROVE  Decode(pc) # {}
<1>1. ~AtHook
  BY DEF AtHook
<1>2. ASSUME InFunction
      PROVE  Decode(pc) # {}
  <2>0. PICK q \in Codes : \E n \in 1 .. Len(q) :
            pc = src + Offset(q, n) /\ HoldsAt(mem, src, q, n)
    BY <1>2 DEF InFunction
  <2>1. PICK n \in 1 .. Len(q) :
            pc = src + Offset(q, n) /\ HoldsAt(mem, src, q, n)
    BY <2>0
  <2>2. InsnAt(mem, pc, q[n]) /\ IsStep(q[n])
    BY <2>1, InFunctionIs, CodesAre, CodeSteps
  <2> QED BY <2>2, DecodeIs
<1>3. ASSUME InTrampoline
      PROVE  Decode(pc) # {}
  <2>0. PICK h \in Hooks, q \in Codes : \E K, n \in 1 .. Len(q) :
            /\ n <= K + 1 /\ pc = Area(h) + Offset(q, n)
            /\ IsTrampoline(mem, Area(h), src, q, K)
    BY <1>3 DEF InTrampoline
  <2>1. PICK K \in 1 .. Len(q), n \in 1 .. Len(q) :
            /\ n <= K + 1 /\ pc = Area(h) + Offset(q, n)
            /\ IsTrampoline(mem, Area(h), src, q, K)
    BY <2>0
  <2>2. IsCode(q) /\ Len(q) \in Nat
    BY CodesAre
  <2>3. n <= K \/ n = K + 1
    BY <2>1, <2>2
  <2>4. CASE n <= K
    BY <2>1, <2>2, <2>4, InTrampolineIs, CodeSteps, DecodeIs
  <2>5. CASE n = K + 1
    <3>1. InsnAt(mem, pc, JumpStep(src + Offset(q, n)))
      BY <2>1, <2>5, InTrampolineIs
    <3>2. src + Offset(q, n) \in Addresses
      BY JumpTarget
    <3> QED BY <3>1, <3>2, JumpIs, DecodeIs
  <2> QED BY <2>3, <2>4, <2>5
<1> QED BY <1>1, <1>2, <1>3 DEF PlaceInv

-----------------------------------------------------------------------------
\* Where a call is after a step.
LEMMA InFunctionNext ==
    ASSUME TypeInv, CallStep, NEW q \in Codes, OnWay(q)', NEW n \in 1 .. Len(q),
           pc' = src + Offset(q, n), trace' = SubSeq(q, 1, n - 1),
           HoldsAt(mem', src, q, n)
    PROVE  InFunction' /\ pc' # Null
<1>1. src' = src /\ Codes' = Codes
  BY CallsKeepHooks, CallsKeepAlive DEF CallStep
<1>2. pc' # Null
  BY JumpTarget, NullIsNothing DEF TypeInv
<1> QED BY <1>1, <1>2 DEF InFunction

LEMMA InTrampolineNext ==
    ASSUME TypeInv, CallStep, NEW h \in Hooks, NEW q \in Codes, OnWay(q)',
           NEW K \in 1 .. Len(q), NEW n \in 1 .. Len(q), n <= K + 1,
           pc' = Area(h) + Offset(q, n), trace' = SubSeq(q, 1, n - 1),
           IsTrampoline(mem, Area(h), src, q, K)
    PROVE  InTrampoline' /\ pc' # Null
<1>1. src' = src /\ Codes' = Codes
  BY CallsKeepHooks, CallsKeepAlive DEF CallStep
<1>2. IsTrampoline(mem', Area(h), src, q, K)
  BY CallsKeepTrampolines
<1>3. pc' # Null
  <2> DEFINE o == Offset(q, n)
  <2>1. o \in Nat /\ Area(h) \in Nat
    BY CodesAre, StepsApart, PlaceIsAddress DEF TypeInv
  <2> HIDE DEF o
  <2>2. Area(h) + o \in Nat
    BY <2>1
  <2> QED BY <2>2, NullIsNothing DEF o
<1> QED BY <1>1, <1>2, <1>3 DEF InTrampoline

\* What is ahead of a call that begins.
LEMMA CallOnWay ==
    ASSUME TypeInv, OrderInv, Call, NEW q, Alive(q),
           tidy /\ Simple => Ahead(q) = Jumping(calls > 0)
    PROVE  OnWay(q)'
<1> USE DEF TypeInv
<1>1. /\ CallStep /\ hook' = hook /\ tidy' = tidy /\ visited' = <<>>
      /\ caller' = Null /\ calls' = calls + 1 /\ calls \in Nat
  BY DEF Call, CallAt, CallStep, TypeOK
<1>2. /\ \A h \in Hooks : Overwritten(h)' <=> Overwritten(h)
      /\ Ahead(q)' = Ahead(q) /\ (Simple' <=> Simple)
  BY <1>1, CallsKeepAlive
<1>3. InTheWay' = {h \in Hooks : hook[h] # Null}
  BY <1>1 DEF InTheWay
<1>4. calls' > 1 <=> calls > 0
  BY <1>1
<1>5. Expected' = Jumping(calls > 0)
  BY <1>2, <1>3, <1>4 DEF Expected, Jumping
<1>6. DOMAIN visited' = {} /\ Range(visited)' = {}
  BY <1>1 DEF Range
<1>7. ASSUME tidy, NEW g \in Hooks, q = JumpCode(g)
      PROVE  hook[g] # Null
  BY <1>7 DEF Alive
<1>8. tidy /\ Simple => Range(visited)' \cup Ahead(q)' = Expected'
  BY <1>2, <1>5, <1>6
<1> QED BY <1>1, <1>2, <1>3, <1>6, <1>7, <1>8 DEF OnWay

\* A plugin's own call goes to the older hooks, which nothing overwrites.
LEMMA PluginOnWay ==
    ASSUME TypeInv, OrderInv, NEW h \in Hooks, PluginCalls(h), NEW q, Before(q, h)
    PROVE  OnWay(q)'
<1> USE DEF TypeInv
<1>1. /\ CallStep /\ hook' = hook /\ tidy' = tidy /\ visited' = <<>>
      /\ caller' = h /\ hook[h] # Null /\ style[h] = "trampoline"
  BY DEF PluginCalls, CallAt, CallStep
<1>2. /\ \A g \in Hooks : Overwritten(g)' <=> Overwritten(g)
      /\ \A f, g \in Hooks : Older(f, g)' <=> Older(f, g)
      /\ Ahead(q)' = Ahead(q) /\ (Simple' <=> Simple)
  BY <1>1, CallsKeepAlive
<1>3. InTheWay' = {f \in Hooks : Older(f, h)}
  <2>1. h # Null
    BY SubhookAssumption DEF SubhookAssumption
  <2> QED BY <1>1, <1>2, <2>1, OlderIs DEF InTheWay
<1>4. ASSUME Simple, NEW f \in Hooks, Older(f, h)
      PROVE  ~Overwritten(f)
  BY <1>4, OverwrittenIs
<1>5. Simple => Expected' = {f \in Hooks : Older(f, h)}
  BY <1>2, <1>3, <1>4 DEF Expected
<1>6. DOMAIN visited' = {} /\ Range(visited)' = {}
  BY <1>1 DEF Range
<1>7. ASSUME tidy, NEW g \in Hooks, q = JumpCode(g)
      PROVE  hook[g] # Null /\ g \in InTheWay'
  <2>1. Older(g, h)
    BY <1>7 DEF Before
  <2> QED BY <1>3, <2>1, OlderIs
<1>8. tidy /\ Simple => Range(visited)' \cup Ahead(q)' = Expected'
  BY <1>2, <1>5, <1>6 DEF Before
<1> QED BY <1>1, <1>2, <1>6, <1>7, <1>8 DEF OnWay

\* A hook that a call gets to is none it has been to; the older ones are ahead.
LEMMA EnterOnWay ==
    ASSUME TypeInv, OrderInv, NEW h \in Hooks, EnterHook(h),
           OnWay(JumpCode(h)), NEW q, Before(q, h)
    PROVE  OnWay(q)'
<1> USE DEF TypeInv
<1>1. /\ CallStep /\ tidy' = tidy /\ visited' = Append(visited, h)
      /\ caller' = caller /\ calls' = calls /\ hook[h] # Null
  BY DEF EnterHook, CallStep
<1>2. SameHooks
  BY <1>1, CallsKeepHooks DEF CallStep
<1>3. /\ \A g \in Hooks : Overwritten(g)' <=> Overwritten(g)
      /\ \A f, g \in Hooks : Older(f, g)' <=> Older(f, g)
      /\ Ahead(q)' = Ahead(q) /\ (Simple' <=> Simple)
  BY <1>1, CallsKeepAlive
<1>4. InTheWay' = InTheWay
  <2>1. caller # Null => caller \in Hooks
    BY DEF TypeOK
  <2> QED BY <1>1, <1>2, <1>3, <2>1 DEF InTheWay, SameHooks
<1>5. Expected' = Expected
  <2>1. InTheWay \subseteq Hooks
    BY DEF InTheWay
  <2> QED BY <1>1, <1>3, <1>4, <2>1 DEF Expected
<1>6. /\ DOMAIN visited = 1 .. Len(visited) /\ Len(visited) \in Nat
      /\ DOMAIN visited' = 1 .. Len(visited) + 1
      /\ \A n \in 1 .. Len(visited) : visited'[n] = visited[n]
      /\ visited'[Len(visited) + 1] = h
      /\ \A n \in DOMAIN visited : visited[n] \in Hooks
  BY <1>1, VisitedType, AppendProperties, LenProperties
<1>7. Range(visited)' = Range(visited) \cup {h}
  <2> DEFINE l == Len(visited)
  <2> HIDE DEF l
  <2>1. /\ DOMAIN visited = 1 .. l /\ l \in Nat /\ DOMAIN visited' = 1 .. l + 1
        /\ \A n \in 1 .. l : visited'[n] = visited[n]
        /\ visited'[l + 1] = h
    BY <1>6 DEF l
  <2>2. 1 .. l + 1 = (1 .. l) \cup {l + 1}
    BY <2>1
  <2> QED BY <2>1, <2>2 DEF Range
<1>8. tidy => /\ h \in InTheWay /\ \A n \in DOMAIN visited : Older(h, visited[n])
              /\ Simple => Range(visited) \cup Ahead(JumpCode(h)) = Expected
  BY DEF OnWay
<1>9. ASSUME tidy, NEW g \in Hooks, q = JumpCode(g)
      PROVE  /\ hook'[g] # Null /\ g \in InTheWay'
             /\ \A n \in DOMAIN visited' : Older(g, visited'[n])
  <2>1. Older(g, h)
    BY <1>9 DEF Before
  <2>2. hook[g] # Null /\ hook'[g] # Null
    BY <1>2, <2>1, OlderIs DEF SameHooks
  <2>3. g \in InTheWay
    <3>1. caller # Null => caller \in Hooks /\ Older(h, caller)
      BY <1>8, <1>9 DEF InTheWay, TypeOK
    <3> QED BY <2>1, <2>2, <3>1, OlderIs DEF InTheWay
  <2>4. ASSUME NEW n \in 1 .. Len(visited)
        PROVE  Older(g, visited[n])
    BY <1>6, <1>8, <1>9, <2>1, OlderIs
  <2>5. ASSUME NEW n \in DOMAIN visited'
        PROVE  Older(g, visited'[n])
    <3>1. n \in 1 .. Len(visited) \/ n = Len(visited) + 1
      BY <1>6
    <3> QED BY <1>6, <2>1, <2>4, <3>1
  <2> QED BY <1>4, <2>2, <2>3, <2>5
<1>10. ASSUME tidy, Simple
       PROVE  Range(visited)' \cup Ahead(q)' = Expected'
  <2>1. Ahead(q) = {f \in Hooks : Older(f, h)}
    BY <1>10 DEF Before
  <2>2. Ahead(JumpCode(h)) = {f \in Hooks : f = h \/ Older(f, h)}
    BY <1>1, AheadIs
  <2>3. Ahead(JumpCode(h)) = {h} \cup Ahead(q)
    BY <2>1, <2>2
  <2> QED BY <1>3, <1>5, <1>7, <1>8, <1>10, <2>3
<1>11. ASSUME tidy, NEW g \in Hooks, q = JumpCode(g), NEW n \in DOMAIN visited'
       PROVE  Older(g, visited[n])'
  <2>1. visited'[n] \in Hooks
    <3>1. n \in 1 .. Len(visited) \/ n = Len(visited) + 1
      BY <1>6, <1>11
    <3> QED BY <1>6, <3>1
  <2>2. Older(g, visited'[n])
    BY <1>9, <1>11
  <2> QED BY <1>3, <2>1, <2>2
<1> QED BY <1>1, <1>3, <1>9, <1>10, <1>11 DEF OnWay

\* A call that begins where the function is finds some code that is there.
LEMMA FromStart ==
    ASSUME TypeInv, RestInv, CallStep, pc' = src, trace' = <<>>,
           NEW q \in Codes, OnWay(q)', CodeIs(CodeAt(mem', src, JmpSize), q)
    PROVE  InFunction' /\ pc' # Null
<1>2. RestIn(mem')
  <2>1. \A a \in Addresses : a \notin HeadOf(src) => mem'[a] = mem[a]
    BY CallsWriteHead DEF CallStep
  <2> QED BY <2>1 DEF RestIn, RestInv, Kept
<1>3. HoldsAt(mem', src, q, 1)
  BY <1>2, HeadHolds DEF TypeInv
<1>4. /\ IsCode(q) /\ 1 \in 1 .. Len(q) /\ Offset(q, 1) = 0 /\ src \in Nat
  BY CodesAre DEF TypeInv
<1>5. trace' = SubSeq(q, 1, 1 - 1) /\ pc' = src + Offset(q, 1)
  BY <1>4, FirstSteps
<1> QED BY <1>3, <1>4, <1>5, InFunctionNext

\* So does one that begins with a trampoline.
LEMMA FromTrampoline ==
    ASSUME TypeInv, CallInv, CallStep, NEW h \in Hooks,
           hook[h] # Null, hook[h].trampoline # Null,
           \A q : Before(q, h) => OnWay(q)',
           pc' = hook[h].trampoline, trace' = <<>>
    PROVE  InTrampoline' /\ pc' # Null
<1>1. PICK q \in Codes :
          /\ Before(q, h)
          /\ \E K \in 1 .. Len(q) : IsTrampoline(mem, Area(h), src, q, K)
  BY DEF CallInv, TrampolinesKnown
<1>2. PICK K \in 1 .. Len(q) : IsTrampoline(mem, Area(h), src, q, K)
  BY <1>1
<1>3. OnWay(q)'
  BY <1>1
<1>4. /\ IsCode(q) /\ 1 \in 1 .. Len(q) /\ 1 <= K + 1 /\ Offset(q, 1) = 0
      /\ Area(h) \in Nat
  BY CodesAre, PlaceIsAddress DEF TypeInv
<1>5. pc' = Area(h)
  BY DEF TypeInv, TypeOK
<1>6. trace' = SubSeq(q, 1, 1 - 1) /\ pc' = Area(h) + Offset(q, 1)
  BY <1>4, <1>5, FirstSteps
<1> QED BY <1>2, <1>3, <1>4, <1>6, InTrampolineNext

\* The rest of the function is there when a trampoline jumps to it.
LEMMA BackInFunction ==
    ASSUME TypeOK, RestInv, NEW n \in 1 .. Len(program),
           Offset(program, n) >= JmpSize
    PROVE  HoldsAt(mem, src, program, n)
<1> SUFFICES ASSUME NEW k \in n .. Len(program)
             PROVE  InsnAt(mem, src + Offset(program, k), program[k])
  BY DEF HoldsAt
<1>1. IsCode(program) /\ Len(program) \in Nat
  BY ProgramIsCode DEF TypeOK
<1>2. k \in 1 .. Len(program) /\ n <= k
  BY <1>1
<1>3. Offset(program, k) >= JmpSize
  <2>1. k \in 1 .. Len(program) + 1 /\ n \in 1 .. Len(program) + 1
    BY <1>1, <1>2
  <2>2. /\ Offset(program, n) <= Offset(program, k)
        /\ Offset(program, n) \in Nat /\ Offset(program, k) \in Nat
    BY <1>1, <1>2, <2>1, OffsetIs
  <2> DEFINE a == Offset(program, n)
             b == Offset(program, k)
  <2>3. a <= b /\ a \in Nat /\ b \in Nat /\ a >= JmpSize /\ JmpSize \in Nat
    BY <2>2 DEF JmpSize
  <2> HIDE DEF a, b
  <2>4. b >= JmpSize
    BY <2>3
  <2> QED BY <2>4 DEF b
<1>4. RestIn(mem)
  BY DEF RestIn, RestInv
<1> QED BY <1>2, <1>3, <1>4, RestIsAfter

\* Where a call may be, that is not over.
Somewhere == pc # Null /\ (AtHook \/ InFunction \/ InTrampoline)

LEMMA AtHookNext ==
    ASSUME AtHook'
    PROVE  pc' # Null
BY PlaceIsAddress, NullIsNothing DEF AtHook

\* An instruction leads somewhere, or the function has run.
LEMMA ExecuteLeads ==
    ASSUME TypeInv, OrderInv, RestInv, CallInv, Execute
    PROVE  Somewhere' \/ (pc' = Null /\ trace' = program /\ OnWay(program))
<1> USE DEF TypeInv
<1>0. CallStep /\ pc # Null /\ ~crashed /\ ~AtHook
  BY DEF CallStep, Execute, AtHook
<1>1. CASE InFunction
  <2>0. PICK q \in Codes : \E n \in 1 .. Len(q) :
            /\ OnWay(q)
            /\ pc = src + Offset(q, n) /\ trace = SubSeq(q, 1, n - 1)
            /\ HoldsAt(mem, src, q, n)
    BY <1>1 DEF InFunction
  <2>1. PICK n \in 1 .. Len(q) :
            /\ OnWay(q)
            /\ pc = src + Offset(q, n) /\ trace = SubSeq(q, 1, n - 1)
            /\ HoldsAt(mem, src, q, n)
    BY <2>0
  <2>2. Len(q) \in Nat /\ src \in Nat
    BY CodesAre
  <2>3. \/ AtHook'
        \/ /\ n < Len(q)
           /\ pc' = src + Offset(q, n + 1)
           /\ trace' = SubSeq(q, 1, n)
           /\ mem' = mem
        \/ Return /\ trace' = program /\ OnWay(program)
    BY <2>1, <2>2, InFunctionIs, CodeRuns
  <2>4. CASE /\ n < Len(q) /\ pc' = src + Offset(q, n + 1)
             /\ trace' = SubSeq(q, 1, n) /\ mem' = mem
    <3>1. n + 1 \in 1 .. Len(q) /\ (n + 1) - 1 = n
      BY <2>2, <2>4
    <3>2. HoldsAt(mem', src, q, n + 1)
      <4>1. \A k \in n + 1 .. Len(q) : k \in n .. Len(q)
        BY <2>2
      <4> QED BY <2>1, <2>4, <4>1 DEF HoldsAt
    <3>3. InFunction' /\ pc' # Null
      BY <1>0, <2>1, <2>4, <3>1, <3>2, InFunctionNext, ExecuteKeepsWay
    <3> QED BY <3>3 DEF Somewhere
  <2> QED BY <2>3, <2>4, AtHookNext DEF Somewhere, Return
<1>2. CASE InTrampoline
  <2>0. PICK h \in Hooks, q \in Codes : \E K, n \in 1 .. Len(q) :
            /\ OnWay(q) /\ n <= K + 1
            /\ pc = Area(h) + Offset(q, n) /\ trace = SubSeq(q, 1, n - 1)
            /\ IsTrampoline(mem, Area(h), src, q, K)
    BY <1>2 DEF InTrampoline
  <2>1. PICK K \in 1 .. Len(q), n \in 1 .. Len(q) :
            /\ OnWay(q) /\ n <= K + 1
            /\ pc = Area(h) + Offset(q, n) /\ trace = SubSeq(q, 1, n - 1)
            /\ IsTrampoline(mem, Area(h), src, q, K)
    BY <2>0
  <2>2. IsCode(q) /\ Len(q) \in Nat /\ Area(h) \in Nat
    BY CodesAre, PlaceIsAddress
  <2>3. n <= K \/ n = K + 1
    BY <2>1, <2>2
  <2>4. CASE n <= K
    <3>1. \/ AtHook'
          \/ /\ n < Len(q)
             /\ pc' = Area(h) + Offset(q, n + 1)
             /\ trace' = SubSeq(q, 1, n)
          \/ Return /\ trace' = program /\ OnWay(program)
      BY <2>1, <2>2, <2>4, InTrampolineIs, CodeRuns
    <3>2. CASE /\ n < Len(q) /\ pc' = Area(h) + Offset(q, n + 1)
               /\ trace' = SubSeq(q, 1, n)
      <4>1. n + 1 \in 1 .. Len(q) /\ (n + 1) - 1 = n /\ n + 1 <= K + 1
        BY <2>2, <2>4, <3>2
      <4>2. InTrampoline' /\ pc' # Null
        BY <1>0, <2>1, <3>2, <4>1, InTrampolineNext, ExecuteKeepsWay
      <4> QED BY <4>2 DEF Somewhere
    <3> QED BY <3>1, <3>2, AtHookNext DEF Somewhere, Return
  <2>5. CASE n = K + 1
    <3>1. q = program
      <4>1. Len(q) # 1
        <5> DEFINE N == Len(q)
        <5>1. N \in Nat /\ K \in 1 .. N /\ n \in 1 .. N /\ n = K + 1
          BY <2>2, <2>5
        <5> HIDE DEF N
        <5>2. N # 1
          BY <5>1
        <5> QED BY <5>2 DEF N
      <4> QED BY <4>1, CodesAre
    <3>2. InsnAt(mem, pc, JumpStep(src + Offset(q, n)))
      BY <2>1, <2>5, InTrampolineIs
    <3>3. pc' = src + Offset(q, n) /\ trace' = trace /\ mem' = mem
      BY <3>2, JumpTarget, JumpRuns
    <3>4. Offset(q, n) >= JmpSize
      <4> DEFINE o == Offset(q, n)
      <4>1. o \in JmpSize .. TrampolineSize - JmpSize
        BY <2>1, <2>5 DEF IsTrampoline
      <4> HIDE DEF o
      <4>2. o >= JmpSize
        BY <4>1 DEF JmpSize, TrampolineSize
      <4> QED BY <4>2 DEF o
    <3>5. HoldsAt(mem', src, q, n)
      BY <3>1, <3>3, <3>4, BackInFunction
    <3>6. InFunction' /\ pc' # Null
      BY <1>0, <2>1, <3>3, <3>5, InFunctionNext, ExecuteKeepsWay
    <3> QED BY <3>6 DEF Somewhere
  <2> QED BY <2>3, <2>4, <2>5
<1> QED BY <1>0, <1>1, <1>2 DEF CallInv, PlaceInv

-----------------------------------------------------------------------------
\* Plugins come and go between calls.
LEMMA PlugKeepsCalls ==
    ASSUME TypeInv, CallInv, TrampolinesFit', pc' = Null, calls' = 0,
           removed' = removed, pc = Null
    PROVE  PlaceInv' /\ VisitInv' /\ CallsRunTheOriginal' /\ HooksAreVisited'
<1>1. removed' = <<>> /\ DOMAIN removed' = {} /\ ~(calls' > 0)
  BY DEF TypeInv, RemovedInv
<1>2. VisitInv'
  BY <1>1 DEF VisitInv, CallerInv, VisitedInv, RemovedIs
<1> QED BY <1>1, <1>2 DEF PlaceInv, CallsRunTheOriginal, HooksAreVisited, Returned

LEMMA InstallKeepsCalls ==
    ASSUME TypeInv, OrderInv, RestInv, CallInv, \A i \in Insns : Agrees(i),
           NEW h \in Hooks, NEW fails, InstallNew(h, fails)
    PROVE  CallInv'
<1> USE DEF TypeInv
<1>1. TrampolinesFit' /\ HeadKnown' /\ CodesKnown' /\ TrampolinesKnown'
  BY InstallKeepsKnown
<1>2. pc' = Null /\ pc = Null /\ calls' = 0 /\ removed' = removed
  BY DEF InstallNew, callVars
<1>3. CrashesExplained'
  <2> SUFFICES ASSUME crashed', Page(src) = Page(src + JmpSize - 1)
               PROVE  FALSE
    BY DEF InstallNew, CrashesExplained
  <2>1. /\ New(h, fails).hook # Null
        /\ ~CanWrite(writable \cup New(h, fails).writable)
    BY DEF InstallNew
  <2>2. New(h, fails).writable = Unprotected(src, JmpSize)
    BY <2>1, NewTrampoline DEF TypeOK, Memory
  <2> QED BY <2>1, <2>2, OnePage
<1> QED BY <1>1, <1>2, <1>3, PlugKeepsCalls DEF CallInv

LEMMA DestroyKeepsCalls ==
    ASSUME TypeInv, OrderInv, CallInv, NEW h \in Hooks, DestroyHook(h)
    PROVE  CallInv'
<1>1. TrampolinesFit' /\ HeadKnown' /\ CodesKnown' /\ TrampolinesKnown'
  BY DestroyKeepsKnown
<1>2. pc' = Null /\ pc = Null /\ calls' = 0 /\ removed' = removed /\ ~crashed'
  BY DEF DestroyHook, callVars
<1> QED BY <1>1, <1>2, PlugKeepsCalls DEF CallInv, CrashesExplained

\* What is in the way of a call stays.
LEMMA InTheWayStays ==
    ASSUME TypeInv, CallStep, caller' = caller
    PROVE  InTheWay' = InTheWay
<1>1. SameHooks /\ (caller # Null => caller \in Hooks)
  BY CallsKeepHooks DEF CallStep, TypeInv, TypeOK
<1>2. \A f, g \in Hooks : Older(f, g)' <=> Older(f, g)
  BY CallsKeepAlive
<1> QED BY <1>1, <1>2 DEF InTheWay, SameHooks

\* What a call has visited when it begins, runs, and gets to a hook.
LEMMA BeginKeepsVisits ==
    ASSUME TypeInv, NEW address, NEW from, CallAt(address, from),
           from # Null =>
               from \in Hooks /\ hook[from] # Null /\ style[from] = "trampoline"
    PROVE  VisitInv'
<1>1. /\ removed' = <<>> /\ DOMAIN removed' = {} /\ visited' = <<>>
      /\ DOMAIN visited' = {} /\ caller' = from /\ hook' = hook /\ style' = style
      /\ calls' = calls + 1 /\ calls \in Nat
  BY DEF CallAt, TypeInv, RemovedInv, TypeOK
<1>2. calls' > 0
  BY <1>1
<1>3. Range(visited)' = {}
  BY <1>1 DEF Range
<1> QED BY <1>1, <1>2, <1>3 DEF VisitInv, CallerInv, VisitedInv, RemovedIs

LEMMA ExecuteKeepsVisits ==
    ASSUME TypeInv, CallInv, Execute \/ UNCHANGED vars, ~crashed
    PROVE  VisitInv'
<1> USE DEF TypeInv
<1>1. /\ CallStep /\ UNCHANGED <<caller, visited, calls, tidy, order, style>>
      /\ \/ removed' = <<>> /\ pc' = Null
         \/ removed' = removed /\ (pc' # Null => pc # Null)
  <2>1. CASE Execute
    BY <2>1, ExecuteIs DEF Execute, CallStep, Return
  <2>2. CASE UNCHANGED vars
    BY <2>2 DEF vars, CallStep
  <2> QED BY <2>1, <2>2
<1>2. SameHooks /\ InTheWay' = InTheWay
  BY <1>1, CallsKeepHooks, InTheWayStays DEF CallStep
<1>3. caller # Null => caller \in Hooks
  BY DEF TypeOK
<1>4. CallerInv /\ VisitedInv /\ RemovedIs
  BY DEF CallInv, VisitInv
<1>5. CallerInv'
  <2>1. pc' # Null => pc # Null
    BY <1>1
  <2> QED BY <1>1, <1>2, <1>3, <1>4, <2>1 DEF CallerInv, SameHooks
<1>6. VisitedInv'
  BY <1>1, <1>2, <1>4 DEF VisitedInv, Older, Range
<1>7. RemovedIs'
  <2>1. CASE removed' = <<>> /\ pc' = Null
    <3>1. DOMAIN removed' = {}
      BY <2>1
    <3> QED BY <2>1, <3>1 DEF RemovedIs
  <2>2. CASE removed' = removed /\ (pc' # Null => pc # Null)
    BY <1>1, <1>4, <2>2 DEF RemovedIs, Older, Range
  <2> QED BY <1>1, <2>1, <2>2
<1> QED BY <1>5, <1>6, <1>7 DEF VisitInv

LEMMA EnterKeepsVisits ==
    ASSUME TypeInv, OrderInv, CallInv, NEW h \in Hooks, EnterHook(h),
           OnWay(JumpCode(h))
    PROVE  VisitInv'
<1> USE DEF TypeInv
<1>1. /\ CallStep /\ tidy' = tidy /\ visited' = Append(visited, h)
      /\ UNCHANGED <<caller, calls, order, style>>
      /\ hook[h] # Null /\ ~crashed /\ pc # Null
  BY PlaceIsAddress, NullIsNothing DEF EnterHook, CallStep
<1>2. SameHooks /\ InTheWay' = InTheWay
  BY <1>1, CallsKeepHooks, InTheWayStays DEF CallStep
<1>3. CallerInv /\ VisitedInv /\ RemovedIs
  BY <1>1 DEF CallInv, VisitInv
<1>4. CallerInv'
  <2>1. caller # Null => caller \in Hooks
    BY DEF TypeOK
  <2> QED BY <1>1, <1>2, <1>3, <2>1 DEF CallerInv, SameHooks
<1>5. \A f, g : Older(f, g)' <=> Older(f, g)
  BY <1>1 DEF Older
<1>6. /\ DOMAIN visited = 1 .. Len(visited) /\ Len(visited) \in Nat
      /\ DOMAIN visited' = 1 .. Len(visited) + 1
      /\ \A n \in 1 .. Len(visited) : visited'[n] = visited[n]
      /\ visited'[Len(visited) + 1] = h
  BY <1>1, VisitedType, AppendProperties, LenProperties
<1> DEFINE l == Len(visited)
<1>7. /\ DOMAIN visited = 1 .. l /\ l \in Nat /\ DOMAIN visited' = 1 .. l + 1
      /\ \A n \in 1 .. l : visited'[n] = visited[n]
      /\ visited'[l + 1] = h
  BY <1>6
<1> HIDE DEF l
<1>8. Range(visited)' = Range(visited) \cup {h}
  <2>1. 1 .. l + 1 = (1 .. l) \cup {l + 1}
    BY <1>7
  <2> QED BY <1>7, <2>1 DEF Range
<1>9. tidy => h \in InTheWay /\ \A n \in DOMAIN visited : Older(h, visited[n])
  BY <1>1 DEF OnWay
<1>10. VisitedInv'
  <2> SUFFICES ASSUME tidy, calls > 0
               PROVE  /\ \A m, n \in DOMAIN visited' :
                            m < n => Older(visited'[n], visited'[m])
                      /\ Range(visited)' \subseteq InTheWay
    BY <1>1, <1>2, <1>5 DEF VisitedInv
  <2>1. /\ \A m, n \in DOMAIN visited : m < n => Older(visited[n], visited[m])
        /\ Range(visited) \subseteq InTheWay
    BY <1>3 DEF VisitedInv
  <2>2. ASSUME NEW m \in DOMAIN visited', NEW n \in DOMAIN visited', m < n
        PROVE  Older(visited'[n], visited'[m])
    <3>1. m \in 1 .. l /\ (n \in 1 .. l \/ n = l + 1)
      BY <1>7, <2>2
    <3> QED BY <1>7, <1>9, <2>1, <2>2, <3>1
  <2> QED BY <1>8, <1>9, <2>1, <2>2
<1>11. RemovedIs'
  <2> SUFFICES ASSUME tidy
               PROVE  RemovedIs'
    BY <1>1 DEF RemovedIs
  <2>1. /\ \A n \in DOMAIN removed :
               /\ removed[n].was /\ style[removed[n].hook] = "remove"
               /\ removed[n].hook \in Range(visited)
        /\ \A m, n \in DOMAIN removed :
               m < n => Older(removed[n].hook, removed[m].hook)
        /\ \A k \in DOMAIN visited : style[visited[k]] = "remove" =>
               \E n \in DOMAIN removed : removed[n].hook = visited[k]
    BY <1>1, <1>3 DEF RemovedIs
  <2>2. CASE style[h] = "trampoline"
    <3>1. removed' = removed
      BY <2>2 DEF EnterHook
    <3>2. ASSUME NEW k \in DOMAIN visited', style[visited'[k]] = "remove"
          PROVE  \E n \in DOMAIN removed : removed[n].hook = visited'[k]
      <4>1. k \in 1 .. l \/ k = l + 1
        BY <1>7
      <4> QED BY <1>7, <2>1, <2>2, <3>2, <4>1
    <3>3. \A n \in DOMAIN removed : removed[n].hook \in Range(visited)'
      BY <1>8, <2>1
    <3> QED BY <1>1, <1>5, <2>1, <3>1, <3>2, <3>3 DEF RemovedIs
  <2>3. CASE style[h] # "trampoline"
    <3> DEFINE r == [hook |-> h, was |-> hook[h].installed]
               j == Len(removed)
    <3>1. removed' = Append(removed, r) /\ style[h] = "remove"
      BY <2>3 DEF EnterHook, TypeOK
    \* It has not been taken away by the same call already.
    <3>2. ASSUME NEW n \in DOMAIN removed
          PROVE  Older(h, removed[n].hook)
      BY <1>9, <2>1 DEF Range
    <3>3. hook[h].installed
      <4> SUFFICES ASSUME ~hook[h].installed
                   PROVE  FALSE
        OBVIOUS
      <4>1. PICK n \in DOMAIN removed : removed[n].hook = h
        BY <1>1 DEF RemovedInv, ToInstall
      <4> QED BY <3>2, <4>1, OlderIs
    <3>4. r.hook = h /\ r.was /\ r \in [hook : Hooks, was : BOOLEAN]
      BY <3>3
    <3> HIDE DEF r
    <3>5. /\ DOMAIN removed = 1 .. j /\ j \in Nat /\ DOMAIN removed' = 1 .. j + 1
          /\ \A n \in 1 .. j : removed'[n] = removed[n]
          /\ removed'[j + 1] = r
      <4>1. removed \in Seq([hook : Hooks, was : BOOLEAN])
        BY DEF TypeOK
      <4> QED BY <3>1, <3>4, <4>1, AppendProperties, LenProperties
    <3> HIDE DEF j
    <3>6. ASSUME NEW n \in DOMAIN removed'
          PROVE  /\ removed'[n].was /\ style[removed'[n].hook] = "remove"
                 /\ removed'[n].hook \in Range(visited)'
      <4>1. n \in 1 .. j \/ n = j + 1
        BY <3>5
      <4> QED BY <1>8, <2>1, <3>1, <3>4, <3>5, <4>1
    <3>7. ASSUME NEW m \in DOMAIN removed', NEW n \in DOMAIN removed', m < n
          PROVE  Older(removed'[n].hook, removed'[m].hook)
      <4>1. m \in 1 .. j /\ (n \in 1 .. j \/ n = j + 1)
        BY <3>5, <3>7
      <4> QED BY <2>1, <3>2, <3>4, <3>5, <3>7, <4>1
    <3>8. ASSUME NEW k \in DOMAIN visited', style[visited'[k]] = "remove"
          PROVE  \E n \in DOMAIN removed' : removed'[n].hook = visited'[k]
      <4>1. CASE k \in 1 .. l
        <5>1. PICK n \in DOMAIN removed : removed[n].hook = visited[k]
          BY <1>7, <2>1, <3>8, <4>1
        <5>2. n \in DOMAIN removed' /\ removed'[n] = removed[n]
          BY <3>5
        <5> QED BY <1>7, <4>1, <5>1, <5>2
      <4>2. CASE k = l + 1
        <5>1. j + 1 \in DOMAIN removed' /\ removed'[j + 1].hook = h
          BY <3>4, <3>5
        <5> QED BY <1>7, <4>2, <5>1
      <4> QED BY <1>7, <4>1, <4>2
    <3> QED BY <1>1, <1>5, <3>6, <3>7, <3>8 DEF RemovedIs
  <2> QED BY <2>2, <2>3
<1> QED BY <1>4, <1>10, <1>11 DEF VisitInv

\* A step of a call leads somewhere, ends it as it should, or ends the process
\* for a reason.
LEMMA CallLeads ==
    ASSUME TypeInv, CallInv, CallStep,
           TrampolinesFit' /\ HeadKnown' /\ CodesKnown' /\ TrampolinesKnown',
           \/ /\ ~crashed' /\ VisitInv'
              /\ \/ Somewhere'
                 \/ pc' = Null /\ trace' = program /\ OnWay(program)'
           \/ crashed' /\ CrashesExplained'
    PROVE  CallInv'
<1>1. program' = program
  BY CallsKeepHooks DEF CallStep
<1>2. PlaceInv' /\ VisitInv'
  BY DEF PlaceInv, Somewhere, VisitInv
<1>3. CallsRunTheOriginal'
  BY <1>1 DEF CallsRunTheOriginal, Returned, Somewhere
<1>4. CrashesExplained'
  BY DEF CrashesExplained
<1>5. HooksAreVisited'
  <2> SUFFICES ASSUME Returned', tidy'
               PROVE  HooksAreVisited'
    BY DEF HooksAreVisited
  <2>1. calls' > 0 /\ OnWay(program)' /\ VisitedInv'
    BY DEF Returned, Somewhere, VisitInv
  <2>2. Ahead(program)' = {}
    <3>1. \A q : Ahead(q)' = Ahead(q)
      BY CallsKeepAlive
    <3>2. Ahead(program) = {}
      BY AheadIs DEF TypeInv
    <3> QED BY <1>1, <3>1, <3>2 DEF Ahead
  <2>3. Simple' => Range(visited)' = Expected'
    BY <1>1, <2>1, <2>2 DEF OnWay
  <2> QED BY <2>1, <2>3 DEF HooksAreVisited, VisitedInv, Expected
<1> QED BY <1>2, <1>3, <1>4, <1>5 DEF CallInv

\* A plugin without a trampoline that calls it.
LEMMA NoTrampoline ==
    ASSUME NEW h \in Hooks, hook[h] # Null, style[h] = "trampoline",
           hook[h].trampoline = Null, hook' = hook, style' = style
    PROVE  CrashesExplained'
BY DEF CrashesExplained

LEMMA CallsKeepCalls ==
    ASSUME TypeInv, OrderInv, RestInv, CallInv, CallStep
    PROVE  CallInv'
<1> USE DEF TypeInv
<1>e. ASSUME Execute
      PROVE  Somewhere' \/ (pc' = Null /\ trace' = program /\ OnWay(program))
  BY <1>e, ExecuteLeads
<1>0. TrampolinesFit' /\ HeadKnown' /\ CodesKnown' /\ TrampolinesKnown'
  <2>1. ASSUME Execute, pc' = Null, tidy, Simple
        PROVE  Range(visited) = Expected
    BY <1>e, <2>1, AheadIs DEF Somewhere, OnWay
  <2> QED BY <2>1, CallsKeepKnown
<1>1. CASE Execute
  <2>1. ~crashed' /\ VisitInv'
    BY <1>1, ExecuteKeepsVisits DEF Execute
  <2>2. OnWay(program) => OnWay(program)'
    <3>1. program' = program
      BY <1>1 DEF Execute
    <3>2. \A q : OnWay(q) => OnWay(q)'
      BY <1>1, ExecuteKeepsWay
    <3> QED BY <3>1, <3>2 DEF OnWay, Ahead
  <2> QED BY <1>0, <1>1, <1>e, <2>1, <2>2, CallLeads
<1>2. CASE Call
  <2>1. pc' = src /\ trace' = <<>> /\ ~crashed' /\ mem' = mem
    BY <1>2, SrcIsAddress, NullIsNothing DEF Call, CallAt, TypeOK
  <2>2. PICK q \in Codes : /\ Alive(q) /\ HeadIsOf(q)
                           /\ tidy /\ Simple => Ahead(q) = Jumping(calls > 0)
    BY <1>2 DEF Call, CallAt, RemovedInv, CallInv, HeadKnown
  <2>3. InFunction' /\ pc' # Null
    BY <1>2, <2>1, <2>2, CallOnWay, FromStart DEF HeadIsOf
  <2>4. VisitInv'
    BY <1>2, BeginKeepsVisits DEF Call
  <2> QED BY <1>0, <2>1, <2>3, <2>4, CallLeads DEF Somewhere
<1>3. ASSUME NEW h \in Hooks, PluginCalls(h)
      PROVE  CallInv'
  <2>1. /\ hook[h] # Null /\ style[h] = "trampoline"
        /\ pc' = hook[h].trampoline /\ trace' = <<>>
        /\ crashed' = (hook[h].trampoline = Null)
        /\ hook' = hook /\ style' = style
    BY <1>3, ThunkIs DEF PluginCalls, CallAt
  <2>2. CASE hook[h].trampoline = Null
    BY <1>0, <2>1, <2>2, NoTrampoline, CallLeads
  <2>3. CASE hook[h].trampoline # Null
    <3>1. \A q : Before(q, h) => OnWay(q)'
      BY <1>3, PluginOnWay
    <3>2. InTrampoline' /\ pc' # Null
      BY <2>1, <2>3, <3>1, FromTrampoline
    <3>3. VisitInv'
      BY <1>3, BeginKeepsVisits DEF PluginCalls
    <3> QED BY <1>0, <2>1, <2>3, <3>2, <3>3, CallLeads DEF Somewhere
  <2> QED BY <2>2, <2>3
<1>4. ASSUME NEW h \in Hooks, EnterHook(h)
      PROVE  CallInv'
  <2>1. trace = <<>> /\ hook[h] # Null /\ OnWay(JumpCode(h))
    BY <1>4, HookIs DEF EnterHook, CallInv
  <2>2. \A q : Before(q, h) => OnWay(q)'
    BY <1>4, <2>1, EnterOnWay
  <2>3. VisitInv'
    BY <1>4, <2>1, EnterKeepsVisits
  <2>4. CASE style[h] = "trampoline"
    <3>1. /\ crashed' = (hook[h].trampoline = Null)
          /\ ~crashed' => pc' = hook[h].trampoline
          /\ trace' = <<>> /\ hook' = hook /\ style' = style
      BY <1>4, <2>1, <2>4, ThunkIs DEF EnterHook
    <3>2. CASE hook[h].trampoline = Null
      BY <1>0, <2>1, <2>4, <3>1, <3>2, NoTrampoline, CallLeads
    <3>3. CASE hook[h].trampoline # Null
      BY <1>0, <2>1, <2>2, <2>3, <3>1, <3>3, FromTrampoline, CallLeads DEF Somewhere
    <3> QED BY <3>2, <3>3
  <2>5. CASE style[h] # "trampoline"
    <3>1. ~crashed' /\ pc' = src /\ trace' = <<>> /\ mem' = RestoreCode(mem, h)
      BY <1>4, <2>1, <2>5 DEF EnterHook
    <3>2. PICK q \in Codes : OnWay(q)' /\ CodeIs(CodeAt(mem', src, JmpSize), q)
      <4>1. CASE hook[h].installed
        <5>1. PICK q \in Codes : Before(q, h) /\ CodeIs(hook[h].code, q)
          BY <2>1 DEF CallInv, CodesKnown
        <5>2. CodeIs(CodeAt(mem', src, JmpSize), q)
          BY <2>1, <3>1, <4>1, <5>1, HeadAfterRestore
        <5> QED BY <2>2, <5>1, <5>2
      \* It is not there only if plugins went in another order.
      <4>2. CASE ~hook[h].installed
        <5>1. ~tidy
          <6> SUFFICES ASSUME tidy
                       PROVE  FALSE
            OBVIOUS
          <6>1. PICK n \in DOMAIN removed : removed[n].hook = h
            BY <2>1, <4>2 DEF RemovedInv, ToInstall
          <6>2. h \in Range(visited)
            BY <1>4, <6>1 DEF EnterHook, CallInv, VisitInv, RemovedIs
          <6>3. \A k \in DOMAIN visited : Older(h, visited[k])
            BY <2>1 DEF OnWay
          <6> QED BY <6>2, <6>3, OlderIs DEF Range
        <5>2. tidy' = tidy
          BY <1>4 DEF EnterHook
        <5> QED BY <5>1, <5>2, HeadAfterCall DEF OnWay
      <4> QED BY <4>1, <4>2
    <3>3. InFunction' /\ pc' # Null
      BY <3>1, <3>2, FromStart
    <3> QED BY <1>0, <2>3, <3>1, <3>3, CallLeads DEF Somewhere
  <2> QED BY <2>4, <2>5
<1>5. CASE Crash
  <2>1. crashed' /\ ~tidy
    <3>1. CASE \E h \in Hooks : pc = Dst(h)
      BY <1>5, <3>1, HookIs DEF Crash, CallInv
    <3>2. CASE ~\E h \in Hooks : pc = Dst(h)
      BY <1>5, <3>2, InsnIs DEF Crash, CallInv
    <3> QED BY <1>5, <3>1, <3>2 DEF Crash
  <2>2. tidy' = tidy
    BY <1>5 DEF Crash
  <2> QED BY <1>0, <2>1, <2>2, CallLeads DEF CrashesExplained
<1>6. CASE UNCHANGED vars
  <2> USE <1>6 DEF vars
  <2>1. CrashesExplained' /\ CallsRunTheOriginal' /\ HooksAreVisited'
    BY <1>0 DEF CrashesExplained, CallsRunTheOriginal, HooksAreVisited, Returned,
       Older, InTheWay, Simple, Overwritten, Range, CallInv
  <2>2. VisitInv'
    <3>1. CASE crashed
      BY <3>1 DEF VisitInv
    <3> QED BY <3>1, ExecuteKeepsVisits
  <2>3. CASE AtHook
    <3>1. PICK g \in Hooks : pc = Dst(g) /\ trace = <<>> /\ OnWay(JumpCode(g))
      BY <2>3 DEF AtHook
    <3>2. OnWay(JumpCode(g))'
      BY <3>1, ExecuteKeepsWay
    <3>3. AtHook'
      BY <3>1, <3>2 DEF AtHook
    <3> QED BY <1>0, <2>1, <2>2, <3>3 DEF CallInv, PlaceInv
  <2>4. CASE InFunction
    <3>1. InFunction'
      BY <2>4, InFunctionNext, ExecuteKeepsWay DEF InFunction
    <3> QED BY <1>0, <2>1, <2>2, <3>1 DEF CallInv, PlaceInv
  <2>5. CASE InTrampoline
    <3>1. InTrampoline'
      BY <2>5, InTrampolineNext, ExecuteKeepsWay DEF InTrampoline
    <3> QED BY <1>0, <2>1, <2>2, <3>1 DEF CallInv, PlaceInv
  <2>6. CASE pc = Null \/ crashed
    BY <1>0, <2>1, <2>2, <2>6 DEF CallInv, PlaceInv
  <2> QED BY <2>3, <2>4, <2>5, <2>6 DEF CallInv, PlaceInv
<1> QED BY <1>1, <1>2, <1>3, <1>4, <1>5, <1>6 DEF CallStep

LEMMA CallInit ==
    ASSUME Init
    PROVE  CallInv
<1>1. /\ TypeOK /\ pc = Null /\ calls = 0 /\ ~crashed
      /\ removed = <<>> /\ DOMAIN removed = {}
      /\ \A h \in Hooks : hook[h] = Null
  BY TypeInit DEF Init, TypeInv
<1>2. HeadIsOf(program)
  BY <1>1, HeadReads DEF Init, HeadIsOf, HeadByte
<1>3. HeadKnown
  <2>1. Jumping(IF pc = Null THEN calls > 0 ELSE calls > 1) = {}
    BY <1>1 DEF Jumping
  <2>2. Ahead(program) = {} /\ Alive(program) /\ program \in Codes
    BY <1>1, AheadIs, ProgramIsAlive DEF Codes
  <2> QED BY <1>2, <2>1, <2>2 DEF HeadKnown
<1>4. VisitInv
  BY <1>1 DEF VisitInv, CallerInv, VisitedInv, RemovedIs
<1> QED BY <1>1, <1>3, <1>4 DEF CallInv, TrampolinesFit, CodesKnown,
           TrampolinesKnown, PlaceInv, CallsRunTheOriginal, HooksAreVisited, Returned,
           CrashesExplained

LEMMA CallInvStep ==
    ASSUME TypeInv, OrderInv, RestInv, CallInv, \A i \in Insns : Agrees(i),
           [Next]_vars
    PROVE  CallInv'
<1>1. CASE \E h \in Hooks,
              fails \in SUBSET {"calloc", "malloc", "mprotect", "mmap"} :
              InstallNew(h, fails)
  BY <1>1, InstallKeepsCalls
<1>2. CASE \E h \in Hooks : DestroyHook(h)
  BY <1>2, DestroyKeepsCalls
<1>3. CASE CallStep
  BY <1>3, CallsKeepCalls
<1> QED BY <1>1, <1>2, <1>3 DEF Next, CallStep

\* The inductive invariant: where a call is, what is there, and what each hook
\* would put back.
LEMMA CallInvariant ==
    ASSUME \A i \in Insns : Agrees(i)
    PROVE  Spec => [](CodeInv /\ CallInv)
<1>1. ASSUME TypeInv, OrderInv, CodeInv /\ CallInv, [Next]_vars
      PROVE  (CodeInv /\ CallInv)'
  <2>1. CallInv'
    BY <1>1, CallInvStep DEF CodeInv
  <2>2. TrampolinesFit'
    BY <2>1 DEF CallInv
  <2> QED BY <1>1, <2>1, <2>2, CodeStep
<1>2. Init => CodeInv /\ CallInv
  BY CodeInit, CallInit
<1> QED BY <1>1, <1>2, TypeInvariant, PTL DEF Spec

\* Whichever plugins are loaded, in whatever order they go, whatever could not be
\* allocated, and whether the plugins use a trampoline or take their hooks away:
\* a call that returns has run the function's instructions, each once, in order
\* and with the targets they had, part of them perhaps in trampolines, and those
\* are not longer than their blocks.  What is asked of the disassembler is that it
\* knows the length and the relative operand of an instruction, or says that it
\* does not know it (subhook_make_trampoline, subhook_disasm).
THEOREM CallsAlwaysRunTheOriginal ==
    ASSUME \A i \in Insns : Agrees(i)
    PROVE  Spec => []CallsRunTheOriginal
<1>1. CallInv => CallsRunTheOriginal
  BY DEF CallInv
<1> QED BY <1>1, CallInvariant, PTL

\* A call goes through hooks that are in its way only, the youngest first and each
\* once, as long as the last plugin is the first to go: what a trampoline or a
\* hook that takes itself away leads to is the code from before the hook.  If
\* every plugin has a trampoline it goes through all of them, however many they
\* are; of two plugins it misses one only where FopenHook, taking its own hook
\* away and writing it again, has overwritten the jump of the younger one
\* (subhook_new, subhook_remove, ScopedHookRemove).
THEOREM HooksAlwaysVisited ==
    ASSUME \A i \in Insns : Agrees(i)
    PROVE  Spec => []HooksAreVisited
<1>1. CallInv => HooksAreVisited
  BY DEF CallInv
<1> QED BY <1>1, CallInvariant, PTL

\* The process never ends because a call got to bytes that are no instruction, as
\* in the middle of a jump, or to a trampoline that is not there any more: only
\* for the three reasons named in CrashesExplained (subhook_install, ScopedHookRemove).
THEOREM CrashesAlwaysExplained ==
    ASSUME \A i \in Insns : Agrees(i)
    PROVE  Spec => []CrashesExplained
<1>1. CallInv => CrashesExplained
  BY DEF CallInv
<1> QED BY <1>1, CallInvariant, PTL

\* With such a disassembler trampolines fit, so that nothing more is needed for
\* the function to be what it was when all plugins have gone, the last one first
\* (Hook::~Hook).
THEOREM CodeAlwaysRestoredIfKnown ==
    ASSUME \A i \in Insns : Agrees(i)
    PROVE  Spec => []CodeIsRestored
<1>1. CallInv => TrampolinesFit
  BY DEF CallInv
<1> QED BY <1>1, CallInvariant, CodeAlwaysRestored, PTL
=============================================================================
