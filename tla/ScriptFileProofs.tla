-------------------------- MODULE ScriptFileProofs --------------------------
(***************************************************************************)
(* Theorems about ScriptFile: for any files that the compiler writes, with *)
(* tables of any length, and any number of generations.                    *)
(***************************************************************************)
EXTENDS ScriptFile, FiniteSetTheorems, WellFoundedInduction, TLAPS

\* What ScriptFileAssumption says of a file.
LEMMA ImageType ==
    ASSUME NEW f \in Images
    PROVE  \E names : IsProgram(f, names) /\ IsDebugInfo(f, names)
<1> DEFINE tables == {f.files, f.symbols, f.tags, f.automatons, f.states,
                      f.publics, f.natives}
           names == {s.name : s \in UNION {{t[n] : n \in DOMAIN t} :
                                              t \in tables}}
<1> HIDE DEF names
<1>1. IsProgram(f, names) /\ IsDebugInfo(f, names)
  BY ScriptFileAssumption DEF ScriptFileAssumption, names
<1> QED BY <1>1

LEMMA SymbolType ==
    ASSUME NEW f \in Images, NEW n \in DOMAIN f.symbols
    PROVE  /\ DOMAIN f.symbols = 1 .. Len(f.symbols) /\ Len(f.symbols) \in Nat
           /\ f.symbols[n].codestart \in Nat
           /\ f.symbols[n].codeend \in Nat
           /\ f.symbols[n].hidden \in BOOLEAN
<1>1. PICK names : f.symbols \in Seq(Symbol(names))
  BY ImageType DEF IsDebugInfo
<1>2. f.symbols[n] \in Symbol(names)
  BY <1>1
<1> QED BY <1>1, <1>2 DEF Symbol

-----------------------------------------------------------------------------
(* What is allocated                                                       *)

\* The generations that have loaded debug information.
Loads(blocks) == {g \in 1 .. MaxHandlers : <<"AMX_DBG", g>> \in blocks}

\* AllOrNothing is kept because a generation owns nothing before it has asked,
\* and asks once: what a load finds in the blocks of its generation is nothing.
HeapInv ==
    /\ generation \in 1 .. MaxHandlers
    /\ {program, asked} \subseteq BOOLEAN
    /\ heap \subseteq Blocks
    /\ \A b \in heap : /\ b[2] <= generation
                       /\ ~asked => b[2] # generation
    /\ AllOrNothing

LEMMA NeededAreTables == NeededTables \subseteq Tables
  BY DEF NeededTables, Tables

\* A load keeps all tables or none.
LEMMA LoadKeepsAllOrNothing ==
    ASSUME NEW failing
    PROVE  LoadInfo(failing).kept =
               IF LoadInfo(failing).error = "NONE" THEN NeededTables ELSE {}
  BY NeededAreTables DEF LoadInfo, FreeInfo

LEMMA LoadsFinite ==
    ASSUME NEW blocks
    PROVE  /\ IsFiniteSet(Loads(blocks))
           /\ Cardinality(Loads(blocks)) \in 0 .. MaxHandlers
<1>1. MaxHandlers \in Nat
  BY ScriptFileAssumption DEF ScriptFileAssumption
<1>2. IsFiniteSet(1 .. MaxHandlers) /\ Cardinality(1 .. MaxHandlers) = MaxHandlers
  BY <1>1, FS_Interval
<1>3. Loads(blocks) \in SUBSET (1 .. MaxHandlers)
  BY DEF Loads
<1>4. /\ IsFiniteSet(Loads(blocks))
      /\ Cardinality(Loads(blocks)) <= Cardinality(1 .. MaxHandlers)
  BY <1>2, <1>3, FS_Subset
<1>5. Cardinality(Loads(blocks)) \in Nat
  BY <1>4, FS_CardinalityType
<1> QED BY <1>1, <1>2, <1>4, <1>5

LEMMA HeapInit == Init => HeapInv
<1> SUFFICES ASSUME Init PROVE HeapInv
  OBVIOUS
<1>1. heap = {} /\ program = FALSE /\ asked = FALSE
      /\ generation = 1 /\ streams = 0
  BY DEF Init
<1>2. Cardinality({g \in 1 .. MaxHandlers : <<"AMX_DBG", g>> \in heap}) = 0
  BY <1>1, FS_EmptySet
<1>3. AllOrNothing
  BY <1>1, <1>2 DEF AllOrNothing
<1>4. MaxHandlers \in Nat \ {0}
  BY ScriptFileAssumption DEF ScriptFileAssumption
<1>5. generation \in 1 .. MaxHandlers
  BY <1>1, <1>4
<1>6. {program, asked} \subseteq BOOLEAN
  BY <1>1
<1> QED BY <1>1, <1>3, <1>5, <1>6 DEF HeapInv

\* A program's blocks come and go together, and are no generation's.
LEMMA ProgramKeepsHeap ==
    ASSUME HeapInv, NEW p \in BOOLEAN, program' = p,
           heap' = (heap \ {<<"amx", 0>>, <<"memblock", 0>>})
                     \cup (IF p THEN {<<"amx", 0>>, <<"memblock", 0>>} ELSE {}),
           UNCHANGED <<image, generation, asked, streams>>
    PROVE  HeapInv'
<1> USE DEF HeapInv
<1>1. heap' \subseteq Blocks
  BY DEF Blocks
<1>2. \A b \in heap' : b[2] <= generation' /\ (~asked' => b[2] # generation')
  <2>1. ASSUME NEW b \in heap'
        PROVE  b \in heap \/ b[2] = 0
    BY ONLY <2>1, heap' = (heap \ {<<"amx", 0>>, <<"memblock", 0>>})
                     \cup (IF p THEN {<<"amx", 0>>, <<"memblock", 0>>} ELSE {})
  <2> QED BY <2>1
<1>3. ASSUME NEW b, b[2] # 0
      PROVE  b \in heap' <=> b \in heap
  BY <1>3
<1>4. {b \in heap' : b[2] = 0}
          = (IF p THEN {<<"amx", 0>>, <<"memblock", 0>>} ELSE {})
  <2>1. {b \in heap : b[2] = 0}
            \subseteq {<<"amx", 0>>, <<"memblock", 0>>}
    BY DEF AllOrNothing
  <2> QED BY <2>1
<1>5. \A g \in 1 .. MaxHandlers :
          {b \in heap' : b[2] = g} = {b \in heap : b[2] = g}
  BY <1>3
<1>6. \A g \in 1 .. MaxHandlers :
          <<"AMX_DBG", g>> \in heap' <=> <<"AMX_DBG", g>> \in heap
  BY <1>3
<1>7. {g \in 1 .. MaxHandlers : <<"AMX_DBG", g>> \in heap'}
          = {g \in 1 .. MaxHandlers : <<"AMX_DBG", g>> \in heap}
  BY <1>6
<1>8. NeededTables' = NeededTables
  BY DEF NeededTables
<1>9. AllOrNothing'
  BY <1>4, <1>5, <1>7, <1>8 DEF AllOrNothing
<1> QED BY <1>1, <1>2, <1>9

LEMMA OpenKeepsHeap ==
    ASSUME HeapInv, NEW allocates \in BOOLEAN, NEW opens \in BOOLEAN,
           NEW memory \in BOOLEAN, NEW inits \in BOOLEAN,
           OpenScript(allocates, opens, memory, inits)
    PROVE  HeapInv'
<1> DEFINE p == allocates /\ LoadProgram(opens, memory, inits) = "NONE"
<1>1. p \in BOOLEAN /\ ~program /\ program' = p
  BY DEF OpenScript
<1>2. \A b \in heap : b # <<"amx", 0>> /\ b # <<"memblock", 0>>
  <2>1. {b \in heap : b[2] = 0} = {}
    BY <1>1 DEF HeapInv, AllOrNothing
  <2> QED BY <2>1
<1>3. heap' = (heap \ {<<"amx", 0>>, <<"memblock", 0>>})
                \cup (IF p THEN {<<"amx", 0>>, <<"memblock", 0>>} ELSE {})
  BY <1>2 DEF OpenScript, KeptBlocks
<1>4. UNCHANGED <<image, generation, asked, streams>>
  BY DEF OpenScript
<1> QED BY <1>1, <1>3, <1>4, ProgramKeepsHeap

LEMMA CloseKeepsHeap ==
    ASSUME HeapInv, CloseScript
    PROVE  HeapInv'
<1>1. /\ program' = FALSE
      /\ heap' = (heap \ {<<"amx", 0>>, <<"memblock", 0>>})
                   \cup (IF FALSE THEN {<<"amx", 0>>, <<"memblock", 0>>} ELSE {})
      /\ UNCHANGED <<image, generation, asked, streams>>
  BY DEF CloseScript
<1> QED BY <1>1, ProgramKeepsHeap

\* A load is the first one of its generation: it adds all blocks or none.
LEMMA LoadKeepsHeap ==
    ASSUME HeapInv, NEW opens \in BOOLEAN, NEW failing,
           LoadDebugInfo(opens, failing)
    PROVE  HeapInv'
<1> DEFINE success == opens /\ LoadInfo(failing).error = "NONE"
           new == (NeededTables \cup {"AMX_DBG"}) \X {generation}
<1>1. /\ ~asked /\ asked' = TRUE
      /\ heap' = heap \cup (IF success THEN new ELSE {})
      /\ streams' = streams + (IF success THEN 1 ELSE 0)
      /\ UNCHANGED <<image, program, generation>>
  BY LoadKeepsAllOrNothing DEF LoadDebugInfo, LeftOpen
<1>2. NeededTables' = NeededTables
  BY <1>1 DEF NeededTables
<1>3. CASE ~success
  <2>1. heap' = heap /\ streams' = streams
    <3>1. streams \in Int
      BY LoadsFinite DEF HeapInv, AllOrNothing, Loads
    <3>2. streams' = streams + 0 /\ heap' = heap \cup {}
      BY <1>1, <1>3
    <3> QED BY <3>1, <3>2
  <2>2. AllOrNothing'
    BY <1>1, <1>2, <2>1 DEF HeapInv, AllOrNothing
  <2> QED BY <1>1, <2>1, <2>2 DEF HeapInv
<1>4. CASE success
  <2> DEFINE g == generation
  <2>1. g \in 1 .. MaxHandlers /\ g # 0
    BY DEF HeapInv
  <2>2. \A b \in heap : b[2] <= g /\ b[2] # g
    BY <1>1 DEF HeapInv
  <2>3. heap' = heap \cup new
    BY <1>1, <1>4
  <2>4. \A b \in new : b[2] = g
    OBVIOUS
  <2>5. heap' \subseteq Blocks
    <3>1. new \subseteq (Tables \cup {"AMX_DBG"}) \X (1 .. MaxHandlers)
      BY <2>1, NeededAreTables
    <3> QED BY <2>3, <3>1 DEF HeapInv, Blocks
  <2>6. \A b \in heap' : b[2] <= generation' /\ (~asked' => b[2] # generation')
    BY <1>1, <2>1, <2>2, <2>3, <2>4
  <2>7. {b \in heap' : b[2] = 0} = {b \in heap : b[2] = 0}
    BY <2>1, <2>3, <2>4
  <2>8. {b \in heap' : b[2] = g} = new
    BY <2>2, <2>3, <2>4
  <2>9. \A k \in 1 .. MaxHandlers : k # g =>
            {b \in heap' : b[2] = k} = {b \in heap : b[2] = k}
    BY <2>3, <2>4
  <2>10. Loads(heap') = Loads(heap) \cup {g}
    <3>1. <<"AMX_DBG", g>> \in new
      OBVIOUS
    <3>2. \A k \in 1 .. MaxHandlers : k # g =>
              (<<"AMX_DBG", k>> \in heap' <=> <<"AMX_DBG", k>> \in heap)
      BY <2>3, <2>4
    <3> QED BY <2>1, <2>3, <3>1, <3>2 DEF Loads
  <2>11. g \notin Loads(heap)
    <3>1. <<"AMX_DBG", g>>[2] = g
      OBVIOUS
    <3> QED BY <2>2, <3>1 DEF Loads
  <2>12. streams' = Cardinality(Loads(heap'))
    <3>1. Cardinality(Loads(heap')) = Cardinality(Loads(heap)) + 1
      BY <2>10, <2>11, LoadsFinite, FS_AddElement
    <3>2. streams = Cardinality(Loads(heap))
      BY DEF HeapInv, AllOrNothing, Loads
    <3> QED BY <1>1, <1>4, <3>1, <3>2
  <2>13. AllOrNothing'
    <3>1. {b \in heap' : b[2] = 0} =
              (IF program' THEN {<<"amx", 0>>, <<"memblock", 0>>} ELSE {})
      BY <1>1, <2>7 DEF HeapInv, AllOrNothing
    <3>2. \A k \in 1 .. MaxHandlers :
              {b \in heap' : b[2] = k} \in
                  {{}, (NeededTables \cup {"AMX_DBG"}) \X {k}}
      BY <2>8, <2>9 DEF HeapInv, AllOrNothing
    <3> QED BY <1>2, <2>12, <3>1, <3>2 DEF AllOrNothing, Loads
  <2> QED BY <1>1, <2>1, <2>5, <2>6, <2>13 DEF HeapInv
<1> QED BY <1>3, <1>4

LEMMA HeapStep == HeapInv /\ [Next]_vars => HeapInv'
<1> SUFFICES ASSUME HeapInv, [Next]_vars PROVE HeapInv'
  OBVIOUS
<1>1. ASSUME UNCHANGED <<image, program, generation, heap, streams>>,
             asked' = asked \/ asked' = TRUE
      PROVE  HeapInv'
  <2>1. NeededTables' = NeededTables
    BY <1>1 DEF NeededTables
  <2>2. AllOrNothing'
    BY <1>1, <2>1 DEF HeapInv, AllOrNothing
  <2>3. {program', asked'} \subseteq BOOLEAN
    BY <1>1 DEF HeapInv
  <2>4. \A b \in heap : ~asked' => b[2] # generation
    BY <1>1 DEF HeapInv
  <2> QED BY <1>1, <2>2, <2>3, <2>4 DEF HeapInv
<1>2. ASSUME NEW allocates \in BOOLEAN, NEW opens \in BOOLEAN,
             NEW memory \in BOOLEAN, NEW inits \in BOOLEAN,
             OpenScript(allocates, opens, memory, inits)
      PROVE  HeapInv'
  BY <1>2, OpenKeepsHeap
<1>3. CASE CloseScript
  BY <1>3, CloseKeepsHeap
<1>4. ASSUME NEW opens \in BOOLEAN, NEW failing, LoadDebugInfo(opens, failing)
      PROVE  HeapInv'
  BY <1>4, LoadKeepsHeap
<1>5. CASE AttachWithoutDebugInfo
  BY <1>1, <1>5 DEF AttachWithoutDebugInfo
<1>6. CASE NewHandler
  <2>1. /\ generation < MaxHandlers /\ generation' = generation + 1
        /\ asked' = FALSE
        /\ UNCHANGED <<image, program, heap, streams>>
    BY <1>6 DEF NewHandler
  <2>2. generation' \in 1 .. MaxHandlers
    BY <2>1, ScriptFileAssumption DEF HeapInv, ScriptFileAssumption
  <2>3. \A b \in heap : b[2] <= generation' /\ b[2] # generation'
    <3>1. \A b \in heap : b[2] \in Int
      BY ScriptFileAssumption DEF HeapInv, Blocks, ScriptFileAssumption
    <3> QED BY <2>1, <3>1 DEF HeapInv
  <2>4. NeededTables' = NeededTables
    BY <2>1 DEF NeededTables
  <2>5. AllOrNothing'
    BY <2>1, <2>4 DEF HeapInv, AllOrNothing
  <2>6. {program', asked'} \subseteq BOOLEAN
    BY <2>1 DEF HeapInv
  <2> QED BY <2>1, <2>2, <2>3, <2>5, <2>6 DEF HeapInv
<1>7. ASSUME NEW address, NEW type, NEW name, Meet(address, type, name)
      PROVE  HeapInv'
  BY <1>1, <1>7 DEF Meet
<1>8. ASSUME NEW address, MeetByCall(address)
      PROVE  HeapInv'
  BY <1>7, <1>8 DEF MeetByCall
<1>9. ASSUME NEW index, MeetByExec(index)
      PROVE  HeapInv'
  BY <1>7, <1>9 DEF MeetByExec
<1>10. ASSUME NEW index, MeetByCallback(index)
       PROVE  HeapInv'
  BY <1>7, <1>10 DEF MeetByCallback
<1>11. ASSUME NEW question, NEW address, NEW said, NEW found,
              Answer(question, address, said, found)
       PROVE  HeapInv'
  BY <1>1, <1>11 DEF Answer
<1>12. ASSUME NEW address,
              \/ AskLine(address)
              \/ AskFile(address)
              \/ AskFunction(address)
              \/ AskFunctionExact(address)
       PROVE  HeapInv'
  BY <1>11, <1>12 DEF AskLine, AskFile, AskFunction, AskFunctionExact
<1>13. CASE UNCHANGED vars
  BY <1>1, <1>13 DEF vars
<1> QED
  BY <1>2, <1>3, <1>4, <1>5, <1>6, <1>8, <1>9, <1>10, <1>12, <1>13 DEF Next

\* Whatever allocation or open fails, and however often the script is loaded,
\* a reader keeps all that it allocated or gives all of it back (AMXFile,
\* aux_LoadProgram, dbg_LoadInfo, dbg_FreeInfo).
THEOREM AlwaysAllOrNothing == Spec => []AllOrNothing
<1>1. HeapInv => AllOrNothing
  BY DEF HeapInv
<1> QED BY <1>1, HeapInit, HeapStep, PTL DEF Spec

-----------------------------------------------------------------------------
(* Types                                                                   *)

\* A call that the machine can return from is one of a function.
LEMMA CalleeIsFunction ==
    ASSUME NEW f \in Images, NEW a \in ReturnAddresses(f),
           GetCalleeAddress(f, a) # 0
    PROVE  GetCalleeAddress(f, a) \in CodeStarts(f)
<1>1. a > 0 /\ GetCalleeAddress(f, a) = f.code[a - 1]
  BY DEF GetCalleeAddress
<1>2. a # 0
  BY <1>1
<1>3. f.code[a - 1] \in CodeStarts(f)
  BY <1>2, CompilerAssumption DEF CompilerAssumption, IsCompiled
<1> QED BY <1>1, <1>3

LEMMA CodeStartsType ==
    ASSUME NEW f \in Images
    PROVE  CodeStarts(f) \subseteq Nat
  BY SymbolType DEF CodeStarts, FunctionSymbols

LEMMA PublicAddressType ==
    ASSUME NEW f \in Images, NEW i \in {MAIN} \cup 0 .. Len(f.publics) - 1
    PROVE  GetPublicAddress(f, i) \in Nat
<1>1. PICK names : IsProgram(f, names)
  BY ImageType
<1>2. f.cip \in Nat /\ f.publics \in Seq(Stub(names))
  BY <1>1 DEF IsProgram
<1>3. CASE i = MAIN
  BY <1>2, <1>3 DEF GetPublicAddress
<1>4. CASE i \in 0 .. Len(f.publics) - 1
  <2>1. i + 1 \in 1 .. Len(f.publics) /\ i >= 0 /\ i # MAIN
    BY <1>2, <1>4 DEF MAIN
  <2>2. f.publics[i + 1] \in Stub(names)
    BY <1>2, <2>1
  <2> QED BY <2>1, <2>2 DEF Stub, GetPublicAddress
<1> QED BY <1>3, <1>4

LEMMA NativeAddressType ==
    ASSUME NEW f \in Images, NEW i \in 0 .. Len(f.natives) - 1
    PROVE  GetNativeAddress(f, i) \in Nat
<1>1. PICK names : IsProgram(f, names)
  BY ImageType
<1>2. f.natives \in Seq(Stub(names))
  BY <1>1 DEF IsProgram
<1>3. i + 1 \in 1 .. Len(f.natives) /\ i >= 0
  BY <1>2
<1>4. f.natives[i + 1] \in Stub(names)
  BY <1>2, <1>3
<1> QED BY <1>3, <1>4 DEF Stub, GetNativeAddress

\* The statistics after a hook has met a function.
LEMMA MetDomain ==
    ASSUME NEW address, NEW function
    PROVE  DOMAIN Met(address, function) =
               DOMAIN functions \cup ({address} \ {0})
  BY DEF Met

LEMMA MetValue ==
    ASSUME NEW address, NEW function, NEW a \in DOMAIN Met(address, function)
    PROVE  Met(address, function)[a] =
               IF a \in DOMAIN functions THEN functions[a] ELSE function
<1>1. CASE address \in {0} \cup DOMAIN functions
  BY <1>1 DEF Met
<1>2. CASE address \notin {0} \cup DOMAIN functions
  <2>1. DOMAIN Met(address, function) = DOMAIN functions \cup {address}
    BY <1>2, MetDomain
  <2> QED BY <1>2, <2>1 DEF Met
<1> QED BY <1>1, <1>2

LEMMA TypeInit == Init => TypeOK
<1> SUFFICES ASSUME Init PROVE TypeOK
  OBVIOUS
<1>1. HeapInv
  BY HeapInit
<1>2. streams \in 0 .. MaxHandlers
  BY <1>1, LoadsFinite DEF HeapInv, AllOrNothing, Loads
<1>3. DOMAIN functions = {}
  BY DEF Init
<1>4. {program, asked, loaded} \subseteq BOOLEAN
  BY DEF Init
<1> QED BY <1>1, <1>2, <1>3, <1>4 DEF Init, TypeOK, HeapInv, Errors

LEMMA MeetType ==
    ASSUME TypeOK, NEW address \in Nat, NEW type, NEW name,
           Meet(address, type, name)
    PROVE  /\ DOMAIN functions' \subseteq Nat \ {0}
           /\ lastError' \in Errors
<1>1. DOMAIN functions' = DOMAIN functions \cup ({address} \ {0})
  BY MetDomain DEF Meet
<1>2. lastError' \in {"NONE", "NOTFOUND", lastError}
  BY DEF Meet
<1> QED BY <1>1, <1>2 DEF TypeOK, Errors

LEMMA TypeStep == TypeOK /\ HeapInv' /\ [Next]_vars => TypeOK'
<1> SUFFICES ASSUME TypeOK, HeapInv', [Next]_vars PROVE TypeOK'
  OBVIOUS
<1>1. (streams \in 0 .. MaxHandlers)'
  BY LoadsFinite DEF HeapInv, AllOrNothing, Loads
<1>2. (heap \subseteq Blocks /\ generation \in 1 .. MaxHandlers
          /\ {program, asked} \subseteq BOOLEAN)'
  BY DEF HeapInv
<1>3. ASSUME image' = image, loaded' \in BOOLEAN, lastError' \in Errors,
             DOMAIN functions' \subseteq Nat \ {0}
      PROVE  TypeOK'
  BY <1>1, <1>2, <1>3 DEF TypeOK
<1>4. ASSUME UNCHANGED <<image, loaded, lastError, functions>>
      PROVE  TypeOK'
  BY <1>3, <1>4 DEF TypeOK
<1>5. ASSUME NEW address \in Nat, NEW type, NEW name, Meet(address, type, name)
      PROVE  TypeOK'
  <2>1. UNCHANGED <<image, loaded>>
    BY <1>5 DEF Meet
  <2> QED BY <1>3, <1>5, <2>1, MeetType DEF TypeOK
<1>6. ASSUME NEW allocates, NEW opens, NEW memory, NEW inits,
             OpenScript(allocates, opens, memory, inits)
      PROVE  TypeOK'
  BY <1>4, <1>6 DEF OpenScript
<1>7. CASE CloseScript
  BY <1>4, <1>7 DEF CloseScript
<1>8. ASSUME NEW opens \in BOOLEAN, NEW failing, LoadDebugInfo(opens, failing)
      PROVE  TypeOK'
  <2>1. LoadInfo(failing).error \in Errors
    BY DEF LoadInfo, Errors
  <2>2. /\ UNCHANGED <<image, functions>>
        /\ loaded' = (opens /\ LoadInfo(failing).error = "NONE")
        /\ lastError' = IF opens THEN LoadInfo(failing).error ELSE lastError
    BY <1>8 DEF LoadDebugInfo
  <2> QED BY <1>3, <2>1, <2>2 DEF TypeOK
<1>9. CASE AttachWithoutDebugInfo
  BY <1>4, <1>9 DEF AttachWithoutDebugInfo
<1>10. CASE NewHandler
  <2>1. /\ image' = image /\ loaded' = FALSE /\ lastError' = "NONE"
        /\ functions' = <<>>
    BY <1>10 DEF NewHandler
  <2>2. DOMAIN functions' = {}
    BY <2>1
  <2> QED BY <1>3, <2>1, <2>2 DEF Errors
<1>11. ASSUME NEW address \in ReturnAddresses(image), MeetByCall(address)
       PROVE  TypeOK'
  <2>1. GetCalleeAddress(image, address) \in Nat
    BY <1>11, CalleeIsFunction, CodeStartsType DEF TypeOK
  <2> QED BY <1>5, <1>11, <2>1 DEF MeetByCall
<1>12. ASSUME NEW index \in {MAIN} \cup 0 .. Len(image.publics) - 1,
              MeetByExec(index)
       PROVE  TypeOK'
  BY <1>5, <1>12, PublicAddressType DEF MeetByExec, TypeOK
<1>13. ASSUME NEW index \in 0 .. Len(image.natives) - 1, MeetByCallback(index)
       PROVE  TypeOK'
  BY <1>5, <1>13, NativeAddressType DEF MeetByCallback, TypeOK
<1>14. ASSUME NEW question, NEW address, NEW said, NEW found,
              Answer(question, address, said, found)
       PROVE  TypeOK'
  BY <1>3, <1>14 DEF Answer, TypeOK, Errors
<1>15. ASSUME NEW address,
              \/ AskLine(address)
              \/ AskFile(address)
              \/ AskFunction(address)
              \/ AskFunctionExact(address)
       PROVE  TypeOK'
  BY <1>14, <1>15 DEF AskLine, AskFile, AskFunction, AskFunctionExact
<1>16. CASE UNCHANGED vars
  BY <1>4, <1>16 DEF vars
<1> QED
  BY <1>6, <1>7, <1>8, <1>9, <1>10, <1>11, <1>12, <1>13, <1>15, <1>16 DEF Next

\* The variables stay in their types: what hooks meet has an address, and there
\* is at most one open file for each time that the script was loaded.
THEOREM TypeCorrect == Spec => []TypeOK
<1>1. Init => TypeOK /\ HeapInv
  BY TypeInit, HeapInit
<1>2. TypeOK /\ HeapInv /\ [Next]_vars => (TypeOK /\ HeapInv)'
  BY TypeStep, HeapStep
<1> QED BY <1>1, <1>2, PTL DEF Spec

-----------------------------------------------------------------------------
(* The tables of a file                                                    *)

LEMMA LeastExists ==
    ASSUME NEW found \in SUBSET Nat, found # {}
    PROVE  \E n \in found : \A m \in found : n <= m
<1>1. PICK n \in found : \A m \in found : ~(<<m, n>> \in OpToRel(<, Nat))
  BY NatLessThanWellFounded, WFMin
<1>2. \A m \in found : ~(m < n)
  BY <1>1 DEF OpToRel
<1> QED BY <1>2

LEMMA FirstIsLeast ==
    ASSUME NEW found \in SUBSET Nat, found # {}
    PROVE  First(found) \in found /\ \A m \in found : First(found) <= m
  BY LeastExists DEF First

\* What a search that takes the first of some entries finds.
LEMMA FirstNameIsFound ==
    ASSUME NEW table, NEW found \in SUBSET Nat
    PROVE  IF found = {} THEN FirstName(table, found) = NoName
           ELSE \E n \in found : FirstName(table, found) = table[n].name
  BY FirstIsLeast DEF FirstName

\* A function does not share its instructions.
LEMMA FunctionsAreApart ==
    ASSUME NEW f \in Images, NEW address \in Nat,
           NEW m \in FunctionSymbols(f), NEW n \in FunctionSymbols(f),
           f.symbols[m].codestart <= address, address < f.symbols[m].codeend,
           f.symbols[n].codestart <= address, address < f.symbols[n].codeend
    PROVE  m = n
<1>1. /\ f.symbols[m].codestart \in Nat /\ f.symbols[m].codeend \in Nat
      /\ f.symbols[n].codestart \in Nat /\ f.symbols[n].codeend \in Nat
  BY SymbolType DEF FunctionSymbols
<1>2. m # n => \/ f.symbols[m].codeend <= f.symbols[n].codestart
               \/ f.symbols[n].codeend <= f.symbols[m].codestart
  BY CompilerAssumption DEF CompilerAssumption, IsCompiled
<1> QED BY <1>1, <1>2

LEMMA FunctionAt ==
    ASSUME TypeOK, NEW address \in Int, NEW n
    PROVE  IsFunctionAt(address, n) <=>
               /\ n \in FunctionSymbols(image) /\ ~image.symbols[n].hidden
               /\ image.symbols[n].codestart <= address
               /\ address < image.symbols[n].codeend
<1>1. n \in DOMAIN image.symbols =>
          /\ image.symbols[n].codestart \in Nat
          /\ image.symbols[n].codeend \in Nat
  BY SymbolType DEF TypeOK
<1> QED BY <1>1 DEF IsFunctionAt, FunctionSymbols

LEMMA FunctionSymbolType ==
    ASSUME TypeOK, NEW n \in FunctionSymbols(image)
    PROVE  /\ n \in Nat
           /\ image.symbols[n].codestart \in Nat
           /\ image.symbols[n].codeend \in Nat
           /\ image.symbols[n].codestart < image.symbols[n].codeend
           /\ image.symbols[n].name # NoName
<1>1. n \in 1 .. Len(image.symbols) /\ Len(image.symbols) \in Nat
      /\ image.symbols[n].codestart \in Nat
      /\ image.symbols[n].codeend \in Nat
  BY SymbolType DEF FunctionSymbols, TypeOK
<1>2. IsCompiled(image)
  BY CompilerAssumption DEF CompilerAssumption, TypeOK
<1> QED BY <1>1, <1>2 DEF IsCompiled

\* The function that starts at an address, unless it is hidden.
StartsAt(address) ==
    {n \in FunctionSymbols(image) : /\ image.symbols[n].codestart = address
                                    /\ ~image.symbols[n].hidden}

LEMMA ExactIsFirst ==
    ASSUME NEW address
    PROVE  LookupFunctionExact(image, address)
               = FirstName(image.symbols, StartsAt(address))
<1>1. StartsAt(address) =
          {n \in DOMAIN image.symbols : /\ image.symbols[n].ident = "function"
                                        /\ image.symbols[n].codestart = address
                                        /\ ~image.symbols[n].hidden}
  BY DEF StartsAt, FunctionSymbols
<1> QED BY <1>1 DEF LookupFunctionExact

LEMMA StartIsFunctionAt ==
    ASSUME TypeOK, NEW address \in Nat, NEW n \in StartsAt(address)
    PROVE  IsFunctionAt(address, n) /\ n \in Nat /\ image.symbols[n].name # NoName
<1>1. /\ n \in FunctionSymbols(image) /\ ~image.symbols[n].hidden
      /\ image.symbols[n].codestart = address
  BY DEF StartsAt
<1> QED BY <1>1, FunctionSymbolType, FunctionAt

-----------------------------------------------------------------------------
(* Names                                                                   *)

\* The name of a function that the script calls: that of any public there, if
\* its debug information shows a function at that address.
LEMMA NormalNameIsRight ==
    ASSUME TypeOK, NEW address \in CodeStarts(image), address # 0
    PROVE  LET named == loaded /\ \E n \in DOMAIN image.symbols :
                                      IsFunctionAt(address, n)
               name == NormalName(image, loaded, address)
           IN  IF ~named THEN name = Unknown(address)
               ELSE \A i \in PublicsAt(address) : name = GetPublicName(image, i)
<1> DEFINE named == loaded /\ \E n \in DOMAIN image.symbols :
                                  IsFunctionAt(address, n)
           name == NormalName(image, loaded, address)
           found == StartsAt(address)
<1>1. address \in Nat /\ image \in Images
  BY CodeStartsType DEF TypeOK
<1>2. found \in SUBSET Nat
  BY <1>1, StartIsFunctionAt
<1>3. \A n \in found : n \in DOMAIN image.symbols
  BY DEF StartsAt, FunctionSymbols
<1>4. CASE ~named
  <2>1. CASE ~loaded
    BY <2>1 DEF NormalName
  <2>2. CASE loaded
    <3>1. found = {}
      BY <1>1, <1>3, <1>4, <2>2, StartIsFunctionAt
    <3>2. LookupFunctionExact(image, address) = NoName
      BY <1>2, <3>1, ExactIsFirst, FirstNameIsFound
    <3> QED BY <1>4, <3>2 DEF NormalName
  <2> QED BY <1>4, <2>1, <2>2
<1>5. CASE named
  <2>1. PICK n \in DOMAIN image.symbols : IsFunctionAt(address, n)
    BY <1>5
  <2>2. /\ n \in FunctionSymbols(image) /\ ~image.symbols[n].hidden
        /\ image.symbols[n].codestart <= address
        /\ address < image.symbols[n].codeend
    BY <1>1, <2>1, FunctionAt
  <2>3. PICK m \in FunctionSymbols(image) : image.symbols[m].codestart = address
    BY DEF CodeStarts
  <2>4. m = n
    BY <1>1, <2>2, <2>3, FunctionSymbolType, FunctionsAreApart
  <2>5. found # {}
    BY <2>2, <2>3, <2>4 DEF StartsAt
  <2>6. PICK k \in found :
            LookupFunctionExact(image, address) = image.symbols[k].name
    BY <1>2, <2>5, ExactIsFirst, FirstNameIsFound
  <2>7. name = image.symbols[k].name
    BY <1>1, <1>5, <2>6, StartIsFunctionAt DEF NormalName
  <2>8. \A i \in PublicsAt(address) :
            image.symbols[k].name = GetPublicName(image, i)
    <3>1. /\ k \in FunctionSymbols(image) /\ ~image.symbols[k].hidden
          /\ image.symbols[k].codestart = address
      BY DEF StartsAt
    <3>2. IsCompiled(image)
      BY <1>1, CompilerAssumption DEF CompilerAssumption
    <3>3. SUFFICES ASSUME NEW i \in PublicsAt(address)
                   PROVE  image.symbols[k].name = GetPublicName(image, i)
      OBVIOUS
    <3>4. CASE i = MAIN
      BY <3>1, <3>2, <3>4
      DEF IsCompiled, PublicsAt, GetPublicAddress, GetPublicName
    <3>5. CASE i # MAIN
      <4>1. i \in 0 .. Len(image.publics) - 1
        BY <3>5 DEF PublicsAt
      <4>2. PICK names : IsProgram(image, names)
        BY <1>1, ImageType
      <4>3. i >= 0 /\ i + 1 \in DOMAIN image.publics
        BY <4>1, <4>2 DEF IsProgram
      <4>4. image.publics[i + 1].address = address
        BY <3>5, <4>3 DEF PublicsAt, GetPublicAddress
      <4>5. GetPublicName(image, i) = image.publics[i + 1].name
        BY <3>5, <4>1 DEF GetPublicName, IsEntry
      <4> QED BY <3>1, <3>2, <4>3, <4>4, <4>5 DEF IsCompiled
    <3> QED BY <3>4, <3>5
  <2> QED BY <1>5, <2>7, <2>8
<1> QED BY <1>4, <1>5

\* Nothing is met, loaded or asked before Attach.
NamesInv ==
    /\ ~asked => /\ DOMAIN functions = {}
                 /\ ~loaded
                 /\ answer = Nothing
    /\ NamesAgree

\* A hook that meets a function by a name that is right keeps all names right.
Named(address, f) ==
    LET named == loaded /\ \E n \in DOMAIN image.symbols :
                               IsFunctionAt(address, n)
    IN  CASE f.type = "NATIVE" ->
                \E i \in NativesAt(address) : f.name = GetNativeName(image, i)
          [] f.type = "PUBLIC" ->
                \E i \in PublicsAt(address) : f.name = GetPublicName(image, i)
          [] OTHER ->
                /\ address \in CodeStarts(image)
                /\ IF ~named THEN f.name = Unknown(address)
                   ELSE PublicsAt(address) # {} =>
                        \E i \in PublicsAt(address) :
                            f.name = GetPublicName(image, i)

LEMMA AgreeIsNamed ==
    NamesAgree <=> \A a \in DOMAIN functions : Named(a, functions[a])
  BY DEF NamesAgree, Named

\* What is said of names depends on what was loaded.
LEMMA NamedStep ==
    ASSUME UNCHANGED <<image, loaded>>,
           \A a \in DOMAIN functions' : Named(a, functions'[a])
    PROVE  NamesAgree'
<1>1. \A a : PublicsAt(a)' = PublicsAt(a) /\ NativesAt(a)' = NativesAt(a)
  BY DEF PublicsAt, NativesAt
<1>2. \A a, n : IsFunctionAt(a, n)' <=> IsFunctionAt(a, n)
  BY DEF IsFunctionAt
<1> QED BY <1>1, <1>2 DEF NamesAgree, Named

LEMMA MeetKeepsNames ==
    ASSUME NamesInv, NEW address, NEW type, NEW name,
           Meet(address, type, name),
           address # 0 => Named(address, Function(type, name))
    PROVE  NamesInv'
<1> DEFINE function == Function(type, name)
<1>1. /\ asked /\ asked' = asked /\ functions' = Met(address, function)
      /\ UNCHANGED <<image, loaded>>
  BY DEF Meet
<1>2. ASSUME NEW a \in DOMAIN functions'
      PROVE  Named(a, functions'[a])
  <2>1. functions'[a] = IF a \in DOMAIN functions THEN functions[a] ELSE function
    BY <1>1, <1>2, MetValue
  <2>2. a \in DOMAIN functions \/ (a = address /\ address # 0)
    BY <1>1, <1>2, MetDomain
  <2>3. a \in DOMAIN functions => Named(a, functions[a])
    BY AgreeIsNamed DEF NamesInv
  <2> QED BY <2>1, <2>2, <2>3
<1>3. NamesAgree'
  BY <1>1, <1>2, NamedStep
<1> QED BY <1>1, <1>3 DEF NamesInv

LEMMA NamesInit == Init => NamesInv
<1> SUFFICES ASSUME Init PROVE NamesInv
  OBVIOUS
<1>1. DOMAIN functions = {} /\ loaded = FALSE /\ answer = Nothing
  BY DEF Init
<1> QED BY <1>1 DEF NamesInv, NamesAgree

LEMMA NamesStep == TypeOK /\ NamesInv /\ [Next]_vars => NamesInv'
<1> SUFFICES ASSUME TypeOK, NamesInv, [Next]_vars PROVE NamesInv'
  OBVIOUS
<1> USE DEF NamesInv
<1>1. ASSUME UNCHANGED <<image, loaded, functions>>, asked,
             asked' = asked
      PROVE  NamesInv'
  BY <1>1, AgreeIsNamed, NamedStep
<1>2. ASSUME UNCHANGED <<image, loaded, functions, asked, answer>>
      PROVE  NamesInv'
  BY <1>2, AgreeIsNamed, NamedStep
<1>3. ASSUME DOMAIN functions' = {}, asked' => TRUE,
             ~asked' => ~loaded' /\ answer' = Nothing
      PROVE  NamesInv'
  BY <1>3 DEF NamesAgree
<1>4. ASSUME NEW allocates, NEW opens, NEW memory, NEW inits,
             OpenScript(allocates, opens, memory, inits)
      PROVE  NamesInv'
  BY <1>2, <1>4 DEF OpenScript
<1>5. CASE CloseScript
  BY <1>2, <1>5 DEF CloseScript
<1>6. ASSUME NEW opens, NEW failing, LoadDebugInfo(opens, failing)
      PROVE  NamesInv'
  BY <1>3, <1>6 DEF LoadDebugInfo
<1>7. CASE AttachWithoutDebugInfo
  BY <1>3, <1>7 DEF AttachWithoutDebugInfo
<1>8. CASE NewHandler
  <2>1. DOMAIN functions' = {} /\ loaded' = FALSE /\ answer' = Nothing
    BY <1>8 DEF NewHandler
  <2> QED BY <1>3, <2>1
<1>9. ASSUME NEW address \in ReturnAddresses(image), MeetByCall(address)
      PROVE  NamesInv'
  <2> DEFINE callee == GetCalleeAddress(image, address)
  <2>1. callee # 0
        /\ Meet(callee, "NORMAL", NormalName(image, loaded, callee))
    BY <1>9 DEF MeetByCall
  <2>2. callee \in CodeStarts(image)
    BY <2>1, CalleeIsFunction DEF TypeOK
  <2>3. Named(callee, Function("NORMAL", NormalName(image, loaded, callee)))
    BY <2>1, <2>2, NormalNameIsRight DEF Named, Function
  <2> QED BY <2>1, <2>3, MeetKeepsNames
<1>10. ASSUME NEW index \in {MAIN} \cup 0 .. Len(image.publics) - 1,
              MeetByExec(index)
       PROVE  NamesInv'
  <2> DEFINE address == GetPublicAddress(image, index)
  <2>1. index \in PublicsAt(address)
    BY DEF PublicsAt
  <2>2. Named(address, Function("PUBLIC", GetPublicName(image, index)))
    BY <2>1 DEF Named, Function
  <2> QED BY <1>10, <2>2, MeetKeepsNames DEF MeetByExec
<1>11. ASSUME NEW index \in 0 .. Len(image.natives) - 1, MeetByCallback(index)
       PROVE  NamesInv'
  <2> DEFINE address == GetNativeAddress(image, index)
  <2>1. index \in NativesAt(address)
    BY DEF NativesAt
  <2>2. Named(address, Function("NATIVE", GetNativeName(image, index)))
    BY <2>1 DEF Named, Function
  <2> QED BY <1>11, <2>2, MeetKeepsNames DEF MeetByCallback
<1>12. ASSUME NEW question, NEW address, NEW said, NEW found,
              Answer(question, address, said, found)
       PROVE  NamesInv'
  BY <1>1, <1>12 DEF Answer
<1>13. ASSUME NEW address,
              \/ AskLine(address)
              \/ AskFile(address)
              \/ AskFunction(address)
              \/ AskFunctionExact(address)
       PROVE  NamesInv'
  BY <1>12, <1>13 DEF AskLine, AskFile, AskFunction, AskFunctionExact
<1>14. CASE UNCHANGED vars
  BY <1>2, <1>14 DEF vars
<1> QED
  BY <1>4, <1>5, <1>6, <1>7, <1>8, <1>9, <1>10, <1>11, <1>13, <1>14 DEF Next

\* Whichever hook meets a function first gives it a name that the others would
\* give it too, with the exceptions that NamesAgree states, in every script that
\* the compiler writes (Function::Normal, Public and Native).
THEOREM NamesAlwaysAgree == Spec => []NamesAgree
<1>1. Init => TypeOK /\ HeapInv /\ NamesInv
  BY TypeInit, HeapInit, NamesInit
<1>2. TypeOK /\ HeapInv /\ NamesInv /\ [Next]_vars
          => (TypeOK /\ HeapInv /\ NamesInv)'
  BY TypeStep, HeapStep, NamesStep
<1>3. NamesInv => NamesAgree
  BY DEF NamesInv
<1> QED BY <1>1, <1>2, <1>3, PTL DEF Spec

-----------------------------------------------------------------------------
(* Lookups                                                                 *)

\* A table whose entries are ordered by address.
Ordered(table) ==
    /\ Len(table) \in Nat /\ DOMAIN table = 1 .. Len(table)
    /\ \A n \in DOMAIN table : table[n].address \in Nat
    /\ \A m, n \in DOMAIN table :
          m < n => table[m].address < table[n].address

LEMMA TablesAreOrdered ==
    ASSUME TypeOK
    PROVE  Ordered(image.lines) /\ Ordered(image.files)
<1>1. PICK names : IsDebugInfo(image, names)
  BY ImageType DEF TypeOK
<1>2. /\ image.lines \in Seq(DebugLine)
      /\ image.files \in Seq(DebugFile(names))
  BY <1>1 DEF IsDebugInfo
<1>3. \A table \in {image.lines, image.files} : \A m, n \in DOMAIN table :
          m < n => table[m].address < table[n].address
  BY CompilerAssumption DEF CompilerAssumption, IsCompiled, TypeOK
<1>4. \A n \in DOMAIN image.lines : image.lines[n] \in DebugLine
  BY <1>2
<1>5. \A n \in DOMAIN image.files : image.files[n] \in DebugFile(names)
  BY <1>2
<1> QED BY <1>2, <1>3, <1>4, <1>5 DEF Ordered, DebugLine, DebugFile

\* The loops stop at the only entry that LastEntry can mean.
LEMMA EntryBeforeIsLast ==
    ASSUME NEW table, Ordered(table), NEW address \in Nat
    PROVE  /\ EntryBefore(table, address) \in 0 .. Len(table)
           /\ {n \in DOMAIN table : LastEntry(table, address, n)} =
                  (IF EntryBefore(table, address) = 0 THEN {}
                   ELSE {EntryBefore(table, address)})
<1> USE DEF Ordered
<1> DEFINE Stop(n) == /\ \A m \in 1 .. n : table[m].address <= address
                      /\ n < Len(table) => table[n + 1].address > address
<1>1. \E n \in 0 .. Len(table) : Stop(n)
  <2> DEFINE after == {n \in 1 .. Len(table) : table[n].address > address}
  <2>1. CASE after = {}
    <3>1. \A m \in 1 .. Len(table) : table[m].address <= address
      BY <2>1
    <3>2. Len(table) \in 0 .. Len(table)
      OBVIOUS
    <3> QED BY <3>1, <3>2
  <2>2. CASE after # {}
    <3>1. after \in SUBSET Nat
      OBVIOUS
    <3>2. PICK k \in after : \A m \in after : k <= m
      BY <2>2, <3>1, LeastExists
    <3>3. k - 1 \in 0 .. Len(table) /\ (k - 1) + 1 = k /\ k \in 1 .. Len(table)
      OBVIOUS
    <3>4. \A m \in 1 .. k - 1 : table[m].address <= address
      <4>1. ASSUME NEW m \in 1 .. k - 1
            PROVE  m \in 1 .. Len(table) /\ m \notin after
        BY <3>2, <3>3
      <4> QED BY <4>1
    <3>5. table[(k - 1) + 1].address > address
      BY <3>3
    <3> QED BY <3>3, <3>4, <3>5
  <2> QED BY <2>1, <2>2
<1> DEFINE e == EntryBefore(table, address)
<1>2. e \in 0 .. Len(table) /\ Stop(e)
  BY <1>1 DEF EntryBefore
<1>3. ASSUME NEW n \in DOMAIN table
      PROVE  table[n].address <= address <=> n <= e
  <2>1. CASE n <= e
    BY <1>2, <2>1
  <2>2. CASE n > e
    <3>1. e + 1 \in DOMAIN table /\ table[e + 1].address > address
      BY <1>2, <2>2
    <3>2. e + 1 = n \/ table[e + 1].address < table[n].address
      BY <1>2, <2>2, <3>1
    <3> QED BY <1>2, <2>2, <3>1, <3>2
  <2> QED BY <1>2, <2>1, <2>2
<1>4. ASSUME NEW n \in DOMAIN table
      PROVE  LastEntry(table, address, n) <=> n = e
  <2>1. CASE n = e
    <3>1. \A m \in DOMAIN table : m <= e => table[m].address <= table[e].address
      BY <2>1
    <3> QED BY <1>3, <2>1, <3>1 DEF LastEntry
  <2>2. CASE n < e
    <3>1. e \in DOMAIN table /\ table[n].address < table[e].address
      BY <1>2, <2>2
    <3> QED BY <1>2, <1>3, <2>2, <3>1 DEF LastEntry
  <2>3. CASE n > e
    BY <1>2, <1>3, <2>3 DEF LastEntry
  <2> QED BY <1>2, <2>1, <2>2, <2>3
<1>5. {n \in DOMAIN table : LastEntry(table, address, n)} =
          (IF e = 0 THEN {} ELSE {e})
  BY <1>2, <1>4
<1> QED BY <1>2, <1>5

\* What was said is the only right answer, unless there is none.
IsAnswer(right, said, found) ==
    IF right = {} THEN ~found ELSE right = {said} /\ found

LEMMA LineIsRight ==
    ASSUME TypeOK, NEW a \in Nat
    PROVE  IsAnswer({image.lines[n].line :
                         n \in {m \in DOMAIN image.lines :
                                   LastEntry(image.lines, a, m)}},
                    LookupLine(image, a), EntryBefore(image.lines, a) # 0)
<1> DEFINE e == EntryBefore(image.lines, a)
<1>1. /\ e \in 0 .. Len(image.lines) /\ DOMAIN image.lines = 1 .. Len(image.lines)
      /\ {m \in DOMAIN image.lines : LastEntry(image.lines, a, m)} =
             (IF e = 0 THEN {} ELSE {e})
  BY TablesAreOrdered, EntryBeforeIsLast DEF Ordered
<1>3. CASE e = 0
  BY <1>1, <1>3 DEF IsAnswer, LookupLine
<1>4. CASE e # 0
  <2>1. e \in DOMAIN image.lines
    BY <1>1, <1>4
  <2>2. LookupLine(image, a) = image.lines[e].line
    BY <1>4 DEF LookupLine
  <2> QED BY <1>1, <1>4, <2>1, <2>2 DEF IsAnswer
<1> QED BY <1>3, <1>4

LEMMA FileIsRight ==
    ASSUME TypeOK, NEW a \in Nat
    PROVE  IsAnswer({image.files[n].name :
                         n \in {m \in DOMAIN image.files :
                                   LastEntry(image.files, a, m)}},
                    LookupFile(image, a), EntryBefore(image.files, a) # 0)
<1> DEFINE e == EntryBefore(image.files, a)
<1>1. /\ e \in 0 .. Len(image.files) /\ DOMAIN image.files = 1 .. Len(image.files)
      /\ {m \in DOMAIN image.files : LastEntry(image.files, a, m)} =
             (IF e = 0 THEN {} ELSE {e})
  BY TablesAreOrdered, EntryBeforeIsLast DEF Ordered
<1>3. CASE e = 0
  BY <1>1, <1>3 DEF IsAnswer, LookupFile
<1>4. CASE e # 0
  <2>1. e \in DOMAIN image.files
    BY <1>1, <1>4
  <2>2. LookupFile(image, a) = image.files[e].name
    BY <1>4 DEF LookupFile
  <2> QED BY <1>1, <1>4, <2>1, <2>2 DEF IsAnswer
<1> QED BY <1>3, <1>4

\* The first of the symbols that are right is the only one.
LEMMA FirstIsRight ==
    ASSUME TypeOK, NEW a \in Nat,
           NEW found, \A n \in found : IsFunctionAt(a, n)
    PROVE  IsAnswer({image.symbols[n].name : n \in found},
                    FirstName(image.symbols, found),
                    FirstName(image.symbols, found) # NoName)
<1>1. \A n \in found : n \in FunctionSymbols(image)
  BY FunctionAt
<1>2. \A m, n \in found : m = n
  BY <1>1, FunctionAt, FunctionsAreApart DEF TypeOK
<1>3. found \in SUBSET Nat
  BY <1>1, FunctionSymbolType
<1>4. CASE found = {}
  BY <1>3, <1>4, FirstNameIsFound DEF IsAnswer
<1>5. CASE found # {}
  <2>1. PICK n \in found :
            FirstName(image.symbols, found) = image.symbols[n].name
    BY <1>3, <1>5, FirstNameIsFound
  <2>2. found = {n}
    BY <1>2
  <2>3. {image.symbols[m].name : m \in found} = {image.symbols[n].name}
    BY <2>2
  <2> QED BY <1>1, <2>1, <2>3, FunctionSymbolType DEF IsAnswer
<1> QED BY <1>4, <1>5

LEMMA FunctionIsRight ==
    ASSUME TypeOK, NEW a \in Nat
    PROVE  IsAnswer({image.symbols[n].name :
                         n \in {m \in DOMAIN image.symbols : IsFunctionAt(a, m)}},
                    LookupFunction(image, a), LookupFunction(image, a) # NoName)
<1> DEFINE found == {m \in DOMAIN image.symbols : IsFunctionAt(a, m)}
<1>1. found = {n \in DOMAIN image.symbols :
                  /\ image.symbols[n].ident = "function"
                  /\ image.symbols[n].codestart <= a
                  /\ image.symbols[n].codeend > a
                  /\ ~image.symbols[n].hidden}
  <2>1. ASSUME NEW n \in DOMAIN image.symbols
        PROVE  IsFunctionAt(a, n) <=>
                   /\ image.symbols[n].ident = "function"
                   /\ image.symbols[n].codestart <= a
                   /\ image.symbols[n].codeend > a
                   /\ ~image.symbols[n].hidden
    <3>1. image.symbols[n].codeend \in Nat
      BY SymbolType DEF TypeOK
    <3> QED BY <3>1, FunctionAt DEF FunctionSymbols
  <2> QED BY <2>1
<1>2. LookupFunction(image, a) = FirstName(image.symbols, found)
  BY <1>1 DEF LookupFunction
<1> QED BY <1>2, FirstIsRight

LEMMA ExactIsRight ==
    ASSUME TypeOK, NEW a \in Nat
    PROVE  IsAnswer({image.symbols[n].name :
                         n \in {m \in DOMAIN image.symbols :
                                   /\ IsFunctionAt(a, m)
                                   /\ ~IsFunctionAt(a - 1, m)}},
                    LookupFunctionExact(image, a),
                    LookupFunctionExact(image, a) # NoName)
<1> DEFINE found == {m \in DOMAIN image.symbols :
                        IsFunctionAt(a, m) /\ ~IsFunctionAt(a - 1, m)}
<1>1. found = StartsAt(a)
  <2>1. ASSUME NEW n \in FunctionSymbols(image)
        PROVE  IsFunctionAt(a, n) /\ ~IsFunctionAt(a - 1, n) <=>
                   /\ image.symbols[n].codestart = a
                   /\ ~image.symbols[n].hidden
    <3>1. /\ image.symbols[n].codestart \in Nat
          /\ image.symbols[n].codeend \in Nat
          /\ image.symbols[n].codestart < image.symbols[n].codeend
      BY FunctionSymbolType
    <3>2. a - 1 \in Int
      OBVIOUS
    <3>3. /\ IsFunctionAt(a, n) <=>
                 /\ ~image.symbols[n].hidden
                 /\ image.symbols[n].codestart <= a
                 /\ a < image.symbols[n].codeend
          /\ IsFunctionAt(a - 1, n) <=>
                 /\ ~image.symbols[n].hidden
                 /\ image.symbols[n].codestart <= a - 1
                 /\ a - 1 < image.symbols[n].codeend
      BY <3>2, FunctionAt
    <3> QED BY <3>1, <3>3
  <2>2. \A n \in DOMAIN image.symbols :
            IsFunctionAt(a, n) => n \in FunctionSymbols(image)
    BY FunctionAt
  <2>3. FunctionSymbols(image) \subseteq DOMAIN image.symbols
    BY DEF FunctionSymbols
  <2> QED BY <2>1, <2>2, <2>3 DEF StartsAt
<1> QED BY <1>1, ExactIsFirst, FirstIsRight

\* A question that is answered right is answered as AnswersAreRight says.
LEMMA AnswerKeepsRight ==
    ASSUME NEW a \in Nat, NEW q, NEW said, NEW found \in BOOLEAN,
           Answer(q, a, said, found),
           IsAnswer(CASE q = "line" ->
                             {image.lines[n].line :
                                 n \in {m \in DOMAIN image.lines :
                                           LastEntry(image.lines, a, m)}}
                      [] q = "file" ->
                             {image.files[n].name :
                                 n \in {m \in DOMAIN image.files :
                                           LastEntry(image.files, a, m)}}
                      [] q = "function" ->
                             {image.symbols[n].name :
                                 n \in {m \in DOMAIN image.symbols :
                                           IsFunctionAt(a, m)}}
                      [] OTHER ->
                             {image.symbols[n].name :
                                 n \in {m \in DOMAIN image.symbols :
                                           /\ IsFunctionAt(a, m)
                                           /\ ~IsFunctionAt(a - 1, m)}},
                    said, found)
    PROVE  AnswersAreRight'
<1>1. /\ image' = image
      /\ answer' = [question |-> q, address |-> a, said |-> said]
      /\ lastError' = IF found THEN "NONE" ELSE "NOTFOUND"
  BY DEF Answer
<1>2. \A k, n : IsFunctionAt(k, n)' <=> IsFunctionAt(k, n)
  BY <1>1 DEF IsFunctionAt
<1>3. /\ answer'.question = q /\ answer'.address = a /\ answer'.said = said
  BY <1>1
<1> DEFINE lines == {image.lines[n].line :
                        n \in {m \in DOMAIN image.lines :
                                  LastEntry(image.lines, a, m)}}
           files == {image.files[n].name :
                        n \in {m \in DOMAIN image.files :
                                  LastEntry(image.files, a, m)}}
           at == {image.symbols[n].name :
                     n \in {m \in DOMAIN image.symbols : IsFunctionAt(a, m)}}
           exact == {image.symbols[n].name :
                        n \in {m \in DOMAIN image.symbols :
                                  IsFunctionAt(a, m) /\ ~IsFunctionAt(a - 1, m)}}
<1>4. /\ at' = at /\ exact' = exact /\ lines' = lines /\ files' = files
  BY <1>1, <1>2
<1> DEFINE right == CASE q = "line" -> lines [] q = "file" -> files
                      [] q = "function" -> at [] OTHER -> exact
<1>5. IF right = {} THEN lastError' = "NOTFOUND"
      ELSE right = {said} /\ lastError' = "NONE"
  BY <1>1 DEF IsAnswer
<1>6. AnswersAreRight' <=>
          (answer' # Nothing =>
              LET r == CASE q = "line" -> lines' [] q = "file" -> files'
                         [] q = "function" -> at' [] OTHER -> exact'
              IN  IF r = {} THEN lastError' = "NOTFOUND"
                  ELSE r = {said} /\ lastError' = "NONE")
  BY <1>3 DEF AnswersAreRight
<1> QED BY <1>4, <1>5, <1>6

LEMMA AnswersStep ==
    TypeOK /\ NamesInv /\ AnswersAreRight /\ [Next]_vars => AnswersAreRight'
<1> SUFFICES ASSUME TypeOK, NamesInv, AnswersAreRight, [Next]_vars
             PROVE  AnswersAreRight'
  OBVIOUS
<1>1. ASSUME UNCHANGED <<image, answer>>,
             answer = Nothing \/ lastError' = lastError
      PROVE  AnswersAreRight'
  <2>1. CASE answer = Nothing
    BY <1>1, <2>1 DEF AnswersAreRight
  <2>2. CASE lastError' = lastError
    <3>1. \A k, n : IsFunctionAt(k, n)' <=> IsFunctionAt(k, n)
      BY <1>1 DEF IsFunctionAt
    <3> DEFINE a == answer.address
               lines == {image.lines[n].line :
                            n \in {m \in DOMAIN image.lines :
                                      LastEntry(image.lines, a, m)}}
               files == {image.files[n].name :
                            n \in {m \in DOMAIN image.files :
                                      LastEntry(image.files, a, m)}}
               at == {image.symbols[n].name :
                         n \in {m \in DOMAIN image.symbols :
                                   IsFunctionAt(a, m)}}
               exact == {image.symbols[n].name :
                            n \in {m \in DOMAIN image.symbols :
                                      /\ IsFunctionAt(a, m)
                                      /\ ~IsFunctionAt(a - 1, m)}}
    <3>2. /\ lines' = lines /\ files' = files /\ at' = at /\ exact' = exact
          /\ answer' = answer
      BY <1>1, <3>1
    <3> QED BY <2>2, <3>2 DEF AnswersAreRight
  <2> QED BY <1>1, <2>1, <2>2
<1>2. ASSUME NEW allocates, NEW opens, NEW memory, NEW inits,
             OpenScript(allocates, opens, memory, inits)
      PROVE  AnswersAreRight'
  BY <1>1, <1>2 DEF OpenScript
<1>3. CASE CloseScript
  BY <1>1, <1>3 DEF CloseScript
<1>4. ASSUME NEW opens, NEW failing, LoadDebugInfo(opens, failing)
      PROVE  AnswersAreRight'
  BY <1>1, <1>4 DEF LoadDebugInfo, NamesInv
<1>5. CASE AttachWithoutDebugInfo
  BY <1>1, <1>5 DEF AttachWithoutDebugInfo
<1>6. CASE NewHandler
  BY <1>6 DEF NewHandler, AnswersAreRight
<1>7. ASSUME NEW address, NEW type, NEW name, Meet(address, type, name)
      PROVE  AnswersAreRight'
  BY <1>1, <1>7 DEF Meet
<1>8. ASSUME NEW address, MeetByCall(address)
      PROVE  AnswersAreRight'
  BY <1>7, <1>8 DEF MeetByCall
<1>9. ASSUME NEW index, MeetByExec(index) \/ MeetByCallback(index)
      PROVE  AnswersAreRight'
  BY <1>7, <1>9 DEF MeetByExec, MeetByCallback
<1>10. ASSUME NEW address \in Queries,
              \/ AskLine(address)
              \/ AskFile(address)
              \/ AskFunction(address)
              \/ AskFunctionExact(address)
       PROVE  AnswersAreRight'
  <2>1. address \in Nat
    BY ScriptFileAssumption DEF ScriptFileAssumption
  <2>2. CASE AskLine(address)
    BY <2>1, <2>2, LineIsRight, AnswerKeepsRight DEF AskLine
  <2>3. CASE AskFile(address)
    BY <2>1, <2>3, FileIsRight, AnswerKeepsRight DEF AskFile
  <2>4. CASE AskFunction(address)
    BY <2>1, <2>4, FunctionIsRight, AnswerKeepsRight DEF AskFunction
  <2>5. CASE AskFunctionExact(address)
    BY <2>1, <2>5, ExactIsRight, AnswerKeepsRight DEF AskFunctionExact
  <2> QED BY <1>10, <2>2, <2>3, <2>4, <2>5
<1>11. CASE UNCHANGED vars
  BY <1>1, <1>11 DEF vars
<1> QED
  BY <1>2, <1>3, <1>4, <1>5, <1>6, <1>8, <1>9, <1>10, <1>11 DEF Next

\* A lookup in a file that the compiler wrote finds the entry of the address it
\* is asked for, and reports an error exactly if there is none: the part of
\* LookupsAreRight that the profiler depends on (dbg_LookupLine, dbg_LookupFile,
\* dbg_LookupFunction, dbg_LookupFunctionExact).
THEOREM AnswersAlwaysRight == Spec => []AnswersAreRight
<1>1. Init => TypeOK /\ HeapInv /\ NamesInv /\ AnswersAreRight
  BY TypeInit, HeapInit, NamesInit DEF Init, AnswersAreRight
<1>2. TypeOK /\ HeapInv /\ NamesInv /\ AnswersAreRight /\ [Next]_vars
          => (TypeOK /\ HeapInv /\ NamesInv /\ AnswersAreRight)'
  BY TypeStep, HeapStep, NamesStep, AnswersStep
<1> QED BY <1>1, <1>2, PTL DEF Spec

-----------------------------------------------------------------------------
(* Where the debug tables end                                              *)

\* dbg_LoadInfo goes on after the n-th entry.
Grows(f, n) == n <= Len(f.lines) /\ EntryAddress(f, n + 1) > EntryAddress(f, n)

\* The equation of the recursive function in SkippedLines.
Skips(f, h) ==
    h = [n \in Nat |-> IF Grows(f, n) THEN h[n + CountLimit] ELSE n]

LEMMA SkipsExists ==
    ASSUME NEW f, Len(f.lines) \in Nat
    PROVE  \E h : Skips(f, h)
<1> DEFINE ahead(n) == {m \in Nat : ~Grows(f, m) /\
                           \E k \in Nat : m = n + k * CountLimit}
           g == [n \in Nat |-> First(ahead(n))]
<1>1. CountLimit \in Nat /\ CountLimit > 0
  BY AmxDbgAssumption DEF AmxDbgAssumption
<1>2. ASSUME NEW n \in Nat
      PROVE  ahead(n) # {}
  <2>1. (Len(f.lines) + 1) * CountLimit \in Nat
    BY <1>1
  <2>2. (Len(f.lines) + 1) * CountLimit >= Len(f.lines) + 1
    BY <1>1
  <2>3. n + (Len(f.lines) + 1) * CountLimit \in ahead(n)
    BY <2>1, <2>2 DEF Grows
  <2> QED BY <2>3
<1>3. ASSUME NEW n \in Nat
      PROVE  First(ahead(n)) = IF Grows(f, n) THEN First(ahead(n + CountLimit)) ELSE n
  <2>1. CASE Grows(f, n)
    <3>1. ASSUME NEW m \in ahead(n)
          PROVE  m \in ahead(n + CountLimit)
      <4>1. PICK k \in Nat : m = n + k * CountLimit
        BY <3>1
      <4>2. k # 0
        BY <4>1, <2>1, <3>1, <1>1
      <4>3. k - 1 \in Nat /\ m = (n + CountLimit) + (k - 1) * CountLimit
        BY <4>1, <4>2, <1>1
      <4> QED BY <3>1, <4>3
    <3>2. ASSUME NEW m \in ahead(n + CountLimit)
          PROVE  m \in ahead(n)
      <4>1. PICK k \in Nat : m = (n + CountLimit) + k * CountLimit
        BY <3>2
      <4>2. m = n + (k + 1) * CountLimit
        BY <4>1, <1>1
      <4> QED BY <3>2, <4>2
    <3>3. ahead(n) = ahead(n + CountLimit)
      BY <3>1, <3>2
    <3> HIDE DEF ahead
    <3> QED BY <3>3, <2>1
  <2>2. CASE ~Grows(f, n)
    <3>1. n = n + 0 * CountLimit
      BY <1>1
    <3>2. n \in ahead(n)
      BY <3>1, <2>2
    <3>3. \A m \in ahead(n) : n <= m
      <4>1. \A k \in Nat : k * CountLimit >= 0
        BY <1>1
      <4> QED BY <4>1, <1>1
    <3>4. ahead(n) \in SUBSET Nat
      OBVIOUS
    <3> HIDE DEF ahead
    <3>5. /\ First(ahead(n)) \in ahead(n)
          /\ \A m \in ahead(n) : First(ahead(n)) <= m
      BY <3>2, <3>4, FirstIsLeast
    <3>6. First(ahead(n)) = n
      BY <3>2, <3>3, <3>4, <3>5
    <3> QED BY <3>6, <2>2
  <2> QED BY <2>1, <2>2
<1> HIDE DEF ahead
<1>4. \A n \in Nat : n + CountLimit \in Nat
  BY <1>1
<1>5. g = [n \in Nat |-> IF Grows(f, n) THEN g[n + CountLimit] ELSE n]
  BY <1>3, <1>4
<1>6. Skips(f, g)
  BY <1>5 DEF Skips
<1> QED BY <1>6

LEMMA SkippedLinesIs ==
    ASSUME NEW f, Len(f.lines) \in Nat
    PROVE  \E h : Skips(f, h) /\ SkippedLines(f) = h[Len(f.lines) % CountLimit]
<1> DEFINE h == CHOOSE skip : Skips(f, skip)
<1>1. SkippedLines(f) = h[Len(f.lines) % CountLimit]
  BY DEF SkippedLines, Skips, Grows
<1>2. Skips(f, h)
  BY SkipsExists
<1> QED BY <1>1, <1>2

\* The addresses of the entries before the last line grow, whatever comes first.
LEMMA LinesGrow ==
    ASSUME NEW f \in Images
    PROVE  /\ Len(f.lines) \in Nat /\ f.before \in Int
           /\ \A n \in 1 .. Len(f.lines) : f.lines[n].address \in Nat
           /\ f.symbols[1].address \in Nat
           /\ \A n \in 1 .. Len(f.lines) - 1 : Grows(f, n)
<1>1. PICK names : IsDebugInfo(f, names)
  BY ImageType
<1>2. /\ f.lines \in Seq(DebugLine) /\ f.symbols \in Seq(Symbol(names))
      /\ f.before \in Int
  BY <1>1 DEF IsDebugInfo
<1>3. /\ f.symbols # <<>>
      /\ \A m, n \in DOMAIN f.lines :
             m < n => f.lines[m].address < f.lines[n].address
  BY CompilerAssumption DEF CompilerAssumption, IsCompiled
<1>4. f.symbols[1] \in Symbol(names)
  BY <1>2, <1>3
<1>5. \A n \in 1 .. Len(f.lines) : f.lines[n] \in DebugLine
  BY <1>2
<1>6. ASSUME NEW n \in 1 .. Len(f.lines) - 1
      PROVE  Grows(f, n)
  <2>1. f.lines[n].address < f.lines[n + 1].address
    BY <1>2, <1>3
  <2>2. n # 0 /\ n + 1 # 0 /\ n <= Len(f.lines) /\ n + 1 <= Len(f.lines)
    BY <1>2
  <2>3. /\ EntryAddress(f, n) = f.lines[n].address
        /\ EntryAddress(f, n + 1) = f.lines[n + 1].address
    BY <2>2 DEF EntryAddress
  <2>4. n \in 1 .. Len(f.lines) /\ n + 1 \in 1 .. Len(f.lines)
    BY <1>2
  <2>5. f.lines[n] \in DebugLine /\ f.lines[n + 1] \in DebugLine
    BY <1>5, <2>4
  <2>6. f.lines[n].address \in Nat /\ f.lines[n + 1].address \in Nat
    BY <2>5 DEF DebugLine
  <2> QED BY <2>1, <2>2, <2>3, <2>6 DEF Grows
<1> QED BY <1>2, <1>4, <1>5, <1>6 DEF DebugLine, Symbol

\* From every CountLimit-th line before the last one the search gets to the
\* last.
LEMMA SkipsToLast ==
    ASSUME NEW f \in Images, NEW h, Skips(f, h), NEW k \in Nat,
           Len(f.lines) - k * CountLimit >= 1
    PROVE  h[Len(f.lines) - k * CountLimit] = h[Len(f.lines)]
<1> DEFINE n == Len(f.lines)
           At(j) == n - j * CountLimit
           bad == {j \in Nat : At(j) >= 1 /\ h[At(j)] # h[n]}
<1>1. CountLimit \in Nat /\ CountLimit > 0 /\ n \in Nat
  BY AmxDbgAssumption, LinesGrow DEF AmxDbgAssumption
<1>2. At(0) = n
  <2> HIDE DEF n
  <2> QED BY <1>1
<1>3. ASSUME NEW j \in Nat \ {0}
      PROVE  At(j) \in Int /\ At(j) + CountLimit = At(j - 1)
                           /\ (At(j) >= 1 => At(j) \in 1 .. n - 1)
  <2> HIDE DEF n
  <2>1. j * CountLimit = (j - 1) * CountLimit + CountLimit
    BY <1>1
  <2>2. (j - 1) * CountLimit \in Nat
    BY <1>1
  <2> QED BY <1>1, <2>1, <2>2
<1>4. SUFFICES ASSUME bad # {}
               PROVE  FALSE
  OBVIOUS
<1>5. PICK j \in bad : \A i \in bad : j <= i
  BY <1>4, LeastExists
<1> HIDE DEF At, n
<1>6. j \in Nat \ {0} /\ At(j) >= 1 /\ h[At(j)] # h[n]
  BY <1>2, <1>5
<1>7. j - 1 \in Nat /\ j - 1 \notin bad
  BY <1>5, <1>6
<1>8. At(j) \in 1 .. n - 1 /\ At(j) + CountLimit = At(j - 1) /\ At(j - 1) >= 1
  BY <1>1, <1>3, <1>6
<1>9. h[At(j - 1)] = h[n]
  BY <1>7, <1>8
<1>10. h[At(j)] = h[At(j - 1)]
  <2>1. Grows(f, At(j)) /\ At(j) \in Nat
    BY <1>8, LinesGrow DEF n
  <2> QED BY <2>1, <1>8 DEF Skips
<1> QED BY <1>6, <1>9, <1>10

LEMMA FoundIfDetectableLemma ==
    ASSUME image \in Images
    PROVE  FoundIfDetectable
<1> DEFINE n == Len(image.lines)
           start == n % CountLimit
           before == image.before
           last == image.lines[n].address
           symbol == image.symbols[1].address
<1>1. CountLimit \in Nat /\ CountLimit > 0 /\ n \in Nat
  BY AmxDbgAssumption, LinesGrow DEF AmxDbgAssumption
<1>2. PICK h : Skips(image, h) /\ SkippedLines(image) = h[start]
  BY <1>1, SkippedLinesIs
<1>3. \A m \in Nat : h[m] = IF Grows(image, m) THEN h[m + CountLimit] ELSE m
  BY <1>2 DEF Skips
<1>4. TablesFound <=> h[start] = n
  BY <1>2 DEF TablesFound
<1>5. /\ symbol \in Nat /\ before \in Int
      /\ \A m \in 1 .. n : image.lines[m].address \in Nat
  BY LinesGrow
\* At the end it stops, unless the first symbol looks like a line.
<1>6. h[n] = n <=> ~Grows(image, n)
  <2> HIDE DEF n
  <2>1. n + CountLimit \in Nat /\ ~(n + CountLimit <= n)
    BY <1>1
  <2>2. ~Grows(image, n + CountLimit)
    BY <2>1 DEF Grows, n
  <2>3. h[n + CountLimit] = n + CountLimit
    BY <1>3, <2>1, <2>2
  <2> QED BY <1>1, <1>3, <2>1, <2>3
<1>7. PICK k \in Nat : n = start + k * CountLimit
  <2> HIDE DEF n
  <2>1. n \div CountLimit \in Nat /\ n = CountLimit * (n \div CountLimit) + start
    BY <1>1
  <2>2. (n \div CountLimit) * CountLimit = CountLimit * (n \div CountLimit)
    BY <2>1, <1>1
  <2>3. start \in Int
    BY <1>1
  <2> HIDE DEF start
  <2>4. n = start + (n \div CountLimit) * CountLimit
    BY <2>1, <2>2, <2>3, <1>1
  <2> QED BY <2>1, <2>4
<1>8. start \in 0 .. CountLimit - 1 /\ start <= n /\ k * CountLimit \in Int
  <2> HIDE DEF n
  <2> QED BY <1>1
<1>9. ASSUME n > 0
      PROVE  Grows(image, n) <=> symbol > last
  <2>1. n # 0 /\ n + 1 # 0 /\ n <= n /\ ~(n + 1 <= n)
    BY <1>1, <1>9
  <2> QED BY <2>1 DEF Grows, EntryAddress
<1>10. CASE n > 0 /\ start # 0
  <2>1. h[start] = h[n]
    <3>1. n - k * CountLimit = start /\ start >= 1
      <4> HIDE DEF n, start
      <4> QED BY <1>1, <1>7, <1>8, <1>10
    <3> HIDE DEF start
    <3>2. n - k * CountLimit >= 1
      BY <3>1
    <3> QED BY <3>1, <3>2, <1>2, SkipsToLast
  <2>2. TablesFound <=> symbol <= last
    <3>1. last \in Nat
      BY <1>1, <1>5, <1>10
    <3> HIDE DEF n, start, symbol, last
    <3> QED BY <1>4, <1>5, <1>6, <1>9, <1>10, <2>1, <3>1
  <2>3. ~(n > 0 /\ start = 0) /\ n # 0
    <3> HIDE DEF n, start
    <3> QED BY <1>10, <1>1
  <2> QED BY <1>10, <2>2, <2>3 DEF FoundIfDetectable
<1>11. CASE n > 0 /\ start = 0
  <2>1. k # 0 /\ k - 1 \in Nat /\ n - (k - 1) * CountLimit = CountLimit
    <3> HIDE DEF n, start
    <3>1. k # 0
      BY <1>1, <1>7, <1>11
    <3>2. (k - 1) * CountLimit = k * CountLimit - CountLimit
      BY <1>1, <3>1
    <3> QED BY <1>1, <1>7, <1>8, <1>11, <3>1, <3>2
  <2>2. h[CountLimit] = h[n]
    <3>1. n - (k - 1) * CountLimit >= 1
      BY <2>1, <1>1
    <3>2. h[n - (k - 1) * CountLimit] = h[n]
      BY <3>1, <2>1, <1>2, SkipsToLast
    <3> QED BY <2>1, <3>2
  <2>3. Grows(image, 0) <=> image.lines[1].address > before
    <3>1. 0 + 1 # 0 /\ 0 + 1 <= n /\ 0 <= n /\ 0 + 1 = 1
      BY <1>1, <1>11
    <3> QED BY <3>1 DEF Grows, EntryAddress
  <2>4. h[0] = IF Grows(image, 0) THEN h[n] ELSE 0
    <3>1. 0 \in Nat /\ 0 + CountLimit = CountLimit
      BY <1>1
    <3> QED BY <3>1, <1>3, <2>2
  <2>5. TablesFound <=> Grows(image, 0) /\ ~Grows(image, n)
    <3> HIDE DEF n, start
    <3> QED BY <1>1, <1>4, <1>6, <1>11, <2>4
  <2>6. TablesFound <=> before < image.lines[1].address /\ symbol <= last
    <3>1. last \in Nat /\ image.lines[1].address \in Nat
      BY <1>1, <1>5, <1>11
    <3> HIDE DEF n, start, symbol, last, before
    <3> QED BY <1>5, <1>9, <1>11, <2>3, <2>5, <3>1
  <2>7. n > 0 /\ start = 0 /\ n # 0
    <3> HIDE DEF n, start
    <3> QED BY <1>1, <1>11
  <2> QED BY <2>6, <2>7 DEF FoundIfDetectable
<1>12. CASE n = 0
  <2>1. Grows(image, 0) <=> symbol > before
    BY <1>12 DEF Grows, EntryAddress
  <2>2. start = 0
    <3> HIDE DEF n
    <3> QED BY <1>1, <1>8, <1>12
  <2>3. TablesFound <=> symbol <= before
    <3> HIDE DEF n, start, symbol, before
    <3> QED BY <1>4, <1>5, <1>6, <1>12, <2>1, <2>2
  <2> QED BY <1>12, <2>3 DEF FoundIfDetectable
<1>13. n > 0 \/ n = 0
  BY <1>1
<1> QED BY <1>10, <1>11, <1>12, <1>13

\* However long the table of lines is and however often its count wrapped,
\* dbg_LoadInfo finds the symbols in the stated cases and in no others
\* (dbg_LoadInfo).
THEOREM FoundAlwaysIfDetectable == Spec => []FoundIfDetectable
<1>1. TypeOK => FoundIfDetectable
  BY FoundIfDetectableLemma DEF TypeOK
<1> QED BY <1>1, TypeCorrect, PTL
=============================================================================
