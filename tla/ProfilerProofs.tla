--------------------------- MODULE ProfilerProofs ---------------------------
(***************************************************************************)
(* Theorems about Profiler, for every script, every depth and every size   *)
(* of frames.                                                              *)
(***************************************************************************)
EXTENDS Profiler, AmxProofs

-----------------------------------------------------------------------------
(***************************************************************************)
(* Type correctness.                                                       *)
(***************************************************************************)

\* EnterFunction keeps the types of the call stack, the counts and the graph.
LEMMA EnterFunctionType ==
    ASSUME TypeOK, NEW fn \in Functions, NEW frame \in Nat,
           EnterFunction(fn, frame)
    PROVE  /\ callStack' \in Seq(FunctionCall)
           /\ numCalls' \in [Functions -> Nat]
           /\ nodes' \in Seq(Functions)
           /\ callees' \subseteq (Functions \cup {Root}) \X Functions
<1>1. callStack' \in Seq(FunctionCall)
  <2>1. [fn |-> fn, frame |-> frame] \in FunctionCall
    BY DEF FunctionCall
  <2>2. QED
    BY <2>1, PushOnStack DEF TypeOK, EnterFunction
<1>2. numCalls' \in [Functions -> Nat]
  <2>1. \/ numCalls' = [numCalls EXCEPT ![fn] = @ + 1]
        \/ numCalls' = numCalls
    BY Zenon DEF EnterFunction, AdjustNumCalls
  <2>2. QED
    BY <2>1 DEF TypeOK
<1>3. nodes' \in Seq(Functions)
  <2>1. nodes' = Append(nodes, fn) \/ nodes' = nodes
    BY Zenon DEF EnterFunction, PushCall
  <2>2. nodes \in Seq(Functions)
    BY DEF TypeOK
  <2>3. QED
    BY <2>1, <2>2, PushOnStack
<1>4. TopNode \in Functions \cup {Root}
  BY ElementOfSeq, LenProperties, EmptySeq DEF TypeOK, TopNode
<1>5. callees' \subseteq (Functions \cup {Root}) \X Functions
  <2>1. callees' = callees \cup {<<TopNode, fn>>} \/ callees' = callees
    BY Zenon DEF EnterFunction, PushCall
  <2>2. QED
    BY <1>4, <2>1 DEF TypeOK
<1>6. QED
  BY <1>1, <1>2, <1>3, <1>5

\* Register keeps the type of fnType.
LEMMA RegisterType ==
    ASSUME TypeOK, NEW fn \in Functions,
           NEW type \in {"NORMAL", "PUBLIC", "NATIVE"}, Register(fn, type)
    PROVE  fnType' \in [Functions -> {"unknown", "NORMAL", "PUBLIC", "NATIVE"}]
BY DEF TypeOK, Register

\* LeaveFunction keeps the types of the call stack and the graph.
LEMMA LeaveFunctionType ==
    ASSUME TypeOK, NEW address, NEW frame, LeaveFunction(address, frame)
    PROVE  /\ callStack' \in Seq(FunctionCall)
           /\ nodes' \in Seq(Functions)
           /\ callees' = callees
<1>1. PICK rest \in {0} \cup 1 .. Len(callStack) - 1 :
          /\ callStack' = SubSeq(callStack, 1, rest)
          /\ PopCalls(Len(callStack) - rest)
  BY DEF LeaveFunction
<1>2. Len(callStack) \in Nat /\ Len(nodes) \in Nat
  BY LenProperties DEF TypeOK
<1>3. callStack' \in Seq(FunctionCall)
  BY <1>1, <1>2, PrefixOfStack DEF TypeOK
<1>4. Len(callStack) - rest >= 0
  BY <1>1, <1>2
<1>5. nodes' \in Seq(Functions) /\ callees' = callees
  <2>1. SubSeq(nodes, 1, Len(nodes) - (Len(callStack) - rest))
            \in Seq(Functions)
    BY <1>1, <1>2, <1>4, PrefixOfStack DEF TypeOK
  <2>2. QED
    BY <1>1, <2>1 DEF PopCalls, TypeOK
<1>6. QED
  BY <1>3, <1>5

\* The types that a BREAK disturbs.
LEMMA DebugHookType ==
    ASSUME TypeOK, NEW a, a.kind \in {"exec", "call", "native"},
           a.fn \in Functions, a.frm \in Nat,
           DebugHook(a)
    PROVE  /\ callStack' \in Seq(FunctionCall)
           /\ hooks' \in Seq(Hook)
           /\ fnType' \in [Functions -> {"unknown", "NORMAL", "PUBLIC", "NATIVE"}]
           /\ numCalls' \in [Functions -> Nat]
           /\ nodes' \in Seq(Functions)
           /\ callees' \subseteq (Functions \cup {Root}) \X Functions
<1>1. hooks' \in Seq(Hook)
  BY DEF DebugHook, TypeOK
<1>2. CASE /\ GetCalleeAddress(a) # NoAddress
           /\ Register(GetCalleeAddress(a), "NORMAL")
           /\ EnterFunction(GetCalleeAddress(a), a.frm)
  <2>1. GetCalleeAddress(a) \in Functions
    BY <1>2 DEF GetCalleeAddress
  <2>2. QED
    BY <1>1, <1>2, <2>1, EnterFunctionType, RegisterType
<1>3. CASE LeaveFunction(NoAddress, a.frm) /\ UNCHANGED statVars
  BY <1>1, <1>3, LeaveFunctionType DEF TypeOK, statVars
<1>4. CASE UNCHANGED <<callStack, statVars, graphVars>>
  BY <1>1, <1>4 DEF TypeOK, statVars, graphVars
<1>5. QED
  BY <1>2, <1>3, <1>4 DEF DebugHook

\* The types that the head of CallbackHook and ExecHook disturbs.
LEMMA EnterHookType ==
    ASSUME TypeOK, NEW fn \in Functions, NEW type \in {"PUBLIC", "NATIVE"},
           NEW frame \in Nat, EnterHook(fn, type, frame)
    PROVE  /\ callStack' \in Seq(FunctionCall)
           /\ hooks' \in Seq(Hook)
           /\ fnType' \in [Functions -> {"unknown", "NORMAL", "PUBLIC", "NATIVE"}]
           /\ numCalls' \in [Functions -> Nat]
           /\ nodes' \in Seq(Functions)
           /\ callees' \subseteq (Functions \cup {Root}) \X Functions
<1>1. Len(callStack) \in Nat /\ Len(vm) \in Nat
  BY LenProperties DEF TypeOK, VmTypeOK
<1>2. [address |-> fn, entry |-> Len(callStack) + 1,
       activation |-> Len(vm) + 1] \in Hook
  BY <1>1 DEF Hook
<1>3. hooks' \in Seq(Hook)
  BY <1>2, PushOnStack DEF TypeOK, EnterHook
<1>4. QED
  BY <1>3, EnterFunctionType, RegisterType DEF EnterHook

\* The types that the tail of CallbackHook and ExecHook disturbs.
LEMMA ReturnToHookType ==
    ASSUME TypeOK, ReturnToHook
    PROVE  /\ callStack' \in Seq(FunctionCall)
           /\ hooks' \in Seq(Hook)
           /\ fnType' \in [Functions -> {"unknown", "NORMAL", "PUBLIC", "NATIVE"}]
           /\ numCalls' \in [Functions -> Nat]
           /\ nodes' \in Seq(Functions)
           /\ callees' \subseteq (Functions \cup {Root}) \X Functions
<1>1. Len(hooks) \in Nat
  BY LenProperties DEF TypeOK
<1>2. hooks' \in Seq(Hook)
  BY <1>1, PrefixOfStack DEF TypeOK, ReturnToHook
<1>3. UNCHANGED statVars
  BY DEF ReturnToHook
<1>4. CASE LeaveFunction(hooks[Len(hooks)].address, 0)
  BY <1>2, <1>3, <1>4, LeaveFunctionType DEF TypeOK, statVars
<1>5. CASE UNCHANGED <<callStack, graphVars>>
  BY <1>2, <1>3, <1>5 DEF TypeOK, statVars, graphVars
<1>6. QED
  BY <1>4, <1>5 DEF ReturnToHook

\* Every step keeps the types, and the shape of the machine's stack.
LEMMA StepKeepsTypes ==
    ASSUME TypeOK, MachineInv, [Next]_vars
    PROVE  TypeOK' /\ MachineInv'
<1>1. VmTypeOK
  BY DEF TypeOK
<1>2. VmTypeOK' /\ MachineInv'
  BY <1>1, MachineStep
  DEF Next, vars, Exec, Call, Return, Statement, NativeCall, NativeReturn, ExecReturn
<1>3. ASSUME NEW fn \in Publics, NEW size \in FrameSizes, Exec(fn, size)
      PROVE  TypeOK'
  <2>1. StackBase - size \in Nat
    BY <1>1, <1>3, NewFrameIsLowest DEF Exec, BeginExec, Room
  <2>2. fn \in Functions /\ EnterHook(fn, "PUBLIC", StackBase - size)
    BY <1>3 DEF Exec, Functions
  <2>3. QED
    BY <1>2, <2>1, <2>2, EnterHookType DEF TypeOK
<1>4. ASSUME NEW fn \in Callees, NEW size \in FrameSizes, Call(fn, size)
      PROVE  TypeOK'
  <2>1. StackBase - size \in Nat
    BY <1>1, <1>4, NewFrameIsLowest DEF Call, BeginCall, Room
  <2>2. fn \in Functions
    BY AmxAssumption DEF Functions
  <2> DEFINE a == [kind |-> "call", fn |-> fn, frm |-> StackBase - size]
  <2>3. a.kind = "call" /\ a.fn \in Functions /\ a.frm \in Nat
    BY <2>1, <2>2
  <2>4. DebugHook(a)
    BY <1>4 DEF Call
  <2> HIDE DEF a
  <2>5. QED
    BY <1>2, <2>3, <2>4, DebugHookType DEF TypeOK
<1>5. CASE Return
  BY <1>2, <1>5 DEF Return, statVars, graphVars, TypeOK
<1>6. CASE Statement
  <2>1. Running \in Activation /\ DebugHook(Running)
    BY <1>1, <1>6, MachineStack DEF Statement, Break, InScript
  <2>2. /\ Running.kind \in {"exec", "call", "native"}
        /\ Running.fn \in Functions /\ Running.frm \in Nat
    BY <2>1 DEF Activation
  <2>3. QED
    BY <1>2, <2>1, <2>2, DebugHookType DEF TypeOK
<1>7. ASSUME NEW fn \in Natives, NativeCall(fn)
      PROVE  TypeOK'
  <2>1. Running.frm \in Nat
    BY <1>1, <1>7, RunningFrameIsLowest DEF NativeCall, BeginNative, InScript
  <2>2. fn \in Functions /\ EnterHook(fn, "NATIVE", Running.frm)
    BY <1>7 DEF NativeCall, Functions
  <2>3. QED
    BY <1>2, <2>1, <2>2, EnterHookType DEF TypeOK
<1>8. CASE NativeReturn \/ ExecReturn
  BY <1>2, <1>8, ReturnToHookType DEF NativeReturn, ExecReturn, TypeOK
<1>9. CASE UNCHANGED vars
  BY <1>2, <1>9 DEF vars, TypeOK
<1>10. QED
  BY <1>2, <1>3, <1>4, <1>5, <1>6, <1>7, <1>8, <1>9 DEF Next

\* Every value of the state has its type, in every reachable state.
THEOREM TypeCorrect == Spec => [](TypeOK /\ MachineInv)
<1>1. Init => TypeOK /\ MachineInv
  <2>1. SUFFICES ASSUME Init PROVE TypeOK /\ MachineInv
    OBVIOUS
  <2>2. /\ vm \in Seq(Activation) /\ callStack \in Seq(FunctionCall)
        /\ hooks \in Seq(Hook) /\ nodes \in Seq(Functions)
        /\ vm = <<>> /\ DOMAIN vm = {}
    BY <2>1, EmptySeq DEF Init, VmInit, GraphInit
  <2>3. TypeOK
    BY <2>1, <2>2 DEF Init, GraphInit, TypeOK, VmTypeOK
  <2>4. MachineInv
    BY <2>2 DEF MachineInv
  <2>5. QED
    BY <2>3, <2>4
<1>2. TypeOK /\ MachineInv /\ [Next]_vars => TypeOK' /\ MachineInv'
  BY StepKeepsTypes
<1>3. QED
  BY <1>1, <1>2, PTL DEF Spec

-----------------------------------------------------------------------------
(***************************************************************************)
(* The operations of the profiler on its two stacks.                       *)
(***************************************************************************)

\* EnterFunction pushes one entry on the call stack and on the call graph's.
LEMMA EnterFunctionPushes ==
    ASSUME TypeOK, GraphFollowsStack, NEW fn \in Functions, NEW frame \in Nat,
           EnterFunction(fn, frame)
    PROVE  /\ Len(callStack') = Len(callStack) + 1
           /\ \A i \in 1 .. Len(callStack) : callStack'[i] = callStack[i]
           /\ callStack'[Len(callStack) + 1] = [fn |-> fn, frame |-> frame]
           /\ GraphFollowsStack'
<1>1. /\ callStack \in Seq(FunctionCall) /\ Len(callStack) \in Nat
      /\ nodes \in Seq(Functions) /\ Len(nodes) \in Nat
      /\ DOMAIN nodes = 1 .. Len(nodes)
  BY LenProperties DEF TypeOK
<1>2. [fn |-> fn, frame |-> frame] \in FunctionCall
  BY DEF FunctionCall
<1>3. /\ Len(callStack') = Len(callStack) + 1
      /\ \A i \in 1 .. Len(callStack) : callStack'[i] = callStack[i]
      /\ callStack'[Len(callStack) + 1] = [fn |-> fn, frame |-> frame]
  BY <1>1, <1>2, PushOnStack DEF EnterFunction
<1>4. CASE ~CallGraphEnabled
  <2>1. UNCHANGED nodes
    BY <1>4, Zenon DEF EnterFunction, PushCall
  <2>2. QED
    BY <1>3, <1>4, <2>1 DEF GraphFollowsStack
<1>5. CASE CallGraphEnabled
  <2>1. nodes' = Append(nodes, fn) /\ callees' = callees \cup {<<TopNode, fn>>}
    BY <1>5, Zenon DEF EnterFunction, PushCall
  <2>2. /\ Len(nodes') = Len(nodes) + 1
        /\ \A i \in 1 .. Len(nodes) : nodes'[i] = nodes[i]
        /\ nodes'[Len(nodes) + 1] = fn
        /\ nodes' \in Seq(Functions)
    BY <1>1, <2>1, PushOnStack
  <2>3. DOMAIN nodes' = 1 .. Len(nodes) + 1
    BY <2>2, LenProperties
  <2>4. /\ Len(nodes) = Len(callStack)
        /\ \A i \in 1 .. Len(nodes) :
              /\ nodes[i] = callStack[i].fn
              /\ <<IF i = 1 THEN Root ELSE nodes[i - 1], nodes[i]>> \in callees
    BY <1>1, <1>5 DEF GraphFollowsStack
  <2>5. ASSUME NEW i \in 1 .. Len(nodes) + 1
        PROVE  /\ nodes'[i] = callStack'[i].fn
               /\ <<IF i = 1 THEN Root ELSE nodes'[i - 1], nodes'[i]>> \in callees'
    <3>1. CASE i \in 1 .. Len(nodes)
      <4>1. i # 1 => i - 1 \in 1 .. Len(nodes)
        BY <1>1, <3>1
      <4>2. QED
        BY <1>3, <2>1, <2>2, <2>4, <3>1, <4>1
    <3>2. CASE i = Len(nodes) + 1
      <4>1. TopNode = IF i = 1 THEN Root ELSE nodes'[i - 1]
        <5>1. i = 1 <=> nodes = <<>>
          BY <1>1, <3>2, EmptySeq
        <5>2. i # 1 => i - 1 \in 1 .. Len(nodes) /\ i - 1 = Len(nodes)
          BY <1>1, <3>2
        <5>3. QED
          BY <2>2, <5>1, <5>2 DEF TopNode
      <4>2. QED
        BY <1>3, <2>1, <2>2, <2>4, <3>2, <4>1
    <3>3. QED
      BY <1>1, <3>1, <3>2
  <2>6. Len(nodes') = Len(callStack')
    BY <1>3, <2>2, <2>4
  <2>7. QED
    BY <1>3, <1>5, <2>3, <2>5, <2>6 DEF GraphFollowsStack
<1>6. QED
  BY <1>3, <1>4, <1>5

\* LeaveFunction leaves the lowest entries of both stacks, down to the first
\* one, from the top, that stops it.
LEMMA LeaveFunctionPops ==
    ASSUME TypeOK, GraphFollowsStack, NEW address, NEW frame,
           LeaveFunction(address, frame)
    PROVE  /\ \E rest \in 0 .. Len(callStack) :
                 /\ callStack # <<>> => rest < Len(callStack)
                 /\ callStack' = SubSeq(callStack, 1, rest)
                 /\ Len(callStack') = rest
                 /\ \A i \in 1 .. rest : callStack'[i] = callStack[i]
                 /\ rest > 0 => StopsPopping(rest + 1, address, frame)
                 /\ \A i \in rest + 2 .. Len(callStack) :
                       ~StopsPopping(i, address, frame)
           /\ GraphFollowsStack'
<1>1. /\ callStack \in Seq(FunctionCall) /\ Len(callStack) \in Nat
      /\ nodes \in Seq(Functions) /\ Len(nodes) \in Nat
      /\ DOMAIN nodes = 1 .. Len(nodes)
  BY LenProperties DEF TypeOK
<1>2. PICK rest \in {0} \cup 1 .. Len(callStack) - 1 :
          /\ rest > 0 => StopsPopping(rest + 1, address, frame)
          /\ \A i \in rest + 2 .. Len(callStack) :
                ~StopsPopping(i, address, frame)
          /\ callStack' = SubSeq(callStack, 1, rest)
          /\ PopCalls(Len(callStack) - rest)
  BY DEF LeaveFunction
<1>3. rest \in 0 .. Len(callStack) /\ (callStack # <<>> => rest < Len(callStack))
  BY <1>1, <1>2, EmptySeq
<1>4. /\ Len(callStack') = rest
      /\ \A i \in 1 .. rest : callStack'[i] = callStack[i]
  BY <1>1, <1>2, <1>3, PrefixOfStack
<1>5. GraphFollowsStack'
  <2>1. CASE ~CallGraphEnabled
    <3>1. nodes' = nodes
      BY <1>2, <2>1, Zenon DEF PopCalls
    <3>2. QED
      BY <2>1, <3>1 DEF GraphFollowsStack
  <2>2. CASE CallGraphEnabled
    <3>1. /\ Len(nodes) = Len(callStack)
          /\ \A i \in 1 .. Len(nodes) :
                /\ nodes[i] = callStack[i].fn
                /\ <<IF i = 1 THEN Root ELSE nodes[i - 1], nodes[i]>> \in callees
      BY <1>1, <2>2 DEF GraphFollowsStack
    <3>2. /\ nodes' = SubSeq(nodes, 1, Len(nodes) - (Len(callStack) - rest))
          /\ callees' = callees
      BY <1>2, <2>2, Zenon DEF PopCalls
    <3>3. nodes' = SubSeq(nodes, 1, rest)
      <4>1. Len(nodes) - (Len(callStack) - rest) = rest
        BY <1>1, <1>3, <3>1
      <4>2. QED
        BY <3>2, <4>1
    <3>4. /\ Len(nodes') = rest /\ nodes' \in Seq(Functions)
          /\ \A i \in 1 .. rest : nodes'[i] = nodes[i]
      BY <1>1, <1>3, <3>1, <3>3, PrefixOfStack
    <3>5. DOMAIN nodes' = 1 .. rest
      BY <3>4, LenProperties
    <3>6. ASSUME NEW i \in 1 .. rest
          PROVE  /\ nodes'[i] = callStack'[i].fn
                 /\ <<IF i = 1 THEN Root ELSE nodes'[i - 1], nodes'[i]>>
                        \in callees'
      <4>1. i \in 1 .. Len(nodes) /\ (i # 1 => i - 1 \in 1 .. rest)
        BY <1>1, <1>3, <3>1
      <4>2. QED
        BY <1>4, <3>1, <3>2, <3>4, <4>1
    <3>7. QED
      BY <1>4, <2>2, <3>4, <3>5, <3>6 DEF GraphFollowsStack
  <2>3. QED
    BY <2>1, <2>2
<1>6. QED
  BY <1>2, <1>3, <1>4, <1>5

-----------------------------------------------------------------------------
(***************************************************************************)
(* The inductive invariant StackInv, for scripts in which no OP_CALL       *)
(* targets a public.                                                       *)
(***************************************************************************)

\* While something runs, the bottom of the call stack is the entry of the
\* public that the server called.
LEMMA RunningIsOnStack ==
    ASSUME TypeOK, StackInv, vm # <<>>
    PROVE  callStack # <<>> /\ hooks # <<>> /\ hooks[1].entry = 1
<1>1. /\ Len(callStack) \in Nat /\ DOMAIN callStack = 1 .. Len(callStack)
      /\ Len(vm) \in Nat \ {0} /\ DOMAIN vm = 1 .. Len(vm)
  BY LenProperties, EmptySeq DEF TypeOK, VmTypeOK
<1>2. 1 \in DOMAIN vm /\ vm[1].kind # "call"
  BY <1>1 DEF StackInv, EntriesInv, MachineInv
<1>3. PICK k \in DOMAIN hooks : hooks[k].activation = 1
  BY <1>2 DEF StackInv, EntriesInv, HookInv
<1>4. hooks[k].entry \in 1 .. Len(callStack)
  BY <1>1, <1>3 DEF StackInv, EntriesInv, BottomInv, HookInv
<1>5. callStack # <<>>
  BY <1>1, <1>4, EmptySeq
<1>6. QED
  BY <1>5 DEF StackInv, BottomInv

\* A BREAK pops no entry of a hook in progress: LeaveFunction stops above the
\* first entry whose frame is not below the running one's.
LEMMA DebugHookKeepsEntries ==
    ASSUME TypeOK, EntriesInv,
           NEW a, a.kind \in {"exec", "call", "native"},
           a.frm \in Nat \ {0}, \A i \in DOMAIN vm : vm[i].frm >= a.frm,
           GetCalleeAddress(a) \in Normals \cup {NoAddress},
           DebugHook(a)
    PROVE  /\ hooks' = hooks
           /\ \A k \in DOMAIN hooks :
                 hooks[k].address # NoAddress =>
                    /\ hooks[k].entry \in DOMAIN callStack'
                    /\ callStack'[hooks[k].entry] = callStack[hooks[k].entry]
           /\ FnTypeInv' /\ EntryInv' /\ GraphFollowsStack'
<1>1. /\ Len(callStack) \in Nat /\ DOMAIN callStack = 1 .. Len(callStack)
      /\ callStack \in Seq(FunctionCall)
  BY LenProperties DEF TypeOK
<1>3. hooks' = hooks
  BY DEF DebugHook
<1>4. CASE /\ GetCalleeAddress(a) # NoAddress
           /\ Register(GetCalleeAddress(a), "NORMAL")
           /\ EnterFunction(GetCalleeAddress(a), a.frm)
  <2>1. PICK fn \in Normals : fn = GetCalleeAddress(a)
    BY <1>4
  <2>2. fn \in Functions /\ EnterFunction(fn, a.frm) /\ Register(fn, "NORMAL")
    BY <1>4, <2>1 DEF Functions
  <2>3. GraphFollowsStack
    BY DEF EntriesInv
  <2>4. /\ Len(callStack') = Len(callStack) + 1
        /\ \A i \in 1 .. Len(callStack) : callStack'[i] = callStack[i]
        /\ callStack'[Len(callStack) + 1] = [fn |-> fn, frame |-> a.frm]
        /\ GraphFollowsStack'
    BY <2>2, <2>3, EnterFunctionPushes
  <2>5. callStack' \in Seq(FunctionCall)
    BY <2>2, EnterFunctionType
  <2>6. DOMAIN callStack' = 1 .. Len(callStack) + 1
    BY <2>4, <2>5, LenProperties
  <2>7. FnTypeInv'
    <3>1. FnTypeInv /\ fnType \in [Functions -> {"unknown", "NORMAL", "PUBLIC", "NATIVE"}]
      BY DEF EntriesInv, TypeOK
    <3>2. fn \notin Publics \cup Natives
      BY AmxAssumption
    <3>3. QED
      BY <2>2, <3>1, <3>2 DEF FnTypeInv, Register, Functions
  <2>8. \A k \in DOMAIN hooks :
            hooks[k].address # NoAddress =>
               /\ hooks[k].entry \in DOMAIN callStack'
               /\ callStack'[hooks[k].entry] = callStack[hooks[k].entry]
    BY <1>1, <2>4, <2>6 DEF EntriesInv, HookInv
  <2>9. EntryInv'
    <3>1. ASSUME NEW i \in 1 .. Len(callStack) + 1
          PROVE  \/ callStack'[i].fn \in Normals
                 \/ \E k \in DOMAIN hooks :
                       hooks[k].address # NoAddress /\ hooks[k].entry = i
      <4>1. CASE i \in 1 .. Len(callStack)
        BY <1>1, <2>4, <4>1 DEF EntriesInv, EntryInv
      <4>2. CASE i = Len(callStack) + 1
        BY <2>4, <4>2
      <4>3. QED
        BY <1>1, <4>1, <4>2
    <3>2. QED
      BY <1>3, <2>6, <3>1 DEF EntryInv
  <2>10. QED
    BY <1>3, <2>4, <2>7, <2>8, <2>9
<1>5. CASE /\ callStack # <<>> /\ fnType[Top.fn] = "NORMAL"
           /\ LeaveFunction(NoAddress, a.frm)
           /\ UNCHANGED statVars
  <2>1. GraphFollowsStack
    BY DEF EntriesInv
  <2>2. PICK rest \in 0 .. Len(callStack) :
            /\ rest < Len(callStack)
            /\ callStack' = SubSeq(callStack, 1, rest)
            /\ Len(callStack') = rest
            /\ \A i \in 1 .. rest : callStack'[i] = callStack[i]
            /\ \A i \in rest + 2 .. Len(callStack) :
                  ~StopsPopping(i, NoAddress, a.frm)
    BY <1>5, <2>1, LeaveFunctionPops
  <2>3. GraphFollowsStack'
    BY <1>5, <2>1, LeaveFunctionPops
  <2>4. callStack' \in Seq(FunctionCall)
    BY <1>5, LeaveFunctionType
  <2>5. DOMAIN callStack' = 1 .. rest
    BY <2>2, <2>4, LenProperties
  <2>6. ASSUME NEW k \in DOMAIN hooks, hooks[k].address # NoAddress
        PROVE  hooks[k].entry \in 1 .. rest
    <3>1. /\ hooks[k].entry \in 1 .. Len(callStack)
          /\ callStack[hooks[k].entry].frame >= a.frm
          /\ callStack[hooks[k].entry].fn \in Publics \cup Natives
      BY <1>1, <2>6 DEF EntriesInv, HookInv
    <3>2. hooks[k].entry # Len(callStack)
      <4>1. callStack[hooks[k].entry].fn # Top.fn
        BY <1>5, <3>1 DEF EntriesInv, FnTypeInv
      <4>2. QED
        BY <4>1 DEF Top
    <3>3. ~(hooks[k].entry > rest)
      <4>1. SUFFICES ASSUME hooks[k].entry > rest PROVE FALSE
        OBVIOUS
      <4>2. hooks[k].entry + 1 \in rest + 2 .. Len(callStack)
        BY <1>1, <2>2, <3>1, <3>2, <4>1
      <4>3. StopsPopping(hooks[k].entry + 1, NoAddress, a.frm)
        <5>1. /\ hooks[k].entry + 1 > 1
              /\ (hooks[k].entry + 1) - 1 = hooks[k].entry
              /\ a.frm # 0
          BY <3>1
        <5>2. QED
          BY <3>1, <5>1 DEF StopsPopping
      <4>4. QED
        BY <2>2, <4>2, <4>3
    <3>4. QED
      BY <1>1, <2>2, <3>1, <3>3
  <2>7. FnTypeInv'
    BY <1>5 DEF EntriesInv, FnTypeInv, statVars
  <2>8. EntryInv'
    <3>1. ASSUME NEW i \in 1 .. rest
          PROVE  \/ callStack'[i].fn \in Normals
                 \/ \E k \in DOMAIN hooks :
                       hooks[k].address # NoAddress /\ hooks[k].entry = i
      <4>1. i \in DOMAIN callStack /\ callStack'[i] = callStack[i]
        BY <1>1, <2>2
      <4>2. QED
        BY <4>1 DEF EntriesInv, EntryInv
    <3>2. QED
      BY <1>3, <2>5, <3>1 DEF EntryInv
  <2>9. QED
    BY <1>3, <2>2, <2>3, <2>5, <2>6, <2>7, <2>8
<1>6. CASE UNCHANGED <<callStack, statVars, graphVars>>
  <2>1. UNCHANGED <<callStack, hooks, fnType, nodes, callees>>
    BY <1>3, <1>6 DEF statVars, graphVars
  <2>2. FnTypeInv' /\ EntryInv' /\ GraphFollowsStack'
    BY <2>1 DEF EntriesInv, FnTypeInv, EntryInv, GraphFollowsStack
  <2>3. QED
    BY <2>1, <2>2 DEF EntriesInv, HookInv
<1>7. QED
  BY <1>4, <1>5, <1>6 DEF DebugHook

\* CallbackHook and ExecHook push an entry for the activation they start.
LEMMA EnterHookKeepsEntries ==
    ASSUME TypeOK, EntriesInv, NEW fn \in Publics \cup Natives,
           NEW type \in {"PUBLIC", "NATIVE"}, NEW frame \in Nat,
           NEW kind \in {"exec", "native"}, vm' = Started(kind, fn, frame),
           EnterHook(fn, type, frame)
    PROVE  FnTypeInv' /\ HookInv' /\ EntryInv' /\ GraphFollowsStack'
<1>1. /\ callStack \in Seq(FunctionCall) /\ hooks \in Seq(Hook)
      /\ vm \in Seq(Activation)
      /\ Len(callStack) \in Nat /\ DOMAIN callStack = 1 .. Len(callStack)
      /\ Len(hooks) \in Nat /\ DOMAIN hooks = 1 .. Len(hooks)
      /\ Len(vm) \in Nat /\ DOMAIN vm = 1 .. Len(vm)
  BY LenProperties DEF TypeOK, VmTypeOK
<1>2. fn \in Functions /\ fn # NoAddress
  BY AmxAssumption DEF Functions
<1> DEFINE act == [kind |-> kind, fn |-> fn, frm |-> frame, returned |-> FALSE]
           hook == [address    |-> fn,
                    entry      |-> Len(callStack) + 1,
                    activation |-> Len(vm) + 1]
<1>3. act \in Activation /\ act.kind # "call" /\ act.frm = frame
  BY <1>2 DEF Activation
<1>4. /\ hook \in Hook /\ hook.address = fn
      /\ hook.entry = Len(callStack) + 1 /\ hook.activation = Len(vm) + 1
  BY <1>1, <1>2 DEF Hook
<1>5. vm' = Append(vm, act)
  BY DEF Started
<1>6. hooks' = Append(hooks, hook)
  BY DEF EnterHook
<1> HIDE DEF act, hook
<1>7. /\ Len(vm') = Len(vm) + 1 /\ vm'[Len(vm) + 1] = act
      /\ \A i \in 1 .. Len(vm) : vm'[i] = vm[i]
      /\ vm' \in Seq(Activation)
  BY <1>1, <1>3, <1>5, PushOnStack
<1>8. /\ Len(hooks') = Len(hooks) + 1 /\ hooks'[Len(hooks) + 1] = hook
      /\ \A k \in 1 .. Len(hooks) : hooks'[k] = hooks[k]
      /\ hooks' \in Seq(Hook)
  BY <1>1, <1>4, <1>6, PushOnStack
<1>9. EnterFunction(fn, frame) /\ Register(fn, type) /\ GraphFollowsStack
  BY DEF EnterHook, EntriesInv
<1>10. /\ Len(callStack') = Len(callStack) + 1
       /\ \A i \in 1 .. Len(callStack) : callStack'[i] = callStack[i]
       /\ callStack'[Len(callStack) + 1] = [fn |-> fn, frame |-> frame]
       /\ callStack' \in Seq(FunctionCall)
       /\ GraphFollowsStack'
  BY <1>2, <1>9, EnterFunctionPushes, EnterFunctionType
<1>11. /\ DOMAIN vm' = 1 .. Len(vm) + 1
       /\ DOMAIN hooks' = 1 .. Len(hooks) + 1
       /\ DOMAIN callStack' = 1 .. Len(callStack) + 1
  BY <1>7, <1>8, <1>10, LenProperties
<1>12. FnTypeInv'
  <2>1. FnTypeInv /\ fnType \in [Functions -> {"unknown", "NORMAL", "PUBLIC", "NATIVE"}]
    BY DEF EntriesInv, TypeOK
  <2>2. fn \notin Normals
    BY AmxAssumption
  <2>3. QED
    BY <1>9, <2>1, <2>2 DEF FnTypeInv, Register, Functions
<1>13. HookInv'
  <2>1. /\ \A k \in 1 .. Len(hooks) :
              /\ hooks[k].activation \in 1 .. Len(vm)
              /\ vm[hooks[k].activation].kind # "call"
              /\ hooks[k].address # NoAddress =>
                    /\ hooks[k].entry \in 1 .. Len(callStack)
                    /\ callStack[hooks[k].entry].fn = hooks[k].address
                    /\ callStack[hooks[k].entry].frame
                          = vm[hooks[k].activation].frm
                    /\ hooks[k].address \in Publics \cup Natives
        /\ \A k, l \in 1 .. Len(hooks) :
              k < l => /\ hooks[k].activation < hooks[l].activation
                       /\ NoAddress \notin {hooks[k].address, hooks[l].address}
                             => hooks[k].entry < hooks[l].entry
        /\ \A i \in 1 .. Len(vm) :
              vm[i].kind # "call" =>
                  \E k \in 1 .. Len(hooks) : hooks[k].activation = i
    BY <1>1 DEF EntriesInv, HookInv
  <2>2. ASSUME NEW k \in 1 .. Len(hooks) + 1
        PROVE  /\ hooks'[k].activation \in 1 .. Len(vm) + 1
               /\ vm'[hooks'[k].activation].kind # "call"
               /\ hooks'[k].address # NoAddress =>
                     /\ hooks'[k].entry \in 1 .. Len(callStack) + 1
                     /\ callStack'[hooks'[k].entry].fn = hooks'[k].address
                     /\ callStack'[hooks'[k].entry].frame
                           = vm'[hooks'[k].activation].frm
                     /\ hooks'[k].address \in Publics \cup Natives
    <3>1. CASE k \in 1 .. Len(hooks)
      <4>1. hooks'[k] = hooks[k]
        BY <1>8, <3>1
      <4>2. /\ hooks[k].activation \in 1 .. Len(vm)
            /\ hooks[k].address # NoAddress =>
                  hooks[k].entry \in 1 .. Len(callStack)
        BY <2>1, <3>1
      <4>3. /\ vm'[hooks[k].activation] = vm[hooks[k].activation]
            /\ hooks[k].address # NoAddress =>
                  callStack'[hooks[k].entry] = callStack[hooks[k].entry]
        BY <1>7, <1>10, <4>2
      <4>4. QED
        BY <1>1, <2>1, <3>1, <4>1, <4>2, <4>3
    <3>2. CASE k = Len(hooks) + 1
      BY <1>1, <1>3, <1>4, <1>7, <1>8, <1>10, <3>2
    <3>3. QED
      BY <1>1, <3>1, <3>2
  <2>3. ASSUME NEW k \in 1 .. Len(hooks) + 1, NEW l \in 1 .. Len(hooks) + 1, k < l
        PROVE  /\ hooks'[k].activation < hooks'[l].activation
               /\ NoAddress \notin {hooks'[k].address, hooks'[l].address} =>
                     hooks'[k].entry < hooks'[l].entry
    <3>1. k \in 1 .. Len(hooks) /\ hooks'[k] = hooks[k]
      BY <1>1, <1>8, <2>3
    <3>2. CASE l \in 1 .. Len(hooks)
      BY <1>8, <2>1, <2>3, <3>1, <3>2
    <3>3. CASE l = Len(hooks) + 1
      BY <1>1, <1>4, <1>8, <2>1, <3>1, <3>3
    <3>4. QED
      BY <1>1, <3>2, <3>3
  <2>4. ASSUME NEW i \in 1 .. Len(vm) + 1, vm'[i].kind # "call"
        PROVE  \E k \in 1 .. Len(hooks) + 1 : hooks'[k].activation = i
    <3>1. CASE i \in 1 .. Len(vm)
      <4>1. PICK k \in 1 .. Len(hooks) : hooks[k].activation = i
        BY <1>7, <2>1, <2>4, <3>1
      <4>2. k \in 1 .. Len(hooks) + 1 /\ hooks'[k].activation = i
        BY <1>1, <1>8, <4>1
      <4>3. QED
        BY <4>2
    <3>2. CASE i = Len(vm) + 1
      <4>1. Len(hooks) + 1 \in 1 .. Len(hooks) + 1
        BY <1>1
      <4>2. QED
        BY <1>4, <1>8, <3>2, <4>1
    <3>3. QED
      BY <1>1, <3>1, <3>2
  <2>5. QED
    BY <1>11, <2>2, <2>3, <2>4 DEF HookInv
<1>14. EntryInv'
  <2>1. ASSUME NEW i \in 1 .. Len(callStack) + 1
        PROVE  \/ callStack'[i].fn \in Normals
               \/ \E k \in 1 .. Len(hooks) + 1 :
                     hooks'[k].address # NoAddress /\ hooks'[k].entry = i
    <3>1. CASE i \in 1 .. Len(callStack)
      <4>1. \/ callStack[i].fn \in Normals
            \/ \E k \in 1 .. Len(hooks) :
                  hooks[k].address # NoAddress /\ hooks[k].entry = i
        BY <1>1, <3>1 DEF EntriesInv, EntryInv
      <4>2. \A k \in 1 .. Len(hooks) :
               k \in 1 .. Len(hooks) + 1 /\ hooks'[k] = hooks[k]
        BY <1>1, <1>8
      <4>3. QED
        BY <1>10, <3>1, <4>1, <4>2
    <3>2. CASE i = Len(callStack) + 1
      <4>1. Len(hooks) + 1 \in 1 .. Len(hooks) + 1
        BY <1>1
      <4>2. QED
        BY <1>2, <1>4, <1>8, <3>2, <4>1
    <3>3. QED
      BY <1>1, <3>1, <3>2
  <2>2. QED
    BY <1>11, <2>1 DEF EntryInv
<1>15. QED
  BY <1>10, <1>12, <1>13, <1>14

\* A hook that returns finds its own entry: every entry above it is an ordinary
\* function's, which has another address.
LEMMA ReturnToHookPopsOwnEntry ==
    ASSUME TypeOK, EntriesInv, hooks # <<>>, ReturnToHook,
           hooks[Len(hooks)].address # NoAddress
    PROVE  /\ callStack' = SubSeq(callStack, 1, hooks[Len(hooks)].entry - 1)
           /\ Len(callStack') = hooks[Len(hooks)].entry - 1
           /\ \A i \in 1 .. hooks[Len(hooks)].entry - 1 :
                 callStack'[i] = callStack[i]
           /\ GraphFollowsStack'
<1>1. /\ callStack \in Seq(FunctionCall) /\ hooks \in Seq(Hook)
      /\ Len(callStack) \in Nat /\ DOMAIN callStack = 1 .. Len(callStack)
      /\ Len(hooks) \in Nat \ {0} /\ DOMAIN hooks = 1 .. Len(hooks)
  BY LenProperties, EmptySeq DEF TypeOK
<1> DEFINE h == hooks[Len(hooks)]
<1>2. /\ h.entry \in 1 .. Len(callStack)
      /\ callStack[h.entry].fn = h.address
      /\ h.address \in Publics \cup Natives
  BY <1>1 DEF EntriesInv, HookInv
<1>3. h.address \notin Normals
  BY <1>2, AmxAssumption
<1>4. LeaveFunction(h.address, 0)
  BY DEF ReturnToHook
<1>5. \A i \in h.entry + 1 .. Len(callStack) : callStack[i].fn # h.address
  <2>1. SUFFICES ASSUME NEW i \in h.entry + 1 .. Len(callStack)
                 PROVE  callStack[i].fn \in Normals
    BY <1>3
  <2>2. i \in 1 .. Len(callStack)
    BY <1>1, <1>2
  <2>3. \A k \in 1 .. Len(hooks) :
            hooks[k].address # NoAddress => hooks[k].entry # i
    <3>1. ASSUME NEW k \in 1 .. Len(hooks), hooks[k].address # NoAddress,
                 hooks[k].entry = i
          PROVE  FALSE
      <4>1. CASE k = Len(hooks)
        BY <1>1, <1>2, <3>1, <4>1
      <4>2. CASE k < Len(hooks)
        <5>1. Len(hooks) \in 1 .. Len(hooks)
          BY <1>1
        <5>2. hooks[k].entry < h.entry
          BY <1>1, <3>1, <4>2, <5>1 DEF EntriesInv, HookInv
        <5>3. hooks[k].entry \in Nat /\ h.entry \in Nat /\ i > h.entry
          BY <1>1, <1>2, <2>2, <3>1
        <5>4. QED
          BY <3>1, <5>2, <5>3
      <4>3. Len(hooks) \in Nat
        BY <1>1
      <4>4. k = Len(hooks) \/ k < Len(hooks)
        BY <4>3
      <4>5. QED
        BY <4>1, <4>2, <4>4
    <3>2. QED
      BY <3>1
  <2>4. QED
    BY <1>1, <2>2, <2>3 DEF EntriesInv, EntryInv
<1>6. GraphFollowsStack
  BY DEF EntriesInv
<1> HIDE DEF h
<1>7. PICK rest \in 0 .. Len(callStack) :
          /\ callStack # <<>> => rest < Len(callStack)
          /\ callStack' = SubSeq(callStack, 1, rest)
          /\ Len(callStack') = rest
          /\ \A i \in 1 .. rest : callStack'[i] = callStack[i]
          /\ rest > 0 => StopsPopping(rest + 1, h.address, 0)
          /\ \A i \in rest + 2 .. Len(callStack) : ~StopsPopping(i, h.address, 0)
  BY <1>4, <1>6, LeaveFunctionPops
<1>8. GraphFollowsStack'
  BY <1>4, <1>6, LeaveFunctionPops
<1>9. \A i : StopsPopping(i, h.address, 0) <=> callStack[i].fn = h.address
  BY DEF StopsPopping
<1>10. rest = h.entry - 1
  <2>1. ~(h.entry \in rest + 2 .. Len(callStack))
    BY <1>2, <1>7, <1>9
  <2>2. h.entry <= rest + 1
    BY <1>1, <1>2, <1>7, <2>1
  <2>3. callStack # <<>>
    BY <1>1, <1>2, EmptySeq
  <2>4. rest > 0 => ~(rest + 1 \in h.entry + 1 .. Len(callStack))
    BY <1>5, <1>7, <1>9
  <2>5. rest > 0 => rest + 1 <= h.entry
    BY <1>1, <1>2, <1>7, <2>3, <2>4
  <2>6. QED
    BY <1>1, <1>2, <1>7, <2>2, <2>5
<1>11. QED
  BY <1>7, <1>8, <1>10 DEF h

\* When a hook returns, the hooks left still hold their entries.
LEMMA ReturnToHookKeepsEntries ==
    ASSUME TypeOK, EntriesInv, hooks # <<>>, ReturnToHook,
           vm' = SubSeq(vm, 1, hooks[Len(hooks)].activation - 1)
    PROVE  FnTypeInv' /\ HookInv' /\ EntryInv' /\ GraphFollowsStack'
<1>1. /\ callStack \in Seq(FunctionCall) /\ hooks \in Seq(Hook)
      /\ vm \in Seq(Activation)
      /\ Len(callStack) \in Nat /\ DOMAIN callStack = 1 .. Len(callStack)
      /\ Len(hooks) \in Nat \ {0} /\ DOMAIN hooks = 1 .. Len(hooks)
      /\ Len(vm) \in Nat /\ DOMAIN vm = 1 .. Len(vm)
  BY LenProperties, EmptySeq DEF TypeOK, VmTypeOK
<1> DEFINE h == hooks[Len(hooks)]
           e == IF h.address = NoAddress THEN Len(callStack) + 1 ELSE h.entry
           a == h.activation
           m == Len(hooks) - 1
<1>2. e \in 1 .. Len(callStack) + 1 /\ a \in 1 .. Len(vm) /\ m \in Nat
  BY <1>1 DEF EntriesInv, HookInv
<1>0. \A k \in 1 .. Len(hooks) : k # Len(hooks) => k \in 1 .. m
  <2>1. Len(hooks) \in Nat
    BY <1>1
  <2>2. QED
    BY <2>1
<1>3. /\ Len(callStack') = e - 1
      /\ \A i \in 1 .. e - 1 : callStack'[i] = callStack[i]
      /\ GraphFollowsStack'
  <2>1. CASE h.address # NoAddress
    BY <2>1, ReturnToHookPopsOwnEntry
  <2>2. CASE h.address = NoAddress
    <3>1. UNCHANGED <<callStack, nodes, callees>>
      BY <2>2 DEF ReturnToHook, graphVars
    <3>2. GraphFollowsStack' /\ e - 1 = Len(callStack)
      BY <1>1, <2>2, <3>1 DEF EntriesInv, GraphFollowsStack
    <3>3. QED
      BY <3>1, <3>2
  <2>3. QED
    BY <2>1, <2>2
<1>4. callStack' \in Seq(FunctionCall) /\ hooks' = SubSeq(hooks, 1, m)
  BY ReturnToHookType DEF ReturnToHook
<1>5. vm' = SubSeq(vm, 1, a - 1)
  OBVIOUS
<1>6. /\ \A k \in 1 .. m :
            /\ hooks[k].activation \in 1 .. a - 1
            /\ vm[hooks[k].activation].kind # "call"
            /\ hooks[k].address # NoAddress =>
                  /\ hooks[k].entry \in 1 .. e - 1
                  /\ callStack[hooks[k].entry].fn = hooks[k].address
                  /\ callStack[hooks[k].entry].frame
                        = vm[hooks[k].activation].frm
                  /\ hooks[k].address \in Publics \cup Natives
      /\ \A k, l \in 1 .. m :
            k < l => /\ hooks[k].activation < hooks[l].activation
                     /\ NoAddress \notin {hooks[k].address, hooks[l].address}
                           => hooks[k].entry < hooks[l].entry
  <2>1. \A k \in 1 .. m : /\ k \in 1 .. Len(hooks) /\ k < Len(hooks)
                          /\ Len(hooks) \in 1 .. Len(hooks)
    BY <1>1
  <2>2. \A k \in 1 .. m : /\ hooks[k].activation \in 1 .. Len(vm)
                          /\ hooks[k].address # NoAddress =>
                                hooks[k].entry \in 1 .. Len(callStack)
    BY <1>1, <2>1 DEF EntriesInv, HookInv
  <2>3. \A k \in 1 .. m : /\ hooks[k].activation < a
                          /\ hooks[k].address # NoAddress =>
                                hooks[k].entry < e
    <3> TAKE k \in 1 .. m
    <3>1. hooks[k].activation < a
      BY <1>1, <2>1 DEF EntriesInv, HookInv
    <3>2. ASSUME hooks[k].address # NoAddress, h.address # NoAddress
          PROVE  hooks[k].entry < h.entry
      BY <1>1, <2>1, <3>2 DEF EntriesInv, HookInv
    <3>3. ASSUME hooks[k].address # NoAddress, h.address = NoAddress
          PROVE  hooks[k].entry < e
      BY <1>1, <2>2, <3>3
    <3>4. QED
      BY <3>1, <3>2, <3>3
  <2>4. \A k \in 1 .. m : /\ hooks[k].activation \in 1 .. a - 1
                          /\ hooks[k].address # NoAddress =>
                                hooks[k].entry \in 1 .. e - 1
    <3> HIDE DEF h, e, a, m
    <3>1. QED
      BY <1>1, <1>2, <2>2, <2>3
  <2>5. QED
    BY <1>1, <2>1, <2>4 DEF EntriesInv, HookInv
<1>7. \A i \in 1 .. a - 1 :
          vm[i].kind # "call" => \E k \in 1 .. m : hooks[k].activation = i
  <2>1. SUFFICES ASSUME NEW i \in 1 .. a - 1, vm[i].kind # "call"
                 PROVE  \E k \in 1 .. m : hooks[k].activation = i
    OBVIOUS
  <2>2. i \in 1 .. Len(vm)
    BY <1>1, <1>2
  <2>3. PICK k \in 1 .. Len(hooks) : hooks[k].activation = i
    BY <1>1, <2>1, <2>2 DEF EntriesInv, HookInv
  <2>4. k # Len(hooks)
    BY <1>2, <2>3
  <2>5. k \in 1 .. m
    BY <1>0, <2>3, <2>4
  <2>6. QED
    BY <2>3, <2>5
<1>8. \A i \in 1 .. e - 1 :
          \/ callStack[i].fn \in Normals
          \/ \E k \in 1 .. m :
                hooks[k].address # NoAddress /\ hooks[k].entry = i
  <2>1. SUFFICES ASSUME NEW i \in 1 .. e - 1, callStack[i].fn \notin Normals
                 PROVE  \E k \in 1 .. m :
                           hooks[k].address # NoAddress /\ hooks[k].entry = i
    OBVIOUS
  <2>2. i \in 1 .. Len(callStack)
    BY <1>1, <1>2
  <2>3. PICK k \in 1 .. Len(hooks) :
            hooks[k].address # NoAddress /\ hooks[k].entry = i
    BY <1>1, <2>1, <2>2 DEF EntriesInv, EntryInv
  <2>4. k # Len(hooks)
    BY <1>2, <2>3
  <2>5. k \in 1 .. m
    BY <1>0, <2>3, <2>4
  <2>6. QED
    BY <2>3, <2>5
<1>10. FnTypeInv'
  BY DEF ReturnToHook, statVars, EntriesInv, FnTypeInv
<1> HIDE DEF h, e, a, m
<1>11. /\ Len(vm') = a - 1 /\ DOMAIN vm' = 1 .. a - 1
       /\ \A i \in 1 .. a - 1 : vm'[i] = vm[i]
  <2>1. a - 1 \in Int /\ a - 1 <= Len(vm) /\ a - 1 >= 0
    BY <1>1, <1>2
  <2>2. /\ vm' \in Seq(Activation) /\ Len(vm') = a - 1
        /\ \A i \in 1 .. a - 1 : vm'[i] = vm[i]
    BY <1>1, <1>5, <2>1, PrefixOfStack
  <2>3. QED
    BY <2>2, LenProperties
<1>12. /\ Len(hooks') = m /\ DOMAIN hooks' = 1 .. m
       /\ hooks' \in Seq(Hook)
       /\ \A k \in 1 .. m : hooks'[k] = hooks[k]
  <2>1. m \in Int /\ m <= Len(hooks) /\ m >= 0
    BY <1>1, <1>2 DEF m
  <2>2. /\ hooks' \in Seq(Hook) /\ Len(hooks') = m
        /\ \A k \in 1 .. m : hooks'[k] = hooks[k]
    BY <1>1, <1>4, <2>1, PrefixOfStack
  <2>3. QED
    BY <2>2, LenProperties
<1>13. DOMAIN callStack' = 1 .. e - 1
  BY <1>3, <1>4, LenProperties
<1>14. HookInv'
  <2>1. \A k \in 1 .. m :
            /\ hooks'[k].activation \in 1 .. a - 1
            /\ vm'[hooks'[k].activation].kind # "call"
            /\ hooks'[k].address # NoAddress =>
                  /\ hooks'[k].entry \in 1 .. e - 1
                  /\ callStack'[hooks'[k].entry].fn = hooks'[k].address
                  /\ callStack'[hooks'[k].entry].frame
                        = vm'[hooks'[k].activation].frm
                  /\ hooks'[k].address \in Publics \cup Natives
    <3> TAKE k \in 1 .. m
    <3>1. /\ hooks'[k] = hooks[k]
          /\ hooks[k].activation \in 1 .. a - 1
          /\ hooks[k].address # NoAddress => hooks[k].entry \in 1 .. e - 1
      BY <1>6, <1>12
    <3>2. /\ vm'[hooks[k].activation] = vm[hooks[k].activation]
          /\ hooks[k].address # NoAddress =>
                callStack'[hooks[k].entry] = callStack[hooks[k].entry]
      BY <1>3, <1>11, <3>1
    <3>3. /\ vm[hooks[k].activation].kind # "call"
          /\ hooks[k].address # NoAddress =>
                /\ callStack[hooks[k].entry].fn = hooks[k].address
                /\ callStack[hooks[k].entry].frame
                      = vm[hooks[k].activation].frm
                /\ hooks[k].address \in Publics \cup Natives
      BY <1>6
    <3>4. QED
      BY <3>1, <3>2, <3>3
  <2>2. \A k, l \in 1 .. m :
            k < l => /\ hooks'[k].activation < hooks'[l].activation
                     /\ NoAddress \notin {hooks'[k].address, hooks'[l].address}
                           => hooks'[k].entry < hooks'[l].entry
    BY <1>6, <1>12
  <2>3. \A i \in 1 .. a - 1 :
            vm'[i].kind # "call" => \E k \in 1 .. m : hooks'[k].activation = i
    BY <1>7, <1>11, <1>12
  <2>4. QED
    BY <1>11, <1>12, <1>13, <2>1, <2>2, <2>3 DEF HookInv
<1>15. EntryInv'
  <2>1. \A i \in 1 .. e - 1 :
            \/ callStack'[i].fn \in Normals
            \/ \E k \in 1 .. m :
                  hooks'[k].address # NoAddress /\ hooks'[k].entry = i
    BY <1>3, <1>8, <1>12
  <2>2. QED
    BY <1>12, <1>13, <2>1 DEF EntryInv
<1>16. QED
  BY <1>3, <1>10, <1>14, <1>15

\* The last hook waits for the innermost activation that is not an OP_CALL.
LEMMA LastHookIsInnermost ==
    ASSUME TypeOK, EntriesInv, NEW n \in DOMAIN vm, vm[n].kind # "call",
           \A m \in n + 1 .. Len(vm) : vm[m].kind = "call"
    PROVE  hooks # <<>> /\ hooks[Len(hooks)].activation = n
<1>1. /\ Len(vm) \in Nat /\ DOMAIN vm = 1 .. Len(vm)
      /\ Len(hooks) \in Nat /\ DOMAIN hooks = 1 .. Len(hooks)
      /\ hooks \in Seq(Hook)
  BY LenProperties DEF TypeOK, VmTypeOK
<1>2. PICK k \in DOMAIN hooks : hooks[k].activation = n
  BY DEF EntriesInv, HookInv
<1>3. hooks # <<>> /\ Len(hooks) \in DOMAIN hooks
  BY <1>1, <1>2, EmptySeq
<1>4. /\ hooks[Len(hooks)].activation \in 1 .. Len(vm)
      /\ vm[hooks[Len(hooks)].activation].kind # "call"
  BY <1>1, <1>3 DEF EntriesInv, HookInv
<1>5. CASE k = Len(hooks)
  BY <1>2, <1>3, <1>5
<1>6. CASE k < Len(hooks)
  <2>1. n < hooks[Len(hooks)].activation
    BY <1>2, <1>3, <1>6 DEF EntriesInv, HookInv
  <2>2. hooks[Len(hooks)].activation \in n + 1 .. Len(vm)
    BY <1>1, <1>4, <2>1
  <2>3. QED
    BY <1>4, <2>2
<1>7. k = Len(hooks) \/ k < Len(hooks)
  <2>1. Len(hooks) \in Nat /\ k \in 1 .. Len(hooks)
    BY <1>1
  <2>2. QED
    BY <2>1
<1>8. QED
  BY <1>5, <1>6, <1>7

\* A hook that returns is the one of the activation that ends.
LEMMA HookReturns ==
    ASSUME TypeOK, EntriesInv, EndNative \/ EndExec
    PROVE  \E n \in DOMAIN vm :
              /\ vm' = SubSeq(vm, 1, n - 1)
              /\ Len(vm') = n - 1 /\ DOMAIN vm' = 1 .. n - 1
              /\ \A i \in 1 .. n - 1 : vm'[i] = vm[i]
              /\ hooks # <<>> /\ hooks[Len(hooks)].activation = n
<1>1. VmTypeOK /\ MachineInv
  BY DEF TypeOK, EntriesInv
<1>2. QED
  BY <1>1, EndPops, LastHookIsInnermost

\* Hooks that wait while ordinary functions are called and return.
LEMMA HooksWaiting ==
    ASSUME TypeOK, EntriesInv, hooks' = hooks,
           \A k \in DOMAIN hooks :
               hooks[k].address # NoAddress =>
                  /\ hooks[k].entry \in DOMAIN callStack'
                  /\ callStack'[hooks[k].entry] = callStack[hooks[k].entry],
           \/ \E fn \in Callees, size \in FrameSizes : BeginCall(fn, size)
           \/ EndCall
           \/ Break
    PROVE  HookInv'
<1>1. VmTypeOK /\ MachineInv
  BY DEF TypeOK, EntriesInv
<1>2. SUFFICES
          /\ \A i \in DOMAIN vm :
                vm[i].kind # "call" => /\ i \in DOMAIN vm'
                                       /\ vm'[i].kind = vm[i].kind
                                       /\ vm'[i].frm = vm[i].frm
          /\ \A i \in DOMAIN vm' :
                vm'[i].kind # "call" => i \in DOMAIN vm /\ vm[i].kind # "call"
  BY DEF EntriesInv, HookInv
<1>3. Len(vm) \in Nat /\ DOMAIN vm = 1 .. Len(vm)
  BY <1>1, MachineStack
<1>4. ASSUME NEW fn \in Callees, NEW size \in FrameSizes, BeginCall(fn, size)
      PROVE  /\ \A i \in DOMAIN vm : i \in DOMAIN vm' /\ vm'[i] = vm[i]
             /\ \A i \in DOMAIN vm' : vm'[i].kind # "call" => i \in DOMAIN vm
  <2>1. /\ StackBase - size \in Nat /\ fn \in Functions
        /\ vm' = Started("call", fn, StackBase - size)
    BY <1>1, <1>4, AmxAssumption, NewFrameIsLowest DEF BeginCall, Room, Functions
  <2>2. /\ DOMAIN vm' = 1 .. Len(vm) + 1
        /\ \A i \in 1 .. Len(vm) : vm'[i] = vm[i]
        /\ vm'[Len(vm) + 1].kind = "call"
    BY <1>1, <2>1, StartedPushes
  <2>3. QED
    BY <1>3, <2>2
<1>5. ASSUME EndCall
      PROVE  /\ \A i \in DOMAIN vm :
                   vm[i].kind # "call" => /\ i \in DOMAIN vm'
                                          /\ vm'[i].kind = vm[i].kind
                                          /\ vm'[i].frm = vm[i].frm
             /\ \A i \in DOMAIN vm' :
                   i \in DOMAIN vm /\ vm'[i].kind = vm[i].kind
  <2>1. /\ DOMAIN vm' = 1 .. Len(vm) - 1 /\ Running.kind = "call"
        /\ \A i \in 1 .. Len(vm) - 1 :
              vm'[i].kind = vm[i].kind /\ vm'[i].frm = vm[i].frm
    BY <1>1, <1>5, EndCallPops
  <2>2. \A i \in DOMAIN vm : i = Len(vm) \/ i \in 1 .. Len(vm) - 1
    BY <1>3
  <2>3. \A i \in 1 .. Len(vm) - 1 : i \in DOMAIN vm
    BY <1>3
  <2>4. QED
    BY <2>1, <2>2, <2>3 DEF Running
<1>6. ASSUME Break
      PROVE  /\ DOMAIN vm' = DOMAIN vm
             /\ \A i \in DOMAIN vm : /\ vm'[i].kind = vm[i].kind
                                     /\ vm'[i].frm = vm[i].frm
  BY <1>1, <1>6, BreakKeepsActivations
<1>7. QED
  BY <1>4, <1>5, <1>6

-----------------------------------------------------------------------------
\* Every step keeps EntriesInv, also when some hooks entered nothing.
LEMMA StepKeepsEntriesInv ==
    ASSUME Callees \subseteq Normals, TypeOK, EntriesInv, [Next]_vars
    PROVE  EntriesInv'
<1>1. VmTypeOK /\ MachineInv
  BY DEF TypeOK, EntriesInv
<1>2. MachineInv'
  BY <1>1, StepKeepsTypes
<1>3. SUFFICES FnTypeInv' /\ HookInv' /\ EntryInv' /\ GraphFollowsStack'
  BY <1>2 DEF EntriesInv
<1>4. ASSUME NEW fn \in Publics, NEW size \in FrameSizes, Exec(fn, size)
      PROVE  FnTypeInv' /\ HookInv' /\ EntryInv' /\ GraphFollowsStack'
  <2>1. /\ StackBase - size \in Nat /\ fn \in Functions
        /\ vm' = Started("exec", fn, StackBase - size)
        /\ EnterHook(fn, "PUBLIC", StackBase - size)
    BY <1>1, <1>4, NewFrameIsLowest DEF Exec, BeginExec, Room, Functions
  <2>2. QED
    BY <2>1, EnterHookKeepsEntries
<1>5. ASSUME NEW fn \in Natives, NativeCall(fn)
      PROVE  FnTypeInv' /\ HookInv' /\ EntryInv' /\ GraphFollowsStack'
  <2>1. /\ vm # <<>> /\ fn \in Functions
        /\ vm' = Started("native", fn, Running.frm)
        /\ EnterHook(fn, "NATIVE", Running.frm)
    BY <1>5 DEF NativeCall, BeginNative, InScript, Functions
  <2>2. Running.frm \in Nat
    BY <1>1, <2>1, RunningFrameIsLowest
  <2>3. QED
    BY <2>1, <2>2, EnterHookKeepsEntries
<1>6. ASSUME NEW fn \in Callees, NEW size \in FrameSizes, Call(fn, size)
      PROVE  FnTypeInv' /\ HookInv' /\ EntryInv' /\ GraphFollowsStack'
  <2> DEFINE a == [kind |-> "call", fn |-> fn, frm |-> StackBase - size]
  <2>1. /\ StackBase - size \in Nat \ {0}
        /\ \A i \in DOMAIN vm : vm[i].frm >= StackBase - size
        /\ vm # <<>> /\ BeginCall(fn, size) /\ DebugHook(a)
    BY <1>1, <1>6, NewFrameIsLowest DEF Call, BeginCall, InScript, Room
  <2>2. a.kind = "call" /\ a.frm = StackBase - size /\ GetCalleeAddress(a) = fn
    BY DEF GetCalleeAddress
  <2> HIDE DEF a
  <2>3. /\ hooks' = hooks
        /\ \A k \in DOMAIN hooks :
              hooks[k].address # NoAddress =>
                 /\ hooks[k].entry \in DOMAIN callStack'
                 /\ callStack'[hooks[k].entry] = callStack[hooks[k].entry]
        /\ FnTypeInv' /\ EntryInv' /\ GraphFollowsStack'
    BY <2>1, <2>2, DebugHookKeepsEntries
  <2>4. HookInv'
    BY <2>1, <2>3, HooksWaiting
  <2>5. QED
    BY <2>3, <2>4
<1>7. CASE Return
  <2>1. EndCall /\ UNCHANGED <<callStack, hooks, fnType, nodes, callees>>
    BY <1>7 DEF Return, statVars, graphVars
  <2>2. FnTypeInv' /\ EntryInv' /\ GraphFollowsStack'
    BY <2>1 DEF EntriesInv, FnTypeInv, EntryInv, GraphFollowsStack
  <2>3. \A k \in DOMAIN hooks :
            hooks[k].address # NoAddress => hooks[k].entry \in DOMAIN callStack
    BY DEF EntriesInv, HookInv
  <2>4. HookInv'
    BY <2>1, <2>3, HooksWaiting
  <2>5. QED
    BY <2>2, <2>4
<1>8. CASE Statement
  <2>1. Break /\ DebugHook(Running) /\ vm # <<>> /\ Running.kind # "native"
    BY <1>8 DEF Statement, Break, InScript
  <2>2. /\ Running.frm \in Nat \ {0}
        /\ \A i \in DOMAIN vm : vm[i].frm >= Running.frm
        /\ Running \in Activation /\ Len(vm) \in DOMAIN vm
    BY <1>1, <2>1, RunningFrameIsLowest, MachineStack
  <2>3. /\ Running.kind \in {"exec", "call", "native"}
        /\ GetCalleeAddress(Running) \in Normals \cup {NoAddress}
    <3>1. Running.kind = "call" => Running.fn \in Callees
      BY <1>1, <2>2 DEF Running, MachineInv
    <3>2. QED
      BY <2>2, <3>1 DEF GetCalleeAddress, Activation
  <2>4. /\ hooks' = hooks
        /\ \A k \in DOMAIN hooks :
              hooks[k].address # NoAddress =>
                 /\ hooks[k].entry \in DOMAIN callStack'
                 /\ callStack'[hooks[k].entry] = callStack[hooks[k].entry]
        /\ FnTypeInv' /\ EntryInv' /\ GraphFollowsStack'
    BY <2>1, <2>2, <2>3, DebugHookKeepsEntries
  <2>5. HookInv'
    BY <2>1, <2>4, HooksWaiting
  <2>6. QED
    BY <2>4, <2>5
<1>9. CASE NativeReturn \/ ExecReturn
  <2>1. ReturnToHook /\ (EndNative \/ EndExec)
    BY <1>9 DEF NativeReturn, ExecReturn
  <2>2. QED
    BY <2>1, HookReturns, ReturnToHookKeepsEntries
<1>10. CASE UNCHANGED vars
  BY <1>10
  DEF vars, EntriesInv, FnTypeInv, HookInv, EntryInv, GraphFollowsStack
<1>11. QED
  BY <1>4, <1>5, <1>6, <1>7, <1>8, <1>9, <1>10 DEF Next

\* What a hook's head does to the hooks.
LEMMA EnterHookAppends ==
    ASSUME TypeOK, NEW fn \in Functions, NEW type, NEW frame,
           EnterHook(fn, type, frame)
    PROVE  /\ DOMAIN hooks' = 1 .. Len(hooks) + 1
           /\ \A k \in 1 .. Len(hooks) : hooks'[k] = hooks[k]
           /\ hooks'[Len(hooks) + 1].address = fn
           /\ hooks'[Len(hooks) + 1].entry = Len(callStack) + 1
           /\ hooks'[Len(hooks) + 1].activation = Len(vm) + 1
           /\ Len(hooks) \in Nat /\ DOMAIN hooks = 1 .. Len(hooks)
<1> DEFINE hook == [address    |-> fn,
                    entry      |-> Len(callStack) + 1,
                    activation |-> Len(vm) + 1]
<1>1. /\ hooks \in Seq(Hook)
      /\ Len(hooks) \in Nat /\ DOMAIN hooks = 1 .. Len(hooks)
      /\ Len(callStack) \in Nat /\ Len(vm) \in Nat
  BY LenProperties DEF TypeOK, VmTypeOK
<1>2. hook \in Hook /\ hooks' = Append(hooks, hook)
  BY <1>1 DEF Hook, EnterHook
<1>3. /\ hook.address = fn /\ hook.entry = Len(callStack) + 1
      /\ hook.activation = Len(vm) + 1
  OBVIOUS
<1> HIDE DEF hook
<1>4. /\ hooks' \in Seq(Hook) /\ Len(hooks') = Len(hooks) + 1
      /\ \A k \in 1 .. Len(hooks) : hooks'[k] = hooks[k]
      /\ hooks'[Len(hooks) + 1] = hook
  BY <1>1, <1>2, PushOnStack
<1>5. DOMAIN hooks' = 1 .. Len(hooks) + 1
  BY <1>4, LenProperties
<1>6. QED
  BY <1>1, <1>3, <1>4, <1>5

\* A step of the profiler pushes a hook, keeps the hooks, or pops one.
LEMMA StepOnHooks ==
    ASSUME [Next]_vars
    PROVE  \/ \E fn \in Functions, type \in {"PUBLIC", "NATIVE"} :
                 \E frame : EnterHook(fn, type, frame)
           \/ vm # <<>> /\ hooks' = hooks
           \/ vm # <<>> /\ ReturnToHook
           \/ hooks' = hooks /\ callStack' = callStack
<1>1. CASE \E fn \in Publics, size \in FrameSizes : Exec(fn, size)
  BY <1>1 DEF Exec, Functions
<1>2. CASE \E fn \in Callees, size \in FrameSizes : Call(fn, size)
  BY <1>2 DEF Call, BeginCall, InScript, DebugHook
<1>3. CASE Return
  BY <1>3 DEF Return, EndCall, InScript
<1>4. CASE Statement
  BY <1>4 DEF Statement, Break, InScript, DebugHook
<1>5. CASE \E fn \in Natives : NativeCall(fn)
  BY <1>5 DEF NativeCall, Functions
<1>6. CASE NativeReturn \/ ExecReturn
  BY <1>6 DEF NativeReturn, EndNative, ExecReturn, EndExec, InScript
<1>7. CASE UNCHANGED vars
  BY <1>7 DEF vars
<1>8. QED
  BY <1>1, <1>2, <1>3, <1>4, <1>5, <1>6, <1>7 DEF Next

\* The first entry stays the first hook's.
LEMMA StepKeepsBottomInv ==
    ASSUME TypeOK, StackInv, [Next]_vars
    PROVE  BottomInv'
<1>1. /\ hooks \in Seq(Hook)
      /\ Len(hooks) \in Nat /\ DOMAIN hooks = 1 .. Len(hooks)
      /\ callStack \in Seq(FunctionCall)
      /\ Len(callStack) \in Nat /\ DOMAIN callStack = 1 .. Len(callStack)
  BY LenProperties DEF TypeOK
<1>2. /\ \A k \in 1 .. Len(hooks) : hooks[k].address # NoAddress
      /\ callStack # <<>> => hooks # <<>> /\ hooks[1].entry = 1
  BY <1>1 DEF StackInv, BottomInv
<1>3. ASSUME NEW fn \in Functions, NEW type \in {"PUBLIC", "NATIVE"}, NEW frame,
             EnterHook(fn, type, frame)
      PROVE  BottomInv'
  <2>1. /\ DOMAIN hooks' = 1 .. Len(hooks) + 1
        /\ \A k \in 1 .. Len(hooks) : hooks'[k] = hooks[k]
        /\ hooks'[Len(hooks) + 1].address = fn
        /\ hooks'[Len(hooks) + 1].entry = Len(callStack) + 1
    BY <1>3, EnterHookAppends
  <2>2. \A k \in 1 .. Len(hooks) + 1 : hooks'[k].address # NoAddress
    BY <1>1, <1>2, <2>1, AmxAssumption
  <2>3. hooks' # <<>>
    BY <1>1, <2>1
  <2>4. hooks'[1].entry = 1
    <3>1. CASE hooks = <<>>
      <4>1. Len(callStack) = 0 /\ Len(hooks) = 0
        BY <1>2, <3>1, EmptySeq
      <4>2. QED
        BY <2>1, <4>1
    <3>2. CASE hooks # <<>>
      <4>1. 1 \in 1 .. Len(hooks)
        BY <1>1, <3>2, EmptySeq
      <4>2. hooks[1].entry \in DOMAIN callStack
        BY <1>1, <1>2, <4>1 DEF StackInv, EntriesInv, HookInv
      <4>3. callStack # <<>>
        BY <1>1, <4>2, EmptySeq
      <4>4. QED
        BY <1>2, <2>1, <4>1, <4>3
    <3>3. QED
      BY <3>1, <3>2
  <2>5. QED
    BY <2>1, <2>2, <2>3, <2>4 DEF BottomInv
<1>4. CASE vm # <<>> /\ hooks' = hooks
  BY <1>1, <1>2, <1>4, RunningIsOnStack DEF BottomInv
<1>5. CASE vm # <<>> /\ ReturnToHook
  <2> DEFINE h == hooks[Len(hooks)]
             m == Len(hooks) - 1
  <2>1. hooks # <<>> /\ hooks[1].entry = 1
    BY <1>5, RunningIsOnStack
  <2>2. /\ Len(hooks) \in 1 .. Len(hooks) /\ m \in Nat
        /\ m \in Int /\ m <= Len(hooks) /\ m >= 0
    BY <1>1, <2>1, EmptySeq
  <2>3. hooks' = SubSeq(hooks, 1, m)
    BY <1>5 DEF ReturnToHook
  <2>4. h.address # NoAddress
    BY <1>2, <2>2
  <2>5. Len(callStack') = h.entry - 1 /\ callStack' \in Seq(FunctionCall)
    BY <1>5, <2>1, <2>4, ReturnToHookPopsOwnEntry, ReturnToHookType DEF StackInv
  <2> HIDE DEF m
  <2>6. /\ hooks' \in Seq(Hook) /\ Len(hooks') = m
        /\ \A k \in 1 .. m : hooks'[k] = hooks[k]
    BY <1>1, <2>2, <2>3, PrefixOfStack
  <2>7. DOMAIN hooks' = 1 .. m
    BY <2>6, LenProperties
  <2>8. \A k \in 1 .. m : hooks'[k].address # NoAddress
    <3>1. \A k \in 1 .. m : k \in 1 .. Len(hooks)
      BY <1>1, <2>2
    <3>2. QED
      BY <1>2, <2>6, <3>1
  <2>9. ASSUME callStack' # <<>> PROVE hooks' # <<>> /\ hooks'[1].entry = 1
    <3>1. h.entry # 1
      BY <2>5, <2>9, EmptySeq
    <3>2. Len(hooks) # 1
      BY <2>1, <3>1
    <3>3. 1 \in 1 .. m
      BY <1>1, <2>2, <3>2 DEF m
    <3>4. QED
      BY <2>1, <2>6, <2>7, <3>3
  <2>10. QED
    BY <2>7, <2>8, <2>9 DEF BottomInv
<1>6. CASE hooks' = hooks /\ callStack' = callStack
  BY <1>1, <1>2, <1>6 DEF BottomInv
<1>7. QED
  BY <1>3, <1>4, <1>5, <1>6, StepOnHooks

\* Every step keeps StackInv.
LEMMA StepKeepsStackInv ==
    ASSUME Callees \subseteq Normals, TypeOK, TypeOK', StackInv, [Next]_vars
    PROVE  StackInv'
BY StepKeepsEntriesInv, StepKeepsBottomInv DEF StackInv

\* The hooks in progress hold their entries, the other entries are ordinary
\* functions above them, and the call graph's stack is the call stack.
THEOREM StackInvariant ==
    ASSUME Callees \subseteq Normals
    PROVE  Spec => []StackInv
<1>1. Init => StackInv
  <2>1. SUFFICES ASSUME Init PROVE StackInv
    OBVIOUS
  <2>2. /\ vm = <<>> /\ callStack = <<>> /\ hooks = <<>> /\ nodes = <<>>
        /\ fnType = [f \in Functions |-> "unknown"]
    BY <2>1 DEF Init, VmInit, GraphInit
  <2>3. /\ DOMAIN vm = {} /\ DOMAIN callStack = {}
        /\ DOMAIN hooks = {} /\ DOMAIN nodes = {}
    BY <2>2
  <2>4. FnTypeInv
    BY <2>2 DEF FnTypeInv, Functions
  <2>5. MachineInv /\ HookInv /\ EntryInv /\ GraphFollowsStack
    BY <2>2, <2>3 DEF MachineInv, HookInv, EntryInv, GraphFollowsStack
  <2>6. QED
    BY <2>2, <2>3, <2>4, <2>5 DEF StackInv, EntriesInv, BottomInv
<1>2. TypeOK /\ TypeOK' /\ StackInv /\ [Next]_vars => StackInv'
  BY StepKeepsStackInv
<1>3. QED
  BY <1>1, <1>2, TypeCorrect, PTL DEF Spec

\* Every hook that waits for its public or native finds its entry.
THEOREM HooksAlwaysKeepTheirEntries ==
    ASSUME Callees \subseteq Normals
    PROVE  Spec => []HooksKeepTheirEntries
<1>1. StackInv => HooksKeepTheirEntries
  BY DEF StackInv, EntriesInv, BottomInv, HookInv, HooksKeepTheirEntries
<1>2. QED
  BY <1>1, StackInvariant, PTL

\* The stack of the call graph never parts from the call stack.
THEOREM GraphAlwaysFollowsStack ==
    ASSUME Callees \subseteq Normals
    PROVE  Spec => []GraphFollowsStack
<1>1. StackInv => GraphFollowsStack
  BY DEF StackInv, EntriesInv
<1>2. QED
  BY <1>1, StackInvariant, PTL

\* No activation, no hook, hence no entry.
LEMMA IdleIsEmpty ==
    ASSUME TypeOK, StackInv
    PROVE  IdleEmpty
<1>1. SUFFICES ASSUME vm = <<>>
               PROVE  callStack = <<>> /\ nodes = <<>>
  BY DEF IdleEmpty
<1>2. DOMAIN vm = {}
  BY <1>1
<1>3. hooks = <<>>
  <2>1. DOMAIN hooks = {}
    BY <1>1, <1>2 DEF StackInv, EntriesInv, HookInv
  <2>2. hooks \in Seq(Hook) /\ DOMAIN hooks = 1 .. Len(hooks)
    BY <1>1, LenProperties DEF TypeOK
  <2>3. ~(Len(hooks) \in Nat \ {0})
    BY <2>1, <2>2
  <2>4. QED
    BY <2>2, <2>3, EmptySeq
<1>4. callStack = <<>>
  BY <1>1, <1>3 DEF StackInv, BottomInv
<1>5. nodes = <<>>
  <2>1. nodes \in Seq(Functions)
    BY <1>1 DEF TypeOK
  <2>2. Len(nodes) = 0 \/ nodes = <<>>
    BY <1>1, <1>4, EmptySeq DEF StackInv, EntriesInv, GraphFollowsStack
  <2>3. QED
    BY <2>1, <2>2, EmptySeq
<1>6. QED
  BY <1>4, <1>5

\* When the server's call has returned, nothing is left on the stacks.
THEOREM IdleAlwaysEmpty ==
    ASSUME Callees \subseteq Normals
    PROVE  Spec => []IdleEmpty
<1>1. TypeOK /\ StackInv => IdleEmpty
  BY IdleIsEmpty
<1>2. QED
  BY <1>1, TypeCorrect, StackInvariant, PTL

\* The hooks get fewer only when one returns.
LEMMA ShorterIsReturn ==
    ASSUME TypeOK, [Next]_vars, Len(hooks') < Len(hooks)
    PROVE  ReturnToHook /\ hooks # <<>>
<1>1. hooks \in Seq(Hook) /\ Len(hooks) \in Nat
  BY LenProperties DEF TypeOK
<1>2. hooks' # hooks
  BY <1>1
<1>3. ASSUME NEW fn, NEW type, NEW frame, EnterHook(fn, type, frame)
      PROVE  FALSE
  <2>1. ASSUME NEW hook, hooks' = Append(hooks, hook) PROVE FALSE
    <3>1. Len(hooks') = Len(hooks) + 1
      BY <1>1, <2>1
    <3>2. QED
      BY <1>1, <3>1
  <2>2. QED
    BY <1>3, <2>1 DEF EnterHook
<1>4. ReturnToHook
  BY <1>2, <1>3, StepOnHooks
<1>5. hooks' \in Seq(Hook) /\ Len(hooks') \in Nat
  BY <1>4, ReturnToHookType, LenProperties
<1>6. QED
  BY <1>1, <1>4, <1>5, EmptySeq

\* A hook that returns pops the entry it pushed and what is above it.
THEOREM ReturnAlwaysPopsOwnEntry ==
    ASSUME Callees \subseteq Normals
    PROVE  Spec => ReturnPopsOwnEntry
<1>1. TypeOK /\ StackInv /\ [Next]_vars =>
          [Len(hooks') < Len(hooks) =>
              callStack' = SubSeq(callStack, 1, hooks[Len(hooks)].entry - 1)]_vars
  <2>1. SUFFICES ASSUME TypeOK, StackInv, Next, Len(hooks') < Len(hooks)
                 PROVE  callStack' = SubSeq(callStack, 1, hooks[Len(hooks)].entry - 1)
    OBVIOUS
  <2>2. ReturnToHook /\ hooks # <<>>
    BY <2>1, ShorterIsReturn
  <2>3. Len(hooks) \in DOMAIN hooks
    BY <2>1, <2>2, LenProperties, EmptySeq DEF TypeOK
  <2>4. hooks[Len(hooks)].address # NoAddress
    BY <2>1, <2>3 DEF StackInv, BottomInv
  <2>5. QED
    BY <2>1, <2>2, <2>4, ReturnToHookPopsOwnEntry DEF StackInv
<1>2. QED
  BY <1>1, TypeCorrect, StackInvariant, PTL DEF Spec, ReturnPopsOwnEntry

-----------------------------------------------------------------------------
(***************************************************************************)
(* With OneCallPerStatement the call stack is the machine's stack, but for *)
(* functions that have returned, and the profile is the ideal one.         *)
(***************************************************************************)

\* The entries of functions that have returned: ordinary functions, whose
\* frames lie below the running one's, so that its next BREAK pops them all.
ReturnedInv ==
    \A i \in Len(vm) + 1 .. Len(callStack) :
        callStack[i].fn \in Normals /\ callStack[i].frame < Running.frm

\* DebugHook knows the type of every entry that it may find on top.
KnownInv == \A i \in DOMAIN callStack : fnType[callStack[i].fn] # "unknown"

\* A hook is entered when the two stacks are level, and waits at their levels.
LevelInv == \A k \in DOMAIN hooks : hooks[k].entry = hooks[k].activation

\* Only the running statement can have got a result, and a called function's
\* frame lies strictly below its caller's, who is no native.
StatementInv ==
    /\ \A i \in DOMAIN vm :
          vm[i].returned => i = Len(vm) /\ vm[i].kind # "native"
    /\ \A i \in 2 .. Len(vm) :
          vm[i].kind = "call" => /\ vm[i - 1].kind # "native"
                                 /\ vm[i].frm < vm[i - 1].frm

MatchInv ==
    /\ StackMatchesMachine
    /\ ReturnedInv
    /\ KnownInv
    /\ LevelInv
    /\ StatementInv

\* Before a call and after a BREAK the two stacks are level.
LEMMA StacksAreLevel ==
    ASSUME TypeOK, StackInv, MatchInv, vm # <<>> => ~Running.returned
    PROVE  Len(callStack) = Len(vm)
<1>1. Len(callStack) \in Nat /\ Len(vm) \in Nat
  BY LenProperties DEF TypeOK, VmTypeOK
<1>2. CASE vm = <<>>
  <2>1. callStack = <<>>
    BY <1>2, IdleIsEmpty DEF IdleEmpty
  <2>2. QED
    BY <1>2, <2>1, EmptySeq
<1>3. CASE vm # <<>>
  BY <1>1, <1>3 DEF MatchInv, StackMatchesMachine
<1>4. QED
  BY <1>2, <1>3

\* A function that starts while the stacks are level, and that the profiler
\* enters with its own frame, leaves them level.
LEMMA PushKeepsMatch ==
    ASSUME TypeOK, StackInv, MatchInv, vm # <<>> => ~Running.returned,
           NEW kind \in {"exec", "call", "native"}, NEW fn \in Functions,
           NEW frm \in Nat, vm' = Started(kind, fn, frm),
           kind = "call" => /\ vm # <<>> /\ Running.kind # "native"
                            /\ frm < Running.frm,
           NEW type \in {"NORMAL", "PUBLIC", "NATIVE"}, Register(fn, type),
           EnterFunction(fn, frm)
    PROVE  /\ StackMatchesMachine' /\ ReturnedInv' /\ KnownInv' /\ StatementInv'
           /\ Len(vm') = Len(vm) + 1
           /\ \A i \in 1 .. Len(vm) : vm'[i] = vm[i]
           /\ vm'[Len(vm) + 1].fn = fn
<1>1. /\ vm \in Seq(Activation) /\ callStack \in Seq(FunctionCall)
      /\ Len(callStack) \in Nat /\ DOMAIN callStack = 1 .. Len(callStack)
      /\ Len(vm) \in Nat /\ DOMAIN vm = 1 .. Len(vm)
  BY LenProperties DEF TypeOK, VmTypeOK
<1>2. Len(callStack) = Len(vm)
  BY StacksAreLevel
<1>3. VmTypeOK
  BY DEF TypeOK
<1>5. /\ Len(vm') = Len(vm) + 1
      /\ \A i \in 1 .. Len(vm) : vm'[i] = vm[i]
      /\ vm'[Len(vm) + 1].kind = kind /\ vm'[Len(vm) + 1].fn = fn
      /\ vm'[Len(vm) + 1].frm = frm /\ ~vm'[Len(vm) + 1].returned
  BY <1>3, StartedPushes
<1>6. DOMAIN vm' = 1 .. Len(vm) + 1
  BY <1>3, StartedPushes
<1>7. /\ Len(callStack') = Len(vm) + 1
      /\ \A i \in 1 .. Len(vm) : callStack'[i] = callStack[i]
      /\ callStack'[Len(vm) + 1] = [fn |-> fn, frame |-> frm]
  BY <1>2, EnterFunctionPushes DEF StackInv, EntriesInv
<1>8. callStack' \in Seq(FunctionCall) /\ DOMAIN callStack' = 1 .. Len(vm) + 1
  BY <1>7, EnterFunctionType, LenProperties
<1>9. StackMatchesMachine'
  <2>1. ASSUME NEW i \in 1 .. Len(vm) + 1
        PROVE  callStack'[i].fn = vm'[i].fn /\ callStack'[i].frame = vm'[i].frm
    <3>1. CASE i \in 1 .. Len(vm)
      BY <1>1, <1>5, <1>7, <3>1 DEF MatchInv, StackMatchesMachine
    <3>2. CASE i = Len(vm) + 1
      BY <1>5, <1>7, <3>2
    <3>3. QED
      BY <1>1, <3>1, <3>2
  <2>2. QED
    BY <1>1, <1>5, <1>6, <1>7, <2>1 DEF StackMatchesMachine
<1>10. ReturnedInv'
  BY <1>1, <1>5, <1>7 DEF ReturnedInv
<1>11. KnownInv'
  <2>1. ASSUME NEW i \in 1 .. Len(vm) + 1
        PROVE  fnType'[callStack'[i].fn] # "unknown"
    <3>1. CASE i \in 1 .. Len(vm)
      <4>1. callStack'[i] = callStack[i] /\ callStack[i] \in FunctionCall
        BY <1>1, <1>2, <1>7, <3>1, ElementOfSeq
      <4>2. fnType[callStack[i].fn] # "unknown"
        BY <1>1, <1>2, <3>1 DEF MatchInv, KnownInv
      <4>3. QED
        BY <4>1, <4>2 DEF Register, TypeOK, FunctionCall
    <3>2. CASE i = Len(vm) + 1
      BY <1>7, <3>2 DEF Register, TypeOK
    <3>3. QED
      BY <1>1, <3>1, <3>2
  <2>2. QED
    BY <1>8, <2>1 DEF KnownInv
<1>12. StatementInv'
  <2>1. ASSUME NEW i \in 1 .. Len(vm) + 1
        PROVE  ~vm'[i].returned
    <3>1. CASE i \in 1 .. Len(vm)
      <4>1. vm[i].returned => i = Len(vm)
        BY <1>1, <3>1 DEF MatchInv, StatementInv
      <4>2. vm # <<>>
        BY <1>1, <3>1, EmptySeq
      <4>3. QED
        BY <1>5, <3>1, <4>1, <4>2 DEF Running
    <3>2. CASE i = Len(vm) + 1
      BY <1>5, <3>2
    <3>3. QED
      BY <1>1, <3>1, <3>2
  <2>2. ASSUME NEW i \in 2 .. Len(vm) + 1, vm'[i].kind = "call"
        PROVE  vm'[i - 1].kind # "native" /\ vm'[i].frm < vm'[i - 1].frm
    <3>1. i - 1 \in 1 .. Len(vm) /\ vm'[i - 1] = vm[i - 1]
      BY <1>1, <1>5
    <3>2. CASE i \in 2 .. Len(vm)
      <4>1. vm'[i] = vm[i]
        BY <1>1, <1>5, <3>2
      <4>2. QED
        BY <2>2, <3>1, <3>2, <4>1 DEF MatchInv, StatementInv
    <3>3. CASE i = Len(vm) + 1
      <4>1. vm[i - 1] = Running
        BY <1>1, <3>3 DEF Running
      <4>2. QED
        BY <1>5, <2>2, <3>1, <3>3, <4>1
    <3>4. QED
      BY <1>1, <3>2, <3>3
  <2>3. QED
    BY <1>5, <1>6, <2>1, <2>2 DEF StatementInv
<1>13. QED
  BY <1>5, <1>9, <1>10, <1>11, <1>12

\* A function called by the script is entered: its frame is below the one on
\* top, which is its caller's.
LEMMA CallEnters ==
    ASSUME OneCallPerStatement, TypeOK, StackInv, MatchInv,
           NEW fn \in Callees, NEW size \in FrameSizes, Call(fn, size)
    PROVE  /\ Register(fn, "NORMAL")
           /\ EnterFunction(fn, StackBase - size)
           /\ hooks' = hooks
           /\ fn \in Functions /\ StackBase - size \in Nat
           /\ vm # <<>> /\ ~Running.returned /\ Running.kind # "native"
           /\ StackBase - size < Running.frm
           /\ vm' = Started("call", fn, StackBase - size)
<1>1. /\ vm # <<>> /\ Running.kind # "native" /\ Fresh
      /\ StackBase - size > 0
      /\ vm' = Started("call", fn, StackBase - size)
  BY DEF Call, BeginCall, InScript, Room
<1>2. ~Running.returned
  BY <1>1 DEF Fresh
<1>3. VmTypeOK /\ MachineInv
  BY DEF TypeOK, StackInv, EntriesInv
<1>4. Running \in Activation /\ Running.frm \in Nat /\ Len(vm) \in DOMAIN vm
  BY <1>1, <1>3, RunningFrameIsLowest, MachineStack
<1>5. size \in Nat \ {0}
  BY AmxAssumption
<1>6. StackBase = Running.frm
  BY <1>1 DEF StackBase
<1>7. /\ StackBase - size \in Nat /\ StackBase - size < Running.frm
  BY <1>1, <1>4, <1>5, <1>6
<1>8. PrevFrame = Running.frm
  <2>1. Len(callStack) = Len(vm)
    BY <1>2, StacksAreLevel
  <2>2. callStack # <<>>
    BY <1>1, RunningIsOnStack
  <2>3. callStack[Len(vm)].frame = vm[Len(vm)].frm
    BY <1>4 DEF MatchInv, StackMatchesMachine
  <2>4. QED
    BY <2>1, <2>2, <2>3 DEF PrevFrame, Top, Running
<1>9. fn \in Functions /\ fn # NoAddress
  BY AmxAssumption DEF Functions
<1> DEFINE a == [kind |-> "call", fn |-> fn, frm |-> StackBase - size]
<1>10. a.frm = StackBase - size /\ GetCalleeAddress(a) = fn
  BY DEF GetCalleeAddress
<1>11. DebugHook(a)
  BY DEF Call
<1> HIDE DEF a
<1>12. a.frm < PrevFrame /\ ~(a.frm > PrevFrame)
  BY <1>4, <1>7, <1>8, <1>10
<1>13. Register(fn, "NORMAL") /\ EnterFunction(fn, StackBase - size)
  BY <1>9, <1>10, <1>11, <1>12 DEF DebugHook
<1>14. hooks' = hooks
  BY <1>11 DEF DebugHook
<1>15. QED
  BY <1>1, <1>2, <1>7, <1>9, <1>13, <1>14

\* A BREAK pops the entries of the functions that have returned, and only those.
LEMMA BreakPopsReturned ==
    ASSUME TypeOK, StackInv, MatchInv, Statement
    PROVE  /\ Len(callStack') = Len(vm)
           /\ \A i \in 1 .. Len(vm) : callStack'[i] = callStack[i]
           /\ UNCHANGED <<hooks, fnType, numCalls, callees>>
<1>1. /\ callStack \in Seq(FunctionCall)
      /\ Len(callStack) \in Nat /\ DOMAIN callStack = 1 .. Len(callStack)
      /\ Len(vm) \in Nat /\ DOMAIN vm = 1 .. Len(vm)
  BY LenProperties DEF TypeOK, VmTypeOK
<1>2. DebugHook(Running) /\ vm # <<>>
  BY DEF Statement, Break, InScript
<1>3. VmTypeOK /\ MachineInv
  BY DEF TypeOK, StackInv, EntriesInv
<1>4. Running.frm \in Nat \ {0} /\ Len(vm) \in DOMAIN vm
  BY <1>2, <1>3, RunningFrameIsLowest, MachineStack
<1>5. /\ Len(vm) <= Len(callStack) /\ Len(vm) \in 1 .. Len(callStack)
      /\ callStack[Len(vm)].frame = Running.frm
  BY <1>1, <1>4 DEF MatchInv, StackMatchesMachine, Running
<1>6. callStack # <<>> /\ PrevFrame = callStack[Len(callStack)].frame
  BY <1>2, RunningIsOnStack DEF PrevFrame, Top
<1>7. \A i \in 1 .. Len(callStack) :
          callStack[i].fn # NoAddress /\ callStack[i].frame \in Nat
  <2>1. \A i \in 1 .. Len(callStack) : callStack[i] \in FunctionCall
    BY <1>1, ElementOfSeq
  <2>2. QED
    BY <2>1, AmxAssumption DEF FunctionCall
<1>8. hooks' = hooks
  BY <1>2 DEF DebugHook
<1>9. CASE Len(callStack) = Len(vm)
  <2>1. PrevFrame = Running.frm
    BY <1>5, <1>6, <1>9
  <2>2. ~(Running.frm < PrevFrame) /\ ~(Running.frm > PrevFrame)
    BY <1>4, <2>1
  <2>3. UNCHANGED <<callStack, statVars, graphVars>>
    BY <1>2, <2>2 DEF DebugHook
  <2>4. QED
    BY <1>8, <1>9, <2>3 DEF statVars, graphVars
<1>10. CASE Len(callStack) # Len(vm)
  <2>0. /\ Len(callStack) \in Nat /\ Len(vm) \in Nat \ {0}
        /\ Len(vm) < Len(callStack)
    <3>1. \A k, l \in Nat : k <= l /\ l # k => k < l
      OBVIOUS
    <3>2. Len(vm) \in Nat \ {0}
      BY <1>1, <1>2, EmptySeq DEF TypeOK, VmTypeOK
    <3>3. QED
      BY <1>1, <1>5, <1>10, <3>1, <3>2
  <2>1. Len(callStack) \in Len(vm) + 1 .. Len(callStack)
    BY <2>0
  <2>2. Top.fn \in Normals /\ PrevFrame < Running.frm
    BY <1>6, <2>1 DEF MatchInv, ReturnedInv, Top
  <2>3. fnType[Top.fn] = "NORMAL"
    <3>1. Len(callStack) \in DOMAIN callStack
      BY <1>1, <1>5
    <3>2. fnType[Top.fn] # "unknown"
      BY <3>1 DEF MatchInv, KnownInv, Top
    <3>3. QED
      BY <2>2, <3>2 DEF StackInv, EntriesInv, FnTypeInv
  <2>4. PrevFrame \in Nat
    BY <1>1, <1>5, <1>6, <1>7
  <2>5. ~(Running.frm < PrevFrame) /\ Running.frm > PrevFrame
    BY <1>4, <2>2, <2>4
  <2>6. LeaveFunction(NoAddress, Running.frm) /\ UNCHANGED statVars
    BY <1>2, <1>6, <2>3, <2>5 DEF DebugHook
  <2>7. GraphFollowsStack
    BY DEF StackInv, EntriesInv
  <2>8. PICK rest \in 0 .. Len(callStack) :
            /\ rest < Len(callStack)
            /\ Len(callStack') = rest
            /\ \A i \in 1 .. rest : callStack'[i] = callStack[i]
            /\ rest > 0 => StopsPopping(rest + 1, NoAddress, Running.frm)
            /\ \A i \in rest + 2 .. Len(callStack) :
                  ~StopsPopping(i, NoAddress, Running.frm)
    BY <1>6, <2>6, <2>7, LeaveFunctionPops
  <2>9. rest \in Nat
    BY <2>8
  <2>10. ~(rest > Len(vm))
    <3>1. SUFFICES ASSUME rest > Len(vm) PROVE FALSE
      OBVIOUS
    <3>2. /\ rest + 1 \in 1 .. Len(callStack) /\ (rest + 1) - 1 = rest
          /\ rest \in Len(vm) + 1 .. Len(callStack)
      BY <1>1, <2>8, <3>1
    <3>3. callStack[rest].frame < Running.frm /\ callStack[rest].frame \in Nat
      BY <1>1, <1>7, <2>8, <3>1, <3>2 DEF MatchInv, ReturnedInv
    <3>4. ~StopsPopping(rest + 1, NoAddress, Running.frm)
      BY <1>4, <1>7, <3>2, <3>3 DEF StopsPopping
    <3>5. QED
      BY <1>1, <2>8, <3>1, <3>4
  <2>11. ~(rest < Len(vm))
    <3>1. SUFFICES ASSUME rest < Len(vm) PROVE FALSE
      OBVIOUS
    <3>2. /\ Len(vm) + 1 \in rest + 2 .. Len(callStack)
          /\ (Len(vm) + 1) - 1 = Len(vm) /\ Len(vm) + 1 > 1
      BY <2>0, <2>9, <3>1
    <3>3. StopsPopping(Len(vm) + 1, NoAddress, Running.frm)
      BY <1>4, <1>5, <3>2 DEF StopsPopping
    <3>4. QED
      BY <2>8, <3>2, <3>3
  <2>12. rest = Len(vm)
    BY <2>0, <2>9, <2>10, <2>11
  <2>13. callees' = callees
    BY <2>6, LeaveFunctionType
  <2>14. QED
    BY <1>8, <2>6, <2>8, <2>12, <2>13 DEF statVars
<1>11. QED
  BY <1>9, <1>10

\* A called function's entry stays when it returns, below its caller's frame.
LEMMA ReturnKeepsMatch ==
    ASSUME Callees \subseteq Normals, TypeOK, StackInv, MatchInv, Return
    PROVE  MatchInv'
<1>1. UNCHANGED <<callStack, hooks, fnType>>
  BY DEF Return, statVars
<1>2. VmTypeOK /\ MachineInv /\ EndCall
  BY DEF TypeOK, Return, StackInv, EntriesInv
<1>3. /\ callStack \in Seq(FunctionCall) /\ Len(callStack) \in Nat
      /\ DOMAIN callStack = 1 .. Len(callStack)
      /\ vm \in Seq(Activation) /\ DOMAIN vm = 1 .. Len(vm)
  BY LenProperties DEF TypeOK, VmTypeOK
<1>4. /\ Len(vm) \in Nat /\ Len(vm) >= 2 /\ Running.kind = "call"
      /\ Len(vm') = Len(vm) - 1 /\ DOMAIN vm' = 1 .. Len(vm) - 1
      /\ \A i \in 1 .. Len(vm) - 1 :
            /\ vm'[i].kind = vm[i].kind
            /\ vm'[i].fn = vm[i].fn
            /\ vm'[i].frm = vm[i].frm
            /\ vm'[i].returned = (vm[i].returned \/ i = Len(vm) - 1)
  BY <1>2, EndCallPops
<1>5. Len(vm) - 1 \in 1 .. Len(vm) - 1 /\ Len(vm) \in 2 .. Len(vm)
  BY <1>4
<1>6. Running' = vm'[Len(vm) - 1]
  BY <1>4 DEF Running
<1>7. Running'.returned /\ Running'.frm = vm[Len(vm) - 1].frm
  BY <1>4, <1>5, <1>6
<1>8. Running.frm < Running'.frm /\ vm[Len(vm) - 1].kind # "native"
  BY <1>4, <1>5, <1>7 DEF MatchInv, StatementInv, Running
<1>0. /\ DOMAIN vm = 1 .. Len(vm) /\ Len(vm) \in Nat /\ Len(vm) >= 2
      /\ Len(callStack) \in Nat
  BY <1>3, <1>4
<1>9. StackMatchesMachine'
  <2>1. Len(vm) <= Len(callStack)
    BY DEF MatchInv, StackMatchesMachine
  <2>2. \A i \in 1 .. Len(vm) - 1 : i \in DOMAIN vm
    BY <1>0
  <2>3. \A i \in 1 .. Len(vm) - 1 :
            callStack[i].fn = vm'[i].fn /\ callStack[i].frame = vm'[i].frm
    BY <1>4, <2>2 DEF MatchInv, StackMatchesMachine
  <2>4. Len(vm) - 1 <= Len(callStack)
    BY <1>0, <2>1
  <2>5. QED
    BY <1>1, <1>4, <1>7, <2>3, <2>4 DEF StackMatchesMachine
<1>10. ReturnedInv'
  <2>1. ASSUME NEW i \in Len(vm) .. Len(callStack)
        PROVE  callStack[i].fn \in Normals /\ callStack[i].frame < Running'.frm
    <3>1. CASE i = Len(vm)
      <4>1. i \in DOMAIN vm
        BY <1>0, <3>1
      <4>2. callStack[i].fn = Running.fn /\ callStack[i].frame = Running.frm
        BY <3>1, <4>1 DEF MatchInv, StackMatchesMachine, Running
      <4>3. Running.fn \in Callees
        BY <1>2, <1>4, <3>1, <4>1 DEF MachineInv, Running
      <4>4. QED
        BY <1>8, <4>2, <4>3
    <3>2. CASE i # Len(vm)
      <4>1. i \in Len(vm) + 1 .. Len(callStack) /\ i \in 1 .. Len(callStack)
        <5>1. \A k, l \in Nat : \A j \in k .. l :
                  k >= 2 /\ j # k => j \in k + 1 .. l /\ j \in 1 .. l
          OBVIOUS
        <5>2. Len(vm) \in Nat /\ Len(callStack) \in Nat /\ Len(vm) >= 2
          BY <1>0
        <5>3. QED
          BY <3>2, <5>1, <5>2
      <4>2. callStack[i].fn \in Normals /\ callStack[i].frame < Running.frm
        BY <4>1 DEF MatchInv, ReturnedInv
      <4>3. callStack[i].frame \in Nat
        <5>1. callStack[i] \in FunctionCall
          BY <1>3, <4>1, ElementOfSeq
        <5>2. QED
          BY <5>1 DEF FunctionCall
      <4>4. Running.frm \in Nat /\ Running'.frm \in Nat
        <5>0. Len(vm) \in 1 .. Len(vm) /\ Len(vm) - 1 \in 1 .. Len(vm)
          BY <1>0
        <5>1. vm[Len(vm)] \in Activation /\ vm[Len(vm) - 1] \in Activation
          BY <1>3, <5>0, ElementOfSeq
        <5>2. QED
          BY <1>7, <5>1 DEF Running, Activation
      <4>5. QED
        BY <1>8, <4>2, <4>3, <4>4
    <3>3. QED
      BY <3>1, <3>2
  <2>2. (Len(vm) - 1) + 1 = Len(vm)
    BY <1>4
  <2>3. QED
    BY <1>1, <1>4, <2>1, <2>2 DEF ReturnedInv
<1>11. KnownInv' /\ LevelInv'
  BY <1>1 DEF MatchInv, KnownInv, LevelInv
<1>12. StatementInv'
  <2>1. ASSUME NEW i \in 1 .. Len(vm) - 1, vm'[i].returned
        PROVE  i = Len(vm) - 1 /\ vm'[i].kind # "native"
    <3>1. i \in DOMAIN vm /\ i # Len(vm)
      <4>1. \A k \in Nat : \A j \in 1 .. k - 1 : j \in 1 .. k /\ j # k
        OBVIOUS
      <4>2. QED
        BY <1>0, <4>1
    <3>2. ~vm[i].returned
      BY <3>1 DEF MatchInv, StatementInv
    <3>3. i = Len(vm) - 1
      BY <1>4, <2>1, <3>2
    <3>4. QED
      BY <1>4, <1>8, <3>3
  <2>2. ASSUME NEW i \in 2 .. Len(vm) - 1, vm'[i].kind = "call"
        PROVE  vm'[i - 1].kind # "native" /\ vm'[i].frm < vm'[i - 1].frm
    <3>1. /\ i \in 1 .. Len(vm) - 1 /\ i - 1 \in 1 .. Len(vm) - 1
          /\ i \in 2 .. Len(vm)
      BY <1>4
    <3>2. vm[i - 1].kind # "native" /\ vm[i].frm < vm[i - 1].frm
      BY <1>4, <2>2, <3>1 DEF MatchInv, StatementInv
    <3>3. QED
      BY <1>4, <3>1, <3>2
  <2>3. QED
    BY <1>4, <2>1, <2>2 DEF StatementInv
<1>13. QED
  BY <1>9, <1>10, <1>11, <1>12 DEF MatchInv

\* A public or a native returns to the level of its hook.
LEMMA PopKeepsMatch ==
    ASSUME TypeOK, StackInv, MatchInv, NEW n \in DOMAIN vm,
           vm' = SubSeq(vm, 1, n - 1),
           hooks # <<>>, hooks[Len(hooks)].activation = n, ReturnToHook
    PROVE  MatchInv'
<1>1. /\ vm \in Seq(Activation) /\ Len(vm) \in Nat
      /\ DOMAIN vm = 1 .. Len(vm) /\ n \in 1 .. Len(vm)
      /\ hooks \in Seq(Hook) /\ Len(hooks) \in Nat \ {0}
      /\ DOMAIN hooks = 1 .. Len(hooks) /\ Len(hooks) \in DOMAIN hooks
      /\ callStack \in Seq(FunctionCall) /\ Len(callStack) \in Nat
      /\ DOMAIN callStack = 1 .. Len(callStack)
  BY LenProperties, EmptySeq DEF TypeOK, VmTypeOK
<1>0. Len(vm) \in Nat /\ n \in 1 .. Len(vm) /\ Len(callStack) \in Nat
  BY <1>1
<1>2. hooks[Len(hooks)].entry = n /\ hooks[Len(hooks)].address # NoAddress
  BY <1>1 DEF MatchInv, LevelInv, StackInv, BottomInv
<1>3. /\ Len(callStack') = n - 1
      /\ \A i \in 1 .. n - 1 : callStack'[i] = callStack[i]
  BY <1>2, ReturnToHookPopsOwnEntry DEF StackInv
<1>4. /\ n - 1 \in Nat /\ n - 1 \in Int /\ n - 1 <= Len(vm) /\ n - 1 >= 0
      /\ \A i \in 1 .. n - 1 : i \in 1 .. Len(vm) /\ i # Len(vm)
  BY <1>0
<1>5. /\ Len(vm') = n - 1 /\ vm' \in Seq(Activation)
      /\ \A i \in 1 .. n - 1 : vm'[i] = vm[i]
  BY <1>1, <1>4, PrefixOfStack
<1>6. callStack' \in Seq(FunctionCall) /\ hooks' \in Seq(Hook)
  BY ReturnToHookType
<1>7. DOMAIN vm' = 1 .. n - 1 /\ DOMAIN callStack' = 1 .. n - 1
  BY <1>3, <1>5, <1>6, LenProperties
<1>8. StackMatchesMachine'
  <2>1. \A i \in 1 .. n - 1 :
            callStack[i].fn = vm[i].fn /\ callStack[i].frame = vm[i].frm
    BY <1>1, <1>4 DEF MatchInv, StackMatchesMachine
  <2>2. QED
    <3>1. Len(vm') = Len(callStack') /\ Len(vm') \in Nat
      BY <1>3, <1>4, <1>5
    <3>2. \A i \in 1 .. n - 1 :
             callStack'[i].fn = vm'[i].fn /\ callStack'[i].frame = vm'[i].frm
      BY <1>3, <1>5, <2>1
    <3>3. Len(vm') <= Len(callStack') /\ ~(Len(vm') < Len(callStack'))
      <4>1. \A k \in Nat : k <= k /\ ~(k < k)
        OBVIOUS
      <4>2. QED
        BY <3>1, <4>1
    <3>4. QED
      BY <1>7, <3>2, <3>3 DEF StackMatchesMachine
<1>9. ReturnedInv'
  BY <1>3, <1>4, <1>5 DEF ReturnedInv
<1>10. KnownInv'
  <2>1. fnType' = fnType
    BY DEF ReturnToHook, statVars
  <2>2. \A i \in 1 .. n - 1 : i \in DOMAIN callStack
    <3>1. Len(vm) <= Len(callStack)
      BY DEF MatchInv, StackMatchesMachine
    <3>2. QED
      BY <1>0, <1>1, <3>1
  <2>3. QED
    BY <1>3, <1>7, <2>1, <2>2 DEF MatchInv, KnownInv
<1>11. LevelInv'
  <2>1. hooks' = SubSeq(hooks, 1, Len(hooks) - 1)
    BY DEF ReturnToHook
  <2>2. /\ Len(hooks) - 1 \in Int /\ Len(hooks) - 1 <= Len(hooks)
        /\ Len(hooks) - 1 >= 0
    BY <1>1
  <2>3. /\ Len(hooks') = Len(hooks) - 1
        /\ \A k \in 1 .. Len(hooks) - 1 : hooks'[k] = hooks[k]
    BY <1>1, <2>1, <2>2, PrefixOfStack
  <2>4. DOMAIN hooks' = 1 .. Len(hooks) - 1
    BY <1>6, <2>3, LenProperties
  <2>5. \A k \in 1 .. Len(hooks) - 1 : k \in DOMAIN hooks
    BY <1>1
  <2>6. QED
    BY <2>3, <2>4, <2>5 DEF MatchInv, LevelInv
<1>12. StatementInv'
  <2>1. \A i \in 1 .. n - 1 : ~vm[i].returned
    BY <1>1, <1>4 DEF MatchInv, StatementInv
  <2>2. \A i \in 2 .. n - 1 : /\ i \in 1 .. n - 1 /\ i - 1 \in 1 .. n - 1
                              /\ i \in 2 .. Len(vm)
    BY <1>0
  <2>3. ASSUME NEW i \in 2 .. n - 1, vm'[i].kind = "call"
        PROVE  vm'[i - 1].kind # "native" /\ vm'[i].frm < vm'[i - 1].frm
    <3>1. vm'[i] = vm[i] /\ vm'[i - 1] = vm[i - 1] /\ i \in 2 .. Len(vm)
      BY <1>5, <2>2
    <3>2. QED
      BY <2>3, <3>1 DEF MatchInv, StatementInv
  <2>4. QED
    BY <1>5, <1>7, <2>1, <2>3 DEF StatementInv
<1>13. QED
  BY <1>8, <1>9, <1>10, <1>11, <1>12 DEF MatchInv

\* After a BREAK the stacks are level.
LEMMA StatementKeepsMatch ==
    ASSUME TypeOK, StackInv, MatchInv, Statement
    PROVE  MatchInv'
<1>1. /\ Len(callStack') = Len(vm)
      /\ \A i \in 1 .. Len(vm) : callStack'[i] = callStack[i]
      /\ UNCHANGED <<hooks, fnType>>
  BY BreakPopsReturned
<1>2. Break /\ VmTypeOK
  BY DEF Statement, TypeOK
<1>3. /\ Len(vm) \in Nat \ {0} /\ DOMAIN vm = 1 .. Len(vm)
      /\ Len(vm') = Len(vm) /\ DOMAIN vm' = DOMAIN vm
      /\ \A i \in 1 .. Len(vm) :
            /\ vm'[i].kind = vm[i].kind
            /\ vm'[i].fn = vm[i].fn
            /\ vm'[i].frm = vm[i].frm
            /\ vm'[i].returned = (vm[i].returned /\ i # Len(vm))
  BY <1>2, BreakKeepsActivations
<1>0. Len(vm) \in Nat /\ DOMAIN vm = 1 .. Len(vm)
  BY <1>3
<1>4. callStack' \in Seq(FunctionCall)
  <2>1. DebugHook(Running) /\ vm # <<>>
    BY DEF Statement, Break, InScript
  <2>2. VmTypeOK /\ MachineInv
    BY DEF TypeOK, StackInv, EntriesInv
  <2>3. Running \in Activation
    BY <2>1, <2>2, MachineStack
  <2>4. QED
    BY <2>1, <2>3, DebugHookType DEF Activation
<1>5. DOMAIN callStack' = 1 .. Len(vm)
  BY <1>1, <1>4, LenProperties
<1>6. StackMatchesMachine'
  <2>1. \A i \in 1 .. Len(vm) :
            callStack[i].fn = vm[i].fn /\ callStack[i].frame = vm[i].frm
    BY <1>3 DEF MatchInv, StackMatchesMachine
  <2>2. QED
    BY <1>1, <1>3, <2>1 DEF StackMatchesMachine
<1>7. ReturnedInv'
  BY <1>1, <1>3 DEF ReturnedInv
<1>8. KnownInv'
  <2>1. \A i \in 1 .. Len(vm) : i \in DOMAIN callStack
    <3>1. Len(vm) <= Len(callStack)
      BY DEF MatchInv, StackMatchesMachine
    <3>2. Len(callStack) \in Nat /\ DOMAIN callStack = 1 .. Len(callStack)
      BY LenProperties DEF TypeOK
    <3>3. QED
      BY <1>0, <3>1, <3>2
  <2>2. QED
    BY <1>1, <1>5, <2>1 DEF MatchInv, KnownInv
<1>9. LevelInv'
  BY <1>1 DEF MatchInv, LevelInv
<1>10. StatementInv'
  <2>1. \A i \in 1 .. Len(vm) : ~vm'[i].returned
    BY <1>3 DEF MatchInv, StatementInv
  <2>2. \A i \in 2 .. Len(vm) : i \in 1 .. Len(vm) /\ i - 1 \in 1 .. Len(vm)
    BY <1>0
  <2>3. ASSUME NEW i \in 2 .. Len(vm), vm'[i].kind = "call"
        PROVE  vm'[i - 1].kind # "native" /\ vm'[i].frm < vm'[i - 1].frm
    <3>1. vm[i - 1].kind # "native" /\ vm[i].frm < vm[i - 1].frm
      BY <1>3, <2>2, <2>3 DEF MatchInv, StatementInv
    <3>2. QED
      BY <1>3, <2>2, <3>1
  <2>4. QED
    BY <1>3, <2>1, <2>3 DEF StatementInv
<1>11. QED
  BY <1>6, <1>7, <1>8, <1>9, <1>10 DEF MatchInv

\* A public or a native starts on a running statement without a result.
LEMMA HookKeepsMatch ==
    ASSUME TypeOK, StackInv, MatchInv, vm # <<>> => ~Running.returned,
           NEW kind \in {"exec", "native"}, NEW fn \in Functions,
           NEW frm \in Nat, vm' = Started(kind, fn, frm),
           NEW type \in {"PUBLIC", "NATIVE"}, EnterHook(fn, type, frm)
    PROVE  MatchInv'
<1>1. Register(fn, type) /\ EnterFunction(fn, frm)
  BY DEF EnterHook
<1>2. StackMatchesMachine' /\ ReturnedInv' /\ KnownInv' /\ StatementInv'
  BY <1>1, PushKeepsMatch
<1>3. Len(callStack) = Len(vm) /\ Len(vm) \in Nat
  BY StacksAreLevel, LenProperties DEF TypeOK, VmTypeOK
<1>4. LevelInv'
  <2>1. /\ Len(hooks') = Len(hooks) + 1
        /\ \A k \in 1 .. Len(hooks) : hooks'[k] = hooks[k]
        /\ hooks'[Len(hooks) + 1].entry = Len(callStack) + 1
        /\ hooks'[Len(hooks) + 1].activation = Len(vm) + 1
        /\ DOMAIN hooks' = 1 .. Len(hooks) + 1
    BY EnterHookAppends
  <2>2. Len(hooks) \in Nat /\ DOMAIN hooks = 1 .. Len(hooks)
    BY LenProperties DEF TypeOK
  <2>3. \A k \in 1 .. Len(hooks) + 1 : k \in 1 .. Len(hooks) \/ k = Len(hooks) + 1
    BY <2>2
  <2>4. QED
    BY <1>3, <2>1, <2>2, <2>3 DEF MatchInv, LevelInv
<1>5. QED
  BY <1>2, <1>4 DEF MatchInv

\* Every step keeps the stacks matched.
LEMMA StepKeepsMatch ==
    ASSUME OneCallPerStatement, Callees \subseteq Normals,
           TypeOK, StackInv, MatchInv, [Next]_vars
    PROVE  MatchInv'
<1>1. VmTypeOK /\ MachineInv /\ EntriesInv
  BY DEF TypeOK, StackInv, EntriesInv
<1>2. ASSUME NEW fn \in Publics, NEW size \in FrameSizes, Exec(fn, size)
      PROVE  MatchInv'
  <2>1. /\ vm # <<>> => Running.kind = "native"
        /\ StackBase - size > 0
        /\ vm' = Started("exec", fn, StackBase - size)
        /\ EnterHook(fn, "PUBLIC", StackBase - size)
        /\ fn \in Functions
    BY <1>2 DEF Exec, BeginExec, Room, Functions
  <2>2. StackBase - size \in Nat
    BY <1>1, <2>1, NewFrameIsLowest
  <2>3. vm # <<>> => ~Running.returned
    <3>1. vm # <<>> => Len(vm) \in DOMAIN vm
      BY <1>1, MachineStack
    <3>2. QED
      BY <2>1, <3>1 DEF MatchInv, StatementInv, Running
  <2>4. QED
    BY <2>1, <2>2, <2>3, HookKeepsMatch
<1>3. ASSUME NEW fn \in Natives, NativeCall(fn)
      PROVE  MatchInv'
  <2>1. /\ vm # <<>> /\ ~Running.returned
        /\ vm' = Started("native", fn, Running.frm)
        /\ EnterHook(fn, "NATIVE", Running.frm)
        /\ fn \in Functions
    BY <1>3 DEF NativeCall, BeginNative, InScript, Fresh, Functions
  <2>2. Running.frm \in Nat
    BY <1>1, <2>1, RunningFrameIsLowest
  <2>3. QED
    BY <2>1, <2>2, HookKeepsMatch
<1>4. ASSUME NEW fn \in Callees, NEW size \in FrameSizes, Call(fn, size)
      PROVE  MatchInv'
  <2> DEFINE frm == StackBase - size
  <2>1. /\ Register(fn, "NORMAL") /\ EnterFunction(fn, frm)
        /\ hooks' = hooks
        /\ fn \in Functions /\ frm \in Nat
        /\ vm # <<>> /\ ~Running.returned /\ Running.kind # "native"
        /\ frm < Running.frm
        /\ vm' = Started("call", fn, frm)
    BY <1>4, CallEnters
  <2> HIDE DEF frm
  <2>2. StackMatchesMachine' /\ ReturnedInv' /\ KnownInv' /\ StatementInv'
    BY <2>1, PushKeepsMatch
  <2>3. LevelInv'
    BY <2>1 DEF MatchInv, LevelInv
  <2>4. QED
    BY <2>2, <2>3 DEF MatchInv
<1>5. CASE Return
  BY <1>5, ReturnKeepsMatch
<1>6. CASE Statement
  BY <1>6, StatementKeepsMatch
<1>7. CASE NativeReturn \/ ExecReturn
  <2>1. ReturnToHook /\ (EndNative \/ EndExec)
    BY <1>7 DEF NativeReturn, ExecReturn
  <2>2. QED
    BY <1>1, <2>1, HookReturns, PopKeepsMatch
<1>8. CASE UNCHANGED vars
  BY <1>8 DEF vars, MatchInv, StackMatchesMachine, ReturnedInv, KnownInv,
              LevelInv, StatementInv, Running
<1>9. QED
  BY <1>2, <1>3, <1>4, <1>5, <1>6, <1>7, <1>8 DEF Next

\* The invariant behind the two results below.
THEOREM MatchInvariant ==
    ASSUME OneCallPerStatement, Callees \subseteq Normals
    PROVE  Spec => []MatchInv
<1>1. Init => MatchInv
  <2>1. SUFFICES ASSUME Init PROVE MatchInv
    OBVIOUS
  <2>2. vm = <<>> /\ callStack = <<>> /\ hooks = <<>>
    BY <2>1 DEF Init, VmInit
  <2>3. Len(vm) = 0 /\ Len(callStack) = 0 /\ DOMAIN vm = {}
    BY <2>2, EmptySeq
  <2>4. DOMAIN callStack = {} /\ DOMAIN hooks = {}
    BY <2>2, EmptySeq
  <2>5. QED
    BY <2>3, <2>4 DEF MatchInv, StackMatchesMachine, ReturnedInv, KnownInv,
                      LevelInv, StatementInv
<1>2. TypeOK /\ StackInv /\ MatchInv /\ [Next]_vars => MatchInv'
  BY StepKeepsMatch
<1>3. QED
  BY <1>1, <1>2, TypeCorrect, StackInvariant, PTL DEF Spec

\* The profiler's stack is the machine's stack, but for functions that have
\* returned to the running statement: with one call per statement, comparing
\* frames at every BREAK recovers the real call stack, however functions,
\* natives and publics nest and whatever the sizes of their frames.
THEOREM StacksAlwaysMatch ==
    ASSUME OneCallPerStatement, Callees \subseteq Normals
    PROVE  Spec => []StackMatchesMachine
<1>1. MatchInv => StackMatchesMachine
  BY DEF MatchInv
<1>2. QED
  BY <1>1, MatchInvariant, PTL

-----------------------------------------------------------------------------
(***************************************************************************)
(* The refinement of IdealProfiler.                                        *)
(***************************************************************************)

\* The stack of IdealProfiler that a stack of activations stands for.
FunctionsOf(s) == [i \in DOMAIN s |-> s[i].fn]

LEMMA FunctionsOfStack ==
    ASSUME NEW s \in Seq(Activation)
    PROVE  /\ FunctionsOf(s) \in Seq(Functions)
           /\ Len(FunctionsOf(s)) = Len(s)
           /\ \A i \in 1 .. Len(s) : FunctionsOf(s)[i] = s[i].fn
<1>1. Len(s) \in Nat /\ DOMAIN s = 1 .. Len(s)
  BY LenProperties
<1>2. \A i \in 1 .. Len(s) : s[i].fn \in Functions
  <2>1. \A i \in 1 .. Len(s) : s[i] \in Activation
    BY ElementOfSeq
  <2>2. QED
    BY <2>1 DEF Activation
<1>3. /\ FunctionsOf(s) \in [1 .. Len(s) -> Functions]
      /\ \A i \in 1 .. Len(s) : FunctionsOf(s)[i] = s[i].fn
  BY <1>1, <1>2 DEF FunctionsOf
<1>4. QED
  BY <1>1, <1>3, FunctionIsStack

\* EnterFunction counts a call, and draws an edge from the function that really
\* runs, when the stacks are level.
LEMMA PushIsEnter ==
    ASSUME CountCalls, TypeOK, StackInv, MatchInv,
           vm # <<>> => ~Running.returned,
           NEW kind \in {"exec", "call", "native"}, NEW fn \in Functions,
           NEW frm \in Nat, vm' = Started(kind, fn, frm), EnterFunction(fn, frm)
    PROVE  Ideal!Enter(fn)
<1>1. /\ vm \in Seq(Activation) /\ Len(vm) \in Nat /\ DOMAIN vm = 1 .. Len(vm)
      /\ nodes \in Seq(Functions) /\ Len(nodes) \in Nat
      /\ DOMAIN nodes = 1 .. Len(nodes)
  BY LenProperties DEF TypeOK, VmTypeOK
<1>2. VmTypeOK
  BY DEF TypeOK
<1>3. /\ vm' \in Seq(Activation) /\ Len(vm') = Len(vm) + 1
      /\ \A i \in 1 .. Len(vm) : vm'[i] = vm[i]
      /\ vm'[Len(vm) + 1].fn = fn
  BY <1>2, StartedPushes DEF VmTypeOK
<1>4. /\ FunctionsOf(vm) \in Seq(Functions) /\ Len(FunctionsOf(vm)) = Len(vm)
      /\ \A i \in 1 .. Len(vm) : FunctionsOf(vm)[i] = vm[i].fn
  BY <1>1, FunctionsOfStack
<1>5. /\ FunctionsOf(vm') \in Seq(Functions)
      /\ Len(FunctionsOf(vm')) = Len(vm) + 1
      /\ \A i \in 1 .. Len(vm) + 1 : FunctionsOf(vm')[i] = vm'[i].fn
  BY <1>3, FunctionsOfStack
<1>6. FunctionsOf(vm') = Append(FunctionsOf(vm), fn)
  <2>1. /\ Append(FunctionsOf(vm), fn) \in Seq(Functions)
        /\ Len(Append(FunctionsOf(vm), fn)) = Len(vm) + 1
        /\ \A i \in 1 .. Len(vm) : Append(FunctionsOf(vm), fn)[i] = vm[i].fn
        /\ Append(FunctionsOf(vm), fn)[Len(vm) + 1] = fn
    BY <1>4, PushOnStack
  <2>2. ASSUME NEW i \in 1 .. Len(vm) + 1
        PROVE  FunctionsOf(vm')[i] = Append(FunctionsOf(vm), fn)[i]
    <3>1. i \in 1 .. Len(vm) \/ i = Len(vm) + 1
      BY <1>1
    <3>2. QED
      BY <1>3, <1>5, <2>1, <3>1
  <2>3. QED
    BY <1>5, <2>1, <2>2, SeqEqual
<1>7. numCalls' = [numCalls EXCEPT ![fn] = @ + 1]
  BY DEF EnterFunction, AdjustNumCalls
<1>8. CallGraphEnabled =>
          TopNode = IF FunctionsOf(vm) = <<>>
                    THEN Root ELSE FunctionsOf(vm)[Len(FunctionsOf(vm))]
  <2>1. SUFFICES ASSUME CallGraphEnabled
                 PROVE  TopNode = IF FunctionsOf(vm) = <<>> THEN Root
                                  ELSE FunctionsOf(vm)[Len(FunctionsOf(vm))]
    OBVIOUS
  <2>2. Len(callStack) = Len(vm)
    BY StacksAreLevel
  <2>3. /\ Len(nodes) = Len(vm)
        /\ \A i \in 1 .. Len(vm) : nodes[i] = callStack[i].fn
    BY <1>1, <2>1, <2>2 DEF StackInv, EntriesInv, GraphFollowsStack
  <2>4. CASE Len(vm) = 0
    BY <1>1, <1>4, <2>3, <2>4, EmptySeq DEF TopNode
  <2>5. CASE Len(vm) # 0
    <3>1. Len(vm) \in 1 .. Len(vm)
      BY <1>1, <2>5
    <3>2. nodes[Len(vm)] = vm[Len(vm)].fn
      BY <1>1, <2>3, <3>1 DEF MatchInv, StackMatchesMachine
    <3>3. nodes # <<>> /\ FunctionsOf(vm) # <<>>
      BY <1>1, <1>4, <2>3, <2>5, EmptySeq
    <3>4. QED
      BY <1>4, <2>3, <3>1, <3>2, <3>3 DEF TopNode
  <2>6. QED
    BY <2>4, <2>5
<1>9. callees' = IF CallGraphEnabled
                 THEN callees \cup {<<IF FunctionsOf(vm) = <<>> THEN Root
                                      ELSE FunctionsOf(vm)[Len(FunctionsOf(vm))],
                                      fn>>}
                 ELSE callees
  <2>1. CASE CallGraphEnabled
    BY <1>8, <2>1, Zenon DEF EnterFunction, PushCall
  <2>2. CASE ~CallGraphEnabled
    BY <2>2, Zenon DEF EnterFunction, PushCall
  <2>3. QED
    BY <2>1, <2>2
<1>10. QED
  BY <1>6, <1>7, <1>9, Zenon DEF Ideal!Enter, Ideal!Caller, FunctionsOf

\* A machine that goes back to some activation makes a Leave.
LEMMA PopIsLeave ==
    ASSUME vm \in Seq(Activation), vm' \in Seq(Activation),
           NEW n \in 0 .. Len(vm) - 1, Len(vm') = n,
           \A i \in 1 .. n : vm'[i].fn = vm[i].fn,
           UNCHANGED <<numCalls, callees>>
    PROVE  Ideal!Leave
<1>1. Len(vm) \in Nat
  BY LenProperties
<1>2. /\ n \in Int /\ n <= Len(vm) /\ n >= 0
      /\ \A i \in 1 .. n : i \in 1 .. Len(vm)
  BY <1>1
<1>3. /\ FunctionsOf(vm) \in Seq(Functions) /\ Len(FunctionsOf(vm)) = Len(vm)
      /\ \A i \in 1 .. Len(vm) : FunctionsOf(vm)[i] = vm[i].fn
      /\ FunctionsOf(vm') \in Seq(Functions) /\ Len(FunctionsOf(vm')) = n
      /\ \A i \in 1 .. n : FunctionsOf(vm')[i] = vm'[i].fn
  BY FunctionsOfStack
<1>4. FunctionsOf(vm') = SubSeq(FunctionsOf(vm), 1, n)
  <2>1. /\ SubSeq(FunctionsOf(vm), 1, n) \in Seq(Functions)
        /\ Len(SubSeq(FunctionsOf(vm), 1, n)) = n
        /\ \A i \in 1 .. n : SubSeq(FunctionsOf(vm), 1, n)[i] = FunctionsOf(vm)[i]
    BY <1>2, <1>3, PrefixOfStack
  <2>2. \A i \in 1 .. n : FunctionsOf(vm')[i] = SubSeq(FunctionsOf(vm), 1, n)[i]
    BY <1>2, <1>3, <2>1
  <2>3. QED
    BY <1>3, <2>1, <2>2, SeqEqual
<1>5. /\ n \in 0 .. Len(FunctionsOf(vm)) - 1
      /\ numCalls' = numCalls /\ callees' = callees
  BY <1>3
<1>6. QED
  BY <1>4, <1>5 DEF Ideal!Leave, FunctionsOf

\* The profile is the one a user expects, step by step: every function, native
\* and public is counted once when it is called, under the caller that really
\* called it, and neither a return nor a BREAK nor a run-time error changes a
\* count or an edge.  It needs every call counted (CountCalls) and one call per
\* statement; a second call in a statement at the same depth is missed.
THEOREM ImplementsIdealProfiler ==
    ASSUME CountCalls, OneCallPerStatement, Callees \subseteq Normals
    PROVE  Spec => IdealSpec
<1>1. Init => Ideal!Init
  <2>1. SUFFICES ASSUME Init PROVE Ideal!Init
    OBVIOUS
  <2>2. vm = <<>> /\ callees = {} /\ numCalls = [f \in Functions |-> 0]
    BY <2>1 DEF Init, VmInit, GraphInit
  <2>3. vm \in Seq(Activation) /\ Len(vm) = 0
    BY <2>2, EmptySeq
  <2>4. FunctionsOf(vm) = <<>>
    BY <2>3, FunctionsOfStack, EmptySeq
  <2>5. QED
    BY <2>2, <2>4 DEF Ideal!Init, FunctionsOf
<1>2. TypeOK /\ TypeOK' /\ StackInv /\ MatchInv /\ [Next]_vars
        => [Ideal!Next]_<<FunctionsOf(vm), numCalls, callees>>
  <2>1. SUFFICES ASSUME TypeOK, TypeOK', StackInv, MatchInv, [Next]_vars
                 PROVE  [Ideal!Next]_<<FunctionsOf(vm), numCalls, callees>>
    OBVIOUS
  <2>2. /\ VmTypeOK /\ MachineInv /\ EntriesInv
        /\ vm \in Seq(Activation) /\ vm' \in Seq(Activation)
        /\ Len(vm) \in Nat /\ DOMAIN vm = 1 .. Len(vm)
        /\ vm # <<>> => Len(vm) \in DOMAIN vm
    BY <2>1, MachineStack DEF StackInv, EntriesInv, TypeOK, VmTypeOK
  <2>3. ASSUME NEW fn \in Publics, NEW size \in FrameSizes, Exec(fn, size)
        PROVE  Ideal!Next
    <3>1. /\ vm # <<>> => Running.kind = "native"
          /\ StackBase - size > 0
          /\ vm' = Started("exec", fn, StackBase - size)
          /\ EnterFunction(fn, StackBase - size)
          /\ fn \in Functions
      BY <2>3 DEF Exec, BeginExec, Room, EnterHook, Functions
    <3>2. StackBase - size \in Nat
      BY <2>1, <2>2, <3>1, NewFrameIsLowest
    <3>3. vm # <<>> => ~Running.returned
      <4>1. vm # <<>> => Len(vm) \in DOMAIN vm
        BY <2>1, <2>2, MachineStack
      <4>2. QED
        BY <2>1, <3>1, <4>1 DEF MatchInv, StatementInv, Running
    <3>4. Ideal!Enter(fn)
      BY <2>1, <3>1, <3>2, <3>3, PushIsEnter
    <3>5. QED
      BY <3>1, <3>4 DEF Ideal!Next
  <2>4. ASSUME NEW fn \in Natives, NativeCall(fn)
        PROVE  Ideal!Next
    <3>1. /\ vm # <<>> /\ ~Running.returned
          /\ vm' = Started("native", fn, Running.frm)
          /\ EnterFunction(fn, Running.frm)
          /\ fn \in Functions
      BY <2>4 DEF NativeCall, BeginNative, InScript, Fresh, EnterHook, Functions
    <3>2. Running.frm \in Nat
      BY <2>1, <2>2, <3>1, RunningFrameIsLowest
    <3>3. Ideal!Enter(fn)
      BY <2>1, <3>1, <3>2, PushIsEnter
    <3>4. QED
      BY <3>1, <3>3 DEF Ideal!Next
  <2>5. ASSUME NEW fn \in Callees, NEW size \in FrameSizes, Call(fn, size)
        PROVE  Ideal!Next
    <3>1. /\ EnterFunction(fn, StackBase - size)
          /\ fn \in Functions /\ StackBase - size \in Nat
          /\ ~Running.returned
          /\ vm' = Started("call", fn, StackBase - size)
      BY <2>1, <2>5, CallEnters
    <3>2. Ideal!Enter(fn)
      BY <2>1, <3>1, PushIsEnter
    <3>3. QED
      BY <3>1, <3>2 DEF Ideal!Next
  <2>6. ASSUME Return PROVE Ideal!Next
    <3>1. UNCHANGED <<numCalls, callees>> /\ EndCall
      BY <2>6 DEF Return, statVars, graphVars
    <3>2. /\ Len(vm) >= 2 /\ Len(vm') = Len(vm) - 1
          /\ \A i \in 1 .. Len(vm) - 1 : vm'[i].fn = vm[i].fn
      BY <2>1, <2>2, <3>1, EndCallPops
    <3>3. Len(vm) - 1 \in 0 .. Len(vm) - 1
      BY <2>2, <3>2
    <3>4. Ideal!Leave
      BY <2>2, <3>1, <3>2, <3>3, PopIsLeave
    <3>5. QED
      BY <3>4 DEF Ideal!Next
  <2>7. ASSUME Statement
        PROVE  UNCHANGED <<FunctionsOf(vm), numCalls, callees>>
    <3>1. UNCHANGED <<numCalls, callees>> /\ Break
      BY <2>1, <2>7, BreakPopsReturned DEF Statement
    <3>2. DOMAIN vm' = DOMAIN vm /\ \A i \in DOMAIN vm : vm'[i].fn = vm[i].fn
      BY <2>1, <2>2, <3>1, BreakKeepsActivations
    <3>3. FunctionsOf(vm') = FunctionsOf(vm)
      BY <3>2 DEF FunctionsOf
    <3>4. QED
      BY <3>1, <3>3
  <2>8. ASSUME NativeReturn \/ ExecReturn PROVE Ideal!Next
    <3>1. ReturnToHook /\ (EndNative \/ EndExec)
      BY <2>8 DEF NativeReturn, ExecReturn
    <3>2. PICK n \in DOMAIN vm :
              Len(vm') = n - 1 /\ \A i \in 1 .. n - 1 : vm'[i] = vm[i]
      BY <2>1, <2>2, <3>1, HookReturns
    <3>3. n - 1 \in 0 .. Len(vm) - 1
      BY <2>2
    <3>5. UNCHANGED <<numCalls, callees>>
      <4>1. numCalls' = numCalls
        BY <3>1 DEF ReturnToHook, statVars
      <4>2. callees' = callees
        BY <2>1, <3>1, ReturnToHookType, LeaveFunctionType
        DEF ReturnToHook, graphVars
      <4>3. QED
        BY <4>1, <4>2
    <3>6. Ideal!Leave
      BY <2>2, <3>2, <3>3, <3>5, PopIsLeave
    <3>7. QED
      BY <3>6 DEF Ideal!Next
  <2>9. ASSUME UNCHANGED vars
        PROVE  UNCHANGED <<FunctionsOf(vm), numCalls, callees>>
    BY <2>9 DEF vars, FunctionsOf
  <2>10. QED
    BY <2>1, <2>3, <2>4, <2>5, <2>6, <2>7, <2>8, <2>9 DEF Next
<1>3. Spec => [](TypeOK /\ StackInv /\ MatchInv)
  BY TypeCorrect, StackInvariant, MatchInvariant, PTL
<1>4. Spec => Ideal!Init /\ [][Ideal!Next]_<<FunctionsOf(vm), numCalls, callees>>
  BY <1>1, <1>2, <1>3, PTL DEF Spec
<1>5. QED
  BY <1>4, PTL DEF IdealSpec, Ideal!Spec, FunctionsOf
=============================================================================
