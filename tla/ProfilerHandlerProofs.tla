----------------------- MODULE ProfilerHandlerProofs -----------------------
(***************************************************************************)
(* Theorems about ProfilerHandler: however the script starts and stops the *)
(* profiler, and from inside whatever calls.                               *)
(*                                                                         *)
(* A step of the handler is a step of the profiler it owns, or one that    *)
(* the profiler does not see, or the creation or the end of the handler.   *)
(* The lemmas of ProfilerProofs speak of the first kind: PP names them     *)
(* for the handler's profiler.                                             *)
(***************************************************************************)
EXTENDS ProfilerHandler, AmxProofs

PP == INSTANCE ProfilerProofs

-----------------------------------------------------------------------------
(***************************************************************************)
(* Profiler!X, this module's X and PP!X are the same formula under three   *)
(* names.                                                                  *)
(***************************************************************************)

\* What ProfilerProofs assumes of its constants.
LEMMA Assumptions ==
    PP!AmxAssumption /\ PP!CallGraphAssumption /\ PP!ProfilerAssumption
BY AmxAssumption, CallGraphAssumption, HandlerAssumption
DEF PP!AmxAssumption, PP!CallGraphAssumption, PP!ProfilerAssumption,
    PP!Functions, Functions

LEMMA SameTypes ==
    /\ Profiler!TypeOK <=> PP!TypeOK
    /\ Profiler!TypeOK' <=> PP!TypeOK'
BY DEF Profiler!TypeOK, PP!TypeOK, Profiler!VmTypeOK, PP!VmTypeOK,
       Profiler!Activation, PP!Activation, Profiler!FunctionCall,
       PP!FunctionCall, Profiler!Hook, PP!Hook, Profiler!Functions,
       PP!Functions

LEMMA SameMachine ==
    /\ VmTypeOK <=> PP!VmTypeOK
    /\ MachineInv <=> PP!MachineInv
    /\ MachineInv' <=> PP!MachineInv'
BY DEF VmTypeOK, PP!VmTypeOK, Activation, PP!Activation, Functions,
       PP!Functions, MachineInv, PP!MachineInv

LEMMA SameInit == Profiler!Init <=> PP!Init
BY DEF Profiler!Init, PP!Init, Profiler!VmInit, PP!VmInit,
       Profiler!GraphInit, PP!GraphInit, Profiler!Functions, PP!Functions

LEMMA SameHooks ==
    /\ \A fn, type, frame :
          Profiler!EnterHook(fn, type, frame) <=> PP!EnterHook(fn, type, frame)
    /\ Profiler!ReturnToHook <=> PP!ReturnToHook
BY DEF Profiler!EnterHook, PP!EnterHook, Profiler!Register, PP!Register,
       Profiler!EnterFunction, PP!EnterFunction, Profiler!AdjustNumCalls,
       PP!AdjustNumCalls, Profiler!PushCall, PP!PushCall, Profiler!TopNode,
       PP!TopNode, Profiler!ReturnToHook, PP!ReturnToHook,
       Profiler!LeaveFunction, PP!LeaveFunction, Profiler!StopsPopping,
       PP!StopsPopping, Profiler!PopCalls, PP!PopCalls, Profiler!graphVars,
       PP!graphVars, Profiler!statVars, PP!statVars

LEMMA SameDebugHook ==
    ASSUME NEW a
    PROVE  Profiler!DebugHook(a) <=> PP!DebugHook(a)
BY DEF Profiler!DebugHook, PP!DebugHook, Profiler!GetCalleeAddress,
       PP!GetCalleeAddress, Profiler!PrevFrame, PP!PrevFrame, Profiler!Top,
       PP!Top, Profiler!Register, PP!Register,
       Profiler!EnterFunction, PP!EnterFunction, Profiler!AdjustNumCalls,
       PP!AdjustNumCalls, Profiler!PushCall, PP!PushCall, Profiler!TopNode,
       PP!TopNode, Profiler!LeaveFunction, PP!LeaveFunction,
       Profiler!StopsPopping, PP!StopsPopping, Profiler!PopCalls, PP!PopCalls,
       Profiler!graphVars, PP!graphVars, Profiler!statVars, PP!statVars

LEMMA SameSteps ==
    /\ \A fn, size : BeginExec(fn, size) <=> PP!BeginExec(fn, size)
    /\ \A fn, size : BeginCall(fn, size) <=> PP!BeginCall(fn, size)
    /\ \A fn : BeginNative(fn) <=> PP!BeginNative(fn)
    /\ EndCall <=> PP!EndCall
    /\ Break <=> PP!Break
    /\ EndNative <=> PP!EndNative
    /\ EndExec <=> PP!EndExec
    /\ StackBase = PP!StackBase
    /\ Running = PP!Running
BY DEF BeginExec, PP!BeginExec, BeginCall, PP!BeginCall, BeginNative,
       PP!BeginNative, EndCall, PP!EndCall, Break, PP!Break, EndNative,
       PP!EndNative, EndExec, PP!EndExec, StackBase, PP!StackBase, Running,
       PP!Running, InScript, PP!InScript, Room, PP!Room, Fresh, PP!Fresh,
       Started, PP!Started

-----------------------------------------------------------------------------
(***************************************************************************)
(* The kinds of steps.                                                     *)
(***************************************************************************)

\* A public or a native is started, and the profiler does not see it.
UnseenHook ==
    /\ \/ \E fn \in Publics, size \in FrameSizes : BeginExec(fn, size)
       \/ \E fn \in Natives : BeginNative(fn)
    /\ HookNotProfiled

\* So is a BREAK.
UnseenBreak ==
    /\ \/ \E fn \in Callees, size \in FrameSizes : BeginCall(fn, size)
       \/ Break
    /\ NotProfiled

LEMMA KindsOfSteps ==
    ASSUME [Next]_vars
    PROVE  \/ PP!Next
           \/ UnseenHook
           \/ UnseenBreak
           \/ AmxUnload
           \/ UNCHANGED <<vm, profilerVars>>
<1>1. ASSUME NEW fn \in Publics, NEW size \in FrameSizes, Exec(fn, size)
      PROVE  PP!Next \/ UnseenHook
  <2>1. CASE StateInExec = "STARTED"
    <3>1. /\ BeginExec(fn, size)
          /\ Profiler!EnterHook(fn, "PUBLIC", StackBase - size)
      BY <1>1, <2>1 DEF Exec
    <3>2. PP!Exec(fn, size)
      BY <3>1, SameSteps, SameHooks DEF PP!Exec
    <3>3. QED
      BY <3>2 DEF PP!Next
  <2>2. CASE StateInExec # "STARTED"
    BY <1>1, <2>2 DEF Exec, UnseenHook
  <2>3. QED
    BY <2>1, <2>2
<1>2. ASSUME NEW fn \in Natives, BeginNative(fn), Callback(fn)
      PROVE  PP!Next \/ UnseenHook
  <2>1. CASE hooked /\ state = "STARTED"
    <3>1. PP!NativeCall(fn)
      BY <1>2, <2>1, SameSteps, SameHooks DEF Callback, PP!NativeCall
    <3>2. QED
      BY <3>1 DEF PP!Next
  <2>2. CASE ~(hooked /\ state = "STARTED")
    BY <1>2, <2>2 DEF Callback, UnseenHook
  <2>3. QED
    BY <2>1, <2>2
<1>3. ASSUME NEW fn \in Callees, NEW size \in FrameSizes, Call(fn, size)
      PROVE  PP!Next \/ UnseenBreak
  <2> DEFINE a == [kind |-> "call", fn |-> fn, frm |-> StackBase - size]
  <2>1. BeginCall(fn, size) /\ Debug(a)
    BY <1>3 DEF Call
  <2>2. CASE hooked /\ state = "STARTED"
    <3>1. PP!DebugHook(a)
      BY <2>1, <2>2, SameDebugHook DEF Debug
    <3>2. PP!Call(fn, size)
      BY <2>1, <3>1, SameSteps DEF PP!Call
    <3>3. QED
      BY <3>2 DEF PP!Next
  <2>3. CASE ~(hooked /\ state = "STARTED")
    BY <2>1, <2>3 DEF Debug, UnseenBreak
  <2>4. QED
    BY <2>2, <2>3
<1>4. ASSUME Statement
      PROVE  PP!Next \/ UnseenBreak
  <2>1. CASE hooked /\ state = "STARTED"
    <3>1. PP!DebugHook(Running)
      BY <1>4, <2>1, SameDebugHook DEF Statement, Debug
    <3>2. PP!Statement
      BY <1>4, <3>1, SameSteps DEF Statement, PP!Statement
    <3>3. QED
      BY <3>2 DEF PP!Next
  <2>2. CASE ~(hooked /\ state = "STARTED")
    BY <1>4, <2>2 DEF Statement, Debug, UnseenBreak
  <2>3. QED
    BY <2>1, <2>2
<1>5. ASSUME Return PROVE PP!Next
  <2>1. PP!Return
    BY <1>5, SameSteps
    DEF Return, NotProfiled, PP!Return, PP!statVars, PP!graphVars
  <2>2. QED
    BY <2>1 DEF PP!Next
<1>6. ASSUME ExecReturn \/ NativeReturn PROVE PP!Next
  <2>1. PP!ExecReturn \/ PP!NativeReturn
    BY <1>6, SameSteps, SameHooks
    DEF ExecReturn, NativeReturn, PP!ExecReturn, PP!NativeReturn
  <2>2. QED
    BY <2>1 DEF PP!Next
<1>7. ASSUME AmxLoad \/ UNCHANGED vars PROVE UNCHANGED <<vm, profilerVars>>
  BY <1>7 DEF AmxLoad, vars
<1>8. ProfilerStart \in Natives /\ ProfilerStop \in Natives
  BY HandlerAssumption
<1>9. QED
  BY <1>1, <1>2, <1>3, <1>4, <1>5, <1>6, <1>7, <1>8
  DEF Next, NativeCall, CallProfilerStart, CallProfilerStop

-----------------------------------------------------------------------------
(***************************************************************************)
(* Type correctness.                                                       *)
(***************************************************************************)

StateNames == {"DISABLED", "ATTACHING", "ATTACHED", "STARTING", "STARTED",
               "STOPPING", "STOPPED"}

LEMMA StatesAreNames == {States[i] : i \in DOMAIN States} = StateNames
BY DEF States, StateNames

\* The order of the states that Start compares.
LEMMA Ranks ==
    /\ Rank("ATTACHED") = 3
    /\ Rank("STARTING") = 4
    /\ Rank("STARTED") = 5
    /\ Rank("STOPPING") = 6
<1>1. DOMAIN States = 1 .. 7
  BY DEF States
<1>2. /\ \A i \in 1 .. 7 : States[i] = "ATTACHED" <=> i = 3
      /\ \A i \in 1 .. 7 : States[i] = "STARTING" <=> i = 4
      /\ \A i \in 1 .. 7 : States[i] = "STARTED" <=> i = 5
      /\ \A i \in 1 .. 7 : States[i] = "STOPPING" <=> i = 6
  BY DEF States
<1>3. QED
  BY <1>1, <1>2 DEF Rank

LEMMA StepKeepsTypes ==
    ASSUME TypeOK, MachineInv, [Next]_vars
    PROVE  TypeOK' /\ MachineInv'
<1>1. PP!TypeOK /\ VmTypeOK
  BY SameTypes, SameMachine DEF TypeOK, PP!TypeOK
<1>2. PP!TypeOK' /\ MachineInv'
  <2>1. CASE PP!Next
    BY <1>1, <2>1, SameMachine, Assumptions, PP!StepKeepsTypes
  <2>2. CASE UnseenHook
    <3>1. VmTypeOK' /\ MachineInv'
      BY <1>1, <2>2, MachineStep DEF UnseenHook
    <3>2. hooks' \in Seq(PP!Hook)
      <4>1. [address |-> NoAddress, entry |-> 0, activation |-> Len(vm) + 1]
                \in PP!Hook
        BY <1>1, MachineStack DEF PP!Hook
      <4>2. QED
        BY <1>1, <2>2, <4>1, PushOnStack
        DEF UnseenHook, HookNotProfiled, PP!TypeOK
    <3>3. QED
      BY <1>1, <2>2, <3>1, <3>2, SameMachine
      DEF PP!TypeOK, UnseenHook, HookNotProfiled, VmTypeOK, PP!VmTypeOK,
          Activation, PP!Activation, Functions, PP!Functions
  <2>3. CASE UnseenBreak
    <3>1. VmTypeOK' /\ MachineInv'
      BY <1>1, <2>3, MachineStep DEF UnseenBreak
    <3>2. QED
      BY <1>1, <2>3, <3>1
      DEF PP!TypeOK, UnseenBreak, NotProfiled, VmTypeOK, PP!VmTypeOK,
          Activation, PP!Activation, Functions, PP!Functions
  <2>4. CASE AmxUnload
    <3>1. /\ callStack' \in Seq(PP!FunctionCall)
          /\ nodes' \in Seq(PP!Functions)
          /\ fnType' \in [PP!Functions -> {"unknown", "NORMAL", "PUBLIC", "NATIVE"}]
          /\ numCalls' \in [PP!Functions -> Nat]
          /\ callees' = {} /\ vm' = vm /\ hooks' = hooks
      BY <1>1, <2>4, EmptySeq DEF AmxUnload, PP!TypeOK
    <3>2. QED
      BY <1>1, <3>1 DEF PP!TypeOK, PP!VmTypeOK, MachineInv
  <2>5. CASE UNCHANGED <<vm, profilerVars>>
    BY <1>1, <2>5 DEF PP!TypeOK, PP!VmTypeOK, MachineInv, profilerVars
  <2>6. QED
    BY <2>1, <2>2, <2>3, <2>4, <2>5, KindsOfSteps
<1>3. state \in StateNames
  BY StatesAreNames DEF TypeOK
<1>4. /\ \A s \in StateNames : Start(s) \in StateNames /\ Stop(s) \in StateNames
      /\ StateInExec \in StateNames
  BY <1>3 DEF Start, Stop, StateInExec, StateNames
<1>5. state' \in StateNames
  BY <1>3, <1>4
  DEF Next, vars, AmxLoad, AmxUnload, Exec, ExecReturn, Call, Return, Statement,
      NativeCall, CallProfilerStart, CallProfilerStop, NativeReturn, StateNames
<1>6. /\ loaded' \in BOOLEAN
      /\ path' \in {"unknown", "unlisted", "listed"}
      /\ hooked' \in BOOLEAN
  <2>1. CASE AmxLoad
    BY <2>1 DEF AmxLoad
  <2>2. CASE AmxUnload
    BY <2>2 DEF AmxUnload
  <2>3. CASE UNCHANGED handlerVars
    BY <2>3 DEF handlerVars, TypeOK
  <2>4. QED
    BY <2>1, <2>2, <2>3
    DEF Next, vars, Exec, ExecReturn, Call, Return, Statement,
        NativeCall, CallProfilerStart, CallProfilerStop, NativeReturn
<1>7. QED
  BY <1>2, <1>5, <1>6, SameTypes, StatesAreNames DEF TypeOK

\* Every value of the handler and of its profiler has its type, whatever the
\* script does, also while the profiler is off.
THEOREM TypeCorrect == Spec => [](TypeOK /\ MachineInv)
<1>1. Init => TypeOK /\ MachineInv
  <2>1. SUFFICES ASSUME Init PROVE TypeOK /\ MachineInv
    OBVIOUS
  <2>2. PP!Init
    BY <2>1, SameInit DEF Init
  <2>3. /\ vm = <<>> /\ DOMAIN vm = {}
        /\ vm \in Seq(PP!Activation) /\ callStack \in Seq(PP!FunctionCall)
        /\ hooks \in Seq(PP!Hook) /\ nodes \in Seq(PP!Functions)
    BY <2>2, EmptySeq DEF PP!Init, PP!VmInit, PP!GraphInit
  <2>4. PP!TypeOK
    BY <2>2, <2>3 DEF PP!Init, PP!GraphInit, PP!TypeOK, PP!VmTypeOK
  <2>5. MachineInv
    BY <2>3 DEF MachineInv
  <2>6. state \in StateNames
    BY <2>1 DEF Init, StateNames
  <2>7. QED
    BY <2>1, <2>4, <2>5, <2>6, SameTypes, StatesAreNames DEF Init, TypeOK
<1>2. TypeOK /\ MachineInv /\ [Next]_vars => TypeOK' /\ MachineInv'
  BY StepKeepsTypes
<1>3. QED
  BY <1>1, <1>2, PTL DEF Spec

-----------------------------------------------------------------------------
(***************************************************************************)
(* The profiler's invariant, when only some of the hooks are profiled.     *)
(***************************************************************************)

\* A hook that the profiler does not see is pushed with no entry of its own.
LEMMA UnseenHookKeepsEntries ==
    ASSUME TypeOK, PP!EntriesInv, UnseenHook
    PROVE  PP!EntriesInv'
<1>1. PP!TypeOK /\ VmTypeOK /\ MachineInv /\ PP!MachineInv
  BY SameTypes, SameMachine DEF TypeOK, PP!TypeOK, PP!EntriesInv
<1>2. MachineInv' /\ PP!MachineInv'
  BY <1>1, SameMachine, MachineStep DEF UnseenHook
<1>3. PICK kind \in {"exec", "native"}, fn \in Functions, frm \in Nat :
          vm' = Started(kind, fn, frm)
  <2>1. ASSUME NEW fn \in Publics, NEW size \in FrameSizes, BeginExec(fn, size)
        PROVE  /\ fn \in Functions /\ StackBase - size \in Nat
               /\ vm' = Started("exec", fn, StackBase - size)
    BY <1>1, <2>1, NewFrameIsLowest DEF BeginExec, Room, Functions
  <2>2. ASSUME NEW fn \in Natives, BeginNative(fn)
        PROVE  /\ fn \in Functions /\ Running.frm \in Nat
               /\ vm' = Started("native", fn, Running.frm)
    BY <1>1, <2>2, RunningFrameIsLowest DEF BeginNative, InScript, Functions
  <2>3. QED
    BY <2>1, <2>2 DEF UnseenHook
<1>4. /\ DOMAIN vm' = 1 .. Len(vm) + 1
      /\ \A i \in 1 .. Len(vm) : vm'[i] = vm[i]
      /\ vm'[Len(vm) + 1].kind # "call"
  BY <1>1, <1>3, StartedPushes
<1>5. /\ Len(vm) \in Nat /\ DOMAIN vm = 1 .. Len(vm)
      /\ hooks \in Seq(PP!Hook)
      /\ Len(hooks) \in Nat /\ DOMAIN hooks = 1 .. Len(hooks)
  BY <1>1, MachineStack, LenProperties DEF PP!TypeOK
<1> DEFINE hook == [address    |-> NoAddress,
                    entry      |-> 0,
                    activation |-> Len(vm) + 1]
<1>6. /\ hook \in PP!Hook /\ hook.address = NoAddress
      /\ hook.activation = Len(vm) + 1
  BY <1>5 DEF PP!Hook
<1>7. hooks' = Append(hooks, hook)
  BY DEF UnseenHook, HookNotProfiled
<1> HIDE DEF hook
<1>8. /\ hooks' \in Seq(PP!Hook) /\ Len(hooks') = Len(hooks) + 1
      /\ \A k \in 1 .. Len(hooks) : hooks'[k] = hooks[k]
      /\ hooks'[Len(hooks) + 1] = hook
  BY <1>5, <1>6, <1>7, PushOnStack
<1>9. DOMAIN hooks' = 1 .. Len(hooks) + 1
  BY <1>8, LenProperties
<1>10. UNCHANGED <<callStack, fnType, nodes, callees>>
  BY DEF UnseenHook, HookNotProfiled
<1>11. PP!FnTypeInv' /\ PP!GraphFollowsStack'
  BY <1>10 DEF PP!EntriesInv, PP!FnTypeInv, PP!GraphFollowsStack
<1>12. PP!EntryInv'
  BY <1>5, <1>8, <1>9, <1>10 DEF PP!EntriesInv, PP!EntryInv
<1>13. PP!HookInv'
  <2>1. ASSUME NEW k \in DOMAIN hooks'
        PROVE  \/ k \in DOMAIN hooks /\ hooks'[k] = hooks[k]
               \/ k = Len(hooks) + 1 /\ hooks'[k] = hook
    BY <1>5, <1>8, <1>9
  <2>2. ASSUME NEW i \in DOMAIN vm'
        PROVE  \/ i \in DOMAIN vm /\ vm'[i] = vm[i]
               \/ i = Len(vm) + 1
    BY <1>4, <1>5
  <2>3. ASSUME NEW k \in DOMAIN hooks'
        PROVE  /\ hooks'[k].activation \in DOMAIN vm'
               /\ vm'[hooks'[k].activation].kind # "call"
               /\ hooks'[k].address # NoAddress =>
                     /\ hooks'[k].entry \in DOMAIN callStack'
                     /\ callStack'[hooks'[k].entry].fn = hooks'[k].address
                     /\ callStack'[hooks'[k].entry].frame
                           = vm'[hooks'[k].activation].frm
                     /\ hooks'[k].address \in Publics \cup Natives
    <3>1. CASE k \in DOMAIN hooks /\ hooks'[k] = hooks[k]
      <4>1. /\ hooks[k].activation \in DOMAIN vm
            /\ vm[hooks[k].activation].kind # "call"
            /\ hooks[k].address # NoAddress =>
                  /\ hooks[k].entry \in DOMAIN callStack
                  /\ callStack[hooks[k].entry].fn = hooks[k].address
                  /\ callStack[hooks[k].entry].frame
                        = vm[hooks[k].activation].frm
                  /\ hooks[k].address \in Publics \cup Natives
        BY <3>1 DEF PP!EntriesInv, PP!HookInv
      <4>2. /\ hooks[k].activation \in DOMAIN vm'
            /\ vm'[hooks[k].activation] = vm[hooks[k].activation]
        BY <1>4, <1>5, <4>1
      <4>3. QED
        BY <1>10, <3>1, <4>1, <4>2
    <3>2. CASE k = Len(hooks) + 1 /\ hooks'[k] = hook
      BY <1>4, <1>5, <1>6, <3>2
    <3>3. QED
      BY <2>1, <3>1, <3>2
  <2>4. ASSUME NEW k \in DOMAIN hooks', NEW l \in DOMAIN hooks', k < l
        PROVE  /\ hooks'[k].activation < hooks'[l].activation
               /\ NoAddress \notin {hooks'[k].address, hooks'[l].address} =>
                     hooks'[k].entry < hooks'[l].entry
    <3>1. k \in DOMAIN hooks /\ hooks'[k] = hooks[k]
      BY <1>5, <1>8, <1>9, <2>4
    <3>2. CASE l \in DOMAIN hooks /\ hooks'[l] = hooks[l]
      BY <2>4, <3>1, <3>2 DEF PP!EntriesInv, PP!HookInv
    <3>3. CASE l = Len(hooks) + 1 /\ hooks'[l] = hook
      <4>1. hooks[k].activation \in 1 .. Len(vm)
        BY <1>5, <3>1 DEF PP!EntriesInv, PP!HookInv
      <4>2. hooks[k].activation < Len(vm) + 1
        BY <1>5, <4>1
      <4>3. QED
        BY <1>6, <3>1, <3>3, <4>2
    <3>4. QED
      BY <2>1, <3>2, <3>3
  <2>5. ASSUME NEW i \in DOMAIN vm', vm'[i].kind # "call"
        PROVE  \E k \in DOMAIN hooks' : hooks'[k].activation = i
    <3>1. CASE i \in DOMAIN vm /\ vm'[i] = vm[i]
      <4>1. PICK k \in DOMAIN hooks : hooks[k].activation = i
        BY <2>5, <3>1 DEF PP!EntriesInv, PP!HookInv
      <4>2. k \in DOMAIN hooks' /\ hooks'[k] = hooks[k]
        BY <1>5, <1>8, <1>9
      <4>3. QED
        BY <4>1, <4>2
    <3>2. CASE i = Len(vm) + 1
      <4>1. Len(hooks) + 1 \in DOMAIN hooks'
        BY <1>5, <1>9
      <4>2. QED
        BY <1>6, <1>8, <3>2, <4>1
    <3>3. QED
      BY <2>2, <3>1, <3>2
  <2>6. QED
    BY <2>3, <2>4, <2>5 DEF PP!HookInv
<1>14. QED
  BY <1>2, <1>11, <1>12, <1>13 DEF PP!EntriesInv

\* Between two calls from the server no hook waits.
LEMMA IdleHasNoHooks ==
    ASSUME TypeOK, PP!EntriesInv, vm = <<>>
    PROVE  hooks = <<>>
<1>1. hooks \in Seq(PP!Hook)
  BY SameTypes DEF TypeOK, PP!TypeOK
<1>2. DOMAIN vm = {}
  BY EmptySeq
<1>3. DOMAIN hooks = {}
  BY <1>2 DEF PP!EntriesInv, PP!HookInv
<1>4. QED
  BY <1>1, <1>3, LenProperties, EmptySeq

LEMMA StepKeepsEntries ==
    ASSUME Callees \subseteq Normals, TypeOK, PP!EntriesInv, [Next]_vars
    PROVE  PP!EntriesInv'
<1>1. PP!TypeOK /\ MachineInv
  BY SameTypes, SameMachine DEF TypeOK, PP!EntriesInv
<1>2. CASE PP!Next
  BY <1>1, <1>2, Assumptions, PP!StepKeepsEntriesInv
<1>3. CASE UnseenHook
  BY <1>3, UnseenHookKeepsEntries
<1>4. CASE UnseenBreak
  <2>1. UNCHANGED <<callStack, hooks, fnType, numCalls, nodes, callees>>
    BY <1>4 DEF UnseenBreak, NotProfiled
  <2>2. PP!MachineInv'
    BY <1>1, <1>4, SameMachine, MachineStep DEF UnseenBreak, PP!TypeOK
  <2>3. \A k \in DOMAIN hooks :
            hooks[k].address # NoAddress => hooks[k].entry \in DOMAIN callStack
    BY DEF PP!EntriesInv, PP!HookInv
  <2>4. PP!HookInv'
    BY <1>1, <1>4, <2>1, <2>3, SameSteps, Assumptions, PP!HooksWaiting
    DEF UnseenBreak
  <2>5. PP!FnTypeInv' /\ PP!EntryInv' /\ PP!GraphFollowsStack'
    BY <2>1 DEF PP!EntriesInv, PP!FnTypeInv, PP!EntryInv, PP!GraphFollowsStack
  <2>6. QED
    BY <2>2, <2>4, <2>5 DEF PP!EntriesInv
<1>5. CASE AmxUnload
  <2>1. hooks = <<>> /\ vm = <<>>
    BY <1>5, IdleHasNoHooks DEF AmxUnload
  <2>2. /\ UNCHANGED <<vm, hooks>> /\ callStack' = <<>> /\ nodes' = <<>>
        /\ fnType' = [f \in DOMAIN fnType |-> "unknown"]
    BY <1>5 DEF AmxUnload
  <2>3. DOMAIN hooks = {} /\ DOMAIN vm = {} /\ DOMAIN <<>> = {} /\ Len(<<>>) = 0
    BY <2>1, EmptySeq
  <2>4. PP!MachineInv' /\ PP!HookInv' /\ PP!EntryInv' /\ PP!GraphFollowsStack'
    BY <2>1, <2>2, <2>3
    DEF PP!MachineInv, PP!HookInv, PP!EntryInv, PP!GraphFollowsStack
  <2>5. PP!FnTypeInv'
    <3>1. DOMAIN fnType = PP!Functions
      BY <1>1 DEF PP!TypeOK
    <3>2. QED
      BY <2>2, <3>1 DEF PP!FnTypeInv, PP!Functions
  <2>6. QED
    BY <2>4, <2>5 DEF PP!EntriesInv
<1>6. CASE UNCHANGED <<vm, profilerVars>>
  BY <1>6 DEF profilerVars, PP!EntriesInv, PP!MachineInv, PP!FnTypeInv,
              PP!HookInv, PP!EntryInv, PP!GraphFollowsStack
<1>7. QED
  BY <1>2, <1>3, <1>4, <1>5, <1>6, KindsOfSteps

\* A hook in progress holds its entry, with its own frame, or none; every
\* other entry is an ordinary function's; the call graph follows the stack;
\* all of it while the profiler is started and stopped from inside the calls
\* that it profiles.
THEOREM EntriesInvariant ==
    ASSUME Callees \subseteq Normals
    PROVE  Spec => []PP!EntriesInv
<1>1. Init => PP!EntriesInv
  <2>1. SUFFICES ASSUME Init PROVE PP!EntriesInv
    OBVIOUS
  <2>2. PP!Init
    BY <2>1, SameInit DEF Init
  <2>3. /\ vm = <<>> /\ callStack = <<>> /\ hooks = <<>> /\ nodes = <<>>
        /\ DOMAIN <<>> = {} /\ Len(<<>>) = 0
        /\ fnType = [f \in PP!Functions |-> "unknown"]
    BY <2>2, EmptySeq DEF PP!Init, PP!VmInit, PP!GraphInit
  <2>4. PP!MachineInv /\ PP!HookInv /\ PP!EntryInv /\ PP!GraphFollowsStack
    BY <2>3
    DEF PP!MachineInv, PP!HookInv, PP!EntryInv, PP!GraphFollowsStack
  <2>5. PP!FnTypeInv
    BY <2>3 DEF PP!FnTypeInv, PP!Functions
  <2>6. QED
    BY <2>4, <2>5 DEF PP!EntriesInv
<1>2. TypeOK /\ PP!EntriesInv /\ [Next]_vars => PP!EntriesInv'
  BY StepKeepsEntries
<1>3. QED
  BY <1>1, <1>2, TypeCorrect, PTL DEF Spec

-----------------------------------------------------------------------------
(***************************************************************************)
(* A profiler that is not in use has an empty call stack.                  *)
(***************************************************************************)

\* Before AmxLoad and after AmxUnload nothing of the script runs.
LoadedInv == ~loaded => state = "DISABLED" /\ vm = <<>>

Unused == {"DISABLED", "ATTACHING", "ATTACHED", "STOPPED"}

\* LeaveFunction leaves an empty stack empty.
LEMMA EmptyStaysEmpty ==
    ASSUME PP!TypeOK, callStack = <<>>, Profiler!ReturnToHook
    PROVE  callStack' = <<>>
<1>1. PP!ReturnToHook
  BY SameHooks
<1>2. CASE hooks[Len(hooks)].address # NoAddress
  <2>1. PP!LeaveFunction(hooks[Len(hooks)].address, 0)
    BY <1>1, <1>2 DEF PP!ReturnToHook
  <2>2. PICK rest \in {0} \cup 1 .. Len(callStack) - 1 :
            callStack' = SubSeq(callStack, 1, rest)
    BY <2>1 DEF PP!LeaveFunction
  <2>3. rest = 0 /\ Len(callStack) = 0
    BY <2>2, EmptySeq
  <2>4. callStack \in Seq(PP!FunctionCall) /\ rest \in Int /\ rest <= Len(callStack)
    BY <2>3 DEF PP!TypeOK
  <2>5. callStack' \in Seq(PP!FunctionCall) /\ Len(callStack') = 0
    BY <2>2, <2>3, <2>4, PrefixOfStack
  <2>6. QED
    BY <2>5, EmptySeq
<1>3. CASE ~(hooks[Len(hooks)].address # NoAddress)
  BY <1>1, <1>3 DEF PP!ReturnToHook
<1>4. QED
  BY <1>2, <1>3

LEMMA StepKeepsUnusedEmpty ==
    ASSUME TypeOK, LoadedInv, UnusedIsEmpty, [Next]_vars
    PROVE  LoadedInv' /\ UnusedIsEmpty'
<1>1. PP!TypeOK /\ state \in StateNames
  BY SameTypes, StatesAreNames DEF TypeOK
<1>2. state \in Unused => callStack = <<>>
  BY DEF UnusedIsEmpty, Unused
<1>3. SUFFICES LoadedInv' /\ (state' \in Unused => callStack' = <<>>)
  BY DEF UnusedIsEmpty, Unused
<1>4. CASE AmxLoad
  <2>1. callStack = <<>>
    BY <1>2, <1>4 DEF AmxLoad, LoadedInv, Unused
  <2>2. QED
    BY <1>4, <2>1 DEF AmxLoad, LoadedInv, profilerVars
<1>5. CASE AmxUnload
  BY <1>5 DEF AmxUnload, LoadedInv
<1>6. ASSUME NEW fn \in Publics, NEW size \in FrameSizes, Exec(fn, size)
      PROVE  LoadedInv' /\ (state' \in Unused => callStack' = <<>>)
  <2>1. LoadedInv'
    BY <1>6 DEF Exec, LoadedInv, handlerVars
  <2>2. CASE StateInExec = "STARTED"
    BY <1>6, <2>1, <2>2 DEF Exec, Unused
  <2>3. CASE StateInExec # "STARTED"
    <3>1. state' = state /\ UNCHANGED callStack
      BY <1>6, <2>3 DEF Exec, StateInExec, HookNotProfiled
    <3>2. QED
      BY <1>2, <2>1, <3>1
  <2>4. QED
    BY <2>2, <2>3
<1>7. ASSUME loaded, UNCHANGED handlerVars
      PROVE  LoadedInv'
  BY <1>7 DEF LoadedInv, handlerVars
<1>8. ASSUME vm # <<>> PROVE loaded
  BY <1>8 DEF LoadedInv
<1>9. CASE ExecReturn
  <2>1. vm # <<>> /\ UNCHANGED handlerVars /\ Profiler!ReturnToHook
    BY <1>9 DEF ExecReturn, EndExec, InScript
  <2>2. state' = state \/ (state' = "STOPPED" /\ callStack' = <<>>)
    BY <1>9 DEF ExecReturn
  <2>3. state \in Unused => callStack' = <<>>
    BY <1>1, <1>2, <2>1, EmptyStaysEmpty
  <2>4. QED
    BY <1>7, <1>8, <2>1, <2>2, <2>3
<1>10. CASE NativeReturn
  <2>1. vm # <<>> /\ UNCHANGED <<handlerVars, state>> /\ Profiler!ReturnToHook
    BY <1>10 DEF NativeReturn, EndNative
  <2>2. state \in Unused => callStack' = <<>>
    BY <1>1, <1>2, <2>1, EmptyStaysEmpty
  <2>3. QED
    BY <1>7, <1>8, <2>1, <2>2
<1>11. ASSUME NEW a, Debug(a)
       PROVE  state \in Unused => callStack' = callStack
  BY <1>11, Zenon DEF Debug, NotProfiled, Unused
<1>12. ASSUME NEW fn, Callback(fn)
       PROVE  state \in Unused => callStack' = callStack
  BY <1>12, Zenon DEF Callback, HookNotProfiled, Unused
<1>13. ASSUME NEW fn \in Callees, NEW size \in FrameSizes, Call(fn, size)
       PROVE  LoadedInv' /\ (state' \in Unused => callStack' = <<>>)
  <2> DEFINE a == [kind |-> "call", fn |-> fn, frm |-> StackBase - size]
  <2>1. vm # <<>> /\ UNCHANGED <<handlerVars, state>> /\ Debug(a)
    BY <1>13 DEF Call, BeginCall, InScript
  <2> HIDE DEF a
  <2>2. QED
    BY <1>2, <1>7, <1>8, <1>11, <2>1
<1>14. CASE Return
  BY <1>2, <1>7, <1>8, <1>14 DEF Return, EndCall, InScript, NotProfiled
<1>15. CASE Statement
  <2>1. vm # <<>> /\ UNCHANGED <<handlerVars, state>> /\ Debug(Running)
    BY <1>15 DEF Statement, Break, InScript
  <2>2. QED
    BY <1>2, <1>7, <1>8, <1>11, <2>1
<1>16. ASSUME NEW fn \in Natives \ {ProfilerStart, ProfilerStop}, NativeCall(fn)
       PROVE  LoadedInv' /\ (state' \in Unused => callStack' = <<>>)
  <2>1. vm # <<>> /\ UNCHANGED <<handlerVars, state>> /\ Callback(fn)
    BY <1>16 DEF NativeCall, BeginNative, InScript
  <2>2. QED
    BY <1>2, <1>7, <1>8, <1>12, <2>1
<1>17. CASE CallProfilerStart
  <2>1. /\ vm # <<>> /\ UNCHANGED handlerVars /\ Callback(ProfilerStart)
        /\ state' = Start(state)
    BY <1>17 DEF CallProfilerStart, BeginNative, InScript
  <2>2. state \notin Unused => Start(state) = "STARTING"
    BY <1>1, Ranks DEF Start, Unused, StateNames
  <2>3. state' \in Unused => state \in Unused
    BY <2>1, <2>2 DEF Unused
  <2>4. QED
    BY <1>2, <1>7, <1>8, <1>12, <2>1, <2>3
<1>18. CASE CallProfilerStop
  <2>1. /\ vm # <<>> /\ UNCHANGED handlerVars /\ Callback(ProfilerStop)
        /\ state' = Stop(state)
    BY <1>18 DEF CallProfilerStop, BeginNative, InScript
  <2>2. state' \in Unused => state \in Unused
    BY <2>1 DEF Stop, Unused
  <2>3. QED
    BY <1>2, <1>7, <1>8, <1>12, <2>1, <2>2
<1>19. CASE UNCHANGED vars
  BY <1>2, <1>19 DEF vars, handlerVars, profilerVars, LoadedInv
<1>20. QED
  BY <1>4, <1>5, <1>6, <1>9, <1>10, <1>13, <1>14, <1>15, <1>16, <1>17, <1>18,
     <1>19 DEF Next

\* Whatever the order of Profiler_Start and Profiler_Stop and whatever calls
\* they are made from, a profiler that is disabled, attached or stopped has no
\* entry left that a later start would find: the stop is completed only when
\* the last profiled call is left, and in no state before STARTED is one made.
THEOREM UnusedAlwaysEmpty == Spec => [](UnusedIsEmpty /\ LoadedInv)
<1>1. Init => LoadedInv /\ UnusedIsEmpty
  BY SameInit DEF Init, PP!Init, PP!VmInit, LoadedInv, UnusedIsEmpty
<1>2. TypeOK /\ LoadedInv /\ UnusedIsEmpty /\ [Next]_vars
        => LoadedInv' /\ UnusedIsEmpty'
  BY StepKeepsUnusedEmpty
<1>3. QED
  BY <1>1, <1>2, TypeCorrect, PTL DEF Spec

-----------------------------------------------------------------------------
(***************************************************************************)
(* A hook pops what it pushed.                                             *)
(***************************************************************************)

\* A hook that returns pops its own entry and what is above it, and one that
\* entered nothing pops nothing, also when the profiler was started or stopped
\* between the two halves of the hook.
THEOREM ReturnAlwaysPopsOwnEntry ==
    ASSUME Callees \subseteq Normals
    PROVE  Spec => ReturnPopsOwnEntry
<1>1. TypeOK /\ PP!EntriesInv /\ [Next]_vars =>
          [Len(hooks') < Len(hooks) =>
              LET hook == hooks[Len(hooks)]
              IN callStack' = IF hook.address = NoAddress
                              THEN callStack
                              ELSE SubSeq(callStack, 1, hook.entry - 1)]_vars
  <2>1. SUFFICES ASSUME TypeOK, PP!EntriesInv, Next, Len(hooks') < Len(hooks)
                 PROVE  callStack' = IF hooks[Len(hooks)].address = NoAddress
                                     THEN callStack
                                     ELSE SubSeq(callStack, 1,
                                                 hooks[Len(hooks)].entry - 1)
    OBVIOUS
  <2>2. PP!TypeOK /\ hooks \in Seq(PP!Hook) /\ Len(hooks) \in Nat
    BY <2>1, SameTypes, LenProperties DEF TypeOK, PP!TypeOK
  <2>3. hooks' # hooks
    BY <2>1, <2>2
  <2>4. ~UnseenHook
    <3>1. SUFFICES ASSUME UnseenHook PROVE FALSE
      OBVIOUS
    <3>2. Len(hooks') = Len(hooks) + 1
      BY <2>2, <3>1 DEF UnseenHook, HookNotProfiled
    <3>3. QED
      BY <2>1, <2>2, <3>2
  <2>5. PP!Next
    BY <2>1, <2>3, <2>4, KindsOfSteps
    DEF UnseenBreak, NotProfiled, AmxUnload, profilerVars
  <2>6. PP!ReturnToHook /\ hooks # <<>>
    BY <2>1, <2>2, <2>5, Assumptions, PP!ShorterIsReturn
  <2>7. CASE hooks[Len(hooks)].address = NoAddress
    BY <2>6, <2>7 DEF PP!ReturnToHook
  <2>8. CASE hooks[Len(hooks)].address # NoAddress
    BY <2>1, <2>2, <2>6, <2>8, Assumptions, PP!ReturnToHookPopsOwnEntry
  <2>9. QED
    BY <2>7, <2>8
<1>2. QED
  BY <1>1, TypeCorrect, EntriesInvariant, PTL DEF Spec, ReturnPopsOwnEntry

-----------------------------------------------------------------------------
(***************************************************************************)
(* When only the server runs publics, the call stack is empty between its  *)
(* calls.  A native that runs a public can leave an entry: see IdleEmpty.  *)
(***************************************************************************)

\* The first hook is that of the server's call.  If it was entered its entry is
\* the first; if not, nothing is entered until it returns, because the profiler
\* starts only in a call from the server.
FlatInv ==
    /\ \A i \in DOMAIN vm : vm[i].kind = "exec" => i = 1
    /\ vm = <<>> => callStack = <<>>
    /\ vm # <<>> => IF hooks[1].address = NoAddress
                    THEN callStack = <<>> /\ state # "STARTED"
                    ELSE hooks[1].entry = 1

\* The first hook waits for the first activation.
LEMMA FirstHook ==
    ASSUME TypeOK, PP!EntriesInv, vm # <<>>
    PROVE  1 \in DOMAIN hooks /\ hooks[1].activation = 1
<1>1. VmTypeOK /\ MachineInv /\ hooks \in Seq(PP!Hook)
  BY SameTypes, SameMachine DEF TypeOK, PP!TypeOK, PP!EntriesInv
<1>2. /\ Len(vm) \in Nat \ {0} /\ DOMAIN vm = 1 .. Len(vm)
      /\ Len(hooks) \in Nat /\ DOMAIN hooks = 1 .. Len(hooks)
  BY <1>1, MachineStack, LenProperties
<1>3. 1 \in DOMAIN vm /\ vm[1].kind # "call"
  BY <1>1, <1>2 DEF MachineInv
<1>4. PICK k \in DOMAIN hooks : hooks[k].activation = 1
  BY <1>3 DEF PP!EntriesInv, PP!HookInv
<1>5. 1 \in DOMAIN hooks /\ (k = 1 \/ 1 < k)
  BY <1>2
<1>6. hooks[1].activation \in DOMAIN vm
  BY <1>5 DEF PP!EntriesInv, PP!HookInv
<1>7. ~(1 < k)
  <2>1. 1 < k => hooks[1].activation < 1
    BY <1>4, <1>5 DEF PP!EntriesInv, PP!HookInv
  <2>2. QED
    BY <1>2, <1>6, <2>1
<1>8. QED
  BY <1>4, <1>5, <1>7

\* Steps in the middle of a call from the server that leave the stack of the
\* profiler empty if it does not take part in the call.
LEMMA InsideCall ==
    ASSUME TypeOK, FlatInv, vm # <<>>, vm' # <<>>, hooks'[1] = hooks[1],
           callStack = <<>> /\ state # "STARTED" =>
               callStack' = <<>> /\ state' # "STARTED",
           \A i \in DOMAIN vm' : vm'[i].kind = "exec" => i = 1
    PROVE  FlatInv'
BY DEF FlatInv

LEMMA StepKeepsFlat ==
    ASSUME Reentrant = {}, TypeOK, PP!EntriesInv, LoadedInv, FlatInv, [Next]_vars
    PROVE  FlatInv'
<1>1. /\ PP!TypeOK /\ VmTypeOK /\ MachineInv /\ PP!VmTypeOK
      /\ hooks \in Seq(PP!Hook) /\ Len(hooks) \in Nat
      /\ DOMAIN hooks = 1 .. Len(hooks)
      /\ Len(vm) \in Nat /\ DOMAIN vm = 1 .. Len(vm)
  BY SameTypes, SameMachine, MachineStack, LenProperties
  DEF TypeOK, PP!TypeOK, PP!EntriesInv
<1>2. ASSUME NEW hook, hooks' = Append(hooks, hook), hooks # <<>>
      PROVE  hooks'[1] = hooks[1]
  BY <1>1, <1>2, EmptySeq
<1>3. vm # <<>> => hooks # <<>>
  BY FirstHook, EmptySeq
<1>4. ASSUME NEW a, Debug(a), state # "STARTED" PROVE NotProfiled
  BY <1>4, Zenon DEF Debug
<1>5. ASSUME NEW fn, Callback(fn), state # "STARTED" PROVE HookNotProfiled
  BY <1>5, Zenon DEF Callback
<1>6. ASSUME NEW fn \in Publics, NEW size \in FrameSizes, Exec(fn, size)
      PROVE  FlatInv'
  <2>1. vm = <<>> /\ callStack = <<>> /\ hooks = <<>>
    BY <1>6, IdleHasNoHooks DEF Exec, FlatInv
  <2>2. Len(vm) = 0 /\ Len(hooks) = 0 /\ Len(callStack) = 0
    BY <2>1, EmptySeq
  <2>3. /\ fn \in Functions /\ StackBase - size \in Nat
        /\ vm' = Started("exec", fn, StackBase - size)
    BY <1>1, <1>6, NewFrameIsLowest DEF Exec, BeginExec, Room, Functions
  <2>4. DOMAIN vm' = 1 .. 1 /\ vm' # <<>>
    <3>1. DOMAIN vm' = 1 .. Len(vm) + 1
      BY <1>1, <2>3, StartedPushes
    <3>2. QED
      BY <2>2, <3>1, EmptySeq
  <2>5. CASE StateInExec = "STARTED"
    <3>1. PP!EnterHook(fn, "PUBLIC", StackBase - size)
      BY <1>6, <2>5, SameHooks DEF Exec
    <3>2. fn \in PP!Functions
      BY DEF PP!Functions
    <3>3. /\ hooks'[Len(hooks) + 1].address = fn
          /\ hooks'[Len(hooks) + 1].entry = Len(callStack) + 1
      BY <1>1, <3>1, <3>2, Assumptions, PP!EnterHookAppends
    <3>4. fn # NoAddress
      BY AmxAssumption DEF Functions
    <3>5. QED
      BY <2>2, <2>4, <3>3, <3>4 DEF FlatInv
  <2>6. CASE StateInExec # "STARTED"
    <3>1. HookNotProfiled /\ state' # "STARTED"
      BY <1>6, <2>6 DEF Exec
    <3>2. hooks'[1].address = NoAddress /\ callStack' = <<>>
      BY <2>1, <3>1 DEF HookNotProfiled
    <3>3. QED
      BY <2>4, <3>1, <3>2 DEF FlatInv
  <2>7. QED
    BY <2>5, <2>6
<1>7. ASSUME NEW fn \in Callees, NEW size \in FrameSizes, Call(fn, size)
      PROVE  FlatInv'
  <2> DEFINE a == [kind |-> "call", fn |-> fn, frm |-> StackBase - size]
  <2>1. /\ vm # <<>> /\ state' = state /\ Debug(a) /\ fn \in Functions
        /\ StackBase - size \in Nat
        /\ vm' = Started("call", fn, StackBase - size)
    BY <1>1, <1>7, AmxAssumption, NewFrameIsLowest
    DEF Call, BeginCall, Room, InScript, Functions
  <2> HIDE DEF a
  <2>2. /\ DOMAIN vm' = 1 .. Len(vm) + 1
        /\ \A i \in 1 .. Len(vm) : vm'[i] = vm[i]
        /\ vm'[Len(vm) + 1].kind = "call"
    BY <1>1, <2>1, StartedPushes
  <2>3. hooks' = hooks
    BY <2>1, Zenon
    DEF Debug, NotProfiled, Profiler!DebugHook
  <2>4. vm' # <<>>
    BY <1>1, <2>2, EmptySeq
  <2>5. \A i \in DOMAIN vm' : vm'[i].kind = "exec" => i = 1
    BY <1>1, <2>2 DEF FlatInv
  <2>6. QED
    BY <1>4, <2>1, <2>3, <2>4, <2>5, InsideCall DEF NotProfiled
<1>8. ASSUME NEW fn \in Natives, BeginNative(fn), Callback(fn),
             state # "STARTED" => state' # "STARTED"
      PROVE  FlatInv'
  <2>1. /\ vm # <<>> /\ fn \in Functions /\ Running.frm \in Nat
        /\ vm' = Started("native", fn, Running.frm)
    BY <1>1, <1>8, RunningFrameIsLowest DEF BeginNative, InScript, Functions
  <2>2. /\ DOMAIN vm' = 1 .. Len(vm) + 1
        /\ \A i \in 1 .. Len(vm) : vm'[i] = vm[i]
        /\ vm'[Len(vm) + 1].kind = "native"
    BY <1>1, <2>1, StartedPushes
  <2>3. \E hook : hooks' = Append(hooks, hook)
    BY <1>8, Zenon
    DEF Callback, HookNotProfiled, Profiler!EnterHook
  <2>4. hooks'[1] = hooks[1]
    BY <1>2, <1>3, <2>1, <2>3
  <2>5. vm' # <<>>
    BY <1>1, <2>2, EmptySeq
  <2>6. \A i \in DOMAIN vm' : vm'[i].kind = "exec" => i = 1
    BY <1>1, <2>2 DEF FlatInv
  <2>7. QED
    BY <1>5, <1>8, <2>1, <2>4, <2>5, <2>6, InsideCall DEF HookNotProfiled
<1>9. ASSUME NEW fn \in Natives \ {ProfilerStart, ProfilerStop}, NativeCall(fn)
      PROVE  FlatInv'
  BY <1>8, <1>9 DEF NativeCall
<1>10. CASE CallProfilerStart \/ CallProfilerStop
  <2>1. Start(state) # "STARTED" /\ (state # "STARTED" => Stop(state) # "STARTED")
    BY DEF Start, Stop
  <2>2. QED
    BY <1>8, <1>10, <2>1, HandlerAssumption
    DEF CallProfilerStart, CallProfilerStop
<1>11. CASE Return
  <2>1. /\ EndCall /\ vm # <<>>
        /\ UNCHANGED <<callStack, hooks, state>>
    BY <1>11 DEF Return, EndCall, InScript, NotProfiled
  <2>2. /\ Len(vm) >= 2 /\ DOMAIN vm' = 1 .. Len(vm) - 1
        /\ \A i \in 1 .. Len(vm) - 1 : vm'[i].kind = vm[i].kind
    BY <1>1, <2>1, EndCallPops
  <2>3. vm' # <<>>
    BY <1>1, <2>2, EmptySeq
  <2>4. \A i \in DOMAIN vm' : vm'[i].kind = "exec" => i = 1
    BY <1>1, <2>2 DEF FlatInv
  <2>5. QED
    BY <2>1, <2>3, <2>4, InsideCall
<1>12. CASE Statement
  <2>1. Break /\ vm # <<>> /\ state' = state /\ Debug(Running)
    BY <1>12 DEF Statement, Break, InScript
  <2>2. /\ DOMAIN vm' = DOMAIN vm
        /\ \A i \in DOMAIN vm : vm'[i].kind = vm[i].kind
    BY <1>1, <2>1, BreakKeepsActivations
  <2>3. vm' # <<>>
    BY <1>1, <2>1, <2>2, EmptySeq
  <2>4. hooks' = hooks
    BY <2>1, Zenon
    DEF Debug, NotProfiled, Profiler!DebugHook
  <2>5. \A i \in DOMAIN vm' : vm'[i].kind = "exec" => i = 1
    BY <2>2 DEF FlatInv
  <2>6. QED
    BY <1>4, <2>1, <2>3, <2>4, <2>5, InsideCall DEF NotProfiled
<1>13. CASE ExecReturn \/ NativeReturn
  <2>1. /\ EndNative \/ EndExec
        /\ Profiler!ReturnToHook
        /\ state' = state \/ state' = "STOPPED"
        /\ vm # <<>>
    BY <1>13 DEF ExecReturn, NativeReturn, EndNative, EndExec, InScript
  <2>2. PP!ReturnToHook /\ (PP!EndNative \/ PP!EndExec)
    BY <2>1, SameHooks, SameSteps
  <2>3. PICK n \in DOMAIN vm :
            /\ Len(vm') = n - 1 /\ DOMAIN vm' = 1 .. n - 1
            /\ \A i \in 1 .. n - 1 : vm'[i] = vm[i]
            /\ hooks # <<>> /\ hooks[Len(hooks)].activation = n
    BY <1>1, <2>2, Assumptions, PP!HookReturns
  <2>4. VmTypeOK'
    BY <1>1, <2>1, EndPops
  <2>5. 1 \in DOMAIN hooks /\ hooks[1].activation = 1
    BY <2>1, FirstHook
  <2>6. callStack = <<>> => callStack' = <<>>
    BY <1>1, <2>1, EmptyStaysEmpty
  <2>7. CASE n = 1
    <3>1. vm' = <<>>
      BY <2>3, <2>4, <2>7, EmptySeq DEF VmTypeOK
    <3>2. Len(hooks) = 1
      <4>1. Len(hooks) \in DOMAIN hooks /\ (Len(hooks) = 1 \/ 1 < Len(hooks))
        BY <1>1, <2>5
      <4>2. ~(1 < Len(hooks))
        <5>1. 1 < Len(hooks) => 1 < hooks[Len(hooks)].activation
          BY <2>5, <4>1 DEF PP!EntriesInv, PP!HookInv
        <5>2. QED
          BY <2>3, <2>7, <5>1
      <4>3. QED
        BY <4>1, <4>2
    <3>3. CASE hooks[1].address = NoAddress
      BY <2>1, <2>6, <3>1, <3>3, EmptySeq DEF FlatInv
    <3>4. CASE hooks[1].address # NoAddress
      <4>1. hooks[1].entry = 1
        BY <2>1, <3>4 DEF FlatInv
      <4>2. Len(callStack') = hooks[1].entry - 1
        BY <1>1, <2>2, <2>3, <3>2, <3>4, Assumptions, PP!ReturnToHookPopsOwnEntry
      <4>3. callStack' \in Seq(PP!FunctionCall)
        BY <1>1, <2>2, Assumptions, PP!ReturnToHookType
      <4>4. callStack' = <<>>
        BY <4>1, <4>2, <4>3, EmptySeq
      <4>5. QED
        BY <3>1, <4>4, EmptySeq DEF FlatInv
    <3>5. QED
      BY <3>3, <3>4
  <2>8. CASE n # 1
    <3>1. 1 \in DOMAIN vm' /\ vm' # <<>>
      BY <1>1, <2>3, <2>8, EmptySeq
    <3>2. Len(hooks) # 1
      BY <2>3, <2>5, <2>8
    <3>3. hooks' = SubSeq(hooks, 1, Len(hooks) - 1)
      BY <2>2 DEF PP!ReturnToHook
    <3>4. 1 \in 1 .. Len(hooks) - 1 /\ Len(hooks) - 1 \in Int
          /\ Len(hooks) - 1 <= Len(hooks)
      BY <1>1, <2>5, <3>2
    <3>5. hooks'[1] = hooks[1]
      BY <1>1, <3>3, <3>4, PrefixOfStack
    <3>6. \A i \in DOMAIN vm' : vm'[i].kind = "exec" => i = 1
      BY <1>1, <2>3 DEF FlatInv
    <3>7. QED
      BY <2>1, <2>6, <3>1, <3>5, <3>6, InsideCall
  <2>9. QED
    BY <2>7, <2>8
<1>14. CASE AmxLoad \/ AmxUnload \/ UNCHANGED vars
  <2>1. CASE UNCHANGED vars
    BY <2>1 DEF vars, profilerVars, FlatInv
  <2>2. CASE AmxUnload
    BY <2>2, EmptySeq DEF AmxUnload, FlatInv
  <2>3. CASE AmxLoad
    BY <2>3 DEF AmxLoad, LoadedInv, profilerVars, FlatInv
  <2>4. QED
    BY <1>14, <2>1, <2>2, <2>3
<1>15. QED
  BY <1>6, <1>7, <1>9, <1>10, <1>11, <1>12, <1>13, <1>14 DEF Next

\* Between two calls from the server the call stack is empty, so that a start
\* or a stop that waits for it is completed by the next call, if no native
\* runs a public of the script.
THEOREM IdleAlwaysEmpty ==
    ASSUME Callees \subseteq Normals, Reentrant = {}
    PROVE  Spec => []IdleEmpty
<1>1. Init => FlatInv
  <2>1. SUFFICES ASSUME Init PROVE FlatInv
    OBVIOUS
  <2>2. vm = <<>> /\ callStack = <<>> /\ DOMAIN vm = {}
    BY <2>1, SameInit, EmptySeq DEF Init, PP!Init, PP!VmInit
  <2>3. QED
    BY <2>2 DEF FlatInv
<1>2. TypeOK /\ PP!EntriesInv /\ LoadedInv /\ FlatInv /\ [Next]_vars => FlatInv'
  BY StepKeepsFlat
<1>3. FlatInv => IdleEmpty
  BY DEF FlatInv, IdleEmpty
<1>4. QED
  BY <1>1, <1>2, <1>3, TypeCorrect, EntriesInvariant, UnusedAlwaysEmpty, PTL
  DEF Spec
=============================================================================
