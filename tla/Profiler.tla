------------------------------ MODULE Profiler ------------------------------
(***************************************************************************)
(* class Profiler (src/src/amxprof/profiler.cpp) attached to one script,   *)
(* with the call stack, the statistics and the call graph it owns.  The    *)
(* profiler never sees a call: it keeps its own stack of functions in step *)
(* with the machine by comparing frame addresses at every BREAK            *)
(* (DebugHook) and by wrapping amx_Callback and amx_Exec (CallbackHook,    *)
(* ExecHook).                                                              *)
(***************************************************************************)
EXTENDS Amx, CallGraph, FiniteSets

CONSTANTS
    CountCalls,  \* whether numCalls is kept: nothing the profiler does reads
                 \* it, and liveness needs behaviours without a last call
    MaxCalls     \* bound: how often one function is entered

ASSUME ProfilerAssumption ==
    /\ CountCalls \in BOOLEAN
    /\ MaxCalls \in Nat

VARIABLES
    callStack,  \* CallStack::calls_, the top last
    hooks,      \* the CallbackHook and ExecHook that have not returned
    fnType,     \* Statistics: the type of each known function
    numCalls    \* FunctionStatistics::num_calls_

statVars == <<fnType, numCalls>>
graphVars == <<nodes, callees>>
vars == <<vm, callStack, hooks, fnType, numCalls, nodes, callees>>

FunctionCall == [fn : Functions, frame : Nat]

(***************************************************************************)
(* address is the local variable of a hook that is waiting for callback()  *)
(* or exec().  The other two fields are history: the place of the entry it *)
(* pushed and of the activation it runs, which only properties mention.    *)
(***************************************************************************)
Hook == [address : Functions \cup {NoAddress}, entry : Nat, activation : Nat]

TypeOK ==
    /\ VmTypeOK
    /\ callStack \in Seq(FunctionCall)
    /\ hooks \in Seq(Hook)
    /\ fnType \in [Functions -> {"unknown", "NORMAL", "PUBLIC", "NATIVE"}]
    /\ numCalls \in [Functions -> Nat]
    /\ nodes \in Seq(Functions)
    /\ callees \subseteq (Functions \cup {Root}) \X Functions

Init ==
    /\ VmInit
    /\ GraphInit
    /\ callStack = <<>>
    /\ hooks = <<>>
    /\ fnType = [f \in Functions |-> "unknown"]
    /\ numCalls = [f \in Functions |-> 0]

Top == callStack[Len(callStack)]

-----------------------------------------------------------------------------
\* GetFunction and, for a function met for the first time, AddFunction.
Register(address, type) ==
    fnType' = IF fnType[address] = "unknown"
              THEN [fnType EXCEPT ![address] = type]
              ELSE fnType

AdjustNumCalls(address) ==
    IF CountCalls
    THEN /\ numCalls[address] < MaxCalls
         /\ numCalls' = [numCalls EXCEPT ![address] = @ + 1]
    ELSE UNCHANGED numCalls

EnterFunction(address, frame) ==
    /\ AdjustNumCalls(address)
    /\ callStack' = Append(callStack, [fn |-> address, frame |-> frame])
    /\ PushCall(address)

(***************************************************************************)
(* LeaveFunction pops entries until one of them stops the loop.  rest is   *)
(* what is left of the stack.  The frame 0 stands for no frame.            *)
(***************************************************************************)
\* Mutants: the caller's own frame does not stop the loop; the address does
\* not stop it.
StopsAboveFrame(i, address, frame) ==
    \/ callStack[i].fn = address
    \/ frame # 0 /\ i > 1 /\ callStack[i - 1].frame > frame

StopsByFrameOnly(i, address, frame) ==
    frame # 0 /\ i > 1 /\ callStack[i - 1].frame >= frame

StopsPopping(i, address, frame) ==
    \/ callStack[i].fn = address
    \/ frame # 0 /\ i > 1 /\ callStack[i - 1].frame >= frame

\* Mutant: a single entry is popped instead of a loop.
LeaveTopOnly(address, frame) ==
    /\ callStack' = SubSeq(callStack, 1, Len(callStack) - 1)
    /\ PopCalls(1)

LeaveFunction(address, frame) ==
    \E rest \in {0} \cup 1 .. Len(callStack) - 1 :
        /\ rest > 0 => StopsPopping(rest + 1, address, frame)
        /\ \A i \in rest + 2 .. Len(callStack) :
              ~StopsPopping(i, address, frame)
        /\ callStack' = SubSeq(callStack, 1, rest)
        /\ PopCalls(Len(callStack) - rest)

\* Mutant: the frame is read at the wrong end of the stack.
BottomFrame == IF callStack = <<>> THEN Stp ELSE callStack[1].frame

PrevFrame == IF callStack = <<>> THEN Stp ELSE Top.frame

\* The BREAK of an activation whose frame is amx->frm.
DebugHook(activation) ==
    LET frm == activation.frm
        address == GetCalleeAddress(activation)
        Entered == frm < PrevFrame /\ address # NoAddress
        Left == /\ frm > PrevFrame
                /\ callStack # <<>> /\ fnType[Top.fn] = "NORMAL"
    IN /\ \/ /\ Entered
             /\ Register(address, "NORMAL")
             /\ EnterFunction(address, frm)
          \/ /\ Left
             /\ LeaveFunction(NoAddress, frm)
             /\ UNCHANGED statVars
          \/ /\ ~Entered /\ ~Left
             /\ UNCHANGED <<callStack, statVars, graphVars>>
       /\ UNCHANGED hooks

\* The common part of CallbackHook and ExecHook, before the wrapped call.
EnterHook(address, type, frame) ==
    /\ Register(address, type)
    /\ EnterFunction(address, frame)
    /\ hooks' = Append(hooks, [address    |-> address,
                               entry      |-> Len(callStack) + 1,
                               activation |-> Len(vm) + 1])

\* The rest of the hook, after the wrapped call.
ReturnToHook ==
    LET hook == hooks[Len(hooks)]
    IN /\ IF hook.address # NoAddress
          THEN LeaveFunction(hook.address, 0)
          ELSE UNCHANGED <<callStack, graphVars>>
       /\ hooks' = SubSeq(hooks, 1, Len(hooks) - 1)
       /\ UNCHANGED statVars

-----------------------------------------------------------------------------
\* A public is run: ExecHook up to exec().
Exec(fn, size) ==
    /\ BeginExec(fn, size)
    /\ EnterHook(fn, "PUBLIC", StackBase - size)

\* A function is called by the script and reaches its first BREAK.
Call(fn, size) ==
    /\ BeginCall(fn, size)
    /\ DebugHook([kind |-> "call", fn |-> fn, frm |-> StackBase - size])

\* A called function returns; nobody tells the profiler.
Return ==
    /\ EndCall
    /\ UNCHANGED <<callStack, hooks, statVars, graphVars>>

\* The running function goes on to its next statement.
Statement ==
    /\ Break
    /\ DebugHook(Running)

\* The script calls a native: CallbackHook up to callback().
NativeCall(fn) ==
    /\ BeginNative(fn)
    /\ EnterHook(fn, "NATIVE", Running.frm)

NativeReturn ==
    /\ EndNative
    /\ ReturnToHook

ExecReturn ==
    /\ EndExec
    /\ ReturnToHook

Next ==
    \/ \E fn \in Publics, size \in FrameSizes : Exec(fn, size)
    \/ \E fn \in Callees, size \in FrameSizes : Call(fn, size)
    \/ Return
    \/ Statement
    \/ \E fn \in Natives : NativeCall(fn)
    \/ NativeReturn
    \/ ExecReturn

Spec == Init /\ [][Next]_vars

-----------------------------------------------------------------------------
(***************************************************************************)
(* Properties.  Except where it is said, they assume Callees \subseteq     *)
(* Normals: no public is the target of an OP_CALL.                         *)
(***************************************************************************)

\* Every hook in progress still has on the call stack the entry that it
\* pushed, later hooks above earlier ones, so that its LeaveFunction will find
\* it: DebugHook never pops an entry of a running public or native.
HooksKeepTheirEntries ==
    /\ \A k \in DOMAIN hooks :
          /\ hooks[k].entry \in DOMAIN callStack
          /\ callStack[hooks[k].entry].fn = hooks[k].address
    /\ \A k, l \in DOMAIN hooks : k < l => hooks[k].entry < hooks[l].entry

\* Between two calls from the server the profiler's stacks are empty.  The
\* handler completes Start and Stop only then (profilerhandler.cpp:201, 215).
IdleEmpty == vm = <<>> => callStack = <<>> /\ nodes = <<>>

\* The call graph's own stack is the call stack, and every caller and callee
\* that are adjacent on it are an edge of the graph.
GraphFollowsStack ==
    /\ ~CallGraphEnabled => nodes = <<>>
    /\ CallGraphEnabled =>
          /\ Len(nodes) = Len(callStack)
          /\ \A i \in DOMAIN nodes :
                /\ nodes[i] = callStack[i].fn
                /\ <<IF i = 1 THEN Root ELSE nodes[i - 1], nodes[i]>> \in callees

\* When CallbackHook or ExecHook returns, LeaveFunction pops the entry that
\* this very hook pushed and everything above it, and nothing below, even when
\* the same function is on the stack several times.
ReturnPopsOwnEntry ==
    [][Len(hooks') < Len(hooks) =>
          callStack' = SubSeq(callStack, 1, hooks[Len(hooks)].entry - 1)]_vars

\* The profiler's stack is the machine's stack, but for functions that have
\* returned to the running statement and are popped at its next BREAK.  Only
\* with OneCallPerStatement.
StackMatchesMachine ==
    /\ Len(vm) <= Len(callStack)
    /\ \A i \in DOMAIN vm :
          /\ callStack[i].fn = vm[i].fn
          /\ callStack[i].frame = vm[i].frm
    /\ Len(vm) < Len(callStack) => Running.returned

\* A function that is running has been counted at least once per activation
\* (README.md:9, "how many times it is called").
RunningIsCounted ==
    \A fn \in Functions :
        numCalls[fn] >= Cardinality({i \in DOMAIN vm : vm[i].fn = fn})

\* A function's type says by which hook it was met.
FnTypeInv ==
    /\ \A fn \in Normals : fnType[fn] \in {"unknown", "NORMAL"}
    /\ \A fn \in Publics \cup Natives : fnType[fn] # "NORMAL"

\* The hooks in progress are the publics and natives that are running, and each
\* that entered something holds its entry on the call stack, with its frame.
HookInv ==
    /\ \A k \in DOMAIN hooks :
          /\ hooks[k].activation \in DOMAIN vm
          /\ vm[hooks[k].activation].kind # "call"
          /\ hooks[k].address # NoAddress =>
                /\ hooks[k].entry \in DOMAIN callStack
                /\ callStack[hooks[k].entry].fn = hooks[k].address
                /\ callStack[hooks[k].entry].frame = vm[hooks[k].activation].frm
                /\ hooks[k].address \in Publics \cup Natives
    /\ \A k, l \in DOMAIN hooks :
          k < l =>
             /\ hooks[k].activation < hooks[l].activation
             /\ NoAddress \notin {hooks[k].address, hooks[l].address} =>
                   hooks[k].entry < hooks[l].entry
    /\ \A i \in DOMAIN vm :
          vm[i].kind # "call" => \E k \in DOMAIN hooks : hooks[k].activation = i

\* Every other entry is an ordinary function's.
EntryInv ==
    \A i \in DOMAIN callStack :
        \/ callStack[i].fn \in Normals
        \/ \E k \in DOMAIN hooks :
              hooks[k].address # NoAddress /\ hooks[k].entry = i

\* Here, but not in ProfilerHandler, every hook enters its function, and the
\* first entry is the first hook's.
BottomInv ==
    /\ \A k \in DOMAIN hooks : hooks[k].address # NoAddress
    /\ callStack # <<>> => hooks # <<>> /\ hooks[1].entry = 1

\* The inductive invariant of ProfilerProofs, for Callees \subseteq Normals.
\* The first part of it also holds when only some of the hooks are profiled.
EntriesInv ==
    MachineInv /\ FnTypeInv /\ HookInv /\ EntryInv /\ GraphFollowsStack

StackInv == EntriesInv /\ BottomInv

\* What a user wants from the profile: see IdealProfiler.  Only with
\* OneCallPerStatement.
Ideal == INSTANCE IdealProfiler
    WITH stack <- [i \in DOMAIN vm |-> vm[i].fn],
         calls <- numCalls,
         edges <- callees

IdealSpec == Ideal!Spec
=============================================================================
