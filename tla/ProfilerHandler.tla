-------------------------- MODULE ProfilerHandler --------------------------
(***************************************************************************)
(* class ProfilerHandler (src/src/profilerhandler.cpp), the object that    *)
(* the plugin keeps for a loaded script, composed with the Profiler it     *)
(* owns and with the script.  Every hook of the machine goes through the   *)
(* handler, which forwards it to the profiler only in the state STARTED.   *)
(* The script itself starts and stops the profiler, with natives that are  *)
(* profiled like any other, and Start and Stop complete in Exec, when the  *)
(* profiler's call stack is empty.                                         *)
(***************************************************************************)
EXTENDS Amx, CallGraph

CONSTANTS
    ProfilerStart, ProfilerStop,  \* the natives of natives.cpp that have an
                                  \* effect on it; scripts call them like others
    Reentrant,                    \* the natives that run publics of the script
    CountCalls, MaxCalls          \* see Profiler

ASSUME HandlerAssumption ==
    /\ {ProfilerStart, ProfilerStop} \subseteq Natives
    /\ Reentrant \subseteq Natives \ {ProfilerStart, ProfilerStop}
    /\ CountCalls \in BOOLEAN
    /\ MaxCalls \in Nat

VARIABLES
    callStack, hooks, fnType, numCalls,  \* profiler_, see Profiler
    loaded,  \* between AmxLoad and AmxUnload: the handler exists
    path,    \* whether amx_path_ was found and is listed in server.cfg
    hooked,  \* amx->debug and amx->callback are the plugin's
    state    \* state_

profilerVars == <<callStack, hooks, fnType, numCalls, nodes, callees>>
handlerVars == <<loaded, path, hooked>>
vars == <<vm, profilerVars, handlerVars, state>>

Profiler == INSTANCE Profiler

States == <<"DISABLED", "ATTACHING", "ATTACHED", "STARTING", "STARTED",
            "STOPPING", "STOPPED">>

\* The enumeration ProfilerState is compared with < and >=.
Rank(s) == CHOOSE i \in DOMAIN States : States[i] = s

TypeOK ==
    /\ Profiler!TypeOK
    /\ loaded \in BOOLEAN
    /\ path \in {"unknown", "unlisted", "listed"}
    /\ hooked \in BOOLEAN
    /\ state \in {States[i] : i \in DOMAIN States}

Init ==
    /\ Profiler!Init
    /\ loaded = FALSE
    /\ path = "unknown"
    /\ hooked = FALSE
    /\ state = "DISABLED"

-----------------------------------------------------------------------------
\* ProfilerHandler::Start, from the state s.
Start(s) == IF Rank(s) < Rank("ATTACHED") THEN "ATTACHING" ELSE "STARTING"

\* ProfilerHandler::Stop; it refuses a profiler that has not started.
Stop(s) == IF Rank(s) >= Rank("STARTED") THEN "STOPPING" ELSE s

\* Attach, from a state in which its state check passes.
CanAttach == path # "unknown"

\* Mutant: no fallthrough from Attach to CompleteStart.
StateAfterAttach ==
    IF callStack = <<>> /\ state = "ATTACHING" /\ CanAttach THEN "ATTACHED"
    ELSE IF callStack = <<>> /\ state = "STARTING" THEN "STARTED"
    ELSE state

\* The switch at the head of ProfilerHandler::Exec: Attach falls through to
\* CompleteStart.
StateInExec ==
    IF /\ callStack = <<>>
       /\ \/ state = "ATTACHING" /\ CanAttach
          \/ state = "STARTING"
    THEN "STARTED"
    ELSE state

\* Debug, Callback and Exec in another state than STARTED.
NotProfiled ==
    UNCHANGED <<callStack, hooks, fnType, numCalls, nodes, callees>>

HookNotProfiled ==
    /\ hooks' = Append(hooks, [address    |-> NoAddress,
                               entry      |-> 0,
                               activation |-> Len(vm) + 1])
    /\ UNCHANGED <<callStack, fnType, numCalls, nodes, callees>>

Debug(activation) ==
    IF hooked /\ state = "STARTED"
    THEN Profiler!DebugHook(activation)
    ELSE NotProfiled

\* Mutant: the frame is taken relative to the top of the stack.
CallbackRelativeFrame(fn) ==
    IF hooked /\ state = "STARTED"
    THEN Profiler!EnterHook(fn, "NATIVE", Running.frm - Stp)
    ELSE HookNotProfiled

\* Callback up to the native.
Callback(fn) ==
    IF hooked /\ state = "STARTED"
    THEN Profiler!EnterHook(fn, "NATIVE", Running.frm)
    ELSE HookNotProfiled

-----------------------------------------------------------------------------
(***************************************************************************)
(* AmxLoad: the handler is created, looks for the script's file and, when  *)
(* the configuration lists it, attaches.  Only then is Start called and    *)
(* are the hooks installed.                                                *)
(***************************************************************************)
AmxLoad ==
    /\ ~loaded
    /\ loaded' = TRUE
    /\ path' \in {"unknown", "unlisted", "listed"}
    /\ state' = IF path' = "listed" THEN Start("ATTACHED") ELSE "DISABLED"
    /\ hooked' = (path' = "listed")
    /\ UNCHANGED <<vm, profilerVars>>

\* AmxUnload: Stop and Dump, and the handler is destroyed with its profiler.
AmxUnload ==
    /\ loaded /\ vm = <<>>
    /\ loaded' = FALSE
    /\ path' = "unknown"
    /\ hooked' = FALSE
    /\ state' = "DISABLED"
    /\ callStack' = <<>> /\ nodes' = <<>> /\ callees' = {}
    /\ fnType' = [f \in DOMAIN fnType |-> "unknown"]
    /\ numCalls' = [f \in DOMAIN numCalls |-> 0]
    /\ UNCHANGED <<vm, hooks>>

\* Exec up to amx_Exec: the server, or a native, runs a public.
Exec(fn, size) ==
    /\ loaded
    /\ vm # <<>> => Running.fn \in Reentrant
    /\ BeginExec(fn, size)
    /\ state' = StateInExec
    /\ IF StateInExec = "STARTED"
       THEN Profiler!EnterHook(fn, "PUBLIC", StackBase - size)
       ELSE HookNotProfiled
    /\ UNCHANGED handlerVars

\* Mutants: the stop is completed without a look at the call stack; it looks
\* before the call that ends has been left.
StopWithoutLooking ==
    /\ EndExec
    /\ Profiler!ReturnToHook
    /\ state' = IF state = "STOPPING" THEN "STOPPED" ELSE state
    /\ UNCHANGED handlerVars

StopBeforeLeaving ==
    /\ EndExec
    /\ Profiler!ReturnToHook
    /\ state' = IF /\ hooks[Len(hooks)].address # NoAddress
                   /\ state = "STOPPING" /\ callStack = <<>>
                THEN "STOPPED"
                ELSE state
    /\ UNCHANGED handlerVars

\* The rest of Exec.  Only a call that ExecHook made completes a Stop.
ExecReturn ==
    /\ EndExec
    /\ Profiler!ReturnToHook
    /\ state' = IF /\ hooks[Len(hooks)].address # NoAddress
                   /\ state = "STOPPING" /\ callStack' = <<>>
                THEN "STOPPED"
                ELSE state
    /\ UNCHANGED handlerVars

Call(fn, size) ==
    /\ BeginCall(fn, size)
    /\ Debug([kind |-> "call", fn |-> fn, frm |-> StackBase - size])
    /\ UNCHANGED <<handlerVars, state>>

Return ==
    /\ EndCall
    /\ NotProfiled
    /\ UNCHANGED <<handlerVars, state>>

Statement ==
    /\ Break
    /\ Debug(Running)
    /\ UNCHANGED <<handlerVars, state>>

NativeCall(fn) ==
    /\ BeginNative(fn)
    /\ Callback(fn)
    /\ UNCHANGED <<handlerVars, state>>

\* Profiler_Start and Profiler_Stop change the state of the handler while the
\* profiler is inside their own call.
CallProfilerStart ==
    /\ BeginNative(ProfilerStart)
    /\ Callback(ProfilerStart)
    /\ state' = Start(state)
    /\ UNCHANGED handlerVars

CallProfilerStop ==
    /\ BeginNative(ProfilerStop)
    /\ Callback(ProfilerStop)
    /\ state' = Stop(state)
    /\ UNCHANGED handlerVars

NativeReturn ==
    /\ EndNative
    /\ Profiler!ReturnToHook
    /\ UNCHANGED <<handlerVars, state>>

Next ==
    \/ AmxLoad
    \/ AmxUnload
    \/ \E fn \in Publics, size \in FrameSizes : Exec(fn, size)
    \/ ExecReturn
    \/ \E fn \in Callees, size \in FrameSizes : Call(fn, size)
    \/ Return
    \/ Statement
    \/ \E fn \in Natives \ {ProfilerStart, ProfilerStop} : NativeCall(fn)
    \/ CallProfilerStart
    \/ CallProfilerStop
    \/ NativeReturn

Spec == Init /\ [][Next]_vars

(***************************************************************************)
(* Every public and every native that is called returns, or the server     *)
(* hangs; and the server goes on calling publics (timers, updates of the   *)
(* players) while the script is loaded.                                    *)
(***************************************************************************)
ServerCallsPublics ==
    \E fn \in Publics, size \in FrameSizes : vm = <<>> /\ Exec(fn, size)

Fairness ==
    /\ WF_vars(ServerCallsPublics)
    /\ \A depth \in 1 .. MaxDepth :
          SF_vars(Len(hooks) = depth /\ (ExecReturn \/ NativeReturn))

FairSpec == Spec /\ Fairness

-----------------------------------------------------------------------------
(***************************************************************************)
(* Properties, for scripts in which no OP_CALL targets a public.           *)
(***************************************************************************)

\* Whatever the order in which the script starts and stops the profiler, in
\* the middle of calls or between them, a profiler that is not in use has no
\* call left on its stack that a later start would find there.
UnusedIsEmpty ==
    state \in {"DISABLED", "ATTACHING", "ATTACHED", "STOPPED"} =>
        callStack = <<>>

\* A hook that returns pops its own entry and what is above it; a hook that
\* entered nothing pops nothing, also when the profiler started meanwhile.
ReturnPopsOwnEntry ==
    [][Len(hooks') < Len(hooks) =>
          LET hook == hooks[Len(hooks)]
          IN callStack' = IF hook.address = NoAddress
                          THEN callStack
                          ELSE SubSeq(callStack, 1, hook.entry - 1)]_vars

\* Between two calls from the server the call stack is empty, as profiler.h:77
\* says of every function that has returned.  Start and Stop wait for it.
IdleEmpty == vm = <<>> => callStack = <<>>

\* A Stop that finds calls in progress takes effect, unless it is revoked.
StopCompletes ==
    state = "STOPPING" /\ callStack # <<>> ~> state # "STOPPING"

\* A Start takes effect, if the script's file is known and until it is
\* unloaded, even if Stop is called first: a Start under way cannot be revoked.
StartCompletes ==
    \/ state = "STARTING"
    \/ state = "ATTACHING" /\ path # "unknown"
    ~> state = "STARTED" \/ ~loaded
=============================================================================
