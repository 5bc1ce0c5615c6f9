-------------------------------- MODULE Amx --------------------------------
(***************************************************************************)
(* The environment of the profiler: the abstract machine (AMX) that runs a *)
(* Pawn script and the server that calls it.  Neither is part of the       *)
(* plugin; the module says what src/src/amxprof/profiler.cpp and           *)
(* amx_utils.cpp rely on when they read amx->frm, amx->stk and the return  *)
(* address of a frame, and at which moments the machine calls the hooks.   *)
(*                                                                         *)
(* A script is abstracted to the calls it may make.  The stack of the      *)
(* machine grows down from Stp, so a frame that was entered later has a    *)
(* smaller address than the frames below it that are still alive.          *)
(***************************************************************************)
EXTENDS Integers, Sequences

CONSTANTS
    Publics,             \* functions in the table of publics, and main()
    Normals,             \* the other functions of the script
    Natives,             \* natives that the script calls through SYSREQ.C
    Callees,             \* the functions some OP_CALL of the script targets
    NoAddress,           \* the address 0
    Stp,                 \* amx->stp, the address of the empty stack
    FrameSizes,          \* how far a new frame may lie below its caller's
    MaxDepth,            \* bound: activations alive at a time
    OneCallPerStatement  \* the shape of the script's statements, see Fresh

Functions == Publics \cup Normals \cup Natives

ASSUME AmxAssumption ==
    /\ Publics \cap Normals = {}
    /\ Publics \cap Natives = {}
    /\ Normals \cap Natives = {}
    /\ NoAddress \notin Functions
    /\ Callees \subseteq Publics \cup Normals
    /\ Stp \in Nat \ {0}
    /\ FrameSizes \subseteq Nat \ {0}
    /\ MaxDepth \in Nat
    /\ OneCallPerStatement \in BOOLEAN

VARIABLE vm  \* the activations that are alive, the running one last

(***************************************************************************)
(* kind      how it was started: "exec" by amx_Exec, "call" by OP_CALL,    *)
(*           "native" by SYSREQ.C                                          *)
(* fn        the function                                                  *)
(* frm       amx->frm while it runs; a native runs on its caller's frame   *)
(* returned  the running statement has already got a result from OP_CALL   *)
(***************************************************************************)
Activation == [kind : {"exec", "call", "native"}, fn : Functions,
               frm : Nat, returned : BOOLEAN]

VmTypeOK == vm \in Seq(Activation)

Running == vm[Len(vm)]

\* The frame below which the next one is allocated.
StackBase == IF vm = <<>> THEN Stp ELSE Running.frm

InScript == vm # <<>> /\ Running.kind # "native"

Room(size) == Len(vm) < MaxDepth /\ StackBase - size > 0

(***************************************************************************)
(* The compiler emits a BREAK before every statement, so no BREAK executes *)
(* between two calls of one statement, as in f() + g().  With              *)
(* OneCallPerStatement the scripts considered are those in which a         *)
(* statement makes no further call once a called function has returned.    *)
(***************************************************************************)
Fresh == OneCallPerStatement => ~Running.returned

Started(kind, fn, frm) ==
    Append(vm, [kind |-> kind, fn |-> fn, frm |-> frm, returned |-> FALSE])

VmInit == vm = <<>>

\* amx_Exec: the server, or a native such as CallLocalFunction, runs a public.
BeginExec(fn, size) ==
    /\ vm # <<>> => Running.kind = "native"
    /\ Room(size)
    /\ vm' = Started("exec", fn, StackBase - size)

\* OP_CALL, PROC and the BREAK of the callee's first statement.
BeginCall(fn, size) ==
    /\ InScript /\ Fresh
    /\ Room(size)
    /\ vm' = Started("call", fn, StackBase - size)

\* RETN: the caller goes on in the middle of its statement.
EndCall ==
    /\ InScript /\ Running.kind = "call"
    /\ vm' = [SubSeq(vm, 1, Len(vm) - 1)
                 EXCEPT ![Len(vm) - 1].returned = TRUE]

\* The BREAK of the next statement of the running function.
Break ==
    /\ InScript
    /\ vm' = [vm EXCEPT ![Len(vm)].returned = FALSE]

\* SYSREQ.C: amx->callback runs a native for the script.
BeginNative(fn) ==
    /\ InScript /\ Fresh
    /\ Len(vm) < MaxDepth
    /\ vm' = Started("native", fn, Running.frm)

EndNative ==
    /\ vm # <<>> /\ Running.kind = "native"
    /\ vm' = SubSeq(vm, 1, Len(vm) - 1)

(***************************************************************************)
(* amx_Exec returns: the public returned, or a run-time error aborted      *)
(* everything that it had called.                                          *)
(***************************************************************************)
EndExec ==
    /\ InScript
    /\ \E n \in DOMAIN vm :
          /\ vm[n].kind = "exec"
          /\ \A m \in n + 1 .. Len(vm) : vm[m].kind = "call"
          /\ vm' = SubSeq(vm, 1, n - 1)

(***************************************************************************)
(* GetCalleeAddress: the operand of the OP_CALL before the return address  *)
(* stored in a frame.  amx_Exec stores the return address 0.               *)
(***************************************************************************)
GetCalleeAddress(activation) ==
    IF activation.kind = "call" THEN activation.fn ELSE NoAddress

\* Frames of the machine: the stack grows down and starts with a public.
MachineInv ==
    /\ vm # <<>> => vm[1].kind = "exec"
    /\ \A i \in DOMAIN vm : vm[i].kind = "call" => vm[i].fn \in Callees
    /\ \A i \in DOMAIN vm : vm[i].frm > 0
    /\ \A i, j \in DOMAIN vm : i < j => vm[i].frm >= vm[j].frm
=============================================================================
