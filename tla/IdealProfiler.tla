--------------------------- MODULE IdealProfiler ---------------------------
(***************************************************************************)
(* The profile a user expects of a script, whatever way it is collected:   *)
(* every call is counted once, when it happens, and makes one edge from    *)
(* the function that is really running to the one it calls; a return (or a *)
(* run-time error, which ends several calls) changes no count and no edge. *)
(***************************************************************************)
EXTENDS Integers, Sequences

CONSTANTS
    Functions,
    Root,             \* the caller of the functions the server calls
    CallGraphEnabled

VARIABLES
    stack,  \* the functions being executed, the running one last
    calls,  \* how many times each function was called
    edges   \* who called whom

Init ==
    /\ stack = <<>>
    /\ calls = [f \in Functions |-> 0]
    /\ edges = {}

Caller == IF stack = <<>> THEN Root ELSE stack[Len(stack)]

Enter(f) ==
    /\ stack' = Append(stack, f)
    /\ calls' = [calls EXCEPT ![f] = @ + 1]
    /\ edges' = IF CallGraphEnabled THEN edges \cup {<<Caller, f>>} ELSE edges

Leave ==
    /\ \E n \in 0 .. Len(stack) - 1 : stack' = SubSeq(stack, 1, n)
    /\ UNCHANGED <<calls, edges>>

Next == (\E f \in Functions : Enter(f)) \/ Leave

Spec == Init /\ [][Next]_<<stack, calls, edges>>
=============================================================================
