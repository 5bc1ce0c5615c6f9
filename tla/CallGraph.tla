----------------------------- MODULE CallGraph -----------------------------
(***************************************************************************)
(* class CallGraph (src/src/amxprof/call_graph.cpp): the nodes are the     *)
(* functions entered so far, every node keeps the set of its callees, and  *)
(* a stack of nodes remembers where the program is.                        *)
(***************************************************************************)
EXTENDS Integers, Sequences

CONSTANTS
    Root,             \* the sentinel node, which stands for no function
    CallGraphEnabled  \* the enable_call_graph argument of the Profiler

ASSUME CallGraphAssumption == CallGraphEnabled \in BOOLEAN

VARIABLES
    nodes,      \* call_stack_, a stack of nodes named by their functions
    callees     \* the pairs <<n, m>> such that m is in n->callees()

GraphInit ==
    /\ nodes = <<>>
    /\ callees = {}

TopNode == IF nodes = <<>> THEN Root ELSE nodes[Len(nodes)]

PushCall(fn) ==
    IF CallGraphEnabled
    THEN /\ callees' = callees \cup {<<TopNode, fn>>}
         /\ nodes' = Append(nodes, fn)
    ELSE UNCHANGED <<nodes, callees>>

\* Mutant: PopCall is called once, not once per popped entry.
PopOneCall(count) ==
    /\ nodes' = SubSeq(nodes, 1, Len(nodes) - 1)
    /\ UNCHANGED callees

\* PopCall, count times in a row; it does nothing on an empty stack.
PopCalls(count) ==
    /\ nodes' = IF CallGraphEnabled
                THEN SubSeq(nodes, 1, Len(nodes) - count)
                ELSE nodes
    /\ UNCHANGED callees
=============================================================================
