----------------------------- MODULE FopenHook -----------------------------
(***************************************************************************)
(* The plugin's replacement of fopen (src/src/plugin.cpp, FopenHook) and   *)
(* the hook it is installed with (src/deps/subhook).  The first bytes of   *)
(* fopen are overwritten with a jump to FopenHook; to call the original,   *)
(* FopenHook removes the jump for as long as it runs, with a               *)
(* ScopedHookRemove.  Every thread of the server that opens a file comes   *)
(* through here, and nothing is locked: the actions below are the steps    *)
(* between which threads interleave.                                       *)
(*                                                                         *)
(* Only the main thread opens scripts.  A hook may be entered again from   *)
(* itself, when another thread has put the jump back meanwhile: removed    *)
(* counts the levels whose ScopedHookRemove will reinstall the hook; the   *)
(* others have nothing to do on return.                                    *)
(***************************************************************************)
EXTENDS Integers

CONSTANTS
    Threads, Main,
    Paths,      \* paths of *.amx files, numbered in the order of strings
    MaxOpens    \* bound: files that a thread opens

ASSUME FopenHookAssumption ==
    /\ Main \in Threads
    /\ Paths \subseteq Nat \ {0}
    /\ MaxOpens \in Nat

NoPath == 0  \* the empty string

VARIABLES
    patched,      \* fopen begins with the jump
    installed,    \* hook->installed
    pc,           \* where a thread is in FopenHook; "out" if it is not in fopen
    removed,      \* ScopedHookRemoves of a thread with removed_ set
    opens,        \* files opened by a thread so far
    opening,      \* filename, in the main thread
    lastAmxPath,  \* last_amx_path
    noticed       \* history: FopenHook has seen the file that Main is opening

hookVars == <<patched, installed, pc, removed, opens, opening, lastAmxPath,
              noticed>>

Steps == {"remove", "restore", "clear", "note", "leave", "patch", "set"}

HookTypeOK ==
    /\ patched \in BOOLEAN /\ installed \in BOOLEAN
    /\ pc \in [Threads -> Steps \cup {"out"}]
    /\ removed \in [Threads -> Nat]
    /\ opens \in [Threads -> Nat]
    /\ opening \in Paths \cup {NoPath}
    /\ lastAmxPath \in Paths \cup {NoPath}
    /\ noticed \in BOOLEAN

HookInit ==
    /\ patched = TRUE /\ installed = TRUE
    /\ pc = [t \in Threads |-> "out"]
    /\ removed = [t \in Threads |-> 0]
    /\ opens = [t \in Threads |-> 0]
    /\ opening = NoPath
    /\ lastAmxPath = NoPath
    /\ noticed = FALSE

Go(t, step) == pc' = [pc EXCEPT ![t] = step]

-----------------------------------------------------------------------------
\* The instruction that fopen begins with: the jump, or the original.
CallFopen(t) == Go(t, IF patched THEN "remove" ELSE "leave")

\* Another thread opens a file that is not a script; the main thread opens the
\* script p.
OpenOther(t) ==
    /\ t # Main /\ pc[t] = "out"
    /\ opens[t] < MaxOpens
    /\ opens' = [opens EXCEPT ![t] = @ + 1]
    /\ CallFopen(t)
    /\ UNCHANGED <<patched, installed, removed, opening, lastAmxPath, noticed>>

OpenScript(p) ==
    /\ pc[Main] = "out"
    /\ opens[Main] < MaxOpens
    /\ opens' = [opens EXCEPT ![Main] = @ + 1]
    /\ opening' = p
    /\ noticed' = FALSE
    /\ CallFopen(Main)
    /\ UNCHANGED <<patched, installed, removed, lastAmxPath>>

\* subhook_remove: the check; the code; the flag.
Remove(t) ==
    /\ pc[t] = "remove"
    /\ Go(t, IF installed THEN "restore" ELSE "note")
    /\ UNCHANGED <<patched, installed, removed, opens, opening, lastAmxPath,
                   noticed>>

RestoreCode(t) ==
    /\ pc[t] = "restore"
    /\ patched' = FALSE
    /\ Go(t, "clear")
    /\ UNCHANGED <<installed, removed, opens, opening, lastAmxPath, noticed>>

ClearFlag(t) ==
    /\ pc[t] = "clear"
    /\ installed' = FALSE
    /\ removed' = [removed EXCEPT ![t] = @ + 1]
    /\ Go(t, "note")
    /\ UNCHANGED <<patched, opens, opening, lastAmxPath, noticed>>

\* The path is stored and the original called, which may be hooked again.
NotePath(t) ==
    /\ pc[t] = "note"
    /\ lastAmxPath' = IF t = Main THEN opening ELSE lastAmxPath
    /\ noticed' = (noticed \/ t = Main)
    /\ CallFopen(t)
    /\ UNCHANGED <<patched, installed, removed, opens, opening>>

\* Mutant: the hook that was removed is not installed again.
LeaveRemoved(t) ==
    /\ pc[t] = "leave" /\ removed[t] > 0
    /\ removed' = [removed EXCEPT ![t] = @ - 1]
    /\ UNCHANGED <<patched, installed, pc, opens, opening, lastAmxPath, noticed>>

\* A level of FopenHook returns: ~ScopedHookRemove and the check of
\* subhook_install; then its code and its flag.
Leave(t) ==
    /\ pc[t] = "leave" /\ removed[t] > 0
    /\ \/ /\ installed
          /\ removed' = [removed EXCEPT ![t] = @ - 1]
          /\ UNCHANGED pc
       \/ /\ ~installed
          /\ Go(t, "patch")
          /\ UNCHANGED removed
    /\ UNCHANGED <<patched, installed, opens, opening, lastAmxPath, noticed>>

PatchCode(t) ==
    /\ pc[t] = "patch"
    /\ patched' = TRUE
    /\ Go(t, "set")
    /\ UNCHANGED <<installed, removed, opens, opening, lastAmxPath, noticed>>

SetFlag(t) ==
    /\ pc[t] = "set"
    /\ installed' = TRUE
    /\ removed' = [removed EXCEPT ![t] = @ - 1]
    /\ Go(t, "leave")
    /\ UNCHANGED <<patched, opens, opening, lastAmxPath, noticed>>

Return(t) ==
    /\ pc[t] = "leave" /\ removed[t] = 0
    /\ Go(t, "out")
    /\ UNCHANGED <<patched, installed, removed, opens, opening, lastAmxPath,
                   noticed>>

HookStep(t) ==
    \/ Remove(t) \/ RestoreCode(t) \/ ClearFlag(t) \/ NotePath(t)
    \/ Leave(t) \/ PatchCode(t) \/ SetFlag(t)

HookNext ==
    \E t \in Threads :
        HookStep(t) \/ OpenOther(t) \/ (\E p \in Paths : OpenScript(p)) \/ Return(t)

\* Threads run; none stops in fopen.
HookFairness == \A t \in Threads : WF_hookVars(HookStep(t) \/ Return(t))

HookSpec == HookInit /\ [][HookNext]_hookVars /\ HookFairness

-----------------------------------------------------------------------------
\* Whatever the interleaving of removals and installations, once all threads
\* are out of fopen the hook counts as installed: it can be removed again.
FlagIsRestored == (\A t \in Threads : pc[t] = "out") => installed

\* The invariant behind it: while the flag is clear some thread is to set it,
\* and no thread that is to install the hook leaves without.
FlagInv ==
    /\ ~installed => \E t \in Threads : removed[t] > 0
    /\ \A t \in Threads : pc[t] = "out" => removed[t] = 0
    /\ \A t \in Threads : pc[t] \in {"patch", "set"} => removed[t] > 0

\* ScopedHookRemove "removes the specified hook and automatically re-installs
\* it when the object goes out of scope" (deps/subhook/README.md:112-113), so
\* that the function can be called in its scope: every fopen returns.
OpensReturn == \A t \in Threads : pc[t] # "out" ~> pc[t] = "out"
=============================================================================
