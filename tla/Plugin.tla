------------------------------- MODULE Plugin -------------------------------
(***************************************************************************)
(* How the plugin finds the file of a script (src/src/plugin.cpp,          *)
(* amxpathfinder.cpp, amxhandler.h).  The server opens the file of a       *)
(* script, loads it into an AMX and calls AmxLoad.  If FopenHook has seen  *)
(* a script being opened, the last one is taken to be the script's file;   *)
(* otherwise, and unless a path is known for the AMX, AMXPathFinder opens  *)
(* all scripts in its search paths and compares headers.                   *)
(*                                                                         *)
(* AmxLoad is one step of the main thread, although it opens files itself: *)
(* what FopenHook notes of these, see Noted.                               *)
(***************************************************************************)
EXTENDS FopenHook

CONSTANTS
    Amx,        \* addresses of AMX structures
    Headers,    \* headers of scripts, as far as memcmp tells them apart
    NotAScript, \* the content of a file that is not a script
    NoFile,     \* the content of a file that does not exist
    Nothing,    \* the value of a key that is in no map
    Listed,     \* the paths for which ShouldBeProfiled is true
    MaxWrites   \* bound: changes of files

Contents == Headers \cup {NotAScript, NoFile}
AMXFile == [header : Headers, mtime : Nat]
Handler == [path : Paths \cup {NoPath}, attached : BOOLEAN]
Script == [file : Paths, header : Headers, noticed : BOOLEAN]

ASSUME PluginAssumption ==
    /\ Listed \subseteq Paths
    /\ NotAScript \notin Headers /\ NoFile \notin Headers \cup {NotAScript}
    /\ Nothing \notin Script \cup Handler \cup AMXFile
    /\ MaxWrites \in Nat

VARIABLES
    disk, mtime,  \* content and modification time of the files
    script,       \* the server's scripts: their file and header
    writes,
    known,        \* amx_to_string_; NoPath if there is no entry
    files,        \* string_to_amx_file_
    handlers,     \* handlers_
    tidy          \* history: no file was deleted, or changed twice within the
                  \* precision of its modification time

serverVars == <<disk, mtime, script, writes, tidy>>
vars == <<hookVars, serverVars, known, files, handlers>>

TypeOK ==
    /\ HookTypeOK
    /\ disk \in [Paths -> Contents] /\ mtime \in [Paths -> Nat]
    /\ script \in [Amx -> Script \cup {Nothing}]
    /\ writes \in Nat
    /\ known \in [Amx -> Paths \cup {NoPath}]
    /\ files \in [Paths -> AMXFile \cup {Nothing}]
    /\ handlers \in [Amx -> Handler \cup {Nothing}]
    /\ tidy \in BOOLEAN

Init ==
    /\ HookInit
    /\ disk \in [Paths -> Contents] /\ mtime = [p \in Paths |-> 1]
    /\ script = [a \in Amx |-> Nothing]
    /\ writes = 0
    /\ known = [a \in Amx |-> NoPath]
    /\ files = [p \in Paths |-> Nothing]
    /\ handlers = [a \in Amx |-> Nothing]
    /\ tidy = TRUE

OthersOut == \A t \in Threads \ {Main} : pc[t] = "out"

-----------------------------------------------------------------------------
\* Somebody writes or deletes a file; its time has the precision of a clock.
WriteFile(p, content) ==
    /\ writes < MaxWrites
    /\ writes' = writes + 1
    /\ disk' = [disk EXCEPT ![p] = content]
    /\ \E time \in {mtime[p], mtime[p] + 1} :
          /\ mtime' = [mtime EXCEPT ![p] = time]
          /\ tidy' = (tidy /\ time # mtime[p] /\ content # NoFile)
    /\ UNCHANGED <<hookVars, script, known, files, handlers>>

\* The server opens the file of a script that is not loaded, and reads it into
\* an AMX that is not in use.
ServerLoads(a, p) ==
    /\ script[a] = Nothing
    /\ disk[p] \in Headers
    /\ \A b \in Amx : script[b] # Nothing => script[b].file # p
    /\ script' = [script EXCEPT
                     ![a] = [file |-> p, header |-> disk[p], noticed |-> FALSE]]
    /\ OpenScript(p)
    /\ UNCHANGED <<disk, mtime, writes, known, files, handlers, tidy>>

-----------------------------------------------------------------------------
\* Mutant: insert, which leaves an old entry alone, as the map in Find does.
InsertKnownFile(a) ==
    IF lastAmxPath # NoPath /\ known[a] = NoPath
    THEN [known EXCEPT ![a] = lastAmxPath]
    ELSE known

\* The head of AmxLoad.
AddKnownFile(a) ==
    IF lastAmxPath # NoPath
    THEN [known EXCEPT ![a] = lastAmxPath]
    ELSE known

\* Mutant: files that changed are not read again.
IsUnread(p) == disk[p] # NoFile /\ files[p] = Nothing

\* The files that a search opens: new ones and changed ones.
IsStale(p) ==
    /\ disk[p] # NoFile
    /\ \/ files[p] = Nothing
       \/ files[p] # Nothing /\ files[p].mtime < mtime[p]

\* string_to_amx_file_ after the search.
FilesRead ==
    [p \in Paths |->
        IF ~IsStale(p) THEN files[p]
        ELSE IF disk[p] \in Headers
             THEN [header |-> disk[p], mtime |-> mtime[p]]
             ELSE Nothing]

\* The first file with the header of the script; NoPath if there is none.
IsFound(a, path) ==
    LET Matches == {p \in Paths : /\ FilesRead[p] # Nothing
                                  /\ FilesRead[p].header = script[a].header}
    IN \/ path \in Matches /\ \A p \in Matches : path <= p
       \/ path = NoPath /\ Matches = {}

\* What last_amx_path may be after the plugin opened the files in opened, in
\* any order, when it was last: FopenHook sees all of them or, while another
\* thread has the hook removed, some.
Noted(last, opened) ==
    IF opened = {} THEN {last}
    ELSE IF ~OthersOut THEN opened \cup {last}
    ELSE IF patched THEN opened ELSE {last}

\* The same after Attach, which opens the script's file if it was compiled with
\* debug information.
DebugInfoNoted(last, path) == {last} \cup Noted(last, {path})

\* AmxLoad with ProfilerHandler::Load, Find and Attach.
AmxLoad(a) ==
    /\ script[a] # Nothing /\ handlers[a] = Nothing
    /\ pc[Main] = "leave" /\ removed[Main] = 0
    /\ script' = [script EXCEPT ![a].noticed = noticed]
    /\ \E path \in Paths \cup {NoPath} :
          LET entry == AddKnownFile(a)
              searched == entry[a] = NoPath
              opened == IF searched THEN {p \in Paths : IsStale(p)} ELSE {}
              attached == path \in Listed
          IN /\ IF searched THEN IsFound(a, path) ELSE path = entry[a]
             /\ known' = [entry EXCEPT ![a] = path]
             /\ files' = IF searched THEN FilesRead ELSE files
             /\ handlers' = [handlers EXCEPT
                                ![a] = [path |-> path, attached |-> attached]]
             /\ \E last \in Noted(lastAmxPath, opened) :
                   IF attached THEN lastAmxPath' \in DebugInfoNoted(last, path)
                   ELSE lastAmxPath' = last
    /\ Go(Main, "out")
    /\ UNCHANGED <<patched, installed, removed, opens, opening, noticed, disk,
                   mtime, writes, tidy>>

\* A script that asked for its profiler with Profiler_Start runs a public:
\* ProfilerHandler::Attach.
Attach(a) ==
    /\ pc[Main] = "out"
    /\ handlers[a] # Nothing
    /\ ~handlers[a].attached /\ handlers[a].path # NoPath
    /\ handlers' = [handlers EXCEPT ![a].attached = TRUE]
    /\ lastAmxPath' \in DebugInfoNoted(lastAmxPath, handlers[a].path)
    /\ UNCHANGED <<patched, installed, pc, removed, opens, opening, noticed,
                   serverVars, known, files>>

\* AmxUnload; the server forgets the script.
AmxUnload(a) ==
    /\ pc[Main] = "out"
    /\ handlers[a] # Nothing
    /\ handlers' = [handlers EXCEPT ![a] = Nothing]
    /\ script' = [script EXCEPT ![a] = Nothing]
    /\ UNCHANGED <<hookVars, disk, mtime, writes, known, files, tidy>>

OtherThread(t) ==
    \/ OpenOther(t)
    \/ t # Main /\ Return(t)

Next ==
    \/ \E t \in Threads :
          HookStep(t) /\ UNCHANGED <<serverVars, known, files, handlers>>
    \/ \E t \in Threads :
          OtherThread(t) /\ UNCHANGED <<serverVars, known, files, handlers>>
    \/ \E p \in Paths : \E content \in Contents : WriteFile(p, content)
    \/ \E a \in Amx : \E p \in Paths : ServerLoads(a, p)
    \/ \E a \in Amx : AmxLoad(a) \/ Attach(a) \/ AmxUnload(a)

Spec == Init /\ [][Next]_vars

-----------------------------------------------------------------------------
\* A script that FopenHook saw being opened gets the path of its own file,
\* whatever else was opened before, by whom, and whatever its AMX was before.
NoticedPathIsRight ==
    \A a \in Amx :
        /\ handlers[a] # Nothing
        /\ script[a].noticed
        => handlers[a].path = script[a].file

\* The inductive invariant behind it and FlagIsRestored: while a script is being
\* loaded the main thread is opening its file, and a path noticed then is that
\* file's until AmxLoad has used it.
IsLoading(a) == script[a] # Nothing /\ handlers[a] = Nothing

LoadInv ==
    /\ \A a \in Amx : IsLoading(a) => /\ pc[Main] # "out"
                                       /\ opening = script[a].file
    /\ \A a, b \in Amx : IsLoading(a) /\ IsLoading(b) => a = b
    /\ pc[Main] # "out" /\ noticed => lastAmxPath = opening

PluginInv == FlagInv /\ LoadInv /\ NoticedPathIsRight

\* A search finds a file with the script's own header, if there still is one.
SearchIsExact ==
    [][\A a \in Amx :
          /\ tidy
          /\ handlers[a] = Nothing /\ handlers'[a] # Nothing
          /\ known[a] = NoPath /\ lastAmxPath = NoPath
          => LET path == handlers'[a].path
                 Same == {p \in Paths : disk[p] = script[a].header}
             IN IF Same = {} THEN path = NoPath ELSE path \in Same]_vars
=============================================================================
