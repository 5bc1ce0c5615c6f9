---------------------------- MODULE PluginProofs ----------------------------
(***************************************************************************)
(* Theorems about Plugin and the hook of fopen it extends, for any number  *)
(* of threads, scripts and files.                                          *)
(***************************************************************************)
EXTENDS Plugin, TLAPS

USE FopenHookAssumption, PluginAssumption DEF NoPath, IsLoading

\* What the steps do to the variables that the server and the plugin share.
LEMMA FilesReadType ==
    ASSUME TypeOK
    PROVE  FilesRead \in [Paths -> AMXFile \cup {Nothing}]
  BY DEF TypeOK, FilesRead, AMXFile, Contents

LEMMA AddKnownFileType ==
    ASSUME TypeOK, NEW a \in Amx
    PROVE  AddKnownFile(a) \in [Amx -> Paths \cup {NoPath}]
  BY DEF TypeOK, HookTypeOK, AddKnownFile

LEMMA NotedType ==
    ASSUME NEW opened \in SUBSET Paths, NEW last \in Paths \cup {NoPath}
    PROVE  Noted(last, opened) \subseteq Paths \cup {NoPath}
  BY DEF Noted

\* A step of FopenHook in any thread keeps its variables in their types.
LEMMA HookStepType ==
    ASSUME HookTypeOK, FlagInv, NEW t \in Threads, HookStep(t)
    PROVE  HookTypeOK'
<1> USE DEF HookTypeOK, FlagInv, Steps, Go, CallFopen
<1>1. CASE Remove(t)       BY <1>1 DEF Remove
<1>2. CASE RestoreCode(t)  BY <1>2 DEF RestoreCode
<1>3. CASE ClearFlag(t)
  <2>1. removed' \in [Threads -> Nat]
    BY <1>3 DEF ClearFlag
  <2>2. pc' \in [Threads -> Steps \cup {"out"}]
    BY <1>3 DEF ClearFlag
  <2> QED BY <1>3, <2>1, <2>2 DEF ClearFlag
<1>4. CASE NotePath(t)     BY <1>4 DEF NotePath
<1>5. CASE Leave(t)        BY <1>5 DEF Leave
<1>6. CASE PatchCode(t)    BY <1>6 DEF PatchCode
<1>7. CASE SetFlag(t)      BY <1>7 DEF SetFlag
<1> QED BY <1>1, <1>2, <1>3, <1>4, <1>5, <1>6, <1>7 DEF HookStep

\* Whoever clears the flag, or finds it clear, is counted in removed.
LEMMA HookStepFlag ==
    ASSUME HookTypeOK, FlagInv, NEW t \in Threads, HookStep(t)
    PROVE  FlagInv'
<1> USE DEF HookTypeOK, FlagInv, Steps, Go, CallFopen
<1>1. CASE Remove(t)       BY <1>1 DEF Remove
<1>2. CASE RestoreCode(t)  BY <1>2 DEF RestoreCode
<1>3. CASE ClearFlag(t)    BY <1>3 DEF ClearFlag
<1>4. CASE NotePath(t)     BY <1>4 DEF NotePath
<1>5. CASE Leave(t)        BY <1>5 DEF Leave
<1>6. CASE PatchCode(t)    BY <1>6 DEF PatchCode
<1>7. CASE SetFlag(t)      BY <1>7 DEF SetFlag
<1> QED BY <1>1, <1>2, <1>3, <1>4, <1>5, <1>6, <1>7 DEF HookStep

-----------------------------------------------------------------------------
LEMMA InitTypeOK == Init => TypeOK
<1>1. HookInit => HookTypeOK
  <2> SUFFICES ASSUME HookInit PROVE HookTypeOK
    OBVIOUS
  <2>1. pc \in [Threads -> Steps \cup {"out"}]
    BY DEF HookInit
  <2>2. removed \in [Threads -> Nat] /\ opens \in [Threads -> Nat]
    BY DEF HookInit
  <2> QED BY <2>1, <2>2 DEF HookInit, HookTypeOK
<1> QED BY <1>1 DEF Init, TypeOK

LEMMA InitInv == Init => PluginInv
  BY DEF Init, HookInit, PluginInv, FlagInv, LoadInv, NoticedPathIsRight

\* Every step keeps the types.
LEMMA NextTypeOK ==
    ASSUME TypeOK, FlagInv, [Next]_vars
    PROVE  TypeOK'
<1>1. ASSUME NEW t \in Threads, HookStep(t),
             UNCHANGED <<serverVars, known, files, handlers>>
      PROVE  TypeOK'
  BY <1>1, HookStepType DEF TypeOK, serverVars
<1>2. ASSUME NEW t \in Threads, OtherThread(t),
             UNCHANGED <<serverVars, known, files, handlers>>
      PROVE  TypeOK'
  BY <1>2 DEF TypeOK, HookTypeOK, serverVars, OtherThread, OpenOther, Return,
              CallFopen, Go, Steps
<1>3. ASSUME NEW p \in Paths, NEW content \in Contents, WriteFile(p, content)
      PROVE  TypeOK'
  BY <1>3 DEF TypeOK, HookTypeOK, hookVars, WriteFile
<1>4. ASSUME NEW a \in Amx, NEW p \in Paths, ServerLoads(a, p)
      PROVE  TypeOK'
  <2>1. HookTypeOK'
    <3>1. opens' \in [Threads -> Nat]
      BY <1>4 DEF TypeOK, HookTypeOK, ServerLoads, OpenScript
    <3>2. pc' \in [Threads -> Steps \cup {"out"}]
      BY <1>4 DEF TypeOK, HookTypeOK, ServerLoads, OpenScript, CallFopen, Go, Steps
    <3> QED BY <1>4, <3>1, <3>2 DEF TypeOK, HookTypeOK, ServerLoads, OpenScript
  <2>2. script' \in [Amx -> Script \cup {Nothing}]
    BY <1>4 DEF TypeOK, ServerLoads, Script
  <2> QED BY <1>4, <2>1, <2>2 DEF TypeOK, ServerLoads
<1>5. ASSUME NEW a \in Amx, AmxLoad(a)
      PROVE  TypeOK'
  <2>1. script' \in [Amx -> Script \cup {Nothing}]
    BY <1>5 DEF AmxLoad, TypeOK, HookTypeOK, Script
  <2> DEFINE entry == AddKnownFile(a)
             searched == entry[a] = NoPath
             opened == IF searched THEN {p \in Paths : IsStale(p)} ELSE {}
  <2>2. PICK path \in Paths \cup {NoPath} :
          /\ known' = [entry EXCEPT ![a] = path]
          /\ files' = IF searched THEN FilesRead ELSE files
          /\ handlers' = [handlers EXCEPT
                ![a] = [path |-> path, attached |-> path \in Listed]]
          /\ \E last \in Noted(lastAmxPath, opened) :
                IF path \in Listed
                THEN lastAmxPath' \in DebugInfoNoted(last, path)
                ELSE lastAmxPath' = last
    BY <1>5 DEF AmxLoad
  <2>3. known' \in [Amx -> Paths \cup {NoPath}]
    BY <2>2, AddKnownFileType
  <2>4. files' \in [Paths -> AMXFile \cup {Nothing}]
    BY <2>2, FilesReadType DEF TypeOK
  <2>5. handlers' \in [Amx -> Handler \cup {Nothing}]
    BY <2>2 DEF TypeOK, Handler
  <2>6. lastAmxPath' \in Paths \cup {NoPath}
    <3>1. PICK last \in Noted(lastAmxPath, opened) :
             IF path \in Listed
             THEN lastAmxPath' \in DebugInfoNoted(last, path)
             ELSE lastAmxPath' = last
      BY <2>2
    <3>2. last \in Paths \cup {NoPath}
      BY NotedType DEF TypeOK, HookTypeOK
    <3> QED BY <3>1, <3>2, NotedType DEF DebugInfoNoted
  <2> QED BY <1>5, <2>1, <2>3, <2>4, <2>5, <2>6
          DEF AmxLoad, TypeOK, HookTypeOK, Go
<1>6. ASSUME NEW a \in Amx, Attach(a)
      PROVE  TypeOK'
  <2>1. handlers' \in [Amx -> Handler \cup {Nothing}]
    BY <1>6 DEF Attach, TypeOK, Handler
  <2>2. handlers[a].path \in Paths
    BY <1>6 DEF Attach, TypeOK, Handler
  <2>3. lastAmxPath' \in Paths \cup {NoPath}
    BY <1>6, <2>2, NotedType DEF Attach, DebugInfoNoted, TypeOK, HookTypeOK
  <2> QED BY <1>6, <2>1, <2>3 DEF Attach, TypeOK, HookTypeOK, serverVars
<1>7. ASSUME NEW a \in Amx, AmxUnload(a)
      PROVE  TypeOK'
  BY <1>7 DEF AmxUnload, TypeOK, HookTypeOK, hookVars
<1>8. CASE UNCHANGED vars
  BY <1>8 DEF vars, hookVars, serverVars, TypeOK, HookTypeOK
<1> QED BY <1>1, <1>2, <1>3, <1>4, <1>5, <1>6, <1>7, <1>8 DEF Next

-----------------------------------------------------------------------------
\* The flag: AmxLoad returns from fopen like Return does, and nothing else that
\* the server or the plugin do touches the hook.
LEMMA NextFlag ==
    ASSUME TypeOK, FlagInv, [Next]_vars
    PROVE  FlagInv'
<1>1. ASSUME NEW t \in Threads, HookStep(t)
      PROVE  FlagInv'
  BY <1>1, HookStepFlag DEF TypeOK
<1>2. ASSUME NEW t \in Threads, OtherThread(t)
      PROVE  FlagInv'
  BY <1>2 DEF TypeOK, HookTypeOK, FlagInv, OtherThread, OpenOther, Return,
              CallFopen, Go
<1>3. ASSUME NEW a \in Amx, NEW p \in Paths, ServerLoads(a, p)
      PROVE  FlagInv'
  BY <1>3 DEF TypeOK, HookTypeOK, FlagInv, ServerLoads, OpenScript, CallFopen, Go
<1>4. ASSUME NEW a \in Amx, AmxLoad(a)
      PROVE  FlagInv'
  BY <1>4 DEF TypeOK, HookTypeOK, FlagInv, AmxLoad, Go
<1>5. CASE UNCHANGED <<installed, removed, pc>>
  BY <1>5 DEF FlagInv
<1>6. ASSUME NEW p \in Paths, NEW content \in Contents, WriteFile(p, content)
      PROVE  UNCHANGED <<installed, removed, pc>>
  BY <1>6 DEF WriteFile, hookVars
<1>7. ASSUME NEW a \in Amx, Attach(a) \/ AmxUnload(a)
      PROVE  UNCHANGED <<installed, removed, pc>>
  BY <1>7 DEF Attach, AmxUnload, hookVars
<1>8. UNCHANGED vars => UNCHANGED <<installed, removed, pc>>
  BY DEF vars, hookVars
<1> QED BY <1>1, <1>2, <1>3, <1>4, <1>5, <1>6, <1>7, <1>8 DEF Next

\* The path: from the server's fopen to AmxLoad nothing else opens a script.
LEMMA NextPath ==
    ASSUME TypeOK, LoadInv, NoticedPathIsRight, [Next]_vars
    PROVE  LoadInv' /\ NoticedPathIsRight'
<1>1. ASSUME NEW t \in Threads, HookStep(t),
             UNCHANGED <<serverVars, known, files, handlers>>
      PROVE  LoadInv' /\ NoticedPathIsRight'
  <2>1. /\ UNCHANGED <<script, handlers, opening>>
        /\ pc'[Main] = "out" <=> pc[Main] = "out"
        /\ \/ UNCHANGED <<lastAmxPath, noticed>>
           \/ lastAmxPath' = opening
    <3> USE DEF TypeOK, HookTypeOK, Steps, Go, CallFopen
    <3>1. UNCHANGED <<script, handlers>>
      BY <1>1 DEF serverVars
    <3>2. CASE NotePath(t)
      BY <3>1, <3>2 DEF NotePath
    <3>3. CASE Remove(t) \/ RestoreCode(t) \/ ClearFlag(t)
      BY <3>1, <3>3 DEF Remove, RestoreCode, ClearFlag
    <3>4. CASE Leave(t) \/ PatchCode(t) \/ SetFlag(t)
      BY <3>1, <3>4 DEF Leave, PatchCode, SetFlag
    <3> QED BY <1>1, <3>2, <3>3, <3>4 DEF HookStep
  <2> QED BY <2>1 DEF LoadInv, NoticedPathIsRight
<1>2. ASSUME NEW t \in Threads, OtherThread(t),
             UNCHANGED <<serverVars, known, files, handlers>>
      PROVE  LoadInv' /\ NoticedPathIsRight'
  <2>1. /\ UNCHANGED <<script, handlers, opening, lastAmxPath, noticed>>
        /\ pc'[Main] = pc[Main]
    BY <1>2 DEF TypeOK, HookTypeOK, OtherThread, OpenOther, Return, CallFopen,
                Go, serverVars
  <2> QED BY <2>1 DEF LoadInv, NoticedPathIsRight
<1>3. ASSUME NEW a \in Amx, NEW p \in Paths, ServerLoads(a, p)
      PROVE  LoadInv' /\ NoticedPathIsRight'
  <2>1. /\ pc[Main] = "out" /\ pc'[Main] # "out"
        /\ opening' = p /\ ~noticed'
        /\ UNCHANGED handlers
    BY <1>3 DEF TypeOK, HookTypeOK, ServerLoads, OpenScript, CallFopen, Go
  <2>2. /\ script'[a].file = p /\ ~script'[a].noticed
        /\ \A b \in Amx \ {a} : script'[b] = script[b]
    BY <1>3 DEF TypeOK, ServerLoads
  <2>3. \A b \in Amx \ {a} : script[b] # Nothing => handlers[b] # Nothing
    BY <2>1 DEF LoadInv
  <2> QED BY <2>1, <2>2, <2>3 DEF LoadInv, NoticedPathIsRight
<1>4. ASSUME NEW a \in Amx, AmxLoad(a)
      PROVE  LoadInv' /\ NoticedPathIsRight'
  <2>1. /\ pc[Main] # "out" /\ pc'[Main] = "out"
        /\ script[a] # Nothing /\ handlers[a] = Nothing
        /\ script' = [script EXCEPT ![a].noticed = noticed]
    BY <1>4 DEF AmxLoad, TypeOK, HookTypeOK, Go
  <2>2. PICK path \in Paths \cup {NoPath} :
          /\ AddKnownFile(a)[a] # NoPath => path = AddKnownFile(a)[a]
          /\ handlers' = [handlers EXCEPT
                ![a] = [path |-> path, attached |-> path \in Listed]]
    BY <1>4 DEF AmxLoad
  <2>3. script[a] \in Script
    BY <2>1 DEF TypeOK
  <2>4. noticed => path = script[a].file
    <3>1. SUFFICES ASSUME noticed PROVE path = script[a].file
      OBVIOUS
    <3>2. lastAmxPath = script[a].file /\ lastAmxPath # NoPath
      BY <2>1, <2>3, <3>1 DEF LoadInv, Script
    <3>3. AddKnownFile(a)[a] = lastAmxPath
      BY <3>2 DEF AddKnownFile, TypeOK
    <3> QED BY <2>2, <3>2, <3>3
  <2>5. \A b \in Amx \ {a} : script'[b] = script[b] /\ handlers'[b] = handlers[b]
    BY <2>1, <2>2 DEF TypeOK
  <2>6. script'[a].noticed = noticed /\ script'[a].file = script[a].file
    BY <2>1, <2>3 DEF TypeOK, Script
  <2>7. handlers'[a].path = path /\ handlers'[a] # Nothing
    <3>1. handlers'[a] = [path |-> path, attached |-> path \in Listed]
      BY <2>2 DEF TypeOK
    <3>2. [path |-> path, attached |-> path \in Listed] \in Handler
      BY DEF Handler
    <3> QED BY <3>1, <3>2
  <2>8. \A b \in Amx \ {a} : script[b] # Nothing => handlers[b] # Nothing
    BY <2>1 DEF LoadInv
  <2> QED BY <2>1, <2>4, <2>5, <2>6, <2>7, <2>8 DEF LoadInv, NoticedPathIsRight
<1>5. ASSUME NEW a \in Amx, Attach(a)
      PROVE  LoadInv' /\ NoticedPathIsRight'
  <2>1. /\ pc[Main] = "out"
        /\ UNCHANGED <<script, pc, opening>>
        /\ \A b \in Amx : /\ handlers'[b] = Nothing <=> handlers[b] = Nothing
                          /\ handlers[b] # Nothing
                             => handlers'[b].path = handlers[b].path
    BY <1>5 DEF Attach, TypeOK, Handler, serverVars
  <2> QED BY <2>1 DEF LoadInv, NoticedPathIsRight
<1>6. ASSUME NEW a \in Amx, AmxUnload(a)
      PROVE  LoadInv' /\ NoticedPathIsRight'
  BY <1>6 DEF AmxUnload, TypeOK, LoadInv, NoticedPathIsRight, hookVars
<1>7. ASSUME NEW p \in Paths, NEW content \in Contents, WriteFile(p, content)
      PROVE  LoadInv' /\ NoticedPathIsRight'
  BY <1>7 DEF WriteFile, LoadInv, NoticedPathIsRight, hookVars
<1>8. CASE UNCHANGED vars
  BY <1>8 DEF vars, hookVars, serverVars, LoadInv, NoticedPathIsRight
<1> QED BY <1>1, <1>2, <1>3, <1>4, <1>5, <1>6, <1>7, <1>8 DEF Next

LEMMA NextInv ==
    ASSUME TypeOK, PluginInv, [Next]_vars
    PROVE  TypeOK' /\ PluginInv'
  BY NextTypeOK, NextFlag, NextPath DEF PluginInv

-----------------------------------------------------------------------------
\* The types and the inductive invariant hold in every behaviour.
THEOREM PluginInvariant == Spec => [](TypeOK /\ PluginInv)
<1>1. Init => TypeOK /\ PluginInv
  BY InitTypeOK, InitInv
<1>2. TypeOK /\ PluginInv /\ [Next]_vars => TypeOK' /\ PluginInv'
  BY NextInv
<1> QED BY <1>1, <1>2, PTL DEF Spec

\* The type invariant of the plugin.
THEOREM PluginTypeCorrect == Spec => []TypeOK
<1> QED BY PluginInvariant, PTL

\* A script whose file FopenHook saw being opened is given its own path
\* (plugin.cpp, FopenHook and AmxLoad), however many threads open other files.
THEOREM NoticedPathAlwaysRight == Spec => []NoticedPathIsRight
<1>1. PluginInv => NoticedPathIsRight
  BY DEF PluginInv
<1> QED BY <1>1, PluginInvariant, PTL

\* However many threads remove and install the hook at once (subhook_remove and
\* subhook_install), when all are out of fopen it counts as installed.
THEOREM FlagAlwaysRestored == Spec => []FlagIsRestored
<1>1. TypeOK /\ PluginInv => FlagIsRestored
  BY DEF TypeOK, HookTypeOK, PluginInv, FlagInv, FlagIsRestored
<1> QED BY <1>1, PluginInvariant, PTL

-----------------------------------------------------------------------------
\* What is known of a file was true when it had the time that is kept with it;
\* so it is still true if the file has that time, unless it was deleted or
\* changed twice within the precision of the clock (~tidy).
CacheInv ==
    \A p \in Paths : files[p] # Nothing =>
        /\ files[p].mtime <= mtime[p]
        /\ tidy => /\ disk[p] # NoFile
                   /\ files[p].mtime = mtime[p] => disk[p] = files[p].header

LEMMA CachedType ==
    ASSUME TypeOK, NEW p \in Paths
    PROVE  /\ mtime[p] \in Nat /\ disk[p] \in Contents
           /\ files[p] # Nothing => /\ files[p] \in AMXFile
                                    /\ files[p].mtime \in Nat
                                    /\ files[p].header \in Headers
<1>1. mtime[p] \in Nat /\ disk[p] \in Contents
  BY DEF TypeOK
<1>2. ASSUME files[p] # Nothing
      PROVE  files[p] \in AMXFile
  BY <1>2 DEF TypeOK
<1> QED BY <1>1, <1>2 DEF AMXFile

\* After a search the cache holds what is on the disk.
LEMMA FilesReadIs ==
    ASSUME TypeOK, CacheInv, NEW p \in Paths
    PROVE  /\ FilesRead[p] # Nothing =>
                  FilesRead[p].mtime <= mtime[p]
           /\ tidy => /\ FilesRead[p] # Nothing <=> disk[p] \in Headers
                      /\ FilesRead[p] # Nothing => FilesRead[p].header = disk[p]
<1>1. FilesRead[p] = IF ~IsStale(p) THEN files[p]
                     ELSE IF disk[p] \in Headers
                          THEN [header |-> disk[p], mtime |-> mtime[p]]
                          ELSE Nothing
  BY DEF FilesRead
<1>2. CASE IsStale(p)
  <2>1. CASE disk[p] \in Headers
    <3> DEFINE file == [header |-> disk[p], mtime |-> mtime[p]]
    <3>1. file \in AMXFile
      BY <2>1, CachedType DEF AMXFile
    <3>2. file # Nothing
      BY <3>1
    <3>3. FilesRead[p] = file
      BY <1>1, <1>2, <2>1
    <3>4. mtime[p] <= mtime[p]
      BY CachedType
    <3> QED BY <2>1, <3>2, <3>3, <3>4
  <2>2. CASE disk[p] \notin Headers
    BY <1>1, <1>2, <2>2
  <2> QED BY <2>1, <2>2
<1>3. CASE ~IsStale(p)
  <2>1. FilesRead[p] = files[p]
    BY <1>1, <1>3
  <2>2. CASE files[p] = Nothing
    <3>1. disk[p] = NoFile
      BY <1>3, <2>2 DEF IsStale
    <3> QED BY <2>1, <2>2, <3>1
  <2>3. CASE files[p] # Nothing
    <3>1. files[p].mtime <= mtime[p]
      BY <2>3 DEF CacheInv
    <3>2. ASSUME tidy
          PROVE  disk[p] = files[p].header
      <4>1. disk[p] # NoFile
        BY <2>3, <3>2 DEF CacheInv
      <4>2. ~(files[p].mtime < mtime[p])
        BY <1>3, <2>3, <4>1 DEF IsStale
      <4>3. files[p].mtime = mtime[p]
        BY <2>3, <3>1, <4>2, CachedType
      <4> QED BY <2>3, <3>2, <4>3 DEF CacheInv
    <3> QED BY <2>1, <2>3, <3>1, <3>2, CachedType
  <2> QED BY <2>2, <2>3
<1> QED BY <1>2, <1>3

LEMMA CacheInit == Init => CacheInv
  BY DEF Init, CacheInv

LEMMA CacheStep ==
    ASSUME TypeOK, CacheInv, [Next]_vars
    PROVE  CacheInv'
<1>1. ASSUME UNCHANGED <<files, disk, mtime, tidy>>
      PROVE  CacheInv'
  BY <1>1 DEF CacheInv
<1>2. ASSUME NEW p \in Paths, NEW content \in Contents, WriteFile(p, content)
      PROVE  CacheInv'
  <2>1. PICK time \in {mtime[p], mtime[p] + 1} :
            /\ mtime' = [mtime EXCEPT ![p] = time]
            /\ tidy' = (tidy /\ time # mtime[p] /\ content # NoFile)
    BY <1>2 DEF WriteFile
  <2>2. disk' = [disk EXCEPT ![p] = content] /\ files' = files
    BY <1>2 DEF WriteFile
  <2>3. ASSUME NEW q \in Paths, files[q] # Nothing
        PROVE  /\ files[q].mtime <= mtime'[q]
               /\ tidy' => /\ disk'[q] # NoFile
                           /\ files[q].mtime = mtime'[q] =>
                                  disk'[q] = files[q].header
    <3>1. /\ files[q].mtime <= mtime[q] /\ files[q].mtime \in Nat
          /\ mtime[q] \in Nat
      BY <2>3, CachedType DEF CacheInv
    <3>2. CASE q # p
      <4>1. mtime'[q] = mtime[q] /\ disk'[q] = disk[q]
        BY <2>1, <2>2, <3>2 DEF TypeOK
      <4> QED BY <2>1, <2>3, <3>1, <4>1 DEF CacheInv
    <3>3. CASE q = p
      <4>1. mtime'[q] = time /\ disk'[q] = content
        BY <2>1, <2>2, <3>3 DEF TypeOK
      <4>2. files[q].mtime <= time /\ (time # mtime[q] => files[q].mtime # time)
        BY <2>1, <3>1, <3>3
      <4> QED BY <2>1, <3>3, <4>1, <4>2
    <3> QED BY <3>2, <3>3
  <2> QED BY <2>2, <2>3 DEF CacheInv
<1>3. ASSUME NEW a \in Amx, AmxLoad(a)
      PROVE  CacheInv'
  <2>1. UNCHANGED <<disk, mtime, tidy>>
    BY <1>3 DEF AmxLoad
  <2>2. files' = FilesRead \/ files' = files
    BY <1>3 DEF AmxLoad
  <2>3. CASE files' = files
    BY <1>1, <2>1, <2>3
  <2>4. CASE files' = FilesRead
    <3>1. \A p \in Paths : files'[p] # Nothing =>
              /\ files'[p].mtime <= mtime[p]
              /\ tidy => disk[p] \in Headers /\ disk[p] = files'[p].header
      BY <2>4, FilesReadIs
    <3> QED BY <2>1, <3>1 DEF CacheInv
  <2> QED BY <2>2, <2>3, <2>4
<1>4. \/ \E p \in Paths, content \in Contents : WriteFile(p, content)
      \/ \E a \in Amx : AmxLoad(a)
      \/ UNCHANGED <<files, disk, mtime, tidy>>
  BY DEF Next, vars, serverVars, ServerLoads, Attach, AmxUnload
<1> QED BY <1>1, <1>2, <1>3, <1>4

\* Whatever files come and change while scripts are loaded and others are open,
\* a search finds the first file that has the script's header now, and none
\* only if there is none (AMXPathFinder::Find), as long as nobody deletes a file
\* or changes it twice within the precision of its time.
THEOREM SearchAlwaysExact == Spec => SearchIsExact
<1> DEFINE Exact ==
        \A a \in Amx :
            /\ tidy
            /\ handlers[a] = Nothing /\ handlers'[a] # Nothing
            /\ known[a] = NoPath /\ lastAmxPath = NoPath
            => LET path == handlers'[a].path
                   Same == {p \in Paths : disk[p] = script[a].header}
               IN IF Same = {} THEN path = NoPath ELSE path \in Same
<1>1. TypeOK /\ CacheInv /\ [Next]_vars => [Exact]_vars
  <2> SUFFICES ASSUME TypeOK, CacheInv, Next, NEW a \in Amx, tidy,
                      handlers[a] = Nothing, handlers'[a] # Nothing,
                      known[a] = NoPath, lastAmxPath = NoPath
               PROVE  LET path == handlers'[a].path
                          Same == {p \in Paths : disk[p] = script[a].header}
                      IN IF Same = {} THEN path = NoPath ELSE path \in Same
    OBVIOUS
  <2>1. AmxLoad(a)
    <3>1. \/ handlers' = handlers
          \/ \E b \in Amx : AmxLoad(b) \/ Attach(b) \/ AmxUnload(b)
      BY DEF Next, WriteFile, ServerLoads
    <3>2. ASSUME NEW b \in Amx, AmxLoad(b)
          PROVE  b = a
      BY <3>2 DEF AmxLoad, TypeOK
    <3>3. ASSUME NEW b \in Amx, Attach(b) \/ AmxUnload(b)
          PROVE  FALSE
      BY <3>3 DEF Attach, AmxUnload, TypeOK
    <3> QED BY <3>1, <3>2, <3>3
  <2>2. script[a] # Nothing /\ AddKnownFile(a)[a] = NoPath
    BY <2>1 DEF AmxLoad, AddKnownFile
  <2>3. PICK path \in Paths \cup {NoPath} :
            /\ IsFound(a, path)
            /\ handlers' = [handlers EXCEPT
                    ![a] = [path |-> path, attached |-> path \in Listed]]
    BY <2>1, <2>2 DEF AmxLoad
  <2>4. handlers'[a].path = path
    BY <2>3 DEF TypeOK
  <2>5. script[a].header \in Headers
    BY <2>2 DEF TypeOK, Script
  <2> DEFINE Matches == {p \in Paths : /\ FilesRead[p] # Nothing
                                       /\ FilesRead[p].header = script[a].header}
             Same == {p \in Paths : disk[p] = script[a].header}
  <2>6. Matches = Same
    BY <2>5, FilesReadIs
  <2>7. \/ path \in Matches
        \/ path = NoPath /\ Matches = {}
    BY <2>3 DEF IsFound
  <2> QED BY <2>4, <2>6, <2>7
<1>2. TypeOK /\ CacheInv /\ [Next]_vars => CacheInv'
  BY CacheStep
<1>3. Spec => [][Exact]_vars
  BY <1>1, <1>2, PluginInvariant, CacheInit, PTL DEF Spec
<1> QED BY <1>3, PTL DEF SearchIsExact
=============================================================================
