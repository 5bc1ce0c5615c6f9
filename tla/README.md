# Specifications of samp-plugin-profiler

TLA+ models of the profiler plugin for SA-MP servers, model-checked with TLC,
and theorems about them checked with TLAPS.

## 1. The system

The plugin measures the functions of a Pawn script that runs in an abstract
machine (AMX) inside the server. The machine tells it very little: it calls a
debug hook at every BREAK instruction (one before each statement), a callback
for every native, and amx_Exec, which the plugin has patched, for every public.
No hook says that a function has been called or has returned. The profiler
reconstructs that, by comparing frame addresses, and everything it reports
depends on the reconstruction.

| component | state | operations | what makes it correct |
|---|---|---|---|
| Profiler (`amxprof/profiler.cpp`) | call stack, call graph, statistics | DebugHook, CallbackHook, ExecHook, EnterFunction, LeaveFunction | its stack is the machine's; a hook that returns unwinds its own call and no other; nothing stays behind |
| CallStack, FunctionCall | entries: function, frame, timer, parent | Push, Pop, top | see Profiler |
| CallGraph | nodes, callees, a stack of nodes | PushCall, PopCall, AddCallee | its stack follows the call stack; an edge for every call |
| Statistics, Function | functions by address, their type, calls and times | GetFunction, AddFunction, Adjust... | every call is counted; a function has its own type |
| PerformanceCounter | start, total and child times; parent and shadow | Start, Stop | times add up under recursion |
| ProfilerHandler | state DISABLED .. STOPPED, path, a Profiler | Load, Attach, Start, Stop, Dump, Debug, Callback, Exec | starts and stops requested in the middle of calls take effect, and do not corrupt the stack |
| Plugin (`plugin.cpp`), AMXHandler | handlers by AMX, last path opened | Load, AmxLoad, AmxUnload, amx_..._Profiler | every hook finds its handler; a script gets the right path |
| Hooks (`FopenHook`, `deps/subhook`) | the first bytes of fopen, a flag | subhook_install, subhook_remove, ScopedHookRemove | code and flag agree, in any number of threads; fopen returns |
| Natives | - | Profiler_GetState, Start, Stop, Dump | see ProfilerHandler |
| AMXPathFinder | search paths, known and loaded files | AddSearchPath, AddKnownFile, Find | the path of an AMX is that of its file |
| Configuration, Dump | values of server.cfg; files on the disk | ShouldBeProfiled, choice of writers | listed scripts are profiled, under old and new names of the settings; what is written stays |
| DebugInfo, amxdbg | the debug tables of a script | Load, LookupFunctionExact... | an address is given its own name, however long the tables; nothing leaks |
| AMX reading (`amxprof/amx_utils.cpp`, `amx/amxaux.c`) | a program in memory | GetPublicName..., aux_LoadProgram | see DebugInfo |
| Writers | a page in a browser | the rows of a report, the drawing of the graph, sorting the page | numbers fit together; the page shows what it sorted by |
| SDK (`amxplugin.cpp`, `plugincommon.h`) | the table of the machine's functions | amx_Exec and 40 others, each a jump | the plugin's own calls do not come back to its hook |
| logging, listing of directories | - | - | - |

Interaction: the server and natives such as CallLocalFunction call amx_Exec;
the plugin's version of it calls `ProfilerHandler::Exec`, which calls
`Profiler::ExecHook`, which calls the real amx_Exec, which runs the script and
calls back the plugin for each BREAK and native; natives may call amx_Exec
again. To learn which file a script comes from, the plugin has also patched
fopen: FopenHook remembers the last path that ends in `.amx`, and AmxLoad takes it
for the path of the script that the server has just loaded. When FopenHook has
seen none, AMXPathFinder searches the script directories and compares headers.

Everything of one script happens in one thread, but as nested,
half-finished calls: between the two halves of a hook any number of other hooks
of the same profiler run, and the natives Profiler_Start and Profiler_Stop
change the handler's state there. This nesting is the "concurrency" of the
system. Failure enters as run-time errors of the script, which end amx_Exec
with any number of functions unfinished. FopenHook is the exception: every thread
of the server that opens a file runs it, without a lock. Other plugins may hook the same
functions. Failure also enters as calls of fopen, malloc, mmap and mprotect that fail,
in the middle of what they were needed for. The hazards that follow from this are
listed with their lines in PROJECT.json.

## 2. The modules

| module | models | role |
|---|---|---|
| `Amx` | the machine, the compiler and the server, as `profiler.cpp` and `amx_utils.cpp` use them; external | environment |
| `CallGraph` | `amxprof/call_graph.cpp` | part of Profiler |
| `Profiler` | `amxprof/profiler.cpp` with call stack and statistics | composes Amx and CallGraph |
| `IdealProfiler` | the profile a user expects | abstract specification of Profiler |
| `ProfilerHandler` | `profilerhandler.cpp`, `natives.cpp`, AmxLoad and AmxUnload | composes Profiler (an INSTANCE), Amx, the handler and the natives |
| `CallTimers` | `amxprof/performance_counter.cpp`, the timers of `function_call.cpp`, and the times in LeaveFunction | the times of a call stack, on its own |
| `FopenHook` | FopenHook of `plugin.cpp`, `deps/subhook` install and remove | one action per step between which threads interleave |
| `Plugin` | AmxLoad and AmxUnload of several scripts, `amxpathfinder.cpp`, `amxhandler.h`, last_amx_path | extends FopenHook with the server, its files and the plugin |
| `Disasm` | subhook_disasm of `deps/subhook/subhook_x86.c` | operators: the length of an instruction |
| `Subhook` | hooks on one function: jumps, trampolines, memory and its protection; the plugin's table of the machine's functions | extends Disasm with a processor, the server and several plugins |
| `AmxDbg` | `amx/amxdbg.c`, `amx_utils.cpp`, the names of `function.cpp` | operators: what is read from a script's file |
| `ScriptFile` | `AMXFile`, `amx/amxaux.c`, `debug_info.cpp`, and the first meeting of a function in the three hooks | extends AmxDbg with failures, handlers and the functions they know |
| `Paths` | `fileutils.cpp`, IsGameMode, IsFilterScript, SameFile, the names that files of a script begin with | operators |
| `Config` | `deps/configreader`, the settings of `profilerhandler.cpp`, ShouldBeProfiled, SplitString | operators on Paths |
| `Report` | the writers of statistics and of the call graph | operators: what a file says |
| `HtmlTable` | the script of the page in `statistics_writer_html.cpp` | operators: sorting |
| `Output` | Dump, its files, and the page opened in a browser | composes Config, Report and HtmlTable |
| `MC...` | model values, small inputs and symmetry, one module for each of the eight state machines | for TLC |
| `AmxProofs` | lemmas about sequences used as stacks, and about the steps of the machine | for the next two |
| `ProfilerProofs`, `ProfilerHandlerProofs`, `CallTimersProofs`, `PluginProofs`, `ScriptFileProofs`, `OutputProofs`, `SubhookProofs` | theorems about the modules of these names | for TLAPS |

### Amx

`vm` is the stack of activations that are alive: how each was started (amx_Exec,
OP_CALL, SYSREQ.C), its function and its frame address. The stack grows down
from `Stp`. Two facts about code compiled from Pawn shape the model:

- A BREAK precedes every statement, so the first BREAK of a function comes
  right after its entry: OP_CALL, PROC and that BREAK are one step, `BeginCall`.
  Nothing that the profiler sees can happen in between. A function without any
  statement executes no BREAK and is never seen; the model has none.
- No BREAK is executed between two calls of one statement. `returned` remembers
  that a call of the running statement has returned. With
  `OneCallPerStatement` the scripts are those whose statements make no further
  call after that; without it, any call may follow.

A run-time error and a return of a public are both `EndExec`, which drops the
public and whatever it had called. Sleeping scripts (AMX_EXEC_CONT) and
exceptions thrown inside hooks are not modelled. Natives, publics and other
functions have different addresses, as `function.h:56-58` states.

### Profiler

One action per moment at which the machine reaches the profiler, with the whole
handler in it: `Call` and `Statement` are DebugHook (at a function's first BREAK
and at others), `Exec`/`ExecReturn` and `NativeCall`/`NativeReturn` are the
halves of ExecHook and CallbackHook before and after the wrapped call, and
`Return` is the return of a script function, which no hook sees. `callStack` is
`CallStack::calls_`, `fnType` and `numCalls` are the statistics, `nodes` and
`callees` the graph. `hooks` holds the local variable `address` of each hook in
progress; its fields `entry` and `activation` are history variables that
properties mention and actions never read. The loop of LeaveFunction is
described by where it stops: `rest` is the number of entries left such that the
entry above it satisfies the break condition and none higher does.
The times of the entries are in CallTimers.

### CallTimers

The same call stack, with the counters of its entries and without frames: an
entry has the start point, total and child time of its PerformanceCounter and
the place of the counter's shadow; its parent is the entry below. `Push` and `Pop`
come in any order that a stack allows, which covers every order in which
Profiler pushes and pops, and `Tick` may come between any two of them: every Start
and Stop reads the clock. `Pop` is CallStack::Pop, PerformanceCounter::Stop and
the part of LeaveFunction that adds the times to the statistics. (The total
time that Stop takes from a shadow is kept as in the code; the shadow's own Stop
overwrites it.) `present`, `ran` and `recursive`, and the field `ran` of an entry,
are history variables: how long a function has been on the stack and on top of
it, whether it ever called itself, and how long it has been on top since the
call of the entry. They are what the profile is compared with. The clock is an
integer here; Nanoseconds are doubles in the code (`duration.h`), exact up to
2^53 ns, about 104 days of uptime, beyond which they are rounded to 2 ns.

### ProfilerHandler

The same machine, with every hook going through the handler. `state` is
`state_`. `StateInExec` is the switch at the head of Exec, `ExecReturn` completes
a Stop. `hooked` says whether AmxLoad installed the hooks; `path` is the outcome
of AMXPathFinder and ShouldBeProfiled, any of: not found, found, found and
listed in server.cfg. `Reentrant` natives run publics. A hook that passed
through unprofiled is on `hooks` too, with the address 0. Scripts are unloaded
when none of their functions runs.

### FopenHook

`patched` is the content of the first bytes of fopen, `installed` the flag of the
hook. subhook_remove checks the flag, restores the code and clears the flag, each
a step of its own; subhook_install likewise; `pc` says which step a thread takes
next. Calling fopen is a jump to FopenHook or not, as `patched` says at that moment,
also for the call that FopenHook itself makes: `removed` counts the nested
ScopedHookRemoves of a thread that will install the hook when they go out of scope.
(Levels whose removal failed do nothing on return, so a number is enough.) The
bytes are written and executed atomically, and in program order; a thread that
executes a half-written jump is not modelled. Only the main thread opens
scripts.

### Plugin

The server opens the file of a script (`ServerLoads`), which runs FopenHook step
by step among other threads, and calls AmxLoad when fopen has returned. `known` and
`files` are the two caches of AMXPathFinder, `handlers` the map of AMXHandler with
the path of each profiler. Files change, appear and disappear at any time; AMX
addresses are used again. A file is its header and its modification time. AmxLoad
and the search in it are one step, and so is Attach, although they open files
through FopenHook themselves: `Noted` says which paths last_amx_path may hold
afterwards, all of them if another thread is in fopen meanwhile. While it is not,
the hook of these files works or does not as `patched` says, and is left as it was
found. Paths are numbers in the order of strings, which is the order in which the
search compares headers. Directories, and different spellings of one path, are not
distinguished: all files are in the search paths, and the server opens them under the
names the search uses. `noticed`, `tidy` and the field `noticed` of a script are
history variables.

### Disasm and Subhook

FopenHook takes "the code of fopen" for one bit. Subhook looks inside: `mem` is an
address space of `Word` bytes in which the function's instructions, the jumps and
the trampolines are encoded; arithmetic is modulo `Word` as that of the code is modulo
2^32. `Disassemble` is subhook_disasm with the table of opcodes of the file, and
`MakeTrampoline` copies instructions as long as it says they are, corrects relative
operands and appends the jump back. The loop that copies is described by what it
reaches: `Copied` is the least set of places that has the first instruction and, with
each, the next, until there is room for a jump. The prefixes are counted by their
places in the table (`Place`). `MmapAssumption` is what mmap guarantees: room that
neither the function nor another trampoline uses. The processor knows
the true instructions (`Insns`, from its manual): `Execute` decodes what is at `pc`,
so an instruction that was cut in two or moved without correction is run for what it
has become, or is no instruction at all (`Crash`). What a call has done is `trace`.
`ProcessorAssumption` is what the encoding of instructions guarantees: two that differ do so in
a byte that is no relative operand. `FunctionAssumption` says which functions are
meant: at least as long as the jump, run from the first instruction to the last, and apart from the
plugins' own functions and from trampolines. A function that jumps back into its own first bytes, which no hook
of this kind can treat, is not among them. `Agrees` says of an instruction that
subhook_disasm either does not know it or has its true length and the place of its operand, whatever
the operand is; it is a condition of theorems, not of the model.

A plugin installs one hook with a `new` subhook (`InstallNew`) and takes it away when
it is unloaded (`DestroyHook`), both between calls of the function. Its hook function calls the
original through the trampoline, like amx_Exec_Profiler, or removes the hook meanwhile,
like FopenHook; hooks of several plugins nest. When they return they install their
hooks again, the innermost first; `Reinstall` writes the jump of the outermost, since
all jumps have one size and one place. calloc, malloc, mprotect and mmap
fail in any combination; `heap` holds the blocks of each hook. The pages that
subhook_unprotect makes writable are those its computation gives, which is one
too few for a function that starts at the end of a page. `order` and `tidy` are history.

The plugin calls the machine through a table of its own (`Exports`), a copy of the
server's with the trampoline in the place of amx_Exec; each function of
`amxplugin.cpp` is a jump through an entry of it (`Thunk`). `PluginCalls` is such a
call, as GetOpcodeTable makes one: it must not come back to the plugin's hook.
`caller` says who made the call that is running. The plugins in the way of a call are all
that have a hook, or those that came before the caller (`InTheWay`).

### AmxDbg and ScriptFile

A file is an `image`: sequences of files, lines, symbols, publics and natives, with
flags for the checks of its headers. `SkippedLines` is the loop
of dbg_LoadInfo that finds out how often the 16-bit count of lines wrapped: it goes on
by `CountLimit` entries while the addresses grow, and the first address it looks
at may be the 8 bytes before the table (`before`). The loops of the lookups are
described by where they stop, like that of LeaveFunction.

`code` holds the cells of the program as the machine has them in memory, where it may
have replaced opcodes by the addresses of its instructions (`opcodes`, compiled in on
Unix by AMXPROF_RELOCATE_OPCODES). `RelocateOpcode` undoes that, and
`GetCalleeAddress` finds from a return address whether OP_CALL was before it and
what it called. `IsCompiled` is what the Pawn compiler makes sure of and the code relies on:
functions do not overlap, a call is one of the start of a function, publics are functions
of the same name, and lines and files are sorted by address; lines are numbered from 0.

The other searches of the library (GetLineAddress, GetFunctionAddress, GetVariable and
those for names of tags, automatons and states) are linked with the plugin and not
called. They are modelled as they are, and LookupsAreRight says how
far one could rely on them: they trust the wrapped count of lines;
GetLineAddress may answer a line at which another file begins, and reads an entry
past the table of files if the last file is not the one it looks for;
GetFunctionAddress never compares the file.

ScriptFile has the two readers, with any call of fopen and malloc failing
(`OpenScript`, `LoadDebugInfo`). `heap` holds the blocks that are allocated, the
debug tables once for each generation of the handler, because nothing frees them;
`streams` counts the FILEs that stay open. `MeetByCall`, `MeetByExec` and `MeetByCallback`
are the moments at which a hook finds an address for which there is no record and makes
one, from the symbols, the publics or the natives; what else these hooks do is in
Profiler. `Answer` is a lookup by DebugInfo with its error code; each handler is asked once,
since no answer depends on another. Addresses of publics
are read by index without a look at the table's size; the model asks only for indices that exist.

### Paths, Config, Report, HtmlTable and Output

A path is a sequence of tokens: separators, periods and what is between them, which is
all that `fileutils.cpp` and the comparisons of `profilerhandler.cpp` tell apart. A line
of server.cfg is a sequence of words, each of them such a sequence. `ReadFromStream` keeps the first line of
each option; GetValueWithDefault<bool>, GetValues and SplitString each make of a line
what they do in the code. `ShouldBeProfiled` compares files by identity (`SameFile`),
not by name; `settings` holds the variables of namespace cfg.

`Report` states what the files say without their markup: a row is the
tuple of its columns, with the rounding of the printed decimals, and a quotient by zero is
`NaN`. Tables tell the run time as a `TimeSpan`, in whole seconds that have passed; the JSON
writer prints doubles with the default precision of a stream, which `SixDigits` rounds
(`JsonDuration` and the times in `JsonRows`): 14399.999 seconds are 3:59:59 in a
table and 14400 in JSON. Its units reach to 10^13 milliseconds, beyond the 2^31 seconds that the
clock of a 32-bit plugin can measure, which `OutputAssumption` states. The clock's nanoseconds
are integer milliseconds here, so numbers below 1000 seconds are not rounded in the
model; that an error is at most one 200000th of the number is true of any unit.
Of two equally near numbers the greater is taken. `HtmlTable` is the comparator that the page's script chooses for a column, its
insertion sort, and the state it keeps per column (`asc`) and per cell (`arrow`).

`Output` is a run of the server with one script at a time: load, run (`Run` goes
on to the next of a few measured profiles), Profiler_Start, Profiler_Dump and
unload. `DumpFiles` is Dump: each of its two files may be impossible to open; a file is
opened before the writer is chosen, so a format for which there is no writer
leaves an empty file. The name of a file has the script's directory and base name and the format; `files` is a function
from names to contents. At the end somebody opens a page and clicks. `denied` and the
fields `script` and `measured` of a file are history.

Facts about the code that the models contain and no property states: a dump of a script
that is not profiled writes nothing and succeeds; numbers with decimals are sorted by
their integer part, because the pattern for integers fits them first (statistics_writer_html.cpp:65-67);
`NaN` is printed until some time has passed; formats are compared as they are
written, since the result of ToLower is dropped (profilerhandler.cpp:337); names in
`profiler_gamemodes` are separated by spaces only, those of filter scripts by any
white space; `profile_format` has no effect, because the
new setting has a default; the README's `xml` is not among the formats; two scripts of one
directory that differ in what follows the last period of their names would have the same
files.

### IdealProfiler

Every call counted when it happens, with an edge from the function that is
really running. `Profiler!IdealSpec` states that Profiler implements it, with
the machine's own stack as the abstract stack. It holds for scripts with one
call per statement, and is what the profiler is for.

## 3. The runs

All instances have one public, one native and one or two functions, frames one
or two cells apart and at most four (five for `handler_reentrant`) activations at
a time.
That is enough for direct and mutual recursion, a native that runs a public
that calls a function, equal and different frames of successive calls, and a
run-time error that aborts three of them. `MaxDepth` bounds the depth, `Stp` the
size of the stack, `MaxCalls` the number of times one function is entered (the
profile would otherwise grow for ever); no other bound is used. The two
functions are symmetric in the runs that use `SYMMETRY`, which check no liveness.
Deadlock checking is off in the runs of MCProfiler, which end when `MaxCalls` is
used up; the other runs keep it on.

The runs of CallTimers have two functions, up to four entries on the stack at a
time (three for `recursive_self_time`) and a clock that makes up to four steps.
Four entries are the least in which two functions recurse through each other
twice (f g f g), so that shadows jump over entries of the other function, and
four steps let each of the four entries run once.

The run of Plugin has two threads, two files, two AMX addresses and two headers,
files that may hold either header or neither, two opened files per thread
(`MaxOpens`) and one change of a file (`MaxWrites`). Two threads are enough for
every state of the hook's code and flag; two openings let a script follow another,
or the same address be used for another file, after any of them. Each thread opens
one file in `fopen_recursion`. Deadlock checking is off: the runs end when
the bounds are used up. Addresses and headers are symmetric.

The run of Subhook has two plugins, which is enough for one hook to be over, under, before
and after another; 256 bytes of memory in pages of 64, so that offsets wrap around; a function
inside a page and one across two; and eight functions whose first instructions differ
in what the disassembler has to know: no operands, ModR/M with and without displacement
and SIB byte, a 16-bit operand by a prefix, absolute addresses, an instruction that is
not in its table, a relative call and a relative jump. A function is called at
most twice (`MaxCalls`) after a plugin has come or gone: the second call is the first that
shows what the first has left. Deadlock checking is off: a crashed process
stops.

The run of ScriptFile has tables of two to six lines with counts that wrap at
`CountLimit` = 4: less than one wrap, exactly one, and one with a remainder. The bytes
before the table read as a small or as a large address, the first symbol is
a function or a global variable with a data address larger than the code, a name may be
hidden, a file may have two parts, opcodes may be replaced by addresses, and one of the
header's flags may be wrong. Two handlers (`MaxHandlers`) are
the least for which something can be left behind by one that is gone. It has
193,228 distinct states and takes a minute and a half.

The run of Output has 21 configurations, at least one with each setting and each of
its forms, and all pairs of a setting for game modes and one for filter scripts; four scripts, of which either two of the same name in two directories are
loaded one after the other, or two whose names begin alike (`gm.amx` and
`gm.old.amx`); four moments of a run: nothing has happened, no time has passed, a
recursion is in progress, and four functions have
run for almost 4 hours. Deadlock checking is off: a run ends with nobody opening
a page. It is the largest, with 566,702 distinct states in about two minutes.

| run | result | shows |
|---|---|---|
| `profiler_statements` | pass | with one call per statement the profiler's stack is the machine's plus, at most, functions that have just returned; it implements IdealProfiler |
| `profiler_expressions` | pass | with any statements the stacks stay consistent: every hook finds and pops its own entry, nothing is left when the script is idle, the graph follows the stack, and StackInv, from which the proofs derive this, holds |
| `handler_flat` | pass | under fairness, requested starts and stops take effect when natives run no publics, and nothing is left on the stack |
| `handler_reentrant` | pass | with re-entrant natives that start and stop the profiler anywhere, hooks still pop their own entries, and a profiler out of use has an empty stack |
| `timers` | pass | whatever recurses, the self time of the call that returns is the time its function ran since; worst times are possible; nothing is lost; functions that never call themselves get exactly the times they ran |
| `plugin` | pass | while another thread opens files, files change and addresses are used again, a script that FopenHook saw gets its own path; a search finds a file with the right header; the hook's flag is restored |
| `subhook` | pass | through any hooks a call runs the function's own instructions; every hook between the caller and the function is visited, youngest first, but for those that an older removing hook overwrites; a plugin's own calls do not reach its hook; the code and the memory are given back; the situations in which the process ends are those listed in CrashesExplained |
| `script_file` | pass | whatever fails, the readers keep all or nothing; the debug tables are found exactly when FoundIfDetectable says so, and then lookups are right; a function has the same name whichever hook meets it first, and what looks like a call is one |
| `output` | pass | old and new settings do the same; percentages, averages, durations and graphs fit together; no profile is overwritten by another script's or by an empty file; unloading writes all that can be opened; a click sorts stably and the arrow tells how |
| `missed_call` | violation | `g() + h()`: h runs and is not counted |
| `recursive_self_time` | violation | a function that calls itself is charged the inner call's self time twice |
| `fopen_recursion` | violation | two threads that remove the hook at once can leave the jump in place with its flag clear: FopenHook calls itself without end |

The violations are disagreements with the README files of the
repository, quoted under "findings" in PROJECT.json. `missed_call` is about Profiler for
scripts with more than one call per statement. Other deviations follow from what the
models contain, or lie just outside their instances, and have no run:

- The graph shows `native(g())` as a call of the native by g.
- A public that calls itself, or that the script calls directly, is entered by DebugHook
  with the type PUBLIC, and DebugHook never leaves a public (profiler.cpp:67): the
  entry stays for ever. All instances have Callees within Normals.
- A profiler that is started from a public run by a native counts as started while publics
  it did not see are running (profilerhandler.cpp:201), and an entry may be left for
  ever; a later Stop then never completes. `handler_flat` has no such natives.
- Stop on a profiler that is STOPPED makes it STOPPING, and no Exec completes that.
- After the race of `fopen_recursion` the flag may also be set with no jump in place:
  from then on FopenHook sees nothing, and every script is given the last path it
  noticed before (plugin.cpp:172).
- subhook_disasm counts the displacement of a SIB byte with base 5 twice
  (subhook_x86.c:289-313) and takes the address of opcodes A0 and A2 for one byte. The functions
  of the instance do not begin with these.
- If no trampoline could be made, Load stores NULL for amx_Exec (plugin.cpp:144):
  one of the crashes that CrashesExplained lists. It also stores NULL if subhook_new fails
  altogether; in Subhook such a plugin has no hook, so no call reaches it and nothing crashes.
- AMXPathFinder forgets files that changed, and files that could not be read, without
  deleting them (amxpathfinder.cpp:100-105).
- In a dump that is made while a function which called itself is still running, its average
  time can be above its worst time: the calls that have returned are in the self and total
  times, but only the outermost call changes the worst ones (performance_counter.cpp).
  RowsAreConsistent excludes this case (`recursing`).

Fairness. `fopen_recursion`: every thread that is in fopen goes on (weak fairness
per thread: the scheduler stops none, and nothing there blocks). `handler_flat`: the
server goes on calling publics of a loaded
script (weak fairness; SA-MP scripts have callbacks and timers that run all the
time), and every public or native that runs at some depth eventually returns,
whatever the script does in it (strong fairness per depth, since calls of the
script come in between and each action of the script disables the others only
for a while). A script that never returns hangs the server, which is single
threaded. Nothing is assumed about which natives the script calls.

## 4. What is proved

Every listed theorem holds for all values of the constants that satisfy the named
assumptions of the modules, and the hypotheses given here.

`ProfilerProofs`, for all sets of functions, all frame sizes, depths and stack
sizes, with or without a call graph and whatever the statements are:

- `TypeCorrect`: Spec => []TypeOK.
- `StackInvariant`: Spec => []StackInv, assuming that no public is the target
  of an OP_CALL (Callees \subseteq Normals; without this the entry of a public that calls
  itself stays for ever).
- `HooksAlwaysKeepTheirEntries`, `GraphAlwaysFollowsStack`, `IdleAlwaysEmpty` and
  `ReturnAlwaysPopsOwnEntry`, its consequences, which the run
  `profiler_expressions` checks on an instance.
- `StacksAlwaysMatch`: Spec => []StackMatchesMachine, assuming in addition one call per
  statement (OneCallPerStatement).
- `ImplementsIdealProfiler`: Spec => IdealSpec, assuming in addition that calls are
  counted (CountCalls; without it `numCalls` is left out of the state).

The argument. The danger is LeaveFunction(0, frm) at a BREAK, which pops entries
until one below has a frame of at least frm: it must not reach the entry of a
public or native that is in progress. StackInv says why it does not: frames of
the machine never increase towards the top (`MachineInv`); the hooks in progress
are exactly the activations that are not OP_CALLs, in the same order, and each
entry has its activation's frame (`HookInv`); and every other entry is an
ordinary function's and lies above the first hook's (`EntryInv`, `FnTypeInv`).
The running frame is the lowest of the machine's, so the innermost hook's entry
has a frame of at least `frm` and stops the loop right above it; and DebugHook
does not start the loop when the entry of a hook is on top, because its type is
not NORMAL. A returning hook stops at its own entry because all entries above it
belong to ordinary functions, whose addresses differ from that of a public or
native. None of the listed properties is inductive by itself: that hooks keep
their entries needs the frames, and these need the machine's.

StackInv has two parts: EntriesInv, which holds of a profiler that is switched on and off
as well, and BottomInv, which says that every hook has an entry and the first is at the bottom.

With one call per statement more is true (`MatchInv`): the machine's stack is the lower
part of the profiler's, and what lies above has returned. The entries of returned
functions are ordinary functions' with frames below the running one's, so that the next BREAK pops
exactly these (`ReturnedInv`); DebugHook has met the function of every entry, so that the
type it looks at is known (`KnownInv`); a hook is entered when the two stacks are
level (`LevelInv`); and only the running statement can have had a call return, and
a called function's frame lies strictly below its caller's (`StatementInv`). A call
is seen at the first BREAK of the called function because what returned before had the
statement to itself: this is where the hypothesis is used, and `missed_call` shows what
happens without it. The refinement follows, one action at a time: a call is a call of the
abstract specification, under the caller that the machine's stack names, and a return, a
BREAK or an error that drops activations is a return of these.

`ProfilerHandlerProofs`, for the same constants and any natives: `TypeCorrect`,
`EntriesInvariant`, `UnusedAlwaysEmpty`, `ReturnAlwaysPopsOwnEntry` (these with
Callees \subseteq Normals where entries matter) and `IdleAlwaysEmpty` (with Reentrant
= {}, the natives of `handler_flat`: with others it is false, see section 3).

The argument. The steps of Profiler's machine and stack are those of ProfilerProofs, whose lemmas
are used through an INSTANCE. EntriesInv allows a hook that entered nothing because the
profiler was off when it began; it holds an entry with its own frame, or none, and
its return pops that entry or nothing. A profiler that is out of use has an empty stack
because a stop is completed only when the last profiled call is left (`UnusedIsEmpty`, inductive with
`LoadedInv`: nothing of the script runs before AmxLoad and after AmxUnload). Between two
calls of the server the stack is empty by `FlatInv`: the only activation of a public is the
first, and either its hook has the first entry or nothing is entered before it returns,
since a start in the middle of a call takes effect in the next.

`CallTimersProofs`, for all sets of functions, every depth of recursion and any
passage of time: `TimersTypeCorrect`, `TimersInvariant`, `SelfTimeAlwaysExact`,
`WorstTimesAlwaysPossible`, `NothingIsEverLost`, `SelfTimesAlwaysAddUp` and
`TotalTimesAlwaysAddUp`.

The argument. Call own time of an entry what it has spent since its start outside
the calls it made, as far as its counter knows: the time until the next entry
started, less its child time. Stop adds the whole time of a call to the child time
of its parent, and takes the self time from that of its shadow, so a call is charged
everything but its calls, except that what its recursive calls spent on themselves
is given back to it. While calls are in progress this correction is still to come;
TimersInv says exactly how much: the shadows of one function form a chain that
skips no call of it (`ShadowInv`), the last of the chain has run for its own time,
and every other for its own time and for as long as the next of the chain
(`OwnTimeInv`). The entry on top is the last of its chain, hence SelfTimeIsExact,
which is not inductive by itself since Pop uncovers entries of which it says
nothing. The other properties follow with the history covering each call
(`HistoryInv`) and functions that never call themselves having one call
(`OneCallEach`), or, for `NothingIsEverLost`, from what inner calls add being at
least zero and every call but a function's first having a shadow
(`FirstIsOutermost`).

`PluginProofs`, for any number of threads, scripts, files and openings:
`PluginTypeCorrect`, `PluginInvariant`, `NoticedPathAlwaysRight`,
`FlagAlwaysRestored` and `SearchAlwaysExact`.

The argument. A clear flag is somebody's to set: a thread clears it in the same step in
which it becomes liable to install the hook again, and gives that up only when
it finds the flag set or has set it (`FlagInv`). Nothing of the kind holds of the
code, whose bytes the slower of two threads restores after the faster has set them. For the path, at most one script is being loaded,
the main thread is in fopen with its file from ServerLoads to AmxLoad, and what
FopenHook noticed there is still last_amx_path then (`LoadInv`): other threads open
no scripts and the plugin opens none before it has used the path. AddKnownFile
overwrites an entry left by an earlier script at the same address. For the search:
what the cache says of a file is true if the file still has the time that is kept with it
(`CacheInv`), as long as no file was deleted or changed twice within the precision of its
time, and the search reads every other file again.

`ScriptFileProofs`, for all images that satisfy CompilerAssumption, any code addresses,
generations of handlers and failures: `TypeCorrect`, `AlwaysAllOrNothing`,
`FoundAlwaysIfDetectable`, `NamesAlwaysAgree` and `AnswersAlwaysRight`.

The argument. A generation of the handler owns nothing before it has asked for memory, and asks
once (`HeapInv`), so that a reader which gives up returns exactly what it took. For the
names (`NamesInv`): nothing is met before Attach, and then a function is met with
the name that its address has in the debug tables, or, for a public, in the table of publics; that
these are one name, and that an address is the start of at most one function, is what the compiler
guarantees (`IsCompiled`). For the tables: the loader's loop over the wraps of the count is a
recursive function, and the number of lines at which it stops is the first at which the address
that it compares is not larger; a loop that went past the end of the lines, or stopped before
it, would contradict the condition in FoundIfDetectable at a least such number. `AnswersAreRight` is the part of LookupsAreRight on which
the profiler depends: a lookup finds the entry of the address, and reports an error exactly if there
is none. The lookups stop at the first entry beyond the address, and the tables are
sorted.

`OutputProofs`, for all configurations, scripts and measurements: `TypeCorrect`,
`UnloadAlwaysWritesAll`, `ProfilesAlwaysStay` (assuming `NamesDiffer`: no two files of
a run are meant to have one name), `DurationsAlwaysRight`, `ReportsAlwaysSound`,
`ArrowAlwaysTellsOrder`, `ClicksAlwaysSortStably` and `OldNamesAlwaysWork`.

The argument. What is on the disk was written by a dump of the script in whose name it is, in
the format of the settings (`FilesInv`), so a file is replaced only under the same
name by the same script, whose measurements only grow. What a file shows was measured
when it was written (`ContentsInv`, `DurationInv`), so the soundness of a report is a fact about
the writers, for any measurement:

- A time span loses nothing but milliseconds (`TimeSpanIsRight`). A number with six digits is a
  multiple of a unit of which it has at least 100000, or the unit is 1, and is off by
  half a unit at most (`SixDigitsAreClose`).
- A share is rounded by at most half a unit, so the sum of n of them is off by at most n
  halves (`PercentagesAddUp`); the sum is over a set, in the order in which a fold takes its
  elements, and does not depend on that order (`SumExists`, `SumIs`).
- Rounding is monotonic, so an average that does not exceed the worst time does not when
  both are rounded (`RoundedAverage`).
- The names that can be reached along at most n edges grow with n, or stop growing
  for good (`ReachedGrow`); after as many edges as there are names they have stopped, and
  then the functions with these names are closed under the calls of the graph, hence all
  of them (`DrawingIsConnected`).
- The largest of the self times is one of them (`DrawingHasHottest`).

For the page: `sort` moves one row at a time, and after i steps the first i rows are sorted
among themselves. This is said by giving the place of each row: the number of rows that
precede it, by their key and, among equals, by where they were (`Place`); a step
moves exactly the rows behind the new one's place (`PlaceStep`), so after the last the rows
are at their places in the sorted order (`SortRowsIs`). ClicksSortStably is
this fact, and `PageInv` carries the order, with the one arrow that tells it, to the next click.

What `OutputAssumption` says of a measurement holds of what the profiler measures: a
function in a profile was called; its time is at most its calls times the worst time, unless a
recursion is in progress; and the nodes of a graph are reached from the sentinel, since a node
is made below one that exists (CallGraph). The run time is one that a clock with 32-bit seconds can measure. Of a server.cfg it says that a setting is given
under its old or its new name, not both (`IsConfig`): with both, `call_graph 1` and
`profiler_callgraph 0` switch the graph on. Then a renamed option has the same first
line with a value (`RenamedIs`), and `profile_gamemode 1` does what naming the game mode that
is loaded does, since its path is `gamemodes/` and that name (`GamemodeIsNamed`).

These proofs and that of FoundAlwaysIfDetectable reason about recursive functions without a
principle of induction, which the provers cannot instantiate: what is wrong of some number is
wrong of a least one (`LeastExists`, from the well-foundedness of the natural numbers), and
that its predecessor is right leads to a contradiction. That a recursive function exists
is shown by giving it in another form.

`SubhookProofs`, for any number of plugins, any functions made of any instructions, any
memory and any outcome of the calls that may fail: `TypeCorrect`, `BlocksAlwaysHooks` and
`CodeAlwaysRestored`, also with instructions that the disassembler takes for something else;
`CallInvariant`, `CallsAlwaysRunTheOriginal`, `HooksAlwaysVisited`, `CrashesAlwaysExplained` and
`CodeAlwaysRestoredIfKnown` if it is right about the instructions that it knows (`Agrees`). This
is a condition that the code needs: it is false of the two kinds of instructions named in section 3,
and a function that begins with one of them is broken by a hook. TLC evaluates it for the
instructions of the instance (`MCDisassembler`).

The argument. Hooks that a call takes away are still there when it returns, and all of them are
installed again then (`RemovedInv`); `order` has each plugin with a hook once
(`OrderInv`). The memory away from the function's first bytes and from trampolines that are
in use never changes (`RestInv`: what DestroyHook clears was free before); and as
long as plugins go in the opposite order, the oldest hook keeps the bytes that were there before
it, which are back when it has gone (`HeadInv`). The younger hooks keep jumps, so
nothing of the kind can be said of them, nor when they go in another order.
`CodeAlwaysRestored` assumes that trampolines fit the blocks that
are allocated for them ([]TrampolinesFit, a part of CallsRunTheOriginal): 15 bytes are enough
for the instructions of a processor, but not for every sequence of prefixes that subhook_disasm
accepts, and what is written past the block would stay. The loop of subhook_make_trampoline
is shown to end (`LastIsCopied`).

That calls run the original needs to know what code there is. The function begins with one of
`Codes`: its own instructions, or the jump of a hook; so does what each hook would put back, and
a trampoline has the first instructions of one of them, with the targets they had, and
a jump to the next (`HeadKnown`, `CodesKnown`, `TrampolinesKnown`). As long as the last plugin is
the first to go, a jump that is found there belongs to a hook that is still there, and what a hook
keeps, or has in its trampoline, belongs to one that came before it (`Alive`, `Before`): otherwise a
plugin that goes would leave a jump to itself behind. A call that is not over is then at the hook function of a
plugin and has done nothing, or at the n-th instruction of such a code, in its place or in a trampoline,
and has done the n - 1 before it (`PlaceInv`). A trampoline that is made of code that was read is one of that kind
because the places that are copied are those where its instructions begin (`CopiedIs`, `TrampolineIs`),
and an operand that moves by as much as its instruction keeps its target modulo the size of the memory
(`RelocatedIs`). Conversely the processor finds the instruction, and no other one,
at each of these places (`DecodeIs`, from ProcessorAssumption). When the trampoline jumps back, the
rest of the function is there because nothing ever writes behind the jump (`RestInv`,
`BackInFunction`).

That calls go through the hooks (HooksAreVisited) needs to know which jump is there, not only that it
is one of a hook. `Older` is the order in which the plugins came. As long as the last one is
the first to go, a call that runs into a hook finds only older ones from there, since what a hook
leads to is from before it came: what is visited descends in this order, and no hook is
visited twice (`VisitedInv`). That none is left out is proved where it is true (`Simple`):
if every plugin has a trampoline, and for two plugins of either kind. `Ahead` is what a call goes through that
runs some code; it is exactly the older hooks for what a hook keeps and for its trampoline (`Before`),
and for what the function begins with it is all hooks that are there, but after a first call without those that
are `Overwritten` (`HeadKnown`). While a call is running, what it has visited and what is ahead
make up what it should visit (`OnWay`). The difficult step is the return (`ReturnedHead`): the jump that stays is that of the
hook that was taken away first (`RemovedIs`), and every hook that is not below it is one that the next
call should miss. If more than two plugins take their hooks away in turn, which of them are
overwritten depends on all that they put back, and the property says only what was said
for all cases: order, and nothing out of the way.

These invariants were checked by TLC, with two and with three plugins, before they were proved.

`AmxProofs` has the facts about sequences and about the machine's steps that
ProfilerProofs and ProfilerHandlerProofs share.

StackInv and TimersInv are checked by runs as well. The other inductive invariants (MatchInv,
EntriesInv, UnusedIsEmpty with LoadedInv, FlatInv, HeapInv, NamesInv, FilesInv,
ContentsInv, PageInv, DurationInv, PluginInv, CacheInv, RemovedInv, OrderInv, RestInv, HeadInv, CallInv) are stated where
they are proved, and the type invariants of Profiler, CallTimers and Plugin are
proved only.

Only model-checked so far, with the reasons:

- StartCompletes, StopCompletes and OpensReturn: liveness, which the proof system
  cannot treat.
- The rest of LookupsAreRight, which says in which cases the searches that trust the count
  of lines go wrong. The plugin calls none of them, and what they find depends on more than
  `IsCompiled` says of a script: the lines at which functions begin, and nested scopes.
- NoTimeIsInvented and RunningIsCounted, which are false.

The assumptions on the constants (`AmxAssumption`, `CallGraphAssumption`, `ProfilerAssumption`,
`TimersAssumption`, `FopenHookAssumption`, `PluginAssumption`, `SubhookAssumption`,
`MmapAssumption`, `ProcessorAssumption`, `FunctionAssumption`, `AmxDbgAssumption`, `ScriptFileAssumption`, `CompilerAssumption`,
`OutputAssumption`) are evaluated by TLC in the runs of the modules that extend theirs.

## 5. Not modelled, and the plan

Not modelled:

- Exceptions. Only Clock::Now throws, when clock_gettime fails for a clock that exists,
  which it does not; the handlers of `Exec` and `Callback` would run the public or the native
  a second time.
- Sleep (AMX_EXEC_CONT). ExecHook pushes nothing for a script that is continued, whose entries
  it has popped when it went to sleep: functions left by such a script are
  left by the entry below.
- AMX_FLAG_BROWSE, a mode of amx_Exec that runs no script (plugin.cpp:115-117), and AMX_PATH, an environment variable with more directories to search.
- dbg_GetArrayDim of amxdbg.c (512-531), which has no caller, the three amx_Align functions
  that Load replaces by ones that do nothing, the 64-bit jumps of subhook, which the 32-bit plugin does not use, and
  the Windows variants of clock, files and hook (CreateFileA, like fopen).
- Markup, widths of columns and escapes in the reports; directories in the search for files.
- The listing of directories, logging, and the types and macros of the SDK (`osdefs.h`, most of `amx.h`): no state and no decisions.

Still to do, in this order:

1. That the lookups which are correct only for tables that did not wrap are wrong in
   no other case: the rest of LookupsAreRight, as far as it needs no recursion.
2. The sleep instruction in Amx, with AMX_EXEC_CONT in Profiler.
