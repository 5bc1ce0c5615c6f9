------------------------------- MODULE Output -------------------------------
(***************************************************************************)
(* From the settings to the files: which scripts are profiled, and what    *)
(* ProfilerHandler::Dump (src/src/profilerhandler.cpp) leaves on the disk  *)
(* when a script asks for it or is unloaded.  Afterwards somebody looks at *)
(* the page.                                                               *)
(***************************************************************************)
EXTENDS Config, HtmlTable, TLC

CONSTANTS
    ConfigFiles,  \* contents of server.cfg, see Config
    Disk,         \* the scripts on the disk, see Paths
    Loaded,       \* sets of these that are loaded one after the other in a run
    Measured,     \* what the profiler measures, one after the other:
                  \* [profile, graph, ran], see Report, and whether a function
                  \* is on the stack that has called itself, recursing
    Clicks,       \* the cells of the header that are clicked
    None

\* The formats, lower case or not: the result of ToLower is not used.
OutputFormat(s) == IF s.output_format = <<>> THEN s.old_format
                   ELSE s.output_format

CallGraphFormat(s) == IF s.call_graph_format = <<>>
                      THEN s.old_call_graph_format
                      ELSE s.call_graph_format

\* The names of the files that Dump writes for a script.
ProfileName(path, s) ==
    AmxName(ToUnixPath(path)) \o <<"-profile", ".">> \o OutputFormat(s)
CallsName(path, s) ==
    AmxName(ToUnixPath(path)) \o <<"-calls", ".">> \o CallGraphFormat(s)

\* The deprecated settings and those that they are the same as.
NewNames == [profile_gamemode |-> "profiler_gamemodes",
             profile_filterscripts |-> "profiler_filterscripts",
             call_graph |-> "profiler_callgraph"]

\* A server.cfg that has the old or the new name of a setting, and says only once
\* whether game modes are profiled.
IsConfig(file) ==
    /\ file \in Seq([name : STRING, words : Seq(Seq(STRING)), spaced : BOOLEAN])
    /\ \A m, n \in DOMAIN file :
          /\ file[m].name \in DOMAIN NewNames =>
                 file[n].name # NewNames[file[m].name]
          /\ file[m].name = "profile_gamemode" /\ file[n].name = file[m].name =>
                 m = n

\* A profile is of functions that have been called, and an average is not above
\* the worst time.  While a function that has called itself is on the stack it can
\* be: the calls that have returned are in the times, but not in the worst ones,
\* for which only the outermost call counts (PerformanceCounter::Stop).
IsProfile(p, recursing) ==
    /\ IsFiniteSet(DOMAIN p) /\ DOMAIN p \subseteq Nat /\ Sentinel \notin DOMAIN p
    /\ \A a \in DOMAIN p :
          /\ p[a] \in FunctionStatistics /\ p[a].calls > 0
          /\ ~recursing => /\ p[a].self <= p[a].calls * p[a].worst_self
                           /\ p[a].total <= p[a].calls * p[a].worst_total

\* The nodes of a graph are connected to the sentinel: see CallGraph.
IsCallGraphOf(g, addresses) ==
    /\ g \subseteq (addresses \cup {Sentinel}) \X addresses
    /\ \A reached \in SUBSET (addresses \cup {Sentinel}) :
          /\ Sentinel \in reached
          /\ \A e \in g : e[1] \in reached => e[2] \in reached
          => Traversed(g) \subseteq reached

ASSUME OutputAssumption ==
    /\ Measured # <<>> /\ Measured \in Seq({Measured[n] : n \in DOMAIN Measured})
    /\ \A n \in DOMAIN Measured :
          /\ IsProfile(Measured[n].profile, Measured[n].recursing)
          /\ IsCallGraphOf(Measured[n].graph, DOMAIN Measured[n].profile)
          /\ Measured[n].ran \in Nat /\ Measured[n].ran \div 1000 < 2147483647
          /\ Measured[n].recursing \in BOOLEAN
    /\ Clicks \subseteq HeaderCells
    /\ \A file \in ConfigFiles : IsConfig(file)
    /\ \A path \in DOMAIN Disk : IsGameMode(path) =>
          path = <<"gamemodes", "/">> \o From(path, 3)
    /\ Loaded \subseteq SUBSET DOMAIN Disk /\ None \notin DOMAIN Disk

VARIABLES
    lines,     \* server.cfg
    settings,  \* the variables of namespace cfg
    script,    \* the path of the script that is loaded
    attached,  \* state_ >= PROFILER_ATTACHED
    measured,  \* how far the profiler got in Measured
    files,     \* the files that Dump has written
    denied,    \* history: the files that Dump could not open in the last step
    page       \* the profile in a browser

vars == <<lines, settings, script, attached, measured, files, denied, page>>

profile == Measured[measured].profile
graph == Measured[measured].graph

TypeOK ==
    /\ lines \in ConfigFiles /\ settings.call_graph \in BOOLEAN
    /\ script \in DOMAIN Disk \cup {None}
    /\ attached \in BOOLEAN /\ (attached => script # None)
    /\ measured \in DOMAIN Measured
    /\ \A k \in DOMAIN files :
          /\ files[k].script \in DOMAIN Disk
          /\ files[k].writer \in {"none", "html", "text", "json", "dot"}
    /\ denied \subseteq {"profile", "calls"}
    /\ page # None => page.asc \in [0 .. 10 -> BOOLEAN]

Init ==
    /\ lines \in ConfigFiles
    /\ settings = Settings(lines)
    /\ script = None /\ attached = FALSE
    /\ measured = 1
    /\ files = <<>>
    /\ denied = {}
    /\ page = None

-----------------------------------------------------------------------------
WriterOf(format) ==
    CASE format = <<"html">> -> "html"
      [] format \in {<<"txt">>, <<"text">>} -> "text"
      [] format = <<"json">> -> "json"
      [] OTHER -> "none"

\* A file that has been opened and closed again.  Its script and how much it had
\* run are history.
Empty == [writer |-> "none", script |-> script, measured |-> measured]

\* The file that a statistics writer leaves.
WrittenProfile ==
    LET writer == WriterOf(OutputFormat(settings))
    IN  IF writer = "none" THEN Empty
        ELSE [writer |-> writer, script |-> script, measured |-> measured,
              duration |-> IF writer = "json"
                           THEN JsonDuration(Measured[measured].ran)
                           ELSE TimeSpan(Measured[measured].ran),
              rows |-> CASE writer = "html" -> TableRows(profile)
                         [] writer = "text" -> TextRows(profile)
                         [] writer = "json" -> JsonRows(profile)]

\* The file that the writer of the call graph leaves.
WrittenCalls ==
    IF CallGraphFormat(settings) # <<"dot">> THEN Empty
    ELSE [writer |-> "dot", script |-> script, measured |-> measured,
          edges |-> WriteNodes(profile, graph),
          nodes |-> WriteNodeColors(profile, Traversed(graph))]

\* The kinds of files that it writes.
Kinds == {"profile"} \cup (IF IsCallGraphEnabled(settings) THEN {"calls"} ELSE {})

ProfileFile == ProfileName(script, settings)
CallsFile == CallsName(script, settings)
FileOf(kind) == IF kind = "profile" THEN ProfileFile ELSE CallsFile

\* Mutant: Dump refuses unless the profiler is stopped for the first time.
DumpOnce(cannotOpen) ==
    /\ denied' = cannotOpen
    /\ files' = IF ~attached \/ "profile" \in cannotOpen
                   \/ ProfileFile \in DOMAIN files
                THEN files
                ELSE (ProfileFile :> WrittenProfile) @@ files

\* ProfilerHandler::Dump; some files cannot be opened.
DumpFiles(cannotOpen) ==
    LET opened == IF attached THEN Kinds \ cannotOpen ELSE {}
    IN  /\ denied' = cannotOpen
        /\ files' = [f \in {FileOf(kind) : kind \in opened} \cup DOMAIN files |->
                        IF f \notin {FileOf(kind) : kind \in opened} THEN files[f]
                        ELSE IF f = ProfileFile THEN WrittenProfile
                        ELSE WrittenCalls]

\* AmxLoad: Attach and Start if the script is to be profiled.
AmxLoad ==
    /\ script = None /\ page = None
    /\ \E scripts \in Loaded :
          /\ script' \in scripts
          /\ \A k \in DOMAIN files : files[k].script \in scripts
    /\ attached' = ShouldBeProfiled(ToUnixPath(script'), settings, Disk)
    /\ measured' = 1 /\ denied' = {}
    /\ UNCHANGED <<lines, settings, files, page>>

\* A script that is not listed calls Profiler_Start; the next Exec attaches.
ProfilerStart ==
    /\ script # None /\ ~attached
    /\ attached' = TRUE /\ denied' = {}
    /\ UNCHANGED <<lines, settings, script, measured, files, page>>

\* The script runs.
Run ==
    /\ attached
    /\ measured < Len(Measured)
    /\ measured' = measured + 1 /\ denied' = {}
    /\ UNCHANGED <<lines, settings, script, attached, files, page>>

\* Profiler_Dump
ProfilerDump ==
    /\ script # None
    /\ \E cannotOpen \in SUBSET {"profile", "calls"} : DumpFiles(cannotOpen)
    /\ UNCHANGED <<lines, settings, script, attached, measured, page>>

\* Mutant: the handler is not destroyed.
UnloadKeepsHandler ==
    /\ script # None
    /\ \E cannotOpen \in SUBSET {"profile", "calls"} : DumpFiles(cannotOpen)
    /\ script' = None
    /\ UNCHANGED <<lines, settings, attached, measured, page>>

\* AmxUnload: Dump, and the handler is destroyed.
AmxUnload ==
    /\ script # None
    /\ \E cannotOpen \in SUBSET {"profile", "calls"} : DumpFiles(cannotOpen)
    /\ script' = None
    /\ attached' = FALSE
    /\ measured' = 1
    /\ UNCHANGED <<lines, settings, page>>

\* Somebody opens a page.  Nothing else happens afterwards.
OpenPage ==
    /\ script = None /\ page = None
    /\ \E k \in DOMAIN files :
          /\ files[k].writer = "html"
          /\ page' = NewPage(files[k].rows)
    /\ denied' = {}
    /\ UNCHANGED <<lines, settings, script, attached, measured, files>>

Click(cell) ==
    /\ page # None
    /\ page' = Clicked(page, cell)
    /\ UNCHANGED <<lines, settings, script, attached, measured, files, denied>>

Next ==
    \/ AmxLoad
    \/ ProfilerStart
    \/ Run
    \/ ProfilerDump
    \/ AmxUnload
    \/ OpenPage
    \/ \E cell \in Clicks : Click(cell)

Spec == Init /\ [][Next]_vars

-----------------------------------------------------------------------------
(* Properties                                                              *)

\* The same file with the new names of the settings.  "profile_gamemode 1" is
\* "profiler_gamemodes" with the name of the game mode that is loaded.
WithNewNames(path) ==
    LET NewName(line) ==
            IF line.name = "profile_gamemode"
            THEN [name |-> NewNames[line.name], spaced |-> TRUE,
                  words |-> IF line.words # <<>> /\ line.words[1] = <<"1">>
                            THEN <<From(path, 3)>> ELSE <<>>]
            ELSE IF line.name \in DOMAIN NewNames
            THEN [line EXCEPT !.name = NewNames[line.name]]
            ELSE line
    IN  [n \in DOMAIN lines |-> NewName(lines[n])]

\* The deprecated settings that choose scripts and switch the call graph on do
\* what the README says they are the same as (ShouldBeProfiled,
\* IsCallGraphEnabled).  This is said of the settings as they are when the plugin
\* has been loaded.
OldNamesWork ==
    script = None /\ files = <<>> =>
        \A path \in DOMAIN Disk :
            LET new == Settings(WithNewNames(path))
            IN  /\ ShouldBeProfiled(path, settings, Disk)
                    = ShouldBeProfiled(path, new, Disk)
                /\ IsCallGraphEnabled(settings) = IsCallGraphEnabled(new)

Tables == {k \in DOMAIN files : files[k].writer \in {"html", "text"}}

\* The percentages of a column add up to 100, each being rounded, unless no time
\* has passed.
SumOfColumn(rows, column) ==
    MapThenSumSet(LAMBDA n : rows[n][column].value, DOMAIN rows)

PercentagesFit(rows, percent) ==
    \/ \A n \in DOMAIN rows : rows[n][percent] = NaN
    \/ 2 * SumOfColumn(rows, percent) - 20000 \in -Len(rows) .. Len(rows)

\* No average is above the worst time, in the columns after those of a percentage.
AveragesFit(rows, percent) ==
    \A n \in DOMAIN rows :
        rows[n][percent + 2].value <= rows[n][percent + 3].value

\* The columns of a table fit together, the averages unless a recursion has not
\* ended (the loops of StatisticsWriterHtml and StatisticsWriterText).
RowsAreConsistent ==
    \A k \in Tables, percent \in {4, 8} :
        /\ PercentagesFit(files[k].rows, percent)
        /\ \/ Measured[files[k].measured].recursing
           \/ AveragesFit(files[k].rows, percent)

\* The time span of a table is the run time in whole seconds, and minutes and
\* seconds are below 60 (TimeSpan::TimeSpan).  The number in a JSON file is rounded
\* instead: it may be greater, also than what a table shows, but differs from the
\* run time by no more than half a unit of its sixth digit, one 200000th
\* (StatisticsWriterJson::Write).
DurationsAreRight ==
    \A k \in DOMAIN files :
        LET duration == files[k].duration
            ran == Measured[files[k].measured].ran
        IN  /\ k \in Tables =>
                  /\ duration.hours * 3600 + duration.minutes * 60
                         + duration.seconds = ran \div 1000
                  /\ {duration.minutes, duration.seconds} \subseteq 0 .. 59
            /\ files[k].writer = "json" =>
                  /\ duration.scale = 1000
                  /\ 200000 * (duration.value - ran) <= ran
                  /\ 200000 * (ran - duration.value) <= ran

\* In the drawing of a call graph every function can be reached from the server,
\* and what an edge ends at has a shape (CallGraphWriterDot).
GraphIsConnected ==
    \A k \in {d \in DOMAIN files : files[d].writer = "dot"} :
        LET drawn == {n.name : n \in files[k].nodes}
            next(names) == names \cup {e[2] : e \in {d \in files[k].edges :
                                                       d[1] \in names}}
            reached[n \in Nat] == IF n = 0 THEN {ServerName}
                                  ELSE next(reached[n - 1])
        IN  reached[Cardinality(drawn)] = drawn

\* The hottest function of a graph has the ratio 1, the others less, unless no
\* time has passed (ComputeMaxTime).
HottestIsRed ==
    \A k \in {d \in DOMAIN files : files[d].writer = "dot"} :
        LET ratios == {n.ratio : n \in {m \in files[k].nodes :
                                            m.shape # "diamond"}}
        IN  NaN \notin ratios /\ ratios # {} =>
                Max({r.value : r \in ratios}) = 100000

\* Whatever is on the disk, whenever it was written, makes sense by itself.
ReportsAreSound ==
    RowsAreConsistent /\ DurationsAreRight /\ GraphIsConnected /\ HottestIsRed

\* A profile on the disk is replaced only by a later one of the same script, and
\* not by the empty file that Dump leaves when the format is not supported.
ProfilesStay ==
    [][\A k \in DOMAIN files :
          files[k].writer # "none" =>
              /\ k \in DOMAIN files'
              /\ files'[k].writer = files[k].writer
              /\ files'[k].script = files[k].script]_files

\* When a profiled script has been unloaded, its files are about all of its run,
\* the profile and the call graph alike, except for what could not be opened.
UnloadWritesAll ==
    [][attached /\ script' = None =>
          \A kind \in Kinds \ denied' :
              /\ FileOf(kind) \in DOMAIN files'
              /\ files'[FileOf(kind)].script = script
              /\ files'[FileOf(kind)].measured = measured]_vars

\* At most one arrow is shown in the header, and the rows are in its order by
\* the values of its column: up for ascending (click listener, sort).
ArrowTellsOrder ==
    page # None =>
        LET shown == {c \in HeaderCells : page.arrow[c] # "none"}
        IN  /\ Cardinality(shown) <= 1
            /\ \A c \in shown : \A n \in 2 .. Len(page.rows) :
                  ~GoesBefore(page.rows[n], page.rows[n - 1], c[2],
                              page.arrow[c] = "down")

\* Sorting loses no row, and keeps the order of rows that are equal in the column:
\* the place of a row follows from the rows that go before it and, of its equals,
\* those that did.  Sorts by several columns can thus be combined.
ClicksSortStably ==
    [][page # None /\ page'.asc # page.asc =>
          LET c == CHOOSE i \in 0 .. 10 : page'.asc[i] # page.asc[i]
              Before(m, n) ==
                  LET a == page.rows[m] b == page.rows[n]
                  IN  \/ GoesBefore(a, b, c, page.asc[c])
                      \/ m < n /\ ~GoesBefore(b, a, c, page.asc[c])
          IN  \A n \in DOMAIN page.rows :
                  LET place == Cardinality({m \in DOMAIN page.rows \ {n} :
                                               Before(m, n)}) + 1
                  IN  page'.rows[place] = page.rows[n]]_page
=============================================================================
