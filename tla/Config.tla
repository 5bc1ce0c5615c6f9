------------------------------- MODULE Config -------------------------------
(***************************************************************************)
(* The settings of the plugin: server.cfg as class ConfigReader            *)
(* (src/deps/configreader) reads it, the variables of                      *)
(* profilerhandler.cpp that are initialised with it, and which scripts are *)
(* profiled.                                                               *)
(*                                                                         *)
(* A line of server.cfg is [name, words, spaced]: its first word, the      *)
(* others, and whether those are separated by single spaces (they may be   *)
(* separated by tabs).  The words are sequences of tokens, see Paths.      *)
(***************************************************************************)
EXTENDS Paths, FiniteSetsExt

\* The line that gives an option its value.  Later ones, for which insert does
\* nothing, and those without a value are left out.
LineOf(lines, name) ==
    Min({i \in DOMAIN lines : lines[i].name = name /\ lines[i].words # <<>>})

\* ReadFromStream: options_, a function from names to values.
ReadFromStream(lines) ==
    [name \in {lines[i].name : i \in {k \in DOMAIN lines : lines[k].words # <<>>}}
        |-> LET line == lines[LineOf(lines, name)]
            IN  [words |-> line.words, spaced |-> line.spaced]]

\* GetValueWithDefault of a string: the value as it stands.
GetString(options, name, default) ==
    IF name \in DOMAIN options THEN options[name] ELSE default

\* A value as one string.
Text(value) ==
    LET between == IF value.spaced THEN <<" ">> ELSE <<"\t">>
    IN  FoldLeft(LAMBDA text, word : text \o between \o word,
                 Head(value.words), Tail(value.words))

\* GetValueWithDefault(name, false): a word that is not 0 or 1 is no value.
\* Numbers have no leading zeroes.
GetBool(options, name) ==
    name \in DOMAIN options /\ options[name].words[1] = <<"1">>

\* GetValues<std::string>
GetValues(options, name) ==
    IF name \in DOMAIN options THEN options[name].words ELSE <<>>

Default(words) == [words |-> words, spaced |-> TRUE]

\* The variables of namespace cfg and of cfg::old.
Settings(lines) ==
    LET options == ReadFromStream(lines)
        Format(name, default) ==
            Text(GetString(options, name, Default(<<default>>)))
    IN  [gamemodes |-> GetString(options, "profiler_gamemodes", Default(<<>>)),
         filterscripts |-> GetValues(options, "profiler_filterscripts"),
         output_format |-> Format("profiler_outputformat", <<"html">>),
         call_graph |-> GetBool(options, "profiler_callgraph"),
         call_graph_format |-> Format("profiler_callgraphformat", <<"dot">>),
         old_gamemode |-> GetBool(options, "profile_gamemode"),
         old_filterscripts |-> GetValues(options, "profile_filterscripts"),
         old_format |-> Format("profile_format", <<"html">>),
         old_call_graph |-> GetBool(options, "call_graph"),
         old_call_graph_format |-> Format("call_graph_format", <<"dot">>)]

IsCallGraphEnabled(s) == s.call_graph \/ s.old_call_graph

\* stringutils::SplitString(value, ' '): tabs do not separate.
SplitString(value) ==
    IF value.spaced THEN ToSet(value.words) ELSE {Text(value)}

\* The file that a name in server.cfg stands for, with or without extension.
IsNamed(disk, path, directory, name) ==
    \/ SameFile(disk, path, <<directory, "/">> \o name \o <<".", "amx">>)
    \/ SameFile(disk, path, <<directory, "/">> \o name)

\* Mutant: only the new settings are looked at.
ProfiledByNewName(path, s, disk) ==
    \/ /\ IsGameMode(path)
       /\ \E name \in SplitString(s.gamemodes) :
             IsNamed(disk, path, "gamemodes", name)
    \/ /\ IsFilterScript(path)
       /\ \E name \in ToSet(s.filterscripts) :
             IsNamed(disk, path, "filterscripts", name)

ShouldBeProfiled(path, s, disk) ==
    \/ /\ IsGameMode(path)
       /\ \/ s.old_gamemode
          \/ \E name \in SplitString(s.gamemodes) :
                IsNamed(disk, path, "gamemodes", name)
    \/ /\ IsFilterScript(path)
       /\ \E name \in ToSet(s.old_filterscripts \o s.filterscripts) :
             IsNamed(disk, path, "filterscripts", name)
=============================================================================
