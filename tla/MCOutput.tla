------------------------------ MODULE MCOutput ------------------------------
(* Four functions, four moments of a run, and files with one line for each   *)
(* kind of setting.  A game mode and a filter script have the same name, and *)
(* another game mode has one that begins like it.                            *)
EXTENDS Output

InGamemodes(name) == <<"gamemodes", "/">> \o name
InFilterscripts(name) == <<"filterscripts", "/">> \o name
gm == <<"gm", ".", "amx">>
old == <<"gm", ".", "old", ".", "amx">>

MCDisk == InGamemodes(gm) :> 1 @@ InGamemodes(old) :> 2
          @@ InFilterscripts(gm) :> 3 @@ InFilterscripts(<<"b", ".", "amx">>) :> 4

MCLoaded == {{InGamemodes(gm), InGamemodes(old)},
             {InGamemodes(gm), InFilterscripts(gm)}}

Line(name, words) == [name |-> name, words |-> words, spaced |-> TRUE]

\* Lines that do not matter to each other.
GamemodeLines ==
    {Line("profile_gamemode", <<<<"0">>>>), Line("profile_gamemode", <<<<"1">>>>),
     Line("profiler_gamemodes", <<<<"x">>, <<"gm">>>>),
     [name |-> "profiler_gamemodes", words |-> <<<<"x">>, <<"gm">>>>,
      spaced |-> FALSE]}
FilterscriptLines ==
    {Line("profile_filterscripts", <<gm>>),
     Line("profiler_filterscripts", <<<<"b">>, <<"gm">>>>),
     Line("profiler_filterscripts", <<>>)}
CallGraphLines ==
    {Line("call_graph", <<<<"1">>>>), Line("profiler_callgraph", <<<<"yes">>>>)}
FormatLines ==
    {Line("profiler_outputformat", <<<<f>>>>) :
        f \in {"html", "txt", "json", "xml"}}
    \cup {Line("profile_format", <<<<"txt">>>>),
          Line("profiler_callgraphformat", <<<<"svg">>>>)}

MCConfigFiles ==
    {<<g, s>> : g \in GamemodeLines, s \in FilterscriptLines}
    \cup {<<Line("profile_gamemode", <<<<"1">>>>), c>> : c \in CallGraphLines}
    \cup {<<Line("call_graph", <<<<"1">>>>), f>> : f \in FormatLines}
    \cup {<<Line("profile_gamemode", <<<<"1">>>>),
            Line("call_graph", <<<<"0">>>>),
            Line("call_graph", <<<<"1">>>>)>>}

Fn(type, name, calls, self, total, worst_self, worst_total) ==
    [type |-> type, name |-> name, calls |-> calls, self |-> self,
     total |-> total, worst_self |-> worst_self, worst_total |-> worst_total]

\* Addresses: 1 a public, 2 and 3 other functions, 4 a native.
MCMeasured ==
    <<[profile |-> <<>>, graph |-> {}, ran |-> 0, recursing |-> FALSE],
      [profile |-> 1 :> Fn("public", 3, 1, 0, 0, 0, 0),
       graph |-> {<<Sentinel, 1>>}, ran |-> 999, recursing |-> FALSE],
      [profile |-> 1 :> Fn("public", 3, 2, 150, 150, 0, 0),
       graph |-> {<<Sentinel, 1>>, <<1, 1>>}, ran |-> 59999, recursing |-> TRUE],
      [profile |-> 1 :> Fn("public", 3, 3, 350, 3700, 150, 2450)
                   @@ 2 :> Fn("normal", 1, 3, 750, 2150, 500, 1300)
                   @@ 3 :> Fn("normal", 4, 2, 1200, 1200, 1000, 1000)
                   @@ 4 :> Fn("native", 2, 3, 1400, 1400, 800, 800),
       graph |-> {<<Sentinel, 1>>, <<1, 1>>, <<1, 2>>, <<2, 4>>, <<1, 3>>},
       ran |-> 3 * 3600000 + 3599999, recursing |-> FALSE]>>

\* Type, calls, and the share of the self time under both of its headers.
MCClicks == {<<1, 0>>, <<1, 2>>, <<1, 3>>, <<2, 3>>}
=============================================================================
