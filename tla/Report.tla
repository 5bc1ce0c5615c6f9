------------------------------- MODULE Report -------------------------------
(***************************************************************************)
(* What the writers (statistics_writer_*.cpp, call_graph_writer_dot.cpp)   *)
(* write.                                                                  *)
(*                                                                         *)
(* A profile is a function from the addresses of functions to their        *)
(* FunctionStatistics, with times in milliseconds.  Names are numbers, in  *)
(* the order in which the names would be sorted.  A number with decimals   *)
(* is [value, scale]: the integer value, divided by scale.                 *)
(***************************************************************************)
EXTENDS Integers, Sequences, SequencesExt, FiniteSetsExt

CONSTANTS
    Sentinel,   \* the root of a call graph
    ServerName, \* the name it is given
    NaN         \* the quotient 0 / 0

\* FunctionStatistics and the Function it is about.
FunctionStatistics ==
    [type : {"public", "native", "normal"}, name : Nat, calls : Nat,
     self : Nat, total : Nat, worst_self : Nat, worst_total : Nat]

\* a / b with so many decimals; std::fixed, std::setprecision.
Rounded(a, b, scale) ==
    IF b = 0 THEN NaN
    ELSE [value |-> (2 * a * scale + b) \div (2 * b), scale |-> scale]

\* Statistics::GetStatistics: the map is ordered by address.
GetStatistics(profile) ==
    LET addresses == CHOOSE s \in SetToSeqs(DOMAIN profile) :
                         \A m, n \in DOMAIN s : m < n => s[m] < s[n]
    IN  [n \in DOMAIN addresses |-> profile[addresses[n]]]

SumOf(profile, field) ==
    MapThenSumSet(LAMBDA a : profile[a][field], DOMAIN profile)

\* Mutant: of all functions, the self times.
AllTimesSelf(profile, field) == SumOf(profile, "self")

\* self_time_all, total_time_all
AllTimes(profile, field) == SumOf(profile, field)

\* What both tables, the page and the text, have in a row: the loop of
\* StatisticsWriterHtml::Write and of StatisticsWriterText::Write.
TableRow(profile, fn) ==
    <<fn.type, fn.name, fn.calls,
      Rounded(fn.self * 100, AllTimes(profile, "self"), 100),
      Rounded(fn.self, 1000, 10),
      Rounded(fn.self, fn.calls, 10),
      Rounded(fn.worst_self, 1, 10),
      Rounded(fn.total * 100, AllTimes(profile, "total"), 100),
      Rounded(fn.total, 1000, 10),
      Rounded(fn.total, fn.calls, 10),
      Rounded(fn.worst_total, 1, 10)>>

TableRows(profile) ==
    LET stats == GetStatistics(profile)
    IN  [n \in DOMAIN stats |-> TableRow(profile, stats[n])]

\* The text has the same columns as the page.
TextRows(profile) == TableRows(profile)

\* What a digit of a time in milliseconds is worth.  Bound: numbers below 10^13;
\* the seconds of the clock have 32 bits (Clock::Now).
DigitUnits == {1, 10, 100, 1000, 10000, 100000, 1000000, 10000000}

\* A number with the default precision of a stream, six digits.
SixDigits(n) ==
    LET unit == CHOOSE u \in DigitUnits :
                    /\ n \div u < 1000000
                    /\ u = 1 \/ n \div u >= 100000
    IN  unit * ((n + unit \div 2) \div unit)

\* The duration in a JSON file, in seconds.
JsonDuration(ms) == [value |-> SixDigits(ms), scale |-> 1000]

\* StatisticsWriterJson::Write; the list ends with an empty object.  A time in
\* nanoseconds has the same digits.
JsonRows(profile) ==
    LET stats == GetStatistics(profile)
    IN  Append([n \in DOMAIN stats |->
                   <<stats[n].type, stats[n].name, stats[n].calls,
                     SixDigits(stats[n].self), SixDigits(stats[n].worst_self),
                     SixDigits(stats[n].total),
                     SixDigits(stats[n].worst_total)>>], <<>>)

\* TimeSpan::TimeSpan
TimeSpan(ms) ==
    LET hours == ms \div 3600000
        rest == ms - hours * 3600000
        minutes == rest \div 60000
    IN  [hours |-> hours, minutes |-> minutes,
         seconds |-> (rest - minutes * 60000) \div 1000]

-----------------------------------------------------------------------------
\* A graph is a set of edges between addresses, or from the Sentinel.
NodeName(profile, node) ==
    IF node = Sentinel THEN ServerName ELSE profile[node].name

\* Traverse, without the sentinel.
Traversed(graph) == {e[2] : e \in graph}

\* WriteNode, for each node of the graph.
WriteNodes(profile, graph) ==
    {<<NodeName(profile, e[1]), profile[e[2]].name, profile[e[2]].type>> :
        e \in graph}

\* ComputeMaxTime
MaxTime(profile, nodes) == Max({0} \cup {profile[a].self : a \in nodes})

\* WriteNodeColor: hue and saturation follow from the ratio.
WriteNodeColors(profile, nodes) ==
    {[name |-> ServerName, shape |-> "diamond"]}
    \cup {[name |-> profile[a].name,
           ratio |-> Rounded(profile[a].self, MaxTime(profile, nodes), 100000),
           shape |-> CASE profile[a].type = "public" -> "octagon"
                       [] profile[a].type = "native" -> "box"
                       [] profile[a].type = "normal" -> "oval"] : a \in nodes}
=============================================================================
