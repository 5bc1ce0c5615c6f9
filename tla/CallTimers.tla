----------------------------- MODULE CallTimers -----------------------------
(***************************************************************************)
(* The times of a profile (src/src/amxprof/performance_counter.cpp): every *)
(* entry of the call stack has a counter, which knows the counter of its   *)
(* caller (parent) and, in a recursion, that of the nearest earlier call   *)
(* of the same function (shadow).  When an entry is popped its counter     *)
(* stops, corrects these two, and LeaveFunction adds its times to the      *)
(* statistics of the function.                                             *)
(*                                                                         *)
(* The module is about the counters only: entries are pushed and popped in *)
(* any order that a stack allows (module Profiler says when), and time     *)
(* passes in between, between two pops of one LeaveFunction too, since     *)
(* each reads the clock.  Times are integers; the code's are doubles.      *)
(***************************************************************************)
EXTENDS Integers, Sequences

CONSTANTS
    Functions,
    MaxCalls,   \* bound: entries on the stack at a time
    MaxTime     \* bound: the last reading of the clock

ASSUME TimersAssumption ==
    /\ MaxCalls \in Nat
    /\ MaxTime \in Nat

VARIABLES
    now,         \* Clock::Now()
    calls,       \* CallStack::calls_, the top last
    total, self, \* FunctionStatistics: total_time_ and self_time_ and
    worstTotal, worstSelf,  \* worst_total_time_ and worst_self_time_
    present,     \* history: how long a function has been on the stack
    ran,         \* history: how long it has been on top of the stack
    recursive    \* history: the functions that have been called while they
                 \* were on the stack

statVars == <<total, self, worstTotal, worstSelf>>
history == <<present, ran, recursive>>
vars == <<now, calls, total, self, worstTotal, worstSelf,
          present, ran, recursive>>

(***************************************************************************)
(* start, total, child  the fields of PerformanceCounter                   *)
(* shadow               the place of the counter in shadow_; 0 if none     *)
(* ran                  history: how long fn was on top of the stack since *)
(*                      this call, in the recursive calls it made too      *)
(***************************************************************************)
FunctionCall == [fn : Functions, start : Nat, total : Int, child : Int,
                 shadow : Nat, ran : Nat]

TypeOK ==
    /\ now \in Nat
    /\ calls \in Seq(FunctionCall)
    /\ total \in [Functions -> Int] /\ self \in [Functions -> Int]
    /\ worstTotal \in [Functions -> Int] /\ worstSelf \in [Functions -> Int]
    /\ present \in [Functions -> Nat] /\ ran \in [Functions -> Nat]
    /\ recursive \subseteq Functions

Init ==
    /\ now = 0
    /\ calls = <<>>
    /\ total = [f \in Functions |-> 0] /\ self = [f \in Functions |-> 0]
    /\ worstTotal = [f \in Functions |-> 0]
    /\ worstSelf = [f \in Functions |-> 0]
    /\ present = [f \in Functions |-> 0] /\ ran = [f \in Functions |-> 0]
    /\ recursive = {}

OnStack(f) == \E i \in DOMAIN calls : calls[i].fn = f

Top == calls[Len(calls)]

-----------------------------------------------------------------------------
\* Time passes.
Tick ==
    /\ now < MaxTime
    /\ now' = now + 1
    /\ calls' = [i \in DOMAIN calls |->
                    IF calls[i].fn = Top.fn
                    THEN [calls[i] EXCEPT !.ran = @ + 1]
                    ELSE calls[i]]
    /\ present' = [f \in Functions |->
                      IF OnStack(f) THEN present[f] + 1 ELSE present[f]]
    /\ ran' = [f \in Functions |->
                  IF calls # <<>> /\ Top.fn = f THEN ran[f] + 1 ELSE ran[f]]
    /\ UNCHANGED <<statVars, recursive>>

\* Mutant: the search for the shadow goes on to the outermost call.
OutermostShadow(f, i) ==
    IF OnStack(f)
    THEN /\ i \in DOMAIN calls /\ calls[i].fn = f
         /\ \A j \in 1 .. i - 1 : calls[j].fn # f
    ELSE i = 0

\* The nearest caller that is a call of the same function.
IsShadow(f, i) ==
    IF OnStack(f)
    THEN /\ i \in DOMAIN calls /\ calls[i].fn = f
         /\ \A j \in i + 1 .. Len(calls) : calls[j].fn # f
    ELSE i = 0

\* CallStack::Push.
Push(f) ==
    /\ Len(calls) < MaxCalls
    /\ \E i \in 0 .. Len(calls) :
          /\ IsShadow(f, i)
          /\ calls' = Append(calls, [fn |-> f, start |-> now, total |-> 0,
                                     child |-> 0, shadow |-> i, ran |-> 0])
    /\ recursive' = IF OnStack(f) THEN recursive \cup {f} ELSE recursive
    /\ UNCHANGED <<now, statVars, present, ran>>

Larger(a, b) == IF a > b THEN a ELSE b

\* Mutant: the time is taken from the first call on the stack.
ElapsedSinceFirst == now - calls[1].start

\* QueryTotalTime of the entry on top.
Elapsed == now - Top.start

\* Mutants: the whole time of a call is taken back from its shadow; the time of
\* a call is added to all of its callers', or to none.
ChildTakesAll(i, time) ==
    calls[i].child + (IF i = Len(calls) - 1 THEN time ELSE 0)
                   - (IF i = Top.shadow THEN time ELSE 0)

ChildOfAll(i, time) ==
    calls[i].child + time
                   - (IF i = Top.shadow THEN time - Top.child ELSE 0)

ChildWithoutParent(i, time) ==
    calls[i].child - (IF i = Top.shadow THEN time - Top.child ELSE 0)

\* child_time_ of the i-th entry after the entry on top has stopped.
ChildAfter(i, time) ==
    calls[i].child + (IF i = Len(calls) - 1 THEN time ELSE 0)
                   - (IF i = Top.shadow THEN time - Top.child ELSE 0)

\* latest_total_time_ of the entry on top.
LatestTotal(time) == IF Top.shadow # 0 THEN 0 ELSE time

\* CallStack::Pop, PerformanceCounter::Stop and an iteration of LeaveFunction.
Pop ==
    /\ calls # <<>>
    /\ LET fn == Top.fn
           time == Elapsed
       IN /\ calls' = [i \in 1 .. Len(calls) - 1 |->
                          [calls[i] EXCEPT
                              !.child = ChildAfter(i, time),
                              !.total = @ - (IF i = Top.shadow
                                             THEN time ELSE 0)]]
          /\ self' = [self EXCEPT ![fn] = @ + (time - Top.child)]
          /\ total' = [total EXCEPT ![fn] = @ + time]
          /\ worstTotal' = [worstTotal EXCEPT ![fn] =
                               Larger(LatestTotal(time), @)]
          /\ worstSelf' = [worstSelf EXCEPT ![fn] =
                               Larger(LatestTotal(time) - Top.child, @)]
    /\ UNCHANGED <<now, history>>

Next == Tick \/ (\E f \in Functions : Push(f)) \/ Pop

Spec == Init /\ [][Next]_vars

-----------------------------------------------------------------------------
\* The self time of the call that returns next is the time its function has
\* been running since the call, its recursive calls included, however they are
\* interleaved with calls of others: what parent and shadow are for.
SelfTimeIsExact ==
    calls # <<>> => Elapsed - Top.child = Top.ran

\* The worst times of a function come from calls that can have happened: they
\* are no longer than it has been on the stack, or on top of it, altogether,
\* and no call spends more on itself than in total.
WorstTimesArePossible ==
    \A f \in Functions :
        /\ worstTotal[f] <= present[f]
        /\ worstSelf[f] <= ran[f]
        /\ 0 <= worstSelf[f] /\ worstSelf[f] <= worstTotal[f]

\* The self times of the profile, with those of the calls in progress, are the
\* times the functions ran (README.md:8, "how long each function takes to
\* execute"), for every function that never called itself, whatever others do.
SelfTimesAddUp ==
    \A f \in Functions \ recursive :
        /\ ~OnStack(f) => self[f] = ran[f]
        /\ \A i \in DOMAIN calls :
              calls[i].fn = f => self[f] + calls[i].ran = ran[f]

\* Likewise for the total times and the times the functions were on the stack.
TotalTimesAddUp ==
    \A f \in Functions \ recursive :
        /\ ~OnStack(f) => total[f] = present[f]
        /\ \A i \in DOMAIN calls :
              calls[i].fn = f =>
                  total[f] + (now - calls[i].start) = present[f]

\* No function is said to have run for longer than it did (README.md:8).
NoTimeIsInvented == \A f \in Functions : self[f] <= ran[f]

\* With recursion the profile still never claims less than the truth.
NothingIsLost ==
    \A f \in Functions :
        ~OnStack(f) => self[f] >= ran[f] /\ total[f] >= present[f]

-----------------------------------------------------------------------------
(***************************************************************************)
(* The invariant behind SelfTimeIsExact.  The shadows of the calls of one  *)
(* function form a chain, in the order of the calls.  OwnTime is what a    *)
(* call has spent outside the calls that it made; the calls of its chain   *)
(* that are still in progress will be added when they are popped.          *)
(***************************************************************************)
OwnTime(i) ==
    (IF i = Len(calls) THEN now ELSE calls[i + 1].start)
        - calls[i].start - calls[i].child

ShadowInv ==
    /\ \A j \in DOMAIN calls : calls[j].shadow < j
    /\ \A i, j \in DOMAIN calls :
          calls[j].shadow = i =>
              /\ calls[i].fn = calls[j].fn
              /\ \A k \in i + 1 .. j - 1 : calls[k].fn # calls[j].fn
    /\ \A i, j \in DOMAIN calls :
          i < j /\ calls[i].fn = calls[j].fn =>
              \E k \in DOMAIN calls : calls[k].shadow = i

OwnTimeInv ==
    /\ \A i \in DOMAIN calls :
          (\A j \in DOMAIN calls : calls[j].shadow # i) =>
              calls[i].ran = OwnTime(i)
    /\ \A i, j \in DOMAIN calls :
          calls[j].shadow = i => calls[i].ran = OwnTime(i) + calls[j].ran

\* The history of a function covers that of each of its calls.
HistoryInv ==
    \A i \in DOMAIN calls :
        /\ calls[i].ran <= now - calls[i].start
        /\ calls[i].ran <= ran[calls[i].fn]
        /\ now - calls[i].start <= present[calls[i].fn]

\* A function that never called itself is on the stack once.
OneCallEach ==
    \A i, j \in DOMAIN calls :
        calls[i].fn = calls[j].fn /\ calls[i].fn \notin recursive => i = j

\* Every other call of a function has a shadow.
FirstIsOutermost ==
    \A i, j \in DOMAIN calls :
        i < j /\ calls[i].fn = calls[j].fn => calls[j].shadow # 0

TimersInv ==
    ShadowInv /\ OwnTimeInv /\ HistoryInv /\ OneCallEach /\ FirstIsOutermost
=============================================================================
