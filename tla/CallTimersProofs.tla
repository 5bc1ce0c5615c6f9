-------------------------- MODULE CallTimersProofs --------------------------
(***************************************************************************)
(* Theorems about CallTimers, for all functions, every depth of recursion  *)
(* and any passage of time.                                                *)
(***************************************************************************)
EXTENDS CallTimers, SequenceTheorems, TLAPS

-----------------------------------------------------------------------------
(***************************************************************************)
(* What each action does to the stack, entry by entry.                     *)
(***************************************************************************)

\* Every entry is a record of numbers.
LEMMA EntryType ==
    ASSUME TypeOK
    PROVE  /\ Len(calls) \in Nat
           /\ DOMAIN calls = 1 .. Len(calls)
           /\ \A i \in 1 .. Len(calls) :
                 /\ calls[i] \in FunctionCall
                 /\ calls[i].fn \in Functions
                 /\ calls[i].start \in Nat
                 /\ calls[i].total \in Int
                 /\ calls[i].child \in Int
                 /\ calls[i].shadow \in Nat
                 /\ calls[i].ran \in Nat
           /\ calls # <<>> => Len(calls) \in 1 .. Len(calls)
<1>1. /\ Len(calls) \in Nat
      /\ DOMAIN calls = 1 .. Len(calls)
      /\ calls # <<>> => Len(calls) \in 1 .. Len(calls)
  BY LenProperties, EmptySeq DEF TypeOK
<1>2. ASSUME NEW i \in 1 .. Len(calls)
      PROVE  calls[i] \in FunctionCall
  BY ElementOfSeq DEF TypeOK
<1>3. QED
  BY <1>1, <1>2 DEF FunctionCall

\* So is the entry on top.
LEMMA TopType ==
    ASSUME TypeOK, calls # <<>>
    PROVE  /\ Len(calls) \in 1 .. Len(calls)
           /\ Top.fn \in Functions
           /\ Top.start \in Nat /\ Top.child \in Int
           /\ Top.shadow \in Nat /\ Top.ran \in Nat
           /\ Elapsed \in Int /\ LatestTotal(Elapsed) \in Int
<1>1. Len(calls) \in 1 .. Len(calls)
  BY EntryType
<1>2. /\ Top.fn \in Functions
      /\ Top.start \in Nat /\ Top.child \in Int
      /\ Top.shadow \in Nat /\ Top.ran \in Nat
  BY <1>1, EntryType DEF Top
<1>3. Elapsed \in Int
  BY <1>2 DEF Elapsed, TypeOK
<1>4. LatestTotal(Elapsed) \in Int
  BY <1>3 DEF LatestTotal
<1>5. QED
  BY <1>1, <1>2, <1>3, <1>4

\* Tick adds to ran of the calls of the function that is running.
LEMMA TickStack ==
    ASSUME TypeOK, Tick
    PROVE  /\ calls' \in Seq(FunctionCall)
           /\ Len(calls') = Len(calls)
           /\ \A i \in 1 .. Len(calls) :
                 /\ calls'[i].fn = calls[i].fn
                 /\ calls'[i].start = calls[i].start
                 /\ calls'[i].child = calls[i].child
                 /\ calls'[i].shadow = calls[i].shadow
                 /\ calls'[i].ran = IF calls[i].fn = Top.fn
                                    THEN calls[i].ran + 1
                                    ELSE calls[i].ran
<1> DEFINE new(i) == IF calls[i].fn = Top.fn
                     THEN [calls[i] EXCEPT !.ran = @ + 1]
                     ELSE calls[i]
<1>1. calls' = [i \in 1 .. Len(calls) |-> new(i)]
  BY EntryType DEF Tick
<1>2. ASSUME NEW i \in 1 .. Len(calls)
      PROVE  /\ new(i) \in FunctionCall
             /\ new(i).fn = calls[i].fn
             /\ new(i).start = calls[i].start
             /\ new(i).child = calls[i].child
             /\ new(i).shadow = calls[i].shadow
             /\ new(i).ran = IF calls[i].fn = Top.fn
                             THEN calls[i].ran + 1
                             ELSE calls[i].ran
  BY EntryType DEF FunctionCall
<1> HIDE DEF new
<1>3. calls' \in [1 .. Len(calls) -> FunctionCall]
  BY <1>1, <1>2
<1>4. calls' \in Seq(FunctionCall) /\ Len(calls') = Len(calls)
  BY <1>3, EntryType
<1>5. \A i \in 1 .. Len(calls) : calls'[i] = new(i)
  BY <1>1
<1>6. QED
  BY <1>2, <1>4, <1>5

\* Push adds an entry with empty times and the nearest shadow.
LEMMA PushStack ==
    ASSUME TypeOK, NEW f \in Functions, Push(f)
    PROVE  \E s \in 0 .. Len(calls) :
              /\ IsShadow(f, s)
              /\ calls' \in Seq(FunctionCall)
              /\ Len(calls') = Len(calls) + 1
              /\ \A i \in 1 .. Len(calls) : calls'[i] = calls[i]
              /\ calls'[Len(calls) + 1].fn = f
              /\ calls'[Len(calls) + 1].start = now
              /\ calls'[Len(calls) + 1].child = 0
              /\ calls'[Len(calls) + 1].shadow = s
              /\ calls'[Len(calls) + 1].ran = 0
<1>1. PICK s \in 0 .. Len(calls) :
          /\ IsShadow(f, s)
          /\ calls' = Append(calls, [fn |-> f, start |-> now, total |-> 0,
                                     child |-> 0, shadow |-> s, ran |-> 0])
  BY DEF Push
<1> DEFINE e == [fn |-> f, start |-> now, total |-> 0,
                 child |-> 0, shadow |-> s, ran |-> 0]
<1>2. e \in FunctionCall
  BY EntryType DEF FunctionCall, TypeOK
<1>3. /\ e.fn = f /\ e.start = now /\ e.child = 0
      /\ e.shadow = s /\ e.ran = 0
  OBVIOUS
<1>4. calls' = Append(calls, e) /\ calls \in Seq(FunctionCall)
  BY <1>1 DEF TypeOK
<1> HIDE DEF e
<1>5. /\ calls' \in Seq(FunctionCall)
      /\ Len(calls') = Len(calls) + 1
      /\ \A i \in 1 .. Len(calls) : calls'[i] = calls[i]
      /\ calls'[Len(calls) + 1] = e
  BY <1>2, <1>4, AppendProperties
<1>6. QED
  BY <1>1, <1>3, <1>5

\* Pop changes child of the entries that stay, and of their times nothing else
\* that is ever read.
LEMMA PopStack ==
    ASSUME TypeOK, Pop
    PROVE  /\ calls' \in Seq(FunctionCall)
           /\ Len(calls') = Len(calls) - 1
           /\ \A i \in 1 .. Len(calls) - 1 :
                 /\ calls'[i].fn = calls[i].fn
                 /\ calls'[i].start = calls[i].start
                 /\ calls'[i].child = ChildAfter(i, Elapsed)
                 /\ calls'[i].shadow = calls[i].shadow
                 /\ calls'[i].ran = calls[i].ran
<1> DEFINE new(i) == [calls[i] EXCEPT
                         !.child = ChildAfter(i, Elapsed),
                         !.total = @ - (IF i = Top.shadow
                                        THEN Elapsed ELSE 0)]
<1>1. calls' = [i \in 1 .. Len(calls) - 1 |-> new(i)]
  BY DEF Pop
<1>2. calls # <<>> /\ Len(calls) \in 1 .. Len(calls) /\ Len(calls) \in Nat
  BY EntryType DEF Pop
<1>3. Elapsed \in Int /\ Top.child \in Int
  BY <1>2, TopType
<1>4. ASSUME NEW i \in 1 .. Len(calls) - 1
      PROVE  /\ new(i) \in FunctionCall
             /\ new(i).fn = calls[i].fn
             /\ new(i).start = calls[i].start
             /\ new(i).child = ChildAfter(i, Elapsed)
             /\ new(i).shadow = calls[i].shadow
             /\ new(i).ran = calls[i].ran
  <2>1. i \in 1 .. Len(calls)
    BY <1>2
  <2>2. calls[i] \in FunctionCall /\ calls[i].child \in Int
        /\ calls[i].total \in Int
    BY <2>1, EntryType
  <2>3. ChildAfter(i, Elapsed) \in Int
    BY <1>2, <1>3, <2>2 DEF ChildAfter
  <2>4. calls[i].total - (IF i = Top.shadow THEN Elapsed ELSE 0) \in Int
    BY <1>3, <2>2
  <2>5. QED
    BY <2>2, <2>3, <2>4 DEF FunctionCall
<1> HIDE DEF new
<1>5. calls' \in [1 .. Len(calls) - 1 -> FunctionCall]
  BY <1>1, <1>4
<1>6. Len(calls) - 1 \in Nat
  BY <1>2
<1>7. calls' \in Seq(FunctionCall) /\ Len(calls') = Len(calls) - 1
  BY <1>5, <1>6
<1>8. \A i \in 1 .. Len(calls) - 1 : calls'[i] = new(i)
  BY <1>1
<1>9. QED
  BY <1>4, <1>7, <1>8

\* An update of a table at one key.
LEMMA UpdateTable ==
    ASSUME NEW K, NEW t \in [K -> Int], NEW k \in K, NEW v \in Int, NEW u,
           u = [t EXCEPT ![k] = v]
    PROVE  /\ u \in [K -> Int]
           /\ \A l \in K : u[l] = IF l = k THEN v ELSE t[l]
OBVIOUS

\* Pop changes the statistics of the function on top.
LEMMA PopStatistics ==
    ASSUME TypeOK, Pop
    PROVE  /\ self' \in [Functions -> Int]
           /\ total' \in [Functions -> Int]
           /\ worstTotal' \in [Functions -> Int]
           /\ worstSelf' \in [Functions -> Int]
           /\ \A f \in Functions :
                 /\ self'[f] = IF f = Top.fn
                               THEN self[f] + (Elapsed - Top.child)
                               ELSE self[f]
                 /\ total'[f] = IF f = Top.fn
                                THEN total[f] + Elapsed
                                ELSE total[f]
                 /\ worstTotal'[f] =
                       IF f = Top.fn
                       THEN Larger(LatestTotal(Elapsed), worstTotal[f])
                       ELSE worstTotal[f]
                 /\ worstSelf'[f] =
                       IF f = Top.fn
                       THEN Larger(LatestTotal(Elapsed) - Top.child,
                                   worstSelf[f])
                       ELSE worstSelf[f]
<1> DEFINE f == Top.fn
           s == self[f] + (Elapsed - Top.child)
           t == total[f] + Elapsed
           wt == Larger(LatestTotal(Elapsed), worstTotal[f])
           ws == Larger(LatestTotal(Elapsed) - Top.child, worstSelf[f])
<1>1. /\ self' = [self EXCEPT ![f] = s]
      /\ total' = [total EXCEPT ![f] = t]
      /\ worstTotal' = [worstTotal EXCEPT ![f] = wt]
      /\ worstSelf' = [worstSelf EXCEPT ![f] = ws]
  BY Zenon DEF Pop
<1>2. /\ f \in Functions /\ Top.child \in Int
      /\ Elapsed \in Int /\ LatestTotal(Elapsed) \in Int
  BY TopType DEF Pop
<1>3. /\ self[f] \in Int /\ total[f] \in Int
      /\ worstTotal[f] \in Int /\ worstSelf[f] \in Int
  BY <1>2 DEF TypeOK
<1>4. s \in Int /\ t \in Int /\ wt \in Int /\ ws \in Int
  BY <1>2, <1>3 DEF Larger
<1> HIDE DEF f, s, t, wt, ws
<1>5. /\ self' \in [Functions -> Int]
      /\ \A g \in Functions : self'[g] = IF g = f THEN s ELSE self[g]
  BY <1>1, <1>2, <1>4, UpdateTable DEF TypeOK
<1>6. /\ total' \in [Functions -> Int]
      /\ \A g \in Functions : total'[g] = IF g = f THEN t ELSE total[g]
  BY <1>1, <1>2, <1>4, UpdateTable DEF TypeOK
<1>7. /\ worstTotal' \in [Functions -> Int]
      /\ \A g \in Functions :
            worstTotal'[g] = IF g = f THEN wt ELSE worstTotal[g]
  BY <1>1, <1>2, <1>4, UpdateTable DEF TypeOK
<1>8. /\ worstSelf' \in [Functions -> Int]
      /\ \A g \in Functions :
            worstSelf'[g] = IF g = f THEN ws ELSE worstSelf[g]
  BY <1>1, <1>2, <1>4, UpdateTable DEF TypeOK
<1>9. QED
  BY <1>5, <1>6, <1>7, <1>8, Zenon DEF f, s, t, wt, ws

-----------------------------------------------------------------------------
\* The type invariant: counters only ever hold numbers.
THEOREM TimersTypeCorrect == Spec => []TypeOK
<1>1. Init => TypeOK
  <2>1. <<>> \in Seq(FunctionCall)
    BY EmptySeq
  <2>2. QED
    BY <2>1 DEF Init, TypeOK
<1>2. TypeOK /\ [Next]_vars => TypeOK'
  <2> SUFFICES ASSUME TypeOK, [Next]_vars PROVE TypeOK'
    OBVIOUS
  <2>1. CASE Tick
    BY <2>1, TickStack DEF Tick, TypeOK, statVars
  <2>2. ASSUME NEW f \in Functions, Push(f) PROVE TypeOK'
    BY <2>2, PushStack DEF Push, TypeOK, statVars, history
  <2>3. CASE Pop
    BY <2>3, PopStack, PopStatistics DEF Pop, TypeOK, history
  <2>4. CASE UNCHANGED vars
    BY <2>4 DEF vars, TypeOK
  <2>5. QED
    BY <2>1, <2>2, <2>3, <2>4 DEF Next
<1>3. QED
  BY <1>1, <1>2, PTL DEF Spec

-----------------------------------------------------------------------------
(***************************************************************************)
(* The inductive invariant.                                                *)
(***************************************************************************)

\* Tick changes no shadow.
LEMMA TickKeepsShadows ==
    ASSUME TypeOK, ShadowInv, Tick
    PROVE  ShadowInv'
<1>1. DOMAIN calls' = 1 .. Len(calls) /\ DOMAIN calls = 1 .. Len(calls)
  BY TickStack, EntryType, LenProperties
<1>2. \A i \in 1 .. Len(calls) : /\ calls'[i].fn = calls[i].fn
                                 /\ calls'[i].shadow = calls[i].shadow
  BY TickStack
<1>3. Len(calls) \in Nat /\ \A j \in 1 .. Len(calls) : calls[j].shadow \in Nat
  BY EntryType
<1>4. \A j \in DOMAIN calls' : calls'[j].shadow < j
  BY <1>1, <1>2 DEF ShadowInv
<1>5. ASSUME NEW i \in DOMAIN calls', NEW j \in DOMAIN calls',
             calls'[j].shadow = i
      PROVE  /\ calls'[i].fn = calls'[j].fn
             /\ \A k \in i + 1 .. j - 1 : calls'[k].fn # calls'[j].fn
  BY <1>1, <1>2, <1>3, <1>5 DEF ShadowInv
<1>6. ASSUME NEW i \in DOMAIN calls', NEW j \in DOMAIN calls', i < j,
             calls'[i].fn = calls'[j].fn
      PROVE  \E k \in DOMAIN calls' : calls'[k].shadow = i
  BY <1>1, <1>2, <1>6 DEF ShadowInv
<1>7. QED
  BY <1>4, <1>5, <1>6 DEF ShadowInv

\* Push adds to the chain of its function.
LEMMA PushKeepsShadows ==
    ASSUME TypeOK, ShadowInv, NEW f \in Functions, Push(f)
    PROVE  ShadowInv'
<1> DEFINE n == Len(calls)
<1>1. PICK s \in 0 .. n :
          /\ IsShadow(f, s)
          /\ calls' \in Seq(FunctionCall)
          /\ Len(calls') = n + 1
          /\ \A i \in 1 .. n : calls'[i] = calls[i]
          /\ calls'[n + 1].fn = f
          /\ calls'[n + 1].shadow = s
  BY PushStack
<1>2. DOMAIN calls' = 1 .. n + 1 /\ DOMAIN calls = 1 .. n /\ n \in Nat
  BY <1>1, EntryType, LenProperties
<1>3. s # 0 => calls[s].fn = f
  BY <1>1 DEF IsShadow
<1>4. \A k \in s + 1 .. n : calls[k].fn # f
  BY <1>1, <1>2 DEF IsShadow, OnStack
<1>5. \A j \in 1 .. n : calls[j].shadow \in Nat /\ calls[j].shadow < j
  BY <1>2, EntryType DEF ShadowInv
<1> HIDE DEF n
<1>6. \A j \in 1 .. n + 1 : calls'[j].shadow < j
  BY <1>1, <1>2, <1>5
<1>7. ASSUME NEW i \in 1 .. n + 1, NEW j \in 1 .. n + 1,
             calls'[j].shadow = i
      PROVE  /\ calls'[i].fn = calls'[j].fn
             /\ \A k \in i + 1 .. j - 1 : calls'[k].fn # calls'[j].fn
  <2>1. CASE j \in 1 .. n
    <3>1. calls[j].shadow = i /\ i \in 1 .. n
      BY <1>1, <1>2, <1>5, <1>7, <2>1
    <3>2. /\ calls[i].fn = calls[j].fn
          /\ \A k \in i + 1 .. j - 1 : calls[k].fn # calls[j].fn
      <4>1. i \in DOMAIN calls /\ j \in DOMAIN calls
        BY <1>2, <2>1, <3>1
      <4>2. QED
        BY <3>1, <4>1 DEF ShadowInv
    <3>3. i + 1 .. j - 1 \subseteq 1 .. n
      BY <1>2, <2>1, <3>1
    <3>4. QED
      BY <1>1, <2>1, <3>1, <3>2, <3>3
  <2>2. CASE j = n + 1
    <3>1. i = s /\ i \in 1 .. n
      BY <1>1, <1>2, <1>7, <2>2
    <3>2. QED
      BY <1>1, <1>2, <1>3, <1>4, <2>2, <3>1
  <2>3. QED
    BY <1>2, <2>1, <2>2
<1>8. ASSUME NEW i \in 1 .. n + 1, NEW j \in 1 .. n + 1, i < j,
             calls'[i].fn = calls'[j].fn
      PROVE  \E k \in 1 .. n + 1 : calls'[k].shadow = i
  <2>1. i \in 1 .. n
    BY <1>2, <1>8
  <2>2. ASSUME NEW k \in 1 .. n, i < k, calls[i].fn = calls[k].fn
        PROVE  \E l \in 1 .. n + 1 : calls'[l].shadow = i
    <3>1. PICK l \in 1 .. n : calls[l].shadow = i
      BY <1>2, <2>1, <2>2 DEF ShadowInv
    <3>2. calls'[l].shadow = i /\ l \in 1 .. n + 1
      BY <1>1, <1>2, <3>1
    <3>3. QED
      BY <3>2
  <2>3. CASE j \in 1 .. n
    BY <1>1, <1>8, <2>1, <2>2, <2>3
  <2>4. CASE j = n + 1
    <3>1. calls[i].fn = f
      BY <1>1, <1>8, <2>1, <2>4
    <3>2. i <= s
      BY <1>1, <1>2, <1>4, <2>1, <3>1
    <3>3. CASE i = s
      BY <1>1, <1>2, <3>3
    <3>4. CASE i < s
      <4>1. s \in 1 .. n /\ calls[s].fn = f
        BY <1>1, <1>2, <1>3, <2>1, <3>4
      <4>2. QED
        BY <2>2, <3>1, <3>4, <4>1
    <3>5. QED
      BY <1>1, <2>1, <3>2, <3>3, <3>4
  <2>5. QED
    BY <1>2, <2>3, <2>4
<1>9. QED
  BY <1>2, <1>6, <1>7, <1>8, Zenon DEF ShadowInv

\* Pop takes the last call of its function from the end of a chain.
LEMMA PopKeepsShadows ==
    ASSUME TypeOK, ShadowInv, Pop
    PROVE  ShadowInv'
<1> DEFINE n == Len(calls)
<1>1. n \in 1 .. n /\ DOMAIN calls = 1 .. n /\ n \in Nat
  BY EntryType DEF Pop
<1>2. DOMAIN calls' = 1 .. n - 1
  BY PopStack, LenProperties
<1>3. \A i \in 1 .. n - 1 : /\ calls'[i].fn = calls[i].fn
                            /\ calls'[i].shadow = calls[i].shadow
  BY PopStack
<1>4. \A j \in 1 .. n : calls[j].shadow \in Nat
  BY EntryType
<1> HIDE DEF n
<1>5. \A j \in 1 .. n - 1 : calls'[j].shadow < j
  BY <1>1, <1>3 DEF ShadowInv
<1>6. ASSUME NEW i \in 1 .. n - 1, NEW j \in 1 .. n - 1,
             calls'[j].shadow = i
      PROVE  /\ calls'[i].fn = calls'[j].fn
             /\ \A k \in i + 1 .. j - 1 : calls'[k].fn # calls'[j].fn
  <2>1. i \in 1 .. n /\ j \in 1 .. n /\ i + 1 .. j - 1 \subseteq 1 .. n - 1
    BY <1>1
  <2>2. /\ calls[i].fn = calls[j].fn
        /\ \A k \in i + 1 .. j - 1 : calls[k].fn # calls[j].fn
    BY <1>1, <1>3, <1>6, <2>1 DEF ShadowInv
  <2>3. QED
    BY <1>3, <2>1, <2>2
<1>7. ASSUME NEW i \in 1 .. n - 1, NEW j \in 1 .. n - 1, i < j,
             calls'[i].fn = calls'[j].fn
      PROVE  \E k \in 1 .. n - 1 : calls'[k].shadow = i
  <2>1. i \in 1 .. n /\ j \in 1 .. n /\ calls[i].fn = calls[j].fn
    BY <1>1, <1>3, <1>7
  <2>2. PICK k \in 1 .. n : calls[k].shadow = i
    BY <1>1, <1>7, <2>1 DEF ShadowInv
  <2>3. k # n
    <3>1. SUFFICES ASSUME k = n PROVE FALSE
      OBVIOUS
    <3>2. /\ calls[i].fn = calls[n].fn
          /\ \A l \in i + 1 .. n - 1 : calls[l].fn # calls[n].fn
      BY <1>1, <2>1, <2>2, <3>1 DEF ShadowInv
    <3>3. j \in i + 1 .. n - 1
      BY <1>1, <1>7
    <3>4. QED
      BY <2>1, <3>2, <3>3
  <2>4. k \in 1 .. n - 1
    BY <1>1, <2>2, <2>3
  <2>5. QED
    BY <1>3, <2>2, <2>4
<1>8. QED
  BY <1>2, <1>5, <1>6, <1>7, Zenon DEF ShadowInv

\* Own times are numbers.
LEMMA OwnTimeType ==
    ASSUME TypeOK, NEW i \in 1 .. Len(calls)
    PROVE  OwnTime(i) \in Int
<1>1. /\ Len(calls) \in Nat /\ now \in Int
      /\ calls[i].start \in Int /\ calls[i].child \in Int
  BY EntryType DEF TypeOK
<1>2. CASE i = Len(calls)
  BY <1>1, <1>2 DEF OwnTime
<1>3. CASE i # Len(calls)
  <2>1. i + 1 \in 1 .. Len(calls)
    BY <1>1, <1>3
  <2>2. calls[i + 1].start \in Int
    BY <2>1, EntryType
  <2>3. QED
    BY <1>1, <1>3, <2>2 DEF OwnTime
<1>4. QED
  BY <1>2, <1>3

\* The last call of a function on the stack is nobody's shadow; on top of the
\* stack its own time is what is left of the time since its start.
LEMMA TopIsExact ==
    ASSUME TypeOK, ShadowInv, OwnTimeInv
    PROVE  SelfTimeIsExact
<1> SUFFICES ASSUME calls # <<>> PROVE Elapsed - Top.child = Top.ran
  BY DEF SelfTimeIsExact
<1>1. Len(calls) \in DOMAIN calls /\ DOMAIN calls = 1 .. Len(calls)
      /\ Len(calls) \in Nat
  BY EntryType
<1>2. \A j \in DOMAIN calls : calls[j].shadow # Len(calls)
  BY <1>1, EntryType DEF ShadowInv
<1>3. calls[Len(calls)].ran = OwnTime(Len(calls))
  BY <1>1, <1>2 DEF OwnTimeInv
<1>4. OwnTime(Len(calls)) = Elapsed - Top.child
  BY DEF OwnTime, Elapsed, Top
<1>5. QED
  BY <1>3, <1>4 DEF Top

\* When time passes, only the call on top gains own time; ran of the calls of its
\* function grows with it along the chain.
LEMMA TickKeepsOwnTimes ==
    ASSUME TypeOK, ShadowInv, OwnTimeInv, Tick
    PROVE  OwnTimeInv'
<1> DEFINE n == Len(calls)
<1>1. DOMAIN calls' = 1 .. n /\ DOMAIN calls = 1 .. n /\ n \in Nat
      /\ Len(calls') = n /\ now' = now + 1 /\ now \in Nat
      /\ Len(calls) = n
  BY TickStack, EntryType, LenProperties DEF Tick, TypeOK
<1>2. \A i \in 1 .. n : /\ calls'[i].fn = calls[i].fn
                        /\ calls'[i].start = calls[i].start
                        /\ calls'[i].child = calls[i].child
                        /\ calls'[i].shadow = calls[i].shadow
                        /\ calls'[i].ran = IF calls[i].fn = calls[n].fn
                                           THEN calls[i].ran + 1
                                           ELSE calls[i].ran
  BY TickStack DEF Top
<1>3. \A i \in 1 .. n : /\ calls[i].start \in Nat /\ calls[i].child \in Int
                        /\ calls[i].shadow \in Nat /\ calls[i].ran \in Nat
  BY EntryType
<1> HIDE DEF n
<1>4. ASSUME NEW i \in 1 .. n
      PROVE  OwnTime(i)' = IF i = n THEN OwnTime(i) + 1 ELSE OwnTime(i)
  <2>1. CASE i = n
    BY <1>1, <1>2, <1>3, <2>1 DEF OwnTime
  <2>2. CASE i # n
    <3>1. i + 1 \in 1 .. n
      BY <1>1, <2>2
    <3>2. calls'[i + 1].start = calls[i + 1].start
      BY <1>2, <3>1
    <3>3. QED
      BY <1>1, <1>2, <2>2, <3>2 DEF OwnTime
  <2>3. QED
    BY <2>1, <2>2
<1>5. \A i \in 1 .. n : OwnTime(i) \in Int
  BY <1>1, OwnTimeType
<1>6. ASSUME NEW i \in 1 .. n,
             \A j \in 1 .. n : calls'[j].shadow # i
      PROVE  calls'[i].ran = OwnTime(i)'
  <2>1. \A j \in 1 .. n : calls[j].shadow # i
    BY <1>2, <1>6
  <2>2. calls[i].ran = OwnTime(i)
    BY <1>1, <2>1 DEF OwnTimeInv
  <2>3. CASE i = n
    BY <1>2, <1>4, <2>2, <2>3
  <2>4. CASE i # n
    <3>1. n \in 1 .. n /\ i < n
      BY <1>1, <2>4
    <3>2. calls[i].fn # calls[n].fn
      BY <1>1, <2>1, <3>1 DEF ShadowInv
    <3>3. QED
      BY <1>2, <1>4, <2>2, <2>4, <3>2
  <2>5. QED
    BY <2>3, <2>4
<1>7. ASSUME NEW i \in 1 .. n, NEW j \in 1 .. n, calls'[j].shadow = i
      PROVE  calls'[i].ran = OwnTime(i)' + calls'[j].ran
  <2>1. calls[j].shadow = i
    BY <1>2, <1>7
  <2>2. calls[i].ran = OwnTime(i) + calls[j].ran
    BY <1>1, <2>1 DEF OwnTimeInv
  <2>3. calls[i].fn = calls[j].fn /\ i < j
    BY <1>1, <2>1 DEF ShadowInv
  <2>4. OwnTime(i)' = OwnTime(i)
    BY <1>1, <1>4, <2>3
  <2>5. CASE calls[j].fn = calls[n].fn
    <3>1. /\ calls'[i].ran = calls[i].ran + 1
          /\ calls'[j].ran = calls[j].ran + 1
      BY <1>2, <2>3, <2>5
    <3>2. QED
      BY <1>3, <1>5, <2>2, <2>4, <3>1
  <2>6. CASE calls[j].fn # calls[n].fn
    BY <1>2, <2>2, <2>3, <2>4, <2>6
  <2>7. QED
    BY <2>5, <2>6
<1>8. QED
  BY <1>1, <1>6, <1>7, Zenon DEF OwnTimeInv

\* A call that starts takes nothing from its caller yet.
LEMMA PushKeepsOwnTimes ==
    ASSUME TypeOK, ShadowInv, OwnTimeInv, NEW f \in Functions, Push(f)
    PROVE  OwnTimeInv'
<1> DEFINE n == Len(calls)
<1>1. PICK s \in 0 .. n :
          /\ IsShadow(f, s)
          /\ calls' \in Seq(FunctionCall)
          /\ Len(calls') = n + 1
          /\ \A i \in 1 .. n : calls'[i] = calls[i]
          /\ calls'[n + 1].fn = f
          /\ calls'[n + 1].start = now
          /\ calls'[n + 1].child = 0
          /\ calls'[n + 1].shadow = s
          /\ calls'[n + 1].ran = 0
  BY PushStack
<1>2. DOMAIN calls' = 1 .. n + 1 /\ DOMAIN calls = 1 .. n /\ n \in Nat
      /\ now' = now /\ now \in Nat /\ Len(calls) = n
  BY <1>1, EntryType, LenProperties DEF Push, TypeOK
<1>3. \A i \in 1 .. n : /\ calls[i].start \in Nat /\ calls[i].child \in Int
                        /\ calls[i].shadow \in Nat /\ calls[i].ran \in Nat
  BY EntryType
<1>8. \A k \in s + 1 .. n : calls[k].fn # f
  BY <1>1, <1>2 DEF IsShadow, OnStack
<1> HIDE DEF n
<1>4. ASSUME NEW i \in 1 .. n PROVE OwnTime(i)' = OwnTime(i)
  <2>1. CASE i = n
    <3>1. i # Len(calls') /\ calls'[i + 1].start = now /\ calls'[i] = calls[i]
      BY <1>1, <1>2, <2>1
    <3>2. QED
      BY <1>2, <2>1, <3>1 DEF OwnTime
  <2>2. CASE i # n
    <3>1. i + 1 \in 1 .. n /\ i # n + 1
      BY <1>2, <2>2
    <3>2. calls'[i] = calls[i] /\ calls'[i + 1] = calls[i + 1]
      BY <1>1, <3>1
    <3>3. QED
      BY <1>1, <1>2, <2>2, <3>1, <3>2 DEF OwnTime
  <2>3. QED
    BY <2>1, <2>2
<1>5. ASSUME NEW i \in 1 .. n + 1, i = n + 1 PROVE OwnTime(i)' = 0
  <2>1. OwnTime(i)' = now' - calls'[i].start - calls'[i].child
    BY <1>1, <1>5 DEF OwnTime
  <2>2. QED
    BY <1>1, <1>2, <1>5, <2>1
<1>6. \A i \in 1 .. n : OwnTime(i) \in Int
  BY <1>2, OwnTimeType
<1>7. s # 0 => calls[s].fn = f
  BY <1>1 DEF IsShadow
<1>9. ASSUME NEW i \in 1 .. n + 1,
             \A j \in 1 .. n + 1 : calls'[j].shadow # i
      PROVE  calls'[i].ran = OwnTime(i)'
  <2>1. CASE i = n + 1
    BY <1>1, <1>5, <2>1
  <2>2. CASE i \in 1 .. n
    <3>1. \A j \in 1 .. n : calls[j].shadow # i
      BY <1>1, <1>2, <1>9
    <3>2. calls[i].ran = OwnTime(i)
      BY <1>2, <2>2, <3>1 DEF OwnTimeInv
    <3>3. QED
      BY <1>1, <1>4, <2>2, <3>2
  <2>3. QED
    BY <1>2, <2>1, <2>2
<1>10. ASSUME NEW i \in 1 .. n + 1, NEW j \in 1 .. n + 1,
              calls'[j].shadow = i
       PROVE  calls'[i].ran = OwnTime(i)' + calls'[j].ran
  <2>1. CASE j \in 1 .. n
    <3>1. calls[j].shadow = i
      BY <1>1, <1>10, <2>1
    <3>2. i \in 1 .. n
      BY <1>2, <2>1, <3>1 DEF ShadowInv
    <3>3. calls[i].ran = OwnTime(i) + calls[j].ran
      BY <1>2, <2>1, <3>1, <3>2 DEF OwnTimeInv
    <3>4. QED
      BY <1>1, <1>4, <2>1, <3>2, <3>3
  <2>2. CASE j = n + 1
    <3>1. i = s /\ i \in 1 .. n
      BY <1>1, <1>2, <1>10, <2>2
    <3>2. ASSUME NEW k \in 1 .. n, calls[k].shadow = i PROVE FALSE
      <4>1. i < k /\ calls[i].fn = calls[k].fn
        BY <1>2, <3>1, <3>2 DEF ShadowInv
      <4>2. calls[k].fn = f /\ k \in s + 1 .. n
        BY <1>1, <1>2, <1>7, <3>1, <4>1
      <4>3. QED
        BY <1>8, <4>2
    <3>3. calls[i].ran = OwnTime(i)
      BY <1>2, <3>1, <3>2 DEF OwnTimeInv
    <3>4. calls'[i].ran = OwnTime(i)'
      BY <1>1, <1>4, <3>1, <3>3
    <3>5. calls'[j].ran = 0 /\ OwnTime(i)' \in Int
      BY <1>1, <1>4, <1>6, <2>2, <3>1
    <3>6. QED
      BY <3>4, <3>5
  <2>3. QED
    BY <1>2, <2>1, <2>2
<1>11. QED
  BY <1>2, <1>9, <1>10, Zenon DEF OwnTimeInv

\* A call that ends leaves its caller the same own time, and gives its shadow,
\* as own time, what it has run itself.
LEMMA PopKeepsOwnTimes ==
    ASSUME TypeOK, ShadowInv, OwnTimeInv, Pop
    PROVE  OwnTimeInv'
<1> DEFINE n == Len(calls)
<1>1. n \in 1 .. n /\ DOMAIN calls = 1 .. n /\ n \in Nat
      /\ DOMAIN calls' = 1 .. n - 1 /\ Len(calls') = n - 1
      /\ now' = now /\ now \in Nat /\ Len(calls) = n
  BY EntryType, PopStack, LenProperties DEF Pop, TypeOK
<1>2. \A i \in 1 .. n - 1 : /\ calls'[i].fn = calls[i].fn
                            /\ calls'[i].start = calls[i].start
                            /\ calls'[i].child = ChildAfter(i, Elapsed)
                            /\ calls'[i].shadow = calls[i].shadow
                            /\ calls'[i].ran = calls[i].ran
  BY PopStack
<1>3. \A i \in 1 .. n : /\ calls[i].start \in Nat /\ calls[i].child \in Int
                        /\ calls[i].shadow \in Nat /\ calls[i].ran \in Nat
  BY EntryType
<1>4. Elapsed - Top.child = Top.ran
  BY TopIsExact DEF Pop, SelfTimeIsExact
<1>5. Elapsed \in Int /\ Top.child \in Int /\ Top.ran \in Nat
      /\ Elapsed = now - calls[n].start
  BY TopType DEF Pop, Elapsed, Top
<1>8. Top = calls[n]
  BY DEF Top
<1> HIDE DEF n
<1>6. ASSUME NEW i \in 1 .. n - 1
      PROVE  OwnTime(i)' = OwnTime(i) + (IF i = Top.shadow THEN Top.ran ELSE 0)
  <2> DEFINE back == IF i = Top.shadow THEN Top.ran ELSE 0
  <2>1. i \in 1 .. n /\ i + 1 \in 1 .. n /\ i # n
    BY <1>1
  <2>2. back \in Int
    BY <1>5
  <2>3. ChildAfter(i, Elapsed) =
            calls[i].child + (IF i = n - 1 THEN Elapsed ELSE 0) - back
    BY <1>1, <1>4, <1>5 DEF ChildAfter
  <2>4. OwnTime(i) = calls[i + 1].start - calls[i].start - calls[i].child
    BY <1>1, <2>1 DEF OwnTime
  <2>5. OwnTime(i)' = (IF i = n - 1 THEN now ELSE calls'[i + 1].start)
                          - calls[i].start - ChildAfter(i, Elapsed)
    BY <1>1, <1>2 DEF OwnTime
  <2> HIDE DEF back
  <2>6. CASE i = n - 1
    <3>1. /\ calls[i + 1].start = calls[n].start
          /\ calls[n].start \in Nat /\ calls[i].start \in Nat
          /\ calls[i].child \in Int
      BY <1>1, <1>3, <2>1, <2>6
    <3>2. QED
      <4>1. OwnTime(i)' = now - calls[i].start
                              - (calls[i].child + Elapsed - back)
        BY <2>3, <2>5, <2>6
      <4>2. OwnTime(i) = calls[n].start - calls[i].start - calls[i].child
        BY <2>4, <3>1
      <4>3. OwnTime(i)' = OwnTime(i) + back
        <5>1. \A t, si, sn, c, b \in Int :
                  t - si - (c + (t - sn) - b) = (sn - si - c) + b
          OBVIOUS
        <5>2. now \in Int /\ calls[n].start \in Int /\ calls[i].start \in Int
          BY <1>1, <3>1
        <5>3. Elapsed = now - calls[n].start
          BY <1>5
        <5>4. QED
          BY <2>2, <3>1, <4>1, <4>2, <5>1, <5>2, <5>3
      <4>4. QED
        BY <4>3 DEF back
  <2>7. CASE i # n - 1
    <3>1. i + 1 \in 1 .. n - 1
      BY <1>1, <2>7
    <3>2. calls'[i + 1].start = calls[i + 1].start
      BY <1>2, <3>1
    <3>3. /\ calls[i + 1].start \in Nat /\ calls[i].start \in Nat
          /\ calls[i].child \in Int
      BY <1>3, <2>1
    <3>4. QED
      BY <2>2, <2>3, <2>4, <2>5, <2>7, <3>2, <3>3 DEF back
  <2>8. QED
    BY <2>6, <2>7
<1>7. \A i \in 1 .. n : OwnTime(i) \in Int
  BY <1>1, OwnTimeType
<1>9. ASSUME NEW i \in 1 .. n - 1,
             \A j \in 1 .. n - 1 : calls'[j].shadow # i
      PROVE  calls'[i].ran = OwnTime(i)'
  <2>1. \A j \in 1 .. n - 1 : calls[j].shadow # i
    BY <1>2, <1>9
  <2>2. i \in 1 .. n /\ calls'[i].ran = calls[i].ran
    BY <1>1, <1>2
  <2>3. CASE Top.shadow = i
    <3>1. calls[i].ran = OwnTime(i) + calls[n].ran
      BY <1>1, <1>8, <2>2, <2>3 DEF OwnTimeInv
    <3>2. QED
      BY <1>6, <1>8, <2>2, <2>3, <3>1
  <2>4. CASE Top.shadow # i
    <3>1. \A j \in 1 .. n : calls[j].shadow # i
      BY <1>1, <1>8, <2>1, <2>4
    <3>2. calls[i].ran = OwnTime(i)
      BY <1>1, <2>2, <3>1 DEF OwnTimeInv
    <3>3. OwnTime(i)' = OwnTime(i)
      BY <1>6, <1>7, <2>2, <2>4
    <3>4. QED
      BY <2>2, <3>2, <3>3
  <2>5. QED
    BY <2>3, <2>4
<1>10. ASSUME NEW i \in 1 .. n - 1, NEW j \in 1 .. n - 1,
              calls'[j].shadow = i
       PROVE  calls'[i].ran = OwnTime(i)' + calls'[j].ran
  <2>1. i \in 1 .. n /\ j \in 1 .. n /\ j < n
        /\ calls'[i].ran = calls[i].ran /\ calls'[j].ran = calls[j].ran
        /\ calls[j].shadow = i
    BY <1>1, <1>2, <1>10
  <2>2. calls[i].fn = calls[j].fn /\ i < j
    BY <1>1, <2>1 DEF ShadowInv
  <2>3. Top.shadow # i
    <3>1. SUFFICES ASSUME calls[n].shadow = i PROVE FALSE
      BY <1>8
    <3>2. /\ calls[i].fn = calls[n].fn
          /\ \A k \in i + 1 .. n - 1 : calls[k].fn # calls[n].fn
      BY <1>1, <2>1, <3>1 DEF ShadowInv
    <3>3. j \in i + 1 .. n - 1
      BY <1>1, <2>1, <2>2
    <3>4. QED
      BY <2>2, <3>2, <3>3
  <2>4. OwnTime(i)' = OwnTime(i)
    BY <1>6, <1>7, <2>1, <2>3
  <2>5. calls[i].ran = OwnTime(i) + calls[j].ran
    BY <1>1, <2>1 DEF OwnTimeInv
  <2>6. QED
    BY <2>1, <2>4, <2>5
<1>11. QED
  BY <1>1, <1>9, <1>10, Zenon DEF OwnTimeInv

\* The history of a function grows with that of its calls.
LEMMA HistoryKept ==
    ASSUME TypeOK, HistoryInv, [Next]_vars
    PROVE  HistoryInv'
<1> DEFINE n == Len(calls)
<1>1. n = Len(calls) /\ n \in Nat /\ DOMAIN calls = 1 .. n /\ now \in Nat
  BY EntryType DEF TypeOK
<1>2. \A i \in 1 .. n : /\ calls[i].fn \in Functions /\ calls[i].start \in Nat
                        /\ calls[i].ran \in Nat
  BY EntryType
<1>3. \A f \in Functions : ran[f] \in Nat /\ present[f] \in Nat
  BY DEF TypeOK
<1>4. CASE Tick
  <2>1. DOMAIN calls' = 1 .. n /\ now' = now + 1
    BY <1>4, TickStack, LenProperties DEF Tick
  <2>2. SUFFICES ASSUME NEW i \in 1 .. n
                 PROVE  /\ calls'[i].ran <= now' - calls'[i].start
                        /\ calls'[i].ran <= ran'[calls'[i].fn]
                        /\ now' - calls'[i].start <= present'[calls'[i].fn]
    BY <2>1 DEF HistoryInv
  <2>3. /\ calls'[i].fn = calls[i].fn
        /\ calls'[i].start = calls[i].start
        /\ calls'[i].ran = IF calls[i].fn = Top.fn
                           THEN calls[i].ran + 1
                           ELSE calls[i].ran
    BY <1>4, TickStack
  <2> DEFINE f == calls[i].fn
  <2>4. f \in Functions /\ calls[i].start \in Nat /\ calls[i].ran \in Nat
        /\ ran[f] \in Nat /\ present[f] \in Nat
    BY <1>2, <1>3
  <2>5. OnStack(f) /\ calls # <<>>
    BY <1>1, EmptySeq DEF OnStack
  <2>6. /\ present'[f] = present[f] + 1
        /\ ran'[f] = IF f = Top.fn THEN ran[f] + 1 ELSE ran[f]
    BY <1>4, <2>4, <2>5 DEF Tick
  <2>7. /\ calls[i].ran <= now - calls[i].start
        /\ calls[i].ran <= ran[f]
        /\ now - calls[i].start <= present[f]
    BY <1>1 DEF HistoryInv
  <2> HIDE DEF f, n
  <2>8. calls'[i].fn = f /\ (calls[i].fn = Top.fn <=> f = Top.fn)
    BY <2>3 DEF f
  <2>9. CASE f = Top.fn
    BY <1>1, <2>1, <2>3, <2>4, <2>6, <2>7, <2>8, <2>9
  <2>10. CASE f # Top.fn
    BY <1>1, <2>1, <2>3, <2>4, <2>6, <2>7, <2>8, <2>10
  <2>11. QED
    BY <2>9, <2>10
<1>5. ASSUME NEW f \in Functions, Push(f) PROVE HistoryInv'
  <2>1. PICK s \in 0 .. n :
            /\ calls' \in Seq(FunctionCall)
            /\ Len(calls') = n + 1
            /\ \A i \in 1 .. n : calls'[i] = calls[i]
            /\ calls'[n + 1].fn = f
            /\ calls'[n + 1].start = now
            /\ calls'[n + 1].ran = 0
    BY <1>5, PushStack
  <2>2. DOMAIN calls' = 1 .. n + 1
    BY <2>1, LenProperties
  <2>3. now' = now /\ present' = present /\ ran' = ran
    BY <1>5 DEF Push, history
  <2> HIDE DEF n
  <2>4. SUFFICES ASSUME NEW i \in 1 .. n + 1
                 PROVE  /\ calls'[i].ran <= now' - calls'[i].start
                        /\ calls'[i].ran <= ran'[calls'[i].fn]
                        /\ now' - calls'[i].start <= present'[calls'[i].fn]
    BY <2>2 DEF HistoryInv
  <2>5. CASE i \in 1 .. n
    BY <1>1, <2>1, <2>3, <2>5 DEF HistoryInv
  <2>6. CASE i = n + 1
    BY <1>1, <1>3, <1>5, <2>1, <2>3, <2>6
  <2>7. QED
    BY <1>1, <2>5, <2>6
<1>6. CASE Pop
  <2>1. DOMAIN calls' = 1 .. n - 1
    BY <1>6, PopStack, LenProperties
  <2>2. \A i \in 1 .. n - 1 : /\ calls'[i].fn = calls[i].fn
                              /\ calls'[i].start = calls[i].start
                              /\ calls'[i].ran = calls[i].ran
    BY <1>6, PopStack
  <2>3. now' = now /\ present' = present /\ ran' = ran
    BY <1>6 DEF Pop, history
  <2>4. \A i \in 1 .. n - 1 : i \in DOMAIN calls
    BY <1>1
  <2>5. QED
    BY <2>1, <2>2, <2>3, <2>4 DEF HistoryInv
<1>7. CASE UNCHANGED vars
  BY <1>7 DEF vars, HistoryInv
<1>8. QED
  BY <1>4, <1>5, <1>6, <1>7 DEF Next

\* A second call of a function makes it recursive.
LEMMA OneCallKept ==
    ASSUME TypeOK, OneCallEach, [Next]_vars
    PROVE  OneCallEach'
<1> SUFFICES ASSUME NEW i \in DOMAIN calls', NEW j \in DOMAIN calls',
                    calls'[i].fn = calls'[j].fn,
                    calls'[i].fn \notin recursive'
             PROVE  i = j
  BY DEF OneCallEach
<1> DEFINE n == Len(calls)
<1>1. n \in Nat /\ DOMAIN calls = 1 .. n
  BY EntryType
<1>2. CASE Tick
  <2>1. DOMAIN calls' = 1 .. n /\ \A k \in 1 .. n : calls'[k].fn = calls[k].fn
    BY <1>2, TickStack, LenProperties
  <2>2. recursive' = recursive
    BY <1>2 DEF Tick
  <2>3. QED
    BY <1>1, <2>1, <2>2 DEF OneCallEach
<1>3. ASSUME NEW f \in Functions, Push(f) PROVE i = j
  <2>1. /\ calls' \in Seq(FunctionCall)
        /\ Len(calls') = n + 1
        /\ \A k \in 1 .. n : calls'[k] = calls[k]
        /\ calls'[n + 1].fn = f
    BY <1>3, PushStack
  <2>2. DOMAIN calls' = 1 .. n + 1
    BY <2>1, LenProperties
  <2>3. recursive \subseteq recursive' /\ (OnStack(f) => f \in recursive')
    BY <1>3 DEF Push
  <2>4. f \notin recursive' => \A k \in 1 .. n : calls[k].fn # f
    BY <1>1, <2>3 DEF OnStack
  <2> HIDE DEF n
  <2>5. CASE i \in 1 .. n /\ j \in 1 .. n
    BY <1>1, <2>1, <2>3, <2>5 DEF OneCallEach
  <2>6. CASE i = n + 1 \/ j = n + 1
    BY <1>1, <2>1, <2>2, <2>4, <2>6
  <2>7. QED
    BY <1>1, <2>2, <2>5, <2>6
<1>4. CASE Pop
  <2>1. /\ DOMAIN calls' = 1 .. n - 1
        /\ \A k \in 1 .. n - 1 : calls'[k].fn = calls[k].fn
    BY <1>4, PopStack, LenProperties
  <2>2. i \in DOMAIN calls /\ j \in DOMAIN calls
    BY <1>1, <2>1
  <2>3. recursive' = recursive
    BY <1>4 DEF Pop, history
  <2>4. QED
    BY <2>1, <2>2, <2>3 DEF OneCallEach
<1>5. CASE UNCHANGED vars
  BY <1>5 DEF vars, OneCallEach
<1>6. QED
  BY <1>2, <1>3, <1>4, <1>5 DEF Next

\* Push gives a shadow to every call but the first.
LEMMA FirstStaysOutermost ==
    ASSUME TypeOK, FirstIsOutermost, [Next]_vars
    PROVE  FirstIsOutermost'
<1> SUFFICES ASSUME NEW i \in DOMAIN calls', NEW j \in DOMAIN calls',
                    i < j, calls'[i].fn = calls'[j].fn
             PROVE  calls'[j].shadow # 0
  BY DEF FirstIsOutermost
<1> DEFINE n == Len(calls)
<1>1. n \in Nat /\ DOMAIN calls = 1 .. n
  BY EntryType
<1>2. CASE Tick
  <2>1. /\ DOMAIN calls' = 1 .. n
        /\ \A k \in 1 .. n : /\ calls'[k].fn = calls[k].fn
                              /\ calls'[k].shadow = calls[k].shadow
    BY <1>2, TickStack, LenProperties
  <2>2. QED
    BY <1>1, <2>1 DEF FirstIsOutermost
<1>3. ASSUME NEW f \in Functions, Push(f) PROVE calls'[j].shadow # 0
  <2>1. PICK s \in 0 .. n :
            /\ IsShadow(f, s)
            /\ calls' \in Seq(FunctionCall)
            /\ Len(calls') = n + 1
            /\ \A k \in 1 .. n : calls'[k] = calls[k]
            /\ calls'[n + 1].fn = f
            /\ calls'[n + 1].shadow = s
    BY <1>3, PushStack
  <2>2. DOMAIN calls' = 1 .. n + 1
    BY <2>1, LenProperties
  <2> HIDE DEF n
  <2>3. i \in 1 .. n
    BY <1>1, <2>2
  <2>4. CASE j \in 1 .. n
    BY <1>1, <2>1, <2>3, <2>4 DEF FirstIsOutermost
  <2>5. CASE j = n + 1
    <3>1. OnStack(f)
      BY <1>1, <2>1, <2>3, <2>5 DEF OnStack
    <3>2. s \in 1 .. n
      BY <1>1, <2>1, <3>1 DEF IsShadow
    <3>3. QED
      BY <2>1, <2>5, <3>2
  <2>6. QED
    BY <1>1, <2>2, <2>4, <2>5
<1>4. CASE Pop
  <2>1. /\ DOMAIN calls' = 1 .. n - 1
        /\ \A k \in 1 .. n - 1 : /\ calls'[k].fn = calls[k].fn
                                  /\ calls'[k].shadow = calls[k].shadow
    BY <1>4, PopStack, LenProperties
  <2>2. i \in DOMAIN calls /\ j \in DOMAIN calls
    BY <1>1, <2>1
  <2>3. QED
    BY <2>1, <2>2 DEF FirstIsOutermost
<1>5. CASE UNCHANGED vars
  BY <1>5 DEF vars, FirstIsOutermost
<1>6. QED
  BY <1>2, <1>3, <1>4, <1>5 DEF Next

\* The invariant behind all properties of the times: TimersInv.
THEOREM TimersInvariant == Spec => []TimersInv
<1>1. Init => TimersInv
  BY DEF Init, TimersInv, ShadowInv, OwnTimeInv, HistoryInv, OneCallEach,
         FirstIsOutermost
<1>2. TypeOK /\ TimersInv /\ [Next]_vars => TimersInv'
  <2> SUFFICES ASSUME TypeOK, TimersInv, [Next]_vars PROVE TimersInv'
    OBVIOUS
  <2>1. ShadowInv' /\ OwnTimeInv'
    <3>1. CASE Tick
      BY <3>1, TickKeepsShadows, TickKeepsOwnTimes DEF TimersInv
    <3>2. ASSUME NEW f \in Functions, Push(f) PROVE ShadowInv' /\ OwnTimeInv'
      BY <3>2, PushKeepsShadows, PushKeepsOwnTimes DEF TimersInv
    <3>3. CASE Pop
      BY <3>3, PopKeepsShadows, PopKeepsOwnTimes DEF TimersInv
    <3>4. CASE UNCHANGED vars
      BY <3>4 DEF vars, TimersInv, ShadowInv, OwnTimeInv, OwnTime
    <3>5. QED
      BY <3>1, <3>2, <3>3, <3>4 DEF Next
  <2>2. HistoryInv' /\ OneCallEach' /\ FirstIsOutermost'
    BY HistoryKept, OneCallKept, FirstStaysOutermost DEF TimersInv
  <2>3. QED
    BY <2>1, <2>2 DEF TimersInv
<1>3. QED
  BY <1>1, <1>2, TimersTypeCorrect, PTL DEF Spec

-----------------------------------------------------------------------------
(***************************************************************************)
(* What the times of a profile mean.                                       *)
(***************************************************************************)

\* The self time of a call that returns is exact, with any recursion.
THEOREM SelfTimeAlwaysExact == Spec => []SelfTimeIsExact
<1>1. TypeOK /\ TimersInv => SelfTimeIsExact
  BY TopIsExact DEF TimersInv
<1>2. QED
  BY <1>1, TimersTypeCorrect, TimersInvariant, PTL

\* A worst time is that of a call that returned, or nothing.
LEMMA WorstTimesKept ==
    ASSUME TypeOK, TimersInv, WorstTimesArePossible, [Next]_vars
    PROVE  WorstTimesArePossible'
<1> SUFFICES ASSUME NEW f \in Functions
             PROVE  /\ worstTotal'[f] <= present'[f]
                    /\ worstSelf'[f] <= ran'[f]
                    /\ 0 <= worstSelf'[f] /\ worstSelf'[f] <= worstTotal'[f]
  BY DEF WorstTimesArePossible
<1>1. /\ worstTotal[f] \in Int /\ worstSelf[f] \in Int
      /\ present[f] \in Nat /\ ran[f] \in Nat
  BY DEF TypeOK
<1>2. /\ worstTotal[f] <= present[f]
      /\ worstSelf[f] <= ran[f]
      /\ 0 <= worstSelf[f] /\ worstSelf[f] <= worstTotal[f]
  BY DEF WorstTimesArePossible
<1>3. CASE Tick
  <2>1. worstTotal' = worstTotal /\ worstSelf' = worstSelf
    BY <1>3 DEF Tick, statVars
  <2>2. /\ present'[f] = IF OnStack(f) THEN present[f] + 1 ELSE present[f]
        /\ ran'[f] = IF calls # <<>> /\ Top.fn = f THEN ran[f] + 1 ELSE ran[f]
    BY <1>3 DEF Tick
  <2>3. present[f] <= present'[f] /\ ran[f] <= ran'[f]
        /\ present'[f] \in Nat /\ ran'[f] \in Nat
    BY <1>1, <2>2
  <2>4. QED
    BY <1>1, <1>2, <2>1, <2>3
<1>4. ASSUME NEW g \in Functions, Push(g)
      PROVE  /\ worstTotal' = worstTotal /\ worstSelf' = worstSelf
             /\ present' = present /\ ran' = ran
  BY <1>4 DEF Push, statVars
<1>5. CASE Pop
  <2>1. calls # <<>> /\ present' = present /\ ran' = ran
    BY <1>5 DEF Pop, history
  <2>2. CASE f # Top.fn
    <3>1. worstTotal'[f] = worstTotal[f] /\ worstSelf'[f] = worstSelf[f]
      BY <1>5, <2>2, PopStatistics
    <3>2. QED
      BY <1>2, <2>1, <3>1
  <2>3. CASE f = Top.fn
    <3>1. /\ worstTotal'[f] = Larger(LatestTotal(Elapsed), worstTotal[f])
          /\ worstSelf'[f] = Larger(LatestTotal(Elapsed) - Top.child,
                                    worstSelf[f])
      BY <1>5, <2>3, PopStatistics
    <3>2. /\ Elapsed \in Int /\ Top.child \in Int /\ Top.ran \in Nat
          /\ Len(calls) \in DOMAIN calls
      BY <2>1, TopType, EntryType
    <3>3. Elapsed - Top.child = Top.ran
      BY <2>1, TopIsExact DEF TimersInv, SelfTimeIsExact
    <3>4. /\ Top.ran <= Elapsed
          /\ Top.ran <= ran[f]
          /\ Elapsed <= present[f]
      BY <2>3, <3>2 DEF TimersInv, HistoryInv, Top, Elapsed
    <3>5. CASE Top.shadow # 0
      <4>1. LatestTotal(Elapsed) = 0
        BY <3>5 DEF LatestTotal
      <4>2. QED
        BY <1>1, <1>2, <2>1, <3>1, <3>2, <3>3, <3>4, <4>1 DEF Larger
    <3>6. CASE Top.shadow = 0
      <4>1. LatestTotal(Elapsed) = Elapsed
        BY <3>6 DEF LatestTotal
      <4>2. QED
        BY <1>1, <1>2, <2>1, <3>1, <3>2, <3>3, <3>4, <4>1 DEF Larger
    <3>7. QED
      BY <3>5, <3>6
  <2>4. QED
    BY <2>2, <2>3
<1>6. CASE UNCHANGED vars
  BY <1>2, <1>6 DEF vars
<1>7. QED
  BY <1>2, <1>3, <1>4, <1>5, <1>6 DEF Next

\* The worst times of a profile are times of calls that can have happened.
THEOREM WorstTimesAlwaysPossible == Spec => []WorstTimesArePossible
<1>1. Init => WorstTimesArePossible
  <2> SUFFICES ASSUME Init, NEW f \in Functions
               PROVE  /\ worstTotal[f] <= present[f]
                      /\ worstSelf[f] <= ran[f]
                      /\ 0 <= worstSelf[f] /\ worstSelf[f] <= worstTotal[f]
    BY DEF WorstTimesArePossible
  <2>1. /\ worstTotal[f] = 0 /\ worstSelf[f] = 0
        /\ present[f] = 0 /\ ran[f] = 0
    BY DEF Init
  <2>2. QED
    BY <2>1
<1>2. TypeOK /\ TimersInv /\ WorstTimesArePossible /\ [Next]_vars
          => WorstTimesArePossible'
  BY WorstTimesKept
<1>3. QED
  BY <1>1, <1>2, TimersTypeCorrect, TimersInvariant, PTL DEF Spec

\* The times of one function that never called itself.
SelfAddsUp(f) ==
    /\ ~OnStack(f) => self[f] = ran[f]
    /\ \A i \in DOMAIN calls :
          calls[i].fn = f => self[f] + calls[i].ran = ran[f]

TotalAddsUp(f) ==
    /\ ~OnStack(f) => total[f] = present[f]
    /\ \A i \in DOMAIN calls :
          calls[i].fn = f => total[f] + (now - calls[i].start) = present[f]

AddsUp(f) == SelfAddsUp(f) /\ TotalAddsUp(f)

AllAddUp == \A f \in Functions \ recursive : AddsUp(f)

\* Its one call starts from what the profile knows, grows with the history, and
\* adds to the profile what it was missing.
LEMMA TimesOfOneKept ==
    ASSUME TypeOK, TimersInv, [Next]_vars,
           NEW f \in Functions, f \notin recursive', AddsUp(f)
    PROVE  AddsUp(f)'
<1> DEFINE n == Len(calls)
<1>1. n = Len(calls) /\ n \in Nat /\ DOMAIN calls = 1 .. n /\ now \in Nat
  BY EntryType DEF TypeOK
<1>2. \A i \in 1 .. n : calls[i].start \in Nat /\ calls[i].ran \in Nat
  BY EntryType
<1>3. /\ ran[f] \in Nat /\ present[f] \in Nat
      /\ self[f] \in Int /\ total[f] \in Int
  BY DEF TypeOK
<1> HIDE DEF n
<1>4. CASE Tick
  <2>1. DOMAIN calls' = 1 .. n /\ now' = now + 1
        /\ self' = self /\ total' = total
    BY <1>1, <1>4, TickStack, LenProperties DEF Tick, statVars
  <2>2. /\ present'[f] = IF OnStack(f) THEN present[f] + 1 ELSE present[f]
        /\ ran'[f] = IF calls # <<>> /\ Top.fn = f THEN ran[f] + 1 ELSE ran[f]
    BY <1>4 DEF Tick
  <2>3. \A i \in 1 .. n : /\ calls'[i].fn = calls[i].fn
                          /\ calls'[i].start = calls[i].start
                          /\ calls'[i].ran = IF calls[i].fn = Top.fn
                                             THEN calls[i].ran + 1
                                             ELSE calls[i].ran
    BY <1>1, <1>4, TickStack
  <2>4. OnStack(f)' <=> OnStack(f)
    BY <1>1, <2>1, <2>3 DEF OnStack
  <2>5. CASE ~OnStack(f)
    <3>1. ~(calls # <<>> /\ Top.fn = f)
      BY <1>1, <2>5, EntryType DEF OnStack, Top
    <3>2. self'[f] = ran'[f] /\ total'[f] = present'[f]
      BY <2>1, <2>2, <2>5, <3>1 DEF AddsUp, SelfAddsUp, TotalAddsUp
    <3>3. \A i \in 1 .. n : calls'[i].fn # f
      BY <1>1, <2>3, <2>5 DEF OnStack
    <3>4. QED
      BY <2>1, <3>2, <3>3 DEF AddsUp, SelfAddsUp, TotalAddsUp
  <2>6. CASE OnStack(f)
    <3>1. SUFFICES ASSUME NEW i \in 1 .. n, calls[i].fn = f
                   PROVE  /\ self'[f] + calls'[i].ran = ran'[f]
                          /\ total'[f] + (now' - calls'[i].start)
                                = present'[f]
      BY <2>1, <2>3, <2>4, <2>6 DEF AddsUp, SelfAddsUp, TotalAddsUp
    <3>2. /\ self[f] + calls[i].ran = ran[f]
          /\ total[f] + (now - calls[i].start) = present[f]
      BY <1>1, <3>1 DEF AddsUp, SelfAddsUp, TotalAddsUp
    <3>3. calls # <<>>
      BY <1>1, <3>1, EmptySeq
    <3>4. /\ present'[f] = present[f] + 1
          /\ ran'[f] = IF Top.fn = f THEN ran[f] + 1 ELSE ran[f]
          /\ calls'[i].start = calls[i].start
          /\ calls'[i].ran = IF Top.fn = f THEN calls[i].ran + 1
                                           ELSE calls[i].ran
      BY <2>2, <2>3, <2>6, <3>1, <3>3
    <3>5. calls[i].ran \in Nat /\ calls[i].start \in Nat
      BY <1>2
    <3>6. /\ self'[f] = self[f] /\ total'[f] = total[f] /\ now' = now + 1
      BY <2>1
    <3>7. self'[f] + calls'[i].ran = ran'[f]
      <4>1. CASE Top.fn = f
        BY <1>3, <3>2, <3>4, <3>5, <3>6, <4>1
      <4>2. CASE Top.fn # f
        BY <1>3, <3>2, <3>4, <3>5, <3>6, <4>2
      <4>3. QED
        BY <4>1, <4>2
    <3>8. total'[f] + (now' - calls'[i].start) = present'[f]
      <4>1. \A t, m, s, p \in Int :
               t + (m - s) = p => t + (m + 1 - s) = p + 1
        OBVIOUS
      <4>2. now \in Int /\ calls[i].start \in Int
            /\ total[f] \in Int /\ present[f] \in Int
        BY <1>1, <1>3, <3>5
      <4>3. total[f] + (now + 1 - calls[i].start) = present[f] + 1
        BY <3>2, <4>1, <4>2
      <4>4. calls'[i].start = calls[i].start /\ present'[f] = present[f] + 1
        BY <3>4
      <4>5. total'[f] = total[f] /\ now' = now + 1
        BY <3>6
      <4>6. QED
        BY <4>2, <4>3, <4>4, <4>5
    <3>9. QED
      BY <3>7, <3>8
  <2>7. QED
    BY <2>5, <2>6
<1>5. ASSUME NEW g \in Functions, Push(g) PROVE AddsUp(f)'
  <2>1. /\ calls' \in Seq(FunctionCall)
        /\ Len(calls') = n + 1
        /\ \A i \in 1 .. n : calls'[i] = calls[i]
        /\ calls'[n + 1].fn = g
        /\ calls'[n + 1].start = now
        /\ calls'[n + 1].ran = 0
    BY <1>1, <1>5, PushStack
  <2>2. DOMAIN calls' = 1 .. n + 1
    BY <2>1, LenProperties
  <2>3. /\ now' = now /\ present' = present /\ ran' = ran
        /\ self' = self /\ total' = total
    BY <1>5 DEF Push, statVars
  <2>4. CASE f = g
    <3>1. ~OnStack(f)
      BY <1>5, <2>4 DEF Push
    <3>2. self[f] = ran[f] /\ total[f] = present[f]
      BY <3>1 DEF AddsUp, SelfAddsUp, TotalAddsUp
    <3>3. \A i \in 1 .. n : calls'[i].fn # f
      BY <1>1, <2>1, <3>1 DEF OnStack
    <3>4. OnStack(f)'
      BY <1>1, <2>1, <2>2, <2>4 DEF OnStack
    <3>5. ASSUME NEW i \in DOMAIN calls', calls'[i].fn = f PROVE i = n + 1
      BY <1>1, <2>2, <3>3, <3>5
    <3>6. QED
      BY <1>1, <1>3, <2>1, <2>3, <3>2, <3>4, <3>5
      DEF AddsUp, SelfAddsUp, TotalAddsUp
  <2>5. CASE f # g
    <3>1. OnStack(f)' <=> OnStack(f)
      BY <1>1, <2>1, <2>2, <2>5 DEF OnStack
    <3>2. ASSUME NEW i \in DOMAIN calls', calls'[i].fn = f
          PROVE  i \in DOMAIN calls /\ calls'[i] = calls[i]
      BY <1>1, <2>1, <2>2, <2>5, <3>2
    <3>3. QED
      BY <2>3, <3>1, <3>2 DEF AddsUp, SelfAddsUp, TotalAddsUp
  <2>6. QED
    BY <2>4, <2>5
<1>6. CASE Pop
  <2>1. calls # <<>> /\ now' = now /\ present' = present /\ ran' = ran
        /\ recursive' = recursive
    BY <1>6 DEF Pop, history
  <2>2. DOMAIN calls' = 1 .. n - 1
    BY <1>1, <1>6, PopStack, LenProperties
  <2>3. \A i \in 1 .. n - 1 : /\ calls'[i].fn = calls[i].fn
                              /\ calls'[i].start = calls[i].start
                              /\ calls'[i].ran = calls[i].ran
    BY <1>1, <1>6, PopStack
  <2>4. n \in DOMAIN calls /\ Top = calls[n]
    BY <1>1, <2>1, EntryType DEF Top
  <2>5. CASE f = Top.fn
    <3>1. /\ self'[f] = self[f] + (Elapsed - Top.child)
          /\ total'[f] = total[f] + Elapsed
      BY <1>6, <2>5, PopStatistics
    <3>2. Elapsed - Top.child = Top.ran
      BY <2>1, TopIsExact DEF TimersInv, SelfTimeIsExact
    <3>3. /\ self[f] + Top.ran = ran[f]
          /\ total[f] + Elapsed = present[f]
      BY <2>4, <2>5 DEF AddsUp, SelfAddsUp, TotalAddsUp, Elapsed
    <3>4. ASSUME NEW i \in 1 .. n - 1 PROVE calls'[i].fn # f
      <4>1. i \in DOMAIN calls /\ i # n
        BY <1>1
      <4>2. calls[i].fn # f
        BY <2>1, <2>4, <2>5, <4>1 DEF TimersInv, OneCallEach
      <4>3. QED
        BY <2>3, <4>2
    <3>5. self'[f] = ran'[f] /\ total'[f] = present'[f]
      BY <2>1, <3>1, <3>2, <3>3
    <3>6. QED
      BY <2>2, <3>4, <3>5 DEF AddsUp, SelfAddsUp, TotalAddsUp
  <2>6. CASE f # Top.fn
    <3>1. self'[f] = self[f] /\ total'[f] = total[f]
      BY <1>6, <2>6, PopStatistics
    <3>2. OnStack(f)' <=> OnStack(f)
      <4>1. ASSUME NEW i \in 1 .. n, calls[i].fn = f PROVE i \in 1 .. n - 1
        BY <1>1, <2>4, <2>6, <4>1
      <4>2. QED
        BY <1>1, <2>2, <2>3, <4>1 DEF OnStack
    <3>3. \A i \in 1 .. n - 1 : i \in DOMAIN calls
      BY <1>1
    <3>4. QED
      BY <2>1, <2>2, <2>3, <3>1, <3>2, <3>3
      DEF AddsUp, SelfAddsUp, TotalAddsUp
  <2>7. QED
    BY <2>5, <2>6
<1>7. CASE UNCHANGED vars
  BY <1>7 DEF vars, AddsUp, SelfAddsUp, TotalAddsUp, OnStack
<1>8. QED
  BY <1>4, <1>5, <1>6, <1>7 DEF Next

\* A function that is not recursive later is not recursive now.
LEMMA RecursiveGrows ==
    ASSUME [Next]_vars
    PROVE  recursive \subseteq recursive'
<1>1. CASE Tick
  BY <1>1 DEF Tick
<1>2. ASSUME NEW f \in Functions, Push(f) PROVE recursive \subseteq recursive'
  BY <1>2 DEF Push
<1>3. CASE Pop
  BY <1>3 DEF Pop, history
<1>4. CASE UNCHANGED vars
  BY <1>4 DEF vars
<1>5. QED
  BY <1>1, <1>2, <1>3, <1>4 DEF Next

\* Both times of all functions that never call themselves.
LEMMA AllAlwaysAddUp == Spec => []AllAddUp
<1>1. Init => AllAddUp
  <2> SUFFICES ASSUME Init, NEW f \in Functions PROVE AddsUp(f)
    BY DEF AllAddUp
  <2>1. DOMAIN calls = {}
    BY DEF Init
  <2>2. /\ self[f] = 0 /\ ran[f] = 0
        /\ total[f] = 0 /\ present[f] = 0
    BY DEF Init
  <2>3. QED
    BY <2>1, <2>2 DEF AddsUp, SelfAddsUp, TotalAddsUp
<1>2. TypeOK /\ TimersInv /\ AllAddUp /\ [Next]_vars => AllAddUp'
  <2> SUFFICES ASSUME TypeOK, TimersInv, AllAddUp, [Next]_vars,
                      NEW f \in Functions, f \notin recursive'
               PROVE  AddsUp(f)'
    BY DEF AllAddUp
  <2>1. AddsUp(f)
    BY RecursiveGrows DEF AllAddUp
  <2>2. QED
    BY <2>1, TimesOfOneKept
<1>3. QED
  BY <1>1, <1>2, TimersTypeCorrect, TimersInvariant, PTL DEF Spec

\* The self time of a function that never calls itself is how long it ran, the
\* call in progress included, however others recurse.
THEOREM SelfTimesAlwaysAddUp == Spec => []SelfTimesAddUp
<1>1. AllAddUp => SelfTimesAddUp
  BY DEF AllAddUp, AddsUp, SelfAddsUp, SelfTimesAddUp
<1>2. QED
  BY <1>1, AllAlwaysAddUp, PTL

\* Its total time is how long it was on the stack.
THEOREM TotalTimesAlwaysAddUp == Spec => []TotalTimesAddUp
<1>1. AllAddUp => TotalTimesAddUp
  BY DEF AllAddUp, AddsUp, TotalAddsUp, TotalTimesAddUp
<1>2. QED
  BY <1>1, AllAlwaysAddUp, PTL

\* With recursion: what the profile has of a function, and the outermost call of
\* it in progress will add, is no less than what it did.
Covered(f) ==
    /\ ~OnStack(f) => self[f] >= ran[f] /\ total[f] >= present[f]
    /\ \A i \in DOMAIN calls :
          calls[i].fn = f /\ calls[i].shadow = 0 =>
              /\ self[f] + calls[i].ran >= ran[f]
              /\ total[f] + (now - calls[i].start) >= present[f]

AllCovered == \A f \in Functions : Covered(f)

\* Inner calls only add to the profile; the outermost adds what was missing.
LEMMA CoveredKept ==
    ASSUME TypeOK, TimersInv, [Next]_vars, NEW f \in Functions, Covered(f)
    PROVE  Covered(f)'
<1> DEFINE n == Len(calls)
<1>1. n = Len(calls) /\ n \in Nat /\ DOMAIN calls = 1 .. n /\ now \in Nat
  BY EntryType DEF TypeOK
<1>2. \A i \in 1 .. n : calls[i].start \in Nat /\ calls[i].ran \in Nat
  BY EntryType
<1>3. /\ ran[f] \in Nat /\ present[f] \in Nat
      /\ self[f] \in Int /\ total[f] \in Int
  BY DEF TypeOK
<1> HIDE DEF n
<1>4. CASE Tick
  <2>1. DOMAIN calls' = 1 .. n /\ now' = now + 1
        /\ self' = self /\ total' = total
    BY <1>1, <1>4, TickStack, LenProperties DEF Tick, statVars
  <2>2. /\ present'[f] = IF OnStack(f) THEN present[f] + 1 ELSE present[f]
        /\ ran'[f] = IF calls # <<>> /\ Top.fn = f THEN ran[f] + 1 ELSE ran[f]
    BY <1>4 DEF Tick
  <2>3. \A i \in 1 .. n : /\ calls'[i].fn = calls[i].fn
                          /\ calls'[i].start = calls[i].start
                          /\ calls'[i].shadow = calls[i].shadow
                          /\ calls'[i].ran = IF calls[i].fn = Top.fn
                                             THEN calls[i].ran + 1
                                             ELSE calls[i].ran
    BY <1>1, <1>4, TickStack
  <2>4. OnStack(f)' <=> OnStack(f)
    BY <1>1, <2>1, <2>3 DEF OnStack
  <2>5. CASE ~OnStack(f)
    <3>1. ~(calls # <<>> /\ Top.fn = f)
      BY <1>1, <2>5, EntryType DEF OnStack, Top
    <3>2. self'[f] >= ran'[f] /\ total'[f] >= present'[f]
      BY <2>1, <2>2, <2>5, <3>1 DEF Covered
    <3>3. \A i \in 1 .. n : calls'[i].fn # f
      BY <1>1, <2>3, <2>5 DEF OnStack
    <3>4. QED
      BY <2>1, <3>2, <3>3 DEF Covered
  <2>6. CASE OnStack(f)
    <3>1. SUFFICES ASSUME NEW i \in 1 .. n, calls[i].fn = f,
                          calls[i].shadow = 0
                   PROVE  /\ self'[f] + calls'[i].ran >= ran'[f]
                          /\ total'[f] + (now' - calls'[i].start)
                                >= present'[f]
      BY <2>1, <2>3, <2>4, <2>6 DEF Covered
    <3>2. /\ self[f] + calls[i].ran >= ran[f]
          /\ total[f] + (now - calls[i].start) >= present[f]
      BY <1>1, <3>1 DEF Covered
    <3>3. calls # <<>>
      BY <1>1, <3>1, EmptySeq
    <3>4. /\ present'[f] = present[f] + 1
          /\ ran'[f] = IF Top.fn = f THEN ran[f] + 1 ELSE ran[f]
          /\ calls'[i].start = calls[i].start
          /\ calls'[i].ran = IF Top.fn = f THEN calls[i].ran + 1
                                           ELSE calls[i].ran
      BY <2>2, <2>3, <2>6, <3>1, <3>3
    <3>5. calls[i].ran \in Nat /\ calls[i].start \in Nat
      BY <1>2
    <3>6. /\ self'[f] = self[f] /\ total'[f] = total[f] /\ now' = now + 1
      BY <2>1
    <3>7. self'[f] + calls'[i].ran >= ran'[f]
      <4>1. CASE Top.fn = f
        BY <1>3, <3>2, <3>4, <3>5, <3>6, <4>1
      <4>2. CASE Top.fn # f
        BY <1>3, <3>2, <3>4, <3>5, <3>6, <4>2
      <4>3. QED
        BY <4>1, <4>2
    <3>8. total'[f] + (now' - calls'[i].start) >= present'[f]
      <4>1. \A t, m, s, p \in Int :
               t + (m - s) >= p => t + (m + 1 - s) >= p + 1
        OBVIOUS
      <4>2. now \in Int /\ calls[i].start \in Int
            /\ total[f] \in Int /\ present[f] \in Int
        BY <1>1, <1>3, <3>5
      <4>3. total[f] + (now + 1 - calls[i].start) >= present[f] + 1
        BY <3>2, <4>1, <4>2
      <4>4. calls'[i].start = calls[i].start /\ present'[f] = present[f] + 1
        BY <3>4
      <4>5. QED
        BY <3>6, <4>2, <4>3, <4>4
    <3>9. QED
      BY <3>7, <3>8
  <2>7. QED
    BY <2>5, <2>6
<1>5. ASSUME NEW g \in Functions, Push(g) PROVE Covered(f)'
  <2>1. PICK s \in 0 .. n :
            /\ IsShadow(g, s)
            /\ calls' \in Seq(FunctionCall)
            /\ Len(calls') = n + 1
            /\ \A i \in 1 .. n : calls'[i] = calls[i]
            /\ calls'[n + 1].fn = g
            /\ calls'[n + 1].start = now
            /\ calls'[n + 1].shadow = s
            /\ calls'[n + 1].ran = 0
    BY <1>1, <1>5, PushStack
  <2>2. DOMAIN calls' = 1 .. n + 1
    BY <2>1, LenProperties
  <2>3. /\ now' = now /\ present' = present /\ ran' = ran
        /\ self' = self /\ total' = total
    BY <1>5 DEF Push, statVars
  <2>4. CASE f = g /\ ~OnStack(f)
    <3>1. self[f] >= ran[f] /\ total[f] >= present[f]
      BY <2>4 DEF Covered
    <3>2. \A i \in 1 .. n : calls'[i].fn # f
      BY <1>1, <2>1, <2>4 DEF OnStack
    <3>3. OnStack(f)'
      BY <1>1, <2>1, <2>2, <2>4 DEF OnStack
    <3>4. ASSUME NEW i \in DOMAIN calls', calls'[i].fn = f PROVE i = n + 1
      BY <1>1, <2>2, <3>2, <3>4
    <3>5. QED
      BY <1>1, <1>3, <2>1, <2>3, <3>1, <3>3, <3>4 DEF Covered
  <2>5. CASE f = g /\ OnStack(f)
    <3>1. s # 0
      BY <1>1, <2>1, <2>5 DEF IsShadow
    <3>2. OnStack(f)'
      BY <1>1, <2>1, <2>2, <2>5 DEF OnStack
    <3>3. ASSUME NEW i \in DOMAIN calls', calls'[i].shadow = 0
          PROVE  i \in DOMAIN calls /\ calls'[i] = calls[i]
      BY <1>1, <2>1, <2>2, <3>1, <3>3
    <3>4. QED
      BY <2>3, <3>2, <3>3 DEF Covered
  <2>6. CASE f # g
    <3>1. OnStack(f)' <=> OnStack(f)
      BY <1>1, <2>1, <2>2, <2>6 DEF OnStack
    <3>2. ASSUME NEW i \in DOMAIN calls', calls'[i].fn = f
          PROVE  i \in DOMAIN calls /\ calls'[i] = calls[i]
      BY <1>1, <2>1, <2>2, <2>6, <3>2
    <3>3. QED
      BY <2>3, <3>1, <3>2 DEF Covered
  <2>7. QED
    BY <2>4, <2>5, <2>6
<1>6. CASE Pop
  <2>1. calls # <<>> /\ now' = now /\ present' = present /\ ran' = ran
    BY <1>6 DEF Pop, history
  <2>2. DOMAIN calls' = 1 .. n - 1
    BY <1>1, <1>6, PopStack, LenProperties
  <2>3. \A i \in 1 .. n - 1 : /\ calls'[i].fn = calls[i].fn
                              /\ calls'[i].start = calls[i].start
                              /\ calls'[i].shadow = calls[i].shadow
                              /\ calls'[i].ran = calls[i].ran
    BY <1>1, <1>6, PopStack
  <2>4. n \in DOMAIN calls /\ Top = calls[n]
    BY <1>1, <2>1, EntryType DEF Top
  <2>5. CASE f = Top.fn
    <3>1. /\ self'[f] = self[f] + (Elapsed - Top.child)
          /\ total'[f] = total[f] + Elapsed
      BY <1>6, <2>5, PopStatistics
    <3>2. Elapsed - Top.child = Top.ran
      BY <2>1, TopIsExact DEF TimersInv, SelfTimeIsExact
    <3>3. Top.ran \in Nat /\ Elapsed \in Int /\ Top.ran <= Elapsed
      BY <2>1, <2>4, TopType DEF TimersInv, HistoryInv, Elapsed
    <3>4. self'[f] = self[f] + Top.ran
      BY <3>1, <3>2
    <3>5. CASE Top.shadow = 0
      <4>1. /\ self[f] + Top.ran >= ran[f]
            /\ total[f] + Elapsed >= present[f]
        BY <2>4, <2>5, <3>5 DEF Covered, Elapsed
      <4>2. ASSUME NEW i \in 1 .. n - 1 PROVE calls'[i].fn # f
        <5>1. i \in DOMAIN calls /\ i < n
          BY <1>1
        <5>2. calls[i].fn # f
          BY <2>4, <2>5, <3>5, <5>1 DEF TimersInv, FirstIsOutermost
        <5>3. QED
          BY <2>3, <5>2
      <4>3. self'[f] >= ran'[f] /\ total'[f] >= present'[f]
        BY <2>1, <3>1, <3>4, <4>1
      <4>4. QED
        BY <2>2, <4>2, <4>3 DEF Covered
    <3>6. CASE Top.shadow # 0
      <4>1. OnStack(f)'
        <5>1. Top.shadow \in 1 .. n - 1
          BY <1>1, <2>1, <2>4, <3>6, TopType DEF TimersInv, ShadowInv
        <5>2. calls[Top.shadow].fn = f
          BY <1>1, <2>4, <2>5, <5>1 DEF TimersInv, ShadowInv
        <5>3. QED
          BY <2>2, <2>3, <5>1, <5>2 DEF OnStack
      <4>2. ASSUME NEW i \in 1 .. n - 1, calls'[i].fn = f,
                   calls'[i].shadow = 0
            PROVE  /\ self'[f] + calls'[i].ran >= ran'[f]
                   /\ total'[f] + (now' - calls'[i].start) >= present'[f]
        <5>1. i \in DOMAIN calls /\ i \in 1 .. n
          BY <1>1
        <5>2. /\ calls'[i].start = calls[i].start
              /\ calls'[i].ran = calls[i].ran
              /\ calls[i].fn = f /\ calls[i].shadow = 0
          BY <2>3, <4>2
        <5>3. /\ self[f] + calls[i].ran >= ran[f]
              /\ total[f] + (now - calls[i].start) >= present[f]
          BY <5>1, <5>2 DEF Covered
        <5>4. calls[i].ran \in Int /\ calls[i].start \in Int
          BY <1>2, <5>1
        <5>5. \A t, u, d, p \in Int : t + d >= p /\ u >= 0 => t + u + d >= p
          OBVIOUS
        <5>6. self[f] + Top.ran + calls[i].ran >= ran[f]
          BY <1>3, <3>3, <5>3, <5>4, <5>5
        <5>7. Elapsed >= 0 /\ now - calls[i].start \in Int
          BY <1>1, <3>3, <5>4
        <5>8. total[f] + Elapsed + (now - calls[i].start) >= present[f]
          BY <1>3, <3>3, <5>3, <5>5, <5>7
        <5>9. QED
          BY <2>1, <3>1, <3>4, <5>2, <5>6, <5>8
      <4>3. QED
        BY <2>2, <4>1, <4>2 DEF Covered
    <3>7. QED
      BY <3>5, <3>6
  <2>6. CASE f # Top.fn
    <3>1. self'[f] = self[f] /\ total'[f] = total[f]
      BY <1>6, <2>6, PopStatistics
    <3>2. OnStack(f)' <=> OnStack(f)
      <4>1. ASSUME NEW i \in 1 .. n, calls[i].fn = f PROVE i \in 1 .. n - 1
        BY <1>1, <2>4, <2>6, <4>1
      <4>2. QED
        BY <1>1, <2>2, <2>3, <4>1 DEF OnStack
    <3>3. \A i \in 1 .. n - 1 : i \in DOMAIN calls
      BY <1>1
    <3>4. QED
      BY <2>1, <2>2, <2>3, <3>1, <3>2, <3>3 DEF Covered
  <2>7. QED
    BY <2>5, <2>6
<1>7. CASE UNCHANGED vars
  BY <1>7 DEF vars, Covered, OnStack
<1>8. QED
  BY <1>4, <1>5, <1>6, <1>7 DEF Next

\* With any recursion, a profile never claims less than a function did.
THEOREM NothingIsEverLost == Spec => []NothingIsLost
<1>1. Init => AllCovered
  <2> SUFFICES ASSUME Init, NEW f \in Functions PROVE Covered(f)
    BY DEF AllCovered
  <2>1. DOMAIN calls = {}
    BY DEF Init
  <2>2. /\ self[f] = 0 /\ ran[f] = 0
        /\ total[f] = 0 /\ present[f] = 0
    BY DEF Init
  <2>3. QED
    BY <2>1, <2>2 DEF Covered
<1>2. TypeOK /\ TimersInv /\ AllCovered /\ [Next]_vars => AllCovered'
  BY CoveredKept DEF AllCovered
<1>3. AllCovered => NothingIsLost
  BY DEF AllCovered, Covered, NothingIsLost
<1>4. QED
  BY <1>1, <1>2, <1>3, TimersTypeCorrect, TimersInvariant, PTL DEF Spec
=============================================================================
