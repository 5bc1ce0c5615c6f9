----------------------------- MODULE AmxProofs -----------------------------
(***************************************************************************)
(* Lemmas about sequences used as stacks, and about the machine: what each *)
(* of its steps does to the stack of activations.  Profiler and            *)
(* ProfilerHandler are both driven by it.                                  *)
(***************************************************************************)
EXTENDS Amx, SequenceTheorems, TLAPS

\* What is left of a stack after pops: SubSeq(s, 1, n), as LeaveFunction and
\* PopCalls leave it.
LEMMA PrefixOfStack ==
    ASSUME NEW S, NEW s \in Seq(S), NEW n \in Int, n <= Len(s)
    PROVE  /\ SubSeq(s, 1, n) \in Seq(S)
           /\ n >= 0 => Len(SubSeq(s, 1, n)) = n
           /\ n < 0 => Len(SubSeq(s, 1, n)) = 0
           /\ \A i \in 1 .. n : SubSeq(s, 1, n)[i] = s[i]
<1>1. \A i \in 1 .. n : s[i] \in S
  BY ElementOfSeq, LenProperties
<1>2. QED
  BY <1>1, SubSeqProperties

\* A push: Append(s, e), as EnterFunction, PushCall and the machine make it.
LEMMA PushOnStack ==
    ASSUME NEW S, NEW s \in Seq(S), NEW e \in S
    PROVE  /\ Append(s, e) \in Seq(S)
           /\ Len(Append(s, e)) = Len(s) + 1
           /\ \A i \in 1 .. Len(s) : Append(s, e)[i] = s[i]
           /\ Append(s, e)[Len(s) + 1] = e
BY AppendProperties

\* A stack defined place by place, as a step that changes entries makes it.
LEMMA FunctionIsStack ==
    ASSUME NEW S, NEW n \in Nat, NEW s \in [1 .. n -> S]
    PROVE  s \in Seq(S) /\ Len(s) = n
OBVIOUS

-----------------------------------------------------------------------------
\* The machine's stack as a stack.
LEMMA MachineStack ==
    ASSUME VmTypeOK
    PROVE  /\ vm \in Seq(Activation)
           /\ Len(vm) \in Nat
           /\ DOMAIN vm = 1 .. Len(vm)
           /\ \A i \in DOMAIN vm : vm[i] \in Activation
           /\ vm # <<>> => /\ Len(vm) \in DOMAIN vm
                           /\ Len(vm) \in Nat \ {0}
                           /\ Running \in Activation
<1>1. vm \in Seq(Activation) /\ Len(vm) \in Nat /\ DOMAIN vm = 1 .. Len(vm)
  BY LenProperties DEF VmTypeOK
<1>2. \A i \in DOMAIN vm : vm[i] \in Activation
  BY <1>1, ElementOfSeq
<1>3. ASSUME vm # <<>> PROVE Len(vm) \in Nat \ {0} /\ Len(vm) \in DOMAIN vm
  BY <1>1, <1>3, EmptySeq
<1>4. QED
  BY <1>1, <1>2, <1>3 DEF Running

\* The running frame is the lowest one.
LEMMA RunningFrameIsLowest ==
    ASSUME VmTypeOK, MachineInv, vm # <<>>
    PROVE  /\ Running.frm \in Nat \ {0}
           /\ \A i \in DOMAIN vm : vm[i].frm >= Running.frm
<1>1. /\ Len(vm) \in Nat \ {0} /\ DOMAIN vm = 1 .. Len(vm)
      /\ Len(vm) \in DOMAIN vm /\ Running \in Activation
  BY MachineStack
<1>2. Running.frm \in Nat \ {0}
  BY <1>1 DEF Running, Activation, MachineInv
<1>3. ASSUME NEW i \in DOMAIN vm PROVE vm[i].frm >= Running.frm
  <2>1. CASE i < Len(vm)
    BY <1>1, <2>1 DEF MachineInv, Running
  <2>2. CASE i = Len(vm)
    BY <1>2, <2>2 DEF Running
  <2>3. i < Len(vm) \/ i = Len(vm)
    <3>1. Len(vm) \in Nat /\ i \in 1 .. Len(vm)
      BY <1>1
    <3>2. QED
      BY <3>1
  <2>4. QED
    BY <2>1, <2>2, <2>3
<1>4. QED
  BY <1>2, <1>3

\* The frame of a function that starts, when there is room for it.
LEMMA NewFrameIsLowest ==
    ASSUME VmTypeOK, MachineInv, NEW size \in FrameSizes, StackBase - size > 0
    PROVE  /\ StackBase - size \in Nat \ {0}
           /\ \A i \in DOMAIN vm : vm[i].frm >= StackBase - size
           /\ vm # <<>> => StackBase - size < Running.frm
<1>1. size \in Nat \ {0} /\ Stp \in Nat
  BY AmxAssumption
<1>2. CASE vm = <<>>
  <2>1. StackBase = Stp
    BY <1>2 DEF StackBase
  <2>2. DOMAIN vm = {}
    BY <1>2, EmptySeq
  <2>3. QED
    BY <1>1, <1>2, <2>1, <2>2
<1>3. CASE vm # <<>>
  <2>1. StackBase = Running.frm
    BY <1>3 DEF StackBase
  <2>2. ASSUME NEW i \in DOMAIN vm PROVE vm[i].frm \in Nat
    BY MachineStack DEF Activation
  <2>3. Running.frm \in Nat /\ \A i \in DOMAIN vm : vm[i].frm >= Running.frm
    BY <1>3, RunningFrameIsLowest
  <2>4. QED
    BY <1>1, <2>1, <2>2, <2>3
<1>4. QED
  BY <1>2, <1>3

\* An activation that starts is pushed on the others.
LEMMA StartedPushes ==
    ASSUME VmTypeOK, NEW kind \in {"exec", "call", "native"},
           NEW fn \in Functions, NEW frm \in Nat, vm' = Started(kind, fn, frm)
    PROVE  /\ VmTypeOK'
           /\ Len(vm') = Len(vm) + 1
           /\ DOMAIN vm' = 1 .. Len(vm) + 1
           /\ \A i \in 1 .. Len(vm) : vm'[i] = vm[i]
           /\ vm'[Len(vm) + 1].kind = kind
           /\ vm'[Len(vm) + 1].fn = fn
           /\ vm'[Len(vm) + 1].frm = frm
           /\ ~vm'[Len(vm) + 1].returned
<1> DEFINE act == [kind |-> kind, fn |-> fn, frm |-> frm, returned |-> FALSE]
<1>1. /\ act \in Activation /\ act.kind = kind /\ act.fn = fn
      /\ act.frm = frm /\ ~act.returned
  BY DEF Activation
<1>2. vm' = Append(vm, act) /\ vm \in Seq(Activation)
  BY DEF Started, VmTypeOK
<1> HIDE DEF act
<1>3. /\ vm' \in Seq(Activation) /\ Len(vm') = Len(vm) + 1
      /\ \A i \in 1 .. Len(vm) : vm'[i] = vm[i]
      /\ vm'[Len(vm) + 1] = act
  BY <1>1, <1>2, PushOnStack
<1>4. DOMAIN vm' = 1 .. Len(vm) + 1
  BY <1>3, LenProperties
<1>5. QED
  BY <1>1, <1>3, <1>4 DEF VmTypeOK

\* A push keeps the shape of the machine's stack.
LEMMA PushKeepsMachine ==
    ASSUME VmTypeOK, MachineInv,
           NEW kind \in {"exec", "call", "native"}, NEW fn \in Functions,
           NEW frm \in Nat \ {0}, vm' = Started(kind, fn, frm),
           vm = <<>> => kind = "exec", kind = "call" => fn \in Callees,
           \A i \in DOMAIN vm : vm[i].frm >= frm
    PROVE  MachineInv'
<1>1. Len(vm) \in Nat /\ DOMAIN vm = 1 .. Len(vm)
  BY MachineStack
<1>2. /\ Len(vm') = Len(vm) + 1 /\ DOMAIN vm' = 1 .. Len(vm) + 1
      /\ \A i \in 1 .. Len(vm) : vm'[i] = vm[i]
      /\ vm'[Len(vm) + 1].kind = kind /\ vm'[Len(vm) + 1].fn = fn
      /\ vm'[Len(vm) + 1].frm = frm
  BY StartedPushes
<1>3. vm'[1].kind = "exec"
  <2>1. CASE vm = <<>>
    BY <1>2, <2>1, EmptySeq
  <2>2. CASE vm # <<>>
    <3>1. 1 \in 1 .. Len(vm)
      BY <1>1, <2>2, EmptySeq DEF VmTypeOK
    <3>2. QED
      BY <1>2, <2>2, <3>1 DEF MachineInv
  <2>3. QED
    BY <2>1, <2>2
<1>4. ASSUME NEW i \in 1 .. Len(vm) + 1
      PROVE  vm'[i].frm > 0 /\ (vm'[i].kind = "call" => vm'[i].fn \in Callees)
  <2>1. CASE i \in 1 .. Len(vm)
    BY <1>1, <1>2, <2>1 DEF MachineInv
  <2>2. CASE i = Len(vm) + 1
    BY <1>2, <2>2
  <2>3. QED
    BY <1>1, <2>1, <2>2
<1>5. ASSUME NEW i \in 1 .. Len(vm) + 1, NEW j \in 1 .. Len(vm) + 1, i < j
      PROVE  vm'[i].frm >= vm'[j].frm
  <2>1. i \in 1 .. Len(vm) /\ vm'[i] = vm[i]
    BY <1>1, <1>2, <1>5
  <2>2. CASE j \in 1 .. Len(vm)
    BY <1>1, <1>2, <1>5, <2>1, <2>2 DEF MachineInv
  <2>3. CASE j = Len(vm) + 1
    BY <1>1, <1>2, <2>1, <2>3
  <2>4. QED
    BY <1>1, <2>2, <2>3
<1>6. QED
  BY <1>2, <1>3, <1>4, <1>5 DEF MachineInv

\* So does a return, and a change of the running activation's statement.
LEMMA PrefixKeepsMachine ==
    ASSUME VmTypeOK, VmTypeOK', MachineInv, Len(vm') <= Len(vm),
           \A i \in 1 .. Len(vm') :
               /\ vm'[i].kind = vm[i].kind
               /\ vm'[i].fn = vm[i].fn
               /\ vm'[i].frm = vm[i].frm
    PROVE  MachineInv'
<1>1. /\ Len(vm) \in Nat /\ DOMAIN vm = 1 .. Len(vm)
      /\ Len(vm') \in Nat /\ DOMAIN vm' = 1 .. Len(vm')
  BY LenProperties DEF VmTypeOK
<1>2. vm' # <<>> => 1 \in 1 .. Len(vm') /\ vm # <<>>
  BY <1>1, EmptySeq DEF VmTypeOK
<1>3. \A i \in 1 .. Len(vm') : i \in 1 .. Len(vm)
  BY <1>1
<1>4. QED
  BY <1>1, <1>2, <1>3 DEF MachineInv

\* RETN: the caller has got a result, and nothing else changes below it.
LEMMA EndCallPops ==
    ASSUME VmTypeOK, MachineInv, EndCall
    PROVE  /\ Len(vm) \in Nat /\ Len(vm) >= 2 /\ Running.kind = "call"
           /\ Len(vm') = Len(vm) - 1
           /\ VmTypeOK' /\ DOMAIN vm' = 1 .. Len(vm) - 1
           /\ \A i \in 1 .. Len(vm) - 1 :
                 /\ vm'[i].kind = vm[i].kind
                 /\ vm'[i].fn = vm[i].fn
                 /\ vm'[i].frm = vm[i].frm
                 /\ vm'[i].returned = (vm[i].returned \/ i = Len(vm) - 1)
<1>1. /\ vm \in Seq(Activation) /\ Len(vm) \in Nat /\ DOMAIN vm = 1 .. Len(vm)
  BY LenProperties DEF VmTypeOK
<1>2. Running.kind = "call" /\ vm # <<>>
  BY DEF EndCall, InScript
<1>3. Len(vm) \in Nat \ {0}
  BY <1>1, <1>2, EmptySeq
<1>4. Len(vm) # 1
  BY <1>2 DEF MachineInv, Running
<1>5. Len(vm) >= 2 /\ Len(vm) - 1 \in Nat
  BY <1>3, <1>4
<1> DEFINE s == SubSeq(vm, 1, Len(vm) - 1)
<1>6. /\ s \in Seq(Activation) /\ Len(s) = Len(vm) - 1
      /\ \A i \in 1 .. Len(vm) - 1 : s[i] = vm[i]
  <2>1. Len(vm) - 1 \in Int /\ Len(vm) - 1 <= Len(vm) /\ Len(vm) - 1 >= 0
    BY <1>3
  <2>2. QED
    BY <1>1, <2>1, PrefixOfStack
<1>7. vm' = [s EXCEPT ![Len(vm) - 1].returned = TRUE]
  BY DEF EndCall
<1> HIDE DEF s
<1>8. Len(vm) - 1 \in 1 .. Len(s) /\ s[Len(vm) - 1] \in Activation
  BY <1>5, <1>6, ElementOfSeq
<1>9. [s[Len(vm) - 1] EXCEPT !.returned = TRUE] \in Activation
  BY <1>8 DEF Activation
<1>10. /\ vm' \in Seq(Activation) /\ Len(vm') = Len(s)
       /\ \A i \in 1 .. Len(s) :
             vm'[i] = IF i = Len(vm) - 1
                      THEN [s[Len(vm) - 1] EXCEPT !.returned = TRUE]
                      ELSE s[i]
  BY <1>6, <1>7, <1>8, <1>9, ExceptSeq
<1>11. DOMAIN vm' = 1 .. Len(vm) - 1
  BY <1>6, <1>10, LenProperties
<1>12. ASSUME NEW i \in 1 .. Len(vm) - 1
       PROVE  /\ vm'[i].kind = vm[i].kind
              /\ vm'[i].fn = vm[i].fn
              /\ vm'[i].frm = vm[i].frm
              /\ vm'[i].returned = (vm[i].returned \/ i = Len(vm) - 1)
  <2>1. s[i] \in Activation /\ s[i] = vm[i]
    BY <1>6, ElementOfSeq
  <2>2. CASE i = Len(vm) - 1
    <3>1. vm'[i] = [s[i] EXCEPT !.returned = TRUE]
      BY <1>6, <1>10, <2>2
    <3>2. QED
      BY <2>1, <2>2, <3>1 DEF Activation
  <2>3. CASE i # Len(vm) - 1
    <3>1. vm'[i] = vm[i]
      BY <1>6, <1>10, <2>1, <2>3
    <3>2. vm[i].returned \in BOOLEAN
      BY <2>1 DEF Activation
    <3>3. QED
      BY <2>3, <3>1, <3>2
  <2>4. QED
    BY <2>2, <2>3
<1>13. QED
  BY <1>1, <1>2, <1>5, <1>6, <1>10, <1>11, <1>12 DEF VmTypeOK

\* The next statement of a function changes no activation but its own.
LEMMA BreakKeepsActivations ==
    ASSUME VmTypeOK, Break
    PROVE  /\ Len(vm) \in Nat \ {0} /\ DOMAIN vm = 1 .. Len(vm)
           /\ VmTypeOK' /\ Len(vm') = Len(vm)
           /\ DOMAIN vm' = DOMAIN vm
           /\ \A i \in DOMAIN vm :
                 /\ vm'[i].kind = vm[i].kind
                 /\ vm'[i].fn = vm[i].fn
                 /\ vm'[i].frm = vm[i].frm
                 /\ vm'[i].returned = (vm[i].returned /\ i # Len(vm))
<1>1. /\ vm # <<>> /\ vm' = [vm EXCEPT ![Len(vm)].returned = FALSE]
      /\ vm \in Seq(Activation)
  BY DEF Break, InScript, VmTypeOK
<1>2. /\ Len(vm) \in Nat \ {0} /\ DOMAIN vm = 1 .. Len(vm)
      /\ Len(vm) \in 1 .. Len(vm)
  BY <1>1, LenProperties, EmptySeq
<1>3. vm[Len(vm)] \in Activation
  BY <1>1, <1>2, ElementOfSeq
<1>4. [vm[Len(vm)] EXCEPT !.returned = FALSE] \in Activation
  BY <1>3 DEF Activation
<1>5. /\ vm' \in Seq(Activation) /\ Len(vm') = Len(vm)
      /\ \A i \in 1 .. Len(vm) :
            vm'[i] = IF i = Len(vm)
                     THEN [vm[Len(vm)] EXCEPT !.returned = FALSE] ELSE vm[i]
  BY <1>1, <1>2, <1>4, ExceptSeq
<1>6. DOMAIN vm' = DOMAIN vm
  BY <1>2, <1>5, LenProperties
<1>7. ASSUME NEW i \in 1 .. Len(vm)
      PROVE  /\ vm'[i].kind = vm[i].kind
             /\ vm'[i].fn = vm[i].fn
             /\ vm'[i].frm = vm[i].frm
             /\ vm'[i].returned = (vm[i].returned /\ i # Len(vm))
  <2>1. vm[i] \in Activation
    BY <1>1, ElementOfSeq
  <2>2. CASE i = Len(vm)
    BY <1>5, <2>1, <2>2 DEF Activation
  <2>3. CASE i # Len(vm)
    <3>1. vm'[i] = vm[i]
      BY <1>5, <2>3
    <3>2. vm[i].returned \in BOOLEAN
      BY <2>1 DEF Activation
    <3>3. QED
      BY <2>3, <3>1, <3>2
  <2>4. QED
    BY <2>2, <2>3
<1>8. QED
  BY <1>2, <1>5, <1>6, <1>7 DEF VmTypeOK

\* A native, or a public with all that it called, is popped.
LEMMA EndPops ==
    ASSUME VmTypeOK, MachineInv, EndNative \/ EndExec
    PROVE  /\ VmTypeOK' /\ MachineInv'
           /\ \E n \in DOMAIN vm :
                 /\ vm[n].kind # "call"
                 /\ \A m \in n + 1 .. Len(vm) : vm[m].kind = "call"
                 /\ vm' = SubSeq(vm, 1, n - 1)
                 /\ Len(vm') = n - 1
                 /\ DOMAIN vm' = 1 .. n - 1
                 /\ \A i \in 1 .. n - 1 : vm'[i] = vm[i]
<1>1. vm \in Seq(Activation) /\ Len(vm) \in Nat /\ DOMAIN vm = 1 .. Len(vm)
  BY MachineStack
<1>2. PICK n \in DOMAIN vm :
          /\ vm[n].kind # "call"
          /\ \A m \in n + 1 .. Len(vm) : vm[m].kind = "call"
          /\ vm' = SubSeq(vm, 1, n - 1)
  <2>1. CASE EndNative
    <3>1. /\ vm # <<>> /\ Running.kind = "native"
          /\ vm' = SubSeq(vm, 1, Len(vm) - 1)
      BY <2>1 DEF EndNative
    <3>2. Len(vm) \in DOMAIN vm /\ vm[Len(vm)].kind # "call"
      BY <3>1, MachineStack DEF Running
    <3>3. \A m \in Len(vm) + 1 .. Len(vm) : vm[m].kind = "call"
      BY <1>1
    <3>4. QED
      BY <3>1, <3>2, <3>3
  <2>2. CASE EndExec
    BY <2>2 DEF EndExec
  <2>3. QED
    BY <2>1, <2>2
<1>3. n - 1 \in Int /\ n - 1 <= Len(vm) /\ n - 1 >= 0
  BY <1>1
<1>4. /\ vm' \in Seq(Activation) /\ Len(vm') = n - 1
      /\ \A i \in 1 .. n - 1 : vm'[i] = vm[i]
  BY <1>1, <1>2, <1>3, PrefixOfStack
<1>5. DOMAIN vm' = 1 .. n - 1
  BY <1>4, LenProperties
<1>6. VmTypeOK'
  BY <1>4 DEF VmTypeOK
<1>7. MachineInv'
  BY <1>3, <1>4, <1>6, PrefixKeepsMachine
<1>8. QED
  BY <1>2, <1>4, <1>5, <1>6, <1>7

\* Every step of the machine keeps its types and its shape.
LEMMA MachineStep ==
    ASSUME VmTypeOK, MachineInv,
           \/ \E fn \in Publics, size \in FrameSizes : BeginExec(fn, size)
           \/ \E fn \in Callees, size \in FrameSizes : BeginCall(fn, size)
           \/ EndCall
           \/ Break
           \/ \E fn \in Natives : BeginNative(fn)
           \/ EndNative
           \/ EndExec
           \/ UNCHANGED vm
    PROVE  VmTypeOK' /\ MachineInv'
<1>1. ASSUME NEW fn \in Publics, NEW size \in FrameSizes, BeginExec(fn, size)
      PROVE  VmTypeOK' /\ MachineInv'
  <2> DEFINE frm == StackBase - size
  <2>1. /\ frm \in Nat \ {0} /\ \A i \in DOMAIN vm : vm[i].frm >= frm
        /\ vm' = Started("exec", fn, frm)
    BY <1>1, NewFrameIsLowest DEF BeginExec, Room
  <2> HIDE DEF frm
  <2>2. fn \in Functions
    BY DEF Functions
  <2>3. QED
    BY <2>1, <2>2, StartedPushes, PushKeepsMachine
<1>2. ASSUME NEW fn \in Callees, NEW size \in FrameSizes, BeginCall(fn, size)
      PROVE  VmTypeOK' /\ MachineInv'
  <2> DEFINE frm == StackBase - size
  <2>1. /\ frm \in Nat \ {0} /\ \A i \in DOMAIN vm : vm[i].frm >= frm
        /\ vm' = Started("call", fn, frm) /\ vm # <<>>
    BY <1>2, NewFrameIsLowest DEF BeginCall, Room, InScript
  <2> HIDE DEF frm
  <2>2. fn \in Functions
    BY AmxAssumption DEF Functions
  <2>3. QED
    BY <2>1, <2>2, StartedPushes, PushKeepsMachine
<1>3. ASSUME NEW fn \in Natives, BeginNative(fn)
      PROVE  VmTypeOK' /\ MachineInv'
  <2>1. vm # <<>> /\ vm' = Started("native", fn, Running.frm)
    BY <1>3 DEF BeginNative, InScript
  <2>2. /\ Running.frm \in Nat \ {0}
        /\ \A i \in DOMAIN vm : vm[i].frm >= Running.frm
    BY <2>1, RunningFrameIsLowest
  <2>3. fn \in Functions
    BY DEF Functions
  <2>4. QED
    BY <2>1, <2>2, <2>3, StartedPushes, PushKeepsMachine
<1>4. CASE EndCall
  <2>1. /\ Len(vm) \in Nat /\ Len(vm') = Len(vm) - 1 /\ VmTypeOK'
        /\ \A i \in 1 .. Len(vm) - 1 :
              /\ vm'[i].kind = vm[i].kind
              /\ vm'[i].fn = vm[i].fn
              /\ vm'[i].frm = vm[i].frm
    BY <1>4, EndCallPops
  <2>2. Len(vm') <= Len(vm)
    BY <2>1
  <2>3. QED
    BY <2>1, <2>2, PrefixKeepsMachine
<1>5. CASE Break
  <2>1. /\ Len(vm) \in Nat /\ DOMAIN vm = 1 .. Len(vm)
        /\ Len(vm') = Len(vm) /\ VmTypeOK'
        /\ \A i \in DOMAIN vm : /\ vm'[i].kind = vm[i].kind
                                /\ vm'[i].fn = vm[i].fn
                                /\ vm'[i].frm = vm[i].frm
    BY <1>5, BreakKeepsActivations
  <2>2. Len(vm') <= Len(vm)
    BY <2>1
  <2>3. QED
    BY <2>1, <2>2, PrefixKeepsMachine
<1>6. CASE EndNative \/ EndExec
  BY <1>6, EndPops
<1>7. CASE UNCHANGED vm
  BY <1>7 DEF VmTypeOK, MachineInv
<1>8. QED
  BY <1>1, <1>2, <1>3, <1>4, <1>5, <1>6, <1>7
=============================================================================
