----------------------------- MODULE PyToolProofs -----------------------------
(***************************************************************************)
(* Theorems about jitana-python, for every program.                        *)
(***************************************************************************)
EXTENDS PyTool, NaturalSets, TLAPS

-----------------------------------------------------------------------------
(* The recursive disassembly.                                              *)

CodeObject == {o \in Object : IsCode(o)}
Frames == [context : CodeObject, at : Nat \ {0}]

TypeInv ==
  /\ program \in Programs /\ stack \in Seq(Frames)
  /\ pc \in {"start", "disassemble", "combine", "dependencies", "done"}

(* The call at i in o has been dealt with.                                 *)
Handled(o, i) ==
  LET name == NameOf(CodeOf(o), i)
  IN  name \in DOMAIN called \/ program.kind[Resolve(o, name)] = "value"

(* A frame of o still comes to the call at i.                              *)
Awaited(o, i) == \E k \in 1 .. Len(stack) : stack[k].context = o /\ stack[k].at <= i

PendingInv ==
  /\ \A n \in DOMAIN called : \A i \in CallSites(CodeOf(called[n])) :
       Handled(called[n], i) \/ Awaited(called[n], i)
  /\ pc = "start" => called = <<>> /\ stack = <<>>
  /\ pc \notin {"start", "disassemble"} => stack = <<>>

LEMMA CodeFacts ==
  ASSUME program \in Programs, NEW o
  PROVE  DOMAIN CodeOf(o) \subseteq Nat \ {0} /\ CallSites(CodeOf(o)) \subseteq Nat \ {0}
<1>1. CASE IsCode(o)
  <2>1. CodeOf(o) \in Seq(Range(CodeOf(o)))
    BY <1>1, ProgramsAssumption DEF CodeOf, IsCode
  <2>2. DOMAIN CodeOf(o) = 1 .. Len(CodeOf(o)) /\ Len(CodeOf(o)) \in Nat
    BY <2>1, LenProperties
  <2>3. \A i \in 1 .. Len(CodeOf(o)) : i \in Nat \ {0}
    BY <2>2
  <2> QED BY <2>2, <2>3 DEF CallSites
<1>2. CASE ~ IsCode(o)
  BY <1>2 DEF CodeOf, CallSites
<1> QED BY <1>1, <1>2

(* The call that is examined.                                              *)
LEMMA NextCall ==
  ASSUME TypeInv, stack # <<>>, CallsFrom(Top) # {}, NEW i, i = Min(CallsFrom(Top))
  PROVE  /\ i \in CallSites(CodeOf(Top.context)) /\ i \in Nat \ {0} /\ i >= Top.at
         /\ \A j \in CallSites(CodeOf(Top.context)) : j >= Top.at => i <= j
<1>1. CallsFrom(Top) \subseteq Nat
  BY CodeFacts DEF CallsFrom, TypeInv
<1>2. i \in CallsFrom(Top) /\ \A j \in CallsFrom(Top) : i <= j
  BY <1>1, MinOfPlaces
<1> QED BY <1>2, CodeFacts DEF CallsFrom, TypeInv

LEMMA StackFacts ==
  ASSUME TypeInv, stack # <<>>
  PROVE  /\ Len(stack) \in Nat \ {0} /\ DOMAIN stack = 1 .. Len(stack)
         /\ Top = stack[Len(stack)] /\ Top \in Frames
         /\ \A k \in 1 .. Len(stack) : stack[k] \in Frames
<1>1. Len(stack) \in Nat /\ DOMAIN stack = 1 .. Len(stack) /\ Len(stack) # 0
  BY LenProperties, EmptySeq DEF TypeInv
<1>2. \A k \in 1 .. Len(stack) : stack[k] \in Frames
  BY ElementOfSeq DEF TypeInv
<1> QED BY <1>1, <1>2 DEF Top, Last

LEMMA AdvancedFacts ==
  ASSUME TypeInv, stack # <<>>, NEW i \in Nat
  PROVE  LET s == Advanced(i)
         IN  /\ s \in Seq(Frames) /\ Len(s) = Len(stack)
             /\ s[Len(stack)].context = Top.context /\ s[Len(stack)].at = i + 1
             /\ \A k \in 1 .. Len(stack) : k # Len(stack) => s[k] = stack[k]
<1> DEFINE n == Len(stack)
           s == Advanced(i)
           f == [stack[n] EXCEPT !.at = i + 1]
<1>1. s = [stack EXCEPT ![n] = f]
  BY StackFacts DEF Advanced
<1>2. f \in Frames /\ f.context = Top.context /\ f.at = i + 1
  BY StackFacts DEF Frames
<1>3. n \in 1 .. n
  BY StackFacts
<1> HIDE DEF f
<1>4. s \in Seq(Frames) /\ Len(s) = n
  BY <1>1, <1>2, <1>3, ExceptSeq DEF TypeInv
<1>5. s[n] = f /\ \A k \in 1 .. n : k # n => s[k] = stack[k]
  BY <1>1, <1>3, StackFacts
<1> HIDE DEF s
<1> QED BY <1>2, <1>4, <1>5 DEF s

(* A call is handled once its name is known or its object is no callable.  *)
LEMMA SameProgram ==
  ASSUME program' = program
  PROVE  \A o : CodeOf(o)' = CodeOf(o) /\ \A name : Resolve(o, name)' = Resolve(o, name)
  BY DEF CodeOf, IsCode, Resolve, Attribute

LEMMA HandledStays ==
  ASSUME program' = program, DOMAIN called \subseteq DOMAIN called', NEW o, NEW i, Handled(o, i)
  PROVE  Handled(o, i)'
  BY SameProgram DEF Handled

(* Whatever is done with the call at i of Top, with the frame of its       *)
(* callee on top or not, it is dealt with, and no other call is forgotten. *)
LEMMA ExamineKeeps ==
  ASSUME TypeInv, PendingInv, Examine
  PROVE  TypeInv' /\ PendingInv'
<1>c. PICK c : c = Top.context
  OBVIOUS
<1>i. PICK i : i = Min(CallsFrom(Top))
  OBVIOUS
<1>n. PICK name : name = NameOf(CodeOf(c), i)
  OBVIOUS
<1>t. PICK target : target = Resolve(c, name)
  OBVIOUS
<1>1. /\ pc = "disassemble" /\ pc' = pc /\ stack # <<>> /\ program' = program
      /\ \/ Known(i, name, target) \/ Enter(i, name, target)
         \/ RecordOpaque(i, name, target) \/ NotCallable(i, name, target)
  BY <1>c, <1>i, <1>n, <1>t DEF Examine
<1>2. /\ i \in CallSites(CodeOf(Top.context)) /\ i \in Nat \ {0} /\ i >= Top.at
      /\ \A j \in CallSites(CodeOf(Top.context)) : j >= Top.at => i <= j
  BY <1>1, <1>i, NextCall DEF Examine
<1> DEFINE n == Len(stack)
           s == Advanced(i)
<1>3. /\ s \in Seq(Frames) /\ Len(s) = n
      /\ s[n].context = Top.context /\ s[n].at = i + 1
      /\ \A k \in 1 .. n : k # n => s[k] = stack[k]
  BY <1>1, <1>2, AdvancedFacts
<1>4. n \in Nat \ {0} /\ Top = stack[n] /\ Top \in Frames
  BY <1>1, StackFacts
<1> HIDE DEF s
<1>5. /\ DOMAIN called \subseteq DOMAIN called' /\ \A x \in DOMAIN called : called'[x] = called[x]
      /\ \A x \in DOMAIN called' \ DOMAIN called : called'[x] \notin CodeObject \/ (Enter(i, name, target) /\ called'[x] = target)
      /\ stack' = s \/ (Enter(i, name, target) /\ stack' = Append(s, Frame(target)))
  BY <1>1, NoCodeAssumption DEF s, Known, Enter, RecordOpaque, NotCallable, CodeObject, Put
<1>6. Handled(c, i)'
  <2>1. name \in DOMAIN called' \/ program.kind[target] = "value"
    BY <1>1 DEF Known, Enter, RecordOpaque, NotCallable, Put
  <2> QED BY <1>1, <1>n, <1>t, <2>1, SameProgram DEF Handled
<1>7. ASSUME Enter(i, name, target)
      PROVE  /\ Frame(target) \in Frames /\ Append(s, Frame(target)) \in Seq(Frames)
             /\ Len(Append(s, Frame(target))) = n + 1
             /\ Append(s, Frame(target))[n + 1] = Frame(target)
             /\ \A k \in 1 .. n : Append(s, Frame(target))[k] = s[k]
  <2>1. Frame(target) \in Frames
    BY <1>7 DEF Enter, Frame, Frames, CodeObject, IsCode
  <2> QED BY <1>3, <1>4, <2>1, AppendProperties
<1>8. /\ stack' \in Seq(Frames) /\ Len(stack') \in Nat /\ Len(stack') >= n
      /\ \A k \in 1 .. n : stack'[k] = s[k]
  <2>1. CASE stack' = s
    BY <1>3, <1>4, <2>1
  <2>2. CASE Enter(i, name, target) /\ stack' = Append(s, Frame(target))
    BY <1>4, <1>7, <2>2
  <2> QED BY <1>5, <2>1, <2>2
<1>9. Frames' = Frames
  BY <1>1 DEF Frames, CodeObject, IsCode
<1>10. TypeInv'
  BY <1>1, <1>8, <1>9 DEF TypeInv
<1>11. ASSUME NEW o, NEW j \in CallSites(CodeOf(o)), Awaited(o, j)
       PROVE  Handled(o, j)' \/ Awaited(o, j)'
  <2>1. PICK k \in 1 .. n : stack[k].context = o /\ stack[k].at <= j
    BY <1>11 DEF Awaited
  <2>2. k \in 1 .. Len(stack')
    BY <1>4, <1>8, <2>1
  <2>3. CASE k # n
    <3>1. stack'[k] = stack[k]
      BY <1>3, <1>8, <2>1, <2>3
    <3> QED BY <2>1, <2>2, <3>1 DEF Awaited
  <2>4. CASE k = n
    <3>1. o = Top.context /\ j >= Top.at /\ i <= j /\ j \in Nat
      <4>1. j \in Nat
        BY CodeFacts DEF TypeInv
      <4> QED BY <1>2, <1>4, <2>1, <2>4, <4>1 DEF Frames
    <3>2. CASE i = j
      <4>1. o = c /\ i = j
        BY <1>c, <3>1, <3>2
      <4> QED BY <1>6, <4>1
    <3>3. CASE i # j
      <4>1. stack'[k].context = o /\ stack'[k].at <= j
        BY <1>2, <1>3, <1>8, <2>1, <2>4, <3>1, <3>3
      <4> QED BY <2>2, <4>1 DEF Awaited
    <3> QED BY <3>2, <3>3
  <2> QED BY <2>3, <2>4
<1>12. ASSUME NEW x \in DOMAIN called', NEW o, o = called'[x], NEW j \in CallSites(CodeOf(o))
       PROVE  Handled(o, j)' \/ Awaited(o, j)'
  <2>1. CASE x \in DOMAIN called
    <3>1. o = called[x]
      BY <1>5, <1>12, <2>1
    <3>2. Handled(o, j) \/ Awaited(o, j)
      BY <1>12, <2>1, <3>1 DEF PendingInv
    <3>3. Handled(o, j) => Handled(o, j)'
      BY <1>1, <1>5, HandledStays
    <3> QED BY <1>11, <1>12, <3>2, <3>3
  <2>2. CASE x \notin DOMAIN called
    <3>1. CASE o \notin CodeObject
      BY <1>12, <3>1 DEF CodeObject, CodeOf, CallSites, IsCode
    <3>2. CASE Enter(i, name, target) /\ o = target
      <4>1. stack' = Append(s, Frame(target))
        BY <3>2 DEF Enter, s
      <4>2. n + 1 \in 1 .. Len(stack') /\ stack'[n + 1] = Frame(target)
        BY <1>4, <1>7, <3>2, <4>1
      <4>3. j \in Nat \ {0}
        BY CodeFacts DEF TypeInv
      <4>4. stack'[n + 1].context = o /\ stack'[n + 1].at = 1 /\ 1 <= j
        BY <3>2, <4>2, <4>3 DEF Frame
      <4>5. stack'[n + 1].at <= j
        BY <4>4
      <4> QED BY <4>2, <4>4, <4>5 DEF Awaited
    <3> QED BY <1>5, <1>12, <2>2, <3>1, <3>2
  <2> QED BY <2>1, <2>2
<1>13. PendingInv'
  <2>1. \A o : CallSites(CodeOf(o))' = CallSites(CodeOf(o))
    BY <1>1, SameProgram DEF CallSites
  <2> QED BY <1>1, <1>12, <2>1 DEF PendingInv
<1> QED BY <1>10, <1>13

LEMMA ReturnKeeps ==
  ASSUME TypeInv, PendingInv, Return
  PROVE  TypeInv' /\ PendingInv'
<1> DEFINE n == Len(stack)
<1>1. /\ pc = "disassemble" /\ pc' = pc /\ stack # <<>> /\ program' = program /\ called' = called
      /\ CallsFrom(Top) = {} /\ stack' = SubSeq(stack, 1, n - 1)
  BY DEF Return, Front
<1>2. n \in Nat \ {0} /\ Top = stack[n] /\ \A k \in 1 .. n : stack[k] \in Frames
  BY <1>1, StackFacts
<1>3. /\ stack' \in Seq(Frames) /\ Len(stack') = n - 1
      /\ \A k \in 1 .. n - 1 : stack'[k] = stack[k]
  <2>1. \A k \in 1 .. n - 1 : stack[k] \in Frames
    BY <1>2
  <2>2. PICK m \in Nat : m = n - 1
    BY <1>2
  <2>3. /\ SubSeq(stack, 1, m) \in Seq(Frames)
        /\ Len(SubSeq(stack, 1, m)) = m
        /\ \A k \in 1 .. m : SubSeq(stack, 1, m)[k] = stack[k]
    BY <2>1, <2>2, SubSeqProperties
  <2> QED BY <1>1, <2>2, <2>3
<1>4. TypeInv'
  <2>1. Frames' = Frames
    BY <1>1 DEF Frames, CodeObject, IsCode
  <2> QED BY <1>1, <1>3, <2>1 DEF TypeInv
<1>5. ASSUME NEW o, NEW j \in CallSites(CodeOf(o)), Awaited(o, j)
      PROVE  Awaited(o, j)'
  <2>1. PICK k \in 1 .. n : stack[k].context = o /\ stack[k].at <= j
    BY <1>5 DEF Awaited
  <2>2. k # n
    BY <1>1, <1>2, <1>5, <2>1 DEF CallsFrom
  <2>3. k \in 1 .. Len(stack') /\ stack'[k] = stack[k]
    BY <1>2, <1>3, <2>1, <2>2
  <2> QED BY <2>1, <2>3 DEF Awaited
<1>6. ASSUME NEW x \in DOMAIN called, NEW o, o = called[x], NEW j \in CallSites(CodeOf(o))
      PROVE  Handled(o, j)' \/ Awaited(o, j)'
  <2>1. Handled(o, j) \/ Awaited(o, j)
    BY <1>6 DEF PendingInv
  <2>2. Handled(o, j) => Handled(o, j)'
    BY <1>1, HandledStays
  <2> QED BY <1>5, <1>6, <2>1, <2>2
<1>7. PendingInv'
  <2>1. \A o : CallSites(CodeOf(o))' = CallSites(CodeOf(o))
    BY <1>1, SameProgram DEF CallSites
  <2> QED BY <1>1, <1>6, <2>1 DEF PendingInv
<1> QED BY <1>4, <1>7

LEMMA StartKeeps ==
  ASSUME TypeInv, PendingInv, Start
  PROVE  TypeInv' /\ PendingInv'
<1>e. PICK e : e = program.entry
  OBVIOUS
<1>1. /\ pc = "start" /\ pc' = "disassemble" /\ program' = program /\ called = <<>> /\ stack = <<>>
      /\ IF IsCode(e) THEN called' = Put(<<>>, program.name, e) /\ stack' = <<Frame(e)>>
         ELSE called' = called /\ stack' = stack
  BY <1>e DEF Start, tree, PendingInv
<1>2. Frames' = Frames /\ \A o : CallSites(CodeOf(o))' = CallSites(CodeOf(o))
  BY <1>1, SameProgram DEF Frames, CodeObject, IsCode, CallSites
<1>3. CASE ~ IsCode(e)
  <2>1. DOMAIN called' = {}
    BY <1>1, <1>3
  <2> QED BY <1>1, <1>2, <1>3, <2>1 DEF TypeInv, PendingInv
<1>4. CASE IsCode(e)
  <2>1. stack' \in Seq(Frames) /\ Len(stack') = 1 /\ stack'[1] = Frame(e)
    <3>1. Frame(e) \in Frames
      BY <1>4 DEF Frame, Frames, CodeObject, IsCode
    <3>2. PICK f \in Frames : f = Frame(e)
      BY <3>1
    <3>3. <<f>> \in Seq(Frames) /\ Len(<<f>>) = 1 /\ <<f>>[1] = f
      OBVIOUS
    <3> QED BY <1>1, <1>4, <3>2, <3>3
  <2>2. \A x \in DOMAIN called' : called'[x] = e
    BY <1>1, <1>4 DEF Put
  <2>3. ASSUME NEW j \in CallSites(CodeOf(e)) PROVE Awaited(e, j)'
    <3>1. j \in Nat \ {0}
      BY CodeFacts DEF TypeInv
    <3>2. 1 \in 1 .. Len(stack') /\ stack'[1].context = e /\ stack'[1].at <= j
      BY <2>1, <3>1 DEF Frame
    <3> QED BY <3>2 DEF Awaited
  <2>4. TypeInv'
    BY <1>1, <1>2, <2>1 DEF TypeInv
  <2>5. PendingInv'
    BY <1>1, <1>2, <2>2, <2>3 DEF PendingInv
  <2> QED BY <2>4, <2>5
<1> QED BY <1>3, <1>4

(* The other steps leave the names and the stack alone.                    *)
LEMMA OtherSteps ==
  ASSUME TypeInv, PendingInv,
         CallGraphs \/ Combine \/ Again \/ Scan \/ Finish \/ UNCHANGED vars
  PROVE  TypeInv' /\ PendingInv'
<1>1. /\ program' = program /\ called' = called /\ stack' = stack
      /\ pc' = pc \/ (pc # "start" /\ stack = <<>> /\ pc' \in {"combine", "dependencies", "done"})
  BY DEF CallGraphs, Combine, Again, Scan, Finish, vars, tree, deptree, PendingInv
<1>2. Frames' = Frames /\ \A o : CallSites(CodeOf(o))' = CallSites(CodeOf(o))
  BY <1>1, SameProgram DEF Frames, CodeObject, IsCode, CallSites
<1>3. \A o, j : Handled(o, j)' = Handled(o, j) /\ Awaited(o, j)' = Awaited(o, j)
  BY <1>1, SameProgram DEF Handled, Awaited
<1>4. TypeInv'
  BY <1>1, <1>2 DEF TypeInv
<1>5. PendingInv'
  BY <1>1, <1>2, <1>3 DEF PendingInv
<1> QED BY <1>4, <1>5

LEMMA Pending == Spec => [](TypeInv /\ PendingInv)
<1>1. Init => TypeInv /\ PendingInv
  <2> SUFFICES ASSUME Init PROVE TypeInv /\ PendingInv
    OBVIOUS
  <2>1. called = <<>> /\ stack = <<>> /\ pc = "start" /\ program \in Programs /\ DOMAIN called = {}
    BY DEF Init
  <2> QED BY <2>1, EmptySeq DEF TypeInv, PendingInv
<1>2. TypeInv /\ PendingInv /\ [Next]_vars => TypeInv' /\ PendingInv'
  BY StartKeeps, ExamineKeeps, ReturnKeeps, OtherSteps DEF Next
<1> QED BY <1>1, <1>2, PTL DEF Spec

(* The recursion misses nothing: when it is over, whatever a disassembled  *)
(* function calls is recorded under the name of the call, unless the name  *)
(* stands for something that cannot be called, for every program, however  *)
(* its functions call each other (main.cpp,                                *)
(* disassemble_called_functions_recursive).                                *)
THEOREM CalleesKnown == Spec => []CalleesRecorded
<1>1. TypeInv /\ PendingInv => CalleesRecorded
  <2> SUFFICES ASSUME PendingInv, pc \notin {"start", "disassemble"},
                      NEW n \in DOMAIN called, NEW i \in CallSites(CodeOf(called[n]))
               PROVE  Handled(called[n], i)
    BY DEF CalleesRecorded, Handled
  <2>1. Len(stack) = 0
    BY EmptySeq DEF PendingInv
  <2> QED BY <2>1 DEF PendingInv, Awaited
<1> QED BY <1>1, Pending, PTL

-----------------------------------------------------------------------------
(* The dependency graph.                                                   *)

Imports(f) == IF f \in script.loads THEN script.imports[f] ELSE {}
Onward(F) == F \cup ((UNION {script.imports[f] : f \in F \cap script.loads}) \cap script.local)

LEMMA ScriptType ==
  ASSUME program \in Programs
  PROVE  /\ script.start \in File /\ script.local \subseteq File /\ script.loads \subseteq File
         /\ \A f \in File : script.imports[f] \subseteq File /\ Imports(f) \subseteq File
  BY ProgramsAssumption DEF script, Imports

LEMMA ReachedChain ==
  ASSUME program \in Programs
  PROVE  \E f \in [Nat -> SUBSET File] :
           /\ f[0] = {script.start} /\ \A n \in Nat : f[n + 1] = Onward(f[n])
           /\ FilesReached = f[Cardinality(File)]
<1> DEFINE T == SUBSET File
           G == [S \in T |-> Onward(S)]
           Is(f) == f = [n \in Nat |-> IF n = 0 THEN {script.start} ELSE Onward(f[n - 1])]
           e == CHOOSE f : Is(f)
<1>1. PICK h : /\ h = [n \in Nat |-> h[n]]
               /\ h[0] = {script.start} /\ \A n \in Nat : h[n + 1] = G[h[n]]
  <2> HIDE DEF G
  <2>1. PICK h : Iterates({script.start}, G, h)
    BY IterateExists
  <2> QED BY <2>1 DEF Iterates
<1>2. {script.start} \in T /\ \A S \in T : Onward(S) \in T
  BY ScriptType DEF Onward
<1>3. \A n \in Nat : n + 1 \in Nat /\ n + 1 # 0 /\ (n + 1) - 1 = n
  OBVIOUS
<1>4. \A n \in Nat : h[n] \in T
  <2> DEFINE S == {n \in Nat : h[n] \in T}
  <2>1. ASSUME NEW n \in Nat, h[n] \in T PROVE h[n + 1] \in T
    <3>1. h[n + 1] = Onward(h[n])
      BY <1>1, <2>1
    <3> QED BY <1>2, <2>1, <3>1
  <2>2. 0 \in S /\ \A n \in Nat : n \in S => n + 1 \in S
    BY <1>1, <1>2, <2>1
  <2> HIDE DEF S
  <2>3. Nat \subseteq S
    BY <2>2, AllNaturals
  <2> QED BY <2>3 DEF S
<1>5. Is(h)
  <2>1. ASSUME NEW n \in Nat PROVE h[n] = IF n = 0 THEN {script.start} ELSE Onward(h[n - 1])
    <3>1. CASE n = 0
      BY <1>1, <3>1
    <3>2. CASE n # 0
      <4>1. PICK m \in Nat : n = m + 1 /\ m = n - 1
        BY <3>2
      <4>2. h[n] = G[h[m]] /\ h[m] \in T
        BY <1>1, <1>4, <4>1
      <4> QED BY <3>2, <4>1, <4>2
    <3> QED BY <3>1, <3>2
  <2> HIDE DEF G
  <2> QED BY <1>1, <2>1
<1>6. Is(e)
  BY <1>5
<1>7. FilesReached = e[Cardinality(File)]
  BY DEF FilesReached, Onward
<1> HIDE DEF e
<1>8. e[0] = {script.start} /\ \A n \in Nat : e[n + 1] = Onward(e[n])
  <2>1. \A n \in Nat : e[n] = IF n = 0 THEN {script.start} ELSE Onward(e[n - 1])
    BY <1>6
  <2> QED BY <1>3, <2>1
<1>9. \A n \in Nat : e[n] \in T
  <2> DEFINE S == {n \in Nat : e[n] \in T}
  <2>1. 0 \in S /\ \A n \in Nat : n \in S => n + 1 \in S
    BY <1>2, <1>8
  <2> HIDE DEF S
  <2>2. Nat \subseteq S
    BY <2>1, AllNaturals
  <2> QED BY <2>2 DEF S
<1>10. e \in [Nat -> T]
  <2>1. e = [n \in Nat |-> e[n]]
    BY <1>6
  <2> QED BY <1>9, <2>1
<1> QED BY <1>7, <1>8, <1>10

(* FilesReached is the least set with the script and the files that files  *)
(* of it import.                                                           *)
Closed(F) == script.start \in F /\ \A f \in F : Imports(f) \cap script.local \subseteq F

LEMMA ReachedClosed ==
  ASSUME program \in Programs
  PROVE  FilesReached \subseteq File /\ Closed(FilesReached)
<1>1. PICK f \in [Nat -> SUBSET File] :
        /\ f[0] = {script.start} /\ \A n \in Nat : f[n + 1] = Onward(f[n])
        /\ FilesReached = f[Cardinality(File)]
  BY ReachedChain
<1>2. \A n \in Nat : f[n] \subseteq f[n + 1] /\ f[n + 2] = Onward(f[n + 1])
  <2>1. \A n \in Nat : n + 1 \in Nat /\ (n + 1) + 1 = n + 2
    OBVIOUS
  <2> QED BY <1>1, <2>1 DEF Onward
<1>3. Cardinality(File) \in Nat /\ f[Cardinality(File) + 1] = f[Cardinality(File)]
  BY <1>1, <1>2, FileAssumption, ChainStops
<1>4. PICK F \in SUBSET File : F = FilesReached /\ Onward(F) = F
  BY <1>1, <1>3
<1>5. script.start \in F
  <2> DEFINE S == {n \in Nat : script.start \in f[n]}
  <2>1. 0 \in S /\ \A n \in Nat : n \in S => n + 1 \in S
    BY <1>1, <1>2
  <2> HIDE DEF S
  <2>2. Nat \subseteq S
    BY <2>1, AllNaturals
  <2> QED BY <1>1, <1>3, <1>4, <2>2 DEF S
<1>6. \A g \in F : Imports(g) \cap script.local \subseteq F
  BY <1>4 DEF Onward, Imports
<1> QED BY <1>4, <1>5, <1>6 DEF Closed

LEMMA ReachedLeast ==
  ASSUME program \in Programs, NEW F, Closed(F)
  PROVE  FilesReached \subseteq F
<1>1. PICK f \in [Nat -> SUBSET File] :
        /\ f[0] = {script.start} /\ \A n \in Nat : f[n + 1] = Onward(f[n])
        /\ FilesReached = f[Cardinality(File)]
  BY ReachedChain
<1> DEFINE S == {n \in Nat : f[n] \subseteq F}
<1>2. 0 \in S
  BY <1>1 DEF Closed
<1>3. ASSUME NEW n \in Nat, n \in S PROVE n + 1 \in S
  BY <1>1, <1>3 DEF Closed, Onward, Imports
<1> HIDE DEF S
<1>4. Nat \subseteq S
  BY <1>2, <1>3, AllNaturals
<1> QED BY <1>1, <1>4, FileAssumption, FS_CardinalityType DEF S

(* What the queue holds is reached, and all that files processed import is *)
(* processed or in the queue.                                              *)
Queued == {files[k] : k \in 1 .. Len(files)}
DepsInv ==
  /\ files \in Seq(File)
  /\ pc \in {"start", "disassemble", "combine"} => files = <<>> /\ processed = {} /\ deps = NoDeps
  /\ pc \in {"dependencies", "done"} =>
       /\ script.start \in processed \cup Queued
       /\ processed \cup Queued \subseteq FilesReached
       /\ processed \cup Queued \subseteq script.local \cup {script.start}
       /\ \A f \in processed : Imports(f) \cap script.local \subseteq processed \cup Queued
       /\ deps.edges = UNION {{f} \X Imports(f) : f \in processed}
       /\ \A d \in DOMAIN deps.type \ {script.start} : deps.type[d] = "File" <=> d \in script.local
  /\ pc = "done" => files = <<>>

(* The step that processes the file at the head of the queue.              *)
LEMMA QueueFacts ==
  ASSUME DepsInv, files # <<>>
  PROVE  /\ Head(files) \in Queued /\ Head(files) \in File /\ Tail(files) \in Seq(File)
         /\ Queued = {Head(files)} \cup Range(Tail(files))
<1> DEFINE n == Len(files)
           t == Tail(files)
<1>1. /\ n \in Nat \ {0} /\ Head(files) = files[1] /\ t \in Seq(File) /\ Len(t) = n - 1
      /\ \A k \in 1 .. n - 1 : t[k] = files[k + 1]
  BY HeadTailProperties, EmptySeq, LenProperties DEF DepsInv
<1>2. 1 \in 1 .. n /\ files[1] \in File
  BY <1>1, ElementOfSeq DEF DepsInv
<1>3. Range(t) = {t[k] : k \in 1 .. n - 1}
  BY <1>1, LenProperties DEF Range
<1> HIDE DEF t
<1>4. ASSUME NEW k \in 1 .. n PROVE files[k] = files[1] \/ files[k] \in Range(t)
  <2>1. CASE k # 1
    <3>1. k - 1 \in 1 .. n - 1 /\ (k - 1) + 1 = k
      BY <1>1, <2>1
    <3> QED BY <1>1, <1>3, <3>1
  <2> QED BY <2>1
<1>5. ASSUME NEW x \in Range(t) PROVE x \in Queued
  <2>1. PICK k \in 1 .. n - 1 : x = files[k + 1]
    BY <1>1, <1>3
  <2>2. k + 1 \in 1 .. n
    BY <1>1
  <2> QED BY <2>1, <2>2 DEF Queued
<1> QED BY <1>1, <1>2, <1>4, <1>5 DEF Queued, t

LEMMA QueuedRange ==
  ASSUME NEW q \in Seq(File)
  PROVE  Range(q) = {q[k] : k \in 1 .. Len(q)}
  BY LenProperties DEF Range

LEMMA ScanKeeps ==
  ASSUME TypeInv, DepsInv, Scan
  PROVE  DepsInv'
<1>f. PICK f : f = Head(files)
  OBVIOUS
<1>i. PICK I : I = Imports(f)
  OBVIOUS
<1>1. /\ pc = "dependencies" /\ pc' = pc /\ files # <<>> /\ f \notin processed /\ program' = program
      /\ processed' = processed \cup {f}
      /\ deps'.edges = deps.edges \cup ({f} \X I)
      /\ deps'.type = [d \in I \cup {f} \cup DOMAIN deps.type |->
                         IF d \in I THEN IF d \in script.local THEN "File" ELSE "Library"
                         ELSE IF d = f THEN "File" ELSE deps.type[d]]
      /\ files' = Tail(files) \o SetToSeq(I \cap script.local)
  BY <1>f, <1>i DEF Scan, tree, Imports
<1>2. /\ f \in Queued /\ f \in File /\ Tail(files) \in Seq(File)
      /\ Queued = {f} \cup Range(Tail(files))
  BY <1>1, <1>f, QueueFacts
<1>3. PICK L : L = I \cap script.local
  OBVIOUS
<1>4. L \subseteq File /\ IsFiniteSet(L)
  <2>1. L \subseteq File
    BY <1>2, <1>3, <1>i, ScriptType DEF TypeInv
  <2> QED BY <2>1, FileAssumption, FS_Subset
<1>5. SetToSeq(L) \in Seq(File) /\ Range(SetToSeq(L)) = L
  <2>1. Lists(SetToSeq(L), L)
    BY <1>4, SetToSeqLists
  <2>2. SetToSeq(L) \in Seq(L)
    BY <2>1 DEF Lists
  <2> QED BY <1>4, <2>1, <2>2, ListsRange, SeqMonotonic
<1>6. /\ files' \in Seq(File)
      /\ Range(files') = Range(Tail(files)) \cup L
  <2>1. PICK s, t : s = Tail(files) /\ t = SetToSeq(L)
    OBVIOUS
  <2>2. /\ s \o t \in Seq(File) /\ Len(s \o t) = Len(s) + Len(t)
        /\ \A k \in 1 .. Len(s) : (s \o t)[k] = s[k]
        /\ \A k \in 1 .. Len(t) : (s \o t)[Len(s) + k] = t[k]
    BY <1>2, <1>5, <2>1, ConcatElements
  <2>3. /\ Len(s) \in Nat /\ Len(t) \in Nat /\ DOMAIN s = 1 .. Len(s) /\ DOMAIN t = 1 .. Len(t)
        /\ DOMAIN (s \o t) = 1 .. Len(s \o t)
    BY <1>2, <1>5, <2>1, <2>2, LenProperties
  <2>4. Range(s \o t) = Range(s) \cup Range(t)
    <3> DEFINE u == s \o t
    <3>1. ASSUME NEW k \in 1 .. Len(u) PROVE u[k] \in Range(s) \cup Range(t)
      <4>1. k \in 1 .. Len(s) \/ \E j \in 1 .. Len(t) : k = Len(s) + j
        <5>1. PICK m \in Nat, n \in Nat : m = Len(s) /\ n = Len(t)
          BY <2>3
        <5>2. k \in 1 .. m + n
          BY <2>2, <5>1
        <5> QED BY <5>1, <5>2, PlaceInConcat
      <4> QED BY <2>2, <2>3, <4>1 DEF Range
    <3>2. \A k \in 1 .. Len(s) : s[k] \in Range(u)
      <4>1. \A k \in 1 .. Len(s) : k \in DOMAIN u
        BY <2>2, <2>3
      <4> QED BY <2>2, <4>1 DEF Range
    <3>3. \A k \in 1 .. Len(t) : t[k] \in Range(u)
      <4>1. \A k \in 1 .. Len(t) : Len(s) + k \in DOMAIN u
        BY <2>2, <2>3
      <4> QED BY <2>2, <4>1 DEF Range
    <3> HIDE DEF u
    <3>4. Range(u) \subseteq Range(s) \cup Range(t)
      BY <2>3, <3>1 DEF Range, u
    <3> QED BY <2>3, <3>2, <3>3, <3>4 DEF Range, u
  <2> QED BY <1>1, <1>3, <1>5, <2>1, <2>2, <2>4
<1>7. Queued' = Range(files')
  <2>1. PICK q \in Seq(File) : q = files'
    BY <1>6
  <2> QED BY <2>1, QueuedRange DEF Queued
<1>8. processed' \cup Queued' = processed \cup Queued \cup L
  BY <1>1, <1>2, <1>6, <1>7
<1>9. script' = script /\ FilesReached' = FilesReached /\ \A g : Imports(g)' = Imports(g)
  BY <1>1 DEF script, FilesReached, Imports
<1>10. L \subseteq FilesReached /\ L \subseteq script.local
  <2>1. f \in FilesReached
    BY <1>1, <1>2 DEF DepsInv
  <2> QED BY <1>3, <1>i, <2>1, ReachedClosed DEF Closed, TypeInv
<1>11. deps'.edges = UNION {{g} \X Imports(g) : g \in processed'}
  BY <1>1, <1>i DEF DepsInv
<1>12. f = script.start \/ f \in script.local
  BY <1>1, <1>2 DEF DepsInv
<1>13. ASSUME NEW d \in DOMAIN deps'.type \ {script.start}
       PROVE  deps'.type[d] = "File" <=> d \in script.local
  <2>1. /\ d \in I \cup {f} \cup DOMAIN deps.type
        /\ deps'.type[d] = IF d \in I THEN IF d \in script.local THEN "File" ELSE "Library"
                           ELSE IF d = f THEN "File" ELSE deps.type[d]
    BY <1>1, <1>13
  <2> QED BY <1>1, <1>12, <1>13, <2>1 DEF DepsInv
<1> QED BY <1>1, <1>2, <1>3, <1>i, <1>6, <1>8, <1>9, <1>10, <1>11, <1>13 DEF DepsInv

LEMMA AgainKeeps ==
  ASSUME TypeInv, DepsInv, Again
  PROVE  DepsInv'
<1>1. /\ pc = "dependencies" /\ pc' = pc /\ files # <<>> /\ Head(files) \in processed
      /\ program' = program /\ processed' = processed /\ deps' = deps /\ files' = Tail(files)
  BY DEF Again, tree
<1>2. /\ Tail(files) \in Seq(File) /\ Queued = {Head(files)} \cup Range(Tail(files))
  BY <1>1, QueueFacts
<1>3. files' \in Seq(File) /\ Queued' = Range(files')
  <2>1. PICK q \in Seq(File) : q = files'
    BY <1>1, <1>2
  <2> QED BY <2>1, QueuedRange DEF Queued
<1>4. processed' \cup Queued' = processed \cup Queued
  BY <1>1, <1>2, <1>3
<1>5. script' = script /\ FilesReached' = FilesReached /\ \A g : Imports(g)' = Imports(g)
  BY <1>1 DEF script, FilesReached, Imports
<1> QED BY <1>1, <1>3, <1>4, <1>5 DEF DepsInv

LEMMA CombineStarts ==
  ASSUME TypeInv, DepsInv, Combine
  PROVE  DepsInv'
<1>1. /\ pc = "combine" /\ pc' = "dependencies" /\ files' = <<script.start>> /\ program' = program
      /\ processed' = {} /\ deps' = NoDeps
  BY DEF Combine, DepsInv
<1>2. script' = script /\ FilesReached' = FilesReached
  BY <1>1 DEF script, FilesReached
<1>3. PICK a \in File : a = script.start
  BY ScriptType DEF TypeInv
<1>4. <<a>> \in Seq(File) /\ Len(<<a>>) = 1 /\ <<a>>[1] = a
  OBVIOUS
<1>5. files' \in Seq(File) /\ Queued' = {a}
  BY <1>1, <1>3, <1>4 DEF Queued
<1>6. a \in FilesReached
  BY <1>3, ReachedClosed DEF Closed, TypeInv
<1>7. DOMAIN deps'.type = {} /\ deps'.edges = {}
  BY <1>1 DEF NoDeps
<1> QED BY <1>1, <1>2, <1>3, <1>5, <1>6, <1>7 DEF DepsInv

LEMMA FinishKeeps ==
  ASSUME DepsInv, Finish
  PROVE  DepsInv'
<1>1. /\ pc = "dependencies" /\ pc' = "done" /\ files = <<>> /\ files' = files /\ program' = program
      /\ processed' = processed /\ deps' = deps
  BY DEF Finish, deptree
<1>2. script' = script /\ FilesReached' = FilesReached /\ \A g : Imports(g)' = Imports(g)
  BY <1>1 DEF script, FilesReached, Imports
<1>3. Queued' = Queued
  BY <1>1 DEF Queued
<1> QED BY <1>1, <1>2, <1>3 DEF DepsInv

LEMMA DepsStay ==
  ASSUME DepsInv, Start \/ Examine \/ Return \/ CallGraphs \/ UNCHANGED vars
  PROVE  DepsInv'
<1>1. /\ files' = files /\ processed' = processed /\ deps' = deps /\ program' = program
      /\ pc' = pc \/ (pc \in {"start", "disassemble"} /\ pc' \in {"disassemble", "combine"})
  BY DEF Start, Examine, Return, CallGraphs, vars, tree, deptree
<1>2. script' = script /\ FilesReached' = FilesReached /\ \A g : Imports(g)' = Imports(g)
  BY <1>1 DEF script, FilesReached, Imports
<1>3. Queued' = Queued
  BY <1>1 DEF Queued
<1> QED BY <1>1, <1>2, <1>3 DEF DepsInv

LEMMA Dependencies == Spec => []DepsInv
<1>1. Init => DepsInv
  BY EmptySeq DEF Init, DepsInv
<1>2. TypeInv /\ DepsInv /\ [Next]_vars => DepsInv'
  BY DepsStay, ScanKeeps, AgainKeeps, CombineStarts, FinishKeeps DEF Next
<1> QED BY <1>1, <1>2, Pending, PTL DEF Spec

(* However the files of a script import each other, in circles or not, all *)
(* that the script reaches through imports of files are processed, the     *)
(* edges are their imports, and a vertex other than the script is a file   *)
(* if it can be found as one (main.cpp, generate_dependency_graph).        *)
THEOREM ImportsFollowed == Spec => []DependenciesExact
<1>1. TypeInv /\ DepsInv => DependenciesExact
  <2> SUFFICES ASSUME TypeInv, DepsInv, pc = "done"
               PROVE  /\ processed = FilesReached
                      /\ deps.edges = UNION {{f} \X script.imports[f] : f \in FilesReached \cap script.loads}
                      /\ \A f \in DOMAIN deps.type \ {script.start} : deps.type[f] = "File" <=> f \in script.local
    BY DEF DependenciesExact
  <2>1. Queued = {}
    <3>1. Len(files) = 0
      BY EmptySeq DEF DepsInv
    <3> QED BY <3>1 DEF Queued
  <2>2. Closed(processed)
    BY <2>1 DEF DepsInv, Closed
  <2>3. processed = FilesReached
    BY <2>1, <2>2, ReachedLeast DEF DepsInv, TypeInv
  <2>4. deps.edges = UNION {{f} \X script.imports[f] : f \in FilesReached \cap script.loads}
    BY <2>3 DEF DepsInv, Imports
  <2> QED BY <2>3, <2>4 DEF DepsInv
<1> QED BY <1>1, Pending, Dependencies, PTL

-----------------------------------------------------------------------------
(* The blocks of a function.                                               *)

(* Code as the tool finds it: instructions, the last of them one that no   *)
(* way leads past.                                                         *)
IsText(code) ==
  /\ code # <<>> /\ Len(code) \in Nat \ {0} /\ DOMAIN code = 1 .. Len(code)
  /\ \A k \in DOMAIN code : code[k].arg \in Nat
IsProgramText(code) == IsText(code) /\ code[Len(code)].op \in Ends

LEMMA ProgramText ==
  ASSUME program \in Programs, NEW o, CodeOf(o) # <<>>
  PROVE  IsCode(o) /\ IsProgramText(CodeOf(o))
<1>1. IsCode(o) /\ CodeOf(o) = program.code[o]
  BY DEF CodeOf
<1>2. PICK code : code = program.code[o]
  OBVIOUS
<1>3. code \in Seq(Range(code)) /\ code # <<>> /\ Last(code).op \in Ends /\ \A k \in DOMAIN code : code[k].arg \in Nat
  BY <1>1, <1>2, ProgramsAssumption DEF IsCode
<1>4. Len(code) \in Nat /\ Len(code) # 0 /\ DOMAIN code = 1 .. Len(code)
  BY <1>3, LenProperties, EmptySeq
<1> QED BY <1>1, <1>2, <1>3, <1>4 DEF IsProgramText, IsText, Last

LEMMA EndFacts ==
  ASSUME NEW code, IsProgramText(code), NEW b \in Blocks(code)
  PROVE  LET e == EndOf(code, b)
         IN  /\ b \in Nat \ {0} /\ e \in Nat /\ b <= e /\ e <= Len(code)
             /\ NextBlocks(code, b) = IF e = Len(code) THEN {} ELSE {e + 1}
             /\ \A c \in Blocks(code) : c > b => c > e
<1> DEFINE later == {c \in Blocks(code) : c > b}
           n == Len(code)
<1>1. n \in Nat /\ Blocks(code) \subseteq 1 .. n /\ b \in 1 .. n
  BY DEF IsProgramText, IsText, Blocks
<1>2. CASE later = {}
  <2>1. NextBlocks(code, b) = {}
    BY <1>2 DEF NextBlocks
  <2>2. EndOf(code, b) = Min({n})
    BY <2>1 DEF EndOf
  <2>3. {n} \subseteq Nat /\ {n} # {}
    BY <1>1
  <2>4. Min({n}) = n
    BY <2>3, MinOfPlaces
  <2> QED BY <1>1, <1>2, <2>1, <2>2, <2>4
<1>3. CASE later # {}
  <2>1. later \subseteq Nat
    BY <1>1
  <2>2. PICK c : c = Min(later)
    OBVIOUS
  <2>3. c \in later /\ \A d \in later : c <= d
    BY <1>3, <2>1, <2>2, MinOfPlaces
  <2>4. NextBlocks(code, b) = {c}
    BY <1>3, <2>2 DEF NextBlocks
  <2> DEFINE T == {n} \cup {d - 1 : d \in {c}}
  <2>5. EndOf(code, b) = Min(T)
    BY <2>4 DEF EndOf
  <2>6. c \in 1 .. n /\ c > b /\ T = {n, c - 1}
    BY <1>1, <2>3
  <2>7. T \subseteq Nat /\ T # {}
    BY <1>1, <2>6
  <2>8. PICK e : e = Min(T)
    OBVIOUS
  <2>9. e \in T /\ \A d \in T : e <= d
    BY <2>7, <2>8, MinOfPlaces
  <2>10. e = c - 1
    BY <1>1, <2>6, <2>9
  <2> HIDE DEF T
  <2>11. \A d \in Blocks(code) : d > b => c <= d /\ d \in Nat
    BY <1>1, <2>3
  <2>12. e = EndOf(code, b)
    BY <2>5, <2>8
  <2>13. b <= e /\ e <= n /\ e # n /\ e \in Nat /\ e + 1 = c
    BY <1>1, <2>6, <2>10
  <2>14. \A d \in Blocks(code) : d > b => d > e
    BY <2>11, <2>6, <2>10, <1>1
  <2>15. NextBlocks(code, b) = IF e = n THEN {} ELSE {e + 1}
    BY <2>4, <2>13
  <2> QED BY <1>1, <2>12, <2>13, <2>14, <2>15
<1> QED BY <1>2, <1>3

(* What follows a jump or a return is a leader.                            *)
LEMMA JumpsEndBlocks ==
  ASSUME NEW code, IsProgramText(code), NEW b \in Blocks(code), NEW i \in DOMAIN code,
         b <= i, i < EndOf(code, b)
  PROVE  code[i].op \notin Jumps \cup Returns
<1> SUFFICES ASSUME code[i].op \in Jumps \cup Returns PROVE FALSE
  OBVIOUS
<1>1. i + 1 \in Leaders(code)
  BY DEF Leaders
<1>2. PICK e : e = EndOf(code, b)
  OBVIOUS
<1>3. i \in Nat /\ e \in Nat /\ e <= Len(code) /\ i + 1 \in DOMAIN code
  <2>1. i \in 1 .. Len(code) /\ DOMAIN code = 1 .. Len(code) /\ Len(code) \in Nat
    BY DEF IsProgramText, IsText
  <2>2. e \in Nat /\ e <= Len(code) /\ i < e
    BY <1>2, EndFacts
  <2> QED BY <2>1, <2>2
<1>4. i + 1 \in Blocks(code) /\ i + 1 > b
  BY <1>1, <1>3, EndFacts DEF Blocks
<1> QED BY <1>2, <1>3, <1>4, EndFacts

LEMMA BlockFaithful ==
  ASSUME NEW code, IsProgramText(code), NEW b \in Blocks(code), NEW last, last = EndOf(code, b)
  PROVE  /\ \A i \in b .. last - 1 : Follows(code, i) \subseteq {i + 1} \/ code[i].op = "FOR_ITER"
         /\ code[last].op \notin {"FOR_ITER", "RERAISE"} =>
              {e[2] : e \in EdgesOf(code, b)} = Follows(code, last)
<1>1. /\ b \in Nat \ {0} /\ last \in Nat /\ b <= last /\ last <= Len(code) /\ last \in DOMAIN code
      /\ NextBlocks(code, b) = IF last = Len(code) THEN {} ELSE {last + 1}
  BY EndFacts DEF IsProgramText, IsText
<1>2. ASSUME NEW i \in b .. last - 1, code[i].op # "FOR_ITER"
      PROVE  Follows(code, i) \subseteq {i + 1}
  <2>1. i \in DOMAIN code /\ b <= i /\ i < last
    BY <1>1 DEF IsProgramText, IsText
  <2>2. code[i].op \notin Jumps \cup Returns
    BY <2>1, JumpsEndBlocks
  <2> QED BY <1>2, <2>2 DEF Follows, Jumps
<1>3. ASSUME code[last].op \notin {"FOR_ITER", "RERAISE"}
      PROVE  {e[2] : e \in EdgesOf(code, b)} = Follows(code, last)
  <2>1. last = Len(code) => code[last].op \in Ends
    BY DEF IsProgramText, IsText
  <2> DEFINE jump == {<<b, code[last].val, "jump">>}
             next == {<<b, c, "next">> : c \in NextBlocks(code, b)}
  <2>2. CASE code[last].op \in CondJumps
    <3>1. last # Len(code)
      BY <2>1, <2>2 DEF Ends, CondJumps, Returns
    <3>2. EdgesOf(code, b) = {<<b, code[last].val, "jump">>, <<b, last + 1, "next">>}
      BY <1>1, <2>2, <3>1 DEF EdgesOf, Jumps, CondJumps, Returns
    <3>3. Follows(code, last) = {last + 1, code[last].val}
      BY <2>2 DEF Follows, Jumps, CondJumps, Returns
    <3> QED BY <3>2, <3>3
  <2>3. CASE code[last].op \in Jumps \ CondJumps
    <3>1. EdgesOf(code, b) = {<<b, code[last].val, "jump">>}
      BY <2>3 DEF EdgesOf, Jumps, CondJumps, Returns
    <3>2. Follows(code, last) = {code[last].val}
      BY <2>3, <1>3 DEF Follows, Jumps, CondJumps, Returns
    <3> QED BY <3>1, <3>2
  <2>4. CASE code[last].op \in Returns \cup {"RAISE_VARARGS"}
    <3>1. code[last].op \notin Jumps
      BY <2>4 DEF Jumps, CondJumps, Returns
    <3>2. EdgesOf(code, b) = {} /\ Follows(code, last) = {}
      BY <1>3, <2>4, <3>1 DEF EdgesOf, Follows, Jumps
    <3> QED BY <3>2
  <2>5. CASE code[last].op \notin Jumps \cup Returns \cup {"RAISE_VARARGS"}
    <3>1. last # Len(code)
      BY <1>3, <2>1, <2>5 DEF Ends
    <3>2. EdgesOf(code, b) = {<<b, last + 1, "next">>}
      BY <1>1, <2>5, <3>1 DEF EdgesOf, Jumps
    <3>3. Follows(code, last) = {last + 1}
      BY <1>3, <2>5 DEF Follows, Jumps
    <3> QED BY <3>2, <3>3
  <2> QED BY <2>2, <2>3, <2>4, <2>5
<1> QED BY <1>2, <1>3

LEMMA GraphOfFunction ==
  ASSUME program \in Programs
  PROVE  CfgFaithful
<1> SUFFICES ASSUME NEW n \in DOMAIN called, CodeOf(called[n]) # <<>>, NEW b \in Blocks(CodeOf(called[n]))
             PROVE  LET code == CodeOf(called[n])
                        last == EndOf(code, b)
                    IN  /\ \A i \in b .. last - 1 : Follows(code, i) \subseteq {i + 1} \/ code[i].op = "FOR_ITER"
                        /\ code[last].op \notin {"FOR_ITER", "RERAISE"} =>
                             {e[2] : e \in EdgesOf(code, b)} = Follows(code, last)
  BY DEF CfgFaithful
<1> QED BY ProgramText, BlockFaithful

-----------------------------------------------------------------------------
(* The walk backwards, as a function of the place and of the items above.  *)

LEMMA EffectNat ==
  ASSUME NEW insn, insn.arg \in Nat
  PROVE  /\ StackEffect(insn)[1] \in Nat /\ StackEffect(insn)[2] \in Nat
         /\ insn.op = "PUSH_NULL" => StackEffect(insn)[2] = 1
<1>1. StackEffect(insn) \in Nat \X Nat
  <2>1. 2 * insn.arg \in Nat /\ insn.arg + 1 \in Nat
    OBVIOUS
  <2>2. PICK m \in Nat : m = 2 * insn.arg
    BY <2>1
  <2>3. /\ \A c \in BOOLEAN : <<IF c THEN 3 ELSE 2, 1>> \in Nat \X Nat /\ <<IF c THEN 2 ELSE 1, 1>> \in Nat \X Nat
        /\ \A x, y \in Nat : <<x, y>> \in Nat \X Nat
    OBVIOUS
  <2> QED BY <2>1, <2>3, SMTT(60) DEF StackEffect
<1>2. ASSUME insn.op = "PUSH_NULL" PROVE StackEffect(insn) = <<0, 1>>
  BY <1>2 DEF StackEffect
<1> QED BY <1>1, <1>2

Walk(code, from, F) == F = [i \in Int |-> [k \in Nat |-> NameBefore(code, from, i, k, F[i - 1])]]

LEMMA FindIsWalk ==
  ASSUME NEW code, NEW from, NEW covered
  PROVE  FindLoader(code, from, covered) = (CHOOSE F : Walk(code, from, F))[from][covered]
  BY DEF FindLoader, Walk

Parts(code) == {code[i].val : i \in DOMAIN code} \cup {NullPart}

LEMMA WalkPasses ==
  ASSUME NEW code, IsText(code), NEW from \in Int, NEW i \in DOMAIN code, ~ (from - i > MaxDepth),
         NEW k \in Nat, NEW back, k >= StackEffect(code[i])[2]
  PROVE  NameBefore(code, from, i, k, back)
           = back[k - StackEffect(code[i])[2] + StackEffect(code[i])[1]]
<1>1. PICK e2 \in Nat : e2 = StackEffect(code[i])[2] /\ (code[i].op = "PUSH_NULL" => e2 = 1)
  BY EffectNat DEF IsText
<1>2. ~ (k < e2) /\ ~ (k = 0 /\ code[i].op = "PUSH_NULL") /\ k >= e2
  BY <1>1
<1> QED BY <1>1, <1>2 DEF NameBefore

LEMMA NameCases ==
  ASSUME NEW code, IsText(code), NEW from \in Int, NEW i \in Int, NEW k \in Nat, NEW back
  PROVE  LET name == NameBefore(code, from, i, k, back)
         IN  \/ name = <<>> \/ name = <<NullPart>> \/ \E j \in Nat : name = back[j]
             \/ i \in DOMAIN code /\ (name = <<code[i].val>> \/ name = Append(back[k], code[i].val))
<1>1. CASE i \notin DOMAIN code \/ from - i > MaxDepth
  BY <1>1 DEF NameBefore
<1>2. CASE i \in DOMAIN code /\ ~ (from - i > MaxDepth) /\ k >= StackEffect(code[i])[2]
  <2>1. NameBefore(code, from, i, k, back) = back[k - StackEffect(code[i])[2] + StackEffect(code[i])[1]]
    BY <1>2, WalkPasses
  <2>2. k - StackEffect(code[i])[2] + StackEffect(code[i])[1] \in Nat
    <3>1. PICK e1 \in Nat, e2 \in Nat : e1 = StackEffect(code[i])[1] /\ e2 = StackEffect(code[i])[2]
      BY <1>2, EffectNat DEF IsText
    <3> QED BY <1>2, <3>1
  <2> QED BY <2>1, <2>2
<1>3. CASE i \in DOMAIN code /\ ~ (from - i > MaxDepth) /\ ~ (k >= StackEffect(code[i])[2])
  BY <1>3 DEF NameBefore, BaseLoads, AttrLoads
<1> QED BY <1>1, <1>2, <1>3

IsRow(code, back) == back \in [Nat -> Seq(Parts(code))]

LEMMA NamesFound ==
  ASSUME NEW code, IsText(code), NEW from \in Int, NEW i \in Int, NEW k \in Nat,
         NEW back, IsRow(code, back)
  PROVE  NameBefore(code, from, i, k, back) \in Seq(Parts(code))
<1> DEFINE V == Seq(Parts(code))
<1>1. <<>> \in V
  BY EmptySeq
<1>2. <<NullPart>> \in V
  <2>1. NullPart \in Parts(code)
    BY DEF Parts
  <2> QED BY <2>1
<1>3. ASSUME i \in DOMAIN code
      PROVE  <<code[i].val>> \in V /\ Append(back[k], code[i].val) \in V
  <2>1. PICK v \in Parts(code) : v = code[i].val
    BY <1>3 DEF Parts
  <2>2. <<v>> \in V /\ back[k] \in V
    BY DEF IsRow
  <2> QED BY <2>1, <2>2, AppendProperties
<1>4. \A j \in Nat : back[j] \in V
  BY DEF IsRow
<1> HIDE DEF V
<1>5. PICK name : name = NameBefore(code, from, i, k, back)
  OBVIOUS
<1>6. \/ name = <<>> \/ name = <<NullPart>> \/ \E j \in Nat : name = back[j]
      \/ i \in DOMAIN code /\ (name = <<code[i].val>> \/ name = Append(back[k], code[i].val))
  BY <1>5, NameCases
<1>7. name \in V
  BY <1>1, <1>2, <1>3, <1>4, <1>6
<1> QED BY <1>5, <1>7 DEF V

LEMMA WalkExists ==
  ASSUME NEW code, IsText(code), NEW from \in Int
  PROVE  \E F : Walk(code, from, F)
<1> DEFINE V == Seq(Parts(code))
           row(i, back) == [k \in Nat |-> NameBefore(code, from, i, k, back)]
           G == [s \in Nat \X [Nat -> V] |-> <<s[1] + 1, row(s[1] + 1, s[2])>>]
           none == [k \in Nat |-> <<>>]
           g == Iterate(<<0, none>>, G)
<1>1. g[0] = <<0, none>> /\ \A n \in Nat : g[n + 1] = G[g[n]]
  <2>1. PICK a, H : a = <<0, none>> /\ H = G
    OBVIOUS
  <2>2. PICK h : h = Iterate(a, H)
    OBVIOUS
  <2>3. Iterates(a, H, h)
    BY <2>2, IterateExists
  <2>4. h[0] = a /\ \A n \in Nat : h[n + 1] = H[h[n]]
    BY <2>3 DEF Iterates
  <2> HIDE DEF G, none
  <2> QED BY <2>1, <2>2, <2>4
<1>2. none \in [Nat -> V]
  BY EmptySeq
<1>3. \A i \in Int : \A back \in [Nat -> V] : row(i, back) \in [Nat -> V]
  BY NamesFound DEF IsRow
<1> DEFINE S == {n \in Nat : g[n][1] = n /\ g[n][2] \in [Nat -> V] /\ g[n] = <<g[n][1], g[n][2]>>}
<1> HIDE DEF V, row, g, none
<1>4. 0 \in S
  BY <1>1, <1>2
<1>5. ASSUME NEW n \in Nat, n \in S PROVE n + 1 \in S /\ g[n + 1] = <<n + 1, row(n + 1, g[n][2])>>
  <2>1. PICK b \in [Nat -> V] : g[n] = <<n, b>> /\ b = g[n][2]
    BY <1>5
  <2>2. g[n + 1] = <<n + 1, row(n + 1, b)>>
    <3>1. PICK s : s = <<n, b>>
      OBVIOUS
    <3>2. s \in Nat \X [Nat -> V] /\ s[1] = n /\ s[2] = b
      BY <3>1
    <3>3. G[s] = <<n + 1, row(n + 1, b)>>
      BY <3>2
    <3>4. g[n + 1] = G[s]
      BY <1>1, <2>1, <3>1
    <3> QED BY <3>3, <3>4
  <2>3. row(n + 1, b) \in [Nat -> V]
    BY <1>3
  <2> QED BY <2>1, <2>2, <2>3
<1>6. Nat \subseteq S
  <2> HIDE DEF S
  <2> QED BY <1>4, <1>5, AllNaturals
<1> DEFINE F == [i \in Int |-> IF i \in Nat THEN g[i][2] ELSE none]
<1>7. ASSUME NEW i \in Int
      PROVE  F[i] = row(i, F[i - 1])
  <2>1. CASE i \in Nat \ {0}
    <3>1. PICK n \in Nat : n = i - 1 /\ i = n + 1
      BY <2>1
    <3>2. g[n + 1] = <<n + 1, row(n + 1, g[n][2])>>
      BY <1>5, <1>6
    <3>3. F[i] = g[i][2] /\ F[n] = g[n][2]
      BY <3>1, <2>1
    <3> QED BY <3>1, <3>2, <3>3
  <2>2. CASE i \notin Nat \ {0}
    <3>1. i \notin DOMAIN code
      BY <2>2 DEF IsText
    <3>2. F[i] = none
      BY <1>1, <2>2
    <3>3. row(i, F[i - 1]) = none
      BY <3>1 DEF row, none, NameBefore
    <3> QED BY <3>2, <3>3
  <2> QED BY <2>1, <2>2
<1>8. Walk(code, from, F)
  <2>1. F = [i \in Int |-> F[i]]
    OBVIOUS
  <2> HIDE DEF F
  <2>2. F = [i \in Int |-> row(i, F[i - 1])]
    BY <1>7, <2>1
  <2> QED BY <2>2 DEF Walk, row
<1> QED BY <1>8

LEMMA WalkAt ==
  ASSUME NEW code, NEW from \in Int, NEW F, Walk(code, from, F), NEW i \in Int, NEW k \in Nat
  PROVE  F[i][k] = NameBefore(code, from, i, k, F[i - 1])
<1>1. F[i] = [j \in Nat |-> NameBefore(code, from, i, j, F[i - 1])]
  BY DEF Walk
<1> QED BY <1>1

(* part is the code from b on, or its beginning.                           *)
PartFrom(code, part, b) ==
  \A i \in DOMAIN part : b + i - 1 \in DOMAIN code /\ part[i] = code[b + i - 1]

(* What the walk finds within a part of the code it finds in all of it.    *)
LEMMA FoundInPart ==
  ASSUME NEW code, IsText(code), NEW part, IsText(part), NEW b \in Nat \ {0},
         PartFrom(code, part, b),
         NEW from \in Nat, NEW covered \in Nat, FindLoader(part, from, covered) # <<>>
  PROVE  FindLoader(code, b + from - 1, covered) = FindLoader(part, from, covered)
<1>1. PICK P : Walk(part, from, P) /\ FindLoader(part, from, covered) = P[from][covered]
  BY WalkExists, FindIsWalk
<1>2. PICK F : /\ Walk(code, b + from - 1, F)
               /\ FindLoader(code, b + from - 1, covered) = F[b + from - 1][covered]
  BY WalkExists, FindIsWalk
<1>3. \A i \in Int, k \in Nat : /\ P[i][k] = NameBefore(part, from, i, k, P[i - 1])
                                /\ F[i][k] = NameBefore(code, b + from - 1, i, k, F[i - 1])
  <2> SUFFICES ASSUME NEW i \in Int, NEW k \in Nat
               PROVE  /\ P[i][k] = NameBefore(part, from, i, k, P[i - 1])
                      /\ F[i][k] = NameBefore(code, b + from - 1, i, k, F[i - 1])
    OBVIOUS
  <2>1. from \in Int /\ b + from - 1 \in Int
    OBVIOUS
  <2>2. P[i][k] = NameBefore(part, from, i, k, P[i - 1])
    BY <1>1, <2>1, WalkAt
  <2>3. F[i][k] = NameBefore(code, b + from - 1, i, k, F[i - 1])
    <3>1. PICK f \in Int : f = b + from - 1
      BY <2>1
    <3>2. Walk(code, f, F)
      BY <1>2, <3>1
    <3>3. F[i][k] = NameBefore(code, f, i, k, F[i - 1])
      BY <3>2, WalkAt
    <3> QED BY <3>1, <3>3
  <2> QED BY <2>2, <2>3
<1> DEFINE S == {n \in Nat : \A k \in Nat : P[n][k] # <<>> => F[b + n - 1][k] = P[n][k]}
<1>4. 0 \in S
  <2>1. 0 \in Int /\ 0 \notin DOMAIN part
    BY DEF IsText
  <2>2. \A k \in Nat : P[0][k] = NameBefore(part, from, 0, k, P[0 - 1])
    BY <1>3, <2>1
  <2>3. \A k \in Nat : P[0][k] = <<>>
    BY <2>1, <2>2 DEF NameBefore
  <2> QED BY <2>3
<1>5. ASSUME NEW n \in Nat, n \in S PROVE n + 1 \in S
  <2> SUFFICES ASSUME NEW k \in Nat, P[n + 1][k] # <<>>
               PROVE  F[b + n][k] = P[n + 1][k]
    OBVIOUS
  <2>1. n + 1 \in DOMAIN part /\ ~ (from - (n + 1) > MaxDepth)
    <3>1. PICK j \in Int : j = n + 1
      OBVIOUS
    <3>2. P[j][k] = NameBefore(part, from, j, k, P[j - 1])
      BY <1>3
    <3>3. P[j][k] # <<>>
      BY <3>1
    <3>4. j \in DOMAIN part /\ ~ (from - j > MaxDepth)
      BY <3>2, <3>3 DEF NameBefore
    <3> QED BY <3>1, <3>4
  <2>2. PICK insn : /\ insn = part[n + 1] /\ insn = code[b + n] /\ b + n \in DOMAIN code
                    /\ insn.arg \in Nat
    <3>1. PICK j \in DOMAIN part : j = n + 1
      BY <2>1
    <3>2. part[j] = code[b + j - 1] /\ b + j - 1 \in DOMAIN code /\ part[j].arg \in Nat
      BY DEF IsText, PartFrom
    <3>3. b + j - 1 = b + n
      BY <3>1
    <3> QED BY <3>1, <3>2, <3>3
  <2>3. PICK e1 \in Nat, e2 \in Nat : /\ e1 = StackEffect(insn)[1] /\ e2 = StackEffect(insn)[2]
                                      /\ insn.op = "PUSH_NULL" => e2 = 1
    BY <2>2, EffectNat
  <2>4. ~ ((b + from - 1) - (b + n) > MaxDepth)
    BY <2>1, MaxDepthAssumption
  <2>5. PICK p, f : p = P[n] /\ f = F[b + n - 1]
    OBVIOUS
  <2>6. \A j \in Nat : p[j] # <<>> => f[j] = p[j]
    BY <1>5, <2>5
  <2>7. /\ P[n + 1][k] = NameBefore(part, from, n + 1, k, p)
        /\ F[b + n][k] = NameBefore(code, b + from - 1, b + n, k, f)
    <3>1. (n + 1) - 1 = n /\ n + 1 \in Int /\ b + n \in Int /\ (b + n) - 1 = b + n - 1
      OBVIOUS
    <3> QED BY <1>3, <2>5, <3>1
  <2>8. CASE k >= e2
    <3>1. NameBefore(part, from, n + 1, k, p) = p[k - e2 + e1]
      BY <2>1, <2>2, <2>3, <2>8 DEF NameBefore
    <3>2. NameBefore(code, b + from - 1, b + n, k, f) = f[k - e2 + e1]
      BY <2>2, <2>3, <2>4, <2>8 DEF NameBefore
    <3>3. k - e2 + e1 \in Nat
      BY <2>8
    <3> QED BY <2>6, <2>7, <3>1, <3>2, <3>3
  <2>9. CASE ~ (k >= e2) /\ insn.op \in AttrLoads
    <3>1. NameBefore(part, from, n + 1, k, p) = IF p[k] = <<>> THEN <<>> ELSE Append(p[k], insn.val)
      BY <2>1, <2>2, <2>3, <2>9 DEF NameBefore, AttrLoads, BaseLoads
    <3>2. NameBefore(code, b + from - 1, b + n, k, f) = IF f[k] = <<>> THEN <<>> ELSE Append(f[k], insn.val)
      BY <2>2, <2>3, <2>4, <2>9 DEF NameBefore, AttrLoads, BaseLoads
    <3> QED BY <2>6, <2>7, <3>1, <3>2
  <2>10. CASE ~ (k >= e2) /\ insn.op \notin AttrLoads
    <3>1. NameBefore(part, from, n + 1, k, p) = NameBefore(code, b + from - 1, b + n, k, f)
      BY <2>1, <2>2, <2>3, <2>4, <2>10 DEF NameBefore
    <3> QED BY <2>7, <3>1
  <2> QED BY <2>8, <2>9, <2>10
<1>6. from \in S
  <2> HIDE DEF S
  <2> QED BY <1>4, <1>5, AllNaturals
<1> QED BY <1>1, <1>2, <1>6

-----------------------------------------------------------------------------
(* The union of the call graphs.                                           *)

Folded(S, it) ==
  it = [s \in SUBSET S |->
         IF s = {} THEN EmptyBag
         ELSE LET x == CHOOSE x \in s : TRUE IN it[s \ {x}] (+) EdgeBag(x)]

EdgesFrom(s) == UNION {{n} \X DOMAIN graphs[n] : n \in s}
Copied(s) == [e \in EdgesFrom(s) |-> graphs[e[1]][e[2]]]

LEMMA FoldIsFolded ==
  FoldSet(AddEdges, EmptyBag, DOMAIN graphs)
    = (CHOOSE it : Folded(DOMAIN graphs, it))[DOMAIN graphs]
  BY DEF FoldSet, MapThenFoldSet, Folded, AddEdges

GraphsCount == \A n \in DOMAIN graphs : \A m \in DOMAIN graphs[n] : graphs[n][m] \in Nat

LEMMA CopiedNone == Copied({}) = EmptyBag
<1>1. EdgesFrom({}) = {}
  BY DEF EdgesFrom
<1>2. EmptyBag = [e \in {} |-> 1]
  BY DEF EmptyBag, SetToBag
<1> QED BY <1>1, <1>2 DEF Copied

LEMMA CopiedOneMore ==
  ASSUME GraphsCount, NEW s \in SUBSET DOMAIN graphs, NEW x \in s
  PROVE  Copied(s \ {x}) (+) EdgeBag(x) = Copied(s)
<1> DEFINE A == Copied(s \ {x})
           B == EdgeBag(x)
           C == Copied(s)
<1>1. DOMAIN A = EdgesFrom(s \ {x}) /\ DOMAIN B = {x} \X DOMAIN graphs[x] /\ DOMAIN C = EdgesFrom(s)
  BY DEF Copied, EdgeBag
<1>2. EdgesFrom(s) = EdgesFrom(s \ {x}) \cup ({x} \X DOMAIN graphs[x])
  BY DEF EdgesFrom
<1>3. \A e \in EdgesFrom(s) : /\ e[1] \in s /\ e[2] \in DOMAIN graphs[e[1]] /\ graphs[e[1]][e[2]] \in Nat
                              /\ C[e] = graphs[e[1]][e[2]]
  <2>1. ASSUME NEW e \in EdgesFrom(s)
        PROVE  e[1] \in s /\ e[2] \in DOMAIN graphs[e[1]]
    BY DEF EdgesFrom
  <2> QED BY <2>1 DEF GraphsCount, Copied
<1>4. \A e \in EdgesFrom(s \ {x}) : e[1] \in s \ {x} /\ A[e] = graphs[e[1]][e[2]]
  <2>1. ASSUME NEW e \in EdgesFrom(s \ {x})
        PROVE  e[1] \in s \ {x}
    BY DEF EdgesFrom
  <2> QED BY <2>1 DEF Copied
<1>5. \A e \in {x} \X DOMAIN graphs[x] : e[1] = x /\ B[e] = graphs[e[1]][e[2]]
  <2>1. ASSUME NEW e \in {x} \X DOMAIN graphs[x]
        PROVE  e[1] = x /\ B[e] = graphs[x][e[2]]
    BY DEF EdgeBag
  <2> QED BY <2>1
<1> DEFINE D == A (+) B
<1>6. D = [e \in DOMAIN A \cup DOMAIN B |->
             (IF e \in DOMAIN A THEN A[e] ELSE 0) + (IF e \in DOMAIN B THEN B[e] ELSE 0)]
  BY DEF (+)
<1>7. C = [e \in EdgesFrom(s) |-> C[e]]
  BY DEF Copied
<1> HIDE DEF A, B, C, D
<1>8. \A e \in EdgesFrom(s) : D[e] = C[e]
  <2> TAKE e \in EdgesFrom(s)
  <2>1. D[e] = (IF e \in DOMAIN A THEN A[e] ELSE 0) + (IF e \in DOMAIN B THEN B[e] ELSE 0)
    BY <1>1, <1>2, <1>6
  <2>2. PICK v \in Nat : v = graphs[e[1]][e[2]] /\ C[e] = v
    BY <1>3
  <2>3. CASE e[1] = x
    <3>1. e \notin DOMAIN A /\ e \in DOMAIN B /\ B[e] = v
      BY <1>1, <1>2, <1>4, <1>5, <2>2, <2>3
    <3> QED BY <2>1, <2>2, <3>1
  <2>4. CASE e[1] # x
    <3>1. e \in DOMAIN A /\ e \notin DOMAIN B /\ A[e] = v
      BY <1>1, <1>2, <1>4, <1>5, <2>2, <2>4
    <3> QED BY <2>1, <2>2, <3>1
  <2> QED BY <2>3, <2>4
<1>9. DOMAIN D = EdgesFrom(s)
  BY <1>1, <1>2, <1>6
<1>10. D = [e \in EdgesFrom(s) |-> D[e]]
  BY <1>1, <1>2, <1>6
<1>11. D = C
  BY <1>7, <1>8, <1>10
<1> QED BY <1>11 DEF A, B, C, D

LEMMA UnionOfGraphs ==
  ASSUME GraphsCount, IsFiniteSet(DOMAIN graphs)
  PROVE  FoldSet(AddEdges, EmptyBag, DOMAIN graphs) = Copied(DOMAIN graphs)
<1> DEFINE S == DOMAIN graphs
           h == [s \in SUBSET S |-> Copied(s)]
<1>1. Folded(S, h)
  <2>1. ASSUME NEW s \in SUBSET S, s # {}
        PROVE  LET x == CHOOSE x \in s : TRUE IN h[s] = h[s \ {x}] (+) EdgeBag(x)
    <3>1. PICK x : x = (CHOOSE y \in s : TRUE) /\ x \in s
      BY <2>1
    <3>2. h[s \ {x}] = Copied(s \ {x}) /\ h[s] = Copied(s)
      OBVIOUS
    <3>3. Copied(s \ {x}) (+) EdgeBag(x) = Copied(s)
      BY <3>1, CopiedOneMore
    <3> HIDE DEF h
    <3> QED BY <3>1, <3>2, <3>3
  <2>2. h[{}] = EmptyBag
    BY CopiedNone
  <2>3. h = [s \in SUBSET S |-> h[s]]
    OBVIOUS
  <2> HIDE DEF h
  <2>4. h = [s \in SUBSET S |->
              IF s = {} THEN EmptyBag
              ELSE LET x == CHOOSE x \in s : TRUE IN h[s \ {x}] (+) EdgeBag(x)]
    BY <2>1, <2>2, <2>3, Zenon
  <2> QED BY <2>4 DEF Folded
<1>2. PICK it : it = (CHOOSE f : Folded(S, f)) /\ Folded(S, it)
  BY <1>1
<1>3. \A s \in SUBSET S : it[s] = IF s = {} THEN EmptyBag
                                   ELSE LET x == CHOOSE x \in s : TRUE IN it[s \ {x}] (+) EdgeBag(x)
  <2>1. it = [s \in SUBSET S |->
               IF s = {} THEN EmptyBag
               ELSE LET x == CHOOSE x \in s : TRUE IN it[s \ {x}] (+) EdgeBag(x)]
    BY <1>2 DEF Folded
  <2> QED BY <2>1, Zenon
<1> DEFINE T == {n \in Nat : \A s \in SUBSET S : Cardinality(s) = n => it[s] = Copied(s)}
<1>4. \A s \in SUBSET S : IsFiniteSet(s) /\ Cardinality(s) \in Nat /\ (Cardinality(s) = 0 => s = {})
  BY FS_Subset, FS_CardinalityType, FS_EmptySet
<1>5. 0 \in T
  <2>1. it[{}] = EmptyBag
    BY <1>3
  <2> QED BY <1>4, <2>1, CopiedNone
<1>6. ASSUME NEW n \in Nat, n \in T PROVE n + 1 \in T
  <2> SUFFICES ASSUME NEW s \in SUBSET S, Cardinality(s) = n + 1 PROVE it[s] = Copied(s)
    OBVIOUS
  <2>1. s # {}
    BY FS_EmptySet
  <2>2. PICK x : x = (CHOOSE y \in s : TRUE) /\ x \in s
    BY <2>1
  <2>3. it[s] = it[s \ {x}] (+) EdgeBag(x)
    BY <1>3, <2>1, <2>2
  <2>4. Cardinality(s \ {x}) = Cardinality(s) - 1
    BY <1>4, <2>2, FS_RemoveElement
  <2>5. Cardinality(s \ {x}) = n
    BY <2>4
  <2>6. it[s \ {x}] = Copied(s \ {x})
    BY <1>6, <2>5
  <2> QED BY <2>2, <2>3, <2>6, CopiedOneMore
<1>7. Nat \subseteq T
  <2> HIDE DEF T
  <2> QED BY <1>5, <1>6, AllNaturals
<1>8. it[S] = Copied(S)
  BY <1>4, <1>7
<1> QED BY <1>2, <1>8, FoldIsFolded

-----------------------------------------------------------------------------
(* The graphs of the functions, and of all of them.                        *)

GraphInv ==
  /\ IsFiniteSet(DOMAIN called) /\ <<>> \notin DOMAIN called
  /\ pc \notin {"start", "disassemble"} => graphs = [n \in DOMAIN called |-> CallBag(CodeOf(called[n]))]
  /\ pc \in {"dependencies", "done"} => master = Copied(DOMAIN graphs)

LEMMA NamesNotEmpty ==
  ASSUME NEW code, NEW i
  PROVE  NameOf(code, i) # <<>>
  BY DEF NameOf

LEMMA SitesFinite ==
  ASSUME program \in Programs, NEW o
  PROVE  IsFiniteSet(CallSites(CodeOf(o)))
<1>1. CASE CodeOf(o) = <<>>
  <2>1. CallSites(CodeOf(o)) = {}
    BY <1>1 DEF CallSites
  <2> QED BY <2>1, FS_EmptySet
<1>2. CASE CodeOf(o) # <<>>
  <2>1. PICK n \in Nat : DOMAIN CodeOf(o) = 1 .. n
    BY <1>2, ProgramText DEF IsProgramText, IsText
  <2>2. CallSites(CodeOf(o)) \in SUBSET (1 .. n)
    BY <2>1 DEF CallSites
  <2>3. IsFiniteSet(1 .. n)
    BY FS_Interval
  <2> QED BY <2>2, <2>3, FS_Subset
<1> QED BY <1>1, <1>2

LEMMA BagsCount ==
  ASSUME program \in Programs, graphs = [n \in DOMAIN called |-> CallBag(CodeOf(called[n]))]
  PROVE  GraphsCount /\ DOMAIN graphs = DOMAIN called
<1>1. ASSUME NEW n \in DOMAIN called, NEW m \in DOMAIN CallBag(CodeOf(called[n]))
      PROVE  CallBag(CodeOf(called[n]))[m] \in Nat
  <2>1. PICK code : code = CodeOf(called[n])
    OBVIOUS
  <2> DEFINE sites == {i \in CallSites(code) : NameOf(code, i) = m}
  <2>2. CallBag(code)[m] = Cardinality(sites)
    BY <1>1, <2>1 DEF CallBag
  <2>3. IsFiniteSet(CallSites(code)) /\ sites \in SUBSET CallSites(code)
    BY <2>1, SitesFinite
  <2>4. Cardinality(sites) \in Nat
    BY <2>3, FS_Subset, FS_CardinalityType
  <2> QED BY <2>1, <2>2, <2>4
<1> QED BY <1>1 DEF GraphsCount

LEMMA CalledGrows ==
  ASSUME TypeInv, GraphInv, Start \/ Examine, pc \in {"start", "disassemble"}
  PROVE  IsFiniteSet(DOMAIN called') /\ <<>> \notin DOMAIN called' /\ pc' \in {"start", "disassemble"}
<1>1. CASE Start
  <2>1. DOMAIN called' = DOMAIN called \/ DOMAIN called' = {program.name}
    BY <1>1 DEF Start, Put, tree
  <2>2. program.name # <<>>
    BY ProgramsAssumption DEF TypeInv
  <2>3. IsFiniteSet({program.name}) /\ <<>> \notin {program.name} /\ pc' = "disassemble"
    BY <1>1, <2>2, FS_Singleton DEF Start
  <2>4. IsFiniteSet(DOMAIN called) /\ <<>> \notin DOMAIN called
    BY DEF GraphInv
  <2> QED BY <2>1, <2>3, <2>4
<1>2. CASE Examine
  <2>1. PICK name : name # <<>> /\ (DOMAIN called' = DOMAIN called \/ DOMAIN called' = DOMAIN called \cup {name})
    BY <1>2, NamesNotEmpty DEF Examine, Known, Enter, RecordOpaque, NotCallable, Put
  <2>2. IsFiniteSet(DOMAIN called \cup {name})
    BY FS_AddElement DEF GraphInv
  <2>3. pc' = "disassemble"
    BY <1>2 DEF Examine
  <2> QED BY <2>1, <2>2, <2>3 DEF GraphInv
<1> QED BY <1>1, <1>2

LEMMA GraphsStay ==
  ASSUME program' = program, called' = called, graphs' = graphs
  PROVE  /\ CodeMap' = CodeMap /\ \A s : Copied(s)' = Copied(s)
         /\ [n \in DOMAIN called |-> CallBag(CodeOf(called[n]))]'
              = [n \in DOMAIN called |-> CallBag(CodeOf(called[n]))]
<1>1. \A o : CodeOf(o)' = CodeOf(o)
  BY SameProgram
<1>2. \A c : CallBag(c)' = CallBag(c)
  BY DEF CallBag
<1>3. \A s : Copied(s)' = Copied(s)
  BY DEF Copied, EdgesFrom
<1>4. CodeMap' = CodeMap
  BY <1>1 DEF CodeMap
<1>5. \A n \in DOMAIN called : CallBag(CodeOf(called[n]))' = CallBag(CodeOf(called[n]))
  BY <1>1 DEF CallBag
<1> QED BY <1>3, <1>4, <1>5

LEMMA GraphKept ==
  ASSUME TypeInv, GraphInv, [Next]_vars
  PROVE  GraphInv'
<1>1. CASE Start \/ Examine
  <2>1. pc \in {"start", "disassemble"}
    BY <1>1 DEF Start, Examine
  <2> QED BY <1>1, <2>1, CalledGrows DEF GraphInv
<1>2. CASE Return
  BY <1>2 DEF Return, GraphInv
<1>3. CASE CallGraphs
  <2>1. /\ called' = called /\ program' = program /\ pc' = "combine"
        /\ graphs' = [n \in DOMAIN called |-> CallBag(CodeOf(called[n]))]
    BY <1>3 DEF CallGraphs, tree
  <2>2. [n \in DOMAIN called |-> CallBag(CodeOf(called[n]))]'
          = [n \in DOMAIN called |-> CallBag(CodeOf(called[n]))]
    <3>1. \A n \in DOMAIN called : CallBag(CodeOf(called[n]))' = CallBag(CodeOf(called[n]))
      BY <2>1, SameProgram DEF CallBag
    <3> QED BY <2>1, <3>1
  <2> QED BY <2>1, <2>2 DEF GraphInv
<1>4. CASE Combine
  <2>1. /\ called' = called /\ program' = program /\ graphs' = graphs /\ pc = "combine" /\ pc' = "dependencies"
        /\ master' = FoldSet(AddEdges, EmptyBag, DOMAIN graphs)
    BY <1>4 DEF Combine, tree
  <2>2. graphs = [n \in DOMAIN called |-> CallBag(CodeOf(called[n]))]
    BY <2>1 DEF GraphInv
  <2>3. master' = Copied(DOMAIN graphs)
    BY <2>1, <2>2, BagsCount, UnionOfGraphs DEF GraphInv, TypeInv
  <2> QED BY <2>1, <2>2, <2>3, GraphsStay DEF GraphInv
<1>5. CASE Again \/ Scan \/ Finish \/ UNCHANGED vars
  <2>1. /\ called' = called /\ program' = program /\ graphs' = graphs /\ master' = master
        /\ pc' = pc \/ (pc = "dependencies" /\ pc' = "done")
    BY <1>5 DEF Again, Scan, Finish, vars, tree, deptree
  <2> QED BY <2>1, GraphsStay DEF GraphInv
<1> QED BY <1>1, <1>2, <1>3, <1>4, <1>5 DEF Next

LEMMA Graphs == Spec => [](TypeInv /\ PendingInv /\ GraphInv)
<1>1. Init => GraphInv
  <2> SUFFICES ASSUME Init PROVE GraphInv
    OBVIOUS
  <2>1. DOMAIN called = {} /\ pc = "start"
    BY DEF Init
  <2> QED BY <2>1, FS_EmptySet DEF GraphInv
<1>2. TypeInv /\ GraphInv /\ [Next]_vars => GraphInv'
  BY GraphKept
<1> QED BY <1>1, <1>2, Pending, PTL DEF Spec

-----------------------------------------------------------------------------
(* The call edges of the interprocedural graph.                            *)

LEMMA PartIsText ==
  ASSUME NEW code, IsProgramText(code), NEW b \in Blocks(code), NEW e, e = EndOf(code, b)
  PROVE  LET part == SubSeq(code, b, e)
         IN  /\ IsText(part) /\ Len(part) = e - b + 1
             /\ PartFrom(code, part, b)
<1> DEFINE part == SubSeq(code, b, e)
<1>1. b \in Nat \ {0} /\ e \in Nat /\ b <= e /\ e <= Len(code)
  BY EndFacts
<1>2. DOMAIN code = 1 .. Len(code) /\ Len(code) \in Nat /\ \A k \in DOMAIN code : code[k].arg \in Nat
  BY DEF IsProgramText, IsText
<1>3. \A k \in b .. e : k \in DOMAIN code /\ code[k] \in Range(code)
  BY <1>1, <1>2 DEF Range
<1>4. /\ part \in Seq(Range(code)) /\ Len(part) = e - b + 1
      /\ \A j \in 1 .. e - b + 1 : part[j] = code[b + j - 1]
  BY <1>1, <1>3, SubSeqProperties
<1>5. DOMAIN part = 1 .. e - b + 1 /\ e - b + 1 \in Nat \ {0}
  BY <1>1, <1>4, LenProperties
<1> HIDE DEF part
<1>6. \A j \in DOMAIN part : b + j - 1 \in DOMAIN code /\ part[j] = code[b + j - 1]
  BY <1>1, <1>2, <1>4, <1>5
<1>7. part # <<>>
  BY <1>5
<1>8. IsText(part)
  BY <1>2, <1>4, <1>5, <1>6, <1>7 DEF IsText
<1> QED BY <1>4, <1>6, <1>8 DEF part, PartFrom

LEMMA CallFound ==
  ASSUME NEW code, IsProgramText(code), NEW b \in Blocks(code), NEW i \in b .. EndOf(code, b),
         CalleeInBlock(code, b, i) # <<>>
  PROVE  CallableName(code, i) = CalleeInBlock(code, b, i) /\ NameOf(code, i) = CalleeInBlock(code, b, i)
<1>1. PICK e : e = EndOf(code, b)
  OBVIOUS
<1>2. PICK part : part = SubSeq(code, b, e)
  OBVIOUS
<1>3. /\ IsText(part) /\ Len(part) = e - b + 1
      /\ PartFrom(code, part, b)
  BY <1>1, <1>2, PartIsText
<1>4. b \in Nat \ {0} /\ e \in Nat /\ b <= e /\ e <= Len(code) /\ i \in Nat /\ b <= i /\ i <= e
  BY <1>1, EndFacts
<1>5. PICK j : j = i - b + 1
  OBVIOUS
<1>6. CallableName(part, j) # <<>> /\ CalleeInBlock(code, b, i) = CallableName(part, j)
  BY <1>1, <1>2, <1>5 DEF CalleeInBlock
<1>7. j \in 2 .. Len(part) /\ part[j].op \in {"CALL", "CALL_FUNCTION_EX"}
  BY <1>6 DEF CallableName
<1>8. part[j] = code[i] /\ i \in 2 .. Len(code) /\ j - 1 \in Nat /\ j \in DOMAIN part
  BY <1>3, <1>4, <1>5, <1>7 DEF IsText, IsProgramText, PartFrom
<1>9. PICK covered : covered = AboveCallable(code[i])
  OBVIOUS
<1>10. covered \in Nat
  <2>1. PICK arg \in Nat : arg = code[i].arg
    BY <1>3, <1>8 DEF IsText
  <2>2. 1 + (arg % 2) \in Nat
    OBVIOUS
  <2> QED BY <1>9, <2>1, <2>2 DEF AboveCallable
<1>11. CallableName(part, j) = FindLoader(part, j - 1, covered)
  BY <1>7, <1>8, <1>9 DEF CallableName
<1>12. CallableName(code, i) = FindLoader(code, i - 1, covered)
  BY <1>7, <1>8, <1>9 DEF CallableName
<1>13. b + (j - 1) - 1 = i - 1
  BY <1>4, <1>5
<1>14. FindLoader(code, b + (j - 1) - 1, covered) = FindLoader(part, j - 1, covered)
  <2>1. PICK from \in Nat : from = j - 1
    BY <1>8
  <2>2. IsText(code) /\ FindLoader(part, from, covered) # <<>>
    BY <1>6, <1>11, <2>1 DEF IsProgramText
  <2>3. FindLoader(code, b + from - 1, covered) = FindLoader(part, from, covered)
    BY <1>3, <1>4, <1>10, <2>2, FoundInPart
  <2> QED BY <2>1, <2>3
<1>15. CallableName(code, i) = CalleeInBlock(code, b, i)
  BY <1>6, <1>11, <1>12, <1>13, <1>14
<1> QED BY <1>15 DEF NameOf

(* No instruction is in two blocks.                                        *)
LEMMA BlocksApart ==
  ASSUME NEW code, IsProgramText(code), NEW b \in Blocks(code), NEW c \in Blocks(code), NEW i,
         i \in b .. EndOf(code, b), i \in c .. EndOf(code, c)
  PROVE  b = c
<1>1. PICK e, f : e = EndOf(code, b) /\ f = EndOf(code, c)
  OBVIOUS
<1>2. /\ b \in Nat /\ e \in Nat /\ c \in Nat /\ f \in Nat
      /\ (c > b => c > e) /\ (b > c => b > f)
  BY <1>1, EndFacts
<1>3. i \in b .. e /\ i \in c .. f
  BY <1>1
<1> QED BY <1>2, <1>3

(* An edge, taken apart.                                                   *)
IsCall(c, f, b, i, g) ==
  /\ f \in DOMAIN called /\ CodeOf(called[f]) # <<>> /\ g \in DOMAIN called
  /\ b \in Blocks(CodeOf(called[f])) /\ i \in b .. EndOf(CodeOf(called[f]), b)
  /\ i \in CallSites(CodeOf(called[f])) /\ NameOf(CodeOf(called[f]), i) = g
  /\ c = <<<<f, b>>, i, <<g, 1>>>>

LEMMA CallsTaken ==
  ASSUME program \in Programs, GraphInv, NEW c \in IcfgCalls(CodeMap)
  PROVE  \E f, b, i, g : IsCall(c, f, b, i, g)
<1>1. PICK Code : Code = CodeMap
  OBVIOUS
<1>2. DOMAIN Code = DOMAIN called /\ \A n \in DOMAIN called : Code[n] = CodeOf(called[n])
  BY <1>1 DEF CodeMap
<1>3. PICK f \in {n \in DOMAIN Code : Code[n] # <<>>} : \E b \in Blocks(Code[f]) :
        c \in {<<<<f, b>>, i, <<CalleeInBlock(Code[f], b, i), 1>>>> :
                 i \in {k \in CallSites(Code[f]) \cap (b .. EndOf(Code[f], b)) :
                          LET g == CalleeInBlock(Code[f], b, k)
                          IN  g \in DOMAIN Code /\ Code[g] # <<>>}}
  BY <1>1 DEF IcfgCalls
<1>b. PICK b \in Blocks(Code[f]) :
        c \in {<<<<f, b>>, i, <<CalleeInBlock(Code[f], b, i), 1>>>> :
                 i \in {k \in CallSites(Code[f]) \cap (b .. EndOf(Code[f], b)) :
                          LET g == CalleeInBlock(Code[f], b, k)
                          IN  g \in DOMAIN Code /\ Code[g] # <<>>}}
  BY <1>3
<1>4. PICK i : /\ i \in CallSites(Code[f]) /\ i \in b .. EndOf(Code[f], b)
               /\ CalleeInBlock(Code[f], b, i) \in DOMAIN Code
               /\ c = <<<<f, b>>, i, <<CalleeInBlock(Code[f], b, i), 1>>>>
  BY <1>b
<1>5. PICK g : g = CalleeInBlock(Code[f], b, i)
  OBVIOUS
<1>6. g \in DOMAIN called /\ g # <<>>
  BY <1>2, <1>4, <1>5 DEF GraphInv
<1>7. f \in DOMAIN called /\ Code[f] = CodeOf(called[f]) /\ CodeOf(called[f]) # <<>>
  BY <1>2, <1>3
<1>8. IsProgramText(CodeOf(called[f]))
  BY <1>7, ProgramText
<1>9. NameOf(CodeOf(called[f]), i) = g
  BY <1>3, <1>4, <1>5, <1>6, <1>7, <1>8, CallFound
<1>10. IsCall(c, f, b, i, g)
  BY <1>3, <1>4, <1>5, <1>6, <1>7, <1>9 DEF IsCall
<1> QED BY <1>10

LEMMA MasterCounts ==
  ASSUME TypeInv, GraphInv, pc = "done", NEW f \in DOMAIN called, NEW g \in DOMAIN called,
         NEW i \in CallSites(CodeOf(called[f])), NameOf(CodeOf(called[f]), i) = g
  PROVE  /\ <<f, g>> \in BagToSet(master)
         /\ master[<<f, g>>]
              = Cardinality({k \in CallSites(CodeOf(called[f])) : NameOf(CodeOf(called[f]), k) = g})
<1>1. PICK code : code = CodeOf(called[f])
  OBVIOUS
<1>2. graphs = [n \in DOMAIN called |-> CallBag(CodeOf(called[n]))] /\ master = Copied(DOMAIN graphs)
  BY DEF GraphInv
<1>3. DOMAIN graphs = DOMAIN called /\ graphs[f] = CallBag(code)
  BY <1>1, <1>2
<1>4. g \in DOMAIN graphs[f] /\ graphs[f][g] = Cardinality({k \in CallSites(code) : NameOf(code, k) = g})
  <2>1. g \in {NameOf(code, k) : k \in CallSites(code)} \cap DOMAIN called
    BY <1>1
  <2> QED BY <1>3, <2>1 DEF CallBag
<1>5. <<f, g>> \in EdgesFrom(DOMAIN graphs)
  BY <1>3, <1>4 DEF EdgesFrom
<1>6. DOMAIN master = EdgesFrom(DOMAIN graphs) /\ master[<<f, g>>] = graphs[f][g]
  BY <1>2, <1>5 DEF Copied
<1> QED BY <1>1, <1>4, <1>5, <1>6 DEF BagToSet

LEMMA CallsCounted ==
  ASSUME TypeInv, GraphInv, NEW f \in DOMAIN called, NEW g
  PROVE  Cardinality({d \in IcfgCalls(CodeMap) : d[1][1] = f /\ d[3][1] = g})
           <= Cardinality({k \in CallSites(CodeOf(called[f])) : NameOf(CodeOf(called[f]), k) = g})
<1> DEFINE code == CodeOf(called[f])
           S == {d \in IcfgCalls(CodeMap) : d[1][1] = f /\ d[3][1] = g}
           T == {k \in CallSites(code) : NameOf(code, k) = g}
           h == [d \in S |-> d[2]]
<1>1. ASSUME NEW d \in S
      PROVE  \E b : /\ IsCall(d, f, b, d[2], g)
                    /\ d = <<<<f, b>>, d[2], <<g, 1>>>>
  <2>1. PICK x, b, i, y : IsCall(d, x, b, i, y)
    BY CallsTaken DEF TypeInv
  <2>2. d = <<<<x, b>>, i, <<y, 1>>>>
    BY <2>1 DEF IsCall
  <2>3. x = f /\ y = g /\ i = d[2]
    BY <2>2
  <2> QED BY <2>1, <2>2, <2>3
<1>2. \A d \in S : d[2] \in T
  BY <1>1 DEF IsCall
<1>3. ASSUME NEW d \in S, NEW e \in S, d[2] = e[2] PROVE d = e
  <2>1. PICK b : IsCall(d, f, b, d[2], g) /\ d = <<<<f, b>>, d[2], <<g, 1>>>>
    BY <1>1
  <2>2. PICK c : IsCall(e, f, c, e[2], g) /\ e = <<<<f, c>>, e[2], <<g, 1>>>>
    BY <1>1
  <2>3. IsProgramText(code)
    BY <2>1, ProgramText DEF IsCall, TypeInv
  <2>4. b = c
    BY <1>3, <2>1, <2>2, <2>3, BlocksApart DEF IsCall
  <2> QED BY <1>3, <2>1, <2>2, <2>4
<1> HIDE DEF S, T
<1>4. h \in Injection(S, T)
  BY <1>2, <1>3 DEF Injection, IsInjective
<1>5. IsFiniteSet(T)
  <2>1. T \in SUBSET CallSites(code)
    BY DEF T
  <2> QED BY <2>1, SitesFinite, FS_Subset DEF TypeInv
<1>6. Cardinality(S) <= Cardinality(T)
  BY <1>4, <1>5, FS_Injection
<1> QED BY <1>6 DEF S, T

LEMMA EdgesStart ==
  ASSUME NEW code, NEW b, NEW e \in EdgesOf(code, b)
  PROVE  e = <<b, e[2], e[3]>>
<1>1. e \in {<<b, code[EndOf(code, b)].val, "jump">>} \cup {<<b, c, "next">> : c \in NextBlocks(code, b)}
  BY DEF EdgesOf, CondJumps, Jumps, Returns
<1> QED BY <1>1

LEMMA ReturnsFollow ==
  ASSUME program \in Programs, GraphInv, NEW r \in IcfgReturns(CodeMap)
  PROVE  \E c \in IcfgCalls(CodeMap) : c[3][1] = r[1][1] /\ <<c[1], r[2]>> \in IcfgFlow(CodeMap)
<1>1. PICK Code : Code = CodeMap
  OBVIOUS
<1>2. DOMAIN Code = DOMAIN called /\ \A n \in DOMAIN called : Code[n] = CodeOf(called[n])
  BY <1>1 DEF CodeMap
<1>3. PICK c \in IcfgCalls(Code) :
        r \in {<<<<c[3][1], x>>, <<c[1][1], e[2]>>>> :
                 x \in {y \in Blocks(Code[c[3][1]]) : Code[c[3][1]][EndOf(Code[c[3][1]], y)].op \in Returns},
                 e \in {d \in EdgesOf(Code[c[1][1]], c[1][2]) : d[3] = "next"}}
  BY <1>1 DEF IcfgReturns
<1>4. PICK f, b, i, g : IsCall(c, f, b, i, g)
  BY <1>1, <1>3, CallsTaken
<1>5. c = <<<<f, b>>, i, <<g, 1>>>> /\ c[3][1] = g /\ c[1][1] = f /\ c[1][2] = b /\ c[1] = <<f, b>>
  BY <1>4 DEF IsCall
<1>6. PICK x, e : e \in EdgesOf(Code[f], b) /\ r = <<<<g, x>>, <<f, e[2]>>>>
  BY <1>3, <1>5
<1>7. r[1][1] = g /\ r[2] = <<f, e[2]>> /\ e = <<b, e[2], e[3]>>
  BY <1>6, EdgesStart
<1>8. f \in {n \in DOMAIN Code : Code[n] # <<>>} /\ b \in Blocks(Code[f])
  BY <1>2, <1>4 DEF IsCall
<1>9. e \in CfgEdges(Code[f]) /\ e[1] = b
  BY <1>6, <1>7, <1>8 DEF CfgEdges
<1>10. <<<<f, b>>, <<f, e[2]>>>> \in {<<<<f, d[1]>>, <<f, d[2]>>>> : d \in CfgEdges(Code[f])}
  BY <1>9
<1>11. <<c[1], r[2]>> \in IcfgFlow(Code)
  BY <1>5, <1>7, <1>8, <1>10 DEF IcfgFlow
<1> QED BY <1>1, <1>3, <1>5, <1>7, <1>11

(* The flow graphs of the functions are those of their code, and the       *)
(* interprocedural graph calls and returns only along calls that the call  *)
(* graph counts (main.cpp, generate_cfg_from_instructions, generate_icfg). *)
THEOREM FlowFollowsCode == Spec => []FlowGraphsFaithful
<1>1. TypeInv /\ GraphInv => FlowGraphsFaithful
  <2> SUFFICES ASSUME TypeInv, GraphInv PROVE FlowGraphsFaithful
    OBVIOUS
  <2>1. CfgFaithful
    BY GraphOfFunction DEF TypeInv
  <2>2. ASSUME pc = "done", NEW c \in IcfgCalls(CodeMap)
        PROVE  LET f == c[1][1]  g == c[3][1] IN
               /\ NameOf(CodeMap[f], c[2]) = g
               /\ <<f, g>> \in BagToSet(master)
               /\ Cardinality({d \in IcfgCalls(CodeMap) : d[1][1] = f /\ d[3][1] = g}) <= master[<<f, g>>]
    <3>1. PICK f, b, i, g : IsCall(c, f, b, i, g)
      BY CallsTaken DEF TypeInv
    <3>2. c[1][1] = f /\ c[2] = i /\ c[3][1] = g
      BY <3>1 DEF IsCall
    <3>3. /\ f \in DOMAIN called /\ g \in DOMAIN called /\ CodeMap[f] = CodeOf(called[f])
          /\ i \in CallSites(CodeOf(called[f])) /\ NameOf(CodeOf(called[f]), i) = g
      BY <3>1 DEF IsCall, CodeMap
    <3>4. /\ <<f, g>> \in BagToSet(master)
          /\ master[<<f, g>>]
               = Cardinality({k \in CallSites(CodeOf(called[f])) : NameOf(CodeOf(called[f]), k) = g})
      BY <2>2, <3>3, MasterCounts
    <3>5. Cardinality({d \in IcfgCalls(CodeMap) : d[1][1] = f /\ d[3][1] = g})
            <= Cardinality({k \in CallSites(CodeOf(called[f])) : NameOf(CodeOf(called[f]), k) = g})
      BY <3>3, CallsCounted
    <3> QED BY <3>2, <3>3, <3>4, <3>5
  <2>3. IcfgWithinCalls
    BY <2>2, ReturnsFollow DEF IcfgWithinCalls, TypeInv
  <2> QED BY <2>1, <2>3 DEF FlowGraphsFaithful
<1> QED BY <1>1, Graphs, PTL
=============================================================================
