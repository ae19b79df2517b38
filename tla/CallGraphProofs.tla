-------------------------- MODULE CallGraphProofs --------------------------
(***************************************************************************)
(* Theorems about load_recursive and the call graphs, for every program.   *)
(***************************************************************************)
EXTENDS CallGraph, NaturalSets, TLAPS

-----------------------------------------------------------------------------
(* The answers of the virtual machine.                                     *)

(* What can be loaded: classes with their superclasses.                    *)
Full(L) ==
  /\ L \subseteq Class
  /\ \A c \in L : Line(c) # <<>> /\ \A k \in DOMAIN Line(c) : Line(c)[k] \in L

LEMMA LineType ==
  ASSUME program \in Programs, NEW c
  PROVE  /\ Line(c) \in Seq(Class)
         /\ DOMAIN Line(c) = 1 .. Len(Line(c)) /\ Len(Line(c)) \in Nat
         /\ \A k \in DOMAIN Line(c) :
              /\ Line(c)[k] \in Class
              /\ Line(Line(c)[k]) = SubSeq(Line(c), 1, k)
<1>1. CASE c \notin Class
  BY <1>1 DEF Line
<1>2. CASE c \in Class
  <2>1. Line(c) = program.line[c] /\ Line(c) \in Seq(Class)
    BY <1>2, ProgramsAssumption DEF Line
  <2>2. DOMAIN Line(c) = 1 .. Len(Line(c)) /\ Len(Line(c)) \in Nat
    BY <2>1, LenProperties
  <2>3. \A k \in DOMAIN Line(c) : Line(c)[k] \in Class
    BY <2>1, <2>2, ElementOfSeq
  <2>4. \A k \in DOMAIN Line(c) : program.line[Line(c)[k]] = SubSeq(Line(c), 1, k)
    BY <1>2, <2>1, ProgramsAssumption
  <2> QED BY <2>1, <2>2, <2>3, <2>4 DEF Line
<1> QED BY <1>1, <1>2

LEMMA LineEnds ==
  ASSUME program \in Programs, NEW c, Line(c) # <<>>
  PROVE  /\ c \in Class
         /\ Len(Line(c)) \in DOMAIN Line(c) /\ Line(c)[Len(Line(c))] = c
<1>1. c \in Class /\ Line(c) = program.line[c]
  BY DEF Line
<1>2. Line(c)[Len(Line(c))] = c
  BY <1>1, ProgramsAssumption
<1>3. Len(Line(c)) # 0
  BY LineType, EmptySeq
<1> QED BY <1>1, <1>2, <1>3, LineType

LEMMA PrefixOfLine ==
  ASSUME program \in Programs, NEW c, NEW k \in DOMAIN Line(c)
  PROVE  LET s == SubSeq(Line(c), 1, k)
         IN  s # <<>> /\ DOMAIN s = 1 .. k /\ \A j \in 1 .. k : s[j] = Line(c)[j]
<1>1. k \in 1 .. Len(Line(c)) /\ Len(Line(c)) \in Nat /\ Line(c) \in Seq(Class)
  BY LineType
<1>2. \A j \in 1 .. k : Line(c)[j] \in Class
  BY <1>1, LineType
<1>3. /\ SubSeq(Line(c), 1, k) \in Seq(Class)
      /\ Len(SubSeq(Line(c), 1, k)) = k
      /\ \A j \in 1 .. k : SubSeq(Line(c), 1, k)[j] = Line(c)[j]
  BY <1>1, <1>2, SubSeqProperties
<1>4. DOMAIN SubSeq(Line(c), 1, k) = 1 .. k
  BY <1>3, LenProperties
<1>5. SubSeq(Line(c), 1, k) # <<>>
  BY <1>1, <1>3, EmptySeq
<1> QED BY <1>3, <1>4, <1>5

LEMMA LoadingKeepsFull ==
  ASSUME program \in Programs, NEW L, Full(L), NEW c
  PROVE  /\ Full(LoadedWith(L, c))
         /\ L \subseteq LoadedWith(L, c)
         /\ Loadable(c) => c \in LoadedWith(L, c)
<1> DEFINE M == LoadedWith(L, c)
<1>1. \A b \in M : b \in L \/ \E k \in DOMAIN Line(c) : b = Line(c)[k]
  BY DEF LoadedWith, Range
<1>2. \A k \in DOMAIN Line(c) : Line(c)[k] \in M
  BY DEF LoadedWith, Range
<1>3. L \subseteq M
  BY DEF LoadedWith
<1>4. Loadable(c) => c \in M
  BY <1>2, LineEnds DEF Loadable
<1>5. ASSUME NEW k \in DOMAIN Line(c)
      PROVE  /\ Line(c)[k] \in Class /\ Line(Line(c)[k]) # <<>>
             /\ \A j \in DOMAIN Line(Line(c)[k]) : Line(Line(c)[k])[j] \in M
  <2>1. k \in 1 .. Len(Line(c)) /\ Len(Line(c)) \in Nat
    BY LineType
  <2>2. \A j \in 1 .. k : j \in DOMAIN Line(c)
    BY <2>1, LineType
  <2>3. Line(c)[k] \in Class /\ Line(Line(c)[k]) = SubSeq(Line(c), 1, k)
    BY LineType
  <2> DEFINE s == SubSeq(Line(c), 1, k)
  <2>4. s # <<>> /\ DOMAIN s = 1 .. k /\ \A j \in 1 .. k : s[j] = Line(c)[j]
    BY PrefixOfLine
  <2>5. \A j \in DOMAIN s : s[j] \in M
    BY <1>2, <2>2, <2>4
  <2> HIDE DEF s, M
  <2> QED BY <2>3, <2>4, <2>5 DEF s
<1>6. M \subseteq Class
  BY <1>1, <1>5 DEF Full
<1>7. \A b \in M : Line(b) # <<>> /\ \A k \in DOMAIN Line(b) : Line(b)[k] \in M
  BY <1>1, <1>3, <1>5 DEF Full
<1> HIDE DEF M
<1>8. Full(M)
  BY <1>6, <1>7 DEF Full
<1> QED BY <1>3, <1>4, <1>8 DEF M

LEMMA DeclaredType ==
  ASSUME program \in Programs, NEW tbl, NEW c, NEW n
  PROVE  /\ Declared(tbl, c, n) \subseteq DOMAIN Line(c)
         /\ Declared(tbl, c, n) # {} =>
              /\ Min(Declared(tbl, c, n)) \in Declared(tbl, c, n)
              /\ Max(Declared(tbl, c, n)) \in Declared(tbl, c, n)
<1>1. Declared(tbl, c, n) \subseteq DOMAIN Line(c)
  BY DEF Declared
<1>2. /\ Declared(tbl, c, n) \subseteq Nat
      /\ \A k \in Declared(tbl, c, n) : k <= Len(Line(c))
      /\ Len(Line(c)) \in Nat
  BY <1>1, LineType
<1> QED BY <1>1, <1>2, MinOfPlaces, MaxOfPlaces

LEMMA TablesType ==
  ASSUME program \in Programs, NEW c \in Class
  PROVE  program.direct[c] \subseteq Name /\ program.virtual[c] \subseteq Name
<1>1. program.direct \in [Class -> SUBSET Name] /\ program.virtual \in [Class -> SUBSET Name]
  BY ProgramsAssumption
<1> QED BY <1>1

LEMMA MethodsType ==
  ASSUME program \in Programs, NEW L, L \subseteq Class
  PROVE  /\ MethodsOf(L) \subseteq L \X Name
         /\ \A c \in L, n \in Name : <<c, n>> \in MethodsOf(L) <=>
              n \in program.direct[c] \cup program.virtual[c]
<1>1. \A m \in MethodsOf(L) : \E c \in L : m \in {c} \X (program.direct[c] \cup program.virtual[c])
  BY DEF MethodsOf
<1>2. \A c \in L : {c} \X (program.direct[c] \cup program.virtual[c]) \subseteq MethodsOf(L)
  BY DEF MethodsOf
<1>3. MethodsOf(L) \subseteq L \X Name
  BY <1>1, TablesType
<1> QED BY <1>1, <1>2, <1>3

(* An answer is a method that is loaded, and there is at most one.         *)
LEMMA LookupType ==
  ASSUME program \in Programs, NEW L, Full(L), NEW c, NEW n
  PROVE  /\ Lookup(L, c, n) \subseteq MethodsOf(L)
         /\ \A x, y \in Lookup(L, c, n) : x = y
<1>1. CASE c \notin L
  BY <1>1 DEF Lookup
<1>2. CASE c \in L /\ n \in program.direct[c] \cup program.virtual[c]
  <2>1. Lookup(L, c, n) = {<<c, n>>}
    BY <1>2 DEF Lookup
  <2>2. n \in Name /\ L \subseteq Class
    BY <1>2, TablesType DEF Full
  <2> QED BY <1>2, <2>1, <2>2, MethodsType
<1>3. CASE /\ c \in L /\ n \notin program.direct[c] \cup program.virtual[c]
           /\ Declared("virtual", c, n) # {}
  <2> DEFINE k == Min(Declared("virtual", c, n))
  <2>1. Lookup(L, c, n) = {<<Line(c)[k], n>>}
    BY <1>3 DEF Lookup, Entry
  <2>2. k \in DOMAIN Line(c) /\ n \in program["virtual"][Line(c)[k]]
    BY <1>3, DeclaredType DEF Declared
  <2>3. Line(c)[k] \in L /\ L \subseteq Class
    BY <1>3, <2>2 DEF Full
  <2>4. n \in program.virtual[Line(c)[k]] /\ n \in Name
    BY <2>2, <2>3, TablesType
  <2>5. <<Line(c)[k], n>> \in MethodsOf(L)
    BY <2>3, <2>4, MethodsType
  <2> QED BY <2>1, <2>5
<1>4. CASE /\ c \in L /\ n \notin program.direct[c] \cup program.virtual[c]
           /\ Declared("virtual", c, n) = {}
  <2> DEFINE D == Declared("direct", c, n)
             Lowest == {j \in D : \A i \in D : i <= j}
  <2>1. Lookup(L, c, n) = {<<Line(c)[k], n>> : k \in Lowest}
    BY <1>4 DEF Lookup
  <2>2. D \subseteq Nat
    BY DeclaredType, LineType
  <2>3. \A i, j \in Lowest : i = j
    BY <2>2
  <2>4. ASSUME NEW k \in Lowest PROVE <<Line(c)[k], n>> \in MethodsOf(L)
    <3>1. k \in DOMAIN Line(c) /\ n \in program["direct"][Line(c)[k]]
      BY DEF Declared
    <3>2. Line(c)[k] \in L /\ L \subseteq Class
      BY <1>4, <3>1 DEF Full
    <3>3. n \in program.direct[Line(c)[k]] /\ n \in Name
      BY <3>1, <3>2, TablesType
    <3> QED BY <3>2, <3>3, MethodsType
  <2> HIDE DEF Lowest
  <2> QED BY <2>1, <2>3, <2>4
<1> QED BY <1>1, <1>2, <1>3, <1>4

(* An answer for a class that is loaded, or that never can be, is final.   *)
LEMMA LookupStable ==
  ASSUME NEW L, NEW M, Full(L), Full(M), L \subseteq M,
         NEW c, Loadable(c) => c \in L, NEW n
  PROVE  Lookup(M, c, n) = Lookup(L, c, n)
<1>1. c \in L \/ c \notin M
  BY DEF Full, Loadable
<1> QED BY <1>1 DEF Lookup

LEMMA OverridersType ==
  ASSUME program \in Programs, NEW L, Full(L), NEW m \in MethodsOf(L)
  PROVE  Targets(L, m) \subseteq MethodsOf(L)
<1>1. ASSUME NEW c \in L, m[2] \in program.virtual[c]
      PROVE  <<c, m[2]>> \in MethodsOf(L)
  <2>1. L \subseteq Class
    BY DEF Full
  <2> QED BY <1>1, <2>1, MethodsType, TablesType
<1> QED BY <1>1 DEF Targets, Overriders

LEMMA AnswersKept ==
  ASSUME program' = program
  PROVE  /\ \A c : Line(c)' = Line(c)
         /\ \A tbl, c, n : Declared(tbl, c, n)' = Declared(tbl, c, n)
         /\ \A L, c, n : Lookup(L, c, n)' = Lookup(L, c, n)
         /\ \A c, n : Lookup(loaded, c, n)' = Lookup(loaded', c, n)
         /\ Full(loaded)' <=> Full(loaded')
         /\ \A m : Code(m)' = Code(m)
         /\ \A L : MethodsOf(L)' = MethodsOf(L)
         /\ \A c : Loadable(c)' <=> Loadable(c)
  BY DEF Line, Declared, Entry, Lookup, Code, MethodsOf, Loadable, Full

-----------------------------------------------------------------------------
(* What load_recursive has to do for an instruction, and has done.         *)

Done(m, k) ==
  LET i == Code(m)[k]
  IN  /\ Loadable(i.class) => i.class \in loaded
      /\ i.op \in Reads => Declared("fields", i.class, i.name) # {}
      /\ NeedsOf(i) \subseteq visited

LEMMA DoneStays ==
  ASSUME program \in Programs, program' = program, Full(loaded), Full(loaded)',
         loaded \subseteq loaded', visited \subseteq visited',
         NEW m, NEW k, Done(m, k)
  PROVE  Done(m, k)'
<1> PICK o, c, n : o = Code(m)[k].op /\ c = Code(m)[k].class /\ n = Code(m)[k].name
  OBVIOUS
<1> PICK i : i = Code(m)[k]
  OBVIOUS
<1>1. i.op = o /\ i.class = c /\ i.name = n /\ Code(m)'[k] = i
  BY AnswersKept
<1>2. Loadable(c) => c \in loaded
  BY <1>1 DEF Done
<1>3. Full(loaded')
  BY AnswersKept
<1>4. Lookup(loaded', c, n) = Lookup(loaded, c, n)
  BY <1>2, <1>3, LookupStable
<1>5. ASSUME NEW a \in Lookup(loaded, c, n)
      PROVE  Lookup(loaded', a[1], Clinit) = Lookup(loaded, a[1], Clinit)
  <2>1. a[1] \in loaded
    <3>1. a \in MethodsOf(loaded)
      BY LookupType
    <3>2. MethodsOf(loaded) \subseteq loaded \X Name
      BY MethodsType DEF Full
    <3> QED BY <3>1, <3>2
  <2> QED BY <1>3, <2>1, LookupStable
<1>6. ASSUME o \in Statics
      PROVE  LET b == Line(c)[Max(Declared("fields", c, n))]
             IN  Lookup(loaded', b, Clinit) = Lookup(loaded, b, Clinit)
  <2>1. Declared("fields", c, n) # {}
    BY <1>1, <1>6 DEF Done, Statics, Reads
  <2>2. Max(Declared("fields", c, n)) \in DOMAIN Line(c)
    BY <2>1, DeclaredType
  <2>3. c \in loaded
    BY <1>2, <2>2 DEF Loadable
  <2>4. Line(c)[Max(Declared("fields", c, n))] \in loaded
    BY <2>2, <2>3 DEF Full
  <2> QED BY <1>3, <2>4, LookupStable
<1>7. NeedsOf(i)' = NeedsOf(i)
  BY <1>1, <1>4, <1>5, <1>6, AnswersKept DEF NeedsOf
<1> QED BY <1>1, <1>2, <1>7, AnswersKept DEF Done

(* A call in progress: the instructions before its place are done, and of  *)
(* the one at its place, what has been done is known from its step.        *)
Frames ==
  [method : Class \X Name, at : Nat, step : {"insn", "targets", "enter"},
   todo : SUBSET (Class \X Name)]

FrameInv(f) ==
  LET i == Code(f.method)[f.at]
  IN  /\ f.method \in visited
      /\ \A k \in 1 .. (f.at - 1) : Done(f.method, k)
      /\ f.todo \subseteq MethodsOf(loaded)
      /\ f.step # "insn" =>
           /\ i.op \in Invokes
           /\ Loadable(i.class) => i.class \in loaded
           /\ i.op = "static" => \A m \in Lookup(loaded, i.class, i.name) :
                                    Lookup(loaded, m[1], Clinit) \subseteq visited
      /\ f.step = "enter" => Lookup(loaded, i.class, i.name) \subseteq visited \cup f.todo

StackInv ==
  /\ stack \in Seq(Frames)
  /\ \A f \in Range(stack) : FrameInv(f)

(* A method that has been entered is done, or its call is in progress.     *)
Accounted(m) ==
  \/ \E f \in Range(stack) : f.method = m
  \/ \A k \in DOMAIN Code(m) : Done(m, k)

LoadInv ==
  /\ program \in Programs
  /\ Full(loaded)
  /\ visited \subseteq MethodsOf(loaded)
  /\ StackInv
  /\ \A m \in visited : Accounted(m)
  /\ pc # "load" => stack = <<>>

LEMMA FrameInvStays ==
  ASSUME program \in Programs, program' = program, Full(loaded), Full(loaded'),
         loaded \subseteq loaded', visited \subseteq visited',
         NEW f, FrameInv(f)
  PROVE  FrameInv(f)'
<1> PICK i : i = Code(f.method)[f.at]
  OBVIOUS
<1>1. Code(f.method)'[f.at] = i
  BY AnswersKept
<1>2. Full(loaded)'
  BY AnswersKept
<1>3. \A k \in 1 .. (f.at - 1) : Done(f.method, k)'
  <2>1. \A k \in 1 .. (f.at - 1) : Done(f.method, k)
    BY DEF FrameInv
  <2> QED BY <1>2, <2>1, DoneStays
<1>4. MethodsOf(loaded)' = MethodsOf(loaded') /\ MethodsOf(loaded) \subseteq MethodsOf(loaded')
  BY DEF MethodsOf
<1>5. ASSUME f.step # "insn"
      PROVE  /\ Lookup(loaded', i.class, i.name) = Lookup(loaded, i.class, i.name)
             /\ \A m \in Lookup(loaded, i.class, i.name) :
                  Lookup(loaded', m[1], Clinit) = Lookup(loaded, m[1], Clinit)
  <2>1. Loadable(i.class) => i.class \in loaded
    BY <1>5 DEF FrameInv
  <2>2. Lookup(loaded', i.class, i.name) = Lookup(loaded, i.class, i.name)
    BY <2>1, LookupStable
  <2>3. \A m \in Lookup(loaded, i.class, i.name) : m[1] \in loaded
    <3>1. Lookup(loaded, i.class, i.name) \subseteq MethodsOf(loaded)
      BY LookupType
    <3>2. MethodsOf(loaded) \subseteq loaded \X Name
      BY MethodsType DEF Full
    <3> QED BY <3>1, <3>2
  <2> QED BY <2>2, <2>3, LookupStable
<1> QED BY <1>1, <1>3, <1>4, <1>5, AnswersKept DEF FrameInv

LEMMA GotoVisits ==
  ASSUME NEW f, NEW M, Goto(f, M)
  PROVE  visited' = visited \cup M
  BY DEF Goto

LEMMA NewFrame ==
  ASSUME NEW m \in Class \X Name
  PROVE  /\ Frame(m) \in Frames /\ Frame(m).method = m
         /\ m \in visited' => FrameInv(Frame(m))'
  BY DEF Frame, Frames, FrameInv

LEMMA LoadedMethodsType ==
  ASSUME program \in Programs, Full(loaded)
  PROVE  MethodsOf(loaded) \subseteq Class \X Name
  BY MethodsType DEF Full

(* The first element of s has become f, and maybe g is in front of it.     *)
Replaced(s, t, f, g) ==
  /\ Range(t) \subseteq Range(s) \cup {f, g}
  /\ f \in Range(t) /\ g \in Range(t)
  /\ \A x \in Range(s) : x = s[1] \/ x \in Range(t)

LEMMA TopReplaced ==
  ASSUME NEW S, NEW s \in Seq(S), s # <<>>, NEW f \in S, NEW g \in S
  PROVE  /\ [s EXCEPT ![1] = f] \in Seq(S)
         /\ Replaced(s, [s EXCEPT ![1] = f], f, f)
         /\ <<g, f>> \o Tail(s) \in Seq(S)
         /\ Replaced(s, <<g, f>> \o Tail(s), f, g)
<1> DEFINE t == [s EXCEPT ![1] = f]
           u == <<g, f>> \o Tail(s)
<1>1. Len(s) \in Nat /\ 1 \in 1 .. Len(s) /\ DOMAIN s = 1 .. Len(s)
  BY EmptySeq, LenProperties
<1>2. /\ t \in Seq(S) /\ DOMAIN t = 1 .. Len(s)
      /\ \A j \in 1 .. Len(s) : t[j] = IF j = 1 THEN f ELSE s[j]
  BY <1>1, ExceptSeq, LenProperties
<1>3. /\ Tail(s) \in Seq(S) /\ Len(Tail(s)) = Len(s) - 1
      /\ \A j \in 1 .. (Len(s) - 1) : Tail(s)[j] = s[j + 1]
  BY HeadTailProperties
<1>4. <<g, f>> \in Seq(S) /\ Len(<<g, f>>) = 2
  OBVIOUS
<1>5. /\ u \in Seq(S) /\ Len(u) = Len(s) + 1
      /\ \A j \in 1 .. Len(s) + 1 : u[j] = IF j = 1 THEN g ELSE IF j = 2 THEN f ELSE s[j - 1]
  BY <1>1, <1>3, <1>4, ConcatProperties
<1>6. DOMAIN u = 1 .. Len(s) + 1
  BY <1>5, LenProperties
<1> HIDE DEF t, u
<1>7. Replaced(s, t, f, f)
  BY <1>1, <1>2 DEF Replaced, Range
<1>8. Replaced(s, u, f, g)
  <2>1. \A j \in 1 .. Len(s) : j # 1 => u[j + 1] = s[j] /\ j + 1 \in 1 .. Len(s) + 1
    BY <1>1, <1>5
  <2>2. u[1] = g /\ u[2] = f /\ 1 \in DOMAIN u /\ 2 \in DOMAIN u
    BY <1>1, <1>5, <1>6
  <2>3. \A j \in DOMAIN u : u[j] = g \/ u[j] = f \/ \E k \in DOMAIN s : u[j] = s[k]
    BY <1>1, <1>5, <1>6
  <2> QED BY <1>1, <1>6, <2>1, <2>2, <2>3 DEF Replaced, Range
<1> QED BY <1>2, <1>5, <1>7, <1>8 DEF t, u

(* The top call goes on as f and enters a method of M that is new.         *)
LEMMA GotoKeeps ==
  ASSUME LoadInv, program' = program, pc' = "load", stack # <<>>,
         Full(loaded'), loaded \subseteq loaded',
         NEW f \in Frames, f.method = Top.method, FrameInv(f)',
         NEW M, M \subseteq MethodsOf(loaded'), \A x, y \in M : x = y,
         Goto(f, M)
  PROVE  LoadInv'
<1>1. visited' = visited \cup M
  BY GotoVisits
<1>2. MethodsOf(loaded)' = MethodsOf(loaded') /\ MethodsOf(loaded) \subseteq MethodsOf(loaded')
  BY AnswersKept DEF MethodsOf
<1>3. program' \in Programs /\ Full(loaded)' /\ visited' \subseteq MethodsOf(loaded)'
  BY <1>1, <1>2, AnswersKept DEF LoadInv
<1>4. stack \in Seq(Frames) /\ \A g \in Range(stack) : FrameInv(g)'
  BY <1>1, FrameInvStays DEF LoadInv, StackInv
<1>5. ASSUME NEW m \in visited, \A k \in DOMAIN Code(m) : Done(m, k)
      PROVE  \A k \in DOMAIN Code(m)' : Done(m, k)'
  BY <1>1, <1>3, <1>5, AnswersKept, DoneStays DEF LoadInv
<1>6. ASSUME NEW g, Replaced(stack, stack', f, g), stack' \in Seq(Frames),
             FrameInv(g)', M \subseteq visited \cup {g.method}
      PROVE  LoadInv'
  <2>1. StackInv'
    BY <1>4, <1>6 DEF StackInv, Replaced
  <2>2. ASSUME NEW m \in visited' PROVE Accounted(m)'
    <3>1. m \in visited \/ m = g.method
      BY <1>1, <1>6
    <3>2. CASE m \in visited
      <4>1. Accounted(m)
        BY <3>2 DEF LoadInv
      <4> QED BY <1>5, <1>6, <3>2, <4>1 DEF Accounted, Replaced, Top
    <3> QED BY <1>6, <3>1, <3>2 DEF Accounted, Replaced
  <2> QED BY <1>3, <2>1, <2>2 DEF LoadInv
<1>7. CASE M \subseteq visited
  <2>1. stack' = [stack EXCEPT ![1] = f]
    BY <1>7 DEF Goto
  <2>2. stack' \in Seq(Frames) /\ Replaced(stack, stack', f, f)
    BY <1>4, <2>1, TopReplaced DEF Top
  <2> QED BY <1>6, <1>7, <2>2
<1>8. CASE ~(M \subseteq visited)
  <2>1. PICK m \in M : m = (CHOOSE x \in M : TRUE) /\ M = {m}
    BY <1>8
  <2>2. stack' = <<Frame(m), f>> \o Tail(stack)
    BY <1>8, <2>1 DEF Goto
  <2>3. m \in Class \X Name /\ m \in visited'
    BY <1>1, <1>3, <1>2, <2>1, MethodsType DEF Full
  <2>4. Frame(m) \in Frames /\ Frame(m).method = m /\ FrameInv(Frame(m))'
    BY <2>3, NewFrame
  <2>5. stack' \in Seq(Frames) /\ Replaced(stack, stack', f, Frame(m))
    BY <1>4, <2>2, <2>4, TopReplaced DEF Top
  <2> QED BY <1>6, <2>1, <2>4, <2>5
<1> QED BY <1>7, <1>8

LEMMA TopType ==
  ASSUME LoadInv, stack # <<>>
  PROVE  /\ Top \in Frames /\ Top \in Range(stack) /\ FrameInv(Top)
         /\ Len(Code(Top.method)) \in Nat /\ DOMAIN Code(Top.method) = 1 .. Len(Code(Top.method))
<1>1. stack \in Seq(Frames) /\ \A f \in Range(stack) : FrameInv(f)
  BY DEF LoadInv, StackInv
<1>2. 1 \in 1 .. Len(stack) /\ DOMAIN stack = 1 .. Len(stack)
  BY <1>1, EmptySeq, LenProperties
<1>3. Top \in Frames /\ Top \in Range(stack)
  BY <1>1, <1>2, ElementOfSeq DEF Top, Range
<1>4. Top.method \in Class \X Name
  BY <1>3 DEF Frames
<1> QED BY <1>1, <1>3, <1>4, ProgramsAssumption DEF LoadInv, Code

(* A call goes on to its next instruction when this one is done.           *)
LEMMA NextInsnKeeps ==
  ASSUME LoadInv, stack # <<>>, program' = program, Full(loaded'), loaded \subseteq loaded',
         visited \subseteq visited', NEW m, NEW k, m = Top.method, k = Top.at, Done(m, k)',
         NEW f, f = NextInsn
  PROVE  f \in Frames /\ f.method = Top.method /\ FrameInv(f)'
<1>1. Top \in Frames /\ FrameInv(Top)
  BY TopType
<1>2. PICK t : t = Top
  OBVIOUS
<1>3. FrameInv(t)'
  BY <1>1, <1>2, FrameInvStays DEF LoadInv
<1>4. f = [t EXCEPT !.at = t.at + 1, !.step = "insn", !.todo = {}] /\ t.at \in Nat
  BY <1>1, <1>2 DEF NextInsn, Frames
<1>5. /\ f \in Frames /\ f.method = t.method /\ f.at = t.at + 1
      /\ f.step = "insn" /\ f.todo = {}
  <2>1. t \in [method : Class \X Name, at : Nat, step : {"insn", "targets", "enter"},
               todo : SUBSET (Class \X Name)]
    BY <1>1, <1>2 DEF Frames
  <2>2. f = [method |-> t.method, at |-> t.at + 1, step |-> "insn", todo |-> {}]
    BY <1>4, <2>1
  <2> QED BY <1>4, <2>1, <2>2 DEF Frames
<1>6. \A j \in 1 .. (f.at - 1) : Done(f.method, j)'
  <2>1. \A j \in 1 .. (t.at - 1) : Done(t.method, j)'
    BY <1>3 DEF FrameInv
  <2>2. \A j \in 1 .. (f.at - 1) : j \in 1 .. (t.at - 1) \/ j = k
    BY <1>2, <1>4, <1>5
  <2> QED BY <1>2, <1>5, <2>1, <2>2
<1>7. f.method \in visited'
  BY <1>3, <1>5 DEF FrameInv
<1>8. FrameInv(f)'
  BY <1>5, <1>6, <1>7 DEF FrameInv
<1> QED BY <1>2, <1>5, <1>8

(* Nothing is entered and no call goes on, but classes may be loaded.      *)
LEMMA LoadingKeeps ==
  ASSUME LoadInv, program' = program, Full(loaded'), loaded \subseteq loaded',
         UNCHANGED <<visited, stack>>, pc' # "load" => stack = <<>>
  PROVE  LoadInv'
<1>1. Full(loaded)' /\ program' \in Programs
  BY AnswersKept DEF LoadInv
<1>2. visited' \subseteq MethodsOf(loaded)'
  <2>1. MethodsOf(loaded)' = MethodsOf(loaded') /\ MethodsOf(loaded) \subseteq MethodsOf(loaded')
    BY DEF MethodsOf
  <2> QED BY <2>1 DEF LoadInv
<1>3. StackInv'
  BY FrameInvStays DEF LoadInv, StackInv
<1>4. ASSUME NEW m \in visited PROVE Accounted(m)'
  <2>1. Accounted(m)
    BY DEF LoadInv
  <2>2. (\A k \in DOMAIN Code(m) : Done(m, k)) => \A k \in DOMAIN Code(m)' : Done(m, k)'
    BY <1>1, AnswersKept, DoneStays DEF LoadInv
  <2> QED BY <2>1, <2>2 DEF Accounted
<1> QED BY <1>1, <1>2, <1>3, <1>4 DEF LoadInv

LEMMA LoadClassKeeps ==
  ASSUME LoadInv, LoadClass
  PROVE  LoadInv'
<1>1. /\ stack # <<>> /\ pc = "load" /\ pc' = "load" /\ program' = program
      /\ Insn.op \in {"new", "cast"} /\ loaded' = LoadedWith(loaded, Insn.class)
  BY DEF LoadClass, InFrame, At
<1>2. Full(loaded') /\ loaded \subseteq loaded' /\ (Loadable(Insn.class) => Insn.class \in loaded')
  BY <1>1, LoadingKeepsFull DEF LoadInv
<1>3. CASE UNCHANGED <<visited, stack>>
  BY <1>1, <1>2, <1>3, LoadingKeeps
<1>4. CASE Goto(NextInsn, {})
  <2>1. PICK f, m, k : f = NextInsn /\ m = Top.method /\ k = Top.at
    OBVIOUS
  <2>2. visited' = visited
    BY <1>4, GotoVisits
  <2>3. Done(m, k)'
    <3>1. PICK i : i = Insn
      OBVIOUS
    <3>2. Code(m)'[k] = i
      BY <1>1, <2>1, <3>1, AnswersKept DEF Insn
    <3>3. NeedsOf(i)' = {} /\ i.op \notin Reads
      BY <1>1, <3>1 DEF NeedsOf, Invokes, Statics, Reads
    <3>4. Loadable(i.class)' => i.class \in loaded'
      BY <1>1, <1>2, <3>1, AnswersKept
    <3> QED BY <3>2, <3>3, <3>4 DEF Done
  <2>4. f \in Frames /\ f.method = Top.method /\ FrameInv(f)'
    BY <1>1, <1>2, <2>1, <2>2, <2>3, NextInsnKeeps
  <2> QED BY <1>1, <1>2, <1>4, <2>1, <2>4, GotoKeeps
<1> QED BY <1>3, <1>4 DEF LoadClass, loading

LEMMA LoadFieldKeeps ==
  ASSUME LoadInv, LoadField
  PROVE  LoadInv'
<1> DEFINE where == Declared("fields", Insn.class, Insn.name)
           init == IF Insn.op \in Statics
                   THEN Lookup(loaded', Line(Insn.class)[Max(where)], Clinit) ELSE {}
<1>1. /\ stack # <<>> /\ pc = "load" /\ pc' = "load" /\ program' = program
      /\ Insn.op \in Reads /\ loaded' = LoadedWith(loaded, Insn.class)
  BY DEF LoadField, InFrame, At
<1>2. Full(loaded') /\ loaded \subseteq loaded' /\ (Loadable(Insn.class) => Insn.class \in loaded')
  BY <1>1, LoadingKeepsFull DEF LoadInv
<1>3. CASE UNCHANGED <<visited, stack>>
  BY <1>1, <1>2, <1>3, LoadingKeeps
<1>4. CASE where # {} /\ Goto(NextInsn, init)
  <2>1. PICK f, m, k, M : f = NextInsn /\ m = Top.method /\ k = Top.at /\ M = init
    OBVIOUS
  <2>2. visited' = visited \cup M
    BY <1>4, <2>1, GotoVisits
  <2>3. Done(m, k)'
    <3>1. PICK i : i = Insn
      OBVIOUS
    <3>2. Code(m)'[k] = i
      BY <1>1, <2>1, <3>1, AnswersKept DEF Insn
    <3>3. Declared("fields", i.class, i.name)' # {}
      BY <1>1, <1>4, <3>1, AnswersKept
    <3>4. Loadable(i.class)' => i.class \in loaded'
      BY <1>1, <1>2, <3>1, AnswersKept
    <3>5. i.op \notin Invokes /\ i.op # "static"
      BY <1>1, <3>1 DEF Invokes, Reads
    <3>6. NeedsOf(i)' \subseteq visited'
      <4>1. CASE i.op \in Statics
        BY <1>1, <2>1, <2>2, <3>1, <3>5, <4>1, AnswersKept DEF NeedsOf
      <4>2. CASE i.op \notin Statics
        BY <3>5, <4>2 DEF NeedsOf
      <4> QED BY <4>1, <4>2
    <3> QED BY <3>2, <3>3, <3>4, <3>6 DEF Done
  <2>4. f \in Frames /\ f.method = Top.method /\ FrameInv(f)'
    BY <1>1, <1>2, <2>1, <2>2, <2>3, NextInsnKeeps
  <2>5. M \subseteq MethodsOf(loaded') /\ \A x, y \in M : x = y
    BY <1>2, <2>1, LookupType DEF LoadInv
  <2> QED BY <1>1, <1>2, <1>4, <2>1, <2>4, <2>5, GotoKeeps
<1> QED BY <1>1, <1>3, <1>4 DEF LoadField, loading

LEMMA FindCalleeKeeps ==
  ASSUME LoadInv, FindCallee
  PROVE  LoadInv'
<1> DEFINE callee == Lookup(loaded', Insn.class, Insn.name)
           init == IF Insn.op = "static"
                   THEN UNION {Lookup(loaded', m[1], Clinit) : m \in callee} ELSE {}
<1>1. /\ stack # <<>> /\ pc = "load" /\ pc' = "load" /\ program' = program
      /\ Insn.op \in Invokes /\ loaded' = LoadedWith(loaded, Insn.class)
  BY DEF FindCallee, InFrame, At
<1>2. Full(loaded') /\ loaded \subseteq loaded' /\ (Loadable(Insn.class) => Insn.class \in loaded')
  BY <1>1, LoadingKeepsFull DEF LoadInv
<1>3. CASE callee = {} /\ Goto(NextInsn, {})
  <2>1. PICK f, m, k : f = NextInsn /\ m = Top.method /\ k = Top.at
    OBVIOUS
  <2>2. visited' = visited
    BY <1>3, GotoVisits
  <2>3. Done(m, k)'
    <3>1. PICK i : i = Insn
      OBVIOUS
    <3>2. Code(m)'[k] = i
      BY <1>1, <2>1, <3>1, AnswersKept DEF Insn
    <3>3. i.op \notin Reads /\ i.op \notin Statics
      BY <1>1, <3>1 DEF Invokes, Reads, Statics
    <3>4. Loadable(i.class)' => i.class \in loaded'
      BY <1>1, <1>2, <3>1, AnswersKept
    <3>5. NeedsOf(i)' = {}
      BY <1>1, <1>3, <3>1, <3>3, AnswersKept DEF NeedsOf
    <3> QED BY <3>2, <3>3, <3>4, <3>5 DEF Done
  <2>4. f \in Frames /\ f.method = Top.method /\ FrameInv(f)'
    BY <1>1, <1>2, <2>1, <2>2, <2>3, NextInsnKeeps
  <2> QED BY <1>1, <1>2, <1>3, <2>1, <2>4, GotoKeeps
<1>4. CASE Goto([Top EXCEPT !.step = "targets"], init)
  <2>1. PICK f, t, M, i : f = [Top EXCEPT !.step = "targets"] /\ t = Top /\ M = init /\ i = Insn
    OBVIOUS
  <2>2. visited' = visited \cup M
    BY <1>4, <2>1, GotoVisits
  <2>3. t \in Frames /\ FrameInv(t)'
    BY <1>1, <1>2, <2>1, <2>2, TopType, FrameInvStays DEF LoadInv
  <2>4. /\ f \in Frames /\ f.method = t.method /\ f.at = t.at
        /\ f.step = "targets" /\ f.todo = t.todo
    BY <2>1, <2>3 DEF Frames
  <2>5. Code(f.method)'[f.at] = i
    BY <1>1, <2>1, <2>4, AnswersKept DEF Insn
  <2>6. i.op = "static" => \A m \in Lookup(loaded', i.class, i.name) :
                              Lookup(loaded', m[1], Clinit) \subseteq visited'
    BY <2>1, <2>2
  <2>7. FrameInv(f)'
    BY <1>1, <1>2, <2>1, <2>3, <2>4, <2>5, <2>6, AnswersKept DEF FrameInv
  <2>8. M \subseteq MethodsOf(loaded') /\ \A x, y \in M : x = y
    BY <1>2, <2>1, LookupType DEF LoadInv
  <2> QED BY <1>1, <1>2, <1>4, <2>1, <2>4, <2>7, <2>8, GotoKeeps
<1> QED BY <1>3, <1>4 DEF FindCallee

LEMMA CollectTargetsKeeps ==
  ASSUME LoadInv, CollectTargets
  PROVE  LoadInv'
<1> DEFINE callee == Lookup(loaded, Insn.class, Insn.name)
           all == UNION {Targets(loaded, m) : m \in callee}
<1>1. /\ stack # <<>> /\ pc = "load" /\ pc' = "load" /\ program' = program
      /\ Top.step = "targets" /\ loaded' = loaded
      /\ Goto([Top EXCEPT !.step = "enter", !.todo = all], {})
  BY DEF CollectTargets, InFrame, At
<1>3. PICK f, t, todo, i : /\ f = [t EXCEPT !.step = "enter", !.todo = todo]
                           /\ t = Top /\ todo = all /\ i = Insn
  OBVIOUS
<1>2. Goto(f, {}) /\ visited' = visited
  <2>1. Goto(f, {})
    BY <1>1, <1>3
  <2> QED BY <2>1, GotoVisits
<1>4. t \in Frames /\ FrameInv(t)' /\ FrameInv(t)
  BY <1>1, <1>2, <1>3, TopType, FrameInvStays DEF LoadInv
<1>5. callee \subseteq all /\ all \subseteq MethodsOf(loaded)
  <2>1. callee \subseteq MethodsOf(loaded)
    BY LookupType DEF LoadInv
  <2>2. \A m \in callee : m \in Targets(loaded, m) /\ Targets(loaded, m) \subseteq MethodsOf(loaded)
    BY <2>1, OverridersType DEF LoadInv, Targets
  <2> QED BY <2>2
<1>6. todo \subseteq Class \X Name
  BY <1>3, <1>5, LoadedMethodsType DEF LoadInv
<1>7. /\ f \in Frames /\ f.method = t.method /\ f.at = t.at
      /\ f.step = "enter" /\ f.todo = todo
  BY <1>3, <1>4, <1>6 DEF Frames
<1>8. Code(f.method)'[f.at] = i /\ Code(t.method)'[t.at] = i
  BY <1>1, <1>3, <1>7, AnswersKept DEF Insn
<1>9. MethodsOf(loaded)' = MethodsOf(loaded)
  BY <1>1 DEF MethodsOf
<1>10. FrameInv(f)'
  BY <1>1, <1>2, <1>3, <1>4, <1>5, <1>7, <1>8, <1>9, AnswersKept DEF FrameInv
<1> QED BY <1>1, <1>2, <1>3, <1>7, <1>10, GotoKeeps DEF LoadInv

LEMMA EnterTargetKeeps ==
  ASSUME LoadInv, EnterTarget
  PROVE  LoadInv'
<1>1. /\ stack # <<>> /\ pc = "load" /\ pc' = "load" /\ program' = program
      /\ Top.step = "enter" /\ loaded' = loaded
  BY DEF EnterTarget, InFrame, At
<1>2. PICK m \in Top.todo : Goto([Top EXCEPT !.todo = @ \ {m}], {m})
  BY DEF EnterTarget
<1>3. PICK f, t : f = [t EXCEPT !.todo = t.todo \ {m}] /\ t = Top
  OBVIOUS
<1>4. visited' = visited \cup {m}
  BY <1>2, GotoVisits
<1>5. t \in Frames /\ FrameInv(t)' /\ FrameInv(t)
  BY <1>1, <1>3, <1>4, TopType, FrameInvStays DEF LoadInv
<1>6. /\ f \in Frames /\ f.method = t.method /\ f.at = t.at
      /\ f.step = "enter" /\ f.todo = t.todo \ {m}
  BY <1>1, <1>3, <1>5 DEF Frames
<1>7. {m} \subseteq MethodsOf(loaded)
  BY <1>3, <1>5 DEF FrameInv
<1>8. FrameInv(f)'
  BY <1>1, <1>3, <1>4, <1>5, <1>6 DEF FrameInv
<1> QED BY <1>1, <1>2, <1>3, <1>6, <1>7, <1>8, GotoKeeps DEF LoadInv

LEMMA TargetsEnteredKeeps ==
  ASSUME LoadInv, TargetsEntered
  PROVE  LoadInv'
<1>1. /\ stack # <<>> /\ pc = "load" /\ pc' = "load" /\ program' = program
      /\ Top.step = "enter" /\ Top.todo = {} /\ loaded' = loaded /\ Goto(NextInsn, {})
  BY DEF TargetsEntered, InFrame, At
<1>2. visited' = visited
  BY <1>1, GotoVisits
<1>3. PICK f, m, k, t, i : /\ f = NextInsn /\ m = Top.method /\ k = Top.at /\ t = Top
                           /\ i = Code(m)[k]
  OBVIOUS
<1>4. FrameInv(t)
  BY <1>1, <1>3, TopType
<1>5. Done(m, k)
  <2>1. /\ i.op \in Invokes /\ (Loadable(i.class) => i.class \in loaded)
        /\ i.op = "static" => \A a \in Lookup(loaded, i.class, i.name) :
                                Lookup(loaded, a[1], Clinit) \subseteq visited
        /\ Lookup(loaded, i.class, i.name) \subseteq visited
    BY <1>1, <1>3, <1>4 DEF FrameInv
  <2>2. i.op \notin Reads /\ i.op \notin Statics
    BY <2>1 DEF Invokes, Reads, Statics
  <2>3. NeedsOf(i) \subseteq visited
    BY <2>1, <2>2 DEF NeedsOf
  <2> QED BY <1>3, <2>1, <2>2, <2>3 DEF Done
<1>6. Done(m, k)'
  BY <1>1, <1>2, <1>5, AnswersKept, DoneStays DEF LoadInv
<1>7. f \in Frames /\ f.method = Top.method /\ FrameInv(f)'
  BY <1>1, <1>2, <1>3, <1>6, NextInsnKeeps DEF LoadInv
<1> QED BY <1>1, <1>3, <1>7, GotoKeeps DEF LoadInv

LEMMA ReturnKeeps ==
  ASSUME LoadInv, Return
  PROVE  LoadInv'
<1>1. /\ stack # <<>> /\ pc = "load" /\ program' = program /\ loaded' = loaded
      /\ visited' = visited /\ stack' = Tail(stack) /\ Top.at > Len(Code(Top.method))
      /\ pc' # "load" => stack' = <<>>
  BY DEF Return, InFrame, At
<1>2. stack \in Seq(Frames) /\ \A f \in Range(stack) : FrameInv(f)
  BY DEF LoadInv, StackInv
<1>3. /\ stack' \in Seq(Frames) /\ Range(stack') \subseteq Range(stack)
      /\ \A f \in Range(stack) : f = Top \/ f \in Range(stack')
  <2>1. /\ Tail(stack) \in Seq(Frames) /\ Len(Tail(stack)) = Len(stack) - 1
        /\ \A j \in 1 .. (Len(stack) - 1) : Tail(stack)[j] = stack[j + 1]
    BY <1>1, <1>2, HeadTailProperties
  <2>2. /\ DOMAIN stack = 1 .. Len(stack) /\ Len(stack) \in Nat
        /\ DOMAIN Tail(stack) = 1 .. (Len(stack) - 1)
    BY <1>2, <2>1, LenProperties
  <2>3. \A j \in DOMAIN stack : j = 1 \/ (j - 1 \in DOMAIN Tail(stack) /\ Tail(stack)[j - 1] = stack[j])
    BY <2>1, <2>2
  <2>4. \A j \in DOMAIN Tail(stack) : j + 1 \in DOMAIN stack
    BY <2>2
  <2>5. \A j \in DOMAIN Tail(stack) : Tail(stack)[j] \in Range(stack)
    BY <2>1, <2>2, <2>4 DEF Range
  <2>6. Range(Tail(stack)) \subseteq Range(stack)
    BY <2>5 DEF Range
  <2>7. \A j \in DOMAIN stack : j = 1 \/ stack[j] \in Range(Tail(stack))
    BY <2>3 DEF Range
  <2>8. \A f \in Range(stack) : f = Top \/ f \in Range(Tail(stack))
    BY <2>7 DEF Range, Top
  <2> QED BY <1>1, <2>1, <2>6, <2>8
<1>4. \A f \in Range(stack) : FrameInv(f)'
  BY <1>1, <1>2, FrameInvStays DEF LoadInv
<1>5. StackInv'
  BY <1>3, <1>4 DEF StackInv
<1>6. \A k \in DOMAIN Code(Top.method) : Done(Top.method, k)
  <2>1. /\ FrameInv(Top) /\ Top.at \in Nat /\ Len(Code(Top.method)) \in Nat
        /\ DOMAIN Code(Top.method) = 1 .. Len(Code(Top.method))
    BY <1>1, TopType DEF Frames
  <2> QED BY <1>1, <2>1 DEF FrameInv
<1>7. ASSUME NEW m \in visited PROVE Accounted(m)'
  <2>1. (\A k \in DOMAIN Code(m) : Done(m, k)) => \A k \in DOMAIN Code(m)' : Done(m, k)'
    BY <1>1, AnswersKept, DoneStays DEF LoadInv
  <2>2. (\E f \in Range(stack') : f.method = m) \/ \A k \in DOMAIN Code(m) : Done(m, k)
    BY <1>3, <1>6 DEF LoadInv, Accounted
  <2> QED BY <2>1, <2>2 DEF Accounted
<1>8. Full(loaded)' /\ MethodsOf(loaded)' = MethodsOf(loaded)
  BY <1>1, AnswersKept DEF LoadInv, MethodsOf
<1> QED BY <1>1, <1>5, <1>7, <1>8 DEF LoadInv

LEMMA FindEntryKeeps ==
  ASSUME LoadInv, visited = {}, FindEntry
  PROVE  LoadInv'
<1> DEFINE c == program.entry[1]
           entry == Lookup(loaded', c, program.entry[2])
<1>1. program' = program /\ pc = "find" /\ stack = <<>> /\ loaded' = LoadedWith(loaded, c)
  BY DEF FindEntry, At, LoadInv
<1>2. Full(loaded') /\ loaded \subseteq loaded'
  BY <1>1, LoadingKeepsFull DEF LoadInv
<1>3. CASE UNCHANGED <<visited, stack, pc>>
  BY <1>1, <1>2, <1>3, LoadingKeeps
<1>4. CASE /\ entry # {} /\ visited' = entry /\ pc' = "load"
           /\ stack' = <<Frame(CHOOSE m \in visited' : TRUE)>>
  <2>1. entry \subseteq MethodsOf(loaded') /\ \A x, y \in entry : x = y
    BY <1>2, LookupType DEF LoadInv
  <2>2. PICK m : visited' = {m} /\ m = (CHOOSE x \in visited' : TRUE)
    BY <1>4, <2>1
  <2>3. MethodsOf(loaded)' = MethodsOf(loaded') /\ Full(loaded)' /\ program' \in Programs
    BY <1>1, <1>2, AnswersKept DEF LoadInv
  <2>4. visited' \subseteq MethodsOf(loaded') /\ m \in Class \X Name
    BY <1>2, <1>4, <2>1, <2>2, MethodsType DEF Full, LoadInv
  <2>5. Frame(m) \in Frames /\ Frame(m).method = m /\ FrameInv(Frame(m))'
    BY <2>2, <2>4, NewFrame
  <2>6. stack' = <<Frame(m)>> /\ stack' \in Seq(Frames) /\ Range(stack') = {Frame(m)}
    BY <1>4, <2>2, <2>5 DEF Range
  <2>7. StackInv'
    BY <2>5, <2>6 DEF StackInv
  <2>8. \A x \in visited' : Accounted(x)'
    BY <2>2, <2>5, <2>6 DEF Accounted
  <2> QED BY <1>4, <2>3, <2>4, <2>7, <2>8 DEF LoadInv
<1> QED BY <1>3, <1>4 DEF FindEntry, loading

(* The other parts only load classes.                                      *)
LEMMA OtherStepsKeep ==
  ASSUME LoadInv, AddCallGraphEdges \/ MakeChaCallGraph \/ UNCHANGED vars
  PROVE  LoadInv'
<1>1. program' = program /\ UNCHANGED <<visited, stack>>
  BY DEF AddCallGraphEdges, MakeChaCallGraph, StartCha, TakeMethod, SkipInsn, WalkCall,
         MethodWalked, ChaDone, vars, loading
<1>2. loaded' = loaded \/ \E c : loaded' = LoadedWith(loaded, c)
  BY DEF AddCallGraphEdges, MakeChaCallGraph, StartCha, TakeMethod, SkipInsn, WalkCall,
         MethodWalked, ChaDone, vars
<1>3. Full(loaded') /\ loaded \subseteq loaded'
  BY <1>2, LoadingKeepsFull DEF LoadInv
<1>4. pc' # "load" => stack = <<>>
  BY DEF AddCallGraphEdges, MakeChaCallGraph, StartCha, TakeMethod, SkipInsn, WalkCall,
         MethodWalked, ChaDone, vars, At, Walking, LoadInv
<1> QED BY <1>1, <1>3, <1>4, LoadingKeeps

EntryInv == pc = "find" => visited = {}

LEMMA LoadInvInductive ==
  /\ Init => LoadInv /\ EntryInv
  /\ LoadInv /\ EntryInv /\ [Next]_vars => LoadInv' /\ EntryInv'
<1>1. ASSUME Init PROVE LoadInv /\ EntryInv
  <2>1. Full(loaded) /\ MethodsOf(loaded) = {}
    BY <1>1 DEF Init, Full, MethodsOf
  <2>2. stack = <<>> /\ stack \in Seq(Frames) /\ Range(stack) = {}
    BY <1>1 DEF Init, Range
  <2> QED BY <1>1, <2>1, <2>2 DEF Init, LoadInv, EntryInv, StackInv
<1>2. ASSUME LoadInv, EntryInv, [Next]_vars PROVE LoadInv'
  <2>1. CASE FindEntry
    BY <1>2, <2>1, FindEntryKeeps DEF FindEntry, At, EntryInv
  <2>2. CASE LoadClass \/ LoadField \/ FindCallee
    BY <1>2, <2>2, LoadClassKeeps, LoadFieldKeeps, FindCalleeKeeps
  <2>3. CASE CollectTargets \/ EnterTarget \/ TargetsEntered \/ Return
    BY <1>2, <2>3, CollectTargetsKeeps, EnterTargetKeeps, TargetsEnteredKeeps, ReturnKeeps
  <2>4. CASE AddCallGraphEdges \/ MakeChaCallGraph \/ UNCHANGED vars
    BY <1>2, <2>4, OtherStepsKeep
  <2> QED BY <1>2, <2>1, <2>2, <2>3, <2>4 DEF Next, LoadRecursive
<1>3. ASSUME EntryInv, [Next]_vars PROVE EntryInv'
  <2>1. CASE FindEntry
    BY <1>3, <2>1 DEF FindEntry, At, EntryInv, loading
  <2>2. CASE LoadClass \/ LoadField \/ FindCallee \/ CollectTargets \/ EnterTarget
             \/ TargetsEntered \/ Return
    BY <2>2 DEF LoadClass, LoadField, FindCallee, CollectTargets, EnterTarget,
                TargetsEntered, Return, InFrame, At, EntryInv
  <2>3. CASE AddCallGraphEdges \/ MakeChaCallGraph
    BY <2>3 DEF AddCallGraphEdges, MakeChaCallGraph, StartCha, TakeMethod, SkipInsn, WalkCall,
         MethodWalked, ChaDone, At, Walking, EntryInv
  <2>4. CASE UNCHANGED vars
    BY <1>3, <2>4 DEF vars, loading, EntryInv
  <2> QED BY <1>3, <2>1, <2>2, <2>3, <2>4 DEF Next, LoadRecursive
<1> QED BY <1>1, <1>2, <1>3

(* When load_recursive has returned, nothing is in progress: every method  *)
(* it entered has all it needs loaded and entered, and stays so while the  *)
(* call graphs are made.                                                   *)
THEOREM LoadedClosed == Spec => []VisitedClosed
<1>1. LoadInv /\ EntryInv => VisitedClosed
  <2> SUFFICES ASSUME LoadInv, EntryInv, pc \notin {"find", "load"}, NEW m \in visited,
                      NEW k \in DOMAIN Code(m)
               PROVE  /\ Loadable(Code(m)[k].class) => Code(m)[k].class \in loaded
                      /\ NeedsOf(Code(m)[k]) \subseteq visited
    BY DEF VisitedClosed
  <2>1. stack = <<>> /\ Range(stack) = {}
    BY DEF LoadInv, Range
  <2>2. Done(m, k)
    BY <2>1 DEF LoadInv, Accounted
  <2> QED BY <2>2 DEF Done
<1> QED BY <1>1, LoadInvInductive, PTL DEF Spec

-----------------------------------------------------------------------------
(* The call edges of the method graph.                                     *)

EdgeInv ==
  /\ \A e \in BagToSet(calls) :
       calls[e] = 1 /\ \A f \in BagToSet(calls) : f[1] = e[1] /\ f[2] = e[2] => f = e
  /\ pc \in {"find", "load", "edges"} => BagToSet(calls) = {}
  /\ \A L : pc = "start" /\ L = loaded =>
       BagToSet(calls) = UNION {CallsOf(L, m) : m \in MethodsOf(L)}

LEMMA EdgesAdded ==
  ASSUME NEW B, NEW S
  PROVE  /\ BagToSet(B (+) SetToBag(S)) = BagToSet(B) \cup S
         /\ \A e \in BagToSet(B) \cup S :
              (B (+) SetToBag(S))[e] = (IF e \in BagToSet(B) THEN B[e] ELSE 0)
                                       + (IF e \in S THEN 1 ELSE 0)
  BY DEF BagToSet, SetToBag, (+)

LEMMA CallsOfType ==
  ASSUME program \in Programs, Full(loaded), NEW m
  PROVE  \A e, f \in CallsOf(loaded, m) : e[1] = m /\ (f[2] = e[2] => f = e)
<1> DEFINE K == {i \in DOMAIN Code(m) : Code(m)[i].op \in Invokes}
           Of(k) == Lookup(loaded, Code(m)[k].class, Code(m)[k].name)
<1>1. \A e \in CallsOf(loaded, m) : \E k \in K : \E t \in Of(k) : e = <<m, k, t>>
  BY DEF CallsOf
<1>2. \A k : \A s, t \in Of(k) : s = t
  BY LookupType
<1> HIDE DEF K, Of
<1> QED BY <1>1, <1>2

LEMMA CallsOfKept ==
  ASSUME program' = program
  PROVE  \A L, m : CallsOf(L, m)' = CallsOf(L, m)
  BY DEF CallsOf, Lookup, Line, Declared, Entry, Code

LEMMA EdgeInvInductive ==
  /\ Init => EdgeInv
  /\ LoadInv /\ EdgeInv /\ [Next]_vars => EdgeInv'
<1>1. ASSUME Init PROVE EdgeInv
  BY <1>1 DEF Init, EdgeInv, EmptyBag, SetToBag, BagToSet
<1>2. ASSUME LoadInv, EdgeInv, AddCallGraphEdges PROVE EdgeInv'
  <2> DEFINE S == UNION {CallsOf(loaded, m) : m \in {n \in MethodsOf(loaded) : ~HasCallEdge(n)}}
  <2>1. calls' = calls (+) SetToBag(S) /\ program' = program /\ loaded' = loaded
    BY <1>2 DEF AddCallGraphEdges
  <2>2. \A e \in S : \E m \in MethodsOf(loaded) : ~HasCallEdge(m) /\ e \in CallsOf(loaded, m)
    OBVIOUS
  <2>3. \A e \in S : e \notin BagToSet(calls) /\ \A f \in BagToSet(calls) : f[1] # e[1]
    BY <1>2, <2>2, CallsOfType DEF HasCallEdge, LoadInv
  <2>4. \A e, f \in S : f[1] = e[1] /\ f[2] = e[2] => f = e
    BY <1>2, <2>2, CallsOfType DEF LoadInv
  <2>5. pc' \in {"start", "done"} /\ (pc' = "start" => pc = "edges")
    BY <1>2 DEF AddCallGraphEdges, At
  <2>6. pc = "edges" => S = UNION {CallsOf(loaded, m) : m \in MethodsOf(loaded)}
    BY <1>2 DEF EdgeInv, HasCallEdge
  <2>7. \A L : L = loaded' =>
          /\ (UNION {CallsOf(L, m) : m \in MethodsOf(L)})'
               = UNION {CallsOf(loaded, m) : m \in MethodsOf(loaded)}
    BY <2>1, AnswersKept, CallsOfKept
  <2> HIDE DEF S
  <2>8. /\ BagToSet(calls)' = BagToSet(calls) \cup S
        /\ \A e \in BagToSet(calls) \cup S :
             calls'[e] = (IF e \in BagToSet(calls) THEN calls[e] ELSE 0) + (IF e \in S THEN 1 ELSE 0)
    BY <2>1, EdgesAdded DEF BagToSet
  <2>9. \A e \in BagToSet(calls)' :
          calls'[e] = 1 /\ \A f \in BagToSet(calls)' : f[1] = e[1] /\ f[2] = e[2] => f = e
    BY <1>2, <2>3, <2>4, <2>8 DEF EdgeInv
  <2>10. pc' = "start" => BagToSet(calls)' = UNION {CallsOf(loaded, m) : m \in MethodsOf(loaded)}
    BY <1>2, <2>5, <2>6, <2>8 DEF EdgeInv
  <2> QED BY <2>5, <2>7, <2>9, <2>10 DEF EdgeInv
<1>3. ASSUME LoadInv, EdgeInv, LoadRecursive \/ MakeChaCallGraph \/ UNCHANGED vars PROVE EdgeInv'
  <2>1. calls' = calls
    BY <1>3 DEF LoadRecursive, FindEntry, LoadClass, LoadField, FindCallee, CollectTargets,
         EnterTarget, TargetsEntered, Return, MakeChaCallGraph, StartCha, TakeMethod, SkipInsn,
         WalkCall, MethodWalked, ChaDone, vars
  <2>2. /\ pc' = "start" => UNCHANGED vars
        /\ pc' \in {"find", "load", "edges"} => pc \in {"find", "load", "edges"}
    BY <1>3 DEF LoadRecursive, FindEntry, LoadClass, LoadField, FindCallee, CollectTargets,
         EnterTarget, TargetsEntered, Return, MakeChaCallGraph, StartCha, TakeMethod, SkipInsn,
         WalkCall, MethodWalked, ChaDone, InFrame, At, Walking, vars
  <2>3. program' = program
    BY <1>3 DEF LoadRecursive, FindEntry, LoadClass, LoadField, FindCallee, CollectTargets,
         EnterTarget, TargetsEntered, Return, MakeChaCallGraph, StartCha, TakeMethod, SkipInsn,
         WalkCall, MethodWalked, ChaDone, vars
  <2>4. BagToSet(calls)' = BagToSet(calls)
    BY <2>1 DEF BagToSet
  <2>5. \A L : (UNION {CallsOf(L, m) : m \in MethodsOf(L)})'
               = UNION {CallsOf(L, m) : m \in MethodsOf(L)}
    BY <2>3, AnswersKept, CallsOfKept
  <2>6. pc' = "start" => pc = "start" /\ loaded' = loaded
    BY <2>2 DEF vars
  <2> QED BY <1>3, <2>1, <2>2, <2>4, <2>5, <2>6 DEF EdgeInv
<1> QED BY <1>1, <1>2, <1>3 DEF Next

(* However often the edges are made, a call of a method has one edge: the  *)
(* second time adds edges only to methods that were not there.             *)
THEOREM EdgesOnce == Spec => []OneEdgePerCall
<1>1. EdgeInv => OneEdgePerCall
  BY DEF EdgeInv, OneEdgePerCall, At
<1> QED BY <1>1, LoadInvInductive, EdgeInvInductive, PTL DEF Spec

-----------------------------------------------------------------------------
(* make_cha_call_graph.                                                    *)

(* The edges for the call at k: to the method it names and its overriders. *)
EdgesAt(L, m, k) ==
  {<<m, k, t>> : t \in IF Code(m)[k].op \in Invokes
                      THEN UNION {Targets(L, a) : a \in Lookup(L, Code(m)[k].class, Code(m)[k].name)}
                      ELSE {}}

(* What is closed under the edges that make_cha_call_graph makes.          *)
ClosedUnderEdges(L, M) ==
  /\ Lookup(L, program.entry[1], program.entry[2]) \subseteq M
  /\ \A m \in M : \A k \in DOMAIN Code(m) : \A e \in EdgesAt(L, m, k) : e[3] \in M

(* The instructions that have been walked.                                 *)
Covered(m, k) ==
  /\ m \in seen /\ m \notin Range(worklist)
  /\ k \in DOMAIN Code(m)
  /\ current.at # 0 /\ m = current.method => k < current.at

WalkInv(L) ==
  /\ seen \subseteq MethodsOf(L)
  /\ Lists(worklist, Range(worklist)) /\ Range(worklist) \subseteq seen
  /\ current.at \in Nat /\ current.method \in Class \X Name
  /\ current.at # 0 => current.method \in seen \ Range(worklist)
  /\ Lookup(L, program.entry[1], program.entry[2]) \subseteq seen
  /\ \A M : ClosedUnderEdges(L, M) => seen \subseteq M
  /\ \A m, k : Covered(m, k) => /\ Code(m)[k].op \in Invokes /\ Loadable(Code(m)[k].class)
                                   => Code(m)[k].class \in L
                                /\ \A e \in EdgesAt(L, m, k) : e[3] \in seen
  /\ \A e : e \in ccg <=> \E m, k : Covered(m, k) /\ e \in EdgesAt(L, m, k)

(* While nothing is loaded.                                                *)
ChaInv ==
  /\ pc # "find" => \A c : c = program.entry[1] /\ Loadable(c) => c \in loaded
  /\ current = [method |-> current.method, at |-> current.at]
  /\ pc # "cha" => current.at = 0
  /\ pc \notin {"cha", "again", "done"} => current.method \in Class \X Name
  /\ pc \in {"cha", "again"} =>
       \A L : L = loaded => /\ sized \subseteq MethodsOf(L)
                            /\ MethodsOf(L) = sized => WalkInv(L)
  /\ pc = "again" => worklist = <<>>

LEMMA EdgesKept ==
  ASSUME program' = program
  PROVE  /\ \A L, m, k : EdgesAt(L, m, k)' = EdgesAt(L, m, k)
         /\ \A L, M : ClosedUnderEdges(L, M)' <=> ClosedUnderEdges(L, M)
  BY DEF EdgesAt, ClosedUnderEdges, Targets, Overriders, Lookup, Line, Declared, Entry, Code

LEMMA OverridersStable ==
  ASSUME program \in Programs, NEW L, NEW M, Full(L), Full(M), L \subseteq M,
         MethodsOf(L) = MethodsOf(M), NEW m \in MethodsOf(L)
  PROVE  Targets(M, m) = Targets(L, m)
<1>1. ASSUME NEW b \in M, m[2] \in program.virtual[b] PROVE b \in L
  <2>1. M \subseteq Class /\ L \subseteq Class
    BY DEF Full
  <2>2. <<b, m[2]>> \in MethodsOf(M)
    BY <1>1, <2>1, MethodsType, TablesType
  <2> QED BY <2>1, <2>2, MethodsType
<1>2. {b \in M \ {m[1]} : m[2] \in program.virtual[b] /\ Entry(b, m[2]) = m}
        = {b \in L \ {m[1]} : m[2] \in program.virtual[b] /\ Entry(b, m[2]) = m}
  BY <1>1
<1> QED BY <1>2 DEF Targets, Overriders

LEMMA EdgesStable ==
  ASSUME program \in Programs, NEW L, NEW M, Full(L), Full(M), L \subseteq M,
         MethodsOf(L) = MethodsOf(M), NEW m, NEW k
  PROVE  /\ EdgesAt(L, m, k) \subseteq EdgesAt(M, m, k)
         /\ (Code(m)[k].op \in Invokes /\ Loadable(Code(m)[k].class) => Code(m)[k].class \in L)
              => EdgesAt(M, m, k) = EdgesAt(L, m, k)
<1> PICK c, n : c = Code(m)[k].class /\ n = Code(m)[k].name
  OBVIOUS
<1>1. Lookup(L, c, n) \subseteq Lookup(M, c, n)
  BY LookupStable DEF Lookup
<1>2. (Loadable(c) => c \in L) => Lookup(M, c, n) = Lookup(L, c, n)
  BY LookupStable
<1>3. \A a \in Lookup(L, c, n) : Targets(M, a) = Targets(L, a)
  BY LookupType, OverridersStable
<1> QED BY <1>1, <1>2, <1>3 DEF EdgesAt

LEMMA ClosedStable ==
  ASSUME program \in Programs, NEW L, NEW N, Full(L), Full(N), L \subseteq N,
         MethodsOf(L) = MethodsOf(N), NEW M, ClosedUnderEdges(N, M),
         Loadable(program.entry[1]) => program.entry[1] \in L
  PROVE  ClosedUnderEdges(L, M)
<1>1. Lookup(L, program.entry[1], program.entry[2]) \subseteq M
  BY LookupStable DEF ClosedUnderEdges
<1>2. \A m \in M : \A k \in DOMAIN Code(m) : \A e \in EdgesAt(L, m, k) : e[3] \in M
  <2>1. \A m, k, e : e \in EdgesAt(L, m, k) => e \in EdgesAt(N, m, k)
    BY EdgesStable
  <2> QED BY <2>1 DEF ClosedUnderEdges
<1> QED BY <1>1, <1>2 DEF ClosedUnderEdges

(* The targets of a call are finitely many.                                *)
LEMMA TargetsFinite ==
  ASSUME program \in Programs, NEW L, Full(L), NEW m
  PROVE  IsFiniteSet(Targets(L, m))
<1> DEFINE B == {b \in L \ {m[1]} : m[2] \in program.virtual[b] /\ Entry(b, m[2]) = m}
           f == [b \in B |-> <<b, m[2]>>]
<1>1. IsFiniteSet(B)
  <2>1. B \subseteq Class
    BY DEF Full
  <2> QED BY <2>1, ClassesAssumption, FS_Subset
<1>2. Overriders(L, m) = {<<b, m[2]>> : b \in B}
  BY DEF Overriders
<1>3. f \in Surjection(B, Overriders(L, m))
  <2> HIDE DEF B
  <2>1. f \in [B -> Overriders(L, m)] /\ \A t \in Overriders(L, m) : \E b \in B : f[b] = t
    BY <1>2
  <2> HIDE DEF f
  <2> QED BY <2>1, Fun_IsSurj
<1>4. IsFiniteSet(Overriders(L, m))
  BY <1>1, <1>3, FS_Surjection
<1>5. IsFiniteSet(Overriders(L, m) \cup {m})
  BY <1>4, FS_AddElement
<1>6. Targets(L, m) = Overriders(L, m) \cup {m}
  BY DEF Targets
<1> QED BY <1>5, <1>6

LEMMA StartChaKeeps ==
  ASSUME LoadInv, ChaInv, StartCha
  PROVE  ChaInv'
<1> PICK L, E : L = loaded /\ E = Lookup(loaded, program.entry[1], program.entry[2])
  OBVIOUS
<1>1. /\ program' = program /\ loaded' = L /\ current' = current /\ current.at = 0
      /\ sized' = MethodsOf(L) /\ seen' = E /\ worklist' = SetToSeq(E) /\ ccg' = {}
      /\ pc = "start" /\ pc' = "cha" /\ current.method \in Class \X Name
  BY DEF StartCha, At, ChaInv
<1>2. Full(L) /\ program \in Programs /\ E = Lookup(L, program.entry[1], program.entry[2])
  BY DEF LoadInv
<1>3. E \subseteq MethodsOf(L) /\ IsFiniteSet(E)
  <2>1. E \subseteq MethodsOf(L) /\ \A x, y \in E : x = y
    BY <1>2, LookupType
  <2>2. CASE E = {}
    BY <2>1, <2>2, FS_EmptySet
  <2>3. CASE E # {}
    <3>1. PICK x : x \in E
      BY <2>3
    <3>2. E = {x}
      BY <2>1, <3>1
    <3>3. IsFiniteSet({x})
      BY FS_Singleton
    <3> QED BY <2>1, <3>2, <3>3
  <2> QED BY <2>2, <2>3
<1>4. Lists(worklist', E)
  BY <1>1, <1>3, SetToSeqLists
<1>5. Range(worklist') = E
  BY <1>4, LenProperties DEF Lists, Range
<1>6. \A m, k : ~Covered(m, k)'
  BY <1>1, <1>5 DEF Covered
<1>7. \A M : ClosedUnderEdges(L, M)' => E \subseteq M
  BY <1>1, <1>2, EdgesKept DEF ClosedUnderEdges
<1>8. WalkInv(L)'
  BY <1>1, <1>2, <1>3, <1>4, <1>5, <1>6, <1>7, AnswersKept DEF WalkInv
<1>9. \A c : c = program'.entry[1] /\ Loadable(c)' => c \in loaded'
  BY <1>1, AnswersKept DEF ChaInv, StartCha
<1> QED BY <1>1, <1>8, <1>9, AnswersKept DEF ChaInv

(* The steps that load nothing.                                            *)
LEMMA WalkKeeps ==
  ASSUME LoadInv, ChaInv, pc = "cha", UNCHANGED <<program, loaded, sized, seen, ccg>>,
         pc' = "cha" \/ (pc' = "again" /\ worklist' = <<>> /\ current'.at = 0),
         current' = [method |-> current'.method, at |-> current'.at],
         MethodsOf(loaded) = sized /\ WalkInv(loaded) =>
           /\ Lists(worklist', Range(worklist')) /\ Range(worklist') \subseteq seen
           /\ current'.at \in Nat /\ current'.method \in Class \X Name
           /\ current'.at # 0 => current'.method \in seen \ Range(worklist')
           /\ \A m, k : Covered(m, k) => Covered(m, k)'
           /\ \A m, k : Covered(m, k)' /\ ~Covered(m, k) => Code(m)[k].op \notin Invokes
  PROVE  ChaInv'
<1> PICK L : L = loaded
  OBVIOUS
<1>1. ASSUME MethodsOf(L) = sized PROVE WalkInv(L)'
  <2>1. WalkInv(L)
    BY <1>1 DEF ChaInv
  <2>2. /\ Lists(worklist', Range(worklist')) /\ Range(worklist') \subseteq seen
        /\ current'.at \in Nat /\ current'.method \in Class \X Name
        /\ current'.at # 0 => current'.method \in seen \ Range(worklist')
        /\ \A m, k : Covered(m, k) => Covered(m, k)'
        /\ \A m, k : Covered(m, k)' /\ ~Covered(m, k) => Code(m)[k].op \notin Invokes
    BY <1>1, <2>1
  <2>3. \A m, k : Covered(m, k)' /\ ~Covered(m, k) => EdgesAt(L, m, k) = {}
    BY <2>2 DEF EdgesAt
  <2>4. /\ MethodsOf(L)' = MethodsOf(L)
        /\ Lookup(L, program.entry[1], program.entry[2])'
             = Lookup(L, program.entry[1], program.entry[2])
        /\ \A m : Code(m)' = Code(m)
        /\ \A c : Loadable(c)' <=> Loadable(c)
    BY AnswersKept
  <2>5. /\ \A m, k : EdgesAt(L, m, k)' = EdgesAt(L, m, k)
        /\ \A M : ClosedUnderEdges(L, M)' <=> ClosedUnderEdges(L, M)
    BY EdgesKept
  <2>6. seen' = seen /\ ccg' = ccg
    OBVIOUS
  <2>7. /\ seen' \subseteq MethodsOf(L)'
        /\ Lookup(L, program.entry[1], program.entry[2])' \subseteq seen'
        /\ \A M : ClosedUnderEdges(L, M)' => seen' \subseteq M
    BY <2>1, <2>4, <2>5, <2>6 DEF WalkInv
  <2>8. ASSUME NEW m, NEW k, Covered(m, k)'
        PROVE  /\ Code(m)'[k].op \in Invokes /\ Loadable(Code(m)[k].class)' => Code(m)'[k].class \in L
               /\ \A e \in EdgesAt(L, m, k)' : e[3] \in seen'
    <3>1. CASE Covered(m, k)
      BY <2>1, <2>4, <2>5, <2>6, <3>1 DEF WalkInv
    <3>2. CASE ~Covered(m, k)
      BY <2>2, <2>3, <2>4, <2>5, <2>8, <3>2
    <3> QED BY <3>1, <3>2
  <2>9. \A e : e \in ccg <=> \E m, k : Covered(m, k) /\ e \in EdgesAt(L, m, k)
    BY <2>1 DEF WalkInv
  <2>10. \A m, k, e : e \in EdgesAt(L, m, k) => (Covered(m, k)' <=> Covered(m, k))
    BY <2>2, <2>3
  <2>11. \A e : e \in ccg' <=> \E m, k : Covered(m, k)' /\ e \in EdgesAt(L, m, k)'
    BY <2>5, <2>6, <2>9, <2>10
  <2> QED BY <2>2, <2>6, <2>7, <2>8, <2>11 DEF WalkInv
<1>2. \A c : c = program'.entry[1] /\ Loadable(c)' => c \in loaded'
  BY AnswersKept DEF ChaInv
<1>3. MethodsOf(L)' = MethodsOf(L) /\ sized \subseteq MethodsOf(L)
  <2>1. \A K : K = loaded => sized \subseteq MethodsOf(K)
    BY DEF ChaInv
  <2> QED BY <2>1, AnswersKept
<1>4. /\ current' = [method |-> current'.method, at |-> current'.at]
      /\ pc' # "find" /\ (pc' = "again" => worklist' = <<>> /\ current'.at = 0)
      /\ (pc' # "cha" => pc' = "again") /\ sized' = sized /\ loaded' = loaded
  OBVIOUS
<1> QED BY <1>1, <1>2, <1>3, <1>4 DEF ChaInv

LEMMA CodeType ==
  ASSUME program \in Programs, NEW m \in Class \X Name
  PROVE  Len(Code(m)) \in Nat /\ DOMAIN Code(m) = 1 .. Len(Code(m))
  BY ProgramsAssumption DEF Code

LEMMA TakeMethodKeeps ==
  ASSUME LoadInv, ChaInv, TakeMethod
  PROVE  ChaInv'
<1>1. /\ pc = "cha" /\ pc' = "cha" /\ current.at = 0 /\ worklist # <<>>
      /\ worklist' = Tail(worklist) /\ UNCHANGED <<program, loaded, sized, seen, ccg>>
      /\ current' = [method |-> Head(worklist), at |-> 1]
  BY DEF TakeMethod, At
<1>2. ASSUME WalkInv(loaded)
      PROVE  /\ Lists(worklist', Range(worklist')) /\ Range(worklist') \subseteq seen
             /\ current'.at \in Nat /\ current'.method \in Class \X Name
             /\ current'.at # 0 => current'.method \in seen \ Range(worklist')
             /\ \A m, k : Covered(m, k) => Covered(m, k)'
             /\ \A m, k : Covered(m, k)' => Covered(m, k)
  <2>1. /\ Head(worklist) \in Range(worklist)
        /\ Lists(worklist', Range(worklist) \ {Head(worklist)})
    BY <1>1, <1>2, TailLists DEF WalkInv
  <2>2. Range(worklist') = Range(worklist) \ {Head(worklist)} /\ Range(worklist) \subseteq seen
    BY <1>2, <2>1, ListsRange DEF WalkInv
  <2>3. \A m, k : m \in seen /\ k \in DOMAIN Code(m) => ~(k < 1)
    BY <1>2, LoadedMethodsType, CodeType DEF WalkInv, LoadInv
  <2>4. \A m : Code(m)' = Code(m)
    BY <1>1, AnswersKept
  <2>5. \A m, k : Covered(m, k)' <=> Covered(m, k)
    BY <1>1, <2>1, <2>2, <2>3, <2>4 DEF Covered
  <2>6. Head(worklist) \in seen \ Range(worklist') /\ Range(worklist') \subseteq seen
    BY <2>1, <2>2
  <2>7. current'.method = Head(worklist) /\ current'.at \in Nat
    BY <1>1
  <2>8. Head(worklist) \in Class \X Name
    BY <1>2, <2>6, LoadedMethodsType DEF WalkInv, LoadInv
  <2> QED BY <2>1, <2>2, <2>5, <2>6, <2>7, <2>8
<1>3. current' = [method |-> current'.method, at |-> current'.at]
  BY <1>1
<1> QED BY <1>1, <1>2, <1>3, WalkKeeps

LEMMA SkipInsnKeeps ==
  ASSUME LoadInv, ChaInv, SkipInsn
  PROVE  ChaInv'
<1> PICK a, n : a = current.method /\ n = current.at
  OBVIOUS
<1>1. /\ pc = "cha" /\ pc' = "cha" /\ n \in DOMAIN Code(a) /\ Code(a)[n].op \notin Invokes
      /\ UNCHANGED <<program, loaded, sized, seen, worklist, ccg>>
  BY DEF SkipInsn, Walking, CurrentInsn, At
<1>2. /\ current' = [method |-> a, at |-> n + 1] /\ current'.method = a /\ current'.at = n + 1
  <2>1. current = [method |-> a, at |-> n] /\ current' = [current EXCEPT !.at = @ + 1]
    BY DEF SkipInsn, WalkOn, ChaInv
  <2> QED BY <2>1
<1>3. ASSUME WalkInv(loaded)
      PROVE  /\ Lists(worklist', Range(worklist')) /\ Range(worklist') \subseteq seen
             /\ current'.at \in Nat /\ current'.method \in Class \X Name
             /\ current'.at # 0 => current'.method \in seen \ Range(worklist')
             /\ \A m, k : Covered(m, k) => Covered(m, k)'
             /\ \A m, k : Covered(m, k)' /\ ~Covered(m, k) => Code(m)[k].op \notin Invokes
  <2>1. n \in Nat /\ (n # 0 => a \in seen \ Range(worklist))
    BY <1>3 DEF WalkInv
  <2>2. a \in Class \X Name /\ n # 0
    BY <1>1, <1>3, CodeType DEF WalkInv, LoadInv
  <2>3. a \in seen /\ a \notin Range(worklist) /\ Lists(worklist, Range(worklist))
        /\ Range(worklist) \subseteq seen
    BY <1>3, <2>1, <2>2 DEF WalkInv
  <2>4. \A m : m \in seen => DOMAIN Code(m) \subseteq Nat
    BY <1>3, LoadedMethodsType, CodeType DEF WalkInv, LoadInv
  <2>5. \A m : Code(m)' = Code(m)
    BY <1>1, AnswersKept
  <2>6. \A m, k : Covered(m, k)' <=> Covered(m, k) \/ (m = a /\ k = n)
    BY <1>1, <1>2, <2>1, <2>2, <2>3, <2>4, <2>5 DEF Covered
  <2> QED BY <1>1, <1>2, <2>1, <2>2, <2>3, <2>6
<1> QED BY <1>1, <1>2, <1>3, WalkKeeps

LEMMA MethodWalkedKeeps ==
  ASSUME LoadInv, ChaInv, MethodWalked
  PROVE  ChaInv'
<1> PICK a, n : a = current.method /\ n = current.at
  OBVIOUS
<1>1. /\ pc = "cha" /\ pc' = "cha" /\ n > Len(Code(a))
      /\ UNCHANGED <<program, loaded, sized, seen, worklist, ccg>>
  BY DEF MethodWalked, At
<1>2. /\ current' = [method |-> a, at |-> 0] /\ current'.method = a /\ current'.at = 0
  <2>1. current = [method |-> a, at |-> n] /\ current' = [current EXCEPT !.at = 0]
    BY DEF MethodWalked, ChaInv
  <2> QED BY <2>1
<1>3. ASSUME WalkInv(loaded)
      PROVE  /\ Lists(worklist', Range(worklist')) /\ Range(worklist') \subseteq seen
             /\ current'.at \in Nat /\ current'.method \in Class \X Name
             /\ current'.at # 0 => current'.method \in seen \ Range(worklist')
             /\ \A m, k : Covered(m, k) => Covered(m, k)'
             /\ \A m, k : Covered(m, k)' => Covered(m, k)
  <2>1. n \in Nat /\ a \in Class \X Name
    BY <1>3 DEF WalkInv
  <2>2. \A k \in DOMAIN Code(a) : k < n
    BY <1>1, <2>1, CodeType DEF LoadInv
  <2>3. Lists(worklist, Range(worklist)) /\ Range(worklist) \subseteq seen
    BY <1>3 DEF WalkInv
  <2>4. \A m : Code(m)' = Code(m)
    BY <1>1, AnswersKept
  <2>5. \A m, k : Covered(m, k)' <=> Covered(m, k)
    BY <1>1, <1>2, <2>2, <2>4 DEF Covered
  <2> QED BY <1>1, <1>2, <2>1, <2>3, <2>5
<1> QED BY <1>1, <1>2, <1>3, WalkKeeps

LEMMA ChaDoneKeeps ==
  ASSUME LoadInv, ChaInv, ChaDone
  PROVE  ChaInv'
<1>1. /\ pc = "cha" /\ pc' = "again" /\ worklist' = <<>> /\ current'.at = 0
      /\ UNCHANGED <<program, loaded, sized, seen, ccg, worklist, current>>
  BY DEF ChaDone, At, cha
<1>2. ASSUME WalkInv(loaded)
      PROVE  /\ Lists(worklist', Range(worklist')) /\ Range(worklist') \subseteq seen
             /\ current'.at \in Nat /\ current'.method \in Class \X Name
             /\ \A m, k : Covered(m, k)' <=> Covered(m, k)
  <2>1. \A m : Code(m)' = Code(m)
    BY <1>1, AnswersKept
  <2> QED BY <1>1, <1>2, <2>1 DEF WalkInv, Covered
<1>3. current' = [method |-> current'.method, at |-> current'.at]
  BY <1>1 DEF ChaInv
<1> QED BY <1>1, <1>2, <1>3, WalkKeeps

(* The call goes to few methods, and all of them have their place.         *)
LEMMA CallTargets ==
  ASSUME program \in Programs, NEW L, Full(L), NEW c, NEW n, NEW T,
         T = UNION {Targets(L, m) : m \in Lookup(L, c, n)}
  PROVE  T \subseteq MethodsOf(L) /\ IsFiniteSet(T)
<1>1. /\ Lookup(L, c, n) \subseteq MethodsOf(L)
      /\ \A x, y \in Lookup(L, c, n) : x = y
  BY LookupType
<1>2. T \subseteq MethodsOf(L)
  BY <1>1, OverridersType
<1>3. CASE Lookup(L, c, n) = {}
  <2>1. T = {}
    BY <1>3
  <2> QED BY <1>2, <2>1, FS_EmptySet
<1>4. ASSUME NEW m \in Lookup(L, c, n) PROVE IsFiniteSet(T)
  <2>1. T = Targets(L, m)
    BY <1>1, <1>4
  <2> QED BY <2>1, TargetsFinite
<1> QED BY <1>2, <1>3, <1>4

LEMMA WalkCallKeeps ==
  ASSUME LoadInv, ChaInv, WalkCall
  PROVE  ChaInv'
<1> PICK L, N, a, n, c, nm, T :
      /\ L = loaded /\ N = loaded' /\ a = current.method /\ n = current.at
      /\ c = Code(a)[n].class /\ nm = Code(a)[n].name
      /\ T = UNION {Targets(N, m) : m \in Lookup(N, c, nm)}
  OBVIOUS
<1>1. /\ pc = "cha" /\ pc' = "cha" /\ program' = program /\ sized' = sized
      /\ n \in DOMAIN Code(a) /\ Code(a)[n].op \in Invokes /\ N = LoadedWith(L, c)
  BY DEF WalkCall, Walking, CurrentInsn, At
<1>2. /\ current' = [method |-> a, at |-> n + 1] /\ current'.method = a /\ current'.at = n + 1
  <2>1. current = [method |-> a, at |-> n] /\ current' = [current EXCEPT !.at = @ + 1]
    BY DEF WalkCall, WalkOn, ChaInv
  <2> QED BY <2>1
<1>3. /\ program \in Programs /\ Full(L) /\ Full(N) /\ L \subseteq N
      /\ Loadable(c) => c \in N
  BY <1>1, LoadingKeepsFull DEF LoadInv
<1>4. Loadable(program.entry[1]) => program.entry[1] \in L
  BY <1>1 DEF ChaInv
<1>5. PICK new : /\ ccg' = ccg \cup {<<a, n, t>> : t \in T} /\ seen' = seen \cup new
                 /\ T \cap sized \subseteq seen \cup new /\ new \subseteq T \ seen
                 /\ \E order \in SetToSeqs(new) : worklist' = worklist \o order
  <2> DEFINE U == UNION {Targets(loaded', m) : m \in Lookup(loaded', CurrentInsn.class, CurrentInsn.name)}
  <2>1. ccg' = ccg \cup {<<current.method, current.at, t>> : t \in U}
    BY Zenon DEF WalkCall
  <2>2. \E set \in SUBSET ((U \ sized) \ seen) :
          /\ \E order \in SetToSeqs((U \ seen) \ set) : worklist' = worklist \o order
          /\ seen' = seen \cup ((U \ seen) \ set)
    BY Zenon DEF WalkCall, Mark
  <2>3. T = U
    BY DEF CurrentInsn
  <2> HIDE DEF U
  <2>4. PICK set \in SUBSET ((U \ sized) \ seen) :
          /\ \E order \in SetToSeqs((U \ seen) \ set) : worklist' = worklist \o order
          /\ seen' = seen \cup ((U \ seen) \ set)
    BY <2>2
  <2>5. PICK new : new = (U \ seen) \ set
    OBVIOUS
  <2>6. /\ seen' = seen \cup new
        /\ \E order \in SetToSeqs(new) : worklist' = worklist \o order
    BY <2>4, <2>5
  <2>7. T \cap sized \subseteq seen \cup new /\ new \subseteq T \ seen
    BY <2>3, <2>5
  <2>8. ccg' = ccg \cup {<<a, n, t>> : t \in T}
    BY <2>1, <2>3
  <2> QED BY <2>6, <2>7, <2>8
<1>6. T \subseteq MethodsOf(N) /\ IsFiniteSet(T)
  <2>1. T = UNION {Targets(N, m) : m \in Lookup(N, c, nm)}
    OBVIOUS
  <2> QED BY <1>3, <2>1, CallTargets
<1>7. MethodsOf(L) \subseteq MethodsOf(N)
  BY <1>3 DEF MethodsOf
<1>8. sized \subseteq MethodsOf(N)
  <2>1. \A K : K = loaded => sized \subseteq MethodsOf(K)
    BY <1>1 DEF ChaInv
  <2> QED BY <1>7, <2>1
<1>9. EdgesAt(N, a, n) = {<<a, n, t>> : t \in T}
  BY <1>1 DEF EdgesAt
<1>10. ASSUME MethodsOf(N) = sized
       PROVE  /\ MethodsOf(L) = MethodsOf(N) /\ WalkInv(L)
              /\ new = T \ seen /\ IsFiniteSet(new)
  <2>1. \A K : K = loaded => /\ sized \subseteq MethodsOf(K)
                             /\ MethodsOf(K) = sized => WalkInv(K)
    BY <1>1 DEF ChaInv
  <2>2. MethodsOf(L) = MethodsOf(N) /\ WalkInv(L)
    BY <1>7, <1>10, <2>1
  <2>3. new = T \ seen
    BY <1>5, <1>6, <1>10
  <2>4. new \subseteq T
    BY <2>3
  <2> QED BY <1>6, <2>2, <2>3, <2>4, FS_Subset
<1>11. ASSUME MethodsOf(N) = sized
       PROVE  /\ Lists(worklist', Range(worklist) \cup new)
              /\ Range(worklist') = Range(worklist) \cup new
              /\ Range(worklist') \subseteq seen' /\ seen' \subseteq MethodsOf(N)
              /\ seen' = seen \cup T
              /\ n \in Nat /\ a \in Class \X Name /\ a \in seen \ Range(worklist') /\ n # 0
  <2>1. WalkInv(L) /\ new = T \ seen /\ IsFiniteSet(new) /\ MethodsOf(L) = MethodsOf(N)
    BY <1>10, <1>11
  <2>2. /\ Lists(worklist, Range(worklist)) /\ Range(worklist) \subseteq seen
        /\ seen \subseteq MethodsOf(L) /\ n \in Nat /\ a \in Class \X Name
        /\ n # 0 => a \in seen \ Range(worklist)
    BY <2>1 DEF WalkInv
  <2>3. PICK order : Lists(order, new) /\ worklist' = worklist \o order
    BY <1>5, <2>1, SetToSeqsLists
  <2>4. Lists(worklist', Range(worklist) \cup new)
    BY <2>1, <2>2, <2>3, ConcatLists
  <2>5. Range(worklist') = Range(worklist) \cup new
    BY <2>4, ListsRange
  <2>6. n # 0
    BY <1>1, <1>3, <2>2, CodeType
  <2>7. seen' = seen \cup T
    BY <1>5, <2>1
  <2>8. seen' \subseteq MethodsOf(N)
    BY <1>6, <2>1, <2>2, <2>7
  <2>9. Range(worklist') \subseteq seen'
    BY <2>1, <2>2, <2>5, <2>7
  <2>10. a \in seen \ Range(worklist')
    BY <2>1, <2>2, <2>5, <2>6
  <2> QED BY <2>2, <2>4, <2>5, <2>6, <2>7, <2>8, <2>9, <2>10
<1>12. ASSUME MethodsOf(N) = sized
       PROVE  \A m, k : Covered(m, k)' <=> Covered(m, k) \/ (m = a /\ k = n)
  <2>1. \A m : Code(m)' = Code(m)
    BY <1>1, AnswersKept
  <2>2. \A m \in seen : m \in Class \X Name
    BY <1>3, <1>10, <1>12, LoadedMethodsType DEF WalkInv
  <2>3. \A m \in seen : DOMAIN Code(m) \subseteq Nat
    BY <1>3, <2>2, CodeType
  <2>4. /\ Range(worklist') = Range(worklist) \cup new /\ new = T \ seen
        /\ seen' = seen \cup T /\ n \in Nat /\ a \in seen \ Range(worklist') /\ n # 0
    BY <1>10, <1>11, <1>12
  <2>5. \A m : m \in seen' /\ m \notin Range(worklist') <=> m \in seen /\ m \notin Range(worklist)
    BY <2>4
  <2> QED BY <1>1, <1>2, <2>1, <2>3, <2>4, <2>5 DEF Covered
<1>13. ASSUME MethodsOf(N) = sized
       PROVE  /\ \A m, k : Covered(m, k) => EdgesAt(N, m, k) = EdgesAt(L, m, k)
              /\ Lookup(N, program.entry[1], program.entry[2]) \subseteq seen
              /\ \A M : ClosedUnderEdges(N, M) => seen \subseteq M /\ T \subseteq M
  <2>1. WalkInv(L) /\ MethodsOf(L) = MethodsOf(N)
    BY <1>10, <1>13
  <2>2. \A m, k : Covered(m, k) => EdgesAt(N, m, k) = EdgesAt(L, m, k)
    <3> TAKE m, k
    <3> HAVE Covered(m, k)
    <3>1. Code(m)[k].op \in Invokes /\ Loadable(Code(m)[k].class) => Code(m)[k].class \in L
      BY <2>1 DEF WalkInv
    <3> QED BY <1>3, <2>1, <3>1, EdgesStable
  <2>3. Lookup(N, program.entry[1], program.entry[2]) \subseteq seen
    BY <1>3, <1>4, <2>1, LookupStable DEF WalkInv
  <2>4. ASSUME NEW M, ClosedUnderEdges(N, M) PROVE seen \subseteq M /\ T \subseteq M
    <3>1. ClosedUnderEdges(L, M)
      BY <1>3, <1>4, <2>1, <2>4, ClosedStable
    <3>2. seen \subseteq M
      BY <2>1, <3>1 DEF WalkInv
    <3>3. a \in M
      BY <1>11, <1>13, <3>2
    <3>4. \A t \in T : <<a, n, t>> \in EdgesAt(N, a, n) /\ <<a, n, t>>[3] = t
      BY <1>9
    <3>5. \A e \in EdgesAt(N, a, n) : e[3] \in M
      BY <1>1, <2>4, <3>3 DEF ClosedUnderEdges
    <3>6. T \subseteq M
      BY <3>4, <3>5
    <3> QED BY <3>2, <3>6
  <2> QED BY <2>2, <2>3, <2>4
<1>14. ASSUME MethodsOf(N) = sized PROVE WalkInv(N)'
  <2>1. /\ WalkInv(L) /\ L \subseteq N
    BY <1>3, <1>10, <1>14
  <2>2. /\ MethodsOf(N)' = MethodsOf(N)
        /\ Lookup(N, program.entry[1], program.entry[2])'
             = Lookup(N, program.entry[1], program.entry[2])
        /\ \A m : Code(m)' = Code(m)
        /\ \A d : Loadable(d)' <=> Loadable(d)
    BY <1>1, AnswersKept
  <2>3. /\ \A m, k : EdgesAt(N, m, k)' = EdgesAt(N, m, k)
        /\ \A M : ClosedUnderEdges(N, M)' <=> ClosedUnderEdges(N, M)
    BY <1>1, EdgesKept
  <2>4. /\ seen' \subseteq MethodsOf(N)'
        /\ Lookup(N, program.entry[1], program.entry[2])' \subseteq seen'
        /\ \A M : ClosedUnderEdges(N, M)' => seen' \subseteq M
    BY <1>11, <1>13, <1>14, <2>2, <2>3
  <2>5. ASSUME NEW m, NEW k, Covered(m, k)'
        PROVE  /\ Code(m)'[k].op \in Invokes /\ Loadable(Code(m)[k].class)' => Code(m)'[k].class \in N
               /\ \A e \in EdgesAt(N, m, k)' : e[3] \in seen'
    <3>1. CASE Covered(m, k)
      <4>1. /\ Code(m)[k].op \in Invokes /\ Loadable(Code(m)[k].class) => Code(m)[k].class \in L
            /\ \A e \in EdgesAt(L, m, k) : e[3] \in seen
        BY <2>1, <3>1 DEF WalkInv
      <4> QED BY <1>11, <1>13, <1>14, <2>1, <2>2, <2>3, <3>1, <4>1
    <3>2. CASE m = a /\ k = n
      <4>1. \A e \in EdgesAt(N, a, n) : e[3] \in seen'
        BY <1>9, <1>11, <1>14
      <4> QED BY <1>3, <2>2, <2>3, <3>2, <4>1
    <3> QED BY <1>12, <1>14, <2>5, <3>1, <3>2
  <2>6. \A e : e \in ccg' <=> \E m, k : Covered(m, k)' /\ e \in EdgesAt(N, m, k)'
    <3>1. \A e : e \in ccg <=> \E m, k : Covered(m, k) /\ e \in EdgesAt(L, m, k)
      BY <2>1 DEF WalkInv
    <3>2. \A e : e \in ccg' <=> e \in ccg \/ e \in EdgesAt(N, a, n)
      BY <1>5, <1>9
    <3>3. \A m, k : Covered(m, k)' <=> Covered(m, k) \/ (m = a /\ k = n)
      BY <1>12, <1>14
    <3>4. \A m, k : Covered(m, k) => EdgesAt(N, m, k) = EdgesAt(L, m, k)
      BY <1>13, <1>14
    <3>5. \A e : e \in ccg' <=> \E m, k : Covered(m, k)' /\ e \in EdgesAt(N, m, k)
      BY <3>1, <3>2, <3>3, <3>4
    <3> QED BY <2>3, <3>5
  <2>7. /\ Lists(worklist', Range(worklist')) /\ Range(worklist') \subseteq seen'
        /\ current'.at \in Nat /\ current'.method \in Class \X Name
        /\ current'.at # 0 => current'.method \in seen' \ Range(worklist')
    <3>1. /\ Lists(worklist', Range(worklist) \cup new)
          /\ Range(worklist') = Range(worklist) \cup new /\ Range(worklist') \subseteq seen'
          /\ seen' = seen \cup T /\ n \in Nat /\ a \in Class \X Name
          /\ a \in seen /\ a \notin Range(worklist')
      BY <1>11, <1>14
    <3>2. Lists(worklist', Range(worklist'))
      BY <3>1
    <3> QED BY <1>2, <3>1, <3>2
  <2> QED BY <2>4, <2>5, <2>6, <2>7 DEF WalkInv
<1>15. \A d : d = program'.entry[1] /\ Loadable(d)' => d \in loaded'
  BY <1>1, <1>3, <1>4, AnswersKept
<1>16. /\ current' = [method |-> current'.method, at |-> current'.at]
       /\ MethodsOf(N)' = MethodsOf(N) /\ loaded' = N
  BY <1>1, <1>2, AnswersKept
<1> QED BY <1>1, <1>8, <1>14, <1>15, <1>16 DEF ChaInv

(* load_recursive finds the class of the entry, and the method graph is    *)
(* complete before the walk begins.                                        *)
LEMMA OthersKeepCha ==
  ASSUME LoadInv, ChaInv, LoadRecursive \/ AddCallGraphEdges \/ UNCHANGED vars
  PROVE  ChaInv'
<1>1. /\ program' = program /\ cha' = cha
      /\ pc # "find" => loaded \subseteq loaded'
      /\ pc = "find" /\ pc' # "find" => loaded' = LoadedWith(loaded, program.entry[1])
  <2>1. CASE FindEntry
    BY <2>1 DEF FindEntry, At
  <2>2. CASE LoadClass \/ LoadField \/ FindCallee \/ CollectTargets \/ EnterTarget
             \/ TargetsEntered \/ Return
    BY <2>2 DEF LoadClass, LoadField, FindCallee, CollectTargets, EnterTarget, TargetsEntered,
                Return, InFrame, At, LoadedWith
  <2>3. CASE AddCallGraphEdges \/ UNCHANGED vars
    BY <2>3 DEF AddCallGraphEdges, At, vars, cha
  <2> QED BY <2>1, <2>2, <2>3 DEF LoadRecursive
<1>2. /\ pc' = "cha" => UNCHANGED vars
      /\ pc' = "again" => UNCHANGED vars
      /\ pc' = "start" => pc \in {"edges", "start"}
      /\ pc' \notin {"cha", "again", "done"} => pc \notin {"cha", "again", "done"}
      /\ pc = "cha" => pc' = "cha"
  BY DEF LoadRecursive, FindEntry, LoadClass, LoadField, FindCallee, CollectTargets,
         EnterTarget, TargetsEntered, Return, AddCallGraphEdges, InFrame, At, vars
<1>3. UNCHANGED <<sized, seen, worklist, current, ccg>>
  BY <1>1 DEF cha
<1>4. ASSUME pc' # "find", NEW c, c = program.entry[1], Loadable(c) PROVE c \in loaded'
  <2>1. CASE pc = "find"
    BY <1>1, <1>4, <2>1, LoadingKeepsFull DEF LoadInv
  <2>2. CASE pc # "find"
    BY <1>1, <1>4, <2>2 DEF ChaInv
  <2> QED BY <2>1, <2>2
<1>5. \A c : c = program'.entry[1] /\ Loadable(c)' => (pc' # "find" => c \in loaded')
  BY <1>1, <1>4, AnswersKept
<1>6. ASSUME pc' \in {"cha", "again"}, NEW L, L = loaded'
      PROVE  sized' \subseteq MethodsOf(L)' /\ (MethodsOf(L)' = sized' => WalkInv(L)')
  <2>1. UNCHANGED vars
    BY <1>2, <1>6
  <2>2. loaded' = loaded /\ pc' = pc
    BY <2>1 DEF vars
  <2>3. sized \subseteq MethodsOf(L) /\ (MethodsOf(L) = sized => WalkInv(L))
    BY <1>6, <2>2 DEF ChaInv
  <2>4. \A m, k : Covered(m, k)' <=> Covered(m, k)
    BY <1>1, <1>3, AnswersKept DEF Covered
  <2>5. /\ MethodsOf(L)' = MethodsOf(L)
        /\ Lookup(L, program.entry[1], program.entry[2])'
             = Lookup(L, program.entry[1], program.entry[2])
        /\ \A m : Code(m)' = Code(m)
        /\ \A c : Loadable(c)' <=> Loadable(c)
        /\ \A m, k : EdgesAt(L, m, k)' = EdgesAt(L, m, k)
        /\ \A M : ClosedUnderEdges(L, M)' <=> ClosedUnderEdges(L, M)
    BY <1>1, AnswersKept, EdgesKept
  <2>6. WalkInv(L) => WalkInv(L)'
    BY <1>3, <2>4, <2>5 DEF WalkInv
  <2> QED BY <1>3, <2>3, <2>5, <2>6
<1>7. /\ current' = [method |-> current'.method, at |-> current'.at]
      /\ pc' # "cha" => current'.at = 0
      /\ pc' \notin {"cha", "again", "done"} => current'.method \in Class \X Name
      /\ pc' = "again" => worklist' = <<>>
  BY <1>2, <1>3 DEF ChaInv, vars
<1> QED BY <1>5, <1>6, <1>7 DEF ChaInv

LEMMA ChaInvInductive ==
  /\ Init => ChaInv
  /\ LoadInv /\ ChaInv /\ [Next]_vars => ChaInv'
<1>1. ASSUME Init PROVE ChaInv
  <2>1. program.entry \in Class \X Name /\ current = [method |-> program.entry, at |-> 0]
    BY <1>1, ProgramsAssumption DEF Init
  <2> QED BY <1>1, <2>1 DEF Init, ChaInv
<1>2. ASSUME LoadInv, ChaInv, [Next]_vars PROVE ChaInv'
  <2>1. CASE LoadRecursive \/ AddCallGraphEdges \/ UNCHANGED vars
    BY <1>2, <2>1, OthersKeepCha
  <2>2. CASE StartCha
    BY <1>2, <2>2, StartChaKeeps
  <2>3. CASE WalkCall
    BY <1>2, <2>3, WalkCallKeeps
  <2>4. CASE TakeMethod \/ SkipInsn \/ MethodWalked \/ ChaDone
    BY <1>2, <2>4, TakeMethodKeeps, SkipInsnKeeps, MethodWalkedKeeps, ChaDoneKeeps
  <2> QED BY <1>2, <2>1, <2>2, <2>3, <2>4 DEF Next, MakeChaCallGraph
<1> QED BY <1>1, <1>2

-----------------------------------------------------------------------------
(* The edges that are made, and the calls of class hierarchy analysis.     *)

(* A class is in its line once, and above it are its superclasses.         *)
LEMMA LineAbove ==
  ASSUME program \in Programs, NEW c, NEW k \in DOMAIN Line(c)
  PROVE  /\ \A j \in DOMAIN Line(c) : Line(c)[j] = Line(c)[k] => j = k
         /\ \A j \in DOMAIN Line(c) : j < k => Line(c)[j] \in Range(Line(Line(c)[k])) \ {Line(c)[k]}
<1>1. ASSUME NEW j \in DOMAIN Line(c)
      PROVE  DOMAIN Line(Line(c)[j]) = 1 .. j /\ \A i \in 1 .. j : Line(Line(c)[j])[i] = Line(c)[i]
  <2>1. Line(Line(c)[j]) = SubSeq(Line(c), 1, j)
    BY LineType
  <2> QED BY <2>1, PrefixOfLine
<1>2. DOMAIN Line(c) \subseteq Nat \ {0}
  BY LineType
<1>3. ASSUME NEW j \in DOMAIN Line(c), Line(c)[j] = Line(c)[k] PROVE j = k
  <2>1. 1 .. j = 1 .. k
    BY <1>1, <1>3
  <2> QED BY <1>2, <2>1
<1>4. ASSUME NEW j \in DOMAIN Line(c), j < k
      PROVE  Line(c)[j] \in Range(Line(Line(c)[k])) \ {Line(c)[k]}
  <2>1. j \in 1 .. k /\ j # k
    BY <1>2, <1>4
  <2>2. Line(c)[j] \in Range(Line(Line(c)[k]))
    BY <1>1, <2>1 DEF Range
  <2> QED BY <1>3, <2>1, <2>2
<1> QED BY <1>3, <1>4

LEMMA NoNameTwice ==
  ASSUME program \in Programs, NEW c \in Class, NEW d \in Class, NEW n,
         n \in program.virtual[d]
  PROVE  n \notin program.direct[c]
<1>1. program.direct[c] \cap program.virtual[d] = {}
  BY ProgramsAssumption
<1> QED BY <1>1

LEMMA ResolvedType ==
  ASSUME program \in Programs, NEW L, Full(L), NEW c, NEW n, NEW m \in Resolved(L, c, n)
  PROVE  /\ c \in L /\ m \in MethodsOf(L) /\ m[2] = n
         /\ \E k \in DOMAIN Line(c) :
              /\ m = <<Line(c)[k], n>> /\ k \in Declared("direct", c, n) \cup Declared("virtual", c, n)
              /\ \A j \in Declared("direct", c, n) \cup Declared("virtual", c, n) : j <= k
              /\ Line(c)[k] \in L /\ L \subseteq Class
              /\ n \in program.direct[Line(c)[k]] \cup program.virtual[Line(c)[k]]
<1> DEFINE D == Declared("direct", c, n) \cup Declared("virtual", c, n)
<1> PICK k : k = Max(D)
  OBVIOUS
<1>1. c \in L /\ D # {} /\ m = <<Line(c)[k], n>>
  BY DEF Resolved
<1>2. D \subseteq DOMAIN Line(c) /\ D \subseteq Nat /\ Len(Line(c)) \in Nat
      /\ \A j \in D : j <= Len(Line(c))
  BY DeclaredType, LineType
<1>3. k \in D /\ \A j \in D : j <= k
  BY <1>1, <1>2, MaxOfPlaces
<1>4. k \in DOMAIN Line(c) /\ (\/ n \in program["direct"][Line(c)[k]]
                               \/ n \in program["virtual"][Line(c)[k]])
  BY <1>3 DEF Declared
<1>5. Line(c)[k] \in L /\ L \subseteq Class
  BY <1>1, <1>4 DEF Full
<1>6. n \in program.direct[Line(c)[k]] \cup program.virtual[Line(c)[k]] /\ n \in Name
  BY <1>4, <1>5, TablesType
<1>7. m \in MethodsOf(L)
  BY <1>1, <1>5, <1>6, MethodsType
<1> QED BY <1>1, <1>3, <1>4, <1>5, <1>6, <1>7

LEMMA CalledType ==
  ASSUME program \in Programs, NEW L, Full(L), NEW i
  PROVE  Called(L, i) \subseteq MethodsOf(L)
<1>1. ASSUME NEW m \in Resolved(L, i.class, i.name)
      PROVE  {m} \cup Overriding(L, m) \subseteq MethodsOf(L)
  <2>1. \A c \in L : m[2] \in program.virtual[c] => <<c, m[2]>> \in MethodsOf(L)
    <3>1. L \subseteq Class
      BY DEF Full
    <3> QED BY <3>1, MethodsType, TablesType
  <2>2. m \in MethodsOf(L)
    BY ResolvedType
  <2> QED BY <2>1, <2>2 DEF Overriding
<1> QED BY <1>1 DEF Called

(* The vtable has the declaration that is nearest above if it is the only  *)
(* one, or that of the class itself.                                       *)
LEMMA LookupResolves ==
  ASSUME program \in Programs, NEW L, Full(L), NEW i, NotInMiddle(L, i)
  PROVE  Lookup(L, i.class, i.name) = Resolved(L, i.class, i.name)
<1> PICK c, n : c = i.class /\ n = i.name
  OBVIOUS
<1> DEFINE D == Declared("direct", c, n)
           V == Declared("virtual", c, n)
<1>1. CASE c \notin L
  BY <1>1 DEF Lookup, Resolved
<1>2. ASSUME c \in L PROVE c \in Class /\ Line(c) # <<>>
  BY <1>2 DEF Full
<1>3. /\ D \subseteq DOMAIN Line(c) /\ V \subseteq DOMAIN Line(c)
      /\ DOMAIN Line(c) = 1 .. Len(Line(c)) /\ Len(Line(c)) \in Nat
  BY DeclaredType, LineType
<1>4. CASE c \in L /\ n \in program.direct[c] \cup program.virtual[c]
  <2> PICK k : k = Len(Line(c))
    OBVIOUS
  <2>1. k \in DOMAIN Line(c) /\ Line(c)[k] = c
    BY <1>2, <1>4, LineEnds
  <2>2. k \in D \cup V
    <3>1. n \in program["direct"][c] \/ n \in program["virtual"][c]
      BY <1>4
    <3> QED BY <2>1, <3>1 DEF Declared
  <2>3. Max(D \cup V) = k
    <3>1. D \cup V \subseteq Nat /\ \A j \in D \cup V : j <= k
      BY <1>3
    <3>2. Max(D \cup V) \in D \cup V /\ \A j \in D \cup V : j <= Max(D \cup V)
      BY <1>3, <2>2, <3>1, MaxOfPlaces
    <3>3. k \in Nat /\ Max(D \cup V) \in Nat /\ Max(D \cup V) <= k /\ k <= Max(D \cup V)
      BY <2>2, <3>1, <3>2
    <3> QED BY <3>3
  <2>4. Resolved(L, c, n) = {<<c, n>>}
    BY <1>4, <2>1, <2>2, <2>3 DEF Resolved
  <2> QED BY <1>4, <2>4 DEF Lookup
<1>5. ASSUME c \in L, n \notin program.direct[c] \cup program.virtual[c], V # {}
      PROVE  Lookup(L, c, n) = Resolved(L, c, n)
  <2>1. PICK v \in V : v = Min(V)
    BY <1>5, DeclaredType
  <2>2. \A j \in V : v <= j
    <3>1. V \subseteq Nat /\ \A j \in V : j <= Len(Line(c))
      BY <1>3
    <3> QED BY <1>5, <2>1, <3>1, MinOfPlaces
  <2>3. Lookup(L, c, n) = {<<Line(c)[v], n>>}
    BY <1>5, <2>1 DEF Lookup, Entry
  <2>4. PICK m : Resolved(L, c, n) = {m}
    BY <1>5 DEF Resolved
  <2>5. PICK k \in DOMAIN Line(c) :
          /\ m = <<Line(c)[k], n>> /\ k \in D \cup V /\ \A j \in D \cup V : j <= k
          /\ Line(c)[k] \in L /\ L \subseteq Class
          /\ n \in program.direct[Line(c)[k]] \cup program.virtual[Line(c)[k]]
    BY <2>4, ResolvedType
  <2>6. Line(c)[k] # c
    BY <1>5, <2>5
  <2>7. ~Overrides(m)
    BY <2>4, <2>5, <2>6 DEF NotInMiddle
  <2>8. v \in DOMAIN Line(c) /\ n \in program.virtual[Line(c)[v]] /\ v <= k
    BY <2>1, <2>5 DEF Declared
  <2>9. ~(v < k)
    <3>1. SUFFICES ASSUME v < k PROVE FALSE
      OBVIOUS
    <3>2. Line(c)[v] \in Range(Line(Line(c)[k])) \ {Line(c)[k]}
      BY <2>8, <3>1, LineAbove
    <3> QED BY <2>5, <2>7, <2>8, <3>2 DEF Overrides
  <2>10. v = k
    BY <1>3, <2>5, <2>8, <2>9
  <2> QED BY <2>3, <2>4, <2>5, <2>10
<1>6. ASSUME c \in L, n \notin program.direct[c] \cup program.virtual[c], V = {}
      PROVE  Lookup(L, c, n) = Resolved(L, c, n)
  <2>1. Lookup(L, c, n) = {<<Line(c)[k], n>> : k \in {j \in D : \A h \in D : h <= j}}
    BY <1>6 DEF Lookup
  <2>2. CASE D = {}
    BY <1>6, <2>1, <2>2 DEF Resolved
  <2>3. CASE D # {}
    <3>1. D \cup V = D
      BY <1>6
    <3>2. D \subseteq Nat /\ \A j \in D : j <= Len(Line(c))
      BY <1>3
    <3>3. Max(D) \in D /\ \A h \in D : h <= Max(D)
      BY <1>3, <2>3, <3>2, MaxOfPlaces
    <3>4. \A j \in D : (\A h \in D : h <= j) => j = Max(D)
      BY <3>2, <3>3
    <3>5. Resolved(L, c, n) = {<<Line(c)[Max(D)], n>>}
      BY <1>6, <2>3, <3>1 DEF Resolved
    <3> HIDE DEF D
    <3> QED BY <2>1, <3>3, <3>4, <3>5
  <2> QED BY <2>2, <2>3
<1> QED BY <1>1, <1>4, <1>5, <1>6

(* The method_super edges lead to the methods that override it.            *)
LEMMA OverridersAre ==
  ASSUME program \in Programs, NEW L, Full(L), NEW i, NotInMiddle(L, i),
         NEW m \in Resolved(L, i.class, i.name)
  PROVE  Overriders(L, m) = Overriding(L, m)
<1> PICK c, n, d : c = i.class /\ n = i.name /\ d = m[1]
  OBVIOUS
<1>1. /\ m = <<d, n>> /\ m[2] = n /\ d \in L /\ L \subseteq Class
      /\ n \in program.direct[d] \cup program.virtual[d]
  BY ResolvedType
<1>2. ASSUME NEW b \in L \ {d}, n \in program.virtual[b], Entry(b, n) = m
      PROVE  d \in Range(Line(b))
  <2>1. b \in Class /\ Line(b) # <<>>
    BY <1>2 DEF Full
  <2>2. Len(Line(b)) \in Declared("virtual", b, n)
    BY <1>2, <2>1, LineEnds DEF Declared
  <2>3. Min(Declared("virtual", b, n)) \in DOMAIN Line(b)
    BY <2>2, DeclaredType
  <2>4. d = Line(b)[Min(Declared("virtual", b, n))]
    BY <1>1, <1>2 DEF Entry
  <2> QED BY <2>3, <2>4 DEF Range
<1>3. ASSUME NEW b \in L \ {d}, n \in program.virtual[b], d \in Range(Line(b)), ~Overrides(m)
      PROVE  Entry(b, n) = m
  <2>1. PICK p \in DOMAIN Line(b) : Line(b)[p] = d
    BY <1>3 DEF Range
  <2>2. n \in program.virtual[d]
    BY <1>1, <1>3, NoNameTwice
  <2> PICK V : V = Declared("virtual", b, n)
    OBVIOUS
  <2>3. p \in V
    BY <2>1, <2>2 DEF Declared
  <2>4. V \subseteq Nat /\ \A j \in V : j <= Len(Line(b)) /\ Len(Line(b)) \in Nat
    BY DeclaredType, LineType
  <2>5. PICK v \in V : v = Min(V) /\ \A j \in V : v <= j
    BY <2>3, <2>4, MinOfPlaces
  <2>6. v \in DOMAIN Line(b) /\ n \in program.virtual[Line(b)[v]]
    BY <2>5 DEF Declared
  <2>7. ~(v < p)
    <3>1. SUFFICES ASSUME v < p PROVE FALSE
      OBVIOUS
    <3>2. Line(b)[v] \in Range(Line(d)) \ {d}
      BY <2>1, <2>6, <3>1, LineAbove
    <3> QED BY <1>1, <1>3, <2>6, <3>2 DEF Overrides
  <2>8. v = p
    BY <2>3, <2>4, <2>5, <2>7
  <2> QED BY <1>1, <2>1, <2>5, <2>8 DEF Entry
<1>4. ~Overrides(m) \/ Overriding(L, m) = {}
  BY DEF NotInMiddle
<1>5. \A t : t \in Overriders(L, m) <=>
        \E b \in L \ {d} : n \in program.virtual[b] /\ Entry(b, n) = m /\ t = <<b, n>>
  BY <1>1 DEF Overriders
<1>6. \A t : t \in Overriding(L, m) <=>
        \E b \in L \ {d} : d \in Range(Line(b)) /\ n \in program.virtual[b] /\ t = <<b, n>>
  BY <1>1 DEF Overriding
<1>7. Overriders(L, m) \subseteq Overriding(L, m)
  BY <1>2, <1>5, <1>6
<1>8. ~Overrides(m) => Overriding(L, m) \subseteq Overriders(L, m)
  BY <1>3, <1>5, <1>6
<1> QED BY <1>4, <1>7, <1>8

LEMMA EdgesAreCalls ==
  ASSUME program \in Programs, NEW L, Full(L), NEW m,
         \A k \in CallsAt(m) : NotInMiddle(L, Code(m)[k]), NEW e
  PROVE  e \in HierarchyCalls(L, m) <=> \E k \in DOMAIN Code(m) : e \in EdgesAt(L, m, k)
<1>1. ASSUME NEW k \in CallsAt(m)
      PROVE  \A t : t \in Called(L, Code(m)[k]) <=>
               \E a \in Lookup(L, Code(m)[k].class, Code(m)[k].name) : t \in Targets(L, a)
  <2> PICK i : i = Code(m)[k]
    OBVIOUS
  <2>1. NotInMiddle(L, i)
    OBVIOUS
  <2>2. Lookup(L, i.class, i.name) = Resolved(L, i.class, i.name)
    BY <2>1, LookupResolves
  <2>3. \A a \in Resolved(L, i.class, i.name) : Targets(L, a) = {a} \cup Overriding(L, a)
    BY <2>1, OverridersAre DEF Targets
  <2>4. \A t : t \in Called(L, i) <=>
          \E a \in Resolved(L, i.class, i.name) : t \in {a} \cup Overriding(L, a)
    BY DEF Called
  <2> QED BY <2>2, <2>3, <2>4
<1>2. \A k \in DOMAIN Code(m) :
        e \in EdgesAt(L, m, k) <=>
          /\ k \in CallsAt(m)
          /\ \E a \in Lookup(L, Code(m)[k].class, Code(m)[k].name) :
               \E t \in Targets(L, a) : e = <<m, k, t>>
  BY DEF EdgesAt, CallsAt
<1>3. e \in HierarchyCalls(L, m) <=> \E k \in CallsAt(m) : \E t \in Called(L, Code(m)[k]) : e = <<m, k, t>>
  BY DEF HierarchyCalls
<1>4. CallsAt(m) \subseteq DOMAIN Code(m)
  BY DEF CallsAt
<1> QED BY <1>1, <1>2, <1>3, <1>4

(* The walk ends with an empty worklist: every instruction of every method *)
(* it has seen was walked, so what it has seen is closed under the edges,  *)
(* and it is in every such set.  What class hierarchy analysis reaches is  *)
(* one of them, and there the edges are its calls: so what was seen is     *)
(* closed under its calls too, and is all it reaches.                      *)
THEOREM ChaGraphExact == Spec => []ChaExact
<1>1. LoadInv /\ ChaInv => ChaExact
  <2> SUFFICES ASSUME LoadInv, ChaInv, pc = "again", MethodsOf(loaded) = sized,
                      NoMiddleCalled(loaded)
               PROVE  ccg = ChaEdges(loaded)
    BY DEF ChaExact, At
  <2> PICK L, R : L = loaded /\ R = Reachable(loaded)
    OBVIOUS
  <2>1. WalkInv(L) /\ worklist = <<>> /\ current.at = 0 /\ program \in Programs /\ Full(L)
    BY DEF ChaInv, LoadInv
  <2>2. Range(worklist) = {}
    BY <2>1 DEF Range
  <2>3. \A m, k : Covered(m, k) <=> m \in seen /\ k \in DOMAIN Code(m)
    BY <2>1, <2>2 DEF Covered
  <2>4. \A m \in seen : \A k \in DOMAIN Code(m) : \A e \in EdgesAt(L, m, k) : e[3] \in seen
    BY <2>1, <2>3 DEF WalkInv
  <2>5. /\ seen \subseteq MethodsOf(L)
        /\ Lookup(L, program.entry[1], program.entry[2]) \subseteq seen
        /\ \A M : ClosedUnderEdges(L, M) => seen \subseteq M
    BY <2>1 DEF WalkInv
  <2>6. ASSUME NEW m \in R, NEW e
        PROVE  e \in HierarchyCalls(L, m) <=> \E k \in DOMAIN Code(m) : e \in EdgesAt(L, m, k)
    <3>1. \A k \in CallsAt(m) : NotInMiddle(L, Code(m)[k])
      BY DEF NoMiddleCalled
    <3> QED BY <2>1, <3>1, EdgesAreCalls
  <2>7. ClosedUnderCalls(L, R)
    <3>1. \A m : m \in R <=> /\ m \in MethodsOf(L)
                            /\ \A M \in SUBSET MethodsOf(L) : ClosedUnderCalls(L, M) => m \in M
      BY DEF Reachable
    <3>2. Lookup(L, program.entry[1], program.entry[2]) \subseteq R
      BY <2>1, <3>1, LookupType DEF ClosedUnderCalls
    <3>3. ASSUME NEW m \in R, NEW e \in HierarchyCalls(L, m)
          PROVE  e[3] \in R
      <4> PICK k \in CallsAt(m) : \E t \in Called(L, Code(m)[k]) : e = <<m, k, t>>
        BY DEF HierarchyCalls
      <4>1. PICK t \in Called(L, Code(m)[k]) : e = <<m, k, t>>
        OBVIOUS
      <4>2. e[3] = t /\ t \in MethodsOf(L)
        BY <2>1, <4>1, CalledType
      <4>3. \A M \in SUBSET MethodsOf(L) : ClosedUnderCalls(L, M) => t \in M
        BY <3>1, <4>2 DEF ClosedUnderCalls
      <4> QED BY <3>1, <4>2, <4>3
    <3> QED BY <3>2, <3>3 DEF ClosedUnderCalls
  <2>8. ClosedUnderEdges(L, R)
    BY <2>6, <2>7 DEF ClosedUnderEdges, ClosedUnderCalls
  <2>9. seen \subseteq R
    BY <2>5, <2>8
  <2>10. ClosedUnderCalls(L, seen)
    BY <2>4, <2>5, <2>6, <2>9 DEF ClosedUnderCalls
  <2>11. R = seen
    BY <2>5, <2>9, <2>10 DEF Reachable
  <2>12. \A e : e \in ccg <=> \E m, k : Covered(m, k) /\ e \in EdgesAt(L, m, k)
    BY <2>1 DEF WalkInv
  <2>13. \A e : e \in ccg <=> \E m \in R : e \in HierarchyCalls(L, m)
    BY <2>3, <2>6, <2>11, <2>12
  <2> QED BY <2>13 DEF ChaEdges
<1> QED BY <1>1, LoadInvInductive, ChaInvInductive, PTL DEF Spec
=============================================================================
