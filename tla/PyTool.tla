------------------------------- MODULE PyTool -------------------------------
(***************************************************************************)
(* jitana-python (tools/jitana-python/main.cpp): main looks the function   *)
(* to analyse up, disassembles it and, recursively, what it calls, makes   *)
(* the call graph of each function, their union and the interprocedural    *)
(* control flow graph, and then the graph of the imports of the script.    *)
(*                                                                         *)
(* The program is a heap of Python objects.  The tool keeps what it has    *)
(* disassembled by the name a call gives it, "glob", "mod.func" or         *)
(* "self.method", not by the object the name stands for.                   *)
(***************************************************************************)
EXTENDS PyCfg, Bags

CONSTANTS
  Object,    \* the objects of the Python program
  NoCode,    \* what has no instructions, or no object
  Part,      \* the parts of names
  Self,      \* the name "self"
  File,      \* names of modules
  Programs   \* [entry, name, kind, globals, attr, receiver, code, script]: kind
             \* is "function", "method" (bound), "cfunction", "callable" or
             \* "value"; script is [start, local, loads, imports], the files the
             \* tool can find as dir/name.py, those the interpreter can import,
             \* and what the functions of each import

ASSUME NoCodeAssumption == NoCode \notin Object
ASSUME FileAssumption == IsFiniteSet(File)

ASSUME ProgramsAssumption ==
  \A p \in Programs :
    /\ p.kind \in [Object -> {"function", "method", "cfunction", "callable", "value"}]
    /\ p.entry \in Object /\ p.receiver \in [Object -> Object]
    /\ \A o \in Object : \A t \in {p.globals[o], p.attr[o]} :
         DOMAIN t \subseteq Part /\ Range(t) \subseteq Object
    /\ p.name # <<>>
    /\ \A o \in Object :
         /\ p.code[o] \in Seq(Range(p.code[o])) /\ \A k \in DOMAIN p.code[o] : p.code[o][k].arg \in Nat
         /\ p.kind[o] \in {"function", "method"} => p.code[o] # <<>> /\ Last(p.code[o]).op \in Ends
    /\ p.script.start \in File /\ p.script.local \cup p.script.loads \subseteq File
    /\ p.script.imports \in [File -> SUBSET File]

VARIABLES
  program,
  called,     \* what each name stands for: an object, or NoCode
  stack,      \* the calls of the recursive function: [context, at]
  graphs,     \* the call graph of each function, a bag of the names it calls
  master,     \* their union, a bag of <<caller, callee>>
  files,      \* the queue of files to process
  processed,
  deps,       \* the dependency graph: [type, edges]
  pc

tree == <<called, stack>>
deptree == <<files, processed, deps>>
vars == <<program, called, stack, graphs, master, files, processed, deps, pc>>

script == program.script

IsCode(o) == o \in Object /\ program.kind[o] \in {"function", "method"}
CodeOf(o) == IF IsCode(o) THEN program.code[o] ELSE <<>>
CodeMap   == [n \in DOMAIN called |-> CodeOf(called[n])]

-----------------------------------------------------------------------------
(* What a name stands for in a function, found among the objects that are  *)
(* there now; NoCode if it stands for nothing.                             *)

Attribute(o, a) ==
  IF o \in Object /\ a \in DOMAIN program.attr[o] THEN program.attr[o][a] ELSE NoCode

(* A first attribute that is named like the base is taken for the base.    *)
Resolve(context, name) ==
  LET base  == Head(name)
      attrs == Tail(name)
      path  == IF attrs # <<>> /\ Head(attrs) = base THEN Tail(attrs) ELSE attrs
      table == program.globals[context]
  IN  CASE base = Self /\ program.kind[context] = "method" /\ attrs # <<>> ->
             Attribute(program.receiver[context], Last(attrs))
        [] base # Self /\ base \in DOMAIN table ->
             FoldLeft(Attribute, table[base], path)
        [] OTHER -> NoCode

(* The next call instruction, from `at' on.                                *)
CallsFrom(frame) == {i \in CallSites(CodeOf(frame.context)) : i >= frame.at}

(* The name under which the call at i is kept, found on the stack or, if   *)
(* that fails, the argument of the instruction, and its object.            *)
NameOf(code, i) ==
  IF CallableName(code, i) # <<>> THEN CallableName(code, i) ELSE <<code[i].val>>

(* Mutant: the call is examined again.                                     *)
StayedAt(i) == [stack EXCEPT ![Len(stack)].at = i]

(* A map with one more entry.                                              *)
Put(f, x, y) == [z \in DOMAIN f \cup {x} |-> IF z = x THEN y ELSE f[z]]

Frame(context) == [context |-> context, at |-> 1]
Top == Last(stack)
Advanced(i) == [stack EXCEPT ![Len(stack)].at = i + 1]

-----------------------------------------------------------------------------
NoDeps == [type |-> <<>>, edges |-> {}]

Init ==
  /\ program \in Programs
  /\ called = <<>> /\ stack = <<>> /\ graphs = <<>> /\ master = EmptyBag
  /\ files = <<>> /\ processed = {} /\ deps = NoDeps
  /\ pc = "start"

(* The function the user chose: disassembled if it has code.               *)
Start ==
  /\ pc = "start"
  /\ IF IsCode(program.entry)
     THEN called' = Put(<<>>, program.name, program.entry) /\ stack' = <<Frame(program.entry)>>
     ELSE UNCHANGED tree
  /\ pc' = "disassemble"
  /\ UNCHANGED <<program, graphs, master, deptree>>

(* What is done with a call at i, of this name, which stands for target.   *)

(* A name that has been met before is passed over, whatever object it      *)
(* names here.                                                             *)
Known(i, name, target) ==
  /\ name \in DOMAIN called
  /\ stack' = Advanced(i) /\ UNCHANGED called

(* Mutant: what a bound method calls is not looked at.                     *)
EnterFunction(i, name, target) ==
  /\ name \notin DOMAIN called /\ IsCode(target)
  /\ called' = Put(called, name, target)
  /\ stack' = IF program.kind[target] = "method" THEN Advanced(i)
              ELSE Append(Advanced(i), Frame(target))

(* A function with code is recorded and entered.                           *)
Enter(i, name, target) ==
  /\ name \notin DOMAIN called /\ IsCode(target)
  /\ called' = Put(called, name, target)
  /\ stack' = Append(Advanced(i), Frame(target))

(* Built-in functions, other callables, and names that were not resolved   *)
(* are recorded without code.                                              *)
RecordOpaque(i, name, target) ==
  /\ name \notin DOMAIN called
  /\ target \in Object => program.kind[target] \in {"cfunction", "callable"}
  /\ called' = Put(called, name, NoCode)
  /\ stack' = Advanced(i)

(* What is not callable is not recorded.                                   *)
NotCallable(i, name, target) ==
  /\ name \notin DOMAIN called /\ target \in Object /\ program.kind[target] = "value"
  /\ stack' = Advanced(i) /\ UNCHANGED called

Examine ==
  /\ pc = "disassemble" /\ stack # <<>> /\ CallsFrom(Top) # {}
  /\ \E i \in {Min(CallsFrom(Top))} : \E name \in {NameOf(CodeOf(Top.context), i)} :
       \E target \in {Resolve(Top.context, name)} :
         \/ Known(i, name, target)
         \/ Enter(i, name, target)
         \/ RecordOpaque(i, name, target)
         \/ NotCallable(i, name, target)
  /\ UNCHANGED <<program, graphs, master, deptree, pc>>

Return ==
  /\ pc = "disassemble" /\ stack # <<>> /\ CallsFrom(Top) = {}
  /\ stack' = Front(stack)
  /\ UNCHANGED <<program, called, graphs, master, deptree, pc>>

-----------------------------------------------------------------------------
(* The names a function calls that the tool knows, each as often as it     *)
(* calls it.                                                               *)
CallBag(code) ==
  LET sites(n) == {i \in CallSites(code) : NameOf(code, i) = n}
      names    == {NameOf(code, i) : i \in CallSites(code)} \cap DOMAIN called
  IN  [n \in names |-> Cardinality(sites(n))]

CallGraphs ==
  /\ pc = "disassemble" /\ stack = <<>>
  /\ graphs' = [n \in DOMAIN called |-> CallBag(CodeOf(called[n]))]
  /\ pc' = "combine"
  /\ UNCHANGED <<program, tree, master, deptree>>

(* The graphs are copied into one, counts of the same edge added up.  The  *)
(* interprocedural graph made after that is PyCfg's, of CodeMap.           *)
EdgeBag(n) == [e \in {n} \X DOMAIN graphs[n] |-> graphs[n][e[2]]]
AddEdges(n, b) == b (+) EdgeBag(n)

Combine ==
  /\ pc = "combine"
  /\ master' = FoldSet(AddEdges, EmptyBag, DOMAIN graphs)
  /\ pc' = "dependencies" /\ files' = <<script.start>>
  /\ UNCHANGED <<program, tree, graphs, processed, deps>>

-----------------------------------------------------------------------------
(* The dependency graph.                                                   *)

Again ==
  /\ pc = "dependencies" /\ files # <<>> /\ Head(files) \in processed
  /\ files' = Tail(files)
  /\ UNCHANGED <<program, tree, graphs, master, processed, deps, pc>>

(* Mutant: only what is not a file yet is queued.                          *)
ScanNew ==
  LET f == Head(files)
      imported == IF f \in script.loads THEN script.imports[f] ELSE {}
      type(d)  == IF d \in imported THEN IF d \in script.local THEN "File" ELSE "Library"
                  ELSE IF d = f THEN "File" ELSE deps.type[d]
  IN  /\ pc = "dependencies" /\ files # <<>> /\ f \notin processed
      /\ processed' = processed \cup {f}
      /\ deps' = [type  |-> [d \in imported \cup {f} \cup DOMAIN deps.type |-> type(d)],
                  edges |-> deps.edges \cup ({f} \X imported)]
      /\ files' = Tail(files) \o SetToSeq((imported \cap script.local) \ DOMAIN deps'.type)
      /\ UNCHANGED <<program, tree, graphs, master, pc>>

(* A file is a vertex; what its functions import are its successors, and   *)
(* those of them that are files are processed as well.                     *)
Scan ==
  LET f == Head(files)
      imported == IF f \in script.loads THEN script.imports[f] ELSE {}
      type(d)  == IF d \in imported THEN IF d \in script.local THEN "File" ELSE "Library"
                  ELSE IF d = f THEN "File" ELSE deps.type[d]
  IN  /\ pc = "dependencies" /\ files # <<>> /\ f \notin processed
      /\ processed' = processed \cup {f}
      /\ deps' = [type  |-> [d \in imported \cup {f} \cup DOMAIN deps.type |-> type(d)],
                  edges |-> deps.edges \cup ({f} \X imported)]
      /\ files' = Tail(files) \o SetToSeq(imported \cap script.local)
      /\ UNCHANGED <<program, tree, graphs, master, pc>>

Finish ==
  /\ pc = "dependencies" /\ files = <<>>
  /\ pc' = "done"
  /\ UNCHANGED <<program, tree, graphs, master, deptree>>

Next == Start \/ Examine \/ Return \/ CallGraphs \/ Combine \/ Again \/ Scan \/ Finish

Spec == Init /\ [][Next]_vars
FairSpec == Spec /\ WF_vars(Next)

-----------------------------------------------------------------------------
(* The recursion misses nothing: when it is over, whatever a disassembled  *)
(* function calls is recorded under the name of the call, unless the name  *)
(* stands for something that cannot be called.                             *)
CalleesRecorded ==
  pc \notin {"start", "disassemble"} =>
    \A n \in DOMAIN called : \A i \in CallSites(CodeOf(called[n])) :
      LET name == NameOf(CodeOf(called[n]), i) IN
        name \in DOMAIN called \/ program.kind[Resolve(called[n], name)] = "value"

(* Walking backwards with the table of effects finds the callable that the *)
(* interpreter finds walking forwards, or nothing if the code before the   *)
(* call is longer than the walk; this is for straight code without calls   *)
(* of a variable, which PUSH_NULL starts.                                  *)
CalleeExact ==
  pc = "combine" =>
    \A n \in DOMAIN called : LET code == CodeOf(called[n]) IN
      \A i \in {k \in CallSites(code) \ {1} : code[k].op # "CALL_INTRINSIC_1" /\ StraightTo(code, k)} :
        (\A k \in 1 .. i : code[k].op # "PUSH_NULL") =>
          \/ CallableName(code, i) = Called(code, i)
          \/ CallableName(code, i) = <<>> /\ i - 1 > MaxDepth

(* The blocks of a function are those of its code: only the last           *)
(* instruction of a block leads elsewhere than to the next one, and its    *)
(* edges lead where the interpreter goes.  Two opcodes are left out, whose *)
(* edges the tool does not make: FOR_ITER has no edge out of the loop, and *)
(* RERAISE has one to the next block.                                      *)
CfgFaithful ==
  pc = "combine" =>
    \A n \in DOMAIN called : LET code == CodeOf(called[n]) IN
      \A b \in IF code = <<>> THEN {} ELSE Blocks(code) : LET last == EndOf(code, b) IN
        /\ \A i \in b .. last - 1 : Follows(code, i) \subseteq {i + 1} \/ code[i].op = "FOR_ITER"
        /\ code[last].op \notin {"FOR_ITER", "RERAISE"} =>
             {e[2] : e \in EdgesOf(code, b)} = Follows(code, last)

(* The two graphs agree: a call edge of the interprocedural graph, found   *)
(* in a block, is a call that the call graph, which looks at the whole     *)
(* function, counts between the same functions; and control returns only   *)
(* to a block before which the function was called.                        *)
IcfgWithinCalls ==
  pc = "done" => LET calls == IcfgCalls(CodeMap) IN
    /\ \A c \in calls : LET f == c[1][1]  g == c[3][1] IN
         /\ NameOf(CodeMap[f], c[2]) = g
         /\ <<f, g>> \in BagToSet(master)
         /\ Cardinality({d \in calls : d[1][1] = f /\ d[3][1] = g}) <= master[<<f, g>>]
    /\ \A r \in IcfgReturns(CodeMap) : \E c \in calls :
         c[3][1] = r[1][1] /\ <<c[1], r[2]>> \in IcfgFlow(CodeMap)

(* Both, since the second is read along the edges of the first.            *)
FlowGraphsFaithful == CfgFaithful /\ IcfgWithinCalls

(* The files the script reaches through imports of files.                  *)
FilesReached ==
  LET step(F) == F \cup ((UNION {script.imports[f] : f \in F \cap script.loads}) \cap script.local)
      within[k \in Nat] == IF k = 0 THEN {script.start} ELSE step(within[k - 1])
  IN  within[Cardinality(File)]

(* However the files import each other, all that the script reaches are    *)
(* processed, and the edges are their imports.                             *)
DependenciesExact ==
  pc = "done" =>
    /\ processed = FilesReached
    /\ deps.edges = UNION {{f} \X script.imports[f] : f \in FilesReached \cap script.loads}
    /\ \A f \in DOMAIN deps.type \ {script.start} : deps.type[f] = "File" <=> f \in script.local

(* The tool comes to an end with recursive functions and circular imports. *)
Terminates == <>(pc = "done")
=============================================================================
