----------------------------- MODULE CallGraph -----------------------------
(***************************************************************************)
(* What the tools do with an entry method before they analyse it, in their *)
(* order: load_recursive (vm_core/virtual_machine.cpp), the call edges of  *)
(* the method graph (analysis/call_graph.hpp), the call graph of class     *)
(* hierarchy analysis (analysis/cha_call_graph.cpp), and the call edges    *)
(* once more.                                                              *)
(*                                                                         *)
(* Each part asks the virtual machine for methods by handle, and an answer *)
(* may load classes: the method graph grows below the functions that walk  *)
(* it.  How a class is found and loaded is ClassLoading's; here a class is *)
(* loaded with its superclasses in one step, from one loader.  A method is *)
(* <<class, name>>, its instructions are those that load or call anything, *)
(* and no name is that of a direct method here and a virtual one there.    *)
(***************************************************************************)
EXTENDS Naturals, Sequences, FiniteSets, Bags, SequencesExt, FiniteSetsExt

CONSTANTS
  Class,    \* the classes of the DEX files
  Name,     \* names of methods and fields
  Clinit,   \* "<clinit>()V"
  Programs  \* [entry, line, direct, virtual, fields, code]; line is the chain
            \* of superclasses, from the root to the class itself, or <<>> if
            \* one of them is in no file

ASSUME ClassesAssumption == IsFiniteSet(Class)

(* A line ends with its class, and begins with the line of each class in it. *)
ASSUME ProgramsAssumption ==
  \A p \in Programs :
    /\ p.entry \in Class \X Name
    /\ p.line \in [Class -> Seq(Class)]
    /\ \A c \in Class : /\ p.line[c] # <<>> => p.line[c][Len(p.line[c])] = c
                        /\ \A k \in DOMAIN p.line[c] :
                             p.line[p.line[c][k]] = SubSeq(p.line[c], 1, k)
    /\ {p.direct, p.virtual, p.fields} \subseteq [Class -> SUBSET Name]
    /\ \A c, d \in Class : p.direct[c] \cap p.virtual[d] = {}
    /\ \A m \in Class \X Name : /\ Len(p.code[m]) \in Nat
                               /\ DOMAIN p.code[m] = 1 .. Len(p.code[m])

VARIABLES
  program,
  loaded,    \* the classes that are loaded
  \* load_recursive
  visited,   \* the methods it has entered
  stack,     \* its calls in progress: [method, at, step, todo], last one first
  \* the method graph
  calls,     \* its call edges, a bag of <<caller, instruction, target>>
  \* make_cha_call_graph
  sized,     \* the methods there were when it made its visited vector
  seen,      \* the methods whose bit is set
  worklist,
  current,   \* the method it walks, and the instruction it is at: [method, at]
  ccg,       \* the edges of the contextual call graph
  pc,
  status     \* "running", "failed" (an exception) or "undefined"

loading == <<visited, stack>>
cha     == <<sized, seen, worklist, current, ccg>>
vars    == <<program, loaded, loading, calls, cha, pc, status>>

-----------------------------------------------------------------------------
(* The answers of the virtual machine, from the classes in L.              *)

Line(c)     == IF c \in Class THEN program.line[c] ELSE <<>>
Loadable(c) == Line(c) # <<>>

LoadedWith(L, c) == L \cup Range(Line(c))

MethodsOf(L) == UNION {{c} \X (program.direct[c] \cup program.virtual[c]) : c \in L}
Code(m)      == program.code[m]

(* The places in the line of c where n is declared.                        *)
Declared(tbl, c, n) == {k \in DOMAIN Line(c) : n \in program[tbl][Line(c)[k]]}

(* The first entry of the vtable with the name, which later ones leave     *)
(* where it is.                                                            *)
Entry(c, n) == <<Line(c)[Min(Declared("virtual", c, n))], n>>

(* find_method: a method of the class itself; else the last direct one of  *)
(* its superclasses, else what the vtable has.  A set of at most one.      *)
Lookup(L, c, n) ==
  IF c \notin L THEN {}
  ELSE IF n \in program.direct[c] \cup program.virtual[c] THEN {<<c, n>>}
  ELSE IF Declared("virtual", c, n) # {} THEN {Entry(c, n)}
  ELSE {<<Line(c)[k], n>> : k \in {j \in Declared("direct", c, n) :
                                     \A i \in Declared("direct", c, n) : i <= j}}

(* The method_super edges: from the entry to each method that overrides it.*)
Overriders(L, m) ==
  {<<c, m[2]>> : c \in {b \in L \ {m[1]} : /\ m[2] \in program.virtual[b]
                                           /\ Entry(b, m[2]) = m}}

(* Mutant: the method the call names is not a target itself.               *)
TargetsBelow(L, m) == Overriders(L, m)

(* The walk along the method_super edges from m.                           *)
Targets(L, m) == {m} \cup Overriders(L, m)

Invokes == {"virtual", "direct", "static"}
Reads   == {"iget", "iput", "sget", "sput"}
Statics == {"sget", "sput"}

Init ==
  /\ program \in Programs
  /\ loaded = {}
  /\ visited = {} /\ stack = <<>>
  /\ calls = EmptyBag
  /\ sized = {} /\ seen = {} /\ worklist = <<>> /\ ccg = {}
  /\ current = [method |-> program.entry, at |-> 0]
  /\ pc = "find" /\ status = "running"

At(place) == status = "running" /\ pc = place

-----------------------------------------------------------------------------
(* load_recursive.                                                         *)

Frame(m) == [method |-> m, at |-> 1, step |-> "insn", todo |-> {}]
Top      == stack[1]
Insn     == Code(Top.method)[Top.at]
InFrame(step) == At("load") /\ stack # <<>> /\ Top.step = step

(* The top frame goes on as f; a method of M that is new is entered first. *)
Goto(f, M) ==
  IF M \subseteq visited THEN stack' = [stack EXCEPT ![1] = f] /\ UNCHANGED visited
  ELSE /\ stack' = <<Frame(CHOOSE m \in M : TRUE), f>> \o Tail(stack)
       /\ visited' = visited \cup M

NextInsn == [Top EXCEPT !.at = @ + 1, !.step = "insn", !.todo = {}]

FindEntry ==
  /\ At("find")
  /\ LET c == program.entry[1]
     IN  /\ loaded' = LoadedWith(loaded, c)
         /\ \/ /\ Lookup(loaded', c, program.entry[2]) # {}
               /\ visited' = Lookup(loaded', c, program.entry[2])
               /\ stack' = <<Frame(CHOOSE m \in visited' : TRUE)>>
               /\ pc' = "load" /\ UNCHANGED status
            \/ /\ Lookup(loaded', c, program.entry[2]) = {}
               /\ status' = "failed" /\ UNCHANGED <<loading, pc>>
  /\ UNCHANGED <<program, calls, cha>>

(* new-instance and check-cast: only the first insists on the class.       *)
LoadClass ==
  /\ InFrame("insn") /\ Top.at <= Len(Code(Top.method)) /\ Insn.op \in {"new", "cast"}
  /\ loaded' = LoadedWith(loaded, Insn.class)
  /\ IF Insn.op = "new" /\ ~Loadable(Insn.class)
     THEN status' = "failed" /\ UNCHANGED loading
     ELSE Goto(NextInsn, {}) /\ UNCHANGED status
  /\ UNCHANGED <<program, calls, cha, pc>>

(* An access to a field insists on the field; to a static field, it enters *)
(* the initialiser of the class that declares it.                          *)
LoadField ==
  /\ InFrame("insn") /\ Top.at <= Len(Code(Top.method)) /\ Insn.op \in Reads
  /\ loaded' = LoadedWith(loaded, Insn.class)
  /\ LET where == Declared("fields", Insn.class, Insn.name)
     IN  IF where = {} THEN status' = "failed" /\ UNCHANGED loading
         ELSE /\ Goto(NextInsn, IF Insn.op \in Statics
                                THEN Lookup(loaded', Line(Insn.class)[Max(where)], Clinit)
                                ELSE {})
              /\ UNCHANGED status
  /\ UNCHANGED <<program, calls, cha, pc>>

(* Mutant: the initialiser is not entered for a static call.               *)
FindCalleeOnly ==
  /\ InFrame("insn") /\ Top.at <= Len(Code(Top.method)) /\ Insn.op \in Invokes
  /\ loaded' = LoadedWith(loaded, Insn.class)
  /\ LET callee == Lookup(loaded', Insn.class, Insn.name)
     IN  IF callee = {} THEN Goto(NextInsn, {})
         ELSE Goto([Top EXCEPT !.step = "targets"], {})
  /\ UNCHANGED <<program, calls, cha, pc, status>>

(* A call: a method that is not found is passed over.                      *)
FindCallee ==
  /\ InFrame("insn") /\ Top.at <= Len(Code(Top.method)) /\ Insn.op \in Invokes
  /\ loaded' = LoadedWith(loaded, Insn.class)
  /\ LET callee == Lookup(loaded', Insn.class, Insn.name)
     IN  IF callee = {} THEN Goto(NextInsn, {})
         ELSE Goto([Top EXCEPT !.step = "targets"],
                   IF Insn.op = "static"
                   THEN UNION {Lookup(loaded', m[1], Clinit) : m \in callee} ELSE {})
  /\ UNCHANGED <<program, calls, cha, pc, status>>

(* The targets are collected once, after the initialiser has been loaded.  *)
CollectTargets ==
  /\ InFrame("targets")
  /\ Goto([Top EXCEPT !.step = "enter",
             !.todo = UNION {Targets(loaded, m) : m \in Lookup(loaded, Insn.class, Insn.name)}], {})
  /\ UNCHANGED <<program, loaded, calls, cha, pc, status>>

EnterTarget ==
  /\ InFrame("enter")
  /\ \E m \in Top.todo : Goto([Top EXCEPT !.todo = @ \ {m}], {m})
  /\ UNCHANGED <<program, loaded, calls, cha, pc, status>>

TargetsEntered ==
  /\ InFrame("enter") /\ Top.todo = {}
  /\ Goto(NextInsn, {})
  /\ UNCHANGED <<program, loaded, calls, cha, pc, status>>

Return ==
  /\ InFrame("insn") /\ Top.at > Len(Code(Top.method))
  /\ stack' = Tail(stack)
  /\ pc' = IF stack' = <<>> THEN "edges" ELSE pc
  /\ UNCHANGED <<program, loaded, visited, calls, cha, status>>

-----------------------------------------------------------------------------
(* add_call_graph_edges.                                                   *)

(* The calls of m whose method is loaded.                                  *)
CallsOf(L, m) ==
  UNION {{<<m, k, t>> : t \in Lookup(L, Code(m)[k].class, Code(m)[k].name)} :
           k \in {i \in DOMAIN Code(m) : Code(m)[i].op \in Invokes}}

(* Mutant: the test whether a method has call edges is dropped.            *)
NeverHasCallEdge(m) == FALSE

HasCallEdge(m) == \E e \in BagToSet(calls) : e[1] = m

AddCallGraphEdges ==
  /\ At("edges") \/ At("again")
  /\ calls' = calls (+) SetToBag(UNION {CallsOf(loaded, m) :
                                          m \in {n \in MethodsOf(loaded) : ~HasCallEdge(n)}})
  /\ pc' = IF pc = "edges" THEN "start" ELSE "done"
  /\ UNCHANGED <<program, loaded, loading, cha, status>>

-----------------------------------------------------------------------------
(* make_cha_call_graph.                                                    *)

StartCha ==
  /\ At("start")
  /\ sized' = MethodsOf(loaded)
  /\ seen' = Lookup(loaded, program.entry[1], program.entry[2])
  /\ worklist' = SetToSeq(seen') /\ ccg' = {}
  /\ pc' = "cha"
  /\ UNCHANGED <<program, loaded, loading, calls, current, status>>

TakeMethod ==
  /\ At("cha") /\ current.at = 0 /\ worklist # <<>>
  /\ current' = [method |-> Head(worklist), at |-> 1]
  /\ worklist' = Tail(worklist)
  /\ UNCHANGED <<program, loaded, loading, calls, sized, seen, ccg, pc, status>>

Walking     == At("cha") /\ current.at \in DOMAIN Code(current.method)
CurrentInsn == Code(current.method)[current.at]
WalkOn      == current' = [current EXCEPT !.at = @ + 1]

SkipInsn ==
  /\ Walking /\ CurrentInsn.op \notin Invokes
  /\ WalkOn
  /\ UNCHANGED <<program, loaded, loading, calls, sized, seen, worklist, ccg, pc, status>>

(* Mutant: a target is queued and its bit is not set.                      *)
MarkNothing(new) == seen

Mark(new) == seen \cup new

(* The lookup may load classes.  Then the vertices may move, and with them *)
(* the instructions that are walked; and the bit of a method that the      *)
(* visited vector has no place for reads as anything, and is written.      *)
WalkCall ==
  /\ Walking /\ CurrentInsn.op \in Invokes
  /\ loaded' = LoadedWith(loaded, CurrentInsn.class)
  /\ LET callee  == Lookup(loaded', CurrentInsn.class, CurrentInsn.name)
         targets == UNION {Targets(loaded', m) : m \in callee}
         outside == targets \ sized
     IN  /\ ccg' = ccg \cup {<<current.method, current.at, t>> : t \in targets}
         /\ \E set \in SUBSET (outside \ seen) :
              LET new == (targets \ seen) \ set
              IN  /\ \E order \in SetToSeqs(new) : worklist' = worklist \o order
                  /\ seen' = Mark(new)
         /\ status' \in IF outside # {} \/ MethodsOf(loaded') # MethodsOf(loaded)
                        THEN {"running", "undefined"} ELSE {"running"}
  /\ WalkOn
  /\ UNCHANGED <<program, loading, calls, sized, pc>>

MethodWalked ==
  /\ At("cha") /\ current.at > Len(Code(current.method))
  /\ current' = [current EXCEPT !.at = 0]
  /\ UNCHANGED <<program, loaded, loading, calls, sized, seen, worklist, ccg, pc, status>>

ChaDone ==
  /\ At("cha") /\ current.at = 0 /\ worklist = <<>>
  /\ pc' = "again"
  /\ UNCHANGED <<program, loaded, loading, calls, cha, status>>

LoadRecursive ==
  \/ FindEntry \/ LoadClass \/ LoadField \/ FindCallee
  \/ CollectTargets \/ EnterTarget \/ TargetsEntered \/ Return

MakeChaCallGraph ==
  StartCha \/ TakeMethod \/ SkipInsn \/ WalkCall \/ MethodWalked \/ ChaDone

Next == LoadRecursive \/ AddCallGraphEdges \/ MakeChaCallGraph

Spec     == Init /\ [][Next]_vars
FairSpec == Spec /\ WF_vars(Next)
-----------------------------------------------------------------------------
(* Properties.                                                             *)

(* When load_recursive returns, whatever it recursed into and in whatever  *)
(* order, the classes named by the methods it entered are loaded if they   *)
(* can be, the methods these call have been entered, and so have the       *)
(* initialisers of what they access statically.                            *)
NeedsOf(i) ==
  LET callee == IF i.op \in Invokes THEN Lookup(loaded, i.class, i.name) ELSE {}
      owners == IF i.op = "static" THEN {m[1] : m \in callee}
                ELSE IF i.op \in Statics
                     THEN {Line(i.class)[Max(Declared("fields", i.class, i.name))]} ELSE {}
  IN  callee \cup UNION {Lookup(loaded, c, Clinit) : c \in owners}

VisitedClosed ==
  pc \notin {"find", "load"} =>
    \A m \in visited : \A k \in DOMAIN Code(m) :
      /\ Loadable(Code(m)[k].class) => Code(m)[k].class \in loaded
      /\ NeedsOf(Code(m)[k]) \subseteq visited

(* However often the edges are made, a call has at most one edge, to the   *)
(* method that find_method answers; after the first time each call of a    *)
(* loaded method has it.                                                   *)
OneEdgePerCall ==
  /\ \A e \in BagToSet(calls) :
       calls[e] = 1 /\ \A f \in BagToSet(calls) : f[1] = e[1] /\ f[2] = e[2] => f = e
  /\ At("start") => BagToSet(calls) = UNION {CallsOf(loaded, m) : m \in MethodsOf(loaded)}

(* What a call means, of the class hierarchy: n in the class c is the one  *)
(* that is declared nearest above, and the methods that override it are    *)
(* those of its name in the classes below its own.                         *)
Resolved(L, c, n) ==
  LET places == Declared("direct", c, n) \cup Declared("virtual", c, n)
  IN  IF c \in L /\ places # {} THEN {<<Line(c)[Max(places)], n>>} ELSE {}

Overriding(L, m) ==
  {<<c, m[2]>> : c \in {b \in L \ {m[1]} : /\ m[1] \in Range(Line(b))
                                           /\ m[2] \in program.virtual[b]}}

CallsAt(m) == {k \in DOMAIN Code(m) : Code(m)[k].op \in Invokes}

Called(L, i) == UNION {{m} \cup Overriding(L, m) : m \in Resolved(L, i.class, i.name)}

(* What class hierarchy analysis means: the methods reached from the entry *)
(* by calls to the method named and to those that override it, and these   *)
(* calls.                                                                  *)
HierarchyCalls(L, m) == UNION {{<<m, k, t>> : t \in Called(L, Code(m)[k])} : k \in CallsAt(m)}

ClosedUnderCalls(L, M) ==
  /\ Lookup(L, program.entry[1], program.entry[2]) \subseteq M
  /\ \A m \in M : \A e \in HierarchyCalls(L, m) : e[3] \in M

Reachable(L) ==
  {m \in MethodsOf(L) : \A M \in SUBSET MethodsOf(L) : ClosedUnderCalls(L, M) => m \in M}

ChaEdges(L) == UNION {HierarchyCalls(L, m) : m \in Reachable(L)}

(* Every call names a method that overrides none, or, in its own class,    *)
(* one that none overrides: none in the middle of its line.                *)
Overrides(m) == \E c \in Range(Line(m[1])) \ {m[1]} : m[2] \in program.virtual[c]

NotInMiddle(L, i) ==
  \A m \in Resolved(L, i.class, i.name) :
    ~Overrides(m) \/ (m[1] = i.class /\ Overriding(L, m) = {})

NoMiddleCalled(L) ==
  \A m \in Reachable(L) : \A k \in CallsAt(m) : NotInMiddle(L, Code(m)[k])

(* If nothing had to be loaded on the way and no call names a method in    *)
(* the middle, the call graph is the one of class hierarchy analysis.      *)
ChaExact ==
  At("again") /\ MethodsOf(loaded) = sized /\ NoMiddleCalled(loaded) =>
    ccg = ChaEdges(loaded)

(* The three parts come to an end, in recursive programs too.              *)
Terminates == <>(pc = "done" \/ status # "running")

(* If nothing had to be loaded on the way, every method that class         *)
(* hierarchy analysis reaches from the entry has been entered by           *)
(* load_recursive, and every call it finds is in the call graph.           *)
HierarchyCovered ==
  At("again") /\ MethodsOf(loaded) = sized =>
    Reachable(loaded) \subseteq visited /\ ChaEdges(loaded) \subseteq ccg
=============================================================================
