---------------------------- MODULE ExplodedGraph ----------------------------
(***************************************************************************)
(* make_labeled_exploded_super_graph (analysis/ide.hpp): when the graphs of *)
(* a file are made, one supergraph over the facts "register r" of every    *)
(* instruction of every method.                                            *)
(*                                                                         *)
(* Facts are register indices, of which -3 is the exception, -2 the result *)
(* and -1 the empty fact.  The vertices of the supergraph are numbers, and *)
(* the code finds the vertex of a fact by adding to the number of the      *)
(* first vertex of its instruction.                                        *)
(*                                                                         *)
(* The methods of a file in Explored also have                             *)
(*     [regs |-> registers, ins |-> those of the arguments]                *)
(* and their instructions                                                  *)
(*     [dest |-> the set of registers set, args |-> the sequence of        *)
(*      registers passed, range |-> whether they are given as a range,     *)
(*      callees |-> the methods of the file the call graph leads to].      *)
(***************************************************************************)
EXTENDS InsnGraph

CONSTANT Explored      \* the files whose supergraph is made

ASSUME ExploredAssumption ==
  /\ Explored \subseteq Files
  /\ \A f \in Explored : \A i \in DOMAIN f : f[i].ins \in 0 .. f[i].regs

VARIABLES
  lesg,    \* [vs |-> the vertices' names, in order, edges |-> their numbers and a kind]
  lut      \* of a method and an instruction of it, the numbers of the first
           \* vertices before (in) and after it (out)

evars == <<vars, lesg, lut>>

-----------------------------------------------------------------------------
Exception == -3
Result    == -2
Empty     == -1
Place(r)  == r + 3

HasGraph(i) == file[i].codeOff # 0
Vertices(i) == 0 .. Exit(graphs[i])                     \* of the instruction graph
NumRegs(i)  == file[i].regs + 3
Insn(i, v)  == file[i].code[graphs[i].offs[v]]
IsInvoke(i, v) == v \in Insns(graphs[i]) /\ Insn(i, v).op = "invoke"

(* What an instruction sets; what the entry sets is left out.              *)
Defs(i, v) ==
  IF v \notin Insns(graphs[i]) THEN {}
  ELSE IF Insn(i, v).op \in {"invoke", "return"} THEN {Result} ELSE Insn(i, v).dest

(* The registers an invocation passes; the last of a range is missing.     *)
RegsVec(insn) == IF insn.range THEN Front(insn.args) ELSE insn.args

-----------------------------------------------------------------------------
(* Vertices are named by method, instruction and register: one with a name *)
(* that is taken is not added.                                             *)
Added(vs, names) == vs \o SelectSeq(names, LAMBDA n : n \notin Range(vs))

(* An edge to a vertex that is not there makes all up to it, without name. *)
Chain(first, n) == {<<first + k, first + k + 1, "register_chain">> : k \in 0 .. n - 2}
Grown(vs, last) == vs \o [k \in 1 .. Max({0, last + 1 - Len(vs)}) |-> <<>>]

(* A row of vertices, one for each register, after those that are there.   *)
Row(vs, names) ==
  LET first == Len(vs)  n == Len(names)
  IN  [vs |-> Grown(Added(vs, names), first + n - 1), edges |-> Chain(first, n), first |-> first]

Names(i, v) == [k \in 1 .. NumRegs(i) |-> <<i, v, k - 4>>]

EInit == Init /\ lesg = [vs |-> <<>>, edges |-> {}] /\ lut = <<>>

BeginExploded ==
  /\ pc = "done" /\ file \in Explored
  /\ pc' = "lay" /\ m' = 1 /\ at' = 0
  /\ UNCHANGED <<file, g, dbg, graphs, lesg, lut>>

NextExploded ==
  /\ at' = IF m < Len(file) THEN 0 ELSE 1
  /\ IF m < Len(file) THEN m' = m + 1 /\ pc' = "lay" ELSE m' = 1 /\ pc' = "calls"

SkipMethod ==
  /\ pc = "lay" /\ ~ HasGraph(m)
  /\ NextExploded
  /\ UNCHANGED <<file, g, dbg, graphs, lesg, lut>>

LayInsn ==
  /\ pc = "lay" /\ HasGraph(m)
  /\ LET before == Row(lesg.vs, Names(m, at))
         after  == IF IsInvoke(m, at) THEN Row(before.vs, Names(m, at)) ELSE before
     IN  /\ lesg' = [vs |-> after.vs, edges |-> lesg.edges \cup before.edges \cup after.edges]
         /\ lut' = (<<m, at>> :> [in |-> before.first, out |-> after.first]) @@ lut
  /\ IF at = Exit(graphs[m]) THEN at' = 0 /\ pc' = "local" ELSE at' = at + 1 /\ UNCHANGED pc
  /\ UNCHANGED <<file, m, g, dbg, graphs>>

(* Along each control-flow edge a register keeps its fact, or has that of  *)
(* the empty one if the instruction sets it; past an invocation go all     *)
(* facts but the result and the exception.                                 *)
LocalEdges ==
  /\ pc = "local"
  /\ LET first  == lut[<<m, at>>]
         source(r) == first.out + Place(IF r \in Defs(m, at) THEN Empty ELSE r)
         targets == {e[2] : e \in {d \in graphs[m].edges : d[1] = at}}
         all    == Exception .. file[m].regs - 1
         normal == {<<source(r), lut[<<m, v>>].in + Place(r), "normal">> : r \in all, v \in targets}
         past   == IF first.out # first.in /\ targets # {}
                   THEN {<<first.in + Place(r), first.out + Place(r), "call_to_return">> : r \in Empty .. file[m].regs - 1}
                   ELSE {}
     IN  lesg' = [lesg EXCEPT !.edges = @ \cup normal \cup past]
  /\ IF at = Exit(graphs[m]) THEN NextExploded ELSE at' = at + 1 /\ UNCHANGED <<m, pc>>
  /\ UNCHANGED <<file, g, dbg, graphs, lut>>

-----------------------------------------------------------------------------
(* The edges of the call graph: <<caller, instruction, callee>>.           *)
Calls == UNION {UNION {{<<i, v, j>> : j \in Insn(i, v).callees} :
                         v \in {w \in Insns(graphs[i]) : IsInvoke(i, w)}} :
                  i \in {h \in DOMAIN file : HasGraph(h)}}

(* Mutant: the arguments fill the callee's registers from the first.       *)
CallFirst(c) ==
  LET insn == Insn(c[1], c[2])
      before == lut[<<c[1], c[2]>>].in    after == lut[<<c[1], c[2]>>].out
      entry  == lut[<<c[3], 0>>].in       exit  == lut[<<c[3], Exit(graphs[c[3]])>>].out
      regs   == RegsVec(insn)
  IN  {<<before + Place(Empty), entry + Place(Empty), "call">>}
      \cup {<<before + Place(regs[k]), entry + Place(k - 1), "call">> : k \in DOMAIN regs}
      \cup {<<exit + Place(r), after + Place(r), "return">> : r \in {Result, Exception, Empty}}

CallEdges(c) ==
  LET insn == Insn(c[1], c[2])
      before == lut[<<c[1], c[2]>>].in    after == lut[<<c[1], c[2]>>].out
      entry  == lut[<<c[3], 0>>].in       exit  == lut[<<c[3], Exit(graphs[c[3]])>>].out
      regs   == RegsVec(insn)
      skip   == file[c[3]].regs - file[c[3]].ins
  IN  {<<before + Place(Empty), entry + Place(Empty), "call">>}
      \cup {<<before + Place(regs[k]), entry + Place(skip + k - 1), "call">> : k \in DOMAIN regs}
      \cup {<<exit + Place(r), after + Place(r), "return">> : r \in {Result, Exception, Empty}}

(* A call of a method without a graph gets no edges.                       *)
AddCall ==
  /\ pc = "calls" /\ at <= Cardinality(Calls)
  /\ LET c == SetToSeq(Calls)[at]
     IN  lesg' = IF HasGraph(c[3]) THEN [lesg EXCEPT !.edges = @ \cup CallEdges(c)] ELSE lesg
  /\ at' = at + 1
  /\ UNCHANGED <<file, m, g, dbg, graphs, pc, lut>>

CallsAdded ==
  /\ pc = "calls" /\ at > Cardinality(Calls)
  /\ pc' = "explored"
  /\ UNCHANGED <<file, m, g, at, dbg, graphs, lesg, lut>>

ENext ==
  \/ Next /\ UNCHANGED <<lesg, lut>>
  \/ BeginExploded \/ SkipMethod \/ LayInsn \/ LocalEdges \/ AddCall \/ CallsAdded

ESpec == EInit /\ [][ENext]_evars

-----------------------------------------------------------------------------
(* Where a fact goes, by names: over the edges and, since the vertices     *)
(* after an invocation have none, through those.                           *)
NextOf(n) == {e[2] : e \in {d \in lesg.edges : d[1] = n /\ d[3] # "register_chain"}}
Named(n)  == n < Len(lesg.vs) /\ lesg.vs[n + 1] # <<>>
Reached(n) ==
  LET unnamed == {t \in NextOf(n) : ~ Named(t)}
  IN  {lesg.vs[t + 1] : t \in {u \in NextOf(n) \cup UNION {NextOf(t) : t \in unnamed} : Named(u)}}

(* Where it should.  A fact before an instruction is one before the next   *)
(* instructions unless it is overwritten, when the empty fact leads to it. *)
Facts(i) == Exception .. file[i].regs - 1
After1(i, v, r) ==
  UNION {{<<i, e[2], s>> : s \in {t \in Facts(i) : r = IF t \in Defs(i, v) THEN Empty ELSE t}} :
           e \in {d \in graphs[i].edges : d[1] = v}}

CallsFrom(i, v) == {c \in Calls : c[1] = i /\ c[2] = v /\ HasGraph(c[3])}
CallsTo(i, v)   == {c \in Calls : c[3] = i /\ v = Exit(graphs[i])}

(* An argument is the fact of the parameter it is passed for, the last one *)
(* of a range like the others.                                             *)
Parameter(c, k) == <<c[3], 0, file[c[3]].regs - file[c[3]].ins + k - 1>>
Parameters(i, v, r) ==
  {Parameter(c, k) : c \in CallsFrom(i, v),
                     k \in IF IsInvoke(i, v) THEN {n \in DOMAIN Insn(i, v).args : Insn(i, v).args[n] = r}
                           ELSE {}}

(* The result of a method is the result after each call of it, which is    *)
(* where move-result takes it from.                                        *)
Results(i, v, r) ==
  UNION {{<<c[1], e[2], Result>> : e \in {d \in graphs[c[1]].edges : d[1] = c[2]}} :
           c \in IF r = Result THEN CallsTo(i, v) ELSE {}}

Expected(i, v, r) ==
  (IF IsInvoke(i, v) /\ r \in {Result, Exception} THEN {} ELSE After1(i, v, r))
  \cup {<<c[3], 0, Empty>> : c \in {d \in CallsFrom(i, v) : r = Empty}}
  \cup Parameters(i, v, r) \cup Results(i, v, r)
  \cup UNION {After1(c[1], c[2], r) : c \in {d \in CallsTo(i, v) : r \in {Exception, Empty}}}

(* One of the two losses that the property after the next one is about; the *)
(* other is Results.                                                       *)
LastOfRange(i, v, r) ==
  IF IsInvoke(i, v) /\ Insn(i, v).range /\ r = Last(Insn(i, v).args)
  THEN {Parameter(c, Len(Insn(i, v).args)) : c \in CallsFrom(i, v)} ELSE {}

FactsOf(n)  == {k - 1 : k \in {j \in DOMAIN lesg.vs : lesg.vs[j] = n}}
EveryFact(P(_, _, _)) ==
  pc = "explored" => \A i \in {h \in DOMAIN file : HasGraph(h)} :
                       \A v \in Vertices(i), r \in Facts(i) : P(i, v, r)

(* Every fact has one vertex, and the numbers found by adding lead to the  *)
(* right ones: what leaves a fact goes, in its method, into the methods    *)
(* called and back to the callers, nowhere but where it should, and it     *)
(* goes everywhere except for the last argument of a range and the result. *)
SupergraphExact ==
  EveryFact(LAMBDA i, v, r :
    /\ Cardinality(FactsOf(<<i, v, r>>)) = 1
    /\ \A n \in FactsOf(<<i, v, r>>) :
         /\ Reached(n) \subseteq Expected(i, v, r)
         /\ Expected(i, v, r) \ Reached(n) \subseteq LastOfRange(i, v, r) \cup Results(i, v, r))

(* A fact goes everywhere it should: the last argument of a range reaches  *)
(* its parameter, and what a method returns is the result after its calls. *)
SupergraphComplete ==
  EveryFact(LAMBDA i, v, r : \A n \in FactsOf(<<i, v, r>>) : Expected(i, v, r) \subseteq Reached(n))
=============================================================================
