------------------------------ MODULE PointsTo ------------------------------
(***************************************************************************)
(* The points-to analysis of lib/jitana/analysis/points_to.cpp             *)
(* (update_points_to_graphs, pag_updater, pag_insn_visitor).               *)
(*                                                                         *)
(* A run starts from one entry method.  make_vertices_from_method drains a *)
(* queue of invocations (calling context, method), and visits every        *)
(* instruction of each invocation it has not seen, adding vertices and     *)
(* edges to the pointer assignment graph.  The main loop then pops the     *)
(* vertices of a FIFO worklist: it filters what arrived in the in-set of   *)
(* the vertex, merges it into the points-to set, connects the fields of    *)
(* the objects that became known, resolves the virtual calls on the vertex *)
(* (only in on-the-fly mode; this re-enters make_vertices_from_method) and *)
(* forwards the in-set along the outgoing edges.                           *)
(*                                                                         *)
(* The analysed program is chosen in Init and never changes.               *)
(***************************************************************************)
EXTENDS Pag, Sequences, FiniteSets

CONSTANTS
  Programs,        \* the programs to analyse
  OnTheFly,        \* the parameter on_the_fly_cg
  Method,          \* the methods loaded by load_recursive
  Type,            \* the classes loaded
  NoType,          \* a vertex without a type
  NoMethod,        \* no <clinit>
  NoVertex,        \* no vertex is being processed
  Field,           \* the instance fields, and one name for array elements
  StaticField,     \* the static fields
  SuperclassOf,    \* is_superclass_of: the pairs <<superclass, class>>
  FieldClass,      \* the class that declares a field; NoType for elements
  Dispatch,        \* find_method on the dynamic type: [Method \X Type -> Method]
  Overrides,       \* a method and the methods below it, in depth-first order
  Params,          \* the parameters of a method, "L" reference, "I", "J" wide
  ReturnsRef,      \* the methods with a reference result
  IsAbstract       \* the methods without code

ASSUME ModeAssumption == OnTheFly \in BOOLEAN

ASSUME HierarchyAssumption ==
  /\ Overrides \in [Method -> Seq(Method)]
  /\ Params \in [Method -> Seq({"L", "I", "J"})]
  /\ \A k \in DOMAIN Dispatch : Dispatch[k] \in Method
  /\ \A t \in Type : <<t, t>> \in SuperclassOf

Point    == Method \X Nat
Site     == Method \X Nat \X Nat
Contexts == Point \cup {NoInsn}
Kinds == {"reg", "alloc", "reg_dot_field", "alloc_dot_field", "static_field"}
Vertex  == [kind : Kinds, hdl : Site \cup Point \cup {NoInsn},
              field : Field \cup StaticField \cup {NoField}, context : Contexts]
Alloc   == [kind : {"alloc"}, hdl : Point, field : {NoField}, context : {NoInsn}]

ASSUME VertexAssumption == NoVertex \notin Vertex

(* reg_offsets: the register, counted from the first one passed, of the    *)
(* k-th parameter.  A wide parameter takes two.                            *)
Offset(m, k) ==
  (k - 1) + Cardinality({j \in 1 .. (k - 1) : Params[m][j] = "J"})

(* A range call counts registers; the other calls index the registers of   *)
(* the instruction by the number of the parameter.                         *)
Argument(x, m, k) == IF x.range THEN x.args[Offset(m, k) + 1] ELSE x.args[k]

(* The methods a call of m may reach.                                      *)
Targets(m) == {Overrides[m][k] : k \in 1 .. Len(Overrides[m])} \cup
              {Dispatch[k] : k \in {j \in DOMAIN Dispatch : j[1] = m}}

(* What the loader delivers: an instruction names what exists, its         *)
(* operands are definition sites, and a call passes every parameter.       *)
WellFormed(x) ==
  /\ x.op \in {"new_instance", "const_string", "move_object", "check_cast",
              "return_object", "store", "load", "sput", "sget", "invoke", "other"}
  /\ x.op \in {"new_instance", "const_string", "check_cast"} => x.type \in Type
  /\ x.op \in {"new_instance", "const_string", "sput", "sget"}
       => x.init \in Method \cup {NoMethod}
  /\ x.op = "const_string" => x.init = NoMethod
  /\ x.op \in {"move_object", "check_cast", "return_object", "store", "sput"}
       => x.src \subseteq Site
  /\ x.op \in {"store", "load"} => x.obj \subseteq Site /\ x.field \in Field
  /\ x.op \in {"sput", "sget"} => x.field \in StaticField
  /\ x.op = "invoke" =>
       /\ x.kind \in {"virtual", "static", "direct"}
       /\ x.callee \in Method
       /\ x.init \in Method \cup {NoMethod}
       /\ x.kind = "virtual" => x.args[1] \subseteq Site
       /\ \A m \in Targets(x.callee) : \A k \in 1 .. Len(Params[m]) :
            Params[m][k] = "L" => Argument(x, m, k) \subseteq Site

ASSUME ProgramAssumption ==
  \A p \in Programs :
    /\ p.entry \in Method
    /\ \A m \in Method :
         /\ Len(p.code[m]) \in Nat
         /\ \A i \in 1 .. Len(p.code[m]) : WellFormed(p.code[m][i])

(* The receiver of a virtual call is defined in the method that calls, and *)
(* a method that is called on an object has a this parameter.              *)
ASSUME ReceiverAssumption ==
  \A p \in Programs : \A m \in Method : \A i \in 1 .. Len(p.code[m]) :
    LET x == p.code[m][i]
    IN  x.op = "invoke" /\ x.kind = "virtual" =>
          /\ \A s \in x.args[1] : s[1] = m
          /\ \A t \in Targets(x.callee) : 1 \in 1 .. Len(Params[t]) /\ Params[t][1] = "L"

VARIABLES
  prog,      \* [entry |-> a method, code |-> [Method -> Seq(instruction)]]
  edges,     \* the edges of the graph
  pts,       \* points_to_set, as pairs <<vertex, alloc vertex>>
  inset,     \* in_set, as pairs <<vertex, alloc vertex>>
  dirty,     \* the vertices whose dirty flag is set
  worklist,  \* d_.worklist
  deref,     \* dereferenced_by, as pairs <<register vertex, dereferencer>>
  vinvoke,   \* virtual_invoke_insns, pairs <<register vertex, <<context, insn>>>>
  visited,   \* d_.visited
  queue,     \* invoc_queue; its head is the invocation being visited
  ip,        \* the next instruction of the head, 0 before it is begun
  cur,       \* the vertex popped by the main loop
  calls,     \* virtual calls on cur still to be processed
  todo,      \* edges of cur still to be processed
  ccg,       \* the contextual call graph
  pc         \* the part of update that runs

graph == <<edges, deref, vinvoke>>
sets  == <<pts, inset>>
list  == <<dirty, worklist>>
scan  == <<visited, queue, ip>>
step  == <<cur, calls, todo>>
vars  == <<prog, graph, sets, list, scan, step, ccg, pc>>

-----------------------------------------------------------------------------
(* Reading the program and the graph.                                      *)

Context == Head(queue)[1]
Current == Head(queue)[2]
Code    == prog.code[Current]
Insn    == Code[ip]
Here    == <<Current, ip>>
DefSite == <<Current, ip, 0>>
ExitSite(m) == <<m, Len(prog.code[m]) + 1, 0>>

(* Mutant: def-use edges from an instruction to itself.                    *)
IncomingWithSelf(operand, at) == operand

(* for_each_incoming_reg follows the def-use edges into the instruction.   *)
(* An operand is the set of definitions that reach it; add_def_use_edges   *)
(* makes no edge from an instruction to itself.                            *)
Incoming(operand, at) == {s \in operand : <<s[1], s[2]>> # at}

Regs(operand, at, context) ==
  {RegVertex(s, context) : s \in Incoming(operand, at)}

InSet(v) == {p[2] : p \in {q \in inset : q[1] = v}}

(* make_vertex_for_alloc puts the vertex in its own points-to set.         *)
PointsToSet(v) == {p[2] : p \in {q \in pts : q[1] = v}} \cup
                  (IF v.kind = "alloc" THEN {v} ELSE {})

InsnAt(at) == prog.code[at[1]][at[2]]

(* add_alloc_edge and check_cast give the register they define a type, the *)
(* other registers, the fields and the result at EXIT have none.           *)
TypeOf(v) ==
  IF \/ v.kind = "alloc"
     \/ /\ v.kind = "reg"
        /\ v.hdl[2] \in 1 .. Len(prog.code[v.hdl[1]])
        /\ InsnAt(v.hdl).op \in {"new_instance", "const_string", "check_cast"}
  THEN InsnAt(v.hdl).type
  ELSE NoType

(* The type test of filter_in_set.                                         *)
Passes(v, a) == TypeOf(v) = NoType \/ <<TypeOf(v), TypeOf(a)>> \in SuperclassOf

(* The class test of update_dereferencer; array elements have none.        *)
HasField(a, field) ==
  FieldClass[field] = NoType \/ <<FieldClass[field], TypeOf(a)>> \in SuperclassOf

(* add_invoke_edges: the arguments of the call at insn in context flow to  *)
(* the parameters of m in context insn.                                    *)
ArgumentEdges(context, insn, m) ==
  LET RefParams == {k \in 1 .. Len(Params[m]) : Params[m][k] = "L"}
  IN  UNION {{Edge(r, RegVertex(<<m, 0, Offset(m, k)>>, insn), "assign") :
                r \in Regs(Argument(InsnAt(insn), m, k), insn, context)} : k \in RefParams}

(* ... and the result of m flows back.                                     *)
ResultEdges(context, insn, m) ==
  {e \in {Edge(RegVertex(ExitSite(m), insn),
               RegVertex(<<insn[1], insn[2], 0>>, context), "assign")} : m \in ReturnsRef}

InvokeEdges(context, insn, m) ==
  IF m \in IsAbstract THEN {}
  ELSE ArgumentEdges(context, insn, m) \cup ResultEdges(context, insn, m)

-----------------------------------------------------------------------------
Init ==
  /\ prog \in Programs
  /\ edges = {} /\ deref = {} /\ vinvoke = {}
  /\ pts = {} /\ inset = {}
  /\ dirty = {} /\ worklist = <<>>
  /\ visited = {} /\ queue = <<<<NoInsn, prog.entry>>>> /\ ip = 0
  /\ cur = NoVertex /\ calls = {} /\ todo = {}
  /\ ccg = {}
  /\ pc = "visit"

(* Mutant: the dirty flag is not set.                                      *)
PropagateUnmarked(dst, allocs) ==
  /\ inset' = inset \cup {<<dst, a>> : a \in allocs}
  /\ worklist' = IF dst \in dirty THEN worklist ELSE Append(worklist, dst)
  /\ dirty' = dirty

(* propagate: merge into the in-set of dst and put dst on the worklist     *)
(* unless it is there.  dst is queued even if nothing arrives.             *)
Propagate(dst, allocs) ==
  /\ inset' = inset \cup {<<dst, a>> : a \in allocs}
  /\ worklist' = IF dst \in dirty THEN worklist ELSE Append(worklist, dst)
  /\ dirty' = dirty \cup {dst}

-----------------------------------------------------------------------------
(* make_vertices_from_method: one action per step of its loops and one per *)
(* overload of pag_insn_visitor.                                           *)

(* The invocation at the head was visited before: it is dropped.           *)
SkipVisited ==
  /\ pc = "visit" /\ queue # <<>> /\ ip = 0
  /\ Head(queue) \in visited
  /\ queue' = Tail(queue)
  /\ UNCHANGED <<prog, graph, sets, list, visited, ip, step, ccg, pc>>

BeginMethod ==
  /\ pc = "visit" /\ queue # <<>> /\ ip = 0
  /\ Head(queue) \notin visited
  /\ visited' = visited \cup {Head(queue)}
  /\ ip' = 1
  /\ UNCHANGED <<prog, graph, sets, list, queue, step, ccg, pc>>

EndMethod ==
  /\ pc = "visit" /\ queue # <<>> /\ ip = Len(Code) + 1
  /\ queue' = Tail(queue)
  /\ ip' = 0
  /\ UNCHANGED <<prog, graph, sets, list, visited, step, ccg, pc>>

At(ops) == pc = "visit" /\ queue # <<>> /\ ip \in 1 .. Len(Code) /\ Insn.op \in ops

(* What every overload leaves alone, and the loop's step to the next       *)
(* instruction.                                                            *)
NextInsn ==
  /\ ip' = ip + 1
  /\ UNCHANGED <<prog, pts, visited, step, ccg, pc>>

(* Mutant: <clinit> is queued without asking whether there is one.         *)
ClinitUnchecked == <<<<NoInsn, Insn.init>>>>

(* <clinit> of the class an instruction initialises is queued without a    *)
(* context.                                                                *)
Clinit == IF Insn.init = NoMethod THEN <<>> ELSE <<<<NoInsn, Insn.init>>>>

(* const-string, const-class, new-array and new-instance: add_alloc_edge,  *)
(* the only constraint propagated as soon as it is added.                  *)
VisitAlloc ==
  /\ At({"new_instance", "const_string"})
  /\ LET src == AllocVertex(Here)
         dst == RegVertex(DefSite, Context)
     IN  /\ edges' = edges \cup {Edge(src, dst, "alloc")}
         /\ Propagate(dst, PointsToSet(src))
  /\ queue' = queue \o Clinit
  /\ UNCHANGED <<deref, vinvoke>>
  /\ NextInsn

(* move-object, move-result-object, check-cast and return-object:          *)
(* add_assign_edge.  The result of a method is kept at its EXIT.           *)
VisitAssign ==
  /\ At({"move_object", "check_cast", "return_object"})
  /\ LET dst == RegVertex(IF Insn.op = "return_object" THEN ExitSite(Current)
                                                       ELSE DefSite, Context)
     IN  edges' = edges \cup
                  {Edge(r, dst, "assign") : r \in Regs(Insn.src, Here, Context)}
  /\ UNCHANGED <<deref, vinvoke, inset, list, queue>>
  /\ NextInsn

(* iput and aput: add_istore_edge, add_astore_edge.                        *)
VisitStore ==
  /\ At({"store"})
  /\ LET objs == {s \in Incoming(Insn.obj, Here) : Regs(Insn.src, Here, Context) # {}}
         FieldOf(s) == RegFieldVertex(s, Insn.field, Context)
     IN  /\ edges' = edges \cup
              UNION {{Edge(r, FieldOf(s), "store") :
                        r \in Regs(Insn.src, Here, Context)} : s \in objs}
         /\ deref' = deref \cup {<<RegVertex(s, Context), FieldOf(s)>> : s \in objs}
  /\ UNCHANGED <<vinvoke, inset, list, queue>>
  /\ NextInsn

(* iget and aget: add_iload_edge, add_aload_edge.                          *)
VisitLoad ==
  /\ At({"load"})
  /\ LET objs == Incoming(Insn.obj, Here)
         FieldOf(s) == RegFieldVertex(s, Insn.field, Context)
     IN  /\ edges' = edges \cup
              {Edge(FieldOf(s), RegVertex(DefSite, Context), "load") : s \in objs}
         /\ deref' = deref \cup {<<RegVertex(s, Context), FieldOf(s)>> : s \in objs}
  /\ UNCHANGED <<vinvoke, inset, list, queue>>
  /\ NextInsn

(* sput and sget: add_sstore_edge, add_sload_edge.                         *)
VisitStatic ==
  /\ At({"sput", "sget"})
  /\ edges' = edges \cup
       IF Insn.op = "sput"
       THEN {Edge(r, StaticVertex(Insn.field), "sstore") :
               r \in Regs(Insn.src, Here, Context)}
       ELSE {Edge(StaticVertex(Insn.field), RegVertex(DefSite, Context), "sload")}
  /\ queue' = queue \o Clinit
  /\ UNCHANGED <<deref, vinvoke, inset, list>>
  /\ NextInsn

(* invoke-*: a virtual call is registered on its receiver.  Unless virtual *)
(* calls wait for the receiver's points-to set, the callee and every       *)
(* method below it is connected and queued.                                *)
VisitInvoke ==
  /\ At({"invoke"})
  /\ LET static == Insn.kind = "static"
         virtual == Insn.kind = "virtual"
         targets == IF OnTheFly /\ virtual THEN <<>> ELSE Overrides[Insn.callee]
     IN  /\ vinvoke' = vinvoke \cup
              (IF virtual
               THEN {<<r, <<Context, Here>>>> : r \in Regs(Insn.args[1], Here, Context)}
               ELSE {})
         /\ edges' = edges \cup
              UNION {InvokeEdges(Context, Here, targets[k]) : k \in 1 .. Len(targets)}
         /\ queue' = queue \o (IF static THEN Clinit ELSE <<>>)
                           \o [k \in 1 .. Len(targets) |-> <<Here, targets[k]>>]
  /\ UNCHANGED <<deref, inset, list>>
  /\ NextInsn

(* The remaining overloads, and the early return of an overload that does  *)
(* not find its class, field or method: nothing happens.                   *)
VisitOther ==
  /\ At({"other"})
  /\ UNCHANGED <<graph, inset, list, queue>>
  /\ NextInsn

(* The queue is empty: back to update, or to the call being processed.     *)
QueueDrained ==
  /\ pc = "visit" /\ queue = <<>>
  /\ pc' = IF cur = NoVertex THEN "pop" ELSE "invoke"
  /\ UNCHANGED <<prog, graph, sets, list, scan, step, ccg>>

Visit ==
  \/ SkipVisited \/ BeginMethod \/ EndMethod \/ VisitAlloc \/ VisitAssign \/ VisitStore
  \/ VisitLoad \/ VisitStatic \/ VisitInvoke \/ VisitOther \/ QueueDrained

-----------------------------------------------------------------------------
(* The main loop of update.                                                *)

(* Mutants: no type test; known elements are not dropped.                  *)
FilteredUntyped(v) == InSet(v) \ PointsToSet(v)
FilteredKnown(v) == {a \in InSet(v) : Passes(v, a)}

(* filter_in_set.                                                          *)
Filtered(v) == {a \in InSet(v) \ PointsToSet(v) : Passes(v, a)}

WithInSet(v, allocs) == {p \in inset : p[1] # v} \cup {<<v, a>> : a \in allocs}

(* Mutant: only the stores through a field are connected.                  *)
DerefStoresOnly(v, allocs) ==
  UNION {{<<u, AllocFieldVertex(a.hdl, d.field)>> : u \in Preds(edges, d),
                      a \in {b \in allocs : HasField(b, d.field)}} :
           d \in {p[2] : p \in {q \in deref : q[1] = v}}}

(* update_dereferencer: the edges through the fields of the objects that   *)
(* v now points to.                                                        *)
DerefEdges(v, allocs) ==
  UNION {UNION {LET af == AllocFieldVertex(a.hdl, d.field)
                IN  {<<u, af>> : u \in Preds(edges, d)} \cup
                    {<<af, w>> : w \in Succs(edges, d)} :
                  a \in {b \in allocs : HasField(b, d.field)}} :
           d \in {p[2] : p \in {q \in deref : q[1] = v}}}

Adjacent == {<<e.src, e.dst>> : e \in edges}

(* A vertex whose in-set holds nothing new is left as it is.               *)
PopUnchanged ==
  /\ pc = "pop" /\ worklist # <<>>
  /\ LET v == Head(worklist)
     IN  /\ Filtered(v) = {}
         /\ worklist' = Tail(worklist)
         /\ dirty' = dirty \ {v}
         /\ inset' = WithInSet(v, {})
  /\ UNCHANGED <<prog, graph, pts, scan, step, ccg, pc>>

(* Otherwise the new elements join the points-to set and the dereferencers *)
(* of v are looked at.                                                     *)
Pop ==
  /\ pc = "pop" /\ worklist # <<>>
  /\ LET v == Head(worklist)
         new == Filtered(v)
     IN  /\ new # {}
         /\ worklist' = Tail(worklist)
         /\ dirty' = dirty \ {v}
         /\ inset' = WithInSet(v, new)
         /\ pts' = pts \cup {<<v, a>> : a \in new}
         /\ todo' = DerefEdges(v, new) \ Adjacent
         /\ cur' = v
  /\ pc' = "deref"
  /\ UNCHANGED <<prog, graph, scan, calls, ccg>>

(* One edge of update_dereferencer: all that its source points to goes     *)
(* along it at once.                                                       *)
AddDerefEdge ==
  /\ pc = "deref"
  /\ \E e \in todo :
       /\ edges' = edges \cup {Edge(e[1], e[2], "assign")}
       /\ Propagate(e[2], PointsToSet(e[1]))
       /\ todo' = todo \ {e}
  /\ UNCHANGED <<prog, deref, vinvoke, pts, scan, cur, calls, ccg, pc>>

(* The virtual calls on cur, one per type of the objects in its in-set.    *)
CollectCalls ==
  /\ pc = "deref" /\ todo = {}
  /\ calls' = IF OnTheFly
              THEN {<<vi[2][1], vi[2][2], TypeOf(a)>> :
                      vi \in {x \in vinvoke : x[1] = cur}, a \in InSet(cur)}
              ELSE {}
  /\ pc' = "invoke"
  /\ UNCHANGED <<prog, graph, sets, list, scan, cur, todo, ccg>>

(* Mutant: the type of the receiver is not put into the method handle.     *)
ProcessDeclared ==
  /\ pc = "invoke"
  /\ \E c \in calls :
       LET target == InsnAt(c[2]).callee
       IN  /\ edges' = edges \cup InvokeEdges(c[1], c[2], target)
           /\ queue' = <<<<c[2], target>>>>
           /\ calls' = calls \ {c}
  /\ pc' = "visit"
  /\ UNCHANGED <<prog, deref, vinvoke, sets, list, visited, ip, cur, todo, ccg>>

(* One of them: connect the target and visit it.  The code dereferences    *)
(* what find_method returns without a test: here it stops.                 *)
ProcessCall ==
  /\ pc = "invoke"
  /\ \E c \in calls :
       LET key == <<InsnAt(c[2]).callee, c[3]>>
           target == Dispatch[key]
       IN  /\ key \in DOMAIN Dispatch
           /\ edges' = edges \cup InvokeEdges(c[1], c[2], target)
           /\ queue' = <<<<c[2], target>>>>
           /\ calls' = calls \ {c}
  /\ pc' = "visit"
  /\ UNCHANGED <<prog, deref, vinvoke, sets, list, visited, ip, cur, todo, ccg>>

(* Mutant: the assign edges only.                                          *)
CallsDoneAssign ==
  /\ pc = "invoke" /\ calls = {}
  /\ todo' = {<<e.src, e.dst>> : e \in {x \in edges : x.src = cur /\ x.kind = "assign"}}
  /\ pc' = "forward"
  /\ UNCHANGED <<prog, graph, sets, list, scan, cur, calls, ccg>>

CallsDone ==
  /\ pc = "invoke" /\ calls = {}
  /\ todo' = {<<e.src, e.dst>> : e \in {x \in edges : x.src = cur /\ IsFlow(x)}}
  /\ pc' = "forward"
  /\ UNCHANGED <<prog, graph, sets, list, scan, cur, calls, ccg>>

(* One edge of process_outgoing_edges: the in-set goes along it.           *)
Forward ==
  /\ pc = "forward"
  /\ \E e \in todo :
       /\ Propagate(e[2], InSet(cur))
       /\ todo' = todo \ {e}
  /\ UNCHANGED <<prog, graph, pts, scan, cur, calls, ccg, pc>>

(* Mutant: the in-set is not cleared.                                      *)
KeepInSet ==
  /\ pc = "forward" /\ todo = {}
  /\ cur' = NoVertex
  /\ pc' = "pop"
  /\ UNCHANGED <<prog, graph, sets, list, scan, calls, todo, ccg>>

(* The end of one round: the in-set is cleared.                            *)
ClearInSet ==
  /\ pc = "forward" /\ todo = {}
  /\ inset' = WithInSet(cur, {})
  /\ cur' = NoVertex
  /\ pc' = "pop"
  /\ UNCHANGED <<prog, graph, pts, list, scan, calls, todo, ccg>>

(* The worklist is empty: the visited calls become the edges of the call   *)
(* graph.                                                                  *)
UpdateCcg ==
  /\ pc = "pop" /\ worklist = <<>>
  /\ ccg' = {[caller |-> i[1][1], callee |-> i[2], insn |-> i[1][2],
              virtual |-> InsnAt(i[1]).kind = "virtual"] :
               i \in {j \in visited : j[1] # NoInsn}}
  /\ pc' = "done"
  /\ UNCHANGED <<prog, graph, sets, list, scan, step>>

Update ==
  \/ PopUnchanged \/ Pop \/ AddDerefEdge \/ CollectCalls \/ ProcessCall \/ CallsDone
  \/ Forward \/ ClearInSet \/ UpdateCcg

Next == Visit \/ Update

Spec == Init /\ [][Next]_vars

(* update is one sequential function: it does not stop while it has a next *)
(* step.                                                                   *)
FairSpec == Spec /\ WF_vars(Next)

-----------------------------------------------------------------------------
(* Properties.                                                             *)

Phases == {"visit", "pop", "deref", "invoke", "forward", "done"}

(* The shape of the state: the graph, the sets and the local variables of  *)
(* update and make_vertices_from_method.                                   *)
TypeOK ==
  /\ prog.entry \in Method
  /\ edges \subseteq [src : Vertex, dst : Vertex, kind : FlowKinds \cup HeapKinds]
  /\ pts \subseteq Vertex \X Alloc
  /\ inset \subseteq Vertex \X Alloc
  /\ dirty \subseteq Vertex
  /\ worklist \in Seq(Vertex)
  /\ deref \subseteq Vertex \X Vertex
  /\ vinvoke \subseteq Vertex \X (Contexts \X Point)
  /\ visited \subseteq Contexts \X Method
  /\ queue \in Seq(Contexts \X Method)
  /\ ip \in Nat
  /\ cur \in Vertex \cup {NoVertex}
  /\ calls \subseteq Contexts \X Point \X Type
  /\ todo \subseteq Vertex \X Vertex
  /\ ccg \subseteq [caller : Method, callee : Method, insn : Nat, virtual : BOOLEAN]
  /\ pc \in Phases

(* The dirty flag stands for membership in the worklist, so no vertex is   *)
(* queued twice and none is forgotten with its flag set (propagate and     *)
(* the pop in update).                                                     *)
WorklistIsDirty ==
  /\ dirty = {worklist[k] : k \in 1 .. Len(worklist)}
  /\ \A j, k \in 1 .. Len(worklist) : worklist[j] = worklist[k] => j = k

(* Elements never wait in an in-set that nobody will look at: the vertex   *)
(* is queued or is the one being processed.                                *)
NoStrandedElement == \A p \in inset : p[1] \in dirty \/ p[1] = cur

(* What leaves an in-set (filter_in_set, and the clear at the end of a     *)
(* round) has reached the points-to set or fails the type test.  A round   *)
(* that fed its own vertex would lose elements at the clear.               *)
NothingLost ==
  [][\A p \in inset \ inset' :
       p[2] \in PointsToSet(p[1])' \/ ~Passes(p[1], p[2])]_vars

(* When the analysis ends, what an edge carries has arrived at its target: *)
(* the meaning of an assign, alloc, sstore or sload edge.                  *)
FlowClosed ==
  pc = "done" =>
    \A e \in edges : IsFlow(e) =>
      \A a \in PointsToSet(e.src) : a \in PointsToSet(e.dst) \/ ~Passes(e.dst, a)

(* When the analysis ends, a store and a load that go through an object    *)
(* are connected by the field of that object.                              *)
HeapConnected ==
  pc = "done" =>
    \A d \in deref : \A a \in PointsToSet(d[1]) : HasField(a, d[2].field) =>
      LET af == AllocFieldVertex(a.hdl, d[2].field)
      IN  /\ \A u \in Preds(edges, d[2]) : Edge(u, af, "assign") \in edges
          /\ \A w \in Succs(edges, d[2]) : Edge(af, w, "assign") \in edges

(* When the analysis ends, what a call passes in the register of a         *)
(* reference parameter has arrived at that parameter of the method called. *)
(* A wide parameter takes two registers of the call.                       *)
ArgumentsArrive ==
  pc = "done" =>
    \A i \in visited : i[1] # NoInsn /\ i[2] \notin IsAbstract =>
      \A context \in {j[1] : j \in {h \in visited : h[2] = i[1][1]}} :
        \A k \in 1 .. Len(Params[i[2]]) : Params[i[2]][k] = "L" =>
          \A r \in Regs(InsnAt(i[1]).args[Offset(i[2], k) + 1], i[1], context) :
            PointsToSet(r) \subseteq
              PointsToSet(RegVertex(<<i[2], 0, Offset(i[2], k)>>, i[1]))

(* When the analysis ends, every virtual call on an object the receiver    *)
(* may point to has had its target visited in the context of the call, and *)
(* the target's this parameter may point to the object.                    *)
DispatchComplete ==
  pc = "done" =>
    \A vi \in vinvoke : \A a \in PointsToSet(vi[1]) :
      LET target == Dispatch[<<InsnAt(vi[2][2]).callee, TypeOf(a)>>]
      IN  /\ <<vi[2][2], target>> \in visited
          /\ target \notin IsAbstract =>
               a \in PointsToSet(RegVertex(<<target, 0, 0>>, vi[2][2]))

(* The analysis ends.                                                      *)
Terminates == <>(pc = "done")
=============================================================================
