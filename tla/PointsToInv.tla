---------------------------- MODULE PointsToInv ----------------------------
(***************************************************************************)
(* The inductive invariants behind the theorems of PointsToProofs.  TLC    *)
(* checks them on the programs of MCPointsTo; PointsToProofs proves them.  *)
(***************************************************************************)
EXTENDS PointsTo

(* The instructions of the program that allocate, and those that call.     *)
IsInsn(at) == at[2] \in 1 .. Len(prog.code[at[1]])
Objects == {a \in Alloc : IsInsn(a.hdl) /\ InsnAt(a.hdl).op \in {"new_instance", "const_string"}}
CallSites == {at \in Point : IsInsn(at) /\ InsnAt(at).op = "invoke"}

(* A source of elements: an alloc vertex is an instruction that allocates. *)
Sources == {v \in Vertex : v.kind = "alloc" => v \in Objects}

(* TypeOK, with the facts about the program that keep it true: what the    *)
(* sets hold was allocated somewhere, what is called is called somewhere.  *)
TypeInv ==
  /\ prog \in Programs
  /\ edges \subseteq [src : Sources, dst : Vertex, kind : FlowKinds \cup HeapKinds]
  /\ pts \subseteq Vertex \X Objects
  /\ inset \subseteq Vertex \X Objects
  /\ dirty \subseteq Vertex
  /\ worklist \in Seq(Vertex)
  /\ deref \subseteq Vertex \X {v \in Vertex : v.kind = "reg_dot_field"}
  /\ vinvoke \subseteq Vertex \X (Contexts \X CallSites)
  /\ visited \subseteq Contexts \X Method
  /\ queue \in Seq(Contexts \X Method)
  /\ ip \in Nat
  /\ cur \in Vertex \cup {NoVertex}
  /\ calls \subseteq Contexts \X CallSites \X Type
  /\ todo \subseteq Sources \X Vertex
  /\ ccg \subseteq [caller : Method, callee : Method, insn : Nat, virtual : BOOLEAN]
  /\ pc \in Phases

(* The worklist against the dirty flags and the in-sets.  Elements wait in *)
(* the in-set of a vertex that is queued, or of cur during its round.      *)
InRound == pc \in {"deref", "invoke", "forward"} \/ (pc = "visit" /\ cur # NoVertex)

ListInv ==
  /\ WorklistIsDirty
  /\ pc \in {"deref", "invoke", "forward"} => cur # NoVertex
  /\ \A p \in inset : p[1] \in dirty \/ (p[1] = cur /\ InRound)

(* The class-hierarchy mode visits everything before anything is solved.   *)
PhaseInv ==
  /\ pc = "visit" => pts = {} /\ cur = NoVertex
  /\ calls = {}

(* Only stores enter a dereference of a register and only loads leave it,  *)
(* and no load leads back to the register it dereferences.  The fields of  *)
(* objects have assign edges only.                                         *)
ShapeInv ==
  /\ \A d \in deref : d[1].kind = "reg" /\ d[1] = RegVertex(d[2].hdl, d[2].context)
  /\ \A e \in edges :
       /\ e.dst.kind = "reg_dot_field" => e.src.kind = "reg" /\ e.kind = "store"
       /\ e.src.kind = "reg_dot_field" =>
            /\ e.dst.kind = "reg" /\ e.kind = "load"
            /\ e.dst # RegVertex(e.src.hdl, e.src.context)
       /\ "alloc_dot_field" \in {e.src.kind, e.dst.kind} => e.kind = "assign"

(* What cur is about to forward is in its points-to set; what it still has *)
(* to connect does not feed it.                                            *)
RoundInv ==
  /\ InRound => \A a \in InSet(cur) : a \in PointsToSet(cur) \/ ~Passes(cur, a)
  /\ pc = "deref" => \A e \in todo : /\ e[2] # cur
                                     /\ "reg_dot_field" \notin {e[1].kind, e[2].kind}
  /\ pc = "forward" => \A e \in todo : e[1] = cur

(* An element at the source of a flow edge is at its target, waits there,  *)
(* or waits in cur for the edge to be forwarded.                           *)
Waiting(e, a) ==
  /\ e.src = cur /\ a \in InSet(cur)
  /\ \/ pc \in {"deref", "invoke"}
     \/ pc = "forward" /\ <<e.src, e.dst>> \in todo

FlowInv ==
  \A e \in edges : IsFlow(e) =>
    \A a \in PointsToSet(e.src) : Passes(e.dst, a) =>
      a \in PointsToSet(e.dst) \/ a \in InSet(e.dst) \/ Waiting(e, a)

(* A store or load through an object is connected to the field of the      *)
(* object, or is about to be.                                              *)
Connected(u, v) == Edge(u, v, "assign") \in edges \/ (pc = "deref" /\ <<u, v>> \in todo)

HeapInv ==
  \A d \in deref : \A a \in PointsToSet(d[1]) : HasField(a, d[2].field) =>
    LET af == AllocFieldVertex(a.hdl, d[2].field)
    IN  /\ \A u \in Preds(edges, d[2]) : Connected(u, af)
        /\ \A w \in Succs(edges, d[2]) : Connected(af, w)

(* The invariant of the class-hierarchy mode.                              *)
SolverInv == PhaseInv /\ ShapeInv /\ RoundInv /\ FlowInv /\ HeapInv

-----------------------------------------------------------------------------
(* The refinement of InclusionSolver.  A graph vertex that holds an object *)
(* is the set of the abstract solver; an allocation holds itself.          *)
Flows == {e \in edges : IsFlow(e)}
Allocated == {e.src : e \in {x \in edges : x.kind = "alloc"}}
Solver == INSTANCE InclusionSolver WITH
  flow <- {<<e.src, e.dst>> : e \in Flows},
  blocked <- {p \in {e.dst : e \in Flows} \X Allocated : ~Passes(p[1], p[2])},
  sol <- pts \cup {<<a, a>> : a \in Allocated},
  done <- (pc = "done")

(* The analysis implements the abstract solver: every element that joins a *)
(* points-to set is carried there by an edge of the graph, and the         *)
(* analysis ends only when the edges have nothing left to carry.           *)
ImplementsSolver == Solver!Spec

(* Objects come from allocations that were visited: an alloc edge is the   *)
(* only way out of an alloc vertex and nothing leads into one.             *)
Sprouts(e) == e.dst.kind # "alloc" /\ (e.src.kind = "alloc" <=> e.kind = "alloc")

SourceInv ==
  /\ \A e \in edges : Sprouts(e)
  /\ \A p \in pts \cup inset : p[2] \in Allocated
  /\ pc = "deref" => \A e \in todo : "alloc" \notin {e[1].kind, e[2].kind}

(* What waits in an in-set was carried there, and what cur forwards along  *)
(* its edges it has itself.                                                *)
CarriedBy(e, p) == e.dst = p[1] /\ p[2] \in PointsToSet(e.src)

CarryInv ==
  /\ \A p \in inset : \E e \in Flows : CarriedBy(e, p)
  /\ InRound => InSet(cur) \subseteq PointsToSet(cur)
  /\ pc = "forward" => \A e \in todo : \E x \in Flows : x.src = cur /\ x.dst = e[2]
-----------------------------------------------------------------------------
(* Virtual calls in the on-the-fly mode, where the main loop re-enters the *)
(* visitor.                                                                *)

(* The invocations visited, begun or queued.                               *)
Entered == visited \cup {queue[k] : k \in 1 .. Len(queue)}

(* The invocation that a register vertex belongs to.                       *)
Invocation(v) == <<v.context, v.hdl[1]>>
Placed(v) == v.kind = "reg" => Invocation(v) \in Entered

(* All instructions of that invocation have been visited.                  *)
Unfinished == IF queue # <<>> /\ ip # 0 THEN {Head(queue)} ELSE {}
Settled(v) == v.kind = "reg" => Invocation(v) \in visited \ Unfinished

(* A register that an edge leads to belongs to an invocation entered; one  *)
(* that has elements, to an invocation whose edges are all there.          *)
PlacedInv ==
  /\ pc # "visit" => queue = <<>>
  /\ pc = "pop" => cur = NoVertex
  /\ ip # 0 => queue # <<>> /\ Head(queue) \in visited
  /\ \A p \in inset : Placed(p[1])
  /\ \A e \in edges : Placed(e.dst)
  /\ \A e \in todo : Placed(e[2])
  /\ \A p \in pts : Settled(p[1])
  /\ InRound => Settled(cur)
  /\ \A c \in calls : <<c[1], c[2][1]>> \in visited
  /\ \A vi \in vinvoke :
       LET x == InsnAt(vi[2][2])
       IN  /\ x.kind = "virtual" /\ vi[1] \in Regs(x.args[1], vi[2][2], vi[2][1])
           /\ <<vi[2][1], vi[2][2][1]>> \in visited

(* What waits in the in-set of cur during its round is in its points-to    *)
(* set, unless it has the wrong type.                                      *)
KeptInv == InRound => \A a \in InSet(cur) : a \in PointsToSet(cur) \/ ~Passes(cur, a)

(* The element a of the register r of a virtual call has had its target    *)
(* entered, and is on its way to the this parameter.                       *)
This(target, at) == RegVertex(<<target, 0, 0>>, at)
OnItsWay(r, this, a) ==
  \/ a \in PointsToSet(this) \cup InSet(this)
  \/ /\ r = cur /\ a \in InSet(cur)
     /\ InRound /\ (pc = "forward" => <<r, this>> \in todo)

Dispatched(r, at, a) ==
  LET target == Dispatch[<<InsnAt(at).callee, TypeOf(a)>>]
  IN  /\ <<at, target>> \in Entered
      /\ target \notin IsAbstract =>
           /\ Edge(r, This(target, at), "assign") \in edges
           /\ OnItsWay(r, This(target, at), a)

(* Or the round of the register is still before that.                      *)
ToDispatch(r, context, at, a) ==
  /\ r = cur /\ a \in InSet(cur) /\ pc \in {"deref", "invoke", "visit"}
  /\ pc # "deref" => <<context, at, TypeOf(a)>> \in calls

DispatchInv ==
  \A vi \in vinvoke : \A a \in PointsToSet(vi[1]) :
    Dispatched(vi[1], vi[2][2], a) \/ ToDispatch(vi[1], vi[2][1], vi[2][2], a)
=============================================================================
