----------------------------- MODULE AndersenInv -----------------------------
(***************************************************************************)
(* The inductive invariants that relate the state of PointsTo to the       *)
(* program it analyses: the graph asks for no more than a solution of the  *)
(* program has (Within), and for every instruction visited it asks for all *)
(* that the instruction requires (VisitedInv).  PointsToProofs proves them.*)
(***************************************************************************)
EXTENDS Andersen, PointsToInv

(* A call reads its arguments from the registers of its parameters: what   *)
(* range calls do, and the others as long as no wide parameter precedes a  *)
(* reference.                                                              *)
ArgumentsInPlace ==
  \A p \in Programs : \A m \in Method : \A i \in 1 .. Len(p.code[m]) :
    LET x == p.code[m][i]
    IN  x.op = "invoke" =>
          \A t \in Targets(x.callee) : \A k \in 1 .. Len(Params[t]) :
            Params[t][k] = "L" => Argument(x, t, k) = x.args[Offset(t, k) + 1]

-----------------------------------------------------------------------------
(* No more than a solution s has.                                          *)

(* v may point to a.                                                       *)
May(s, v, a) == IF v.kind = "alloc" THEN a = v ELSE <<v, a>> \in s.pts

(* What u may point to, w may.                                             *)
Allows(s, u, w) == \A a : May(s, u, a) /\ Passes(w, a) => <<w, a>> \in s.pts

(* What r may point to and has the field f.                                *)
Owner(s, site, context, f, o) == May(s, RegVertex(site, context), o) /\ HasField(o, f)

EdgeAllowed(s, e) ==
  /\ IsFlow(e) => Allows(s, e.src, e.dst)
  /\ e.kind = "store" => \A o : Owner(s, e.dst.hdl, e.dst.context, e.dst.field, o) =>
                           Allows(s, e.src, AllocFieldVertex(o.hdl, e.dst.field))
  /\ e.kind = "load" => \A o : Owner(s, e.src.hdl, e.src.context, e.src.field, o) =>
                          Allows(s, AllocFieldVertex(o.hdl, e.src.field), e.dst)

(* A virtual call at insn in context, on the register r.                   *)
VirtualCall(s, context, insn, r) ==
  /\ <<context, insn[1]>> \in s.reach
  /\ InsnAt(insn).kind = "virtual"
  /\ r \in Regs(InsnAt(insn).args[1], insn, context)

CallAllowed(s, c) ==
  OnTheFly /\ \E r, a : VirtualCall(s, c[1], c[2], r) /\ <<r, a>> \in s.pts /\ TypeOf(a) = c[3]

Within(s) ==
  /\ pts \subseteq s.pts
  /\ \A p \in inset : Passes(p[1], p[2]) => p \in s.pts
  /\ InRound => \A a \in InSet(cur) : <<cur, a>> \in s.pts
  /\ visited \subseteq s.reach
  /\ \A k \in 1 .. Len(queue) : queue[k] \in s.reach
  /\ \A e \in edges : EdgeAllowed(s, e)
  /\ \A vi \in vinvoke : VirtualCall(s, vi[2][1], vi[2][2], vi[1])
  /\ \A c \in calls : CallAllowed(s, c)
  /\ \A e \in todo : Allows(s, e[1], e[2])

(* The shape of the graph, in both modes.  What cur has to connect does    *)
(* not feed it, what it forwards leaves it, and nothing is sent to an      *)
(* alloc vertex.                                                           *)
GraphInv ==
  /\ ShapeInv
  /\ pc = "deref" => \A e \in todo : e[2] # cur /\ "reg_dot_field" \notin {e[1].kind, e[2].kind}
  /\ pc = "forward" => \A e \in todo : e[1] = cur
  /\ \A e \in edges : e.dst.kind # "alloc"
  /\ \A p \in pts \cup inset : p[1].kind # "alloc"
  /\ \A e \in todo : e[2].kind # "alloc"

-----------------------------------------------------------------------------
(* All that the visited instructions require.                              *)

Assigned(operand, at, context, dst, kind) ==
  \A r \in Regs(operand, at, context) : Edge(r, dst, kind) \in edges

(* The constraints of the instruction at, visited in context.              *)
Constrained(context, at) ==
  LET x == InsnAt(at)
      def == RegVertex(<<at[1], at[2], 0>>, context)
      FieldOf(o) == RegFieldVertex(o, x.field, context)
  IN  /\ x.op \in {"new_instance", "const_string"} => Edge(AllocVertex(at), def, "alloc") \in edges
      /\ x.op \in {"move_object", "check_cast"} => Assigned(x.src, at, context, def, "assign")
      /\ x.op = "return_object" =>
           Assigned(x.src, at, context, RegVertex(ExitSite(at[1]), context), "assign")
      /\ x.op = "store" =>
           \A o \in Incoming(x.obj, at) :
             /\ Assigned(x.src, at, context, FieldOf(o), "store")
             /\ Regs(x.src, at, context) # {} => <<RegVertex(o, context), FieldOf(o)>> \in deref
      /\ x.op = "load" =>
           \A o \in Incoming(x.obj, at) : /\ Edge(FieldOf(o), def, "load") \in edges
                                          /\ <<RegVertex(o, context), FieldOf(o)>> \in deref
      /\ x.op = "sput" => Assigned(x.src, at, context, StaticVertex(x.field), "sstore")
      /\ x.op = "sget" => Edge(StaticVertex(x.field), def, "sload") \in edges
      /\ x.op = "invoke" =>
           \A k \in 1 .. Len(Overrides[x.callee]) :
             /\ InvokeEdges(context, at, Overrides[x.callee][k]) \subseteq edges
             /\ <<at, Overrides[x.callee][k]>> \in Entered
      /\ x.op \in {"new_instance", "sput", "sget"} \/ (x.op = "invoke" /\ x.kind = "static")
           => x.init = NoMethod \/ <<NoInsn, x.init>> \in Entered

(* The instructions of the head of the queue that are still to be visited. *)
Ahead(r, i) == queue # <<>> /\ ip # 0 /\ r = Head(queue) /\ i >= ip

VisitedInv ==
  /\ <<NoInsn, prog.entry>> \in Entered
  /\ pc # "visit" => queue = <<>>
  /\ ip # 0 => queue # <<>> /\ Head(queue) \in visited
  /\ \A r \in visited : \A i \in 1 .. Len(prog.code[r[2]]) :
       Constrained(r[1], <<r[2], i>>) \/ Ahead(r, i)
=============================================================================
