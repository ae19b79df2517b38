--------------------------- MODULE PointsToProofs ---------------------------
(***************************************************************************)
(* Theorems about the points-to analysis, for every program, hierarchy and *)
(* calling context: types and the worklist in both modes; with class       *)
(* hierarchy analysis, the closure of the points-to sets and the           *)
(* implementation of InclusionSolver.                                      *)
(*                                                                         *)
(* The second half is about the analysis against the program it analyses:  *)
(* what it reports is within every solution of the program's constraints,  *)
(* in both modes, with class hierarchy analysis it is the least solution,  *)
(* and with the call graph built on the fly every virtual call is          *)
(* dispatched.                                                             *)
(***************************************************************************)
EXTENDS AndersenInv, NaturalSets

-----------------------------------------------------------------------------
(* The operators the analysis is built from.                               *)

Registers == {v \in Vertex : v.kind = "reg"}

(* A register of an operand is a register vertex.                          *)
LEMMA RegVertexType ==
  ASSUME NEW s \in Site, NEW context \in Contexts
  PROVE  RegVertex(s, context) \in Registers \cap Sources
  BY DEF RegVertex, Registers, Vertex, Kinds, Sources

LEMMA RegsType ==
  ASSUME NEW operand \in SUBSET Site, NEW at, NEW context \in Contexts
  PROVE  Regs(operand, at, context) \subseteq Registers \cap Sources
  BY RegVertexType DEF Regs, Incoming

(* The register offset of a parameter is a number.                         *)
LEMMA OffsetType ==
  ASSUME NEW m, NEW k \in Nat \ {0}
  PROVE  Offset(m, k) \in Nat
<1> DEFINE J == {j \in 1 .. (k - 1) : Params[m][j] = "J"}
<1>1. IsFiniteSet(1 .. (k - 1))
  BY FS_Interval
<1>2. IsFiniteSet(J)
  BY <1>1, FS_Subset
<1>3. Cardinality(J) \in Nat
  BY <1>2, FS_CardinalityType
<1> QED
  BY <1>3 DEF Offset

(* An instruction of an analysed program is well formed.                   *)
LEMMA InsnWellFormed ==
  ASSUME prog \in Programs, NEW m \in Method, NEW i \in 1 .. Len(prog.code[m])
  PROVE  WellFormed(prog.code[m][i])
  BY ProgramAssumption

LEMMA CodeLength ==
  ASSUME prog \in Programs, NEW m \in Method
  PROVE  Len(prog.code[m]) \in Nat
  BY ProgramAssumption

LEMMA ExitSiteType ==
  ASSUME prog \in Programs, NEW m \in Method
  PROVE  ExitSite(m) \in Site
  BY CodeLength DEF ExitSite, Site

(* An object has a class.                                                  *)
LEMMA ObjectType ==
  ASSUME prog \in Programs, NEW a \in Objects
  PROVE  TypeOf(a) \in Type
<1>1. /\ a.kind = "alloc" /\ a.hdl \in Point
      /\ a.hdl[2] \in 1 .. Len(prog.code[a.hdl[1]])
      /\ InsnAt(a.hdl).op \in {"new_instance", "const_string"}
  BY DEF Objects, Alloc, IsInsn
<1>2. WellFormed(prog.code[a.hdl[1]][a.hdl[2]])
  BY <1>1, InsnWellFormed DEF Point
<1> QED
  BY <1>1, <1>2 DEF TypeOf, InsnAt, WellFormed

(* The edges of a call lead from registers to registers.                   *)
LEMMA InvokeEdgesType ==
  ASSUME prog \in Programs, NEW context \in Contexts, NEW insn \in CallSites,
         NEW m \in Method, m \in Targets(InsnAt(insn).callee)
  PROVE  InvokeEdges(context, insn, m) \subseteq
           [src : Registers \cap Sources, dst : Registers, kind : {"assign"}]
<1> DEFINE x == InsnAt(insn)
<1>1. insn \in Contexts /\ insn \in Point /\ x.op = "invoke"
  BY DEF CallSites, Contexts
<1>2. WellFormed(x)
  BY InsnWellFormed DEF CallSites, IsInsn, Point, InsnAt
<1>3. ASSUME NEW k \in 1 .. Len(Params[m]), Params[m][k] = "L"
      PROVE  /\ Argument(x, m, k) \in SUBSET Site
             /\ RegVertex(<<m, 0, Offset(m, k)>>, insn) \in Registers
  <2>1. Len(Params[m]) \in Nat
    BY HierarchyAssumption
  <2>2. k \in Nat \ {0}
    BY <2>1
  <2>3. <<m, 0, Offset(m, k)>> \in Site
    BY <2>2, OffsetType DEF Site
  <2>4. Argument(x, m, k) \in SUBSET Site
    BY <1>1, <1>2, <1>3 DEF WellFormed
  <2> QED
    BY <1>1, <2>3, <2>4, RegVertexType
<1>4. ASSUME NEW k \in 1 .. Len(Params[m]), Params[m][k] = "L",
             NEW r \in Regs(Argument(x, m, k), insn, context)
      PROVE  Edge(r, RegVertex(<<m, 0, Offset(m, k)>>, insn), "assign") \in
               [src : Registers \cap Sources, dst : Registers, kind : {"assign"}]
  <2>1. r \in Registers \cap Sources
    BY <1>3, <1>4, RegsType
  <2> QED
    BY <1>3, <1>4, <2>1 DEF Edge
<1>5. Edge(RegVertex(ExitSite(m), insn), RegVertex(<<insn[1], insn[2], 0>>, context),
           "assign") \in [src : Registers \cap Sources, dst : Registers, kind : {"assign"}]
  <2>1. RegVertex(ExitSite(m), insn) \in Registers \cap Sources
    BY <1>1, ExitSiteType, RegVertexType
  <2>2. <<insn[1], insn[2], 0>> \in Site
    BY <1>1 DEF Point, Site
  <2>3. RegVertex(<<insn[1], insn[2], 0>>, context) \in Registers
    BY <2>2, RegVertexType
  <2> QED
    BY <2>1, <2>3 DEF Edge
<1>6. ArgumentEdges(context, insn, m) \subseteq
        [src : Registers \cap Sources, dst : Registers, kind : {"assign"}]
  <2> SUFFICES ASSUME NEW e \in ArgumentEdges(context, insn, m)
               PROVE  e \in [src : Registers \cap Sources, dst : Registers, kind : {"assign"}]
    OBVIOUS
  <2>1. PICK k \in 1 .. Len(Params[m]) :
          /\ Params[m][k] = "L"
          /\ e \in {Edge(r, RegVertex(<<m, 0, Offset(m, k)>>, insn), "assign") :
                     r \in Regs(Argument(x, m, k), insn, context)}
    BY DEF ArgumentEdges
  <2>2. PICK r \in Regs(Argument(x, m, k), insn, context) :
          e = Edge(r, RegVertex(<<m, 0, Offset(m, k)>>, insn), "assign")
    BY <2>1
  <2> QED
    BY <1>4, <2>1, <2>2
<1>7. ResultEdges(context, insn, m) \subseteq
        [src : Registers \cap Sources, dst : Registers, kind : {"assign"}]
  BY <1>5 DEF ResultEdges
<1> QED
  BY <1>6, <1>7 DEF InvokeEdges

(* A points-to set holds objects.                                          *)
LEMMA PointsToSetType ==
  ASSUME pts \subseteq Vertex \X Objects, NEW v \in Sources
  PROVE  PointsToSet(v) \subseteq Objects
  BY DEF PointsToSet, Sources

LEMMA InSetType ==
  ASSUME inset \subseteq Vertex \X Objects, NEW v
  PROVE  InSet(v) \subseteq Objects
  BY DEF InSet

LEMMA PropagateType ==
  ASSUME TypeInv, NEW dst \in Vertex, NEW allocs \in SUBSET Objects, Propagate(dst, allocs)
  PROVE  /\ inset' \subseteq Vertex \X Objects
         /\ dirty' \subseteq Vertex
         /\ worklist' \in Seq(Vertex)
  BY DEF TypeInv, Propagate

LEMMA FieldVertexType ==
  /\ \A s \in Site, f \in Field, c \in Contexts :
       RegFieldVertex(s, f, c) \in {v \in Vertex : v.kind = "reg_dot_field"} \cap Sources
  /\ \A o \in Point, f \in Field \cup StaticField \cup {NoField} :
       AllocFieldVertex(o, f) \in Sources
  /\ \A f \in StaticField : StaticVertex(f) \in Sources
  BY DEF RegFieldVertex, AllocFieldVertex, StaticVertex, Vertex, Kinds, Sources, Contexts

(* The edges of a dereference are edges between vertices.                  *)
LEMMA DerefEdgesType ==
  ASSUME TypeInv, NEW v, NEW allocs \in SUBSET Objects
  PROVE  DerefEdges(v, allocs) \subseteq Sources \X Vertex
<1>1. ASSUME NEW d \in {p[2] : p \in {q \in deref : q[1] = v}}, NEW a \in allocs,
             NEW e \in ({<<u, AllocFieldVertex(a.hdl, d.field)>> : u \in Preds(edges, d)} \cup
                        {<<AllocFieldVertex(a.hdl, d.field), w>> : w \in Succs(edges, d)})
      PROVE  e \in Sources \X Vertex
  <2>1. d.field \in Field \cup StaticField \cup {NoField}
    BY DEF TypeInv, Vertex
  <2>2. a.hdl \in Point
    BY DEF Objects, Alloc
  <2>3. AllocFieldVertex(a.hdl, d.field) \in Sources
    BY <2>1, <2>2, FieldVertexType
  <2>4. Preds(edges, d) \subseteq Sources /\ Succs(edges, d) \subseteq Vertex
    BY DEF TypeInv, Preds, Succs
  <2> QED
    BY <2>3, <2>4 DEF Sources
<1> QED
  BY <1>1 DEF DerefEdges

-----------------------------------------------------------------------------
(* TypeInv is inductive.                                                   *)

LEMMA TypeInvInit == Init => TypeInv
<1> SUFFICES ASSUME Init PROVE TypeInv
  OBVIOUS
<1>1. prog.entry \in Method
  BY ProgramAssumption DEF Init
<1>2. queue \in Seq(Contexts \X Method)
  BY <1>1 DEF Init, Contexts
<1> QED
  BY <1>2 DEF Init, TypeInv, Phases

(* What the definitions that read the program mean does not change.        *)
LEMMA ProgramConstant ==
  ASSUME prog' = prog
  PROVE  /\ Objects' = Objects /\ CallSites' = CallSites /\ Sources' = Sources
         /\ \A v : TypeOf(v)' = TypeOf(v)
         /\ \A v, a : Passes(v, a)' = Passes(v, a)
         /\ \A a, f : HasField(a, f)' = HasField(a, f)
         /\ \A at : InsnAt(at)' = InsnAt(at)
<1>1. \A at : InsnAt(at)' = InsnAt(at)
  BY DEF InsnAt
<1>2. \A v : TypeOf(v)' = TypeOf(v)
  BY <1>1 DEF TypeOf
<1>3. Objects' = Objects /\ CallSites' = CallSites
  BY <1>1 DEF Objects, CallSites, IsInsn
<1> QED
  BY <1>1, <1>2, <1>3 DEF Sources, Passes, HasField

(* The invocation at the head of the queue, and the instruction at ip.     *)
LEMMA Visiting ==
  ASSUME TypeInv, queue # <<>>
  PROVE  /\ Context \in Contexts /\ Current \in Method
         /\ Tail(queue) \in Seq(Contexts \X Method)
         /\ Head(queue) \in Contexts \X Method
  BY DEF TypeInv, Context, Current

LEMMA VisitingInsn ==
  ASSUME TypeInv, NEW ops, At(ops)
  PROVE  /\ Context \in Contexts /\ Current \in Method
         /\ ip \in 1 .. Len(prog.code[Current]) /\ Insn = prog.code[Current][ip]
         /\ Here \in Point /\ DefSite \in Site /\ InsnAt(Here) = Insn
         /\ WellFormed(Insn) /\ Insn.op \in ops /\ pc = "visit"
<1>1. Context \in Contexts /\ Current \in Method
  BY Visiting DEF At
<1>2. ip \in 1 .. Len(prog.code[Current]) /\ Insn = prog.code[Current][ip]
  BY DEF At, Code, Insn
<1>3. Here \in Point /\ DefSite \in Site
  BY <1>1 DEF TypeInv, Here, DefSite, Point, Site
<1>4. InsnAt(Here) = Insn
  BY <1>2 DEF InsnAt, Here
<1>5. WellFormed(Insn)
  BY <1>1, <1>2, InsnWellFormed DEF TypeInv
<1> QED
  BY <1>1, <1>2, <1>3, <1>4, <1>5 DEF At

EdgeSpace == [src : Sources, dst : Vertex, kind : FlowKinds \cup HeapKinds]

LEMMA EdgeType ==
  ASSUME NEW u \in Sources, NEW v \in Vertex, NEW k \in FlowKinds \cup HeapKinds
  PROVE  Edge(u, v, k) \in EdgeSpace
  BY DEF Edge, EdgeSpace

LEMMA ClinitType ==
  ASSUME TypeInv, queue # <<>>, Insn.init \in Method \cup {NoMethod}
  PROVE  queue \o Clinit \in Seq(Contexts \X Method)
<1>1. Clinit \in Seq(Contexts \X Method)
  <2>1. CASE Insn.init = NoMethod
    BY <2>1 DEF Clinit
  <2>2. CASE Insn.init # NoMethod
    <3>1. <<NoInsn, Insn.init>> \in Contexts \X Method
      BY <2>2 DEF Contexts
    <3> QED
      BY <2>2, <3>1 DEF Clinit
  <2> QED
    BY <2>1, <2>2
<1> QED
  BY <1>1 DEF TypeInv

LEMMA TypeInvVisitAlloc == TypeInv /\ VisitAlloc => TypeInv'
<1> SUFFICES ASSUME TypeInv, VisitAlloc PROVE TypeInv'
  OBVIOUS
<1> DEFINE src == AllocVertex(Here)
           dst == RegVertex(DefSite, Context)
<1>1. /\ Context \in Contexts /\ Here \in Point /\ DefSite \in Site /\ Insn = InsnAt(Here)
      /\ Insn.op \in {"new_instance", "const_string"} /\ WellFormed(Insn)
      /\ ip \in 1 .. Len(prog.code[Current])
  BY VisitingInsn DEF VisitAlloc
<1>2. src \in Objects
  BY <1>1 DEF Objects, Alloc, AllocVertex, IsInsn, Here
<1>3. src \in Sources
  BY <1>1, <1>2 DEF Sources, Vertex, Kinds, AllocVertex, Contexts
<1>4. dst \in Vertex
  BY <1>1, RegVertexType DEF Registers
<1>5. PointsToSet(src) \in SUBSET Objects
  BY <1>3, PointsToSetType DEF TypeInv
<1>6. edges' \subseteq EdgeSpace
  <2>1. Edge(src, dst, "alloc") \in EdgeSpace
    BY <1>3, <1>4, EdgeType DEF FlowKinds
  <2> QED
    BY <2>1 DEF VisitAlloc, TypeInv, EdgeSpace
<1>7. inset' \subseteq Vertex \X Objects /\ dirty' \subseteq Vertex /\ worklist' \in Seq(Vertex)
  BY <1>4, <1>5, PropagateType DEF VisitAlloc
<1>8. queue' \in Seq(Contexts \X Method)
  BY <1>1, ClinitType DEF VisitAlloc, At, WellFormed
<1>9. ip' \in Nat
  BY DEF TypeInv, VisitAlloc, NextInsn
<1> QED
  BY <1>6, <1>7, <1>8, <1>9, ProgramConstant DEF TypeInv, EdgeSpace, VisitAlloc, NextInsn, step, At

LEMMA TypeInvVisitAssign == TypeInv /\ VisitAssign => TypeInv'
<1> SUFFICES ASSUME TypeInv, VisitAssign PROVE TypeInv'
  OBVIOUS
<1> DEFINE dst == RegVertex(IF Insn.op = "return_object" THEN ExitSite(Current)
                                                         ELSE DefSite, Context)
<1>1. /\ Context \in Contexts /\ Current \in Method /\ DefSite \in Site
      /\ Insn.op \in {"move_object", "check_cast", "return_object"} /\ WellFormed(Insn)
  BY VisitingInsn DEF VisitAssign
<1>2. dst \in Vertex
  BY <1>1, ExitSiteType, RegVertexType DEF Registers, TypeInv
<1>3. Regs(Insn.src, Here, Context) \subseteq Sources
  BY <1>1, RegsType DEF WellFormed
<1>4. edges' \subseteq EdgeSpace
  <2>1. \A r \in Regs(Insn.src, Here, Context) : Edge(r, dst, "assign") \in EdgeSpace
    BY <1>2, <1>3, EdgeType DEF FlowKinds
  <2> QED
    BY <2>1 DEF VisitAssign, TypeInv, EdgeSpace
<1>5. ip' \in Nat
  BY DEF TypeInv, VisitAssign, NextInsn
<1> QED
  BY <1>4, <1>5, ProgramConstant
  DEF TypeInv, EdgeSpace, VisitAssign, NextInsn, step, list, At

Dereferences == {v \in Vertex : v.kind = "reg_dot_field"}

LEMMA TypeInvVisitStore == TypeInv /\ VisitStore => TypeInv'
<1> SUFFICES ASSUME TypeInv, VisitStore PROVE TypeInv'
  OBVIOUS
<1> DEFINE objs == {s \in Incoming(Insn.obj, Here) : Regs(Insn.src, Here, Context) # {}}
           FieldOf(s) == RegFieldVertex(s, Insn.field, Context)
<1>1. Context \in Contexts /\ Insn.op = "store" /\ WellFormed(Insn)
  BY VisitingInsn DEF VisitStore
<1>2. objs \subseteq Site /\ Insn.field \in Field
  BY <1>1 DEF WellFormed, Incoming
<1>3. \A s \in objs : FieldOf(s) \in Dereferences /\ RegVertex(s, Context) \in Vertex
  BY <1>1, <1>2, FieldVertexType, RegVertexType DEF Dereferences, Registers
<1>4. Regs(Insn.src, Here, Context) \subseteq Sources
  BY <1>1, RegsType DEF WellFormed
<1>5. edges' \subseteq EdgeSpace
  <2>1. ASSUME NEW s \in objs, NEW r \in Regs(Insn.src, Here, Context)
        PROVE  Edge(r, FieldOf(s), "store") \in EdgeSpace
    BY <1>3, <1>4, EdgeType DEF HeapKinds, Dereferences
  <2>2. UNION {{Edge(r, FieldOf(s), "store") : r \in Regs(Insn.src, Here, Context)} : s \in objs}
          \subseteq EdgeSpace
    BY <2>1
  <2> QED
    BY <2>2 DEF VisitStore, TypeInv, EdgeSpace
<1>6. deref' \subseteq Vertex \X Dereferences
  <2>1. {<<RegVertex(s, Context), FieldOf(s)>> : s \in objs} \subseteq Vertex \X Dereferences
    BY <1>3
  <2> QED
    BY <2>1 DEF VisitStore, TypeInv, Dereferences
<1>7. ip' \in Nat
  BY DEF TypeInv, VisitStore, NextInsn
<1> QED
  BY <1>5, <1>6, <1>7, ProgramConstant
  DEF TypeInv, EdgeSpace, VisitStore, NextInsn, step, list, At, Dereferences

LEMMA TypeInvVisitLoad == TypeInv /\ VisitLoad => TypeInv'
<1> SUFFICES ASSUME TypeInv, VisitLoad PROVE TypeInv'
  OBVIOUS
<1> DEFINE objs == Incoming(Insn.obj, Here)
           FieldOf(s) == RegFieldVertex(s, Insn.field, Context)
<1>1. Context \in Contexts /\ Insn.op = "load" /\ WellFormed(Insn) /\ DefSite \in Site
  BY VisitingInsn DEF VisitLoad
<1>2. objs \subseteq Site /\ Insn.field \in Field
  BY <1>1 DEF WellFormed, Incoming
<1>3. \A s \in objs : FieldOf(s) \in Dereferences \cap Sources /\ RegVertex(s, Context) \in Vertex
  BY <1>1, <1>2, FieldVertexType, RegVertexType DEF Dereferences, Registers
<1>4. RegVertex(DefSite, Context) \in Vertex
  BY <1>1, RegVertexType DEF Registers
<1>5. edges' \subseteq EdgeSpace
  <2>1. {Edge(FieldOf(s), RegVertex(DefSite, Context), "load") : s \in objs} \subseteq EdgeSpace
    BY <1>3, <1>4, EdgeType DEF HeapKinds
  <2> QED
    BY <2>1 DEF VisitLoad, TypeInv, EdgeSpace
<1>6. deref' \subseteq Vertex \X Dereferences
  <2>1. {<<RegVertex(s, Context), FieldOf(s)>> : s \in objs} \subseteq Vertex \X Dereferences
    BY <1>3
  <2> QED
    BY <2>1 DEF VisitLoad, TypeInv, Dereferences
<1>7. ip' \in Nat
  BY DEF TypeInv, VisitLoad, NextInsn
<1> QED
  BY <1>5, <1>6, <1>7, ProgramConstant
  DEF TypeInv, EdgeSpace, VisitLoad, NextInsn, step, list, At, Dereferences

LEMMA TypeInvVisitStatic == TypeInv /\ VisitStatic => TypeInv'
<1> SUFFICES ASSUME TypeInv, VisitStatic PROVE TypeInv'
  OBVIOUS
<1>1. /\ Context \in Contexts /\ DefSite \in Site
      /\ Insn.op \in {"sput", "sget"} /\ WellFormed(Insn)
  BY VisitingInsn DEF VisitStatic
<1>2. StaticVertex(Insn.field) \in Sources /\ RegVertex(DefSite, Context) \in Vertex
  BY <1>1, FieldVertexType, RegVertexType DEF WellFormed, Registers
<1>3. edges' \subseteq EdgeSpace
  <2>1. CASE Insn.op = "sput"
    <3>1. Regs(Insn.src, Here, Context) \subseteq Sources
      BY <1>1, <2>1, RegsType DEF WellFormed
    <3>2. \A r \in Regs(Insn.src, Here, Context) :
            Edge(r, StaticVertex(Insn.field), "sstore") \in EdgeSpace
      BY <1>2, <3>1, EdgeType DEF FlowKinds, Sources
    <3> QED
      BY <2>1, <3>2 DEF VisitStatic, TypeInv, EdgeSpace
  <2>2. CASE Insn.op = "sget"
    <3>1. Edge(StaticVertex(Insn.field), RegVertex(DefSite, Context), "sload") \in EdgeSpace
      BY <1>2, EdgeType DEF FlowKinds
    <3> QED
      BY <2>2, <3>1 DEF VisitStatic, TypeInv, EdgeSpace
  <2> QED
    BY <1>1, <2>1, <2>2
<1>4. queue' \in Seq(Contexts \X Method)
  BY <1>1, ClinitType DEF VisitStatic, At, WellFormed
<1>5. ip' \in Nat
  BY DEF TypeInv, VisitStatic, NextInsn
<1> QED
  BY <1>3, <1>4, <1>5, ProgramConstant
  DEF TypeInv, EdgeSpace, VisitStatic, NextInsn, step, list, At

LEMMA TypeInvVisitInvoke == TypeInv /\ VisitInvoke => TypeInv'
<1> SUFFICES ASSUME TypeInv, VisitInvoke PROVE TypeInv'
  OBVIOUS
<1> DEFINE targets == IF OnTheFly /\ Insn.kind = "virtual" THEN <<>> ELSE Overrides[Insn.callee]
           calling == [k \in 1 .. Len(targets) |-> <<Here, targets[k]>>]
           registered == IF Insn.kind = "virtual"
                         THEN {<<r, <<Context, Here>>>> : r \in Regs(Insn.args[1], Here, Context)}
                         ELSE {}
<1>1. /\ Context \in Contexts /\ Here \in Point /\ Insn = InsnAt(Here)
      /\ Insn.op = "invoke" /\ WellFormed(Insn)
      /\ ip \in 1 .. Len(prog.code[Current])
  BY VisitingInsn DEF VisitInvoke
<1>2. Here \in CallSites
  BY <1>1 DEF CallSites, IsInsn, Here
<1>3. targets \in Seq(Method)
  BY <1>1, HierarchyAssumption DEF WellFormed
<1>4. \A k \in 1 .. Len(targets) : targets[k] \in Method /\ targets[k] \in Targets(Insn.callee)
  BY <1>3 DEF Targets
<1>5. edges' \subseteq EdgeSpace
  <2>1. \A k \in 1 .. Len(targets) : InvokeEdges(Context, Here, targets[k]) \subseteq EdgeSpace
    <3> SUFFICES ASSUME NEW k \in 1 .. Len(targets)
                 PROVE  InvokeEdges(Context, Here, targets[k]) \subseteq EdgeSpace
      OBVIOUS
    <3>1. InvokeEdges(Context, Here, targets[k]) \subseteq
            [src : Registers \cap Sources, dst : Registers, kind : {"assign"}]
      BY <1>1, <1>2, <1>4, InvokeEdgesType DEF TypeInv
    <3> QED
      BY <3>1 DEF EdgeSpace, Registers, FlowKinds
  <2>2. UNION {InvokeEdges(Context, Here, targets[k]) : k \in 1 .. Len(targets)} \subseteq EdgeSpace
    BY <2>1
  <2> QED
    BY <2>2 DEF VisitInvoke, TypeInv, EdgeSpace
<1>6. vinvoke' \subseteq Vertex \X (Contexts \X CallSites)
  <2>1. registered \subseteq Vertex \X (Contexts \X CallSites)
    <3>1. CASE Insn.kind = "virtual"
      <4>1. Regs(Insn.args[1], Here, Context) \subseteq Vertex
        BY <1>1, <3>1, RegsType DEF WellFormed, Registers
      <4> QED
        BY <1>1, <1>2, <3>1, <4>1
    <3>2. CASE Insn.kind # "virtual"
      BY <3>2
    <3> QED
      BY <3>1, <3>2
  <2>2. vinvoke' = vinvoke \cup registered
    BY DEF VisitInvoke
  <2> QED
    BY <2>1, <2>2 DEF TypeInv
<1>7. queue' \in Seq(Contexts \X Method)
  <2>1. calling \in Seq(Contexts \X Method)
    <3>1. Len(targets) \in Nat
      BY <1>3
    <3>2. \A k \in 1 .. Len(targets) : <<Here, targets[k]>> \in Contexts \X Method
      BY <1>1, <1>4 DEF Contexts
    <3> QED
      BY <3>1, <3>2
  <2>2. CASE Insn.kind = "static"
    <3>1. queue' = (queue \o Clinit) \o calling
      BY <2>2 DEF VisitInvoke
    <3>2. queue \o Clinit \in Seq(Contexts \X Method)
      BY <1>1, ClinitType DEF VisitInvoke, At, WellFormed
    <3> HIDE DEF calling
    <3> QED
      BY <2>1, <3>1, <3>2
  <2>3. CASE Insn.kind # "static"
    <3>1. queue' = (queue \o <<>>) \o calling
      BY <2>3 DEF VisitInvoke
    <3> HIDE DEF calling
    <3> QED
      BY <2>1, <3>1 DEF TypeInv
  <2> QED
    BY <2>2, <2>3
<1>8. ip' \in Nat
  BY DEF TypeInv, VisitInvoke, NextInsn
<1> QED
  BY <1>5, <1>6, <1>7, <1>8, ProgramConstant
  DEF TypeInv, EdgeSpace, VisitInvoke, NextInsn, step, list, At

LEMMA TypeInvVisitOther == TypeInv /\ VisitOther => TypeInv'
  BY ProgramConstant DEF TypeInv, VisitOther, NextInsn, step, list, graph, At

LEMMA TypeInvSkipVisited == TypeInv /\ SkipVisited => TypeInv'
  BY Visiting, ProgramConstant DEF TypeInv, SkipVisited, step, list, graph, sets

LEMMA TypeInvBeginMethod == TypeInv /\ BeginMethod => TypeInv'
  BY Visiting, ProgramConstant DEF TypeInv, BeginMethod, step, list, graph, sets

LEMMA TypeInvEndMethod == TypeInv /\ EndMethod => TypeInv'
  BY Visiting, ProgramConstant DEF TypeInv, EndMethod, step, list, graph, sets

LEMMA TypeInvQueueDrained == TypeInv /\ QueueDrained => TypeInv'
  BY ProgramConstant DEF TypeInv, QueueDrained, step, list, graph, sets, scan, Phases

LEMMA TypeInvVisit == TypeInv /\ Visit => TypeInv'
  BY TypeInvSkipVisited, TypeInvBeginMethod, TypeInvEndMethod, TypeInvVisitAlloc,
     TypeInvVisitAssign, TypeInvVisitStore, TypeInvVisitLoad, TypeInvVisitStatic,
     TypeInvVisitInvoke, TypeInvVisitOther, TypeInvQueueDrained
  DEF Visit

LEMMA FilteredType ==
  ASSUME TypeInv, NEW v
  PROVE  Filtered(v) \in SUBSET Objects
  BY InSetType DEF TypeInv, Filtered

LEMMA WithInSetType ==
  ASSUME TypeInv, NEW v \in Vertex, NEW allocs \in SUBSET Objects
  PROVE  WithInSet(v, allocs) \subseteq Vertex \X Objects
  BY DEF TypeInv, WithInSet

LEMMA Popping ==
  ASSUME TypeInv, worklist # <<>>
  PROVE  Head(worklist) \in Vertex /\ Tail(worklist) \in Seq(Vertex)
  BY DEF TypeInv

LEMMA TypeInvPopUnchanged == TypeInv /\ PopUnchanged => TypeInv'
<1> SUFFICES ASSUME TypeInv, PopUnchanged PROVE TypeInv'
  OBVIOUS
<1>1. Head(worklist) \in Vertex /\ worklist' \in Seq(Vertex)
  BY Popping DEF PopUnchanged
<1>2. inset' \subseteq Vertex \X Objects
  BY <1>1, WithInSetType DEF PopUnchanged
<1> QED
  BY <1>1, <1>2, ProgramConstant DEF TypeInv, PopUnchanged, step, graph, scan

LEMMA TypeInvPop == TypeInv /\ Pop => TypeInv'
<1> SUFFICES ASSUME TypeInv, Pop PROVE TypeInv'
  OBVIOUS
<1> DEFINE v == Head(worklist)
<1>1. v \in Vertex /\ worklist' \in Seq(Vertex)
  BY Popping DEF Pop
<1>2. Filtered(v) \in SUBSET Objects
  BY FilteredType
<1>3. inset' \subseteq Vertex \X Objects
  BY <1>1, <1>2, WithInSetType DEF Pop
<1>4. pts' \subseteq Vertex \X Objects
  BY <1>1, <1>2 DEF Pop, TypeInv
<1>5. todo' \subseteq Sources \X Vertex
  BY <1>2, DerefEdgesType DEF Pop
<1> QED
  BY <1>1, <1>3, <1>4, <1>5, ProgramConstant DEF TypeInv, Pop, graph, scan, Phases

LEMMA TypeInvAddDerefEdge == TypeInv /\ AddDerefEdge => TypeInv'
<1> SUFFICES ASSUME TypeInv, AddDerefEdge PROVE TypeInv'
  OBVIOUS
<1>1. PICK e \in todo : /\ edges' = edges \cup {Edge(e[1], e[2], "assign")}
                        /\ Propagate(e[2], PointsToSet(e[1]))
                        /\ todo' = todo \ {e}
  BY DEF AddDerefEdge
<1>2. e[1] \in Sources /\ e[2] \in Vertex
  BY DEF TypeInv
<1>3. edges' \subseteq EdgeSpace
  BY <1>1, <1>2, EdgeType DEF TypeInv, EdgeSpace, FlowKinds
<1>4. PointsToSet(e[1]) \in SUBSET Objects
  BY <1>2, PointsToSetType DEF TypeInv
<1>5. inset' \subseteq Vertex \X Objects /\ dirty' \subseteq Vertex /\ worklist' \in Seq(Vertex)
  BY <1>1, <1>2, <1>4, PropagateType
<1> QED
  BY <1>1, <1>3, <1>5, ProgramConstant DEF TypeInv, EdgeSpace, AddDerefEdge, scan

LEMMA TypeInvCollectCalls == TypeInv /\ CollectCalls => TypeInv'
<1> SUFFICES ASSUME TypeInv, CollectCalls PROVE TypeInv'
  OBVIOUS
<1>1. calls' \subseteq Contexts \X CallSites \X Type
  <2>1. ASSUME NEW vi \in vinvoke, NEW a \in InSet(cur)
        PROVE  <<vi[2][1], vi[2][2], TypeOf(a)>> \in Contexts \X CallSites \X Type
    <3>1. a \in Objects
      BY InSetType DEF TypeInv
    <3>2. TypeOf(a) \in Type
      BY <3>1, ObjectType DEF TypeInv
    <3> QED
      BY <3>2 DEF TypeInv
  <2> QED
    BY <2>1 DEF CollectCalls
<1> QED
  BY <1>1, ProgramConstant DEF TypeInv, CollectCalls, graph, sets, list, scan, Phases

LEMMA TypeInvProcessCall == TypeInv /\ ProcessCall => TypeInv'
<1> SUFFICES ASSUME TypeInv, ProcessCall PROVE TypeInv'
  OBVIOUS
<1>1. PICK c \in calls :
        LET key == <<InsnAt(c[2]).callee, c[3]>>
        IN  /\ key \in DOMAIN Dispatch
            /\ edges' = edges \cup InvokeEdges(c[1], c[2], Dispatch[key])
            /\ queue' = <<<<c[2], Dispatch[key]>>>>
            /\ calls' = calls \ {c}
  BY DEF ProcessCall
<1> DEFINE key == <<InsnAt(c[2]).callee, c[3]>>
<1>2. c[1] \in Contexts /\ c[2] \in CallSites /\ c[2] \in Contexts
  BY DEF TypeInv, CallSites, Contexts
<1>3. Dispatch[key] \in Method /\ Dispatch[key] \in Targets(InsnAt(c[2]).callee)
  BY <1>1, HierarchyAssumption DEF Targets
<1>4. edges' \subseteq EdgeSpace
  <2>1. InvokeEdges(c[1], c[2], Dispatch[key]) \subseteq
          [src : Registers \cap Sources, dst : Registers, kind : {"assign"}]
    BY <1>2, <1>3, InvokeEdgesType DEF TypeInv
  <2>2. InvokeEdges(c[1], c[2], Dispatch[key]) \subseteq EdgeSpace
    BY <2>1 DEF EdgeSpace, Registers, FlowKinds
  <2> QED
    BY <1>1, <2>2 DEF TypeInv, EdgeSpace
<1>5. queue' \in Seq(Contexts \X Method)
  BY <1>1, <1>2, <1>3
<1> QED
  BY <1>1, <1>4, <1>5, ProgramConstant DEF TypeInv, EdgeSpace, ProcessCall, sets, list, Phases

LEMMA TypeInvCallsDone == TypeInv /\ CallsDone => TypeInv'
<1> SUFFICES ASSUME TypeInv, CallsDone PROVE TypeInv'
  OBVIOUS
<1>1. todo' \subseteq Sources \X Vertex
  BY DEF TypeInv, CallsDone
<1> QED
  BY <1>1, ProgramConstant DEF TypeInv, CallsDone, graph, sets, list, scan, Phases

LEMMA TypeInvForward == TypeInv /\ Forward => TypeInv'
<1> SUFFICES ASSUME TypeInv, Forward PROVE TypeInv'
  OBVIOUS
<1>1. PICK e \in todo : Propagate(e[2], InSet(cur)) /\ todo' = todo \ {e}
  BY DEF Forward
<1>2. e[2] \in Vertex
  BY DEF TypeInv
<1>3. InSet(cur) \in SUBSET Objects
  BY InSetType DEF TypeInv
<1>4. inset' \subseteq Vertex \X Objects /\ dirty' \subseteq Vertex /\ worklist' \in Seq(Vertex)
  BY <1>1, <1>2, <1>3, PropagateType
<1> QED
  BY <1>1, <1>4, ProgramConstant DEF TypeInv, Forward, graph, scan

LEMMA TypeInvClearInSet == TypeInv /\ ClearInSet => TypeInv'
<1> SUFFICES ASSUME TypeInv, ClearInSet PROVE TypeInv'
  OBVIOUS
<1>1. inset' \subseteq Vertex \X Objects
  BY DEF TypeInv, ClearInSet, WithInSet
<1> QED
  BY <1>1, ProgramConstant DEF TypeInv, ClearInSet, graph, list, scan, Phases

LEMMA TypeInvUpdateCcg == TypeInv /\ UpdateCcg => TypeInv'
<1> SUFFICES ASSUME TypeInv, UpdateCcg PROVE TypeInv'
  OBVIOUS
<1>1. ASSUME NEW i \in visited, i[1] # NoInsn
      PROVE  [caller |-> i[1][1], callee |-> i[2], insn |-> i[1][2],
              virtual |-> InsnAt(i[1]).kind = "virtual"] \in
                [caller : Method, callee : Method, insn : Nat, virtual : BOOLEAN]
  BY <1>1 DEF TypeInv, Contexts, Point
<1>2. ccg' \subseteq [caller : Method, callee : Method, insn : Nat, virtual : BOOLEAN]
  BY <1>1 DEF UpdateCcg
<1> QED
  BY <1>2, ProgramConstant DEF TypeInv, UpdateCcg, graph, sets, list, scan, step, Phases

LEMMA TypeInvUpdate == TypeInv /\ Update => TypeInv'
  BY TypeInvPopUnchanged, TypeInvPop, TypeInvAddDerefEdge, TypeInvCollectCalls,
     TypeInvProcessCall, TypeInvCallsDone, TypeInvForward, TypeInvClearInSet, TypeInvUpdateCcg
  DEF Update

LEMMA TypeInvNext == TypeInv /\ [Next]_vars => TypeInv'
<1> SUFFICES ASSUME TypeInv, [Next]_vars PROVE TypeInv'
  OBVIOUS
<1>1. CASE UNCHANGED vars
  BY <1>1, ProgramConstant DEF TypeInv, vars, graph, sets, list, scan, step
<1> QED
  BY <1>1, TypeInvVisit, TypeInvUpdate DEF Next

LEMMA TypeInvImpliesTypeOK == TypeInv => TypeOK
  BY ProgramAssumption DEF TypeInv, TypeOK, Objects, CallSites, Sources

(* The analysis keeps the shape of its state, whatever program it is given *)
(* and in either mode (points_to.cpp, update and make_vertices_from_method). *)
THEOREM TypeSafe == Spec => []TypeOK
<1>1. Spec => []TypeInv
  BY TypeInvInit, TypeInvNext, PTL DEF Spec
<1> QED
  BY <1>1, TypeInvImpliesTypeOK, PTL

-----------------------------------------------------------------------------
(* The worklist.                                                           *)

(* What propagate does to the in-sets.                                     *)
LEMMA PropagateInSet ==
  ASSUME NEW dst, NEW allocs, Propagate(dst, allocs)
  PROVE  /\ allocs \subseteq InSet(dst)'
         /\ \A v : InSet(v) \subseteq InSet(v)'
         /\ \A v : v # dst => InSet(v)' = InSet(v)
         /\ InSet(dst)' = InSet(dst) \cup allocs
<1>1. inset' = inset \cup {<<dst, a>> : a \in allocs}
  BY DEF Propagate
<1>2. \A v, a : a \in InSet(v) <=> \E p \in inset : p[1] = v /\ p[2] = a
  BY DEF InSet
<1>3. \A v, a : a \in InSet(v)' <=> \E p \in inset' : p[1] = v /\ p[2] = a
  BY DEF InSet
<1>4. \A v, a : a \in InSet(v)' <=> a \in InSet(v) \/ (v = dst /\ a \in allocs)
  <2> SUFFICES ASSUME NEW v, NEW a
               PROVE  a \in InSet(v)' <=> a \in InSet(v) \/ (v = dst /\ a \in allocs)
    OBVIOUS
  <2>1. ASSUME a \in InSet(v)' PROVE a \in InSet(v) \/ (v = dst /\ a \in allocs)
    BY <1>1, <1>2, <1>3, <2>1
  <2>2. ASSUME a \in InSet(v) PROVE a \in InSet(v)'
    BY <1>1, <1>2, <1>3, <2>2
  <2>3. ASSUME v = dst, a \in allocs PROVE a \in InSet(v)'
    <3>1. <<dst, a>> \in inset' /\ <<dst, a>>[1] = dst /\ <<dst, a>>[2] = a
      BY <1>1, <2>3
    <3> QED
      BY <1>3, <2>3, <3>1
  <2> QED
    BY <2>1, <2>2, <2>3
<1> QED
  BY <1>4

LEMMA PropagateWorklist ==
  ASSUME TypeInv, WorklistIsDirty, NEW dst \in Vertex, NEW allocs, Propagate(dst, allocs)
  PROVE  WorklistIsDirty' /\ dirty' = dirty \cup {dst}
<1>1. dirty' = dirty \cup {dst} /\ worklist \in Seq(Vertex)
  BY DEF Propagate, TypeInv
<1>2. CASE dst \in dirty
  BY <1>2 DEF Propagate, WorklistIsDirty
<1>3. CASE dst \notin dirty
  <2>1. worklist' = Append(worklist, dst)
    BY <1>3 DEF Propagate
  <2>2. /\ Len(worklist') = Len(worklist) + 1 /\ Len(worklist) \in Nat
        /\ worklist'[Len(worklist) + 1] = dst
        /\ \A k \in 1 .. Len(worklist) : worklist'[k] = worklist[k]
    BY <1>1, <2>1
  <2>3. \A k \in 1 .. Len(worklist) : worklist[k] # dst
    BY <1>3 DEF WorklistIsDirty
  <2>4. dirty' = {worklist'[k] : k \in 1 .. Len(worklist')}
    <3>1. 1 .. Len(worklist') = (1 .. Len(worklist)) \cup {Len(worklist) + 1}
      BY <2>2
    <3> QED
      BY <1>1, <2>2, <3>1 DEF WorklistIsDirty
  <2>5. \A j, k \in 1 .. Len(worklist') : worklist'[j] = worklist'[k] => j = k
    BY <2>2, <2>3 DEF WorklistIsDirty
  <2> QED
    BY <1>1, <2>4, <2>5 DEF WorklistIsDirty
<1> QED
  BY <1>1, <1>2, <1>3

LEMMA PopWorklist ==
  ASSUME TypeInv, WorklistIsDirty, worklist # <<>>, worklist' = Tail(worklist),
         dirty' = dirty \ {Head(worklist)}
  PROVE  WorklistIsDirty'
<1>1. /\ worklist \in Seq(Vertex) /\ Len(worklist) \in Nat \ {0}
      /\ Head(worklist) = worklist[1]
      /\ Len(worklist') = Len(worklist) - 1
      /\ \A k \in 1 .. Len(worklist') : worklist'[k] = worklist[k + 1]
  BY DEF TypeInv
<1>2. \A k \in 2 .. Len(worklist) : worklist[k] = worklist'[k - 1] /\ worklist[k] # worklist[1]
  BY <1>1 DEF WorklistIsDirty
<1>3. dirty' = {worklist'[k] : k \in 1 .. Len(worklist')}
  <2>1. ASSUME NEW x \in dirty' PROVE x \in {worklist'[k] : k \in 1 .. Len(worklist')}
    <3>1. PICK k \in 1 .. Len(worklist) : x = worklist[k] /\ k # 1
      BY <1>1 DEF WorklistIsDirty
    <3>2. k - 1 \in 1 .. Len(worklist') /\ x = worklist'[k - 1]
      BY <1>1, <1>2, <3>1
    <3> QED
      BY <3>2
  <2>2. ASSUME NEW k \in 1 .. Len(worklist') PROVE worklist'[k] \in dirty'
    BY <1>1, <1>2 DEF WorklistIsDirty
  <2> QED
    BY <2>1, <2>2
<1>4. \A j, k \in 1 .. Len(worklist') : worklist'[j] = worklist'[k] => j = k
  BY <1>1 DEF WorklistIsDirty
<1> QED
  BY <1>3, <1>4 DEF WorklistIsDirty

LEMMA ListInvInit == Init => ListInv
  BY DEF Init, ListInv, WorklistIsDirty

(* The steps that queue dst, and leave the round as it is.                 *)
LEMMA ListInvPropagate ==
  ASSUME TypeInv, ListInv, NEW dst \in Vertex, NEW allocs, Propagate(dst, allocs),
         cur' = cur, pc' = pc
  PROVE  ListInv'
<1>1. WorklistIsDirty' /\ dirty' = dirty \cup {dst}
  BY PropagateWorklist DEF ListInv
<1>2. InRound' = InRound
  BY DEF InRound
<1>3. inset' = inset \cup {<<dst, a>> : a \in allocs}
  BY DEF Propagate
<1> QED
  BY <1>1, <1>2, <1>3 DEF ListInv

(* The steps that do not touch the worklist and the in-sets.               *)
LEMMA ListInvUnchanged ==
  ASSUME ListInv, UNCHANGED <<list, inset, cur>>,
         InRound => InRound',
         pc' \in {"deref", "invoke", "forward"} => cur # NoVertex
  PROVE  ListInv'
  BY DEF ListInv, WorklistIsDirty, list, InRound

LEMMA ListInvVisit == TypeInv /\ ListInv /\ Visit => ListInv'
<1> SUFFICES ASSUME TypeInv, ListInv, Visit PROVE ListInv'
  OBVIOUS
<1>1. CASE VisitAlloc
  <2>1. RegVertex(DefSite, Context) \in Vertex
    BY <1>1, VisitingInsn, RegVertexType DEF VisitAlloc, Registers
  <2>2. Propagate(RegVertex(DefSite, Context), PointsToSet(AllocVertex(Here)))
    BY <1>1 DEF VisitAlloc
  <2>3. cur' = cur /\ pc' = pc
    BY <1>1 DEF VisitAlloc, NextInsn, step
  <2> QED
    BY <2>1, <2>2, <2>3, ListInvPropagate
<1>2. CASE QueueDrained
  <2>1. UNCHANGED <<list, inset, cur>> /\ (InRound => InRound')
        /\ (pc' \in {"deref", "invoke", "forward"} => cur # NoVertex)
    BY <1>2 DEF QueueDrained, InRound, list, sets, step
  <2> QED
    BY <2>1, ListInvUnchanged
<1>3. ASSUME UNCHANGED <<list, inset, cur, pc>> PROVE ListInv'
  <2>1. InRound' = InRound
    BY <1>3 DEF InRound
  <2> QED
    BY <1>3, <2>1, ListInvUnchanged DEF ListInv
<1> QED
  BY <1>1, <1>2, <1>3
  DEF Visit, SkipVisited, BeginMethod, EndMethod, VisitAssign, VisitStore, VisitLoad,
      VisitStatic, VisitInvoke, VisitOther, NextInsn, step, sets, list

LEMMA ListInvUpdate == TypeInv /\ ListInv /\ Update => ListInv'
<1> SUFFICES ASSUME TypeInv, ListInv, Update PROVE ListInv'
  OBVIOUS
<1>1. CASE PopUnchanged
  <2>1. WorklistIsDirty'
    BY <1>1, PopWorklist DEF PopUnchanged, ListInv
  <2>2. ~InRound /\ pc' = "pop"
    BY <1>1 DEF PopUnchanged, InRound
  <2>3. \A p \in inset' : p[1] \in dirty'
    BY <1>1, <2>2 DEF PopUnchanged, WithInSet, ListInv
  <2> QED
    BY <2>1, <2>2, <2>3 DEF ListInv
<1>2. CASE Pop
  <2>1. WorklistIsDirty'
    BY <1>2, PopWorklist DEF Pop, ListInv
  <2>2. ~InRound /\ pc' = "deref" /\ InRound'
    BY <1>2 DEF Pop, InRound
  <2>3. cur' = Head(worklist) /\ cur' # NoVertex
    BY <1>2, Popping, VertexAssumption DEF Pop
  <2>4. \A p \in inset' : p[1] \in dirty' \/ p[1] = cur'
    BY <1>2, <2>2, <2>3 DEF Pop, WithInSet, ListInv
  <2> QED
    BY <2>1, <2>2, <2>3, <2>4 DEF ListInv
<1>3. CASE AddDerefEdge
  <2>1. PICK e \in todo : Propagate(e[2], PointsToSet(e[1]))
    BY <1>3 DEF AddDerefEdge
  <2>2. e[2] \in Vertex /\ cur' = cur /\ pc' = pc
    BY <1>3 DEF TypeInv, AddDerefEdge
  <2> QED
    BY <2>1, <2>2, ListInvPropagate
<1>4. CASE CollectCalls
  BY <1>4, ListInvUnchanged DEF CollectCalls, InRound, ListInv, sets
<1>5. CASE ProcessCall
  BY <1>5, ListInvUnchanged DEF ProcessCall, InRound, ListInv, sets
<1>6. CASE CallsDone
  BY <1>6, ListInvUnchanged DEF CallsDone, InRound, ListInv, sets
<1>7. CASE Forward
  <2>1. PICK e \in todo : Propagate(e[2], InSet(cur))
    BY <1>7 DEF Forward
  <2>2. e[2] \in Vertex /\ cur' = cur /\ pc' = pc
    BY <1>7 DEF TypeInv, Forward
  <2> QED
    BY <2>1, <2>2, ListInvPropagate
<1>8. CASE ClearInSet
  <2>1. \A p \in inset' : p[1] \in dirty'
    BY <1>8 DEF ClearInSet, WithInSet, ListInv, list
  <2>2. WorklistIsDirty' /\ pc' = "pop"
    BY <1>8 DEF ClearInSet, ListInv, list, WorklistIsDirty
  <2> QED
    BY <2>1, <2>2 DEF ListInv
<1>9. CASE UpdateCcg
  BY <1>9, ListInvUnchanged DEF UpdateCcg, InRound, ListInv, sets, step
<1> QED
  BY <1>1, <1>2, <1>3, <1>4, <1>5, <1>6, <1>7, <1>8, <1>9 DEF Update

LEMMA ListInvNext == TypeInv /\ ListInv /\ [Next]_vars => ListInv'
<1> SUFFICES ASSUME TypeInv, ListInv, [Next]_vars PROVE ListInv'
  OBVIOUS
<1>1. CASE UNCHANGED vars
  BY <1>1 DEF ListInv, WorklistIsDirty, InRound, vars, sets, list, step
<1> QED
  BY <1>1, ListInvVisit, ListInvUpdate DEF Next

(* The dirty flags are the worklist, without repetition: propagate and the *)
(* pop of update agree on when a vertex is queued.                         *)
THEOREM WorklistSound == Spec => []WorklistIsDirty
<1>1. Spec => [](TypeInv /\ ListInv)
  BY TypeInvInit, ListInvInit, TypeInvNext, ListInvNext, PTL DEF Spec
<1>2. ListInv => WorklistIsDirty
  BY DEF ListInv
<1> QED
  BY <1>1, <1>2, PTL

(* No element is left in the in-set of a vertex that is not queued and not *)
(* being processed, so update cannot end with elements unlooked at.        *)
THEOREM NothingStranded == Spec => []NoStrandedElement
<1>1. Spec => [](TypeInv /\ ListInv)
  BY TypeInvInit, ListInvInit, TypeInvNext, ListInvNext, PTL DEF Spec
<1>2. ListInv => NoStrandedElement
  BY DEF ListInv, NoStrandedElement
<1> QED
  BY <1>1, <1>2, PTL

-----------------------------------------------------------------------------
(* The class-hierarchy mode: what the analysis ends with is a solution.    *)

LEMMA WithInSetEffect ==
  ASSUME NEW v, NEW allocs, inset' = WithInSet(v, allocs)
  PROVE  /\ InSet(v)' = allocs
         /\ \A u : u # v => InSet(u)' = InSet(u)
<1>1. inset' = {p \in inset : p[1] # v} \cup {<<v, a>> : a \in allocs}
  BY DEF WithInSet
<1>2. \A u, a : a \in InSet(u) <=> \E p \in inset : p[1] = u /\ p[2] = a
  BY DEF InSet
<1>3. \A u, a : a \in InSet(u)' <=> \E p \in inset' : p[1] = u /\ p[2] = a
  BY DEF InSet
<1>4. \A a \in allocs : <<v, a>> \in inset'
  BY <1>1
<1>5. ASSUME NEW a \in allocs PROVE a \in InSet(v)'
  <2>1. <<v, a>> \in inset' /\ <<v, a>>[1] = v /\ <<v, a>>[2] = a
    BY <1>4
  <2> QED
    BY <1>3, <2>1
<1>6. ASSUME NEW a \in InSet(v)' PROVE a \in allocs
  BY <1>1, <1>3
<1>7. ASSUME NEW u, u # v, NEW a PROVE a \in InSet(u)' <=> a \in InSet(u)
  BY <1>1, <1>2, <1>3, <1>7
<1> QED
  BY <1>5, <1>6, <1>7

LEMMA PointsToSetEffect ==
  ASSUME NEW v, NEW allocs, pts' = pts \cup {<<v, a>> : a \in allocs}
  PROVE  /\ \A u : PointsToSet(u) \subseteq PointsToSet(u)'
         /\ \A u : u # v => PointsToSet(u)' = PointsToSet(u)
         /\ PointsToSet(v)' = PointsToSet(v) \cup allocs
<1> DEFINE own(u) == IF u.kind = "alloc" THEN {u} ELSE {}
<1>1. \A u, a : a \in PointsToSet(u) <=> (\E p \in pts : p[1] = u /\ p[2] = a) \/ a \in own(u)
  BY DEF PointsToSet
<1>2. \A u, a : a \in PointsToSet(u)' <=> (\E p \in pts' : p[1] = u /\ p[2] = a) \/ a \in own(u)
  BY DEF PointsToSet
<1> HIDE DEF own
<1>3. \A a : a \in allocs => <<v, a>> \in pts' /\ <<v, a>>[1] = v /\ <<v, a>>[2] = a
  OBVIOUS
<1>4. \A u, a : a \in PointsToSet(u) => a \in PointsToSet(u)'
  BY <1>1, <1>2
<1>5. \A a \in allocs : a \in PointsToSet(v)'
  BY <1>2, <1>3
<1>6. ASSUME NEW u, NEW a \in PointsToSet(u)'
      PROVE  a \in PointsToSet(u) \/ (u = v /\ a \in allocs)
  BY <1>1, <1>2
<1> QED
  BY <1>4, <1>5, <1>6

LEMMA PointsToSetSame ==
  ASSUME pts' = pts
  PROVE  \A v : PointsToSet(v)' = PointsToSet(v)
  BY DEF PointsToSet

LEMMA InSetSame ==
  ASSUME inset' = inset
  PROVE  \A v : InSet(v)' = InSet(v)
  BY DEF InSet

LEMMA NothingYet ==
  ASSUME pts = {}, NEW v, v.kind # "alloc"
  PROVE  PointsToSet(v) = {}
  BY DEF PointsToSet

LEMMA SolverInvInit == ASSUME OnTheFly = FALSE, Init PROVE SolverInv
  BY DEF Init, SolverInv, PhaseInv, ShapeInv, RoundInv, InRound, FlowInv, HeapInv

LEMMA PhaseInvNext ==
  ASSUME OnTheFly = FALSE, PhaseInv, [Next]_vars
  PROVE  PhaseInv'
<1>1. CASE Visit
  BY <1>1 DEF PhaseInv, Visit, SkipVisited, BeginMethod, EndMethod, VisitAlloc, VisitAssign,
     VisitStore, VisitLoad, VisitStatic, VisitInvoke, VisitOther, QueueDrained, NextInsn, At,
     step, sets
<1>2. CASE Update
  BY <1>2 DEF PhaseInv, Update, PopUnchanged, Pop, AddDerefEdge, CollectCalls, ProcessCall,
     CallsDone, Forward, ClearInSet, UpdateCcg, step
<1>3. CASE UNCHANGED vars
  BY <1>3 DEF PhaseInv, vars, step, sets
<1> QED
  BY <1>1, <1>2, <1>3 DEF Next

(* Edges that may be added without breaking ShapeInv.                      *)
Plain(e) == /\ "reg_dot_field" \notin {e.src.kind, e.dst.kind}
            /\ "alloc_dot_field" \in {e.src.kind, e.dst.kind} => e.kind = "assign"

LEMMA ShapeInvPlain ==
  ASSUME ShapeInv, deref' = deref, \A e \in edges' \ edges : Plain(e)
  PROVE  ShapeInv'
  BY DEF ShapeInv, Plain

LEMMA RegisterEdgePlain ==
  ASSUME NEW u, NEW v, NEW k, u.kind \in {"reg", "alloc", "static_field"},
         v.kind \in {"reg", "static_field"}
  PROVE  Plain(Edge(u, v, k))
  BY DEF Plain, Edge

LEMMA RegKind == \A s, c : RegVertex(s, c).kind = "reg"
  BY DEF RegVertex

LEMMA RegsKind == \A operand, at, c : \A r \in Regs(operand, at, c) : r.kind = "reg"
  BY DEF Regs, RegVertex

LEMMA InvokeEdgesPlain ==
  ASSUME NEW c, NEW at, NEW m
  PROVE  \A e \in InvokeEdges(c, at, m) : Plain(e) /\ e.src.kind = "reg" /\ e.kind = "assign"
<1>1. ASSUME NEW e \in ArgumentEdges(c, at, m)
      PROVE  \E u, v : e = Edge(u, v, "assign") /\ u.kind = "reg" /\ v.kind = "reg"
  <2>1. PICK k \in 1 .. Len(Params[m]) :
          e \in {Edge(r, RegVertex(<<m, 0, Offset(m, k)>>, at), "assign") :
                   r \in Regs(Argument(InsnAt(at), m, k), at, c)}
    BY DEF ArgumentEdges
  <2>2. PICK r \in Regs(Argument(InsnAt(at), m, k), at, c) :
          e = Edge(r, RegVertex(<<m, 0, Offset(m, k)>>, at), "assign")
    BY <2>1
  <2> QED
    BY <2>2, RegKind, RegsKind
<1>2. ASSUME NEW e \in ResultEdges(c, at, m)
      PROVE  \E u, v : e = Edge(u, v, "assign") /\ u.kind = "reg" /\ v.kind = "reg"
  BY RegKind DEF ResultEdges
<1>3. \A u, v : u.kind = "reg" /\ v.kind = "reg" =>
        /\ Plain(Edge(u, v, "assign"))
        /\ Edge(u, v, "assign").src.kind = "reg" /\ Edge(u, v, "assign").kind = "assign"
  BY RegisterEdgePlain DEF Edge
<1> QED
  BY <1>1, <1>2, <1>3 DEF InvokeEdges

LEMMA ShapeInvVisit ==
  ASSUME TypeInv, ShapeInv, Visit
  PROVE  ShapeInv'
<1>1. CASE VisitAlloc
  <2>1. Plain(Edge(AllocVertex(Here), RegVertex(DefSite, Context), "alloc"))
    BY RegisterEdgePlain, RegKind DEF AllocVertex
  <2> QED
    <3>1. deref' = deref /\ \A e \in edges' \ edges : Plain(e)
      BY <1>1, <2>1 DEF VisitAlloc
    <3> QED
      BY <3>1, ShapeInvPlain
<1>2. CASE VisitAssign
  <2> DEFINE dst == RegVertex(IF Insn.op = "return_object" THEN ExitSite(Current)
                                                           ELSE DefSite, Context)
  <2>1. \A r \in Regs(Insn.src, Here, Context) : Plain(Edge(r, dst, "assign"))
    BY RegisterEdgePlain, RegKind, RegsKind
  <2> QED
    <3>1. deref' = deref /\ \A e \in edges' \ edges : Plain(e)
      BY <1>2, <2>1 DEF VisitAssign
    <3> QED
      BY <3>1, ShapeInvPlain
<1>3. CASE VisitStore
  <2> DEFINE objs == {s \in Incoming(Insn.obj, Here) : Regs(Insn.src, Here, Context) # {}}
             FieldOf(s) == RegFieldVertex(s, Insn.field, Context)
  <2>1. edges' = edges \cup UNION {{Edge(r, FieldOf(s), "store") :
                                     r \in Regs(Insn.src, Here, Context)} : s \in objs}
    BY <1>3 DEF VisitStore
  <2>2. ASSUME NEW e \in edges' \ edges
        PROVE  e.src.kind = "reg" /\ e.dst.kind = "reg_dot_field" /\ e.kind = "store"
    <3>1. PICK s \in objs, r \in Regs(Insn.src, Here, Context) : e = Edge(r, FieldOf(s), "store")
      BY <2>1
    <3> QED
      BY <3>1, RegsKind DEF Edge, RegFieldVertex
  <2>3. deref' = deref \cup {<<RegVertex(s, Context), FieldOf(s)>> : s \in objs}
    BY <1>3 DEF VisitStore
  <2>4. \A d \in deref' \ deref : d[1].kind = "reg" /\ d[1] = RegVertex(d[2].hdl, d[2].context)
    BY <2>3, RegKind DEF RegFieldVertex
  <2> QED
    BY <2>2, <2>4 DEF ShapeInv
<1>4. CASE VisitLoad
  <2> DEFINE objs == Incoming(Insn.obj, Here)
             FieldOf(s) == RegFieldVertex(s, Insn.field, Context)
  <2>1. edges' = edges \cup {Edge(FieldOf(s), RegVertex(DefSite, Context), "load") : s \in objs}
    BY <1>4 DEF VisitLoad
  <2>2. ASSUME NEW e \in edges' \ edges
        PROVE  /\ e.src.kind = "reg_dot_field" /\ e.dst.kind = "reg" /\ e.kind = "load"
               /\ e.dst # RegVertex(e.src.hdl, e.src.context)
    <3>1. PICK s \in objs : e = Edge(FieldOf(s), RegVertex(DefSite, Context), "load")
      BY <2>1
    <3>2. s # DefSite
      BY DEF Incoming, Here, DefSite
    <3> QED
      BY <3>1, <3>2 DEF Edge, RegFieldVertex, RegVertex
  <2>3. deref' = deref \cup {<<RegVertex(s, Context), FieldOf(s)>> : s \in objs}
    BY <1>4 DEF VisitLoad
  <2>4. \A d \in deref' \ deref : d[1].kind = "reg" /\ d[1] = RegVertex(d[2].hdl, d[2].context)
    BY <2>3, RegKind DEF RegFieldVertex
  <2> QED
    BY <2>2, <2>4 DEF ShapeInv
<1>5. CASE VisitStatic
  <2>1. \A r \in Regs(Insn.src, Here, Context) :
          Plain(Edge(r, StaticVertex(Insn.field), "sstore"))
    BY RegisterEdgePlain, RegsKind DEF StaticVertex
  <2>2. Plain(Edge(StaticVertex(Insn.field), RegVertex(DefSite, Context), "sload"))
    BY RegisterEdgePlain, RegKind DEF StaticVertex
  <2>3. \A e \in edges' \ edges : Plain(e)
    BY <1>5, <2>1, <2>2 DEF VisitStatic
  <2>4. deref' = deref
    BY <1>5 DEF VisitStatic
  <2> QED
    BY <2>3, <2>4, ShapeInvPlain
<1>6. CASE VisitInvoke
  <2> DEFINE targets == IF OnTheFly /\ Insn.kind = "virtual" THEN <<>> ELSE Overrides[Insn.callee]
             new == UNION {InvokeEdges(Context, Here, targets[k]) : k \in 1 .. Len(targets)}
  <2>1. edges' = edges \cup new /\ deref' = deref
    BY <1>6 DEF VisitInvoke
  <2>2. \A e \in new : Plain(e)
    BY InvokeEdgesPlain
  <2> HIDE DEF new
  <2> QED
    BY <2>1, <2>2, ShapeInvPlain
<1>7. ASSUME UNCHANGED <<edges, deref>> PROVE ShapeInv'
  BY <1>7 DEF ShapeInv
<1> QED
  BY <1>1, <1>2, <1>3, <1>4, <1>5, <1>6, <1>7
  DEF Visit, SkipVisited, BeginMethod, EndMethod, VisitOther, QueueDrained, graph

(* What update_dereferencer connects: a register that is stored with the   *)
(* field of an object, and that with a register that is loaded.            *)
LEMMA DerefEdgesShape ==
  ASSUME TypeInv, ShapeInv, NEW v, NEW allocs, NEW e \in DerefEdges(v, allocs)
  PROVE  /\ e[2] # v
         /\ "reg_dot_field" \notin {e[1].kind, e[2].kind}
         /\ "alloc_dot_field" \in {e[1].kind, e[2].kind}
         /\ "alloc" \notin {e[1].kind, e[2].kind}
<1>1. PICK d \in {p[2] : p \in {q \in deref : q[1] = v}}, a \in allocs :
        LET af == AllocFieldVertex(a.hdl, d.field)
        IN  \/ \E u \in Preds(edges, d) : e = <<u, af>>
            \/ \E w \in Succs(edges, d) : e = <<af, w>>
  BY DEF DerefEdges
<1> DEFINE af == AllocFieldVertex(a.hdl, d.field)
<1>2. /\ d.kind = "reg_dot_field" /\ v = RegVertex(d.hdl, d.context) /\ v.kind = "reg"
      /\ af.kind = "alloc_dot_field"
  BY DEF TypeInv, ShapeInv, AllocFieldVertex
<1>3. CASE \E u \in Preds(edges, d) : e = <<u, af>>
  <2>1. PICK u \in Preds(edges, d) : e = <<u, af>>
    BY <1>3
  <2>2. u.kind = "reg"
    BY <1>2 DEF Preds, ShapeInv
  <2> HIDE DEF af
  <2> QED
    BY <1>2, <2>1, <2>2
<1>4. CASE \E w \in Succs(edges, d) : e = <<af, w>>
  <2>1. PICK w \in Succs(edges, d) : e = <<af, w>>
    BY <1>4
  <2>2. w.kind = "reg" /\ w # v
    BY <1>2 DEF Succs, ShapeInv
  <2> HIDE DEF af
  <2> QED
    BY <1>2, <2>1, <2>2
<1> QED
  BY <1>1, <1>3, <1>4

LEMMA ShapeInvUpdate ==
  ASSUME OnTheFly = FALSE, TypeInv, ShapeInv, PhaseInv, RoundInv, Update
  PROVE  ShapeInv'
<1>1. CASE AddDerefEdge
  <2>1. PICK e \in todo : edges' = edges \cup {Edge(e[1], e[2], "assign")}
    BY <1>1 DEF AddDerefEdge
  <2>2. Plain(Edge(e[1], e[2], "assign"))
    BY <1>1 DEF AddDerefEdge, RoundInv, Plain, Edge
  <2>3. deref' = deref /\ \A x \in edges' \ edges : Plain(x)
    BY <1>1, <2>1, <2>2 DEF AddDerefEdge
  <2> QED
    BY <2>3, ShapeInvPlain
<1>2. ~ProcessCall
  BY DEF PhaseInv, ProcessCall
<1>3. ASSUME UNCHANGED <<edges, deref>> PROVE ShapeInv'
  BY <1>3 DEF ShapeInv
<1> QED
  BY <1>1, <1>2, <1>3
  DEF Update, PopUnchanged, Pop, CollectCalls, CallsDone, Forward, ClearInSet, UpdateCcg, graph

LEMMA ShapeInvNext ==
  ASSUME OnTheFly = FALSE, TypeInv, ShapeInv, PhaseInv, RoundInv, [Next]_vars
  PROVE  ShapeInv'
<1>1. CASE UNCHANGED vars
  BY <1>1 DEF ShapeInv, vars, graph
<1> QED
  BY <1>1, ShapeInvVisit, ShapeInvUpdate DEF Next

(* RoundInv outside a round says nothing.                                  *)
LEMMA RoundInvIdle ==
  ASSUME pc' \notin {"deref", "forward"}, ~InRound'
  PROVE  RoundInv'
  BY DEF RoundInv

LEMMA RoundInvKept ==
  ASSUME prog' = prog, pts' = pts, cur' = cur, InRound,
         \A a \in InSet(cur) : a \in PointsToSet(cur) \/ ~Passes(cur, a),
         InSet(cur)' = InSet(cur)
  PROVE  \A a \in InSet(cur)' : a \in PointsToSet(cur)' \/ ~Passes(cur, a)'
<1>1. PointsToSet(cur)' = PointsToSet(cur)
  BY DEF PointsToSet
<1>2. \A a : Passes(cur, a)' = Passes(cur, a)
  BY DEF Passes, TypeOf, InsnAt
<1> QED
  BY <1>1, <1>2

LEMMA RoundInvNext ==
  ASSUME OnTheFly = FALSE, TypeInv, ListInv, PhaseInv, ShapeInv, RoundInv, [Next]_vars
  PROVE  RoundInv'
<1>1. CASE Visit
  <2>1. pc = "visit" /\ cur = NoVertex /\ cur' = cur /\ pc' \in {"visit", "pop"}
    BY <1>1 DEF PhaseInv, Visit, SkipVisited, BeginMethod, EndMethod, VisitAlloc, VisitAssign,
       VisitStore, VisitLoad, VisitStatic, VisitInvoke, VisitOther, QueueDrained, NextInsn, At,
       step
  <2> QED
    BY <2>1, RoundInvIdle DEF InRound
<1>2. CASE PopUnchanged \/ UpdateCcg \/ ClearInSet
  <2>1. pc' \in {"pop", "done"}
    BY <1>2 DEF PopUnchanged, UpdateCcg, ClearInSet
  <2> QED
    BY <2>1, RoundInvIdle DEF InRound
<1>3. CASE Pop
  <2> DEFINE v == Head(worklist)
             new == Filtered(v)
  <2>1. /\ cur' = v /\ inset' = WithInSet(v, new) /\ pts' = pts \cup {<<v, a>> : a \in new}
        /\ todo' \subseteq DerefEdges(v, new) /\ pc' = "deref"
    BY <1>3 DEF Pop
  <2>2. new \in SUBSET Objects
    BY FilteredType
  <2>3. \A e \in todo' : e[2] # v /\ "reg_dot_field" \notin {e[1].kind, e[2].kind}
    BY <2>1, DerefEdgesShape
  <2> HIDE DEF new
  <2>4. \A u : u = v => InSet(u)' = new /\ new \subseteq PointsToSet(u)'
    BY <2>1, WithInSetEffect, PointsToSetEffect
  <2>5. InSet(cur)' \subseteq PointsToSet(cur)'
    BY <2>1, <2>4 DEF InSet, PointsToSet
  <2> QED
    BY <2>1, <2>3, <2>5 DEF RoundInv
<1>4. CASE AddDerefEdge
  <2>1. PICK e \in todo : Propagate(e[2], PointsToSet(e[1])) /\ todo' = todo \ {e}
    BY <1>4 DEF AddDerefEdge
  <2>2. pc = "deref" /\ pc' = pc /\ cur' = cur /\ pts' = pts /\ prog' = prog /\ InRound
    BY <1>4 DEF AddDerefEdge, InRound
  <2>3. e[2] # cur
    BY <2>2 DEF RoundInv
  <2>4. \A u : u = cur => InSet(u)' = InSet(u)
    BY <2>1, <2>3, PropagateInSet
  <2>5. InSet(cur)' = InSet(cur)
    BY <2>2, <2>4 DEF InSet
  <2>6. \A a \in InSet(cur)' : a \in PointsToSet(cur)' \/ ~Passes(cur, a)'
    BY <2>2, <2>5, RoundInvKept DEF RoundInv
  <2> QED
    BY <2>1, <2>2, <2>6 DEF RoundInv
<1>5. CASE CollectCalls \/ CallsDone \/ UNCHANGED vars
  <2>1. /\ pts' = pts /\ inset' = inset /\ cur' = cur /\ prog' = prog
        /\ InRound' = InRound
        /\ pc' = "deref" => pc = "deref" /\ todo' = todo
        /\ pc' = "forward" => \A e \in todo' : e[1] = cur \/ (pc = "forward" /\ todo' = todo)
    BY <1>5 DEF CollectCalls, CallsDone, sets, vars, step, InRound
  <2>2. InSet(cur)' = InSet(cur)
    BY <2>1 DEF InSet
  <2>3. InRound => \A a \in InSet(cur)' : a \in PointsToSet(cur)' \/ ~Passes(cur, a)'
    BY <2>1, <2>2, RoundInvKept DEF RoundInv
  <2> QED
    BY <2>1, <2>3 DEF RoundInv
<1>6. CASE Forward
  <2>1. PICK e \in todo : Propagate(e[2], InSet(cur)) /\ todo' = todo \ {e}
    BY <1>6 DEF Forward
  <2>2. pc = "forward" /\ pc' = pc /\ cur' = cur /\ pts' = pts /\ prog' = prog /\ InRound
    BY <1>6 DEF Forward, InRound
  <2>3. \A u : u = cur => InSet(u)' = InSet(u)
    BY <2>1, PropagateInSet
  <2>4. InSet(cur)' = InSet(cur)
    BY <2>2, <2>3 DEF InSet
  <2>5. \A a \in InSet(cur)' : a \in PointsToSet(cur)' \/ ~Passes(cur, a)'
    BY <2>2, <2>4, RoundInvKept DEF RoundInv
  <2> QED
    BY <2>1, <2>2, <2>5 DEF RoundInv
<1>7. ~ProcessCall
  BY DEF PhaseInv, ProcessCall
<1> QED
  BY <1>1, <1>2, <1>3, <1>4, <1>5, <1>6, <1>7 DEF Next, Update

(* Only an allocation adds an edge that has something to carry.            *)
LEMMA VisitEdges ==
  ASSUME Visit, ~VisitAlloc
  PROVE  /\ \A e \in edges' \ edges : e.src.kind # "alloc"
         /\ inset' = inset
<1>1. CASE VisitAssign
  <2>1. \A v : \A r \in Regs(Insn.src, Here, Context) : Edge(r, v, "assign").src.kind # "alloc"
    BY RegsKind DEF Edge
  <2> QED
    BY <1>1, <2>1 DEF VisitAssign
<1>2. CASE VisitStore
  <2> DEFINE objs == {s \in Incoming(Insn.obj, Here) : Regs(Insn.src, Here, Context) # {}}
             FieldOf(s) == RegFieldVertex(s, Insn.field, Context)
  <2>1. edges' = edges \cup UNION {{Edge(r, FieldOf(s), "store") :
                                     r \in Regs(Insn.src, Here, Context)} : s \in objs}
    BY <1>2 DEF VisitStore
  <2>2. ASSUME NEW e \in edges' \ edges PROVE e.src.kind # "alloc"
    <3>1. PICK s \in objs, r \in Regs(Insn.src, Here, Context) : e = Edge(r, FieldOf(s), "store")
      BY <2>1
    <3> QED
      BY <3>1, RegsKind DEF Edge
  <2> QED
    BY <1>2, <2>2 DEF VisitStore
<1>3. CASE VisitLoad
  <2>1. \A s, f, c, v : Edge(RegFieldVertex(s, f, c), v, "load").src.kind # "alloc"
    BY DEF Edge, RegFieldVertex
  <2> QED
    BY <1>3, <2>1 DEF VisitLoad
<1>4. CASE VisitStatic
  <2>1. \A v : \A r \in Regs(Insn.src, Here, Context) : Edge(r, v, "sstore").src.kind # "alloc"
    BY RegsKind DEF Edge
  <2>2. \A f, v : Edge(StaticVertex(f), v, "sload").src.kind # "alloc"
    BY DEF Edge, StaticVertex
  <2> QED
    BY <1>4, <2>1, <2>2 DEF VisitStatic
<1>5. CASE VisitInvoke
  <2> DEFINE targets == IF OnTheFly /\ Insn.kind = "virtual" THEN <<>> ELSE Overrides[Insn.callee]
             new == UNION {InvokeEdges(Context, Here, targets[k]) : k \in 1 .. Len(targets)}
  <2>1. edges' = edges \cup new /\ inset' = inset
    BY <1>5 DEF VisitInvoke
  <2>2. \A e \in new : e.src.kind # "alloc"
    BY InvokeEdgesPlain
  <2> HIDE DEF new
  <2> QED
    BY <2>1, <2>2
<1>6. CASE SkipVisited \/ BeginMethod \/ EndMethod \/ VisitOther \/ QueueDrained
  BY <1>6 DEF SkipVisited, BeginMethod, EndMethod, VisitOther, QueueDrained, graph, sets
<1> QED
  BY <1>1, <1>2, <1>3, <1>4, <1>5, <1>6 DEF Visit

(* What every step of the visit leaves alone.                              *)
LEMMA VisitKeeps ==
  ASSUME PhaseInv, Visit
  PROVE  /\ pc = "visit" /\ pts = {} /\ pts' = {} /\ prog' = prog
         /\ pc' \notin {"deref", "invoke", "forward"}
         /\ edges \subseteq edges'
  BY DEF PhaseInv, Visit, SkipVisited, BeginMethod, EndMethod, VisitAlloc, VisitAssign,
     VisitStore, VisitLoad, VisitStatic, VisitInvoke, VisitOther, QueueDrained, NextInsn, At,
     step, sets, graph

LEMMA FlowInvVisit ==
  ASSUME PhaseInv, FlowInv, Visit
  PROVE  FlowInv'
<1>1. /\ pc = "visit" /\ pts = {} /\ pts' = pts /\ prog' = prog
      /\ pc' \notin {"deref", "invoke", "forward"}
  BY VisitKeeps
<1>2. \A v : PointsToSet(v)' = PointsToSet(v)
  BY <1>1, PointsToSetSame
<1>3. \A v, a : Passes(v, a)' = Passes(v, a)
  BY <1>1, ProgramConstant
<1>4. \A v : InSet(v) \subseteq InSet(v)'
  <2>1. CASE VisitAlloc
    BY <2>1, PropagateInSet DEF VisitAlloc
  <2>2. CASE ~VisitAlloc
    BY <2>2, VisitEdges, InSetSame
  <2> QED
    BY <2>1, <2>2
<1>5. \A e, a : ~Waiting(e, a)
  BY <1>1 DEF Waiting
<1>6. ASSUME NEW e \in edges', IsFlow(e), NEW a \in PointsToSet(e.src), Passes(e.dst, a)
      PROVE  a \in PointsToSet(e.dst) \/ a \in InSet(e.dst)'
  <2>1. CASE e \in edges
    BY <1>4, <1>5, <1>6, <2>1 DEF FlowInv
  <2>2. CASE e \notin edges
    <3>1. e.src.kind = "alloc"
      BY <1>1, <1>6, NothingYet
    <3>2. VisitAlloc
      BY <2>2, <3>1, VisitEdges
    <3>3. PICK src, dst : edges' = edges \cup {Edge(src, dst, "alloc")} /\
                          Propagate(dst, PointsToSet(src))
      BY <3>2 DEF VisitAlloc
    <3>4. e.src = src /\ e.dst = dst
      BY <2>2, <3>3 DEF Edge
    <3> QED
      BY <1>6, <3>3, <3>4, PropagateInSet
  <2> QED
    BY <2>1, <2>2
<1> QED
  BY <1>2, <1>3, <1>6 DEF FlowInv

(* The new elements of cur wait for the round to forward them.             *)
LEMMA FlowInvPop ==
  ASSUME FlowInv, Pop
  PROVE  FlowInv'
<1>1. PICK v, new :
        /\ new = Filtered(v) /\ cur' = v
        /\ inset' = WithInSet(v, new) /\ pts' = pts \cup {<<v, a>> : a \in new}
        /\ pc = "pop" /\ pc' = "deref" /\ edges' = edges /\ prog' = prog
  BY DEF Pop, graph
<1>2. \A a \in InSet(v) : a \in new \/ a \in PointsToSet(v) \/ ~Passes(v, a)
  BY <1>1 DEF Filtered
<1>3. /\ \A u : PointsToSet(u) \subseteq PointsToSet(u)'
      /\ \A u : u # v => PointsToSet(u)' = PointsToSet(u)
      /\ PointsToSet(v)' = PointsToSet(v) \cup new
  BY <1>1, PointsToSetEffect
<1>4. InSet(v)' = new /\ \A u : u # v => InSet(u)' = InSet(u)
  BY <1>1, WithInSetEffect
<1>5. \A u, a : Passes(u, a)' = Passes(u, a)
  BY <1>1, ProgramConstant
<1>6. \A e, a : ~Waiting(e, a)
  BY <1>1 DEF Waiting
<1>7. ASSUME NEW e \in edges, IsFlow(e), NEW a, a \in PointsToSet(e.src)', Passes(e.dst, a)
      PROVE  a \in PointsToSet(e.dst)' \/ a \in InSet(e.dst)' \/ Waiting(e, a)'
  <2>1. CASE a \in PointsToSet(e.src)
    <3>1. a \in PointsToSet(e.dst) \/ a \in InSet(e.dst)
      BY <1>6, <1>7, <2>1 DEF FlowInv
    <3> QED
      BY <1>2, <1>3, <1>4, <1>7, <3>1
  <2>2. CASE a \notin PointsToSet(e.src)
    <3>1. e.src = v /\ a \in new
      BY <1>3, <1>7, <2>2
    <3>2. InSet(cur)' = InSet(v)'
      BY <1>1 DEF InSet
    <3> QED
      BY <1>1, <1>4, <3>1, <3>2 DEF Waiting
  <2> QED
    BY <2>1, <2>2
<1> QED
  BY <1>1, <1>5, <1>7 DEF FlowInv

(* What leaves an in-set is in the points-to set or has the wrong type.    *)
LEMMA FlowInvEmptied ==
  ASSUME FlowInv, prog' = prog, pts' = pts, edges' = edges, NEW v, inset' = WithInSet(v, {}),
         \A a \in InSet(v) : a \in PointsToSet(v) \/ ~Passes(v, a),
         \A a : \A e \in edges : IsFlow(e) => ~Waiting(e, a)
  PROVE  FlowInv'
<1>1. \A u : PointsToSet(u)' = PointsToSet(u)
  BY PointsToSetSame
<1>2. \A u, a : Passes(u, a)' = Passes(u, a)
  BY ProgramConstant
<1>3. \A u : u # v => InSet(u)' = InSet(u)
  BY WithInSetEffect
<1>4. ASSUME NEW e \in edges, IsFlow(e), NEW a \in PointsToSet(e.src), Passes(e.dst, a)
      PROVE  a \in PointsToSet(e.dst) \/ a \in InSet(e.dst)'
  <2>1. a \in PointsToSet(e.dst) \/ a \in InSet(e.dst)
    BY <1>4 DEF FlowInv
  <2> QED
    BY <1>3, <1>4, <2>1
<1> QED
  BY <1>1, <1>2, <1>4 DEF FlowInv

(* Steps that only add elements to in-sets.                                *)
LEMMA FlowInvGrow ==
  ASSUME FlowInv, prog' = prog, pts' = pts, edges \subseteq edges',
         \A v : InSet(v) \subseteq InSet(v)',
         \A a : \A e \in edges : IsFlow(e) /\ Waiting(e, a) => a \in InSet(e.dst)' \/ Waiting(e, a)',
         \A e \in edges' \ edges : PointsToSet(e.src) \subseteq InSet(e.dst)'
  PROVE  FlowInv'
<1>1. \A u : PointsToSet(u)' = PointsToSet(u)
  BY PointsToSetSame
<1>2. \A u, a : Passes(u, a)' = Passes(u, a)
  BY ProgramConstant
<1>3. ASSUME NEW e \in edges', IsFlow(e), NEW a \in PointsToSet(e.src), Passes(e.dst, a)
      PROVE  a \in PointsToSet(e.dst) \/ a \in InSet(e.dst)' \/ Waiting(e, a)'
  BY <1>3 DEF FlowInv
<1> QED
  BY <1>1, <1>2, <1>3 DEF FlowInv

LEMMA FlowInvUpdate ==
  ASSUME OnTheFly = FALSE, PhaseInv, RoundInv, FlowInv, Update
  PROVE  FlowInv'
<1>1. CASE Pop
  BY <1>1, FlowInvPop
<1>2. CASE PopUnchanged
  <2>1. PICK v : inset' = WithInSet(v, {}) /\ Filtered(v) = {}
    BY <1>2 DEF PopUnchanged
  <2>2. \A a \in InSet(v) : a \in PointsToSet(v) \/ ~Passes(v, a)
    BY <2>1 DEF Filtered
  <2>3. \A e, a : ~Waiting(e, a)
    BY <1>2 DEF PopUnchanged, Waiting
  <2>4. prog' = prog /\ pts' = pts /\ edges' = edges
    BY <1>2 DEF PopUnchanged, graph
  <2> QED
    BY <2>1, <2>2, <2>3, <2>4, FlowInvEmptied
<1>3. CASE AddDerefEdge
  <2>1. PICK e \in todo : /\ edges' = edges \cup {Edge(e[1], e[2], "assign")}
                          /\ Propagate(e[2], PointsToSet(e[1]))
    BY <1>3 DEF AddDerefEdge
  <2>2. /\ prog' = prog /\ pts' = pts /\ cur' = cur /\ pc = "deref" /\ pc' = "deref"
        /\ edges \subseteq edges'
    BY <1>3, <2>1 DEF AddDerefEdge
  <2>3. PointsToSet(e[1]) \subseteq InSet(e[2])' /\ \A v : InSet(v) \subseteq InSet(v)'
    BY <2>1, PropagateInSet
  <2>4. \A x \in edges' \ edges : PointsToSet(x.src) \subseteq InSet(x.dst)'
    BY <2>1, <2>3 DEF Edge
  <2>5. InSet(cur) \subseteq InSet(cur)'
    BY <2>1, <2>2 DEF Propagate, InSet
  <2>6. \A x, a : Waiting(x, a) => Waiting(x, a)'
    BY <2>2, <2>5 DEF Waiting
  <2> QED
    BY <2>2, <2>3, <2>4, <2>6, FlowInvGrow
<1>4. CASE CollectCalls
  <2>1. /\ prog' = prog /\ pts' = pts /\ cur' = cur /\ pc = "deref" /\ pc' = "invoke"
        /\ edges' = edges /\ inset' = inset
    BY <1>4 DEF CollectCalls, graph, sets
  <2>2. InSet(cur)' = InSet(cur) /\ \A v : InSet(v)' = InSet(v)
    BY <2>1 DEF InSet
  <2>3. \A x, a : Waiting(x, a) => Waiting(x, a)'
    BY <2>1, <2>2 DEF Waiting
  <2> QED
    BY <2>1, <2>2, <2>3, FlowInvGrow
<1>5. CASE CallsDone
  <2>1. /\ prog' = prog /\ pts' = pts /\ cur' = cur /\ pc = "invoke" /\ pc' = "forward"
        /\ edges' = edges /\ inset' = inset
        /\ \A x \in edges : x.src = cur /\ IsFlow(x) => <<x.src, x.dst>> \in todo'
    BY <1>5 DEF CallsDone, graph, sets
  <2>2. InSet(cur)' = InSet(cur) /\ \A v : InSet(v)' = InSet(v)
    BY <2>1 DEF InSet
  <2>3. \A a : \A x \in edges : IsFlow(x) /\ Waiting(x, a) => Waiting(x, a)'
    BY <2>1, <2>2 DEF Waiting
  <2> QED
    BY <2>1, <2>2, <2>3, FlowInvGrow
<1>6. CASE Forward
  <2>1. PICK e \in todo : Propagate(e[2], InSet(cur)) /\ todo' = todo \ {e}
    BY <1>6 DEF Forward
  <2>2. /\ prog' = prog /\ pts' = pts /\ cur' = cur /\ pc = "forward" /\ pc' = "forward"
        /\ edges' = edges
    BY <1>6 DEF Forward, graph
  <2>3. InSet(cur) \subseteq InSet(e[2])' /\ \A v : InSet(v) \subseteq InSet(v)'
    BY <2>1, PropagateInSet
  <2>4. InSet(cur) \subseteq InSet(cur)'
    BY <2>1, <2>2 DEF Propagate, InSet
  <2>5. ASSUME NEW x, NEW a, Waiting(x, a) PROVE a \in InSet(x.dst)' \/ Waiting(x, a)'
    <3>1. x.src = cur /\ a \in InSet(cur) /\ <<x.src, x.dst>> \in todo
      BY <2>2, <2>5 DEF Waiting
    <3>2. CASE <<x.src, x.dst>> = e
      BY <2>3, <3>1, <3>2
    <3>3. CASE <<x.src, x.dst>> # e
      BY <2>1, <2>2, <2>4, <3>1, <3>3 DEF Waiting
    <3> QED
      BY <3>2, <3>3
  <2> QED
    BY <2>2, <2>3, <2>5, FlowInvGrow
<1>7. CASE ClearInSet
  <2>1. PICK v : v = cur
    OBVIOUS
  <2>2. inset' = WithInSet(v, {}) /\ pc = "forward" /\ todo = {}
    BY <1>7, <2>1 DEF ClearInSet
  <2>3. \A a \in InSet(v) : a \in PointsToSet(v) \/ ~Passes(v, a)
    BY <2>1, <2>2 DEF RoundInv, InRound
  <2>4. \A e, a : ~Waiting(e, a)
    BY <2>2 DEF Waiting
  <2>5. prog' = prog /\ pts' = pts /\ edges' = edges
    BY <1>7 DEF ClearInSet, graph
  <2> QED
    BY <2>2, <2>3, <2>4, <2>5, FlowInvEmptied
<1>8. CASE UpdateCcg
  <2>1. /\ prog' = prog /\ pts' = pts /\ edges' = edges /\ inset' = inset /\ pc = "pop"
    BY <1>8 DEF UpdateCcg, graph, sets
  <2>2. \A v : InSet(v)' = InSet(v)
    BY <2>1, InSetSame
  <2>3. \A x, a : ~Waiting(x, a)
    BY <2>1 DEF Waiting
  <2> QED
    BY <2>1, <2>2, <2>3, FlowInvGrow
<1>9. ~ProcessCall
  BY DEF PhaseInv, ProcessCall
<1> QED
  BY <1>1, <1>2, <1>3, <1>4, <1>5, <1>6, <1>7, <1>8, <1>9 DEF Update

LEMMA FlowInvNext ==
  ASSUME OnTheFly = FALSE, PhaseInv, RoundInv, FlowInv, [Next]_vars
  PROVE  FlowInv'
<1>1. CASE UNCHANGED vars
  <2>1. /\ prog' = prog /\ pts' = pts /\ edges' = edges /\ inset' = inset /\ cur' = cur
        /\ pc' = pc /\ todo' = todo
    BY <1>1 DEF vars, graph, sets, step
  <2>2. InSet(cur)' = InSet(cur) /\ \A v : InSet(v)' = InSet(v)
    BY <2>1 DEF InSet
  <2>3. \A x, a : Waiting(x, a) => Waiting(x, a)'
    BY <2>1, <2>2 DEF Waiting
  <2> QED
    BY <2>1, <2>2, <2>3, FlowInvGrow
<1> QED
  BY <1>1, FlowInvVisit, FlowInvUpdate DEF Next

(* Steps that add no dereference and no element.                           *)
LEMMA HeapInvKept ==
  ASSUME HeapInv, prog' = prog, pts' = pts, deref' = deref,
         \A d \in deref : Preds(edges, d[2])' = Preds(edges, d[2]) /\
                         Succs(edges, d[2])' = Succs(edges, d[2]),
         \A u, v : Connected(u, v) => Connected(u, v)'
  PROVE  HeapInv'
<1>1. \A u : PointsToSet(u)' = PointsToSet(u)
  BY PointsToSetSame
<1>2. \A a, f : HasField(a, f)' = HasField(a, f)
  BY ProgramConstant
<1>3. ASSUME NEW d \in deref, NEW a \in PointsToSet(d[1]), HasField(a, d[2].field)
      PROVE  /\ \A u \in Preds(edges, d[2])' : Connected(u, AllocFieldVertex(a.hdl, d[2].field))'
             /\ \A w \in Succs(edges, d[2])' : Connected(AllocFieldVertex(a.hdl, d[2].field), w)'
  BY <1>3 DEF HeapInv
<1> QED
  BY <1>1, <1>2, <1>3 DEF HeapInv

LEMMA HeapInvVisit ==
  ASSUME PhaseInv, ShapeInv', Visit
  PROVE  HeapInv'
<1>1. pts' = {} /\ \A d \in deref' : d[1].kind = "reg"
  BY VisitKeeps DEF ShapeInv
<1>2. \A d \in deref' : PointsToSet(d[1])' = {}
  BY <1>1 DEF PointsToSet
<1> QED
  BY <1>2 DEF HeapInv

LEMMA HeapInvPop ==
  ASSUME TypeInv, ShapeInv, HeapInv, Pop
  PROVE  HeapInv'
<1>1. PICK v, new :
        /\ pts' = pts \cup {<<v, a>> : a \in new}
        /\ todo' = DerefEdges(v, new) \ Adjacent
        /\ pc = "pop" /\ pc' = "deref" /\ edges' = edges /\ deref' = deref /\ prog' = prog
  BY DEF Pop, graph
<1>2. \A u : u # v => PointsToSet(u)' = PointsToSet(u)
  BY <1>1, PointsToSetEffect
<1>3. PointsToSet(v)' = PointsToSet(v) \cup new
  BY <1>1, PointsToSetEffect
<1>4. \A a, f : HasField(a, f)' = HasField(a, f)
  BY <1>1, ProgramConstant
<1>5. ASSUME NEW p \in DerefEdges(v, new)
      PROVE  Edge(p[1], p[2], "assign") \in edges \/ p \in todo'
  <2>1. CASE p \notin Adjacent
    BY <1>1, <2>1
  <2>2. CASE p \in Adjacent
    <3>1. PICK e \in edges : p = <<e.src, e.dst>>
      BY <2>2 DEF Adjacent
    <3>2. "alloc_dot_field" \in {p[1].kind, p[2].kind}
      BY DerefEdgesShape
    <3>3. e.kind = "assign" /\ e = Edge(e.src, e.dst, e.kind)
      BY <3>1, <3>2 DEF ShapeInv, TypeInv, Edge
    <3> QED
      BY <3>1, <3>3
  <2> QED
    BY <2>1, <2>2
<1>6. ASSUME NEW d \in deref, NEW a, a \in PointsToSet(d[1])', HasField(a, d[2].field)
      PROVE  LET af == AllocFieldVertex(a.hdl, d[2].field)
             IN  /\ \A u \in Preds(edges, d[2]) : Connected(u, af)'
                 /\ \A w \in Succs(edges, d[2]) : Connected(af, w)'
  <2> DEFINE af == AllocFieldVertex(a.hdl, d[2].field)
  <2>1. CASE a \in PointsToSet(d[1])
    <3>1. /\ \A u \in Preds(edges, d[2]) : Edge(u, af, "assign") \in edges
          /\ \A w \in Succs(edges, d[2]) : Edge(af, w, "assign") \in edges
      BY <1>1, <1>6, <2>1 DEF HeapInv, Connected
    <3> QED
      BY <1>1, <3>1 DEF Connected
  <2>2. CASE a \notin PointsToSet(d[1])
    <3>1. d[1] = v /\ a \in new
      BY <1>2, <1>3, <1>6, <2>2
    <3>2. d[2] \in {p[2] : p \in {q \in deref : q[1] = v}}
      BY <3>1
    <3>3. /\ \A u \in Preds(edges, d[2]) : <<u, af>> \in DerefEdges(v, new)
          /\ \A w \in Succs(edges, d[2]) : <<af, w>> \in DerefEdges(v, new)
      <4>1. a \in {b \in new : HasField(b, d[2].field)}
        BY <1>6, <3>1
      <4>2. ASSUME NEW e \in ({<<u, af>> : u \in Preds(edges, d[2])} \cup
                              {<<af, w>> : w \in Succs(edges, d[2])})
            PROVE  e \in DerefEdges(v, new)
        <5> DEFINE x == d[2]
        <5> HIDE DEF x
        <5>1. e \in UNION {LET y == AllocFieldVertex(b.hdl, d[2].field)
                           IN  {<<u, y>> : u \in Preds(edges, d[2])} \cup
                               {<<y, w>> : w \in Succs(edges, d[2])} :
                             b \in {c \in new : HasField(c, d[2].field)}}
          BY <4>1
        <5> QED
          BY <3>2, <5>1 DEF DerefEdges
      <4> QED
        BY <4>2
    <3>4. /\ \A u \in Preds(edges, d[2]) : Edge(u, af, "assign") \in edges \/ <<u, af>> \in todo'
          /\ \A w \in Succs(edges, d[2]) : Edge(af, w, "assign") \in edges \/ <<af, w>> \in todo'
      BY <1>5, <3>3
    <3> QED
      BY <1>1, <3>4 DEF Connected
  <2> QED
    BY <2>1, <2>2
<1>7. \A d : Preds(edges, d)' = Preds(edges, d) /\ Succs(edges, d)' = Succs(edges, d)
  BY <1>1 DEF Preds, Succs
<1> QED
  BY <1>1, <1>4, <1>6, <1>7 DEF HeapInv

LEMMA HeapInvUpdate ==
  ASSUME OnTheFly = FALSE, TypeInv, PhaseInv, ShapeInv, RoundInv, HeapInv, Update
  PROVE  HeapInv'
<1>1. CASE Pop
  BY <1>1, HeapInvPop
<1>2. CASE AddDerefEdge
  <2>1. PICK e \in todo : /\ edges' = edges \cup {Edge(e[1], e[2], "assign")}
                          /\ todo' = todo \ {e}
    BY <1>2 DEF AddDerefEdge
  <2>2. /\ prog' = prog /\ pts' = pts /\ deref' = deref /\ pc = "deref" /\ pc' = "deref"
    BY <1>2 DEF AddDerefEdge
  <2>3. e[1].kind # "reg_dot_field" /\ e[2].kind # "reg_dot_field"
    BY <2>2 DEF RoundInv
  <2>4. \A d \in deref : e[1] # d[2] /\ e[2] # d[2]
    BY <2>3 DEF TypeInv
  <2>5. \A d \in deref : Preds(edges, d[2])' = Preds(edges, d[2]) /\
                         Succs(edges, d[2])' = Succs(edges, d[2])
    BY <2>1, <2>4 DEF Preds, Succs, Edge
  <2>6. ASSUME NEW u, NEW v, Connected(u, v) PROVE Connected(u, v)'
    <3>1. CASE <<u, v>> = e
      BY <2>1, <3>1 DEF Connected
    <3>2. CASE <<u, v>> # e
      BY <2>1, <2>2, <2>6, <3>2 DEF Connected
    <3> QED
      BY <3>1, <3>2
  <2> QED
    BY <2>2, <2>5, <2>6, HeapInvKept
<1>3. CASE PopUnchanged \/ CollectCalls \/ CallsDone \/ Forward \/ ClearInSet \/ UpdateCcg
  <2>1. /\ prog' = prog /\ pts' = pts /\ deref' = deref /\ edges' = edges
        /\ pc = "deref" => todo = {}
    BY <1>3 DEF PopUnchanged, CollectCalls, CallsDone, Forward, ClearInSet, UpdateCcg, graph, sets
  <2>2. \A d : Preds(edges, d)' = Preds(edges, d) /\ Succs(edges, d)' = Succs(edges, d)
    BY <2>1 DEF Preds, Succs
  <2>3. \A u, v : Connected(u, v) => Connected(u, v)'
    BY <2>1 DEF Connected
  <2> QED
    BY <2>1, <2>2, <2>3, HeapInvKept
<1>4. ~ProcessCall
  BY DEF PhaseInv, ProcessCall
<1> QED
  BY <1>1, <1>2, <1>3, <1>4 DEF Update

LEMMA HeapInvNext ==
  ASSUME OnTheFly = FALSE, TypeInv, PhaseInv, ShapeInv, RoundInv, HeapInv, ShapeInv', [Next]_vars
  PROVE  HeapInv'
<1>1. CASE UNCHANGED vars
  <2>1. /\ prog' = prog /\ pts' = pts /\ deref' = deref /\ edges' = edges
        /\ pc' = pc /\ todo' = todo
    BY <1>1 DEF vars, graph, sets, step
  <2>2. \A d : Preds(edges, d)' = Preds(edges, d) /\ Succs(edges, d)' = Succs(edges, d)
    BY <2>1 DEF Preds, Succs
  <2>3. \A u, v : Connected(u, v) => Connected(u, v)'
    BY <2>1 DEF Connected
  <2> QED
    BY <2>1, <2>2, <2>3, HeapInvKept
<1> QED
  BY <1>1, HeapInvVisit, HeapInvUpdate DEF Next

LEMMA SolverInvNext ==
  ASSUME OnTheFly = FALSE, TypeInv, ListInv, SolverInv, [Next]_vars
  PROVE  SolverInv'
<1> USE DEF SolverInv
<1>1. PhaseInv'
  BY PhaseInvNext
<1>2. ShapeInv'
  BY ShapeInvNext
<1>3. RoundInv'
  BY RoundInvNext
<1>4. FlowInv'
  BY FlowInvNext
<1>5. HeapInv'
  BY <1>2, HeapInvNext
<1> QED
  BY <1>1, <1>2, <1>3, <1>4, <1>5

LEMMA SolverInvariant ==
  ASSUME OnTheFly = FALSE
  PROVE  Spec => [](TypeInv /\ ListInv /\ SolverInv)
<1>1. Init => TypeInv /\ ListInv /\ SolverInv
  BY TypeInvInit, ListInvInit, SolverInvInit
<1>2. TypeInv /\ ListInv /\ SolverInv /\ [Next]_vars => (TypeInv /\ ListInv /\ SolverInv)'
  BY TypeInvNext, ListInvNext, SolverInvNext
<1> QED
  BY <1>1, <1>2, PTL DEF Spec

LEMMA DoneIsEmpty ==
  ASSUME TypeInv, ListInv, pc = "done", worklist = <<>>
  PROVE  \A v : InSet(v) = {}
<1>1. dirty = {}
  BY DEF ListInv, WorklistIsDirty
<1>2. inset = {}
  BY <1>1 DEF ListInv, InRound
<1> QED
  BY <1>2 DEF InSet

(* The analysis ends with an empty worklist.                               *)
DoneEmpty == pc = "done" => worklist = <<>>

LEMMA DoneNext == DoneEmpty /\ [Next]_vars => DoneEmpty'
  BY DEF DoneEmpty, Next, Visit, Update, SkipVisited, BeginMethod, EndMethod, VisitAlloc, VisitAssign,
     VisitStore, VisitLoad, VisitStatic, VisitInvoke, VisitOther, QueueDrained, NextInsn, At,
     PopUnchanged, Pop, AddDerefEdge, CollectCalls, ProcessCall, CallsDone, Forward,
     ClearInSet, UpdateCcg, list, vars

LEMMA DoneInvariant == Spec => []DoneEmpty
<1>1. Init => DoneEmpty
  BY DEF Init, DoneEmpty
<1> QED
  BY <1>1, DoneNext, PTL DEF Spec

(* With class hierarchy analysis, when the main loop of update ends, the   *)
(* points-to sets are a solution of every assign, alloc, sstore and sload  *)
(* edge of the graph: what the edge carries has arrived.                   *)
THEOREM FlowSound ==
  ASSUME OnTheFly = FALSE
  PROVE  Spec => []FlowClosed
<1>1. TypeInv /\ ListInv /\ SolverInv /\ DoneEmpty => FlowClosed
  BY DoneIsEmpty DEF DoneEmpty, SolverInv, FlowInv, FlowClosed, Waiting
<1> QED
  BY <1>1, SolverInvariant, DoneInvariant, PTL

(* With class hierarchy analysis, when the main loop ends, every store and *)
(* load through an object is connected to that object's field.             *)
THEOREM HeapSound ==
  ASSUME OnTheFly = FALSE
  PROVE  Spec => []HeapConnected
<1>1. SolverInv => HeapConnected
  BY DEF SolverInv, HeapInv, HeapConnected, Connected
<1> QED
  BY <1>1, SolverInvariant, PTL

-----------------------------------------------------------------------------
(* Where objects come from.                                                *)

LEMMA FlowsGrow ==
  ASSUME edges \subseteq edges'
  PROVE  Flows \subseteq Flows' /\ Allocated \subseteq Allocated'
  BY DEF Flows, Allocated, IsFlow

LEMMA RegisterEdgeSprouts ==
  ASSUME NEW u, NEW v, NEW k, u.kind \notin {"alloc"}, v.kind # "alloc", k # "alloc"
  PROVE  Sprouts(Edge(u, v, k))
  BY DEF Sprouts, Edge

LEMMA InvokeEdgesSprout ==
  ASSUME NEW c, NEW at, NEW m
  PROVE  \A e \in InvokeEdges(c, at, m) : Sprouts(e)
<1>1. ASSUME NEW e \in ArgumentEdges(c, at, m) PROVE Sprouts(e)
  <2>1. PICK k \in 1 .. Len(Params[m]) :
          e \in {Edge(r, RegVertex(<<m, 0, Offset(m, k)>>, at), "assign") :
                   r \in Regs(Argument(InsnAt(at), m, k), at, c)}
    BY DEF ArgumentEdges
  <2>2. PICK r \in Regs(Argument(InsnAt(at), m, k), at, c) :
          e = Edge(r, RegVertex(<<m, 0, Offset(m, k)>>, at), "assign")
    BY <2>1
  <2> QED
    BY <2>2, RegKind, RegsKind, RegisterEdgeSprouts
<1>2. ASSUME NEW e \in ResultEdges(c, at, m) PROVE Sprouts(e)
  BY RegKind, RegisterEdgeSprouts DEF ResultEdges
<1> QED
  BY <1>1, <1>2 DEF InvokeEdges

(* Every edge of the visit that is no alloc edge joins registers, fields   *)
(* of registers and static fields.                                         *)
LEMMA VisitSprouts ==
  ASSUME Visit
  PROVE  \A e \in edges' \ edges : Sprouts(e)
<1>1. CASE VisitAlloc
  <2>1. Sprouts(Edge(AllocVertex(Here), RegVertex(DefSite, Context), "alloc"))
    BY RegKind DEF AllocVertex, Sprouts, Edge
  <2> QED
    BY <1>1, <2>1 DEF VisitAlloc
<1>2. CASE VisitAssign
  <2>1. \A s : \A r \in Regs(Insn.src, Here, Context) :
          Sprouts(Edge(r, RegVertex(s, Context), "assign"))
    BY RegKind, RegsKind, RegisterEdgeSprouts
  <2> QED
    BY <1>2, <2>1 DEF VisitAssign
<1>3. CASE VisitStore
  <2> DEFINE objs == {s \in Incoming(Insn.obj, Here) : Regs(Insn.src, Here, Context) # {}}
             FieldOf(s) == RegFieldVertex(s, Insn.field, Context)
  <2>1. edges' = edges \cup UNION {{Edge(r, FieldOf(s), "store") :
                                     r \in Regs(Insn.src, Here, Context)} : s \in objs}
    BY <1>3 DEF VisitStore
  <2>2. ASSUME NEW e \in edges' \ edges PROVE Sprouts(e)
    <3>1. PICK s \in objs, r \in Regs(Insn.src, Here, Context) : e = Edge(r, FieldOf(s), "store")
      BY <2>1
    <3>2. FieldOf(s).kind = "reg_dot_field"
      BY DEF RegFieldVertex
    <3> QED
      BY <3>1, <3>2, RegsKind, RegisterEdgeSprouts
  <2> QED
    BY <2>2
<1>4. CASE VisitLoad
  <2>1. \A s, f, c, t : Sprouts(Edge(RegFieldVertex(s, f, c), RegVertex(t, c), "load"))
    BY DEF Sprouts, Edge, RegFieldVertex, RegVertex
  <2> QED
    BY <1>4, <2>1 DEF VisitLoad
<1>5. CASE VisitStatic
  <2>1. \A f : StaticVertex(f).kind = "static_field"
    BY DEF StaticVertex
  <2>2. \A f : \A r \in Regs(Insn.src, Here, Context) : Sprouts(Edge(r, StaticVertex(f), "sstore"))
    BY <2>1, RegsKind, RegisterEdgeSprouts
  <2>3. \A f, s, c : Sprouts(Edge(StaticVertex(f), RegVertex(s, c), "sload"))
    BY <2>1, RegKind, RegisterEdgeSprouts
  <2> QED
    BY <1>5, <2>2, <2>3 DEF VisitStatic
<1>6. CASE VisitInvoke
  <2> DEFINE targets == IF OnTheFly /\ Insn.kind = "virtual" THEN <<>> ELSE Overrides[Insn.callee]
             new == UNION {InvokeEdges(Context, Here, targets[k]) : k \in 1 .. Len(targets)}
  <2>1. edges' = edges \cup new
    BY <1>6 DEF VisitInvoke
  <2>2. \A e \in new : Sprouts(e)
    BY InvokeEdgesSprout
  <2> HIDE DEF new
  <2> QED
    BY <2>1, <2>2
<1>7. CASE SkipVisited \/ BeginMethod \/ EndMethod \/ VisitOther \/ QueueDrained
  BY <1>7 DEF SkipVisited, BeginMethod, EndMethod, VisitOther, QueueDrained, graph
<1> QED
  BY <1>1, <1>2, <1>3, <1>4, <1>5, <1>6, <1>7 DEF Visit

(* The visit moves an object in one case: to the register of its           *)
(* allocation.                                                             *)
AllocatedNow(e) ==
  /\ e \in edges' /\ e.kind = "alloc" /\ e.src.kind = "alloc"
  /\ inset' = inset \cup {<<e.dst, a>> : a \in PointsToSet(e.src)}

LEMMA VisitMoves ==
  ASSUME Visit
  PROVE  inset' = inset \/ \E e : AllocatedNow(e)
<1>1. CASE VisitAlloc
  <2> DEFINE e == Edge(AllocVertex(Here), RegVertex(DefSite, Context), "alloc")
  <2>1. e \in edges' /\ Propagate(RegVertex(DefSite, Context), PointsToSet(AllocVertex(Here)))
    BY <1>1 DEF VisitAlloc
  <2>2. /\ e.src = AllocVertex(Here) /\ e.dst = RegVertex(DefSite, Context)
        /\ e.kind = "alloc" /\ AllocVertex(Here).kind = "alloc"
    BY DEF Edge, AllocVertex
  <2>3. AllocatedNow(e)
    BY <2>1, <2>2 DEF AllocatedNow, Propagate
  <2> QED
    BY <2>3
<1>2. CASE ~VisitAlloc
  BY <1>2, VisitEdges
<1> QED
  BY <1>1, <1>2

LEMMA OwnElement ==
  ASSUME NEW v, v.kind = "alloc", pts = {}
  PROVE  PointsToSet(v) = {v}
  BY DEF PointsToSet

LEMMA PointsToAllocated ==
  ASSUME SourceInv, NEW v, v.kind # "alloc"
  PROVE  PointsToSet(v) \subseteq Allocated
  BY DEF PointsToSet, SourceInv

LEMMA InSetAllocated ==
  ASSUME SourceInv, NEW v
  PROVE  InSet(v) \subseteq Allocated
  BY DEF InSet, SourceInv

(* The sets are sets of pairs.                                             *)
LEMMA InSetPair ==
  ASSUME TypeInv, NEW v, NEW a \in InSet(v)
  PROVE  <<v, a>> \in inset
<1>1. PICK p \in inset : p[1] = v /\ p[2] = a
  BY DEF InSet
<1>2. p = <<p[1], p[2]>>
  BY DEF TypeInv
<1> QED
  BY <1>1, <1>2

LEMMA PointsToPair ==
  ASSUME TypeInv, NEW v, NEW a \in PointsToSet(v)
  PROVE  <<v, a>> \in pts \/ (v.kind = "alloc" /\ a = v)
<1>1. CASE \E p \in pts : p[1] = v /\ p[2] = a
  <2>1. PICK p \in pts : p[1] = v /\ p[2] = a
    BY <1>1
  <2>2. p = <<p[1], p[2]>>
    BY DEF TypeInv
  <2> QED
    BY <2>1, <2>2
<1>2. CASE ~\E p \in pts : p[1] = v /\ p[2] = a
  BY <1>2 DEF PointsToSet
<1> QED
  BY <1>1, <1>2

LEMMA SourceInvInit == Init => SourceInv
  BY DEF Init, SourceInv

LEMMA SourceInvVisit ==
  ASSUME PhaseInv, SourceInv, Visit
  PROVE  SourceInv'
<1>1. /\ pts = {} /\ pts' = {} /\ pc' # "deref" /\ edges \subseteq edges'
  BY VisitKeeps
<1>2. Allocated \subseteq Allocated'
  BY <1>1, FlowsGrow
<1>3. \A p \in inset' : p[2] \in Allocated'
  <2>1. CASE inset' = inset
    BY <1>2, <2>1 DEF SourceInv
  <2>2. ASSUME NEW e, AllocatedNow(e) PROVE \A p \in inset' : p[2] \in Allocated'
    <3>1. PointsToSet(e.src) = {e.src}
      BY <1>1, <2>2, OwnElement DEF AllocatedNow
    <3>2. e.src \in Allocated'
      BY <2>2 DEF AllocatedNow, Allocated
    <3> QED
      BY <1>2, <2>2, <3>1, <3>2 DEF AllocatedNow, SourceInv
  <2> QED
    BY <2>1, <2>2, VisitMoves
<1>4. \A e \in edges' : Sprouts(e)
  BY VisitSprouts DEF SourceInv
<1> QED
  BY <1>1, <1>3, <1>4 DEF SourceInv, Sprouts

(* Steps that add no edge and give objects to their sets from in-sets.     *)
LEMMA SourceInvSame ==
  ASSUME SourceInv, edges' = edges, pc' # "deref" \/ (pc = "deref" /\ todo' = todo),
         \A p \in pts' \cup inset' : p[2] \in Allocated
  PROVE  SourceInv'
  BY DEF SourceInv, Allocated, Sprouts

LEMMA SourceInvUpdate ==
  ASSUME OnTheFly = FALSE, TypeInv, PhaseInv, ShapeInv, SourceInv, Update
  PROVE  SourceInv'
<1>1. CASE Pop
  <2>1. PICK v, new :
          /\ new = Filtered(v) /\ edges' = edges
          /\ inset' = WithInSet(v, new) /\ pts' = pts \cup {<<v, a>> : a \in new}
          /\ todo' \subseteq DerefEdges(v, new)
    BY <1>1 DEF Pop, graph
  <2>2. new \subseteq Allocated
    BY <2>1, InSetAllocated DEF Filtered
  <2>3. \A p \in pts' \cup inset' : p[2] \in Allocated
    BY <2>1, <2>2 DEF SourceInv, WithInSet
  <2>4. \A e \in todo' : "alloc" \notin {e[1].kind, e[2].kind}
    BY <2>1, DerefEdgesShape
  <2> QED
    BY <2>1, <2>3, <2>4 DEF SourceInv, Allocated, Sprouts
<1>2. CASE AddDerefEdge
  <2>1. PICK e \in todo : /\ edges' = edges \cup {Edge(e[1], e[2], "assign")}
                          /\ Propagate(e[2], PointsToSet(e[1]))
                          /\ todo' = todo \ {e}
    BY <1>2 DEF AddDerefEdge
  <2>2. pts' = pts /\ pc = "deref" /\ edges \subseteq edges'
    BY <1>2, <2>1 DEF AddDerefEdge
  <2>3. e[1].kind # "alloc" /\ e[2].kind # "alloc"
    BY <2>2 DEF SourceInv
  <2>4. Sprouts(Edge(e[1], e[2], "assign"))
    BY <2>3, RegisterEdgeSprouts
  <2>5. Allocated \subseteq Allocated'
    BY <2>2, FlowsGrow
  <2>6. \A p \in inset' : p[2] \in Allocated'
    BY <2>1, <2>3, <2>5, PointsToAllocated DEF Propagate, SourceInv
  <2> QED
    BY <2>1, <2>2, <2>4, <2>5, <2>6 DEF SourceInv, Sprouts
<1>3. CASE Forward
  <2>1. /\ edges' = edges /\ pts' = pts /\ pc' # "deref"
        /\ \E dst : inset' = inset \cup {<<dst, a>> : a \in InSet(cur)}
    BY <1>3 DEF Forward, Propagate, graph
  <2>2. \A p \in pts' \cup inset' : p[2] \in Allocated
    BY <2>1, InSetAllocated DEF SourceInv
  <2> QED
    BY <2>1, <2>2, SourceInvSame
<1>4. CASE PopUnchanged \/ CollectCalls \/ CallsDone \/ ClearInSet \/ UpdateCcg
  <2>1. edges' = edges /\ pts' = pts /\ pc' # "deref" /\ inset' \subseteq inset
    BY <1>4 DEF PopUnchanged, CollectCalls, CallsDone, ClearInSet, UpdateCcg, graph, sets,
       WithInSet
  <2>2. \A p \in pts' \cup inset' : p[2] \in Allocated
    BY <2>1 DEF SourceInv
  <2> QED
    BY <2>1, <2>2, SourceInvSame
<1>5. ~ProcessCall
  BY DEF PhaseInv, ProcessCall
<1> QED
  BY <1>1, <1>2, <1>3, <1>4, <1>5 DEF Update

LEMMA SourceInvNext ==
  ASSUME OnTheFly = FALSE, TypeInv, SolverInv, SourceInv, [Next]_vars
  PROVE  SourceInv'
<1>1. CASE UNCHANGED vars
  <2>1. /\ edges' = edges /\ pts' = pts /\ inset' = inset /\ pc' = pc /\ todo' = todo
    BY <1>1 DEF vars, graph, sets, step
  <2> QED
    BY <2>1, SourceInvSame DEF SourceInv
<1> QED
  BY <1>1, SourceInvVisit, SourceInvUpdate DEF Next, SolverInv

-----------------------------------------------------------------------------
(* What arrives was carried.                                               *)

LEMMA CarryInvInit == Init => CarryInv
  BY DEF Init, CarryInv, InRound

(* Elements that were carried stay carried.                                *)
LEMMA StillCarried ==
  ASSUME edges \subseteq edges', \A v : PointsToSet(v) \subseteq PointsToSet(v)',
         NEW p, \E e \in Flows : CarriedBy(e, p)
  PROVE  \E e \in Flows' : CarriedBy(e, p)'
<1>1. PICK e \in Flows : CarriedBy(e, p)
  OBVIOUS
<1>2. e \in Flows'
  BY FlowsGrow
<1>3. CarriedBy(e, p)'
  BY <1>1 DEF CarriedBy
<1> QED
  BY <1>2, <1>3

(* ... and so do those that an edge has just carried.                      *)
LEMMA NowCarried ==
  ASSUME NEW e, e \in edges', IsFlow(e), NEW a \in PointsToSet(e.src)'
  PROVE  \E x \in Flows' : CarriedBy(x, <<e.dst, a>>)'
<1>1. e \in Flows'
  BY DEF Flows, IsFlow
<1>2. CarriedBy(e, <<e.dst, a>>)'
  BY DEF CarriedBy
<1> QED
  BY <1>1, <1>2

(* Outside a round only the in-sets matter.                                *)
LEMMA CarryInvIdle ==
  ASSUME ~InRound', \A p \in inset' : \E e \in Flows' : CarriedBy(e, p)'
  PROVE  CarryInv'
  BY DEF CarryInv, InRound

LEMMA CarryInvVisit ==
  ASSUME PhaseInv, CarryInv, Visit
  PROVE  CarryInv'
<1>1. /\ pts' = pts /\ edges \subseteq edges'
      /\ cur' = NoVertex /\ pc' \in {"visit", "pop"}
  BY DEF PhaseInv, Visit, SkipVisited, BeginMethod, EndMethod, VisitAlloc, VisitAssign,
     VisitStore, VisitLoad, VisitStatic, VisitInvoke, VisitOther, QueueDrained, NextInsn, At,
     step, sets, graph
<1>2. \A v : PointsToSet(v)' = PointsToSet(v)
  BY <1>1, PointsToSetSame
<1>3. ASSUME NEW p \in inset PROVE \E e \in Flows' : CarriedBy(e, p)'
  <2>1. \E e \in Flows : CarriedBy(e, p)
    BY DEF CarryInv
  <2> QED
    BY <1>1, <1>2, <2>1, StillCarried
<1>4. ASSUME NEW e, AllocatedNow(e), NEW p \in inset', p \notin inset
      PROVE  \E x \in Flows' : CarriedBy(x, p)'
  <2>1. PICK a \in PointsToSet(e.src) : p = <<e.dst, a>>
    BY <1>4 DEF AllocatedNow
  <2>2. e \in edges' /\ IsFlow(e) /\ a \in PointsToSet(e.src)'
    BY <1>2, <1>4 DEF AllocatedNow, IsFlow, FlowKinds
  <2> QED
    BY <2>1, <2>2, NowCarried
<1>5. \A p \in inset' : \E e \in Flows' : CarriedBy(e, p)'
  BY <1>3, <1>4, VisitMoves
<1>6. ~InRound'
  BY <1>1 DEF InRound
<1> QED
  BY <1>5, <1>6, CarryInvIdle

(* Within a round.                                                         *)
LEMMA CarryInvRound ==
  ASSUME edges \subseteq edges', pts' = pts, cur' = cur, CarryInv, InRound,
         InSet(cur)' = InSet(cur),
         \A p \in inset' \ inset : \E e \in Flows' : CarriedBy(e, p)',
         pc' = "forward" => \A e \in todo' : \E x \in Flows' : x.src = cur /\ x.dst = e[2]
  PROVE  CarryInv'
<1>1. PointsToSet(cur)' = PointsToSet(cur) /\ \A v : PointsToSet(v)' = PointsToSet(v)
  BY PointsToSetSame DEF PointsToSet
<1>2. ASSUME NEW p \in inset' PROVE \E e \in Flows' : CarriedBy(e, p)'
  <2>1. CASE p \in inset
    <3>1. \E e \in Flows : CarriedBy(e, p)
      BY <2>1 DEF CarryInv
    <3> QED
      BY <1>1, <3>1, StillCarried
  <2>2. CASE p \notin inset
    BY <2>2
  <2> QED
    BY <2>1, <2>2
<1>3. InSet(cur)' \subseteq PointsToSet(cur)'
  BY <1>1 DEF CarryInv
<1> QED
  BY <1>2, <1>3 DEF CarryInv

LEMMA CarryInvPop ==
  ASSUME TypeInv, CarryInv, Pop
  PROVE  CarryInv'
<1>1. PICK v, new :
        /\ new = Filtered(v) /\ cur' = v /\ edges' = edges /\ pc' = "deref"
        /\ inset' = WithInSet(v, new) /\ pts' = pts \cup {<<v, a>> : a \in new}
  BY DEF Pop, graph
<1>2. /\ \A u : PointsToSet(u) \subseteq PointsToSet(u)'
      /\ new \subseteq PointsToSet(v)'
  BY <1>1, PointsToSetEffect
<1>3. InSet(v)' = new
  BY <1>1, WithInSetEffect
<1>4. inset' \subseteq inset
  BY <1>1, InSetPair DEF WithInSet, Filtered
<1>5. ASSUME NEW p \in inset' PROVE \E e \in Flows' : CarriedBy(e, p)'
  <2>1. \E e \in Flows : CarriedBy(e, p)
    BY <1>4 DEF CarryInv
  <2> QED
    BY <1>1, <1>2, <2>1, StillCarried
<1>6. InSet(cur)' \subseteq PointsToSet(cur)'
  BY <1>1, <1>2, <1>3 DEF InSet, PointsToSet
<1> QED
  BY <1>1, <1>5, <1>6 DEF CarryInv

LEMMA CarryInvUpdate ==
  ASSUME OnTheFly = FALSE, TypeInv, PhaseInv, RoundInv, CarryInv, Update
  PROVE  CarryInv'
<1>1. CASE AddDerefEdge
  <2>1. PICK e \in todo : /\ edges' = edges \cup {Edge(e[1], e[2], "assign")}
                          /\ Propagate(e[2], PointsToSet(e[1]))
    BY <1>1 DEF AddDerefEdge
  <2>2. /\ pts' = pts /\ cur' = cur /\ pc = "deref" /\ pc' = "deref" /\ InRound
        /\ edges \subseteq edges'
    BY <1>1, <2>1 DEF AddDerefEdge, InRound
  <2>3. e[2] # cur
    BY <2>2 DEF RoundInv
  <2>4. \A u : u = cur => InSet(u)' = InSet(u)
    BY <2>1, <2>3, PropagateInSet
  <2>5. InSet(cur)' = InSet(cur)
    BY <2>2, <2>4 DEF InSet
  <2>6. ASSUME NEW p \in inset' \ inset PROVE \E x \in Flows' : CarriedBy(x, p)'
    <3>1. PICK a \in PointsToSet(e[1]) : p = <<e[2], a>>
      BY <2>1 DEF Propagate
    <3>2. PICK x : x = Edge(e[1], e[2], "assign")
      OBVIOUS
    <3>3. x \in edges' /\ IsFlow(x) /\ x.src = e[1] /\ x.dst = e[2]
      BY <2>1, <3>2 DEF IsFlow, FlowKinds, Edge
    <3>4. a \in PointsToSet(x.src)'
      BY <2>2, <3>1, <3>3, PointsToSetSame
    <3> QED
      BY <3>1, <3>3, <3>4, NowCarried
  <2> QED
    BY <2>2, <2>5, <2>6, CarryInvRound
<1>2. CASE Forward
  <2>1. PICK e \in todo : Propagate(e[2], InSet(cur)) /\ todo' = todo \ {e}
    BY <1>2 DEF Forward
  <2>2. /\ pts' = pts /\ cur' = cur /\ pc = "forward" /\ InRound /\ edges' = edges
    BY <1>2 DEF Forward, InRound, graph
  <2>3. \A u : u = cur => InSet(u)' = InSet(u)
    <3>1. e[2] = cur => InSet(e[2])' = InSet(e[2])
      BY <2>1, PropagateInSet
    <3> QED
      BY <2>1, <3>1, PropagateInSet
  <2>4. InSet(cur)' = InSet(cur)
    BY <2>2, <2>3 DEF InSet
  <2>5. PICK x \in Flows : x.src = cur /\ x.dst = e[2]
    BY <2>2 DEF CarryInv
  <2>6. ASSUME NEW p \in inset' \ inset PROVE \E y \in Flows' : CarriedBy(y, p)'
    <3>1. PICK a \in InSet(cur) : p = <<e[2], a>>
      BY <2>1 DEF Propagate
    <3>2. a \in PointsToSet(x.src)
      BY <2>2, <2>5, <3>1 DEF CarryInv
    <3>3. a \in PointsToSet(x.src)' /\ x \in edges' /\ IsFlow(x)
      BY <2>2, <3>2, PointsToSetSame DEF Flows
    <3> QED
      BY <2>5, <3>1, <3>3, NowCarried
  <2>7. \A y \in todo' : \E z \in Flows' : z.src = cur /\ z.dst = y[2]
    BY <2>1, <2>2 DEF CarryInv, Flows
  <2> QED
    BY <2>2, <2>4, <2>6, <2>7, CarryInvRound
<1>3. CASE CollectCalls \/ CallsDone
  <2>1. /\ pts' = pts /\ inset' = inset /\ cur' = cur /\ edges' = edges /\ InRound
        /\ pc' = "forward" => todo' = {<<e.src, e.dst>> : e \in {x \in edges : x.src = cur /\ IsFlow(x)}}
    BY <1>3 DEF CollectCalls, CallsDone, sets, graph, InRound
  <2>2. InSet(cur)' = InSet(cur)
    BY <2>1 DEF InSet
  <2>3. pc' = "forward" => \A y \in todo' : \E z \in Flows' : z.src = cur /\ z.dst = y[2]
    BY <2>1 DEF Flows
  <2> QED
    BY <2>1, <2>2, <2>3, CarryInvRound
<1>4. CASE PopUnchanged \/ ClearInSet \/ UpdateCcg
  <2>1. /\ pts' = pts /\ inset' \subseteq inset /\ edges' = edges /\ pc' \in {"pop", "done"}
    BY <1>4 DEF PopUnchanged, ClearInSet, UpdateCcg, sets, graph, WithInSet
  <2>2. \A p \in inset' : \E e \in Flows' : CarriedBy(e, p)'
    BY <2>1, PointsToSetSame, StillCarried DEF CarryInv
  <2> QED
    BY <2>1, <2>2, CarryInvIdle DEF InRound
<1>5. ~ProcessCall
  BY DEF PhaseInv, ProcessCall
<1> QED
  BY <1>1, <1>2, <1>3, <1>4, <1>5, CarryInvPop DEF Update

LEMMA CarryInvNext ==
  ASSUME OnTheFly = FALSE, TypeInv, SolverInv, CarryInv, [Next]_vars
  PROVE  CarryInv'
<1>1. CASE UNCHANGED vars
  BY <1>1 DEF vars, graph, sets, step, CarryInv, CarriedBy, Flows, InRound, InSet, PointsToSet
<1> QED
  BY <1>1, CarryInvVisit, CarryInvUpdate DEF Next, SolverInv

-----------------------------------------------------------------------------
(* The refinement.                                                         *)

(* The abstract state.                                                     *)
Flow == {<<e.src, e.dst>> : e \in Flows}
Blocked == {p \in {e.dst : e \in Flows} \X Allocated : ~Passes(p[1], p[2])}
Solution == pts \cup {<<a, a>> : a \in Allocated}

LEMMA RefinedInit == Init => Solver!Init
  BY DEF Init, Solver!Init, Flows, Allocated

(* Steps that leave the graph and the points-to sets alone.                *)
LEMMA StutterStep ==
  ASSUME UNCHANGED <<prog, edges, pts>>, (pc' = "done") = (pc = "done")
  PROVE  UNCHANGED Solver!vars
<1>1. Flows' = Flows /\ Allocated' = Allocated
  BY DEF Flows, Allocated
<1>2. \A v, a : Passes(v, a)' = Passes(v, a)
  BY ProgramConstant
<1> QED
  BY <1>1, <1>2 DEF Solver!vars

(* Steps that only add edges.                                              *)
LEMMA ConstrainStep ==
  ASSUME prog' = prog, pts' = pts, edges \subseteq edges', pc # "done", pc' # "done"
  PROVE  Solver!Constrain
<1>1. Flows \subseteq Flows' /\ Allocated \subseteq Allocated'
  BY FlowsGrow
<1>2. \A v, a : Passes(v, a)' = Passes(v, a)
  BY ProgramConstant
<1>3. Flow \subseteq Flow' /\ Blocked \subseteq Blocked'
  BY <1>1, <1>2 DEF Flow, Blocked
<1>4. Solution \subseteq Solution' /\ \A p \in Solution' \ Solution : p[1] = p[2]
  BY <1>1 DEF Solution
<1> QED
  BY <1>3, <1>4 DEF Solver!Constrain, Flow, Blocked, Solution

(* An element that an edge carries is in the solution at its source.       *)
LEMMA CarriedInSolver ==
  ASSUME TypeInv, SourceInv, NEW e \in Flows, NEW a \in PointsToSet(e.src)
  PROVE  <<e.src, e.dst>> \in Flow /\ <<e.src, a>> \in Solution
<1>1. <<e.src, a>> \in pts \/ (e.src.kind = "alloc" /\ a = e.src)
  BY PointsToPair
<1>2. e.src.kind = "alloc" => e.src \in Allocated
  BY DEF SourceInv, Sprouts, Allocated, Flows
<1> QED
  BY <1>1, <1>2 DEF Flow, Solution

LEMMA InferStep ==
  ASSUME TypeInv, SourceInv, CarryInv, Pop
  PROVE  Solver!Infer
<1>1. PICK v, new :
        /\ new = Filtered(v) /\ pts' = pts \cup {<<v, a>> : a \in new}
        /\ edges' = edges /\ prog' = prog /\ pc = "pop" /\ pc' = "deref"
  BY DEF Pop, graph
<1>2. Flows' = Flows /\ Allocated' = Allocated
  BY <1>1 DEF Flows, Allocated
<1>3. \A u, a : Passes(u, a)' = Passes(u, a)
  BY <1>1, ProgramConstant
<1>4. Flow' = Flow /\ Blocked' = Blocked
  BY <1>2, <1>3 DEF Flow, Blocked
<1>5. Solution \subseteq Solution' /\ \A p \in Solution' \ Solution : \E a \in new : p = <<v, a>>
  BY <1>1, <1>2 DEF Solution
<1>6. ASSUME NEW a \in new
      PROVE  /\ \E c \in Flow : c[2] = v /\ <<c[1], a>> \in Solution
             /\ <<v, a>> \notin Blocked
  <2>1. <<v, a>> \in inset /\ Passes(v, a)
    BY <1>1, InSetPair DEF Filtered
  <2>2. PICK e \in Flows : CarriedBy(e, <<v, a>>)
    BY <2>1 DEF CarryInv
  <2>3. e.dst = v /\ a \in PointsToSet(e.src)
    BY <2>2 DEF CarriedBy
  <2>4. <<e.src, v>> \in Flow /\ <<e.src, a>> \in Solution
    BY <2>3, CarriedInSolver
  <2>5. <<v, a>> \notin Blocked
    BY <2>1 DEF Blocked
  <2> QED
    BY <2>4, <2>5
<1>7. \A p \in Solution' \ Solution :
        (\E c \in Flow : c[2] = p[1] /\ <<c[1], p[2]>> \in Solution) /\ p \notin Blocked'
  BY <1>4, <1>5, <1>6
<1> QED
  BY <1>1, <1>4, <1>5, <1>7 DEF Solver!Infer, Solver!Carried, Flow, Blocked, Solution

LEMMA FinishStep ==
  ASSUME TypeInv, ListInv, SolverInv, SourceInv, UpdateCcg
  PROVE  Solver!Finish
<1>1. /\ edges' = edges /\ prog' = prog /\ pts' = pts /\ pc = "pop" /\ pc' = "done"
      /\ worklist = <<>>
  BY DEF UpdateCcg, graph, sets
<1>2. Flows' = Flows /\ Allocated' = Allocated
  BY <1>1 DEF Flows, Allocated
<1>3. \A u, a : Passes(u, a)' = Passes(u, a)
  BY <1>1, ProgramConstant
<1>4. Flow' = Flow /\ Blocked' = Blocked /\ Solution' = Solution
  BY <1>1, <1>2, <1>3 DEF Flow, Blocked, Solution
<1>5. dirty = {} /\ inset = {}
  BY <1>1 DEF ListInv, WorklistIsDirty, InRound
<1>6. \A v : InSet(v) = {}
  BY <1>5 DEF InSet
<1>7. ASSUME NEW e \in Flows, NEW a, <<e.src, a>> \in Solution
      PROVE  <<e.dst, a>> \in Solution \cup Blocked
  <2>1. a \in PointsToSet(e.src) /\ a \in Allocated
    <3>1. CASE <<e.src, a>> \in pts
      BY <3>1 DEF PointsToSet, SourceInv
    <3>2. CASE e.src = a /\ a \in Allocated
      BY <3>2 DEF PointsToSet, SourceInv, Sprouts, Allocated
    <3> QED
      BY <1>7, <3>1, <3>2 DEF Solution
  <2>2. a \in PointsToSet(e.dst) \/ ~Passes(e.dst, a)
    BY <1>1, <1>6, <2>1 DEF SolverInv, FlowInv, Waiting, Flows
  <2>3. e.dst.kind # "alloc"
    BY DEF SourceInv, Sprouts, Flows
  <2>4. a \in PointsToSet(e.dst) => <<e.dst, a>> \in pts
    BY <2>3, PointsToPair
  <2> QED
    BY <2>1, <2>2, <2>4 DEF Solution, Blocked
<1>8. \A c \in Flow : \A p \in Solution : p[1] = c[1] => <<c[2], p[2]>> \in Solution \cup Blocked
  <2> SUFFICES ASSUME NEW c \in Flow, NEW p \in Solution, p[1] = c[1]
               PROVE  <<c[2], p[2]>> \in Solution \cup Blocked
    OBVIOUS
  <2>1. PICK e \in Flows : c = <<e.src, e.dst>>
    BY DEF Flow
  <2>2. p = <<p[1], p[2]>>
    BY DEF Solution, TypeInv
  <2> QED
    BY <1>7, <2>1, <2>2
<1>9. Solver!Closed
  BY <1>8 DEF Solver!Closed, Flow, Blocked, Solution
<1> QED
  BY <1>1, <1>4, <1>9 DEF Solver!Finish, Flow, Blocked, Solution

RefineInv == TypeInv /\ ListInv /\ SolverInv /\ SourceInv /\ CarryInv

LEMMA RefinedNext ==
  ASSUME OnTheFly = FALSE, RefineInv, [Next]_vars
  PROVE  [Solver!Next]_(Solver!vars)
<1> USE DEF RefineInv
<1>1. CASE Visit
  <2>1. pc = "visit" /\ pc' # "done" /\ prog' = prog /\ pts' = pts /\ edges \subseteq edges'
    BY <1>1 DEF Visit, SkipVisited, BeginMethod, EndMethod, VisitAlloc, VisitAssign, VisitStore,
       VisitLoad, VisitStatic, VisitInvoke, VisitOther, QueueDrained, NextInsn, At, sets, graph
  <2> QED
    BY <2>1, ConstrainStep DEF Solver!Next
<1>2. CASE Pop
  BY <1>2, InferStep DEF Solver!Next
<1>3. CASE AddDerefEdge
  <2>1. pc = "deref" /\ pc' = "deref" /\ prog' = prog /\ pts' = pts /\ edges \subseteq edges'
    BY <1>3 DEF AddDerefEdge
  <2> QED
    BY <2>1, ConstrainStep DEF Solver!Next
<1>4. CASE UpdateCcg
  BY <1>4, FinishStep DEF Solver!Next
<1>5. CASE PopUnchanged \/ CollectCalls \/ CallsDone \/ Forward \/ ClearInSet \/ UNCHANGED vars
  <2>1. /\ UNCHANGED <<prog, edges, pts>>
        /\ pc' = pc \/ {pc, pc'} \subseteq {"pop", "deref", "invoke", "forward"}
    BY <1>5 DEF PopUnchanged, CollectCalls, CallsDone, Forward, ClearInSet, vars, sets, graph
  <2> QED
    BY <2>1, StutterStep
<1>6. ~ProcessCall
  BY DEF SolverInv, PhaseInv, ProcessCall
<1> QED
  BY <1>1, <1>2, <1>3, <1>4, <1>5, <1>6 DEF Next, Update

(* With class hierarchy analysis, every behaviour of the analysis is one   *)
(* of an inclusion solver: an element joins a points-to set only along an  *)
(* edge of the graph from a vertex that has it, through filter_in_set, and *)
(* update returns only when no edge has anything left to carry.            *)
THEOREM SolverImplemented ==
  ASSUME OnTheFly = FALSE
  PROVE  Spec => ImplementsSolver
<1>1. Init => SourceInv /\ CarryInv
  BY SourceInvInit, CarryInvInit
<1>2. TypeInv /\ SolverInv /\ SourceInv /\ CarryInv /\ [Next]_vars => (SourceInv /\ CarryInv)'
  BY SourceInvNext, CarryInvNext
<1>3. Spec => []RefineInv
  BY <1>1, <1>2, SolverInvariant, PTL DEF Spec, RefineInv
<1>4. RefineInv /\ [Next]_vars => [Solver!Next]_(Solver!vars)
  BY RefinedNext
<1> QED
  BY <1>3, <1>4, RefinedInit, PTL DEF Spec, ImplementsSolver, Solver!Spec

-----------------------------------------------------------------------------
(* The shape of the graph, in both modes.                                  *)

LEMMA GraphInvInit == Init => GraphInv
  BY DEF Init, GraphInv, ShapeInv

(* Steps that leave the sets, or send along an edge, keep GraphInv.        *)
LEMMA GraphInvKept ==
  ASSUME GraphInv, ShapeInv',
         \/ pc' \notin {"deref", "forward"}
         \/ pc' = pc /\ todo' \subseteq todo /\ cur' = cur
         \/ pc' = "forward" /\ \A e \in todo' : e[1] = cur',
         \A e \in edges' \ edges : e.dst.kind # "alloc",
         \A e \in todo' \ todo : e[2].kind # "alloc",
         pts' = pts,
         inset' \subseteq inset \/ \E dst, allocs : /\ dst.kind # "alloc"
                                                 /\ inset' = inset \cup {<<dst, a>> : a \in allocs}
  PROVE  GraphInv'
<1>1. \A p \in inset' : p[1].kind # "alloc"
  BY DEF GraphInv
<1> QED
  BY <1>1 DEF GraphInv

LEMMA InvokeEdgesTarget ==
  ASSUME NEW c, NEW at, NEW m
  PROVE  \A e \in InvokeEdges(c, at, m) : e.dst.kind # "alloc"
  BY InvokeEdgesSprout DEF Sprouts

LEMMA GraphInvVisit ==
  ASSUME TypeInv, GraphInv, Visit
  PROVE  GraphInv'
<1>1. pc' \notin {"deref", "forward"} /\ pts' = pts /\ todo' = todo
  BY DEF Visit, SkipVisited, BeginMethod, EndMethod, VisitAlloc, VisitAssign, VisitStore,
     VisitLoad, VisitStatic, VisitInvoke, VisitOther, QueueDrained, NextInsn, At, step, sets
<1>2. ShapeInv'
  BY ShapeInvVisit DEF GraphInv
<1>3. \A e \in edges' \ edges : e.dst.kind # "alloc"
  BY VisitSprouts DEF Sprouts
<1>4. inset' = inset \/ \E dst, allocs : /\ dst.kind # "alloc"
                                        /\ inset' = inset \cup {<<dst, a>> : a \in allocs}
  <2>1. CASE VisitAlloc
    <3>1. Propagate(RegVertex(DefSite, Context), PointsToSet(AllocVertex(Here)))
      BY <2>1 DEF VisitAlloc
    <3>2. PICK dst, allocs : Propagate(dst, allocs) /\ dst.kind = "reg"
      BY <3>1, RegKind
    <3> QED
      BY <3>2 DEF Propagate
  <2>2. CASE ~VisitAlloc
    BY <2>2, VisitEdges
  <2> QED
    BY <2>1, <2>2
<1> QED
  BY <1>1, <1>2, <1>3, <1>4, GraphInvKept

LEMMA GraphInvPop ==
  ASSUME TypeInv, GraphInv, Pop
  PROVE  GraphInv'
<1>1. PICK v, new : /\ new = Filtered(v) /\ cur' = v /\ edges' = edges /\ deref' = deref
                    /\ inset' = WithInSet(v, new) /\ pts' = pts \cup {<<v, a>> : a \in new}
                    /\ todo' \subseteq DerefEdges(v, new) /\ pc' = "deref"
  BY DEF Pop, graph
<1>2. \A e \in todo' : /\ e[2] # v /\ "reg_dot_field" \notin {e[1].kind, e[2].kind}
                      /\ e[2].kind # "alloc"
  BY <1>1, DerefEdgesShape DEF GraphInv
<1>3. \A a \in new : <<v, a>> \in inset
  BY <1>1, InSetPair DEF Filtered
<1>4. \A p \in pts' \cup inset' : p[1].kind # "alloc"
  <2>1. ASSUME NEW a \in new PROVE v.kind # "alloc"
    <3>1. <<v, a>> \in pts \cup inset /\ <<v, a>>[1] = v
      BY <1>3
    <3> QED
      BY <3>1 DEF GraphInv
  <2> QED
    BY <1>1, <2>1 DEF GraphInv, WithInSet
<1> QED
  BY <1>1, <1>2, <1>4 DEF GraphInv, ShapeInv

LEMMA GraphInvUpdate ==
  ASSUME TypeInv, GraphInv, Update
  PROVE  GraphInv'
<1>1. CASE AddDerefEdge
  <2>1. PICK e \in todo : /\ edges' = edges \cup {Edge(e[1], e[2], "assign")}
                          /\ todo' = todo \ {e} /\ Propagate(e[2], PointsToSet(e[1]))
    BY <1>1 DEF AddDerefEdge
  <2>2. /\ pc = "deref" /\ pc' = pc /\ cur' = cur /\ deref' = deref /\ pts' = pts
        /\ e[2].kind # "alloc"
    BY <1>1 DEF AddDerefEdge, GraphInv
  <2>3. Plain(Edge(e[1], e[2], "assign"))
    BY <2>2 DEF GraphInv, Plain, Edge
  <2>4. ShapeInv'
    <3>1. \A x \in edges' \ edges : Plain(x)
      BY <2>1, <2>3
    <3> QED
      BY <2>2, <3>1, ShapeInvPlain DEF GraphInv
  <2>5. \A x \in edges' \ edges : x.dst.kind # "alloc"
    BY <2>1, <2>2 DEF Edge
  <2>6. inset' = inset \cup {<<e[2], a>> : a \in PointsToSet(e[1])}
    BY <2>1 DEF Propagate
  <2>7. \E dst, allocs : dst.kind # "alloc" /\ inset' = inset \cup {<<dst, a>> : a \in allocs}
    BY <2>2, <2>6
  <2> QED
    BY <2>1, <2>2, <2>4, <2>5, <2>7, GraphInvKept
<1>2. CASE ProcessCall
  <2>1. PICK c \in calls : edges' = edges \cup
                             InvokeEdges(c[1], c[2], Dispatch[<<InsnAt(c[2]).callee, c[3]>>])
    BY <1>2 DEF ProcessCall
  <2>2. /\ deref' = deref /\ pc' = "visit" /\ todo' = todo /\ pts' = pts /\ inset' = inset
        /\ \A x \in edges' \ edges : Plain(x)
    BY <1>2, <2>1, InvokeEdgesPlain DEF ProcessCall, sets
  <2>3. ShapeInv'
    BY <2>2, ShapeInvPlain DEF GraphInv
  <2>4. \A x \in edges' \ edges : x.dst.kind # "alloc"
    BY <2>1, InvokeEdgesTarget
  <2> QED
    BY <2>2, <2>3, <2>4, GraphInvKept
<1>3. CASE Forward
  <2>1. PICK e \in todo : Propagate(e[2], InSet(cur)) /\ todo' = todo \ {e}
    BY <1>3 DEF Forward
  <2>2. /\ edges' = edges /\ deref' = deref /\ pts' = pts /\ pc' = pc /\ cur' = cur
        /\ e[2].kind # "alloc"
    BY <1>3 DEF Forward, graph, GraphInv
  <2>3. ShapeInv'
    BY <2>2 DEF GraphInv, ShapeInv
  <2>4. \E dst, allocs : dst.kind # "alloc" /\ inset' = inset \cup {<<dst, a>> : a \in allocs}
    BY <2>1, <2>2 DEF Propagate
  <2> QED
    BY <2>1, <2>2, <2>3, <2>4, GraphInvKept
<1>4. CASE CallsDone
  <2>1. /\ edges' = edges /\ deref' = deref /\ pts' = pts /\ cur' = cur /\ inset' = inset
        /\ pc' = "forward"
        /\ todo' = {<<e.src, e.dst>> : e \in {x \in edges : x.src = cur /\ IsFlow(x)}}
    BY <1>4 DEF CallsDone, graph, sets
  <2>2. ShapeInv' /\ \A e \in todo' : e[1] = cur /\ e[2].kind # "alloc"
    BY <2>1 DEF GraphInv, ShapeInv
  <2> QED
    BY <2>1, <2>2, GraphInvKept
<1>5. CASE PopUnchanged \/ CollectCalls \/ ClearInSet \/ UpdateCcg
  <2>1. /\ edges' = edges /\ deref' = deref /\ pts' = pts /\ todo' = todo
        /\ pc' \notin {"deref", "forward"} /\ inset' \subseteq inset
    BY <1>5 DEF PopUnchanged, CollectCalls, ClearInSet, UpdateCcg, graph, step, sets, WithInSet
  <2>2. ShapeInv'
    BY <2>1 DEF GraphInv, ShapeInv
  <2> QED
    BY <2>1, <2>2, GraphInvKept
<1> QED
  BY <1>1, <1>2, <1>3, <1>4, <1>5, GraphInvPop DEF Update

LEMMA GraphInvNext ==
  ASSUME TypeInv, GraphInv, [Next]_vars
  PROVE  GraphInv'
<1>1. CASE UNCHANGED vars
  BY <1>1 DEF GraphInv, ShapeInv, vars, graph, sets, step
<1> QED
  BY <1>1, GraphInvVisit, GraphInvUpdate DEF Next

-----------------------------------------------------------------------------
(* What a solution has.                                                    *)

Places(s) ==
  UNION {{<<r[1], <<r[2], i>>>> : i \in 1 .. Len(prog.code[r[2]])} : r \in s.reach}

LEMMA SolutionHas ==
  ASSUME NEW s, Solves(s), NEW context, NEW m, <<context, m>> \in s.reach,
         NEW i \in 1 .. Len(prog.code[m])
  PROVE  /\ \A v, a : <<v, a>> \in Required(s, context, <<m, i>>) /\ Passes(v, a) =>
                      <<v, a>> \in s.pts
         /\ Started(s, context, <<m, i>>) \subseteq s.reach
<1>1. <<context, <<m, i>>>> \in Places(s)
  <2>1. PICK r \in s.reach : r = <<context, m>>
    OBVIOUS
  <2>2. <<r[1], <<r[2], i>>>> = <<context, <<m, i>>>> /\ i \in 1 .. Len(prog.code[r[2]])
    BY <2>1
  <2> QED
    BY <2>2 DEF Places
<1>2. /\ Infer(s).pts = s.pts \cup
           (UNION {{p \in Required(s, pl[1], pl[2]) : Passes(p[1], p[2])} : pl \in Places(s)})
      /\ Infer(s).reach = s.reach \cup (UNION {Started(s, pl[1], pl[2]) : pl \in Places(s)})
  BY DEF Infer, Places
<1>3. PICK pl \in Places(s) : pl[1] = context /\ pl[2] = <<m, i>>
  BY <1>1
<1>4. ASSUME NEW v, NEW a, <<v, a>> \in Required(s, context, <<m, i>>), Passes(v, a)
      PROVE  <<v, a>> \in s.pts
  <2>1. <<v, a>> \in {p \in Required(s, pl[1], pl[2]) : Passes(p[1], p[2])}
    BY <1>3, <1>4
  <2> QED
    BY <1>2, <2>1 DEF Solves
<1>5. Started(s, context, <<m, i>>) \subseteq s.reach
  BY <1>2, <1>3 DEF Solves
<1> QED
  BY <1>4, <1>5

LEMMA HoldsPair ==
  ASSUME NEW s, NEW v, NEW a, <<v, a>> \in s.pts
  PROVE  a \in Holds(s, v)
<1>1. PICK p \in s.pts : p = <<v, a>>
  OBVIOUS
<1> QED
  BY <1>1 DEF Holds

LEMMA RegsHoldPair ==
  ASSUME NEW s, NEW operand, NEW at, NEW context, NEW r \in Regs(operand, at, context),
         NEW a, <<r, a>> \in s.pts
  PROVE  a \in RegsHold(s, operand, at, context)
  BY HoldsPair DEF RegsHold

(* What a register, or a field, may point to is in the solution.           *)
LEMMA MayPair ==
  ASSUME NEW s, NEW v, NEW a, May(s, v, a), v.kind # "alloc"
  PROVE  <<v, a>> \in s.pts
  BY DEF May

(* The head of the queue is a place of the solution.                       *)
LEMMA HeadReached ==
  ASSUME TypeInv, NEW s, Within(s), queue # <<>>
  PROVE  Head(queue) \in s.reach /\ <<Context, Current>> \in s.reach
<1>1. Head(queue) = queue[1] /\ 1 \in 1 .. Len(queue)
  BY DEF TypeInv
<1>2. Head(queue) \in s.reach
  BY <1>1 DEF Within
<1>3. Head(queue) = <<Context, Current>>
  BY DEF TypeInv, Context, Current
<1> QED
  BY <1>2, <1>3

(* What the instruction at ip requires and starts, of a solution.          *)
Demanded(s) ==
  /\ \A v, a : <<v, a>> \in Required(s, Context, Here) /\ Passes(v, a) => <<v, a>> \in s.pts
  /\ Started(s, Context, Here) \subseteq s.reach

LEMMA HereDemanded ==
  ASSUME TypeInv, NEW s, Solves(s), Within(s), NEW ops, At(ops)
  PROVE  Demanded(s)
  BY VisitingInsn, HeadReached, SolutionHas DEF Demanded, Here, At

-----------------------------------------------------------------------------
(* What an instruction requires, one kind at a time.                       *)

Def(at, context) == RegVertex(<<at[1], at[2], 0>>, context)

LEMMA RequiredAlloc ==
  ASSUME NEW s, NEW context, NEW at, InsnAt(at).op \in {"new_instance", "const_string"}
  PROVE  <<Def(at, context), AllocVertex(at)>> \in Required(s, context, at)
  BY DEF Required, Def

LEMMA RequiredAssign ==
  ASSUME NEW s, NEW context, NEW at, NEW a, NEW r \in Regs(InsnAt(at).src, at, context),
         <<r, a>> \in s.pts
  PROVE  /\ InsnAt(at).op \in {"move_object", "check_cast"} =>
              <<Def(at, context), a>> \in Required(s, context, at)
         /\ InsnAt(at).op = "return_object" =>
              <<RegVertex(ExitSite(at[1]), context), a>> \in Required(s, context, at)
         /\ InsnAt(at).op = "sput" =>
              <<StaticVertex(InsnAt(at).field), a>> \in Required(s, context, at)
<1>1. a \in RegsHold(s, InsnAt(at).src, at, context)
  BY RegsHoldPair
<1> QED
  BY <1>1 DEF Required, Def

LEMMA RequiredStatic ==
  ASSUME NEW s, NEW context, NEW at, NEW a, InsnAt(at).op = "sget",
         <<StaticVertex(InsnAt(at).field), a>> \in s.pts
  PROVE  <<Def(at, context), a>> \in Required(s, context, at)
<1>1. a \in Holds(s, StaticVertex(InsnAt(at).field))
  BY HoldsPair
<1> QED
  BY <1>1 DEF Required, Def

LEMMA RequiredStore ==
  ASSUME NEW s, NEW context, NEW at, InsnAt(at).op = "store",
         NEW o, NEW q \in Regs(InsnAt(at).obj, at, context), <<q, o>> \in s.pts,
         HasField(o, InsnAt(at).field),
         NEW a, NEW r \in Regs(InsnAt(at).src, at, context), <<r, a>> \in s.pts
  PROVE  <<AllocFieldVertex(o.hdl, InsnAt(at).field), a>> \in Required(s, context, at)
<1>1. a \in RegsHold(s, InsnAt(at).src, at, context) /\ o \in RegsHold(s, InsnAt(at).obj, at, context)
  BY RegsHoldPair
<1> QED
  BY <1>1 DEF Required

LEMMA RequiredLoad ==
  ASSUME NEW s, NEW context, NEW at, InsnAt(at).op = "load",
         NEW o, NEW q \in Regs(InsnAt(at).obj, at, context), <<q, o>> \in s.pts,
         HasField(o, InsnAt(at).field),
         NEW a, <<AllocFieldVertex(o.hdl, InsnAt(at).field), a>> \in s.pts
  PROVE  <<Def(at, context), a>> \in Required(s, context, at)
<1> DEFINE owners == {b \in RegsHold(s, InsnAt(at).obj, at, context) : HasField(b, InsnAt(at).field)}
           held(b) == Holds(s, AllocFieldVertex(b.hdl, InsnAt(at).field))
<1>1. o \in owners /\ a \in held(o)
  BY HoldsPair, RegsHoldPair
<1> HIDE DEF owners, held
<1>2. a \in UNION {held(b) : b \in owners}
  BY <1>1
<1>3. Required(s, context, at) = {<<Def(at, context), b>> : b \in UNION {held(c) : c \in owners}}
  BY DEF Required, Def, owners, held
<1> QED
  BY <1>2, <1>3

LEMMA RequiredCall ==
  ASSUME NEW s, NEW context, NEW at, InsnAt(at).op = "invoke",
         NEW m \in Callees(s, InsnAt(at), at, context)
  PROVE  /\ m \notin IsAbstract =>
              CallPts(s, InsnAt(at), at, context, m) \subseteq Required(s, context, at)
         /\ <<at, m>> \in Started(s, context, at)
<1> DEFINE x == InsnAt(at)
           T(t) == CallPts(s, x, at, context, t)
           callees == Callees(s, x, at, context)
<1>1. Required(s, context, at) = UNION {T(t) : t \in callees \ IsAbstract}
  BY DEF Required
<1>2. {<<at, t>> : t \in callees} \subseteq Started(s, context, at)
  BY DEF Started
<1> HIDE DEF T, callees
<1>3. m \in callees
  BY DEF callees
<1>4. m \notin IsAbstract => T(m) \subseteq UNION {T(t) : t \in callees \ IsAbstract}
  BY <1>3
<1> QED
  BY <1>1, <1>2, <1>3, <1>4 DEF T

(* Initialisers are queued by the instructions that start them.            *)
LEMMA StartedInit ==
  ASSUME NEW s, NEW context, NEW at, InsnAt(at).init # NoMethod,
         \/ InsnAt(at).op \in {"new_instance", "sput", "sget"}
         \/ InsnAt(at).op = "invoke" /\ InsnAt(at).kind = "static"
  PROVE  <<NoInsn, InsnAt(at).init>> \in Started(s, context, at)
  BY DEF Started

-----------------------------------------------------------------------------
(* The edges of the graph are allowed.                                     *)

LEMMA AllowedConstant ==
  ASSUME prog' = prog, NEW s
  PROVE  /\ \A u, w : Allows(s, u, w)' = Allows(s, u, w)
         /\ \A e : EdgeAllowed(s, e)' = EdgeAllowed(s, e)
         /\ \A context, insn, r : VirtualCall(s, context, insn, r)' = VirtualCall(s, context, insn, r)
         /\ \A c : CallAllowed(s, c)' = CallAllowed(s, c)
<1>1. \A u, w : Allows(s, u, w)' = Allows(s, u, w)
  BY ProgramConstant DEF Allows
<1>2. \A site, context, f, o : Owner(s, site, context, f, o)' = Owner(s, site, context, f, o)
  BY ProgramConstant DEF Owner
<1>3. \A e : EdgeAllowed(s, e)' = EdgeAllowed(s, e)
  BY <1>1, <1>2 DEF EdgeAllowed, IsFlow
<1>4. \A context, insn, r : VirtualCall(s, context, insn, r)' = VirtualCall(s, context, insn, r)
  BY ProgramConstant DEF VirtualCall
<1>5. \A c : CallAllowed(s, c)' = CallAllowed(s, c)
  BY <1>4, ProgramConstant DEF CallAllowed
<1> QED
  BY <1>1, <1>3, <1>4, <1>5

LEMMA FlowEdgeAllowed ==
  ASSUME NEW s, NEW u, NEW w, NEW k \in FlowKinds, Allows(s, u, w)
  PROVE  EdgeAllowed(s, Edge(u, w, k))
  BY DEF EdgeAllowed, Edge, IsFlow, FlowKinds

(* A call of a method that the solution calls.                             *)
LEMMA CallEdgesAllowed ==
  ASSUME TypeInv, ArgumentsInPlace, NEW s, Solves(s), NEW context, NEW at \in CallSites,
         <<context, at[1]>> \in s.reach,
         NEW m \in Callees(s, InsnAt(at), at, context), m \in Targets(InsnAt(at).callee)
  PROVE  /\ \A e \in InvokeEdges(context, at, m) : EdgeAllowed(s, e)
         /\ <<at, m>> \in s.reach
<1> DEFINE x == InsnAt(at)
<1>1. /\ at = <<at[1], at[2]>> /\ at[1] \in Method /\ at[2] \in 1 .. Len(prog.code[at[1]])
      /\ x.op = "invoke" /\ x = prog.code[at[1]][at[2]]
  BY DEF CallSites, IsInsn, Point, InsnAt
<1>2. /\ \A v, a : <<v, a>> \in Required(s, context, at) /\ Passes(v, a) => <<v, a>> \in s.pts
      /\ Started(s, context, at) \subseteq s.reach
  BY <1>1, SolutionHas
<1>3. /\ m \notin IsAbstract => CallPts(s, x, at, context, m) \subseteq Required(s, context, at)
      /\ <<at, m>> \in Started(s, context, at)
  BY <1>1, RequiredCall
<1>4. ASSUME m \notin IsAbstract, NEW e \in ArgumentEdges(context, at, m) PROVE EdgeAllowed(s, e)
  <2>1. PICK k \in 1 .. Len(Params[m]) :
          /\ Params[m][k] = "L"
          /\ e \in {Edge(r, RegVertex(<<m, 0, Offset(m, k)>>, at), "assign") :
                     r \in Regs(Argument(x, m, k), at, context)}
    BY <1>4 DEF ArgumentEdges
  <2>2. PICK r \in Regs(Argument(x, m, k), at, context) :
          e = Edge(r, RegVertex(<<m, 0, Offset(m, k)>>, at), "assign")
    BY <2>1
  <2>3. Argument(x, m, k) = x.args[Offset(m, k) + 1]
    BY <1>1, <2>1 DEF ArgumentsInPlace, TypeInv
  <2> DEFINE param == RegVertex(<<m, 0, Offset(m, k)>>, at)
  <2>4. ASSUME NEW a, May(s, r, a), Passes(param, a) PROVE <<param, a>> \in s.pts
    <3>1. <<r, a>> \in s.pts
      BY <2>4, MayPair, RegsKind
    <3>2. a \in RegsHold(s, x.args[Offset(m, k) + 1], at, context)
      BY <2>3, <3>1, RegsHoldPair
    <3>3. <<param, a>> \in CallPts(s, x, at, context, m)
      BY <2>1, <3>2 DEF CallPts
    <3> QED
      BY <1>2, <1>3, <1>4, <2>4, <3>3
  <2>5. Allows(s, r, param)
    BY <2>4 DEF Allows
  <2> QED
    BY <2>2, <2>5, FlowEdgeAllowed DEF FlowKinds
<1>5. ASSUME m \notin IsAbstract, NEW e \in ResultEdges(context, at, m) PROVE EdgeAllowed(s, e)
  <2> DEFINE result == RegVertex(ExitSite(m), at)
  <2>1. e = Edge(result, Def(at, context), "assign") /\ m \in ReturnsRef
    BY <1>5 DEF ResultEdges, Def
  <2>2. ASSUME NEW a, May(s, result, a), Passes(Def(at, context), a)
        PROVE  <<Def(at, context), a>> \in s.pts
    <3>1. <<result, a>> \in s.pts
      BY <2>2, MayPair, RegKind
    <3>2. a \in Holds(s, result)
      BY <3>1, HoldsPair
    <3>3. <<Def(at, context), a>> \in CallPts(s, x, at, context, m)
      BY <2>1, <3>2 DEF CallPts, Def
    <3> QED
      BY <1>2, <1>3, <1>5, <2>2, <3>3
  <2>3. Allows(s, result, Def(at, context))
    BY <2>2 DEF Allows
  <2> QED
    BY <2>1, <2>3, FlowEdgeAllowed DEF FlowKinds
<1> QED
  BY <1>2, <1>3, <1>4, <1>5 DEF InvokeEdges

LEMMA HereIsPair == Here[1] = Current /\ Here[2] = ip /\ DefSite = <<Here[1], Here[2], 0>>
  BY DEF Here, DefSite

LEMMA AllocEdgeAllowed ==
  ASSUME NEW s, Demanded(s), InsnAt(Here).op \in {"new_instance", "const_string"}
  PROVE  EdgeAllowed(s, Edge(AllocVertex(Here), Def(Here, Context), "alloc"))
<1>1. ASSUME NEW a, May(s, AllocVertex(Here), a), Passes(Def(Here, Context), a)
      PROVE  <<Def(Here, Context), a>> \in s.pts
  <2>1. a = AllocVertex(Here)
    BY <1>1 DEF May, AllocVertex
  <2> QED
    BY <1>1, <2>1, RequiredAlloc DEF Demanded
<1>2. Allows(s, AllocVertex(Here), Def(Here, Context))
  BY <1>1 DEF Allows
<1> QED
  BY <1>2, FlowEdgeAllowed DEF FlowKinds

LEMMA AssignEdgeAllowed ==
  ASSUME NEW s, Demanded(s), NEW r \in Regs(InsnAt(Here).src, Here, Context), NEW dst,
         \/ InsnAt(Here).op \in {"move_object", "check_cast"} /\ dst = Def(Here, Context)
         \/ InsnAt(Here).op = "return_object" /\ dst = RegVertex(ExitSite(Here[1]), Context)
         \/ InsnAt(Here).op = "sput" /\ dst = StaticVertex(InsnAt(Here).field)
  PROVE  \A k \in FlowKinds : EdgeAllowed(s, Edge(r, dst, k))
<1>1. ASSUME NEW a, May(s, r, a), Passes(dst, a)
      PROVE  <<dst, a>> \in s.pts
  <2>1. <<r, a>> \in s.pts
    BY <1>1, MayPair, RegsKind
  <2>2. <<dst, a>> \in Required(s, Context, Here)
    BY <2>1, RequiredAssign
  <2> QED
    BY <1>1, <2>2 DEF Demanded
<1>2. Allows(s, r, dst)
  BY <1>1 DEF Allows
<1> QED
  BY <1>2, FlowEdgeAllowed

LEMMA SloadEdgeAllowed ==
  ASSUME NEW s, Demanded(s), InsnAt(Here).op = "sget"
  PROVE  EdgeAllowed(s, Edge(StaticVertex(InsnAt(Here).field), Def(Here, Context), "sload"))
<1> DEFINE static == StaticVertex(InsnAt(Here).field)
<1>1. ASSUME NEW a, May(s, static, a), Passes(Def(Here, Context), a)
      PROVE  <<Def(Here, Context), a>> \in s.pts
  <2>1. <<static, a>> \in s.pts
    BY <1>1, MayPair DEF StaticVertex
  <2> QED
    BY <1>1, <2>1, RequiredStatic DEF Demanded
<1>2. Allows(s, static, Def(Here, Context))
  BY <1>1 DEF Allows
<1> QED
  BY <1>2, FlowEdgeAllowed DEF FlowKinds

LEMMA FieldVertexParts ==
  ASSUME NEW site, NEW f, NEW context
  PROVE  /\ RegFieldVertex(site, f, context).hdl = site
         /\ RegFieldVertex(site, f, context).field = f
         /\ RegFieldVertex(site, f, context).context = context
  BY DEF RegFieldVertex

LEMMA StoreEdgeAllowed ==
  ASSUME NEW s, Demanded(s), InsnAt(Here).op = "store",
         NEW site \in Incoming(InsnAt(Here).obj, Here),
         NEW r \in Regs(InsnAt(Here).src, Here, Context)
  PROVE  EdgeAllowed(s, Edge(r, RegFieldVertex(site, InsnAt(Here).field, Context), "store"))
<1> DEFINE f == InsnAt(Here).field
           e == Edge(r, RegFieldVertex(site, f, Context), "store")
<1>1. /\ e.src = r /\ e.kind = "store" /\ e.dst = RegFieldVertex(site, f, Context)
      /\ e.dst.hdl = site /\ e.dst.field = f /\ e.dst.context = Context
  BY FieldVertexParts DEF Edge
<1>2. RegVertex(site, Context) \in Regs(InsnAt(Here).obj, Here, Context)
  BY DEF Regs
<1>3. ASSUME NEW o, Owner(s, site, Context, f, o), NEW a, May(s, r, a),
             Passes(AllocFieldVertex(o.hdl, f), a)
      PROVE  <<AllocFieldVertex(o.hdl, f), a>> \in s.pts
  <2>1. <<r, a>> \in s.pts /\ <<RegVertex(site, Context), o>> \in s.pts /\ HasField(o, f)
    BY <1>3, MayPair, RegsKind, RegKind DEF Owner
  <2>2. <<AllocFieldVertex(o.hdl, f), a>> \in Required(s, Context, Here)
    BY <1>2, <2>1, RequiredStore
  <2> QED
    BY <1>3, <2>2 DEF Demanded
<1>4. \A o : Owner(s, site, Context, f, o) => Allows(s, r, AllocFieldVertex(o.hdl, f))
  BY <1>3 DEF Allows
<1> HIDE DEF e, f
<1>5. EdgeAllowed(s, e)
  BY <1>1, <1>4 DEF EdgeAllowed, IsFlow, FlowKinds
<1> QED
  BY <1>5 DEF e, f

LEMMA LoadEdgeAllowed ==
  ASSUME NEW s, Demanded(s), InsnAt(Here).op = "load",
         NEW site \in Incoming(InsnAt(Here).obj, Here)
  PROVE  EdgeAllowed(s, Edge(RegFieldVertex(site, InsnAt(Here).field, Context),
                             Def(Here, Context), "load"))
<1> DEFINE f == InsnAt(Here).field
           w == Def(Here, Context)
           e == Edge(RegFieldVertex(site, f, Context), w, "load")
<1>1. /\ e.dst = w /\ e.kind = "load" /\ e.src = RegFieldVertex(site, f, Context)
      /\ e.src.hdl = site /\ e.src.field = f /\ e.src.context = Context
  BY FieldVertexParts DEF Edge
<1>2. RegVertex(site, Context) \in Regs(InsnAt(Here).obj, Here, Context)
  BY DEF Regs
<1>3. ASSUME NEW o, Owner(s, site, Context, f, o), NEW a, May(s, AllocFieldVertex(o.hdl, f), a),
             Passes(w, a)
      PROVE  <<w, a>> \in s.pts
  <2>1. AllocFieldVertex(o.hdl, f).kind # "alloc"
    BY DEF AllocFieldVertex
  <2>2. /\ <<AllocFieldVertex(o.hdl, f), a>> \in s.pts
        /\ <<RegVertex(site, Context), o>> \in s.pts /\ HasField(o, f)
    BY <1>3, <2>1, MayPair, RegKind DEF Owner
  <2>3. <<w, a>> \in Required(s, Context, Here)
    BY <1>2, <2>2, RequiredLoad
  <2> QED
    BY <1>3, <2>3 DEF Demanded
<1>4. \A o : Owner(s, site, Context, f, o) => Allows(s, AllocFieldVertex(o.hdl, f), w)
  BY <1>3 DEF Allows
<1> HIDE DEF e, f, w
<1>5. EdgeAllowed(s, e)
  BY <1>1, <1>4 DEF EdgeAllowed, IsFlow, FlowKinds
<1> QED
  BY <1>5 DEF e, f, w

(* The callees that the visit connects and queues at once.                 *)
LEMMA VisitedCallees ==
  ASSUME TypeInv, NEW s, At({"invoke"}), ~(OnTheFly /\ Insn.kind = "virtual"),
         NEW k \in 1 .. Len(Overrides[Insn.callee])
  PROVE  /\ Overrides[Insn.callee][k] \in Callees(s, InsnAt(Here), Here, Context)
         /\ Overrides[Insn.callee][k] \in Targets(InsnAt(Here).callee)
<1>1. InsnAt(Here) = Insn
  BY VisitingInsn
<1> QED
  BY <1>1 DEF Callees, Targets

LEMMA VisitAllowed ==
  ASSUME TypeInv, ArgumentsInPlace, NEW s, Solves(s), Within(s), Visit
  PROVE  \A e \in edges' \ edges : EdgeAllowed(s, e)
<1>1. CASE VisitAlloc
  <2>1. /\ Demanded(s) /\ InsnAt(Here).op \in {"new_instance", "const_string"}
    BY <1>1, HereDemanded, VisitingInsn DEF VisitAlloc
  <2>2. edges' = edges \cup {Edge(AllocVertex(Here), Def(Here, Context), "alloc")}
    BY <1>1, HereIsPair DEF VisitAlloc, Def
  <2> QED
    BY <2>1, <2>2, AllocEdgeAllowed
<1>2. CASE VisitAssign
  <2>1. /\ Demanded(s) /\ InsnAt(Here) = Insn
        /\ Insn.op \in {"move_object", "check_cast", "return_object"}
    BY <1>2, HereDemanded, VisitingInsn DEF VisitAssign
  <2> DEFINE dst == RegVertex(IF Insn.op = "return_object" THEN ExitSite(Current)
                                                           ELSE DefSite, Context)
  <2>2. \/ Insn.op \in {"move_object", "check_cast"} /\ dst = Def(Here, Context)
        \/ Insn.op = "return_object" /\ dst = RegVertex(ExitSite(Here[1]), Context)
    BY <2>1, HereIsPair DEF Def
  <2>3. edges' = edges \cup {Edge(r, dst, "assign") : r \in Regs(Insn.src, Here, Context)}
    BY <1>2 DEF VisitAssign
  <2> HIDE DEF dst
  <2>4. \A r \in Regs(Insn.src, Here, Context) : EdgeAllowed(s, Edge(r, dst, "assign"))
    BY <2>1, <2>2, AssignEdgeAllowed DEF FlowKinds
  <2> QED
    BY <2>3, <2>4
<1>3. CASE VisitStore
  <2>1. Demanded(s) /\ InsnAt(Here) = Insn /\ Insn.op = "store"
    BY <1>3, HereDemanded, VisitingInsn DEF VisitStore
  <2> DEFINE objs == {o \in Incoming(Insn.obj, Here) : Regs(Insn.src, Here, Context) # {}}
             FieldOf(o) == RegFieldVertex(o, Insn.field, Context)
  <2>2. edges' = edges \cup UNION {{Edge(r, FieldOf(o), "store") :
                                     r \in Regs(Insn.src, Here, Context)} : o \in objs}
    BY <1>3 DEF VisitStore
  <2>3. ASSUME NEW e \in edges' \ edges PROVE EdgeAllowed(s, e)
    <3>1. PICK o \in objs, r \in Regs(Insn.src, Here, Context) : e = Edge(r, FieldOf(o), "store")
      BY <2>2
    <3> QED
      BY <2>1, <3>1, StoreEdgeAllowed
  <2> QED
    BY <2>3
<1>4. CASE VisitLoad
  <2>1. Demanded(s) /\ InsnAt(Here) = Insn /\ Insn.op = "load"
    BY <1>4, HereDemanded, VisitingInsn DEF VisitLoad
  <2>2. edges' = edges \cup {Edge(RegFieldVertex(o, Insn.field, Context), Def(Here, Context), "load") :
                               o \in Incoming(Insn.obj, Here)}
    BY <1>4, HereIsPair DEF VisitLoad, Def
  <2> QED
    BY <2>1, <2>2, LoadEdgeAllowed
<1>5. CASE VisitStatic
  <2>1. Demanded(s) /\ InsnAt(Here) = Insn /\ Insn.op \in {"sput", "sget"}
    BY <1>5, HereDemanded, VisitingInsn DEF VisitStatic
  <2>2. CASE Insn.op = "sput"
    <3>1. edges' = edges \cup {Edge(r, StaticVertex(Insn.field), "sstore") :
                                r \in Regs(Insn.src, Here, Context)}
      BY <1>5, <2>2 DEF VisitStatic
    <3>2. \A r \in Regs(Insn.src, Here, Context) :
            EdgeAllowed(s, Edge(r, StaticVertex(Insn.field), "sstore"))
      BY <2>1, <2>2, AssignEdgeAllowed DEF FlowKinds
    <3> QED
      BY <3>1, <3>2
  <2>3. CASE Insn.op = "sget"
    <3>1. edges' = edges \cup {Edge(StaticVertex(Insn.field), Def(Here, Context), "sload")}
      BY <1>5, <2>3, HereIsPair DEF VisitStatic, Def
    <3> QED
      BY <2>1, <2>3, <3>1, SloadEdgeAllowed
  <2> QED
    BY <2>1, <2>2, <2>3
<1>6. CASE VisitInvoke
  <2> DEFINE targets == IF OnTheFly /\ Insn.kind = "virtual" THEN <<>> ELSE Overrides[Insn.callee]
             new == UNION {InvokeEdges(Context, Here, targets[k]) : k \in 1 .. Len(targets)}
  <2>1. At({"invoke"}) /\ edges' = edges \cup new
    BY <1>6 DEF VisitInvoke
  <2>2. Here \in CallSites /\ <<Context, Here[1]>> \in s.reach
    BY <2>1, VisitingInsn, HeadReached, HereIsPair DEF CallSites, IsInsn, At
  <2>3. CASE OnTheFly /\ Insn.kind = "virtual"
    BY <2>1, <2>3
  <2>4. CASE ~(OnTheFly /\ Insn.kind = "virtual")
    <3>1. ASSUME NEW k \in 1 .. Len(targets)
          PROVE  \A e \in InvokeEdges(Context, Here, targets[k]) : EdgeAllowed(s, e)
      <4>1. targets = Overrides[Insn.callee]
        BY <2>4
      <4> HIDE DEF targets
      <4>2. PICK m : m = targets[k]
        OBVIOUS
      <4>3. m \in Callees(s, InsnAt(Here), Here, Context) /\ m \in Targets(InsnAt(Here).callee)
        BY <2>1, <2>4, <4>1, <4>2, VisitedCallees
      <4>4. \A e \in InvokeEdges(Context, Here, m) : EdgeAllowed(s, e)
        BY <2>2, <4>3, CallEdgesAllowed
      <4> QED
        BY <4>2, <4>4
    <3> HIDE DEF targets
    <3> QED
      BY <2>1, <3>1
  <2> QED
    BY <2>3, <2>4
<1>7. CASE SkipVisited \/ BeginMethod \/ EndMethod \/ VisitOther \/ QueueDrained
  BY <1>7 DEF SkipVisited, BeginMethod, EndMethod, VisitOther, QueueDrained, graph
<1> QED
  BY <1>1, <1>2, <1>3, <1>4, <1>5, <1>6, <1>7 DEF Visit

-----------------------------------------------------------------------------
(* The invocations queued are reached.                                     *)

Reached(s, q) == \A k \in 1 .. Len(q) : q[k] \in s.reach

LEMMA ReachedTail ==
  ASSUME NEW s, NEW S, NEW q \in Seq(S), q # <<>>, Reached(s, q)
  PROVE  Reached(s, Tail(q))
<1>1. \A k \in 1 .. Len(Tail(q)) : Tail(q)[k] = q[k + 1] /\ k + 1 \in 1 .. Len(q)
  OBVIOUS
<1> QED
  BY <1>1 DEF Reached

LEMMA ReachedConcat ==
  ASSUME NEW s, NEW S, NEW q \in Seq(S), NEW r \in Seq(S), Reached(s, q), Reached(s, r)
  PROVE  Reached(s, q \o r)
<1>1. ASSUME NEW k \in 1 .. Len(q \o r) PROVE (q \o r)[k] \in s.reach
  <2>1. Len(q) \in Nat /\ Len(r) \in Nat /\ k \in 1 .. Len(q) + Len(r)
    BY ConcatElements
  <2>2. k \in 1 .. Len(q) \/ \E j \in 1 .. Len(r) : k = Len(q) + j
    BY <2>1, PlaceInConcat
  <2> QED
    BY <2>2, ConcatElements DEF Reached
<1> QED
  BY <1>1 DEF Reached

LEMMA ClinitReached ==
  ASSUME TypeInv, NEW s, Demanded(s), queue # <<>>, Insn.init \in Method \cup {NoMethod},
         InsnAt(Here) = Insn,
         \/ Insn.op \in {"sput", "sget"}
         \/ Insn.op \in {"new_instance", "const_string"} /\
              (Insn.op = "const_string" => Insn.init = NoMethod)
         \/ Insn.op = "invoke" /\ Insn.kind = "static"
  PROVE  Clinit \in Seq(Contexts \X Method) /\ Reached(s, Clinit)
<1>1. CASE Insn.init = NoMethod
  BY <1>1 DEF Clinit, Reached
<1>2. CASE Insn.init # NoMethod
  <2>1. Clinit = <<<<NoInsn, Insn.init>>>> /\ <<NoInsn, Insn.init>> \in Contexts \X Method
    BY <1>2 DEF Clinit, Contexts
  <2>2. <<NoInsn, Insn.init>> \in s.reach
    BY <1>2, StartedInit DEF Demanded
  <2> QED
    BY <2>1, <2>2 DEF Reached
<1> QED
  BY <1>1, <1>2

LEMMA VisitReached ==
  ASSUME TypeInv, ArgumentsInPlace, NEW s, Solves(s), Within(s), Visit
  PROVE  Reached(s, queue')
<1> DEFINE Invocations == Contexts \X Method
<1>1. queue \in Seq(Invocations) /\ Reached(s, queue)
  BY DEF TypeInv, Within, Reached
<1>2. CASE SkipVisited \/ EndMethod
  <2>1. queue # <<>> /\ queue' = Tail(queue)
    BY <1>2 DEF SkipVisited, EndMethod
  <2> QED
    BY <1>1, <2>1, ReachedTail
<1>3. CASE BeginMethod \/ VisitAssign \/ VisitStore \/ VisitLoad \/ VisitOther \/ QueueDrained
  <2>1. queue' = queue
    BY <1>3 DEF BeginMethod, VisitAssign, VisitStore, VisitLoad, VisitOther, QueueDrained, scan
  <2> QED
    BY <1>1, <2>1
<1>4. CASE VisitAlloc \/ VisitStatic
  <2>1. PICK ops : At(ops) /\ ops \in {{"new_instance", "const_string"}, {"sput", "sget"}}
    BY <1>4 DEF VisitAlloc, VisitStatic
  <2>2. Demanded(s) /\ InsnAt(Here) = Insn /\ WellFormed(Insn) /\ Insn.op \in ops /\ queue # <<>>
    BY <2>1, HereDemanded, VisitingInsn DEF At
  <2>3. Clinit \in Seq(Invocations) /\ Reached(s, Clinit)
    <3>1. Insn.init \in Method \cup {NoMethod} /\ (Insn.op = "const_string" => Insn.init = NoMethod)
      BY <2>1, <2>2 DEF WellFormed
    <3> QED
      BY <2>1, <2>2, <3>1, ClinitReached
  <2>4. queue' = queue \o Clinit
    BY <1>4 DEF VisitAlloc, VisitStatic
  <2> QED
    BY <1>1, <2>3, <2>4, ReachedConcat
<1>5. CASE VisitInvoke
  <2> DEFINE targets == IF OnTheFly /\ Insn.kind = "virtual" THEN <<>> ELSE Overrides[Insn.callee]
             start == IF Insn.kind = "static" THEN Clinit ELSE <<>>
             calling == [k \in 1 .. Len(targets) |-> <<Here, targets[k]>>]
  <2>1. At({"invoke"}) /\ queue' = queue \o start \o calling
    BY <1>5 DEF VisitInvoke
  <2>2. Demanded(s) /\ InsnAt(Here) = Insn /\ WellFormed(Insn) /\ Insn.op = "invoke" /\ queue # <<>>
    BY <2>1, HereDemanded, VisitingInsn DEF At
  <2>3. start \in Seq(Invocations) /\ Reached(s, start)
    <3>1. Insn.init \in Method \cup {NoMethod}
      BY <2>2 DEF WellFormed
    <3>2. CASE Insn.kind = "static"
      BY <2>2, <3>1, <3>2, ClinitReached
    <3>3. CASE Insn.kind # "static"
      BY <3>3 DEF Reached
    <3> QED
      BY <3>2, <3>3
  <2>4. calling \in Seq(Invocations) /\ Reached(s, calling)
    <3>1. targets \in Seq(Method) /\ Here \in Contexts
      BY <2>1, <2>2, VisitingInsn, HierarchyAssumption DEF WellFormed, Contexts
    <3> HIDE DEF targets
    <3>2. Len(targets) \in Nat /\ \A k \in 1 .. Len(targets) : targets[k] \in Method
      BY <3>1
    <3>3. calling \in Seq(Invocations) /\ Len(calling) = Len(targets)
      BY <3>1, <3>2
    <3>4. ASSUME NEW k \in 1 .. Len(targets) PROVE <<Here, targets[k]>> \in s.reach
      <4>1. ~(OnTheFly /\ Insn.kind = "virtual") /\ targets = Overrides[Insn.callee]
        BY <3>4 DEF targets
      <4>2. PICK m : m = targets[k]
        OBVIOUS
      <4>3. m \in Callees(s, InsnAt(Here), Here, Context)
        BY <2>1, <4>1, <4>2, VisitedCallees
      <4>4. <<Here, m>> \in Started(s, Context, Here)
        BY <2>2, <4>3, RequiredCall
      <4> QED
        BY <2>2, <4>2, <4>4 DEF Demanded
    <3> QED
      BY <3>3, <3>4 DEF Reached
  <2> HIDE DEF start, calling
  <2>5. queue \o start \in Seq(Invocations) /\ Reached(s, queue \o start)
    BY <1>1, <2>3, ReachedConcat
  <2> QED
    BY <2>1, <2>4, <2>5, ReachedConcat
<1> QED
  BY <1>2, <1>3, <1>4, <1>5 DEF Visit

-----------------------------------------------------------------------------
(* Precision: no step leaves a solution.                                   *)

RoundWithin(s) == InRound => \A a \in InSet(cur) : <<cur, a>> \in s.pts

LEMMA WithinGrow ==
  ASSUME NEW s, Within(s), prog' = prog, Reached(s, queue'), RoundWithin(s)',
         \A p \in pts' \ pts : p \in s.pts,
         \A p \in inset' \ inset : Passes(p[1], p[2]) => p \in s.pts,
         \A i \in visited' \ visited : i \in s.reach,
         \A e \in edges' \ edges : EdgeAllowed(s, e),
         \A vi \in vinvoke' \ vinvoke : VirtualCall(s, vi[2][1], vi[2][2], vi[1]),
         \A c \in calls' \ calls : CallAllowed(s, c),
         \A e \in todo' \ todo : Allows(s, e[1], e[2])
  PROVE  Within(s)'
<1>1. /\ \A p \in pts' : p \in s.pts
      /\ \A p \in inset' : Passes(p[1], p[2]) => p \in s.pts
      /\ \A i \in visited' : i \in s.reach
  BY DEF Within
<1>2. /\ \A e \in edges' : EdgeAllowed(s, e)
      /\ \A vi \in vinvoke' : VirtualCall(s, vi[2][1], vi[2][2], vi[1])
      /\ \A c \in calls' : CallAllowed(s, c)
      /\ \A e \in todo' : Allows(s, e[1], e[2])
  BY DEF Within
<1>3. \A p \in inset' : Passes(p[1], p[2])' => p \in s.pts
  BY <1>1, ProgramConstant
<1>4. /\ \A e \in edges' : EdgeAllowed(s, e)'
      /\ \A vi \in vinvoke' : VirtualCall(s, vi[2][1], vi[2][2], vi[1])'
      /\ \A c \in calls' : CallAllowed(s, c)'
      /\ \A e \in todo' : Allows(s, e[1], e[2])'
  BY <1>2, AllowedConstant
<1> QED
  BY <1>1, <1>3, <1>4 DEF Within, Reached, RoundWithin

(* What the graph says a vertex points to, it may.                         *)
LEMMA PointsToMay ==
  ASSUME TypeInv, GraphInv, NEW s, Within(s), NEW v, NEW a \in PointsToSet(v)
  PROVE  May(s, v, a)
<1>1. <<v, a>> \in pts \/ (v.kind = "alloc" /\ a = v)
  BY PointsToPair
<1>2. CASE <<v, a>> \in pts
  <2>1. <<v, a>>[1] = v /\ <<v, a>> \in pts \cup inset
    BY <1>2
  <2>2. v.kind # "alloc"
    BY <2>1 DEF GraphInv
  <2> QED
    BY <1>2, <2>2 DEF Within, May
<1> QED
  BY <1>1, <1>2 DEF May

(* Sending what u points to along an edge that is allowed.                 *)
LEMMA SendWithin ==
  ASSUME TypeInv, GraphInv, NEW s, Within(s), NEW u, NEW w, Allows(s, u, w),
         NEW a \in PointsToSet(u), Passes(w, a)
  PROVE  <<w, a>> \in s.pts
  BY PointsToMay DEF Allows

(* An object passes the type test of the register it is assigned to.       *)
LEMMA AllocPasses ==
  ASSUME TypeInv, At({"new_instance", "const_string"})
  PROVE  Passes(RegVertex(DefSite, Context), AllocVertex(Here))
<1>1. /\ InsnAt(Here) = Insn /\ Insn.op \in {"new_instance", "const_string"} /\ Insn.type \in Type
      /\ ip \in 1 .. Len(prog.code[Current])
  BY VisitingInsn DEF WellFormed
<1>2. TypeOf(AllocVertex(Here)) = Insn.type
  BY <1>1 DEF TypeOf, AllocVertex
<1>3. TypeOf(RegVertex(DefSite, Context)) = Insn.type
  BY <1>1 DEF TypeOf, RegVertex, DefSite, InsnAt, Here
<1> QED
  BY <1>1, <1>2, <1>3, HierarchyAssumption DEF Passes

LEMMA VisitAllocWithin ==
  ASSUME TypeInv, GraphInv, NEW s, Solves(s), Within(s), VisitAlloc
  PROVE  /\ RoundWithin(s)'
         /\ \A p \in inset' \ inset : p \in s.pts
<1>1. PICK src, dst, sent, c : /\ src = AllocVertex(Here) /\ dst = RegVertex(DefSite, Context)
                              /\ sent = PointsToSet(src) /\ c = cur
  OBVIOUS
<1>2. Propagate(dst, sent) /\ cur' = c /\ pc' = pc
  BY <1>1 DEF VisitAlloc, NextInsn, step
<1>3. EdgeAllowed(s, Edge(src, dst, "alloc"))
  <2>1. Demanded(s) /\ InsnAt(Here).op \in {"new_instance", "const_string"}
    BY HereDemanded, VisitingInsn DEF VisitAlloc
  <2> QED
    BY <1>1, <2>1, AllocEdgeAllowed, HereIsPair DEF Def
<1>4. Allows(s, src, dst)
  BY <1>3 DEF EdgeAllowed, Edge, IsFlow, FlowKinds
<1>5. ASSUME NEW a \in sent PROVE <<dst, a>> \in s.pts
  <2>1. src.kind = "alloc"
    BY <1>1 DEF AllocVertex
  <2>2. a = src
    BY <1>1, <1>5, <2>1, PointsToMay DEF May
  <2>3. Passes(dst, a)
    BY <1>1, <2>2, AllocPasses DEF VisitAlloc
  <2> QED
    BY <1>1, <1>4, <1>5, <2>3, SendWithin
<1>6. \A p \in inset' \ inset : p \in s.pts
  BY <1>2, <1>5 DEF Propagate
<1>7. \A a \in InSet(c)' : a \in InSet(c) \/ (c = dst /\ a \in sent)
  BY <1>2, PropagateInSet
<1>8. InSet(cur)' = InSet(c)' /\ InRound' = InRound
  BY <1>1, <1>2 DEF InSet, InRound
<1> QED
  BY <1>1, <1>2, <1>5, <1>6, <1>7, <1>8 DEF RoundWithin, Within

(* The rest of the state, in the visit of an instruction.                  *)
LEMMA VisitVirtual ==
  ASSUME TypeInv, NEW s, Within(s), Visit, NEW vi \in vinvoke' \ vinvoke
  PROVE  VirtualCall(s, vi[2][1], vi[2][2], vi[1])
<1>1. CASE VisitInvoke
  <2>1. /\ At({"invoke"}) /\ Insn.kind = "virtual"
        /\ vi \in {<<r, <<Context, Here>>>> : r \in Regs(Insn.args[1], Here, Context)}
    BY <1>1 DEF VisitInvoke
  <2>2. InsnAt(Here) = Insn /\ <<Context, Here[1]>> \in s.reach
    BY <2>1, VisitingInsn, HeadReached, HereIsPair DEF At
  <2> QED
    BY <2>1, <2>2 DEF VirtualCall
<1> QED
  BY <1>1 DEF Visit, SkipVisited, BeginMethod, EndMethod, VisitAlloc, VisitAssign,
     VisitStore, VisitLoad, VisitStatic, VisitOther, QueueDrained, graph

LEMMA VisitWithin ==
  ASSUME TypeInv, GraphInv, ArgumentsInPlace, NEW s, Solves(s), Within(s), Visit
  PROVE  Within(s)'
<1>1. prog' = prog /\ pts' = pts /\ cur' = cur /\ calls' = calls /\ todo' = todo
  BY DEF Visit, SkipVisited, BeginMethod, EndMethod, VisitAlloc, VisitAssign, VisitStore,
     VisitLoad, VisitStatic, VisitInvoke, VisitOther, QueueDrained, NextInsn, step, sets
<1>2. RoundWithin(s)' /\ \A p \in inset' \ inset : p \in s.pts
  <2>1. CASE VisitAlloc
    BY <2>1, VisitAllocWithin
  <2>2. CASE ~VisitAlloc
    <3>1. inset' = inset
      BY <2>2, VisitEdges
    <3>2. InSet(cur)' = InSet(cur)
      BY <1>1, <3>1 DEF InSet
    <3>3. InRound' => InRound
      BY <1>1 DEF InRound, Visit, SkipVisited, BeginMethod, EndMethod, VisitAlloc, VisitAssign,
         VisitStore, VisitLoad, VisitStatic, VisitInvoke, VisitOther, QueueDrained, NextInsn, At
    <3> QED
      BY <1>1, <3>1, <3>2, <3>3 DEF RoundWithin, Within
  <2> QED
    BY <2>1, <2>2
<1>3. \A i \in visited' \ visited : i \in s.reach
  BY HeadReached DEF Visit, SkipVisited, BeginMethod, EndMethod, VisitAlloc, VisitAssign,
     VisitStore, VisitLoad, VisitStatic, VisitInvoke, VisitOther, QueueDrained, NextInsn, scan
<1> QED
  BY <1>1, <1>2, <1>3, VisitReached, VisitAllowed, VisitVirtual, WithinGrow

(* The edges of a dereference are allowed.                                 *)
LEMMA DerefAllowed ==
  ASSUME TypeInv, GraphInv, NEW s, Within(s), NEW v, NEW new,
         \A a \in new : <<v, a>> \in s.pts, NEW e \in DerefEdges(v, new)
  PROVE  Allows(s, e[1], e[2])
<1>1. PICK d \in {p[2] : p \in {q \in deref : q[1] = v}}, a \in new :
        LET af == AllocFieldVertex(a.hdl, d.field)
        IN  /\ HasField(a, d.field)
            /\ \/ \E u \in Preds(edges, d) : e = <<u, af>>
               \/ \E w \in Succs(edges, d) : e = <<af, w>>
  BY DEF DerefEdges
<1>2. PICK af : af = AllocFieldVertex(a.hdl, d.field)
  OBVIOUS
<1>3. d.kind = "reg_dot_field" /\ v = RegVertex(d.hdl, d.context)
  BY DEF TypeInv, GraphInv, ShapeInv
<1>4. Owner(s, d.hdl, d.context, d.field, a)
  BY <1>1, <1>3 DEF Owner, May, RegVertex
<1>5. CASE \E u \in Preds(edges, d) : e = <<u, af>>
  <2>1. PICK x \in edges : x.dst = d /\ e = <<x.src, af>>
    BY <1>5 DEF Preds
  <2>2. x.kind = "store" /\ EdgeAllowed(s, x)
    BY <1>3, <2>1 DEF GraphInv, ShapeInv, Within
  <2> QED
    BY <1>2, <1>4, <2>1, <2>2 DEF EdgeAllowed
<1>6. CASE \E w \in Succs(edges, d) : e = <<af, w>>
  <2>1. PICK x \in edges : x.src = d /\ e = <<af, x.dst>>
    BY <1>6 DEF Succs
  <2>2. x.kind = "load" /\ EdgeAllowed(s, x)
    BY <1>3, <2>1 DEF GraphInv, ShapeInv, Within
  <2> QED
    BY <1>2, <1>4, <2>1, <2>2 DEF EdgeAllowed
<1> QED
  BY <1>1, <1>2, <1>5, <1>6

LEMMA QueueReached ==
  ASSUME NEW s, Within(s), queue' = queue
  PROVE  Reached(s, queue')
  BY DEF Within, Reached

LEMMA PopWithin ==
  ASSUME TypeInv, GraphInv, NEW s, Within(s), Pop
  PROVE  Within(s)'
<1>1. PICK v, new : /\ new = Filtered(v) /\ cur' = v /\ edges' = edges /\ vinvoke' = vinvoke
                    /\ inset' = WithInSet(v, new) /\ pts' = pts \cup {<<v, a>> : a \in new}
                    /\ todo' \subseteq DerefEdges(v, new) /\ prog' = prog /\ queue' = queue
                    /\ visited' = visited /\ calls' = calls
  BY DEF Pop, graph, scan
<1>2. \A a \in new : <<v, a>> \in s.pts
  <2>1. ASSUME NEW a \in new PROVE <<v, a>> \in s.pts
    <3>1. <<v, a>> \in inset /\ Passes(v, a)
      BY <1>1, InSetPair DEF Filtered
    <3> QED
      BY <3>1 DEF Within
  <2> QED
    BY <2>1
<1>3. InSet(v)' = new /\ InSet(cur)' = InSet(v)'
  BY <1>1, WithInSetEffect DEF InSet
<1>4. RoundWithin(s)'
  BY <1>1, <1>2, <1>3 DEF RoundWithin
<1>5. \A p \in inset' \ inset : Passes(p[1], p[2]) => p \in s.pts
  BY <1>1, <1>2 DEF WithInSet
<1>6. \A e \in todo' : Allows(s, e[1], e[2])
  BY <1>1, <1>2, DerefAllowed
<1> QED
  BY <1>1, <1>2, <1>4, <1>5, <1>6, QueueReached, WithinGrow

LEMMA AddDerefEdgeWithin ==
  ASSUME TypeInv, GraphInv, NEW s, Within(s), AddDerefEdge
  PROVE  Within(s)'
<1>1. PICK e \in todo : /\ edges' = edges \cup {Edge(e[1], e[2], "assign")}
                        /\ Propagate(e[2], PointsToSet(e[1])) /\ todo' = todo \ {e}
  BY DEF AddDerefEdge
<1>2. /\ prog' = prog /\ vinvoke' = vinvoke /\ pts' = pts /\ visited' = visited /\ queue' = queue
      /\ cur' = cur /\ calls' = calls /\ pc = "deref"
  BY DEF AddDerefEdge, scan
<1>3. Allows(s, e[1], e[2]) /\ e[2] # cur
  BY <1>2 DEF Within, GraphInv
<1>4. EdgeAllowed(s, Edge(e[1], e[2], "assign"))
  BY <1>3, FlowEdgeAllowed DEF FlowKinds
<1>5. \A a \in PointsToSet(e[1]) : Passes(e[2], a) => <<e[2], a>> \in s.pts
  BY <1>3, SendWithin
<1>6. \A p \in inset' \ inset : Passes(p[1], p[2]) => p \in s.pts
  <2>1. inset' = inset \cup {<<e[2], a>> : a \in PointsToSet(e[1])}
    BY <1>1 DEF Propagate
  <2> QED
    BY <1>5, <2>1
<1>7. RoundWithin(s)'
  <2>1. PICK c : c = cur
    OBVIOUS
  <2>2. InSet(c)' = InSet(c)
    BY <1>1, <1>3, <2>1, PropagateInSet
  <2>3. InSet(cur)' = InSet(c)' /\ InRound
    BY <1>2, <2>1 DEF InSet, InRound
  <2> QED
    BY <1>2, <2>1, <2>2, <2>3 DEF RoundWithin, Within
<1> QED
  BY <1>1, <1>2, <1>4, <1>6, <1>7, QueueReached, WithinGrow

LEMMA RoundKept ==
  ASSUME NEW s, Within(s), InRound, inset' = inset, cur' = cur
  PROVE  RoundWithin(s)'
<1>1. InSet(cur)' = InSet(cur)
  BY DEF InSet
<1> QED
  BY <1>1 DEF RoundWithin, Within

LEMMA CollectCallsWithin ==
  ASSUME TypeInv, NEW s, Within(s), CollectCalls
  PROVE  Within(s)'
<1>1. /\ prog' = prog /\ edges' = edges /\ vinvoke' = vinvoke /\ pts' = pts /\ inset' = inset
      /\ visited' = visited /\ queue' = queue /\ cur' = cur /\ todo' = todo /\ InRound
  BY DEF CollectCalls, graph, sets, scan, InRound
<1>2. ASSUME NEW c \in calls' PROVE CallAllowed(s, c)
  <2>1. PICK vi \in vinvoke, a \in InSet(cur) :
          OnTheFly /\ vi[1] = cur /\ c = <<vi[2][1], vi[2][2], TypeOf(a)>>
    BY <1>2 DEF CollectCalls
  <2>2. VirtualCall(s, vi[2][1], vi[2][2], vi[1]) /\ <<vi[1], a>> \in s.pts
    BY <1>1, <2>1 DEF Within
  <2>3. c[1] = vi[2][1] /\ c[2] = vi[2][2] /\ c[3] = TypeOf(a)
    BY <2>1
  <2> QED
    BY <2>1, <2>2, <2>3 DEF CallAllowed
<1> QED
  BY <1>1, <1>2, RoundKept, QueueReached, WithinGrow

LEMMA ProcessCallWithin ==
  ASSUME TypeInv, ArgumentsInPlace, NEW s, Solves(s), Within(s), ProcessCall
  PROVE  Within(s)'
<1>1. PICK c, m :
        /\ c \in calls /\ m = Dispatch[<<InsnAt(c[2]).callee, c[3]>>]
        /\ <<InsnAt(c[2]).callee, c[3]>> \in DOMAIN Dispatch
        /\ edges' = edges \cup InvokeEdges(c[1], c[2], m)
        /\ queue' = <<<<c[2], m>>>> /\ calls' = calls \ {c}
  BY DEF ProcessCall
<1>2. /\ prog' = prog /\ vinvoke' = vinvoke /\ pts' = pts /\ inset' = inset
      /\ visited' = visited /\ cur' = cur /\ todo' = todo /\ InRound
  BY DEF ProcessCall, sets, InRound
<1>3. c[2] \in CallSites /\ m \in Targets(InsnAt(c[2]).callee)
  BY <1>1 DEF TypeInv, Targets
<1>4. PICK r, a : /\ OnTheFly /\ VirtualCall(s, c[1], c[2], r)
                  /\ <<r, a>> \in s.pts /\ TypeOf(a) = c[3]
  BY <1>1 DEF Within, CallAllowed
<1>5. m \in Callees(s, InsnAt(c[2]), c[2], c[1])
  <2>1. a \in RegsHold(s, InsnAt(c[2]).args[1], c[2], c[1])
    BY <1>4, RegsHoldPair DEF VirtualCall
  <2> QED
    BY <1>1, <1>4, <2>1 DEF Callees, VirtualCall
<1>6. <<c[1], c[2][1]>> \in s.reach
  BY <1>4 DEF VirtualCall
<1>7. /\ \A e \in InvokeEdges(c[1], c[2], m) : EdgeAllowed(s, e)
      /\ <<c[2], m>> \in s.reach
  BY <1>3, <1>5, <1>6, CallEdgesAllowed
<1>8. Reached(s, queue')
  BY <1>1, <1>7 DEF Reached
<1> QED
  BY <1>1, <1>2, <1>7, <1>8, RoundKept, WithinGrow

LEMMA CallsDoneWithin ==
  ASSUME NEW s, Within(s), CallsDone
  PROVE  Within(s)'
<1>1. /\ prog' = prog /\ edges' = edges /\ vinvoke' = vinvoke /\ pts' = pts /\ inset' = inset
      /\ visited' = visited /\ queue' = queue /\ cur' = cur /\ calls' = calls /\ InRound
  BY DEF CallsDone, graph, sets, scan, InRound
<1>2. ASSUME NEW e \in todo' PROVE Allows(s, e[1], e[2])
  <2>1. PICK x \in edges : IsFlow(x) /\ e = <<x.src, x.dst>>
    BY <1>2 DEF CallsDone
  <2>2. EdgeAllowed(s, x)
    BY DEF Within
  <2> QED
    BY <2>1, <2>2 DEF EdgeAllowed
<1> QED
  BY <1>1, <1>2, RoundKept, QueueReached, WithinGrow

LEMMA ForwardWithin ==
  ASSUME TypeInv, GraphInv, NEW s, Within(s), Forward
  PROVE  Within(s)'
<1>1. PICK e, sent : /\ e \in todo /\ sent = InSet(cur) /\ Propagate(e[2], sent)
                     /\ todo' = todo \ {e}
  BY DEF Forward
<1>2. /\ prog' = prog /\ edges' = edges /\ vinvoke' = vinvoke /\ pts' = pts /\ visited' = visited
      /\ queue' = queue /\ cur' = cur /\ calls' = calls /\ pc = "forward" /\ InRound
  BY DEF Forward, graph, scan, InRound
<1>3. Allows(s, cur, e[2])
  BY <1>1, <1>2 DEF Within, GraphInv
<1>4. \A a \in InSet(cur) : <<cur, a>> \in s.pts
  BY <1>2 DEF Within
<1>5. ASSUME NEW a \in InSet(cur), Passes(e[2], a) PROVE <<e[2], a>> \in s.pts
  <2>1. <<cur, a>> \in pts \cup inset /\ <<cur, a>>[1] = cur
    BY <1>5, InSetPair
  <2>2. May(s, cur, a)
    BY <1>4, <2>1 DEF May, GraphInv
  <2> QED
    BY <1>3, <1>5, <2>2 DEF Allows
<1>6. \A p \in inset' \ inset : Passes(p[1], p[2]) => p \in s.pts
  <2>1. inset' = inset \cup {<<e[2], a>> : a \in sent}
    BY <1>1 DEF Propagate
  <2> QED
    BY <1>1, <1>5, <2>1
<1>7. RoundWithin(s)'
  <2>1. PICK c : c = cur
    OBVIOUS
  <2>2. InSet(c)' \subseteq InSet(c) \cup sent
    BY <1>1, PropagateInSet
  <2>3. InSet(cur)' = InSet(c)'
    BY <1>2, <2>1 DEF InSet
  <2> QED
    BY <1>1, <1>2, <1>4, <2>1, <2>2, <2>3 DEF RoundWithin
<1> QED
  BY <1>1, <1>2, <1>6, <1>7, QueueReached, WithinGrow

LEMMA EndRoundWithin ==
  ASSUME NEW s, Within(s), PopUnchanged \/ ClearInSet \/ UpdateCcg
  PROVE  Within(s)'
<1>1. /\ prog' = prog /\ edges' = edges /\ vinvoke' = vinvoke /\ pts' = pts /\ visited' = visited
      /\ queue' = queue /\ calls' = calls /\ todo' = todo /\ inset' \subseteq inset
  BY DEF PopUnchanged, ClearInSet, UpdateCcg, graph, sets, scan, step, WithInSet
<1>2. RoundWithin(s)'
  BY DEF PopUnchanged, ClearInSet, UpdateCcg, RoundWithin, InRound
<1> QED
  BY <1>1, <1>2, QueueReached, WithinGrow

LEMMA WithinNext ==
  ASSUME TypeInv, GraphInv, ArgumentsInPlace, NEW s, Solves(s), Within(s), [Next]_vars
  PROVE  Within(s)'
<1>1. CASE UNCHANGED vars
  <2>1. /\ prog' = prog /\ edges' = edges /\ vinvoke' = vinvoke /\ pts' = pts /\ inset' = inset
        /\ visited' = visited /\ queue' = queue /\ cur' = cur /\ calls' = calls /\ todo' = todo
        /\ pc' = pc
    BY <1>1 DEF vars, graph, sets, scan, step
  <2>2. RoundWithin(s)'
    BY <2>1, RoundKept DEF RoundWithin, InRound
  <2> QED
    BY <2>1, <2>2, QueueReached, WithinGrow
<1> QED
  BY <1>1, VisitWithin, PopWithin, AddDerefEdgeWithin, CollectCallsWithin, ProcessCallWithin,
     CallsDoneWithin, ForwardWithin, EndRoundWithin
  DEF Next, Update

LEMMA WithinInit ==
  ASSUME Init, NEW s, Solves(s)
  PROVE  Within(s)
<1>1. \A k \in 1 .. Len(queue) : queue[k] \in s.reach
  BY DEF Init, Solves
<1> QED
  BY <1>1 DEF Init, Within, InRound

(* The constraints are those of the program alone.                         *)
LEMMA CalleesConstant ==
  ASSUME prog' = prog
  PROVE  \A s, x, at, context : Callees(s, x, at, context)' = Callees(s, x, at, context)
<1>1. ASSUME NEW s, NEW x, NEW at, NEW context
      PROVE  Callees(s, x, at, context)' = Callees(s, x, at, context)
  <2>1. \A m : m \in Callees(s, x, at, context)' <=> m \in Callees(s, x, at, context)
    BY ProgramConstant DEF Callees
  <2> QED
    BY <2>1
<1> QED
  BY <1>1

LEMMA CallPtsConstant ==
  ASSUME prog' = prog
  PROVE  \A s, x, at, context, m : CallPts(s, x, at, context, m)' = CallPts(s, x, at, context, m)
<1>1. \A m : ExitSite(m)' = ExitSite(m)
  BY DEF ExitSite
<1>2. ASSUME NEW s, NEW x, NEW at, NEW context, NEW m
      PROVE  CallPts(s, x, at, context, m)' = CallPts(s, x, at, context, m)
  BY <1>1 DEF CallPts
<1> QED
  BY <1>2

LEMMA RequiredConstant ==
  ASSUME prog' = prog
  PROVE  \A s, context, at : Required(s, context, at)' = Required(s, context, at)
<1>1. ASSUME NEW s, NEW context, NEW at
      PROVE  Required(s, context, at)' = Required(s, context, at)
  <2>1. InsnAt(at)' = InsnAt(at) /\ ExitSite(at[1])' = ExitSite(at[1])
    BY ProgramConstant DEF ExitSite
  <2>2. CASE InsnAt(at).op = "store"
    <3>1. \A p : p \in Required(s, context, at)' <=> p \in Required(s, context, at)
      BY <2>1, <2>2, ProgramConstant DEF Required
    <3> QED
      BY <3>1
  <2>3. CASE InsnAt(at).op = "load"
    <3>1. \A p : p \in Required(s, context, at)' <=> p \in Required(s, context, at)
      BY <2>1, <2>3, ProgramConstant DEF Required
    <3> QED
      BY <3>1
  <2>4. CASE InsnAt(at).op = "invoke"
    <3> DEFINE callees == Callees(s, InsnAt(at), at, context)
               T(m) == CallPts(s, InsnAt(at), at, context, m)
    <3>1. callees' = callees /\ \A m : T(m)' = T(m)
      BY <2>1, CalleesConstant, CallPtsConstant
    <3>2. /\ Required(s, context, at) = UNION {T(m) : m \in callees \ IsAbstract}
          /\ Required(s, context, at)' = UNION {T(m)' : m \in callees' \ IsAbstract}
      BY <2>1, <2>4 DEF Required
    <3> HIDE DEF callees, T
    <3> QED
      BY <3>1, <3>2
  <2>5. CASE InsnAt(at).op \notin {"store", "load", "invoke"}
    BY <2>1, <2>5 DEF Required
  <2> QED
    BY <2>2, <2>3, <2>4, <2>5
<1> QED
  BY <1>1

LEMMA StartedConstant ==
  ASSUME prog' = prog
  PROVE  \A s, context, at : Started(s, context, at)' = Started(s, context, at)
  BY ProgramConstant, CalleesConstant DEF Started

LEMMA SolvesConstant ==
  ASSUME prog' = prog
  PROVE  \A s : Solves(s)' = Solves(s)
<1>1. ASSUME NEW s PROVE Infer(s)' = Infer(s)
  <2>1. Places(s)' = Places(s)
    BY DEF Places
  <2> DEFINE P(pl) == {p \in Required(s, pl[1], pl[2]) : Passes(p[1], p[2])}
             R(pl) == Started(s, pl[1], pl[2])
  <2>2. ASSUME NEW pl PROVE P(pl)' = P(pl)
    <3>1. \A p : p \in P(pl)' <=> p \in P(pl)
      BY ProgramConstant, RequiredConstant
    <3> QED
      BY <3>1
  <2>3. \A pl : R(pl)' = R(pl)
    BY StartedConstant
  <2>4. /\ Infer(s) = [pts |-> s.pts \cup UNION {P(pl) : pl \in Places(s)},
                       reach |-> s.reach \cup UNION {R(pl) : pl \in Places(s)}]
        /\ Infer(s)' = [pts |-> s.pts \cup UNION {P(pl)' : pl \in Places(s)'},
                        reach |-> s.reach \cup UNION {R(pl)' : pl \in Places(s)'}]
    BY DEF Infer, Places
  <2> HIDE DEF P, R
  <2>5. {P(pl)' : pl \in Places(s)'} = {P(pl) : pl \in Places(s)}
    BY <2>1, <2>2
  <2>6. {R(pl)' : pl \in Places(s)'} = {R(pl) : pl \in Places(s)}
    BY <2>1, <2>3
  <2> QED
    BY <2>4, <2>5, <2>6
<1> QED
  BY <1>1 DEF Solves

(* The analysis stays within the solution s of its program.                *)
WithinSolutions == \A s : Solves(s) => Within(s)

LEMMA WithinSolutionsNext ==
  ASSUME TypeInv, GraphInv, ArgumentsInPlace, WithinSolutions, [Next]_vars
  PROVE  WithinSolutions'
<1>1. prog' = prog
  BY DEF Next, Visit, Update, SkipVisited, BeginMethod, EndMethod, VisitAlloc, VisitAssign,
     VisitStore, VisitLoad, VisitStatic, VisitInvoke, VisitOther, QueueDrained, NextInsn,
     PopUnchanged, Pop, AddDerefEdge, CollectCalls, ProcessCall, CallsDone, Forward, ClearInSet,
     UpdateCcg, vars
<1>2. \A s : Solves(s)' = Solves(s)
  BY <1>1, SolvesConstant
<1>3. ASSUME NEW s, Solves(s) PROVE Within(s)'
  BY <1>3, WithinNext DEF WithinSolutions
<1> QED
  BY <1>2, <1>3 DEF WithinSolutions

LEMMA WithinSolutionsInv ==
  ASSUME ArgumentsInPlace
  PROVE  Spec => [](TypeInv /\ GraphInv /\ WithinSolutions)
<1>1. Init => WithinSolutions
  BY WithinInit DEF WithinSolutions
<1>2. TypeInv /\ GraphInv /\ WithinSolutions /\ [Next]_vars => WithinSolutions'
  BY WithinSolutionsNext
<1> QED
  BY <1>1, <1>2, TypeInvInit, TypeInvNext, GraphInvInit, GraphInvNext, PTL DEF Spec

(* The state is part of the solution s.                                    *)
Below(s) == pts \subseteq s.pts /\ visited \subseteq s.reach

(* The analysis is precise, in both modes: at no step does a points-to set *)
(* hold an object, or has an invocation been visited, that some solution   *)
(* of the program's constraints does without.  So the order in which the   *)
(* worklist, the nested visits of on-the-fly dispatch and the edges of     *)
(* update_dereferencer are taken never adds a spurious element             *)
(* (points_to.cpp, update).                                                *)
THEOREM BelowSolutions ==
  ASSUME ArgumentsInPlace
  PROVE  Spec => [](\A s : Solves(s) => Below(s))
<1>1. WithinSolutions => \A s : Solves(s) => Below(s)
  BY DEF WithinSolutions, Within, Below
<1> QED
  BY <1>1, WithinSolutionsInv, PTL

(* With enough rounds to settle the program, what the analysis reports is  *)
(* within the least solution that TLC compares it with.                    *)
THEOREM PreciseProved ==
  ASSUME ArgumentsInPlace
  PROVE  Spec /\ []Solves(LeastSolution) => []Precise
<1>1. (\A s : Solves(s) => Below(s)) /\ Solves(LeastSolution) => Precise
  BY DEF Below, Precise
<1> QED
  BY <1>1, BelowSolutions, PTL

-----------------------------------------------------------------------------
(* Completeness, with class hierarchy analysis: what the instructions      *)
(* visited require is asked for.                                           *)

Elements(q) == {q[k] : k \in 1 .. Len(q)}

LEMMA ElementsOfConcat ==
  ASSUME NEW S, NEW q \in Seq(S), NEW r \in Seq(S)
  PROVE  Elements(q) \subseteq Elements(q \o r) /\ Elements(r) \subseteq Elements(q \o r)
<1>1. ASSUME NEW k \in 1 .. Len(q) PROVE q[k] \in Elements(q \o r)
  <2>1. q[k] = (q \o r)[k] /\ k \in 1 .. Len(q \o r)
    BY ConcatElements
  <2> QED
    BY <2>1 DEF Elements
<1>2. ASSUME NEW k \in 1 .. Len(r) PROVE r[k] \in Elements(q \o r)
  <2>1. r[k] = (q \o r)[Len(q) + k] /\ Len(q) + k \in 1 .. Len(q \o r)
    BY ConcatElements
  <2> QED
    BY <2>1 DEF Elements
<1> QED
  BY <1>1, <1>2 DEF Elements

LEMMA ElementsOfTail ==
  ASSUME NEW S, NEW q \in Seq(S), q # <<>>
  PROVE  Elements(q) = {Head(q)} \cup Elements(Tail(q))
<1>1. ASSUME NEW k \in 1 .. Len(q) PROVE q[k] \in {Head(q)} \cup Elements(Tail(q))
  <2>1. CASE k = 1
    BY <2>1
  <2>2. CASE k # 1
    <3>1. q[k] = Tail(q)[k - 1] /\ k - 1 \in 1 .. Len(Tail(q))
      BY <2>2
    <3> QED
      BY <3>1 DEF Elements
  <2> QED
    BY <2>1, <2>2
<1>2. ASSUME NEW k \in 1 .. Len(Tail(q)) PROVE Tail(q)[k] \in Elements(q)
  <2>1. Tail(q)[k] = q[k + 1] /\ k + 1 \in 1 .. Len(q)
    OBVIOUS
  <2> QED
    BY <2>1 DEF Elements
<1>3. Head(q) \in Elements(q)
  <2>1. Head(q) = q[1] /\ 1 \in 1 .. Len(q)
    OBVIOUS
  <2> QED
    BY <2>1 DEF Elements
<1> QED
  BY <1>1, <1>2, <1>3 DEF Elements

LEMMA EnteredElements == Entered = visited \cup Elements(queue)
  BY DEF Entered, Elements

LEMMA InvokeEdgesConstant ==
  ASSUME prog' = prog
  PROVE  \A context, at, m : InvokeEdges(context, at, m)' = InvokeEdges(context, at, m)
<1>1. ASSUME NEW context, NEW at, NEW m
      PROVE  InvokeEdges(context, at, m)' = InvokeEdges(context, at, m)
  <2>1. InsnAt(at)' = InsnAt(at) /\ ExitSite(m)' = ExitSite(m)
    BY ProgramConstant DEF ExitSite
  <2>2. ArgumentEdges(context, at, m)' = ArgumentEdges(context, at, m)
    BY <2>1 DEF ArgumentEdges
  <2>3. ResultEdges(context, at, m)' = ResultEdges(context, at, m)
    BY <2>1 DEF ResultEdges
  <2> QED
    BY <2>2, <2>3 DEF InvokeEdges
<1> QED
  BY <1>1

(* A constraint that is asked for stays so.                                *)
LEMMA ConstrainedKept ==
  ASSUME prog' = prog, edges \subseteq edges', deref \subseteq deref', Entered \subseteq Entered',
         NEW context, NEW at, Constrained(context, at)
  PROVE  Constrained(context, at)'
<1>1. InsnAt(at)' = InsnAt(at) /\ ExitSite(at[1])' = ExitSite(at[1])
  BY ProgramConstant DEF ExitSite
<1>2. \A operand, c, dst, kind : Assigned(operand, at, c, dst, kind) =>
                                   Assigned(operand, at, c, dst, kind)'
  BY DEF Assigned
<1>3. \A c, m : InvokeEdges(c, at, m)' = InvokeEdges(c, at, m)
  BY InvokeEdgesConstant
<1> QED
  BY <1>1, <1>2, <1>3 DEF Constrained

(* What a step queues has been entered.                                    *)
LEMMA ClinitEntered ==
  ASSUME TypeInv, Insn.init \in Method \cup {NoMethod},
         queue # <<>>, Elements(queue \o Clinit) \subseteq Entered'
  PROVE  Insn.init = NoMethod \/ <<NoInsn, Insn.init>> \in Entered'
<1>1. CASE Insn.init # NoMethod
  <2>1. Clinit = <<<<NoInsn, Insn.init>>>> /\ <<NoInsn, Insn.init>> \in Contexts \X Method
    BY <1>1 DEF Clinit, Contexts
  <2>2. Elements(Clinit) \subseteq Elements(queue \o Clinit)
    <3>1. Clinit \in Seq(Contexts \X Method) /\ queue \in Seq(Contexts \X Method)
      BY <2>1 DEF TypeInv
    <3> QED
      BY <3>1, ElementsOfConcat
  <2>3. <<NoInsn, Insn.init>> \in Elements(Clinit)
    <3>1. Clinit[1] = <<NoInsn, Insn.init>> /\ 1 \in 1 .. Len(Clinit)
      BY <2>1
    <3> QED
      BY <3>1 DEF Elements
  <2> QED
    BY <2>2, <2>3
<1> QED
  BY <1>1

LEMMA VisitAllocConstrains ==
  ASSUME TypeInv, VisitAlloc, NEW context, context = Context, NEW at, at = Here,
         NEW x, x = Insn
  PROVE  Constrained(context, at)'
<1>1. /\ InsnAt(at) = x /\ x.op \in {"new_instance", "const_string"} /\ WellFormed(x)
      /\ queue # <<>> /\ prog' = prog /\ <<at[1], at[2], 0>> = DefSite
  BY VisitingInsn, HereIsPair DEF VisitAlloc, NextInsn, At
<1>2. Edge(AllocVertex(at), RegVertex(DefSite, context), "alloc") \in edges'
  BY DEF VisitAlloc
<1>3. queue' = queue \o Clinit /\ x.init \in Method \cup {NoMethod}
  BY <1>1 DEF VisitAlloc, WellFormed
<1>4. x.init = NoMethod \/ <<NoInsn, x.init>> \in Entered'
  <2>1. Elements(queue \o Clinit) \subseteq Entered'
    BY <1>3 DEF Entered, Elements
  <2> QED
    BY <1>1, <1>3, <2>1, ClinitEntered
<1>5. InsnAt(at)' = x
  BY <1>1, ProgramConstant
<1> QED
  BY <1>1, <1>2, <1>4, <1>5 DEF Constrained

LEMMA VisitAssignConstrains ==
  ASSUME TypeInv, VisitAssign, NEW context, context = Context, NEW at, at = Here,
         NEW x, x = Insn
  PROVE  Constrained(context, at)'
<1>1. /\ InsnAt(at) = x /\ x.op \in {"move_object", "check_cast", "return_object"}
      /\ prog' = prog /\ <<at[1], at[2], 0>> = DefSite /\ at[1] = Current
  BY VisitingInsn, HereIsPair DEF VisitAssign, NextInsn, At
<1>2. InsnAt(at)' = x /\ ExitSite(at[1])' = ExitSite(at[1])
  BY <1>1, ProgramConstant DEF ExitSite
<1>3. PICK dst : /\ dst = RegVertex(IF x.op = "return_object" THEN ExitSite(Current)
                                                              ELSE DefSite, Context)
                 /\ edges' = edges \cup {Edge(r, dst, "assign") : r \in Regs(x.src, Here, Context)}
  BY DEF VisitAssign
<1>4. Assigned(x.src, at, context, dst, "assign")'
  BY <1>3 DEF Assigned
<1> QED
  BY <1>1, <1>2, <1>3, <1>4 DEF Constrained

LEMMA VisitStoreConstrains ==
  ASSUME TypeInv, VisitStore, NEW context, context = Context, NEW at, at = Here,
         NEW x, x = Insn
  PROVE  Constrained(context, at)'
<1> DEFINE FieldOf(o) == RegFieldVertex(o, x.field, context)
           objs == {o \in Incoming(x.obj, at) : Regs(x.src, at, context) # {}}
<1>1. InsnAt(at) = x /\ x.op = "store" /\ prog' = prog
  BY VisitingInsn DEF VisitStore, NextInsn
<1>2. InsnAt(at)' = x
  BY <1>1, ProgramConstant
<1>3. /\ edges' = edges \cup UNION {{Edge(r, FieldOf(o), "store") :
                                      r \in Regs(x.src, at, context)} : o \in objs}
      /\ deref' = deref \cup {<<RegVertex(o, context), FieldOf(o)>> : o \in objs}
  BY DEF VisitStore
<1>4. \A o \in Incoming(x.obj, at) : Assigned(x.src, at, context, FieldOf(o), "store")'
  <2>1. ASSUME NEW o \in Incoming(x.obj, at), NEW r \in Regs(x.src, at, context)
        PROVE  Edge(r, FieldOf(o), "store") \in edges'
    <3>1. o \in objs
      OBVIOUS
    <3> HIDE DEF objs, FieldOf
    <3> QED
      BY <1>3, <3>1
  <2> QED
    BY <2>1 DEF Assigned
<1>5. \A o \in Incoming(x.obj, at) : Regs(x.src, at, context) # {} =>
        <<RegVertex(o, context), FieldOf(o)>> \in deref'
  BY <1>3
<1> QED
  BY <1>1, <1>2, <1>4, <1>5 DEF Constrained

LEMMA VisitLoadConstrains ==
  ASSUME TypeInv, VisitLoad, NEW context, context = Context, NEW at, at = Here,
         NEW x, x = Insn
  PROVE  Constrained(context, at)'
<1> DEFINE FieldOf(o) == RegFieldVertex(o, x.field, context)
<1>1. InsnAt(at) = x /\ x.op = "load" /\ prog' = prog /\ <<at[1], at[2], 0>> = DefSite
  BY VisitingInsn, HereIsPair DEF VisitLoad, NextInsn
<1>2. InsnAt(at)' = x
  BY <1>1, ProgramConstant
<1>3. \A o \in Incoming(x.obj, at) :
        /\ Edge(FieldOf(o), RegVertex(DefSite, context), "load") \in edges'
        /\ <<RegVertex(o, context), FieldOf(o)>> \in deref'
  BY DEF VisitLoad
<1> QED
  BY <1>1, <1>2, <1>3 DEF Constrained

LEMMA VisitStaticConstrains ==
  ASSUME TypeInv, VisitStatic, NEW context, context = Context, NEW at, at = Here,
         NEW x, x = Insn
  PROVE  Constrained(context, at)'
<1>1. /\ InsnAt(at) = x /\ x.op \in {"sput", "sget"} /\ WellFormed(x)
      /\ queue # <<>> /\ prog' = prog /\ <<at[1], at[2], 0>> = DefSite
  BY VisitingInsn, HereIsPair DEF VisitStatic, NextInsn, At
<1>2. /\ x.op = "sput" => Assigned(x.src, at, context, StaticVertex(x.field), "sstore")'
      /\ x.op = "sget" =>
           Edge(StaticVertex(x.field), RegVertex(DefSite, context), "sload") \in edges'
  <2>1. ASSUME x.op = "sput"
        PROVE  Assigned(x.src, at, context, StaticVertex(x.field), "sstore")'
    <3>1. edges' = edges \cup {Edge(r, StaticVertex(x.field), "sstore") :
                                 r \in Regs(x.src, Here, Context)}
      BY <2>1 DEF VisitStatic
    <3> QED
      BY <3>1 DEF Assigned
  <2>2. ASSUME x.op = "sget"
        PROVE  Edge(StaticVertex(x.field), RegVertex(DefSite, context), "sload") \in edges'
    BY <2>2 DEF VisitStatic
  <2> QED
    BY <2>1, <2>2
<1>3. queue' = queue \o Clinit /\ x.init \in Method \cup {NoMethod}
  BY <1>1 DEF VisitStatic, WellFormed
<1>4. x.init = NoMethod \/ <<NoInsn, x.init>> \in Entered'
  <2>1. Elements(queue \o Clinit) \subseteq Entered'
    BY <1>3 DEF Entered, Elements
  <2> QED
    BY <1>1, <1>3, <2>1, ClinitEntered
<1>5. InsnAt(at)' = x
  BY <1>1, ProgramConstant
<1> QED
  BY <1>1, <1>2, <1>4, <1>5 DEF Constrained

(* What the visit of the invoke instruction x queues and connects.         *)
Called(x) == IF OnTheFly /\ x.kind = "virtual" THEN <<>> ELSE Overrides[x.callee]

InvokeQueues(x, targets, start, calling) ==
  /\ targets \in Seq(Method) /\ targets = Called(x)
  /\ start \in Seq(Contexts \X Method) /\ start = IF x.kind = "static" THEN Clinit ELSE <<>>
  /\ calling \in Seq(Contexts \X Method)
  /\ calling = [k \in 1 .. Len(targets) |-> <<Here, targets[k]>>]
  /\ queue' = queue \o start \o calling
  /\ edges' = edges \cup UNION {InvokeEdges(Context, Here, targets[k]) : k \in 1 .. Len(targets)}

LEMMA InvokeQueue ==
  ASSUME TypeInv, VisitInvoke, NEW x, x = Insn
  PROVE  \E targets, start, calling : InvokeQueues(x, targets, start, calling)
<1> DEFINE targets == Called(x)
           start == IF x.kind = "static" THEN Clinit ELSE <<>>
           calling == [k \in 1 .. Len(targets) |-> <<Here, targets[k]>>]
           new == UNION {InvokeEdges(Context, Here, targets[k]) : k \in 1 .. Len(targets)}
<1>2. queue' = queue \o start \o calling
  BY DEF VisitInvoke, Called
<1>3. edges' = edges \cup new
  BY DEF VisitInvoke, Called
<1>4. /\ x.op = "invoke" /\ WellFormed(x) /\ Here \in Contexts
      /\ x.init \in Method \cup {NoMethod} /\ x.callee \in Method
  BY VisitingInsn DEF VisitInvoke, Contexts, WellFormed
<1>5. targets \in Seq(Method)
  BY <1>4, HierarchyAssumption DEF Called
<1>6. start \in Seq(Contexts \X Method)
  <2>1. CASE x.kind = "static" /\ x.init # NoMethod
    <3>1. start = <<<<NoInsn, x.init>>>> /\ <<NoInsn, x.init>> \in Contexts \X Method
      BY <1>4, <2>1 DEF Clinit, Contexts
    <3> HIDE DEF start
    <3> QED
      BY <3>1
  <2>2. CASE ~(x.kind = "static" /\ x.init # NoMethod)
    <3>1. start = <<>>
      BY <2>2 DEF Clinit
    <3> HIDE DEF start
    <3> QED
      BY <3>1
  <2> QED
    BY <2>1, <2>2
<1>7. calling \in Seq(Contexts \X Method)
  <2> HIDE DEF targets
  <2>1. \A k \in 1 .. Len(targets) : <<Here, targets[k]>> \in Contexts \X Method
    BY <1>4, <1>5
  <2>2. Len(targets) \in Nat
    BY <1>5
  <2> QED
    BY <2>1, <2>2
<1>8. InvokeQueues(x, targets, start, calling)
  BY <1>2, <1>3, <1>5, <1>6, <1>7 DEF InvokeQueues
<1> HIDE DEF targets, start, calling
<1> QED
  BY <1>8

LEMMA VisitInvokeConstrains ==
  ASSUME OnTheFly = FALSE, TypeInv, VisitInvoke,
         NEW context, context = Context, NEW at, at = Here,
         NEW x, x = Insn
  PROVE  Constrained(context, at)'
<1>1. PICK targets, start, calling : InvokeQueues(x, targets, start, calling)
  BY InvokeQueue
<1>2. /\ InsnAt(at) = x /\ x.op = "invoke" /\ WellFormed(x) /\ queue # <<>> /\ prog' = prog
      /\ x.init \in Method \cup {NoMethod}
  BY VisitingInsn DEF VisitInvoke, NextInsn, At, WellFormed
<1>3. InsnAt(at)' = x /\ \A m : InvokeEdges(context, at, m)' = InvokeEdges(context, at, m)
  BY <1>2, ProgramConstant, InvokeEdgesConstant
<1>4. Len(calling) = Len(targets)
  BY <1>1 DEF InvokeQueues
<1>5. Elements(queue') \subseteq Entered'
  BY DEF Entered, Elements
<1>6. queue \o start \in Seq(Contexts \X Method)
  BY <1>1 DEF TypeInv, InvokeQueues
<1>7. Elements(queue \o start) \subseteq Entered' /\ Elements(calling) \subseteq Entered'
  <2>1. Elements(queue \o start) \subseteq Elements(queue \o start \o calling)
    BY <1>1, <1>6, ElementsOfConcat DEF InvokeQueues
  <2>2. Elements(calling) \subseteq Elements(queue \o start \o calling)
    BY <1>1, <1>6, ElementsOfConcat DEF InvokeQueues
  <2>3. Elements(queue') = Elements(queue \o start \o calling)
    BY <1>1 DEF InvokeQueues
  <2> QED
    BY <1>5, <2>1, <2>2, <2>3
<1>8. ASSUME x.kind = "static"
      PROVE  x.init = NoMethod \/ <<NoInsn, x.init>> \in Entered'
  <2>1. start = Clinit
    BY <1>1, <1>8 DEF InvokeQueues
  <2> QED
    BY <1>2, <1>7, <2>1, ClinitEntered
<1>9. \A k \in 1 .. Len(targets) : <<at, targets[k]>> \in Entered'
  BY <1>1, <1>4, <1>7 DEF Elements, InvokeQueues
<1>10. \A k \in 1 .. Len(targets) : InvokeEdges(context, at, targets[k]) \subseteq edges'
  BY <1>1 DEF InvokeQueues
<1> QED
  BY <1>1, <1>2, <1>3, <1>8, <1>9, <1>10 DEF Constrained, InvokeQueues, Called

LEMMA VisitConstrains ==
  ASSUME OnTheFly = FALSE, TypeInv, Visit, NEW ops, At(ops), ip' = ip + 1,
         NEW context, context = Context, NEW at, at = Here
  PROVE  Constrained(context, at)'
<1>1. CASE VisitOther
  <2>1. InsnAt(at)' = Insn /\ Insn.op = "other"
    BY <1>1, VisitingInsn, ProgramConstant DEF VisitOther, NextInsn
  <2> QED
    BY <2>1 DEF Constrained
<1>2. ~(SkipVisited \/ BeginMethod \/ EndMethod \/ QueueDrained)
  <2>1. ip \in Nat /\ ip # 0 /\ ip # Len(Code) + 1 /\ queue # <<>>
    BY VisitingInsn DEF At, TypeInv, Code
  <2> QED
    BY <2>1 DEF SkipVisited, BeginMethod, EndMethod, QueueDrained
<1> QED
  BY <1>1, <1>2, VisitAllocConstrains, VisitAssignConstrains, VisitStoreConstrains,
     VisitLoadConstrains, VisitStaticConstrains, VisitInvokeConstrains
  DEF Visit

(* The queue with more behind its head.                                    *)
Behind(q) == queue' # <<>> /\ Head(queue') = Head(q) /\ Elements(q) \subseteq Elements(queue')

LEMMA ConcatHead ==
  ASSUME NEW S, NEW q \in Seq(S), NEW r \in Seq(S), q # <<>>
  PROVE  q \o r # <<>> /\ Head(q \o r) = Head(q)
<1>1. 1 \in 1 .. Len(q) /\ Head(q) = q[1]
  OBVIOUS
<1>2. q \o r \in Seq(S) /\ (q \o r)[1] = q[1] /\ Len(q \o r) >= 1
  BY <1>1, ConcatElements
<1> QED
  BY <1>1, <1>2

LEMMA VisitQueues ==
  ASSUME TypeInv, Visit, NEW ops, At(ops), ip' = ip + 1
  PROVE  Behind(queue)
<1>1. queue # <<>> /\ queue \in Seq(Contexts \X Method)
  BY DEF At, TypeInv
<1>2. CASE VisitAlloc \/ VisitStatic
  <2>1. queue' = queue \o Clinit
    BY <1>2 DEF VisitAlloc, VisitStatic
  <2>2. Insn.init \in Method \cup {NoMethod}
    BY <1>2, VisitingInsn DEF VisitAlloc, VisitStatic, WellFormed
  <2>3. Clinit \in Seq(Contexts \X Method)
    <3>1. CASE Insn.init = NoMethod
      BY <3>1 DEF Clinit
    <3>2. CASE Insn.init # NoMethod
      <4>1. <<NoInsn, Insn.init>> \in Contexts \X Method
        BY <2>2, <3>2 DEF Contexts
      <4> QED
        BY <3>2, <4>1 DEF Clinit
    <3> QED
      BY <3>1, <3>2
  <2> QED
    BY <1>1, <2>1, <2>3, ConcatHead, ElementsOfConcat DEF Behind
<1>3. CASE VisitInvoke
  <2>1. PICK start \in Seq(Contexts \X Method), calling \in Seq(Contexts \X Method) :
          queue' = queue \o start \o calling
    BY <1>3, InvokeQueue DEF InvokeQueues
  <2>2. PICK q : q = queue \o start
    OBVIOUS
  <2>3. q \in Seq(Contexts \X Method) /\ q # <<>> /\ Head(q) = Head(queue)
        /\ Elements(queue) \subseteq Elements(q)
    BY <1>1, <2>2, ConcatHead, ElementsOfConcat
  <2> QED
    BY <2>1, <2>2, <2>3, ConcatHead, ElementsOfConcat DEF Behind
<1>4. CASE VisitAssign \/ VisitStore \/ VisitLoad \/ VisitOther
  <2>1. queue' = queue
    BY <1>4 DEF VisitAssign, VisitStore, VisitLoad, VisitOther
  <2>2. Elements(queue') = Elements(queue)
    BY <2>1
  <2> QED
    BY <1>1, <2>1, <2>2 DEF Behind
<1>5. ~(SkipVisited \/ BeginMethod \/ EndMethod \/ QueueDrained)
  <2>1. ip \in Nat /\ ip # 0 /\ ip # Len(Code) + 1 /\ queue # <<>>
    BY VisitingInsn DEF At, TypeInv, Code
  <2> QED
    BY <2>1 DEF SkipVisited, BeginMethod, EndMethod, QueueDrained
<1> QED
  BY <1>2, <1>3, <1>4, <1>5 DEF Visit

(* The step to the next instruction.                                       *)
LEMMA VisitedInvAdvance ==
  ASSUME OnTheFly = FALSE, TypeInv, VisitedInv, Visit, NEW ops, At(ops), NextInsn
  PROVE  VisitedInv'
<1>1. /\ prog' = prog /\ visited' = visited /\ pc' = "visit" /\ ip' = ip + 1
      /\ edges \subseteq edges' /\ deref \subseteq deref'
  BY DEF NextInsn, At, Visit, SkipVisited, BeginMethod, EndMethod, VisitAlloc, VisitAssign,
     VisitStore, VisitLoad, VisitStatic, VisitInvoke, VisitOther, QueueDrained, graph
<1>2. PICK h, context, at, n : /\ h = Head(queue) /\ context = Context /\ at = Here /\ n = ip
  OBVIOUS
<1>3. /\ h = <<context, at[1]>> /\ at = <<at[1], n>> /\ n \in Nat \ {0}
      /\ queue # <<>> /\ h \in visited
  BY <1>2, VisitingInsn DEF TypeInv, VisitedInv, Here, Context, Current, At
<1>4. queue' # <<>> /\ Head(queue') = h /\ Elements(queue) \subseteq Elements(queue')
  BY <1>1, <1>2, VisitQueues DEF Behind
<1>5. Entered \subseteq Entered'
  BY <1>1, <1>4, EnteredElements DEF Entered, Elements
<1>6. Constrained(context, at)'
  BY <1>1, <1>2, VisitConstrains
<1>7. ASSUME NEW r \in visited, NEW i \in 1 .. Len(prog.code[r[2]])
      PROVE  Constrained(r[1], <<r[2], i>>)' \/ Ahead(r, i)'
  <2>1. CASE Constrained(r[1], <<r[2], i>>)
    BY <1>1, <1>5, <2>1, ConstrainedKept
  <2>2. CASE Ahead(r, i) /\ i = n
    <3>1. r = h
      BY <1>2, <2>2 DEF Ahead
    <3>2. r[1] = context /\ <<r[2], i>> = at
      BY <1>3, <2>2, <3>1
    <3> QED
      BY <1>6, <3>2
  <2>3. CASE Ahead(r, i) /\ i # n
    <3>1. r = h /\ i >= n + 1
      BY <1>2, <1>3, <2>3 DEF Ahead
    <3> QED
      BY <1>1, <1>2, <1>3, <1>4, <3>1 DEF Ahead
  <2> QED
    BY <2>1, <2>2, <2>3 DEF VisitedInv
<1>8. <<NoInsn, prog.entry>> \in Entered'
  BY <1>5 DEF VisitedInv
<1> QED
  BY <1>1, <1>3, <1>4, <1>7, <1>8 DEF VisitedInv

(* Steps that leave the instruction scan where it is.                      *)
LEMMA VisitedInvKept ==
  ASSUME VisitedInv, prog' = prog, visited' = visited, queue' = queue, ip' = ip,
         edges \subseteq edges', deref' = deref, pc' # "visit" => queue = <<>>
  PROVE  VisitedInv'
<1>1. Entered' = Entered
  BY DEF Entered
<1>2. ASSUME NEW r \in visited, NEW i \in 1 .. Len(prog.code[r[2]])
      PROVE  Constrained(r[1], <<r[2], i>>)' \/ Ahead(r, i)'
  <2>1. Ahead(r, i) => Ahead(r, i)'
    BY DEF Ahead
  <2>2. Constrained(r[1], <<r[2], i>>) => Constrained(r[1], <<r[2], i>>)'
    BY <1>1, ConstrainedKept
  <2> QED
    BY <2>1, <2>2 DEF VisitedInv
<1> QED
  BY <1>1, <1>2 DEF VisitedInv

LEMMA VisitedInvVisit ==
  ASSUME OnTheFly = FALSE, TypeInv, VisitedInv, Visit
  PROVE  VisitedInv'
<1>1. CASE SkipVisited \/ EndMethod
  <2>1. /\ queue # <<>> /\ queue' = Tail(queue) /\ ip' = 0 /\ visited' = visited /\ prog' = prog
        /\ edges' = edges /\ deref' = deref /\ pc' = "visit" /\ Head(queue) \in visited
    BY <1>1 DEF SkipVisited, EndMethod, VisitedInv, graph, TypeInv, Code
  <2>2. Elements(queue) = {Head(queue)} \cup Elements(Tail(queue))
    BY <2>1, ElementsOfTail DEF TypeInv
  <2>3. Entered' = visited \cup Elements(Tail(queue))
    BY <2>1 DEF Entered, Elements
  <2>4. Entered \subseteq Entered'
    BY <2>1, <2>2, <2>3, EnteredElements
  <2>5. ASSUME NEW r \in visited, NEW i \in 1 .. Len(prog.code[r[2]])
        PROVE  Constrained(r[1], <<r[2], i>>)'
    <3>1. ~Ahead(r, i)
      <4>1. CASE SkipVisited
        BY <4>1 DEF SkipVisited, Ahead
      <4>2. CASE EndMethod /\ r = Head(queue)
        <5>1. ip = Len(prog.code[r[2]]) + 1 /\ Len(prog.code[r[2]]) \in Nat
          BY <4>2, CodeLength DEF EndMethod, Code, Current, TypeInv
        <5> QED
          BY <5>1 DEF Ahead
      <4>3. CASE r # Head(queue)
        BY <4>3 DEF Ahead
      <4> QED
        BY <1>1, <4>1, <4>2, <4>3
    <3>2. Constrained(r[1], <<r[2], i>>)
      BY <3>1 DEF VisitedInv
    <3> QED
      BY <2>1, <2>4, <3>2, ConstrainedKept
  <2> QED
    BY <2>1, <2>4, <2>5 DEF VisitedInv
<1>2. CASE BeginMethod
  <2>1. /\ queue # <<>> /\ queue' = queue /\ ip = 0 /\ ip' = 1 /\ visited' = visited \cup {Head(queue)}
        /\ prog' = prog /\ edges' = edges /\ deref' = deref /\ pc' = "visit"
    BY <1>2 DEF BeginMethod, graph
  <2>2. Entered \subseteq Entered'
    BY <2>1 DEF Entered
  <2>3. ASSUME NEW r \in visited', NEW i \in 1 .. Len(prog.code[r[2]])
        PROVE  Constrained(r[1], <<r[2], i>>)' \/ Ahead(r, i)'
    <3>1. CASE r \in visited
      <4>1. Constrained(r[1], <<r[2], i>>)
        BY <2>1, <3>1 DEF VisitedInv, Ahead
      <4> QED
        BY <2>1, <2>2, <4>1, ConstrainedKept
    <3>2. CASE r = Head(queue)
      BY <2>1, <3>2 DEF Ahead
    <3> QED
      BY <2>1, <3>1, <3>2
  <2> QED
    BY <2>1, <2>2, <2>3 DEF VisitedInv
<1>3. CASE QueueDrained
  <2>1. /\ queue = <<>> /\ prog' = prog /\ visited' = visited /\ queue' = queue /\ ip' = ip
        /\ edges' = edges /\ deref' = deref
    BY <1>3 DEF QueueDrained, graph, scan
  <2> QED
    BY <2>1, VisitedInvKept
<1>4. CASE ~(SkipVisited \/ BeginMethod \/ EndMethod \/ QueueDrained)
  <2>1. \E ops : At(ops) /\ NextInsn
    BY <1>4 DEF Visit, VisitAlloc, VisitAssign, VisitStore, VisitLoad, VisitStatic, VisitInvoke,
       VisitOther
  <2> QED
    BY <2>1, VisitedInvAdvance
<1> QED
  BY <1>1, <1>2, <1>3, <1>4

LEMMA VisitedInvNext ==
  ASSUME OnTheFly = FALSE, TypeInv, PhaseInv, VisitedInv, [Next]_vars
  PROVE  VisitedInv'
<1>1. CASE Update
  <2>1. /\ prog' = prog /\ visited' = visited /\ queue' = queue /\ ip' = ip
        /\ edges \subseteq edges' /\ deref' = deref /\ pc # "visit"
    BY <1>1 DEF PhaseInv, Update, PopUnchanged, Pop, AddDerefEdge, CollectCalls, ProcessCall,
       CallsDone, Forward, ClearInSet, UpdateCcg, graph, scan
  <2> QED
    BY <2>1, VisitedInvKept DEF VisitedInv
<1>2. CASE UNCHANGED vars
  BY <1>2, VisitedInvKept DEF vars, graph, scan, VisitedInv
<1> QED
  BY <1>1, <1>2, VisitedInvVisit DEF Next

LEMMA VisitedInvInit == Init => VisitedInv
<1> SUFFICES ASSUME Init PROVE VisitedInv
  OBVIOUS
<1>1. queue[1] = <<NoInsn, prog.entry>> /\ 1 \in 1 .. Len(queue)
  BY DEF Init
<1> QED
  BY <1>1 DEF Init, VisitedInv, Entered

(* The rounds of the least solution, one after the other.                  *)
FirstRound == [pts |-> {}, reach |-> {<<NoInsn, prog.entry>>}]

Upto(n, h) == h = [k \in 0 .. n |-> IF k = 0 THEN FirstRound ELSE Infer(h[k - 1])]

LEMMA UptoExists ==
  ASSUME NEW n \in Nat
  PROVE  \E h : Upto(n, h)
<1> DEFINE S == {m \in Nat : \E h : Upto(m, h)}
<1>1. 0 \in S
  <2> DEFINE h == [k \in 0 .. 0 |-> FirstRound]
  <2>1. Upto(0, h)
    BY DEF Upto
  <2> QED
    BY <2>1
<1>2. ASSUME NEW m \in Nat, m \in S PROVE m + 1 \in S
  <2>1. PICK h : Upto(m, h)
    BY <1>2
  <2> DEFINE g == [k \in 0 .. m + 1 |-> IF k <= m THEN h[k] ELSE Infer(h[m])]
  <2>2. \A k \in 0 .. m : g[k] = h[k]
    OBVIOUS
  <2>3. ASSUME NEW k \in 0 .. m + 1
        PROVE  g[k] = IF k = 0 THEN FirstRound ELSE Infer(g[k - 1])
    <3>1. CASE k <= m
      <4>1. k \in 0 .. m /\ (k # 0 => k - 1 \in 0 .. m)
        BY <3>1
      <4>2. h[k] = IF k = 0 THEN FirstRound ELSE Infer(h[k - 1])
        BY <2>1, <4>1 DEF Upto
      <4> HIDE DEF g
      <4> QED
        BY <2>2, <4>1, <4>2
    <3>2. CASE ~(k <= m)
      <4>1. k = m + 1 /\ k # 0 /\ k - 1 = m /\ m \in 0 .. m
        BY <3>2
      <4>2. g[k] = Infer(h[m])
        BY <4>1
      <4> HIDE DEF g
      <4> QED
        BY <2>2, <4>1, <4>2
    <3> QED
      BY <3>1, <3>2
  <2>4. g = [k \in 0 .. m + 1 |-> g[k]]
    OBVIOUS
  <2> HIDE DEF g
  <2>5. Upto(m + 1, g)
    BY <2>3, <2>4 DEF Upto
  <2> QED
    BY <2>5
<1> HIDE DEF S
<1>3. Nat \subseteq S
  BY <1>1, <1>2, AllNaturals
<1> QED
  BY <1>3 DEF S

LEMMA UptoAgrees ==
  ASSUME NEW n \in Nat, NEW m \in Nat, n <= m, NEW h, Upto(n, h), NEW g, Upto(m, g)
  PROVE  \A k \in 0 .. n : h[k] = g[k]
<1> DEFINE S == {k \in Nat : k <= n => h[k] = g[k]}
<1>1. \A k \in 0 .. n : /\ h[k] = IF k = 0 THEN FirstRound ELSE Infer(h[k - 1])
                        /\ g[k] = IF k = 0 THEN FirstRound ELSE Infer(g[k - 1])
  BY DEF Upto
<1>2. 0 \in S
  BY <1>1
<1>3. ASSUME NEW k \in Nat, k \in S PROVE k + 1 \in S
  <2>1. CASE k + 1 <= n
    <3>1. k + 1 \in 0 .. n /\ (k + 1) - 1 = k /\ k + 1 # 0 /\ h[k] = g[k]
      BY <1>3, <2>1
    <3>2. h[k + 1] = Infer(h[k]) /\ g[k + 1] = Infer(g[k])
      BY <1>1, <3>1
    <3> QED
      BY <3>1, <3>2
  <2>2. CASE ~(k + 1 <= n)
    BY <2>2
  <2> QED
    BY <2>1, <2>2
<1>4. Nat \subseteq S
  <2> HIDE DEF S
  <2> QED
    BY <1>2, <1>3, AllNaturals
<1> QED
  BY <1>4

LEMMA RoundsUnfold ==
  /\ Rounds[0] = FirstRound
  /\ \A n \in Nat : Rounds[n + 1] = Infer(Rounds[n])
<1> DEFINE up(n) == CHOOSE h : Upto(n, h)
           g == [n \in Nat |-> up(n)[n]]
<1>1. \A n \in Nat : Upto(n, up(n))
  BY UptoExists
<1>2. ASSUME NEW n \in Nat
      PROVE  g[n] = IF n = 0 THEN FirstRound ELSE Infer(g[n - 1])
  <2>1. PICK h : h = up(n) /\ Upto(n, h) /\ g[n] = h[n]
    BY <1>1
  <2>2. h[n] = IF n = 0 THEN FirstRound ELSE Infer(h[n - 1])
    <3>1. n \in 0 .. n
      OBVIOUS
    <3> HIDE DEF up, g
    <3> QED
      BY <2>1, <3>1 DEF Upto
  <2>3. ASSUME n # 0 PROVE h[n - 1] = g[n - 1]
    <3>1. PICK m \in Nat : m = n - 1 /\ m <= n /\ m \in 0 .. m
      BY <2>3
    <3>2. PICK f : Upto(m, f) /\ g[m] = f[m]
      BY <1>1
    <3> HIDE DEF up, g
    <3>3. f[m] = h[m]
      BY <2>1, <3>1, <3>2, UptoAgrees
    <3> QED
      BY <3>1, <3>2, <3>3
  <2> HIDE DEF up, g
  <2> QED
    BY <2>1, <2>2, <2>3
<1>3. g = [n \in Nat |-> g[n]]
  OBVIOUS
<1>4. g = [n \in Nat |-> IF n = 0 THEN FirstRound ELSE Infer(g[n - 1])]
  <2> HIDE DEF g, up
  <2> QED
    BY <1>2, <1>3
<1>5. Rounds = CHOOSE f : f = [n \in Nat |-> IF n = 0 THEN FirstRound ELSE Infer(f[n - 1])]
  BY DEF Rounds, FirstRound
<1> HIDE DEF g, up
<1>6. Rounds = [n \in Nat |-> IF n = 0 THEN FirstRound ELSE Infer(Rounds[n - 1])]
  BY <1>4, <1>5
<1>7. \A n \in Nat : n + 1 \in Nat /\ n + 1 # 0 /\ (n + 1) - 1 = n
  OBVIOUS
<1>8. \A n \in Nat : Rounds[n] = IF n = 0 THEN FirstRound ELSE Infer(Rounds[n - 1])
  BY <1>6
<1> QED
  BY <1>7, <1>8

-----------------------------------------------------------------------------
(* When the analysis is done, nothing required is missing.                 *)

Finished == pc = "done" /\ FlowClosed /\ HeapConnected /\ VisitedInv

LEMMA AllConstrained ==
  ASSUME Finished, NEW r \in visited, NEW i \in 1 .. Len(prog.code[r[2]])
  PROVE  Constrained(r[1], <<r[2], i>>) /\ Entered = visited
<1>1. queue = <<>>
  BY DEF Finished, VisitedInv
<1>2. Entered = visited
  BY <1>1 DEF Entered
<1> QED
  BY <1>1, <1>2 DEF Finished, VisitedInv, Ahead

LEMMA PairPointsTo ==
  ASSUME NEW v, NEW a, <<v, a>> \in pts
  PROVE  a \in PointsToSet(v)
<1>1. PICK p \in pts : p[1] = v /\ p[2] = a
  BY <<v, a>>[1] = v, <<v, a>>[2] = a
<1> QED
  BY <1>1 DEF PointsToSet

(* What is at the source of an edge is at its target.                      *)
LEMMA Flowed ==
  ASSUME TypeInv, GraphInv, Finished, NEW u, NEW w, NEW k \in FlowKinds, Edge(u, w, k) \in edges,
         NEW a \in PointsToSet(u), Passes(w, a)
  PROVE  <<w, a>> \in pts
<1>1. PICK e \in edges : e.src = u /\ e.dst = w /\ IsFlow(e)
  BY DEF Edge, IsFlow
<1>2. a \in PointsToSet(w)
  BY <1>1 DEF Finished, FlowClosed
<1>3. w.kind # "alloc"
  BY <1>1 DEF GraphInv
<1> QED
  BY <1>2, <1>3, PointsToPair

(* s has nothing that the analysis does not have.                          *)
Covers(s) == s.pts \subseteq pts /\ s.reach \subseteq visited

LEMMA HoldsPointsTo ==
  ASSUME TypeInv, NEW s, Covers(s), NEW v, NEW a \in Holds(s, v)
  PROVE  a \in PointsToSet(v)
<1>1. PICK p \in s.pts : p[1] = v /\ p[2] = a
  BY DEF Holds
<1>2. p \in pts /\ p = <<p[1], p[2]>>
  BY <1>1 DEF Covers, TypeInv
<1> QED
  BY <1>1, <1>2, PairPointsTo

LEMMA RegsHoldPointsTo ==
  ASSUME TypeInv, NEW s, Covers(s), NEW operand, NEW at, NEW context,
         NEW a \in RegsHold(s, operand, at, context)
  PROVE  \E r \in Regs(operand, at, context) : a \in PointsToSet(r)
<1>1. PICK r \in Regs(operand, at, context) : a \in Holds(s, r)
  BY DEF RegsHold
<1> QED
  BY <1>1, HoldsPointsTo

(* What the registers of an operand hold has gone along the edges to dst.  *)
LEMMA AssignedFlowed ==
  ASSUME TypeInv, GraphInv, Finished, NEW s, Covers(s), NEW operand, NEW at, NEW context, NEW dst,
         NEW kind \in FlowKinds, Assigned(operand, at, context, dst, kind),
         NEW a \in RegsHold(s, operand, at, context), Passes(dst, a)
  PROVE  <<dst, a>> \in pts
  BY RegsHoldPointsTo, Flowed DEF Assigned

LEMMA StoreFlowed ==
  ASSUME TypeInv, GraphInv, Finished, NEW s, Covers(s), NEW context, NEW at,
         InsnAt(at).op = "store", Constrained(context, at),
         NEW f, f = InsnAt(at).field,
         NEW o \in RegsHold(s, InsnAt(at).obj, at, context), HasField(o, f),
         NEW a \in RegsHold(s, InsnAt(at).src, at, context), Passes(AllocFieldVertex(o.hdl, f), a)
  PROVE  <<AllocFieldVertex(o.hdl, f), a>> \in pts
<1>1. PICK site \in Incoming(InsnAt(at).obj, at) : o \in PointsToSet(RegVertex(site, context))
  BY RegsHoldPointsTo DEF Regs
<1>2. PICK r \in Regs(InsnAt(at).src, at, context) : a \in PointsToSet(r)
  BY RegsHoldPointsTo
<1>3. PICK d, v : d = RegFieldVertex(site, f, context) /\ v = RegVertex(site, context)
  OBVIOUS
<1>4. Edge(r, d, "store") \in edges /\ <<v, d>> \in deref /\ d.field = f
  BY <1>2, <1>3, FieldVertexParts DEF Constrained, Assigned
<1>5. r \in Preds(edges, d)
  BY <1>4 DEF Preds, Edge
<1>6. PICK q \in deref : q[1] = v /\ q[2] = d
  BY <1>4
<1>7. Edge(r, AllocFieldVertex(o.hdl, f), "assign") \in edges
  BY <1>1, <1>3, <1>4, <1>5, <1>6 DEF Finished, HeapConnected
<1> QED
  BY <1>2, <1>7, Flowed DEF FlowKinds

LEMMA LoadFlowed ==
  ASSUME TypeInv, GraphInv, Finished, NEW s, Covers(s), NEW context, NEW at,
         InsnAt(at).op = "load", Constrained(context, at),
         NEW f, f = InsnAt(at).field,
         NEW o \in RegsHold(s, InsnAt(at).obj, at, context), HasField(o, f),
         NEW a \in Holds(s, AllocFieldVertex(o.hdl, f)), Passes(Def(at, context), a)
  PROVE  <<Def(at, context), a>> \in pts
<1>1. PICK site \in Incoming(InsnAt(at).obj, at) : o \in PointsToSet(RegVertex(site, context))
  BY RegsHoldPointsTo DEF Regs
<1>2. PICK d, v, w : /\ d = RegFieldVertex(site, f, context) /\ v = RegVertex(site, context)
                     /\ w = Def(at, context)
  OBVIOUS
<1>3. Edge(d, w, "load") \in edges /\ <<v, d>> \in deref /\ d.field = f
  BY <1>2, FieldVertexParts DEF Constrained, Def
<1>4. w \in Succs(edges, d)
  BY <1>3 DEF Succs, Edge
<1>5. PICK q \in deref : q[1] = v /\ q[2] = d
  BY <1>3
<1>6. Edge(AllocFieldVertex(o.hdl, f), w, "assign") \in edges
  BY <1>1, <1>2, <1>3, <1>4, <1>5 DEF Finished, HeapConnected
<1>7. a \in PointsToSet(AllocFieldVertex(o.hdl, f))
  BY HoldsPointsTo
<1> QED
  BY <1>2, <1>6, <1>7, Flowed DEF FlowKinds

LEMMA CallFlowed ==
  ASSUME TypeInv, GraphInv, Finished, ArgumentsInPlace, NEW s, Covers(s), NEW context,
         NEW at \in CallSites, NEW m, m \notin IsAbstract, m \in Targets(InsnAt(at).callee),
         InvokeEdges(context, at, m) \subseteq edges,
         NEW v, NEW a, <<v, a>> \in CallPts(s, InsnAt(at), at, context, m), Passes(v, a)
  PROVE  <<v, a>> \in pts
<1> DEFINE x == InsnAt(at)
           param(k) == RegVertex(<<m, 0, Offset(m, k)>>, at)
<1>1. at[1] \in Method /\ at[2] \in 1 .. Len(prog.code[at[1]]) /\ x.op = "invoke"
      /\ x = prog.code[at[1]][at[2]]
  BY DEF CallSites, IsInsn, Point, InsnAt
<1>2. CASE \E k \in 1 .. Len(Params[m]) :
             /\ Params[m][k] = "L" /\ v = param(k)
             /\ a \in RegsHold(s, x.args[Offset(m, k) + 1], at, context)
  <2>1. PICK k \in 1 .. Len(Params[m]) :
             /\ Params[m][k] = "L" /\ v = param(k)
             /\ a \in RegsHold(s, x.args[Offset(m, k) + 1], at, context)
    BY <1>2
  <2>2. Argument(x, m, k) = x.args[Offset(m, k) + 1]
    <3>1. prog \in Programs /\ m \in Targets(x.callee) /\ Params[m][k] = "L"
      BY <2>1 DEF TypeInv
    <3> HIDE DEF x, param
    <3> QED
      BY <1>1, <3>1 DEF ArgumentsInPlace
  <2>3. PICK r \in Regs(Argument(x, m, k), at, context) : a \in PointsToSet(r)
    BY <2>1, <2>2, RegsHoldPointsTo
  <2>4. Edge(r, param(k), "assign") \in ArgumentEdges(context, at, m)
    BY <2>1 DEF ArgumentEdges
  <2>5. Edge(r, v, "assign") \in edges
    BY <2>1, <2>4 DEF InvokeEdges
  <2> QED
    BY <2>3, <2>5, Flowed DEF FlowKinds
<1>3. CASE /\ m \in ReturnsRef /\ v = Def(at, context)
           /\ a \in Holds(s, RegVertex(ExitSite(m), at))
  <2>1. Edge(RegVertex(ExitSite(m), at), v, "assign") \in edges
    BY <1>3 DEF InvokeEdges, ResultEdges, Def
  <2>2. a \in PointsToSet(RegVertex(ExitSite(m), at))
    BY <1>3, HoldsPointsTo
  <2> QED
    BY <2>1, <2>2, Flowed DEF FlowKinds
<1>4. \/ \E k \in 1 .. Len(Params[m]) :
           /\ Params[m][k] = "L" /\ v = param(k)
           /\ a \in RegsHold(s, x.args[Offset(m, k) + 1], at, context)
      \/ /\ m \in ReturnsRef /\ v = Def(at, context)
         /\ a \in Holds(s, RegVertex(ExitSite(m), at))
  <2>1. /\ \A p, b : <<v, a>> = <<p, b>> => v = p /\ a = b
        /\ Def(at, context) = RegVertex(<<at[1], at[2], 0>>, context)
    BY DEF Def
  <2> DEFINE held(k) == RegsHold(s, x.args[Offset(m, k) + 1], at, context)
             refs == {j \in 1 .. Len(Params[m]) : Params[m][j] = "L"}
             result == IF m \in ReturnsRef THEN Holds(s, RegVertex(ExitSite(m), at)) ELSE {}
  <2>2. CallPts(s, x, at, context, m) =
          (UNION {{<<param(k), b>> : b \in held(k)} : k \in refs})
          \cup {<<Def(at, context), b>> : b \in result}
    BY <2>1 DEF CallPts
  <2> HIDE DEF held, result, param, x
  <2>3. CASE <<v, a>> \in UNION {{<<param(k), b>> : b \in held(k)} : k \in refs}
    <3>1. PICK k \in refs : <<v, a>> \in {<<param(k), b>> : b \in held(k)}
      BY <2>3
    <3>2. PICK b \in held(k) : <<v, a>> = <<param(k), b>>
      BY <3>1
    <3>3. v = param(k) /\ a \in held(k)
      BY <2>1, <3>2
    <3> QED
      BY <3>1, <3>3 DEF held
  <2>4. CASE <<v, a>> \in {<<Def(at, context), b>> : b \in result}
    <3>1. PICK b \in result : <<v, a>> = <<Def(at, context), b>>
      BY <2>4
    <3>2. v = Def(at, context) /\ a \in result
      BY <2>1, <3>1
    <3> QED
      BY <3>2 DEF result
  <2>5. <<v, a>> \in CallPts(s, x, at, context, m)
    BY DEF x
  <2> QED
    BY <2>2, <2>3, <2>4, <2>5
<1> QED
  BY <1>2, <1>3, <1>4

(* What one instruction requires of a solution that the analysis covers is *)
(* in the state of the analysis.                                           *)
LEMMA AssignsMet ==
  ASSUME TypeInv, GraphInv, Finished, NEW s, Covers(s), NEW context, NEW at,
         Constrained(context, at), NEW op, op = InsnAt(at).op,
         op \in {"new_instance", "const_string", "move_object", "check_cast", "return_object",
                 "sput", "sget"},
         NEW p \in Required(s, context, at), Passes(p[1], p[2])
  PROVE  p \in pts
<1> DEFINE x == InsnAt(at)
           def == Def(at, context)
           exit == RegVertex(ExitSite(at[1]), context)
<1>1. CASE op \in {"new_instance", "const_string"}
  <2>1. p = <<def, AllocVertex(at)>> /\ Edge(AllocVertex(at), def, "alloc") \in edges
    BY <1>1 DEF Required, Constrained, Def
  <2>2. AllocVertex(at) \in PointsToSet(AllocVertex(at))
    BY DEF PointsToSet, AllocVertex
  <2> QED
    BY <2>1, <2>2, Flowed DEF FlowKinds
<1>2. CASE op \in {"move_object", "check_cast"}
  <2>1. PICK a \in RegsHold(s, x.src, at, context) : p = <<def, a>>
    BY <1>2 DEF Required, Def
  <2>2. Assigned(x.src, at, context, def, "assign") /\ Passes(def, a) /\ "assign" \in FlowKinds
    BY <1>2, <2>1 DEF Constrained, Def, FlowKinds
  <2> QED
    BY <2>1, <2>2, AssignedFlowed
<1>3. CASE op = "return_object"
  <2>1. PICK a \in RegsHold(s, x.src, at, context) : p = <<exit, a>>
    BY <1>3 DEF Required
  <2>2. Assigned(x.src, at, context, exit, "assign") /\ Passes(exit, a) /\ "assign" \in FlowKinds
    BY <1>3, <2>1 DEF Constrained, FlowKinds
  <2> QED
    BY <2>1, <2>2, AssignedFlowed
<1>4. CASE op = "sput"
  <2>1. PICK a \in RegsHold(s, x.src, at, context) : p = <<StaticVertex(x.field), a>>
    BY <1>4 DEF Required
  <2>2. /\ Assigned(x.src, at, context, StaticVertex(x.field), "sstore")
        /\ Passes(StaticVertex(x.field), a) /\ "sstore" \in FlowKinds
    BY <1>4, <2>1 DEF Constrained, FlowKinds
  <2> QED
    BY <2>1, <2>2, AssignedFlowed
<1>5. CASE op = "sget"
  <2>1. PICK a \in Holds(s, StaticVertex(x.field)) : p = <<def, a>>
    BY <1>5 DEF Required, Def
  <2>2. Edge(StaticVertex(x.field), def, "sload") \in edges /\ Passes(def, a)
    BY <1>5, <2>1 DEF Constrained, Def
  <2>3. a \in PointsToSet(StaticVertex(x.field)) /\ "sload" \in FlowKinds
    BY <2>1, HoldsPointsTo DEF FlowKinds
  <2> QED
    BY <2>1, <2>2, <2>3, Flowed
<1> QED
  BY <1>1, <1>2, <1>3, <1>4, <1>5

LEMMA HeapMet ==
  ASSUME TypeInv, GraphInv, Finished, NEW s, Covers(s), NEW context, NEW at,
         Constrained(context, at), NEW op, op = InsnAt(at).op, op \in {"store", "load"},
         NEW p \in Required(s, context, at), Passes(p[1], p[2])
  PROVE  p \in pts
<1> DEFINE x == InsnAt(at)
           owners == {b \in RegsHold(s, x.obj, at, context) : HasField(b, x.field)}
           held(o) == Holds(s, AllocFieldVertex(o.hdl, x.field))
<1>1. CASE op = "store"
  <2>1. PICK o \in owners, a \in RegsHold(s, x.src, at, context) :
          p = <<AllocFieldVertex(o.hdl, x.field), a>>
    BY <1>1 DEF Required
  <2>2. Passes(AllocFieldVertex(o.hdl, x.field), a)
    BY <2>1
  <2> QED
    BY <1>1, <2>1, <2>2, StoreFlowed
<1>2. CASE op = "load"
  <2>1. p \in {<<Def(at, context), a>> : a \in UNION {held(o) : o \in owners}}
    BY <1>2 DEF Required, Def
  <2> HIDE DEF owners, held
  <2>2. PICK a \in UNION {held(o) : o \in owners} : p = <<Def(at, context), a>>
    BY <2>1
  <2>3. PICK o \in owners : a \in held(o)
    BY <2>2
  <2>4. Passes(Def(at, context), a)
    BY <2>2
  <2> QED
    BY <1>2, <2>2, <2>3, <2>4, LoadFlowed DEF owners, held
<1> QED
  BY <1>1, <1>2

LEMMA CallMet ==
  ASSUME OnTheFly = FALSE, TypeInv, GraphInv, Finished, ArgumentsInPlace, NEW s, Covers(s),
         NEW context, NEW at \in CallSites, Constrained(context, at),
         NEW p \in Required(s, context, at), Passes(p[1], p[2])
  PROVE  p \in pts
<1> DEFINE x == InsnAt(at)
           passed(m) == CallPts(s, x, at, context, m)
           overrides == Overrides[x.callee]
<1>1. x.op = "invoke"
  BY DEF CallSites
<1>2. Callees(s, x, at, context) = {overrides[k] : k \in 1 .. Len(overrides)}
  BY DEF Callees
<1>3. p \in UNION {passed(m) : m \in Callees(s, x, at, context) \ IsAbstract}
  BY <1>1 DEF Required
<1>4. \A k \in 1 .. Len(overrides) : InvokeEdges(context, at, overrides[k]) \subseteq edges
  BY <1>1 DEF Constrained
<1>5. {overrides[k] : k \in 1 .. Len(overrides)} \subseteq Targets(x.callee)
  BY DEF Targets
<1>6. ASSUME NEW m, p \in passed(m) PROVE p = <<p[1], p[2]>>
  <2> DEFINE param(k) == RegVertex(<<m, 0, Offset(m, k)>>, at)
             held(k) == RegsHold(s, x.args[Offset(m, k) + 1], at, context)
             refs == {j \in 1 .. Len(Params[m]) : Params[m][j] = "L"}
             result == IF m \in ReturnsRef THEN Holds(s, RegVertex(ExitSite(m), at)) ELSE {}
             home == RegVertex(<<at[1], at[2], 0>>, context)
  <2>1. passed(m) = (UNION {{<<param(k), b>> : b \in held(k)} : k \in refs})
                    \cup {<<home, b>> : b \in result}
    BY DEF CallPts
  <2> HIDE DEF passed, param, held, refs, result, home
  <2>2. \A q \in {<<home, b>> : b \in result} : q = <<q[1], q[2]>>
    OBVIOUS
  <2>3. ASSUME NEW k \in refs PROVE \A q \in {<<param(k), b>> : b \in held(k)} : q = <<q[1], q[2]>>
    OBVIOUS
  <2> QED
    BY <1>6, <2>1, <2>2, <2>3
<1> HIDE DEF passed, overrides
<1>7. PICK m \in Callees(s, x, at, context) \ IsAbstract : p \in passed(m)
  BY <1>3
<1>8. PICK k \in 1 .. Len(overrides) : m = overrides[k]
  BY <1>2, <1>7
<1>9. m \in Targets(x.callee) /\ InvokeEdges(context, at, m) \subseteq edges /\ m \notin IsAbstract
  BY <1>4, <1>5, <1>7, <1>8
<1>10. <<p[1], p[2]>> \in CallPts(s, x, at, context, m)
  BY <1>6, <1>7 DEF passed
<1>11. <<p[1], p[2]>> \in pts
  BY <1>9, <1>10, CallFlowed
<1> QED
  BY <1>6, <1>7, <1>11

LEMMA StartedMet ==
  ASSUME OnTheFly = FALSE, NEW s, NEW context, NEW at, Constrained(context, at)
  PROVE  Started(s, context, at) \subseteq Entered
<1> DEFINE x == InsnAt(at)
           overrides == Overrides[x.callee]
<1>1. Callees(s, x, at, context) = {overrides[k] : k \in 1 .. Len(overrides)}
  BY DEF Callees
<1>2. x.op = "invoke" => \A m \in Callees(s, x, at, context) : <<at, m>> \in Entered
  BY <1>1 DEF Constrained
<1>3. x.op \in {"new_instance", "sput", "sget"} \/ (x.op = "invoke" /\ x.kind = "static") =>
        x.init = NoMethod \/ <<NoInsn, x.init>> \in Entered
  BY DEF Constrained
<1> QED
  BY <1>2, <1>3 DEF Started

(* What the solution that the analysis covers infers is covered, too.      *)
LEMMA InferCovered ==
  ASSUME OnTheFly = FALSE, TypeInv, GraphInv, Finished, ArgumentsInPlace, NEW s, Covers(s)
  PROVE  Covers(Infer(s))
<1> DEFINE asked(pl) == {p \in Required(s, pl[1], pl[2]) : Passes(p[1], p[2])}
           begun(pl) == Started(s, pl[1], pl[2])
<1>1. ASSUME NEW pl \in Places(s)
      PROVE  asked(pl) \subseteq pts /\ begun(pl) \subseteq visited
  <2>1. PICK r \in s.reach : \E i \in 1 .. Len(prog.code[r[2]]) : pl = <<r[1], <<r[2], i>>>>
    BY DEF Places
  <2> PICK i \in 1 .. Len(prog.code[r[2]]) : pl = <<r[1], <<r[2], i>>>>
    BY <2>1
  <2>2. r \in visited /\ r[2] \in Method /\ prog \in Programs
    BY <2>1 DEF Covers, TypeInv
  <2>3. PICK context, at : context = r[1] /\ at = <<r[2], i>>
    OBVIOUS
  <2>4. pl[1] = context /\ pl[2] = at /\ Constrained(context, at) /\ Entered = visited
    BY <2>1, <2>2, <2>3, AllConstrained
  <2>5. InsnAt(at) = prog.code[r[2]][i] /\ WellFormed(InsnAt(at))
    BY <2>2, <2>3, InsnWellFormed DEF InsnAt
  <2>6. PICK op : op = InsnAt(at).op
    OBVIOUS
  <2>7. op \in {"new_instance", "const_string", "move_object", "check_cast", "return_object",
                "store", "load", "sput", "sget", "invoke", "other"}
    BY <2>5, <2>6 DEF WellFormed
  <2>8. ASSUME NEW p \in Required(s, context, at), Passes(p[1], p[2]) PROVE p \in pts
    <3>1. CASE op \in {"new_instance", "const_string", "move_object", "check_cast",
                       "return_object", "sput", "sget"}
      BY <2>4, <2>6, <2>8, <3>1, AssignsMet
    <3>2. CASE op \in {"store", "load"}
      BY <2>4, <2>6, <2>8, <3>2, HeapMet
    <3>3. CASE op = "invoke"
      <4>1. at \in CallSites
        <5>1. i \in Nat
          BY <2>1, <2>2, ProgramAssumption
        <5> QED
          BY <2>1, <2>2, <2>3, <2>6, <3>3, <5>1 DEF CallSites, IsInsn, Point
      <4> QED
        BY <2>4, <2>8, <4>1, CallMet
    <3>4. CASE op = "other"
      BY <2>6, <2>8, <3>4 DEF Required
    <3> QED
      BY <2>7, <3>1, <3>2, <3>3, <3>4
  <2>9. Started(s, context, at) \subseteq visited
    BY <2>4, StartedMet
  <2> QED
    BY <2>4, <2>8, <2>9
<1>2. /\ Infer(s).pts = s.pts \cup UNION {asked(pl) : pl \in Places(s)}
      /\ Infer(s).reach = s.reach \cup UNION {begun(pl) : pl \in Places(s)}
  BY DEF Infer, Places
<1> HIDE DEF asked, begun
<1> QED
  BY <1>1, <1>2 DEF Covers

(* The state of the analysis as a solution.                                *)
Result == [pts |-> pts, reach |-> visited]

LEMMA ResultSolves ==
  ASSUME OnTheFly = FALSE, TypeInv, GraphInv, Finished, ArgumentsInPlace
  PROVE  Solves(Result)
<1>1. Covers(Result)
  BY DEF Covers, Result
<1>2. Covers(Infer(Result))
  BY <1>1, InferCovered
<1>3. <<NoInsn, prog.entry>> \in visited
  BY DEF Finished, VisitedInv, Entered
<1> QED
  BY <1>2, <1>3 DEF Solves, Covers, Result

(* No round of the iteration adds what the analysis does not have.         *)
LEMMA RoundsCovered ==
  ASSUME OnTheFly = FALSE, TypeInv, GraphInv, Finished, ArgumentsInPlace
  PROVE  \A n \in Nat : Covers(Rounds[n])
<1> DEFINE S == {n \in Nat : Covers(Rounds[n])}
<1>1. 0 \in S
  <2>1. <<NoInsn, prog.entry>> \in visited
    BY DEF Finished, VisitedInv, Entered
  <2> QED
    BY <2>1, RoundsUnfold DEF Covers, FirstRound
<1>2. ASSUME NEW n \in Nat, n \in S PROVE n + 1 \in S
  <2>1. Rounds[n + 1] = Infer(Rounds[n]) /\ Covers(Rounds[n])
    BY <1>2, RoundsUnfold
  <2>2. Covers(Infer(Rounds[n]))
    BY <2>1, InferCovered
  <2> QED
    BY <2>1, <2>2
<1> HIDE DEF S
<1>3. Nat \subseteq S
  BY <1>1, <1>2, AllNaturals
<1> QED
  BY <1>3 DEF S

LEMMA FinishedInv ==
  ASSUME OnTheFly = FALSE
  PROVE  Spec => [](TypeInv /\ GraphInv /\ (pc = "done" => Finished))
<1>1. SolverInv => PhaseInv
  BY DEF SolverInv
<1>2. Init => TypeInv /\ ListInv /\ SolverInv /\ GraphInv /\ VisitedInv
  BY TypeInvInit, ListInvInit, SolverInvInit, GraphInvInit, VisitedInvInit
<1>3. TypeInv /\ ListInv /\ SolverInv /\ GraphInv /\ VisitedInv /\ [Next]_vars
        => (TypeInv /\ ListInv /\ SolverInv /\ GraphInv /\ VisitedInv)'
  BY <1>1, TypeInvNext, ListInvNext, SolverInvNext, GraphInvNext, VisitedInvNext
<1>4. FlowClosed /\ HeapConnected /\ VisitedInv => (pc = "done" => Finished)
  BY DEF Finished
<1> QED
  BY <1>2, <1>3, <1>4, FlowSound, HeapSound, PTL DEF Spec

(* With class hierarchy analysis, when update returns, its points-to sets  *)
(* and the invocations it visited solve the constraints of the program,    *)
(* and they are part of every other solution: the result is the least      *)
(* solution, whatever the order of the worklist and of the edges           *)
(* (points_to.cpp, update).                                                *)
THEOREM LeastSolved ==
  ASSUME OnTheFly = FALSE, ArgumentsInPlace
  PROVE  Spec => [](pc = "done" => Solves(Result) /\ \A s : Solves(s) => Below(s))
<1>1. TypeInv /\ GraphInv /\ (pc = "done" => Finished) => (pc = "done" => Solves(Result))
  BY ResultSolves
<1> QED
  BY <1>1, FinishedInv, BelowSolutions, PTL

(* With enough rounds to settle the program, the analysis computes the     *)
(* solution that TLC compares it with, no more and no less.                *)
THEOREM ExactProved ==
  ASSUME OnTheFly = FALSE, ArgumentsInPlace
  PROVE  Spec /\ []Solves(LeastSolution) => []Exact
<1>1. /\ TypeInv /\ GraphInv /\ (pc = "done" => Finished)
      /\ \A s : Solves(s) => Below(s)
      /\ Solves(LeastSolution)
      => Exact
  <2> SUFFICES ASSUME TypeInv, GraphInv, Finished, Solves(LeastSolution), Below(LeastSolution)
               PROVE  pts = LeastSolution.pts /\ visited = LeastSolution.reach
    BY DEF Exact
  <2>1. Covers(LeastSolution)
    BY RoundsCovered, RoundsAssumption DEF LeastSolution
  <2> QED
    BY <2>1 DEF Covers, Below
<1> QED
  BY <1>1, FinishedInv, BelowSolutions, PTL

-----------------------------------------------------------------------------
(* The main loop re-enters the visitor: what the visit of a method called  *)
(* on the fly does to the round it interrupts (nothing is lost), and that  *)
(* every virtual call is dispatched in the end.  Both rest on PlacedInv: a *)
(* register vertex belongs to one invocation, and it gets no element and   *)
(* no call before all instructions of that invocation have been visited.   *)

(* The visitor, entered at the start or from the main loop.                *)

LEMMA VisitFrame ==
  ASSUME Visit
  PROVE  /\ pc = "visit" /\ pc' \in {"visit", "pop", "invoke"} /\ edges \subseteq edges'
         /\ prog' = prog /\ pts' = pts /\ cur' = cur /\ calls' = calls /\ todo' = todo
  BY DEF Visit, SkipVisited, BeginMethod, EndMethod, VisitAlloc, VisitAssign,
     VisitStore, VisitLoad, VisitStatic, VisitInvoke, VisitOther, QueueDrained, NextInsn, At,
     step, sets, graph

(* What has been entered stays entered, what is settled stays settled.     *)
Advances ==
  /\ Entered \subseteq Entered'
  /\ visited \subseteq visited' /\ visited \ Unfinished \subseteq (visited \ Unfinished)'
  /\ pc' # "visit" => queue' = <<>>
  /\ ip' # 0 => queue' # <<>> /\ Head(queue') \in visited'

LEMMA VisitAdvances ==
  ASSUME TypeInv, PlacedInv, Visit
  PROVE  Advances
<1>1. CASE SkipVisited \/ EndMethod
  <2>1. /\ queue # <<>> /\ queue' = Tail(queue) /\ ip' = 0 /\ visited' = visited
        /\ pc' = "visit" /\ Head(queue) \in visited
    BY <1>1 DEF SkipVisited, EndMethod, PlacedInv, TypeInv, Code
  <2>2. Elements(queue) = {Head(queue)} \cup Elements(Tail(queue))
    BY <2>1, ElementsOfTail DEF TypeInv
  <2>3. Entered' = visited \cup Elements(Tail(queue))
    BY <2>1 DEF Entered, Elements
  <2>4. Unfinished' = {}
    BY <2>1 DEF Unfinished
  <2> QED
    BY <2>1, <2>2, <2>3, <2>4, EnteredElements DEF Advances
<1>2. CASE BeginMethod
  <2>1. /\ queue # <<>> /\ queue' = queue /\ ip' = 1 /\ visited' = visited \cup {Head(queue)}
        /\ Head(queue) \notin visited /\ pc' = "visit"
    BY <1>2, VisitFrame DEF BeginMethod
  <2>2. Unfinished' = {Head(queue)}
    BY <2>1 DEF Unfinished
  <2> QED
    BY <2>1, <2>2 DEF Advances, Entered
<1>3. CASE QueueDrained
  <2>1. queue = <<>> /\ queue' = queue /\ ip' = ip /\ visited' = visited
    BY <1>3 DEF QueueDrained, scan
  <2> QED
    BY <2>1 DEF Advances, Entered, Unfinished, PlacedInv
<1>4. CASE ~(SkipVisited \/ EndMethod \/ BeginMethod \/ QueueDrained)
  <2>1. PICK ops : At(ops) /\ NextInsn
    BY <1>4 DEF Visit, VisitAlloc, VisitAssign, VisitStore, VisitLoad, VisitStatic, VisitInvoke,
       VisitOther
  <2>2. ip' = ip + 1 /\ visited' = visited /\ pc' = "visit" /\ ip \in Nat /\ ip # 0 /\ queue # <<>>
    BY <2>1 DEF NextInsn, At, TypeInv
  <2>3. queue' # <<>> /\ Head(queue') = Head(queue) /\ Elements(queue) \subseteq Elements(queue')
    BY <2>1, <2>2, VisitQueues DEF Behind
  <2>4. Entered' = visited \cup Elements(queue')
    BY <2>2 DEF Entered, Elements
  <2>5. Unfinished' = Unfinished
    BY <2>2, <2>3 DEF Unfinished
  <2> QED
    BY <2>2, <2>3, <2>4, <2>5, EnteredElements DEF Advances, PlacedInv
<1> QED
  BY <1>1, <1>2, <1>3, <1>4

LEMMA RegPlace == \A s, c : Invocation(RegVertex(s, c)) = <<c, s[1]>>
  BY DEF Invocation, RegVertex

LEMMA HeadEntered ==
  ASSUME TypeInv, queue # <<>>, Entered \subseteq Entered'
  PROVE  <<Context, Current>> \in Entered'
<1>1. Head(queue) = queue[1] /\ 1 \in 1 .. Len(queue) /\ Head(queue) = <<Context, Current>>
  BY DEF TypeInv, Context, Current
<1> QED
  BY <1>1 DEF Entered

(* The edges of a call lead to the invocation called and back.             *)
LEMMA InvokeEdgesPlaced ==
  ASSUME NEW context, NEW at, NEW m, <<context, at[1]>> \in Entered', <<at, m>> \in Entered'
  PROVE  \A e \in InvokeEdges(context, at, m) : Placed(e.dst)'
<1> SUFFICES ASSUME NEW e \in InvokeEdges(context, at, m) PROVE Placed(e.dst)'
  OBVIOUS
<1>1. CASE e \in ArgumentEdges(context, at, m)
  <2>1. PICK k \in 1 .. Len(Params[m]) :
          e \in {Edge(r, RegVertex(<<m, 0, Offset(m, k)>>, at), "assign") :
                   r \in Regs(Argument(InsnAt(at), m, k), at, context)}
    BY <1>1 DEF ArgumentEdges
  <2>2. e.dst = RegVertex(<<m, 0, Offset(m, k)>>, at)
    BY <2>1 DEF Edge
  <2>3. Invocation(e.dst) = <<at, m>>
    BY <2>2, RegPlace
  <2> QED
    BY <2>3 DEF Placed
<1>2. CASE e \in ResultEdges(context, at, m)
  <2>1. e.dst = RegVertex(<<at[1], at[2], 0>>, context)
    BY <1>2 DEF ResultEdges, Edge
  <2>2. Invocation(e.dst) = <<context, at[1]>>
    BY <2>1, RegPlace
  <2> QED
    BY <2>2 DEF Placed
<1> QED
  BY <1>1, <1>2 DEF InvokeEdges

LEMMA VisitPlaces ==
  ASSUME TypeInv, Visit, Entered \subseteq Entered'
  PROVE  \A e \in edges' \ edges : Placed(e.dst)'
<1> SUFFICES ASSUME NEW e \in edges' \ edges PROVE Placed(e.dst)'
  OBVIOUS
<1>1. queue # <<>> => /\ <<Context, Current>> \in Entered'
                      /\ Invocation(RegVertex(DefSite, Context)) = <<Context, Current>>
                      /\ Invocation(RegVertex(ExitSite(Current), Context)) = <<Context, Current>>
  BY HeadEntered, RegPlace DEF DefSite, ExitSite
<1>2. CASE VisitAlloc
  <2>1. e.dst = RegVertex(DefSite, Context) /\ queue # <<>>
    BY <1>2 DEF VisitAlloc, Edge, At
  <2> QED
    BY <1>1, <2>1 DEF Placed
<1>3. CASE VisitAssign
  <2>1. e.dst \in {RegVertex(DefSite, Context), RegVertex(ExitSite(Current), Context)} /\ queue # <<>>
    BY <1>3 DEF VisitAssign, Edge, At
  <2> QED
    BY <1>1, <2>1 DEF Placed
<1>4. CASE VisitStore
  <2>1. PICK s, f : e.dst = RegFieldVertex(s, f, Context)
    BY <1>4 DEF VisitStore, Edge
  <2> QED
    BY <2>1 DEF Placed, RegFieldVertex
<1>5. CASE VisitLoad
  <2>1. e.dst = RegVertex(DefSite, Context) /\ queue # <<>>
    BY <1>5 DEF VisitLoad, Edge, At
  <2> QED
    BY <1>1, <2>1 DEF Placed
<1>6. CASE VisitStatic
  <2>1. e.dst = RegVertex(DefSite, Context) \/ e.dst = StaticVertex(Insn.field)
    BY <1>6 DEF VisitStatic, Edge
  <2>2. queue # <<>>
    BY <1>6 DEF VisitStatic, At
  <2> QED
    BY <1>1, <2>1, <2>2 DEF Placed, StaticVertex
<1>7. CASE VisitInvoke
  <2>1. PICK x, targets, start, calling : x = Insn /\ InvokeQueues(x, targets, start, calling)
    BY <1>7, InvokeQueue
  <2>2. PICK k \in 1 .. Len(targets) : e \in InvokeEdges(Context, Here, targets[k])
    BY <2>1 DEF InvokeQueues
  <2>3. calling[k] = <<Here, targets[k]>> /\ k \in 1 .. Len(calling)
    BY <2>1 DEF InvokeQueues
  <2>4. /\ queue \o start \in Seq(Contexts \X Method) /\ calling \in Seq(Contexts \X Method)
        /\ queue' = (queue \o start) \o calling
    BY <2>1 DEF InvokeQueues, TypeInv
  <2>5. calling[k] \in Elements(queue')
    <3>1. Elements(calling) \subseteq Elements(queue')
      BY <2>4, ElementsOfConcat
    <3> QED
      BY <2>3, <3>1 DEF Elements
  <2>6. <<Here, targets[k]>> \in Entered'
    BY <2>3, <2>5 DEF Elements, Entered
  <2>7. <<Context, Here[1]>> \in Entered'
    BY <1>1, <1>7 DEF VisitInvoke, At, Here
  <2>8. PICK context, at, m : context = Context /\ at = Here /\ m = targets[k]
    OBVIOUS
  <2> QED
    BY <2>2, <2>6, <2>7, <2>8, InvokeEdgesPlaced
<1>8. CASE SkipVisited \/ BeginMethod \/ EndMethod \/ VisitOther \/ QueueDrained
  BY <1>8 DEF SkipVisited, BeginMethod, EndMethod, VisitOther, QueueDrained, graph
<1> QED
  BY <1>2, <1>3, <1>4, <1>5, <1>6, <1>7, <1>8 DEF Visit

(* A virtual call is registered in the invocation that is being visited.   *)
Registered(vi) ==
  LET x == InsnAt(vi[2][2])
  IN  /\ x.kind = "virtual" /\ vi[1] \in Regs(x.args[1], vi[2][2], vi[2][1])
      /\ <<vi[2][1], vi[2][2][1]>> \in visited

LEMMA RegisteredKept ==
  ASSUME prog' = prog, visited \subseteq visited', NEW vi, Registered(vi)
  PROVE  Registered(vi)'
  BY ProgramConstant DEF Registered

LEMMA VisitRegisters ==
  ASSUME TypeInv, PlacedInv, Visit, visited \subseteq visited', NEW vi \in vinvoke' \ vinvoke
  PROVE  Registered(vi)' /\ <<vi[2][1], vi[2][2][1]>> \in Unfinished
<1>1. VisitInvoke
  BY DEF Visit, SkipVisited, BeginMethod, EndMethod, VisitAlloc, VisitAssign, VisitStore, VisitLoad,
     VisitStatic, VisitOther, QueueDrained, graph
<1>2. PICK context, at, x : context = Context /\ at = Here /\ x = Insn
  OBVIOUS
<1>3. InsnAt(at) = x /\ queue # <<>> /\ ip # 0 /\ Head(queue) = <<context, at[1]>> /\ prog' = prog
  <2>1. PICK ops : At(ops)
    BY <1>1 DEF VisitInvoke
  <2>2. InsnAt(at) = x
    BY <1>2, <2>1, VisitingInsn
  <2>3. queue # <<>> /\ ip # 0
    BY <2>1 DEF At, TypeInv
  <2>4. Head(queue) = <<context, at[1]>>
    BY <1>2, <2>3 DEF TypeInv, Context, Here, Current
  <2> QED
    BY <2>2, <2>3, <2>4, VisitFrame
<1>4. PICK r \in Regs(x.args[1], at, context) : x.kind = "virtual" /\ vi = <<r, <<context, at>>>>
  BY <1>1, <1>2 DEF VisitInvoke
<1>5. vi[1] = r /\ vi[2][1] = context /\ vi[2][2] = at
  BY <1>4
<1>6. <<context, at[1]>> \in visited /\ <<context, at[1]>> \in Unfinished
  BY <1>3 DEF PlacedInv, Unfinished
<1>7. Registered(vi)
  BY <1>3, <1>4, <1>5, <1>6 DEF Registered
<1> QED
  BY <1>3, <1>5, <1>6, <1>7, RegisteredKept

LEMMA PlacedKept ==
  ASSUME Entered \subseteq Entered', NEW v, Placed(v)
  PROVE  Placed(v)'
  BY DEF Placed, Invocation

LEMMA SettledKept ==
  ASSUME visited \ Unfinished \subseteq (visited \ Unfinished)', NEW v, Settled(v)
  PROVE  Settled(v)'
  BY DEF Settled, Invocation

(* PlacedInv in two parts.                                                 *)
ScanInv ==
  /\ pc # "visit" => queue = <<>>
  /\ pc = "pop" => cur = NoVertex
  /\ ip # 0 => queue # <<>> /\ Head(queue) \in visited

PlaceInv ==
  /\ \A p \in inset : Placed(p[1])
  /\ \A e \in edges : Placed(e.dst)
  /\ \A e \in todo : Placed(e[2])
  /\ \A p \in pts : Settled(p[1])
  /\ InRound => Settled(cur)
  /\ \A c \in calls : <<c[1], c[2][1]>> \in visited
  /\ \A vi \in vinvoke : Registered(vi)

LEMMA PlacedInvParts == PlacedInv <=> ScanInv /\ PlaceInv
  BY DEF PlacedInv, ScanInv, PlaceInv, Registered

LEMMA PlacedInvVisit ==
  ASSUME TypeInv, PlacedInv, Visit
  PROVE  PlacedInv'
<1>1. Advances /\ ScanInv /\ PlaceInv
  BY VisitAdvances, PlacedInvParts
<1>2. /\ pc = "visit" /\ pc' \in {"visit", "pop", "invoke"} /\ edges \subseteq edges'
      /\ prog' = prog /\ pts' = pts /\ cur' = cur /\ calls' = calls /\ todo' = todo
  BY VisitFrame
<1>2a. (pc' = "pop" => cur = NoVertex) /\ (pc' = "invoke" => cur # NoVertex)
  BY DEF Visit, SkipVisited, BeginMethod, EndMethod, VisitAlloc, VisitAssign, VisitStore,
     VisitLoad, VisitStatic, VisitInvoke, VisitOther, QueueDrained, NextInsn, At
<1>3. ScanInv'
  BY <1>1, <1>2, <1>2a DEF ScanInv, Advances
<1>4. \A v : (Placed(v) => Placed(v)') /\ (Settled(v) => Settled(v)')
  BY <1>1, PlacedKept, SettledKept DEF Advances
<1>5. \A e \in edges' : Placed(e.dst)'
  BY <1>1, <1>4, VisitPlaces DEF PlaceInv, Advances
<1>6. \A p \in inset' : Placed(p[1])'
  <2>1. CASE inset' = inset
    BY <1>1, <1>4, <2>1 DEF PlaceInv
  <2>2. CASE \E e : AllocatedNow(e)
    <3>1. PICK e \in edges' : inset' = inset \cup {<<e.dst, a>> : a \in PointsToSet(e.src)}
      BY <2>2 DEF AllocatedNow
    <3> QED
      BY <1>1, <1>4, <1>5, <3>1 DEF PlaceInv
  <2> QED
    BY <2>1, <2>2, VisitMoves
<1>7. \A vi \in vinvoke' : Registered(vi)'
  BY <1>1, <1>2, RegisteredKept, VisitRegisters DEF PlaceInv, Advances
<1>8. InRound' => InRound
  BY <1>2, <1>2a DEF InRound
<1>9. (InRound => Settled(cur))'
  BY <1>1, <1>2, <1>4, <1>8 DEF PlaceInv
<1>10. PlaceInv'
  BY <1>1, <1>2, <1>4, <1>5, <1>6, <1>7, <1>9 DEF PlaceInv, Advances
<1> QED
  BY <1>3, <1>10 DEF PlacedInv, ScanInv, PlaceInv, Registered

(* The steps of the main loop leave the scan where it is, or start one.    *)
LEMMA UpdateFrame ==
  ASSUME PlacedInv, Update
  PROVE  /\ pc # "visit" /\ queue = <<>> /\ ip = 0 /\ ip' = 0 /\ visited' = visited
         /\ Entered = visited /\ Unfinished = {} /\ Unfinished' = {}
         /\ visited \subseteq Entered'
         /\ prog' = prog /\ vinvoke' = vinvoke /\ edges \subseteq edges'
         /\ pts \subseteq pts'
<1>1. /\ pc # "visit" /\ visited' = visited /\ ip' = ip /\ prog' = prog /\ vinvoke' = vinvoke
      /\ edges \subseteq edges' /\ pts \subseteq pts'
  <2>1. CASE PopUnchanged \/ Pop \/ CollectCalls \/ CallsDone \/ Forward \/ ClearInSet \/ UpdateCcg
    BY <2>1 DEF PopUnchanged, Pop, CollectCalls, CallsDone, Forward, ClearInSet, UpdateCcg, graph,
       scan, sets
  <2>2. CASE AddDerefEdge \/ ProcessCall
    BY <2>2 DEF AddDerefEdge, ProcessCall, scan, sets
  <2> QED
    BY <2>1, <2>2 DEF Update
<1>2. queue = <<>> /\ ip = 0
  BY <1>1 DEF PlacedInv
<1> QED
  BY <1>1, <1>2 DEF Entered, Unfinished

(* How a step of the main loop keeps PlacedInv: what it adds is placed.    *)
LEMMA PlacedInvKept ==
  ASSUME PlacedInv, Update,
         pc' # "visit" => queue' = <<>>, pc' = "pop" => cur' = NoVertex,
         \A p \in inset' \ inset : Placed(p[1])', \A e \in edges' \ edges : Placed(e.dst)',
         \A e \in todo' \ todo : Placed(e[2])', \A p \in pts' \ pts : Settled(p[1])',
         InRound' => Settled(cur)' \/ (InRound /\ cur' = cur),
         \A c \in calls' \ calls : <<c[1], c[2][1]>> \in visited
  PROVE  PlacedInv'
<1>1. /\ visited' = visited /\ ip' = 0 /\ Entered \subseteq Entered' /\ Unfinished' = {}
      /\ Unfinished = {} /\ prog' = prog /\ vinvoke' = vinvoke /\ ScanInv /\ PlaceInv
  BY UpdateFrame, PlacedInvParts
<1>2. \A v : (Placed(v) => Placed(v)') /\ (Settled(v) => Settled(v)')
  BY <1>1, PlacedKept, SettledKept
<1>3. \A vi \in vinvoke : Registered(vi)'
  BY <1>1, RegisteredKept DEF PlaceInv
<1>4. (InRound => Settled(cur))'
  <2>1. ASSUME InRound', InRound, cur' = cur PROVE Settled(cur)'
    <3>1. Settled(cur)
      BY <1>1, <2>1 DEF PlaceInv
    <3>2. PICK v : v = cur
      OBVIOUS
    <3>3. Settled(v)'
      BY <1>2, <3>1, <3>2
    <3> QED
      BY <2>1, <3>2, <3>3
  <2> QED
    BY <2>1
<1>5. ScanInv'
  BY <1>1 DEF ScanInv
<1>6. PlaceInv'
  BY <1>1, <1>2, <1>3, <1>4 DEF PlaceInv
<1> QED
  BY <1>5, <1>6 DEF PlacedInv, ScanInv, PlaceInv, Registered

LEMMA PlacedInvPop ==
  ASSUME TypeInv, PlacedInv, Pop
  PROVE  PlacedInv'
<1>1. PICK v, new : /\ new = Filtered(v) /\ new # {} /\ cur' = v /\ edges' = edges
                    /\ inset' = WithInSet(v, new) /\ pts' = pts \cup {<<v, a>> : a \in new}
                    /\ todo' \subseteq DerefEdges(v, new) /\ pc' = "deref" /\ calls' = calls
                    /\ queue' = queue /\ pc = "pop"
  BY DEF Pop, graph, scan
<1>2. Update /\ queue = <<>> /\ Entered' = visited' /\ Unfinished' = {} /\ Entered = visited
      /\ visited' = visited
  <2>1. Update
    BY DEF Update
  <2> QED
    BY <1>1, <2>1, UpdateFrame DEF Entered
<1>3. \A u : Placed(u) => Placed(u)' /\ Settled(u)'
  BY <1>2 DEF Placed, Settled, Invocation
<1>4. Placed(v)
  <2>1. PICK a : a \in new
    BY <1>1
  <2>2. <<v, a>> \in inset /\ <<v, a>>[1] = v
    BY <1>1, <2>1, InSetPair DEF Filtered
  <2> QED
    BY <2>2 DEF PlacedInv
<1>5. \A p \in inset' \ inset : p[1] = v
  BY <1>1 DEF WithInSet
<1>6. ASSUME NEW e \in todo' PROVE Placed(e[2])
  <2>1. PICK d \in {p[2] : p \in {q \in deref : q[1] = v}} :
          e \in UNION {LET af == AllocFieldVertex(a.hdl, d.field)
                       IN  {<<u, af>> : u \in Preds(edges, d)} \cup
                           {<<af, w>> : w \in Succs(edges, d)} :
                         a \in {b \in new : HasField(b, d.field)}}
    BY <1>1 DEF DerefEdges
  <2>2. PICK af : /\ e \in {<<u, af>> : u \in Preds(edges, d)} \cup {<<af, w>> : w \in Succs(edges, d)}
                  /\ af.kind = "alloc_dot_field"
    BY <2>1 DEF AllocFieldVertex
  <2>3. CASE e[2] = af
    BY <2>2, <2>3 DEF Placed
  <2>4. CASE e[2] \in Succs(edges, d)
    BY <2>4 DEF Succs, PlacedInv
  <2> QED
    BY <2>2, <2>3, <2>4
<1>7. Settled(cur)'
  BY <1>1, <1>2, <1>4 DEF Placed, Settled, Invocation
<1>8. \A p \in pts' \ pts : p[1] = v
  BY <1>1
<1> QED
  BY <1>1, <1>2, <1>3, <1>4, <1>5, <1>6, <1>7, <1>8, PlacedInvKept

LEMMA PlacedInvUpdate ==
  ASSUME TypeInv, PlacedInv, Update
  PROVE  PlacedInv'
<1>1. /\ Entered = visited /\ Entered \subseteq Entered' /\ visited' = visited
      /\ queue = <<>> /\ pc # "visit"
  BY UpdateFrame
<1>2. \A u : Placed(u) => Placed(u)'
  BY <1>1, PlacedKept
<1>3. CASE AddDerefEdge
  <2>1. PICK e \in todo : /\ edges' = edges \cup {Edge(e[1], e[2], "assign")}
                          /\ Propagate(e[2], PointsToSet(e[1])) /\ todo' = todo \ {e}
    BY <1>3 DEF AddDerefEdge
  <2>2. Placed(e[2])' /\ Edge(e[1], e[2], "assign").dst = e[2]
    BY <1>2 DEF PlacedInv, Edge
  <2>3. \A p \in inset' \ inset : p[1] = e[2]
    BY <2>1 DEF Propagate
  <2>4. /\ pc = "deref" /\ pc' = pc /\ cur' = cur /\ pts' = pts /\ calls' = calls /\ queue' = queue
    BY <1>3 DEF AddDerefEdge, scan
  <2> QED
    BY <1>1, <2>1, <2>2, <2>3, <2>4, PlacedInvKept DEF InRound
<1>4. CASE Forward
  <2>1. PICK e \in todo : Propagate(e[2], InSet(cur)) /\ todo' = todo \ {e}
    BY <1>4 DEF Forward
  <2>2. Placed(e[2])'
    BY <1>2 DEF PlacedInv
  <2>3. \A p \in inset' \ inset : p[1] = e[2]
    BY <2>1 DEF Propagate
  <2>4. /\ pc = "forward" /\ pc' = pc /\ cur' = cur /\ pts' = pts /\ calls' = calls /\ queue' = queue
        /\ edges' = edges
    BY <1>4 DEF Forward, scan, graph
  <2> QED
    BY <1>1, <2>1, <2>2, <2>3, <2>4, PlacedInvKept DEF InRound
<1>5. CASE ProcessCall
  <2>1. PICK c \in calls : \E target :
          /\ edges' = edges \cup InvokeEdges(c[1], c[2], target)
          /\ queue' = <<<<c[2], target>>>> /\ calls' = calls \ {c}
    BY <1>5 DEF ProcessCall
  <2>2. PICK target : /\ edges' = edges \cup InvokeEdges(c[1], c[2], target)
                      /\ queue' = <<<<c[2], target>>>>
    BY <2>1
  <2>3. queue'[1] = <<c[2], target>> /\ 1 \in 1 .. Len(queue')
    BY <2>2
  <2>4. <<c[2], target>> \in Entered' /\ <<c[1], c[2][1]>> \in Entered'
    BY <1>1, <2>3 DEF Entered, PlacedInv
  <2>5. \A e \in edges' \ edges : Placed(e.dst)'
    BY <2>2, <2>4, InvokeEdgesPlaced
  <2>6. pc = "invoke" /\ pc' = "visit" /\ cur' = cur /\ pts' = pts /\ inset' = inset /\ todo' = todo
    BY <1>5 DEF ProcessCall, sets
  <2> QED
    BY <2>1, <2>5, <2>6, PlacedInvKept DEF InRound
<1>6. CASE CollectCalls
  <2>1. \A c \in calls' : \E vi \in vinvoke : c[1] = vi[2][1] /\ c[2] = vi[2][2]
    BY <1>6 DEF CollectCalls
  <2>2. \A c \in calls' : <<c[1], c[2][1]>> \in visited
    BY <2>1 DEF PlacedInv
  <2>3. /\ pc = "deref" /\ pc' = "invoke" /\ cur' = cur /\ pts' = pts /\ inset' = inset
        /\ todo' = todo /\ edges' = edges /\ queue' = queue
    BY <1>6 DEF CollectCalls, sets, graph, scan
  <2> QED
    BY <1>1, <2>2, <2>3, PlacedInvKept DEF InRound
<1>7. CASE CallsDone
  <2>1. /\ pc = "invoke" /\ pc' = "forward" /\ cur' = cur /\ pts' = pts /\ inset' = inset
        /\ calls' = calls /\ edges' = edges /\ queue' = queue
        /\ \A t \in todo' : \E e \in edges : t[2] = e.dst
    BY <1>7 DEF CallsDone, sets, graph, scan
  <2>2. \A t \in todo' : Placed(t[2])'
    BY <1>2, <2>1 DEF PlacedInv
  <2> QED
    BY <1>1, <2>1, <2>2, PlacedInvKept DEF InRound
<1>8. CASE PopUnchanged \/ ClearInSet \/ UpdateCcg
  <2>1. /\ pc' \in {"pop", "done"} /\ (pc' = "pop" => cur' = cur \/ cur' = NoVertex)
        /\ pts' = pts /\ inset' \subseteq inset /\ (cur' # NoVertex => pc = "pop")
        /\ calls' = calls /\ edges' = edges /\ queue' = queue /\ todo' = todo
    BY <1>8 DEF PopUnchanged, ClearInSet, UpdateCcg, sets, graph, scan, step, WithInSet
  <2>2. pc' = "pop" => cur' = NoVertex
    BY <2>1 DEF PlacedInv
  <2> QED
    BY <1>1, <2>1, <2>2, PlacedInvKept DEF InRound
<1> QED
  BY <1>3, <1>4, <1>5, <1>6, <1>7, <1>8, PlacedInvPop DEF Update

LEMMA PlacedInvNext ==
  ASSUME TypeInv, PlacedInv, [Next]_vars
  PROVE  PlacedInv'
<1>1. CASE UNCHANGED vars
  <2>1. /\ prog' = prog /\ edges' = edges /\ vinvoke' = vinvoke /\ pts' = pts /\ inset' = inset
        /\ visited' = visited /\ queue' = queue /\ ip' = ip /\ cur' = cur /\ calls' = calls
        /\ todo' = todo /\ pc' = pc
    BY <1>1 DEF vars, graph, sets, scan, step
  <2>2. Entered' = Entered /\ Unfinished' = Unfinished /\ InRound' = InRound
    BY <2>1 DEF Entered, Unfinished, InRound
  <2>3. \A v : Placed(v)' = Placed(v) /\ Settled(v)' = Settled(v)
    BY <2>1, <2>2 DEF Placed, Settled, Invocation
  <2>4. \A vi : Registered(vi) => Registered(vi)'
    BY <2>1, RegisteredKept
  <2>5. ScanInv' /\ PlaceInv'
    BY <2>1, <2>2, <2>3, <2>4, PlacedInvParts DEF ScanInv, PlaceInv
  <2> QED
    BY <2>5 DEF PlacedInv, ScanInv, PlaceInv, Registered
<1> QED
  BY <1>1, PlacedInvVisit, PlacedInvUpdate DEF Next

LEMMA PlacedInvInit == Init => PlacedInv
  BY DEF Init, PlacedInv, InRound

-----------------------------------------------------------------------------
(* No round loses what waits in the in-set of its vertex.                  *)

(* A visit sends to no vertex whose instructions have all been visited.    *)
LEMMA VisitSpares ==
  ASSUME TypeInv, PlacedInv, Visit, NEW v, Settled(v)
  PROVE  InSet(v)' = InSet(v)
<1>1. CASE VisitAlloc
  <2>1. PICK dst, allocs : dst = RegVertex(DefSite, Context) /\ Propagate(dst, allocs)
    BY <1>1 DEF VisitAlloc
  <2>2. queue # <<>> /\ ip # 0 /\ dst.kind = "reg" /\ Invocation(dst) = <<Context, Current>>
    BY <1>1, <2>1, RegKind, RegPlace DEF VisitAlloc, At, TypeInv, DefSite
  <2>3. Head(queue) = <<Context, Current>>
    BY <2>2 DEF TypeInv, Context, Current
  <2>4. Invocation(dst) \in Unfinished
    BY <2>2, <2>3 DEF Unfinished
  <2>5. v # dst
    BY <2>2, <2>4 DEF Settled
  <2> QED
    BY <2>1, <2>5, PropagateInSet
<1>2. CASE ~VisitAlloc
  BY <1>2, VisitEdges, InSetSame
<1> QED
  BY <1>1, <1>2

LEMMA VisitRound ==
  ASSUME Visit
  PROVE  InRound' => InRound
<1>1. pc' = "invoke" => cur # NoVertex
  BY DEF Visit, SkipVisited, BeginMethod, EndMethod, VisitAlloc, VisitAssign, VisitStore,
     VisitLoad, VisitStatic, VisitInvoke, VisitOther, QueueDrained, NextInsn, At
<1> QED
  BY <1>1, VisitFrame DEF InRound

LEMMA KeptInvNext ==
  ASSUME TypeInv, GraphInv, PlacedInv, KeptInv, [Next]_vars
  PROVE  KeptInv'
<1> DEFINE Good(v, a) == a \in PointsToSet(v) \/ ~Passes(v, a)
<1>1. ASSUME InRound, cur' = cur, pts' = pts, prog' = prog, InSet(cur)' = InSet(cur)
      PROVE  KeptInv'
  <2>1. PICK v : v = cur
    OBVIOUS
  <2>2. InSet(v)' = InSet(v) /\ PointsToSet(v)' = PointsToSet(v) /\ cur' = v
    BY <1>1, <2>1, PointsToSetSame
  <2>3. \A a : Passes(v, a)' = Passes(v, a)
    BY <1>1, ProgramConstant
  <2> QED
    BY <1>1, <2>1, <2>2, <2>3 DEF KeptInv
<1>2. CASE Visit
  <2>1. CASE ~InRound'
    BY <2>1 DEF KeptInv
  <2>2. CASE InRound'
    <3>1. InRound /\ Settled(cur)
      BY <1>2, <2>2, VisitRound DEF PlacedInv
    <3>2. PICK v : v = cur
      OBVIOUS
    <3>3. InSet(v)' = InSet(v)
      BY <1>2, <3>1, <3>2, VisitSpares
    <3> QED
      BY <1>1, <1>2, <3>1, <3>2, <3>3, VisitFrame
  <2> QED
    BY <2>1, <2>2
<1>3. CASE Pop
  <2>1. PICK v, new : /\ new = Filtered(v) /\ cur' = v /\ inset' = WithInSet(v, new)
                      /\ pts' = pts \cup {<<v, a>> : a \in new}
    BY <1>3 DEF Pop
  <2>2. InSet(v)' = new /\ new \subseteq PointsToSet(v)'
    BY <2>1, WithInSetEffect, PointsToSetEffect
  <2> QED
    BY <2>1, <2>2 DEF KeptInv
<1>4. CASE AddDerefEdge \/ Forward
  <2>1. PICK e, allocs : /\ e \in todo /\ Propagate(e[2], allocs)
                         /\ e[2] = cur => allocs = InSet(cur)
    BY <1>4 DEF AddDerefEdge, Forward, GraphInv
  <2>2. PICK v : v = cur
    OBVIOUS
  <2>3. InSet(v)' = InSet(v)
    <3>1. CASE e[2] = v
      <4>1. Propagate(v, InSet(v))
        BY <2>1, <2>2, <3>1
      <4> QED
        BY <4>1, PropagateInSet
    <3>2. CASE e[2] # v
      BY <2>1, <3>2, PropagateInSet
    <3> QED
      BY <3>1, <3>2
  <2>4. /\ pc \in {"deref", "forward"} /\ cur' = cur /\ pts' = pts /\ prog' = prog
    BY <1>4 DEF AddDerefEdge, Forward
  <2> QED
    BY <1>1, <2>2, <2>3, <2>4 DEF InRound
<1>5. CASE CollectCalls \/ CallsDone \/ ProcessCall
  <2>1. /\ pc \in {"deref", "invoke"} /\ cur' = cur /\ pts' = pts /\ prog' = prog /\ inset' = inset
    BY <1>5 DEF CollectCalls, CallsDone, ProcessCall, sets
  <2>2. PICK v : v = cur
    OBVIOUS
  <2>3. InSet(v)' = InSet(v)
    BY <2>1, InSetSame
  <2> QED
    BY <1>1, <2>1, <2>2, <2>3 DEF InRound
<1>6. CASE PopUnchanged \/ ClearInSet \/ UpdateCcg
  <2>1. pc' \in {"pop", "done"}
    BY <1>6 DEF PopUnchanged, ClearInSet, UpdateCcg
  <2> QED
    BY <2>1 DEF KeptInv, InRound
<1>7. CASE UNCHANGED vars
  <2>1. cur' = cur /\ pts' = pts /\ prog' = prog /\ inset' = inset /\ InRound' = InRound
    BY <1>7 DEF vars, sets, step, InRound
  <2>2. PICK v : v = cur
    OBVIOUS
  <2>3. InSet(v)' = InSet(v)
    BY <2>1, InSetSame
  <2> QED
    BY <1>1, <2>1, <2>2, <2>3 DEF KeptInv
<1> QED
  BY <1>2, <1>3, <1>4, <1>5, <1>6, <1>7 DEF Next, Update

LEMMA KeptInvInit == Init => KeptInv
  BY DEF Init, KeptInv, InRound

LEMMA PlaceInvariant == Spec => [](TypeInv /\ ListInv /\ GraphInv /\ PlacedInv /\ KeptInv)
<1>1. Init => TypeInv /\ ListInv /\ GraphInv /\ PlacedInv /\ KeptInv
  BY TypeInvInit, ListInvInit, GraphInvInit, PlacedInvInit, KeptInvInit
<1>2. TypeInv /\ ListInv /\ GraphInv /\ PlacedInv /\ KeptInv /\ [Next]_vars
        => (TypeInv /\ ListInv /\ GraphInv /\ PlacedInv /\ KeptInv)'
  BY TypeInvNext, ListInvNext, GraphInvNext, PlacedInvNext, KeptInvNext
<1> QED
  BY <1>1, <1>2, PTL DEF Spec

(* In both modes, no element is dropped from an in-set by filter_in_set or *)
(* by the clear at the end of a round before it is in the points-to set,   *)
(* unless it has the wrong type; the calls visited during a round send     *)
(* nothing to its vertex.                                                  *)
THEOREM InSetSound == Spec => NothingLost
<1> DEFINE Kept(p) == p[2] \in PointsToSet(p[1])' \/ ~Passes(p[1], p[2])
<1>1. ASSUME TypeInv, KeptInv, [Next]_vars
      PROVE  [\A p \in inset \ inset' : Kept(p)]_vars
  <2> SUFFICES ASSUME NEW p \in inset \ inset'
               PROVE  Kept(p)
    OBVIOUS
  <2>1. p[2] \in InSet(p[1])
    BY DEF InSet
  <2>2. CASE PopUnchanged
    <3>1. p[1] = Head(worklist) /\ Filtered(p[1]) = {} /\ pts' = pts
      BY <2>2 DEF PopUnchanged, WithInSet
    <3>2. p[2] \in PointsToSet(p[1]) \/ ~Passes(p[1], p[2])
      BY <2>1, <3>1 DEF Filtered
    <3> QED
      BY <3>1, <3>2, PointsToSetSame
  <2>3. CASE Pop
    <3>1. PICK v : v = Head(worklist)
      OBVIOUS
    <3>2. /\ inset' = WithInSet(v, Filtered(v)) /\ pts' = pts \cup {<<v, a>> : a \in Filtered(v)}
      BY <2>3, <3>1 DEF Pop
    <3>3. p[1] = v
      BY <3>2 DEF WithInSet
    <3>4. p[2] \in Filtered(v) \/ p[2] \in PointsToSet(v) \/ ~Passes(v, p[2])
      BY <2>1, <3>3 DEF Filtered
    <3>5. PointsToSet(v) \subseteq PointsToSet(v)' /\ Filtered(v) \subseteq PointsToSet(v)'
      BY <3>2, PointsToSetEffect
    <3> QED
      BY <3>3, <3>4, <3>5
  <2>4. CASE ClearInSet
    <3>1. p[1] = cur /\ pc = "forward" /\ pts' = pts
      BY <2>4 DEF ClearInSet, WithInSet
    <3>2. p[2] \in PointsToSet(p[1]) \/ ~Passes(p[1], p[2])
      BY <1>1, <2>1, <3>1 DEF KeptInv, InRound
    <3> QED
      BY <3>1, <3>2, PointsToSetSame
  <2>5. CASE inset \subseteq inset'
    BY <2>5
  <2>6. CASE AddDerefEdge \/ Forward
    BY <2>5, <2>6 DEF AddDerefEdge, Forward, Propagate
  <2>7. CASE VisitAlloc
    BY <2>5, <2>7 DEF VisitAlloc, Propagate
  <2> QED
    BY <1>1, <2>2, <2>3, <2>4, <2>5, <2>6, <2>7
    DEF Next, Visit, Update, SkipVisited, BeginMethod, EndMethod, VisitAssign,
     VisitStore, VisitLoad, VisitStatic, VisitInvoke, VisitOther, QueueDrained, CollectCalls,
     ProcessCall, CallsDone, UpdateCcg, vars, sets
<1> QED
  BY <1>1, PlaceInvariant, PTL DEF NothingLost, Spec

-----------------------------------------------------------------------------
(* Virtual calls are dispatched on what their receivers point to.          *)

LEMMA OffsetOne == \A m : Offset(m, 1) = 0
<1> SUFFICES ASSUME NEW m PROVE Offset(m, 1) = 0
  OBVIOUS
<1>1. {j \in 1 .. (1 - 1) : Params[m][j] = "J"} = {}
  OBVIOUS
<1>2. Cardinality({}) = 0
  BY FS_EmptySet
<1> QED
  BY <1>1, <1>2 DEF Offset

(* The receiver of a virtual call and the edge to the this parameter of a  *)
(* target of the call.                                                     *)
ReceiverEdge(r, context, at) ==
  \A key \in DOMAIN Dispatch :
    key[1] = InsnAt(at).callee /\ Dispatch[key] \notin IsAbstract =>
      Edge(r, This(Dispatch[key], at), "assign") \in InvokeEdges(context, at, Dispatch[key])

LEMMA ReceiverFacts ==
  ASSUME TypeInv, NEW at \in CallSites, NEW context, InsnAt(at).kind = "virtual",
         NEW r \in Regs(InsnAt(at).args[1], at, context)
  PROVE  /\ r.kind = "reg" /\ Invocation(r) = <<context, at[1]>>
         /\ ReceiverEdge(r, context, at)
<1>1. PICK x : x = InsnAt(at)
  OBVIOUS
<1>2. /\ x.op = "invoke" /\ x.kind = "virtual" /\ at[1] \in Method
      /\ at[2] \in 1 .. Len(prog.code[at[1]]) /\ x = prog.code[at[1]][at[2]]
  BY <1>1 DEF CallSites, IsInsn, InsnAt, Point
<1>3. /\ \A s \in x.args[1] : s[1] = at[1]
      /\ \A t \in Targets(x.callee) : 1 \in 1 .. Len(Params[t]) /\ Params[t][1] = "L"
  BY <1>2, ReceiverAssumption DEF TypeInv
<1>4. PICK s \in x.args[1] : r = RegVertex(s, context)
  BY <1>1 DEF Regs, Incoming
<1>5. r.kind = "reg" /\ Invocation(r) = <<context, at[1]>>
  BY <1>3, <1>4, RegKind, RegPlace
<1>6. ASSUME NEW key \in DOMAIN Dispatch, key[1] = x.callee, Dispatch[key] \notin IsAbstract
      PROVE  Edge(r, This(Dispatch[key], at), "assign") \in InvokeEdges(context, at, Dispatch[key])
  <2>1. PICK t : t = Dispatch[key]
    OBVIOUS
  <2>2. t \in Targets(x.callee)
    BY <1>6, <2>1 DEF Targets
  <2>3. 1 \in {k \in 1 .. Len(Params[t]) : Params[t][k] = "L"}
    BY <1>3, <2>2
  <2>4. Argument(x, t, 1) = x.args[1]
    BY OffsetOne DEF Argument
  <2>5. Edge(r, RegVertex(<<t, 0, Offset(t, 1)>>, at), "assign") \in ArgumentEdges(context, at, t)
    BY <1>1, <2>3, <2>4 DEF ArgumentEdges
  <2>6. Edge(r, This(t, at), "assign") \in ArgumentEdges(context, at, t)
    BY <2>5, OffsetOne DEF This
  <2> QED
    BY <1>6, <2>1, <2>6 DEF InvokeEdges
<1> QED
  BY <1>1, <1>5, <1>6 DEF ReceiverEdge

(* A this parameter has no type: nothing is filtered out on the way.       *)
LEMMA ThisPasses ==
  ASSUME TypeInv, NEW at, NEW target, <<at, target>> \in Entered
  PROVE  target \in Method /\ \A a : Passes(This(target, at), a)
<1>1. target \in Method
  <2>1. \A k \in 1 .. Len(queue) : queue[k] \in Contexts \X Method
    BY DEF TypeInv
  <2> QED
    BY <2>1 DEF TypeInv, Entered
<1>2. TypeOf(This(target, at)) = NoType
  <2>1. This(target, at).kind = "reg" /\ This(target, at).hdl = <<target, 0, 0>>
    BY DEF This, RegVertex
  <2>2. This(target, at).hdl[2] = 0 /\ 0 \notin 1 .. Len(prog.code[This(target, at).hdl[1]])
    BY <2>1
  <2> QED
    BY <2>1, <2>2 DEF TypeOf
<1> QED
  BY <1>1, <1>2 DEF Passes

LEMMA VisitInSets ==
  ASSUME Visit
  PROVE  \A v : InSet(v) \subseteq InSet(v)'
<1>1. CASE inset' = inset
  BY <1>1, InSetSame
<1>2. CASE inset \subseteq inset'
  BY <1>2 DEF InSet
<1> QED
  BY <1>1, <1>2, VisitMoves DEF AllocatedNow

LEMMA OnItsWayVisit ==
  ASSUME Visit, NEW r, NEW this, NEW a, OnItsWay(r, this, a)
  PROVE  OnItsWay(r, this, a)'
<1>1. /\ pc = "visit" /\ pc' \in {"visit", "pop", "invoke"} /\ cur' = cur
      /\ PointsToSet(this)' = PointsToSet(this)
  BY VisitFrame, PointsToSetSame
<1>2. pc' = "pop" => cur = NoVertex
  BY DEF Visit, SkipVisited, BeginMethod, EndMethod, VisitAlloc, VisitAssign, VisitStore,
     VisitLoad, VisitStatic, VisitInvoke, VisitOther, QueueDrained, NextInsn, At
<1>3. InRound => InRound'
  BY <1>1, <1>2 DEF InRound
<1>4. PICK v : v = cur
  OBVIOUS
<1>5. InSet(v) \subseteq InSet(v)' /\ InSet(this) \subseteq InSet(this)'
  BY VisitInSets
<1> QED
  BY <1>1, <1>3, <1>4, <1>5 DEF OnItsWay

(* What waits in the in-set of a vertex without a type gets to its         *)
(* points-to set.                                                          *)
LEMMA UpdateDelivers ==
  ASSUME KeptInv, Update, NEW v, NEW a \in InSet(v), Passes(v, a)
  PROVE  a \in PointsToSet(v)' \cup InSet(v)'
<1>1. CASE PopUnchanged
  <2>1. PICK u : Filtered(u) = {} /\ inset' = WithInSet(u, {}) /\ pts' = pts
    BY <1>1 DEF PopUnchanged
  <2>2. CASE u = v
    BY <2>1, <2>2, PointsToSetSame DEF Filtered
  <2>3. CASE u # v
    BY <2>1, <2>3, WithInSetEffect
  <2> QED
    BY <2>2, <2>3
<1>2. CASE Pop
  <2>1. PICK u, new : /\ new = Filtered(u) /\ inset' = WithInSet(u, new)
                      /\ pts' = pts \cup {<<u, b>> : b \in new}
    BY <1>2 DEF Pop
  <2>2. CASE u = v
    <3>1. a \in new \/ a \in PointsToSet(v)
      BY <2>1, <2>2 DEF Filtered
    <3> QED
      BY <2>1, <2>2, <3>1, PointsToSetEffect
  <2>3. CASE u # v
    BY <2>1, <2>3, WithInSetEffect
  <2> QED
    BY <2>2, <2>3
<1>3. CASE AddDerefEdge \/ Forward
  <2>1. PICK dst, allocs : Propagate(dst, allocs)
    BY <1>3 DEF AddDerefEdge, Forward
  <2> QED
    BY <2>1, PropagateInSet
<1>4. CASE ClearInSet
  <2>1. PICK u : u = cur
    OBVIOUS
  <2>2. inset' = WithInSet(u, {}) /\ pts' = pts /\ InRound
    BY <1>4, <2>1 DEF ClearInSet, InRound
  <2>3. CASE u = v
    BY <2>1, <2>2, <2>3, PointsToSetSame DEF KeptInv
  <2>4. CASE u # v
    BY <2>2, <2>4, WithInSetEffect
  <2> QED
    BY <2>3, <2>4
<1>5. CASE CollectCalls \/ ProcessCall \/ CallsDone \/ UpdateCcg
  <2>1. inset' = inset
    BY <1>5 DEF CollectCalls, ProcessCall, CallsDone, UpdateCcg, sets
  <2> QED
    BY <2>1, InSetSame
<1> QED
  BY <1>1, <1>2, <1>3, <1>4, <1>5 DEF Update

LEMMA OnItsWayUpdate ==
  ASSUME ListInv, PlacedInv, KeptInv, Update, NEW r, NEW this, NEW a, OnItsWay(r, this, a),
         Edge(r, this, "assign") \in edges, Passes(this, a)
  PROVE  OnItsWay(r, this, a)'
<1>1. CASE a \in PointsToSet(this)
  <2>1. pts \subseteq pts'
    BY UpdateFrame
  <2>2. a \in PointsToSet(this)'
    BY <1>1, <2>1 DEF PointsToSet
  <2> QED
    BY <2>2 DEF OnItsWay
<1>2. CASE a \in InSet(this)
  BY <1>2, UpdateDelivers DEF OnItsWay
<1>3. CASE r = cur /\ a \in InSet(r) /\ InRound /\ (pc = "forward" => <<r, this>> \in todo)
  <2>0. pc \in {"deref", "invoke", "forward"} /\ cur # NoVertex
    BY <1>3, UpdateFrame DEF InRound, ListInv
  <2>1. CASE AddDerefEdge
    <3>1. PICK dst, allocs : Propagate(dst, allocs)
      BY <2>1 DEF AddDerefEdge
    <3>2. a \in InSet(r)' /\ cur' = cur /\ pc' = "deref"
      BY <1>3, <2>1, <3>1, PropagateInSet DEF AddDerefEdge
    <3> QED
      BY <1>3, <3>2 DEF OnItsWay, InRound
  <2>2. CASE CollectCalls \/ ProcessCall
    <3>1. inset' = inset /\ cur' = cur /\ pc' \in {"invoke", "visit"}
      BY <2>2 DEF CollectCalls, ProcessCall, sets
    <3>2. a \in InSet(r)'
      BY <1>3, <3>1, InSetSame
    <3> QED
      BY <1>3, <2>0, <3>1, <3>2 DEF OnItsWay, InRound
  <2>3. CASE CallsDone
    <3>1. inset' = inset /\ cur' = cur /\ pc' = "forward"
      BY <2>3 DEF CallsDone, sets
    <3>2. a \in InSet(r)'
      BY <1>3, <3>1, InSetSame
    <3>3. PICK e : e = Edge(r, this, "assign")
      OBVIOUS
    <3>4. e \in edges /\ e.src = r /\ e.dst = this /\ IsFlow(e)
      BY <3>3 DEF Edge, IsFlow, FlowKinds
    <3>5. <<r, this>> \in todo'
      BY <1>3, <2>3, <3>4 DEF CallsDone
    <3> QED
      BY <1>3, <3>1, <3>2, <3>5 DEF OnItsWay, InRound
  <2>4. CASE Forward
    <3>1. PICK e \in todo : Propagate(e[2], InSet(r)) /\ todo' = todo \ {e}
      BY <1>3, <2>4 DEF Forward
    <3>2. pc = "forward" /\ pc' = pc /\ cur' = cur
      BY <2>4 DEF Forward
    <3>3. a \in InSet(r)'
      BY <1>3, <3>1, PropagateInSet
    <3>4. CASE e = <<r, this>>
      BY <1>3, <3>1, <3>4, PropagateInSet DEF OnItsWay
    <3>5. CASE e # <<r, this>>
      BY <1>3, <3>1, <3>2, <3>3, <3>5 DEF OnItsWay, InRound
    <3> QED
      BY <3>4, <3>5
  <2>5. CASE ClearInSet
    BY <1>3, <2>5 DEF ClearInSet
  <2>6. CASE PopUnchanged \/ Pop \/ UpdateCcg
    BY <2>0, <2>6 DEF PopUnchanged, Pop, UpdateCcg
  <2> QED
    BY <2>1, <2>2, <2>3, <2>4, <2>5, <2>6 DEF Update
<1> QED
  BY <1>1, <1>2, <1>3 DEF OnItsWay

(* What is dispatched stays dispatched.                                    *)
LEMMA DispatchedNext ==
  ASSUME TypeInv, ListInv, PlacedInv, KeptInv, Next, NEW r, NEW at, NEW a, Dispatched(r, at, a)
  PROVE  Dispatched(r, at, a)'
<1>1. Entered \subseteq Entered' /\ edges \subseteq edges' /\ prog' = prog
  <2>1. CASE Visit
    BY <2>1, VisitFrame, VisitAdvances DEF Advances
  <2>2. CASE Update
    BY <2>2, UpdateFrame
  <2> QED
    BY <2>1, <2>2 DEF Next
<1>2. PICK target : target = Dispatch[<<InsnAt(at).callee, TypeOf(a)>>]
  OBVIOUS
<1>3. /\ <<at, target>> \in Entered
      /\ target \notin IsAbstract => /\ Edge(r, This(target, at), "assign") \in edges
                                     /\ OnItsWay(r, This(target, at), a)
  BY <1>2 DEF Dispatched
<1>4. target = Dispatch[<<InsnAt(at)'.callee, TypeOf(a)'>>]
  BY <1>1, <1>2, ProgramConstant
<1>5. ASSUME target \notin IsAbstract PROVE OnItsWay(r, This(target, at), a)'
  <2>1. Passes(This(target, at), a)
    BY <1>3, ThisPasses
  <2>2. PICK this : this = This(target, at)
    OBVIOUS
  <2>3. OnItsWay(r, this, a)'
    BY <1>3, <1>5, <2>1, <2>2, OnItsWayVisit, OnItsWayUpdate DEF Next
  <2> QED
    BY <2>2, <2>3
<1> QED
  BY <1>1, <1>3, <1>4, <1>5 DEF Dispatched

(* A virtual call that waits for its round is collected in it, and its     *)
(* turn dispatches it.                                                     *)
LEMMA ToDispatchNext ==
  ASSUME OnTheFly = TRUE, TypeInv, ListInv, PlacedInv, Next, NEW vi \in vinvoke, NEW a,
         ToDispatch(vi[1], vi[2][1], vi[2][2], a)
  PROVE  ToDispatch(vi[1], vi[2][1], vi[2][2], a)' \/ Dispatched(vi[1], vi[2][2], a)'
<1>1. PICK r, context, at : r = vi[1] /\ context = vi[2][1] /\ at = vi[2][2]
  OBVIOUS
<1>2. /\ r = cur /\ r \in Vertex /\ r # NoVertex /\ a \in InSet(r)
      /\ pc \in {"deref", "invoke", "visit"} /\ (pc # "deref" => <<context, at, TypeOf(a)>> \in calls)
  BY <1>1, VertexAssumption DEF ToDispatch, TypeInv
<1> SUFFICES ToDispatch(r, context, at, a)' \/ Dispatched(r, at, a)'
  BY <1>1
<1>3. ASSUME cur' = cur, a \in InSet(r)', prog' = prog, pc' \in {"deref", "invoke", "visit"},
             pc' # "deref" => <<context, at, TypeOf(a)>> \in calls'
      PROVE  ToDispatch(r, context, at, a)'
  BY <1>2, <1>3, ProgramConstant DEF ToDispatch
<1>4. CASE Visit
  <2>1. /\ pc = "visit" /\ pc' \in {"visit", "pop", "invoke"} /\ cur' = cur /\ calls' = calls
        /\ prog' = prog
    BY <1>4, VisitFrame
  <2>2. pc' = "pop" => cur = NoVertex
    BY <1>4 DEF Visit, SkipVisited, BeginMethod, EndMethod, VisitAlloc, VisitAssign, VisitStore,
       VisitLoad, VisitStatic, VisitInvoke, VisitOther, QueueDrained, NextInsn, At
  <2>3. a \in InSet(r)'
    BY <1>2, <1>4, VisitInSets
  <2> QED
    BY <1>2, <1>3, <2>1, <2>2, <2>3
<1>5. CASE AddDerefEdge
  <2>1. PICK dst, allocs : Propagate(dst, allocs)
    BY <1>5 DEF AddDerefEdge
  <2>2. a \in InSet(r)'
    BY <1>2, <2>1, PropagateInSet
  <2>3. cur' = cur /\ prog' = prog /\ pc = "deref" /\ pc' = pc
    BY <1>5 DEF AddDerefEdge
  <2> QED
    BY <1>3, <2>2, <2>3
<1>6. CASE CollectCalls
  <2>1. /\ cur' = cur /\ prog' = prog /\ pc' = "invoke" /\ inset' = inset
        /\ calls' = {<<x[2][1], x[2][2], TypeOf(b)>> : x \in {y \in vinvoke : y[1] = cur}, b \in InSet(cur)}
    BY <1>6 DEF CollectCalls, sets
  <2>2. <<context, at, TypeOf(a)>> \in calls'
    <3>1. vi \in {y \in vinvoke : y[1] = cur} /\ a \in InSet(cur)
      BY <1>1, <1>2
    <3>2. <<vi[2][1], vi[2][2], TypeOf(a)>> \in calls'
      BY <2>1, <3>1
    <3> QED
      BY <1>1, <3>2
  <2>3. a \in InSet(r)'
    BY <1>2, <2>1, InSetSame
  <2> QED
    BY <1>3, <2>1, <2>2, <2>3
<1>7. CASE ProcessCall
  <2>1. PICK c, key, target :
          /\ c \in calls /\ key = <<InsnAt(c[2]).callee, c[3]>> /\ target = Dispatch[key] /\ key \in DOMAIN Dispatch
          /\ edges' = edges \cup InvokeEdges(c[1], c[2], target)
          /\ queue' = <<<<c[2], target>>>> /\ calls' = calls \ {c}
    BY <1>7 DEF ProcessCall
  <2>2. cur' = cur /\ prog' = prog /\ pc = "invoke" /\ pc' = "visit" /\ inset' = inset
    BY <1>7 DEF ProcessCall, sets
  <2>3. a \in InSet(r)'
    BY <1>2, <2>2, InSetSame
  <2>4. CASE c # <<context, at, TypeOf(a)>>
    BY <1>2, <1>3, <2>1, <2>2, <2>3, <2>4
  <2>5. CASE c = <<context, at, TypeOf(a)>>
    <3>1. /\ c[1] = context /\ c[2] = at /\ c[3] = TypeOf(a)
      BY <2>5
    <3>2. target = Dispatch[<<InsnAt(at)'.callee, TypeOf(a)'>>]
      BY <2>1, <2>2, <3>1, ProgramConstant
    <3>3. <<at, target>> \in Entered'
      <4>1. queue'[1] = <<at, target>> /\ 1 \in 1 .. Len(queue')
        BY <2>1, <3>1
      <4> QED
        BY <4>1 DEF Entered
    <3>4. ASSUME target \notin IsAbstract
          PROVE  Edge(r, This(target, at), "assign") \in edges'
      <4>1. at \in CallSites /\ InsnAt(at).kind = "virtual" /\ r \in Regs(InsnAt(at).args[1], at, context)
        BY <1>1 DEF TypeInv, PlacedInv
      <4>2. ReceiverEdge(r, context, at)
        BY <4>1, ReceiverFacts
      <4>3. key[1] = InsnAt(at).callee
        BY <2>1, <3>1
      <4>4. Edge(r, This(target, at), "assign") \in InvokeEdges(context, at, target)
        BY <2>1, <3>4, <4>2, <4>3 DEF ReceiverEdge
      <4> QED
        BY <2>1, <3>1, <4>4
    <3>5. OnItsWay(r, This(target, at), a)'
      BY <1>2, <2>2, <2>3 DEF OnItsWay, InRound
    <3> QED
      BY <3>2, <3>3, <3>4, <3>5 DEF Dispatched
  <2> QED
    BY <2>4, <2>5
<1>8. CASE PopUnchanged \/ Pop \/ CallsDone \/ Forward \/ ClearInSet \/ UpdateCcg
  BY <1>2, <1>8 DEF PopUnchanged, Pop, CallsDone, Forward, ClearInSet, UpdateCcg
<1> QED
  BY <1>4, <1>5, <1>6, <1>7, <1>8 DEF Next, Update

(* The receiver of a call that is registered now points to nothing yet.    *)
LEMMA RegisteredEmpty ==
  ASSUME TypeInv, TypeInv', PlacedInv, Visit, NEW vi \in vinvoke' \ vinvoke
  PROVE  PointsToSet(vi[1]) = {}
<1>1. prog' = prog /\ visited \subseteq visited'
  BY VisitFrame, VisitAdvances DEF Advances
<1>2. Registered(vi)' /\ <<vi[2][1], vi[2][2][1]>> \in Unfinished
  BY <1>1, VisitRegisters
<1>3. /\ vi[2][2] \in CallSites /\ InsnAt(vi[2][2]).kind = "virtual"
      /\ vi[1] \in Regs(InsnAt(vi[2][2]).args[1], vi[2][2], vi[2][1])
  BY <1>1, <1>2, ProgramConstant DEF TypeInv, Registered
<1>4. PICK r, context, at : r = vi[1] /\ context = vi[2][1] /\ at = vi[2][2]
  OBVIOUS
<1>5. r.kind = "reg" /\ Invocation(r) = <<context, at[1]>>
  BY <1>3, <1>4, ReceiverFacts
<1>6. ASSUME NEW a \in PointsToSet(r) PROVE FALSE
  <2>1. <<r, a>> \in pts /\ <<r, a>>[1] = r
    BY <1>5, PointsToPair
  <2>2. Settled(r)
    BY <2>1 DEF PlacedInv
  <2> QED
    BY <1>2, <1>4, <1>5, <2>2 DEF Settled
<1> QED
  BY <1>4, <1>6

LEMMA DispatchInvNext ==
  ASSUME OnTheFly = TRUE, TypeInv, TypeInv', ListInv, PlacedInv, KeptInv, DispatchInv, [Next]_vars
  PROVE  DispatchInv'
<1> DEFINE Good(r, context, at, a) == Dispatched(r, at, a) \/ ToDispatch(r, context, at, a)
<1>1. CASE UNCHANGED vars
  <2>1. /\ prog' = prog /\ edges' = edges /\ vinvoke' = vinvoke /\ pts' = pts /\ inset' = inset
        /\ visited' = visited /\ queue' = queue /\ cur' = cur /\ calls' = calls
        /\ todo' = todo /\ pc' = pc
    BY <1>1 DEF vars, graph, sets, scan, step
  <2>2. Entered' = Entered /\ InRound' = InRound
    BY <2>1 DEF Entered, InRound
  <2>3. PICK v : v = cur
    OBVIOUS
  <2>4. InSet(v)' = InSet(v)
    BY <2>1, InSetSame
  <2>5. \A r, this, a : OnItsWay(r, this, a)' = OnItsWay(r, this, a)
    BY <2>1, <2>2, <2>3, <2>4, InSetSame, PointsToSetSame DEF OnItsWay
  <2>6. ASSUME NEW r, NEW at, NEW a PROVE Dispatched(r, at, a)' = Dispatched(r, at, a)
    BY <2>1, <2>2, <2>5, ProgramConstant DEF Dispatched
  <2>7. ASSUME NEW r, NEW context, NEW at, NEW a
        PROVE  ToDispatch(r, context, at, a)' = ToDispatch(r, context, at, a)
    BY <2>1, <2>3, <2>4, ProgramConstant DEF ToDispatch
  <2> QED
    BY <2>1, <2>6, <2>7, PointsToSetSame DEF DispatchInv
<1>2. ASSUME Next, NEW vi \in vinvoke, NEW a \in PointsToSet(vi[1])
      PROVE  Good(vi[1], vi[2][1], vi[2][2], a)'
  <2>1. Dispatched(vi[1], vi[2][2], a) => Dispatched(vi[1], vi[2][2], a)'
    <3>1. PICK r, at : r = vi[1] /\ at = vi[2][2]
      OBVIOUS
    <3> QED
      BY <1>2, <3>1, DispatchedNext
  <2> QED
    BY <1>2, <2>1, ToDispatchNext DEF DispatchInv
<1>3. ASSUME Next, NEW vi \in vinvoke', NEW a \in PointsToSet(vi[1])'
      PROVE  Good(vi[1], vi[2][1], vi[2][2], a)'
  <2>1. CASE Visit
    <3>1. PointsToSet(vi[1])' = PointsToSet(vi[1])
      BY <2>1, VisitFrame, PointsToSetSame
    <3>2. vi \in vinvoke
      BY <2>1, <3>1, RegisteredEmpty
    <3> QED
      BY <1>2, <1>3, <3>1, <3>2
  <2>2. CASE Pop
    <3>1. PICK v, new : /\ new = Filtered(v) /\ cur' = v /\ inset' = WithInSet(v, new)
                        /\ pts' = pts \cup {<<v, b>> : b \in new} /\ pc' = "deref"
                        /\ vinvoke' = vinvoke
      BY <2>2 DEF Pop, graph
    <3>2. InSet(v)' = new
      BY <3>1, WithInSetEffect
    <3>3. PICK r : r = vi[1]
      OBVIOUS
    <3>4. a \in PointsToSet(r) \/ (r = v /\ a \in new)
      BY <1>3, <3>1, <3>3, PointsToSetEffect
    <3>5. CASE a \in PointsToSet(r)
      BY <1>2, <1>3, <3>1, <3>3, <3>5
    <3>6. CASE r = v /\ a \in new
      BY <3>1, <3>2, <3>3, <3>6 DEF ToDispatch
    <3> QED
      BY <3>4, <3>5, <3>6
  <2>3. CASE Update /\ ~Pop
    <3>1. pts' = pts
      BY <2>3 DEF Update, PopUnchanged, AddDerefEdge, CollectCalls, ProcessCall, CallsDone, Forward,
         ClearInSet, UpdateCcg, sets
    <3>2. vinvoke' = vinvoke /\ PointsToSet(vi[1])' = PointsToSet(vi[1])
      BY <2>3, <3>1, UpdateFrame, PointsToSetSame
    <3> QED
      BY <1>2, <1>3, <3>2
  <2> QED
    BY <1>3, <2>1, <2>2, <2>3 DEF Next
<1> QED
  BY <1>1, <1>3 DEF DispatchInv

(* In the on-the-fly mode, when the analysis ends, every virtual call on   *)
(* an object its receiver may point to has had the method that find_method *)
(* gives for the class of the object visited in the context of the call,   *)
(* and the this parameter of that method may point to the object.          *)
THEOREM DispatchProved ==
  ASSUME OnTheFly = TRUE
  PROVE  Spec => []DispatchComplete
<1> DEFINE Inv == TypeInv /\ ListInv /\ GraphInv /\ PlacedInv /\ KeptInv /\ DoneEmpty
<1>1. Spec => []Inv
  BY PlaceInvariant, DoneInvariant, PTL
<1>2. Init => DispatchInv
  BY DEF Init, DispatchInv
<1>3. Inv /\ Inv' /\ DispatchInv /\ [Next]_vars => DispatchInv'
  BY DispatchInvNext
<1>4. Inv /\ DispatchInv => DispatchComplete
  <2> SUFFICES ASSUME Inv, DispatchInv, pc = "done", NEW vi \in vinvoke, NEW a \in PointsToSet(vi[1])
               PROVE  LET target == Dispatch[<<InsnAt(vi[2][2]).callee, TypeOf(a)>>]
                      IN  /\ <<vi[2][2], target>> \in visited
                          /\ target \notin IsAbstract =>
                               a \in PointsToSet(RegVertex(<<target, 0, 0>>, vi[2][2]))
    BY DEF DispatchComplete
  <2>1. Dispatched(vi[1], vi[2][2], a)
    BY DEF DispatchInv, ToDispatch
  <2>2. Entered = visited /\ \A v : InSet(v) = {}
    <3>1. queue = <<>> /\ worklist = <<>>
      BY DEF PlacedInv, DoneEmpty
    <3> QED
      BY <3>1, DoneIsEmpty DEF Entered
  <2> QED
    BY <2>1, <2>2 DEF Dispatched, OnItsWay, This, InRound
<1> QED
  BY <1>1, <1>2, <1>3, <1>4, PTL DEF Spec
=============================================================================
