------------------------------ MODULE Andersen ------------------------------
(***************************************************************************)
(* The reference for PointsTo: the least solution of the inclusion         *)
(* constraints of the analysed program, computed from the program by       *)
(* iteration, without a worklist, in-sets or dirty flags.                  *)
(***************************************************************************)
EXTENDS PointsTo

CONSTANT MaxRounds   \* rounds of the iteration, enough for every program

ASSUME RoundsAssumption == MaxRounds \in Nat

(* The points-to set of v in the solution s.                               *)
Holds(s, v) == {p[2] : p \in {q \in s.pts : q[1] = v}}

RegsHold(s, operand, at, context) ==
  UNION {Holds(s, r) : r \in Regs(operand, at, context)}

(* The methods one invoke instruction may call.                            *)
Callees(s, x, at, context) ==
  LET all == {Overrides[x.callee][k] : k \in 1 .. Len(Overrides[x.callee])}
  IN  IF OnTheFly /\ x.kind = "virtual"
      THEN {Dispatch[<<x.callee, TypeOf(a)>>] : a \in RegsHold(s, x.args[1], at, context)}
      ELSE all

(* A parameter is passed in the register at its offset.                    *)
CallPts(s, x, at, context, m) ==
  (UNION {{<<RegVertex(<<m, 0, Offset(m, k)>>, at), a>> :
             a \in RegsHold(s, x.args[Offset(m, k) + 1], at, context)} :
           k \in {j \in 1 .. Len(Params[m]) : Params[m][j] = "L"}})
  \cup {<<RegVertex(<<at[1], at[2], 0>>, context), a>> :
          a \in IF m \in ReturnsRef THEN Holds(s, RegVertex(ExitSite(m), at)) ELSE {}}

(* What one instruction says must be in the solution.                      *)
Required(s, context, at) ==
  LET x == InsnAt(at)
      def == RegVertex(<<at[1], at[2], 0>>, context)
  IN CASE x.op \in {"new_instance", "const_string"} -> {<<def, AllocVertex(at)>>}
       [] x.op \in {"move_object", "check_cast"} ->
            {<<def, a>> : a \in RegsHold(s, x.src, at, context)}
       [] x.op = "return_object" ->
            {<<RegVertex(ExitSite(at[1]), context), a>> : a \in RegsHold(s, x.src, at, context)}
       [] x.op = "store" ->
            {<<AllocFieldVertex(o.hdl, x.field), a>> :
               o \in {b \in RegsHold(s, x.obj, at, context) : HasField(b, x.field)},
               a \in RegsHold(s, x.src, at, context)}
       [] x.op = "load" ->
            {<<def, a>> : a \in UNION {Holds(s, AllocFieldVertex(o.hdl, x.field)) :
               o \in {b \in RegsHold(s, x.obj, at, context) : HasField(b, x.field)}}}
       [] x.op = "sput" ->
            {<<StaticVertex(x.field), a>> : a \in RegsHold(s, x.src, at, context)}
       [] x.op = "sget" -> {<<def, a>> : a \in Holds(s, StaticVertex(x.field))}
       [] x.op = "invoke" ->
            UNION {CallPts(s, x, at, context, m) :
                     m \in Callees(s, x, at, context) \ IsAbstract}
       [] OTHER -> {}

Started(s, context, at) ==
  LET x == InsnAt(at)
  IN  (IF x.op \in {"new_instance", "sput", "sget"} \/ (x.op = "invoke" /\ x.kind = "static")
       THEN {<<NoInsn, x.init>>} \ {<<NoInsn, NoMethod>>} ELSE {})
      \cup (IF x.op = "invoke"
            THEN {<<at, m>> : m \in Callees(s, x, at, context)} ELSE {})

Infer(s) ==
  LET places == UNION {{<<r[1], <<r[2], i>>>> : i \in 1 .. Len(prog.code[r[2]])} :
                         r \in s.reach}
  IN  [pts |-> s.pts \cup
         (UNION {{p \in Required(s, pl[1], pl[2]) : Passes(p[1], p[2])} : pl \in places}),
       reach |-> s.reach \cup (UNION {Started(s, pl[1], pl[2]) : pl \in places})]

(* A solution: nothing is missing that its own elements require.           *)
Solves(s) ==
  /\ <<NoInsn, prog.entry>> \in s.reach
  /\ Infer(s).pts \subseteq s.pts
  /\ Infer(s).reach \subseteq s.reach

Rounds[n \in Nat] ==
  IF n = 0 THEN [pts |-> {}, reach |-> {<<NoInsn, prog.entry>>}] ELSE Infer(Rounds[n - 1])

LeastSolution == Rounds[MaxRounds]

-----------------------------------------------------------------------------
(* When the analysis ends, its points-to sets are those of the least       *)
(* solution, no more and no less, and it visited exactly the invocations   *)
(* that the solution reaches.                                              *)
Exact ==
  pc = "done" => LET least == LeastSolution
                 IN  Solves(least) /\ pts = least.pts /\ visited = least.reach

(* The analysis never reports more than the least solution allows.         *)
Precise ==
  pc = "done" => LET least == LeastSolution
                 IN  Solves(least) /\ pts \subseteq least.pts /\ visited \subseteq least.reach
=============================================================================
