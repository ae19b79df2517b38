------------------------------- MODULE DefUse -------------------------------
(***************************************************************************)
(* The def-use edges of one method: add_def_use_edges and                  *)
(* reaching_definitions of include/jitana/analysis/def_use.hpp, and        *)
(* monotonic_dataflow of include/jitana/algorithm/monotonic_dataflow.hpp.  *)
(*                                                                         *)
(* A definition is a pair <<instruction, register>>.  The worklist starts  *)
(* with every instruction in the order in which a depth-first search of    *)
(* the reversed control flow graph finishes them.  An instruction is taken *)
(* from the head, its in-set is computed from the out-sets of its          *)
(* predecessors, and if it changed the successors are queued.  The head is *)
(* removed, and its dirty flag cleared, only after that: an instruction    *)
(* that is its own successor is not queued again.                          *)
(*                                                                         *)
(* The method is chosen in Init.  The order in which a vertex lists its    *)
(* neighbours is the order in which the edges were added; here any order.  *)
(***************************************************************************)
EXTENDS Naturals, Sequences, FiniteSets

CONSTANTS
  Methods,    \* the methods: [node, edge, defs, uses]
  Register    \* the registers, the result register included

ASSUME MethodsAssumption ==
  \A m \in Methods :
    /\ m.node \subseteq Nat /\ IsFiniteSet(m.node)
    /\ m.edge \subseteq m.node \X m.node
    /\ m.defs \in [m.node -> SUBSET Register]
    /\ m.uses \in [m.node -> SUBSET Register]

VARIABLES
  ig,         \* the method
  insets,     \* inset_map
  outsets,    \* outset_map
  worklist,   \* the queue of monotonic_dataflow
  dirty,      \* the instructions whose dirty flag is set
  stack,      \* the depth-first search: the vertices entered, last one first
  white,      \* the vertices it has not seen
  todo,       \* the successors of the head still to be looked at
  defuse,     \* the def-use edges, <<definition, use, register>>
  pc          \* the loop that runs

sets   == <<insets, outsets>>
list   == <<worklist, dirty>>
search == <<stack, white>>
vars   == <<ig, sets, list, search, todo, defuse, pc>>

Node       == ig.node
Definition == Node \X Register
Preds(v)   == {u \in Node : <<u, v>> \in ig.edge}
Succs(v)   == {w \in Node : <<v, w>> \in ig.edge}

-----------------------------------------------------------------------------
(* flow_func: kill, then generate.                                         *)
Flow(v, in) == {d \in in : d[2] \notin ig.defs[v]} \cup {<<v, r>> : r \in ig.defs[v]}

(* comb_op over the predecessors.                                          *)
Combined(v) == UNION {outsets[u] : u \in Preds(v)}

(* Mutant: the test that the in-set changed is dropped.                    *)
AlwaysChanged(v) == Preds(v) # {}

(* An instruction without predecessors keeps its in-set.                   *)
InSetChanged(v) == Preds(v) # {} /\ insets[v] # Combined(v)

-----------------------------------------------------------------------------
Init ==
  /\ ig \in Methods
  /\ insets = [v \in Node |-> {}] /\ outsets = [v \in Node |-> {}]
  /\ worklist = <<>> /\ dirty = Node
  /\ stack = <<>> /\ white = Node
  /\ todo = {} /\ defuse = {}
  /\ pc = "outset"

InitialOutset ==
  /\ pc = "outset"
  /\ outsets' = [v \in Node |-> Flow(v, insets[v])]
  /\ pc' = "order"
  /\ UNCHANGED <<ig, insets, list, search, todo, defuse>>

(* depth_first_search of the reversed graph: a new tree starts at the      *)
(* first vertex not seen.                                                  *)
StartTree ==
  /\ pc = "order" /\ stack = <<>> /\ white # {}
  /\ \E v \in white :
       /\ \A u \in white : v <= u
       /\ stack' = <<v>>
       /\ white' = white \ {v}
  /\ UNCHANGED <<ig, sets, list, todo, defuse, pc>>

Descend ==
  /\ pc = "order" /\ stack # <<>>
  /\ \E u \in Preds(Head(stack)) \cap white :
       /\ stack' = <<u>> \o stack
       /\ white' = white \ {u}
  /\ UNCHANGED <<ig, sets, list, todo, defuse, pc>>

(* finish_vertex.                                                          *)
Finish ==
  /\ pc = "order" /\ stack # <<>> /\ Preds(Head(stack)) \cap white = {}
  /\ worklist' = Append(worklist, Head(stack))
  /\ stack' = Tail(stack)
  /\ UNCHANGED <<ig, sets, dirty, white, todo, defuse, pc>>

Ordered ==
  /\ pc = "order" /\ stack = <<>> /\ white = {}
  /\ pc' = "iterate"
  /\ UNCHANGED <<ig, sets, list, search, todo, defuse>>

(* The head has the in-set it had: it is removed.                          *)
Unchanged ==
  /\ pc = "iterate" /\ worklist # <<>> /\ ~InSetChanged(Head(worklist))
  /\ worklist' = Tail(worklist)
  /\ dirty' = dirty \ {Head(worklist)}
  /\ UNCHANGED <<ig, sets, search, todo, defuse, pc>>

(* Mutant: the out-set is computed from the old in-set.                    *)
ChangedStale ==
  /\ pc = "iterate" /\ worklist # <<>> /\ InSetChanged(Head(worklist))
  /\ LET v == Head(worklist)
     IN  /\ insets' = [insets EXCEPT ![v] = Combined(v)]
         /\ outsets' = [outsets EXCEPT ![v] = Flow(v, insets[v])]
         /\ todo' = Succs(v)
  /\ pc' = "push"
  /\ UNCHANGED <<ig, list, search, defuse>>

(* The in-set of the head has changed: its successors are looked at next.  *)
Changed ==
  /\ pc = "iterate" /\ worklist # <<>> /\ InSetChanged(Head(worklist))
  /\ LET v == Head(worklist)
     IN  /\ insets' = [insets EXCEPT ![v] = Combined(v)]
         /\ outsets' = [outsets EXCEPT ![v] = Flow(v, Combined(v))]
         /\ todo' = Succs(v)
  /\ pc' = "push"
  /\ UNCHANGED <<ig, list, search, defuse>>

PushSuccessor ==
  /\ pc = "push"
  /\ \E s \in todo :
       /\ worklist' = IF s \in dirty THEN worklist ELSE Append(worklist, s)
       /\ dirty' = dirty \cup {s}
       /\ todo' = todo \ {s}
  /\ UNCHANGED <<ig, sets, search, defuse, pc>>

PopHead ==
  /\ pc = "push" /\ todo = {}
  /\ worklist' = Tail(worklist)
  /\ dirty' = dirty \ {Head(worklist)}
  /\ pc' = "iterate"
  /\ UNCHANGED <<ig, sets, search, todo, defuse>>

(* Mutant: an instruction may use its own definition.                      *)
DefUseEdgesToSelf ==
  UNION {{<<d[1], v, d[2]>> : d \in {e \in insets[v] : e[2] \in ig.uses[v]}} : v \in Node}

(* An instruction gets no edge from itself.                                *)
DefUseEdges ==
  UNION {{<<d[1], v, d[2]>> : d \in {e \in insets[v] : e[1] # v /\ e[2] \in ig.uses[v]}} :
           v \in Node}

AddEdges ==
  /\ pc = "iterate" /\ worklist = <<>>
  /\ defuse' = DefUseEdges
  /\ pc' = "done"
  /\ UNCHANGED <<ig, sets, list, search, todo>>

Next ==
  \/ InitialOutset
  \/ StartTree \/ Descend \/ Finish \/ Ordered
  \/ Unchanged \/ Changed \/ PushSuccessor \/ PopHead
  \/ AddEdges

Spec == Init /\ [][Next]_vars

(* One sequential function: it does not stop while it has a next step.     *)
FairSpec == Spec /\ WF_vars(Next)

-----------------------------------------------------------------------------
(* Properties.                                                             *)

(* The shape of the state of monotonic_dataflow and of the edges added.    *)
TypeOK ==
  /\ insets \in [Node -> SUBSET Definition]
  /\ outsets \in [Node -> SUBSET Definition]
  /\ worklist \in Seq(Node) /\ stack \in Seq(Node)
  /\ dirty \subseteq Node /\ white \subseteq Node /\ todo \subseteq Node
  /\ defuse \subseteq Node \X Node \X Register
  /\ pc \in {"outset", "order", "iterate", "push", "done"}

(* While the loop of monotonic_dataflow runs, the dirty flags are exactly  *)
(* the worklist, and no instruction waits in it twice: the search that     *)
(* fills it finishes every instruction once, reachable or not.             *)
WorklistIsDirty ==
  pc \in {"iterate", "push", "done"} =>
    /\ dirty = {worklist[k] : k \in 1 .. Len(worklist)}
    /\ \A j, k \in 1 .. Len(worklist) : worklist[j] = worklist[k] => j = k

(* When monotonic_dataflow ends its equations hold for every instruction,  *)
(* also for one that is its own successor and was not queued again.        *)
Fixpoint ==
  pc = "done" =>
    \A v \in Node : insets[v] = Combined(v) /\ outsets[v] = Flow(v, insets[v])

(* The in-sets never exceed any other solution of the equations, so what   *)
(* the analysis ends with is the least one.                                *)
Solution(in) == \A v \in Node : \A u \in Preds(v) : Flow(u, in[u]) \subseteq in[v]

Least ==
  \A in \in [Node -> SUBSET Definition] :
    Solution(in) => \A v \in Node : insets[v] \subseteq in[v]

(* The instructions that the definition of r at u reaches: along a path of *)
(* at least one edge whose inner instructions do not define r.  A path of  *)
(* more edges than there are instructions repeats one.                     *)
Onward(S, r) == S \cup UNION {Succs(w) : w \in {e \in S : r \notin ig.defs[e]}}

Reached(u, r) ==
  LET Ends[k \in Nat] == IF k = 0 THEN Succs(u) ELSE Onward(Ends[k - 1], r)
  IN  Ends[Cardinality(Node)]

Defined == {d \in Definition : d[2] \in ig.defs[d[1]]}

(* In the end an instruction is connected with exactly the definitions     *)
(* that reach a register it uses, itself left out (def_use.hpp:110).       *)
DefUseExact ==
  pc = "done" =>
    defuse = UNION {{<<d[1], v, d[2]>> :
                       v \in {w \in Reached(d[1], d[2]) : w # d[1] /\ d[2] \in ig.uses[w]}} :
                      d \in Defined}

-----------------------------------------------------------------------------
(* The inductive invariant.                                                *)

Entries(s) == {s[k] : k \in 1 .. Len(s)}
NoTwice(s) == \A j, k \in 1 .. Len(s) : s[j] = s[k] => j = k

(* During the search every vertex is not seen, or entered, or finished.    *)
SearchInv ==
  pc \in {"outset", "order"} =>
    /\ dirty = Node
    /\ Node = white \cup Entries(stack) \cup Entries(worklist)
    /\ white \cap Entries(stack) = {}
    /\ (white \cup Entries(stack)) \cap Entries(worklist) = {}
    /\ NoTwice(stack) /\ NoTwice(worklist)

PhaseInv ==
  /\ pc = "outset" => insets = [v \in Node |-> {}]
  /\ pc = "push" => worklist # <<>>
  /\ pc # "push" => todo = {}
  /\ pc = "done" => worklist = <<>>

(* What an instruction has been told is still true of its predecessors;    *)
(* what it has not been told, it will be: it is queued, or its             *)
(* predecessor is at the head and has not looked at it yet.                *)
FlowInv ==
  pc # "outset" =>
    /\ \A v \in Node : outsets[v] = Flow(v, insets[v])
    /\ \A v \in Node : insets[v] \subseteq Combined(v)
    /\ \A v \in Node \ (dirty \cup todo) : Combined(v) \subseteq insets[v]
    /\ pc = "push" => Combined(Head(worklist)) \subseteq insets[Head(worklist)]

Inv == ig \in Methods /\ TypeOK /\ SearchInv /\ WorklistIsDirty /\ PhaseInv /\ FlowInv
=============================================================================
