---------------------------- MODULE DefUseProofs ----------------------------
(***************************************************************************)
(* Theorems about the def-use analysis, for every method.                  *)
(***************************************************************************)
EXTENDS DefUse, NaturalSets, TLAPS

-----------------------------------------------------------------------------
(* Sequences as the worklist and the stack use them.                       *)

LEMMA AppendEntries ==
  ASSUME NEW S, NEW s \in Seq(S), NEW x \in S
  PROVE  /\ Append(s, x) \in Seq(S)
         /\ Append(s, x) # <<>>
         /\ Entries(Append(s, x)) = Entries(s) \cup {x}
         /\ s # <<>> => Head(Append(s, x)) = Head(s)
         /\ NoTwice(s) /\ x \notin Entries(s) => NoTwice(Append(s, x))
<1> DEFINE t == Append(s, x)
<1>1. t \in Seq(S) /\ t # <<>> /\ Len(t) = Len(s) + 1
  <2>1. t \in Seq(S) /\ Len(t) = Len(s) + 1
    OBVIOUS
  <2>2. Len(t) # Len(<<>>)
    BY <2>1
  <2> HIDE DEF t
  <2>3. t # <<>>
    BY <2>2
  <2> QED
    BY <2>1, <2>3
<1>2. \A k \in 1 .. Len(s) : t[k] = s[k]
  OBVIOUS
<1>3. t[Len(s) + 1] = x
  OBVIOUS
<1>4. Entries(t) = Entries(s) \cup {x}
  BY <1>1, <1>2, <1>3 DEF Entries
<1>5. s # <<>> => Head(t) = Head(s)
  OBVIOUS
<1>6. ASSUME NoTwice(s), x \notin Entries(s) PROVE NoTwice(t)
  BY <1>1, <1>2, <1>3, <1>6 DEF Entries, NoTwice
<1> QED
  BY <1>1, <1>4, <1>5, <1>6

LEMMA ConsEntries ==
  ASSUME NEW S, NEW s \in Seq(S), NEW x \in S
  PROVE  /\ <<x>> \o s \in Seq(S)
         /\ Entries(<<x>> \o s) = Entries(s) \cup {x}
         /\ NoTwice(s) /\ x \notin Entries(s) => NoTwice(<<x>> \o s)
<1> DEFINE t == <<x>> \o s
<1>1. t \in Seq(S) /\ Len(t) = Len(s) + 1
  OBVIOUS
<1>2. t[1] = x /\ \A k \in 1 .. Len(s) : t[k + 1] = s[k]
  OBVIOUS
<1>3. \A k \in 2 .. Len(t) : k - 1 \in 1 .. Len(s) /\ t[k] = s[k - 1]
  BY <1>1, <1>2
<1>4. Entries(t) = Entries(s) \cup {x}
  <2>1. Entries(t) \subseteq Entries(s) \cup {x}
    BY <1>1, <1>2, <1>3 DEF Entries
  <2>2. \A k \in 1 .. Len(s) : k + 1 \in 1 .. Len(t) /\ t[k + 1] = s[k]
    BY <1>1, <1>2
  <2>3. Entries(s) \subseteq Entries(t)
    BY <2>2 DEF Entries
  <2>4. 1 \in 1 .. Len(t) /\ t[1] = x
    BY <1>1, <1>2
  <2>5. x \in Entries(t)
    BY <2>4 DEF Entries
  <2> QED
    BY <2>1, <2>3, <2>5
<1>5. ASSUME NoTwice(s), x \notin Entries(s) PROVE NoTwice(t)
  BY <1>1, <1>2, <1>3, <1>5 DEF Entries, NoTwice
<1> QED
  BY <1>1, <1>4, <1>5

LEMMA TailEntries ==
  ASSUME NEW S, NEW s \in Seq(S), s # <<>>
  PROVE  /\ Tail(s) \in Seq(S)
         /\ Head(s) \in S /\ Head(s) \in Entries(s)
         /\ Entries(s) = Entries(Tail(s)) \cup {Head(s)}
         /\ NoTwice(s) => NoTwice(Tail(s)) /\ Head(s) \notin Entries(Tail(s))
<1> DEFINE t == Tail(s)
<1>1. t \in Seq(S) /\ Len(t) = Len(s) - 1 /\ Len(s) \in Nat \ {0}
  OBVIOUS
<1>2. \A k \in 1 .. Len(t) : t[k] = s[k + 1] /\ k + 1 \in 1 .. Len(s)
  BY <1>1
<1>3. \A k \in 2 .. Len(s) : s[k] = t[k - 1] /\ k - 1 \in 1 .. Len(t)
  BY <1>1, <1>2
<1>4. Head(s) = s[1] /\ Head(s) \in S /\ 1 \in 1 .. Len(s)
  BY <1>1
<1>5. Entries(s) = Entries(t) \cup {Head(s)}
  BY <1>1, <1>2, <1>3, <1>4 DEF Entries
<1>6. ASSUME NoTwice(s) PROVE NoTwice(t) /\ Head(s) \notin Entries(t)
  BY <1>1, <1>2, <1>4, <1>6 DEF Entries, NoTwice
<1> QED
  BY <1>1, <1>4, <1>5, <1>6

LEMMA EmptyEntries == Entries(<<>>) = {} /\ NoTwice(<<>>)
  BY DEF Entries, NoTwice

-----------------------------------------------------------------------------
(* The operators of the analysis.                                          *)

LEMMA MethodType ==
  ASSUME ig \in Methods
  PROVE  /\ Node \subseteq Nat /\ ig.edge \subseteq Node \X Node
         /\ ig.defs \in [Node -> SUBSET Register]
         /\ \A v : Preds(v) \subseteq Node /\ Succs(v) \subseteq Node
         /\ \A v : \A w \in Node : v \in Preds(w) => w \in Succs(v)
  BY MethodsAssumption DEF Node, Preds, Succs

LEMMA FlowType ==
  ASSUME ig \in Methods, NEW v \in Node, NEW in \in SUBSET Definition
  PROVE  Flow(v, in) \in SUBSET Definition
  BY MethodType DEF Flow, Definition

LEMMA FlowMonotone ==
  ASSUME NEW v, NEW in, NEW out, in \subseteq out
  PROVE  Flow(v, in) \subseteq Flow(v, out)
  BY DEF Flow

LEMMA CombinedMember ==
  ASSUME NEW v, NEW d
  PROVE  d \in Combined(v) <=> \E u \in Preds(v) : d \in outsets[u]
  BY DEF Combined

LEMMA CombinedType ==
  ASSUME ig \in Methods, outsets \in [Node -> SUBSET Definition], NEW v
  PROVE  Combined(v) \in SUBSET Definition
  BY MethodType, CombinedMember

-----------------------------------------------------------------------------
(* The worklist: type correctness, the search, and the dirty flags.        *)

LEMMA Initially == Init => Inv
<1> SUFFICES ASSUME Init PROVE Inv
  OBVIOUS
<1>1. ig \in Methods /\ worklist = <<>> /\ stack = <<>> /\ white = Node /\ dirty = Node
  BY DEF Init
<1>2. TypeOK
  BY <1>1 DEF Init, TypeOK
<1>3. SearchInv
  BY <1>1, EmptyEntries DEF SearchInv
<1>4. WorklistIsDirty /\ PhaseInv /\ FlowInv
  BY DEF Init, WorklistIsDirty, PhaseInv, FlowInv
<1> QED
  BY <1>1, <1>2, <1>3, <1>4 DEF Inv

LEMMA ListsPreserved ==
  ASSUME Inv, Next
  PROVE  /\ ig' = ig /\ ig' \in Methods
         /\ TypeOK' /\ SearchInv' /\ WorklistIsDirty' /\ PhaseInv'
<1> USE DEF Inv
<1>0. /\ TypeOK /\ ig \in Methods /\ PhaseInv /\ SearchInv
      /\ worklist \in Seq(Node) /\ stack \in Seq(Node)
      /\ outsets \in [Node -> SUBSET Definition] /\ insets \in [Node -> SUBSET Definition]
  BY DEF TypeOK
<1>w. pc \in {"iterate", "push", "done"} => dirty = Entries(worklist) /\ NoTwice(worklist)
  BY DEF WorklistIsDirty, Entries, NoTwice
<1>n. ig' = ig => Node' = Node /\ Definition' = Definition
  BY DEF Node, Definition
<1> DEFINE Goal == /\ ig' = ig /\ ig' \in Methods
                   /\ TypeOK' /\ SearchInv' /\ WorklistIsDirty' /\ PhaseInv'
<1>1. CASE InitialOutset
  <2>1. \A v \in Node : Flow(v, insets[v]) \in SUBSET Definition
    BY <1>0, FlowType
  <2>2. TypeOK'
    BY <1>0, <1>1, <1>n, <2>1 DEF InitialOutset, TypeOK, list, search
  <2>3. SearchInv'
    BY <1>0, <1>1, <1>n DEF InitialOutset, SearchInv, list, search
  <2> QED
    BY <1>0, <1>1, <2>2, <2>3 DEF InitialOutset, WorklistIsDirty, PhaseInv
<1>2. CASE StartTree
  <2>1. PICK v \in white : stack' = <<v>> /\ white' = white \ {v}
    BY <1>2 DEF StartTree
  <2>2. ig' = ig /\ UNCHANGED <<sets, list, todo, defuse, pc>> /\ pc = "order" /\ stack = <<>>
    BY <1>2 DEF StartTree
  <2>3. stack' \in Seq(Node) /\ Entries(stack') = {v} /\ NoTwice(stack')
    <3>1. v \in Node
      BY <1>0, <2>1 DEF TypeOK
    <3> QED
      BY <2>1, <3>1 DEF Entries, NoTwice
  <2>4. TypeOK'
    BY <1>0, <1>n, <2>1, <2>2, <2>3 DEF TypeOK, sets, list
  <2>5. SearchInv'
    BY <1>0, <1>n, <2>1, <2>2, <2>3, EmptyEntries DEF SearchInv, list, sets
  <2> QED
    BY <1>0, <2>2, <2>4, <2>5 DEF WorklistIsDirty, PhaseInv, list, sets
<1>3. CASE Descend
  <2>1. PICK u \in white : stack' = <<u>> \o stack /\ white' = white \ {u}
    BY <1>3 DEF Descend
  <2>2. ig' = ig /\ UNCHANGED <<sets, list, todo, defuse, pc>> /\ pc = "order"
    BY <1>3 DEF Descend
  <2>3. /\ stack' \in Seq(Node) /\ Entries(stack') = Entries(stack) \cup {u}
        /\ NoTwice(stack) /\ u \notin Entries(stack) => NoTwice(stack')
    <3>1. u \in Node
      BY <1>0, <2>1 DEF TypeOK
    <3> QED
      BY <1>0, <2>1, <3>1, ConsEntries
  <2>4. TypeOK'
    BY <1>0, <1>n, <2>1, <2>2, <2>3 DEF TypeOK, sets, list
  <2>5. SearchInv'
    BY <1>0, <1>n, <2>1, <2>2, <2>3 DEF SearchInv, list, sets
  <2> QED
    BY <1>0, <2>2, <2>4, <2>5 DEF WorklistIsDirty, PhaseInv, list, sets
<1>4. CASE Finish
  <2>1. /\ ig' = ig /\ UNCHANGED <<sets, dirty, white, todo, defuse, pc>> /\ pc = "order"
        /\ stack # <<>> /\ stack' = Tail(stack) /\ worklist' = Append(worklist, Head(stack))
    BY <1>4 DEF Finish
  <2>2. /\ stack' \in Seq(Node) /\ Head(stack) \in Node /\ Head(stack) \in Entries(stack)
        /\ Entries(stack) = Entries(stack') \cup {Head(stack)}
        /\ NoTwice(stack) => NoTwice(stack') /\ Head(stack) \notin Entries(stack')
    BY <1>0, <2>1, TailEntries
  <2>3. /\ worklist' \in Seq(Node) /\ Entries(worklist') = Entries(worklist) \cup {Head(stack)}
        /\ NoTwice(worklist) /\ Head(stack) \notin Entries(worklist) => NoTwice(worklist')
    BY <1>0, <2>1, <2>2, AppendEntries
  <2>4. TypeOK'
    BY <1>0, <1>n, <2>1, <2>2, <2>3 DEF TypeOK, sets
  <2>5. SearchInv'
    BY <1>0, <1>n, <2>1, <2>2, <2>3 DEF SearchInv, sets
  <2> QED
    BY <1>0, <2>1, <2>4, <2>5 DEF WorklistIsDirty, PhaseInv, sets
<1>5. CASE Ordered
  <2>1. /\ UNCHANGED <<ig, insets, outsets, worklist, dirty, stack, white, todo, defuse>>
        /\ pc = "order" /\ pc' = "iterate" /\ stack = <<>> /\ white = {}
    BY <1>5 DEF Ordered, sets, list, search
  <2>2. dirty = Entries(worklist) /\ NoTwice(worklist)
    BY <1>0, <2>1, EmptyEntries DEF SearchInv
  <2>3. WorklistIsDirty'
    BY <2>1, <2>2 DEF WorklistIsDirty, Entries, NoTwice
  <2> QED
    BY <1>0, <1>n, <2>1, <2>3 DEF TypeOK, SearchInv, PhaseInv
<1>6. CASE Unchanged
  <2>1. /\ ig' = ig /\ UNCHANGED <<sets, search, todo, defuse, pc>> /\ pc = "iterate"
        /\ worklist # <<>> /\ worklist' = Tail(worklist) /\ dirty' = dirty \ {Head(worklist)}
    BY <1>6 DEF Unchanged
  <2>2. worklist' \in Seq(Node) /\ dirty' = Entries(worklist') /\ NoTwice(worklist')
    BY <1>0, <1>w, <2>1, TailEntries
  <2>3. WorklistIsDirty'
    BY <2>2 DEF WorklistIsDirty, Entries, NoTwice
  <2> QED
    BY <1>0, <1>n, <2>1, <2>2, <2>3 DEF TypeOK, SearchInv, PhaseInv, sets, search
<1>7. CASE Changed
  <2> DEFINE v == Head(worklist)
  <2>1. /\ ig' = ig /\ UNCHANGED <<worklist, dirty, stack, white, defuse>> /\ pc = "iterate"
        /\ worklist # <<>> /\ pc' = "push" /\ todo' = Succs(v)
        /\ insets' = [insets EXCEPT ![v] = Combined(v)]
        /\ outsets' = [outsets EXCEPT ![v] = Flow(v, Combined(v))]
    BY <1>7 DEF Changed, list, search
  <2>2. v \in Node
    BY <1>0, <2>1, TailEntries
  <2>3. /\ Combined(v) \in SUBSET Definition /\ Flow(v, Combined(v)) \in SUBSET Definition
        /\ Succs(v) \subseteq Node
    BY <1>0, <2>2, CombinedType, FlowType, MethodType
  <2>4. TypeOK'
    BY <1>0, <1>n, <2>1, <2>2, <2>3 DEF TypeOK
  <2> QED
    BY <1>0, <1>n, <2>1, <2>4 DEF WorklistIsDirty, SearchInv, PhaseInv
<1>8. CASE PushSuccessor
  <2>1. PICK s \in todo :
          /\ worklist' = IF s \in dirty THEN worklist ELSE Append(worklist, s)
          /\ dirty' = dirty \cup {s}
          /\ todo' = todo \ {s}
    BY <1>8 DEF PushSuccessor
  <2>2. ig' = ig /\ UNCHANGED <<sets, search, defuse, pc>> /\ pc = "push"
    BY <1>8 DEF PushSuccessor
  <2>3. /\ worklist' \in Seq(Node) /\ worklist' # <<>> /\ s \in Node
        /\ dirty' = Entries(worklist') /\ NoTwice(worklist')
    <3>1. s \in Node /\ worklist # <<>>
      BY <1>0, <2>2 DEF TypeOK, PhaseInv
    <3> QED
      BY <1>0, <1>w, <2>1, <2>2, <3>1, AppendEntries
  <2>4. WorklistIsDirty'
    BY <2>3 DEF WorklistIsDirty, Entries, NoTwice
  <2> QED
    BY <1>0, <1>n, <2>1, <2>2, <2>3, <2>4 DEF TypeOK, SearchInv, PhaseInv, sets, search
<1>9. CASE PopHead
  <2>1. /\ ig' = ig /\ UNCHANGED <<sets, search, todo, defuse>> /\ pc = "push" /\ todo = {}
        /\ worklist # <<>> /\ worklist' = Tail(worklist) /\ dirty' = dirty \ {Head(worklist)}
        /\ pc' = "iterate"
    BY <1>0, <1>9 DEF PopHead, PhaseInv
  <2>2. worklist' \in Seq(Node) /\ dirty' = Entries(worklist') /\ NoTwice(worklist')
    BY <1>0, <1>w, <2>1, TailEntries
  <2>3. WorklistIsDirty'
    BY <2>2 DEF WorklistIsDirty, Entries, NoTwice
  <2> QED
    BY <1>0, <1>n, <2>1, <2>2, <2>3 DEF TypeOK, SearchInv, PhaseInv, sets, search
<1>10. CASE AddEdges
  <2>1. /\ ig' = ig /\ UNCHANGED <<insets, outsets, worklist, dirty, stack, white, todo>>
        /\ pc = "iterate" /\ worklist = <<>> /\ defuse' = DefUseEdges /\ pc' = "done"
    BY <1>10 DEF AddEdges, sets, list, search
  <2>2. DefUseEdges \subseteq Node \X Node \X Register
    BY <1>0 DEF DefUseEdges, Definition
  <2> QED
    BY <1>0, <1>n, <2>1, <2>2 DEF TypeOK, WorklistIsDirty, SearchInv, PhaseInv
<1> QED
  BY <1>1, <1>2, <1>3, <1>4, <1>5, <1>6, <1>7, <1>8, <1>9, <1>10 DEF Next

-----------------------------------------------------------------------------
(* The sets.                                                               *)

(* Where the sets and the predecessors stay, so do the equations.          *)
LEMMA CombinedSame ==
  ASSUME ig' = ig, outsets' = outsets
  PROVE  \A v : Combined(v)' = Combined(v)
  BY DEF Combined, Preds, Node

LEMMA FlowSame ==
  ASSUME ig' = ig
  PROVE  \A v, in : Flow(v, in)' = Flow(v, in)
  BY DEF Flow

LEMMA FlowInvKept ==
  ASSUME FlowInv, pc # "outset", ig' = ig, sets' = sets,
         dirty \cup todo \subseteq dirty' \cup todo', pc' # "push"
  PROVE  FlowInv'
<1>1. Node' = Node /\ insets' = insets /\ outsets' = outsets
  BY DEF Node, sets
<1>2. \A v : Combined(v)' = Combined(v)
  BY <1>1, CombinedSame
<1>3. \A v \in Node' : outsets'[v] = Flow(v, insets[v])' /\ insets'[v] \subseteq Combined(v)'
  BY <1>1, <1>2, FlowSame DEF FlowInv
<1>4. \A v \in Node' \ (dirty' \cup todo') : Combined(v)' \subseteq insets'[v]
  BY <1>1, <1>2 DEF FlowInv
<1> QED
  BY <1>3, <1>4 DEF FlowInv

(* The step that matters.  The in-set of the head v becomes what its       *)
(* predecessors hold.  If v is its own predecessor its new out-set adds    *)
(* nothing to that: it generates what its old out-set generated.           *)
LEMMA FlowInvChanged ==
  ASSUME Inv, Changed
  PROVE  FlowInv'
<1> DEFINE h == Head(worklist)
<1>0. PICK v : v = h
  OBVIOUS
<1>1. /\ ig' = ig /\ UNCHANGED <<worklist, dirty>> /\ pc = "iterate" /\ pc' = "push"
      /\ worklist # <<>> /\ todo = {} /\ todo' = Succs(v)
      /\ insets' = [insets EXCEPT ![v] = Combined(v)]
      /\ outsets' = [outsets EXCEPT ![v] = Flow(v, Combined(v))]
  BY <1>0 DEF Changed, list, search, Inv, PhaseInv
<1>2. /\ ig \in Methods /\ v \in Node /\ v \in dirty
      /\ insets \in [Node -> SUBSET Definition] /\ outsets \in [Node -> SUBSET Definition]
  <2>1. worklist \in Seq(Node) /\ dirty = Entries(worklist) /\ TypeOK
    BY <1>1 DEF Inv, TypeOK, WorklistIsDirty, Entries
  <2> QED
    BY <1>0, <1>1, <2>1, TailEntries DEF Inv, TypeOK
<1>3. /\ \A u \in Node : outsets[u] = Flow(u, insets[u])
      /\ \A u \in Node : insets[u] \subseteq Combined(u)
      /\ \A u \in Node \ dirty : Combined(u) \subseteq insets[u]
  BY <1>1 DEF Inv, FlowInv
<1>4. /\ Node' = Node /\ \A u : Preds(u)' = Preds(u)
      /\ \A u, in : Flow(u, in)' = Flow(u, in)
  BY <1>1, FlowSame DEF Node, Preds
<1>5. /\ insets'[v] = Combined(v) /\ outsets'[v] = Flow(v, Combined(v))
      /\ \A u \in Node : u # v => insets'[u] = insets[u] /\ outsets'[u] = outsets[u]
  BY <1>1, <1>2
<1>6. outsets[v] \subseteq outsets'[v]
  BY <1>2, <1>3, <1>5, FlowMonotone
<1>7. \A u, d : d \in Combined(u)' <=> \E w \in Preds(u) : d \in outsets'[w]
  <2>1. \A u, d : (d \in Combined(u) <=> \E w \in Preds(u) : d \in outsets[w])'
    BY DEF Combined
  <2> QED
    BY <1>4, <2>1
<1>8. \A u : Preds(u) \subseteq Node
  BY <1>2, MethodType
<1>9. \A u : Combined(u) \subseteq Combined(u)'
  BY <1>5, <1>6, <1>7, <1>8, CombinedMember
<1>10. \A u : u \notin Succs(v) /\ u \in Node => Combined(u)' \subseteq Combined(u)
  <2>1. \A u \in Node : v \in Preds(u) => u \in Succs(v)
    BY <1>2, MethodType
  <2> QED
    BY <1>5, <1>7, <1>8, <2>1, CombinedMember
<1>11. Combined(v)' \subseteq Combined(v)
  <2>1. SUFFICES ASSUME NEW d, NEW w \in Preds(v), d \in outsets'[w] PROVE d \in Combined(v)
    BY <1>7
  <2>2. CASE w # v
    BY <1>5, <1>8, <2>1, <2>2, CombinedMember
  <2>3. CASE w = v
    <3>1. outsets[v] \subseteq Combined(v)
      BY <2>3, CombinedMember
    <3>2. d \in Flow(v, Combined(v)) /\ outsets[v] = Flow(v, insets[v])
      BY <1>2, <1>3, <1>5, <2>1, <2>3
    <3> QED
      BY <3>1, <3>2 DEF Flow
  <2> QED
    BY <2>2, <2>3
<1>12. \A u \in Node' : outsets'[u] = Flow(u, insets[u])'
  BY <1>3, <1>4, <1>5
<1>13. \A u \in Node' : insets'[u] \subseteq Combined(u)'
  BY <1>3, <1>4, <1>5, <1>9
<1>14. \A u \in Node' \ (dirty' \cup todo') : Combined(u)' \subseteq insets'[u]
  <2>1. SUFFICES ASSUME NEW u \in Node', u \notin dirty', u \notin todo'
                 PROVE  Combined(u)' \subseteq insets'[u]
    OBVIOUS
  <2>2. u \in Node \ dirty /\ u # v /\ u \notin Succs(v)
    BY <1>1, <1>2, <1>4, <2>1
  <2> QED
    BY <1>3, <1>5, <1>10, <2>2
<1>15. (Combined(Head(worklist)) \subseteq insets[Head(worklist)])'
  <2>1. Head(worklist)' = v
    BY <1>0, <1>1
  <2>2. Combined(Head(worklist))' = Combined(v)'
    BY <2>1 DEF Combined, Preds
  <2> QED
    BY <1>5, <1>11, <2>1, <2>2
<1> QED
  BY <1>12, <1>13, <1>14, <1>15 DEF FlowInv

LEMMA FlowInvPreserved ==
  ASSUME Inv, Next
  PROVE  FlowInv'
<1>1. ASSUME InitialOutset PROVE FlowInv'
  <2>1. /\ ig' = ig /\ pc' = "order" /\ insets' = insets /\ dirty' = Node
        /\ insets = [v \in Node |-> {}] /\ outsets' = [v \in Node |-> Flow(v, insets[v])]
    BY <1>1 DEF InitialOutset, Inv, PhaseInv, SearchInv, list
  <2>2. Node' = Node
    BY <2>1 DEF Node
  <2> QED
    BY <2>1, <2>2, FlowSame DEF FlowInv
<1>2. ASSUME StartTree \/ Descend \/ Finish \/ Ordered PROVE FlowInv'
  <2>1. /\ pc # "outset" /\ ig' = ig /\ sets' = sets /\ pc' # "push"
        /\ dirty' = dirty /\ todo' = todo
    BY <1>2 DEF StartTree, Descend, Finish, Ordered, list
  <2> QED
    BY <2>1, FlowInvKept DEF Inv
<1>3. ASSUME Unchanged PROVE FlowInv'
  <2> DEFINE h == Head(worklist)
  <2>0. PICK v : v = h
    OBVIOUS
  <2>1. /\ ig' = ig /\ sets' = sets /\ todo' = todo /\ pc = "iterate" /\ pc' = "iterate"
        /\ dirty' = dirty \ {v} /\ ~InSetChanged(v)
    BY <1>3, <2>0 DEF Unchanged
  <2>2. Node' = Node /\ insets' = insets /\ outsets' = outsets
    BY <2>1 DEF Node, sets
  <2>3. Combined(v) \subseteq insets[v]
    BY <2>1, CombinedMember DEF InSetChanged
  <2>4. \A u : Combined(u)' = Combined(u)
    BY <2>1, <2>2, CombinedSame
  <2>5. \A u \in Node : outsets'[u] = Flow(u, insets[u])' /\ insets'[u] \subseteq Combined(u)'
    BY <2>1, <2>2, <2>4, FlowSame DEF Inv, FlowInv
  <2>6. \A u \in Node \ (dirty' \cup todo') : Combined(u)' \subseteq insets'[u]
    BY <2>1, <2>2, <2>3, <2>4 DEF Inv, FlowInv
  <2> QED
    BY <2>1, <2>2, <2>5, <2>6 DEF FlowInv
<1>4. ASSUME PushSuccessor PROVE FlowInv'
  <2>1. PICK s \in todo :
          /\ worklist' = IF s \in dirty THEN worklist ELSE Append(worklist, s)
          /\ dirty' = dirty \cup {s}
          /\ todo' = todo \ {s}
    BY <1>4 DEF PushSuccessor
  <2>2. ig' = ig /\ sets' = sets /\ pc = "push" /\ pc' = "push"
    BY <1>4 DEF PushSuccessor
  <2>3. Node' = Node /\ insets' = insets /\ outsets' = outsets
    BY <2>2 DEF Node, sets
  <2>4. \A u : Combined(u)' = Combined(u)
    BY <2>2, <2>3, CombinedSame
  <2>5. Head(worklist') = Head(worklist)
    <3>1. worklist \in Seq(Node) /\ s \in Node /\ worklist # <<>>
      BY <2>2 DEF Inv, TypeOK, PhaseInv
    <3> QED
      BY <2>1, <3>1, AppendEntries
  <2>6. PICK v : v = Head(worklist)
    OBVIOUS
  <2>7. (Combined(Head(worklist)) \subseteq insets[Head(worklist)])'
    <3>1. Combined(v)' \subseteq insets'[v]
      BY <2>2, <2>3, <2>4, <2>6 DEF Inv, FlowInv
    <3>2. Combined(Head(worklist))' = Combined(v)'
      BY <2>5, <2>6 DEF Combined, Preds
    <3> QED
      BY <2>5, <2>6, <3>1, <3>2
  <2>8. \A u \in Node : outsets'[u] = Flow(u, insets[u])' /\ insets'[u] \subseteq Combined(u)'
    BY <2>2, <2>3, <2>4, FlowSame DEF Inv, FlowInv
  <2>9. \A u \in Node \ (dirty' \cup todo') : Combined(u)' \subseteq insets'[u]
    BY <2>1, <2>2, <2>3, <2>4 DEF Inv, FlowInv
  <2> QED
    BY <2>2, <2>3, <2>7, <2>8, <2>9 DEF FlowInv
<1>5. ASSUME PopHead PROVE FlowInv'
  <2>0. PICK v : v = Head(worklist)
    OBVIOUS
  <2>1. /\ ig' = ig /\ sets' = sets /\ todo' = todo /\ pc = "push" /\ pc' = "iterate"
        /\ dirty' = dirty \ {v}
    BY <1>5, <2>0 DEF PopHead
  <2>2. Node' = Node /\ insets' = insets /\ outsets' = outsets
    BY <2>1 DEF Node, sets
  <2>3. Combined(v) \subseteq insets[v]
    BY <2>0, <2>1 DEF Inv, FlowInv
  <2>4. \A u : Combined(u)' = Combined(u)
    BY <2>1, <2>2, CombinedSame
  <2>5. \A u \in Node : outsets'[u] = Flow(u, insets[u])' /\ insets'[u] \subseteq Combined(u)'
    BY <2>1, <2>2, <2>4, FlowSame DEF Inv, FlowInv
  <2>6. \A u \in Node \ (dirty' \cup todo') : Combined(u)' \subseteq insets'[u]
    BY <2>1, <2>2, <2>3, <2>4 DEF Inv, FlowInv
  <2> QED
    BY <2>1, <2>2, <2>5, <2>6 DEF FlowInv
<1>6. ASSUME AddEdges PROVE FlowInv'
  <2>1. /\ pc # "outset" /\ ig' = ig /\ sets' = sets /\ pc' # "push"
        /\ dirty' = dirty /\ todo' = todo
    BY <1>6 DEF AddEdges, list
  <2> QED
    BY <2>1, FlowInvKept DEF Inv
<1> QED
  BY <1>1, <1>2, <1>3, <1>4, <1>5, <1>6, FlowInvChanged DEF Next

LEMMA InvStep == Inv /\ [Next]_vars => Inv'
<1> SUFFICES ASSUME Inv, [Next]_vars PROVE Inv'
  OBVIOUS
<1>1. CASE Next
  BY <1>1, ListsPreserved, FlowInvPreserved DEF Inv
<1>2. CASE UNCHANGED vars
  <2>1. /\ ig' = ig /\ UNCHANGED <<insets, outsets, worklist, dirty, stack, white, todo, defuse, pc>>
    BY <1>2 DEF vars, sets, list, search
  <2>2. Node' = Node /\ Definition' = Definition
    BY <2>1 DEF Node, Definition
  <2>3. TypeOK' /\ SearchInv' /\ WorklistIsDirty' /\ PhaseInv' /\ ig' \in Methods
    BY <2>1, <2>2 DEF Inv, TypeOK, SearchInv, WorklistIsDirty, PhaseInv
  <2>4. \A u : Combined(u)' = Combined(u)
    BY <2>1, CombinedSame
  <2>5. PICK v : v = Head(worklist)
    OBVIOUS
  <2>6. Combined(Head(worklist))' = Combined(v)'
    BY <2>1, <2>5 DEF Combined, Preds
  <2>7. FlowInv'
    BY <2>1, <2>2, <2>4, <2>5, <2>6, FlowSame DEF Inv, FlowInv
  <2> QED
    BY <2>3, <2>7 DEF Inv
<1> QED
  BY <1>1, <1>2

-----------------------------------------------------------------------------
(* In every state of every run the sets, the worklist, the search and the  *)
(* edges have their types: reaching_definitions never holds anything but   *)
(* definitions of the method's instructions.                               *)
THEOREM TypeSafe == Spec => []TypeOK
<1>1. Inv => TypeOK
  BY DEF Inv
<1> QED
  BY <1>1, Initially, InvStep, PTL DEF Spec

(* For every method the dirty flags of monotonic_dataflow are exactly its  *)
(* worklist, which holds no instruction twice.                             *)
THEOREM WorklistSound == Spec => []WorklistIsDirty
<1>1. Inv => WorklistIsDirty
  BY DEF Inv
<1> QED
  BY <1>1, Initially, InvStep, PTL DEF Spec

(* For every method the equations of reaching definitions hold when        *)
(* monotonic_dataflow ends.                                                *)
THEOREM FixpointReached == Spec => []Fixpoint
<1>1. Inv => Fixpoint
  <2> SUFFICES ASSUME Inv, pc = "done"
               PROVE  \A v \in Node : insets[v] = Combined(v) /\ outsets[v] = Flow(v, insets[v])
    BY DEF Fixpoint
  <2>1. worklist = <<>> /\ todo = {}
    BY DEF Inv, PhaseInv
  <2>2. dirty = {}
    BY <2>1 DEF Inv, WorklistIsDirty
  <2> QED
    BY <2>1, <2>2 DEF Inv, FlowInv
<1> QED
  BY <1>1, Initially, InvStep, PTL DEF Spec

(* What the analysis holds is in every solution of the equations.          *)
LEMMA LeastStep ==
  ASSUME Inv, Least, Next
  PROVE  Least'
<1>1. ig' = ig /\ ig \in Methods
  BY ListsPreserved DEF Inv
<1>2. /\ Node' = Node /\ Definition' = Definition /\ \A u : Preds(u)' = Preds(u)
      /\ \A u, in : Flow(u, in)' = Flow(u, in)
  BY <1>1, FlowSame DEF Node, Definition, Preds
<1>3. SUFFICES ASSUME NEW in \in [Node -> SUBSET Definition], Solution(in), NEW u \in Node
               PROVE  insets'[u] \subseteq in[u]
  <2>1. \A in : Solution(in)' <=> Solution(in)
    BY <1>2 DEF Solution
  <2> QED
    BY <1>2, <2>1 DEF Least
<1>4. \A v \in Node : insets[v] \subseteq in[v]
  BY <1>3 DEF Least
<1>5. CASE Changed
  <2> DEFINE h == Head(worklist)
  <2>0. PICK v : v = h
    OBVIOUS
  <2>1. /\ pc = "iterate" /\ worklist # <<>> /\ insets' = [insets EXCEPT ![v] = Combined(v)]
    BY <1>5, <2>0 DEF Changed
  <2>2. worklist \in Seq(Node) /\ insets \in [Node -> SUBSET Definition]
    BY DEF Inv, TypeOK
  <2>3. v \in Node
    BY <2>0, <2>1, <2>2, TailEntries
  <2>4. ASSUME NEW w \in Preds(v) PROVE outsets[w] \subseteq in[v]
    <3>1. w \in Node
      BY <1>1, <2>4, MethodType
    <3>2. outsets[w] = Flow(w, insets[w]) /\ insets[w] \subseteq in[w]
      BY <1>4, <2>1, <3>1 DEF Inv, FlowInv
    <3>3. Flow(w, in[w]) \subseteq in[v]
      BY <1>3, <2>3, <2>4 DEF Solution
    <3> QED
      BY <3>2, <3>3, FlowMonotone
  <2>5. Combined(v) \subseteq in[v]
    BY <2>4, CombinedMember
  <2> QED
    BY <1>4, <2>1, <2>2, <2>3, <2>5
<1>6. CASE ~Changed
  <2>1. insets' = insets
    BY <1>6 DEF Next, InitialOutset, StartTree, Descend, Finish, Ordered, Unchanged,
                PushSuccessor, PopHead, AddEdges, sets
  <2> QED
    BY <1>4, <2>1
<1> QED
  BY <1>5, <1>6

(* For every method reaching_definitions computes the least solution: what *)
(* is in an in-set is in every solution, so in the end (FixpointReached)   *)
(* nothing is there that no path brings.                                   *)
THEOREM LeastSolution == Spec => []Least
<1>1. Init => Least
  BY DEF Init, Least
<1>2. Inv /\ Least /\ [Next]_vars => Least'
  <2> SUFFICES ASSUME Inv, Least, [Next]_vars PROVE Least'
    OBVIOUS
  <2>1. CASE Next
    BY <2>1, LeastStep
  <2>2. CASE UNCHANGED vars
    BY <2>2 DEF vars, sets, Least, Solution, Node, Definition, Preds, Flow
  <2> QED
    BY <2>1, <2>2
<1> QED
  BY <1>1, <1>2, Initially, InvStep, PTL DEF Spec
-----------------------------------------------------------------------------
(* The definitions that reach an instruction, by paths.                    *)

LEMMA OnwardNodes ==
  ASSUME ig \in Methods
  PROVE  /\ \A v : Succs(v) \subseteq Node
         /\ \A S \in SUBSET Node : \A r : Onward(S, r) \in SUBSET Node
  BY DEF Succs, Onward

(* Reached is the last of a growing chain of sets of instructions.         *)
LEMMA ReachedChain ==
  ASSUME ig \in Methods, NEW u, NEW r
  PROVE  \E f \in [Nat -> SUBSET Node] :
           /\ f[0] = Succs(u) /\ \A n \in Nat : f[n + 1] = Onward(f[n], r)
           /\ Reached(u, r) = f[Cardinality(Node)]
<1> DEFINE T == SUBSET Node
           G == [S \in T |-> Onward(S, r)]
           Is(f) == f = [n \in Nat |-> IF n = 0 THEN Succs(u) ELSE Onward(f[n - 1], r)]
           e == CHOOSE f : Is(f)
<1>1. PICK h : /\ h = [n \in Nat |-> h[n]]
               /\ h[0] = Succs(u) /\ \A n \in Nat : h[n + 1] = G[h[n]]
  <2> HIDE DEF G
  <2>1. Iterates(Succs(u), G, Iterate(Succs(u), G))
    BY IterateExists
  <2>2. PICK h : Iterates(Succs(u), G, h)
    BY <2>1
  <2> QED
    BY <2>2 DEF Iterates
<1>3. \A n \in Nat : h[n] \in T
  <2> DEFINE S == {n \in Nat : h[n] \in T}
  <2>1. 0 \in S
    BY <1>1, OnwardNodes
  <2>2. ASSUME NEW n \in Nat, n \in S PROVE n + 1 \in S
    <3>1. h[n] \in T /\ h[n + 1] = G[h[n]]
      BY <1>1, <2>2
    <3>2. h[n + 1] = Onward(h[n], r)
      BY <3>1
    <3> QED
      BY <3>1, <3>2, OnwardNodes
  <2> HIDE DEF S
  <2>3. Nat \subseteq S
    BY <2>1, <2>2, AllNaturals
  <2> QED
    BY <2>3 DEF S
<1>4. Is(h)
  <2>1. ASSUME NEW n \in Nat PROVE h[n] = IF n = 0 THEN Succs(u) ELSE Onward(h[n - 1], r)
    <3>1. CASE n = 0
      BY <1>1, <3>1
    <3>2. CASE n # 0
      <4>1. PICK m \in Nat : n = m + 1 /\ m = n - 1
        BY <3>2
      <4>2. h[n] = G[h[m]] /\ h[m] \in T
        BY <1>1, <1>3, <4>1
      <4>3. h[n] = Onward(h[m], r)
        BY <4>2
      <4> QED
        BY <3>2, <4>1, <4>3
    <3> QED
      BY <3>1, <3>2
  <2> HIDE DEF G
  <2> QED
    BY <1>1, <2>1
<1>5. Is(e)
  BY <1>4
<1>6. Reached(u, r) = e[Cardinality(Node)]
  BY DEF Reached
<1> HIDE DEF e
<1>7. e[0] = Succs(u) /\ \A n \in Nat : e[n + 1] = Onward(e[n], r)
  <2>1. \A n \in Nat : n + 1 \in Nat /\ n + 1 # 0 /\ (n + 1) - 1 = n
    OBVIOUS
  <2>2. \A n \in Nat : e[n] = IF n = 0 THEN Succs(u) ELSE Onward(e[n - 1], r)
    BY <1>5
  <2> QED
    BY <2>1, <2>2
<1>8. \A n \in Nat : e[n] \in T
  <2> DEFINE S == {n \in Nat : e[n] \in T}
  <2>1. 0 \in S
    BY <1>7, OnwardNodes
  <2>2. \A n \in Nat : n \in S => n + 1 \in S
    BY <1>7, OnwardNodes
  <2> HIDE DEF S
  <2>3. Nat \subseteq S
    BY <2>1, <2>2, AllNaturals
  <2> QED
    BY <2>3 DEF S
<1>9. e \in [Nat -> T]
  <2>1. e = [n \in Nat |-> e[n]]
    BY <1>5
  <2> QED
    BY <1>8, <2>1
<1> QED
  BY <1>6, <1>7, <1>9

Closed(S, r) == \A w \in S : r \notin ig.defs[w] => Succs(w) \subseteq S

LEMMA OnwardGrows ==
  ASSUME NEW S, NEW r
  PROVE  S \subseteq Onward(S, r) /\ (Closed(S, r) <=> Onward(S, r) = S)
  BY DEF Onward, Closed

(* Every set of the chain is closed or larger than the one before; there   *)
(* are no more than Cardinality(Node) instructions.                        *)
LEMMA ReachedClosed ==
  ASSUME ig \in Methods, NEW u, NEW r
  PROVE  /\ Reached(u, r) \subseteq Node /\ Succs(u) \subseteq Reached(u, r)
         /\ Closed(Reached(u, r), r)
<1>1. PICK f \in [Nat -> SUBSET Node] :
        /\ f[0] = Succs(u) /\ \A n \in Nat : f[n + 1] = Onward(f[n], r)
        /\ Reached(u, r) = f[Cardinality(Node)]
  BY ReachedChain
<1>2. IsFiniteSet(Node) /\ Cardinality(Node) \in Nat
  BY FS_CardinalityType, MethodsAssumption DEF Node
<1>3. \A S \in SUBSET Node : IsFiniteSet(S) /\ Cardinality(S) \in Nat
  BY <1>2, FS_Subset, FS_CardinalityType
<1> DEFINE P(n) == /\ Succs(u) \subseteq f[n]
                   /\ Closed(f[n], r) \/ Cardinality(f[n]) >= n
           S == {n \in Nat : P(n)}
<1>4. P(0)
  BY <1>1, <1>3
<1>5. ASSUME NEW n \in Nat, P(n) PROVE P(n + 1)
  <2>1. f[n + 1] = Onward(f[n], r) /\ f[n] \subseteq f[n + 1] /\ f[n] \in SUBSET Node
        /\ f[n + 1] \in SUBSET Node
    BY <1>1, OnwardGrows
  <2>2. CASE Closed(f[n], r)
    <3>1. f[n + 1] = f[n]
      BY <2>1, <2>2, OnwardGrows
    <3> QED
      BY <1>5, <2>2, <3>1
  <2>3. CASE ~Closed(f[n], r)
    <3>1. f[n + 1] # f[n]
      BY <2>1, <2>3, OnwardGrows
    <3>2. Cardinality(f[n]) <= Cardinality(f[n + 1]) /\ Cardinality(f[n]) # Cardinality(f[n + 1])
      BY <1>3, <2>1, <3>1, FS_Subset
    <3>3. PICK i \in Nat, j \in Nat : i = Cardinality(f[n]) /\ j = Cardinality(f[n + 1])
      BY <1>3, <2>1
    <3>4. i >= n /\ i <= j /\ i # j
      BY <1>5, <2>3, <3>2, <3>3
    <3>5. j >= n + 1
      BY <3>4
    <3> QED
      BY <1>5, <2>1, <3>3, <3>5
  <2> QED
    BY <2>2, <2>3
<1>6. Nat \subseteq S
  <2>1. 0 \in S /\ \A n \in Nat : n \in S => n + 1 \in S
    BY <1>4, <1>5
  <2> HIDE DEF S
  <2> QED
    BY <2>1, AllNaturals
<1>7. P(Cardinality(Node))
  BY <1>2, <1>6
<1> HIDE DEF S
<1>8. PICK E : E = f[Cardinality(Node)] /\ E \in SUBSET Node
  BY <1>2
<1>9. Closed(E, r)
  <2>1. CASE Cardinality(E) >= Cardinality(Node)
    <3>1. Cardinality(E) <= Cardinality(Node)
      BY <1>2, <1>8, FS_Subset
    <3>2. Cardinality(E) = Cardinality(Node)
      BY <1>2, <1>3, <1>8, <2>1, <3>1
    <3>3. E = Node
      BY <1>2, <1>8, <3>2, FS_Subset
    <3> QED
      BY <3>3, OnwardNodes DEF Closed
  <2> QED
    BY <1>7, <1>8, <2>1
<1> QED
  BY <1>1, <1>7, <1>8, <1>9

LEMMA ReachedWithin ==
  ASSUME ig \in Methods, NEW u, NEW r, NEW R, Succs(u) \subseteq R, Closed(R, r)
  PROVE  Reached(u, r) \subseteq R
<1>1. PICK f \in [Nat -> SUBSET Node] :
        /\ f[0] = Succs(u) /\ \A n \in Nat : f[n + 1] = Onward(f[n], r)
        /\ Reached(u, r) = f[Cardinality(Node)]
  BY ReachedChain
<1> DEFINE S == {n \in Nat : f[n] \subseteq R}
<1>2. 0 \in S
  BY <1>1
<1>3. ASSUME NEW n \in Nat, n \in S PROVE n + 1 \in S
  <2>1. f[n + 1] = Onward(f[n], r) /\ f[n] \subseteq R
    BY <1>1, <1>3
  <2>2. Onward(f[n], r) \subseteq R
    BY <2>1 DEF Onward, Closed
  <2> QED
    BY <2>1, <2>2
<1> HIDE DEF S
<1>4. Nat \subseteq S
  BY <1>2, <1>3, AllNaturals
<1>5. Cardinality(Node) \in Nat
  BY FS_CardinalityType, MethodsAssumption DEF Node
<1> QED
  BY <1>1, <1>4, <1>5 DEF S

-----------------------------------------------------------------------------
(* The edges added in the end are those of the in-sets.                    *)
Added == pc = "done" => defuse = DefUseEdges

LEMMA AddedNext == Added /\ [Next]_vars => Added'
<1> SUFFICES ASSUME Added, [Next]_vars, pc' = "done" PROVE defuse' = DefUseEdges'
  BY DEF Added
<1>1. CASE AddEdges
  <2>1. insets' = insets /\ ig' = ig /\ defuse' = DefUseEdges
    BY <1>1 DEF AddEdges, sets
  <2> QED
    BY <2>1 DEF DefUseEdges, Node
<1>2. CASE UNCHANGED vars
  <2>1. insets' = insets /\ ig' = ig /\ defuse' = defuse /\ pc' = pc
    BY <1>2 DEF vars, sets
  <2> QED
    BY <2>1 DEF Added, DefUseEdges, Node
<1> QED
  BY <1>1, <1>2 DEF Next, InitialOutset, StartTree, Descend, Finish, Ordered, Unchanged, Changed,
     PushSuccessor, PopHead

(* The in-sets that paths give satisfy the equations.                      *)
Paths == [v \in Node |-> {d \in Defined : v \in Reached(d[1], d[2])}]

LEMMA PathsSolve ==
  ASSUME ig \in Methods
  PROVE  Paths \in [Node -> SUBSET Definition] /\ Solution(Paths)
<1>1. Paths \in [Node -> SUBSET Definition]
  BY DEF Paths, Defined
<1>2. ASSUME NEW v \in Node, NEW u \in Preds(v), NEW d \in Flow(u, Paths[u])
      PROVE  d \in Paths[v]
  <2>1. u \in Node /\ v \in Succs(u) /\ ig.defs \in [Node -> SUBSET Register]
    BY MethodType
  <2>2. CASE d \in Paths[u] /\ d[2] \notin ig.defs[u]
    <3>1. d \in Defined /\ u \in Reached(d[1], d[2])
      BY <2>1, <2>2 DEF Paths
    <3>2. v \in Reached(d[1], d[2])
      BY <2>1, <2>2, <3>1, ReachedClosed DEF Closed
    <3> QED
      BY <3>1, <3>2 DEF Paths
  <2>3. CASE d \in {<<u, r>> : r \in ig.defs[u]}
    <3>1. PICK r \in ig.defs[u] : d = <<u, r>>
      BY <2>3
    <3>2. d \in Defined /\ d[1] = u /\ d[2] = r
      BY <2>1, <3>1 DEF Defined, Definition
    <3>3. v \in Reached(u, r)
      BY <2>1, ReachedClosed
    <3> QED
      BY <3>2, <3>3 DEF Paths
  <2> QED
    BY <2>2, <2>3 DEF Flow
<1> QED
  BY <1>1, <1>2 DEF Solution

(* What a path brings is in the in-set when the equations hold.            *)
LEMMA PathsBring ==
  ASSUME Inv, Fixpoint, pc = "done", NEW d \in Defined
  PROVE  \A v \in Reached(d[1], d[2]) : d \in insets[v]
<1>1. PICK u, r : u = d[1] /\ r = d[2] /\ d = <<u, r>>
  BY DEF Defined, Definition
<1>2. u \in Node /\ r \in ig.defs[u] /\ ig \in Methods
  BY <1>1 DEF Defined, Definition, Inv
<1> DEFINE R == {v \in Node : d \in insets[v]}
<1>3. \A v \in Node : insets[v] = Combined(v) /\ outsets[v] = Flow(v, insets[v])
  BY DEF Fixpoint
<1>4. ASSUME NEW w \in Node, d \in outsets[w] PROVE Succs(w) \subseteq R
  <2> SUFFICES ASSUME NEW v \in Succs(w) PROVE v \in Node /\ d \in insets[v]
    OBVIOUS
  <2>1. v \in Node /\ w \in Preds(v)
    BY DEF Succs, Preds
  <2>2. d \in Combined(v)
    BY <1>4, <2>1, CombinedMember
  <2> QED
    BY <1>3, <2>1, <2>2
<1>5. Succs(u) \subseteq R
  <2>1. d \in Flow(u, insets[u])
    BY <1>1, <1>2 DEF Flow
  <2> QED
    BY <1>2, <1>3, <1>4, <2>1
<1>6. Closed(R, r)
  <2> SUFFICES ASSUME NEW w \in R, r \notin ig.defs[w] PROVE Succs(w) \subseteq R
    BY DEF Closed
  <2>1. d \in Flow(w, insets[w])
    BY <1>1 DEF Flow
  <2> QED
    BY <1>3, <1>4, <2>1
<1>7. Reached(u, r) \subseteq R
  <2> HIDE DEF R
  <2> QED
    BY <1>2, <1>5, <1>6, ReachedWithin
<1> QED
  BY <1>1, <1>7

(* For every method, when add_def_use_edges returns, an instruction is     *)
(* connected with exactly the definitions that reach it along a path of    *)
(* the control flow graph and define a register it uses, itself left out.  *)
THEOREM EdgesExact == Spec => []DefUseExact
<1>1. Init => Added
  BY DEF Init, Added
<1>2. Inv /\ Fixpoint /\ Least /\ Added => DefUseExact
  <2> SUFFICES ASSUME Inv, Fixpoint, Least, pc = "done", defuse = DefUseEdges
               PROVE  defuse = UNION {{<<d[1], v, d[2]>> :
                                         v \in {w \in Reached(d[1], d[2]) :
                                                  w # d[1] /\ d[2] \in ig.uses[w]}} : d \in Defined}
    BY DEF Added, DefUseExact
  <2>1. ig \in Methods
    BY DEF Inv
  <2>2. ASSUME NEW d, NEW v
        PROVE  (v \in Node /\ d \in insets[v]) <=> (d \in Defined /\ v \in Reached(d[1], d[2]))
    <3>1. ASSUME v \in Node, d \in insets[v] PROVE d \in Defined /\ v \in Reached(d[1], d[2])
      <4>1. insets[v] \subseteq Paths[v]
        BY <2>1, <3>1, PathsSolve DEF Least
      <4> QED
        BY <3>1, <4>1 DEF Paths
    <3>2. ASSUME d \in Defined, v \in Reached(d[1], d[2]) PROVE v \in Node /\ d \in insets[v]
      <4>1. Reached(d[1], d[2]) \subseteq Node
        BY <2>1, ReachedClosed
      <4> QED
        BY <3>2, <4>1, PathsBring
    <3> QED
      BY <3>1, <3>2
  <2> QED
    BY <2>2 DEF DefUseEdges
<1> QED
  BY <1>1, <1>2, AddedNext, FixpointReached, LeastSolution, Initially, InvStep, PTL DEF Spec
=============================================================================
