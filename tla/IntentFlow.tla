----------------------------- MODULE IntentFlow -----------------------------
(***************************************************************************)
(* What changes the loader graph between two calls of ClassLoading:        *)
(* virtual_machine::add_apk, and the edges that add_intent_flow_edges_     *)
(* string and add_content_provider_flow_edges_string (analysis/) make from *)
(* the strings of the loaded methods to the applications whose manifest    *)
(* answers to them.  These edges are in the graph that find_class walks.   *)
(*                                                                         *)
(* A name is the sequence of its parts between the dots; that of ".Main"   *)
(* begins with "".                                                         *)
(***************************************************************************)
EXTENDS ClassLoading, SequencesExt

CONSTANTS
  Main, View    \* the actions of a launcher and a viewer

(* A world has besides what ClassLoading says                              *)
(*   first      the loaders that are there, in order                       *)
(*   parent     of the loaders that may be added                           *)
(*   manifest   per loader: none or [package |-> a name, elements |-> a    *)
(*              set of [kind, name, actions]]                              *)
(*   scans      a bound: how often the loaded methods are scanned          *)
(*   strings    of a class and a method, in order: [content |-> whether it *)
(*              begins with content://, name |-> what comes then, path |-> *)
(*              whether more follows after a slash]                        *)

ASSUME ParentsAssumption ==
  \A w \in Worlds : "parent" \in DOMAIN w /\ DOMAIN w.parent \subseteq DOMAIN w.file

VARIABLES
  order,   \* the loaders in the order in which they were added
  scans    \* the number of scans so far

ivars == <<vars, order, scans>>

-----------------------------------------------------------------------------
AddApk ==
  /\ stack = <<>>
  /\ \E l \in DOMAIN world.parent \ world.loader :
       /\ world.parent[l] \in world.loader
       /\ world' = [world EXCEPT !.loader = @ \cup {l}, !.out = (l :> <<world.parent[l]>>) @@ @]
       /\ order' = Append(order, l)
  /\ UNCHANGED <<graphs, tables, stack, result, scans>>

(* The full name of a component.                                           *)
FullName(package, name) ==
  IF name[1] = "" THEN package \o Tail(name)
  ELSE IF Len(name) = 1 THEN package \o name ELSE name

Elements(l, kinds) ==
  UNION {{e \in manifest.elements : e.kind \in kinds} : manifest \in world.manifest[l]}
IntentKinds == {"activity", "service", "receiver"}

(* The names an application answers to.                                    *)
Components(l, kinds) ==
  {FullName(manifest.package, e.name) :
     e \in {d \in Elements(l, kinds) : d.name # <<>>}, manifest \in world.manifest[l]}
Actions(l) == (UNION {e.actions : e \in Elements(l, IntentKinds)}) \ {<<>>, Main, View}

Whole(s) == ~ s.content /\ ~ s.path
Answers(kind, l, s) ==
  CASE kind = "explicit" -> Whole(s) /\ s.name \in Components(l, IntentKinds)
    [] kind = "implicit" -> Whole(s) /\ s.name \in Actions(l)
    [] kind = "provider" -> s.name \in Components(l, {"provider"})

(* One edge for each string of each loaded method and each application     *)
(* that answers, <<loader of the method, application>>, in order.          *)
StringsOf(h) == IF <<h[3], h[4]>> \in DOMAIN world.strings THEN world.strings[<<h[3], h[4]>>] ELSE <<>>
FlowEdges(kind) ==
  FlattenSeq([v \in DOMAIN methods |->
    FlattenSeq([k \in DOMAIN StringsOf(methods[v]) |->
      LET to == SelectSeq(order, LAMBDA l : Answers(kind, l, StringsOf(methods[v])[k]))
      IN  [j \in DOMAIN to |-> <<methods[v][1], to[j]>>]])])

(* Mutant: a new edge comes before those that are there.                   *)
Before(out, edges) ==
  [l \in DOMAIN out |->
     LET new == SelectSeq(edges, LAMBDA e : e[1] = l)
     IN  [k \in DOMAIN new |-> new[k][2]] \o out[l]]

After(out, edges) ==
  [l \in DOMAIN out |->
     LET new == SelectSeq(edges, LAMBDA e : e[1] = l)
     IN  out[l] \o [k \in DOMAIN new |-> new[k][2]]]

AddFlow(edges) ==
  /\ stack = <<>> /\ scans < world.scans
  /\ scans' = scans + 1
  /\ world' = [world EXCEPT !.out = After(@, edges)]
  /\ UNCHANGED <<graphs, tables, stack, result, order>>

AddIntentFlow   == AddFlow(FlowEdges("explicit") \o FlowEdges("implicit"))
AddProviderFlow == AddFlow(FlowEdges("provider"))

IInit == Init /\ order = world.first /\ scans = 0
INext ==
  \/ Next /\ UNCHANGED <<order, scans>>
  \/ AddApk \/ AddIntentFlow \/ AddProviderFlow

ISpec == IInit /\ [][INext]_ivars

(* One sequential library: a call that has begun goes on.                  *)
IFairSpec == ISpec /\ WF_ivars(stack # <<>> /\ INext)
=============================================================================
