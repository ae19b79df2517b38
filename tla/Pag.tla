-------------------------------- MODULE Pag --------------------------------
(***************************************************************************)
(* The pointer assignment graph of include/jitana/analysis_graph/          *)
(* pointer_assignment_graph.hpp: what a vertex is and what an edge is.     *)
(* The graph keeps one vertex per key and per calling context in lookup    *)
(* tables (make_vertex_for_reg and its siblings), so a vertex is modelled  *)
(* by its key: asking for the vertex of a key twice gives the same vertex. *)
(*                                                                         *)
(* A program point is a pair <<method, index>>.  Index 0 is the ENTRY      *)
(* pseudo-instruction, which defines the parameter registers; the EXIT     *)
(* pseudo-instruction, which holds the result register, follows the last   *)
(* instruction.  A definition site <<method, index, register>> is a        *)
(* dex_reg_hdl: an instruction and the register it defines.                *)
(***************************************************************************)
EXTENDS Naturals

CONSTANTS
  NoInsn,   \* no_insn_hdl: the empty calling context
  NoField   \* a vertex that is not a field or an array element

(* pag_reg: the register defined at site, in one calling context.          *)
RegVertex(site, context) ==
  [kind |-> "reg", hdl |-> site, field |-> NoField, context |-> context]

(* pag_alloc: the objects allocated by one instruction.                    *)
AllocVertex(insn) ==
  [kind |-> "alloc", hdl |-> insn, field |-> NoField, context |-> NoInsn]

(* pag_reg_dot_field and pag_reg_dot_array: a field (or the elements) of   *)
(* whatever the register points to.                                        *)
RegFieldVertex(site, field, context) ==
  [kind |-> "reg_dot_field", hdl |-> site, field |-> field, context |-> context]

(* pag_alloc_dot_field and pag_alloc_dot_array.                            *)
AllocFieldVertex(insn, field) ==
  [kind |-> "alloc_dot_field", hdl |-> insn, field |-> field, context |-> NoInsn]

(* pag_static_field.                                                       *)
StaticVertex(field) ==
  [kind |-> "static_field", hdl |-> NoInsn, field |-> field, context |-> NoInsn]

Edge(src, dst, kind) == [src |-> src, dst |-> dst, kind |-> kind]

(* process_outgoing_edges sends points-to sets along these kinds only; the *)
(* store and load edges of a dereference wait for update_dereferencer.     *)
FlowKinds == {"alloc", "assign", "sstore", "sload"}
HeapKinds == {"store", "load"}

IsFlow(e) == e.kind \in FlowKinds

Preds(edges, v) == {e.src : e \in {x \in edges : x.dst = v}}
Succs(edges, v) == {e.dst : e \in {x \in edges : x.src = v}}
=============================================================================
