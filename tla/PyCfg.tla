------------------------------- MODULE PyCfg -------------------------------
(***************************************************************************)
(* The control flow graphs of jitana-python (tools/jitana-python/main.cpp):*)
(* generate_cfg_from_instructions for a function, and generate_icfg, which *)
(* joins the graphs of all functions by call and return edges.  A block is *)
(* named by its first instruction, its leader; the offset of an            *)
(* instruction is its place in the code.                                   *)
(***************************************************************************)
EXTENDS PyBytecode

(* Mutant: only the targets of jumps are leaders.                          *)
TargetLeaders(code) ==
  {1} \cup {code[i].val : i \in {k \in DOMAIN code : code[k].op \in Jumps}}

Leaders(code) ==
  {1} \cup UNION {{i + 1} \cup (IF code[i].op \in Jumps THEN {code[i].val} ELSE {}) :
                    i \in {k \in DOMAIN code : code[k].op \in Jumps \cup Returns}}
Blocks(code) == Leaders(code) \cap DOMAIN code

(* The last instruction of the block b, and the block after it: a set of   *)
(* at most one.                                                            *)
NextBlocks(code, b) ==
  LET later == {c \in Blocks(code) : c > b} IN IF later = {} THEN {} ELSE {Min(later)}
EndOf(code, b) == Min({Len(code)} \cup {c - 1 : c \in NextBlocks(code, b)})

(* Edges <<from, to, label>>.                                              *)
EdgesOf(code, b) ==
  LET last == code[EndOf(code, b)]
      jump == {<<b, last.val, "jump">>}
      next == {<<b, c, "next">> : c \in NextBlocks(code, b)}
  IN  CASE last.op \in CondJumps -> jump \cup next
        [] last.op \in Jumps \ CondJumps -> jump
        [] last.op \in Returns \cup {"RAISE_VARARGS"} -> {}
        [] OTHER -> next

CfgEdges(code) == UNION {EdgesOf(code, b) : b \in Blocks(code)}

-----------------------------------------------------------------------------
(* The graph of all functions; Code is a function from their names to      *)
(* their instructions, <<>> for one that was not disassembled.  Its        *)
(* vertices are <<name, block>>.                                           *)

(* The instruction at i of the block b calls a function with code: its     *)
(* name, looked for in the block alone.                                    *)
CalleeInBlock(code, b, i) ==
  CallableName(SubSeq(code, b, EndOf(code, b)), i - b + 1)

(* The call edges, <<caller's block, call instruction, callee's entry>>.   *)
IcfgCalls(Code) ==
  UNION {UNION {{<<<<f, b>>, i, <<CalleeInBlock(Code[f], b, i), 1>>>> :
                   i \in {k \in CallSites(Code[f]) \cap (b .. EndOf(Code[f], b)) :
                            LET g == CalleeInBlock(Code[f], b, k)
                            IN  g \in DOMAIN Code /\ Code[g] # <<>>}} :
                b \in Blocks(Code[f])} : f \in {n \in DOMAIN Code : Code[n] # <<>>}}

(* The return edges: from the blocks of the callee that end in a return to *)
(* the block after the call, if control falls through to it.               *)
IcfgReturns(Code) ==
  UNION {LET f == c[1][1]  b == c[1][2]  g == c[3][1] IN
         {<<<<g, x>>, <<f, e[2]>>>> :
            x \in {y \in Blocks(Code[g]) : Code[g][EndOf(Code[g], y)].op \in Returns},
            e \in {d \in EdgesOf(Code[f], b) : d[3] = "next"}} : c \in IcfgCalls(Code)}

IcfgFlow(Code) ==
  UNION {{<<<<f, e[1]>>, <<f, e[2]>>>> : e \in CfgEdges(Code[f])} :
           f \in {n \in DOMAIN Code : Code[n] # <<>>}}

-----------------------------------------------------------------------------
(* What the interpreter may run after the instruction at i, exceptions     *)
(* left aside.                                                             *)
Follows(code, i) ==
  CASE code[i].op \in CondJumps \cup {"FOR_ITER"} -> {i + 1, code[i].val}
    [] code[i].op \in Jumps \ CondJumps -> {code[i].val}
    [] code[i].op \in Returns \cup {"RAISE_VARARGS", "RERAISE"} -> {}
    [] OTHER -> {i + 1}
=============================================================================
