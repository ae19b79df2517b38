------------------------------ MODULE MCDefUse ------------------------------
(***************************************************************************)
(* DefUse on every method of three instructions over two registers.        *)
(***************************************************************************)
EXTENDS DefUse

CONSTANTS x, y, result

MCRegister == {x, y, result}

(* 0 is ENTRY, which defines the parameter x; 1, 2 and 3 are the           *)
(* instructions; 4 is EXIT.                                                *)
MCNode == 0 .. 4
Local == {x, y}

Plain(d, u) == [defs |-> d, uses |-> u, next |-> TRUE, target |-> {}]
Goto(t)     == [defs |-> {}, uses |-> {}, next |-> FALSE, target |-> {t}]
If(r, t)    == [defs |-> {}, uses |-> {r}, next |-> TRUE, target |-> {t}]
Switch(r, ts) == [defs |-> {}, uses |-> {r}, next |-> TRUE, target |-> ts]
Return(r)   == [defs |-> {result}, uses |-> {r}, next |-> FALSE, target |-> {4}]

Jumps == {Goto(t) : t \in 1 .. 3}
Any ==
  {Plain({r}, {}) : r \in Local} \cup {Plain({r}, {s}) : r, s \in Local} \cup Jumps
  \cup {If(x, t) : t \in 1 .. 3} \cup {Switch(x, {1, 3}), Return(y)}
Last == Jumps \cup {Return(r) : r \in Local}

Code == Any \X Any \X Last

MethodOf(c) ==
  [node |-> MCNode,
   edge |-> {<<0, 1>>} \cup
            UNION {({v} \X c[v].target) \cup (IF c[v].next THEN {<<v, v + 1>>} ELSE {}) :
                     v \in 1 .. 3},
   defs |-> [v \in MCNode |-> IF v = 0 THEN {x} ELSE IF v = 4 THEN {} ELSE c[v].defs],
   uses |-> [v \in MCNode |-> IF v = 0 THEN {} ELSE IF v = 4 THEN {result} ELSE c[v].uses]]

MCMethods == {MethodOf(c) : c \in Code}

(* The loop ends although a changed instruction queues its successors.     *)
Terminates == <>(pc = "done")
=============================================================================
