----------------------------- MODULE PyBytecode -----------------------------
(***************************************************************************)
(* How jitana-python (tools/jitana-python/main.cpp) finds out what a call  *)
(* instruction of Python bytecode calls.  The code of a function is a      *)
(* sequence of instructions                                                *)
(*     [op |-> opname, arg |-> its argument, val |-> its argval]           *)
(* where argval is a part of a name or, in a jump, the place it jumps to.  *)
(* The name of a callable is the sequence of its parts, <<"os", "path">>.  *)
(*                                                                         *)
(* The tool walks backwards from the call and counts stack items with a    *)
(* table of stack effects; it does not look at jumps on the way.           *)
(***************************************************************************)
EXTENDS Integers, Sequences, SequencesExt, FiniteSetsExt, TLC

CONSTANT MaxDepth   \* how far back from the call's predecessor the walk goes (20 in the code)

ASSUME MaxDepthAssumption == MaxDepth \in Nat

-----------------------------------------------------------------------------
(* Classes of opcodes, by what the tool looks for in the opname.           *)

Calls      == {"CALL", "CALL_FUNCTION_EX", "CALL_INTRINSIC_1"}
CondJumps  == {"POP_JUMP_IF_FALSE", "POP_JUMP_IF_TRUE", "POP_JUMP_IF_NONE", "POP_JUMP_IF_NOT_NONE"}
Jumps      == CondJumps \cup {"JUMP_FORWARD", "JUMP_BACKWARD"}
Returns    == {"RETURN_VALUE", "RETURN_CONST"}
BaseLoads  == {"LOAD_GLOBAL", "LOAD_FAST", "LOAD_DEREF"}
AttrLoads  == {"LOAD_ATTR", "LOAD_METHOD"}

(* What the last instruction of a function is: no way leads past it.       *)
Ends       == (Jumps \ CondJumps) \cup Returns \cup {"RAISE_VARARGS", "RERAISE"}

(* What an instruction takes from the stack and what it leaves there.      *)
StackEffect(insn) ==
  CASE insn.op \in {"LOAD_CONST", "LOAD_NAME", "LOAD_GLOBAL", "LOAD_FAST", "LOAD_DEREF",
                    "LOAD_CLOSURE", "COPY", "PUSH_NULL"} -> <<0, 1>>
    [] insn.op = "LOAD_FAST_LOAD_FAST" -> <<0, 2>>
    [] insn.op \in {"LOAD_ATTR", "LOAD_METHOD", "UNARY_NEGATIVE", "UNARY_NOT", "UNARY_INVERT",
                    "GET_ITER", "GET_YIELD_FROM_ITER"} -> <<1, 1>>
    [] insn.op \in {"STORE_FAST", "STORE_GLOBAL", "STORE_NAME", "STORE_DEREF", "DELETE_FAST",
                    "POP_TOP", "RETURN_VALUE", "YIELD_VALUE", "POP_JUMP_IF_FALSE",
                    "POP_JUMP_IF_TRUE"} -> <<1, 0>>
    [] insn.op \in {"STORE_ATTR", "DELETE_ATTR", "DELETE_SUBSCR"} -> <<2, 0>>
    [] insn.op \in {"CONTAINS_OP", "IS_OP", "COMPARE_OP", "LIST_EXTEND", "SET_ADD", "DICT_UPDATE",
                    "BINARY_OP", "BINARY_SUBSCR", "BINARY_SLICE"} -> <<2, 1>>
    [] insn.op = "STORE_SUBSCR" -> <<3, 0>>
    [] insn.op = "LOAD_SUPER_ATTR" -> <<3, 1>>
    [] insn.op = "FOR_ITER" -> <<1, 2>>
    [] insn.op \in {"BUILD_TUPLE", "BUILD_LIST", "BUILD_SET", "BUILD_STRING"} -> <<insn.arg, 1>>
    [] insn.op = "BUILD_MAP" -> <<2 * insn.arg, 1>>
    [] insn.op = "BUILD_CONST_KEY_MAP" -> <<insn.arg + 1, 1>>
    [] insn.op = "BUILD_SLICE" -> <<IF insn.arg = 3 THEN 3 ELSE 2, 1>>
    [] insn.op = "FORMAT_VALUE" -> <<IF (insn.arg \div 4) % 2 = 1 THEN 2 ELSE 1, 1>>
    [] insn.op \in {"UNPACK_SEQUENCE", "UNPACK_EX"} -> <<1, insn.arg>>
    [] insn.op = "CALL" -> <<insn.arg + 1, 1>>
    [] insn.op = "CALL_FUNCTION_EX" -> <<IF insn.arg % 2 = 1 THEN 3 ELSE 2, 1>>
    [] OTHER -> <<0, 0>>

-----------------------------------------------------------------------------
NullPart == "<null_for_method_call>"

(* The name of the item below k others before the instruction after i;     *)
(* back are the names before the instruction at i.                         *)
NameBefore(code, from, i, k, back) ==
  IF i \notin DOMAIN code \/ from - i > MaxDepth THEN <<>>
  ELSE LET insn   == code[i]
           effect == StackEffect(insn)
       IN  CASE k >= effect[2] -> back[k - effect[2] + effect[1]]
             [] k < effect[2] /\ insn.op \in BaseLoads \cup {"LOAD_CONST"} -> <<insn.val>>
             [] k < effect[2] /\ insn.op \in AttrLoads ->
                  IF back[k] = <<>> THEN <<>> ELSE Append(back[k], insn.val)
             [] k = 0 /\ insn.op = "PUSH_NULL" -> <<NullPart>>
             [] OTHER -> <<>>

(* The name of what is on the stack, below `covered' other items, before   *)
(* the instruction after `from'; <<>> if the walk does not find it.        *)
FindLoader(code, from, covered) ==
  LET name[i \in Int] == [k \in Nat |-> NameBefore(code, from, i, k, name[i - 1])]
  IN  name[from][covered]

(* Mutant: the NULL below a callable is counted with the arguments.        *)
AboveNull(insn) == insn.arg + 1

(* The items of a call that are above its callable.                        *)
AboveCallable(insn) ==
  IF insn.op = "CALL_FUNCTION_EX" THEN 1 + (insn.arg % 2) ELSE insn.arg

(* The name of what the instruction at i calls, or <<>>.                   *)
CallableName(code, i) ==
  IF i \in 2 .. Len(code) /\ code[i].op \in {"CALL", "CALL_FUNCTION_EX"}
  THEN FindLoader(code, i - 1, AboveCallable(code[i])) ELSE <<>>

CallSites(code) == {i \in DOMAIN code : code[i].op \in Calls}

-----------------------------------------------------------------------------
(* What the interpreter does with its stack: the values are names, or      *)
(* Unnamed, and the last is the top.  A call finds its callable above NULL *)
(* or a method above its object (one item here), below the arguments.      *)

Unnamed == <<>>
Null    == <<NullPart>>
Drop(stack, n) == SubSeq(stack, 1, Len(stack) - n)

Run(insn, stack) ==
  LET top == Last(stack) IN
  CASE insn.op = "LOAD_GLOBAL" ->
         stack \o (IF insn.arg % 2 = 1 THEN <<Null>> ELSE <<>>) \o <<<<insn.val>>>>
    [] insn.op \in {"LOAD_FAST", "LOAD_DEREF", "LOAD_CONST"} -> Append(stack, <<insn.val>>)
    [] insn.op = "PUSH_NULL" -> Append(stack, Null)
    [] insn.op = "LOAD_ATTR" ->
         Drop(stack, 1) \o (IF insn.arg % 2 = 1 THEN <<Null>> ELSE <<>>)
           \o <<IF top = Unnamed THEN Unnamed ELSE Append(top, insn.val)>>
    [] insn.op = "CALL" -> Append(Drop(stack, insn.arg + 2), Unnamed)
    [] insn.op = "CALL_FUNCTION_EX" -> Append(Drop(stack, 3 + (insn.arg % 2)), Unnamed)
    [] insn.op \in {"BUILD_LIST", "BUILD_TUPLE"} -> Append(Drop(stack, insn.arg), Unnamed)
    [] insn.op = "BINARY_OP" -> Append(Drop(stack, 2), Unnamed)
    [] insn.op = "POP_TOP" -> Drop(stack, 1)
    [] OTHER -> stack

(* The callable of the call at i, if the code before i is run in order.    *)
Called(code, i) ==
  LET stack == FoldLeft(LAMBDA s, insn : Run(insn, s), <<>>, SubSeq(code, 1, i - 1))
        args  == IF code[i].op = "CALL" THEN code[i].arg ELSE 1 + (code[i].arg % 2)
  IN  stack[Len(stack) - args]

(* Nothing before the call at i jumps or ends the function.                *)
StraightTo(code, i) ==
  \A k \in 1 .. i - 1 : code[k].op \notin Jumps \cup Returns \cup {"FOR_ITER", "RAISE_VARARGS"}
=============================================================================
