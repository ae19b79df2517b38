------------------------------ MODULE InsnGraph ------------------------------
(***************************************************************************)
(* How the methods of a DEX file become instruction graphs: make_insn_graph*)
(* and parse_debug_info (vm_core/dex_file.cpp), add_exception_flow_edges   *)
(* (analysis/exception_flow.hpp), and the way back from a place in the     *)
(* file to an instruction, find_insn (vm_core/virtual_machine.cpp).        *)
(*                                                                         *)
(* The code of a method maps the offsets, in code units, at which something*)
(* begins to what begins there: an instruction or a payload                *)
(*     [op |-> ..., units |-> its length, to |-> a relative offset,         *)
(*      keys |-> ..., targets |-> ..., width |-> ...];                     *)
(* the length is what the format says, the code computes its own.          *)
(* The vertices of a graph are numbers: 0 is the entry, 1 .. n are the     *)
(* instructions in order, n + 1 is the exit.                               *)
(***************************************************************************)
EXTENDS Integers, Sequences, SequencesExt, FiniteSetsExt, TLC

CONSTANTS
  Files,   \* sequences of methods [codeOff, size, code, tries, debug, params]
           \* by index, all loaded; codeOff is 0 for a method without code; a try block is [start,
           \* count, handlers, list], where handlers is its signed number of
           \* handlers; debug is the bytes of its debug information
  Span     \* an instruction is looked up by 16 bits of its offset: 2^16

ASSUME SpanAssumption == Span \in Nat \ {0}

(* The lengths of the format, in code units.                               *)
Payloads == {"packed_payload", "sparse_payload", "fill_payload"}
Units(item) ==
  CASE item.op \in {"nop", "throw", "goto", "return", "unused"} -> 1
    [] item.op \in {"const", "goto_16", "if", "throw_verification_error"} -> 2
    [] item.op \in {"invoke", "fill_array_data", "packed_switch", "sparse_switch"} -> 3
    [] item.op = "const_wide" -> 5
    [] item.op = "packed_payload" -> 4 + 2 * Len(item.targets)
    [] item.op = "sparse_payload" -> 2 + 4 * Len(item.targets)
    [] item.op = "fill_payload" -> 4 + (Len(item.targets) * item.width + 1) \div 2

OpcodeNames == Payloads \cup
  {"nop", "const", "const_wide", "invoke", "fill_array_data", "throw", "goto", "goto_16", "if", "return",
   "packed_switch", "sparse_switch", "unused", "throw_verification_error"}

ASSUME FilesAssumption ==
  \A f \in Files : f \in Seq(Range(f)) /\ f # <<>> /\ \A i \in DOMAIN f :
    /\ f[i].codeOff \in Nat /\ f[i].size \in Nat /\ f[i].params \in Nat
    /\ f[i].debug \in Seq(0 .. 255) /\ DOMAIN f[i].code \subseteq 0 .. f[i].size - 1
    /\ \A o \in DOMAIN f[i].code : LET item == f[i].code[o] IN
         /\ item.op \in OpcodeNames /\ item.units = Units(item) /\ item.to \in Int
         /\ item.targets \in Seq(Int) /\ item.width \in Nat
    /\ f[i].tries \in Seq(Range(f[i].tries))
    /\ \A t \in Range(f[i].tries) :
         /\ t.start \in Nat /\ t.count \in Nat \ {0} /\ t.handlers \in Int /\ t.list \in Seq(Nat)
         /\ Len(t.list) = IF t.handlers <= 0 THEN 1 - t.handlers ELSE t.handlers

(* The code of two methods is the same or lies apart, behind its header of *)
(* 16 bytes.                                                               *)
ASSUME ApartAssumption ==
  \A f \in Files : \A i, j \in DOMAIN f : f[i].codeOff # 0 /\ f[j].codeOff # 0 =>
    \/ f[i].codeOff = f[j].codeOff /\ f[i].code = f[j].code /\ f[i].size = f[j].size
    \/ f[i].codeOff + 16 + 2 * f[i].size <= f[j].codeOff
    \/ f[j].codeOff + 16 + 2 * f[j].size <= f[i].codeOff

VARIABLES
  file,
  m,       \* the method whose graph is made
  g,       \* its graph: [offs, tries, edges, lines, flow]
  at,      \* the offset, try block, vertex or byte that comes next
  dbg,     \* the debug machine: [address, line, valid]
  graphs,  \* the graphs of the methods before m, then of all
  pc       \* "undefined" and "astray" stand for reading what is not there

vars == <<file, m, g, at, dbg, graphs, pc>>
method == file[m]

-----------------------------------------------------------------------------
(* The table of instructions: size, whether control may go on to the next  *)
(* instruction, and whether it may throw.                                  *)
Entry(size, continues, throws) == [size |-> size, continues |-> continues, throws |-> throws]
Info ==
  [nop |-> Entry(1, TRUE, FALSE),    const |-> Entry(2, TRUE, FALSE),
   const_wide |-> Entry(5, TRUE, FALSE), invoke |-> Entry(3, TRUE, TRUE),
   fill_array_data |-> Entry(3, TRUE, FALSE), throw |-> Entry(1, FALSE, TRUE),
   goto |-> Entry(1, FALSE, FALSE),  goto_16 |-> Entry(2, FALSE, FALSE),
   if |-> Entry(2, TRUE, FALSE),     return |-> Entry(1, FALSE, FALSE),
   packed_switch |-> Entry(3, TRUE, FALSE), sparse_switch |-> Entry(3, TRUE, FALSE),
   unused |-> Entry(1, FALSE, FALSE), throw_verification_error |-> Entry(2, FALSE, TRUE)]

PayloadSize(item) ==
  CASE item.op = "packed_payload" -> Len(item.targets) * 2 + 4
    [] item.op = "sparse_payload" -> Len(item.targets) * 4 + 2
    [] item.op = "fill_payload"   -> (Len(item.targets) * item.width + 1) \div 2 + 4

(* What the graph keeps of an opcode: some become a nop.                   *)
Kept(op) == IF op \in {"unused", "throw_verification_error"} THEN "nop" ELSE op

-----------------------------------------------------------------------------
Exit(gr)  == Len(gr.offs) + 1
Insns(gr) == DOMAIN gr.offs

(* The vertex of the instruction at an offset, of which 16 bits are looked *)
(* at: a set of at most one.                                               *)
Lookup(gr, off) == {v \in Insns(gr) : gr.offs[v] = off % Span}

EmptyGraph == [offs |-> <<>>, tries |-> <<>>, edges |-> {}, lines |-> <<>>, flow |-> {}]
Machine    == [address |-> 0, line |-> 0, valid |-> TRUE]

Init ==
  /\ file \in Files
  /\ m = 1 /\ g = EmptyGraph /\ at = 0 /\ dbg = Machine /\ graphs = <<>>
  /\ pc = "decode"

(* A method without code has an empty graph.                               *)
NoCode ==
  /\ pc = "decode" /\ method.codeOff = 0
  /\ pc' = "made"
  /\ UNCHANGED <<file, m, g, at, dbg, graphs>>

(* Vertices: payloads are passed over.                                     *)
InCode == pc = "decode" /\ method.codeOff # 0 /\ at < method.size

SkipPayload ==
  /\ InCode /\ at \in DOMAIN method.code /\ method.code[at].op \in Payloads
  /\ at' = at + PayloadSize(method.code[at])
  /\ UNCHANGED <<file, m, g, dbg, graphs, pc>>

AddVertex ==
  /\ InCode /\ at \in DOMAIN method.code /\ method.code[at].op \notin Payloads
  /\ g' = [g EXCEPT !.offs = Append(@, at)]
  /\ at' = at + Info[method.code[at].op].size
  /\ UNCHANGED <<file, m, dbg, graphs, pc>>

(* What is no beginning of anything is read as if it were one.             *)
AddGarbage ==
  /\ InCode /\ at \notin DOMAIN method.code
  /\ pc' = "undefined"
  /\ UNCHANGED <<file, m, g, at, dbg, graphs>>

VerticesMade ==
  /\ pc = "decode" /\ method.codeOff # 0 /\ at >= method.size
  /\ at' = 1 /\ pc' = "tries"
  /\ UNCHANGED <<file, m, g, dbg, graphs>>

-----------------------------------------------------------------------------
(* A number of handlers that is not positive says that a catch-all handler *)
(* follows the others.                                                     *)
HandlerOffs(try) ==
  LET typed == IF try.handlers <= 0 THEN -try.handlers ELSE try.handlers
  IN  SubSeq(try.list, 1, IF try.handlers <= 0 THEN typed + 1 ELSE typed)

(* Mutant: the block ends at the instruction after it.                     *)
LastOneMore(gr, try) ==
  LET end == try.start + try.count
  IN  Lookup(gr, end - Min({k \in 0 .. end : Lookup(gr, end - k) # {}}))

(* The last instruction of a try block: back from its last code unit to    *)
(* where an instruction begins.                                            *)
LastInsn(gr, try) ==
  LET end == try.start + try.count - 1
  IN  Lookup(gr, end - Min({k \in 0 .. end : Lookup(gr, end - k) # {}}))

AddTry ==
  /\ pc = "tries" /\ at <= Len(method.tries)
  /\ LET try == method.tries[at]  offs == HandlerOffs(try) IN
       IF Lookup(g, try.start) # {} /\ \A h \in DOMAIN offs : Lookup(g, offs[h]) # {}
       THEN /\ g' = [g EXCEPT !.tries = Append(@,
                       [first |-> Max(Lookup(g, try.start)), last |-> Max(LastInsn(g, try)),
                        handlers |-> {Max(Lookup(g, offs[h])) : h \in DOMAIN offs}])]
            /\ at' = at + 1 /\ UNCHANGED pc
       ELSE pc' = "error" /\ UNCHANGED <<g, at>>
  /\ UNCHANGED <<file, m, dbg, graphs>>

TriesMade ==
  /\ pc = "tries" /\ at > Len(method.tries)
  /\ g' = [g EXCEPT !.edges = {<<0, 1, "next">>}]
  /\ at' = 1 /\ pc' = "edges"
  /\ UNCHANGED <<file, m, dbg, graphs>>

-----------------------------------------------------------------------------
(* Where the instruction at off jumps to, <<offset, label>>.  A case that  *)
(* goes to the next instruction gets no edge of its own.                   *)

(* Mutant: targets of a switch are taken from the payload.                 *)
TargetsFromPayload(code, off) ==
  LET insn == code[off] IN
  CASE insn.op \in {"goto", "goto_16"} -> {<<off + insn.to, "next">>}
    [] insn.op = "if" -> {<<off + insn.to, "true">>}
    [] insn.op \in {"packed_switch", "sparse_switch"} ->
         LET table == code[off + insn.to]
         IN  {<<off + insn.to + table.targets[k], table.keys[k]>> : k \in DOMAIN table.targets}
    [] OTHER -> {}

Targets(code, off) ==
  LET insn == code[off] IN
  CASE insn.op \in {"goto", "goto_16"} -> {<<off + insn.to, "next">>}
    [] insn.op = "if" -> {<<off + insn.to, "true">>}
    [] insn.op \in {"packed_switch", "sparse_switch"} ->
         LET table == code[off + insn.to]
         IN  {<<off + table.targets[k], table.keys[k]>> :
                k \in {c \in DOMAIN table.targets : table.targets[c] # Info[insn.op].size}}
    [] OTHER -> {}

AddEdges ==
  /\ pc = "edges" /\ at \in Insns(g)
  /\ LET op   == method.code[g.offs[at]].op
         jumps == Targets(method.code, g.offs[at])
         next == IF Info[op].continues THEN {<<at, at + 1, "next">>} ELSE {}
         exit == IF op = "return" THEN {<<at, Exit(g), "next">>} ELSE {}
     IN  IF \A t \in jumps : Lookup(g, t[1]) # {}
         THEN /\ g' = [g EXCEPT !.edges = @ \cup next \cup exit
                         \cup {<<at, Max(Lookup(g, t[1])), t[2]>> : t \in jumps}]
              /\ at' = at + 1 /\ UNCHANGED pc
         ELSE pc' = "undefined" /\ UNCHANGED <<g, at>>   \* no vertex: *target_v
  /\ UNCHANGED <<file, m, dbg, graphs>>

EdgesMade ==
  /\ pc = "edges" /\ at \notin Insns(g)
  /\ pc' = IF method.debug = <<>> THEN "made" ELSE "debug"
  /\ at' = 1
  /\ UNCHANGED <<file, m, g, dbg, graphs>>

-----------------------------------------------------------------------------
(* The debug information.                                                  *)

(* The LEB128 number at i: its value and what comes after it; none if it   *)
(* goes on beyond the end.                                                 *)
Leb(bytes, i) ==
  LET ends == {k \in i .. Len(bytes) : bytes[k] < 128} IN
  IF ends = {} THEN {}
  ELSE {[val  |-> FoldRight(LAMBDA b, v : (b % 128) + 128 * v, SubSeq(bytes, i, Min(ends)), 0),
         next |-> Min(ends) + 1]}
SignedLeb(bytes, i) ==
  {[val  |-> IF bytes[n.next - 1] < 64 THEN n.val ELSE n.val - 128 ^ (n.next - i),
    next |-> n.next] : n \in Leb(bytes, i)}

(* The place after n numbers.                                              *)
After(bytes, i, n) ==
  LET place[k \in Nat] == IF k = 0 THEN {i} ELSE {l.next : l \in UNION {Leb(bytes, p) : p \in place[k - 1]}}
  IN  place[n]

(* The line to start from and the names of the parameters, which are read  *)
(* only if there are as many as the method has parameters.                 *)
Header(bytes, params) ==
  UNION {UNION {{[line |-> line.val, next |-> next] :
                   next \in IF names.val = params THEN After(bytes, names.next, names.val)
                            ELSE {names.next}} :
                names \in Leb(bytes, line.next)} : line \in Leb(bytes, 1)}

BeginDebug ==
  /\ pc = "debug" /\ at = 1
  /\ \E h \in Header(method.debug, method.params) :
       dbg' = [Machine EXCEPT !.line = h.line % Span] /\ at' = h.next
  /\ UNCHANGED <<file, m, g, graphs, pc>>

Op == method.debug[at]
InDebug == pc = "debug" /\ at \in 2 .. Len(method.debug)

(* The line of the instruction at an address, if there is one.             *)
Marked(gr, address, line) ==
  LET here == Lookup(gr, address)
  IN  [v \in here \cup DOMAIN gr.lines |-> IF v \in here THEN line ELSE gr.lines[v]]

(* Mutant: the line is kept where the position before was.                 *)
SpecialLate ==
  LET adjusted == Op - 10
      line     == (dbg.line + (adjusted % 15) - 4) % Span
      address  == (dbg.address + adjusted \div 15) % Span
  IN  /\ InDebug /\ Op >= 10
      /\ dbg' = [dbg EXCEPT !.line = line, !.address = address]
      /\ g' = [g EXCEPT !.lines = IF dbg.valid THEN Marked(g, dbg.address, line) ELSE @]
      /\ at' = at + 1
      /\ UNCHANGED <<file, m, graphs, pc>>

(* A special opcode moves both registers and gives the instruction at the  *)
(* address its line.                                                       *)
Special ==
  LET adjusted == Op - 10
      line     == (dbg.line + (adjusted % 15) - 4) % Span
      address  == (dbg.address + adjusted \div 15) % Span
  IN  /\ InDebug /\ Op >= 10
      /\ dbg' = [dbg EXCEPT !.line = line, !.address = address]
      /\ g' = [g EXCEPT !.lines = IF dbg.valid THEN Marked(g, address, line) ELSE @]
      /\ at' = at + 1
      /\ UNCHANGED <<file, m, graphs, pc>>

AdvancePc ==
  /\ InDebug /\ Op = 1
  /\ \E n \in Leb(method.debug, at + 1) :
       at' = n.next /\ dbg' = [dbg EXCEPT !.address = (@ + n.val) % Span]
  /\ UNCHANGED <<file, m, g, graphs, pc>>

AdvanceLine ==
  /\ InDebug /\ Op = 2
  /\ \E n \in SignedLeb(method.debug, at + 1) :
       at' = n.next /\ dbg' = [dbg EXCEPT !.line = (@ + n.val) % Span]
  /\ UNCHANGED <<file, m, g, graphs, pc>>

(* The opcodes of local variables, of the prologue, the epilogue and the   *)
(* source file: none reads its operands.                                   *)
OtherOp ==
  /\ InDebug /\ Op \in 3 .. 9
  /\ at' = at + 1
  /\ dbg' = IF Op = 9 THEN [dbg EXCEPT !.valid = FALSE] ELSE dbg
  /\ UNCHANGED <<file, m, g, graphs, pc>>

EndDebug ==
  /\ InDebug /\ Op = 0
  /\ pc' = "made"
  /\ UNCHANGED <<file, m, g, at, dbg, graphs>>

(* A number that does not end, or no end of the sequence: the machine goes *)
(* on with what follows in the file.                                       *)
ReadOn ==
  /\ pc = "debug"
  /\ \/ at = 1 /\ Header(method.debug, method.params) = {}
     \/ at > Len(method.debug)
     \/ InDebug /\ Op \in {1, 2} /\ Leb(method.debug, at + 1) = {}
  /\ pc' = "astray"
  /\ UNCHANGED <<file, m, g, at, dbg, graphs>>

-----------------------------------------------------------------------------
NextMethod ==
  /\ pc = "made"
  /\ graphs' = Append(graphs, g)
  /\ g' = EmptyGraph /\ at' = 0 /\ dbg' = Machine
  /\ IF m < Len(file) THEN m' = m + 1 /\ pc' = "decode" ELSE m' = 1 /\ pc' = "flow"
  /\ UNCHANGED file

(* The exception edges of a method: from what may throw in a try block to  *)
(* its handlers, and from whatever may throw to the exit, in place of those *)
(* that are there.                                                         *)
Throws(i, v) == Info[Kept(file[i].code[graphs[i].offs[v]].op)].throws
AddExceptionFlow ==
  /\ pc = "flow"
  /\ LET gr == graphs[m]
         handled == UNION {{v \in t.first .. t.last : Throws(m, v)} \X t.handlers : t \in Range(gr.tries)}
     IN  graphs' = [graphs EXCEPT ![m].flow =
                      handled \cup ({v \in Insns(gr) : Throws(m, v)} \X {Exit(gr)})]
  /\ IF m < Len(file) THEN m' = m + 1 /\ UNCHANGED pc ELSE pc' = "done" /\ UNCHANGED m
  /\ UNCHANGED <<file, g, at, dbg>>

Next ==
  \/ NoCode \/ SkipPayload \/ AddVertex \/ AddGarbage \/ VerticesMade
  \/ AddTry \/ TriesMade \/ AddEdges \/ EdgesMade
  \/ BeginDebug \/ Special \/ AdvancePc \/ AdvanceLine \/ OtherOp \/ EndDebug \/ ReadOn
  \/ NextMethod \/ AddExceptionFlow

Spec == Init /\ [][Next]_vars

-----------------------------------------------------------------------------
(* From a place in the file to an instruction: the method whose code       *)
(* begins last before it, the last such method if several have that code,  *)
(* and the instruction there.                                              *)
HeaderSize == 16
MethodAt(b) ==
  LET before == {i \in DOMAIN file : file[i].codeOff # 0 /\ file[i].codeOff <= b}
      found  == {i \in before : \A j \in before : file[j].codeOff <= file[i].codeOff}
  IN  {i \in found : \A j \in found : j <= i}

(* Mutant: the header of the code is not taken off.                        *)
FindInsnRaw(b) ==
  UNION {{<<i, v>> : v \in Lookup(graphs[i], (b - file[i].codeOff) \div 2)} : i \in MethodAt(b)}

FindInsn(b) ==
  UNION {LET off == (b - file[i].codeOff - HeaderSize) \div 2
         IN  IF b >= file[i].codeOff + HeaderSize /\ off < file[i].size
             THEN {<<i, v>> : v \in Lookup(graphs[i], off)} ELSE {} :
           i \in MethodAt(b)}

-----------------------------------------------------------------------------
(* What the format says.                                                   *)

SwitchOps == {"packed_switch", "sparse_switch"}
Instructions(mth) == {o \in DOMAIN mth.code : mth.code[o].op \notin Payloads}

(* Where the instruction at o jumps to, and what may come after it; EndOf  *)
(* is the return.                                                          *)
EndOf(mth) == mth.size
Branches(mth, o) ==
  LET insn == mth.code[o] IN
  CASE insn.op \in {"goto", "goto_16", "if"} -> {o + insn.to}
    [] insn.op \in SwitchOps -> {o + t : t \in Range(mth.code[o + insn.to].targets)}
    [] insn.op = "return" -> {EndOf(mth)}
    [] OTHER -> {}
Follows(mth, o) ==
  Branches(mth, o) \cup
    (IF mth.code[o].op \in {"goto", "goto_16", "return", "throw", "throw_verification_error", "unused"}
     THEN {} ELSE {o + mth.code[o].units})

(* The instructions control may come to, if it stays in the code.          *)
Starts(mth) == {0} \cup UNION {Range(t.list) : t \in Range(mth.tries)}
Reachable(mth) ==
  LET step(O) == O \cup ((UNION {Follows(mth, o) : o \in O}) \cap Instructions(mth))
      within[k \in Nat] == IF k = 0 THEN Starts(mth) \cap Instructions(mth) ELSE step(within[k - 1])
  IN  within[Cardinality(DOMAIN mth.code)]

(* A row of instructions and payloads that 16 bits can address; jumps,     *)
(* switches and try blocks lead to instructions, and control does not run  *)
(* into a payload or over the end.                                         *)
LaidInRow(mth) ==
  \A o \in DOMAIN mth.code : LET end == o + mth.code[o].units IN
    end \in (DOMAIN mth.code) \cup {mth.size} /\ \A q \in DOMAIN mth.code : o < q => end <= q
Legal(mth) ==
  LET insns == Instructions(mth) IN
  /\ mth.size <= Span /\ LaidInRow(mth) /\ Starts(mth) \subseteq insns
  /\ \A o \in insns : LET insn == mth.code[o] IN
       /\ insn.op \in SwitchOps => o + insn.to \in DOMAIN mth.code \ insns
       /\ Branches(mth, o) \subseteq insns \cup (IF insn.op = "return" THEN {EndOf(mth)} ELSE {})
  /\ \A o \in Reachable(mth) : Follows(mth, o) \subseteq insns \cup {EndOf(mth)}
  /\ \A o \in Reachable(mth) : mth.code[o].op = "return" \/ EndOf(mth) \notin Follows(mth, o)
  /\ \A t \in Range(mth.tries) : t.start + t.count <= mth.size

(* The debug machine that reads all operands: its state after k opcodes.   *)
Unread == {3, 4, 5, 6, 9}
Operands(op) == CASE op = 3 -> 3 [] op = 4 -> 4 [] op \in {1, 2, 5, 6, 9} -> 1 [] OTHER -> 0
Positions(mth) ==
  LET bytes == mth.debug
      step(d, next) ==
        LET op      == bytes[d.at]
            special == [line |-> d.line + ((op - 10) % 15) - 4, address |-> d.address + ((op - 10) \div 15)]
            val(n)  == CHOOSE v \in {l.val : l \in n} : TRUE
        IN  CASE op = 0 -> d
              [] op = 1 -> [d EXCEPT !.at = next, !.address = @ + val(Leb(bytes, d.at + 1))]
              [] op = 2 -> [d EXCEPT !.at = next, !.line = @ + val(SignedLeb(bytes, d.at + 1))]
              [] op \in 3 .. 9 -> [d EXCEPT !.at = next, !.plain = @ /\ op \notin Unread]
              [] OTHER -> [d EXCEPT !.at = next, !.line = special.line, !.address = special.address,
                                    !.rows = [a \in DOMAIN @ \cup {special.address} |->
                                                IF a = special.address THEN special.line ELSE @[a]]]
      after[k \in Nat] ==
        IF k = 0
        THEN {[at |-> h.next, address |-> 0, line |-> h.line, plain |-> TRUE, rows |-> <<>>] :
                h \in Header(bytes, mth.params)}
        ELSE UNION {{step(d, next) : next \in After(bytes, d.at + 1, Operands(bytes[d.at]))} :
                      d \in {e \in after[k - 1] : e.at <= Len(bytes)}}
  IN  UNION {after[k] : k \in 0 .. Len(bytes)}

-----------------------------------------------------------------------------
(* The shape of a graph, of its try blocks and of its edges.               *)
GraphShape(gr) ==
  /\ \A v, w \in Insns(gr) : v < w => gr.offs[v] < gr.offs[w]
  /\ \A t \in Range(gr.tries) : {t.first, t.last} \cup t.handlers \subseteq Insns(gr)
  /\ \A e \in gr.edges : {e[1], e[2]} \subseteq 0 .. Exit(gr)
  /\ gr.flow \subseteq Insns(gr) \X (1 .. Exit(gr)) /\ DOMAIN gr.lines \subseteq Insns(gr)

(* However payloads lie between the instructions, whatever can be reached  *)
(* in a legal method is a vertex whose edges lead where the format says,   *)
(* each case of a switch under its key, and nothing else is read.          *)
GraphFaithful ==
  LET known == {i \in DOMAIN graphs : Legal(file[i]) /\ file[i].codeOff # 0} IN
  /\ pc = "undefined" => ~ Legal(method)
  /\ \A i \in DOMAIN graphs : GraphShape(graphs[i])
  /\ \A i \in known : LET gr == graphs[i]  mth == file[i] IN
       /\ {e \in gr.edges : e[1] = 0} = {<<0, 1, "next">>}
       /\ Reachable(mth) \subseteq Range(gr.offs)
       /\ \A v \in {w \in Insns(gr) : gr.offs[w] \in Reachable(mth)} :
            /\ {IF e[2] = Exit(gr) THEN EndOf(mth) ELSE gr.offs[e[2]] : e \in {d \in gr.edges : d[1] = v}}
                 = Follows(mth, gr.offs[v])
            /\ mth.code[gr.offs[v]].op \in SwitchOps =>
                 LET table == mth.code[gr.offs[v] + mth.code[gr.offs[v]].to] IN
                 \A k \in DOMAIN table.targets : \E e \in gr.edges :
                   /\ e[1] = v /\ gr.offs[e[2]] = gr.offs[v] + table.targets[k]
                   /\ e[3] = table.keys[k] \/ e[2] = v + 1

(* The exception edges are those of the try blocks, which are given by     *)
(* offsets that may end in the middle of an instruction: an instruction    *)
(* has an edge to each handler of the blocks it begins in, and to the exit.*)
HandlersFaithful ==
  pc = "done" =>
    \A i \in {j \in DOMAIN file : Legal(file[j])} : LET gr == graphs[i]  mth == file[i] IN
      \A v \in Insns(gr) :
        LET covering == {t \in Range(mth.tries) : gr.offs[v] \in t.start .. t.start + t.count - 1}
            to == {IF w = Exit(gr) THEN EndOf(mth) ELSE gr.offs[w] : w \in {x \in 1 .. Exit(gr) : <<v, x>> \in gr.flow}}
        IN  to = IF mth.code[gr.offs[v]].op \in {"invoke", "throw"}
                 THEN {EndOf(mth)} \cup UNION {Range(t.list) : t \in covering} ELSE {}

(* As long as the debug machine has met no opcode whose operands it leaves *)
(* unread, its registers and the lines of the instructions are those of    *)
(* the format.                                                             *)
LinesFaithful ==
  pc \in {"debug", "made"} /\ at > 1 /\ method.debug # <<>> /\ Legal(method)
    /\ (\E line \in Leb(method.debug, 1) : \E n \in Leb(method.debug, line.next) : n.val = method.params) =>
    LET here == {d \in Positions(method) : d.at = at} IN
    /\ here = {} => \E d \in Positions(method) : ~ d.plain
    /\ \A d \in here : d.plain =>
         /\ dbg.address = d.address /\ dbg.line = d.line
         /\ \A v \in Insns(g) :
              IF g.offs[v] \in DOMAIN d.rows THEN v \in DOMAIN g.lines /\ g.lines[v] = d.rows[g.offs[v]]
              ELSE v \notin DOMAIN g.lines

(* find_insn leads to an instruction exactly from the two bytes of its     *)
(* first code unit, whatever methods lie around it; to one of those that   *)
(* share it if several methods have the same code.                         *)
InsnFound ==
  pc = "done" /\ (\A i \in DOMAIN file : file[i].codeOff # 0 => Legal(file[i])) =>
    \A b \in 0 .. Max({file[i].codeOff + 2 * file[i].size : i \in DOMAIN file}) + 2 * HeaderSize :
      LET there == UNION {{<<i, v>> : v \in {w \in Insns(graphs[i]) :
                             b - file[i].codeOff - HeaderSize \in {2 * graphs[i].offs[w], 2 * graphs[i].offs[w] + 1}}} :
                          i \in DOMAIN file}
      IN  FindInsn(b) \subseteq there /\ Cardinality(FindInsn(b)) = (IF there = {} THEN 0 ELSE 1)
=============================================================================
