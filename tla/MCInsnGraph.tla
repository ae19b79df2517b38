----------------------------- MODULE MCInsnGraph -----------------------------
(***************************************************************************)
(* InsnGraph on small files.  A method is written as a sequence of items   *)
(* that name each other by their place; Laid gives them offsets.           *)
(***************************************************************************)
EXTENDS ExplodedGraph

Item(op, units, to, targets, width) ==
  [op |-> op, units |-> units, to |-> to, targets |-> targets, width |-> width,
   keys |-> [k \in DOMAIN targets |-> ToString(k - 3)],
   dest |-> IF op \in {"const", "const_wide"} THEN {0} ELSE {},
   args |-> <<>>, range |-> FALSE, callees |-> {}]
Plain(op, units) == Item(op, units, 0, <<>>, 1)
Const     == Plain("const", 2)
Wide      == Plain("const_wide", 5)
Invoke    == Plain("invoke", 3)
Throw     == Plain("throw", 1)
Return    == Plain("return", 1)
Nop       == Plain("nop", 1)
Unused    == Plain("unused", 1)
Verify    == Plain("throw_verification_error", 2)
If(k)     == Item("if", 2, k, <<>>, 1)
Goto(k)   == Item("goto", 1, k, <<>>, 1)
Goto16(k) == Item("goto_16", 2, k, <<>>, 1)
Switch(kind, k) == Item(kind \o "_switch", 3, k, <<>>, 1)
Table(kind, ts) ==
  Item(kind \o "_payload", IF kind = "packed" THEN 2 * Len(ts) + 4 ELSE 4 * Len(ts) + 2, 0, ts, 1)
Fill(k)   == Item("fill_array_data", 3, k, <<>>, 1)
Data(n, w) == Item("fill_payload", 4 + ((n * w) + ((n * w) % 2)) \div 2, 0, [k \in 1 .. n |-> 0], w)

(* A payload begins at an even offset, after a nop where one is needed.    *)
Placed(items) ==
  LET offs[i \in 1 .. Len(items) + 1] ==
        IF i = 1 THEN 0
        ELSE LET end == offs[i - 1] + items[i - 1].units
             IN  IF i <= Len(items) /\ items[i].op \in Payloads THEN end + (end % 2) ELSE end
  IN  offs
Laid(items) ==
  LET offs   == Placed(items)
      owner(i) == CHOOSE s \in DOMAIN items : items[s].to = i
      rel(i) == [items[i] EXCEPT
                   !.to = IF @ = 0 THEN 0 ELSE offs[@] - offs[i],
                   !.targets = IF items[i].op = "fill_payload" THEN @
                               ELSE [k \in DOMAIN @ |-> offs[@[k]] - offs[owner(i)]]]
      pads   == {offs[i] - 1 : i \in {j \in DOMAIN items \ {1} : offs[j] # offs[j - 1] + items[j - 1].units}}
  IN  [codeOff |-> HeaderSize, size |-> offs[Len(items) + 1], tries |-> <<>>, debug |-> <<>>, params |-> 1,
       regs |-> 2, ins |-> 1,
       code |-> [o \in pads |-> Nop]
                  @@ [o \in {offs[i] : i \in DOMAIN items} |-> rel(CHOOSE i \in DOMAIN items : offs[i] = o)]]

-----------------------------------------------------------------------------
Simple == {Const, Wide, Invoke, Throw, Nop, Unused, Verify}
Kinds  == {"packed", "sparse"}
Rows   == {<<x, y, Return>> : x, y \in Simple}
Jumps  ==
  {<<If(i), x, Goto(j), y, Return>> : i \in 1 .. 5, j \in 2 .. 5, x, y \in {Const, Invoke, Throw}}
  \cup {<<x, If(4), Goto16(i), Return>> : i \in 1 .. 4, x \in Simple}
Switches ==
  {<<Switch(k, 5), x, Wide, Return, Table(k, ts)>> :
     k \in Kinds, x \in {Const, Nop, Goto(1)}, ts \in UNION {[1 .. n -> 1 .. 4] : n \in 0 .. 2}}
  \cup {<<Goto(3), Table(k, ts), Switch(k, 2), x, Return>> :
          k \in Kinds, x \in {Const, Nop}, ts \in UNION {[1 .. n -> 3 .. 5] : n \in 0 .. 3}}
Arrays ==
  {<<Fill(4), x, Return, Data(n, w)>> : x \in {Const, Nop}, n \in 0 .. 3, w \in {1, 2, 4, 8}}
  \cup {<<Fill(3), Goto(4), Data(n, w), x, Return>> : x \in {Const, Nop}, n \in 0 .. 3, w \in {1, 2, 4, 8}}
Bodies == {Laid(items) : items \in Rows \cup Jumps \cup Switches \cup Arrays}

(* Code whose jump leads to no instruction, code with a hole, and code     *)
(* longer than 16 bits can address.                                        *)
Gap(mth, o) == [mth EXCEPT !.code = [q \in DOMAIN @ \ {o} |-> @[q]]]
Odd == {Gap(Laid(<<Const, Const, Return>>), 2), Gap(Laid(<<Goto(3), Const, Return>>), 3),
        Laid(<<Fill(3), Goto(4), Data(3, 8), Const, Data(15, 8), Nop, Return>>),
        Laid(<<Const, Goto(5), Fill(4), Data(18, 8), If(1), Invoke, Return>>)}

-----------------------------------------------------------------------------
(* Try blocks around one or two items, which may end before the last code  *)
(* unit of the last of them.                                               *)
Guarded == <<Invoke, Goto(4), Data(1, 4), Wide, Throw, Const, Invoke, Return>>
Block(from, to, cut, n, list) ==
  LET offs == Placed(Guarded)
  IN  [start |-> offs[from], count |-> offs[to] + Guarded[to].units - offs[from] - cut,
       handlers |-> n, list |-> [k \in DOMAIN list |-> offs[list[k]]]]
Blocks ==
  {Block(from, to, cut, n.count, n.list) :
     from \in {1, 4, 5}, to \in {5, 7}, cut \in {0, 2},
     n \in {[count |-> 1, list |-> <<6>>], [count |-> 0, list |-> <<8>>],
            [count |-> -1, list |-> <<6, 7>>], [count |-> 2, list |-> <<7, 8>>]}}
  \cup {Block(1, to, cut, 1, <<6>>) : to \in 1 .. 4, cut \in 0 .. 2}
NotEmpty == {t \in Blocks : t.count > 0}
Protected ==
  {[Laid(Guarded) EXCEPT !.tries = ts] :
     ts \in {<<t>> : t \in NotEmpty}
            \cup {<<Block(1, 3, cut, 1, <<6>>), t>> : cut \in 0 .. 1, t \in {u \in NotEmpty : u.start > 5}}
            \cup {<<[Block(1, 1, 0, 1, <<6>>) EXCEPT !.list = <<off>>]>> : off \in {1, 4}}}

-----------------------------------------------------------------------------
(* Debug information.                                                      *)
Opcodes ==
  {<<14>>, <<46>>, <<55>>, <<1, 2>>, <<1, 131, 0>>, <<2, 5>>, <<2, 126>>, <<2, 255, 127>>, <<7>>, <<8>>,
   <<3, 1, 2, 3>>, <<4, 1, 2, 3, 4>>, <<5, 0>>, <<6, 14>>, <<9, 1>>}
Headers == {<<30, 1, 0>>, <<158, 0, 1, 130, 1>>, <<40, 0>>}
Debugs ==
  {h \o <<0>> : h \in Headers}
  \cup {<<30, 1, 0>> \o a \o b \o c \o <<0>> : a, b, c \in Opcodes}
  \cup {h \o a \o b \o <<0>> : h \in Headers, a, b \in Opcodes}
  \cup {<<133>>, <<5, 1>>, <<5, 0>>, <<30, 1, 0, 14, 1, 129>>, <<30, 1, 0, 2, 255>>}
Debugged == {[Laid(<<Const, Invoke, Const, Return>>) EXCEPT !.debug = d] : d \in Debugs}

-----------------------------------------------------------------------------
(* Files of two methods, with a gap between them (the try blocks of the    *)
(* first), with the same code, or without code.                            *)
First   == {Laid(<<Const, Return>>), Laid(<<Fill(3), Return, Data(1, 1)>>), [Laid(<<Return>>) EXCEPT !.codeOff = 0]}
Second  == {Laid(<<Invoke, Throw>>), Laid(<<If(2), Return>>), [Laid(<<Return>>) EXCEPT !.codeOff = 0]}
After2(a, b, gap) ==
  IF b.codeOff = 0 THEN b ELSE [b EXCEPT !.codeOff = HeaderSize + a.codeOff + 2 * a.size + gap]
Pairs ==
  {<<a, After2(a, b, gap)>> : a \in First, b \in Second, gap \in {0, 2, 12}}
  \cup {<<a, a>> : a \in First} \cup {<<After2(a, b, 4), a>> : a \in First, b \in Second}

-----------------------------------------------------------------------------
(* Methods that call each other, themselves and a method without code.     *)
Call(args, range, callees) == [Invoke EXCEPT !.args = args, !.range = range, !.callees = callees]
Registers(items, regs, ins) == [Laid(items) EXCEPT !.regs = regs, !.ins = ins]
Abstract == [Laid(<<Return>>) EXCEPT !.codeOff = 0]
Programs(n, range) ==
  LET args == IF range THEN [k \in 1 .. n |-> k] ELSE [k \in 1 .. n |-> (k * 2) % 3]
      callers == {Registers(<<Const, Call(args, range, callees), If(5), x, Return>>, 3, n) :
                    callees \in {{2}, {2, 3}, {1, 2}, {3}}, x \in {Throw, Call(args, FALSE, {2})}}
      callees == {Registers(<<Const, Return>>, 3, n), Registers(<<Return>>, n, n),
                  Registers(<<Call([k \in 1 .. n |-> 0], FALSE, {1}), Throw>>, n, n)}
  IN  {<<a, After2(a, b, 0), Abstract>> : a \in callers, b \in callees}
MCExplored ==
  UNION {Programs(n, FALSE) : n \in 0 .. 2} \cup UNION {Programs(n, TRUE) : n \in 1 .. 2}
  \cup {<<Registers(<<Call(<<0>>, FALSE, {}), Return>>, 1, 1)>>, <<Registers(<<Return>>, 0, 0)>>}

(* A range of one register, passed to a method that returns.               *)
MCRangeCall ==
  LET caller == Registers(<<Const, Call(<<1>>, TRUE, {2}), Return>>, 3, 1)
  IN  {<<caller, After2(caller, Registers(<<Const, Return>>, 3, 1), 0)>>}

MCFiles == {<<mth>> : mth \in Bodies \cup Odd \cup Protected \cup Debugged} \cup Pairs \cup MCExplored
=============================================================================
