----------------------------- MODULE MCPointsTo -----------------------------
(***************************************************************************)
(* Small programs for PointsTo.  main allocates two objects and runs up to *)
(* three more instructions drawn from every kind the visitor handles; the  *)
(* class B overrides A.m.  There is one field f, the elements of arrays,   *)
(* one static field and one class initialiser.                             *)
(***************************************************************************)
EXTENDS AndersenInv

MCMethod == {"main", "Am", "Bm", "Wm", "init"}
MCType == {"Obj", "A", "B"}
MCField == {"f", "elements"}
MCStaticField == {"s"}
MCSuperclassOf ==
  {<<"Obj", t>> : t \in MCType} \cup {<<"A", "A">>, <<"A", "B">>, <<"B", "B">>}
MCFieldClass == [f |-> "A", elements |-> NoType]
MCDispatch == [k \in {"Am", "Bm"} \X {"A", "B"} |-> IF k[2] = "A" THEN "Am" ELSE "Bm"]
MCOverrides == [main |-> <<"main">>, init |-> <<"init">>, Wm |-> <<"Wm">>,
                Am |-> <<"Am", "Bm">>, Bm |-> <<"Bm">>]
MCParams == [main |-> <<>>, init |-> <<>>, Wm |-> <<"L", "J", "L">>, Am |-> <<"L", "L">>, Bm |-> <<"L", "L">>]

D(m, i) == <<m, i, 0>>
P(m, k) == <<m, 0, k>>

New(t, init) == [op |-> "new_instance", type |-> t, init |-> init]
Str          == [op |-> "const_string", type |-> "Obj", init |-> NoMethod]
Move(s)      == [op |-> "move_object", src |-> s]
Cast(t, s)   == [op |-> "check_cast", type |-> t, src |-> s]
Return(s)    == [op |-> "return_object", src |-> s]
Store(f, s, o) == [op |-> "store", field |-> f, src |-> s, obj |-> o]
Load(f, o)   == [op |-> "load", field |-> f, obj |-> o]
Sput(s, init) == [op |-> "sput", field |-> "s", src |-> s, init |-> init]
Sget(init)   == [op |-> "sget", field |-> "s", init |-> init]
CallOf(m, kind, o, a) == [op |-> "invoke", kind |-> kind, range |-> FALSE,
                          args |-> <<o, a>>, callee |-> m, init |-> NoMethod]
Call(kind, o, a) == CallOf("Am", kind, o, a)
CallStatic   == [op |-> "invoke", kind |-> "static", range |-> TRUE, args |-> <<>>,
                 callee |-> "init", init |-> "init"]
(* Wm(long, Object): the long takes two registers.                         *)
CallWide(range, o, a) == [op |-> "invoke", kind |-> "direct", range |-> range,
                          args |-> <<o, {}, {}, a>>, callee |-> "Wm", init |-> NoMethod]
Other        == [op |-> "other"]

(* The definitions of main and the values they may be combined into.       *)
one == {D("main", 1)}
two == {D("main", 2)}
three == {D("main", 3)}
four == {D("main", 4)}

Third == {Move(one \cup two), Cast("A", two), Cast("B", one \cup two), Store("f", two, one), Sput(two, "init"),
          Call("virtual", one, two), Sget("init")}

(* The last two may read what the third defined.  A definition in a loop   *)
(* reaches itself, as in x = x.f.                                          *)
Fourth(x) ==
  {Load("f", one \cup four), Load("f", two), Store("elements", one, two),
   Sput(one, NoMethod), CallStatic}
  \cup (IF x.op \in {"move_object", "check_cast", "invoke", "sget"}
        THEN {Store("f", three, one), Call("direct", one, three)}
        ELSE {Call("virtual", one, two)})
  \cup (IF x.op # "check_cast" THEN {}
        ELSE {Call("virtual", one \cup three, two)} \cup
             (IF x.type = "B" THEN {CallOf("Bm", "virtual", three, one)} ELSE {}))

(* The second object is a B, or an Obj, which fails the type tests.        *)
Second(x) == IF x.op \in {"move_object", "check_cast"} THEN {"B", "Obj"} ELSE {"B"}

Fifth(x, y) == IF x.op = "invoke" \/ y.op = "invoke" THEN {Load("elements", two), Sget("init")}
               ELSE {Call("virtual", one, two)}

Bodies ==
  {<< <<Return({P("Am", 1)})>>,
      <<Load("f", {P("Bm", 0)}), Return({D("Bm", 1)})>> >>,
   << <<Store("f", {P("Am", 1)}, {P("Am", 0)}), Return({P("Am", 0)})>>,
      <<Sget(NoMethod), Return({D("Bm", 1)})>> >>}

ProgramOf(main, bodies) ==
  [entry |-> "main",
   code |-> [main |-> main, Am |-> bodies[1], Bm |-> bodies[2],
             Wm |-> <<Store("f", {P("Wm", 3)}, {P("Wm", 0)})>>,
             init |-> <<Str, Other, Sput({D("init", 1)}, NoMethod)>>]]

WideProgram(b) ==
  ProgramOf(<<New("A", NoMethod), New("B", "init"), CallWide(TRUE, one, two),
              Load("f", one)>>, b)

(* The receiver of the first call arrives over two copies, when nothing    *)
(* waits at its argument any more; the second passes a long.               *)
MCArgumentPrograms ==
  {ProgramOf(<<New("A", NoMethod), New("B", "init"), Move(one), Move(three),
               Call("virtual", four, two), CallWide(FALSE, one, two)>>, b) : b \in Bodies}

NarrowPrograms ==
  UNION {UNION {{ProgramOf(<<New("A", NoMethod), New(t, "init"), x, y, z>>, b) :
                   t \in Second(x), z \in Fifth(x, y), b \in Bodies} :
                  y \in Fourth(x)} : x \in Third}

(* Loops: x = x.f over two objects that refer to each other, and two       *)
(* registers that are copied into each other.                              *)
LoopPrograms ==
  {ProgramOf(<<New("A", NoMethod), New("B", "init"), x, y, Load("f", one \cup {D("main", 5)})>>, b) :
     x \in {Store("f", two, one), Store("f", one, one)}, y \in {Store("f", one, two)}, b \in Bodies}
  \cup {ProgramOf(<<New("A", NoMethod), New("B", "init"), Move(one \cup four), Move(three)>>, b) :
           b \in Bodies}

MCPrograms == NarrowPrograms \cup {WideProgram(b) : b \in Bodies} \cup LoopPrograms

(* The hypothesis of the theorems of PointsToProofs holds of the programs  *)
(* of the passing runs; a call that is no range call and passes a long     *)
(* before a reference is what it leaves out.                               *)
ASSUME RangeAssumption == (Programs = MCPrograms) = ArgumentsInPlace
=============================================================================
