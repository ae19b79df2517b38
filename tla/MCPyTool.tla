------------------------------ MODULE MCPyTool ------------------------------
(***************************************************************************)
(* PyTool on a script with a function main, a function helper, a class K   *)
(* with an object of it, obj, and a module lib with functions f and helper *)
(* of its own and an attribute lib.                                        *)
(***************************************************************************)
EXTENDS PyTool

CONSTANTS
  FMain, FHelper, FLib, FLibHelper, FRun,   \* functions
  MRun, MStop,                              \* methods bound to Obj
  Module, Obj, Class, Sqrt

MCObject == {FMain, FHelper, FLib, FLibHelper, FRun, MRun, MStop, Module, Obj, Class, Sqrt}
MCPart   == {"script", "main", "helper", "lib", "f", "K", "obj", "run", "stop", "sqrt", "self", "x",
             "<const>", "0", "1", "2", NullPart}
MCSelf   == "self"

I(op, arg, val) == [op |-> op, arg |-> arg, val |-> val]
Global(n)  == I("LOAD_GLOBAL", 1, n)     \* NULL + n
Plain(n)   == I("LOAD_GLOBAL", 0, n)
Local(n)   == I("LOAD_FAST", 0, n)
Method(a)  == I("LOAD_ATTR", 1, a)       \* a method and its object
Attr(a)    == I("LOAD_ATTR", 0, a)
Call(n)    == I("CALL", n, ToString(n))
Pop        == I("POP_TOP", 0, "")
Const      == I("LOAD_CONST", 0, "<const>")

(* Statements; jumps are relative to their beginning.                      *)
Calling(n)      == <<Global(n), Call(0), Pop>>
CallingAttr(n, a) == <<Plain(n), Method(a), Call(0), Pop>>
CallingSelf(a)  == <<Local("self"), Method(a), Call(0), Pop>>
Argument(n, m)  == <<Global(n), Global(m), Call(0), Const, Call(2), Pop>>
ListOf(n, m)    == <<Global(n), Const, Plain(m), I("BUILD_LIST", 2, 2), Call(1), Pop>>
Star(n)         == <<Global(n), Local("x"), I("CALL_FUNCTION_EX", 0, "0"), Pop>>
Sum(n, m)       == <<Global(n), Call(0), Plain(m), Attr("f"), I("BINARY_OP", 0, 0), Pop>>
IfArgument(n, m) ==
  <<Global(n), Local("x"), I("POP_JUMP_IF_FALSE", 7, 7), Global(m), Call(0), I("JUMP_FORWARD", 8, 8),
    Const, Call(1), Pop>>
If(n)           == <<Local("x"), I("POP_JUMP_IF_TRUE", 6, 6), Global(n), Call(0), Pop, I("NOP", 0, "")>>
Loop(n) ==
  <<Local("x"), I("GET_ITER", 0, ""), I("FOR_ITER", 9, 9), I("STORE_FAST", 0, "x"), Global(n), Call(0),
    Pop, I("JUMP_BACKWARD", 3, 3), I("END_FOR", 0, "")>>
Raise(n)        == <<Local("x"), I("POP_JUMP_IF_FALSE", 6, 6), Global(n), Call(0),
                     I("RAISE_VARARGS", 1, 1), I("NOP", 0, "")>>
Star3           == <<I("CALL_INTRINSIC_1", 2, "2")>>

Placed(code, statement) ==
  code \o [k \in DOMAIN statement |->
             IF statement[k].op \in Jumps \cup {"FOR_ITER"}
             THEN [statement[k] EXCEPT !.val = @ + Len(code)] ELSE statement[k]]
Body(statements) == FoldLeft(Placed, <<>>, statements) \o <<I("RETURN_CONST", 0, 0)>>

MainStatements ==
  {Calling("helper"), Calling("x"), CallingAttr("lib", "f"), CallingAttr("lib", "lib"),
   CallingAttr("obj", "run"), CallingAttr("K", "run"), Argument("K", "helper"), ListOf("sqrt", "lib"),
   Star("helper"), Sum("helper", "lib"), IfArgument("helper", "sqrt"), If("lib"), Loop("helper"),
   Raise("K"), Star3}
MainBodies   == {Body(<<s, t>>) : s, t \in MainStatements}
HelperBodies == {Body(<<>>), Body(<<If("helper")>>), Body(<<CallingAttr("lib", "f"), Calling("main")>>)}
LibBodies    == {Body(<<Calling("helper")>>)}
RunBodies    == {Body(<<>>), Body(<<CallingSelf("stop"), Calling("helper")>>)}

CONSTANTS Main, Util, Data, Library

MCFile == {Main, Util, Data, Library}
ScriptOf(loads, m, u, k) ==
  [start |-> Main, local |-> {Main, Util, Data}, loads |-> loads,
   imports |-> (Main :> m) @@ (Util :> u) @@ (Data :> k) @@ (Library :> {})]
OneScript == ScriptOf({Main}, {}, {}, {})
MCScripts ==
  {ScriptOf(loads, m, u, k) :
     loads \in {MCFile, {Main, Util}}, m \in SUBSET MCFile, u \in {{}, {Main}, {Data, Library}},
     k \in {{Library}, {Main, Util}}}

None == <<>>
ProgramOf(entry, m, h, l, r, script_) ==
  LET inScript == ("main" :> FMain) @@ ("helper" :> FHelper) @@ ("lib" :> Module) @@ ("K" :> Class)
                    @@ ("obj" :> Obj) @@ ("sqrt" :> Sqrt)
      inLib    == ("f" :> FLib) @@ ("helper" :> FLibHelper)
  IN
  [entry |-> entry, name |-> <<"script", "main">>,
   kind |-> [o \in {FMain, FHelper, FLib, FLibHelper, FRun} |-> "function"]
              @@ [o \in {MRun, MStop} |-> "method"] @@ [o \in {Module, Obj} |-> "value"]
              @@ (Class :> "callable") @@ (Sqrt :> "cfunction"),
   globals |-> [o \in {FLib, FLibHelper} |-> inLib] @@ [o \in MCObject |-> inScript],
   attr |-> (Module :> ("f" :> FLib @@ "helper" :> FLibHelper @@ "lib" :> Class))
              @@ (Obj :> ("run" :> MRun @@ "stop" :> MStop)) @@ (Class :> ("run" :> FRun))
              @@ [o \in MCObject |-> None],
   receiver |-> [o \in MCObject |-> Obj],
   code |-> (FMain :> m) @@ (FHelper :> h) @@ (FLib :> l) @@ (FRun :> r) @@ (MRun :> r)
              @@ (MStop :> Body(<<CallingSelf("run")>>)) @@ (FLibHelper :> Body(<<>>))
              @@ [o \in MCObject |-> <<>>],
   script |-> script_]

MCPrograms ==
  {ProgramOf(FMain, m, h, l, r, OneScript) : m \in MainBodies, h \in HelperBodies, l \in LibBodies, r \in RunBodies}
  \cup {ProgramOf(e, Body(<<>>), Body(<<>>), Body(<<>>), Body(<<>>), s) :
          e \in {Class}, s \in MCScripts}

=============================================================================
