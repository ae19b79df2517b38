--------------------------- MODULE MCClassLoading ---------------------------
(***************************************************************************)
(* ClassLoading and IntentFlow with an application loader app, the system  *)
(* loader sys and the loader other of a second application, which may be   *)
(* added and which intents connect with the first.  Class c extends a or   *)
(* b, b extends a, a extends Object (o).                                   *)
(***************************************************************************)
EXTENDS IntentFlow, Relation

CONSTANTS app, sys, other, nowhere,   \* loaders
          o, a, b, c, i,              \* classes
          init, m, k,                 \* methods
          x, y, z                     \* fields

Fld(n, s) == [name |-> n, size |-> s]

Cls(super, interfaces, static, instance, virtual) ==
  [super |-> super, interfaces |-> interfaces, hasData |-> TRUE, static |-> static,
   instance |-> instance, direct |-> <<init>>, virtual |-> virtual]

Marker == [super |-> <<o>>, interfaces |-> <<>>, hasData |-> FALSE, static |-> <<>>,
           instance |-> <<>>, direct |-> <<>>, virtual |-> <<>>]

(* The manifests and the strings of the methods: a starts the second       *)
(* application, b sends to whoever answers, Object asks a provider.        *)
Element(kind, name, actions) == [kind |-> kind, name |-> name, actions |-> actions]
Manifests ==
  [app |-> [package |-> <<"p">>,
            elements |-> {Element("activity", <<"", "Start">>, {<<"SEND">>, Main}),
                          Element("provider", <<"Data">>, {})}],
   other |-> [package |-> <<"q">>,
              elements |-> {Element("activity", <<"q", "Start">>, {Main}), Element("service", <<>>, {})}]]
String(content, name, path) == [content |-> content, name |-> name, path |-> path]
Strings ==
  (<<a, init>> :> <<String(FALSE, Main, FALSE), String(FALSE, <<"q", "Start">>, FALSE)>>)
    @@ (<<b, init>> :> <<String(TRUE, <<"SEND">>, FALSE), String(FALSE, <<"SEND">>, FALSE)>>)
    @@ (<<o, init>> :> <<String(TRUE, <<"p", "Data">>, TRUE)>>)

(* Which of a, b and c declare m, and what c extends.                      *)
Long == [a |-> <<m>>, b |-> <<m>>, c |-> <<>>, of |-> b]

Shapes ==
  {Long,
   [a |-> <<k, m>>, b |-> <<>>, c |-> <<m>>, of |-> b],
   [a |-> <<k>>, b |-> <<m>>, c |-> <<k, m>>, of |-> b],
   [a |-> <<m>>, b |-> <<m>>, c |-> <<m>>, of |-> a]}

(* Where a and b are defined, in which file of app c is, and whether the    *)
(* interface of b and c is there.                                          *)
Places ==
  [a : {{sys}, {app}, {app, sys}}, b : {sys, app, other}, c : {1, 2}, i : BOOLEAN]

WorldOf(id) ==
  LET s == id[1]
      p == id[2]
      A == Cls(<<o>>, <<>>, <<Fld(z, 1)>>, <<Fld(x, 4)>>, s.a)
      B == Cls(<<a>>, <<i>>, <<>>, <<Fld(y, 8)>>, s.b)
      Plain == Cls(<<a>>, <<>>, <<>>, <<Fld(y, 8)>>, s.b)
      C == Cls(<<s.of>>, <<i>>, <<Fld(z, 2)>>, <<Fld(x, 4)>>, s.c)
      O == Cls(<<>>, <<>>, <<>>, <<>>, <<k>>)
      in(l) == (IF l \in p.a THEN {a} ELSE {}) \cup (IF l = p.b THEN {b} ELSE {})
      apart == p.b = other
      def(n) == CASE n = a -> A [] n = b -> B [] n = c -> C [] n = o -> O [] n = i -> Marker
      file(S) == [n \in S |-> def(n)]
  IN  [loader |-> {app, sys}, first |-> <<sys, app>>, parent |-> IF apart THEN (other :> sys) ELSE <<>>,
      scans |-> IF apart THEN 2 ELSE 0,
       out |-> (sys :> <<>>) @@ (app :> <<sys>>),
       manifest |-> (sys :> {}) @@ (app :> {Manifests.app}) @@ (other :> {Manifests.other}),
       strings |-> Strings,
       file |-> [l \in {app, sys, other} |->
                   IF l = app THEN IF p.c = 1 THEN <<file({c} \cup in(app)), [n \in in(app) \cap {b} |-> Plain]>>
                                   ELSE <<file(in(app)), file({c})>>
                   ELSE IF l = sys THEN <<file({o} \cup in(sys) \cup (IF p.i THEN {i} ELSE {}))>>
                   ELSE <<file({a, b, i})>>],
       requests |->
         {Find(NoHdl, <<app, c>>, TRUE), Find(NoHdl, <<sys, b>>, TRUE),
          Find(<<app, 1, a>>, <<app, a>>, TRUE), Find(NoHdl, <<nowhere, o>>, TRUE),
          LoadAll(app),
          Member("method", <<app, 1, c, m>>, <<app, c, m>>, TRUE),
          Member("field", NoHdl, <<app, c, x>>, TRUE)}
         \cup IF p.a = {app, sys} THEN {}
              ELSE {Find(NoHdl, <<app, a>>, FALSE),
                    Member("method", NoHdl, <<app, a, m>>, FALSE)}]

MCWorlds == {WorldOf(id) : id \in {d \in Shapes \X Places : d[2].b = other => d[1] = Long}}

(* Class c declares a static field with the name of an instance field of   *)
(* its superclass b.                                                       *)
HidingWorlds ==
  {[WorldOf(<<Long, [a |-> {sys}, b |-> sys, c |-> 1, i |-> TRUE]>>)
      EXCEPT !.file[app][1][c].static = Append(@, Fld(y, 4))]}

-----------------------------------------------------------------------------
(* What a class handle means, stated without tables and without an order   *)
(* of calls: the first loader on the walk, and its first file, that define *)
(* a class of that name whose superclass and interfaces can be found.      *)

(* The loaders in the order in which a depth-first walk from l meets them; *)
(* after nine steps it has followed every edge.                            *)
Walk(w, l) ==
  LET Step[d \in 0 .. 9] ==
        IF d = 0 THEN [met |-> <<>>, todo |-> <<l>>]
        ELSE LET s == Step[d - 1]
             IN  IF s.todo = <<>> THEN s
                 ELSE IF \E j \in DOMAIN s.met : s.met[j] = Head(s.todo)
                      THEN [s EXCEPT !.todo = Tail(@)]
                      ELSE [met |-> Append(s.met, Head(s.todo)),
                            todo |-> w.out[Head(s.todo)] \o Tail(s.todo)]
  IN  Step[9].met

First(S) == CHOOSE p \in S : \A q \in S : p[1] < q[1] \/ (p[1] = q[1] /\ p[2] <= q[2])

Handles == {app, sys, other} \X {o, a, b, c, i}

(* The definitions a handle can stand for, if the classes of loadable can  *)
(* be loaded: the places on the walk, and the files there.                 *)
Candidates(w, loadable, h) ==
  LET walk == Walk(w, h[1])
  IN  {p \in (1 .. Len(walk)) \X (1 .. 2) :
         LET file == w.file[walk[p[1]]]
         IN  /\ p[2] <= Len(file) /\ h[2] \in DOMAIN file[p[2]]
             /\ \A s \in Wants(file[p[2]][h[2]]) : <<walk[p[1]], s>> \in loadable}

(* No chain of superclasses and interfaces is longer than five classes.    *)
Loadable(w) ==
  LET Level[d \in 0 .. 5] ==
        IF d = 0 THEN {}
        ELSE LET shorter == Level[d - 1] IN {h \in Handles : Candidates(w, shorter, h) # {}}
  IN  Level[5]

MeaningIn(w, loadable, h) ==
  LET defs == Candidates(w, loadable, h)
  IN  IF defs = {} THEN NoHdl ELSE <<Walk(w, h[1])[First(defs)[1]], First(defs)[2], h[2]>>

Meaning(w, h) ==
  IF h[1] \notin w.loader THEN NoHdl ELSE MeaningIn(w, Loadable(w), h)

(* find_class answers what the handle means in the loader graph of the     *)
(* moment, whatever was loaded before, in whatever order and with whatever *)
(* failures in between; "not found" is said only of a class that cannot be *)
(* loaded, to a caller as well as to the definition of a subclass.         *)
Resolution ==
  [][ /\ \A h \in DOMAIN jvm' \ DOMAIN jvm :
           h[1] = "class" => classes'[jvm'[h]].hdl = Meaning(world, h[2])
      /\ \A h \in DOMAIN dex' \ DOMAIN dex :
           h[1] = "class" => classes'[dex'[h]].hdl = Meaning(world, ClassJvm(h[2]))
      /\ returned /\ ret = 0 =>
           /\ Runs("load") => Meaning(world, <<Top.hdl[1], Head(Top.want)>>) = NoHdl
           /\ Runs("member") => Meaning(world, <<Top.jvm[1], Top.jvm[2]>>) = NoHdl ]_ivars

(* The edges of intents do not take a class away from a loader's own       *)
(* parents: a handle that means something in the graph of parents alone,   *)
(* and does so with the first definition on the way up, leads there        *)
(* whatever other applications define.                                     *)
Parents(w) == [w EXCEPT !.out = [l \in DOMAIN @ |-> IF l = sys THEN <<>> ELSE <<sys>>]]
ParentsFirst ==
  \A h \in DOMAIN jvm : h[1] = "class" =>
    LET up    == Parents(world)
        first == First(Candidates(up, Handles, h[2]))
    IN  (Candidates(up, Handles, h[2]) # {} /\ Candidates(up, Loadable(up), h[2]) # {}
           /\ first = First(Candidates(up, Loadable(up), h[2]))) =>
          classes[jvm[h]].hdl = Meaning(up, h[2])

-----------------------------------------------------------------------------
(* Virtual methods.                                                        *)

ClassOf(v) == dex[<<"class", <<methods[v][1], methods[v][2], methods[v][3]>>>>]
Virtual(v) == \E j \in DOMAIN DefOf(methods[v]).virtual :
                DefOf(methods[v]).virtual[j] = methods[v][4]

RECURSIVE Supers(_)
Supers(u) == IF u = 0 THEN {} ELSE {u} \cup Supers(classes[u].super)

Overriders(v) ==
  {u \in 1 .. Len(methods) :
     methods[u][4] = methods[v][4] /\ Virtual(u) /\ ClassOf(v) \in Supers(ClassOf(u))}

(* The walk along method_super edges from the declaration that introduces  *)
(* a method reaches every method of the loaded classes that overrides it:  *)
(* what class hierarchy analysis relies on.  Judged between two calls.       *)
OverridesComplete ==
  LET reach == TransitiveClosure([u, v \in 1 .. Len(methods) |-> <<u, v>> \in overrides],
                                 1 .. Len(methods))
      introduces(v) == \A u \in 1 .. Len(methods) :
                         v \in Overriders(u) => u = v
  IN  stack = <<>> => \A v \in 1 .. Len(methods) :
        Virtual(v) /\ introduces(v) =>
          \A u \in Overriders(v) \ {v} : reach[v, u]

=============================================================================
