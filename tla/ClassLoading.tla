---------------------------- MODULE ClassLoading ----------------------------
(***************************************************************************)
(* Class loading: virtual_machine::find_class, find_method, find_field and *)
(* load_all_classes (virtual_machine.cpp), class_loader.cpp, and           *)
(* dex_file::load_class (dex_file.cpp).                                    *)
(*                                                                         *)
(* find_class and load_class call each other; the calls in progress are a  *)
(* stack of frames, and the frame on top makes the next step:              *)
(*   "find"    find_class: the walk over the loader graph                  *)
(*   "load"    dex_file::load_class: superclass and interfaces first       *)
(*   "member"  find_method and find_field                                  *)
(*   "all"     load_all_classes                                            *)
(* returned says that the frame above has ended, with the vertex ret (0 is *)
(* boost::none).                                                           *)
(*                                                                         *)
(* A class is named by a JVM handle <<loader, name>> or by a DEX handle    *)
(* <<loader, file, name>>, a method or field by the same with its own name *)
(* added.  The vertices of the three graphs are numbered from 1.           *)
(***************************************************************************)
EXTENDS Naturals, Sequences, FiniteSets

CONSTANTS
  Worlds,   \* a set of [loader, out, file, requests]: see WorldsAssumption
  NoHdl     \* a call without a DEX handle

(* The classes that are defined in some file.                              *)
ClassNames(w) ==
  UNION {UNION {DOMAIN w.file[l][k] : k \in 1 .. Len(w.file[l])} : l \in DOMAIN w.file}

(* The classes that a definition names.                                    *)
Wants(d) ==
  {d.super[j] : j \in DOMAIN d.super} \cup {d.interfaces[j] : j \in DOMAIN d.interfaces}

(* A list, and one without repetition.                                     *)
IsList(s)      == s \in Seq({s[j] : j \in DOMAIN s})
NoneTwice(s)   == \A j, k \in DOMAIN s : s[j] = s[k] => j = k
FieldNames(s)  == [j \in DOMAIN s |-> s[j].name]

(* A class declares no two methods and no two fields of the same name; the *)
(* name of a method has its signature.                                     *)
WellFormed(d) ==
  /\ \A s \in {d.super, d.interfaces, d.static, d.instance, d.direct, d.virtual} : IsList(s)
  /\ Len(d.super) <= 1
  /\ d.hasData \/ <<d.static, d.instance, d.direct, d.virtual>> = <<<<>>, <<>>, <<>>, <<>>>>
  /\ \A j \in 1 .. Len(d.static) : d.static[j].size \in {1, 2, 4, 8}
  /\ \A j \in 1 .. Len(d.instance) : d.instance[j].size \in {1, 2, 4, 8}
  /\ NoneTwice(FieldNames(d.static \o d.instance)) /\ NoneTwice(d.direct \o d.virtual)

(* A loader lists the loaders its edges lead to and its dex files; a file  *)
(* maps the names of the classes it defines to their definitions.  A       *)
(* request is the frame of a call of the program; its two handles name the *)
(* same thing.                                                             *)
ASSUME WorldsAssumption ==
  \A w \in Worlds :
    /\ {"loader", "out", "file", "requests"} \subseteq DOMAIN w
    /\ w.out \in [w.loader -> Seq(w.loader)]
    /\ w.loader \subseteq DOMAIN w.file
    /\ \A l \in DOMAIN w.file :
         /\ IsList(w.file[l])
         /\ \A k \in 1 .. Len(w.file[l]) : \A n \in DOMAIN w.file[l][k] : WellFormed(w.file[l][k][n])

(* No chain of superclasses and interfaces leads back to where it began: a *)
(* virtual machine rejects such classes.                                   *)
ASSUME CircleAssumption ==
  \A w \in Worlds : \A S \in SUBSET ClassNames(w) :
    S # {} => \E n \in S : \A l \in DOMAIN w.file : \A k \in 1 .. Len(w.file[l]) :
                n \in DOMAIN w.file[l][k] => Wants(w.file[l][k][n]) \cap S = {}

VARIABLES
  world,      \* which loaders and files there are
  classes,    \* the class graph
  methods,    \* the method graph: the defining DEX handle of each vertex
  fields,     \* the field graph
  overrides,  \* the method_super edges
  jvm,        \* jvm_hdl_to_vertex of the three graphs
  dex,        \* hdl_to_vertex of the three graphs
  stack,      \* the calls in progress, the innermost one first
  returned,   \* the frame above has returned
  ret         \* with this vertex

graphs == <<classes, methods, fields, overrides>>
tables == <<jvm, dex>>
result == <<returned, ret>>
vars   == <<world, graphs, tables, stack, result>>

DefOf(h)    == world.file[h[1]][h[2]][h[3]]
ClassJvm(h) == <<h[1], h[3]>>
JvmOf(h)    == <<h[1], h[3], h[4]>>

-----------------------------------------------------------------------------
(* Frames.                                                                 *)

Find(d, j, t) ==
  [op |-> "find", kind |-> "class", dex |-> d, jvm |-> j, try |-> t,
   todo |-> <<j[1]>>, seen |-> {}, files |-> <<>>]

Member(k, d, j, t) ==
  [op |-> "member", kind |-> k, dex |-> d, jvm |-> j, try |-> t,
   stage |-> "lookup", todo |-> <<j[1]>>, seen |-> {}]

LoadAll(l) == [op |-> "all", loader |-> l, want |-> {}, begun |-> FALSE, ok |-> TRUE]

Load(h) ==
  [op |-> "load", hdl |-> h, want |-> DefOf(h).super \o DefOf(h).interfaces, got |-> <<>>]

ASSUME RequestsAssumption ==
  \A w \in Worlds : \A r \in w.requests :
    \/ /\ r.op = "find" /\ r = Find(r.dex, <<r.jvm[1], r.jvm[2]>>, r.try)
       /\ r.dex # NoHdl => r.jvm = ClassJvm(r.dex)
    \/ /\ r.op = "member" /\ r.kind \in {"method", "field"}
       /\ r = Member(r.kind, r.dex, <<r.jvm[1], r.jvm[2], r.jvm[3]>>, r.try)
       /\ r.dex # NoHdl => r.jvm = JvmOf(r.dex)
    \/ r.op = "all" /\ r = LoadAll(r.loader)

Top == Head(stack)
Become(frame) == stack' = <<frame>> \o Tail(stack)
Call(frame, caller) == stack' = <<frame, caller>> \o Tail(stack)
Return(v) == stack' = Tail(stack) /\ returned' = TRUE /\ ret' = v
Resume == returned' = FALSE /\ ret' = 0

Runs(op) == stack # <<>> /\ Top.op = op

-----------------------------------------------------------------------------
(* The lookup tables.                                                      *)

Bind(t, k, v) == [h \in DOMAIN t \cup {k} |-> IF h = k THEN v ELSE t[h]]

(* Several assignments in a row: the last one for a handle stays.          *)
BindAll(t, s) ==
  [h \in DOMAIN t \cup {s[k][1] : k \in DOMAIN s} |->
     LET at == {k \in DOMAIN s : s[k][1] = h}
     IN  IF at = {} THEN t[h] ELSE s[CHOOSE k \in at : \A j \in at : j <= k][2]]

HasJvm(f) == <<f.kind, f.jvm>> \in DOMAIN jvm
HasDex(f) == <<f.kind, f.dex>> \in DOMAIN dex
Known(f)  == HasDex(f) \/ HasJvm(f)

(* The DEX handle of the call is remembered too.                           *)
DexBound(f, v) == IF f.dex = NoHdl THEN dex ELSE Bind(dex, <<f.kind, f.dex>>, v)

(* "Class found: remember the initiating handle, and return."              *)
Found(f, v) ==
  /\ jvm' = Bind(jvm, <<f.kind, f.jvm>>, v)
  /\ dex' = DexBound(f, v)
  /\ Return(v)

(* The answer is in one of the two tables of find_class, find_method or    *)
(* find_field: only the handle of the DEX file may be new.                 *)
Answer(f) ==
  IF HasDex(f)
  THEN Return(dex[<<f.kind, f.dex>>]) /\ UNCHANGED tables
  ELSE /\ Return(jvm[<<f.kind, f.jvm>>])
       /\ dex' = DexBound(f, jvm[<<f.kind, f.jvm>>])
       /\ UNCHANGED jvm

-----------------------------------------------------------------------------
Init ==
  /\ world \in Worlds
  /\ classes = <<>> /\ methods = <<>> /\ fields = <<>> /\ overrides = {}
  /\ jvm = <<>> /\ dex = <<>>
  /\ stack = <<>> /\ returned = FALSE /\ ret = 0

(* A call of the program that uses the library.                            *)
Request ==
  /\ stack = <<>>
  /\ \E r \in world.requests : stack' = <<r>>
  /\ Resume
  /\ UNCHANGED <<world, graphs, tables>>

-----------------------------------------------------------------------------
(* find_class.                                                             *)

Fresh(f) == f.seen = {}

FindKnown ==
  /\ Runs("find") /\ Fresh(Top) /\ Known(Top)
  /\ Answer(Top)
  /\ UNCHANGED <<world, graphs>>

(* The handle of a loader that does not exist.                             *)
FindNoLoader ==
  /\ Runs("find") /\ Fresh(Top) /\ ~Known(Top) /\ Top.jvm[1] \notin world.loader
  /\ Return(0)
  /\ UNCHANGED <<world, graphs, tables>>

(* The walk over the loader graph is at a vertex.                          *)
Walking ==
  /\ Runs("find") /\ ~returned /\ Top.files = <<>> /\ Top.todo # <<>>
  /\ Fresh(Top) => ~Known(Top)
  /\ Head(Top.todo) \in world.loader

Coloured(f) == Head(f.todo) \in f.seen

SkipLoader ==
  /\ Walking /\ Coloured(Top)
  /\ Become([Top EXCEPT !.todo = Tail(@)])
  /\ UNCHANGED <<world, graphs, tables, result>>

(* Mutant: load_class does not look into the table first.                  *)
NeverThere(l, n) == FALSE

(* lookup_class: the loader knows a class under this name.                 *)
Lookup(l, n) == <<"class", <<l, n>>>> \in DOMAIN jvm

(* discover_vertex: the loader already has the class.                      *)
FindThere ==
  /\ Walking /\ ~Coloured(Top)
  /\ Lookup(Head(Top.todo), Top.jvm[2])
  /\ Found(Top, jvm[<<"class", <<Head(Top.todo), Top.jvm[2]>>>>])
  /\ UNCHANGED <<world, graphs>>

(* discover_vertex: it does not; its files are tried, if the caller wants  *)
(* that, and then the loaders its edges lead to.                           *)
Discover ==
  /\ Walking /\ ~Coloured(Top)
  /\ LET l == Head(Top.todo)
     IN  /\ ~Lookup(l, Top.jvm[2])
         /\ Become([Top EXCEPT
                      !.todo = world.out[l] \o Tail(@),
                      !.seen = @ \cup {l},
                      !.files = IF Top.try THEN [k \in 1 .. Len(world.file[l]) |-> <<l, k>>]
                                ELSE <<>>])
  /\ UNCHANGED <<world, graphs, tables, result>>

(* dex_file::load_class: the file does not define the class.               *)
SkipFile ==
  /\ Runs("find") /\ ~returned /\ Top.files # <<>>
  /\ LET f == Head(Top.files) IN Top.jvm[2] \notin DOMAIN world.file[f[1]][f[2]]
  /\ Become([Top EXCEPT !.files = Tail(@)])
  /\ UNCHANGED <<world, graphs, tables, result>>

(* Mutant: a file that failed is tried again.                              *)
LoadAgain ==
  /\ Runs("find") /\ ~returned /\ Top.files # <<>>
  /\ LET f == Head(Top.files)
     IN  /\ Top.jvm[2] \in DOMAIN world.file[f[1]][f[2]]
         /\ Call(Load(<<f[1], f[2], Top.jvm[2]>>), Top)
  /\ UNCHANGED <<world, graphs, tables, result>>

LoadFromFile ==
  /\ Runs("find") /\ ~returned /\ Top.files # <<>>
  /\ LET f == Head(Top.files)
     IN  /\ Top.jvm[2] \in DOMAIN world.file[f[1]][f[2]]
         /\ Call(Load(<<f[1], f[2], Top.jvm[2]>>), [Top EXCEPT !.files = Tail(@)])
  /\ UNCHANGED <<world, graphs, tables, result>>

FindLoaded ==
  /\ Runs("find") /\ returned /\ ret # 0
  /\ Found(Top, ret)
  /\ UNCHANGED <<world, graphs>>

(* Mutant: a class that cannot be loaded from one file is not looked for   *)
(* in the next one.                                                        *)
GiveUp ==
  /\ Runs("find") /\ returned /\ ret = 0
  /\ Return(0)
  /\ UNCHANGED <<world, graphs, tables>>

(* The next file or the next loader is tried.                              *)
FindNext ==
  /\ Runs("find") /\ returned /\ ret = 0
  /\ Resume
  /\ UNCHANGED <<world, graphs, tables, stack>>

Exhausted(f) == f.files = <<>> /\ f.todo = <<>>

FindFailed ==
  /\ Runs("find") /\ ~returned /\ Exhausted(Top)
  /\ Return(0)
  /\ UNCHANGED <<world, graphs, tables>>

-----------------------------------------------------------------------------
(* dex_file::load_class.                                                   *)

LoadSuper ==
  /\ Runs("load") /\ ~returned /\ Top.want # <<>>
  /\ LET h == Top.hdl
         n == Head(Top.want)
     IN  Call(Find(<<h[1], h[2], n>>, <<h[1], n>>, TRUE), Top)
  /\ UNCHANGED <<world, graphs, tables, result>>

SuperLoaded ==
  /\ Runs("load") /\ returned /\ ret # 0
  /\ Become([Top EXCEPT !.want = Tail(@), !.got = Append(@, ret)])
  /\ Resume
  /\ UNCHANGED <<world, graphs, tables>>

(* The superclass or an interface is missing; what was loaded stays.       *)
Abandon ==
  /\ Runs("load") /\ returned /\ ret = 0
  /\ Return(0)
  /\ UNCHANGED <<world, graphs, tables>>

(* The entries a class takes over from its superclass, and its own.  A     *)
(* definition without class data takes over nothing.                       *)
SuperOf(f)        == IF DefOf(f.hdl).super = <<>> THEN 0 ELSE f.got[1]
Inherits(f)       == SuperOf(f) # 0 /\ DefOf(f.hdl).hasData
Inherited(f, tbl) == IF Inherits(f) THEN classes[SuperOf(f)][tbl] ELSE <<>>
OwnMember(f, n)   == f.hdl \o <<n>>

OwnDirect(f)   == [k \in DOMAIN DefOf(f.hdl).direct |-> OwnMember(f, DefOf(f.hdl).direct[k])]
OwnVirtual(f)  == [k \in DOMAIN DefOf(f.hdl).virtual |-> OwnMember(f, DefOf(f.hdl).virtual[k])]

OwnFields(f, tbl) ==
  [k \in DOMAIN DefOf(f.hdl)[tbl] |-> OwnMember(f, DefOf(f.hdl)[tbl][k].name)]

(* Handles of the superclass become handles of this class.                 *)
Inherit(f, kind, s) ==
  [k \in DOMAIN s |-> <<<<kind, ClassJvm(f.hdl) \o <<s[k][4]>>>>, dex[<<kind, s[k]>>]>>]

(* The new vertices get the next numbers.                                  *)
Declare(kind, s, first) == [k \in DOMAIN s |-> <<<<kind, JvmOf(s[k])>>, first + k>>]

(* Mutant: own methods are registered before the inherited ones.           *)
MethodHandlesOwnFirst(f) ==
  Declare("method", OwnDirect(f) \o OwnVirtual(f), Len(methods))
    \o Inherit(f, "method", Inherited(f, "dtable") \o Inherited(f, "vtable"))

MethodHandles(f) ==
  Inherit(f, "method", Inherited(f, "dtable"))
    \o Declare("method", OwnDirect(f), Len(methods))
    \o Inherit(f, "method", Inherited(f, "vtable"))
    \o Declare("method", OwnVirtual(f), Len(methods) + Len(OwnDirect(f)))

FieldHandles(f) ==
  Inherit(f, "field", Inherited(f, "static"))
    \o Declare("field", OwnFields(f, "static"), Len(fields))
    \o Inherit(f, "field", Inherited(f, "instance"))
    \o Declare("field", OwnFields(f, "instance"), Len(fields) + Len(OwnFields(f, "static")))

JvmHandles(f) ==
  FieldHandles(f) \o MethodHandles(f)
    \o <<<<<<"class", ClassJvm(f.hdl)>>, Len(classes) + 1>>>>

DexHandles(f) ==
  LET ms == OwnDirect(f) \o OwnVirtual(f)
      fs == OwnFields(f, "static") \o OwnFields(f, "instance")
  IN  [k \in DOMAIN ms |-> <<<<"method", ms[k]>>, Len(methods) + k>>]
        \o [k \in DOMAIN fs |-> <<<<"field", fs[k]>>, Len(fields) + k>>]
        \o <<<<<<"class", f.hdl>>, Len(classes) + 1>>>>

(* Mutant: the last inherited entry is not looked at.                      *)
SameEntryButLast(f, h) ==
  {k \in DOMAIN Inherited(f, "vtable") :
     k < Len(Inherited(f, "vtable")) /\ Inherited(f, "vtable")[k][4] = h[4]}

(* The inherited vtable entry of the same unique name, if there is one.    *)
SameEntry(f, h) ==
  {k \in DOMAIN Inherited(f, "vtable") : Inherited(f, "vtable")[k][4] = h[4]}

(* A new entry is made for a method that overrides nothing; the entry of   *)
(* an overridden method stays.                                             *)
Vtable(f) ==
  LET own == OwnVirtual(f)
      after[k \in 0 .. Len(own)] ==
        IF k = 0 THEN Inherited(f, "vtable")
        ELSE IF SameEntry(f, own[k]) = {} THEN Append(after[k - 1], own[k])
        ELSE after[k - 1]
  IN  after[Len(own)]

Overridden(f) ==
  {<<dex[<<"method", Inherited(f, "vtable")[CHOOSE i \in SameEntry(f, OwnVirtual(f)[k]) :
                       \A j \in SameEntry(f, OwnVirtual(f)[k]) : i <= j]>>],
     Len(methods) + Len(OwnDirect(f)) + k>> :
       k \in {i \in DOMAIN OwnVirtual(f) : SameEntry(f, OwnVirtual(f)[i]) # {}}}

(* Mutant: the layout does not start where the superclass ends.            *)
FirstOffsetZero(f, size) == 0

(* Field offsets are 16 bits wide.                                         *)
FirstOffset(f, size) == IF Inherits(f) THEN classes[SuperOf(f)][size] ELSE 0

OffsetAfter(f, tbl, size, k) ==
  LET own == DefOf(f.hdl)[tbl]
      sum[i \in 0 .. k] == IF i = 0 THEN FirstOffset(f, size) ELSE sum[i - 1] + own[i].size
  IN  sum[k] % 65536

NewFields(f, tbl, size) ==
  [k \in DOMAIN OwnFields(f, tbl) |->
     [hdl |-> OwnFields(f, tbl)[k], offset |-> OffsetAfter(f, tbl, size, k - 1),
      size |-> DefOf(f.hdl)[tbl][k].size]]

NewClass(f) ==
  [hdl |-> f.hdl, super |-> SuperOf(f),
   interfaces |-> IF SuperOf(f) = 0 THEN f.got ELSE Tail(f.got),
   static |-> Inherited(f, "static") \o OwnFields(f, "static"),
   instance |-> Inherited(f, "instance") \o OwnFields(f, "instance"),
   dtable |-> Inherited(f, "dtable") \o OwnDirect(f),
   vtable |-> Vtable(f),
   staticSize |-> OffsetAfter(f, "static", "staticSize", Len(DefOf(f.hdl).static)),
   instanceSize |-> OffsetAfter(f, "instance", "instanceSize", Len(DefOf(f.hdl).instance))]

(* Superclass and interfaces are there: the class is made.                 *)
Define ==
  /\ Runs("load") /\ ~returned /\ Top.want = <<>>
  /\ LET f == Top
     IN  /\ classes' = Append(classes, NewClass(f))
         /\ methods' = methods \o OwnDirect(f) \o OwnVirtual(f)
         /\ fields' = fields \o NewFields(f, "static", "staticSize")
                             \o NewFields(f, "instance", "instanceSize")
         /\ overrides' = overrides \cup Overridden(f)
         /\ \E s \in {JvmHandles(f)} : jvm' = BindAll(jvm, s)
         /\ \E s \in {DexHandles(f)} : dex' = BindAll(dex, s)
         /\ Return(Len(classes) + 1)
  /\ UNCHANGED world

-----------------------------------------------------------------------------
(* find_method and find_field.                                             *)

MemberKnown ==
  /\ Runs("member") /\ Top.stage = "lookup" /\ Known(Top)
  /\ Answer(Top)
  /\ UNCHANGED <<world, graphs>>

(* The class is loaded first if the caller wants that.                     *)
MemberLoad ==
  /\ Runs("member") /\ Top.stage = "lookup" /\ ~Known(Top)
  /\ IF Top.try
     THEN Call(Find(NoHdl, <<Top.jvm[1], Top.jvm[2]>>, TRUE), [Top EXCEPT !.stage = "load"])
     ELSE Become([Top EXCEPT !.stage = "search"])
  /\ UNCHANGED <<world, graphs, tables, result>>

MemberNoClass ==
  /\ Runs("member") /\ Top.stage = "load" /\ returned /\ ret = 0
  /\ Return(0)
  /\ UNCHANGED <<world, graphs, tables>>

(* "Check the lookup table again."                                         *)
MemberLoaded ==
  /\ Runs("member") /\ Top.stage = "load" /\ returned /\ ret # 0
  /\ IF HasJvm(Top)
     THEN /\ Return(jvm[<<Top.kind, Top.jvm>>])
          /\ dex' = DexBound(Top, jvm[<<Top.kind, Top.jvm>>])
          /\ UNCHANGED jvm
     ELSE Become([Top EXCEPT !.stage = "search"]) /\ Resume /\ UNCHANGED tables
  /\ UNCHANGED <<world, graphs>>

(* The walk over the loader graph that only looks into the table.          *)
MemberSearch ==
  /\ Runs("member") /\ Top.stage = "search" /\ Top.todo # <<>>
  /\ Head(Top.todo) \in world.loader
  /\ LET l == Head(Top.todo)
         h == <<Top.kind, <<l, Top.jvm[2], Top.jvm[3]>>>>
     IN  CASE Coloured(Top) ->
                Become([Top EXCEPT !.todo = Tail(@)]) /\ UNCHANGED <<tables, result>>
           [] ~Coloured(Top) /\ h \in DOMAIN jvm -> Found(Top, jvm[h])
           [] OTHER ->
                /\ Become([Top EXCEPT !.todo = world.out[l] \o Tail(@), !.seen = @ \cup {l}])
                /\ UNCHANGED <<tables, result>>
  /\ UNCHANGED <<world, graphs>>

MemberFailed ==
  /\ Runs("member") /\ Top.stage = "search"
  /\ Top.todo # <<>> => Head(Top.todo) \notin world.loader
  /\ Return(0)
  /\ UNCHANGED <<world, graphs, tables>>

-----------------------------------------------------------------------------
(* load_all_classes: find_class for every definition of every file of the  *)
(* loader; 1 if all were found.                                            *)

AllBegin ==
  /\ Runs("all") /\ ~Top.begun
  /\ LET l == Top.loader
     IN  Become([Top EXCEPT !.begun = TRUE,
                   !.want = UNION {{<<l, k, n>> : n \in DOMAIN world.file[l][k]} :
                                     k \in 1 .. Len(world.file[l])}])
  /\ UNCHANGED <<world, graphs, tables, result>>

AllOk == Top.ok /\ ~(returned /\ ret = 0)

AllNext ==
  /\ Runs("all") /\ Top.begun
  /\ \E h \in Top.want :
       /\ \A g \in Top.want : h[2] <= g[2]
       /\ Call(Find(h, ClassJvm(h), TRUE), [Top EXCEPT !.want = @ \ {h}, !.ok = AllOk])
  /\ Resume
  /\ UNCHANGED <<world, graphs, tables>>

AllDone ==
  /\ Runs("all") /\ Top.begun /\ Top.want = {}
  /\ Return(IF AllOk THEN 1 ELSE 0)
  /\ UNCHANGED <<world, graphs, tables>>

Next ==
  \/ Request
  \/ FindKnown \/ FindNoLoader \/ SkipLoader \/ FindThere \/ Discover \/ SkipFile
  \/ LoadFromFile \/ FindLoaded \/ FindNext \/ FindFailed
  \/ LoadSuper \/ SuperLoaded \/ Abandon \/ Define
  \/ MemberKnown \/ MemberLoad \/ MemberNoClass \/ MemberLoaded \/ MemberSearch \/ MemberFailed
  \/ AllBegin \/ AllNext \/ AllDone

Spec == Init /\ [][Next]_vars

(* One sequential library: a call that has begun goes on.                  *)
FairSpec == Spec /\ WF_vars(stack # <<>> /\ Next)
-----------------------------------------------------------------------------
(* Properties.                                                             *)

(* "one or more initiating handles and a unique defining handle for each   *)
(* VM object" (README.md:200): a class, method or field is found under its *)
(* defining handles, so no two vertices share one.                         *)
DefiningHandle ==
  /\ \A v \in 1 .. Len(classes) :
       /\ jvm[<<"class", ClassJvm(classes[v].hdl)>>] = v
       /\ dex[<<"class", classes[v].hdl>>] = v
  /\ \A v \in 1 .. Len(methods) :
       /\ jvm[<<"method", JvmOf(methods[v])>>] = v
       /\ dex[<<"method", methods[v]>>] = v
  /\ \A v \in 1 .. Len(fields) :
       /\ jvm[<<"field", JvmOf(fields[v].hdl)>>] = v
       /\ dex[<<"field", fields[v].hdl>>] = v

(* What a program was told about a class stays true: no step of any later  *)
(* load moves a class handle to another vertex or changes a vertex.        *)
HandlesNeverMove ==
  [][ /\ \A h \in DOMAIN jvm : h[1] = "class" => h \in DOMAIN jvm' /\ jvm'[h] = jvm[h]
      /\ \A h \in DOMAIN dex : h[1] = "class" => h \in DOMAIN dex' /\ dex'[h] = dex[h]
      /\ \A v \in 1 .. Len(classes) : v <= Len(classes') /\ classes'[v] = classes[v] ]_vars

(* The layout of the fields: the fields of a class do not overlap, end     *)
(* before its size, and lie where the superclass has them.                 *)
Laid(s, size) ==
  LET at(k) == fields[dex[<<"field", s[k]>>]]
  IN  \A k \in DOMAIN s :
        /\ at(k).offset + at(k).size <= size
        /\ \A j \in DOMAIN s :
             j < k => at(j).offset + at(j).size <= at(k).offset

FieldLayout ==
  \A v \in 1 .. Len(classes) :
    LET u == classes[v]
    IN  /\ Laid(u.static, u.staticSize) /\ Laid(u.instance, u.instanceSize)
        /\ u.super # 0 /\ DefOf(u.hdl).hasData =>
             /\ SubSeq(u.static, 1, Len(classes[u.super].static)) = classes[u.super].static
             /\ SubSeq(u.instance, 1, Len(classes[u.super].instance))
                  = classes[u.super].instance

(* Every call comes back, whatever is missing and however the loaders are  *)
(* connected.                                                              *)
Answered == (stack # <<>>) ~> (stack = <<>>)
=============================================================================
