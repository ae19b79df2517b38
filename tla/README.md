# Jitana in TLA+

This directory holds TLA+ models of the core of Jitana, the hybrid analysis
library for Android programs, the TLC runs that check them on small programs,
and TLAPS proofs about them. File names below are relative to the repository
root; `vm_core/`, `analysis/` and so on mean the directory of that name under
`lib/jitana` or `include/jitana`.

## 1. The system

Jitana loads DEX files into a set of graphs kept by one `virtual_machine`, and
analyses read and extend these graphs. Everything in the library is sequential:
there is no thread, no lock and no shared memory. What is hard about it is that
handlers call each other while they walk the structures they change (loading a
class loads others; solving constraints adds constraints, vertices and whole
methods), that one fact is often kept in two places, and that an answer is
cached for ever. The only part with a peer and with timing is `jitana-travis`,
which polls a device over JDWP.

| Part | State | Operations | Talks to | What is hard | Correct if |
|---|---|---|---|---|---|
| Loaders and class loading (`vm_core/virtual_machine.cpp`, `class_loader.cpp`, `dex_file.cpp`) | loader, class, method and field graphs; per graph two tables from handles to vertices | `find_class`, `find_method`, `find_field`, `load_all_classes`, `load_recursive`, `add_apk` | all analyses ask it; it asks the DEX files | mutual recursion of `find_class` and `load_class` over loaders that intents connect in cycles; failure half way; answers cached under the handle that asked | a handle means the same class whatever was loaded before; each vertex is found under its defining handle; fields do not overlap; overrides are linked |
| Instruction graph (`dex_file.cpp`, `vm_core/insn_info.cpp`) | one graph per method | `make_insn_graph`, `parse_debug_info`, `find_insn` | def-use, exception flow, supergraph; the device names instructions by their place in the file | payloads between the instructions, try blocks by offsets, 16-bit offsets; a debug-info machine that must read every operand | edges, handlers and lines are those of the bytecode; a place in the file leads to the instruction that begins there |
| Def-use and dataflow framework (`algorithm/monotonic_dataflow.hpp`, `analysis/def_use.hpp`) | in-sets, out-sets, worklist, dirty flags | `monotonic_dataflow`, `add_def_use_edges` | points-to walks its edges | a worklist with flags, cycles, a pop after the pushes | least fixed point; edges are the definitions that reach a use |
| Points-to (`analysis/points_to.cpp`) | pointer assignment graph, contextual call graph, two worklists, dirty flags | `update_points_to_graphs`: the visitor, the main loop, dereferencers, virtual calls | class loading, def-use; feeds the exploded supergraph | constraints are added while they are solved; on-the-fly mode re-enters the visitor | ends; result is the least solution |
| Call graphs (`analysis/cha_call_graph.cpp`, `analysis/call_graph.hpp`) | edges in the method graph | `make_cha_call_graph`, `add_call_graph_edges` | class loading, which may grow the graph that is walked | descriptors and sizes taken before a load and used after it | every hierarchy target has an edge |
| Exploded supergraph (`analysis/ide.hpp`) | a graph over the facts of every instruction of every method | `make_labeled_exploded_super_graph` | instruction graphs, contextual call graph | vertices are found by adding to numbers, and half of them are only made by the edges between them | a fact goes where control and calls take it, and nowhere else |
| Exception flow (`analysis/exception_flow.hpp`) | edges | one pass over try blocks | instruction graph | - | every instruction of a try block that can throw has an edge to every handler of that block, and every instruction that can throw one to the exit |
| Intent and content-provider flow (`analysis/intent_flow*.hpp`, `content_provider_flow*.hpp`) | edges of the loader graph | one pass over the strings of all loaded methods | manifests, loaders | the edges are in the graph that class loading walks | no edge takes a class away from a loader's parents |
| JDWP client and `jitana-travis` (`util/jdwp.cpp`, `src/tools/jitana-travis`) | a socket, a packet id, the list of dex files of the device, counters | connect, one command and its reply, periodic update, display | the device's VM | timer, lost connection, an exception half way through an update | counts are added once and to the right instruction |
| `jitana-python` (`src/tools/jitana-python`) | the disassembled functions by name, call graphs, a queue of files | `main`: recursive disassembly, call graphs, control flow graphs, dependency graph | the CPython interpreter and its `dis` module | a backward walk over the stack effects of bytecode; recursion; names that stand for several things; circular imports | names the callee the interpreter calls; misses no callee; ends |
| Other tools (`-graph`, `-ide`, `-iac`, `-bench`), parsers and writers | none of their own | batch | library | - | - |

## 2. Modules

    Pag            what a vertex and an edge of the pointer assignment graph are
    PointsTo       the points-to analysis                 EXTENDS Pag
    InclusionSolver  abstract specification of a solver of inclusion constraints
    Andersen       the least solution of a program, defined without an algorithm
    PointsToInv    inductive invariants, refinement mapping  EXTENDS PointsTo
    AndersenInv    invariants relating the analysis to solutions
                                                          EXTENDS Andersen, PointsToInv
    MCPointsTo     small programs                         EXTENDS AndersenInv
    PointsToProofs TLAPS proofs: the refinement, the least solution, and what
                   the on-the-fly mode guarantees         EXTENDS AndersenInv
    DefUse         dataflow framework and def-use edges
    MCDefUse       all methods of three instructions      EXTENDS DefUse
    DefUseProofs   TLAPS proofs                           EXTENDS DefUse
    ClassLoading   finding and loading classes
    IntentFlow     adding applications, edges of intents  EXTENDS ClassLoading
    MCClassLoading arrangements of classes and loaders    EXTENDS IntentFlow
    ClassLoadingProofs  TLAPS proofs                      EXTENDS IntentFlow
    CallGraph      load_recursive and the call graphs
    MCCallGraph    programs of five classes               EXTENDS CallGraph
    CallGraphProofs  TLAPS proofs                         EXTENDS CallGraph
    Travis         polling a device for instruction counts
    MCTravis       two files, one of which may fail       EXTENDS Travis
    TravisProofs   TLAPS proofs                           EXTENDS Travis
    PyBytecode     stack effects and names of callees
    PyCfg          control flow graphs of Python functions EXTENDS PyBytecode
    PyTool         what jitana-python does                EXTENDS PyCfg
    MCPyTool       scripts of two functions and a class   EXTENDS PyTool
    PyToolProofs   TLAPS proofs                           EXTENDS PyTool
    InsnGraph      methods to graphs, exception edges, find_insn
    ExplodedGraph  the exploded supergraph                EXTENDS InsnGraph
    MCInsnGraph    small files                            EXTENDS ExplodedGraph
    InsnGraphProofs  TLAPS proofs                         EXTENDS ExplodedGraph
    NaturalSets    lemmas on naturals, finite sets and sequences, which the
                   proofs of several parts use

The modules meet at their constants. `PointsTo` reads def-use edges from its
programs, where `DefUse` says what those are; it reads the answers of
`find_class`, `find_field`, `find_method` and the `method_super` edges from
`SuperclassOf`, `FieldClass`, `Dispatch` and `Overrides`, and `ClassLoading`
says how those answers come about. `CallGraph` is what the tools do before
`PointsTo`: it decides what is loaded when the analysis starts. The control
flow graphs that `DefUse` takes as given are made in `InsnGraph`, whose
`FindInsn` is what `Travis` uses to give a count to an instruction. `IntentFlow`
runs between the calls of `ClassLoading` and changes the graph they walk;
`ExplodedGraph` goes on where `InsnGraph` ends.

### 2.1 PointsTo

Models `update_points_to_graphs` for one entry method and a fresh graph, in
both modes (`OnTheFly`). The state is that of `pag_updater`: the graph's edges,
the points-to sets and in-sets as sets of pairs, the dirty flags, the worklist
of vertices, the dereferencers, the virtual calls of each register, the visited
pairs of context and method, the visitor's queue, and the contextual call graph.
A vertex is its key, as the lookup tables of the graph make it.

`Next` is `Visit \/ Update`. `Visit` has one action per group of visitor
overloads (`VisitAlloc`, `VisitAssign`, `VisitStore`, `VisitLoad`,
`VisitStatic`, `VisitInvoke`, `VisitOther`) and the loop around them
(`SkipVisited`, `BeginMethod`, `EndMethod`, `QueueDrained`). `Update` is the
main loop: `PopUnchanged` and `Pop` take a vertex and apply `filter_in_set`;
`AddDerefEdge` is one iteration of `update_dereferencer`; `CollectCalls`,
`ProcessDeclared`, `ProcessCall` and `CallsDone` handle virtual calls, and in
on-the-fly mode enter `Visit` again; `Forward` is one edge of
`process_outgoing_edges`; `ClearInSet` ends the round; `UpdateCcg` ends the
analysis. Sets the code walks in the order of a hash table or of edge insertion
are walked in any order. Strings, line numbers and types with more than the
hierarchy's structure are abstracted; an instruction whose operands are not
loaded and a quick invoke have no effect and are `VisitOther`.

`InclusionSolver` says what any such solver promises: elements move along flow
edges unless a filter blocks them, and it stops only when nothing can move.
`PointsToInv!ImplementsSolver` maps the detailed state on it (`Solver`).
`Andersen` defines the least solution of a whole program by iterating
Andersen's rules, without worklists, contexts of the loop or in-sets; `Exact`
and `Precise` compare. `Solves` says when a set of pairs solves the constraints
of a program; the iteration takes `MaxRounds` rounds, and `Exact` and `Precise`
say of their result that it is a solution, so a bound that is too small shows.

### 2.2 DefUse

Models `monotonic_dataflow` with `reaching_definitions` and the loop of
`add_def_use_edges`. `StartTree`, `Descend` and `Finish` are the depth-first
search whose finishing order fills the worklist; `Unchanged`, `Changed`,
`PushSuccessor` and `PopHead` are the loop, in which the head is popped and its
flag cleared after its successors were queued; `AddEdges` makes the edges. An
instruction is what it defines and uses, and where it goes. `DefUseExact` is
the reference: a definition reaches what lies on a path from it on which nobody
else defines its register; paths are followed one instruction further at a time
(`Reached`), without the sets of the analysis.

### 2.3 ClassLoading

Models `find_class`, `find_method` and `find_field` for both kinds of handles,
`load_all_classes`, `class_loader::load_class` and `dex_file::load_class`. The
calls in progress are a stack of frames: the C++ call stack. Each action is a
step of the frame on top: the lookup that answers at once (`FindKnown`), one
vertex of the walk over the loader graph (`SkipLoader`, `FindThere`,
`Discover`), one DEX file (`SkipFile`, `LoadFromFile`), the return of a nested
call (`FindLoaded`, `FindNext`, `SuperLoaded`, `Abandon`, `MemberLoaded`,
`MemberNoClass`), and `Define`, which is `load_class` after superclass and
interfaces are there: the four tables, the handles in the order in which the
code registers them (a later registration replaces an earlier one), the loop
that makes the vtable and its search for an overridden entry, the offsets, modulo 2^16, and the vertices. A program
is `world`: the loaders, the definitions in their files, and the calls that the
user of the library makes in any order. Instructions and access flags are left
out.

`IntentFlow` adds what happens between two calls: `AddApk` adds a loader below
its parent, `AddIntentFlow` and `AddProviderFlow` scan the strings of all
loaded methods and append an edge to each application that answers to one, by
the name of a component, an action, or the name of a provider. A name is the
sequence of its parts. What the edges are labelled with is left out.

### 2.4 CallGraph

Models `load_recursive`, `add_call_graph_edges` and `make_cha_call_graph` in the
order in which the tools call them, with the second `add_call_graph_edges` of
`jitana-graph`. Its subject is that all three walk a method graph that their own
lookups extend. `stack` is the C++ call stack of `load_recursive_impl`: a frame
is at an instruction (`LoadClass`, `LoadField`, `FindCallee`), about to collect
the targets of a call (`CollectTargets`), or entering them one by one
(`EnterTarget`, `TargetsEntered`). `StartCha`, `TakeMethod`, `SkipInsn`,
`WalkCall`, `MethodWalked` and `ChaDone` are the worklist of
`make_cha_call_graph`; `sized` is the size of its `visited` vector. Where a
lookup in `WalkCall` adds methods, the code uses a dangling reference and a
vector past its end: the bit reads as anything and `status` may become
`undefined`. The answers of lookups follow `ClassLoading` (an overridden vtable
entry stays, so an override hangs below the first method of its name; `Resolved`
and `Overriding` say what the hierarchy means instead), with a
class and its superclasses loaded in one step and one loader; interfaces are
left out.

### 2.5 Travis

Models `update()` of `jitana-travis` over one JDWP connection, with the device
at the other end. `pc` is the place in `update()`; `idle` is the GUI loop, in
which `Update` (the timer) and `Display` happen. `Connect`, `SendCommand`,
`SkipCommand`, `ReplyHeader`, `EnterDexFile`, `Insn`, `ExitDexFile` and
`Received` are `receive_insn_counters` packet by packet; `ConnectFails` and
`IoFails` are the errors that `update()` catches. `Pull`, `SkipFile`, `AddFile`,
`Added`, and the two failures `AddFails` (caught) and `BadName` (not caught) are
the loop that gives new files a handle. `UpdateGraphs` is the rest, with the
exit after SIGINT.

The device opens and closes files (`OpenDex`, `CloseDex`), answers with a
report (`Report`: the open files in any order, any counts), sends commands of
its own (`Event`), and the connection may break with any part of what is under
way arriving (`Break`). Since the device lists a file before it has copied it,
`Pull` gets any subset of the files. `owed`, `last` and `earlier` are
history variables of the properties: what has been reported in all, and for each
file what the last report that named it and the one before this update said. When an instruction was last seen, the instruction vertices,
drawing, keys and output files are left out; a reply with an error code is not
sent by a device that has the patch.

### 2.6 PyTool

Models `jitana-python` from the moment a function is chosen. `Examine` is one
instruction of the recursive disassembly: `PyBytecode!CallableName` walks back
from a call over the table of stack effects, `Resolve` looks the name up among
the objects of the program, and the callee is entered (`Enter`) or recorded.
`CallGraphs` and `Combine` make the call graphs and their union, `PyCfg` the
blocks and edges of a function and the edges between functions, and `Again` and
`Scan` are the queue of the dependency graph. The tool keeps functions by the
name a call gives them and so does the model. `PyBytecode!Called` executes the
code forwards with a stack, as the interpreter does, for `CalleeExact`. The
interpreter is external: a program is a constant with its objects, their
attributes and their instructions. Prompts and files are left out.

### 2.7 InsnGraph and ExplodedGraph

`InsnGraph` makes the graphs of the methods of a file one after the other:
`AddVertex`, `SkipPayload` and `AddGarbage` are one round of the decoding loop,
`AddTry` a try block, `AddEdges` the edges of one instruction, and `BeginDebug`,
`Special`, `AdvancePc`, `AdvanceLine`, `OtherOp` and `EndDebug` an opcode of the
debug information, read from bytes. `AddExceptionFlow` is
`add_exception_flow_edges`, `FindInsn` the way back. One opcode stands for each
kind of control flow; instructions are looked up by their offset modulo `Span`,
which is 2^16 in the code. `pc` ends as "error" where the code throws, as
"undefined" where it dereferences what is not there, and as "astray" where the
debug machine reads what is not debug information.

`ExplodedGraph` goes on for some files: `LayInsn` lays the vertices of one
instruction, `LocalEdges` adds the edges after it, `AddCall` those of one call
edge. A vertex is its number, as in the code, and `lut` the table of first
numbers. The graph is a named graph: a vertex whose name is taken is not added,
and an edge to a number beyond the end makes all vertices up to it, without
names. That is how the vertices after an invocation come about.
`Expected` is the reference of its properties: where control, the arguments of a
call, all of them, and what a method returns or throws take a fact.

## 3. The runs

| Run | Result | What it shows |
|---|---|---|
| `PointsToOffline` | holds | With class hierarchy analysis (the default mode): the analysis ends with exactly the least solution (`Exact`), closed along edges and fields (`FlowClosed`, `HeapConnected`). On the way flags and worklist agree (`WorklistIsDirty`), no element waits where nobody looks (`NoStrandedElement`), none is dropped (`NothingLost`), and every step is a step of the abstract solver (`ImplementsSolver`). |
| `PointsToOnTheFly` | holds | With the call graph built during the loop: it ends (`Terminates`), dispatches all calls (`DispatchComplete`), connects what goes through objects although methods are visited in the middle of a round (`HeapConnected`), and never exceeds the least solution (`Precise`). |
| `PointsToArguments` | violated | `ArgumentsArrive` fails twice: in on-the-fly mode for an argument that was stable before the call, and for a call with a `long` before a reference. See findings. |
| `DefUse` | holds | For every method of the bound the result solves the equations (`Fixpoint`), the edges are exactly those of the definitions that reach a use (`DefUseExact`), and the loop ends. |
| `ClassLoading` | holds | `Resolution`: whatever is loaded, in whatever order and with whatever failures, a class handle leads to the class that the rule "first loader on the walk, first file, whose superclass and interfaces can be found" gives in the loader graph of the moment. `ParentsFirst`: the edges of intents take no class away from the parents. `DefiningHandle`, `FieldLayout`, `OverridesComplete` for the vertices made; `HandlesNeverMove`: no later load and no new edge changes an answer that was given; `Answered`: every call returns. |
| `CallGraph` | holds | When `load_recursive` returns, what its methods name is loaded and what they call has been entered, through initialisers and recursion (`VisitedClosed`); call edges are complete after the first time and never doubled (`OneEdgePerCall`); the class hierarchy call graph has exactly the calls, by subclass and signature, that are reached from the entry, if nothing was loaded while it was built and no reached call names a method in the middle of its line of overrides (`ChaExact`); all of it ends (`Terminates`). |
| `CallGraphDependencies` | violated | `HierarchyCovered` fails twice: an overrider loaded after the call is never entered by `load_recursive`, and a call that names an overriding method has no edges to those that override it in turn. See findings. |
| `Travis` | holds | Over several updates, with reports that break off at any packet: each count that the device has cleared and that arrives is added once and to its instruction (`CountsConserved`), whenever no report is being read the activity of each file is what has arrived of the last report that named it, after ordinary polls, polls that bring new files and polls that fail alike (`DeltaOfLastReport`), a handle leads to its file whatever failed before it was given (`HandlesMatch`), and every update comes back to the GUI loop or ends the program (`UpdateEnds`). |
| `PyTool` | holds | The recursion misses no callee (`CalleesRecorded`), the backward walk names what the interpreter calls (`CalleeExact`), blocks, edges and the edges between functions are those of the bytecode and agree with the call graph (`FlowGraphsFaithful`), the dependency graph has what the script reaches (`DependenciesExact`), and all of it ends (`Terminates`). |
| `InsnGraph` | holds | However payloads lie, what can be reached is a vertex with the edges of the format (`GraphFaithful`); the handlers of an instruction are those of the blocks it begins in (`HandlersFaithful`); lines are right until the first opcode whose operands are not read (`LinesFaithful`); every byte of the file leads to the instruction whose first code unit it is in, or to none (`InsnFound`); a fact of the supergraph goes where control, calls and returns take it and nowhere else, but for the two losses of the next run (`SupergraphExact`). |
| `SupergraphLosses` | violated | `SupergraphComplete` fails twice: the last argument of a range call does not reach its parameter, and what a method returns is not the result after the call. See findings. |
| `TravisDisplay` | violated | `DisplayDefined` fails: `display` dereferences a handle that is not set, see findings. |

Bounds.

* Points-to: `main` allocates two objects and has up to three more instructions
  of every kind the visitor handles, with loops; class `B` overrides `A.m`, one
  field, array elements, a static field and a class initialiser. Each clause of
  the solver relates at most two objects, two registers and a field, and three
  instructions after the allocations order any two constraints before or after
  the facts that trigger them. `MaxRounds` = 20 rounds of `Andersen` settle each
  of these programs. In the programs of the passing runs every call has its
  arguments in place; `RangeAssumption` says so, and that those of
  `PointsToArguments` are none of them.
* Def-use: all 14 x 14 x 5 methods of three instructions over two registers
  (assignments, copies, jumps, branches, a switch, returns), between ENTRY and
  EXIT. Self-loops, nested and irreducible loops, unreachable code and dead
  definitions all occur.
* Class loading: five classes (a chain of up to four and an interface) over
  three loaders; the superclasses in each possible place, doubled or missing; a class whose first file fails and whose second
  file works; four choices of what is declared where. All sequences of calls
  are explored, since the tables only grow and make the space finite. In the
  arrangements with a second application it is added at any moment, defines
  classes of the same names, and the loaded methods are scanned up to `scans` =
  2 times, which is enough for edges in both directions.

* Call graphs: main methods of up to two instructions, each of which may load,
  call, create, cast or access; a method of `A` that `B` and `C` below it may
  each override or inherit, and calls that name any of the three; a static
  method, an initialiser and a class that is in no file; the bodies call back
  into each other, so that nested loads come between a call and what follows it. Two instructions in `main` are enough for every order of a call
  and the load of an overrider, and the bodies nest further.
* Polling: two files, one of which may have a relative path, one instruction
  each; counts up to `MaxCount` = 1 in up to `MaxReports` = 2 reports that have
  counts, and any number without. Two reports are needed to tell "added" from
  "replaced" and "active now" from "active before"; two files for a handle that
  does not follow the place of its entry.
* `jitana-python`: scripts with a main function of every pair of 15 statements,
  a helper, a library, a class with two methods, and name clashes between them;
  the backward walk looks at `MaxDepth` = 6 instructions (20 in the code), so
  that code is both shorter and longer than that.
* Instruction graphs: rows of two instructions, jumps and switches of up to
  three cases to every place, arrays of up to three elements of every width,
  try blocks from and to every instruction and unit of a method with a payload
  in the middle, every sequence of three debug opcodes, and files of two
  methods. `Span` = 64 instead of 65,536, with methods on both sides of it.
* The supergraph: 120 programs of three methods with calls of up to two
  arguments, given one by one or as a range of one or two, recursion, an
  exception, and a method without code.

The runs that are violated have one or two programs of their own, written so that
one trace shows every loss the property is about: `MCArgumentPrograms`,
`MCLatePrograms`, `MCRangeCall`. `TravisDisplay` has the programs of `Travis`.

Except for polling, scans and the depth of the walk no counter needs a bound:
the state spaces are finite as they are.

Fairness. The analyses have weak fairness of `Next` (class loading: of `Next`
while a call is in progress). The code is one sequential function, so it only
says that the program goes on running; the choices within `Next` carry no
fairness. Polling has weak fairness of `Handler`, the steps of a handler that
has begun, for the same reason, and of `Report`: a connected device answers.
The code does not check the second, it reads without a time limit; `UpdateEnds`
shows that nothing else can hold an update up. Neither the timer nor any failure
is fair.

Where the analysis ends (`pc = "done"`) the model has no next step, so deadlock
is not checked in the points-to, def-use, call graph, `jitana-python` and
instruction graph runs; nor in the polling runs, where the program may exit. It
is checked in the class loading run: no call gets stuck.

## 4. The proofs

TLAPS proves the following for every value of the constants, that is for every
program, hierarchy, number of files and so on, where TLC takes small ones. The
assumptions are those named in the modules: programs are well formed
(`ProgramAssumption`, `ProgramsAssumption`, `MethodsAssumption`), the
hierarchy's functions have the right types (`HierarchyAssumption`), the receiver
of a virtual call is a register of the method that calls and its target has a
`this` parameter (`ReceiverAssumption`), what is finite in the code is finite,
and the null vertex is no vertex. A class declares no two fields and no two
methods of one name, and a request gives two handles of the same thing
(`WorldsAssumption`, `RequestsAssumption`); an application is added below a
loader that is there (`ParentsAssumption`). No chain of superclasses and
interfaces leads back to where it began (`CircleAssumption`): a verified APK has
none, and with one `load_class` would call itself for ever (`dex_file.cpp:198`). What a theorem assumes beyond that is in its
statement, and is given here.

### 4.1 Points-to

`PointsToProofs`, both modes:

* `TypeSafe` - the analysis keeps the shape of its graph, sets and queues. The
  invariant is `TypeInv`: on top of `TypeOK` it says that elements are
  allocating instructions of the program and registered calls are its invoke
  instructions, without which the lookups of the next step are undefined.
* `WorklistSound`, `NothingStranded` - the dirty flags are the worklist, and an
  in-set that is not empty belongs to a queued vertex or to the current one.
  The invariant is `ListInv`; it needs to know in which phases a current vertex
  exists.

`PointsToProofs`, class hierarchy mode (`~OnTheFly`):

* `FlowSound`, `HeapSound` - the analysis can only end closed under all flow
  edges and with every access through an object connected to the object's
  field. The invariant `SolverInv` has five parts. `PhaseInv`: everything is
  visited before anything is solved. `ShapeInv`: only stores enter a dereference
  and only loads leave it, so a dereferencer never feeds the register it hangs
  on. `RoundInv`: what the round is about to forward is already in the points-to
  set. `FlowInv`: what an edge should have carried is at its target, in its
  target's in-set, or still in the round. `HeapInv`: the same for fields. On
  exit nothing is in a round or an in-set, and the two last parts become
  `FlowClosed` and `HeapConnected`.
* `SolverImplemented` - the analysis implements `InclusionSolver`. Two more
  invariants are needed for a step of the code to be a step of the abstract
  solver, since the code merges an in-set long after it was sent. `SourceInv`:
  objects come from allocations that were visited. `CarryInv`: for all that
  waits in an in-set there is an edge whose source still has it.

The second half of the module compares the analysis with the constraints of the program it
analyses. A solution (`Solves`) has all that its own elements require.

* `BelowSolutions`, both modes - at no step does the analysis have more than any
  solution. The invariant is `Within` for an arbitrary solution `s`: not only
  the points-to sets, also what waits, the queued invocations, the edges, the
  registered calls and the rest of the round ask for no more than `s` has. Its
  interesting part is a load or store edge, which asks for nothing itself and
  may be connected to the fields of objects that appear later: `EdgeAllowed`
  speaks of all owners that `s` allows. `GraphInv` is `ShapeInv` and its like
  for both modes.
* `LeastSolved`, class hierarchy mode - when the analysis ends, its sets and
  visited invocations are a solution, and by `BelowSolutions` the least one.
  The invariant is `VisitedInv`: for each instruction of a visited invocation
  that is not still ahead of the visitor, the graph has all the constraints of
  the instruction, and its callees have been entered. With `FlowClosed` and
  `HeapConnected` at the end, edges become inclusions.
* `PreciseProved` (both modes) and `ExactProved` (class hierarchy mode) - the
  properties that the runs check. They assume `Solves(LeastSolution)`: that
  `MaxRounds` rounds are enough for the program, which is a statement about the
  constant `MaxRounds`, not about the code.

All of these but the invariants assume `ArgumentsInPlace`: no call passes a wide
argument by a form that is not a range call before a reference. Without it they
are false, which is finding 2 and the run `PointsToArguments`.

For two more theorems the on-the-fly mode is the hard case:

* `InSetSound` (`NothingLost`), both modes - no step drops an element from an
  in-set before it is in the points-to set, unless it has the wrong type. In the
  on-the-fly mode the visitor runs in the middle of a round and sends objects
  along the edges it makes; if one of them led to the vertex of the round,
  `ClearInSet` would lose it. `PlacedInv` says why none does: a register belongs
  to one invocation, and it gets neither an element nor a virtual call before
  all instructions of its invocation were visited, so the vertex of the round
  belongs to an invocation that is never visited again.
* `DispatchProved` (`DispatchComplete`), on-the-fly mode - at the end every
  virtual call on an object has had its target entered and the object has
  reached the target's `this`. `DispatchInv` follows an element of a receiver:
  its round is still before the call (`ToDispatch`), or the target is entered,
  its `this` edge is there, and the element is on its way along it
  (`OnItsWay`). That the edge is added in the middle of the round of the very
  register it leaves, before that register's elements are forwarded, is what
  saves the receiver; the other arguments have no such luck (finding 1).

### 4.2 Def-use

`DefUseProofs`:

* `TypeSafe`, `WorklistSound`, `FixpointReached`, `LeastSolution`. The search
  finishes every vertex exactly once (`SearchInv`), so the worklist is complete
  and without duplicates when the loop starts. `FlowInv` says of each vertex
  that is not dirty that its equation holds. The interesting step is a vertex
  that is its own successor: its flag is still set while its successors are
  queued, so it is not queued again. The invariant holds because the transfer
  function kills by register and generates afterwards, so a second application
  of it changes nothing. `LeastSolution` says that in-sets never exceed any
  solution of the equations; with `FixpointReached` the result is the least one.
* `EdgesExact` (`DefUseExact`) - the edges are those of the definitions that
  reach a use on some path. Both directions go through the equations: the paths
  are a solution of them (`PathsSolve`), so the least one has no more; and every
  solution has what a path brings (`PathsBring`). `Reached` is the last of a
  growing chain of sets of instructions, as long as the method; that it is
  closed is a counting argument (`ReachedChain`, `ReachedClosed`): a chain that
  has not stopped has a new instruction at every link.

`DefUse!TypeOK` and `WorklistIsDirty` are proved only: no run needs them.

### 4.3 Call graphs

`CallGraphProofs`:

* `LoadedClosed` (`VisitedClosed`) - when `load_recursive` returns, what its
  methods name is loaded and what they call was entered. `LoadInv` accounts for
  every visited method: it is done, or a frame of the C++ stack is at it, and
  then the instructions before the place of the frame are done and the targets
  of the one it is at are visited or in its `todo` (`FrameInv`). That an
  instruction stays done while more is loaded needs that the answer of a lookup
  does not change once its class is there (`LookupStable`).
* `EdgesOnce` (`OneEdgePerCall`) - `EdgeInv`: no edge is in the bag twice, and
  after the first pass there is one for each call, so that the second pass finds
  them all.
* `ChaGraphExact` (`ChaExact`) - if nothing was loaded meanwhile and no reached
  call names a method in the middle, the call graph is that of the class
  hierarchy: a call leads to the nearest declaration above and to the methods of
  its name in the classes below that (`Resolved`, `Overriding`), whatever the
  vtables and `method_super` edges are. `ChaInv` says of the loop that what is
  `seen` is in every set closed under the edges it makes, and that the edges of
  the instructions already walked (`Covered`) are there and lead to what is seen.
  It holds only while the graph has the size it had at the start, which is the
  hypothesis that `ChaExact` has too. That the edges made for a call are the
  calls of the hierarchy is a statement about chains of superclasses: the vtable
  has the first declaration, which is the nearest if it is the only one
  (`LookupResolves`), and under it hang the overriders (`OverridersAre`).

### 4.4 Polling

`TravisProofs`:

* `CountsKept` (`CountsConserved`) - what is counted and what is under way is
  what the device has reported, whatever breaks. `BaseInv` has the shape of the
  wire (one packet per file, nothing behind the end of a report or the place
  where it broke); `CountInv` is the balance, packet by packet.
* `DeltaKept` (`DeltaOfLastReport`) - `DeltaInv` tells two cases apart for each
  file and instruction. While a packet of the file waits to be read, the
  activity is still that of the reports before this update and the count of the
  packet is that of the last report. Otherwise the activity and what is left of
  the packet add up to the last report, and the activity of an instruction that
  is still in the packet is zero, so that assigning the count (`c.delta =
  counter`) adds it. A packet that a broken connection swallows takes the last
  report back to the one before (`earlier`).
* `HandlesKept` (`HandlesMatch`) - it assumes that the device has no more than
  256 files, since the index in a handle has 8 bits. `HandlesInv`: every file of
  the loader has exactly one handle, which is its place.

### 4.5 Class loading

`ClassLoadingProofs`, about `IntentFlow!ISpec`: applications and edges may be
added between the calls.

* `HandlesStay` (`HandlesNeverMove`) - no step moves the handle of a class that
  was answered. Most steps bind a handle that was free, or bind it again to
  what it has. The danger is `Define`, which binds the handle of its class
  without a look at the table: if anything that happened since the class was
  looked for had bound it, the answer would move. The invariant `IInv` says why
  nothing has. `StackInv` gives the frames their shape and says who called whom;
  `OpenInv` that the class a frame looks for or loads is unbound in the loader
  that was asked and in the one where its files are tried; `AnswerInv` that a returned vertex agrees with the
  table; `ClassInv` that tables lead to vertices. A `Define` on top of the stack
  binds a class under the loader of a file, and keeps `OpenInv` for the frames
  below because these are about classes of other names (`NamesApart`): each
  frame loads for the one below it a superclass or interface of that one's
  class, and `CircleAssumption` says that such a chain never comes back.
* `FoundByDefiningHandle` (`DefiningHandle`) - every class, method and field is
  found under its defining handles as long as `NothingHidden` holds: no loaded
  class has a static field with the name of an inherited instance field, or a
  direct method with that of an inherited virtual one. The run `ClassLoading`
  meets the hypothesis in all its states. Without it the property is false, which
  the attempt to prove it brought to light: `load_class` registers the inherited
  instance fields under its class after the static ones of the class
  (`dex_file.cpp:305,325`), so a static field with the name of an inherited
  instance field is not found under its own JVM handle. `HidingWorlds` in the
  place of `MCWorlds` in `ClassLoading.cfg` shows it in one load. The classes need no hypothesis
  (`ClassesInv`). `HInv` has four parts: `ClassesInv`; `VerticesInv`, a method
  or field has handles and its class is bound; `KeysInv`, no handle of a file
  without that of its loader; `MembersInv`, which is the property. A step that
  is not `Define` is `Tame`: it leaves every handle where it is, or binds one of
  a file to what that of the loader leads to. Of `Define` the proof follows the
  four lists of assignments one after the other (`FourRegister`): what a class
  declares comes after what it inherits in the same list, later lists have other
  names (`WellFormed`, `NothingHidden`), and members of other classes are not
  touched, because their classes are bound and the new one was not
  (`MemberStays`).
* `FieldsApart` (`FieldLayout`) - the fields of a class do not overlap, end
  before its size and lie where its superclass has them, as long as
  `NothingHidden` holds and no class has more than 8191 static or instance
  fields with those it inherits (`FewFields`). Offsets have 16 bits and a field
  at most 8 bytes, so that with 8191 fields no sum wraps around, and with more it
  may. `LayoutInv` speaks of the classes and the fields, and not of the tables:
  each list of fields of a class has vertices that lie one after the other below
  the size of the class (`Spread`), and begins with the list of the superclass
  (`TakesOver`). Only `Define` makes fields, and a new class goes on where its
  superclass ends (`SpreadGrows`, `NewClassLaidOut`); a field keeps its offset
  for ever. The lists of a class are handles, so to say which field a program
  reaches by one takes `MembersInv`, and with it `NothingHidden`.

### 4.6 jitana-python

`PyToolProofs`, for every program, that is for every heap of objects and all
bytecode. Three things are assumed of it (`ProgramsAssumption`,
`FileAssumption`): the code of a function is a sequence that ends in an
instruction no way leads past (`Ends`; the compiler ends every function with a
return, a raise or a jump back), arguments of instructions are naturals, and the
script has finitely many files.

* `CalleesKnown` (`CalleesRecorded`) - when the recursion is over, no callee is
  missing. `PendingInv` is about every call site of every name recorded so far:
  the call has been dealt with (`Handled`), or there is a frame of its function
  on the stack that still comes to it (`Awaited`). It is an invariant because a
  name is recorded in the step that pushes its frame, and a frame moves on only
  past a call that is dealt with. The sharing of names by different objects is
  why it speaks of the object a name had when it was recorded.
* `ImportsFollowed` (`DependenciesExact`) - the files processed are those the
  script reaches, with the edges of their imports. `DepsInv`: the files
  processed or queued are within `FilesReached` and are closed under the imports
  of the processed ones. That `FilesReached`, the last of as many rounds as there
  are files, is closed itself is the counting argument of 4.2 (`ChainStops`).
* `FlowFollowsCode` (`FlowGraphsFaithful`) - blocks, edges, and the agreement of
  the interprocedural graph with the call graph. Of a function it takes that
  block boundaries are where control changes (`EndFacts`, `BlockFaithful`). The
  hard part is that one graph names a callee by a walk within the block of the
  call and the other by a walk through the whole function. `FoundInPart` says
  that the two cannot disagree once the first finds a name: the walk only ever
  looks at the instructions before, so it meets the same ones until it leaves the
  block, and one that leaves the block has found nothing. `CallsCounted` then
  compares numbers: the calls of a block are mapped injectively to call sites of
  the function, which `GraphInv` says were all counted, and `UnionOfGraphs` that
  adding up the graphs of all functions loses no count.

### 4.7 Instruction graphs

`InsnGraphProofs`, for every file of methods with any code, try blocks and debug
information, and for every run of the loader over it, also one that goes on to
the supergraph. Two things are assumed of a file. `FilesAssumption`: what begins
at an offset is an instruction or a payload with the length the format gives it,
and a try block has as many handlers as its signed number says.
`ApartAssumption`: two methods share their code or the code of one ends before
the header of the other. A method need not be `Legal`, and what begins at an
offset need not be followed by anything; `Legal` is the hypothesis of the
properties, as in the run. Of the jumps and the flow of control it asks only
that what can be reached stays in the code, so code that nothing reaches may run
into a payload.

The invariant `InsnInv` follows the code's order. `Decoding`: the vertices are
the instructions before the place the loop has come to, in order, and in a legal
method something begins there; a step keeps it because the length the code
computes is that of the format and nothing begins in between (`NextPlace`).
`InTries`: the try blocks made so far come from those of the method (`TryOf`).
`InEdges`: the edges are those of the vertices passed, and every lookup of a
target succeeded. `Finished`: all of this holds of each graph that is made, and
the debug machine, wherever its bytes lead, only gives lines to vertices.
`FlowInv`: the methods passed by `AddExceptionFlow`, and no others, have their
exception edges.

* `GraphsFollowCode` (`GraphFaithful`) - the code continues to the next vertex,
  the format to the next code unit. They agree for what can be reached:
  `Reachable` is closed (`ReachableClosed`, by `ChainStops`), so the next unit is
  an instruction and no payload, and then it is the next vertex (`NextVertex`). A
  switch case that leads to the next instruction has no edge of its own; the edge
  to the next vertex stands for it (`CasesLabelled`). A lookup that fails means
  that the method is not legal (`JumpLeads`).
* `HandlersFollowTries` (`HandlersFaithful`) - the backward search for the last
  instruction of a try block ends at the last vertex that begins in it
  (`LastFound`), whatever lies at the end of the block. So the vertices from the
  first to the last are those whose offsets are in the block (`GuardedBegins`).
* `PlacesLead` (`InsnFound`) - `MethodFound`: the lookup finds the last of the
  methods whose code begins last before the place; `SameCode`: if the place is in
  the code of any method, then the one found shares that code.

### 4.8 Helpers, and what is only model-checked

The library's induction theorems take an operator as a parameter, which the
provers here cannot instantiate. `NaturalSets` states induction about a set
instead (`AllNaturals`: a set of naturals with 0 and every successor is all of
them), proved from a well-founded order, and from it that a function defined by
recursion over the naturals exists (`IterateExists`). That is how `Rounds`,
`Reached` and the loop of `Vtable` are reasoned about; `TotalsExist` does the
same for the sums of the sizes of fields. `ChainStops` is about iterations that
only add to a finite set: after as many rounds as it has elements, one more adds
nothing.

Only model-checked: termination (`Terminates`, `Answered`, `UpdateEnds`), since
liveness under fairness and `ENABLED` are not in the prover's reach; and
these invariants, where the reason is another one:

* `Resolution`, `ParentsFirst` and `OverridesComplete` of class loading, whose
  reference definitions are recursive operators or relations over the loader
  graph that the provers cannot expand;
* `CalleeExact` of `jitana-python`: `PyBytecode!Run` executes only the opcodes
  that the programs of the run use, so a theorem for every program would be false;
* `LinesFaithful` compares with a machine whose registers have no width and whose
  numbers are sums over the bytes of a LEB128, by a fold of the community modules
  that is recursive inside; it holds as long as the registers stay within 16
  bits, as they do in the run;
* `SupergraphExact`: the numbering by additions rests on `SelectSeq` and on data
  of the instructions (registers, arguments, callees) that `ExploredAssumption`
  does not restrict.

`FlowClosed` and `Exact` are not stated for the on-the-fly
mode: they are false there (finding 1).

## 5. Findings

1. On-the-fly mode loses arguments (`points_to.cpp:145`). When a method is
   visited during the main loop, its argument edges are added, but what the
   arguments already point to is not sent: the call that would do it is
   commented out. Whether the parameter gets the objects depends on the order of
   the worklist; in the run `PointsToArguments` no order gives them to it. The
   test runs both modes as the same analysis.
2. A call that is not a range call and passes a `long` or `double` before a
   reference connects the wrong register (`points_to.cpp:204-210`): this loop
   indexes by parameter, the range loop by register.
3. `load_recursive` does not load all dependencies (`virtual_machine.cpp:562`):
   overriders are collected once per call, from what is loaded then
   (`CallGraphDependencies`). What a missed overrider names is loaded by `make_cha_call_graph` in the middle of
   its walk, which is undefined behaviour (`cha_call_graph.cpp:44,59,78`).
4. `jitana-travis` draws with a handle that is not set (`main.cpp:243`) after a
   report that broke off, or after a file that could not be opened yet; such a
   file is tried again only when a further one appears (`main.cpp:718`).
5. An override does not replace the vtable entry (`dex_file.cpp:477-489`), so
   every method that overrides hangs under the first declaration. If `B.run`
   overrides `A.run` and `C.run` overrides `B.run`, a call that names `B.run` has
   no edge to `C.run` in the class hierarchy call graph (`CallGraphDependencies`).
6. The last register of a range call has no edge to its parameter in the exploded
   supergraph: `regs_vec` counts one register too few (`insn.hpp:106`), where
   the entry's `defs` counts right (line 274).
7. The result of a call is lost in the exploded supergraph: the instruction table
   says that the invocation sets the result, so the fact after it is taken from
   the empty one and not from what the callee returned (`ide.hpp:138`). The run
   `SupergraphLosses` shows both in one call.

Other places where the code does what its reader may not expect. No document
says otherwise, so they have no run; the models do the same as the code, or
leave the case out where this says so.

* Class loading. A static field with the name of an inherited instance field is not
  found under its class (4.5), although every object has a "unique *defining
  handle*" (`src/README.md:200`). A call without loading (`try_load = false`) on a loader whose
  class is shadowed caches the parent's class for ever
  (`virtual_machine.cpp:72`), and a call for a method its class lacks goes on
  with classes of the same name in other loaders (line 170); the requests of
  the run make no such call. A class without class data inherits no tables
  (`dex_file.cpp:237`), and a class whose superclasses lead back to it would be
  loaded for ever (line 198).
* Call graphs. For the reason of finding 5 a class that inherits an overriding
  method gets the overridden one under its own method handle
  (`dex_file.cpp:421`): if `B.run` overrides `A.run` and `C` extends `B`, a call of
  `C.run` has its edge to `A.run`, from where class hierarchy analysis goes on
  to `B.run`. `OneEdgePerCall` takes this for what `find_method` answers.
* Intents. The walk of `find_class` follows every edge of the loader graph, so
  after intents are scanned a class that no parent has is found in another
  application. A second scan doubles the edges. `content://` strings are
  compared with the class name of a provider, not with its authorities
  (`content_provider_flow.hpp:66`).
* Points-to. A second `update_points_to_graphs` on the same graph would not send
  what is already stable along new edges (`points_to.cpp:726`); every caller
  makes a fresh graph. A static field or the target of a virtual call that is
  not found ends the analysis half way (lines 403, 803).
* Def-use. The analysis runs on control-flow edges only, so no definition
  reaches a handler (`def_use.hpp:98`), and an instruction has no edge from
  itself in a loop (line 110).
* Instruction graphs. `start_local` and four other debug opcodes leave their
  operands to be taken for opcodes (`dex_file.cpp:1831`). Instructions are
  looked up by 16 bits of their offset. `unused` and `throw-verification-error`
  become a `nop` (line 1746). Array payloads are copied by elements where bytes
  are meant (line 1049). A file in which methods share their code gives counts
  to the last of them.
* The supergraph. The vertices after an invocation have the names of no
  register, so `return_vertex` is never set (`ide.hpp:100`).
* `jitana-python`. The stack effect of a call ignores the NULL below a callable
  that is a variable; `FOR_ITER` has no edge out of its loop (nor would
  `SEND`, which no program of the run has) and `RERAISE` has one to the next block; imports at the top level of a module make no edge.
* Polling. No read has a time limit (`jdwp.cpp:94`); if `execl` fails the child
  goes on as a second copy of the program (`main.cpp:645`); the device's counters
  are read and cleared while the interpreter increments them.

## 6. Not modelled, and the plan

1. Proofs. `Resolution` and `OverridesComplete` of class loading, then the
   supergraph.
2. The call edges of `ExplodedGraph` are data of the file; they could be the
   contextual call graph that `CallGraph` builds.
3. Polling: replies with an error code, and the child process whose `execl`
   fails.

Not planned, with the reason:

* `intent_flow_intraprocedural.hpp`, which is switched off (`jitana-iac`,
  `main.cpp:78`). It keeps references into the method graph across calls of
  `find_method` that may load, as `make_cha_call_graph` does, and methods loaded
  by it are not scanned.
* The operands and formats of instructions, array data and parameter names:
  tables, one line for each opcode, with no state.
* `axml_parser.cpp` (of its 1,863 lines most are a table of names), the manifest
  and XML reading of `apk_info`, Graphviz output: input and output.
* `jitana-graph`, `-ide`, `-iac` and `-bench`: they call the library in the order
  that `CallGraph` and `IntentFlow` follow, and write files.
* Nearly 35,000 of the repository's lines are the header files of CPython under
  `include/python`, which are not part of this system; they hold declarations,
  inline helpers and generated tables that only the interpreter uses.
