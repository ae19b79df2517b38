------------------------------- MODULE Travis -------------------------------
(***************************************************************************)
(* jitana-travis (tools/jitana-travis/main.cpp) over a JDWP connection     *)
(* (util/jdwp.cpp): a GUI timer asks the VM on the device how often each   *)
(* instruction ran since the last time, adds the counts to its own, and    *)
(* gives every DEX file it hears of a place in the application loader.     *)
(*                                                                         *)
(* The device is the patched Dalvik of dalvik-patches: another program,    *)
(* which opens and closes DEX files, copies each one to where it can be    *)
(* pulled from, and clears its counters when it reports them.              *)
(*                                                                         *)
(* The program runs one handler of the GUI loop at a time; pc is its place *)
(* in update(), and "idle" is the GUI loop.                                *)
(***************************************************************************)
EXTENDS Naturals, Sequences, FiniteSets, SequencesExt

CONSTANTS
  Name,       \* the paths of DEX files on the device
  Relatives,  \* which of them may be paths that do not begin with a slash
  Offset,     \* offsets of instructions in a file
  MaxCount,   \* how often an instruction runs between two reports, at most
  MaxReports  \* reports with counts in them, at most

ASSUME NamesAssumption == IsFiniteSet(Name) /\ Relatives \subseteq SUBSET Name
ASSUME BoundsAssumption == MaxCount \in Nat /\ MaxReports \in Nat

VARIABLES
  \* the device
  relative,  \* the files it opens by a path that does not begin with a slash
  table,     \* userDexFiles: the DEX files that are open
  reports,   \* how many reports had counts
  \* the connection
  conn,      \* "none", "open" or "broken"
  asked,     \* the device has a command to answer
  wire,      \* what the device has sent and the program has not read
  \* the program
  files,     \* dex_files: [name, total, delta, hdl]; hdl 0 is an unset handle
  loader,    \* the files of the application loader
  pulled,    \* the local copies
  pc,
  at,        \* the entry that it points to, or the loop over dex_files is at
  oldSize,   \* dex_files_size_old
  status,    \* "running", "exited", "aborted" or "undefined"
  \* for the properties
  owed,      \* the counts in all reports, without those that a broken
             \* connection has swallowed
  last,      \* of each file, the counts in the last report that named it,
             \* without those that a broken connection has swallowed
  earlier    \* the same, before the report of this update

device  == <<relative, table, reports>>
network == <<conn, asked, wire>>
memory  == <<files, loader, pulled>>
control == <<pc, at, oldSize, status>>
history == <<owed, last, earlier>>
vars    == <<device, network, memory, control, history>>

Zero == [o \in Offset |-> 0]

Init ==
  /\ relative \in Relatives
  /\ table = {} /\ reports = 0
  /\ conn = "none" /\ asked = FALSE /\ wire = <<>>
  /\ files = <<>> /\ loader = <<>> /\ pulled = {}
  /\ pc = "idle" /\ at = 0 /\ oldSize = 0 /\ status = "running"
  /\ owed = [n \in Name |-> Zero] /\ last = owed /\ earlier = owed

-----------------------------------------------------------------------------
(* The device.                                                             *)

OpenDex ==
  /\ \E n \in Name \ table : table' = table \cup {n}
  /\ UNCHANGED <<relative, reports, network, memory, control, history>>

CloseDex ==
  /\ \E n \in table : table' = table \ {n}
  /\ UNCHANGED <<relative, reports, network, memory, control, history>>

(* What dumpInstCounters writes of a file: its name, the instructions that *)
(* have run, and a mark, which is missing when the packet has been cut.    *)
Packet(n, ran) ==
  [kind |-> "file", name |-> n, cut |-> FALSE,
   counts |-> Restrict(ran, {o \in Offset : ran[o] > 0})]

(* handleVMAP_Chunk, in the order of a hash table; what has run since the  *)
(* last report is any number, as the interpreter counts without a lock.    *)
Report ==
  /\ asked /\ conn = "open"
  /\ \E order \in SetToSeqs(table), counts \in [Name -> [Offset -> 0 .. MaxCount]] :
       /\ \A n \in Name \ table : counts[n] = Zero
       /\ LET some == \E n \in Name : counts[n] # Zero
          IN  /\ some => reports < MaxReports
              /\ reports' = IF some THEN reports + 1 ELSE reports
       /\ wire' = wire \o <<[kind |-> "reply"]>>
                       \o [k \in DOMAIN order |-> Packet(order[k], counts[order[k]])]
                       \o <<[kind |-> "end"]>>
       /\ owed' = [n \in Name |-> [o \in Offset |-> owed[n][o] + counts[n][o]]]
       /\ last' = [n \in Name |-> IF n \in table THEN counts[n] ELSE last[n]]
  /\ earlier' = last
  /\ asked' = FALSE
  /\ UNCHANGED <<relative, table, conn, memory, control>>

(* A command of the device, for a debugger that does not exist.            *)
Event ==
  /\ asked /\ conn = "open" /\ wire = <<>>
  /\ wire' = <<[kind |-> "command"]>>
  /\ UNCHANGED <<device, conn, asked, memory, control, history>>

(* The packets in s that have a count for the instruction, and the count.  *)
Pending(s, n, o) ==
  {k \in DOMAIN s : s[k].kind = "file" /\ s[k].name = n /\ o \in DOMAIN s[k].counts}

Counted(s, n, o) ==
  IF Pending(s, n, o) = {} THEN 0 ELSE s[CHOOSE k \in Pending(s, n, o) : TRUE].counts[o]

Cut(p, O) == [kind |-> "file", name |-> p.name, cut |-> TRUE, counts |-> Restrict(p.counts, O)]

(* The packet of the file has not begun to arrive, and never will.         *)
Swallowed(n) ==
  /\ \E k \in DOMAIN wire : /\ wire[k].kind = "file" /\ wire[k].name = n
                            /\ pc # "counters" \/ k # 1
  /\ \A k \in DOMAIN wire' : wire'[k].kind = "file" => wire'[k].name # n

(* The connection breaks; what was under way arrives up to some point.     *)
Break ==
  /\ conn = "open"
  /\ \E k \in 0 .. Len(wire) :
       \/ wire' = SubSeq(wire, 1, k)
       \/ /\ k > 0 /\ wire[k].kind = "file"
          /\ \E O \in SUBSET DOMAIN wire[k].counts :
               wire' = [SubSeq(wire, 1, k) EXCEPT ![k] = Cut(@, O)]
  /\ owed' = [n \in Name |-> [o \in Offset |->
                owed[n][o] - (Counted(wire, n, o) - Counted(wire', n, o))]]
  /\ last' = [n \in Name |->
                IF Swallowed(n) THEN earlier[n]
                ELSE [o \in Offset |-> last[n][o] - (Counted(wire, n, o) - Counted(wire', n, o))]]
  /\ conn' = "broken" /\ asked' = FALSE
  /\ UNCHANGED <<device, memory, control, earlier>>

-----------------------------------------------------------------------------
(* update_insn_counters.                                                   *)

Running(place) == status = "running" /\ pc = place
Reading == status = "running" /\ pc \in {"header", "payload", "counters"}
Goto(place) == pc' = place

(* The timer fires.                                                        *)
Update ==
  /\ Running("idle")
  /\ Goto("connect") /\ oldSize' = Len(files)
  /\ UNCHANGED <<device, network, memory, at, status, history>>

Connect ==
  /\ Running("connect")
  /\ conn' = "open" /\ asked' = FALSE /\ wire' = <<>>
  /\ Goto("send")
  /\ UNCHANGED <<device, memory, at, oldSize, status, history>>

(* Nobody listens, or the handshake fails: an error that update() catches. *)
ConnectFails ==
  /\ Running("connect")
  /\ Goto("graphs")
  /\ UNCHANGED <<device, network, memory, at, oldSize, status, history>>

SendCommand ==
  /\ Running("send") /\ conn = "open"
  /\ asked' = TRUE
  /\ Goto("header")
  /\ UNCHANGED <<device, conn, wire, memory, at, oldSize, status, history>>

Arrives(kind) == wire # <<>> /\ Head(wire).kind = kind

(* All instructions of the packet that is being read have been read.       *)
NoMore == Arrives("file") /\ DOMAIN Head(wire).counts = {}

(* A write or a read on a broken connection: the same, and the connection  *)
(* is closed.                                                              *)
IoFails ==
  /\ Reading \/ Running("send")
  /\ conn = "broken" /\ (wire = <<>> \/ (pc = "counters" /\ NoMore /\ Head(wire).cut))
  /\ conn' = "none" /\ wire' = <<>>
  /\ Goto("graphs")
  /\ UNCHANGED <<device, asked, memory, at, oldSize, status, history>>

Consume == wire' = Tail(wire) /\ UNCHANGED <<conn, asked>>

(* Mutant: the content of another packet is not discarded.                 *)
SkipCommandKeep ==
  /\ Running("header") /\ Arrives("command")
  /\ UNCHANGED vars

(* receive_reply_header: other packets are discarded.                      *)
SkipCommand ==
  /\ Running("header") /\ Arrives("command")
  /\ Consume
  /\ UNCHANGED <<device, memory, control, history>>

ReplyHeader ==
  /\ Running("header") /\ Arrives("reply")
  /\ Consume
  /\ Goto("payload")
  /\ UNCHANGED <<device, memory, at, oldSize, status, history>>

Entry(n) == {k \in DOMAIN files : files[k].name = n}

(* Where it points to after a new entry has been added.                    *)
EntryIndex(n) == IF Entry(n) = {} THEN Len(files) + 1 ELSE CHOOSE k \in Entry(n) : TRUE

(* Mutant: what was active in the last report stays so.                    *)
CalmNothing(f) == f

(* The counters of a file are calm until its instructions follow.          *)
Calm(f) == [f EXCEPT !.delta = Zero]

EnterDexFile ==
  /\ Running("payload") /\ Arrives("file")
  /\ LET n == Head(wire).name
     IN  /\ files' = IF Entry(n) # {} THEN [files EXCEPT ![EntryIndex(n)] = Calm(@)]
                     ELSE Append(files, [name |-> n, total |-> Zero, delta |-> Zero, hdl |-> 0])
         /\ at' = EntryIndex(n)
  /\ Goto("counters")
  /\ UNCHANGED <<device, network, loader, pulled, oldSize, status, history>>

(* The instruction at o has been read.                                     *)
Without(p, o) == [p EXCEPT !.counts = Restrict(@, DOMAIN @ \ {o})]

(* Mutant: the count replaces what was counted before.                     *)
InsnReplace ==
  /\ Running("counters") /\ Arrives("file")
  /\ \E o \in DOMAIN Head(wire).counts :
       LET count == Head(wire).counts[o]
       IN  /\ files' = [files EXCEPT ![at].total[o] = count, ![at].delta[o] = count]
           /\ wire' = [wire EXCEPT ![1] = Without(@, o)]
  /\ UNCHANGED <<device, conn, asked, loader, pulled, control, history>>

Insn ==
  /\ Running("counters") /\ Arrives("file")
  /\ \E o \in DOMAIN Head(wire).counts :
       LET count == Head(wire).counts[o]
       IN  /\ files' = [files EXCEPT ![at].total[o] = @ + count, ![at].delta[o] = count]
           /\ wire' = [wire EXCEPT ![1] = Without(@, o)]
  /\ UNCHANGED <<device, conn, asked, loader, pulled, control, history>>

ExitDexFile ==
  /\ Running("counters") /\ NoMore /\ ~Head(wire).cut
  /\ Consume
  /\ Goto("payload")
  /\ UNCHANGED <<device, memory, at, oldSize, status, history>>

(* The connection is closed.  Files are pulled only if there are new ones. *)
Received ==
  /\ Running("payload") /\ Arrives("end")
  /\ conn' = "none" /\ asked' = FALSE /\ wire' = <<>>
  /\ Goto(IF oldSize # Len(files) THEN "pull" ELSE "graphs")
  /\ UNCHANGED <<device, memory, at, oldSize, status, history>>

(* pull_apk_files: the script gets some of the files.  The device tells of *)
(* a file before it has copied it to where it is pulled from, and it may   *)
(* not answer at all.                                                      *)
Pull ==
  /\ Running("pull")
  /\ \E got \in SUBSET {files[k].name : k \in DOMAIN files} : pulled' = pulled \cup got
  /\ Goto("add") /\ at' = 1
  /\ UNCHANGED <<device, network, files, loader, oldSize, status, history>>

(* Mutant: a file that has a handle gets another one.                      *)
HasNone(f) == FALSE

HasHandle(f) == f.hdl # 0

SkipFile ==
  /\ Running("add") /\ at <= Len(files) /\ HasHandle(files[at])
  /\ at' = at + 1
  /\ UNCHANGED <<device, network, memory, pc, oldSize, status, history>>

Adding == Running("add") /\ at <= Len(files) /\ ~HasHandle(files[at])

(* add_file: the index of a file has 8 bits.                               *)
AddFile ==
  /\ Adding /\ files[at].name \in pulled \ relative
  /\ loader' = Append(loader, files[at].name)
  /\ files' = [files EXCEPT ![at].hdl = (Len(loader) % 256) + 1]
  /\ at' = at + 1
  /\ UNCHANGED <<device, network, pulled, pc, oldSize, status, history>>

(* The file cannot be opened: the loop is left, later files included.      *)
AddFails ==
  /\ Adding /\ files[at].name \notin pulled \cup relative
  /\ Goto("graphs")
  /\ UNCHANGED <<device, network, memory, at, oldSize, status, history>>

(* make_local_filename throws invalid_argument, which update() does not    *)
(* catch: main does, and returns.                                          *)
BadName ==
  /\ Adding /\ files[at].name \in relative
  /\ status' = "aborted"
  /\ UNCHANGED <<device, network, memory, pc, at, oldSize, history>>

Added ==
  /\ Running("add") /\ at > Len(files)
  /\ Goto("graphs")
  /\ UNCHANGED <<device, network, memory, at, oldSize, status, history>>

-----------------------------------------------------------------------------
(* The rest of update(), and the other handlers.                           *)

(* update_graphs looks up the instructions that ran, which loads classes.  *)
(* Then the program exits if a signal has set should_terminate since.      *)
UpdateGraphs ==
  /\ Running("graphs")
  /\ Goto("idle") /\ at' = 0 /\ oldSize' = 0
  /\ status' \in {status, "exited"}
  /\ earlier' = last
  /\ UNCHANGED <<device, network, memory, owed, last>>

(* display compares each class with the handle of each file.  There are    *)
(* classes if update_graphs or the key A has loaded some from a file.      *)
Display ==
  /\ Running("idle")
  /\ loader # <<>> /\ \E k \in DOMAIN files : ~HasHandle(files[k])
  /\ status' = "undefined"
  /\ UNCHANGED <<device, network, memory, pc, at, oldSize, history>>

Device == OpenDex \/ CloseDex \/ Report \/ Event \/ Break

Handler ==
  \/ Connect \/ ConnectFails \/ SendCommand \/ IoFails \/ SkipCommand \/ ReplyHeader
  \/ EnterDexFile \/ Insn \/ ExitDexFile \/ Received
  \/ Pull \/ SkipFile \/ AddFile \/ AddFails \/ BadName \/ Added \/ UpdateGraphs

Next == Device \/ Handler \/ Update \/ Display

Spec == Init /\ [][Next]_vars

(* A handler that has begun goes on; a device that is connected answers.   *)
FairSpec == Spec /\ WF_vars(Handler) /\ WF_vars(Report)
-----------------------------------------------------------------------------
(* Properties.                                                             *)

(* A count that the device has cleared is added to the right instruction   *)
(* of the right file, once, unless the connection broke before it arrived: *)
(* over all updates, those that failed half way included.  (It is under    *)
(* way at most once, so that Counted is all there is of it.)               *)
TotalOf(n, o) == IF Entry(n) = {} THEN 0 ELSE files[CHOOSE k \in Entry(n) : TRUE].total[o]

CountsConserved ==
  \A n \in Name, o \in Offset :
    /\ \A j, k \in Pending(wire, n, o) : j = k
    /\ TotalOf(n, o) + Counted(wire, n, o) = owed[n][o]

(* A handle leads to the file it was given for, whatever failed before it  *)
(* was given, and no file is in the loader twice.                          *)
HandlesMatch ==
  /\ \A k \in DOMAIN files : files[k].hdl # 0 =>
       files[k].hdl \in DOMAIN loader /\ loader[files[k].hdl] = files[k].name
  /\ \A j, k \in DOMAIN loader : loader[j] = loader[k] => j = k

(* The active instructions of a file are those of the last report that     *)
(* named it, as far as it arrived, and no other: whenever no report is     *)
(* being read, whether the last one brought a new file, broke off, or left *)
(* the file out, which then keeps what an earlier report said of it.       *)
DeltaOf(n) == IF Entry(n) = {} THEN Zero ELSE files[CHOOSE k \in Entry(n) : TRUE].delta

DeltaOfLastReport ==
  pc \notin {"header", "payload", "counters"} => \A n \in Name : DeltaOf(n) = last[n]

(* update() comes back to the GUI loop, or the program ends: no error      *)
(* leaves a handler waiting.                                               *)
UpdateEnds == (pc # "idle") ~> (pc = "idle" \/ status # "running")

(* The drawing code only uses handles that are set.                        *)
DisplayDefined == status # "undefined"
=============================================================================
