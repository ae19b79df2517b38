---------------------------- MODULE TravisProofs ----------------------------
(***************************************************************************)
(* Proofs about jitana-travis: what the program has counted and what is    *)
(* still under way is what the device has reported (CountsKept), the       *)
(* activity of a file is what has arrived of the last report that named it *)
(* (DeltaKept), and as long as the device has no more files than an index  *)
(* of 8 bits has values, a handle leads to its file (HandlesKept).         *)
(*                                                                         *)
(* The invariants are operators of the dex_files F and the packets w, so   *)
(* that what a step does to them can be said of any F and w.               *)
(***************************************************************************)
EXTENDS Travis, NaturalSets, TLAPS

Files == [name : Name, total : [Offset -> Nat], delta : [Offset -> Nat], hdl : Nat]

Counts      == UNION {[O -> Nat] : O \in SUBSET Offset}
FilePackets == [kind : {"file"}, name : Name, cut : BOOLEAN, counts : Counts]
Marks       == [kind : {"reply", "command", "end"}]
Packets     == FilePackets \cup Marks

FilesOk(F) ==
  /\ F \in Seq(Files)
  /\ \A j, k \in DOMAIN F : F[j].name = F[k].name => j = k

(* Nothing follows the mark at the end of a report, or the place where the *)
(* connection broke; and there is one packet for a file.                   *)
Closing(p) == p.kind = "end" \/ (p.kind = "file" /\ p.cut)

ClosedLast(w) == \A k \in DOMAIN w : Closing(w[k]) => k = Len(w)

BothOf(p, q) == p.kind = "file" /\ q.kind = "file" /\ p.name = q.name

OncePerFile(w) ==
  \A j, k \in DOMAIN w : BothOf(w[j], w[k]) => j = k

WireOk(w) == w \in Seq(Packets) /\ ClosedLast(w) /\ OncePerFile(w)

Commands(w) == \A k \in DOMAIN w : w[k].kind = "command"

Talking == {"send", "header", "payload", "counters"}

BaseInv ==
  /\ FilesOk(files) /\ WireOk(wire)
  /\ loader \in Seq(Name) /\ table \subseteq Name /\ asked \in BOOLEAN
  /\ pc \notin Talking => conn = "none"
  /\ conn = "none" \/ pc = "send" => wire = <<>>
  /\ conn # "open" \/ pc # "header" => ~asked
  /\ asked => Commands(wire)
  /\ pc = "add" => at \in Nat \ {0}
  /\ pc = "counters" => /\ at \in DOMAIN files
                        /\ wire # <<>> => wire[1].kind = "file" /\ wire[1].name = files[at].name

-----------------------------------------------------------------------------
(* Packets.                                                                *)

LEMMA CountsType ==
  ASSUME NEW f
  PROVE  f \in Counts <=> /\ f = [o \in DOMAIN f |-> f[o]]
                          /\ DOMAIN f \subseteq Offset
                          /\ \A o \in DOMAIN f : f[o] \in Nat
<1>1. ASSUME f \in Counts
      PROVE  /\ f = [o \in DOMAIN f |-> f[o]] /\ DOMAIN f \subseteq Offset
             /\ \A o \in DOMAIN f : f[o] \in Nat
  <2>1. PICK O \in SUBSET Offset : f \in [O -> Nat]
    BY <1>1 DEF Counts
  <2> QED BY <2>1
<1>2. ASSUME f = [o \in DOMAIN f |-> f[o]], DOMAIN f \subseteq Offset,
             \A o \in DOMAIN f : f[o] \in Nat
      PROVE  f \in Counts
  <2>1. f \in [DOMAIN f -> Nat]
    BY <1>2
  <2> QED BY <1>2, <2>1 DEF Counts
<1> QED BY <1>1, <1>2

LEMMA RestrictCounts ==
  ASSUME NEW f \in Counts, NEW O \in SUBSET DOMAIN f
  PROVE  /\ Restrict(f, O) \in Counts /\ DOMAIN Restrict(f, O) = O
         /\ \A o \in O : Restrict(f, O)[o] = f[o]
<1>1. /\ DOMAIN Restrict(f, O) = O /\ \A o \in O : Restrict(f, O)[o] = f[o]
      /\ Restrict(f, O) = [o \in O |-> f[o]]
  BY DEF Restrict
<1>2. O \subseteq Offset /\ \A o \in O : f[o] \in Nat
  BY CountsType
<1> QED BY <1>1, <1>2, CountsType

LEMMA CutType ==
  ASSUME NEW p \in FilePackets, NEW O \in SUBSET DOMAIN p.counts
  PROVE  /\ Cut(p, O) \in FilePackets
         /\ Cut(p, O).kind = "file" /\ Cut(p, O).name = p.name /\ Cut(p, O).cut
<1>1. Cut(p, O) = [kind |-> "file", name |-> p.name, cut |-> TRUE, counts |-> Restrict(p.counts, O)]
  BY DEF Cut
<1>2. Restrict(p.counts, O) \in Counts
  BY RestrictCounts DEF FilePackets
<1> QED BY <1>1, <1>2 DEF FilePackets

LEMMA WithoutType ==
  ASSUME NEW p \in FilePackets, NEW o \in DOMAIN p.counts
  PROVE  /\ Without(p, o) \in FilePackets
         /\ Without(p, o).kind = "file" /\ Without(p, o).name = p.name
         /\ Without(p, o).cut = p.cut
         /\ DOMAIN Without(p, o).counts = DOMAIN p.counts \ {o}
         /\ \A q \in DOMAIN p.counts \ {o} : Without(p, o).counts[q] = p.counts[q]
<1>1. PICK c : c = Restrict(p.counts, DOMAIN p.counts \ {o})
  OBVIOUS
<1>2. Without(p, o) = [kind |-> "file", name |-> p.name, cut |-> p.cut, counts |-> c]
  BY <1>1 DEF Without, FilePackets
<1>3. /\ c \in Counts /\ DOMAIN c = DOMAIN p.counts \ {o}
      /\ \A q \in DOMAIN p.counts \ {o} : c[q] = p.counts[q]
  BY <1>1, RestrictCounts DEF FilePackets
<1> QED BY <1>2, <1>3 DEF FilePackets

LEMMA PacketType ==
  ASSUME NEW n \in Name, NEW ran \in [Offset -> Nat]
  PROVE  /\ Packet(n, ran) \in FilePackets
         /\ Packet(n, ran).kind = "file" /\ Packet(n, ran).name = n /\ ~Packet(n, ran).cut
         /\ DOMAIN Packet(n, ran).counts = {o \in Offset : ran[o] > 0}
         /\ \A o \in Offset : ran[o] > 0 => Packet(n, ran).counts[o] = ran[o]
<1>1. PICK c : c = Restrict(ran, {o \in Offset : ran[o] > 0})
  OBVIOUS
<1>2. Packet(n, ran) = [kind |-> "file", name |-> n, cut |-> FALSE, counts |-> c]
  BY <1>1 DEF Packet
<1>3. ran \in Counts
  BY DEF Counts
<1>4. /\ c \in Counts /\ DOMAIN c = {o \in Offset : ran[o] > 0}
      /\ \A o \in Offset : ran[o] > 0 => c[o] = ran[o]
  BY <1>1, <1>3, RestrictCounts
<1> QED BY <1>2, <1>4 DEF FilePackets

LEMMA PacketOfWire ==
  ASSUME NEW w, WireOk(w), NEW k \in DOMAIN w
  PROVE  /\ w[k] \in Packets
         /\ w[k].kind = "file" => w[k] \in FilePackets
         /\ Len(w) \in Nat /\ DOMAIN w = 1 .. Len(w)
<1>1. w[k] \in Packets /\ Len(w) \in Nat /\ DOMAIN w = 1 .. Len(w)
  BY LenProperties, ElementOfSeq DEF WireOk
<1> QED BY <1>1 DEF Packets, Marks, FilePackets

-----------------------------------------------------------------------------
(* What a step does to the packets that are under way.                     *)

LEMMA TailOk ==
  ASSUME NEW w, WireOk(w), w # <<>>
  PROVE  /\ WireOk(Tail(w)) /\ Len(w) \in Nat /\ Len(w) >= 1
         /\ DOMAIN Tail(w) = 1 .. Len(w) - 1 /\ Len(Tail(w)) = Len(w) - 1
         /\ \A k \in 1 .. Len(w) - 1 : Tail(w)[k] = w[k + 1]
<1>1. /\ Tail(w) \in Seq(Packets) /\ Len(Tail(w)) = Len(w) - 1
      /\ \A k \in 1 .. Len(w) - 1 : Tail(w)[k] = w[k + 1]
  BY HeadTailProperties DEF WireOk
<1>2. /\ Len(w) \in Nat /\ Len(w) >= 1 /\ DOMAIN Tail(w) = 1 .. Len(w) - 1
      /\ DOMAIN w = 1 .. Len(w)
  BY <1>1, LenProperties, EmptySeq DEF WireOk
<1>3. \A k \in 1 .. Len(w) - 1 : k + 1 \in DOMAIN w
  BY <1>2
<1> QED BY <1>1, <1>2, <1>3 DEF WireOk, ClosedLast, OncePerFile, BothOf, Closing

LEMMA PrefixOk ==
  ASSUME NEW w, WireOk(w), NEW k \in 0 .. Len(w)
  PROVE  /\ WireOk(SubSeq(w, 1, k)) /\ DOMAIN SubSeq(w, 1, k) = 1 .. k
         /\ Len(SubSeq(w, 1, k)) = k
         /\ \A j \in 1 .. k : SubSeq(w, 1, k)[j] = w[j] /\ j \in DOMAIN w
<1>1. Len(w) \in Nat /\ DOMAIN w = 1 .. Len(w)
  BY LenProperties DEF WireOk
<1>2. \A j \in 1 .. k : w[j] \in Packets
  BY <1>1, ElementOfSeq DEF WireOk
<1>3. /\ SubSeq(w, 1, k) \in Seq(Packets) /\ Len(SubSeq(w, 1, k)) = k
      /\ \A j \in 1 .. k : SubSeq(w, 1, k)[j] = w[j]
  BY <1>1, <1>2, SubSeqProperties DEF WireOk
<1>4. DOMAIN SubSeq(w, 1, k) = 1 .. k /\ \A j \in 1 .. k : j \in DOMAIN w
  BY <1>1, <1>3, LenProperties
<1>5. \A j \in 1 .. k : j = Len(w) => j = k
  <2> PICK n : n = Len(w)
    OBVIOUS
  <2>1. n \in Nat /\ k \in 0 .. n
    BY <1>1
  <2>2. \A j \in 1 .. k : n = j => k = j
    BY <2>1
  <2> QED BY <2>2
<1> QED BY <1>3, <1>4, <1>5 DEF WireOk, ClosedLast, OncePerFile, BothOf, Closing

(* A packet in its place, of the same file.                                *)
LEMMA ChangedOk ==
  ASSUME NEW w, WireOk(w), NEW k \in DOMAIN w, w[k].kind = "file",
         NEW p \in FilePackets, p.name = w[k].name, p.cut = w[k].cut \/ k = Len(w)
  PROVE  /\ WireOk([w EXCEPT ![k] = p]) /\ DOMAIN [w EXCEPT ![k] = p] = DOMAIN w
         /\ Len([w EXCEPT ![k] = p]) = Len(w)
         /\ [w EXCEPT ![k] = p][k] = p
         /\ \A j \in DOMAIN w : j # k => [w EXCEPT ![k] = p][j] = w[j]
<1> DEFINE v == [w EXCEPT ![k] = p]
<1>1. p \in Packets /\ p.kind = "file"
  BY DEF Packets, FilePackets
<1>2. v \in Seq(Packets) /\ Len(v) = Len(w)
  BY <1>1, ExceptSeq DEF WireOk
<1>3. DOMAIN v = DOMAIN w /\ v[k] = p /\ \A j \in DOMAIN w : j # k => v[j] = w[j]
  OBVIOUS
<1> HIDE DEF v
<1>4. WireOk(v)
  BY <1>1, <1>2, <1>3 DEF WireOk, ClosedLast, OncePerFile, BothOf, Closing
<1> QED BY <1>2, <1>3, <1>4 DEF v

(* What a broken connection lets through of the packets w.                 *)
Broken(w, v) ==
  \E k \in 0 .. Len(w) :
    \/ v = SubSeq(w, 1, k)
    \/ /\ k > 0 /\ w[k].kind = "file"
       /\ \E O \in SUBSET DOMAIN w[k].counts : v = [SubSeq(w, 1, k) EXCEPT ![k] = Cut(@, O)]

LessOfPacket(p, q) ==
  /\ q.kind = p.kind
  /\ p.kind = "file" =>
       /\ q.name = p.name
       /\ DOMAIN q.counts \subseteq DOMAIN p.counts
       /\ \A o \in DOMAIN q.counts : q.counts[o] = p.counts[o]

LessOf(w, v) ==
  /\ w = <<>> => v = <<>>
  /\ v # <<>> => w # <<>> /\ 1 \in DOMAIN v
  /\ \A k \in DOMAIN v : k \in DOMAIN w /\ LessOfPacket(w[k], v[k])

LEMMA BrokenOk ==
  ASSUME NEW w, NEW v, WireOk(w), Broken(w, v)
  PROVE  WireOk(v) /\ LessOf(w, v)
<1>1. PICK k \in 0 .. Len(w) :
        \/ v = SubSeq(w, 1, k)
        \/ /\ k > 0 /\ w[k].kind = "file"
           /\ \E O \in SUBSET DOMAIN w[k].counts : v = [SubSeq(w, 1, k) EXCEPT ![k] = Cut(@, O)]
  BY DEF Broken
<1> PICK u : u = SubSeq(w, 1, k)
  OBVIOUS
<1>2. /\ WireOk(u) /\ DOMAIN u = 1 .. k /\ Len(u) = k
      /\ \A j \in 1 .. k : u[j] = w[j] /\ j \in DOMAIN w
  BY PrefixOk
<1>3. k \in Nat
  BY LenProperties DEF WireOk
<1>4. CASE v = u
  <2>1. \A j \in DOMAIN v : j \in DOMAIN w /\ LessOfPacket(w[j], v[j])
    BY <1>2, <1>4 DEF LessOfPacket
  <2>2. (w = <<>> => v = <<>>) /\ (v # <<>> => w # <<>> /\ 1 \in DOMAIN v)
    BY <1>2, <1>3, <1>4, EmptySeq, LenProperties DEF WireOk
  <2> QED BY <1>2, <1>4, <2>1, <2>2 DEF LessOf
<1>5. ASSUME k > 0, w[k].kind = "file", NEW O \in SUBSET DOMAIN w[k].counts,
             v = [u EXCEPT ![k] = Cut(@, O)]
      PROVE  WireOk(v) /\ LessOf(w, v)
  <2>1. k \in DOMAIN u /\ u[k] = w[k] /\ k \in DOMAIN w
    BY <1>2, <1>3, <1>5
  <2> PICK q : q = Cut(w[k], O)
    OBVIOUS
  <2>2. w[k] \in FilePackets
    BY <1>5, <2>1, PacketOfWire
  <2>3. /\ q \in FilePackets /\ q.kind = "file" /\ q.name = w[k].name
        /\ q.counts = Restrict(w[k].counts, O)
    BY <2>2, CutType DEF Cut
  <2>4. v = [u EXCEPT ![k] = q]
    BY <1>5, <2>1
  <2>5. /\ WireOk(v) /\ DOMAIN v = 1 .. k /\ v[k] = q
        /\ \A j \in 1 .. k : j # k => v[j] = w[j]
    <3>1. u[k].kind = "file" /\ q.name = u[k].name /\ k = Len(u) /\ WireOk(u)
      BY <1>2, <1>5, <2>1, <2>3
    <3>2. WireOk(v) /\ DOMAIN v = DOMAIN u /\ v[k] = q /\ \A j \in DOMAIN u : j # k => v[j] = u[j]
      BY <2>1, <2>3, <2>4, <3>1, ChangedOk
    <3> QED BY <1>2, <3>2
  <2>6. LessOfPacket(w[k], q)
    <3> PICK c : c = w[k].counts
      OBVIOUS
    <3>1. c \in Counts /\ O \in SUBSET DOMAIN c
      BY <1>5, <2>2 DEF FilePackets
    <3>2. DOMAIN q.counts = O /\ \A o \in O : q.counts[o] = c[o]
      BY <2>3, <3>1, RestrictCounts
    <3> QED BY <1>5, <2>3, <3>1, <3>2 DEF LessOfPacket
  <2>7. \A j \in 1 .. k : j # k => LessOfPacket(w[j], v[j])
    BY <2>5 DEF LessOfPacket
  <2>8. w # <<>> /\ 1 \in DOMAIN v
    BY <1>3, <1>5, <2>1, <2>5
  <2> QED BY <1>2, <2>5, <2>6, <2>7, <2>8 DEF LessOf
<1> QED BY <1>1, <1>4, <1>5

(* Nothing in s has to come last; s and t have no file in common.          *)
GoesOn(s) == \A p \in Range(s) : ~Closing(p)
Apart(s, t) ==
  \A p \in Range(s), q \in Range(t) : ~BothOf(p, q) /\ ~BothOf(q, p)

LEMMA ConcatPlaces ==
  ASSUME NEW s, NEW t, WireOk(s), WireOk(t), NEW k \in DOMAIN (s \o t)
  PROVE  \/ k \in DOMAIN s /\ (s \o t)[k] = s[k]
         \/ \E j \in DOMAIN t : k = Len(s) + j /\ (s \o t)[k] = t[j]
<1>1. s \in Seq(Packets) /\ t \in Seq(Packets)
  BY DEF WireOk, ClosedLast, OncePerFile
<1>2. /\ s \o t \in Seq(Packets) /\ Len(s \o t) = Len(s) + Len(t)
      /\ \A j \in 1 .. Len(s) : (s \o t)[j] = s[j]
      /\ \A j \in 1 .. Len(t) : (s \o t)[Len(s) + j] = t[j]
  BY <1>1, ConcatElements
<1>3. /\ DOMAIN s = 1 .. Len(s) /\ DOMAIN t = 1 .. Len(t) /\ Len(s) \in Nat /\ Len(t) \in Nat
      /\ DOMAIN (s \o t) = 1 .. Len(s) + Len(t)
  BY <1>1, <1>2, LenProperties
<1>4. k \in 1 .. Len(s) \/ \E j \in 1 .. Len(t) : k = Len(s) + j
  <2>1. Len(s) \in Nat /\ Len(t) \in Nat /\ k \in 1 .. Len(s) + Len(t)
    BY <1>3
  <2> QED BY <2>1, PlaceInConcat
<1> QED BY <1>2, <1>3, <1>4

LEMMA ConcatOk ==
  ASSUME NEW s, NEW t, WireOk(s), WireOk(t), GoesOn(s), Apart(s, t)
  PROVE  WireOk(s \o t) /\ Range(s \o t) = Range(s) \cup Range(t)
<1>1. s \in Seq(Packets) /\ t \in Seq(Packets)
  BY DEF WireOk, ClosedLast, OncePerFile
<1> PICK n, u : n = Len(s) /\ u = s \o t
  OBVIOUS
<1>2. u \in Seq(Packets) /\ Len(u) = n + Len(t) /\ Range(u) = Range(s) \cup Range(t)
  BY <1>1, ConcatElements, RangeConcatenation
<1>3. \A k \in DOMAIN u : \/ k \in DOMAIN s /\ u[k] = s[k]
                          \/ \E j \in DOMAIN t : k = n + j /\ u[k] = t[j]
  BY ConcatPlaces
<1>4. \A k \in DOMAIN s : s[k] \in Range(s)
  BY DEF Range
<1>5. \A k \in DOMAIN t : t[k] \in Range(t)
  BY DEF Range
<1>6. \A k \in DOMAIN s : ~Closing(s[k])
  BY <1>4 DEF GoesOn
<1>7. \A k \in DOMAIN t : Closing(t[k]) => k = Len(t)
  BY DEF WireOk, ClosedLast, OncePerFile
<1>8. \A k \in DOMAIN u : Closing(u[k]) => k = Len(u)
  BY <1>2, <1>3, <1>6, <1>7
<1>9. ASSUME NEW j \in DOMAIN u, NEW k \in DOMAIN u, BothOf(u[j], u[k])
      PROVE  j = k
  <2>1. \A a, b \in DOMAIN s : BothOf(s[a], s[b]) => a = b
    BY DEF WireOk, ClosedLast, OncePerFile
  <2>2. \A a, b \in DOMAIN t : BothOf(t[a], t[b]) => a = b
    BY DEF WireOk, ClosedLast, OncePerFile
  <2>3. \A a \in DOMAIN s, b \in DOMAIN t : ~BothOf(s[a], t[b]) /\ ~BothOf(t[b], s[a])
    BY <1>4, <1>5 DEF Apart
  <2> QED BY <1>3, <1>9, <2>1, <2>2, <2>3
<1>10. WireOk(u)
  BY <1>2, <1>8, <1>9 DEF WireOk, ClosedLast, OncePerFile
<1> QED BY <1>2, <1>10

LEMMA OnePacketOk ==
  ASSUME NEW w, w \in Seq(Packets), \A j \in DOMAIN w : j = 1, Len(w) = 1
  PROVE  WireOk(w)
  BY DEF WireOk, ClosedLast, OncePerFile

LEMMA MarkOk ==
  ASSUME NEW r \in Marks
  PROVE  WireOk(<<r>>) /\ Range(<<r>>) = {r} /\ r.kind # "file"
<1>1. r.kind # "file" /\ r \in Packets
  BY DEF Marks, Packets
<1>2. Range(<<r>>) = {r}
  BY DEF Range
<1> PICK w : w = <<r>>
  OBVIOUS
<1>3. w \in Seq(Packets) /\ DOMAIN w = {1} /\ Len(w) = 1
  BY <1>1
<1>4. WireOk(w)
  <2>1. \A j \in DOMAIN w : j = 1
    BY <1>3
  <2> QED BY <1>3, <2>1, OnePacketOk
<1> QED BY <1>1, <1>2, <1>4

(* A report after the commands in w.                                       *)
Reported(w, order, counts) ==
  w \o <<[kind |-> "reply"]>> \o [k \in DOMAIN order |-> Packet(order[k], counts[order[k]])]
    \o <<[kind |-> "end"]>>

(* The packets of files in v are those of the files in S.                  *)
ReportOf(v, S, counts) ==
  /\ \A p \in Range(v) : p.kind = "file" => \E n \in S : p = Packet(n, counts[n])
  /\ \A n \in S : Packet(n, counts[n]) \in Range(v)

LEMMA ReportedOk ==
  ASSUME NEW w, WireOk(w), Commands(w),
         NEW S, S \subseteq Name, NEW order, Lists(order, S),
         NEW counts \in [Name -> [Offset -> Nat]]
  PROVE  /\ WireOk(Reported(w, order, counts))
         /\ ReportOf(Reported(w, order, counts), S, counts)
<1> PICK r, e : r = [kind |-> "reply"] /\ e = [kind |-> "end"]
  OBVIOUS
<1> DEFINE F == [k \in DOMAIN order |-> Packet(order[k], counts[order[k]])]
<1>1. /\ DOMAIN order = 1 .. Len(order) /\ Len(order) \in Nat
      /\ \A k \in DOMAIN order : order[k] \in S
      /\ \A n \in S : \E k \in DOMAIN order : order[k] = n
      /\ \A j, k \in DOMAIN order : order[j] = order[k] => j = k
  BY LenProperties, ElementOfSeq DEF Lists
<1>2. \A n \in S : /\ Packet(n, counts[n]) \in FilePackets
                   /\ Packet(n, counts[n]).kind = "file" /\ Packet(n, counts[n]).name = n
                   /\ ~Packet(n, counts[n]).cut
  <2>1. \A n \in S : n \in Name /\ counts[n] \in [Offset -> Nat]
    OBVIOUS
  <2> QED BY <2>1, PacketType
<1>3. Range(F) = {Packet(n, counts[n]) : n \in S}
  BY <1>1 DEF Range
<1>4. WireOk(F) /\ GoesOn(F)
  <2>1. F \in [1 .. Len(order) -> Packets]
    BY <1>1, <1>2 DEF Packets
  <2>2. F \in Seq(Packets)
    BY <1>1, <2>1
  <2>3. \A k \in DOMAIN F : F[k].kind = "file" /\ F[k].name = order[k] /\ ~F[k].cut
    BY <1>1, <1>2
  <2>4. \A j, k \in DOMAIN F : F[j].name = F[k].name => j = k
    BY <1>1, <2>3
  <2>5. WireOk(F)
    <3> HIDE DEF F
    <3> QED BY <2>2, <2>3, <2>4 DEF WireOk, ClosedLast, OncePerFile, BothOf, Closing
  <2> QED BY <1>2, <1>3, <2>5 DEF Closing, GoesOn
<1> HIDE DEF F
<1>5. /\ r \in Marks /\ e \in Marks /\ r.kind = "reply" /\ e.kind = "end"
      /\ WireOk(<<r>>) /\ Range(<<r>>) = {r} /\ WireOk(<<e>>) /\ Range(<<e>>) = {e}
  <2>1. r \in Marks /\ e \in Marks /\ r.kind = "reply" /\ e.kind = "end"
    BY DEF Marks
  <2> QED BY <2>1, MarkOk
<1>6. \A p \in Range(w) : p.kind = "command"
  BY DEF Range, Commands
<1> PICK a : a = w \o <<r>>
  OBVIOUS
<1>7. WireOk(a) /\ Range(a) = Range(w) \cup {r}
  BY <1>5, <1>6, ConcatOk DEF GoesOn, Closing, Apart, BothOf
<1>8. GoesOn(a) /\ Apart(a, F)
  BY <1>5, <1>6, <1>7 DEF GoesOn, Closing, Apart, BothOf
<1> PICK b : b = a \o F
  OBVIOUS
<1>9. WireOk(b) /\ Range(b) = Range(w) \cup {r} \cup Range(F)
  BY <1>4, <1>7, <1>8, ConcatOk
<1>10. GoesOn(b) /\ Apart(b, <<e>>)
  BY <1>4, <1>5, <1>7, <1>8, <1>9 DEF GoesOn, Apart, BothOf, Closing
<1> PICK v : v = b \o <<e>>
  OBVIOUS
<1>11. WireOk(v) /\ Range(v) = Range(w) \cup {r} \cup Range(F) \cup {e}
  BY <1>5, <1>9, <1>10, ConcatOk
<1>12. v = Reported(w, order, counts)
  BY DEF Reported, F
<1>13. \A p \in Range(v) : p.kind = "file" => p \in Range(F)
  BY <1>5, <1>6, <1>11
<1> QED BY <1>3, <1>11, <1>12, <1>13 DEF ReportOf

-----------------------------------------------------------------------------
(* What a step does to the entries of dex_files.                           *)

LEMMA FileType ==
  ASSUME NEW F, FilesOk(F)
  PROVE  /\ Len(F) \in Nat /\ DOMAIN F = 1 .. Len(F)
         /\ \A k \in DOMAIN F : F[k] \in Files
  BY LenProperties, ElementOfSeq DEF FilesOk

LEMMA ChangedFiles ==
  ASSUME NEW F, FilesOk(F), NEW k \in DOMAIN F, NEW f \in Files, f.name = F[k].name,
         NEW G, G = [F EXCEPT ![k] = f]
  PROVE  /\ FilesOk(G) /\ DOMAIN G = DOMAIN F /\ Len(G) = Len(F) /\ G[k] = f
         /\ \A j \in DOMAIN F : j # k => G[j] = F[j]
         /\ \A j \in DOMAIN F : G[j].name = F[j].name
<1>1. G \in Seq(Files) /\ Len(G) = Len(F)
  BY FileType, ExceptSeq DEF FilesOk
<1>2. DOMAIN G = DOMAIN F /\ G[k] = f /\ \A j \in DOMAIN F : j # k => G[j] = F[j]
  OBVIOUS
<1>3. \A j \in DOMAIN F : G[j].name = F[j].name
  BY <1>2
<1> QED BY <1>1, <1>2, <1>3 DEF FilesOk

NewName(F, f) == \A k \in DOMAIN F : F[k].name # f.name

Appended(F, G, f) ==
  /\ FilesOk(G) /\ DOMAIN G = 1 .. Len(F) + 1 /\ G[Len(F) + 1] = f
  /\ \A j \in DOMAIN F : j \in DOMAIN G /\ G[j] = F[j]

LEMMA AppendedFiles ==
  ASSUME NEW F, FilesOk(F), NEW f \in Files, NewName(F, f)
  PROVE  Appended(F, Append(F, f), f)
<1> PICK G : G = Append(F, f)
  OBVIOUS
<1>1. /\ G \in Seq(Files) /\ Len(G) = Len(F) + 1 /\ G[Len(F) + 1] = f
      /\ \A j \in 1 .. Len(F) : G[j] = F[j]
  BY AppendProperties DEF FilesOk
<1>2. DOMAIN G = 1 .. Len(F) + 1 /\ Len(F) \in Nat /\ DOMAIN F = 1 .. Len(F)
  BY <1>1, FileType, LenProperties
<1>3. FilesOk(G)
  BY <1>1, <1>2 DEF FilesOk, NewName
<1> QED BY <1>1, <1>2, <1>3 DEF Appended

New(n) == [name |-> n, total |-> Zero, delta |-> Zero, hdl |-> 0]

(* An entry in which the instruction at o has run so often more.           *)
Ran(f, o, count) == [f EXCEPT !.total[o] = @ + count, !.delta[o] = count]

LEMMA EntryTypes ==
  ASSUME NEW f \in Files
  PROVE  /\ Calm(f) \in Files /\ Calm(f).name = f.name /\ Calm(f).total = f.total
         /\ Calm(f).delta = Zero /\ Calm(f).hdl = f.hdl
<1>1. Zero \in [Offset -> Nat]
  BY DEF Zero
<1> QED BY <1>1 DEF Calm, Files

LEMMA NewType ==
  ASSUME NEW n \in Name
  PROVE  /\ New(n) \in Files /\ New(n).name = n /\ New(n).hdl = 0
         /\ New(n).total = Zero /\ New(n).delta = Zero
<1>1. Zero \in [Offset -> Nat]
  BY DEF Zero
<1> QED BY <1>1 DEF New, Files

LEMMA HandleType ==
  ASSUME NEW f \in Files, NEW h \in Nat, NEW g, g = [f EXCEPT !.hdl = h]
  PROVE  /\ g \in Files /\ g.hdl = h
         /\ g.name = f.name /\ g.total = f.total /\ g.delta = f.delta
  BY DEF Files

LEMMA RanType ==
  ASSUME NEW f \in Files, NEW o \in Offset, NEW count \in Nat
  PROVE  /\ Ran(f, o, count) \in Files
         /\ Ran(f, o, count).name = f.name /\ Ran(f, o, count).hdl = f.hdl
         /\ Ran(f, o, count).total[o] = f.total[o] + count
         /\ Ran(f, o, count).delta[o] = count
         /\ \A q \in Offset : q # o => /\ Ran(f, o, count).total[q] = f.total[q]
                                    /\ Ran(f, o, count).delta[q] = f.delta[q]
<1> PICK t, d : t = [f.total EXCEPT ![o] = @ + count] /\ d = [f.delta EXCEPT ![o] = count]
  OBVIOUS
<1>1. t \in [Offset -> Nat] /\ d \in [Offset -> Nat]
  BY DEF Files
<1>2. Ran(f, o, count) = [f EXCEPT !.total = t, !.delta = d]
  BY DEF Ran, Files
<1> HIDE DEF Ran
<1> PICK g : g = [f EXCEPT !.total = t, !.delta = d]
  OBVIOUS
<1>3. g \in Files /\ g.name = f.name /\ g.hdl = f.hdl /\ g.total = t /\ g.delta = d
  BY <1>1 DEF Files
<1>4. /\ t[o] = f.total[o] + count /\ d[o] = count
      /\ \A q \in Offset : q # o => t[q] = f.total[q] /\ d[q] = f.delta[q]
  BY DEF Files
<1> QED BY <1>2, <1>3, <1>4

-----------------------------------------------------------------------------
(* The base of the other invariants.                                       *)

USE DEF device, network, memory, control, history, Running, Goto, Consume

LEMMA BaseInit == ASSUME Init PROVE BaseInv
<1>1. FilesOk(<<>>) /\ WireOk(<<>>) /\ <<>> \in Seq(Name)
  BY DEF FilesOk, WireOk, ClosedLast, OncePerFile
<1> QED BY <1>1 DEF Init, BaseInv, Talking

(* The first packet is the one that is read.                               *)
LEMMA FirstPacket ==
  ASSUME NEW w, WireOk(w), w # <<>>
  PROVE  /\ Head(w) = w[1] /\ 1 \in DOMAIN w /\ w[1] \in Packets
         /\ w[1].kind = "file" => w[1] \in FilePackets
<1>1. 1 \in DOMAIN w
  BY TailOk, PacketOfWire, LenProperties DEF WireOk
<1> QED BY <1>1, PacketOfWire, HeadTailProperties DEF WireOk

LEMMA BaseDevice == ASSUME BaseInv, Device PROVE BaseInv'
<1> USE DEF Device
<1>1. CASE OpenDex
  BY <1>1 DEF OpenDex, BaseInv
<1>2. CASE CloseDex
  BY <1>2 DEF CloseDex, BaseInv
<1>3. CASE Report
  <2>1. PICK order \in SetToSeqs(table), counts \in [Name -> [Offset -> 0 .. MaxCount]] :
          wire' = Reported(wire, order, counts)
    BY <1>3 DEF Report, Reported
  <2>2. table \subseteq Name /\ IsFiniteSet(table) /\ Lists(order, table)
    BY NamesAssumption, FS_Subset, SetToSeqsLists DEF BaseInv
  <2>3. counts \in [Name -> [Offset -> Nat]]
    BY BoundsAssumption
  <2>4. WireOk(wire) /\ Commands(wire)
    BY <1>3 DEF Report, BaseInv
  <2>5. WireOk(wire')
    BY <2>1, <2>2, <2>3, <2>4, ReportedOk
  <2>6. pc = "header" /\ conn = "open" /\ asked' = FALSE /\ UNCHANGED <<files, loader, table, conn, pc, at>>
    BY <1>3 DEF Report, BaseInv
  <2> QED BY <2>5, <2>6 DEF BaseInv, Talking
<1>4. CASE Event
  <2> PICK r : r = [kind |-> "command"]
    OBVIOUS
  <2>1. r \in Marks /\ r.kind = "command"
    BY DEF Marks
  <2>2. wire' = <<r>> /\ asked /\ conn = "open" /\ UNCHANGED <<files, loader, table, conn, pc, at, asked>>
    BY <1>4 DEF Event
  <2>3. WireOk(<<r>>) /\ pc = "header" /\ Commands(<<r>>)
    BY <2>1, <2>2, MarkOk DEF BaseInv, Commands
  <2> QED BY <2>2, <2>3 DEF BaseInv, Talking
<1>5. CASE Break
  <2>1. WireOk(wire) /\ Broken(wire, wire')
    BY <1>5 DEF Break, Broken, BaseInv
  <2>2. WireOk(wire') /\ LessOf(wire, wire')
    BY <2>1, BrokenOk
  <2>3. conn' = "broken" /\ asked' = FALSE /\ conn = "open" /\ UNCHANGED <<files, loader, table, pc, at>>
    BY <1>5 DEF Break
  <2>4. wire = <<>> => wire' = <<>>
    BY <2>2 DEF LessOf
  <2>5. wire' # <<>> => wire # <<>> /\ wire'[1].kind = wire[1].kind
                        /\ (wire[1].kind = "file" => wire'[1].name = wire[1].name)
    BY <2>2 DEF LessOf, LessOfPacket
  <2> QED BY <2>2, <2>3, <2>4, <2>5 DEF BaseInv, Talking
<1> QED BY <1>1, <1>2, <1>3, <1>4, <1>5

(* The entry that the packet with the name n is read into.                 *)
LEMMA EntryOf ==
  ASSUME BaseInv, NEW n
  PROVE  /\ Entry(n) # {} => EntryIndex(n) \in DOMAIN files /\ files[EntryIndex(n)].name = n
         /\ Entry(n) = {} => EntryIndex(n) = Len(files) + 1 /\ \A k \in DOMAIN files : files[k].name # n
  BY DEF Entry, EntryIndex

LEMMA Entered ==
  ASSUME BaseInv, EnterDexFile
  PROVE  /\ FilesOk(files') /\ at' \in DOMAIN files'
         /\ files'[at'].name = Head(wire).name /\ files'[at'].delta = Zero
         /\ \A j \in DOMAIN files :
              /\ j \in DOMAIN files' /\ files'[j].name = files[j].name
              /\ files'[j].total = files[j].total /\ files'[j].hdl = files[j].hdl
              /\ j # at' => files'[j] = files[j]
         /\ \A j \in DOMAIN files' :
              \/ j \in DOMAIN files
              \/ files'[j].total = Zero /\ files'[j].delta = Zero /\ files'[j].hdl = 0
<1> PICK n, F, G, i : n = Head(wire).name /\ F = files /\ G = files' /\ i = EntryIndex(n)
  OBVIOUS
<1>1. FilesOk(F) /\ wire # <<>> /\ Head(wire).kind = "file" /\ WireOk(wire) /\ at' = i
  BY DEF EnterDexFile, Arrives, BaseInv
<1>2. n \in Name
  BY <1>1, FirstPacket DEF FilePackets
<1>3. CASE Entry(n) # {}
  <2> PICK f : f = Calm(F[i])
    OBVIOUS
  <2>1. G = [F EXCEPT ![i] = f] /\ i \in DOMAIN F /\ F[i].name = n
    BY <1>3, EntryOf DEF EnterDexFile
  <2>2. F[i] \in Files
    BY <1>1, <2>1, FileType
  <2>3. /\ f \in Files /\ f.name = F[i].name /\ f.delta = Zero
        /\ f.total = F[i].total /\ f.hdl = F[i].hdl
    BY <2>2, EntryTypes
  <2>4. /\ FilesOk(G) /\ DOMAIN G = DOMAIN F /\ G[i] = f
        /\ \A j \in DOMAIN F : j # i => G[j] = F[j]
    <3>1. i \in DOMAIN F /\ f \in Files /\ f.name = F[i].name /\ FilesOk(F) /\ G = [F EXCEPT ![i] = f]
      BY <1>1, <2>1, <2>3
    <3> QED BY ONLY <3>1, ChangedFiles
  <2>5. \A j \in DOMAIN F : /\ G[j].name = F[j].name
                            /\ G[j].total = F[j].total /\ G[j].hdl = F[j].hdl
    BY <2>3, <2>4
  <2> QED BY <1>1, <2>1, <2>3, <2>4, <2>5
<1>4. CASE Entry(n) = {}
  <2> PICK f, m : f = New(n) /\ m = Len(F)
    OBVIOUS
  <2>1. G = Append(F, f)
    BY <1>4 DEF EnterDexFile, New
  <2>2. f \in Files /\ f.name = n /\ f.delta = Zero /\ f.total = Zero /\ f.hdl = 0
    BY <1>2, NewType
  <2>3. i = m + 1 /\ \A k \in DOMAIN F : F[k].name # n
    BY <1>4, EntryOf
  <2>4. NewName(F, f)
    BY <2>2, <2>3 DEF NewName
  <2>5. /\ FilesOk(G) /\ DOMAIN G = 1 .. m + 1 /\ G[m + 1] = f
        /\ \A j \in DOMAIN F : j \in DOMAIN G /\ G[j] = F[j]
    <3>1. Appended(F, Append(F, f), f)
      BY <1>1, <2>2, <2>4, AppendedFiles
    <3> QED BY <2>1, <3>1 DEF Appended
  <2>6. m \in Nat /\ DOMAIN F = 1 .. m
    BY <1>1, FileType
  <2>7. i \in DOMAIN G /\ G[i] = f /\ \A j \in DOMAIN G : j \in DOMAIN F \/ j = i
    BY <2>3, <2>5, <2>6
  <2> QED BY <1>1, <2>2, <2>5, <2>7
<1> QED BY <1>3, <1>4

LEMMA BaseEnterDexFile == ASSUME BaseInv, EnterDexFile PROVE BaseInv'
<1> PICK n : n = Head(wire).name
  OBVIOUS
<1>1. WireOk(wire) /\ wire # <<>> /\ Head(wire).kind = "file"
  BY DEF EnterDexFile, Arrives, BaseInv
<1>2. wire[1].kind = "file" /\ wire[1].name = n
  BY <1>1, FirstPacket
<1>3. FilesOk(files') /\ at' \in DOMAIN files' /\ files'[at'].name = n
  BY Entered
<1>4. pc = "payload" /\ pc' = "counters" /\ UNCHANGED <<loader, table, asked, conn, wire>>
  BY DEF EnterDexFile
<1> QED BY <1>2, <1>3, <1>4 DEF BaseInv, Talking

LEMMA InsnRead ==
  ASSUME BaseInv, Insn
  PROVE  \E o \in Offset, f \in Files, p \in FilePackets :
           /\ at \in DOMAIN files /\ wire # <<>> /\ wire[1] \in FilePackets
           /\ wire[1].kind = "file" /\ wire[1].name = files[at].name /\ files[at] \in Files
           /\ o \in DOMAIN wire[1].counts /\ wire[1].counts[o] \in Nat
           /\ f = Ran(files[at], o, wire[1].counts[o]) /\ p = Without(wire[1], o)
           /\ p.kind = "file" /\ p.name = wire[1].name /\ p.cut = wire[1].cut
           /\ f.name = files[at].name
           /\ files' = [files EXCEPT ![at] = f] /\ wire' = [wire EXCEPT ![1] = p]
<1>1. PICK o \in DOMAIN Head(wire).counts :
        /\ files' = [files EXCEPT ![at].total[o] = @ + Head(wire).counts[o],
                                  ![at].delta[o] = Head(wire).counts[o]]
        /\ wire' = [wire EXCEPT ![1] = Without(@, o)]
  BY DEF Insn
<1>2. /\ WireOk(wire) /\ FilesOk(files) /\ wire # <<>> /\ Head(wire).kind = "file"
      /\ at \in DOMAIN files /\ wire[1].name = files[at].name
  BY DEF Insn, Arrives, BaseInv
<1>3. Head(wire) = wire[1] /\ wire[1].kind = "file" /\ wire[1] \in FilePackets /\ 1 \in DOMAIN wire
  BY <1>2, FirstPacket
<1> PICK c, h : c = wire[1].counts /\ h = wire[1].counts[o]
  OBVIOUS
<1>4. c \in Counts /\ o \in DOMAIN c /\ h = c[o]
  BY <1>1, <1>3 DEF FilePackets
<1>5. o \in Offset /\ h \in Nat
  BY <1>4, CountsType
<1>6. files[at] \in Files
  BY <1>2, FileType
<1>7. files' = [files EXCEPT ![at] = Ran(files[at], o, h)]
  <2>1. files' = [files EXCEPT ![at].total[o] = @ + h, ![at].delta[o] = h]
    BY <1>1, <1>3
  <2> QED BY <2>1 DEF Ran
<1>8. wire' = [wire EXCEPT ![1] = Without(wire[1], o)]
  BY <1>1, <1>3
<1>9. Ran(files[at], o, h) \in Files /\ Ran(files[at], o, h).name = files[at].name
  <2> PICK g : g = files[at]
    OBVIOUS
  <2>1. g \in Files
    BY <1>6
  <2>2. Ran(g, o, h) \in Files /\ Ran(g, o, h).name = g.name
    BY <1>5, <2>1, RanType
  <2> QED BY <2>2
<1>10. /\ Without(wire[1], o) \in FilePackets /\ Without(wire[1], o).kind = "file"
       /\ Without(wire[1], o).name = wire[1].name /\ Without(wire[1], o).cut = wire[1].cut
  BY <1>3, <1>4, WithoutType
<1> QED BY <1>2, <1>3, <1>4, <1>5, <1>6, <1>7, <1>8, <1>9, <1>10

LEMMA BaseInsn == ASSUME BaseInv, Insn PROVE BaseInv'
<1>1. PICK o \in Offset, f \in Files, p \in FilePackets :
        /\ at \in DOMAIN files /\ wire # <<>> /\ wire[1].kind = "file"
        /\ wire[1].name = files[at].name
        /\ p.kind = "file" /\ p.name = wire[1].name /\ p.cut = wire[1].cut
        /\ f.name = files[at].name
        /\ files' = [files EXCEPT ![at] = f] /\ wire' = [wire EXCEPT ![1] = p]
  BY InsnRead
<1>2. FilesOk(files) /\ WireOk(wire) /\ 1 \in DOMAIN wire
  BY <1>1, FirstPacket DEF BaseInv
<1>3. FilesOk(files') /\ at \in DOMAIN files' /\ files'[at].name = f.name
  BY <1>1, <1>2, ChangedFiles
<1>4. WireOk(wire') /\ wire'[1] = p
  BY <1>1, <1>2, ChangedOk
<1>5. pc = "counters" /\ UNCHANGED <<loader, table, pc, at, asked, conn>>
  BY DEF Insn
<1>6. ~asked /\ conn # "none"
  BY <1>1, <1>5 DEF BaseInv
<1> QED BY <1>1, <1>3, <1>4, <1>5, <1>6 DEF BaseInv, Talking

(* The head of the packets is discarded.                                   *)
LEMMA Discarded ==
  ASSUME BaseInv, wire # <<>>, wire' = Tail(wire)
  PROVE  /\ WireOk(wire')
         /\ \A k \in DOMAIN wire' : k + 1 \in DOMAIN wire /\ wire'[k] = wire[k + 1]
<1> PICK w : w = wire
  OBVIOUS
<1>1. WireOk(w) /\ w # <<>>
  BY DEF BaseInv
<1>2. /\ WireOk(Tail(w)) /\ Len(w) \in Nat /\ DOMAIN Tail(w) = 1 .. Len(w) - 1
      /\ \A k \in 1 .. Len(w) - 1 : Tail(w)[k] = w[k + 1]
  BY <1>1, TailOk
<1>3. \A k \in 1 .. Len(w) - 1 : k + 1 \in DOMAIN w
  BY <1>1, <1>2, PacketOfWire
<1> QED BY <1>2, <1>3

LEMMA BaseReading ==
  ASSUME BaseInv, SkipCommand \/ ReplyHeader \/ ExitDexFile \/ Received
  PROVE  BaseInv'
<1>1. CASE SkipCommand
  <2>1. wire # <<>> /\ wire' = Tail(wire)
    BY <1>1 DEF SkipCommand, Arrives
  <2>2. pc = "header" /\ UNCHANGED <<files, loader, table, conn, asked, pc, at>>
    BY <1>1 DEF SkipCommand
  <2>3. conn # "none"
    BY <2>1 DEF BaseInv
  <2>4. /\ WireOk(wire')
        /\ asked => Commands(wire')
    BY <2>1, Discarded DEF BaseInv, Commands
  <2> QED BY <2>2, <2>3, <2>4 DEF BaseInv, Talking
<1>2. CASE ReplyHeader
  <2>1. wire # <<>> /\ wire' = Tail(wire) /\ Head(wire).kind = "reply"
    BY <1>2 DEF ReplyHeader, Arrives
  <2>2. pc = "header" /\ pc' = "payload" /\ UNCHANGED <<files, loader, table, conn, asked, at>>
    BY <1>2 DEF ReplyHeader
  <2>3. conn # "none" /\ WireOk(wire)
    BY <2>1 DEF BaseInv
  <2>4. 1 \in DOMAIN wire /\ wire[1].kind = "reply"
    BY <2>1, <2>3, FirstPacket
  <2>5. ~asked
    BY <2>4 DEF BaseInv, Commands
  <2> QED BY <2>1, <2>2, <2>3, <2>5, Discarded DEF BaseInv, Talking
<1>3. CASE ExitDexFile
  <2>1. wire # <<>> /\ wire' = Tail(wire)
    BY <1>3 DEF ExitDexFile, NoMore, Arrives
  <2>2. pc = "counters" /\ pc' = "payload" /\ UNCHANGED <<files, loader, table, conn, asked, at>>
    BY <1>3 DEF ExitDexFile
  <2>3. conn # "none" /\ ~asked
    BY <2>1, <2>2 DEF BaseInv
  <2> QED BY <2>1, <2>2, <2>3, Discarded DEF BaseInv, Talking
<1>4. CASE Received
  <2>1. /\ conn' = "none" /\ asked' = FALSE /\ wire' = <<>> /\ pc' \in {"pull", "graphs"}
        /\ UNCHANGED <<files, loader, table, at>>
    BY <1>4 DEF Received
  <2>2. WireOk(<<>>)
    BY DEF WireOk, ClosedLast, OncePerFile
  <2> QED BY <2>1, <2>2 DEF BaseInv, Talking
<1> QED BY <1>1, <1>2, <1>3, <1>4

LEMMA BaseTalking ==
  ASSUME BaseInv, Update \/ Connect \/ ConnectFails \/ SendCommand \/ IoFails
  PROVE  BaseInv'
<1>1. WireOk(<<>>)
  BY DEF WireOk, ClosedLast, OncePerFile
<1>2. CASE Update
  BY <1>2 DEF Update, BaseInv, Talking
<1>3. CASE Connect
  BY <1>1, <1>3 DEF Connect, BaseInv, Talking
<1>4. CASE ConnectFails
  BY <1>4 DEF ConnectFails, BaseInv, Talking
<1>5. CASE SendCommand
  <2>1. /\ pc = "send" /\ conn = "open" /\ asked' = TRUE /\ pc' = "header"
        /\ UNCHANGED <<files, loader, table, conn, wire, at>>
    BY <1>5 DEF SendCommand
  <2>2. wire = <<>> /\ WireOk(wire)
    BY <2>1 DEF BaseInv
  <2>3. Commands(wire)
    BY <2>2 DEF Commands
  <2> QED BY <2>1, <2>2, <2>3 DEF BaseInv, Talking
<1>6. CASE IoFails
  <2>1. conn = "broken" /\ conn' = "none" /\ wire' = <<>> /\ pc' = "graphs" /\ UNCHANGED <<files, loader, table, at, asked>>
    BY <1>6 DEF IoFails
  <2>2. ~asked
    BY <2>1 DEF BaseInv
  <2> QED BY <1>1, <2>1, <2>2 DEF BaseInv, Talking
<1> QED BY <1>2, <1>3, <1>4, <1>5, <1>6

(* An entry gets a handle.                                                 *)
LEMMA HandleGiven ==
  ASSUME BaseInv, AddFile
  PROVE  \E h \in Nat, f \in Files :
           /\ at \in DOMAIN files /\ files[at] \in Files
           /\ h = (Len(loader) % 256) + 1 /\ f.hdl = h /\ f.name = files[at].name
           /\ f.total = files[at].total /\ f.delta = files[at].delta
           /\ files' = [files EXCEPT ![at] = f]
<1> PICK h, f : h = (Len(loader) % 256) + 1 /\ f = [files[at] EXCEPT !.hdl = h]
  OBVIOUS
<1>1. /\ pc = "add" /\ at <= Len(files)
      /\ files' = [files EXCEPT ![at].hdl = (Len(loader) % 256) + 1]
  BY DEF AddFile, Adding
<1>2. FilesOk(files) /\ at \in Nat \ {0} /\ h \in Nat
  BY <1>1, LenProperties DEF BaseInv
<1>3. at \in DOMAIN files /\ files[at] \in Files
  BY <1>1, <1>2, FileType
<1>4. files' = [files EXCEPT ![at] = f]
  BY <1>1
<1>5. /\ f \in Files /\ f.hdl = h
      /\ f.name = files[at].name /\ f.total = files[at].total /\ f.delta = files[at].delta
  BY <1>2, <1>3, HandleType
<1> QED BY <1>2, <1>3, <1>4, <1>5

LEMMA BaseAdding ==
  ASSUME BaseInv, \/ Pull \/ SkipFile \/ AddFile \/ AddFails \/ BadName \/ Added
                  \/ UpdateGraphs \/ Display
  PROVE  BaseInv'
<1>1. CASE Pull
  BY <1>1 DEF Pull, BaseInv, Talking
<1>2. CASE SkipFile
  BY <1>2 DEF SkipFile, BaseInv, Talking
<1>3. CASE AddFile
  <2>1. PICK f \in Files : /\ at \in DOMAIN files /\ files[at] \in Files
                           /\ f.name = files[at].name /\ files' = [files EXCEPT ![at] = f]
    BY <1>3, HandleGiven
  <2>2. FilesOk(files) /\ files[at].name \in Name
    BY <2>1 DEF BaseInv, Files
  <2>3. FilesOk(files')
    BY <2>1, <2>2, ChangedFiles
  <2>4. loader' \in Seq(Name)
    BY <1>3, <2>2, AppendProperties DEF AddFile, BaseInv
  <2>5. pc = "add" /\ at' = at + 1 /\ UNCHANGED <<table, conn, asked, wire, pc>>
    BY <1>3 DEF AddFile, Adding
  <2> QED BY <2>3, <2>4, <2>5 DEF BaseInv, Talking
<1>4. CASE AddFails
  BY <1>4 DEF AddFails, Adding, BaseInv, Talking
<1>5. CASE BadName
  BY <1>5 DEF BadName, BaseInv, Talking
<1>6. CASE Added
  BY <1>6 DEF Added, BaseInv, Talking
<1>7. CASE UpdateGraphs
  BY <1>7 DEF UpdateGraphs, BaseInv, Talking
<1>8. CASE Display
  BY <1>8 DEF Display, BaseInv, Talking
<1> QED BY <1>1, <1>2, <1>3, <1>4, <1>5, <1>6, <1>7, <1>8

LEMMA BaseKept == Spec => []BaseInv
<1>1. ASSUME BaseInv, [Next]_vars PROVE BaseInv'
  <2>1. CASE UNCHANGED vars
    BY <1>1, <2>1 DEF vars, BaseInv
  <2> QED BY <1>1, <2>1, BaseDevice, BaseEnterDexFile, BaseInsn, BaseReading, BaseTalking,
             BaseAdding DEF Next, Handler
<1> QED BY <1>1, BaseInit, PTL DEF Spec

-----------------------------------------------------------------------------
(* What has been counted, and what is under way.                           *)

LEMMA CountedIs ==
  ASSUME NEW w, WireOk(w), NEW n, NEW o
  PROVE  /\ \A j, k \in Pending(w, n, o) : j = k
         /\ Pending(w, n, o) = {} => Counted(w, n, o) = 0
         /\ \A k \in Pending(w, n, o) : Counted(w, n, o) = w[k].counts[o]
         /\ Counted(w, n, o) \in Nat
<1> PICK S : S = Pending(w, n, o)
  OBVIOUS
<1>1. \A k \in S : /\ k \in DOMAIN w /\ w[k].kind = "file" /\ w[k].name = n
                   /\ o \in DOMAIN w[k].counts
  BY DEF Pending
<1>2. \A j, k \in S : j = k
  BY <1>1 DEF WireOk, OncePerFile, BothOf
<1>3. S = {} => Counted(w, n, o) = 0
  BY DEF Counted
<1>4. ASSUME NEW k \in S
      PROVE  Counted(w, n, o) = w[k].counts[o] /\ w[k].counts[o] \in Nat
  <2>1. (CHOOSE j \in S : TRUE) = k
    BY <1>2
  <2> PICK c : c = w[k].counts
    OBVIOUS
  <2>2. w[k] \in FilePackets
    BY <1>1, PacketOfWire
  <2>3. c \in Counts /\ o \in DOMAIN c
    BY <1>1, <2>2 DEF FilePackets
  <2>4. c[o] \in Nat
    BY <2>3, CountsType
  <2> QED BY <2>1, <2>4 DEF Counted
<1> QED BY <1>2, <1>3, <1>4

(* Packets with the same count.                                            *)
Carries(w, v, n, o) ==
  /\ \A k \in Pending(w, n, o) : \E j \in Pending(v, n, o) : v[j].counts[o] = w[k].counts[o]
  /\ Pending(w, n, o) = {} => Pending(v, n, o) = {}

LEMMA SameCounted ==
  ASSUME NEW w, WireOk(w), NEW v, WireOk(v), NEW n, NEW o, Carries(w, v, n, o)
  PROVE  Counted(v, n, o) = Counted(w, n, o)
<1>1. CASE Pending(w, n, o) = {}
  BY <1>1, CountedIs DEF Carries
<1>2. ASSUME NEW k \in Pending(w, n, o)
      PROVE  Counted(v, n, o) = Counted(w, n, o)
  BY <1>2, CountedIs DEF Carries
<1> QED BY <1>1, <1>2

LEMMA NothingCounted ==
  ASSUME NEW w, WireOk(w), NEW n, NEW o,
         \A k \in DOMAIN w : w[k].kind = "file" => DOMAIN w[k].counts = {}
  PROVE  Counted(w, n, o) = 0
<1>1. Pending(w, n, o) = {}
  BY DEF Pending
<1> QED BY <1>1, CountedIs

(* The first packet goes when nothing is left in it.                       *)
LEMMA TailCounted ==
  ASSUME NEW w, WireOk(w), w # <<>>, w[1].kind = "file" => DOMAIN w[1].counts = {}, NEW n, NEW o
  PROVE  Counted(Tail(w), n, o) = Counted(w, n, o)
<1> PICK v, m : v = Tail(w) /\ m = Len(w)
  OBVIOUS
<1>1. /\ WireOk(v) /\ m \in Nat /\ m >= 1 /\ DOMAIN v = 1 .. m - 1
      /\ \A k \in 1 .. m - 1 : v[k] = w[k + 1]
  BY TailOk
<1>2. DOMAIN w = 1 .. m
  BY PacketOfWire, LenProperties DEF WireOk
<1>3. ASSUME NEW k \in Pending(w, n, o)
      PROVE  \E j \in Pending(v, n, o) : v[j].counts[o] = w[k].counts[o]
  <2>1. k \in DOMAIN w /\ w[k].kind = "file" /\ w[k].name = n /\ o \in DOMAIN w[k].counts
    BY DEF Pending
  <2>2. k # 1
    BY <2>1
  <2>3. k - 1 \in DOMAIN v /\ (k - 1) + 1 = k
    BY <1>1, <1>2, <2>1, <2>2
  <2>4. v[k - 1] = w[k]
    BY <1>1, <2>3
  <2>5. k - 1 \in Pending(v, n, o)
    BY <2>1, <2>3, <2>4 DEF Pending
  <2> QED BY <2>4, <2>5
<1>4. ASSUME NEW k \in Pending(v, n, o)
      PROVE  k + 1 \in Pending(w, n, o)
  <2>1. k \in 1 .. m - 1 /\ v[k].kind = "file" /\ v[k].name = n /\ o \in DOMAIN v[k].counts
    BY <1>1 DEF Pending
  <2>2. k + 1 \in 1 .. m /\ v[k] = w[k + 1]
    BY <1>1, <2>1
  <2> QED BY <1>2, <2>1, <2>2 DEF Pending
<1>5. Pending(w, n, o) = {} => Pending(v, n, o) = {}
  BY <1>4
<1>6. Carries(w, v, n, o)
  BY <1>3, <1>5 DEF Carries
<1>7. Counted(v, n, o) = Counted(w, n, o)
  BY <1>1, <1>6, SameCounted
<1> QED BY <1>7

TotalIn(F, n, o) ==
  LET K == {k \in DOMAIN F : F[k].name = n}
  IN  IF K = {} THEN 0 ELSE F[CHOOSE k \in K : TRUE].total[o]

LEMMA TotalIs ==
  ASSUME NEW F, FilesOk(F), NEW n, NEW o \in Offset
  PROVE  /\ (\A k \in DOMAIN F : F[k].name # n) => TotalIn(F, n, o) = 0
         /\ \A k \in DOMAIN F : F[k].name = n => TotalIn(F, n, o) = F[k].total[o]
         /\ TotalIn(F, n, o) \in Nat
<1> PICK K : K = {k \in DOMAIN F : F[k].name = n}
  OBVIOUS
<1>1. TotalIn(F, n, o) = IF K = {} THEN 0 ELSE F[CHOOSE k \in K : TRUE].total[o]
  BY DEF TotalIn
<1>2. \A j, k \in K : j = k
  BY DEF FilesOk
<1>3. ASSUME NEW k \in K
      PROVE  TotalIn(F, n, o) = F[k].total[o] /\ F[k].total[o] \in Nat
  <2>1. (CHOOSE j \in K : TRUE) = k
    BY <1>2
  <2>2. F[k] \in Files
    BY FileType
  <2>3. F[k].total \in [Offset -> Nat]
    BY <2>2 DEF Files
  <2> QED BY <1>1, <2>1, <2>3
<1> QED BY <1>1, <1>3

(* Entries with the same totals, and new ones.                             *)
Keeps(F, G) ==
  /\ \A k \in DOMAIN F : k \in DOMAIN G /\ G[k].name = F[k].name /\ G[k].total = F[k].total
  /\ \A k \in DOMAIN G : k \in DOMAIN F \/ G[k].total = Zero

LEMMA SameTotal ==
  ASSUME NEW F, FilesOk(F), NEW G, FilesOk(G), Keeps(F, G),
         NEW n, NEW o \in Offset
  PROVE  TotalIn(G, n, o) = TotalIn(F, n, o)
<1>1. ASSUME NEW k \in DOMAIN F, F[k].name = n
      PROVE  TotalIn(G, n, o) = TotalIn(F, n, o)
  <2>1. TotalIn(F, n, o) = F[k].total[o]
    BY <1>1, TotalIs
  <2>2. k \in DOMAIN G /\ G[k].name = n /\ G[k].total[o] = F[k].total[o]
    BY <1>1 DEF Keeps
  <2> QED BY <2>1, <2>2, TotalIs
<1>2. ASSUME \A k \in DOMAIN F : F[k].name # n
      PROVE  TotalIn(G, n, o) = TotalIn(F, n, o)
  <2>1. TotalIn(F, n, o) = 0
    BY <1>2, TotalIs
  <2>2. ASSUME NEW k \in DOMAIN G, G[k].name = n
        PROVE  TotalIn(G, n, o) = 0
    <3>1. G[k].total = Zero
      BY <1>2, <2>2 DEF Keeps
    <3> QED BY <2>2, <3>1, TotalIs DEF Zero
  <2> QED BY <2>1, <2>2, TotalIs
<1> QED BY <1>1, <1>2

(* Only the files in S have run.                                           *)
Silent(counts, S) == \A m \in Name \ S : counts[m] = Zero

LEMMA ReportCounted ==
  ASSUME NEW w, WireOk(w), Commands(w),
         NEW S, S \subseteq Name, NEW order, Lists(order, S),
         NEW counts \in [Name -> [Offset -> Nat]], Silent(counts, S),
         NEW n \in Name, NEW o \in Offset
  PROVE  Counted(Reported(w, order, counts), n, o) = counts[n][o]
<1> PICK v : v = Reported(w, order, counts)
  OBVIOUS
<1>0. WireOk(v) /\ ReportOf(v, S, counts)
  BY ReportedOk
<1>1. /\ WireOk(v)
      /\ \A p \in Range(v) : p.kind = "file" => \E m \in S : p = Packet(m, counts[m])
      /\ \A m \in S : Packet(m, counts[m]) \in Range(v)
  BY <1>0 DEF ReportOf
<1>2. \A m \in S : /\ Packet(m, counts[m]).kind = "file" /\ Packet(m, counts[m]).name = m
                   /\ DOMAIN Packet(m, counts[m]).counts = {q \in Offset : counts[m][q] > 0}
                   /\ \A q \in Offset : counts[m][q] > 0 =>
                        Packet(m, counts[m]).counts[q] = counts[m][q]
  <2>1. \A m \in S : m \in Name /\ counts[m] \in [Offset -> Nat]
    OBVIOUS
  <2> QED BY <2>1, PacketType
<1>3. counts[n][o] \in Nat
  OBVIOUS
<1>4. ASSUME NEW k \in Pending(v, n, o)
      PROVE  counts[n][o] > 0 /\ v[k].counts[o] = counts[n][o]
  <2>1. k \in DOMAIN v /\ v[k].kind = "file" /\ v[k].name = n /\ o \in DOMAIN v[k].counts
    BY DEF Pending
  <2>2. v[k] \in Range(v)
    BY <2>1 DEF Range
  <2>3. PICK m \in S : v[k] = Packet(m, counts[m])
    BY <1>1, <2>1, <2>2
  <2> QED BY <1>2, <2>1, <2>3
<1>5. ASSUME counts[n][o] > 0
      PROVE  Pending(v, n, o) # {}
  <2>1. n \in S
    BY <1>5 DEF Zero, Silent
  <2>2. PICK k \in DOMAIN v : v[k] = Packet(n, counts[n])
    BY <1>1, <2>1 DEF Range
  <2>3. k \in Pending(v, n, o)
    BY <1>2, <1>5, <2>1, <2>2 DEF Pending
  <2> QED BY <2>3
<1>6. CASE Pending(v, n, o) = {}
  BY <1>1, <1>3, <1>5, <1>6, CountedIs
<1>7. CASE Pending(v, n, o) # {}
  BY <1>1, <1>4, <1>7, CountedIs
<1> QED BY <1>6, <1>7

CountInv ==
  /\ owed \in [Name -> [Offset -> Nat]]
  /\ \A n \in Name, o \in Offset : TotalIn(files, n, o) + Counted(wire, n, o) = owed[n][o]

(* The steps after which the files and the packets have the same counts.   *)
LEMMA CountSame ==
  ASSUME CountInv, UNCHANGED owed,
         \A n \in Name, o \in Offset : /\ TotalIn(files', n, o) = TotalIn(files, n, o)
                                       /\ Counted(wire', n, o) = Counted(wire, n, o)
  PROVE  CountInv'
  BY DEF CountInv

LEMMA CountInit == ASSUME Init PROVE CountInv
<1>1. FilesOk(<<>>) /\ WireOk(<<>>)
  BY DEF FilesOk, WireOk, ClosedLast, OncePerFile
<1>2. \A n \in Name, o \in Offset : TotalIn(<<>>, n, o) = 0
  BY <1>1, TotalIs
<1>3. \A n \in Name, o \in Offset : Counted(<<>>, n, o) = 0
  BY <1>1, NothingCounted
<1>4. files = <<>> /\ wire = <<>> /\ owed = [n \in Name |-> Zero]
  BY DEF Init
<1> QED BY <1>2, <1>3, <1>4 DEF CountInv, Zero

LEMMA CountDevice == ASSUME BaseInv, CountInv, BaseInv', Device PROVE CountInv'
<1>1. CASE OpenDex \/ CloseDex
  BY <1>1, CountSame DEF OpenDex, CloseDex
<1>2. CASE Report
  <2>1. PICK order \in SetToSeqs(table), counts \in [Name -> [Offset -> 0 .. MaxCount]] :
          /\ wire' = Reported(wire, order, counts)
          /\ Silent(counts, table)
          /\ owed' = [n \in Name |-> [o \in Offset |-> owed[n][o] + counts[n][o]]]
    BY <1>2 DEF Report, Reported, Silent
  <2>2. table \subseteq Name /\ IsFiniteSet(table) /\ Lists(order, table)
    BY NamesAssumption, FS_Subset, SetToSeqsLists DEF BaseInv
  <2>3. counts \in [Name -> [Offset -> Nat]]
    BY BoundsAssumption
  <2>4. WireOk(wire) /\ Commands(wire)
    BY <1>2 DEF Report, BaseInv
  <2>5. ASSUME NEW n \in Name, NEW o \in Offset
        PROVE  Counted(wire', n, o) = counts[n][o]
    <3>1. Counted(Reported(wire, order, counts), n, o) = counts[n][o]
      BY <2>1, <2>2, <2>3, <2>4, ReportCounted
    <3> QED BY <2>1, <3>1
  <2>6. \A n \in Name, o \in Offset : Counted(wire, n, o) = 0
    BY <2>4, NothingCounted DEF Commands
  <2>7. files' = files
    BY <1>2 DEF Report
  <2>8. owed' \in [Name -> [Offset -> Nat]]
    BY <2>1, <2>3 DEF CountInv
  <2>9. ASSUME NEW n \in Name, NEW o \in Offset
        PROVE  TotalIn(files', n, o) + Counted(wire', n, o) = owed'[n][o]
    <3>1. TotalIn(files, n, o) \in Nat
      BY TotalIs DEF BaseInv
    <3>2. TotalIn(files, n, o) + 0 = owed[n][o]
      BY <2>6 DEF CountInv
    <3>3. owed'[n][o] = owed[n][o] + counts[n][o]
      BY <2>1
    <3> QED BY <2>5, <2>7, <3>1, <3>2, <3>3
  <2> QED BY <2>8, <2>9 DEF CountInv
<1>3. CASE Event
  <2> PICK r : r = [kind |-> "command"]
    OBVIOUS
  <2>1. wire = <<>> /\ wire' = <<r>> /\ UNCHANGED <<files, owed>>
    BY <1>3 DEF Event
  <2>2. WireOk(wire) /\ WireOk(wire')
    BY DEF BaseInv
  <2>3. Commands(wire')
    BY <2>1 DEF Commands
  <2>4. \A n \in Name, o \in Offset : Counted(wire', n, o) = 0
    BY <2>2, <2>3, NothingCounted DEF Commands
  <2>5. \A n \in Name, o \in Offset : Counted(wire, n, o) = 0
    BY <2>1, <2>2, NothingCounted
  <2> QED BY <2>1, <2>4, <2>5, CountSame
<1>4. CASE Break
  <2>1. /\ owed' = [n \in Name |-> [o \in Offset |->
                     owed[n][o] - (Counted(wire, n, o) - Counted(wire', n, o))]]
        /\ files' = files
    BY <1>4 DEF Break
  <2>2. ASSUME NEW n \in Name, NEW o \in Offset
        PROVE  /\ TotalIn(files', n, o) + Counted(wire', n, o) = owed'[n][o]
               /\ owed'[n][o] \in Nat
    <3>1. TotalIn(files, n, o) \in Nat
      BY TotalIs DEF BaseInv
    <3>2. Counted(wire, n, o) \in Nat /\ Counted(wire', n, o) \in Nat
      BY CountedIs DEF BaseInv
    <3>3. TotalIn(files, n, o) + Counted(wire, n, o) = owed[n][o]
      BY DEF CountInv
    <3>4. owed'[n][o] = owed[n][o] - (Counted(wire, n, o) - Counted(wire', n, o))
      BY <2>1
    <3> QED BY <2>1, <3>1, <3>2, <3>3, <3>4
  <2>3. owed' = [n \in Name |-> [o \in Offset |-> owed'[n][o]]]
    BY <2>1
  <2> QED BY <2>2, <2>3 DEF CountInv
<1> QED BY <1>1, <1>2, <1>3, <1>4 DEF Device

(* Entries with the same handles, and new ones.                            *)
KeepsHandles(F, G) ==
  /\ \A k \in DOMAIN F : k \in DOMAIN G /\ G[k].name = F[k].name /\ G[k].hdl = F[k].hdl
  /\ \A k \in DOMAIN G : k \in DOMAIN F \/ G[k].hdl = 0

LEMMA EnterKeeps ==
  ASSUME BaseInv, EnterDexFile
  PROVE  Keeps(files, files') /\ KeepsHandles(files, files')
  BY Entered DEF Keeps, KeepsHandles

LEMMA CountEnterDexFile ==
  ASSUME BaseInv, CountInv, BaseInv', EnterDexFile PROVE CountInv'
<1>1. FilesOk(files) /\ FilesOk(files') /\ UNCHANGED <<wire, owed>>
  BY DEF EnterDexFile, BaseInv
<1> QED BY <1>1, EnterKeeps, SameTotal, CountSame

LEMMA InsnKeeps ==
  ASSUME BaseInv, Insn
  PROVE  KeepsHandles(files, files')
<1>1. PICK o \in Offset, f \in Files, p \in FilePackets :
        /\ at \in DOMAIN files /\ files[at] \in Files /\ wire[1].counts[o] \in Nat
        /\ f = Ran(files[at], o, wire[1].counts[o])
        /\ files' = [files EXCEPT ![at] = f]
  BY InsnRead
<1> PICK g, h : g = files[at] /\ h = wire[1].counts[o]
  OBVIOUS
<1>2. g \in Files /\ h \in Nat /\ f = Ran(g, o, h)
  BY <1>1
<1>3. f.name = g.name /\ f.hdl = g.hdl
  BY <1>2, RanType
<1>4. FilesOk(files) /\ f.name = files[at].name
  BY <1>3 DEF BaseInv
<1>5. /\ DOMAIN files' = DOMAIN files /\ files'[at] = f
      /\ \A j \in DOMAIN files : j # at => files'[j] = files[j]
  BY <1>1, <1>4, ChangedFiles
<1> QED BY <1>3, <1>5 DEF KeepsHandles

(* One instruction o of one file n is read: h moves from the packet that   *)
(* is being read to the entry it is read into.                             *)
MovedTo(F, G, a, n, o, h) ==
  /\ a \in DOMAIN F /\ DOMAIN G = DOMAIN F /\ F[a].name = n /\ G[a].name = n
  /\ \A j \in DOMAIN F : j # a => G[j] = F[j]
  /\ G[a].total[o] = F[a].total[o] + h /\ G[a].delta[o] = h
  /\ \A q \in Offset : q # o => G[a].total[q] = F[a].total[q] /\ G[a].delta[q] = F[a].delta[q]

OfFile(p, n) == p.kind = "file" /\ p.name = n

MovedFrom(w, v, n, o, h) ==
  /\ 1 \in DOMAIN w /\ DOMAIN v = DOMAIN w /\ OfFile(w[1], n)
  /\ \A k \in DOMAIN w : \A m : OfFile(v[k], m) <=> OfFile(w[k], m)
  /\ Pending(w, n, o) # {} /\ Pending(v, n, o) = {}
  /\ Counted(w, n, o) = h /\ Counted(v, n, o) = 0
  /\ \A m, q : ~(m = n /\ q = o) => /\ Pending(v, m, q) = Pending(w, m, q)
                                    /\ Counted(v, m, q) = Counted(w, m, q)

LEMMA InsnMoves ==
  ASSUME BaseInv, BaseInv', Insn
  PROVE  \E n \in Name, o \in Offset, h \in Nat :
           MovedTo(files, files', at, n, o, h) /\ MovedFrom(wire, wire', n, o, h)
<1>1. PICK o \in Offset, f \in Files, p \in FilePackets :
        /\ at \in DOMAIN files /\ wire # <<>> /\ wire[1] \in FilePackets
        /\ wire[1].kind = "file" /\ wire[1].name = files[at].name /\ files[at] \in Files
        /\ o \in DOMAIN wire[1].counts /\ wire[1].counts[o] \in Nat
        /\ f = Ran(files[at], o, wire[1].counts[o]) /\ p = Without(wire[1], o)
        /\ p.kind = "file" /\ p.name = wire[1].name /\ p.cut = wire[1].cut
        /\ f.name = files[at].name
        /\ files' = [files EXCEPT ![at] = f] /\ wire' = [wire EXCEPT ![1] = p]
  BY InsnRead
<1> PICK F, w, G, v, n, h : /\ F = files /\ w = wire /\ G = files' /\ v = wire'
                            /\ n = files[at].name /\ h = wire[1].counts[o]
  OBVIOUS
<1>2. FilesOk(F) /\ WireOk(w) /\ FilesOk(G) /\ WireOk(v)
  BY DEF BaseInv
<1>3. /\ DOMAIN G = DOMAIN F /\ G[at] = f /\ f.name = n /\ F[at].name = n /\ at \in DOMAIN F
      /\ \A j \in DOMAIN F : j # at => G[j] = F[j]
  BY <1>1, <1>2, ChangedFiles
<1>4. /\ f.total[o] = F[at].total[o] + h /\ f.delta[o] = h
      /\ \A q \in Offset : q # o => f.total[q] = F[at].total[q] /\ f.delta[q] = F[at].delta[q]
  <2> PICK g : g = files[at]
    OBVIOUS
  <2>1. g \in Files /\ h \in Nat /\ f = Ran(g, o, h)
    BY <1>1
  <2>2. /\ Ran(g, o, h).total[o] = g.total[o] + h /\ Ran(g, o, h).delta[o] = h
        /\ \A q \in Offset : q # o => /\ Ran(g, o, h).total[q] = g.total[q]
                                      /\ Ran(g, o, h).delta[q] = g.delta[q]
    BY <2>1, RanType
  <2> QED BY <2>1, <2>2
<1>5. /\ DOMAIN v = DOMAIN w /\ v[1] = p /\ 1 \in DOMAIN w
      /\ \A j \in DOMAIN w : j # 1 => v[j] = w[j]
  BY <1>1, <1>2, FirstPacket, ChangedOk
<1>6. /\ DOMAIN p.counts = DOMAIN w[1].counts \ {o}
      /\ \A q \in DOMAIN w[1].counts \ {o} : p.counts[q] = w[1].counts[q]
  <2> PICK r : r = wire[1]
    OBVIOUS
  <2>1. r \in FilePackets /\ o \in DOMAIN r.counts /\ p = Without(r, o)
    BY <1>1
  <2>2. /\ DOMAIN p.counts = DOMAIN r.counts \ {o}
        /\ \A q \in DOMAIN r.counts \ {o} : p.counts[q] = r.counts[q]
    BY <2>1, WithoutType
  <2> QED BY <2>2
<1>7. w[1].kind = "file" /\ w[1].name = n /\ p.kind = "file" /\ p.name = n
      /\ o \in DOMAIN w[1].counts /\ h = w[1].counts[o]
  BY <1>1
<1>8. ASSUME NEW m, NEW q, ~(m = n /\ q = o)
      PROVE  Pending(v, m, q) = Pending(w, m, q) /\ Counted(v, m, q) = Counted(w, m, q)
  <2>1. \A k : k \in Pending(w, m, q) <=> k \in Pending(v, m, q)
    BY <1>5, <1>6, <1>7, <1>8 DEF Pending
  <2>2. \A k \in Pending(w, m, q) : v[k].counts[q] = w[k].counts[q]
    BY <1>5, <1>6, <1>7, <1>8 DEF Pending
  <2>3. Pending(v, m, q) = Pending(w, m, q)
    BY <2>1
  <2>4. Carries(w, v, m, q)
    BY <2>1, <2>2 DEF Carries
  <2> QED BY <1>2, <2>3, <2>4, SameCounted
<1>9. /\ Counted(v, n, o) = 0 /\ Counted(w, n, o) = h
      /\ Pending(v, n, o) = {} /\ Pending(w, n, o) # {}
  <2>1. 1 \in Pending(w, n, o)
    BY <1>5, <1>7 DEF Pending
  <2>2. \A k \in DOMAIN w : k # 1 => k \notin Pending(w, n, o)
    BY <1>2, <2>1, CountedIs
  <2>3. Pending(v, n, o) = {}
    BY <1>5, <1>6, <2>2 DEF Pending
  <2> QED BY <1>2, <1>7, <2>1, <2>3, CountedIs
<1>10. \A k \in DOMAIN w : \A m : OfFile(v[k], m) <=> OfFile(w[k], m)
  BY <1>5, <1>7 DEF OfFile
<1>11. MovedTo(F, G, at, n, o, h)
  BY <1>3, <1>4 DEF MovedTo
<1>12. MovedFrom(w, v, n, o, h)
  BY <1>5, <1>7, <1>8, <1>9, <1>10 DEF MovedFrom, OfFile
<1>13. n \in Name /\ h \in Nat
  BY <1>1 DEF Files
<1> QED BY <1>11, <1>12, <1>13

LEMMA CountInsn == ASSUME BaseInv, CountInv, BaseInv', Insn PROVE CountInv'
<1> PICK F, w, G, v : F = files /\ w = wire /\ G = files' /\ v = wire'
  OBVIOUS
<1>1. PICK n \in Name, o \in Offset, h \in Nat : MovedTo(F, G, at, n, o, h) /\ MovedFrom(w, v, n, o, h)
  BY InsnMoves
<1>2. FilesOk(F) /\ FilesOk(G) /\ owed' = owed
  BY DEF BaseInv, Insn
<1>3. ASSUME NEW m, NEW q \in Offset, ~(m = n /\ q = o)
      PROVE  TotalIn(G, m, q) = TotalIn(F, m, q)
  <2>1. ASSUME NEW k \in DOMAIN F, F[k].name = m
        PROVE  TotalIn(G, m, q) = TotalIn(F, m, q)
    <3>1. TotalIn(F, m, q) = F[k].total[q]
      BY <1>2, <2>1, TotalIs
    <3>2. TotalIn(G, m, q) = G[k].total[q]
      BY <1>1, <1>2, <2>1, TotalIs DEF MovedTo
    <3>3. G[k].total[q] = F[k].total[q]
      BY <1>1, <1>3, <2>1 DEF MovedTo
    <3> QED BY <3>1, <3>2, <3>3
  <2>2. ASSUME \A k \in DOMAIN F : F[k].name # m
        PROVE  TotalIn(G, m, q) = TotalIn(F, m, q)
    <3>1. TotalIn(F, m, q) = 0
      BY <1>2, <2>2, TotalIs
    <3>2. \A k \in DOMAIN G : G[k].name # m
      BY <1>1, <2>2 DEF MovedTo
    <3> QED BY <1>2, <3>1, <3>2, TotalIs
  <2> QED BY <2>1, <2>2
<1>4. TotalIn(G, n, o) = TotalIn(F, n, o) + h
  BY <1>1, <1>2, TotalIs DEF MovedTo
<1>5. ASSUME NEW m \in Name, NEW q \in Offset
      PROVE  TotalIn(G, m, q) + Counted(v, m, q) = owed[m][q]
  <2>1. TotalIn(F, m, q) + Counted(w, m, q) = owed[m][q]
    BY DEF CountInv
  <2>2. TotalIn(F, m, q) \in Nat
    BY <1>2, TotalIs
  <2>3. CASE m = n /\ q = o
    BY <1>1, <1>4, <2>1, <2>2, <2>3 DEF MovedFrom
  <2>4. CASE ~(m = n /\ q = o)
    BY <1>1, <1>3, <2>1, <2>4 DEF MovedFrom
  <2> QED BY <2>3, <2>4
<1> QED BY <1>2, <1>5 DEF CountInv

(* Nothing is under way when the packets are dropped.                      *)
LEMMA DroppedCounted ==
  ASSUME BaseInv, \/ wire = <<>>
                  \/ Arrives("end")
                  \/ NoMore /\ Head(wire).cut,
         NEW n, NEW o
  PROVE  Counted(wire, n, o) = 0
<1> PICK w : w = wire
  OBVIOUS
<1>1. WireOk(w)
  BY DEF BaseInv
<1>2. CASE w = <<>>
  BY <1>1, <1>2, NothingCounted
<1>3. CASE w # <<>>
  <2>1. Head(w) = w[1] /\ 1 \in DOMAIN w
    BY <1>1, <1>3, FirstPacket
  <2>2. Closing(w[1]) /\ (w[1].kind = "file" => DOMAIN w[1].counts = {})
    BY <1>3, <2>1 DEF Arrives, NoMore, Closing
  <2>3. 1 = Len(w) /\ DOMAIN w = 1 .. Len(w)
    BY <1>1, <2>1, <2>2, PacketOfWire DEF WireOk, ClosedLast
  <2>4. \A k \in DOMAIN w : k = 1
    BY <2>3
  <2>5. \A k \in DOMAIN w : w[k].kind = "file" => DOMAIN w[k].counts = {}
    BY <2>2, <2>4
  <2> QED BY <1>1, <2>5, NothingCounted
<1> QED BY <1>2, <1>3

LEMMA CountReading ==
  ASSUME BaseInv, CountInv, BaseInv', SkipCommand \/ ReplyHeader \/ ExitDexFile
  PROVE  CountInv'
<1> PICK w : w = wire
  OBVIOUS
<1>1. WireOk(w) /\ w # <<>> /\ wire' = Tail(w) /\ UNCHANGED <<files, owed>>
  BY DEF SkipCommand, ReplyHeader, ExitDexFile, NoMore, Arrives, BaseInv
<1>2. Head(w) = w[1]
  BY <1>1, FirstPacket
<1>3. w[1].kind = "file" => DOMAIN w[1].counts = {}
  BY <1>2 DEF SkipCommand, ReplyHeader, ExitDexFile, NoMore, Arrives
<1>4. \A n \in Name, o \in Offset : Counted(Tail(w), n, o) = Counted(w, n, o)
  BY <1>1, <1>3, TailCounted
<1> QED BY <1>1, <1>4, CountSame

LEMMA CountDropped ==
  ASSUME BaseInv, CountInv, BaseInv', Received \/ IoFails \/ Connect
  PROVE  CountInv'
<1>1. wire' = <<>> /\ UNCHANGED <<files, owed>>
  BY DEF Received, IoFails, Connect
<1>2. wire = <<>> \/ Arrives("end") \/ (NoMore /\ Head(wire).cut)
  <2>1. CASE Connect
    BY <2>1 DEF Connect, BaseInv, Talking
  <2> QED BY <2>1 DEF Received, IoFails
<1>3. ASSUME NEW n \in Name, NEW o \in Offset
      PROVE  Counted(wire', n, o) = Counted(wire, n, o)
  <2>1. Counted(wire, n, o) = 0
    BY <1>2, DroppedCounted
  <2>2. Counted(<<>>, n, o) = 0
    <3>1. WireOk(<<>>)
      BY DEF WireOk, ClosedLast, OncePerFile
    <3> QED BY <3>1, NothingCounted
  <2> QED BY <1>1, <2>1, <2>2
<1> QED BY <1>1, <1>3, CountSame

LEMMA CountAddFile == ASSUME BaseInv, CountInv, BaseInv', AddFile PROVE CountInv'
<1>1. PICK f \in Files : /\ at \in DOMAIN files /\ f.name = files[at].name
                         /\ f.total = files[at].total
                         /\ files' = [files EXCEPT ![at] = f]
  BY HandleGiven
<1>2. FilesOk(files) /\ FilesOk(files')
  BY DEF BaseInv
<1>3. /\ DOMAIN files' = DOMAIN files /\ files'[at] = f
      /\ \A j \in DOMAIN files : j # at => files'[j] = files[j]
  BY <1>1, <1>2, ChangedFiles
<1>4. Keeps(files, files')
  BY <1>1, <1>3 DEF Keeps
<1>5. UNCHANGED <<wire, owed>>
  BY DEF AddFile
<1> QED BY <1>2, <1>4, <1>5, SameTotal, CountSame

LEMMA CountRest ==
  ASSUME CountInv, UNCHANGED <<files, wire, owed>>
  PROVE  CountInv'
  BY CountSame

LEMMA CountInvKept == Spec => [](BaseInv /\ CountInv)
<1>1. ASSUME BaseInv, CountInv, BaseInv', [Next]_vars PROVE CountInv'
  <2>1. CASE \/ Update \/ ConnectFails \/ SendCommand \/ Pull \/ SkipFile \/ AddFails \/ BadName
             \/ Added \/ UpdateGraphs \/ Display \/ UNCHANGED vars
    <3>1. UNCHANGED <<files, wire, owed>>
      BY <2>1 DEF Update, ConnectFails, SendCommand, Pull, SkipFile, AddFails, BadName, Added,
                  UpdateGraphs, Display, vars
    <3> QED BY <1>1, <3>1, CountRest
  <2> QED BY <1>1, <2>1, CountDevice, CountEnterDexFile, CountInsn, CountReading, CountDropped,
             CountAddFile DEF Next, Handler
<1> QED BY <1>1, BaseKept, CountInit, PTL DEF Spec

(* Every count that the device has cleared is added to its instruction of  *)
(* its file exactly once, unless the connection swallowed it:              *)
(* update_insn_counters, which can fail after any packet.                  *)
THEOREM CountsKept == Spec => []CountsConserved
<1>1. ASSUME BaseInv, CountInv PROVE CountsConserved
  <2> SUFFICES ASSUME NEW n \in Name, NEW o \in Offset
               PROVE  /\ \A j, k \in Pending(wire, n, o) : j = k
                      /\ TotalOf(n, o) + Counted(wire, n, o) = owed[n][o]
    BY DEF CountsConserved
  <2>1. TotalOf(n, o) = TotalIn(files, n, o)
    BY DEF TotalOf, TotalIn, Entry
  <2>2. \A j, k \in Pending(wire, n, o) : j = k
    BY <1>1, CountedIs DEF BaseInv
  <2> QED BY <1>1, <2>1, <2>2 DEF CountInv
<1> QED BY <1>1, CountInvKept, PTL

-----------------------------------------------------------------------------
(* Handles.                                                                *)

HandleInv(F, L) ==
  /\ \A k \in DOMAIN F : F[k].hdl # 0 => F[k].hdl \in DOMAIN L /\ L[F[k].hdl] = F[k].name
  /\ \A j \in DOMAIN L : \E k \in DOMAIN F : F[k].name = L[j] /\ F[k].hdl # 0
  /\ \A j, k \in DOMAIN L : L[j] = L[k] => j = k

LEMMA HandlesSame ==
  ASSUME NEW F, NEW G, NEW L, HandleInv(F, L), KeepsHandles(F, G)
  PROVE  HandleInv(G, L)
<1>1. ASSUME NEW k \in DOMAIN G, G[k].hdl # 0
      PROVE  G[k].hdl \in DOMAIN L /\ L[G[k].hdl] = G[k].name
  BY <1>1 DEF HandleInv, KeepsHandles
<1>2. ASSUME NEW j \in DOMAIN L
      PROVE  \E k \in DOMAIN G : G[k].name = L[j] /\ G[k].hdl # 0
  <2>1. PICK k \in DOMAIN F : F[k].name = L[j] /\ F[k].hdl # 0
    BY DEF HandleInv
  <2> QED BY <2>1 DEF KeepsHandles
<1>3. \A j, k \in DOMAIN L : L[j] = L[k] => j = k
  BY DEF HandleInv
<1> QED BY <1>1, <1>2, <1>3 DEF HandleInv

(* A list without repetition is not longer than there are elements.        *)
LEMMA ListLength ==
  ASSUME NEW S, IsFiniteSet(S), NEW L \in Seq(S), \A j, k \in DOMAIN L : L[j] = L[k] => j = k
  PROVE  Len(L) \in Nat /\ Cardinality(S) \in Nat /\ Len(L) <= Cardinality(S)
<1> PICK n : n = Len(L)
  OBVIOUS
<1>1. n \in Nat /\ DOMAIN L = 1 .. n /\ L \in [1 .. n -> S]
  BY LenProperties
<1>2. L \in Injection(1 .. n, S)
  BY <1>1 DEF Injection, IsInjective
<1>3. Cardinality(1 .. n) = n
  <2>1. 1 \in Int /\ n \in Int
    BY <1>1
  <2>2. Cardinality(1 .. n) = IF 1 > n THEN 0 ELSE n - 1 + 1
    BY <2>1, FS_Interval
  <2> QED BY <1>1, <2>2
<1>4. Cardinality(S) \in Nat
  BY FS_CardinalityType
<1>5. Cardinality(1 .. n) <= Cardinality(S)
  BY <1>2, FS_Injection
<1> QED BY <1>1, <1>3, <1>4, <1>5

HandlesInv == HandleInv(files, loader)

LEMMA HandleAddFile ==
  ASSUME Cardinality(Name) <= 256, BaseInv, HandlesInv, AddFile
  PROVE  HandlesInv'
<1>1. PICK h \in Nat, f \in Files :
        /\ at \in DOMAIN files /\ files[at] \in Files
        /\ h = (Len(loader) % 256) + 1 /\ f.hdl = h /\ f.name = files[at].name
        /\ files' = [files EXCEPT ![at] = f]
  BY HandleGiven
<1> PICK F, G, L, M, n, m : /\ F = files /\ G = files' /\ L = loader /\ M = loader'
                            /\ n = files[at].name /\ m = Len(loader)
  OBVIOUS
<1>2. FilesOk(F) /\ L \in Seq(Name) /\ n \in Name /\ F[at].hdl = 0
  BY <1>1 DEF BaseInv, AddFile, Adding, HasHandle, Files
<1>3. /\ DOMAIN G = DOMAIN F /\ at \in DOMAIN F /\ G[at] = f
      /\ \A j \in DOMAIN F : j # at => G[j] = F[j]
  BY <1>1, <1>2, ChangedFiles
<1>4. M = Append(L, n)
  BY DEF AddFile
<1>5. m \in Nat /\ DOMAIN L = 1 .. m
  BY <1>2, LenProperties
<1>6. /\ M \in Seq(Name) /\ DOMAIN M = 1 .. m + 1 /\ Len(M) = m + 1 /\ M[m + 1] = n
      /\ \A j \in 1 .. m : M[j] = L[j]
  BY <1>2, <1>4, AppendProperties, LenProperties
<1>7. HandleInv(F, L)
  BY DEF HandlesInv
<1>8. \A j \in 1 .. m : L[j] # n
  BY <1>2, <1>3, <1>5, <1>7 DEF HandleInv, FilesOk
<1>9. \A j, k \in DOMAIN M : M[j] = M[k] => j = k
  BY <1>5, <1>6, <1>7, <1>8 DEF HandleInv
<1>10. m + 1 <= 256
  <2>1. Len(M) <= Cardinality(Name) /\ Cardinality(Name) \in Nat
    BY <1>6, <1>9, NamesAssumption, ListLength
  <2> QED BY <1>5, <1>6, <2>1
<1>11. h = m + 1
  BY <1>1, <1>5, <1>10
<1>12. \A k \in DOMAIN G : G[k].hdl # 0 => G[k].hdl \in DOMAIN M /\ M[G[k].hdl] = G[k].name
  <2> SUFFICES ASSUME NEW k \in DOMAIN G, G[k].hdl # 0
               PROVE  G[k].hdl \in DOMAIN M /\ M[G[k].hdl] = G[k].name
    OBVIOUS
  <2>1. CASE k = at
    BY <1>1, <1>3, <1>5, <1>6, <1>11, <2>1
  <2>2. CASE k # at
    <3>1. F[k].hdl \in 1 .. m /\ L[F[k].hdl] = F[k].name /\ G[k] = F[k]
      BY <1>3, <1>5, <1>7, <2>2 DEF HandleInv
    <3> QED BY <1>5, <1>6, <3>1
  <2> QED BY <2>1, <2>2
<1>13. \A j \in DOMAIN M : \E k \in DOMAIN G : G[k].name = M[j] /\ G[k].hdl # 0
  <2> SUFFICES ASSUME NEW j \in DOMAIN M
               PROVE  \E k \in DOMAIN G : G[k].name = M[j] /\ G[k].hdl # 0
    OBVIOUS
  <2>1. CASE j = m + 1
    BY <1>1, <1>3, <1>5, <1>6, <1>11, <2>1
  <2>2. CASE j # m + 1
    <3>1. j \in DOMAIN L /\ M[j] = L[j]
      BY <1>5, <1>6, <2>2
    <3>2. PICK k \in DOMAIN F : F[k].name = L[j] /\ F[k].hdl # 0
      BY <1>7, <3>1 DEF HandleInv
    <3> QED BY <1>2, <1>3, <3>1, <3>2
  <2> QED BY <2>1, <2>2
<1>14. HandleInv(G, M)
  BY <1>9, <1>12, <1>13 DEF HandleInv
<1> QED BY <1>14 DEF HandlesInv

LEMMA HandlesInit == ASSUME Init PROVE HandlesInv
  BY DEF Init, HandlesInv, HandleInv

LEMMA HandlesNext ==
  ASSUME Cardinality(Name) <= 256, BaseInv, HandlesInv, [Next]_vars
  PROVE  HandlesInv'
<1>1. CASE AddFile
  BY <1>1, HandleAddFile
<1>2. CASE EnterDexFile
  <2>1. loader' = loader
    BY <1>2 DEF EnterDexFile
  <2> QED BY <1>2, <2>1, EnterKeeps, HandlesSame DEF HandlesInv
<1>3. CASE Insn
  <2>1. loader' = loader
    BY <1>3 DEF Insn
  <2>2. KeepsHandles(files, files')
    BY <1>3, InsnKeeps
  <2> QED BY <2>1, <2>2, HandlesSame DEF HandlesInv
<1>4. CASE UNCHANGED <<files, loader>>
  BY <1>4 DEF HandlesInv
<1>5. CASE Device
  BY <1>4, <1>5 DEF Device, OpenDex, CloseDex, Report, Event, Break
<1>6. CASE \/ Update \/ Connect \/ ConnectFails \/ SendCommand \/ IoFails \/ SkipCommand
           \/ ReplyHeader \/ ExitDexFile \/ Received
  BY <1>4, <1>6 DEF Update, Connect, ConnectFails, SendCommand, IoFails, SkipCommand,
                    ReplyHeader, ExitDexFile, Received
<1>7. CASE \/ Pull \/ SkipFile \/ AddFails \/ BadName \/ Added \/ UpdateGraphs \/ Display
           \/ UNCHANGED vars
  BY <1>4, <1>7 DEF Pull, SkipFile, AddFails, BadName, Added, UpdateGraphs, Display, vars
<1> QED BY <1>1, <1>2, <1>3, <1>5, <1>6, <1>7 DEF Next, Handler

(* A handle leads to the file it was given for, and no file is in the      *)
(* loader twice, after any updates that failed half way: add_file and the  *)
(* loop over dex_files in update.  The index in a handle has 8 bits, so    *)
(* this is so as long as the device has no more files than that.           *)
THEOREM HandlesKept ==
  ASSUME Cardinality(Name) <= 256
  PROVE  Spec => []HandlesMatch
<1>1. HandlesInv => HandlesMatch
  BY DEF HandlesInv, HandleInv, HandlesMatch
<1>2. BaseInv /\ HandlesInv /\ [Next]_vars => HandlesInv'
  BY HandlesNext
<1>3. Init => HandlesInv
  BY HandlesInit
<1> QED BY <1>1, <1>2, <1>3, BaseKept, PTL DEF Spec

-----------------------------------------------------------------------------
(* The activity of a file.                                                 *)

DeltaIn(F, n, o) ==
  LET K == {k \in DOMAIN F : F[k].name = n}
  IN  IF K = {} THEN 0 ELSE F[CHOOSE k \in K : TRUE].delta[o]

LEMMA DeltaIs ==
  ASSUME NEW F, FilesOk(F), NEW n, NEW o \in Offset
  PROVE  /\ (\A k \in DOMAIN F : F[k].name # n) => DeltaIn(F, n, o) = 0
         /\ \A k \in DOMAIN F : F[k].name = n => DeltaIn(F, n, o) = F[k].delta[o]
         /\ DeltaIn(F, n, o) \in Nat
<1> PICK K : K = {k \in DOMAIN F : F[k].name = n}
  OBVIOUS
<1>1. DeltaIn(F, n, o) = IF K = {} THEN 0 ELSE F[CHOOSE k \in K : TRUE].delta[o]
  BY DEF DeltaIn
<1>2. \A j, k \in K : j = k
  BY DEF FilesOk
<1>3. ASSUME NEW k \in K
      PROVE  DeltaIn(F, n, o) = F[k].delta[o] /\ F[k].delta[o] \in Nat
  <2>1. (CHOOSE j \in K : TRUE) = k
    BY <1>2
  <2>2. F[k] \in Files
    BY FileType
  <2>3. F[k].delta \in [Offset -> Nat]
    BY <2>2 DEF Files
  <2> QED BY <1>1, <2>1, <2>3
<1> QED BY <1>1, <1>3

(* The entry of n, if there is one, keeps its activity.                    *)
KeepsDelta(F, G, n) ==
  /\ \A k \in DOMAIN F : /\ k \in DOMAIN G /\ G[k].name = F[k].name
                         /\ F[k].name = n => G[k].delta = F[k].delta
  /\ \A k \in DOMAIN G : k \in DOMAIN F \/ G[k].delta = Zero

LEMMA SameDelta ==
  ASSUME NEW F, FilesOk(F), NEW G, FilesOk(G), NEW n, KeepsDelta(F, G, n), NEW o \in Offset
  PROVE  DeltaIn(G, n, o) = DeltaIn(F, n, o)
<1>1. ASSUME NEW k \in DOMAIN F, F[k].name = n
      PROVE  DeltaIn(G, n, o) = DeltaIn(F, n, o)
  <2>1. DeltaIn(F, n, o) = F[k].delta[o]
    BY <1>1, DeltaIs
  <2>2. k \in DOMAIN G /\ G[k].name = n /\ G[k].delta[o] = F[k].delta[o]
    BY <1>1 DEF KeepsDelta
  <2> QED BY <2>1, <2>2, DeltaIs
<1>2. ASSUME \A k \in DOMAIN F : F[k].name # n
      PROVE  DeltaIn(G, n, o) = DeltaIn(F, n, o)
  <2>1. DeltaIn(F, n, o) = 0
    BY <1>2, DeltaIs
  <2>2. ASSUME NEW k \in DOMAIN G, G[k].name = n
        PROVE  DeltaIn(G, n, o) = 0
    <3>1. G[k].delta = Zero
      BY <1>2, <2>2 DEF KeepsDelta
    <3> QED BY <2>2, <3>1, DeltaIs DEF Zero
  <2> QED BY <2>1, <2>2, DeltaIs
<1> QED BY <1>1, <1>2

(* The packet of n is under way and is not the one that is being read.     *)
Waits(w, place, n) == \E k \in DOMAIN w : OfFile(w[k], n) /\ ~(place = "counters" /\ k = 1)

(* What a file had before this update, and what it will have when all that *)
(* is under way has been read.                                             *)
Waiting(F, w, n, o, l, e) ==
  DeltaIn(F, n, o) = e /\ Counted(w, n, o) = l

Settling(F, w, n, o, l) ==
  /\ DeltaIn(F, n, o) + Counted(w, n, o) = l
  /\ Pending(w, n, o) # {} => DeltaIn(F, n, o) = 0

DeltaRight(F, w, place, n, o, l, e) ==
  /\ Waits(w, place, n) => Waiting(F, w, n, o, l, e)
  /\ ~Waits(w, place, n) => Settling(F, w, n, o, l)

DeltaInv ==
  /\ last \in [Name -> [Offset -> Nat]] /\ earlier \in [Name -> [Offset -> Nat]]
  /\ \A n \in Name, o \in Offset : DeltaRight(files, wire, pc, n, o, last[n][o], earlier[n][o])

(* A packet of n, and where it is.                                         *)
LEMMA OnePlace ==
  ASSUME NEW w, WireOk(w), NEW n, NEW k \in DOMAIN w, OfFile(w[k], n), NEW place
  PROVE  Waits(w, place, n) <=> ~(place = "counters" /\ k = 1)
<1>1. \A j \in DOMAIN w : OfFile(w[j], n) => j = k
  BY DEF OfFile, WireOk, OncePerFile, BothOf
<1> QED BY <1>1 DEF Waits

(* No packet of n is under way.                                            *)
Absent(w, n) == \A k \in DOMAIN w : ~OfFile(w[k], n)

LEMMA AbsentCounted ==
  ASSUME NEW w, WireOk(w), NEW n, Absent(w, n), NEW o
  PROVE  /\ Pending(w, n, o) = {} /\ Counted(w, n, o) = 0
         /\ \A place : ~Waits(w, place, n)
<1>1. Pending(w, n, o) = {}
  BY DEF Absent, OfFile, Pending
<1> QED BY <1>1, CountedIs DEF Absent, Waits

LEMMA AbsentSettled ==
  ASSUME NEW F, FilesOk(F), NEW w, WireOk(w), NEW n, Absent(w, n), NEW o \in Offset, NEW l
  PROVE  Settling(F, w, n, o, l) <=> DeltaIn(F, n, o) = l
  BY AbsentCounted, DeltaIs DEF Settling

(* The steps that touch neither files nor reports, nothing being under way.*)
LEMMA DeltaQuiet ==
  ASSUME BaseInv, DeltaInv, BaseInv', UNCHANGED <<files, last>>, earlier' \in {earlier, last},
         \A n \in Name, o \in Offset : ~Waits(wire, pc, n) /\ Counted(wire, n, o) = 0,
         \A n \in Name : Absent(wire', n)
  PROVE  DeltaInv'
<1> PICK F, w, v : F = files /\ w = wire /\ v = wire'
  OBVIOUS
<1>1. FilesOk(F) /\ WireOk(v)
  BY DEF BaseInv
<1>2. ASSUME NEW n \in Name, NEW o \in Offset, NEW e
      PROVE  DeltaRight(F, v, pc', n, o, last[n][o], e)
  <2>1. Settling(F, w, n, o, last[n][o])
    BY DEF DeltaInv, DeltaRight
  <2>2. DeltaIn(F, n, o) \in Nat /\ Counted(w, n, o) = 0
    BY <1>1, DeltaIs
  <2>3. DeltaIn(F, n, o) = last[n][o]
    BY <2>1, <2>2 DEF Settling
  <2>4. Absent(v, n)
    OBVIOUS
  <2>5. ~Waits(v, pc', n) /\ Settling(F, v, n, o, last[n][o])
    BY <1>1, <2>3, <2>4, AbsentCounted, AbsentSettled
  <2> QED BY <2>5 DEF DeltaRight
<1> QED BY <1>2 DEF DeltaInv

LEMMA DeltaIdle ==
  ASSUME BaseInv, DeltaInv, BaseInv',
         \/ Update \/ ConnectFails \/ SendCommand \/ Pull \/ SkipFile
         \/ AddFails \/ BadName \/ Added \/ UpdateGraphs \/ Display
  PROVE  DeltaInv'
<1>1. wire = <<>> /\ wire' = wire /\ UNCHANGED <<files, last>> /\ earlier' \in {earlier, last}
  BY DEF Update, ConnectFails, SendCommand, Pull, SkipFile, AddFails, BadName, Added, Adding,
         UpdateGraphs, Display, BaseInv, Talking
<1>2. \A n : Absent(<<>>, n)
  BY DEF Absent
<1>3. WireOk(wire)
  BY DEF BaseInv
<1>4. \A n, o : ~Waits(wire, pc, n) /\ Counted(wire, n, o) = 0
  BY <1>1, <1>2, <1>3, AbsentCounted
<1> QED BY <1>1, <1>2, <1>4, DeltaQuiet

LEMMA DeltaDropped ==
  ASSUME BaseInv, DeltaInv, BaseInv', Received \/ IoFails \/ Connect
  PROVE  DeltaInv'
<1> PICK w : w = wire
  OBVIOUS
<1>1. WireOk(w) /\ wire' = <<>> /\ UNCHANGED <<files, last, earlier>>
  BY DEF Received, IoFails, Connect, BaseInv
<1>2. \/ w = <<>>
      \/ Arrives("end")
      \/ NoMore /\ Head(w).cut /\ pc = "counters"
  <2>1. CASE Connect
    BY <2>1 DEF Connect, BaseInv, Talking
  <2> QED BY <2>1 DEF Received, IoFails
<1>3. \A n, o : Counted(w, n, o) = 0
  BY <1>2, DroppedCounted
<1>4. ASSUME NEW n PROVE ~Waits(w, pc, n)
  <2>1. CASE w = <<>>
    BY <2>1 DEF Waits
  <2>2. CASE w # <<>>
    <3>1. Head(w) = w[1] /\ 1 \in DOMAIN w
      BY <1>1, <2>2, FirstPacket
    <3>2. Closing(w[1]) /\ (w[1].kind = "file" => pc = "counters")
      BY <1>2, <2>2, <3>1 DEF Arrives, NoMore, Closing
    <3>3. 1 = Len(w) /\ DOMAIN w = 1 .. Len(w)
      BY <1>1, <3>1, <3>2, PacketOfWire DEF WireOk, ClosedLast
    <3>4. \A k \in DOMAIN w : k = 1
      BY <3>3
    <3> QED BY <3>2, <3>4 DEF Waits, OfFile
  <2> QED BY <2>1, <2>2
<1>5. \A n : Absent(<<>>, n)
  BY DEF Absent
<1> QED BY <1>1, <1>3, <1>4, <1>5, DeltaQuiet

LEMMA DeltaEvent == ASSUME BaseInv, DeltaInv, BaseInv', Event PROVE DeltaInv'
<1> PICK r : r = [kind |-> "command"]
  OBVIOUS
<1>1. wire = <<>> /\ wire' = <<r>> /\ UNCHANGED <<files, last, earlier>> /\ WireOk(wire)
  BY DEF Event, BaseInv
<1>2. \A n : Absent(<<>>, n) /\ Absent(<<r>>, n)
  BY DEF Absent, OfFile
<1>3. \A n, o : ~Waits(wire, pc, n) /\ Counted(wire, n, o) = 0
  BY <1>1, <1>2, AbsentCounted
<1> QED BY <1>1, <1>2, <1>3, DeltaQuiet

LEMMA DeltaReport == ASSUME BaseInv, DeltaInv, BaseInv', Report PROVE DeltaInv'
<1>1. PICK order \in SetToSeqs(table), counts \in [Name -> [Offset -> 0 .. MaxCount]] :
        /\ wire' = Reported(wire, order, counts)
        /\ Silent(counts, table)
        /\ last' = [n \in Name |-> IF n \in table THEN counts[n] ELSE last[n]]
  BY DEF Report, Reported, Silent
<1>2. table \subseteq Name /\ IsFiniteSet(table) /\ Lists(order, table)
  BY NamesAssumption, FS_Subset, SetToSeqsLists DEF BaseInv
<1>3. counts \in [Name -> [Offset -> Nat]]
  BY BoundsAssumption
<1> PICK F, w, v : F = files /\ w = wire /\ v = wire'
  OBVIOUS
<1>4. /\ WireOk(w) /\ Commands(w) /\ WireOk(v) /\ FilesOk(F)
      /\ pc = "header" /\ pc' = pc /\ files' = F /\ earlier' = last
  BY DEF Report, BaseInv
<1>5. ReportOf(v, table, counts)
  BY <1>1, <1>2, <1>3, <1>4, ReportedOk
<1>6. ASSUME NEW n \in Name, NEW o \in Offset
      PROVE  DeltaIn(F, n, o) = last[n][o] /\ Counted(v, n, o) = counts[n][o]
  <2>1. Absent(w, n)
    BY <1>4 DEF Commands, Absent, OfFile
  <2>2. ~Waits(w, pc, n)
    BY <1>4, <2>1, AbsentCounted
  <2>3. Settling(F, w, n, o, last[n][o])
    BY <2>2 DEF DeltaInv, DeltaRight
  <2>4. Counted(Reported(wire, order, counts), n, o) = counts[n][o]
    BY <1>1, <1>2, <1>3, <1>4, ReportCounted
  <2> QED BY <1>1, <1>4, <2>1, <2>3, <2>4, AbsentSettled
<1>7. ASSUME NEW n \in table
      PROVE  Waits(v, "header", n)
  <2>1. n \in Name /\ counts[n] \in [Offset -> Nat]
    BY <1>2, <1>3
  <2>2. PICK k \in DOMAIN v : v[k] = Packet(n, counts[n])
    BY <1>5 DEF ReportOf, Range
  <2>3. OfFile(v[k], n)
    BY <2>1, <2>2, PacketType DEF OfFile
  <2> QED BY <2>3 DEF Waits
<1>8. ASSUME NEW n \in Name \ table
      PROVE  Absent(v, n)
  <2> SUFFICES ASSUME NEW k \in DOMAIN v, OfFile(v[k], n) PROVE FALSE
    BY DEF Absent
  <2>1. v[k] \in Range(v) /\ v[k].kind = "file" /\ v[k].name = n
    BY DEF Range, OfFile
  <2>2. PICK m \in table : v[k] = Packet(m, counts[m])
    BY <1>5, <2>1 DEF ReportOf
  <2>3. m \in Name /\ counts[m] \in [Offset -> Nat]
    BY <1>2, <1>3
  <2> QED BY <2>1, <2>2, <2>3, PacketType
<1>9. last' \in [Name -> [Offset -> Nat]]
  <2>1. \A n \in Name : counts[n] \in [Offset -> Nat] /\ last[n] \in [Offset -> Nat]
    BY <1>3 DEF DeltaInv
  <2> QED BY <1>1, <2>1
<1>10. ASSUME NEW n \in Name, NEW o \in Offset
       PROVE  DeltaRight(F, v, "header", n, o, last'[n][o], last[n][o])
  <2>1. CASE n \in table
    <3>1. last'[n] = counts[n]
      BY <1>1, <2>1
    <3> QED BY <1>6, <1>7, <2>1, <3>1 DEF DeltaRight, Waiting
  <2>2. CASE n \notin table
    <3>1. last'[n] = last[n] /\ Absent(v, n)
      BY <1>1, <1>8, <2>2
    <3>2. ~Waits(v, "header", n) /\ Settling(F, v, n, o, last[n][o])
      BY <1>4, <1>6, <3>1, AbsentCounted, AbsentSettled
    <3> QED BY <3>1, <3>2 DEF DeltaRight
  <2> QED BY <2>1, <2>2
<1> QED BY <1>4, <1>9, <1>10 DEF DeltaInv

(* What a broken connection has swallowed is taken from the last report.   *)
LEMMA DeltaBreak == ASSUME BaseInv, DeltaInv, BaseInv', Break PROVE DeltaInv'
<1> PICK F, w, v : F = files /\ w = wire /\ v = wire'
  OBVIOUS
<1>1. /\ WireOk(w) /\ WireOk(v) /\ FilesOk(F) /\ UNCHANGED <<files, pc, earlier>>
      /\ last' = [n \in Name |->
                    IF Swallowed(n) THEN earlier[n]
                    ELSE [o \in Offset |-> last[n][o] - (Counted(w, n, o) - Counted(v, n, o))]]
  BY DEF Break, BaseInv
<1>2. LessOf(w, v)
  <2>1. Broken(w, v)
    BY DEF Break, Broken
  <2> QED BY <1>1, <2>1, BrokenOk
<1>3. \A k \in DOMAIN v : \A n : k \in DOMAIN w /\ (OfFile(v[k], n) => OfFile(w[k], n))
  BY <1>2 DEF LessOf, LessOfPacket, OfFile
<1>4. ASSUME NEW n PROVE Swallowed(n) <=> Waits(w, pc, n) /\ Absent(v, n)
  BY DEF Swallowed, Waits, Absent, OfFile
<1>5. ASSUME NEW n \in Name, NEW o \in Offset
      PROVE  /\ DeltaRight(F, v, pc, n, o, last'[n][o], earlier[n][o])
             /\ last'[n][o] \in Nat
  <2> PICK d, a, b : d = DeltaIn(F, n, o) /\ a = Counted(w, n, o) /\ b = Counted(v, n, o)
    OBVIOUS
  <2>1. d \in Nat /\ a \in Nat /\ b \in Nat
    BY <1>1, DeltaIs, CountedIs
  <2>2. DeltaRight(F, w, pc, n, o, last[n][o], earlier[n][o])
    BY DEF DeltaInv
  <2>3. CASE Waits(w, pc, n) /\ Absent(v, n)
    <3>1. last'[n][o] = earlier[n][o] /\ d = earlier[n][o]
      BY <1>1, <1>4, <2>2, <2>3 DEF DeltaRight, Waiting
    <3>2. ~Waits(v, pc, n) /\ Settling(F, v, n, o, last'[n][o])
      BY <1>1, <2>3, <3>1, AbsentCounted, AbsentSettled
    <3> QED BY <2>1, <3>1, <3>2 DEF DeltaRight
  <2>4. ASSUME ~(Waits(w, pc, n) /\ Absent(v, n))
        PROVE  last'[n][o] = last[n][o] - (a - b)
    BY <1>1, <1>4, <2>4
  <2>5. CASE Waits(w, pc, n) /\ ~Absent(v, n)
    <3>1. d = earlier[n][o] /\ a = last[n][o]
      BY <2>2, <2>5 DEF DeltaRight, Waiting
    <3>2. last'[n][o] = b
      BY <2>1, <2>4, <2>5, <3>1
    <3>3. PICK k \in DOMAIN v : OfFile(v[k], n)
      BY <2>5 DEF Absent
    <3>4. ~(pc = "counters" /\ k = 1)
      BY <1>1, <1>3, <2>5, <3>3, OnePlace
    <3>5. Waits(v, pc, n)
      BY <3>3, <3>4 DEF Waits
    <3> QED BY <2>1, <3>1, <3>2, <3>5 DEF DeltaRight, Waiting
  <2>6. CASE ~Waits(w, pc, n)
    <3>1. d + a = last[n][o] /\ (Pending(w, n, o) # {} => d = 0)
      BY <2>2, <2>6 DEF DeltaRight, Settling
    <3>2. last'[n][o] = d + b
      BY <2>1, <2>4, <2>6, <3>1
    <3>3. ~Waits(v, pc, n)
      BY <1>3, <2>6 DEF Waits
    <3>4. \A k : k \in Pending(v, n, o) => k \in Pending(w, n, o)
      BY <1>2 DEF LessOf, LessOfPacket, Pending
    <3>5. Settling(F, v, n, o, last'[n][o])
      BY <3>1, <3>2, <3>4 DEF Settling
    <3> QED BY <2>1, <3>2, <3>3, <3>5 DEF DeltaRight
  <2> QED BY <2>3, <2>5, <2>6
<1>6. last' \in [Name -> [Offset -> Nat]]
  <2>1. ASSUME NEW n \in Name PROVE last'[n] \in [Offset -> Nat]
    <3>1. CASE Swallowed(n)
      BY <1>1, <3>1 DEF DeltaInv
    <3>2. CASE ~Swallowed(n)
      <4>1. last'[n] = [o \in Offset |-> last[n][o] - (Counted(w, n, o) - Counted(v, n, o))]
        BY <1>1, <3>2
      <4>2. \A o \in Offset : last[n][o] - (Counted(w, n, o) - Counted(v, n, o)) \in Nat
        BY <1>5, <4>1
      <4> QED BY <4>1, <4>2
    <3> QED BY <3>1, <3>2
  <2>2. last' = [n \in Name |-> last'[n]]
    BY <1>1
  <2> QED BY <2>1, <2>2
<1> QED BY <1>1, <1>5, <1>6 DEF DeltaInv

LEMMA DeltaEnterDexFile == ASSUME BaseInv, DeltaInv, BaseInv', EnterDexFile PROVE DeltaInv'
<1> PICK n, F, G, w : n = Head(wire).name /\ F = files /\ G = files' /\ w = wire
  OBVIOUS
<1>1. /\ pc = "payload" /\ pc' = "counters" /\ wire' = w /\ UNCHANGED <<last, earlier>>
      /\ WireOk(w) /\ FilesOk(F) /\ FilesOk(G) /\ w # <<>> /\ Head(w).kind = "file"
  BY DEF EnterDexFile, Arrives, BaseInv
<1>2. n \in Name /\ 1 \in DOMAIN w /\ OfFile(w[1], n)
  BY <1>1, FirstPacket DEF FilePackets, OfFile
<1>3. ASSUME NEW o \in Offset PROVE DeltaIn(G, n, o) = 0
  <2>1. at' \in DOMAIN G /\ G[at'].name = n /\ G[at'].delta = Zero
    BY Entered
  <2> QED BY <1>1, <2>1, DeltaIs DEF Zero
<1>4. ASSUME NEW m, m # n, NEW o \in Offset PROVE DeltaIn(G, m, o) = DeltaIn(F, m, o)
  <2>1. G[at'].name = n
    BY Entered
  <2>2. \A j \in DOMAIN F : /\ j \in DOMAIN G /\ G[j].name = F[j].name
                            /\ j # at' => G[j] = F[j]
    BY Entered
  <2>3. \A j \in DOMAIN G : j \in DOMAIN F \/ G[j].delta = Zero
    BY Entered
  <2>4. KeepsDelta(F, G, m)
    BY <1>4, <2>1, <2>2, <2>3 DEF KeepsDelta
  <2> QED BY <1>1, <2>4, SameDelta
<1>5. ASSUME NEW m \in Name, NEW o \in Offset
      PROVE  DeltaRight(G, w, "counters", m, o, last[m][o], earlier[m][o])
  <2>1. DeltaRight(F, w, "payload", m, o, last[m][o], earlier[m][o])
    BY <1>1 DEF DeltaInv
  <2>2. CASE m = n
    <3>1. Waits(w, "payload", n) /\ ~Waits(w, "counters", n)
      BY <1>1, <1>2, OnePlace
    <3>2. Counted(w, n, o) = last[n][o] /\ Counted(w, n, o) \in Nat
      BY <1>1, <2>1, <2>2, <3>1, CountedIs DEF DeltaRight, Waiting
    <3> QED BY <1>3, <2>2, <3>1, <3>2 DEF DeltaRight, Settling
  <2>3. CASE m # n
    <3>1. Waits(w, "payload", m) <=> Waits(w, "counters", m)
      BY <1>2, <2>3 DEF Waits, OfFile
    <3> QED BY <1>4, <2>1, <2>3, <3>1 DEF DeltaRight, Waiting, Settling
  <2> QED BY <2>2, <2>3
<1> QED BY <1>1, <1>5 DEF DeltaInv

LEMMA DeltaInsn == ASSUME BaseInv, DeltaInv, BaseInv', Insn PROVE DeltaInv'
<1> PICK F, w, G, v : F = files /\ w = wire /\ G = files' /\ v = wire'
  OBVIOUS
<1>1. PICK n \in Name, o \in Offset, h \in Nat : MovedTo(F, G, at, n, o, h) /\ MovedFrom(w, v, n, o, h)
  BY InsnMoves
<1>2. /\ FilesOk(F) /\ FilesOk(G) /\ WireOk(w) /\ WireOk(v)
      /\ pc = "counters" /\ UNCHANGED <<pc, last, earlier>>
  BY DEF BaseInv, Insn
<1>3. ASSUME NEW m, NEW q \in Offset, ~(m = n /\ q = o)
      PROVE  DeltaIn(G, m, q) = DeltaIn(F, m, q)
  <2>1. ASSUME NEW k \in DOMAIN F, F[k].name = m
        PROVE  DeltaIn(G, m, q) = DeltaIn(F, m, q)
    <3>1. DeltaIn(F, m, q) = F[k].delta[q]
      BY <1>2, <2>1, DeltaIs
    <3>2. DeltaIn(G, m, q) = G[k].delta[q]
      BY <1>1, <1>2, <2>1, DeltaIs DEF MovedTo
    <3>3. G[k].delta[q] = F[k].delta[q]
      BY <1>1, <1>3, <2>1 DEF MovedTo
    <3> QED BY <3>1, <3>2, <3>3
  <2>2. ASSUME \A k \in DOMAIN F : F[k].name # m
        PROVE  DeltaIn(G, m, q) = DeltaIn(F, m, q)
    <3>1. DeltaIn(F, m, q) = 0
      BY <1>2, <2>2, DeltaIs
    <3>2. \A k \in DOMAIN G : G[k].name # m
      BY <1>1, <2>2 DEF MovedTo
    <3> QED BY <1>2, <3>1, <3>2, DeltaIs
  <2> QED BY <2>1, <2>2
<1>4. DeltaIn(G, n, o) = h
  BY <1>1, <1>2, DeltaIs DEF MovedTo
<1>5. ASSUME NEW m PROVE Waits(v, pc, m) <=> Waits(w, pc, m)
  BY <1>1 DEF MovedFrom, Waits
<1>6. ~Waits(w, pc, n)
  BY <1>1, <1>2, OnePlace DEF MovedFrom
<1>7. ASSUME NEW m \in Name, NEW q \in Offset
      PROVE  DeltaRight(G, v, pc, m, q, last[m][q], earlier[m][q])
  <2>1. DeltaRight(F, w, pc, m, q, last[m][q], earlier[m][q])
    BY DEF DeltaInv
  <2>2. CASE m = n /\ q = o
    <3>1. DeltaIn(F, n, o) = 0 /\ DeltaIn(F, n, o) + h = last[n][o]
      BY <1>1, <1>6, <2>1, <2>2 DEF DeltaRight, Settling, MovedFrom
    <3>2. Settling(G, v, n, o, last[n][o])
      BY <1>1, <1>4, <3>1 DEF Settling, MovedFrom
    <3> QED BY <1>5, <1>6, <2>2, <3>2 DEF DeltaRight
  <2>3. CASE ~(m = n /\ q = o)
    <3>1. /\ Counted(v, m, q) = Counted(w, m, q) /\ Pending(v, m, q) = Pending(w, m, q)
          /\ DeltaIn(G, m, q) = DeltaIn(F, m, q)
      BY <1>1, <1>3, <2>3 DEF MovedFrom
    <3> QED BY <1>5, <2>1, <3>1 DEF DeltaRight, Waiting, Settling
  <2> QED BY <2>2, <2>3
<1> QED BY <1>2, <1>7 DEF DeltaInv

LEMMA DeltaReading ==
  ASSUME BaseInv, DeltaInv, BaseInv', SkipCommand \/ ReplyHeader \/ ExitDexFile
  PROVE  DeltaInv'
<1> PICK F, w, v : F = files /\ w = wire /\ v = wire'
  OBVIOUS
<1>1. /\ WireOk(w) /\ WireOk(v) /\ FilesOk(F) /\ w # <<>> /\ v = Tail(w)
      /\ UNCHANGED <<files, last, earlier>>
  BY DEF SkipCommand, ReplyHeader, ExitDexFile, NoMore, Arrives, BaseInv
<1>2. Head(w) = w[1] /\ 1 \in DOMAIN w
  BY <1>1, FirstPacket
<1>3. /\ w[1].kind = "file" => DOMAIN w[1].counts = {}
      /\ w[1].kind = "file" <=> pc = "counters"
      /\ pc' # "counters"
  BY <1>2 DEF SkipCommand, ReplyHeader, ExitDexFile, NoMore, Arrives
<1>4. Len(w) \in Nat /\ DOMAIN w = 1 .. Len(w) /\ DOMAIN v = 1 .. Len(w) - 1
  BY <1>1, TailOk, PacketOfWire
<1>5. \A k \in DOMAIN v : k + 1 \in DOMAIN w /\ v[k] = w[k + 1] /\ k + 1 # 1
  BY <1>1, <1>4, Discarded
<1>6. \A k \in DOMAIN w : k # 1 => k - 1 \in DOMAIN v /\ v[k - 1] = w[k]
  <2>1. \A k \in DOMAIN w : k # 1 => k - 1 \in DOMAIN v /\ (k - 1) + 1 = k
    BY <1>4
  <2> QED BY <1>5, <2>1
<1>7. ASSUME NEW n PROVE Waits(v, pc', n) <=> Waits(w, pc, n)
  <2>1. ASSUME Waits(v, pc', n) PROVE Waits(w, pc, n)
    BY <1>5, <2>1 DEF Waits
  <2>2. ASSUME Waits(w, pc, n) PROVE Waits(v, pc', n)
    <3>1. PICK k \in DOMAIN w : OfFile(w[k], n) /\ ~(pc = "counters" /\ k = 1)
      BY <2>2 DEF Waits
    <3>2. k # 1
      BY <1>3, <3>1 DEF OfFile
    <3> QED BY <1>3, <1>6, <3>1, <3>2 DEF Waits
  <2> QED BY <2>1, <2>2
<1>8. ASSUME NEW n, ~Waits(v, pc', n), NEW o PROVE Pending(v, n, o) = {}
  BY <1>3, <1>8 DEF Waits, Pending, OfFile
<1>9. ASSUME NEW n \in Name, NEW o \in Offset
      PROVE  DeltaRight(F, v, pc', n, o, last[n][o], earlier[n][o])
  <2>1. DeltaRight(F, w, pc, n, o, last[n][o], earlier[n][o])
    BY DEF DeltaInv
  <2>2. Counted(v, n, o) = Counted(w, n, o)
    BY <1>1, <1>3, TailCounted
  <2> QED BY <1>7, <1>8, <2>1, <2>2 DEF DeltaRight, Waiting, Settling
<1> QED BY <1>1, <1>9 DEF DeltaInv

LEMMA DeltaAddFile == ASSUME BaseInv, DeltaInv, BaseInv', AddFile PROVE DeltaInv'
<1>1. PICK f \in Files : /\ at \in DOMAIN files /\ f.name = files[at].name
                         /\ f.delta = files[at].delta
                         /\ files' = [files EXCEPT ![at] = f]
  BY HandleGiven
<1> PICK F, G : F = files /\ G = files'
  OBVIOUS
<1>2. FilesOk(F) /\ FilesOk(G) /\ UNCHANGED <<wire, pc, last, earlier>>
  BY DEF BaseInv, AddFile
<1>3. /\ DOMAIN G = DOMAIN F /\ G[at] = f
      /\ \A j \in DOMAIN F : j # at => G[j] = F[j]
  BY <1>1, <1>2, ChangedFiles
<1>4. \A n : KeepsDelta(F, G, n)
  BY <1>1, <1>3 DEF KeepsDelta
<1>5. \A n : \A o \in Offset : DeltaIn(G, n, o) = DeltaIn(F, n, o)
  BY <1>2, <1>4, SameDelta
<1>6. ASSUME NEW n \in Name, NEW o \in Offset
      PROVE  DeltaRight(G, wire, pc, n, o, last[n][o], earlier[n][o])
  <2>1. DeltaRight(F, wire, pc, n, o, last[n][o], earlier[n][o])
    BY DEF DeltaInv
  <2> QED BY <1>5, <2>1 DEF DeltaRight, Waiting, Settling
<1> QED BY <1>2, <1>6 DEF DeltaInv

LEMMA DeltaRest ==
  ASSUME DeltaInv, UNCHANGED <<files, wire, pc, last, earlier>>
  PROVE  DeltaInv'
  BY DEF DeltaInv

LEMMA DeltaNext == ASSUME BaseInv, DeltaInv, BaseInv', [Next]_vars PROVE DeltaInv'
<1>1. CASE OpenDex \/ CloseDex \/ UNCHANGED vars
  BY <1>1, DeltaRest DEF OpenDex, CloseDex, vars
<1> QED BY <1>1, DeltaReport, DeltaEvent, DeltaBreak, DeltaEnterDexFile, DeltaInsn, DeltaReading,
           DeltaDropped, DeltaAddFile, DeltaIdle DEF Next, Device, Handler

LEMMA DeltaInit == ASSUME Init PROVE DeltaInv
<1>1. /\ files = <<>> /\ wire = <<>>
      /\ last = [n \in Name |-> Zero] /\ earlier = [n \in Name |-> Zero]
  BY DEF Init
<1>2. FilesOk(<<>>) /\ WireOk(<<>>) /\ \A n : Absent(<<>>, n)
  BY DEF FilesOk, WireOk, ClosedLast, OncePerFile, Absent
<1>3. \A n : \A o \in Offset : DeltaIn(<<>>, n, o) = 0
  BY <1>2, DeltaIs
<1>4. ASSUME NEW n \in Name, NEW o \in Offset
      PROVE  DeltaRight(<<>>, <<>>, pc, n, o, 0, 0)
  <2> PICK e : e = <<>>
    OBVIOUS
  <2>1. FilesOk(e) /\ WireOk(e) /\ Absent(e, n) /\ DeltaIn(e, n, o) = 0
    BY <1>2, <1>3
  <2>2. ~Waits(e, pc, n) /\ Settling(e, e, n, o, 0)
    BY <2>1, AbsentCounted, AbsentSettled
  <2> QED BY <2>2 DEF DeltaRight
<1> QED BY <1>1, <1>4 DEF DeltaInv, Zero

(* Whenever no report is being read, the activity of each file is what has *)
(* arrived of the last report that named it, also where updates failed     *)
(* between two packets: enter_dex_file clears it, insn sets it, and what   *)
(* no report names stays.                                                  *)
THEOREM DeltaKept == Spec => []DeltaOfLastReport
<1>1. ASSUME BaseInv, DeltaInv PROVE DeltaOfLastReport
  <2> SUFFICES ASSUME pc \notin {"header", "payload", "counters"}, NEW n \in Name
               PROVE  DeltaOf(n) = last[n]
    BY DEF DeltaOfLastReport
  <2>1. WireOk(wire) /\ FilesOk(files) /\ Absent(wire, n)
    BY <1>1 DEF BaseInv, Talking, Absent
  <2>2. ASSUME NEW o \in Offset PROVE DeltaIn(files, n, o) = last[n][o]
    <3>1. ~Waits(wire, pc, n)
      BY <2>1, AbsentCounted
    <3>2. Settling(files, wire, n, o, last[n][o])
      BY <1>1, <3>1 DEF DeltaInv, DeltaRight
    <3> QED BY <2>1, <3>2, AbsentSettled
  <2>3. /\ DeltaOf(n) \in [Offset -> Nat]
        /\ \A o \in Offset : DeltaOf(n)[o] = DeltaIn(files, n, o)
    <3>1. CASE Entry(n) = {}
      BY <3>1 DEF DeltaOf, DeltaIn, Entry, Zero
    <3>2. CASE Entry(n) # {}
      <4>1. PICK k \in DOMAIN files : k = (CHOOSE j \in Entry(n) : TRUE) /\ files[k].name = n
        BY <3>2 DEF Entry
      <4>2. files[k] \in Files
        BY <2>1, FileType
      <4>3. DeltaOf(n) = files[k].delta /\ files[k].delta \in [Offset -> Nat]
        BY <3>2, <4>1, <4>2 DEF DeltaOf, Files
      <4>4. \A o \in Offset : DeltaIn(files, n, o) = files[k].delta[o]
        BY <2>1, <4>1, DeltaIs
      <4> QED BY <4>3, <4>4
    <3> QED BY <3>1, <3>2
  <2>4. last[n] \in [Offset -> Nat]
    BY <1>1 DEF DeltaInv
  <2> QED BY <2>2, <2>3, <2>4
<1>2. BaseInv /\ DeltaInv /\ BaseInv' /\ [Next]_vars => DeltaInv'
  BY DeltaNext
<1> QED BY <1>1, <1>2, BaseKept, DeltaInit, PTL DEF Spec
=============================================================================
