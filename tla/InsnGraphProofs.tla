--------------------------- MODULE InsnGraphProofs ---------------------------
(***************************************************************************)
(* Theorems about the instruction graphs, for every file.                  *)
(***************************************************************************)
EXTENDS ExplodedGraph, NaturalSets, TLAPS

-----------------------------------------------------------------------------
(* A method of a file, as FilesAssumption has it.                          *)
IsItem(item) ==
  /\ item.op \in OpcodeNames /\ item.units = Units(item) /\ item.to \in Int
  /\ item.targets \in Seq(Int) /\ item.width \in Nat
IsTry(t) ==
  /\ t.start \in Nat /\ t.count \in Nat \ {0} /\ t.handlers \in Int /\ t.list \in Seq(Nat)
  /\ Len(t.list) = IF t.handlers <= 0 THEN 1 - t.handlers ELSE t.handlers
IsMethod(mth) ==
  /\ mth.codeOff \in Nat /\ mth.size \in Nat
  /\ DOMAIN mth.code \subseteq 0 .. mth.size - 1
  /\ \A o \in DOMAIN mth.code : IsItem(mth.code[o])
  /\ mth.tries \in Seq(Range(mth.tries)) /\ \A t \in Range(mth.tries) : IsTry(t)

LEMMA FileMethods ==
  ASSUME NEW f \in Files
  PROVE  /\ f \in Seq(Range(f)) /\ f # <<>>
         /\ \A i \in DOMAIN f : IsMethod(f[i])
  BY FilesAssumption DEF IsMethod, IsItem, IsTry

-----------------------------------------------------------------------------
(* The code computes the lengths of the format.                            *)
LEMMA SizeIsUnits ==
  ASSUME NEW item, IsItem(item), item.op \notin Payloads
  PROVE  Info[item.op].size = item.units /\ item.units \in Nat \ {0}
  BY DEF IsItem, Units, OpcodeNames, Payloads, Info, Entry

LEMMA PayloadSizeIsUnits ==
  ASSUME NEW item, IsItem(item), item.op \in Payloads
  PROVE  PayloadSize(item) = item.units /\ item.units \in Nat \ {0}
<1>1. PICK n \in Nat : n = Len(item.targets)
  BY LenProperties DEF IsItem
<1>2. PICK bytes \in Nat : bytes = Len(item.targets) * item.width
  BY <1>1 DEF IsItem
<1>3. (bytes + 1) \div 2 \in Nat
  OBVIOUS
<1>4. CASE item.op = "packed_payload"
  BY <1>1, <1>4 DEF IsItem, Units, PayloadSize
<1>5. CASE item.op = "sparse_payload"
  BY <1>1, <1>5 DEF IsItem, Units, PayloadSize
<1>6. CASE item.op = "fill_payload"
  BY <1>2, <1>3, <1>6 DEF IsItem, Units, PayloadSize
<1> QED BY <1>4, <1>5, <1>6 DEF Payloads

-----------------------------------------------------------------------------
(* Graphs.                                                                 *)
IsList(s) == \E S : s \in Seq(S)
IsGraph(gr) ==
  gr = [offs |-> gr.offs, tries |-> gr.tries, edges |-> gr.edges, lines |-> gr.lines, flow |-> gr.flow]

(* The offsets of the instructions rise.                                   *)
Rising(offs) ==
  /\ offs \in Seq(Nat)
  /\ \A v, w \in DOMAIN offs : v < w => offs[v] < offs[w]

LEMMA ListAppend ==
  ASSUME NEW s, IsList(s), NEW x
  PROVE  /\ IsList(Append(s, x)) /\ Len(s) \in Nat /\ Len(Append(s, x)) = Len(s) + 1
         /\ DOMAIN s = 1 .. Len(s)
         /\ DOMAIN Append(s, x) = (DOMAIN s) \cup {Len(s) + 1} /\ Len(s) + 1 \notin DOMAIN s
         /\ \A k \in DOMAIN s : Append(s, x)[k] = s[k]
         /\ Append(s, x)[Len(s) + 1] = x
<1>1. PICK S : s \in Seq(S)
  BY DEF IsList
<1> DEFINE T == S \cup {x}
<1>2. s \in Seq(T) /\ x \in T
  BY <1>1
<1> HIDE DEF T
<1>3. /\ Append(s, x) \in Seq(T) /\ Len(s) \in Nat /\ Len(Append(s, x)) = Len(s) + 1
      /\ DOMAIN s = 1 .. Len(s)
      /\ \A k \in 1 .. Len(s) : Append(s, x)[k] = s[k]
      /\ Append(s, x)[Len(s) + 1] = x
  BY <1>2, AppendProperties, LenProperties
<1>4. DOMAIN Append(s, x) = 1 .. Len(s) + 1
  BY <1>3, LenProperties
<1> QED BY <1>3, <1>4 DEF IsList

LEMMA RisingPlaces ==
  ASSUME NEW offs, Rising(offs)
  PROVE  /\ DOMAIN offs = 1 .. Len(offs) /\ Len(offs) \in Nat
         /\ \A v \in DOMAIN offs : v \in Nat \ {0} /\ offs[v] \in Nat
         /\ \A v, w \in DOMAIN offs : offs[v] = offs[w] => v = w
         /\ \A v, w \in DOMAIN offs : offs[v] <= offs[w] <=> v <= w
<1>1. /\ DOMAIN offs = 1 .. Len(offs) /\ Len(offs) \in Nat
      /\ \A v \in DOMAIN offs : offs[v] \in Nat
  BY LenProperties DEF Rising
<1>2. \A v \in DOMAIN offs : v \in Nat \ {0}
  BY <1>1
<1>3. ASSUME NEW v \in DOMAIN offs, NEW w \in DOMAIN offs
      PROVE  (offs[v] = offs[w] => v = w) /\ (offs[v] <= offs[w] <=> v <= w)
  <2>1. v < w => offs[v] < offs[w]
    BY DEF Rising
  <2>2. w < v => offs[w] < offs[v]
    BY DEF Rising
  <2> QED BY <2>1, <2>2, <1>1, <1>2
<1> QED BY <1>1, <1>2, <1>3

LEMMA MaxOfOne ==
  ASSUME NEW v \in Int
  PROVE  Max({v}) = v
  BY DEF Max

(* A lookup finds one vertex at most.                                      *)
LEMMA LookupOne ==
  ASSUME NEW gr, Rising(gr.offs), NEW off
  PROVE  /\ Lookup(gr, off) \subseteq Insns(gr)
         /\ Lookup(gr, off) # {} => /\ Max(Lookup(gr, off)) \in Insns(gr)
                                    /\ Lookup(gr, off) = {Max(Lookup(gr, off))}
                                    /\ gr.offs[Max(Lookup(gr, off))] = off % Span
         /\ \A v \in Insns(gr) : gr.offs[v] = off % Span => Lookup(gr, off) = {v} /\ Max(Lookup(gr, off)) = v
<1>1. ASSUME NEW v \in Insns(gr), gr.offs[v] = off % Span
      PROVE  Lookup(gr, off) = {v} /\ Max(Lookup(gr, off)) = v
  <2>1. Lookup(gr, off) = {v}
    BY <1>1, RisingPlaces DEF Lookup, Insns
  <2>2. v \in Int
    BY RisingPlaces DEF Insns
  <2> QED BY <2>1, <2>2, MaxOfOne
<1>2. ASSUME Lookup(gr, off) # {}
      PROVE  /\ Max(Lookup(gr, off)) \in Insns(gr)
             /\ Lookup(gr, off) = {Max(Lookup(gr, off))}
             /\ gr.offs[Max(Lookup(gr, off))] = off % Span
  <2>1. PICK v \in Insns(gr) : gr.offs[v] = off % Span
    BY <1>2 DEF Lookup
  <2> QED BY <2>1, <1>1
<1> QED BY <1>1, <1>2 DEF Lookup

LEMMA LookupSame ==
  ASSUME NEW gr, NEW hr, gr.offs = hr.offs, NEW off
  PROVE  Lookup(gr, off) = Lookup(hr, off) /\ Insns(gr) = Insns(hr) /\ Exit(gr) = Exit(hr)
  BY DEF Lookup, Insns, Exit

-----------------------------------------------------------------------------
(* The loop that decodes: all instructions before the place it has come to *)
(* are vertices, and in a legal method something begins there.             *)
Bare(gr) == gr = [EmptyGraph EXCEPT !.offs = gr.offs]

Decoding(mth, gr, p) ==
  /\ Bare(gr) /\ Rising(gr.offs) /\ p \in Nat
  /\ \A v \in Insns(gr) : gr.offs[v] \in Instructions(mth) /\ gr.offs[v] < p
  /\ Legal(mth) => /\ p \in (DOMAIN mth.code) \cup {mth.size}
                   /\ \A o \in Instructions(mth) : o < p => o \in Range(gr.offs)

(* What is known of the vertices when all are made.                        *)
Decoded(mth, gr) ==
  /\ IsGraph(gr) /\ Rising(gr.offs)
  /\ \A v \in Insns(gr) : gr.offs[v] \in Instructions(mth)
  /\ Legal(mth) => Instructions(mth) \subseteq Range(gr.offs)

LEMMA LegalRow ==
  ASSUME NEW mth, IsMethod(mth), Legal(mth)
  PROVE  /\ 0 \in DOMAIN mth.code /\ 0 \in Instructions(mth)
         /\ mth.size \in Nat \ {0} /\ mth.size <= Span
         /\ \A o \in DOMAIN mth.code :
              /\ o \in Nat /\ o < mth.size /\ o % Span = o
              /\ o + mth.code[o].units \in (DOMAIN mth.code) \cup {mth.size}
              /\ \A q \in DOMAIN mth.code : o < q => o + mth.code[o].units <= q
<1>1. 0 \in DOMAIN mth.code /\ 0 \in Instructions(mth)
  BY DEF Legal, Starts, Instructions
<1>2. \A o \in DOMAIN mth.code : o \in Nat /\ o < mth.size
  BY DEF IsMethod
<1>3. mth.size \in Nat \ {0} /\ mth.size <= Span /\ LaidInRow(mth)
  BY <1>1, <1>2 DEF Legal, IsMethod
<1>4. \A o \in DOMAIN mth.code : o % Span = o
  BY <1>2, <1>3, SpanAssumption
<1> QED BY <1>1, <1>2, <1>3, <1>4 DEF LaidInRow

(* Nothing begins between an instruction or payload and the next.          *)
LEMMA NextPlace ==
  ASSUME NEW mth, IsMethod(mth), Legal(mth), NEW p \in DOMAIN mth.code,
         NEW q, q = p + mth.code[p].units
  PROVE  /\ q \in (DOMAIN mth.code) \cup {mth.size}
         /\ \A o \in DOMAIN mth.code : o < q => o < p \/ o = p
  BY LegalRow

LEMMA VertexAdded ==
  ASSUME NEW mth, IsMethod(mth), NEW gr, NEW p, Decoding(mth, gr, p),
         p \in DOMAIN mth.code, mth.code[p].op \notin Payloads,
         NEW hr, hr = [gr EXCEPT !.offs = Append(@, p)],
         NEW q, q = p + Info[mth.code[p].op].size
  PROVE  Decoding(mth, hr, q)
<1>1. mth.code[p].units \in Nat \ {0} /\ q = p + mth.code[p].units
  BY SizeIsUnits DEF IsMethod
<1>2. p \in Nat /\ q \in Nat /\ p < q
  BY <1>1 DEF Decoding
<1>3. hr.offs = Append(gr.offs, p) /\ Bare(hr)
  BY DEF Decoding, Bare, EmptyGraph
<1>4. gr.offs \in Seq(Nat)
  BY DEF Decoding, Rising
<1>5. IsList(gr.offs)
  BY <1>4 DEF IsList
<1> DEFINE n == Len(gr.offs)
<1>6. /\ n \in Nat /\ DOMAIN gr.offs = 1 .. n
      /\ DOMAIN hr.offs = (DOMAIN gr.offs) \cup {n + 1} /\ n + 1 \notin DOMAIN gr.offs
      /\ \A k \in DOMAIN gr.offs : hr.offs[k] = gr.offs[k]
      /\ hr.offs[n + 1] = p
  BY <1>3, <1>5, ListAppend
<1>7. hr.offs \in Seq(Nat)
  BY <1>2, <1>3, <1>4, AppendProperties
<1> HIDE DEF n
<1>8. \A v \in DOMAIN gr.offs : gr.offs[v] \in Instructions(mth) /\ gr.offs[v] < p /\ gr.offs[v] \in Nat
  BY <1>4, <1>6 DEF Decoding, Insns
<1>9. p \in Instructions(mth)
  BY DEF Instructions
<1>10. Rising(hr.offs)
  <2> SUFFICES ASSUME NEW v \in DOMAIN hr.offs, NEW w \in DOMAIN hr.offs, v < w
               PROVE  hr.offs[v] < hr.offs[w]
    BY <1>7 DEF Rising
  <2>1. v \in DOMAIN gr.offs
    BY <1>6
  <2>2. CASE w \in DOMAIN gr.offs
    BY <2>1, <2>2, <1>6 DEF Decoding, Rising
  <2>3. CASE w = n + 1
    BY <2>1, <2>3, <1>6, <1>8
  <2> QED BY <2>2, <2>3, <1>6
<1>11. \A v \in Insns(hr) : hr.offs[v] \in Instructions(mth) /\ hr.offs[v] < q
  <2> SUFFICES ASSUME NEW v \in DOMAIN hr.offs
               PROVE  hr.offs[v] \in Instructions(mth) /\ hr.offs[v] < q
    BY DEF Insns
  <2>1. CASE v \in DOMAIN gr.offs
    BY <2>1, <1>2, <1>6, <1>8
  <2>2. CASE v = n + 1
    BY <2>2, <1>2, <1>6, <1>9
  <2> QED BY <2>1, <2>2, <1>6
<1>12. ASSUME Legal(mth)
       PROVE  /\ q \in (DOMAIN mth.code) \cup {mth.size}
              /\ \A o \in Instructions(mth) : o < q => o \in Range(hr.offs)
  <2>1. /\ q \in (DOMAIN mth.code) \cup {mth.size}
        /\ \A o \in DOMAIN mth.code : o < q => o < p \/ o = p
    BY <1>1, <1>12, NextPlace
  <2>2. \A o \in Instructions(mth) : o < p => o \in Range(gr.offs)
    BY <1>12 DEF Decoding
  <2>3. Range(gr.offs) \subseteq Range(hr.offs) /\ p \in Range(hr.offs)
    BY <1>6 DEF Range
  <2> QED BY <2>1, <2>2, <2>3 DEF Instructions
<1> QED BY <1>2, <1>3, <1>10, <1>11, <1>12 DEF Decoding

LEMMA PayloadSkipped ==
  ASSUME NEW mth, IsMethod(mth), NEW gr, NEW p, Decoding(mth, gr, p),
         p \in DOMAIN mth.code, mth.code[p].op \in Payloads,
         NEW q, q = p + PayloadSize(mth.code[p])
  PROVE  Decoding(mth, gr, q)
<1>1. mth.code[p].units \in Nat \ {0} /\ q = p + mth.code[p].units
  BY PayloadSizeIsUnits DEF IsMethod
<1>2. p \in Nat /\ q \in Nat /\ p < q
  BY <1>1 DEF Decoding
<1>3. \A v \in Insns(gr) : gr.offs[v] \in Instructions(mth) /\ gr.offs[v] < q
  <2>1. \A v \in Insns(gr) : gr.offs[v] \in Instructions(mth) /\ gr.offs[v] < p /\ gr.offs[v] \in Nat
    BY RisingPlaces DEF Decoding, Insns
  <2> QED BY <1>2, <2>1
<1>4. ASSUME Legal(mth)
      PROVE  /\ q \in (DOMAIN mth.code) \cup {mth.size}
             /\ \A o \in Instructions(mth) : o < q => o \in Range(gr.offs)
  <2>1. /\ q \in (DOMAIN mth.code) \cup {mth.size}
        /\ \A o \in DOMAIN mth.code : o < q => o < p \/ o = p
    BY <1>1, <1>4, NextPlace
  <2>2. \A o \in Instructions(mth) : o < p => o \in Range(gr.offs)
    BY <1>4 DEF Decoding
  <2>3. p \notin Instructions(mth)
    BY DEF Instructions
  <2> QED BY <2>1, <2>2, <2>3 DEF Instructions
<1> QED BY <1>2, <1>3, <1>4 DEF Decoding

LEMMA AllDecoded ==
  ASSUME NEW mth, IsMethod(mth), NEW gr, NEW p, Decoding(mth, gr, p), p >= mth.size
  PROVE  Decoded(mth, gr)
<1>1. IsGraph(gr)
  BY DEF Decoding, Bare, EmptyGraph, IsGraph
<1>2. \A o \in Instructions(mth) : o < p
  <2>1. \A o \in Instructions(mth) : o \in 0 .. mth.size - 1
    BY DEF Instructions, IsMethod
  <2> QED BY <2>1 DEF IsMethod, Decoding
<1> QED BY <1>1, <1>2 DEF Decoding, Decoded

-----------------------------------------------------------------------------
(* Try blocks: t is made from try.                                         *)
TryOf(mth, gr, try, t) ==
  /\ {t.first, t.last} \cup t.handlers \subseteq Insns(gr)
  /\ Legal(mth) =>
       /\ gr.offs[t.first] = try.start
       /\ \A w \in Insns(gr) : w <= t.last <=> gr.offs[w] <= try.start + try.count - 1
       /\ {gr.offs[h] : h \in t.handlers} = Range(try.list)

LEMMA SmallRest ==
  ASSUME NEW n \in Nat \ {0}, NEW k \in Nat, k < n
  PROVE  k % n = k
  OBVIOUS

LEMMA AllHandlers ==
  ASSUME NEW try, IsTry(try)
  PROVE  HandlerOffs(try) = try.list
<1>1. /\ try.list \in Seq(Nat) /\ try.handlers \in Int
      /\ Len(try.list) = IF try.handlers <= 0 THEN 1 - try.handlers ELSE try.handlers
  BY DEF IsTry
<1>2. HandlerOffs(try) = SubSeq(try.list, 1, Len(try.list))
  BY <1>1 DEF HandlerOffs
<1> QED BY <1>1, <1>2, SubSeqFull

LEMMA LegalTry ==
  ASSUME NEW mth, IsMethod(mth), Legal(mth), NEW try \in Range(mth.tries)
  PROVE  /\ \A k \in 0 .. try.start + try.count - 1 : k \in Nat /\ k % Span = k
         /\ \A h \in DOMAIN try.list : try.list[h] % Span = try.list[h]
<1>1. IsTry(try)
  BY DEF IsMethod
<1>2. /\ mth.size \in Nat /\ mth.size <= Span /\ Span \in Nat \ {0}
      /\ \A o \in DOMAIN mth.code : o % Span = o
  BY LegalRow, SpanAssumption
<1>3. try.start + try.count <= mth.size
  BY DEF Legal
<1>4. \A k \in 0 .. try.start + try.count - 1 : k \in Nat /\ k % Span = k
  <2>1. try.start \in Nat /\ try.count \in Nat
    BY <1>1 DEF IsTry
  <2>2. ASSUME NEW k \in 0 .. try.start + try.count - 1
        PROVE  k \in Nat /\ k < Span
    BY <2>1, <1>2, <1>3
  <2> QED BY <2>2, <1>2, SmallRest
<1>5. \A h \in DOMAIN try.list : try.list[h] \in Starts(mth)
  BY DEF Starts, Range
<1>6. Starts(mth) \subseteq DOMAIN mth.code
  BY DEF Legal, Instructions
<1> QED BY <1>2, <1>4, <1>5, <1>6

LEMMA LastFound ==
  ASSUME NEW mth, IsMethod(mth), NEW gr, Decoded(mth, gr),
         NEW try \in Range(mth.tries), Lookup(gr, try.start) # {},
         NEW last, last = Max(LastInsn(gr, try))
  PROVE  /\ last \in Insns(gr)
         /\ Legal(mth) => \A w \in Insns(gr) : w <= last <=> gr.offs[w] <= try.start + try.count - 1
<1>1. IsTry(try) /\ Rising(gr.offs)
  BY DEF IsMethod, Decoded
<1>2. PICK end : end = try.start + try.count - 1
  OBVIOUS
<1>3. end \in Nat /\ try.start \in Nat /\ end - try.start \in 0 .. end
  BY <1>1, <1>2 DEF IsTry
<1> DEFINE K == {k \in 0 .. end : Lookup(gr, end - k) # {}}
<1>4. K \subseteq Nat /\ K # {}
  <2>1. end - (end - try.start) = try.start
    BY <1>3
  <2>2. end - try.start \in K
    BY <1>3, <2>1
  <2> QED BY <2>2
<1>5. PICK k : k = Min(K)
  OBVIOUS
<1>6. k \in K /\ \A j \in K : k <= j
  BY <1>4, <1>5, MinOfPlaces
<1>7. LastInsn(gr, try) = Lookup(gr, end - k)
  BY <1>2, <1>5 DEF LastInsn
<1>8. last \in Insns(gr) /\ gr.offs[last] = (end - k) % Span
  BY <1>1, <1>6, <1>7, LookupOne
<1>9. ASSUME Legal(mth), NEW w \in Insns(gr)
      PROVE  w <= last <=> gr.offs[w] <= end
  <2>1. \A j \in 0 .. end : j \in Nat /\ j % Span = j
    BY <1>2, <1>9, LegalTry
  <2>2. end - k \in 0 .. end
    BY <1>3, <1>6
  <2>3. gr.offs[last] = end - k /\ gr.offs[last] <= end
    BY <1>8, <2>1, <2>2
  <2>4. gr.offs[w] \in Nat /\ (gr.offs[w] <= gr.offs[last] <=> w <= last)
    BY <1>1, <1>8, <1>9, RisingPlaces DEF Insns
  <2>5. ASSUME gr.offs[w] <= end PROVE gr.offs[w] <= end - k
    <3>1. PICK j : j = end - gr.offs[w]
      OBVIOUS
    <3>2. j \in 0 .. end /\ gr.offs[w] = end - j
      BY <3>1, <2>4, <2>5, <1>3
    <3>3. gr.offs[w] = (end - j) % Span
      BY <3>2, <2>1, <2>4, <2>5
    <3>4. j \in K
      BY <3>2, <3>3, <1>9 DEF Lookup
    <3> QED BY <3>2, <3>4, <1>3, <1>6
  <2> QED BY <2>2, <2>3, <2>4, <2>5, <1>3
<1> QED BY <1>2, <1>8, <1>9

LEMMA TryMade ==
  ASSUME NEW mth, IsMethod(mth), NEW gr, Decoded(mth, gr),
         NEW try \in Range(mth.tries), NEW offs, offs = HandlerOffs(try),
         Lookup(gr, try.start) # {}, \A h \in DOMAIN offs : Lookup(gr, offs[h]) # {},
         NEW t, t = [first |-> Max(Lookup(gr, try.start)), last |-> Max(LastInsn(gr, try)),
                     handlers |-> {Max(Lookup(gr, offs[h])) : h \in DOMAIN offs}]
  PROVE  TryOf(mth, gr, try, t)
<1>1. IsTry(try) /\ Rising(gr.offs)
  BY DEF IsMethod, Decoded
<1>2. offs = try.list
  BY <1>1, AllHandlers
<1>3. /\ t.last \in Insns(gr)
      /\ Legal(mth) => \A w \in Insns(gr) : w <= t.last <=> gr.offs[w] <= try.start + try.count - 1
  BY LastFound
<1>4. t.first \in Insns(gr) /\ gr.offs[t.first] = try.start % Span
  BY <1>1, LookupOne
<1>5. \A h \in DOMAIN offs : /\ Max(Lookup(gr, offs[h])) \in Insns(gr)
                             /\ gr.offs[Max(Lookup(gr, offs[h]))] = offs[h] % Span
  BY <1>1, LookupOne
<1>6. t.handlers \subseteq Insns(gr)
  BY <1>5
<1>7. ASSUME Legal(mth)
      PROVE  gr.offs[t.first] = try.start /\ {gr.offs[h] : h \in t.handlers} = Range(try.list)
  <2>1. /\ \A k \in 0 .. try.start + try.count - 1 : k % Span = k
        /\ \A h \in DOMAIN try.list : try.list[h] % Span = try.list[h]
    BY <1>7, LegalTry
  <2>2. try.start \in 0 .. try.start + try.count - 1
    BY <1>1 DEF IsTry
  <2>3. \A h \in DOMAIN try.list : gr.offs[Max(Lookup(gr, try.list[h]))] = try.list[h]
    BY <2>1, <1>2, <1>5
  <2>4. t.handlers = {Max(Lookup(gr, try.list[h])) : h \in DOMAIN try.list}
    BY <1>2
  <2>5. {gr.offs[h] : h \in t.handlers} = {try.list[h] : h \in DOMAIN try.list}
    BY <2>3, <2>4
  <2> QED BY <2>1, <2>2, <2>5, <1>4 DEF Range
<1> QED BY <1>3, <1>4, <1>6, <1>7 DEF TryOf

-----------------------------------------------------------------------------
(* What control can reach.                                                 *)
FromStart(mth) == Starts(mth) \cap Instructions(mth)
Further(mth, O) == O \cup ((UNION {Follows(mth, o) : o \in O}) \cap Instructions(mth))

LEMMA ReachableChain ==
  ASSUME NEW mth, IsMethod(mth)
  PROVE  \E f \in [Nat -> SUBSET Instructions(mth)] :
           /\ f[0] = FromStart(mth) /\ \A n \in Nat : f[n + 1] = Further(mth, f[n])
           /\ Reachable(mth) = f[Cardinality(DOMAIN mth.code)]
<1> DEFINE T == SUBSET Instructions(mth)
           G == [S \in T |-> Further(mth, S)]
           Is(f) == f = [n \in Nat |-> IF n = 0 THEN FromStart(mth) ELSE Further(mth, f[n - 1])]
           e == CHOOSE f : Is(f)
<1>1. PICK h : /\ h = [n \in Nat |-> h[n]]
               /\ h[0] = FromStart(mth) /\ \A n \in Nat : h[n + 1] = G[h[n]]
  <2> HIDE DEF G
  <2>1. PICK h : Iterates(FromStart(mth), G, h)
    BY IterateExists
  <2> QED BY <2>1 DEF Iterates
<1>2. FromStart(mth) \in T /\ \A S \in T : Further(mth, S) \in T
  BY DEF FromStart, Further
<1>3. \A n \in Nat : n + 1 \in Nat /\ n + 1 # 0 /\ (n + 1) - 1 = n
  OBVIOUS
<1>4. \A n \in Nat : h[n] \in T
  <2> DEFINE S == {n \in Nat : h[n] \in T}
  <2>1. ASSUME NEW n \in Nat, h[n] \in T PROVE h[n + 1] \in T
    <3>1. h[n + 1] = Further(mth, h[n])
      BY <1>1, <2>1
    <3> QED BY <1>2, <2>1, <3>1
  <2>2. 0 \in S /\ \A n \in Nat : n \in S => n + 1 \in S
    BY <1>1, <1>2, <2>1
  <2> HIDE DEF S
  <2>3. Nat \subseteq S
    BY <2>2, AllNaturals
  <2> QED BY <2>3 DEF S
<1>5. Is(h)
  <2>1. ASSUME NEW n \in Nat PROVE h[n] = IF n = 0 THEN FromStart(mth) ELSE Further(mth, h[n - 1])
    <3>1. CASE n = 0
      BY <1>1, <3>1
    <3>2. CASE n # 0
      <4>1. PICK k \in Nat : n = k + 1 /\ k = n - 1
        BY <3>2
      <4>2. h[n] = G[h[k]] /\ h[k] \in T
        BY <1>1, <1>4, <4>1
      <4> QED BY <3>2, <4>1, <4>2
    <3> QED BY <3>1, <3>2
  <2> HIDE DEF G
  <2> QED BY <1>1, <2>1
<1>6. Is(e)
  BY <1>5
<1>7. Reachable(mth) = e[Cardinality(DOMAIN mth.code)]
  BY DEF Reachable, Further, FromStart
<1> HIDE DEF e
<1>8. e[0] = FromStart(mth) /\ \A n \in Nat : e[n + 1] = Further(mth, e[n])
  <2>1. \A n \in Nat : e[n] = IF n = 0 THEN FromStart(mth) ELSE Further(mth, e[n - 1])
    BY <1>6
  <2> QED BY <1>3, <2>1
<1>9. \A n \in Nat : e[n] \in T
  <2> DEFINE S == {n \in Nat : e[n] \in T}
  <2>1. 0 \in S /\ \A n \in Nat : n \in S => n + 1 \in S
    BY <1>2, <1>8
  <2> HIDE DEF S
  <2>2. Nat \subseteq S
    BY <2>1, AllNaturals
  <2> QED BY <2>2 DEF S
<1>10. e \in [Nat -> T]
  <2>1. e = [n \in Nat |-> e[n]]
    BY <1>6
  <2> QED BY <1>9, <2>1
<1> QED BY <1>7, <1>8, <1>10

(* It is what the beginning, the handlers and what follows any of it lead  *)
(* to: nothing that control can reach is left out.                         *)
LEMMA ReachableClosed ==
  ASSUME NEW mth, IsMethod(mth)
  PROVE  /\ Reachable(mth) \subseteq Instructions(mth) /\ FromStart(mth) \subseteq Reachable(mth)
         /\ \A o \in Reachable(mth) : Follows(mth, o) \cap Instructions(mth) \subseteq Reachable(mth)
<1> DEFINE X == Instructions(mth)
           D == DOMAIN mth.code
<1>1. PICK f \in [Nat -> SUBSET X] :
        /\ f[0] = FromStart(mth) /\ \A n \in Nat : f[n + 1] = Further(mth, f[n])
        /\ Reachable(mth) = f[Cardinality(D)]
  BY ReachableChain
<1>2. IsFiniteSet(D) /\ Cardinality(D) \in Nat
  <2>0. 0 \in Int /\ mth.size - 1 \in Int
    BY DEF IsMethod
  <2>1. IsFiniteSet(0 .. mth.size - 1) /\ D \subseteq 0 .. mth.size - 1
    BY <2>0, FS_Interval DEF IsMethod
  <2> QED BY <2>1, FS_Subset, FS_CardinalityType
<1>3. f \in [Nat -> SUBSET D]
  BY <1>1 DEF Instructions
<1>4. \A n \in Nat : f[n] \subseteq f[n + 1] /\ f[n + 2] = Further(mth, f[n + 1])
  <2>1. \A n \in Nat : n + 1 \in Nat /\ (n + 1) + 1 = n + 2
    OBVIOUS
  <2> QED BY <1>1, <2>1 DEF Further
<1>5. f[Cardinality(D) + 1] = f[Cardinality(D)]
  <2>1. \A n \in Nat : f[n + 1] = f[n] => f[n + 2] = f[n + 1]
    BY <1>1, <1>4
  <2> HIDE DEF D
  <2> QED BY <1>2, <1>3, <1>4, <2>1, ChainStops
<1>6. PICK F \in SUBSET X : F = Reachable(mth) /\ Further(mth, F) = F
  BY <1>1, <1>2, <1>5
<1>7. FromStart(mth) \subseteq F
  <2> DEFINE S == {n \in Nat : FromStart(mth) \subseteq f[n]}
  <2>1. 0 \in S /\ \A n \in Nat : n \in S => n + 1 \in S
    BY <1>1, <1>4
  <2> HIDE DEF S
  <2>2. Nat \subseteq S
    BY <2>1, AllNaturals
  <2> QED BY <1>1, <1>2, <1>6, <2>2 DEF S
<1> QED BY <1>6, <1>7 DEF Further

-----------------------------------------------------------------------------
(* The edges made for a vertex.                                            *)
OpAt(mth, gr, v) == mth.code[gr.offs[v]].op
NextEdge(mth, gr, v) == IF Info[OpAt(mth, gr, v)].continues THEN {<<v, v + 1, "next">>} ELSE {}
ExitEdge(mth, gr, v) == IF OpAt(mth, gr, v) = "return" THEN {<<v, Exit(gr), "next">>} ELSE {}
JumpEdges(mth, gr, v) == {<<v, Max(Lookup(gr, t[1])), t[2]>> : t \in Targets(mth.code, gr.offs[v])}
EdgesFrom(mth, gr, v) == NextEdge(mth, gr, v) \cup ExitEdge(mth, gr, v) \cup JumpEdges(mth, gr, v)
JumpsFound(mth, gr, v) == \A t \in Targets(mth.code, gr.offs[v]) : Lookup(gr, t[1]) # {}

(* All edges of the first n vertices are made.                             *)
EdgesUpTo(mth, gr, n) ==
  /\ gr.edges = {<<0, 1, "next">>} \cup UNION {EdgesFrom(mth, gr, v) : v \in 1 .. n}
  /\ \A v \in 1 .. n : JumpsFound(mth, gr, v)

LEMMA EdgesSame ==
  ASSUME NEW mth, NEW gr, NEW hr, gr.offs = hr.offs, NEW v
  PROVE  EdgesFrom(mth, gr, v) = EdgesFrom(mth, hr, v) /\ JumpsFound(mth, gr, v) = JumpsFound(mth, hr, v)
<1>1. \A off : Lookup(gr, off) = Lookup(hr, off)
  BY LookupSame
<1>2. Exit(gr) = Exit(hr)
  BY LookupSame
<1>3. OpAt(mth, gr, v) = OpAt(mth, hr, v)
  BY DEF OpAt
<1>4. JumpEdges(mth, gr, v) = JumpEdges(mth, hr, v)
  BY <1>1 DEF JumpEdges
<1>5. EdgesFrom(mth, gr, v) = EdgesFrom(mth, hr, v)
  BY <1>2, <1>3, <1>4 DEF EdgesFrom, NextEdge, ExitEdge
<1>6. JumpsFound(mth, gr, v) = JumpsFound(mth, hr, v)
  BY <1>1 DEF JumpsFound
<1> QED BY <1>5, <1>6

LEMMA EdgesGrow ==
  ASSUME NEW mth, NEW gr, NEW n \in Nat, EdgesUpTo(mth, gr, n), NEW w, w = n + 1, JumpsFound(mth, gr, w),
         NEW hr, hr.offs = gr.offs, hr.edges = gr.edges \cup EdgesFrom(mth, gr, w)
  PROVE  EdgesUpTo(mth, hr, w)
<1>1. \A v : EdgesFrom(mth, gr, v) = EdgesFrom(mth, hr, v) /\ JumpsFound(mth, gr, v) = JumpsFound(mth, hr, v)
  BY EdgesSame
<1>2. 1 .. w = (1 .. n) \cup {w}
  OBVIOUS
<1>3. UNION {EdgesFrom(mth, hr, v) : v \in 1 .. w}
        = (UNION {EdgesFrom(mth, gr, v) : v \in 1 .. n}) \cup EdgesFrom(mth, gr, w)
  BY <1>1, <1>2
<1>4. \A v \in 1 .. w : JumpsFound(mth, hr, v)
  BY <1>1, <1>2 DEF EdgesUpTo
<1> QED BY <1>3, <1>4 DEF EdgesUpTo

LEMMA EdgesOfVertex ==
  ASSUME NEW mth, NEW gr, NEW n \in Nat, EdgesUpTo(mth, gr, n)
  PROVE  /\ {e \in gr.edges : e[1] = 0} = {<<0, 1, "next">>}
         /\ \A v \in 1 .. n : {e \in gr.edges : e[1] = v} = EdgesFrom(mth, gr, v)
<1>1. \A v \in 1 .. n : v \in Int /\ v # 0
  OBVIOUS
<1>2. \A v : \A e \in EdgesFrom(mth, gr, v) : e[1] = v
  BY DEF EdgesFrom, NextEdge, ExitEdge, JumpEdges
<1>3. {e \in gr.edges : e[1] = 0} = {<<0, 1, "next">>}
  BY <1>1, <1>2 DEF EdgesUpTo
<1>4. ASSUME NEW v \in 1 .. n
      PROVE  {e \in gr.edges : e[1] = v} = EdgesFrom(mth, gr, v)
  BY <1>1, <1>2, <1>4 DEF EdgesUpTo
<1> QED BY <1>3, <1>4

(* An edge leads from a vertex to a vertex.                                *)
LEMMA EdgesWithin ==
  ASSUME NEW mth, NEW gr, Rising(gr.offs), NEW n \in Nat, n <= Len(gr.offs), EdgesUpTo(mth, gr, n)
  PROVE  \A e \in gr.edges : {e[1], e[2]} \subseteq 0 .. Exit(gr)
<1>1. /\ Insns(gr) = 1 .. Len(gr.offs) /\ Len(gr.offs) \in Nat /\ Exit(gr) = Len(gr.offs) + 1
  BY RisingPlaces DEF Insns, Exit
<1>2. ASSUME NEW v \in 1 .. n, NEW e \in EdgesFrom(mth, gr, v)
      PROVE  {e[1], e[2]} \subseteq 0 .. Exit(gr)
  <2>1. {v, v + 1, Exit(gr)} \subseteq 0 .. Exit(gr)
    BY <1>1
  <2>2. CASE e \in NextEdge(mth, gr, v)
    BY <2>1, <2>2 DEF NextEdge
  <2>3. CASE e \in ExitEdge(mth, gr, v)
    BY <2>1, <2>3 DEF ExitEdge
  <2>4. CASE e \in JumpEdges(mth, gr, v)
    <3>1. PICK t \in Targets(mth.code, gr.offs[v]) : e = <<v, Max(Lookup(gr, t[1])), t[2]>>
      BY <2>4 DEF JumpEdges
    <3>2. Lookup(gr, t[1]) # {}
      BY <3>1 DEF EdgesUpTo, JumpsFound
    <3>3. Max(Lookup(gr, t[1])) \in Insns(gr)
      BY <3>2, LookupOne
    <3> QED BY <3>1, <3>3, <2>1, <1>1
  <2> QED BY <1>2, <2>2, <2>3, <2>4 DEF EdgesFrom
<1>3. {0, 1} \subseteq 0 .. Exit(gr)
  BY <1>1
<1> QED BY <1>2, <1>3 DEF EdgesUpTo

(* Jumps in a legal method.                                                *)
LEMMA JumpsBranch ==
  ASSUME NEW mth, NEW o
  PROVE  /\ \A t \in Targets(mth.code, o) : t[1] \in Branches(mth, o) /\ mth.code[o].op # "return"
         /\ \A b \in Branches(mth, o) :
              \/ mth.code[o].op = "return" /\ b = EndOf(mth)
              \/ \E t \in Targets(mth.code, o) : t[1] = b
              \/ mth.code[o].op \in SwitchOps /\ b = o + Info[mth.code[o].op].size
<1> DEFINE op == mth.code[o].op
           to == mth.code[o].to
<1>1. CASE op \in {"goto", "goto_16"}
  <2>1. Targets(mth.code, o) = {<<o + to, "next">>} /\ Branches(mth, o) = {o + to}
    BY <1>1 DEF Targets, Branches, SwitchOps
  <2> QED BY <1>1, <2>1
<1>2. CASE op = "if"
  <2>1. Targets(mth.code, o) = {<<o + to, "true">>} /\ Branches(mth, o) = {o + to}
    BY <1>2 DEF Targets, Branches, SwitchOps
  <2> QED BY <1>2, <2>1
<1>3. CASE op \in SwitchOps
  <2> DEFINE table == mth.code[o + to]
             cases == {c \in DOMAIN table.targets : table.targets[c] # Info[op].size}
  <2>1. Targets(mth.code, o) = {<<o + table.targets[k], table.keys[k]>> : k \in cases}
    BY <1>3 DEF Targets, SwitchOps
  <2>2. Branches(mth, o) = {o + table.targets[k] : k \in DOMAIN table.targets}
    <3>1. Branches(mth, o) = {o + t : t \in Range(table.targets)}
      BY <1>3 DEF Branches, SwitchOps
    <3> QED BY <3>1 DEF Range
  <2>3. op # "return"
    BY <1>3 DEF SwitchOps
  <2>4. ASSUME NEW k \in DOMAIN table.targets
        PROVE  \/ \E t \in Targets(mth.code, o) : t[1] = o + table.targets[k]
               \/ o + table.targets[k] = o + Info[op].size
    <3>1. CASE k \in cases
      <4>1. <<o + table.targets[k], table.keys[k]>> \in Targets(mth.code, o)
        BY <2>1, <3>1
      <4> QED BY <4>1
    <3>2. CASE k \notin cases
      BY <3>2
    <3> QED BY <3>1, <3>2
  <2> HIDE DEF table
  <2> QED BY <1>3, <2>1, <2>2, <2>3, <2>4
<1>4. CASE op = "return"
  <2>1. Targets(mth.code, o) = {} /\ Branches(mth, o) = {EndOf(mth)}
    BY <1>4 DEF Targets, Branches, SwitchOps
  <2> QED BY <1>4, <2>1
<1>5. CASE op \notin {"goto", "goto_16", "if", "return"} \cup SwitchOps
  <2>1. Targets(mth.code, o) = {} /\ Branches(mth, o) = {}
    BY <1>5 DEF Targets, Branches, SwitchOps
  <2> QED BY <2>1
<1> QED BY <1>1, <1>2, <1>3, <1>4, <1>5

LEMMA LegalBranches ==
  ASSUME NEW mth, Legal(mth), NEW o \in Instructions(mth)
  PROVE  /\ mth.code[o].op # "return" => Branches(mth, o) \subseteq Instructions(mth)
         /\ mth.code[o].op \in SwitchOps => o + mth.code[o].to \in DOMAIN mth.code
  BY DEF Legal

(* The vertex of an instruction of a legal method is found.                *)
LEMMA InsnLookup ==
  ASSUME NEW mth, IsMethod(mth), Legal(mth), NEW gr, Decoded(mth, gr), NEW o \in Instructions(mth)
  PROVE  /\ Lookup(gr, o) # {} /\ Max(Lookup(gr, o)) \in Insns(gr)
         /\ gr.offs[Max(Lookup(gr, o))] = o
<1>1. PICK v \in Insns(gr) : gr.offs[v] = o
  BY DEF Decoded, Insns, Range
<1>2. o % Span = o
  BY LegalRow DEF Instructions
<1>3. Rising(gr.offs)
  BY DEF Decoded
<1> QED BY <1>1, <1>2, <1>3, LookupOne

LEMMA JumpLeads ==
  ASSUME NEW mth, IsMethod(mth), Legal(mth), NEW gr, Decoded(mth, gr), NEW v \in Insns(gr),
         NEW t \in Targets(mth.code, gr.offs[v])
  PROVE  /\ Lookup(gr, t[1]) # {} /\ Max(Lookup(gr, t[1])) \in Insns(gr)
         /\ gr.offs[Max(Lookup(gr, t[1]))] = t[1]
<1>1. gr.offs[v] \in Instructions(mth)
  BY DEF Decoded
<1>2. t[1] \in Branches(mth, gr.offs[v]) /\ mth.code[gr.offs[v]].op # "return"
  BY JumpsBranch
<1>3. t[1] \in Instructions(mth)
  BY <1>1, <1>2, LegalBranches
<1> QED BY <1>3, InsnLookup

(* The next vertex is the instruction after, if control goes on to one.    *)
LEMMA NextVertex ==
  ASSUME NEW mth, IsMethod(mth), Legal(mth), NEW gr, Decoded(mth, gr), NEW v \in Insns(gr),
         gr.offs[v] + mth.code[gr.offs[v]].units \in Instructions(mth)
  PROVE  v + 1 \in Insns(gr) /\ gr.offs[v + 1] = gr.offs[v] + mth.code[gr.offs[v]].units
<1>1. PICK o : o = gr.offs[v]
  OBVIOUS
<1>2. PICK q : q = o + mth.code[o].units
  OBVIOUS
<1>3. o \in DOMAIN mth.code /\ o \in Nat
  BY <1>1, LegalRow DEF Decoded, Instructions
<1>4. o < q /\ q \in Nat
  <2>1. mth.code[o].op \notin Payloads
    BY <1>1 DEF Decoded, Instructions
  <2>2. mth.code[o].units \in Nat \ {0}
    BY <1>3, <2>1, SizeIsUnits DEF IsMethod
  <2> QED BY <1>2, <1>3, <2>2
<1>5. PICK w \in Insns(gr) : gr.offs[w] = q
  BY <1>1, <1>2 DEF Decoded, Insns, Range
<1>6. /\ Insns(gr) = 1 .. Len(gr.offs) /\ Len(gr.offs) \in Nat
      /\ \A x, y \in Insns(gr) : gr.offs[x] <= gr.offs[y] <=> x <= y
      /\ \A x \in Insns(gr) : gr.offs[x] \in Nat
  BY RisingPlaces DEF Decoded, Insns
<1>7. v + 1 \in Insns(gr) /\ v + 1 <= w
  BY <1>1, <1>4, <1>5, <1>6
<1>8. gr.offs[v + 1] <= q /\ o < gr.offs[v + 1]
  <2>1. gr.offs[v + 1] <= q
    BY <1>5, <1>6, <1>7
  <2>2. ~ (gr.offs[v + 1] <= o)
    BY <1>1, <1>6, <1>7
  <2> QED BY <2>1, <2>2, <1>3, <1>6, <1>7
<1>9. gr.offs[v + 1] \in DOMAIN mth.code
  BY <1>7 DEF Decoded, Instructions
<1>10. q <= gr.offs[v + 1]
  BY <1>2, <1>3, <1>8, <1>9, LegalRow
<1> QED BY <1>1, <1>2, <1>4, <1>6, <1>7, <1>8, <1>10

-----------------------------------------------------------------------------
(* The graph of a method with code, when its edges and lines are made.     *)
Completed(mth, gr) ==
  /\ Decoded(mth, gr)
  /\ IsList(gr.tries) /\ Len(gr.tries) = Len(mth.tries)
  /\ \A k \in 1 .. Len(gr.tries) : TryOf(mth, gr, mth.tries[k], gr.tries[k])
  /\ EdgesUpTo(mth, gr, Len(gr.offs))
  /\ DOMAIN gr.lines \subseteq Insns(gr)

Ending == {"goto", "goto_16", "return", "throw", "throw_verification_error", "unused"}

LEMMA Continuing ==
  ASSUME NEW item, IsItem(item), item.op \notin Payloads
  PROVE  Info[item.op].continues <=> item.op \notin Ending
  BY DEF IsItem, OpcodeNames, Payloads, Info, Entry, Ending

Place1(mth, gr, e) == IF e[2] = Exit(gr) THEN EndOf(mth) ELSE gr.offs[e[2]]

LEMMA VertexFaithful ==
  ASSUME NEW mth, IsMethod(mth), Legal(mth), NEW gr, Completed(mth, gr),
         NEW v \in Insns(gr), gr.offs[v] \in Reachable(mth)
  PROVE  {Place1(mth, gr, e) : e \in {d \in gr.edges : d[1] = v}} = Follows(mth, gr.offs[v])
<1>1. PICK o : o = gr.offs[v]
  OBVIOUS
<1>2. o \in Instructions(mth) /\ IsItem(mth.code[o]) /\ mth.code[o].op \notin Payloads
  BY <1>1 DEF Completed, Decoded, Instructions, IsMethod
<1>3. /\ Insns(gr) = 1 .. Len(gr.offs) /\ Len(gr.offs) \in Nat /\ Exit(gr) = Len(gr.offs) + 1
      /\ Exit(gr) \notin Insns(gr)
  BY RisingPlaces DEF Insns, Exit, Completed, Decoded
<1>4. {e \in gr.edges : e[1] = v} = EdgesFrom(mth, gr, v)
  BY <1>3, EdgesOfVertex DEF Completed
<1>5. PICK op : op = mth.code[o].op /\ op = OpAt(mth, gr, v)
  BY <1>1 DEF OpAt
<1>6. (Info[op].continues <=> op \notin Ending) /\ Info[op].size = mth.code[o].units
  BY <1>2, <1>5, Continuing, SizeIsUnits
<1>7. Follows(mth, o) = Branches(mth, o) \cup (IF op \in Ending THEN {} ELSE {o + mth.code[o].units})
  BY <1>5 DEF Follows, Ending
<1>8. ASSUME op \notin Ending
      PROVE  Place1(mth, gr, <<v, v + 1, "next">>) = o + mth.code[o].units
  <2>1. o + mth.code[o].units \in Follows(mth, o)
    BY <1>7, <1>8
  <2>2. op # "return"
    BY <1>8 DEF Ending
  <2>3. Follows(mth, o) \subseteq Instructions(mth) \cup {EndOf(mth)} /\ EndOf(mth) \notin Follows(mth, o)
    BY <1>1, <1>5, <2>2 DEF Legal
  <2>4. o + mth.code[o].units \in Instructions(mth)
    BY <2>1, <2>3
  <2>5. v + 1 \in Insns(gr) /\ gr.offs[v + 1] = o + mth.code[o].units
    BY <1>1, <2>4, NextVertex DEF Completed
  <2> QED BY <1>3, <2>5 DEF Place1
<1>9. Place1(mth, gr, <<v, Exit(gr), "next">>) = EndOf(mth)
  BY DEF Place1
<1>10. ASSUME NEW t \in Targets(mth.code, o)
       PROVE  Place1(mth, gr, <<v, Max(Lookup(gr, t[1])), t[2]>>) = t[1]
  <2>1. Max(Lookup(gr, t[1])) \in Insns(gr) /\ gr.offs[Max(Lookup(gr, t[1]))] = t[1]
    BY <1>1, JumpLeads DEF Completed
  <2> QED BY <1>3, <2>1 DEF Place1
<1>11. ASSUME NEW e \in EdgesFrom(mth, gr, v)
       PROVE  Place1(mth, gr, e) \in Follows(mth, o)
  <2>1. CASE e \in NextEdge(mth, gr, v)
    BY <2>1, <1>5, <1>6, <1>7, <1>8 DEF NextEdge
  <2>2. CASE e \in ExitEdge(mth, gr, v)
    <3>1. op = "return" /\ e = <<v, Exit(gr), "next">>
      BY <2>2, <1>5 DEF ExitEdge
    <3>2. EndOf(mth) \in Branches(mth, o)
      BY <3>1, <1>5 DEF Branches, SwitchOps
    <3> QED BY <3>1, <3>2, <1>7, <1>9
  <2>3. CASE e \in JumpEdges(mth, gr, v)
    <3>1. PICK t \in Targets(mth.code, o) : e = <<v, Max(Lookup(gr, t[1])), t[2]>>
      BY <1>1, <2>3 DEF JumpEdges
    <3> QED BY <3>1, <1>7, <1>10, JumpsBranch
  <2> QED BY <1>11, <2>1, <2>2, <2>3 DEF EdgesFrom
<1>12. ASSUME NEW f \in Follows(mth, o)
       PROVE  \E e \in EdgesFrom(mth, gr, v) : Place1(mth, gr, e) = f
  <2>1. op \notin Ending => <<v, v + 1, "next">> \in EdgesFrom(mth, gr, v)
    BY <1>5, <1>6 DEF EdgesFrom, NextEdge
  <2>2. CASE f \in Branches(mth, o)
    <3>1. \/ op = "return" /\ f = EndOf(mth)
          \/ \E t \in Targets(mth.code, o) : t[1] = f
          \/ op \in SwitchOps /\ f = o + mth.code[o].units
      <4>1. \/ mth.code[o].op = "return" /\ f = EndOf(mth)
            \/ \E t \in Targets(mth.code, o) : t[1] = f
            \/ mth.code[o].op \in SwitchOps /\ f = o + Info[mth.code[o].op].size
        BY <2>2, JumpsBranch
      <4>2. mth.code[o].op = op
        BY <1>5
      <4> QED BY <4>1, <4>2, <1>6
    <3>2. CASE op = "return" /\ f = EndOf(mth)
      <4>1. <<v, Exit(gr), "next">> \in EdgesFrom(mth, gr, v)
        BY <3>2, <1>5 DEF EdgesFrom, ExitEdge
      <4> QED BY <3>2, <4>1, <1>9
    <3>3. CASE \E t \in Targets(mth.code, o) : t[1] = f
      <4>1. PICK t \in Targets(mth.code, o) : t[1] = f
        BY <3>3
      <4>2. <<v, Max(Lookup(gr, t[1])), t[2]>> \in EdgesFrom(mth, gr, v)
        BY <1>1, <4>1 DEF EdgesFrom, JumpEdges
      <4> QED BY <4>1, <4>2, <1>10
    <3>4. CASE op \in SwitchOps /\ f = o + mth.code[o].units
      <4>1. op \notin Ending
        BY <3>4 DEF SwitchOps, Ending
      <4> QED BY <3>4, <4>1, <2>1, <1>8
    <3> QED BY <3>1, <3>2, <3>3, <3>4
  <2>3. CASE f \notin Branches(mth, o)
    <3>1. op \notin Ending /\ f = o + mth.code[o].units
      BY <2>3, <1>7, <1>12
    <3> QED BY <3>1, <2>1, <1>8
  <2> QED BY <2>2, <2>3
<1> QED BY <1>1, <1>4, <1>11, <1>12

(* Each case of a switch has an edge under its key, unless it is the next  *)
(* instruction.                                                            *)
LEMMA CasesLabelled ==
  ASSUME NEW mth, IsMethod(mth), Legal(mth), NEW gr, Completed(mth, gr),
         NEW v \in Insns(gr), gr.offs[v] \in Reachable(mth), NEW o, o = gr.offs[v],
         mth.code[o].op \in SwitchOps, NEW table, table = mth.code[o + mth.code[o].to],
         NEW k \in DOMAIN table.targets
  PROVE  \E e \in gr.edges : /\ e[1] = v /\ gr.offs[e[2]] = o + table.targets[k]
                             /\ e[3] = table.keys[k] \/ e[2] = v + 1
<1>1. /\ o \in Instructions(mth) /\ IsItem(mth.code[o]) /\ mth.code[o].op \notin Payloads
      /\ Decoded(mth, gr)
  BY DEF Completed, Decoded, Instructions, IsMethod
<1>2. {e \in gr.edges : e[1] = v} = EdgesFrom(mth, gr, v)
  <2>1. Insns(gr) = 1 .. Len(gr.offs) /\ Len(gr.offs) \in Nat
    BY <1>1, RisingPlaces DEF Insns, Decoded
  <2> QED BY <2>1, EdgesOfVertex DEF Completed
<1>3. CASE table.targets[k] # Info[mth.code[o].op].size
  <2>1. PICK t : t = <<o + table.targets[k], table.keys[k]>>
    OBVIOUS
  <2>2. t \in Targets(mth.code, o)
    <3>1. Targets(mth.code, o) =
            {<<o + table.targets[c], table.keys[c]>> :
               c \in {d \in DOMAIN table.targets : table.targets[d] # Info[mth.code[o].op].size}}
      BY DEF Targets, SwitchOps
    <3> QED BY <2>1, <3>1, <1>3
  <2>3. <<v, Max(Lookup(gr, t[1])), t[2]>> \in EdgesFrom(mth, gr, v)
    BY <2>2 DEF EdgesFrom, JumpEdges
  <2>4. gr.offs[Max(Lookup(gr, t[1]))] = t[1]
    BY <1>1, <2>2, JumpLeads
  <2> QED BY <1>2, <2>1, <2>3, <2>4
<1>4. CASE table.targets[k] = Info[mth.code[o].op].size
  <2>1. mth.code[o].op \notin Ending /\ mth.code[o].op # "return"
    BY DEF SwitchOps, Ending
  <2>2. <<v, v + 1, "next">> \in EdgesFrom(mth, gr, v)
    BY <1>1, <2>1, Continuing DEF EdgesFrom, NextEdge, OpAt
  <2>3. mth.code[o].units = table.targets[k]
    BY <1>1, <1>4, SizeIsUnits
  <2>4. Branches(mth, o) \subseteq Instructions(mth) /\ o + table.targets[k] \in Branches(mth, o)
    <3>1. Branches(mth, o) = {o + t : t \in Range(table.targets)}
      BY DEF Branches, SwitchOps
    <3>2. table.targets[k] \in Range(table.targets)
      BY DEF Range
    <3> QED BY <3>1, <3>2, <1>1, <2>1, LegalBranches
  <2>5. gr.offs[v + 1] = o + table.targets[k]
    <3>1. gr.offs[v] + mth.code[gr.offs[v]].units = o + table.targets[k]
      BY <2>3
    <3>2. gr.offs[v] + mth.code[gr.offs[v]].units \in Instructions(mth)
      BY <3>1, <2>4
    <3>3. gr.offs[v + 1] = gr.offs[v] + mth.code[gr.offs[v]].units
      BY <3>2, <1>1, NextVertex
    <3> QED BY <3>1, <3>3
  <2>6. PICK e : e = <<v, v + 1, "next">>
    OBVIOUS
  <2>7. e[1] = v /\ e[2] = v + 1
    BY <2>6
  <2>8. e \in gr.edges
    BY <1>2, <2>2, <2>6
  <2> QED BY <2>5, <2>7, <2>8
<1> QED BY <1>3, <1>4

-----------------------------------------------------------------------------
(* Exception edges.                                                        *)
ThrowsAt(mth, gr, v) == Info[Kept(mth.code[gr.offs[v]].op)].throws
Guards(mth, gr, t) == {v \in t.first .. t.last : ThrowsAt(mth, gr, v)} \X t.handlers
FlowOf(mth, gr) ==
  (UNION {Guards(mth, gr, t) : t \in Range(gr.tries)})
    \cup ({v \in Insns(gr) : ThrowsAt(mth, gr, v)} \X {Exit(gr)})

LEMMA ThrowingOps ==
  ASSUME NEW item, IsItem(item), item.op \notin Payloads
  PROVE  Info[Kept(item.op)].throws <=> item.op \in {"invoke", "throw"}
  BY DEF IsItem, OpcodeNames, Payloads, Info, Entry, Kept

(* The try block of a method that a try block of its graph is made from.   *)
LEMMA TryOrigin ==
  ASSUME NEW mth, NEW gr, Completed(mth, gr), IsMethod(mth)
  PROVE  /\ \A t \in Range(gr.tries) : \E try \in Range(mth.tries) : TryOf(mth, gr, try, t)
         /\ \A try \in Range(mth.tries) : \E t \in Range(gr.tries) : TryOf(mth, gr, try, t)
<1>1. DOMAIN gr.tries = 1 .. Len(gr.tries) /\ DOMAIN mth.tries = 1 .. Len(gr.tries)
  <2>1. PICK S : gr.tries \in Seq(S)
    BY DEF Completed, IsList
  <2>2. DOMAIN gr.tries = 1 .. Len(gr.tries)
    BY <2>1, LenProperties
  <2>3. DOMAIN mth.tries = 1 .. Len(mth.tries)
    BY LenProperties DEF IsMethod
  <2> QED BY <2>2, <2>3 DEF Completed
<1>2. \A k \in 1 .. Len(gr.tries) : TryOf(mth, gr, mth.tries[k], gr.tries[k])
  BY DEF Completed
<1> QED BY <1>1, <1>2 DEF Range

LEMMA FlowShape ==
  ASSUME NEW mth, IsMethod(mth), NEW gr, Completed(mth, gr)
  PROVE  FlowOf(mth, gr) \subseteq Insns(gr) \X (1 .. Exit(gr))
<1>1. Insns(gr) = 1 .. Len(gr.offs) /\ Len(gr.offs) \in Nat /\ Exit(gr) = Len(gr.offs) + 1
  BY RisingPlaces DEF Insns, Exit, Completed, Decoded
<1>2. Insns(gr) \subseteq 1 .. Exit(gr) /\ Exit(gr) \in 1 .. Exit(gr)
  BY <1>1
<1>3. ASSUME NEW t \in Range(gr.tries)
      PROVE  Guards(mth, gr, t) \subseteq Insns(gr) \X (1 .. Exit(gr))
  <2>1. t.first \in Insns(gr) /\ t.last \in Insns(gr) /\ t.handlers \subseteq Insns(gr)
    BY <1>3, TryOrigin DEF TryOf
  <2>2. t.first .. t.last \subseteq Insns(gr)
    BY <1>1, <2>1
  <2> QED BY <1>2, <2>1, <2>2 DEF Guards
<1> QED BY <1>2, <1>3 DEF FlowOf

(* A vertex is guarded if its instruction begins in the block.             *)
LEMMA GuardedBegins ==
  ASSUME NEW mth, Legal(mth), NEW gr, Completed(mth, gr), NEW try, NEW t, TryOf(mth, gr, try, t), IsTry(try),
         NEW v \in Insns(gr)
  PROVE  v \in t.first .. t.last <=> gr.offs[v] \in try.start .. try.start + try.count - 1
<1>1. /\ \A x \in Insns(gr) : x \in Nat /\ gr.offs[x] \in Nat
      /\ \A x, y \in Insns(gr) : gr.offs[x] <= gr.offs[y] <=> x <= y
  BY RisingPlaces DEF Completed, Decoded, Insns
<1>2. /\ t.first \in Insns(gr) /\ t.last \in Insns(gr) /\ gr.offs[t.first] = try.start
      /\ v <= t.last <=> gr.offs[v] <= try.start + try.count - 1
  BY DEF TryOf
<1>3. t.first <= v <=> try.start <= gr.offs[v]
  BY <1>1, <1>2
<1>4. try.start \in Nat /\ try.start + try.count - 1 \in Int
  BY DEF IsTry
<1> QED BY <1>1, <1>2, <1>3, <1>4

LEMMA FlowFaithful ==
  ASSUME NEW mth, IsMethod(mth), Legal(mth), NEW gr, Completed(mth, gr), gr.flow = FlowOf(mth, gr),
         NEW v \in Insns(gr)
  PROVE  LET covering == {t \in Range(mth.tries) : gr.offs[v] \in t.start .. t.start + t.count - 1}
             to == {IF w = Exit(gr) THEN EndOf(mth) ELSE gr.offs[w] : w \in {x \in 1 .. Exit(gr) : <<v, x>> \in gr.flow}}
         IN  to = IF mth.code[gr.offs[v]].op \in {"invoke", "throw"}
                  THEN {EndOf(mth)} \cup UNION {Range(t.list) : t \in covering} ELSE {}
<1> DEFINE covering == {t \in Range(mth.tries) : gr.offs[v] \in t.start .. t.start + t.count - 1}
           lead(w) == IF w = Exit(gr) THEN EndOf(mth) ELSE gr.offs[w]
           from == {x \in 1 .. Exit(gr) : <<v, x>> \in gr.flow}
           throws == mth.code[gr.offs[v]].op \in {"invoke", "throw"}
<1>1. /\ Insns(gr) = 1 .. Len(gr.offs) /\ Len(gr.offs) \in Nat /\ Exit(gr) = Len(gr.offs) + 1
      /\ Exit(gr) \notin Insns(gr) /\ Exit(gr) \in 1 .. Exit(gr) /\ Insns(gr) \subseteq 1 .. Exit(gr)
  BY RisingPlaces DEF Insns, Exit, Completed, Decoded
<1>2. ThrowsAt(mth, gr, v) <=> throws
  <2>1. IsItem(mth.code[gr.offs[v]]) /\ mth.code[gr.offs[v]].op \notin Payloads
    BY DEF Completed, Decoded, Instructions, IsMethod
  <2> QED BY <2>1, ThrowingOps DEF ThrowsAt
<1>3. \A t \in Range(mth.tries) : IsTry(t)
  BY DEF IsMethod
<1>4. ASSUME NEW x \in from
      PROVE  throws /\ lead(x) \in {EndOf(mth)} \cup UNION {Range(t.list) : t \in covering}
  <2>1. <<v, x>> \in FlowOf(mth, gr)
    BY <1>4
  <2>2. CASE <<v, x>> \in {u \in Insns(gr) : ThrowsAt(mth, gr, u)} \X {Exit(gr)}
    BY <1>2, <2>2
  <2>3. CASE \E t \in Range(gr.tries) : <<v, x>> \in Guards(mth, gr, t)
    <3>1. PICK t \in Range(gr.tries) : <<v, x>> \in Guards(mth, gr, t)
      BY <2>3
    <3>2. v \in t.first .. t.last /\ ThrowsAt(mth, gr, v) /\ x \in t.handlers
      BY <3>1 DEF Guards
    <3>3. PICK try \in Range(mth.tries) : TryOf(mth, gr, try, t)
      BY TryOrigin
    <3>4. try \in covering
      BY <1>3, <3>2, <3>3, GuardedBegins
    <3>5. x \in Insns(gr) /\ gr.offs[x] \in Range(try.list)
      BY <3>2, <3>3 DEF TryOf
    <3>6. lead(x) = gr.offs[x]
      BY <1>1, <3>5
    <3> HIDE DEF covering, lead, throws
    <3> QED BY <1>2, <3>2, <3>4, <3>5, <3>6
  <2> HIDE DEF covering, lead, throws
  <2> QED BY <2>1, <2>2, <2>3 DEF FlowOf
<1>5. ASSUME throws, NEW p \in {EndOf(mth)} \cup UNION {Range(t.list) : t \in covering}
      PROVE  \E x \in from : lead(x) = p
  <2>1. CASE p = EndOf(mth)
    <3>1. <<v, Exit(gr)>> \in FlowOf(mth, gr)
      BY <1>2, <1>5 DEF FlowOf
    <3> QED BY <1>1, <2>1, <3>1
  <2>2. CASE \E t \in covering : p \in Range(t.list)
    <3>1. PICK try \in covering : p \in Range(try.list)
      BY <2>2
    <3>2. PICK t \in Range(gr.tries) : TryOf(mth, gr, try, t)
      BY <3>1, TryOrigin
    <3>3. v \in t.first .. t.last
      BY <1>3, <3>1, <3>2, GuardedBegins
    <3>4. PICK x \in t.handlers : gr.offs[x] = p
      BY <3>1, <3>2 DEF TryOf
    <3>5. x \in Insns(gr)
      BY <3>2, <3>4 DEF TryOf
    <3>6. <<v, x>> \in Guards(mth, gr, t)
      BY <1>2, <1>5, <3>3, <3>4 DEF Guards
    <3>7. <<v, x>> \in FlowOf(mth, gr)
      BY <3>2, <3>6 DEF FlowOf
    <3>8. x \in from /\ lead(x) = p
      BY <1>1, <3>4, <3>5, <3>7
    <3> QED BY <3>8
  <2> QED BY <1>5, <2>1, <2>2
<1>6. {lead(w) : w \in from} = IF throws THEN {EndOf(mth)} \cup UNION {Range(t.list) : t \in covering} ELSE {}
  <2> HIDE DEF covering, lead, from, throws
  <2>1. CASE throws
    BY <1>4, <1>5, <2>1
  <2>2. CASE ~ throws
    BY <1>4, <2>2
  <2> QED BY <2>1, <2>2
<1> QED BY <1>6

-----------------------------------------------------------------------------
(* The phases in which a graph is made.                                    *)
TriesUpTo(mth, gr, n) ==
  /\ IsList(gr.tries) /\ Len(gr.tries) = n /\ n \in 0 .. Len(mth.tries)
  /\ \A k \in 1 .. n : TryOf(mth, gr, mth.tries[k], gr.tries[k])

InTries(mth, gr, p) ==
  /\ Decoded(mth, gr) /\ p \in Nat \ {0} /\ TriesUpTo(mth, gr, p - 1)
  /\ gr.edges = {} /\ gr.lines = <<>> /\ gr.flow = {}

InEdges(mth, gr, p) ==
  /\ Decoded(mth, gr) /\ TriesUpTo(mth, gr, Len(mth.tries))
  /\ p \in 1 .. Len(gr.offs) + 1 /\ EdgesUpTo(mth, gr, p - 1)
  /\ gr.lines = <<>> /\ gr.flow = {}

LEMMA DecodedSame ==
  ASSUME NEW mth, NEW gr, NEW hr, IsGraph(hr), hr.offs = gr.offs
  PROVE  /\ Decoded(mth, gr) => Decoded(mth, hr)
         /\ \A try, t : TryOf(mth, gr, try, t) => TryOf(mth, hr, try, t)
         /\ \A n : EdgesUpTo(mth, gr, n) /\ hr.edges = gr.edges => EdgesUpTo(mth, hr, n)
<1>1. Insns(hr) = Insns(gr)
  BY LookupSame
<1>2. Decoded(mth, gr) => Decoded(mth, hr)
  BY <1>1 DEF Decoded
<1>3. \A try, t : TryOf(mth, gr, try, t) => TryOf(mth, hr, try, t)
  BY <1>1 DEF TryOf
<1>4. \A v : EdgesFrom(mth, gr, v) = EdgesFrom(mth, hr, v) /\ JumpsFound(mth, gr, v) = JumpsFound(mth, hr, v)
  BY EdgesSame
<1>5. \A n : EdgesUpTo(mth, gr, n) /\ hr.edges = gr.edges => EdgesUpTo(mth, hr, n)
  BY <1>4 DEF EdgesUpTo
<1> QED BY <1>2, <1>3, <1>5

LEMMA TriesSame ==
  ASSUME NEW mth, NEW gr, NEW hr, IsGraph(hr), hr.offs = gr.offs, hr.tries = gr.tries, NEW n, TriesUpTo(mth, gr, n)
  PROVE  TriesUpTo(mth, hr, n)
  BY DecodedSame DEF TriesUpTo

LEMMA TriesBegin ==
  ASSUME NEW mth, IsMethod(mth), NEW gr, NEW p, Decoding(mth, gr, p), p >= mth.size
  PROVE  InTries(mth, gr, 1)
<1>1. Decoded(mth, gr)
  BY AllDecoded
<1>2. gr.tries = <<>> /\ gr.edges = {} /\ gr.lines = <<>> /\ gr.flow = {}
  BY DEF Decoding, Bare, EmptyGraph
<1>3. TriesUpTo(mth, gr, 0)
  <2>1. <<>> \in Seq({}) /\ Len(<<>>) = 0
    OBVIOUS
  <2>2. IsList(<<>>)
    BY <2>1 DEF IsList
  <2>3. Len(mth.tries) \in Nat
    BY LenProperties DEF IsMethod
  <2> QED BY <1>2, <2>1, <2>2, <2>3 DEF TriesUpTo
<1> QED BY <1>1, <1>2, <1>3 DEF InTries

LEMMA TryAdded ==
  ASSUME NEW mth, IsMethod(mth), NEW gr, NEW p, InTries(mth, gr, p), p <= Len(mth.tries),
         NEW t, TryOf(mth, gr, mth.tries[p], t),
         NEW hr, hr = [gr EXCEPT !.tries = Append(@, t)]
  PROVE  InTries(mth, hr, p + 1)
<1>1. /\ hr.offs = gr.offs /\ hr.edges = gr.edges /\ hr.lines = gr.lines /\ hr.flow = gr.flow
      /\ hr.tries = Append(gr.tries, t) /\ IsGraph(hr)
  BY DEF InTries, Decoded, IsGraph
<1>2. Decoded(mth, hr) /\ \A try, u : TryOf(mth, gr, try, u) => TryOf(mth, hr, try, u)
  BY <1>1, DecodedSame DEF InTries
<1>3. /\ IsList(gr.tries) /\ Len(gr.tries) = p - 1 /\ p \in Nat \ {0}
      /\ \A k \in 1 .. p - 1 : TryOf(mth, gr, mth.tries[k], gr.tries[k])
  BY DEF InTries, TriesUpTo
<1>4. /\ IsList(hr.tries) /\ Len(hr.tries) = p /\ hr.tries[p] = t
      /\ \A k \in 1 .. p - 1 : hr.tries[k] = gr.tries[k]
  BY <1>1, <1>3, ListAppend
<1>5. Len(mth.tries) \in Nat
  BY LenProperties DEF IsMethod
<1>6. \A k \in 1 .. p : TryOf(mth, hr, mth.tries[k], hr.tries[k])
  <2>1. \A k \in 1 .. p : k \in 1 .. p - 1 \/ k = p
    BY <1>3
  <2> QED BY <1>2, <1>3, <1>4, <2>1
<1>7. p + 1 \in Nat \ {0} /\ (p + 1) - 1 = p /\ p \in 0 .. Len(mth.tries)
  BY <1>3, <1>5
<1>8. TriesUpTo(mth, hr, p)
  BY <1>4, <1>6, <1>7 DEF TriesUpTo
<1> QED BY <1>1, <1>2, <1>7, <1>8 DEF InTries

LEMMA EdgesBegin ==
  ASSUME NEW mth, IsMethod(mth), NEW gr, NEW p, InTries(mth, gr, p), p > Len(mth.tries),
         NEW hr, hr = [gr EXCEPT !.edges = {<<0, 1, "next">>}]
  PROVE  InEdges(mth, hr, 1)
<1>1. /\ hr.offs = gr.offs /\ hr.tries = gr.tries /\ hr.lines = gr.lines /\ hr.flow = gr.flow
      /\ hr.edges = {<<0, 1, "next">>} /\ IsGraph(hr)
  BY DEF InTries, Decoded, IsGraph
<1>2. Decoded(mth, hr)
  BY <1>1, DecodedSame DEF InTries
<1>3. Len(mth.tries) \in Nat
  BY LenProperties DEF IsMethod
<1>4. p - 1 = Len(mth.tries)
  BY <1>3 DEF InTries, TriesUpTo
<1>5. TriesUpTo(mth, hr, Len(mth.tries))
  BY <1>1, <1>4, TriesSame DEF InTries
<1>6. Len(hr.offs) \in Nat
  BY <1>2, RisingPlaces DEF Decoded
<1>7. 1 .. 0 = {}
  OBVIOUS
<1>8. EdgesUpTo(mth, hr, 0)
  BY <1>1, <1>7 DEF EdgesUpTo
<1> QED BY <1>1, <1>2, <1>5, <1>6, <1>8 DEF InEdges, InTries

LEMMA EdgesAdded ==
  ASSUME NEW mth, NEW gr, NEW p, InEdges(mth, gr, p), p \in Insns(gr), JumpsFound(mth, gr, p),
         NEW hr, hr = [gr EXCEPT !.edges = @ \cup EdgesFrom(mth, gr, p)]
  PROVE  InEdges(mth, hr, p + 1)
<1>1. /\ hr.offs = gr.offs /\ hr.tries = gr.tries /\ hr.lines = gr.lines /\ hr.flow = gr.flow
      /\ hr.edges = gr.edges \cup EdgesFrom(mth, gr, p) /\ IsGraph(hr)
  BY DEF InEdges, Decoded, IsGraph
<1>2. Decoded(mth, hr)
  BY <1>1, DecodedSame DEF InEdges
<1>3. TriesUpTo(mth, hr, Len(mth.tries))
  BY <1>1, TriesSame DEF InEdges
<1>4. Insns(gr) = 1 .. Len(gr.offs) /\ Len(gr.offs) \in Nat
  BY RisingPlaces DEF Insns, InEdges, Decoded
<1>5. p \in Nat \ {0} /\ p - 1 \in Nat /\ p = (p - 1) + 1 /\ (p + 1) - 1 = p /\ p + 1 \in 1 .. Len(gr.offs) + 1
  BY <1>4
<1>6. PICK n \in Nat : n = p - 1
  BY <1>5
<1>7. EdgesUpTo(mth, gr, n) /\ p = n + 1
  BY <1>5, <1>6 DEF InEdges
<1>8. EdgesUpTo(mth, hr, p)
  BY <1>1, <1>7, EdgesGrow
<1> QED BY <1>1, <1>2, <1>3, <1>5, <1>8 DEF InEdges

LEMMA EdgesEnd ==
  ASSUME NEW mth, NEW gr, NEW p, InEdges(mth, gr, p), p \notin Insns(gr)
  PROVE  Completed(mth, gr)
<1>1. Insns(gr) = 1 .. Len(gr.offs) /\ Len(gr.offs) \in Nat
  BY RisingPlaces DEF Insns, InEdges, Decoded
<1>2. p - 1 = Len(gr.offs)
  BY <1>1 DEF InEdges
<1>3. DOMAIN gr.lines \subseteq Insns(gr)
  BY DEF InEdges
<1>4. /\ IsList(gr.tries) /\ Len(gr.tries) = Len(mth.tries)
      /\ \A k \in 1 .. Len(gr.tries) : TryOf(mth, gr, mth.tries[k], gr.tries[k])
  BY DEF InEdges, TriesUpTo
<1> QED BY <1>2, <1>3, <1>4 DEF InEdges, Completed

LEMMA CompletedSame ==
  ASSUME NEW mth, NEW gr, Completed(mth, gr), NEW hr, IsGraph(hr),
         hr.offs = gr.offs, hr.tries = gr.tries, hr.edges = gr.edges, DOMAIN hr.lines \subseteq Insns(gr)
  PROVE  Completed(mth, hr)
<1>1. Insns(hr) = Insns(gr)
  BY LookupSame
<1> QED BY <1>1, DecodedSame DEF Completed

-----------------------------------------------------------------------------
(* The invariant.                                                          *)
Making == {"decode", "tries", "edges", "debug", "made", "error", "undefined", "astray"}
Later  == {"done", "lay", "local", "calls", "explored"}

(* A graph that is made, but for its exception edges.                      *)
Finished(mth, gr) ==
  /\ IsGraph(gr)
  /\ mth.codeOff = 0 => gr.offs = <<>> /\ gr.tries = <<>> /\ gr.edges = {} /\ gr.lines = <<>>
  /\ mth.codeOff # 0 => Completed(mth, gr)

GraphsInv ==
  /\ file \in Files /\ pc \in Making \cup {"flow"} \cup Later
  /\ IsList(graphs) /\ Len(graphs) <= Len(file)
  /\ \A i \in 1 .. Len(graphs) : Finished(file[i], graphs[i])

MakingInv ==
  pc \in Making =>
    /\ m \in 1 .. Len(file) /\ Len(graphs) = m - 1
    /\ \A i \in 1 .. Len(graphs) : graphs[i].flow = {}
    /\ pc = "decode" => Decoding(method, g, at) /\ (method.codeOff = 0 => g = EmptyGraph)
    /\ pc = "tries" => InTries(method, g, at) /\ method.codeOff # 0
    /\ pc = "edges" => InEdges(method, g, at) /\ method.codeOff # 0
    /\ pc \in {"debug", "made"} => Finished(method, g) /\ g.flow = {}
    /\ pc = "debug" => method.codeOff # 0
    /\ pc = "undefined" => ~ Legal(method)

FlowInv ==
  /\ pc = "flow" =>
       /\ m \in 1 .. Len(file) /\ Len(graphs) = Len(file)
       /\ \A i \in 1 .. Len(graphs) :
            graphs[i].flow = IF i < m /\ file[i].codeOff # 0 THEN FlowOf(file[i], graphs[i]) ELSE {}
  /\ pc \in Later =>
       /\ Len(graphs) = Len(file)
       /\ \A i \in 1 .. Len(graphs) :
            graphs[i].flow = IF file[i].codeOff # 0 THEN FlowOf(file[i], graphs[i]) ELSE {}

InsnInv == GraphsInv /\ MakingInv /\ FlowInv

LEMMA FileFacts ==
  ASSUME file \in Files
  PROVE  /\ Len(file) \in Nat \ {0} /\ DOMAIN file = 1 .. Len(file)
         /\ \A i \in 1 .. Len(file) : IsMethod(file[i])
<1>1. file \in Seq(Range(file)) /\ file # <<>> /\ \A i \in DOMAIN file : IsMethod(file[i])
  BY FileMethods
<1>2. DOMAIN file = 1 .. Len(file) /\ Len(file) \in Nat
  BY <1>1, LenProperties
<1>3. Len(file) # 0
  BY <1>1, EmptySeq
<1> QED BY <1>1, <1>2, <1>3

LEMMA MethodFacts ==
  ASSUME GraphsInv, MakingInv, pc \in Making
  PROVE  IsMethod(method)
  BY FileFacts DEF GraphsInv, MakingInv, method

LEMMA DecodingBegins ==
  ASSUME NEW mth, IsMethod(mth)
  PROVE  Decoding(mth, EmptyGraph, 0)
<1>1. EmptyGraph.offs = <<>> /\ Bare(EmptyGraph)
  BY DEF EmptyGraph, Bare
<1>2. <<>> \in Seq(Nat) /\ DOMAIN <<>> = {}
  OBVIOUS
<1>3. Rising(EmptyGraph.offs) /\ Insns(EmptyGraph) = {}
  BY <1>1, <1>2 DEF Rising, Insns
<1>4. Legal(mth) => 0 \in DOMAIN mth.code
  BY LegalRow
<1>5. \A o \in Instructions(mth) : ~ (o < 0)
  BY DEF IsMethod, Instructions
<1> QED BY <1>1, <1>3, <1>4, <1>5 DEF Decoding

LEMMA InsnStart == EInit => InsnInv
<1> SUFFICES ASSUME EInit PROVE InsnInv
  OBVIOUS
<1>1. file \in Files /\ m = 1 /\ g = EmptyGraph /\ at = 0 /\ graphs = <<>> /\ pc = "decode"
  BY DEF EInit, Init
<1>2. Len(file) \in Nat \ {0} /\ IsMethod(method)
  BY <1>1, FileFacts DEF method
<1>3. <<>> \in Seq({}) /\ Len(<<>>) = 0
  OBVIOUS
<1>4. IsList(<<>>)
  BY <1>3 DEF IsList
<1>5. GraphsInv
  BY <1>1, <1>2, <1>3, <1>4 DEF GraphsInv, Making
<1>6. MakingInv
  BY <1>1, <1>2, <1>3, DecodingBegins DEF MakingInv
<1>7. FlowInv
  BY <1>1 DEF FlowInv, Later
<1> QED BY <1>5, <1>6, <1>7 DEF InsnInv

(* A step of the making of a graph that leaves the graphs made alone.      *)
LEMMA StillMaking ==
  ASSUME InsnInv, pc \in Making, pc' \in Making, UNCHANGED <<file, m, graphs>>
  PROVE  /\ GraphsInv' /\ FlowInv' /\ method' = method
         /\ m' \in 1 .. Len(file') /\ Len(graphs') = m' - 1
         /\ \A i \in 1 .. Len(graphs') : graphs'[i].flow = {}
<1>1. GraphsInv' /\ method' = method
  BY DEF InsnInv, GraphsInv, method
<1>2. FlowInv'
  BY DEF FlowInv, Making, Later
<1> QED BY <1>1, <1>2 DEF InsnInv, MakingInv

LEMMA DecodeKeeps ==
  ASSUME InsnInv, NoCode \/ SkipPayload \/ AddVertex \/ AddGarbage \/ VerticesMade
  PROVE  InsnInv'
<1>1. /\ pc = "decode" /\ UNCHANGED <<file, m, graphs>> /\ pc \in Making /\ pc' \in Making
  BY DEF NoCode, SkipPayload, AddVertex, AddGarbage, VerticesMade, InCode, Making
<1>2. IsMethod(method) /\ Decoding(method, g, at) /\ (method.codeOff = 0 => g = EmptyGraph)
  BY <1>1, MethodFacts DEF InsnInv, MakingInv
<1>3. /\ GraphsInv' /\ FlowInv' /\ method' = method
      /\ m' \in 1 .. Len(file') /\ Len(graphs') = m' - 1
      /\ \A i \in 1 .. Len(graphs') : graphs'[i].flow = {}
  BY <1>1, StillMaking
<1>4. CASE NoCode
  <2>1. pc' = "made" /\ g' = g /\ method.codeOff = 0 /\ g = EmptyGraph
    BY <1>2, <1>4 DEF NoCode
  <2>2. Finished(method, g) /\ g.flow = {}
    BY <2>1 DEF Finished, IsGraph, EmptyGraph
  <2>3. MakingInv'
    BY <1>3, <2>1, <2>2 DEF MakingInv
  <2> QED BY <1>3, <2>3 DEF InsnInv
<1>5. CASE SkipPayload
  <2>1. /\ pc' = "decode" /\ g' = g /\ method.codeOff # 0 /\ at \in DOMAIN method.code
        /\ method.code[at].op \in Payloads /\ at' = at + PayloadSize(method.code[at])
    BY <1>1, <1>5 DEF SkipPayload, InCode
  <2>2. Decoding(method, g, at')
    BY <1>2, <2>1, PayloadSkipped
  <2>3. MakingInv'
    BY <1>3, <2>1, <2>2 DEF MakingInv
  <2> QED BY <1>3, <2>3 DEF InsnInv
<1>6. CASE AddVertex
  <2>1. /\ pc' = "decode" /\ method.codeOff # 0 /\ at \in DOMAIN method.code
        /\ method.code[at].op \notin Payloads
        /\ g' = [g EXCEPT !.offs = Append(@, at)]
        /\ at' = at + Info[method.code[at].op].size
    BY <1>1, <1>6 DEF AddVertex, InCode
  <2>2. Decoding(method, g', at')
    BY <1>2, <2>1, VertexAdded
  <2>3. MakingInv'
    BY <1>3, <2>1, <2>2 DEF MakingInv
  <2> QED BY <1>3, <2>3 DEF InsnInv
<1>7. CASE AddGarbage
  <2>1. pc' = "undefined" /\ at \notin DOMAIN method.code /\ at < method.size
    BY <1>7 DEF AddGarbage, InCode
  <2>2. method.size \in Nat /\ at \in Nat
    BY <1>2 DEF IsMethod, Decoding
  <2>3. ~ Legal(method)
    BY <1>2, <2>1, <2>2 DEF Decoding
  <2>4. MakingInv'
    BY <1>3, <2>1, <2>3 DEF MakingInv
  <2> QED BY <1>3, <2>4 DEF InsnInv
<1>8. CASE VerticesMade
  <2>1. pc' = "tries" /\ method.codeOff # 0 /\ at >= method.size /\ at' = 1 /\ g' = g
    BY <1>8 DEF VerticesMade
  <2>2. InTries(method, g, 1)
    BY <1>2, <2>1, TriesBegin
  <2>3. MakingInv'
    BY <1>3, <2>1, <2>2 DEF MakingInv
  <2> QED BY <1>3, <2>3 DEF InsnInv
<1> QED BY <1>4, <1>5, <1>6, <1>7, <1>8

LEMMA TriesKeeps ==
  ASSUME InsnInv, AddTry \/ TriesMade
  PROVE  InsnInv'
<1>1. /\ pc = "tries" /\ UNCHANGED <<file, m, graphs>> /\ pc \in Making /\ pc' \in Making
  BY DEF AddTry, TriesMade, Making
<1>2. IsMethod(method) /\ InTries(method, g, at) /\ method.codeOff # 0
  BY <1>1, MethodFacts DEF InsnInv, MakingInv
<1>3. /\ GraphsInv' /\ FlowInv' /\ method' = method
      /\ m' \in 1 .. Len(file') /\ Len(graphs') = m' - 1
      /\ \A i \in 1 .. Len(graphs') : graphs'[i].flow = {}
  BY <1>1, StillMaking
<1>4. CASE AddTry
  <2>1. PICK try : try = method.tries[at]
    OBVIOUS
  <2>2. PICK offs : offs = HandlerOffs(try)
    OBVIOUS
  <2>3. PICK t : t = [first |-> Max(Lookup(g, try.start)), last |-> Max(LastInsn(g, try)),
                      handlers |-> {Max(Lookup(g, offs[h])) : h \in DOMAIN offs}]
    OBVIOUS
  <2>4. /\ at <= Len(method.tries)
        /\ IF Lookup(g, try.start) # {} /\ \A h \in DOMAIN offs : Lookup(g, offs[h]) # {}
           THEN g' = [g EXCEPT !.tries = Append(@, t)] /\ at' = at + 1 /\ pc' = pc
           ELSE pc' = "error"
    BY <1>4, <2>1, <2>2, <2>3 DEF AddTry
  <2>5. CASE Lookup(g, try.start) # {} /\ \A h \in DOMAIN offs : Lookup(g, offs[h]) # {}
    <3>1. at \in 1 .. Len(method.tries) /\ DOMAIN method.tries = 1 .. Len(method.tries)
      <4>1. at \in Nat \ {0}
        BY <1>2 DEF InTries
      <4> QED BY <1>2, <2>4, <4>1, LenProperties DEF IsMethod
    <3>2. try \in Range(method.tries)
      BY <2>1, <3>1 DEF Range
    <3>3. Decoded(method, g)
      BY <1>2 DEF InTries
    <3>4. TryOf(method, g, try, t)
      BY <1>2, <2>2, <2>3, <2>5, <3>2, <3>3, TryMade
    <3>5. /\ g' = [g EXCEPT !.tries = Append(@, t)] /\ at' = at + 1 /\ at <= Len(method.tries)
          /\ TryOf(method, g, method.tries[at], t)
      BY <2>1, <2>4, <2>5, <3>4
    <3>6. InTries(method, g', at + 1)
      BY <1>2, <3>5, TryAdded
    <3>7. MakingInv'
      BY <1>1, <1>2, <1>3, <2>4, <2>5, <3>5, <3>6 DEF MakingInv
    <3> QED BY <1>3, <3>7 DEF InsnInv
  <2>6. CASE ~ (Lookup(g, try.start) # {} /\ \A h \in DOMAIN offs : Lookup(g, offs[h]) # {})
    <3>1. pc' = "error"
      BY <2>4, <2>6
    <3>2. MakingInv'
      BY <1>3, <3>1 DEF MakingInv
    <3> QED BY <1>3, <3>2 DEF InsnInv
  <2> QED BY <2>5, <2>6
<1>5. CASE TriesMade
  <2>1. /\ pc' = "edges" /\ at' = 1 /\ at > Len(method.tries)
        /\ g' = [g EXCEPT !.edges = {<<0, 1, "next">>}]
    BY <1>5 DEF TriesMade
  <2>2. InEdges(method, g', 1)
    BY <1>2, <2>1, EdgesBegin
  <2>3. MakingInv'
    BY <1>2, <1>3, <2>1, <2>2 DEF MakingInv
  <2> QED BY <1>3, <2>3 DEF InsnInv
<1> QED BY <1>4, <1>5

LEMMA EdgesKeeps ==
  ASSUME InsnInv, AddEdges \/ EdgesMade
  PROVE  InsnInv'
<1>1. /\ pc = "edges" /\ UNCHANGED <<file, m, graphs>> /\ pc \in Making /\ pc' \in Making
  BY DEF AddEdges, EdgesMade, Making
<1>2. IsMethod(method) /\ InEdges(method, g, at) /\ method.codeOff # 0
  BY <1>1, MethodFacts DEF InsnInv, MakingInv
<1>3. /\ GraphsInv' /\ FlowInv' /\ method' = method
      /\ m' \in 1 .. Len(file') /\ Len(graphs') = m' - 1
      /\ \A i \in 1 .. Len(graphs') : graphs'[i].flow = {}
  BY <1>1, StillMaking
<1>4. CASE AddEdges
  <2>1. /\ at \in Insns(g)
        /\ IF JumpsFound(method, g, at)
           THEN /\ g' = [g EXCEPT !.edges = @ \cup NextEdge(method, g, at) \cup ExitEdge(method, g, at)
                                              \cup JumpEdges(method, g, at)]
                /\ at' = at + 1 /\ pc' = pc
           ELSE pc' = "undefined"
    BY <1>4 DEF AddEdges, JumpsFound, NextEdge, ExitEdge, JumpEdges, OpAt
  <2>2. CASE JumpsFound(method, g, at)
    <3>1. g' = [g EXCEPT !.edges = @ \cup EdgesFrom(method, g, at)]
      BY <2>1, <2>2 DEF EdgesFrom
    <3>2. InEdges(method, g', at')
      BY <1>2, <2>1, <2>2, <3>1, EdgesAdded
    <3>3. MakingInv'
      BY <1>1, <1>2, <1>3, <2>1, <2>2, <3>2 DEF MakingInv
    <3> QED BY <1>3, <3>3 DEF InsnInv
  <2>3. CASE ~ JumpsFound(method, g, at)
    <3>1. pc' = "undefined"
      BY <2>1, <2>3
    <3>2. ~ Legal(method)
      <4>1. PICK t \in Targets(method.code, g.offs[at]) : Lookup(g, t[1]) = {}
        BY <2>3 DEF JumpsFound
      <4>2. Decoded(method, g)
        BY <1>2 DEF InEdges
      <4> QED BY <1>2, <2>1, <4>1, <4>2, JumpLeads
    <3>3. MakingInv'
      BY <1>3, <3>1, <3>2 DEF MakingInv
    <3> QED BY <1>3, <3>3 DEF InsnInv
  <2> QED BY <2>2, <2>3
<1>5. CASE EdgesMade
  <2>1. pc' \in {"debug", "made"} /\ g' = g /\ at \notin Insns(g)
    BY <1>5 DEF EdgesMade
  <2>2. Completed(method, g) /\ g.flow = {} /\ IsGraph(g)
    BY <1>2, <2>1, EdgesEnd DEF InEdges, Decoded
  <2>3. Finished(method, g)
    BY <1>2, <2>2 DEF Finished
  <2>4. MakingInv'
    BY <1>2, <1>3, <2>1, <2>2, <2>3 DEF MakingInv
  <2> QED BY <1>3, <2>4 DEF InsnInv
<1> QED BY <1>4, <1>5

LEMMA LineMarked ==
  ASSUME NEW mth, NEW gr, Completed(mth, gr), NEW address, NEW line,
         NEW hr, hr = [gr EXCEPT !.lines = Marked(gr, address, line)]
  PROVE  Completed(mth, hr) /\ IsGraph(hr) /\ hr.flow = gr.flow
<1>1. /\ hr.offs = gr.offs /\ hr.tries = gr.tries /\ hr.edges = gr.edges /\ hr.flow = gr.flow
      /\ hr.lines = Marked(gr, address, line) /\ IsGraph(hr)
  BY DEF Completed, Decoded, IsGraph
<1>2. DOMAIN hr.lines = Lookup(gr, address) \cup DOMAIN gr.lines
  BY <1>1 DEF Marked
<1>3. Lookup(gr, address) \subseteq Insns(gr) /\ DOMAIN gr.lines \subseteq Insns(gr)
  BY DEF Completed, Lookup
<1> QED BY <1>1, <1>2, <1>3, CompletedSame

LEMMA DebugKeeps ==
  ASSUME InsnInv, BeginDebug \/ Special \/ AdvancePc \/ AdvanceLine \/ OtherOp \/ EndDebug \/ ReadOn
  PROVE  InsnInv'
<1>1. /\ pc = "debug" /\ UNCHANGED <<file, m, graphs>> /\ pc \in Making
      /\ pc' \in {"debug", "made", "astray"} /\ pc' \in Making
  BY DEF BeginDebug, Special, AdvancePc, AdvanceLine, OtherOp, EndDebug, ReadOn, InDebug, Making
<1>2. Finished(method, g) /\ g.flow = {} /\ method.codeOff # 0
  BY <1>1 DEF InsnInv, MakingInv
<1>3. /\ GraphsInv' /\ FlowInv' /\ method' = method
      /\ m' \in 1 .. Len(file') /\ Len(graphs') = m' - 1
      /\ \A i \in 1 .. Len(graphs') : graphs'[i].flow = {}
  BY <1>1, StillMaking
<1>4. Finished(method, g') /\ g'.flow = {}
  <2>1. CASE Special
    <3>1. PICK line : line = (dbg.line + ((Op - 10) % 15) - 4) % Span
      OBVIOUS
    <3>2. PICK address : address = (dbg.address + (Op - 10) \div 15) % Span
      OBVIOUS
    <3>3. g' = [g EXCEPT !.lines = IF dbg.valid THEN Marked(g, address, line) ELSE @]
      BY <2>1, <3>1, <3>2 DEF Special
    <3>4. CASE dbg.valid
      <4>1. g' = [g EXCEPT !.lines = Marked(g, address, line)]
        BY <3>3, <3>4
      <4> QED BY <1>2, <4>1, LineMarked DEF Finished
    <3>5. CASE ~ dbg.valid
      <4>1. g' = g
        BY <1>2, <3>3, <3>5 DEF Finished, IsGraph
      <4> QED BY <1>2, <4>1
    <3> QED BY <3>4, <3>5
  <2>2. CASE BeginDebug \/ AdvancePc \/ AdvanceLine \/ OtherOp \/ EndDebug \/ ReadOn
    <3>1. g' = g
      BY <2>2 DEF BeginDebug, AdvancePc, AdvanceLine, OtherOp, EndDebug, ReadOn
    <3> QED BY <1>2, <3>1
  <2> QED BY <2>1, <2>2
<1>5. MakingInv'
  BY <1>1, <1>2, <1>3, <1>4 DEF MakingInv
<1> QED BY <1>3, <1>5 DEF InsnInv

Updated(s, n, x) == [s EXCEPT ![n] = x]

LEMMA ListUpdate ==
  ASSUME NEW s, IsList(s), NEW n, n \in 1 .. Len(s), NEW x, NEW u, u = Updated(s, n, x)
  PROVE  /\ IsList(u) /\ Len(u) = Len(s) /\ u[n] = x
         /\ \A k \in 1 .. Len(s) : k # n => u[k] = s[k]
<1>1. PICK S : s \in Seq(S)
  BY DEF IsList
<1>2. s \in Seq(S \cup {x}) /\ DOMAIN s = 1 .. Len(s)
  BY <1>1, LenProperties, SeqDef
<1>3. u \in Seq(S \cup {x}) /\ Len(u) = Len(s)
  BY <1>2, ExceptSeq DEF Updated
<1> QED BY <1>2, <1>3 DEF IsList, Updated

LEMMA FlowSame ==
  ASSUME NEW mth, NEW gr, NEW hr, hr.offs = gr.offs, hr.tries = gr.tries
  PROVE  FlowOf(mth, hr) = FlowOf(mth, gr)
<1>1. \A v : ThrowsAt(mth, gr, v) = ThrowsAt(mth, hr, v)
  BY DEF ThrowsAt
<1>2. \A t : Guards(mth, gr, t) = Guards(mth, hr, t)
  BY <1>1 DEF Guards
<1>3. Insns(gr) = Insns(hr) /\ Exit(gr) = Exit(hr)
  BY LookupSame
<1> QED BY <1>1, <1>2, <1>3 DEF FlowOf

LEMMA NextMethodKeeps ==
  ASSUME InsnInv, NextMethod
  PROVE  InsnInv'
<1>1. /\ pc = "made" /\ file' = file /\ graphs' = Append(graphs, g) /\ g' = EmptyGraph /\ at' = 0
      /\ IF m < Len(file) THEN m' = m + 1 /\ pc' = "decode" ELSE m' = 1 /\ pc' = "flow"
  BY DEF NextMethod
<1>2. /\ m \in 1 .. Len(file) /\ Len(graphs) = m - 1 /\ \A i \in 1 .. Len(graphs) : graphs[i].flow = {}
      /\ Finished(file[m], g) /\ g.flow = {}
  BY <1>1 DEF InsnInv, MakingInv, Making, method
<1>3. /\ file \in Files /\ IsList(graphs) /\ \A i \in 1 .. Len(graphs) : Finished(file[i], graphs[i])
  BY DEF InsnInv, GraphsInv
<1>4. Len(file) \in Nat \ {0} /\ \A i \in 1 .. Len(file) : IsMethod(file[i])
  BY <1>3, FileFacts
<1>5. /\ IsList(graphs') /\ Len(graphs') = m
      /\ \A i \in 1 .. m - 1 : graphs'[i] = graphs[i]
      /\ graphs'[m] = g
  BY <1>1, <1>2, <1>3, <1>4, ListAppend
<1>6. \A i \in 1 .. m : i = m \/ i \in 1 .. m - 1
  BY <1>2, <1>4
<1>7. \A i \in 1 .. m : Finished(file[i], graphs'[i]) /\ graphs'[i].flow = {}
  BY <1>2, <1>3, <1>5, <1>6
<1>8. GraphsInv'
  BY <1>1, <1>2, <1>3, <1>4, <1>5, <1>7 DEF GraphsInv, Making
<1>9. CASE m < Len(file)
  <2>1. m' = m + 1 /\ pc' = "decode" /\ m + 1 \in 1 .. Len(file) /\ m = (m + 1) - 1
    BY <1>1, <1>2, <1>4, <1>9
  <2>2. Decoding(file[m + 1], EmptyGraph, 0)
    BY <1>4, <2>1, DecodingBegins
  <2>3. Decoding(method', g', at') /\ g' = EmptyGraph
    BY <1>1, <2>1, <2>2 DEF method
  <2>4. MakingInv'
    BY <1>1, <1>5, <1>7, <2>1, <2>3 DEF MakingInv
  <2>5. FlowInv'
    BY <2>1 DEF FlowInv, Later
  <2> QED BY <1>8, <2>4, <2>5 DEF InsnInv
<1>10. CASE ~ (m < Len(file))
  <2>1. m' = 1 /\ pc' = "flow" /\ m = Len(file)
    BY <1>1, <1>2, <1>4, <1>10
  <2>2. MakingInv'
    BY <2>1 DEF MakingInv, Making
  <2>3. \A i \in 1 .. m : ~ (i < 1)
    BY <1>2, <1>4
  <2>4. /\ m' \in 1 .. Len(file') /\ Len(graphs') = Len(file')
        /\ \A i \in 1 .. Len(graphs') : ~ (i < m') /\ graphs'[i].flow = {}
    BY <1>1, <1>4, <1>5, <1>7, <2>1, <2>3
  <2>5. FlowInv'
    BY <2>1, <2>4 DEF FlowInv, Later
  <2> QED BY <1>8, <2>2, <2>5 DEF InsnInv
<1> QED BY <1>9, <1>10

LEMMA FinishedFlow ==
  ASSUME NEW mth, NEW gr, Finished(mth, gr), NEW F, NEW hr, hr = [gr EXCEPT !.flow = F]
  PROVE  Finished(mth, hr) /\ hr.flow = F /\ FlowOf(mth, hr) = FlowOf(mth, gr)
<1>1. /\ hr.offs = gr.offs /\ hr.tries = gr.tries /\ hr.edges = gr.edges /\ hr.lines = gr.lines
      /\ hr.flow = F /\ IsGraph(hr)
  BY DEF Finished, IsGraph
<1>2. mth.codeOff # 0 => DOMAIN gr.lines \subseteq Insns(gr)
  BY DEF Finished, Completed
<1>3. mth.codeOff # 0 => Completed(mth, hr)
  BY <1>1, <1>2, CompletedSame DEF Finished
<1> QED BY <1>1, <1>3, FlowSame DEF Finished

LEMMA NoFlow ==
  ASSUME NEW mth, NEW gr, Finished(mth, gr), mth.codeOff = 0
  PROVE  FlowOf(mth, gr) = {}
<1>1. gr.offs = <<>> /\ gr.tries = <<>>
  BY DEF Finished
<1>2. Insns(gr) = {} /\ Range(gr.tries) = {}
  BY <1>1 DEF Insns, Range
<1> QED BY <1>2 DEF FlowOf

LEMMA FlowKeeps ==
  ASSUME InsnInv, AddExceptionFlow
  PROVE  InsnInv'
<1>1. /\ pc = "flow" /\ file' = file
      /\ IF m < Len(file) THEN m' = m + 1 /\ pc' = pc ELSE pc' = "done" /\ m' = m
  BY DEF AddExceptionFlow
<1>2. PICK n : n = m
  OBVIOUS
<1>3. PICK gr : gr = graphs[n]
  OBVIOUS
<1>4. PICK F : F = FlowOf(file[n], gr)
  OBVIOUS
<1>5. graphs' = [graphs EXCEPT ![n] = [gr EXCEPT !.flow = F]]
  <2>1. \A v : Throws(n, v) <=> ThrowsAt(file[n], gr, v)
    BY <1>3 DEF Throws, ThrowsAt
  <2> DEFINE handled == UNION {{v \in t.first .. t.last : Throws(n, v)} \X t.handlers : t \in Range(gr.tries)}
  <2>2. handled = UNION {Guards(file[n], gr, t) : t \in Range(gr.tries)}
    BY <2>1 DEF Guards
  <2>3. handled \cup ({v \in Insns(gr) : Throws(n, v)} \X {Exit(gr)}) = F
    BY <1>4, <2>1, <2>2 DEF FlowOf
  <2>4. graphs' = [graphs EXCEPT ![n].flow = handled \cup ({v \in Insns(gr) : Throws(n, v)} \X {Exit(gr)})]
    BY <1>2, <1>3 DEF AddExceptionFlow
  <2> HIDE DEF handled
  <2> QED BY <1>3, <2>3, <2>4
<1>6. /\ n \in 1 .. Len(file) /\ Len(graphs) = Len(file)
      /\ \A i \in 1 .. Len(graphs) :
           graphs[i].flow = IF i < n /\ file[i].codeOff # 0 THEN FlowOf(file[i], graphs[i]) ELSE {}
  BY <1>1, <1>2 DEF InsnInv, FlowInv
<1>7. /\ file \in Files /\ IsList(graphs) /\ \A i \in 1 .. Len(graphs) : Finished(file[i], graphs[i])
  BY DEF InsnInv, GraphsInv
<1>8. Len(file) \in Nat \ {0}
  BY <1>7, FileFacts
<1>9. PICK hr : hr = [gr EXCEPT !.flow = F]
  OBVIOUS
<1>10. /\ IsList(graphs') /\ Len(graphs') = Len(file) /\ graphs'[n] = hr
       /\ \A k \in 1 .. Len(file) : k # n => graphs'[k] = graphs[k]
  <2>1. graphs' = Updated(graphs, n, hr)
    BY <1>5, <1>9 DEF Updated
  <2>2. IsList(graphs) /\ n \in 1 .. Len(graphs)
    BY <1>6, <1>7
  <2>3. /\ IsList(graphs') /\ Len(graphs') = Len(graphs) /\ graphs'[n] = hr
        /\ \A k \in 1 .. Len(graphs) : k # n => graphs'[k] = graphs[k]
    BY <2>1, <2>2, ListUpdate
  <2> QED BY <1>6, <2>3
<1>11. Finished(file[n], hr) /\ hr.flow = F /\ FlowOf(file[n], hr) = F
  <2>1. Finished(file[n], gr)
    BY <1>3, <1>6, <1>7
  <2> QED BY <1>4, <1>9, <2>1, FinishedFlow
<1>12. file[n].codeOff = 0 => F = {}
  BY <1>3, <1>4, <1>6, <1>7, NoFlow
<1>13. \A i \in 1 .. Len(file) : Finished(file[i], graphs'[i])
  BY <1>6, <1>7, <1>10, <1>11
<1>14. \A i \in 1 .. Len(file) :
         graphs'[i].flow = IF i <= n /\ file[i].codeOff # 0 THEN FlowOf(file[i], graphs'[i]) ELSE {}
  <2>1. ASSUME NEW i \in 1 .. Len(file)
        PROVE  graphs'[i].flow = IF i <= n /\ file[i].codeOff # 0 THEN FlowOf(file[i], graphs'[i]) ELSE {}
    <3>1. CASE i = n
      <4>1. n <= n
        BY <1>6, <1>8
      <4>2. graphs'[n].flow = F /\ FlowOf(file[n], graphs'[n]) = F
        BY <1>10, <1>11
      <4>3. F = IF file[n].codeOff # 0 THEN FlowOf(file[n], graphs'[n]) ELSE {}
        BY <1>12, <4>2
      <4> QED BY <3>1, <4>1, <4>2, <4>3
    <3>2. CASE i # n
      <4>1. i <= n <=> i < n
        BY <1>6, <1>8, <3>2
      <4> QED BY <1>6, <1>10, <3>2, <4>1
    <3> QED BY <3>1, <3>2
  <2> QED BY <2>1
<1>15. GraphsInv'
  BY <1>1, <1>7, <1>8, <1>10, <1>13 DEF GraphsInv, Later
<1>16. MakingInv'
  BY <1>1 DEF MakingInv, Making
<1>17. CASE m < Len(file)
  <2>1. m' = n + 1 /\ pc' = "flow" /\ n + 1 \in 1 .. Len(file)
    BY <1>1, <1>2, <1>6, <1>8, <1>17
  <2>2. \A i \in 1 .. Len(file) : i <= n <=> i < n + 1
    BY <1>6, <1>8
  <2>3. FlowInv'
    BY <1>1, <1>10, <1>14, <2>1, <2>2 DEF FlowInv, Later
  <2> QED BY <1>15, <1>16, <2>3 DEF InsnInv
<1>18. CASE ~ (m < Len(file))
  <2>1. pc' = "done" /\ n = Len(file)
    BY <1>1, <1>2, <1>6, <1>8, <1>18
  <2>2. \A i \in 1 .. Len(file) : i <= n
    BY <1>8, <2>1
  <2>3. FlowInv'
    BY <1>1, <1>10, <1>14, <2>1, <2>2 DEF FlowInv, Later
  <2> QED BY <1>15, <1>16, <2>3 DEF InsnInv
<1> QED BY <1>17, <1>18

LEMMA LaterKeeps ==
  ASSUME InsnInv, BeginExploded \/ SkipMethod \/ LayInsn \/ LocalEdges \/ AddCall \/ CallsAdded
  PROVE  InsnInv'
<1>1. /\ pc \in Later /\ file' = file /\ graphs' = graphs
  BY DEF BeginExploded, SkipMethod, LayInsn, LocalEdges, AddCall, CallsAdded, Later
<1>2. pc' \in Later
  BY <1>1 DEF BeginExploded, SkipMethod, LayInsn, LocalEdges, AddCall, CallsAdded, NextExploded, Later
<1>3. GraphsInv'
  BY <1>1, <1>2 DEF InsnInv, GraphsInv
<1>4. MakingInv'
  BY <1>2 DEF MakingInv, Making, Later
<1>5. FlowInv'
  BY <1>1, <1>2 DEF InsnInv, FlowInv, Later
<1> QED BY <1>3, <1>4, <1>5 DEF InsnInv

LEMMA InsnSpec == ESpec => []InsnInv
<1>1. EInit => InsnInv
  BY InsnStart
<1>2. ASSUME InsnInv, [ENext]_evars
      PROVE  InsnInv'
  <2>1. CASE Next
    <3>1. CASE NoCode \/ SkipPayload \/ AddVertex \/ AddGarbage \/ VerticesMade
      BY <1>2, <3>1, DecodeKeeps
    <3>2. CASE AddTry \/ TriesMade
      BY <1>2, <3>2, TriesKeeps
    <3>3. CASE AddEdges \/ EdgesMade
      BY <1>2, <3>3, EdgesKeeps
    <3>4. CASE BeginDebug \/ Special \/ AdvancePc \/ AdvanceLine \/ OtherOp \/ EndDebug \/ ReadOn
      BY <1>2, <3>4, DebugKeeps
    <3>5. CASE NextMethod
      BY <1>2, <3>5, NextMethodKeeps
    <3>6. CASE AddExceptionFlow
      BY <1>2, <3>6, FlowKeeps
    <3> QED BY <2>1, <3>1, <3>2, <3>3, <3>4, <3>5, <3>6 DEF Next
  <2>2. CASE BeginExploded \/ SkipMethod \/ LayInsn \/ LocalEdges \/ AddCall \/ CallsAdded
    BY <1>2, <2>2, LaterKeeps
  <2>3. CASE UNCHANGED evars
    BY <1>2, <2>3 DEF evars, vars, InsnInv, GraphsInv, MakingInv, FlowInv, method
  <2> QED BY <1>2, <2>1, <2>2, <2>3 DEF ENext
<1> QED BY <1>1, <1>2, PTL DEF ESpec

-----------------------------------------------------------------------------
(* The properties.                                                         *)
LEMMA GraphList ==
  ASSUME InsnInv
  PROVE  /\ DOMAIN graphs = 1 .. Len(graphs)
         /\ \A i \in DOMAIN graphs :
              /\ i \in DOMAIN file /\ IsMethod(file[i]) /\ Finished(file[i], graphs[i])
              /\ graphs[i].flow = {} \/ (file[i].codeOff # 0 /\ graphs[i].flow = FlowOf(file[i], graphs[i]))
<1>1. /\ file \in Files /\ IsList(graphs) /\ Len(graphs) <= Len(file)
      /\ \A i \in 1 .. Len(graphs) : Finished(file[i], graphs[i])
  BY DEF InsnInv, GraphsInv
<1>2. DOMAIN graphs = 1 .. Len(graphs) /\ Len(graphs) \in Nat
  BY <1>1, LenProperties DEF IsList
<1>3. /\ Len(file) \in Nat /\ DOMAIN file = 1 .. Len(file)
      /\ \A i \in 1 .. Len(file) : IsMethod(file[i])
  BY <1>1, FileFacts
<1>4. \A i \in 1 .. Len(graphs) :
        graphs[i].flow = {} \/ (file[i].codeOff # 0 /\ graphs[i].flow = FlowOf(file[i], graphs[i]))
  <2>1. CASE pc \in Making
    BY <2>1 DEF InsnInv, MakingInv
  <2>2. CASE pc = "flow"
    BY <2>2 DEF InsnInv, FlowInv
  <2>3. CASE pc \in Later
    BY <2>3 DEF InsnInv, FlowInv
  <2> QED BY <2>1, <2>2, <2>3 DEF InsnInv, GraphsInv
<1> QED BY <1>1, <1>2, <1>3, <1>4

LEMMA ShapeHolds ==
  ASSUME NEW mth, IsMethod(mth), NEW gr, Finished(mth, gr),
         gr.flow = {} \/ (mth.codeOff # 0 /\ gr.flow = FlowOf(mth, gr))
  PROVE  GraphShape(gr)
<1>1. CASE mth.codeOff = 0
  <2>1. gr.offs = <<>> /\ gr.tries = <<>> /\ gr.edges = {} /\ gr.lines = <<>> /\ gr.flow = {}
    BY <1>1 DEF Finished
  <2>2. Insns(gr) = {} /\ Range(gr.tries) = {} /\ DOMAIN gr.lines = {}
    BY <2>1 DEF Insns, Range
  <2> QED BY <2>1, <2>2 DEF GraphShape
<1>2. CASE mth.codeOff # 0
  <2>1. Completed(mth, gr) /\ Rising(gr.offs)
    BY <1>2 DEF Finished, Completed, Decoded
  <2>2. \A v, w \in Insns(gr) : v < w => gr.offs[v] < gr.offs[w]
    BY <2>1 DEF Rising, Insns
  <2>3. \A t \in Range(gr.tries) : {t.first, t.last} \cup t.handlers \subseteq Insns(gr)
    BY <2>1, TryOrigin DEF TryOf
  <2>4. \A e \in gr.edges : {e[1], e[2]} \subseteq 0 .. Exit(gr)
    <3>1. PICK n : n = Len(gr.offs)
      OBVIOUS
    <3>2. n \in Nat /\ n <= Len(gr.offs) /\ EdgesUpTo(mth, gr, n)
      BY <2>1, <3>1, RisingPlaces DEF Completed
    <3> QED BY <2>1, <3>2, EdgesWithin
  <2>5. gr.flow \subseteq Insns(gr) \X (1 .. Exit(gr))
    BY <2>1, FlowShape
  <2>6. DOMAIN gr.lines \subseteq Insns(gr)
    BY <2>1 DEF Completed
  <2> QED BY <2>2, <2>3, <2>4, <2>5, <2>6 DEF GraphShape
<1> QED BY <1>1, <1>2

LEMMA Faithful == InsnInv => GraphFaithful
<1> SUFFICES ASSUME InsnInv PROVE GraphFaithful
  OBVIOUS
<1>1. pc = "undefined" => ~ Legal(method)
  BY DEF InsnInv, MakingInv, Making
<1>2. \A i \in DOMAIN graphs : GraphShape(graphs[i])
  BY GraphList, ShapeHolds
<1> DEFINE known == {i \in DOMAIN graphs : Legal(file[i]) /\ file[i].codeOff # 0}
           Shown(gr, mth, v) ==
             /\ {IF e[2] = Exit(gr) THEN EndOf(mth) ELSE gr.offs[e[2]] : e \in {d \in gr.edges : d[1] = v}}
                  = Follows(mth, gr.offs[v])
             /\ mth.code[gr.offs[v]].op \in SwitchOps =>
                  LET table == mth.code[gr.offs[v] + mth.code[gr.offs[v]].to] IN
                  \A k \in DOMAIN table.targets : \E e \in gr.edges :
                    /\ e[1] = v /\ gr.offs[e[2]] = gr.offs[v] + table.targets[k]
                    /\ e[3] = table.keys[k] \/ e[2] = v + 1
           AllShown(gr, mth) ==
             /\ {e \in gr.edges : e[1] = 0} = {<<0, 1, "next">>}
             /\ Reachable(mth) \subseteq Range(gr.offs)
             /\ \A v \in {w \in Insns(gr) : gr.offs[w] \in Reachable(mth)} : Shown(gr, mth, v)
<1>3. ASSUME NEW i \in known, NEW gr, gr = graphs[i], NEW mth, mth = file[i]
      PROVE  AllShown(gr, mth)
  <2>1. IsMethod(mth) /\ Legal(mth) /\ Completed(mth, gr)
    BY <1>3, GraphList DEF Finished
  <2>2. {e \in gr.edges : e[1] = 0} = {<<0, 1, "next">>}
    <3>1. Len(gr.offs) \in Nat /\ EdgesUpTo(mth, gr, Len(gr.offs))
      BY <2>1, RisingPlaces DEF Completed, Decoded
    <3> QED BY <3>1, EdgesOfVertex
  <2>3. Reachable(mth) \subseteq Range(gr.offs)
    BY <2>1, ReachableClosed DEF Completed, Decoded
  <2>4. ASSUME NEW v \in Insns(gr), gr.offs[v] \in Reachable(mth)
        PROVE  Shown(gr, mth, v)
    <3>1. {IF e[2] = Exit(gr) THEN EndOf(mth) ELSE gr.offs[e[2]] : e \in {d \in gr.edges : d[1] = v}}
            = Follows(mth, gr.offs[v])
      BY <2>1, <2>4, VertexFaithful DEF Place1
    <3>2. ASSUME mth.code[gr.offs[v]].op \in SwitchOps,
                 NEW table, table = mth.code[gr.offs[v] + mth.code[gr.offs[v]].to],
                 NEW k \in DOMAIN table.targets
          PROVE  \E e \in gr.edges :
                   /\ e[1] = v /\ gr.offs[e[2]] = gr.offs[v] + table.targets[k]
                   /\ e[3] = table.keys[k] \/ e[2] = v + 1
      <4>1. PICK o : o = gr.offs[v]
        OBVIOUS
      <4>2. mth.code[o].op \in SwitchOps /\ table = mth.code[o + mth.code[o].to]
        BY <3>2, <4>1
      <4> QED BY <2>1, <2>4, <3>2, <4>1, <4>2, CasesLabelled
    <3> QED BY <3>1, <3>2
  <2> HIDE DEF Shown
  <2> QED BY <2>2, <2>3, <2>4
<1>4. \A i \in known : AllShown(graphs[i], file[i])
  <2> HIDE DEF AllShown
  <2> QED BY <1>3
<1> QED BY <1>1, <1>2, <1>4 DEF GraphFaithful

LEMMA AllMade ==
  ASSUME InsnInv, pc = "done"
  PROVE  /\ DOMAIN graphs = DOMAIN file
         /\ \A i \in DOMAIN file :
              /\ IsMethod(file[i]) /\ Finished(file[i], graphs[i])
              /\ file[i].codeOff = 0 => Insns(graphs[i]) = {}
              /\ file[i].codeOff # 0 => /\ Completed(file[i], graphs[i])
                                        /\ graphs[i].flow = FlowOf(file[i], graphs[i])
<1>1. /\ Len(graphs) = Len(file)
      /\ \A i \in 1 .. Len(graphs) :
           graphs[i].flow = IF file[i].codeOff # 0 THEN FlowOf(file[i], graphs[i]) ELSE {}
  BY DEF InsnInv, FlowInv, Later
<1>2. DOMAIN graphs = DOMAIN file /\ DOMAIN graphs = 1 .. Len(graphs)
  BY <1>1, GraphList, FileFacts DEF InsnInv, GraphsInv
<1>3. \A i \in DOMAIN file : IsMethod(file[i]) /\ Finished(file[i], graphs[i])
  BY <1>2, GraphList
<1>4. \A i \in DOMAIN file : file[i].codeOff = 0 => Insns(graphs[i]) = {}
  BY <1>3 DEF Finished, Insns
<1> QED BY <1>1, <1>2, <1>3, <1>4 DEF Finished

LEMMA HandlersHold == InsnInv => HandlersFaithful
<1> SUFFICES ASSUME InsnInv, pc = "done" PROVE HandlersFaithful
  BY DEF HandlersFaithful
<1> DEFINE Guarded(gr, mth) ==
             \A v \in Insns(gr) :
               LET covering == {t \in Range(mth.tries) : gr.offs[v] \in t.start .. t.start + t.count - 1}
                   to == {IF w = Exit(gr) THEN EndOf(mth) ELSE gr.offs[w] : w \in {x \in 1 .. Exit(gr) : <<v, x>> \in gr.flow}}
               IN  to = IF mth.code[gr.offs[v]].op \in {"invoke", "throw"}
                        THEN {EndOf(mth)} \cup UNION {Range(t.list) : t \in covering} ELSE {}
<1>1. ASSUME NEW i \in DOMAIN file, Legal(file[i]), NEW gr, gr = graphs[i], NEW mth, mth = file[i]
      PROVE  Guarded(gr, mth)
  <2>1. CASE mth.codeOff = 0
    <3>1. Insns(gr) = {}
      BY <1>1, <2>1, AllMade
    <3> QED BY <3>1
  <2>2. CASE mth.codeOff # 0
    <3>1. IsMethod(mth) /\ Legal(mth) /\ Completed(mth, gr) /\ gr.flow = FlowOf(mth, gr)
      BY <1>1, <2>2, AllMade
    <3> QED BY <3>1, FlowFaithful
  <2> QED BY <2>1, <2>2
<1>2. \A i \in {j \in DOMAIN file : Legal(file[j])} : Guarded(graphs[i], file[i])
  <2> HIDE DEF Guarded
  <2> QED BY <1>1
<1> QED BY <1>2 DEF HandlersFaithful

-----------------------------------------------------------------------------
(* From a place in the file to an instruction.                             *)

(* The method found is one of those whose code begins last before a place. *)
LEMMA MethodFound ==
  ASSUME file \in Files, NEW b \in Nat
  PROVE  \/ MethodAt(b) = {} /\ \A i \in DOMAIN file : file[i].codeOff # 0 => b < file[i].codeOff
         \/ \E i \in DOMAIN file :
              /\ MethodAt(b) = {i} /\ file[i].codeOff # 0 /\ file[i].codeOff <= b
              /\ \A j \in DOMAIN file : file[j].codeOff # 0 /\ file[j].codeOff <= b
                                          => file[j].codeOff <= file[i].codeOff
<1> DEFINE before == {i \in DOMAIN file : file[i].codeOff # 0 /\ file[i].codeOff <= b}
           found  == {i \in before : \A j \in before : file[j].codeOff <= file[i].codeOff}
<1>1. /\ Len(file) \in Nat /\ DOMAIN file = 1 .. Len(file)
      /\ \A i \in DOMAIN file : file[i].codeOff \in Nat
  BY FileFacts DEF IsMethod
<1>2. MethodAt(b) = {i \in found : \A j \in found : j <= i}
  BY DEF MethodAt
<1>3. CASE before = {}
  BY <1>1, <1>2, <1>3
<1>4. CASE before # {}
  <2> DEFINE places == {file[i].codeOff : i \in before}
  <2>1. places \subseteq Nat /\ places # {} /\ \A p \in places : p <= b
    BY <1>1, <1>4
  <2>2. PICK p \in places : \A q \in places : p >= q
    <3> HIDE DEF places
    <3> QED BY <2>1, HasGreatest
  <2>3. found # {} /\ found \subseteq Nat /\ \A i \in found : i <= Len(file)
    <3>1. PICK i \in before : file[i].codeOff = p
      BY <2>2
    <3>2. \A j \in before : file[j].codeOff \in Nat /\ file[j].codeOff <= file[i].codeOff
      BY <1>1, <2>2, <3>1
    <3>3. i \in found
      BY <3>1, <3>2
    <3> QED BY <1>1, <3>3
  <2>4. PICK i \in found : \A j \in found : i >= j
    <3> HIDE DEF found
    <3> QED BY <1>1, <2>3, HasGreatest
  <2>5. MethodAt(b) = {i}
    <3>1. \A j \in found : j \in Nat
      BY <2>3
    <3> HIDE DEF found
    <3> QED BY <1>2, <2>4, <3>1
  <2>6. \A j \in before : file[j].codeOff <= file[i].codeOff
    BY <2>4
  <2> QED BY <2>4, <2>5, <2>6
<1> QED BY <1>3, <1>4

(* Half the distance to an instruction is its offset, if the place is one  *)
(* of its two bytes.                                                       *)
LEMMA TwoBytes ==
  ASSUME NEW d \in Int, NEW o \in Nat
  PROVE  /\ d \in {2 * o, 2 * o + 1} => d >= 0 /\ d \div 2 = o
         /\ d >= 0 /\ d \div 2 = o => d \in {2 * o, 2 * o + 1}
  OBVIOUS

LEMMA LookupExact ==
  ASSUME NEW mth, IsMethod(mth), Legal(mth), NEW gr, Completed(mth, gr), NEW off \in Nat, off < mth.size
  PROVE  /\ Lookup(gr, off) = {v \in Insns(gr) : gr.offs[v] = off}
         /\ \A v, w \in Lookup(gr, off) : v = w
         /\ off \in Instructions(mth) => Lookup(gr, off) # {}
<1>1. mth.size \in Nat /\ mth.size <= Span /\ Span \in Nat
  BY LegalRow, SpanAssumption
<1>2. off % Span = off
  BY <1>1
<1>3. Rising(gr.offs) /\ Decoded(mth, gr)
  BY DEF Completed, Decoded
<1>4. Lookup(gr, off) = {v \in Insns(gr) : gr.offs[v] = off}
  BY <1>2 DEF Lookup
<1>5. \A v, w \in Insns(gr) : gr.offs[v] = gr.offs[w] => v = w
  BY <1>3, RisingPlaces DEF Insns
<1>6. off \in Instructions(mth) => Lookup(gr, off) # {}
  BY <1>3, InsnLookup
<1> QED BY <1>4, <1>5, <1>6

(* What find_insn finds in the method it has come to.                      *)
FoundIn(i, b) ==
  LET off == (b - file[i].codeOff - HeaderSize) \div 2
  IN  IF b >= file[i].codeOff + HeaderSize /\ off < file[i].size
      THEN {<<i, v>> : v \in Lookup(graphs[i], off)} ELSE {}
(* The instructions of a method whose first code unit has a byte at b.     *)
Beginning(i, b) ==
  {<<i, v>> : v \in {w \in Insns(graphs[i]) :
     b - file[i].codeOff - HeaderSize \in {2 * graphs[i].offs[w], 2 * graphs[i].offs[w] + 1}}}
There(b) == UNION {Beginning(i, b) : i \in DOMAIN file}

LEMMA FoundBegins ==
  ASSUME InsnInv, pc = "done", NEW b \in Nat,
         NEW i \in DOMAIN file, file[i].codeOff # 0, Legal(file[i])
  PROVE  /\ FoundIn(i, b) = Beginning(i, b)
         /\ \A x, y \in FoundIn(i, b) : x = y
         /\ \A x \in Beginning(i, b) : \E o \in Instructions(file[i]) :
              b - file[i].codeOff - HeaderSize \in {2 * o, 2 * o + 1}
         /\ (\E o \in Instructions(file[i]) : b - file[i].codeOff - HeaderSize \in {2 * o, 2 * o + 1})
              => FoundIn(i, b) # {}
<1>1. PICK mth : mth = file[i]
  OBVIOUS
<1>2. PICK gr : gr = graphs[i]
  OBVIOUS
<1>3. IsMethod(mth) /\ Legal(mth) /\ Completed(mth, gr)
  BY <1>1, <1>2, AllMade
<1>4. PICK d : d = b - mth.codeOff - HeaderSize
  OBVIOUS
<1>5. d \in Int /\ (d >= 0 <=> b >= mth.codeOff + HeaderSize) /\ d \div 2 \in Int /\ (d >= 0 => d \div 2 \in Nat)
  BY <1>3, <1>4 DEF IsMethod, HeaderSize
<1>6. PICK off : off = d \div 2
  OBVIOUS
<1>7. FoundIn(i, b) = IF d >= 0 /\ off < mth.size THEN {<<i, v>> : v \in Lookup(gr, off)} ELSE {}
  BY <1>1, <1>2, <1>4, <1>5, <1>6 DEF FoundIn
<1>8. Beginning(i, b) = {<<i, v>> : v \in {w \in Insns(gr) : d \in {2 * gr.offs[w], 2 * gr.offs[w] + 1}}}
  BY <1>1, <1>2, <1>4 DEF Beginning
<1>9. \A o \in Instructions(mth) : o \in Nat /\ o < mth.size
  BY <1>3, LegalRow DEF Instructions
<1>10. \A w \in Insns(gr) : gr.offs[w] \in Instructions(mth)
  BY <1>3 DEF Completed, Decoded
<1>11. \A o \in Instructions(mth) : d \in {2 * o, 2 * o + 1} <=> d >= 0 /\ off = o
  BY <1>5, <1>6, <1>9, TwoBytes
<1>12. d >= 0 /\ off < mth.size =>
         /\ Lookup(gr, off) = {v \in Insns(gr) : gr.offs[v] = off}
         /\ \A v, w \in Lookup(gr, off) : v = w
         /\ off \in Instructions(mth) => Lookup(gr, off) # {}
  BY <1>3, <1>5, <1>6, LookupExact
<1>13. FoundIn(i, b) = Beginning(i, b)
  <2>1. CASE d >= 0 /\ off < mth.size
    <3>1. {w \in Insns(gr) : d \in {2 * gr.offs[w], 2 * gr.offs[w] + 1}} = Lookup(gr, off)
      BY <1>10, <1>11, <1>12, <2>1
    <3> QED BY <1>7, <1>8, <2>1, <3>1
  <2>2. CASE ~ (d >= 0 /\ off < mth.size)
    <3>1. \A w \in Insns(gr) : ~ (d >= 0 /\ off = gr.offs[w])
      BY <1>9, <1>10, <2>2
    <3>2. {w \in Insns(gr) : d \in {2 * gr.offs[w], 2 * gr.offs[w] + 1}} = {}
      BY <1>10, <1>11, <3>1
    <3> QED BY <1>7, <1>8, <2>2, <3>2
  <2> QED BY <2>1, <2>2
<1>14. \A x, y \in FoundIn(i, b) : x = y
  BY <1>7, <1>12
<1>15. \A x \in Beginning(i, b) : \E o \in Instructions(mth) : d \in {2 * o, 2 * o + 1}
  BY <1>8, <1>10
<1>16. (\E o \in Instructions(mth) : d \in {2 * o, 2 * o + 1}) => FoundIn(i, b) # {}
  <2>1. ASSUME NEW o \in Instructions(mth), d \in {2 * o, 2 * o + 1}
        PROVE  FoundIn(i, b) # {}
    <3>1. d >= 0 /\ off = o /\ off < mth.size
      BY <1>9, <1>11, <2>1
    <3>2. Lookup(gr, off) # {}
      BY <1>12, <2>1, <3>1
    <3>3. FoundIn(i, b) = {<<i, v>> : v \in Lookup(gr, off)}
      BY <1>7, <3>1
    <3> QED BY <3>2, <3>3
  <2> QED BY <2>1
<1> QED BY <1>1, <1>4, <1>13, <1>14, <1>15, <1>16

(* The code of another method that a place is in is that of the method     *)
(* found.                                                                  *)
LEMMA SameCode ==
  ASSUME file \in Files, NEW b \in Nat, NEW i \in DOMAIN file, NEW j \in DOMAIN file,
         file[i].codeOff # 0, file[j].codeOff # 0, Legal(file[j]),
         file[j].codeOff <= b => file[j].codeOff <= file[i].codeOff, file[i].codeOff <= b,
         NEW o \in Instructions(file[j]), b - file[j].codeOff - HeaderSize \in {2 * o, 2 * o + 1}
  PROVE  o \in Instructions(file[i]) /\ file[i].codeOff = file[j].codeOff
<1>1. /\ file[i].codeOff \in Nat /\ file[j].codeOff \in Nat /\ IsMethod(file[j])
      /\ file[i].size \in Nat /\ file[j].size \in Nat
  BY FileFacts DEF IsMethod
<1>2. o \in Nat /\ o < file[j].size
  BY <1>1, LegalRow DEF Instructions
<1>3. PICK c, e : c = file[i].codeOff /\ e = file[j].codeOff
  OBVIOUS
<1>4. PICK p, q : p = file[i].size /\ q = file[j].size
  OBVIOUS
<1>5. c \in Nat /\ e \in Nat /\ p \in Nat /\ q \in Nat /\ c <= b /\ (e <= b => e <= c) /\ o < q
  BY <1>1, <1>2, <1>3, <1>4
<1>6. b - e - 16 = 2 * o \/ b - e - 16 = 2 * o + 1
  BY <1>3 DEF HeaderSize
<1>7. e <= b /\ e <= c /\ b < e + 16 + 2 * q
  BY <1>2, <1>5, <1>6
<1>8. ~ (c + 16 + 2 * p <= e) /\ ~ (e + 16 + 2 * q <= c)
  BY <1>5, <1>7
<1>9. \/ c = e /\ file[i].code = file[j].code
      \/ c + 16 + 2 * p <= e
      \/ e + 16 + 2 * q <= c
  BY <1>3, <1>4, ApartAssumption
<1> QED BY <1>3, <1>8, <1>9 DEF Instructions

LEMMA OneFound ==
  ASSUME InsnInv, pc = "done", \A i \in DOMAIN file : file[i].codeOff # 0 => Legal(file[i]), NEW b \in Nat
  PROVE  FindInsn(b) \subseteq There(b) /\ Cardinality(FindInsn(b)) = (IF There(b) = {} THEN 0 ELSE 1)
<1>1. file \in Files /\ \A i \in DOMAIN file : file[i].codeOff \in Nat
  BY AllMade DEF InsnInv, GraphsInv, IsMethod
<1>2. FindInsn(b) = UNION {FoundIn(i, b) : i \in MethodAt(b)}
  BY DEF FindInsn, FoundIn
<1>3. \A j \in DOMAIN file : file[j].codeOff = 0 => Beginning(j, b) = {}
  BY AllMade DEF Beginning
<1>4. ASSUME NEW j \in DOMAIN file, NEW x \in Beginning(j, b)
      PROVE  \E o \in Instructions(file[j]) :
               /\ b - file[j].codeOff - HeaderSize \in {2 * o, 2 * o + 1} /\ o \in Nat
               /\ file[j].codeOff # 0 /\ file[j].codeOff <= b /\ Legal(file[j])
  <2>1. file[j].codeOff # 0 /\ Legal(file[j])
    BY <1>3, <1>4
  <2>2. PICK o \in Instructions(file[j]) : b - file[j].codeOff - HeaderSize \in {2 * o, 2 * o + 1}
    BY <1>4, <2>1, FoundBegins
  <2>3. o \in Nat
    BY <2>1, AllMade, LegalRow DEF Instructions
  <2>4. file[j].codeOff <= b
    <3>1. PICK e : e = file[j].codeOff
      OBVIOUS
    <3>2. e \in Nat /\ (b - e - 16 = 2 * o \/ b - e - 16 = 2 * o + 1)
      BY <1>1, <2>2, <3>1 DEF HeaderSize
    <3>3. e <= b
      BY <2>3, <3>2
    <3> QED BY <3>1, <3>3
  <2> QED BY <2>1, <2>2, <2>3, <2>4
<1>5. CASE MethodAt(b) = {} /\ \A i \in DOMAIN file : file[i].codeOff # 0 => b < file[i].codeOff
  <2>1. FindInsn(b) = {}
    BY <1>2, <1>5
  <2>2. There(b) = {}
    <3>1. ASSUME NEW j \in DOMAIN file, NEW x \in Beginning(j, b) PROVE FALSE
      BY <1>1, <1>4, <1>5, <3>1
    <3> QED BY <3>1 DEF There
  <2> QED BY <2>1, <2>2, FS_EmptySet
<1>6. CASE \E i \in DOMAIN file :
             /\ MethodAt(b) = {i} /\ file[i].codeOff # 0 /\ file[i].codeOff <= b
             /\ \A j \in DOMAIN file : file[j].codeOff # 0 /\ file[j].codeOff <= b
                                         => file[j].codeOff <= file[i].codeOff
  <2>1. PICK i \in DOMAIN file :
             /\ MethodAt(b) = {i} /\ file[i].codeOff # 0 /\ file[i].codeOff <= b
             /\ \A j \in DOMAIN file : file[j].codeOff # 0 /\ file[j].codeOff <= b
                                         => file[j].codeOff <= file[i].codeOff
    BY <1>6
  <2>2. FindInsn(b) = FoundIn(i, b)
    BY <1>2, <2>1
  <2>3. /\ FoundIn(i, b) = Beginning(i, b)
        /\ \A x, y \in FoundIn(i, b) : x = y
        /\ (\E o \in Instructions(file[i]) : b - file[i].codeOff - HeaderSize \in {2 * o, 2 * o + 1})
             => FoundIn(i, b) # {}
    BY <2>1, FoundBegins
  <2>4. FindInsn(b) \subseteq There(b)
    BY <2>2, <2>3 DEF There
  <2>5. There(b) # {} => FindInsn(b) # {}
    <3>1. ASSUME There(b) # {} PROVE FindInsn(b) # {}
      <4>1. PICK j \in DOMAIN file : Beginning(j, b) # {}
        BY <3>1 DEF There
      <4>2. PICK o \in Instructions(file[j]) :
               /\ b - file[j].codeOff - HeaderSize \in {2 * o, 2 * o + 1} /\ o \in Nat
               /\ file[j].codeOff # 0 /\ file[j].codeOff <= b /\ Legal(file[j])
        BY <1>4, <4>1
      <4>3. file[j].codeOff <= file[i].codeOff
        BY <2>1, <4>2
      <4>4. o \in Instructions(file[i]) /\ file[i].codeOff = file[j].codeOff
        BY <1>1, <2>1, <4>2, <4>3, SameCode
      <4> QED BY <2>2, <2>3, <4>2, <4>4
    <3> QED BY <3>1
  <2>6. CASE There(b) = {}
    <3>1. FindInsn(b) = {}
      BY <2>4, <2>6
    <3> QED BY <2>4, <2>6, <3>1, FS_EmptySet
  <2>7. CASE There(b) # {}
    <3>1. PICK x : x \in FindInsn(b)
      BY <2>5, <2>7
    <3>2. FindInsn(b) = {x}
      BY <2>2, <2>3, <3>1
    <3>3. Cardinality(FindInsn(b)) = 1
      BY <3>2, FS_Singleton
    <3> QED BY <2>4, <2>7, <3>3
  <2> QED BY <2>6, <2>7
<1> QED BY <1>1, <1>5, <1>6, MethodFound

LEMMA FoundHolds == InsnInv => InsnFound
<1> SUFFICES ASSUME InsnInv, pc = "done", \A i \in DOMAIN file : file[i].codeOff # 0 => Legal(file[i])
             PROVE  InsnFound
  BY DEF InsnFound
<1>1. ASSUME NEW last, NEW b \in 0 .. last
      PROVE  FindInsn(b) \subseteq There(b) /\ Cardinality(FindInsn(b)) = (IF There(b) = {} THEN 0 ELSE 1)
  <2>1. b \in Nat
    OBVIOUS
  <2> QED BY <2>1, OneFound
<1> QED BY <1>1 DEF InsnFound, There, Beginning

-----------------------------------------------------------------------------
(* Whatever payloads lie between the instructions of a legal method and    *)
(* whatever its switches and try blocks are, make_insn_graph makes a       *)
(* vertex of everything control can reach, with the edges of the format;   *)
(* only an illegal method makes it follow a vertex that is not there.      *)
THEOREM GraphsFollowCode == ESpec => []GraphFaithful
  BY InsnSpec, Faithful, PTL

(* When add_exception_flow_edges has gone over all methods, an instruction *)
(* that may throw has edges to the handlers of the try blocks it begins in *)
(* and to the exit, and no other instruction has one.                      *)
THEOREM HandlersFollowTries == ESpec => []HandlersFaithful
  BY InsnSpec, HandlersHold, PTL

(* find_insn leads from a place in the file to the instruction that begins *)
(* there, of one method if several share the code, and nowhere from any    *)
(* other place.                                                            *)
THEOREM PlacesLead == ESpec => []InsnFound
  BY InsnSpec, FoundHolds, PTL
=============================================================================
