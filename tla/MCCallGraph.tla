---------------------------- MODULE MCCallGraph ----------------------------
(***************************************************************************)
(* CallGraph on programs of five classes: B extends A, C extends B, each   *)
(* may override run, E has static members and an initialiser, and Main has *)
(* the entry method.  The class Gone is in no file.                        *)
(***************************************************************************)
EXTENDS CallGraph

CONSTANTS Main, A, B, C, E, Gone, main, run, go, field, clinit

MCClass == {Main, A, B, C, E}
MCName  == {main, run, go, field, clinit}

Call(c)  == [op |-> "virtual", class |-> c, name |-> run]
Static   == [op |-> "static", class |-> E, name |-> go]
Create(c) == [op |-> "new", class |-> c, name |-> run]
Cast(c)  == [op |-> "cast", class |-> c, name |-> run]
Get      == [op |-> "sget", class |-> E, name |-> field]
NoField  == [op |-> "iget", class |-> A, name |-> field]

MainInsns ==
  {Call(c) : c \in {A, B, C, Gone}} \cup {Create(c) : c \in {B, C, Gone}} \cup {Static, Get, Cast(C)}

MainCodes == UNION {[1 .. k -> MainInsns] : k \in 1 .. 2}

(* What A.run, B.run and C.run (if B and C have it), E.go and the          *)
(* initialiser of E may be.                                                *)
ACodes == {<<>>, <<Create(B)>>}
BCodes == {<<>>, <<Static>>, <<Create(C), Call(A)>>}
CCodes == {<<>>, <<Cast(C)>>, <<NoField>>, <<Static>>}
GoCodes == {<<>>, <<Call(A)>>}
ClinitCodes == {<<>>, <<Create(C)>>}

NoCode == <<>>
ProgramOf(c, a, b, d, g, i) ==
  [entry |-> <<Main, main>>,
   line |-> (Main :> <<Main>>) @@ (A :> <<A>>) @@ (B :> <<A, B>>) @@ (C :> <<A, B, C>>)
              @@ (E :> <<E>>),
   direct |-> (Main :> {main}) @@ (E :> {go, clinit}) @@ [k \in MCClass |-> {}],
   virtual |-> (A :> {run}) @@ (B :> IF b = NoCode THEN {} ELSE {run})
                 @@ (C :> IF d = NoCode THEN {} ELSE {run}) @@ [k \in MCClass |-> {}],
   fields |-> (E :> {field}) @@ [k \in MCClass |-> {}],
   code |-> (<<Main, main>> :> c) @@ (<<A, run>> :> a) @@ (<<B, run>> :> b) @@ (<<C, run>> :> d)
              @@ (<<E, go>> :> g) @@ (<<E, clinit>> :> i) @@ [m \in MCClass \X MCName |-> NoCode]]

MCPrograms ==
  {ProgramOf(c, a, b, d, g, i) :
     c \in MainCodes, a \in ACodes, b \in BCodes, d \in CCodes, g \in GoCodes, i \in ClinitCodes}

(* a.run(); new C(); b.run(), where B and C override run.                  *)
MCLatePrograms ==
  {ProgramOf(<<Call(A), Create(C), Call(B)>>, <<>>, <<Cast(A)>>, <<Cast(A)>>, <<>>, <<>>)}
=============================================================================
