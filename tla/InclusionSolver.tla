-------------------------- MODULE InclusionSolver --------------------------
(***************************************************************************)
(* What the solver of a points-to analysis promises, whatever its order of *)
(* work: the constraints only grow, an element joins a set only because a  *)
(* constraint carries it there from a set that has it, and the solver      *)
(* stops only when no constraint has anything left to carry.               *)
(***************************************************************************)
VARIABLES
  flow,     \* the constraints: pairs <<u, v>>, the set of u is within that of v
  blocked,  \* pairs <<v, a>>: a is of the wrong type for v
  sol,      \* the solution so far: pairs <<v, a>>
  done      \* the solver has stopped

vars == <<flow, blocked, sol, done>>

Init == flow = {} /\ blocked = {} /\ sol = {} /\ done = FALSE

Carried(p) == \E c \in flow : c[2] = p[1] /\ <<c[1], p[2]>> \in sol

Closed == \A c \in flow : \A p \in sol :
            p[1] = c[1] => <<c[2], p[2]>> \in sol \cup blocked

(* New constraints; an allocation comes with its own element.              *)
Constrain ==
  /\ ~done
  /\ flow \subseteq flow' /\ blocked \subseteq blocked'
  /\ sol \subseteq sol'
  /\ \A p \in sol' \ sol : p[1] = p[2]
  /\ done' = done

(* Elements move along constraints that are there.                         *)
Infer ==
  /\ ~done
  /\ sol \subseteq sol'
  /\ \A p \in sol' \ sol : Carried(p) /\ p \notin blocked'
  /\ blocked \subseteq blocked'
  /\ UNCHANGED <<flow, done>>

Finish ==
  /\ ~done /\ Closed
  /\ done' = TRUE
  /\ UNCHANGED <<flow, blocked, sol>>

Next == Constrain \/ Infer \/ Finish

Spec == Init /\ [][Next]_vars
=============================================================================
