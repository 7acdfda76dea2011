------------------------------- MODULE Choice -------------------------------
(***************************************************************************)
(* What the options of a sprint's deliverables promise, whoever answers    *)
(* them and in whatever order: the options of ONE deliverable are          *)
(* alternatives, so at most one of them is carried out and applied, it is  *)
(* carried out before it is marked, and an applied or a refused option     *)
(* stays what it is.                                                       *)
(***************************************************************************)
CONSTANTS Option,
          Of     \* Of[o]: the deliverable o is an alternative of

VARIABLES
  acted,    \* the options whose side effect has happened
  applied,  \* the options marked applied
  refused   \* the options marked refused

vars == <<acted, applied, refused>>

Alternatives(o) == {x \in Option : Of[x] = Of[o] /\ x # o}

Init == acted = {} /\ applied = {} /\ refused = {}

Act(o) ==
  /\ o \notin refused \cup applied
  /\ Alternatives(o) \cap (acted \cup applied) = {}
  /\ acted' = acted \cup {o}
  /\ UNCHANGED <<applied, refused>>

\* An option with no side effect of its own is carried out by being marked.
Apply(o) ==
  /\ o \notin refused
  /\ Alternatives(o) \cap (acted \cup applied) = {}
  /\ applied' = applied \cup {o}
  /\ UNCHANGED <<acted, refused>>

Refuse(o) ==
  /\ o \notin acted \cup applied
  /\ refused' = refused \cup {o}
  /\ UNCHANGED <<acted, applied>>

Next == \E o \in Option : Act(o) \/ Apply(o) \/ Refuse(o)

Spec == Init /\ [][Next]_vars
=============================================================================
