------------------------------ MODULE MCRoster -------------------------------
EXTENDS Roster, TLC

CONSTANTS p1, p2

\* A supervisor, the partner of one of two desks and an analyst under it.
MCDesk == {"aws", "gcp"}
MCPartner == [d \in MCDesk |-> IF d = "gcp" THEN "partner" ELSE Nobody]
MCRoster == [a \in {"sup", "partner", "ana"} |->
  [state |-> IF a = "partner" THEN "restricted" ELSE "active",
   desk |-> "gcp", owner |-> "tania",
   parent |-> CASE a = "sup" -> Nobody [] a = "partner" -> "sup" [] OTHER -> "partner"]]
MCTask == [t \in {"t"} |->
  [state |-> "active", who |-> "ana", desk |-> "gcp", owner |-> "tania"]]

Handlers == Permutations({p1, p2})
=============================================================================
