---------------------------- MODULE Allocation ----------------------------
(***************************************************************************)
(* How a month's bill becomes what each team owes (finops/allocation.go):  *)
(* what has a team is its direct cost, what has none lies in one pot for   *)
(* each desk and category, and a rule says how a pot is split. Pure        *)
(* operators over the charges; Books puts the reads in their order.        *)
(*                                                                         *)
(* Teams are numbers in the order of their names. A charge is [from, day,  *)
(* source, team, category, cents].                                         *)
(***************************************************************************)
EXTENDS Integers, FiniteSets, FiniteSetsExt, Functions

CONSTANTS
  NoTeam,      \* the team of a charge nobody's name is on
  Anywhere,    \* "*", the source of a rule for every desk
  PerCent      \* micro-dollars in a cent

ASSUME AllocationAssumption == PerCent \in Nat \ {0}

Methods == {"proportional", "even", "unallocated"}

Magnitude(n) == IF n < 0 THEN -n ELSE n

\* Integer division rounds toward zero.
Quotient(a, b) ==
  LET q == Magnitude(a) \div Magnitude(b) IN IF (a < 0) = (b < 0) THEN q ELSE -q

\* A sum of micros in cents, half a cent away from zero.
CentsOf(micros) ==
  LET c == (Magnitude(micros) + PerCent \div 2) \div PerCent
  IN  IF micros < 0 THEN -c ELSE c

Cents(S) == SumFunctionOnSet([r \in S |-> r.cents], S)

-----------------------------------------------------------------------------
\* The reads.
directCost(named, g) ==
  [source |-> g.source, team |-> g.team,
   cents |-> Cents({r \in named : r.source = g.source /\ r.team = g.team})]

\* Slip: what nobody's name is on is read as one more team's.
everyCost(charges) == {directCost(charges, g) : g \in charges}

directCosts(charges) ==
  LET named == {r \in charges : r.team # NoTeam} IN {directCost(named, g) : g \in named}

sharedCostPot(shared, g) ==
  [source |-> g.source, category |-> g.category,
   cents |-> Cents({r \in shared : r.source = g.source /\ r.category = g.category})]

sharedCostPots(charges) ==
  LET shared == {r \in charges : r.team = NoTeam} IN {sharedCostPot(shared, g) : g \in shared}

\* The desk's own rule, else the rule of every desk, else none.
ruleFor(rules, pot) ==
  LET own == {r \in rules : r.category = pot.category /\ r.source = pot.source}
      any == {r \in rules : r.category = pot.category /\ r.source = Anywhere}
  IN  IF own # {} THEN own ELSE any

-----------------------------------------------------------------------------
(***************************************************************************)
(* The split. A pot stays where it is when a rule or the absence of one    *)
(* says so, when no team of the desk spent anything, or when what they     *)
(* spent nets to zero.                                                     *)
(***************************************************************************)
MethodOf(rules, pot) ==
  LET r == ruleFor(rules, pot) IN IF r = {} THEN "unallocated" ELSE (CHOOSE x \in r : TRUE).method

Bearers(direct, pot) == {d \in direct : d.source = pot.source}

Basis(method, bearers) == IF method = "even" THEN Cardinality(bearers) ELSE Cents(bearers)

StaysUnallocated(rules, direct, pot) ==
  \/ MethodOf(rules, pot) = "unallocated"
  \/ Bearers(direct, pot) = {}
  \/ Basis(MethodOf(rules, pot), Bearers(direct, pot)) = 0

Share(method, bearers, pot, d) ==
  IF method = "even" THEN Quotient(pot.cents, Cardinality(bearers))
  ELSE Quotient(pot.cents * d.cents, Cents(bearers))

\* Who takes the remainder: the largest positive spender, the first of them by
\* name, or the first by name when nobody's spend is positive.
BiggestOf(bearers) ==
  LET most == Max({d.cents : d \in bearers})
      first == IF most > 0 THEN {d \in bearers : d.cents = most} ELSE bearers
  IN  CHOOSE d \in first : \A e \in first : d.team <= e.team

\* Slip: the remainder is dropped.
SharesOnly(rules, direct, pot, d) ==
  Share(MethodOf(rules, pot), Bearers(direct, pot), pot, d)

Borne(rules, direct, pot, d) ==
  LET bearers == Bearers(direct, pot)
      share == [e \in bearers |-> Share(MethodOf(rules, pot), bearers, pot, e)]
      left == pot.cents - SumFunctionOnSet(share, bearers)
  IN  share[d] + IF d = BiggestOf(bearers) THEN left ELSE 0

-----------------------------------------------------------------------------
AllocatedTo(rules, direct, pots, d) ==
  LET placed == {p \in pots : p.source = d.source /\ ~StaysUnallocated(rules, direct, p)}
  IN  SumFunctionOnSet([p \in placed |-> Borne(rules, direct, p, d)], placed)

\* What Allocate answers: each team's direct and allocated cents, and what it
\* could not place.
TeamCosts(rules, direct, pots) ==
  {[source |-> d.source, team |-> d.team, direct |-> d.cents,
    allocated |-> AllocatedTo(rules, direct, pots, d)] : d \in direct}

Unallocated(rules, direct, pots) ==
  Cents({p \in pots : StaysUnallocated(rules, direct, p)})

\* The same pots one by one, walked a second time, with the reason each stays.
UnallocatedPots(rules, direct, pots) ==
  LET why(p) ==
        CASE ruleFor(rules, p) = {} -> "no rule names this category"
          [] MethodOf(rules, p) = "unallocated" -> "the rule leaves it"
          [] Bearers(direct, p) = {} -> "nothing on this desk to carry it"
          [] Basis(MethodOf(rules, p), Bearers(direct, p)) = 0 -> "nets to zero"
          [] OTHER -> "placed"
  IN  {[pot |-> p, cents |-> p.cents, reason |-> why(p)] : p \in {x \in pots : why(x) # "placed"}}

Loaded(teams) == SumFunctionOnSet([t \in teams |-> t.direct + t.allocated], teams)

\* TrueUpFor: for each team the close charged, how far its month has moved since.
TrueUpFor(frozen, live) ==
  LET now(f) == Loaded({t \in live : t.source = f.source /\ t.team = f.team})
  IN  {[source |-> f.source, team |-> f.team, cents |-> now(f) - (f.direct + f.allocated)]
       : f \in frozen}
=============================================================================
