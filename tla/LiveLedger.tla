----------------------------- MODULE LiveLedger -----------------------------
(***************************************************************************)
(* The arithmetic of internal/crew/provenance.go: how the exact cost of a  *)
(* live run, kept per task in micro-dollars, becomes whole cents.  The     *)
(* total is rounded up once and the cents are handed out by largest        *)
(* remainder, ties going to the lower task id.                             *)
(***************************************************************************)
EXTENDS Integers, FiniteSets, Functions

CONSTANT Cent  \* micro-dollars in one cent (10 000 in the code)

ASSUME CentAssumption == Cent \in Nat \ {0}

\* The rows SettleLiveSpend selects: only tasks that have cost something.
Rows(micros) == {t \in DOMAIN micros : micros[t] > 0}

\* The whole ledger's cost in cents, rounded up once.
Want(micros) == (SumFunctionOnSet(micros, Rows(micros)) + Cent - 1) \div Cent

WholeCents(micros) == [t \in Rows(micros) |-> micros[t] \div Cent]

\* The rows sorted before t: larger remainder first, then the lower id.
SortedBefore(micros, t) ==
  {u \in Rows(micros) :
     \/ micros[u] % Cent > micros[t] % Cent
     \/ micros[u] % Cent = micros[t] % Cent /\ u < t}

\* Slip: each task rounded up on its own, which booked 0.56 for 0.2337.
GiveRoundsEachTask(micros) ==
  [t \in Rows(micros) |-> (micros[t] + Cent - 1) \div Cent]

\* What each task is given: its whole cents, and one more while any is left.
Give(micros) ==
  LET leftover == Want(micros) - SumFunction(WholeCents(micros))
  IN  [t \in Rows(micros) |->
         WholeCents(micros)[t]
         + (IF Cardinality(SortedBefore(micros, t)) < leftover THEN 1 ELSE 0)]
=============================================================================
