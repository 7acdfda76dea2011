----------------------------- MODULE MCDecisions -----------------------------
EXTENDS Decisions, TLC

CONSTANTS p1, p2

\* Two analysts who put the same cause of anomaly "a" first, one of whom
\* offers another as well, and two who answer differently on anomaly "b",
\* one with a figure of its own and a task nobody owns.
SerialDeliverable == 1..4
SerialOption == 1..7
SerialOf == <<1, 1, 2, 2, 3, 3, 4>>
SerialClass == <<"explain", "dismiss", "explain", "explain",
                 "accept", "explain", "explain">>
SerialSummary == <<"x", "no", "x", "y", "ok", "q", "p">>
SerialPlace == <<1, 2, 3, 4, 6, 5, 7>>
SerialFigure == <<2, 2, 2, 2, 2, 2, 3>>
SerialAnomalyOf == <<"a", "a", "b", "b">>
SerialOwnerOf == <<"ana", "bo", "bo", Nobody>>
SerialExcess == [a \in {"a", "b"} |-> 2]

\* Two handlers at once over one anomaly and one driver.
PairDeliverable == 1..3
PairOption == 1..4
PairOf == <<1, 1, 2, 3>>
PairClass == <<"explain", "dismiss", "explain", "driver">>
PairSummary == <<"x", "no", "y", "plan">>
PairPlace == <<1, 2, 3, 4>>
PairFigure == <<2, 2, 2, 1>>
PairAnomalyOf == <<"a", "a", NoAnomaly>>
PairOwnerOf == <<"ana", "bo", "ana">>
PairExcess == [a \in {"a"} |-> 2]

Handlers == Permutations({p1, p2})
=============================================================================
