------------------------------ MODULE MCRunner ------------------------------
EXTENDS Runner

CONSTANTS v1, v2, l1

\* The run's money and its queues: three vendor tasks over two workers.
MoneyTask == 1..3
MoneyQueue == {"vendor", "local"}
MoneyLine == [q \in MoneyQueue |-> IF q = "vendor" THEN <<1, 2, 3>> ELSE <<>>]
MoneyWorker == {v1, v2, l1}
MoneyServes == [w \in MoneyWorker |-> IF w = l1 THEN "local" ELSE "vendor"]
MoneyLoops == <<2, 1, 1>>
MoneyWorst == <<1, 2, 0>>
MoneyTokens == <<1, 1, 1>>
MoneyUsages == {[tokens |-> 1, price |-> 1, paid |-> Unsettled],
                [tokens |-> 2, price |-> 1, paid |-> 3]}
MoneyPriors == {[micros |-> <<2, 3, 0>>, cents |-> <<1, 1, 0>>]}

\* The board: one task in each queue, and a person at the console.
BoardTask == 1..2
BoardQueue == {"vendor", "local"}
BoardLine == [q \in BoardQueue |-> IF q = "vendor" THEN <<1>> ELSE <<2>>]
BoardWorker == {v1, l1}
BoardServes == [w \in BoardWorker |-> IF w = l1 THEN "local" ELSE "vendor"]
BoardOnes == <<1, 1>>
BoardUsages == {[tokens |-> 1, price |-> 1, paid |-> Unsettled]}
BoardPriors == {[micros |-> <<2, 0>>, cents |-> <<1, 0>>]}
=============================================================================
