------------------------------ MODULE MCBooks ------------------------------
(* One gateway folder with an old export that newer ones copy in part, one  *)
(* folder of the second door, and two cloud files, which may come to hold   *)
(* the same bytes. Amounts are chosen so that rounding, remainders, a       *)
(* credit, pots no rule names and a desk that nets to zero occur.          *)
EXTENDS Books, TLC

Alike == Permutations(Importer) \cup Permutations(Closer)

Call(k, d, t, a, m) == [key |-> k, day |-> d, team |-> t, agent |-> a, micros |-> m,
                        blocked |-> FALSE, fallback |-> FALSE, sound |-> TRUE]
Blocked(c) == [c EXCEPT !.blocked = TRUE]
Fallback(c) == [c EXCEPT !.fallback = TRUE]
MCCalls ==
  [e \in Export |->
     CASE e = "old" -> <<Call(1, 1, 0, 1, 14), Call(2, 2, 0, 2, 13), Call(5, 2, 1, 0, 30),
                        Call(3, 1, 1, 2, 12)>>
       [] e = "new" -> <<Call(1, 1, 1, 1, 14), Call(3, 1, 1, 2, 12), Fallback(Call(6, 1, 1, 1, 90))>>
       [] e = "again" -> <<Call(1, 1, 1, 1, 14), Call(2, 2, 1, 2, 13), Blocked(Call(4, 2, 1, 1, 0)),
                           Blocked(Call(7, 1, 1, 1, 40))>>
       [] e = "door" -> <<Call(1, 1, 0, 2, 14)>>]
MCDoor == [e \in Export \cup Unreadable |-> IF e = "door" THEN "openai-wire" ELSE "main"]
MCGeneration == [e \in Export |-> IF e = "old" THEN 0 ELSE 1]

Line(d, t, c, m) == [day |-> d, team |-> t, category |-> c, micros |-> m, sound |-> TRUE]
MCLines ==
  [b \in Bill |->
     CASE b = "bill" -> <<Line(1, 1, "Usage", 70), Line(1, 2, "Usage", 30), Line(1, 1, "Refund", -60),
                        Line(1, 0, "Purchase", 50)>>
       [] b = "fix" -> <<Line(2, 1, "Usage", -70), Line(2, 0, "Credit", -25), Line(2, 2, "Usage", -34)>>]

MCOffers == [p \in Path |-> CASE p = 1 -> {"old", "new", "half"} [] p = 2 -> {"again"} [] p = 3 -> {"door"}
                              [] p = 11 -> {"bill"} [] p = 12 -> {"fix", "bill", "part"}]
MCInitFolder == [p \in Path |-> CASE p = 1 -> "old" [] p = 2 -> "again" [] p = 3 -> Absent
                                  [] p = 11 -> "bill" [] p = 12 -> "fix"]

Charge(d, t, c, n) == [from |-> "generated", day |-> d, source |-> "aws", team |-> t,
                       category |-> c, cents |-> n]
MCInitLedger == {Charge(1, 1, "Usage", 6), Charge(1, 2, "Usage", 5), Charge(2, 0, "Purchase", 10),
                 Charge(2, 0, "Tax", 1)}
MCInitRules == {[source |-> Anywhere, category |-> c, method |-> "proportional"] :
                  c \in {"Purchase"}}
=============================================================================
