---------------------------- MODULE MCPlanning ----------------------------
(* A small console: two analysts share the aws desk, one holds gcp, and    *)
(* the supervisor (4) is on none. The rest of the console may explain an   *)
(* anomaly, suspend an analyst, exhaust a guard, halt a desk, post a draft *)
(* or bring a blocked, returned or carried row back.                       *)
EXTENDS Planning

Alike == Permutations(Browser) \cup Permutations(Runner)

MCBrief ==
  [a \in Analyst |->
     CASE a = 1 -> [desk |-> "aws", skills |-> {"triage"}, engine |-> "cheap",
                    perTask |-> 2, monthly |-> 4, days |-> 7]
       [] a = 2 -> [desk |-> "aws", skills |-> {"triage", "modelling"}, engine |-> "strong",
                    perTask |-> 3, monthly |-> 9, days |-> 0]
       [] a = 3 -> [desk |-> "gcp", skills |-> {"triage"}, engine |-> "cheap",
                    perTask |-> 5, monthly |-> 5, days |-> 1]
       [] a = 4 -> [desk |-> "management", skills |-> {}, engine |-> "strong",
                    perTask |-> 2, monthly |-> 9, days |-> 30]]
MCTriage == [d \in Desk |-> IF d = "aws" THEN 1 ELSE 3]
MCPrefers == [s \in Skill |-> IF s = "triage" THEN "cheap" ELSE "strong"]
MCSize == [x \in Anomaly |-> IF x = 1 THEN 3 ELSE 8]
MCSource == [x \in Anomaly |-> IF x = 1 THEN "aws" ELSE "gcp"]
MCHolder == [t \in Task |-> t]
MCHome == [t \in Task |-> IF t = 3 THEN "gcp" ELSE "aws"]
MCWorst == [a \in Analyst |-> CASE a = 1 -> 2 [] a = 2 -> 0 [] a = 3 -> 3 [] a = 4 -> 1]
MCPriced == {1, 3, 4}

MCInitWorld ==
  [open |-> {1, 2}, blocked |-> {}, returned |-> {}, carried |-> {},
   state |-> [a \in Analyst |-> "active"], spent |-> [a \in Analyst |-> 0],
   halted |-> {}, posted |-> [a \in Analyst |-> IF a = 4 THEN 6 ELSE 0]]

MCNextWorlds(w) ==
  {[w EXCEPT !.open = @ \ {x}] : x \in w.open}
  \cup {[w EXCEPT !.state[a] = s] : a \in {1, 4}, s \in {"restricted", "suspended", "gone"}}
  \cup {[w EXCEPT !.spent[1] = Brief[1].monthly]}
  \cup {[w EXCEPT !.halted = {"gcp"}, !.state[3] = "suspended"]}
  \cup {[w EXCEPT !.posted[3] = Today]}
  \cup {[w EXCEPT !.blocked = {2}, !.returned = {3}, !.carried = {1}]}

GoalModel == [desk |-> {"aws"}, words |-> <<[kind |-> "skill", of |-> "modelling"],
                                             [kind |-> "name", of |-> 3]>>]

Take(ref, who, budget) == [ref |-> ref, who |-> who, budget |-> budget]
MCAnswers == {<<Take(1, Same, Same)>>,
              <<Take(2, 2, 1), Take(1, Same, Same)>>,
              <<Take(1, Same, Same), Take(1, Same, Same)>>,
              <<Take(2, 3, Same)>>}
MCGoals == {NoGoal, GoalModel}
=============================================================================
