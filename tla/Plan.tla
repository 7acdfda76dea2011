-------------------------------- MODULE Plan --------------------------------
(***************************************************************************)
(* What the supervisor proposes for a sprint (crew/plan.go) and what of a  *)
(* model's answer to it is accepted (crew/plan_ask.go): pure functions of  *)
(* a world w, the rows they read in one go.                                *)
(*                                                                         *)
(* Names, tasks and requests are numbers, in the order SQL sorts them.     *)
(* Titles and reasons are left out: an item's job says where it came from. *)
(***************************************************************************)
EXTENDS Integers, FiniteSets, Functions, SequencesExt

CONSTANTS
  Analyst, Desk, Skill, Anomaly, Task, Request,
  Supervisor, Management,   \* the fall-back assignee and its desk
  Brief,        \* Brief[a]: desk, skills, engine, perTask, monthly, days
  Triage,       \* Triage[d]: the name triageDesk gives, on the roster or not
  TriageSkill,
  Prefers,      \* engineByClass: the engine a skill prefers, or NoEngine
  NoEngine,
  Size, Source, \* of an anomaly: |excess| and desk
  Holder, Home, \* of a task: assignee and desk
  AnomalyLimit, BlockedLimit,
  FlatGuard,    \* 15.00, for a triage analyst the roster does not have
  ReworkGuard   \* 10.00, for a blocked task

NoSkill == "no skill"
Names == Analyst \cup {Triage[d] : d \in Desk}

World == [open : SUBSET Anomaly,       \* open and not handled by anybody
          blocked : SUBSET Task, returned : SUBSET Task,
          carried : SUBSET Request,    \* requests with options still carried
          state : [Analyst -> {"active", "restricted", "suspended", "gone"}],
          spent : [Analyst -> Nat],    \* this month
          halted : SUBSET Desk,
          posted : [Analyst -> Nat]]   \* day of the last posted draft, 0: none

ASSUME PlanAssumption ==
  /\ Supervisor \in Analyst /\ NoSkill \notin Skill /\ TriageSkill \in Skill
  /\ Analyst \subseteq Nat /\ Anomaly \subseteq Nat /\ Task \subseteq Nat /\ Request \subseteq Nat
  /\ Brief \in [Analyst -> [desk : Desk \cup {Management}, skills : SUBSET Skill,
                            engine : STRING, perTask : Nat, monthly : Nat, days : Nat]]
  /\ Size \in [Anomaly -> Nat] /\ Source \in [Anomaly -> Desk]
  /\ Holder \in [Task -> Analyst] /\ Home \in [Task -> Desk]
  /\ AnomalyLimit \in Nat /\ BlockedLimit \in Nat
  /\ FlatGuard \in Nat /\ ReworkGuard \in Nat
  /\ IsFiniteSet(Analyst) /\ IsFiniteSet(Desk) /\ IsFiniteSet(Anomaly)
  /\ IsFiniteSet(Task) /\ IsFiniteSet(Request)

-----------------------------------------------------------------------------
\* The elements of S in the order Before puts them.
InOrder(S, Before(_, _)) ==
  [k \in 1..Cardinality(S) |->
     CHOOSE x \in S : Cardinality({y \in S : Before(y, x)}) = k - 1]

Ascending(S) == InOrder(S, <)
Map(Op(_), s) == [k \in DOMAIN s |-> Op(s[k])]
FirstOf(n, s) == SubSeq(s, 1, IF Len(s) < n THEN Len(s) ELSE n)

Active(w) == {a \in Analyst : w.state[a] = "active"}
OnRoster(w) == {a \in Analyst : w.state[a] # "gone"}
Headroom(w, a) == Brief[a].monthly - w.spent[a]

ToSupervisor(job) == [who |-> Supervisor, desk |-> Management, budget |-> 0,
                      skill |-> NoSkill, job |-> job]
ToAnalyst(a, desk, skill, job) ==
  [who |-> a, desk |-> desk, budget |-> Brief[a].perTask, skill |-> skill, job |-> job]

-----------------------------------------------------------------------------
(***************************************************************************)
(* Routing.                                                                *)
(***************************************************************************)
CandidatesWithSkill(w, skill, desks) ==
  {a \in Active(w) : skill \in Brief[a].skills /\ Brief[a].desk \in desks}

\* The preferred engine, then the most headroom, then the name.
Ahead(w, engine, a, b) ==
  LET fits(x) == engine # NoEngine /\ Brief[x].engine = engine
  IN  \/ fits(a) /\ ~fits(b)
      \/ /\ fits(a) <=> fits(b)
         /\ \/ Headroom(w, a) > Headroom(w, b)
            \/ Headroom(w, a) = Headroom(w, b) /\ a < b

Viable(w, candidates) == {a \in candidates : Headroom(w, a) > 0}

ChooseAnalyst(w, candidates, engine) ==
  LET viable == Viable(w, candidates)
  IN  CHOOSE a \in viable : \A b \in viable \ {a} : Ahead(w, engine, a, b)

RoutedItem(w, candidates, engine, skill, job) ==
  IF Viable(w, candidates) = {} THEN ToSupervisor(job)
  ELSE LET a == ChooseAnalyst(w, candidates, engine)
       IN  ToAnalyst(a, Brief[a].desk, skill, job)

-----------------------------------------------------------------------------
(***************************************************************************)
(* The five sources and the goal.                                          *)
(***************************************************************************)
\* With one candidate or none the desk's triage analyst is named, active or
\* not, priced from its brief when the roster has it.
AnomalyItem(w, x) ==
  LET job == <<"anomaly", x>>
      candidates == CandidatesWithSkill(w, TriageSkill, {Source[x]})
      named == Triage[Source[x]]
  IN  IF Cardinality(candidates) > 1
      THEN RoutedItem(w, candidates, Prefers[TriageSkill], TriageSkill, job)
      ELSE IF named \in OnRoster(w)
      THEN ToAnalyst(named, Source[x], TriageSkill, job)
      ELSE [who |-> named, desk |-> Source[x], budget |-> FlatGuard,
            skill |-> TriageSkill, job |-> job]

ProposeAnomalies(w) ==
  LET bigger(x, y) == Size[x] > Size[y] \/ (Size[x] = Size[y] /\ x < y)
  IN  Map(LAMBDA x : AnomalyItem(w, x), FirstOf(AnomalyLimit, InOrder(w.open, bigger)))

\* Tasks returns the newest first, and so the three newest come back.
ProposeBlocked(w) ==
  Map(LAMBDA t : [who |-> Holder[t], desk |-> Home[t], budget |-> ReworkGuard,
                  skill |-> NoSkill, job |-> <<"blocked", t>>],
      FirstOf(BlockedLimit, InOrder(w.blocked, >)))

IsDue(w, a, day) ==
  /\ Brief[a].desk \notin w.halted
  /\ Brief[a].days > 0                \* 0: on request, or an unknown word
  /\ w.posted[a] = 0 \/ w.posted[a] < day - Brief[a].days

CadenceDue(w, day) ==
  LET item(a) == IF Headroom(w, a) <= 0 THEN ToSupervisor(<<"cadence", a>>)
                 ELSE ToAnalyst(a, Brief[a].desk, NoSkill, <<"cadence", a>>)
  IN  Map(LAMBDA d : ToSupervisor(<<"halted", d>>), SetToSeq(w.halted))
      \o Map(item, Ascending({a \in Active(w) : IsDue(w, a, day)}))

ProposeReturned(w) ==
  LET item(t) == IF Holder[t] \in Active(w) /\ Headroom(w, Holder[t]) > 0
                 THEN ToAnalyst(Holder[t], Home[t], NoSkill, <<"returned", t>>)
                 ELSE ToSupervisor(<<"returned", t>>)
  IN  Map(item, Ascending(w.returned))

ProposeRequests(w) == Map(LAMBDA r : ToSupervisor(<<"request", r>>), Ascending(w.carried))

\* A goal is what its words come to: the desk its first desk word names (every
\* desk without one), and in order the skills and the names they resolve to.
ProposeGoal(w, goal) ==
  LET desks == IF goal.desk = {} THEN Desk \cup {Management} ELSE goal.desk
      known(word) == word.kind = "name" => word.of \in OnRoster(w)
      item(word) ==
        IF word.kind = "skill"
        THEN RoutedItem(w, CandidatesWithSkill(w, word.of, desks), Prefers[word.of],
                        word.of, <<"goal">>)
        ELSE RoutedItem(w, {word.of} \cap Active(w), NoEngine, NoSkill, <<"goal">>)
  IN  Map(LAMBDA i : item(goal.words[i]),
          Ascending({i \in DOMAIN goal.words : known(goal.words[i])}))

Propose(w, day, goal) ==
  ProposeAnomalies(w) \o ProposeBlocked(w) \o CadenceDue(w, day)
  \o ProposeReturned(w) \o ProposeRequests(w) \o ProposeGoal(w, goal)

\* applySort with the page's default, the guard, biggest first; stable.
ByGuard(items) ==
  Map(LAMBDA i : items[i],
      InOrder(DOMAIN items, LAMBDA i, j : \/ items[i].budget > items[j].budget
                                          \/ items[i].budget = items[j].budget /\ i < j))

Total(items) == SumFunctionOnSet([i \in DOMAIN items |-> items[i].budget], DOMAIN items)

-----------------------------------------------------------------------------
(***************************************************************************)
(* A model's answer: a sequence of [ref, who, budget], where Same leaves   *)
(* the assignee or the guard of the item as it was.                        *)
(***************************************************************************)
Same == -1

AssigneeOf(det, r) == IF r.who = Same THEN det[r.ref].who ELSE r.who
BudgetOf(det, r) == IF r.budget = Same THEN det[r.ref].budget ELSE r.budget

\* Slip: a ref named twice is let through.
RefsMayRepeat(det, answer) ==
  /\ Len(answer) <= Len(det)
  /\ \A i \in DOMAIN answer : answer[i].ref \in DOMAIN det

RefsAreSound(det, answer) ==
  /\ Len(answer) <= Len(det)
  /\ \A i \in DOMAIN answer : answer[i].ref \in DOMAIN det
  /\ \A i, j \in DOMAIN answer : i # j => answer[i].ref # answer[j].ref

\* Slip: the desk of the item is not compared.
MayRerouteAnywhere(w, item, who) ==
  item.skill # NoSkill /\ who \in Active(w) /\ item.skill \in Brief[who].skills

MayReroute(w, item, who) ==
  /\ item.skill # NoSkill
  /\ who \in Active(w)
  /\ item.skill \in Brief[who].skills
  /\ Brief[who].desk = item.desk

AnswerItemHolds(w, det, r) ==
  LET who == AssigneeOf(det, r)
  IN  /\ who # det[r.ref].who => MayReroute(w, det[r.ref], who)
      /\ who \in OnRoster(w)
      /\ Headroom(w, who) > 0
      /\ BudgetOf(det, r) <= Brief[who].perTask
      /\ BudgetOf(det, r) <= det[r.ref].budget

\* Refused whole when any item is.
ValidatePlanAnswer(w, det, answer) ==
  /\ RefsAreSound(det, answer)
  /\ \A i \in DOMAIN answer : AnswerItemHolds(w, det, answer[i])

ModelPlanFrom(det, answer) ==
  Map(LAMBDA r : [det[r.ref] EXCEPT !.who = AssigneeOf(det, r), !.budget = BudgetOf(det, r)],
      answer)
=============================================================================
