------------------------------ MODULE Planning ------------------------------
(***************************************************************************)
(* How a sprint gets onto the board: a person opens the planning page,     *)
(* may pay for a model's answer, and approves one of the two plans         *)
(* (web/planning.go, crew.Approve); and the runner's -due mode creates     *)
(* the day's cadence sprint by itself (tools/run/due.go) under the switch  *)
(* and the ceiling of /cadence (crew/cadence_settings.go).                 *)
(*                                                                         *)
(* Each browser and each runner is a process. What a handler reads in one  *)
(* go is one step; Approve's transaction is another. What becomes of the   *)
(* tasks afterwards is in Runner and Roster.                               *)
(***************************************************************************)
EXTENDS Plan

CONSTANTS
  Browser, Runner,
  InitWorld,    \* what the plan's sources read at the start
  NextWorlds(_),  \* the worlds the rest of the console may turn one into
  Goals, Answers, \* what people type, what models answer
  Today,        \* the runner's date, in days
  Priced,       \* the names whose engine is metered, with a price known
  Worst,        \* Worst[a]: the worst case of a task of a, which may be 0
  Cap,          \* the runner's -ceiling
  Ceilings,     \* the ceilings people set
  AskWorst, AskCost,  \* a planning call's worst case and what it may cost
  MaxStarts,    \* bound: pages opened and -due runs started
  MaxSprints, MaxMoves, MaxAsks, MaxSettings   \* bounds

VARIABLES
  world, moves, starts,
  board,      \* the sprints, oldest first
  cadence,    \* [on, ceiling]
  settings,   \* counts SetCadence, for its bound
  asks,       \* plan_asks: rows by outcome, and the cents booked
  proc,
  charged,    \* history: what the gateway charged for planning calls
  abandoned,  \* history: of that, for calls nobody waited for
  raced       \* history: labels created while another creator had looked

vars == <<world, moves, starts, board, cadence, settings, asks, proc, charged, abandoned, raced>>

\* What a goal's words may be, and an answer's items: the model may write any
\* number for a ref, an assignee and a guard.
Words == [kind : {"skill"}, of : Skill] \cup [kind : {"name"}, of : Names]
Taken == [ref : Int, who : Int, budget : Int]

ASSUME PlanningAssumption ==
  /\ InitWorld \in World
  /\ \A g \in Goals : g.desk \subseteq Desk \cup {Management} /\ g.words \in Seq(Words)
  /\ Answers \subseteq Seq(Taken)
  /\ Priced \subseteq Names /\ \A n \in Names : Worst[n] \in Nat
  /\ Cap \in Int /\ Ceilings \subseteq Int /\ AskCost \in Nat
  /\ IsFiniteSet(Browser) /\ Browser \cap Runner = {}
  /\ "plan" \notin Runner /\ "model" \notin Runner
  /\ MaxStarts \in Nat /\ MaxMoves \in Nat /\ MaxAsks \in Nat /\ MaxSettings \in Nat

NoGoal == [desk |-> {}, words |-> <<>>]
Idle == [at |-> "idle", label |-> <<>>, goal |-> NoGoal, items |-> <<>>, exists |-> FALSE,
         seen |-> InitWorld, det |-> <<>>, answer |-> <<>>, shown |-> <<>>,
         cost |-> 0, would |-> {}, ceiling |-> 0, missed |-> {}]

Init ==
  /\ world = InitWorld /\ moves = 0 /\ starts = 0
  /\ board = <<>>
  /\ cadence = [on |-> TRUE, ceiling |-> Cap] /\ settings = 0
  /\ asks = [accepted |-> 0, refused |-> 0, cents |-> 0]
  /\ proc = [p \in Browser \cup Runner |-> Idle]
  /\ charged = 0 /\ abandoned = 0 /\ raced = {}

-----------------------------------------------------------------------------
\* A sprint's label is its kind and its last day; the day it starts is what
\* cadences are counted back from.
Labels == {board[i].label : i \in DOMAIN board}
LastDay == IF board = <<>> THEN 0
           ELSE CHOOSE d \in {l[2] : l \in Labels} : \A l \in Labels : l[2] <= d
StartOf(label) == IF label[1] = "week" THEN label[2] - 6 ELSE label[2]

\* The Monday after the last sprint on the board, seven days long.
NextWeek == <<"week", 7 * (LastDay \div 7 + 1)>>
CadenceLabel == <<"cadence", Today>>

ProposeFor(p) == Propose(world, StartOf(proc[p].label), proc[p].goal)

Looked(p, label) == proc[p].label = label /\ ~proc[p].exists /\ proc[p].at \in {"read", "checked"}

\* Slip: the label is not asked about.
ApprovableAgain(p) == proc[p].items # <<>>

\* crew.Approve: the items and what was read of the label earlier decide.
Approvable(p) == proc[p].items # <<>> /\ ~proc[p].exists

Materialise(p, by) ==
  LET q == proc[p]
  IN  /\ Len(board) < MaxSprints
      /\ board' = Append(board, [label |-> q.label, by |-> by, items |-> q.items,
                                 shown |-> q.shown, unmoved |-> q.seen = world])
      /\ raced' = raced \cup {l \in {q.label} :
                               \E o \in (Browser \cup Runner) \ {p} : Looked(o, l)}

-----------------------------------------------------------------------------
(***************************************************************************)
(* The planning page.                                                      *)
(***************************************************************************)
OpenPage(p, goal) ==
  /\ proc[p].at = "idle"
  /\ starts < MaxStarts /\ starts' = starts + 1
  /\ proc' = [proc EXCEPT ![p] = [Idle EXCEPT !.at = "page", !.label = NextWeek, !.goal = goal]]
  /\ UNCHANGED <<world, moves, board, cadence, settings, asks, charged, abandoned, raced>>

\* approvePlan up to Approve; the page offers it beside a model's plan too.
ReadPlan(p) ==
  /\ proc[p].at \in {"page", "shown"}
  /\ proc' = [proc EXCEPT ![p] = [Idle EXCEPT
                !.at = "read", !.label = proc[p].label, !.items = ProposeFor(p),
                !.exists = proc[p].label \in Labels]]
  /\ UNCHANGED <<world, moves, starts, board, cadence, settings, asks, charged, abandoned, raced>>

\* approveModelPlan up to Approve: the plan is proposed again, and the refs
\* of the answer are looked up in it as it comes.
ReadModelPlan(p) ==
  LET det == ProposeFor(p)
      holds == ValidatePlanAnswer(world, det, proc[p].answer)
  IN  /\ proc[p].at = "shown"
      /\ proc' = [proc EXCEPT ![p] =
           IF holds THEN [@ EXCEPT !.at = "read", !.det = det,
                                   !.items = ModelPlanFrom(det, proc[p].answer),
                                   !.exists = proc[p].label \in Labels]
           ELSE Idle]
      /\ UNCHANGED <<world, moves, starts, board, cadence, settings, asks, charged, abandoned, raced>>

Approve(p) ==
  /\ p \in Browser /\ proc[p].at = "read"
  /\ IF Approvable(p)
     THEN Materialise(p, IF proc[p].answer = <<>> THEN "plan" ELSE "model")
     ELSE UNCHANGED <<board, raced>>
  /\ proc' = [proc EXCEPT ![p] = Idle]
  /\ UNCHANGED <<world, moves, starts, cadence, settings, asks, charged, abandoned>>

-----------------------------------------------------------------------------
(***************************************************************************)
(* Asking the model.                                                       *)
(***************************************************************************)
AskAllowed == Supervisor \in Active(world) /\ AskWorst <= Brief[Supervisor].perTask

Asked == asks.accepted + asks.refused
           + Cardinality({p \in Browser : proc[p].at \in {"called", "answered"}})

AskRefused(p) ==
  /\ proc[p].at = "page" /\ Asked < MaxAsks /\ ~AskAllowed
  /\ asks' = [asks EXCEPT !.refused = @ + 1]
  /\ UNCHANGED <<world, moves, starts, board, cadence, settings, proc, charged, abandoned, raced>>

\* The packet and the answer's refs follow the order the page is sorted in.
AskCalls(p) ==
  /\ proc[p].at = "page" /\ Asked < MaxAsks /\ AskAllowed
  /\ proc' = [proc EXCEPT ![p].at = "called", ![p].det = ByGuard(ProposeFor(p)),
                          ![p].seen = world]
  /\ UNCHANGED <<world, moves, starts, board, cadence, settings, asks, charged, abandoned, raced>>

GatewayAnswers(p) ==
  /\ proc[p].at = "called"
  /\ proc' = [proc EXCEPT ![p].at = "answered", ![p].cost = AskCost]
  /\ charged' = charged + AskCost
  /\ UNCHANGED <<world, moves, starts, board, cadence, settings, asks, abandoned, raced>>

\* Slip: an accepted answer is counted as refused as well.
BookedTwice(accepted, cost) ==
  [asks EXCEPT !.accepted = @ + (IF accepted THEN 1 ELSE 0),
               !.refused = @ + 1, !.cents = @ + cost]

\* Slip: an answer that is refused is booked like a call never made.
BookedIfAccepted(accepted, cost) ==
  [asks EXCEPT !.accepted = @ + (IF accepted THEN 1 ELSE 0),
               !.refused = @ + (IF accepted THEN 0 ELSE 1),
               !.cents = @ + (IF accepted THEN cost ELSE 0)]

\* SettlePlanAsk: one row, whatever became of the answer.
Booked(accepted, cost) ==
  [asks EXCEPT !.accepted = @ + (IF accepted THEN 1 ELSE 0),
               !.refused = @ + (IF accepted THEN 0 ELSE 1), !.cents = @ + cost]

\* SpendInMonth counts what was booked to the supervisor.
SettleAsk(accepted, cost) ==
  /\ asks' = Booked(accepted, cost)
  /\ world' = [world EXCEPT !.spent[Supervisor] = @ + asks'.cents - asks.cents]

AskReturns(p, answer) ==
  LET q == proc[p]
      holds == ValidatePlanAnswer(q.seen, q.det, answer)
  IN  /\ q.at = "answered"
      /\ SettleAsk(holds, q.cost)
      /\ proc' = [proc EXCEPT ![p] =
           IF holds THEN [q EXCEPT !.at = "shown", !.answer = answer, !.cost = 0,
                            !.seen = IF q.seen = world THEN world' ELSE q.seen,
                            !.shown = ByGuard(ModelPlanFrom(q.det, answer))]
           ELSE [Idle EXCEPT !.at = "page", !.label = q.label, !.goal = q.goal]]
      /\ UNCHANGED <<moves, starts, board, cadence, settings, charged, abandoned, raced>>

\* The call fails, times out, or the person closes the page (the context is
\* the request's): nothing is booked, whatever the gateway charges.
AskGivesUp(p) ==
  /\ proc[p].at \in {"called", "answered"}
  /\ SettleAsk(FALSE, 0)
  /\ abandoned' = abandoned + proc[p].cost
  /\ proc' = [proc EXCEPT ![p] = [Idle EXCEPT !.at = "page", !.label = proc[p].label,
                                              !.goal = proc[p].goal]]
  /\ UNCHANGED <<moves, starts, board, cadence, settings, charged, raced>>

-----------------------------------------------------------------------------
(***************************************************************************)
(* The runner's -due mode and the switch it obeys.                         *)
(***************************************************************************)
\* price: an item of nobody on the roster, of somebody suspended or without a
\* price is refused, and one whose worst case is over its guard. An item
\* without a guard is not: the supervisor's notes are priced and counted.
WouldRun(w, items) ==
  {i \in DOMAIN items :
     LET it == items[i]
     IN  /\ it.who \in OnRoster(w) \cap Priced /\ w.state[it.who] # "suspended"
         /\ it.budget <= 0 \/ Worst[it.who] <= it.budget}

DueWorst(items, would) == SumFunctionOnSet([i \in would |-> Worst[items[i].who]], would)

\* Slip: the runner's own flag wins.
CapAlone(ceiling) == Cap

EffectiveCeiling(ceiling) == IF ceiling < Cap THEN ceiling ELSE Cap

\* What is due is read and priced once, before anything is created.
DuePreflight(r) ==
  /\ proc[r].at = "idle" /\ cadence.on
  /\ starts < MaxStarts /\ starts' = starts + 1
  /\ LET due == CadenceDue(world, Today)
     IN  proc' = [proc EXCEPT ![r] = [Idle EXCEPT
                    !.at = "priced", !.label = CadenceLabel, !.items = due,
                    !.would = WouldRun(world, due),
                    !.ceiling = EffectiveCeiling(cadence.ceiling)]]
  /\ UNCHANGED <<world, moves, board, cadence, settings, asks, charged, abandoned, raced>>

\* Slip: the switch is read once, before the pricing.
DueStandsAnyway(r) ==
  /\ CadenceLabel \notin Labels
  /\ proc[r].would # {}
  /\ DueWorst(proc[r].items, proc[r].would) <= proc[r].ceiling

\* dueExecute's checks: the switch is read again, the ceiling is not.
DueStands(r) ==
  /\ cadence.on
  /\ CadenceLabel \notin Labels
  /\ proc[r].would # {}
  /\ DueWorst(proc[r].items, proc[r].would) <= proc[r].ceiling

DueRechecks(r) ==
  /\ proc[r].at = "priced"
  /\ proc' = [proc EXCEPT ![r] = IF DueStands(r) THEN [@ EXCEPT !.at = "checked"] ELSE Idle]
  /\ UNCHANGED <<world, moves, starts, board, cadence, settings, asks, charged, abandoned, raced>>

\* Approve with Existing left FALSE; what follows is the live runner's.
DueCreates(r) ==
  /\ proc[r].at = "checked"
  /\ Materialise(r, r)
  /\ proc' = [proc EXCEPT ![r] = Idle]
  /\ UNCHANGED <<world, moves, starts, cadence, settings, asks, charged, abandoned>>

SetCadence(on, ceiling) ==
  /\ settings < MaxSettings /\ settings' = settings + 1
  /\ cadence' = [on |-> on, ceiling |-> ceiling]
  /\ proc' = [p \in DOMAIN proc |->
                IF proc[p].at \in {"priced", "checked"}
                THEN [proc[p] EXCEPT !.missed = @ \cup {proc[p].at}] ELSE proc[p]]
  /\ UNCHANGED <<world, moves, starts, board, asks, charged, abandoned, raced>>

-----------------------------------------------------------------------------
\* The environment: whatever else the console does to the rows a plan reads.
WorldMoves ==
  /\ moves < MaxMoves /\ moves' = moves + 1
  /\ world' \in NextWorlds(world) \cap World
  /\ UNCHANGED <<starts, board, cadence, settings, asks, proc, charged, abandoned, raced>>

BrowserStep(p) ==
  \/ \E g \in Goals : OpenPage(p, g)
  \/ ReadPlan(p) \/ ReadModelPlan(p) \/ Approve(p)
  \/ AskRefused(p) \/ AskCalls(p) \/ GatewayAnswers(p) \/ AskGivesUp(p)
  \/ \E a \in Answers : AskReturns(p, a)

RunnerStep(r) == DuePreflight(r) \/ DueRechecks(r) \/ DueCreates(r)

Next ==
  \/ \E p \in Browser : BrowserStep(p)
  \/ \E r \in Runner : RunnerStep(r)
  \/ \E on \in BOOLEAN, c \in Ceilings : SetCadence(on, c)
  \/ WorldMoves

Spec == Init /\ [][Next]_vars

-----------------------------------------------------------------------------
\* Types: the rows keep their shape, and every plan in a handler's hands is
\* made of items for names the console knows.
TypeOK ==
  /\ world \in World /\ moves \in 0..MaxMoves /\ starts \in 0..MaxStarts
  /\ \A i \in DOMAIN board : \A k \in DOMAIN board[i].items : board[i].items[k].who \in Names
  /\ cadence \in [on : BOOLEAN, ceiling : Ceilings \cup {Cap}] /\ settings \in 0..MaxSettings
  /\ asks \in [accepted : 0..MaxAsks, refused : 0..MaxAsks, cents : Nat]
  /\ Asked <= MaxAsks
  /\ \A p \in DOMAIN proc :
       proc[p].at \in IF p \in Browser THEN {"idle", "page", "called", "answered", "shown", "read"}
                      ELSE {"idle", "priced", "checked"}
  /\ charged \in Nat /\ abandoned \in Nat
  /\ raced \subseteq Labels

\* No label is on the board twice, unless the second creator had looked for it
\* before the first one wrote: neither a second click on a page left open nor
\* a second -due of the day doubles a sprint (Approve's Existing, dueExecute's
\* lookup; sprints.label itself is not unique).
LabelOnce ==
  \A i, j \in DOMAIN board :
    i # j /\ board[i].label = board[j].label => board[i].label \in raced

\* A model's plan never costs more than the proposal it answers: refs are
\* unique, and no guard goes up (ValidatePlanAnswer), both when it is shown
\* and when it is approved against a proposal made later.
ModelCostsNoMore ==
  \A p \in Browser :
    /\ proc[p].at = "shown" => Total(proc[p].shown) <= Total(proc[p].det)
    /\ proc[p].at = "read" /\ proc[p].answer # <<>> => Total(proc[p].items) <= Total(proc[p].det)

\* Work a model moves to somebody else goes to an analyst of the desk it is
\* on, whoever was active when the answer was read: of each item about to be
\* created, its holder is the proposal's or belongs to the item's desk.
MovedWorkStaysOnTheDesk ==
  \A p \in Browser :
    proc[p].at = "read" /\ proc[p].answer # <<>> =>
      \A k \in DOMAIN proc[p].items :
        LET it == proc[p].items[k]
            was == proc[p].det[proc[p].answer[k].ref]
        IN  it.who # was.who => Brief[it.who].desk = it.desk

\* A cadence sprint is created only under the switch and the ceilings: the
\* worst case of everything in it that would run, the notes without a guard
\* among them, fits the runner's flag, and the page's ceiling and switch as
\* they stand, unless a person changed them after the run had read them
\* (duePreflight, dueExecute).
DueObeysThePage ==
  [][\A r \in Runner :
       board' # board /\ board'[Len(board')].by = r =>
         LET worst == DueWorst(board'[Len(board')].items, proc[r].would)
         IN  /\ worst <= Cap
             /\ cadence.on \/ "checked" \in proc[r].missed
             /\ worst <= cadence.ceiling \/ proc[r].missed # {}]_vars

\* Every cent the gateway charged for a planning call is booked to the
\* supervisor, refused answers too, except for calls given up on and calls
\* whose answer is on its way (SettlePlanAsk, refusePlanAsk).
AskIsBooked ==
  charged = asks.cents + abandoned
              + SumFunctionOnSet([p \in Browser |->
                                    IF proc[p].at = "answered" THEN proc[p].cost ELSE 0],
                                 Browser)

\* As approveModelPlan's comment has it, the answer is validated "exactly the
\* way askPlan validated it the first time": with nothing changed in between,
\* what is approved is what was shown.
ApprovedIsShown ==
  \A i \in DOMAIN board :
    board[i].by = "model" /\ board[i].unmoved => ToSet(board[i].items) = ToSet(board[i].shown)
=============================================================================
