---------------------------- MODULE RosterProofs ----------------------------
(***************************************************************************)
(* Theorems about the roster (Roster): for any crew, desks, people, tasks, *)
(* handlers in flight and bounds.                                          *)
(***************************************************************************)
EXTENDS Roster, TLAPS

-----------------------------------------------------------------------------
(* Types. *)

\* What a handler in flight is about, by its kind.
Shape(r) ==
  /\ r.op \in {"hire", "state", "rebrief", "remove", "transfer"} => r.name \in Analyst
  /\ r.op \in {"hire", "rebrief", "transfer", "halt", "lift"} => r.desk \in Desk
  /\ r.op \in {"hire", "transfer"} => r.owner \in Person
  /\ r.op = "state" => r.to \in States
  /\ r.op = "transfer" => r.seen \in Entry
  /\ r.op \in {"assign", "block", "post", "return"} => r.task \in Task
  /\ r.op \in {"post", "return"} => r.copy \in 1..Copies

RosterTyped == roster \in [Analyst -> Entry \cup {Absent}]
TaskTyped == task \in [Task -> Row]
DraftTyped == draft \in [Task -> [1..Copies -> ArtifactStates]]
HaltTyped == halt \in [Desk -> {NoHalt} \cup [names : SUBSET Analyst]]
ProcTyped == proc \in [Proc -> Handler] /\ \A p \in Proc : Shape(proc[p])
CountTyped == ops \in 0..MaxOps /\ fails \in 0..MaxFails

Typed == RosterTyped /\ TaskTyped /\ DraftTyped /\ HaltTyped /\ ProcTyped /\ CountTyped

LEMMA TypedIsTypeOK == Typed => TypeOK
BY DEF Typed, TypeOK, RosterTyped, TaskTyped, DraftTyped, HaltTyped, ProcTyped, CountTyped

LEMMA Bounds ==
  /\ Copies \in Nat \ {0} /\ MaxOps \in Nat /\ MaxFails \in Nat
  /\ 1..Copies \subseteq 0..Copies
<1>1. Copies \in Nat \ {0} /\ MaxOps \in Nat /\ MaxFails \in Nat
  BY RosterAssumption
<1> QED
  BY <1>1

LEMMA IdleShape == Idle \in Handler /\ Shape(Idle)
<1>1. Idle \in Handler
  BY Bounds DEF Idle, Handler, Kinds
<1>2. Shape(Idle)
  BY DEF Idle, Shape
<1> QED
  BY <1>1, <1>2

LEMMA TypedInit == Init => Typed
<1> SUFFICES ASSUME Init PROVE Typed
  OBVIOUS
<1>1. RosterTyped /\ TaskTyped
  BY RosterAssumption DEF Init, RosterTyped, TaskTyped
<1>2. DraftTyped
  BY DEF Init, DraftTyped, ArtifactStates
<1>3. HaltTyped
  BY DEF Init, HaltTyped
<1>4. ProcTyped
  BY IdleShape DEF Init, ProcTyped
<1>5. CountTyped
  <2>1. ops = 0 /\ fails = 0
    BY DEF Init
  <2> QED
    BY <2>1, Bounds DEF CountTyped
<1> QED
  BY <1>1, <1>2, <1>3, <1>4, <1>5 DEF Typed

\* One handler moves.
LEMMA ProcStep ==
  ASSUME ProcTyped, NEW p \in Proc, NEW r \in Handler, Shape(r), proc' = [proc EXCEPT ![p] = r]
  PROVE  ProcTyped'
BY DEF ProcTyped

LEMMA Ended == ASSUME ProcTyped, NEW p \in Proc, End(p) PROVE ProcTyped'
BY IdleShape, ProcStep DEF End

LEMMA Gone ==
  ASSUME ProcTyped, NEW p \in Proc, NEW at \in {"delete", "task"}, Goto(p, at)
  PROVE  ProcTyped'
<1> DEFINE r == [proc[p] EXCEPT !.at = at]
<1>1. proc[p] \in Handler /\ Shape(proc[p])
  BY DEF ProcTyped
<1>2. r \in Handler
  BY <1>1 DEF Handler
<1>2a. Shape(r)
  BY <1>1 DEF Handler, Shape
<1>3. proc' = [proc EXCEPT ![p] = r]
  BY DEF Goto, ProcTyped
<1> HIDE DEF r
<1> QED
  BY <1>2, <1>2a, <1>3, ProcStep

LEMMA Begun ==
  ASSUME Typed, NEW p \in Proc, NEW r \in Handler, Shape(r), Begin(p, r)
  PROVE  Typed'
<1>1. ProcTyped'
  BY ProcStep DEF Typed, Begin
<1>2. CountTyped'
  BY Bounds DEF Typed, Begin, CountTyped
<1>3. RosterTyped' /\ TaskTyped' /\ DraftTyped' /\ HaltTyped'
  BY DEF Typed, Begin, boardVars, RosterTyped, TaskTyped, DraftTyped, HaltTyped
<1> QED
  BY <1>1, <1>2, <1>3 DEF Typed

\* Nobody comes, goes or changes hands; handlers only end or go on.
Quiet ==
  /\ \A a \in Analyst : /\ roster'[a] = Absent <=> roster[a] = Absent
                        /\ roster'[a].owner = roster[a].owner
                        /\ roster'[a].parent = roster[a].parent
  /\ UNCHANGED <<task, met, booked, reopened, byHand, missing>>
  /\ \A p \in Proc :
       \/ proc'[p].op = "idle"
       \/ /\ proc'[p].op = proc[p].op /\ proc'[p].name = proc[p].name
          /\ proc'[p].parent = proc[p].parent /\ proc'[p].seen = proc[p].seen
          /\ proc[p].op = "remove" /\ proc'[p].at = "delete" =>
               proc[p].at = "delete" \/ ChildrenOf(proc[p].name) = {}

\* A task changes its state and nothing else.
TaskMoves(p, t, s) ==
  /\ t \in Task /\ s \in TaskStates
  /\ WriteTask(t, [task[t] EXCEPT !.state = s])
  /\ End(p) /\ UNCHANGED <<roster, met, byHand, missing>>

\* What a handler that comes in has looked at.
Looked(r) ==
  /\ r.op # "idle"
  /\ r.op = "remove" => /\ r.name \in Analyst /\ r.name # Supervisor /\ OpenOf(r.name) = {}
                        /\ r.at = "children"
  /\ r.op = "transfer" =>
       /\ r.name \in Analyst /\ OnRoster(r.name) /\ r.seen = roster[r.name] /\ r.parent # r.name
       /\ r.parent \notin {Nobody, roster[r.name].parent} => MayActUnder(r.name, r.parent)
  /\ r.op = "assign" => Assignable(r.name)
  /\ r.op = "halt" => halt[r.desk] = NoHalt /\ r.todo = ToSuspend(r.desk) /\ r.did = {}
  /\ r.op = "lift" => halt[r.desk] # NoHalt /\ r.todo = halt[r.desk].names
  /\ r.op \in {"post", "return"} => r.at = "artifact" /\ Unsettled(r.task, r.copy)

LEMMA NobodyAbsent == Nobody \notin Analyst /\ Absent \notin Entry /\ "" # Nobody
BY RosterAssumption DEF Absent, Entry, States, Nobody

LEMMA StartsLooked ==
  ASSUME Typed, NEW p \in Proc, Starts(p)
  PROVE  \E r \in Handler : Shape(r) /\ Looked(r) /\ Begin(p, r)
<1>0. Idle \in Handler /\ Idle.op = "idle" /\ halt \in [Desk -> {NoHalt} \cup [names : SUBSET Analyst]]
      /\ roster \in [Analyst -> Entry \cup {Absent}]
  BY IdleShape DEF Typed, RosterTyped, HaltTyped, Idle
<1>1. CASE BeginHire(p)
  <2>1. PICK a \in Analyst, d \in Desk, u \in Person, q \in Analyst \cup {Nobody} :
          Begin(p, [Idle EXCEPT !.op = "hire", !.name = a, !.desk = d, !.owner = u, !.parent = q])
    BY <1>1 DEF BeginHire
  <2> DEFINE r == [Idle EXCEPT !.op = "hire", !.name = a, !.desk = d, !.owner = u, !.parent = q]
  <2>2. r \in Handler
    BY <1>0, RosterAssumption DEF Handler, Kinds
  <2>3. Shape(r)
    BY <1>0 DEF Handler, Shape
  <2>4. Looked(r)
    BY <1>0 DEF Handler, Looked
  <2> QED
    BY <2>1, <2>2, <2>3, <2>4
<1>2. CASE BeginState(p)
  <2>1. PICK a \in Analyst, s \in States :
          Begin(p, [Idle EXCEPT !.op = "state", !.name = a, !.to = s])
    BY <1>2 DEF BeginState
  <2> DEFINE r == [Idle EXCEPT !.op = "state", !.name = a, !.to = s]
  <2>2. r \in Handler
    BY <1>0 DEF Handler, Kinds
  <2>3. Shape(r)
    BY <1>0 DEF Handler, Shape
  <2>4. Looked(r)
    BY <1>0 DEF Handler, Looked
  <2> QED
    BY <2>1, <2>2, <2>3, <2>4
<1>3. CASE BeginRebrief(p)
  <2>1. PICK a \in Analyst, d \in Desk :
          Begin(p, [Idle EXCEPT !.op = "rebrief", !.name = a, !.desk = d])
    BY <1>3 DEF BeginRebrief
  <2> DEFINE r == [Idle EXCEPT !.op = "rebrief", !.name = a, !.desk = d]
  <2>2. r \in Handler
    BY <1>0 DEF Handler, Kinds
  <2>3. Shape(r)
    BY <1>0 DEF Handler, Shape
  <2>4. Looked(r)
    BY <1>0 DEF Handler, Looked
  <2> QED
    BY <2>1, <2>2, <2>3, <2>4
<1>4. CASE BeginRemove(p)
  <2>1. PICK a \in Analyst :
          /\ a # Supervisor /\ OpenOf(a) = {}
          /\ Begin(p, [Idle EXCEPT !.op = "remove", !.name = a, !.at = "children"])
    BY <1>4 DEF BeginRemove
  <2> DEFINE r == [Idle EXCEPT !.op = "remove", !.name = a, !.at = "children"]
  <2>2. r \in Handler
    BY <1>0 DEF Handler, Kinds
  <2>3. Shape(r)
    BY <1>0 DEF Handler, Shape
  <2>4. r.op = "remove" /\ r.name = a /\ r.at = "children"
    BY <1>0 DEF Handler
  <2>5. Looked(r)
    BY <2>1, <2>4 DEF Looked
  <2> QED
    BY <2>1, <2>2, <2>3, <2>5
<1>5. CASE BeginTransfer(p)
  <2>1. PICK a \in Analyst, d \in Desk, w \in Person, q \in Analyst \cup {Nobody} :
          /\ (\E u \in Person : MayManage(u, a)) /\ q # a
          /\ q \notin {Nobody, roster[a].parent} => MayActUnder(a, q)
          /\ Begin(p, [Idle EXCEPT !.op = "transfer", !.name = a, !.desk = d, !.owner = w,
                                   !.parent = q, !.seen = roster[a]])
    BY <1>5 DEF BeginTransfer
  <2>2. roster[a] \in Entry /\ OnRoster(a)
    BY <2>1, <1>0 DEF MayManage, OnRoster
  <2> DEFINE r == [Idle EXCEPT !.op = "transfer", !.name = a, !.desk = d, !.owner = w,
                               !.parent = q, !.seen = roster[a]]
  <2>3. r \in Handler
    BY <1>0, <2>2 DEF Handler, Kinds
  <2>4. Shape(r)
    BY <1>0, <2>2 DEF Handler, Shape
  <2>5. r.op = "transfer" /\ r.name = a /\ r.parent = q /\ r.seen = roster[a]
    BY <1>0 DEF Handler
  <2>6. Looked(r)
    BY <2>1, <2>2, <2>5 DEF Looked
  <2> QED
    BY <2>1, <2>3, <2>4, <2>6
<1>6. CASE BeginAssign(p)
  <2>1. PICK t \in Task, a \in Analyst \cup {Nobody} :
          /\ Assignable(a)
          /\ Begin(p, [Idle EXCEPT !.op = "assign", !.task = t, !.name = a])
    BY <1>6 DEF BeginAssign
  <2> DEFINE r == [Idle EXCEPT !.op = "assign", !.task = t, !.name = a]
  <2>2. r \in Handler
    BY <1>0 DEF Handler, Kinds
  <2>3. Shape(r)
    BY <1>0 DEF Handler, Shape
  <2>4. r.op = "assign" /\ r.name = a
    BY <1>0 DEF Handler
  <2>5. Looked(r)
    BY <2>1, <2>4 DEF Looked
  <2> QED
    BY <2>1, <2>2, <2>3, <2>5
<1>7. CASE BeginBlock(p)
  <2>1. PICK t \in Task : Begin(p, [Idle EXCEPT !.op = "block", !.task = t])
    BY <1>7 DEF BeginBlock
  <2> DEFINE r == [Idle EXCEPT !.op = "block", !.task = t]
  <2>2. r \in Handler
    BY <1>0 DEF Handler, Kinds
  <2>3. Shape(r)
    BY <1>0 DEF Handler, Shape
  <2>4. Looked(r)
    BY <1>0 DEF Handler, Looked
  <2> QED
    BY <2>1, <2>2, <2>3, <2>4
<1>8. ASSUME NEW op \in {"post", "return"}, BeginJudge(p, op)
      PROVE  \E r \in Handler : Shape(r) /\ Looked(r) /\ Begin(p, r)
  <2>1. PICK t \in Task, k \in 1..Copies :
          /\ Unsettled(t, k)
          /\ Begin(p, [Idle EXCEPT !.op = op, !.at = "artifact", !.task = t, !.copy = k])
    BY <1>8 DEF BeginJudge
  <2> DEFINE r == [Idle EXCEPT !.op = op, !.at = "artifact", !.task = t, !.copy = k]
  <2>2. r \in Handler
    BY <1>0, Bounds DEF Handler, Kinds
  <2>3. Shape(r)
    BY <1>0 DEF Handler, Shape
  <2>4. r.op = op /\ r.at = "artifact" /\ r.task = t /\ r.copy = k
    BY <1>0 DEF Handler
  <2>5. Looked(r)
    BY <2>1, <2>4 DEF Looked
  <2> QED
    BY <2>1, <2>2, <2>3, <2>5
<1>9. CASE BeginHalt(p)
  <2>1. PICK d \in Desk :
          /\ halt[d] = NoHalt
          /\ Begin(p, [Idle EXCEPT !.op = "halt", !.at = "suspend", !.desk = d, !.todo = ToSuspend(d)])
    BY <1>9 DEF BeginHalt
  <2> DEFINE r == [Idle EXCEPT !.op = "halt", !.at = "suspend", !.desk = d, !.todo = ToSuspend(d)]
  <2>2. ToSuspend(d) \in SUBSET Analyst
    BY DEF ToSuspend
  <2>3. r \in Handler
    BY <1>0, <2>2 DEF Handler, Kinds
  <2>4. Shape(r)
    BY <1>0 DEF Handler, Shape
  <2>5. r.op = "halt" /\ r.desk = d /\ r.todo = ToSuspend(d) /\ r.did = {}
    BY <1>0 DEF Handler, Idle
  <2>6. Looked(r)
    BY <2>1, <2>5 DEF Looked
  <2> QED
    BY <2>1, <2>3, <2>4, <2>6
<1>10. CASE BeginLift(p)
  <2>1. PICK d \in Desk : /\ halt[d] # NoHalt
          /\ Begin(p, [Idle EXCEPT !.op = "lift", !.at = "wake", !.desk = d, !.todo = halt[d].names])
    BY <1>10 DEF BeginLift
  <2> DEFINE r == [Idle EXCEPT !.op = "lift", !.at = "wake", !.desk = d, !.todo = halt[d].names]
  <2>2. halt[d].names \in SUBSET Analyst
    BY <1>0, <2>1
  <2>3. r \in Handler
    BY <1>0, <2>2 DEF Handler, Kinds
  <2>4. Shape(r)
    BY <1>0 DEF Handler, Shape
  <2>5. r.op = "lift" /\ r.desk = d /\ r.todo = halt[d].names
    BY <1>0 DEF Handler
  <2>6. Looked(r)
    BY <2>1, <2>5 DEF Looked
  <2> QED
    BY <2>1, <2>3, <2>4, <2>6
<1> QED
  BY <1>1, <1>2, <1>3, <1>4, <1>5, <1>6, <1>7, <1>8, <1>9, <1>10 DEF Starts

LEMMA StartsTyped == ASSUME Typed, NEW p \in Proc, Starts(p) PROVE Typed'
BY StartsLooked, Begun

\* A handler that ends or goes on touches no count.
LEMMA SameCount == ASSUME CountTyped, Same PROVE CountTyped'
BY DEF Same, CountTyped

\* UPDATE analysts SET state.
LEMMA StateWritten ==
  ASSUME RosterTyped, NEW a \in Analyst, NEW s \in States, NEW why, WriteState(a, s, why)
  PROVE  RosterTyped'
<1>1. CASE OnRoster(a)
  <2>1. roster[a] \in Entry
    BY <1>1 DEF RosterTyped, OnRoster
  <2>2. [roster[a] EXCEPT !.state = s] \in Entry
    BY <2>1 DEF Entry
  <2> QED
    BY <1>1, <2>2 DEF WriteState, RosterTyped
<1>2. CASE ~OnRoster(a)
  BY <1>2 DEF WriteState, RosterTyped
<1> QED
  BY <1>1, <1>2

\* A write of one task.
LEMMA TaskWritten ==
  ASSUME TaskTyped, NEW t \in Task, NEW row \in Row, WriteTask(t, row)
  PROVE  TaskTyped'
BY DEF TaskTyped, WriteTask

LEMMA TaskStateTyped ==
  ASSUME TaskTyped, NEW t \in Task, NEW s \in TaskStates
  PROVE  [task[t] EXCEPT !.state = s] \in Row
BY DEF TaskTyped, Row

\* The parent a transfer ends under is an analyst or nobody.
LEMMA ParentTyped ==
  ASSUME NEW r \in Handler, Shape(r), r.op = "transfer"
  PROVE  NewParent(r) \in Analyst \cup {Nobody}
<1>1. r.parent \in Analyst \cup {Nobody} /\ r.seen \in Entry /\ r.desk \in Desk
  BY DEF Handler, Shape
<1>2. r.seen.parent \in Analyst \cup {Nobody}
  BY <1>1 DEF Entry
<1>3. Partner[r.desk] \in Analyst \cup {Nobody} /\ Supervisor \in Analyst
  BY <1>1, RosterAssumption
<1> QED
  BY <1>1, <1>2, <1>3 DEF NewParent

LEMMA TransferTyped == ASSUME Typed, NEW p \in Proc, Transfer(p) PROVE RosterTyped' /\ TaskTyped'
<1> DEFINE r == proc[p]
<1>1. /\ r \in Handler /\ Shape(r) /\ r.op = "transfer" /\ r.name \in Analyst /\ r.desk \in Desk
      /\ r.owner \in Person
  BY DEF Typed, ProcTyped, Transfer, Shape
<1>2. NewParent(r) \in Analyst \cup {Nobody}
  BY <1>1, ParentTyped
<1>3. RosterTyped'
  <2>1. CASE OnRoster(r.name)
    <3> DEFINE row == [roster[r.name] EXCEPT !.desk = r.desk, !.owner = r.owner, !.parent = NewParent(r)]
    <3>1. roster[r.name] \in Entry
      BY <1>1, <2>1 DEF Typed, RosterTyped, OnRoster
    <3>2. row \in Entry
      BY <1>1, <1>2, <3>1 DEF Entry
    <3>3. roster' = [roster EXCEPT ![r.name] = row]
      BY <1>1, <2>1 DEF Transfer, Typed, RosterTyped
    <3> HIDE DEF row
    <3> QED
      BY <1>1, <3>2, <3>3 DEF Typed, RosterTyped
  <2>2. CASE ~OnRoster(r.name)
    BY <2>2 DEF Transfer, Typed, RosterTyped
  <2> QED
    BY <2>1, <2>2
<1>4. ASSUME NEW t \in Task PROVE [task[t] EXCEPT !.desk = r.desk, !.owner = r.owner] \in Row
  <2>1. task[t] \in Row
    BY DEF Typed, TaskTyped
  <2> QED
    BY <1>1, <2>1 DEF Row
<1>5. TaskTyped'
  BY <1>4 DEF Transfer, Typed, TaskTyped
<1> QED
  BY <1>3, <1>5

LEMMA ContinuesTyped == ASSUME Typed, NEW p \in Proc, Continues(p) PROVE Typed'
<1> DEFINE r == proc[p]
<1>0. /\ RosterTyped /\ TaskTyped /\ DraftTyped /\ HaltTyped /\ ProcTyped /\ CountTyped
      /\ r \in Handler /\ Shape(r)
  BY DEF Typed, ProcTyped
<1>k. /\ UNCHANGED roster => RosterTyped'
      /\ UNCHANGED task => TaskTyped'
      /\ UNCHANGED draft => DraftTyped'
      /\ UNCHANGED halt => HaltTyped'
      /\ UNCHANGED <<ops, fails>> => CountTyped'
      /\ Same => CountTyped'
      /\ End(p) => ProcTyped'
  BY <1>0, Ended, SameCount DEF RosterTyped, TaskTyped, DraftTyped, HaltTyped, CountTyped
<1>1. CASE Hire(p)
  <2>1. r.name \in Analyst /\ r.desk \in Desk /\ r.owner \in Person /\ r.parent \in Analyst \cup {Nobody}
    BY <1>0, <1>1 DEF Hire, Shape, Handler
  <2>2. [state |-> "active", desk |-> r.desk, owner |-> r.owner, parent |-> r.parent] \in Entry
    BY <2>1 DEF Entry, States
  <2>3. RosterTyped'
    BY <1>0, <1>1, <2>1, <2>2 DEF Hire, RosterTyped
  <2> QED
    BY <2>3, <1>k, <1>1 DEF Hire, Typed
<1>2. CASE SetState(p)
  <2>1. r.name \in Analyst /\ r.to \in States /\ WriteState(r.name, r.to, "")
    BY <1>0, <1>2 DEF SetState, Shape
  <2> QED
    BY <2>1, <1>0, <1>k, <1>2, StateWritten DEF SetState, Typed
<1>3. CASE Rebrief(p)
  <2>1. r.name \in Analyst /\ r.desk \in Desk
    BY <1>0, <1>3 DEF Rebrief, Shape
  <2>2. OnRoster(r.name) => [roster[r.name] EXCEPT !.desk = r.desk] \in Entry
    <3>1. OnRoster(r.name) => roster[r.name] \in Entry
      BY <1>0, <2>1 DEF RosterTyped, OnRoster
    <3> QED
      BY <2>1, <3>1 DEF Entry
  <2>3. RosterTyped'
    BY <1>0, <1>3, <2>1, <2>2 DEF Rebrief, RosterTyped
  <2> QED
    BY <2>3, <1>k, <1>3 DEF Rebrief, Typed
<1>4. CASE RemoveLooks(p)
  <2>1. ProcTyped'
    BY <1>0, <1>k, <1>4, Gone DEF RemoveLooks
  <2> QED
    BY <2>1, <1>k, <1>4 DEF RemoveLooks, Typed, boardVars
<1>5. CASE Remove(p)
  <2>1. RosterTyped'
    BY <1>0, <1>5 DEF Remove, RosterTyped
  <2> QED
    BY <2>1, <1>k, <1>5 DEF Remove, Typed
<1>6. CASE Transfer(p)
  BY <1>k, <1>6, TransferTyped DEF Transfer, Typed
<1>7. CASE Assign(p)
  <2> DEFINE row == [task[r.task] EXCEPT !.who = r.name, !.state = "active"]
  <2>1. r.task \in Task /\ r.name \in Analyst \cup {Nobody}
    BY <1>0, <1>7 DEF Assign, Shape, Handler
  <2>2. task[r.task] \in Row
    BY <2>1, <1>0 DEF TaskTyped
  <2>3. row \in Row
    BY <2>1, <2>2 DEF Row, TaskStates
  <2>4. WriteTask(r.task, row)
    BY <1>7 DEF Assign
  <2> HIDE DEF row
  <2>5. TaskTyped'
    BY <2>1, <2>3, <2>4, <1>0, TaskWritten
  <2> QED
    BY <2>5, <1>k, <1>7 DEF Assign, Typed
<1>8. CASE Block(p)
  <2>1. r.task \in Task /\ WriteTask(r.task, [task[r.task] EXCEPT !.state = "blocked"])
    BY <1>0, <1>8 DEF Block, Shape
  <2>2. TaskTyped'
    BY <2>1, <1>0, TaskStateTyped, TaskWritten DEF TaskStates
  <2> QED
    BY <2>2, <1>k, <1>8 DEF Block, Typed
<1>9. ASSUME NEW op \in {"post", "return"}, JudgeArtifact(p, op) PROVE Typed'
  <2>1. r.task \in Task /\ r.copy \in 1..Copies /\ Verdict(op) \in ArtifactStates
    BY <1>0, <1>9 DEF JudgeArtifact, At, Shape, Verdict, ArtifactStates
  <2>2. DraftTyped'
    BY <1>0, <1>9, <2>1 DEF JudgeArtifact, DraftTyped
  <2>3. ProcTyped'
    BY <1>0, <1>9, Gone DEF JudgeArtifact
  <2> QED
    BY <2>2, <2>3, <1>k, <1>9 DEF JudgeArtifact, Typed
<1>10. ASSUME NEW op \in {"post", "return"}, JudgeTask(p, op) PROVE Typed'
  <2>1. r.task \in Task /\ Verdict(op) \in TaskStates
        /\ WriteTask(r.task, [task[r.task] EXCEPT !.state = Verdict(op)])
    BY <1>0, <1>10 DEF JudgeTask, At, Shape, Verdict, TaskStates
  <2>2. TaskTyped'
    BY <2>1, <1>0, TaskStateTyped, TaskWritten
  <2> QED
    BY <2>2, <1>k, <1>10 DEF JudgeTask, Typed
<1>11. CASE HaltSuspends(p)
  <2>1. PICK a \in r.todo :
          IF OnRoster(a)
          THEN /\ WriteState(a, "suspended", r.desk)
               /\ proc' = [proc EXCEPT ![p].todo = r.todo \ {a}, ![p].did = r.did \cup {a}]
          ELSE /\ UNCHANGED <<roster, cause>>
               /\ proc' = [proc EXCEPT ![p] = Idle]
    BY <1>11 DEF HaltSuspends
  <2>2. a \in Analyst /\ r.todo \in SUBSET Analyst /\ r.did \in SUBSET Analyst
    BY <1>0 DEF Handler
  <2>3. CASE OnRoster(a)
    <3> DEFINE s == [r EXCEPT !.todo = r.todo \ {a}, !.did = r.did \cup {a}]
    <3>1. s \in Handler
      BY <1>0, <2>2 DEF Handler
    <3>2. Shape(s)
      BY <1>0 DEF Shape, Handler
    <3>3. proc' = [proc EXCEPT ![p] = s]
      BY <1>0, <2>1, <2>3 DEF ProcTyped
    <3> HIDE DEF s
    <3>4. ProcTyped'
      BY <3>1, <3>2, <3>3, <1>0, ProcStep
    <3>5. RosterTyped'
      BY <1>0, <2>1, <2>2, <2>3, StateWritten DEF States
    <3> QED
      BY <3>4, <3>5, <1>k, <1>11 DEF HaltSuspends, Typed
  <2>4. CASE ~OnRoster(a)
    BY <2>1, <2>4, <1>k, <1>11 DEF HaltSuspends, Typed, End
  <2> QED
    BY <2>3, <2>4
<1>12. CASE Halt(p)
  <2>1. r.desk \in Desk /\ r.did \in SUBSET Analyst
    BY <1>0, <1>12 DEF Halt, At, Shape, Handler
  <2>2. HaltTyped'
    BY <1>0, <1>12, <2>1 DEF Halt, HaltTyped
  <2> QED
    BY <2>2, <1>k, <1>12 DEF Halt, Typed
<1>13. CASE LiftWakes(p)
  <2>1. PICK a \in r.todo :
          IF OnRoster(a)
          THEN /\ WriteState(a, "active", "")
               /\ proc' = [proc EXCEPT ![p].todo = r.todo \ {a}]
          ELSE /\ UNCHANGED <<roster, cause>>
               /\ proc' = [proc EXCEPT ![p] = Idle]
    BY <1>13 DEF LiftWakes
  <2>2. a \in Analyst /\ r.todo \in SUBSET Analyst
    BY <1>0 DEF Handler
  <2>3. CASE OnRoster(a)
    <3> DEFINE s == [r EXCEPT !.todo = r.todo \ {a}]
    <3>1. s \in Handler
      BY <1>0, <2>2 DEF Handler
    <3>2. Shape(s)
      BY <1>0 DEF Shape, Handler
    <3>3. proc' = [proc EXCEPT ![p] = s]
      BY <1>0, <2>1, <2>3 DEF ProcTyped
    <3> HIDE DEF s
    <3>4. ProcTyped'
      BY <3>1, <3>2, <3>3, <1>0, ProcStep
    <3>5. RosterTyped'
      BY <1>0, <2>1, <2>2, <2>3, StateWritten DEF States
    <3> QED
      BY <3>4, <3>5, <1>k, <1>13 DEF LiftWakes, Typed
  <2>4. CASE ~OnRoster(a)
    BY <2>1, <2>4, <1>k, <1>13 DEF LiftWakes, Typed, End
  <2> QED
    BY <2>3, <2>4
<1>14. CASE Lift(p)
  <2>1. HaltTyped'
    BY <1>0, <1>14 DEF Lift, HaltTyped
  <2> QED
    BY <2>1, <1>k, <1>14 DEF Lift, Typed
<1> QED
  BY <1>1, <1>2, <1>3, <1>4, <1>5, <1>6, <1>7, <1>8, <1>9, <1>10, <1>11, <1>12, <1>13, <1>14
  DEF Continues

LEMMA TypedNext == Typed /\ [Next]_vars => Typed'
<1> SUFFICES ASSUME Typed, [Next]_vars PROVE Typed'
  OBVIOUS
<1>1. ASSUME NEW p \in Proc, Starts(p) \/ Continues(p) PROVE Typed'
  BY <1>1, StartsTyped, ContinuesTyped
<1>2. ASSUME NEW p \in Proc, Die(p) PROVE Typed'
  <2>1. ProcTyped'
    BY <1>2, Ended DEF Typed, Die
  <2>2. CountTyped'
    BY <1>2, Bounds DEF Typed, Die, CountTyped
  <2> QED
    BY <2>1, <2>2, <1>2 DEF Die, Typed, RosterTyped, TaskTyped, DraftTyped, HaltTyped, boardVars
<1>3. ASSUME NEW t \in Task, NEW k \in 1..Copies, File(t, k) PROVE Typed'
  <2>1. DraftTyped'
    BY <1>3 DEF Typed, File, DraftTyped, ArtifactStates
  <2> QED
    BY <2>1, <1>3 DEF File, Typed, RosterTyped, TaskTyped, HaltTyped, ProcTyped, CountTyped
<1>4. ASSUME UNCHANGED vars PROVE Typed'
  BY <1>4 DEF vars, boardVars, Typed, RosterTyped, TaskTyped, DraftTyped, HaltTyped, ProcTyped,
              CountTyped
<1> QED
  BY <1>1, <1>2, <1>3, <1>4 DEF Next

\* The tables hold what their columns may hold, for any crew, board and
\* overlap of handlers (roster.go, halt.go, crew.go).
THEOREM RosterTypeCorrect == Spec => []TypeOK
<1>1. Init => Typed
  BY TypedInit
<1>2. Typed /\ [Next]_vars => Typed'
  BY TypedNext
<1>3. Typed => TypeOK
  BY TypedIsTypeOK
<1> QED
  BY <1>1, <1>2, <1>3, PTL DEF Spec

-----------------------------------------------------------------------------
(* Steps by what they do to people, parents and owners. *)

LEMMA OnRosterIs == \A a \in Analyst : OnRoster(a) <=> roster[a] # Absent
BY NobodyAbsent DEF OnRoster

\* A handler ends and the others stay.
LEMMA EndsQuietly ==
  ASSUME Typed, NEW p \in Proc, End(p)
  PROVE  /\ proc'[p].op = "idle" /\ \A q \in Proc : q # p => proc'[q] = proc[q]
         /\ \A q \in Proc : proc'[q].op = "idle" \/ proc'[q] = proc[q]
BY DEF Typed, ProcTyped, End, Idle

\* A handler goes on where it stands.
LEMMA StateQuiet ==
  ASSUME Typed, NEW a \in Analyst, NEW s \in States, NEW why, WriteState(a, s, why)
  PROVE  \A b \in Analyst : /\ roster'[b] = Absent <=> roster[b] = Absent
                            /\ roster'[b].owner = roster[b].owner
                            /\ roster'[b].parent = roster[b].parent
<1>1. CASE OnRoster(a)
  <2> DEFINE row == [roster[a] EXCEPT !.state = s]
  <2>1. roster[a] \in Entry
    BY <1>1 DEF Typed, RosterTyped, OnRoster
  <2>2. row \in Entry /\ row.owner = roster[a].owner /\ row.parent = roster[a].parent
    BY <2>1 DEF Entry
  <2>3. roster' = [roster EXCEPT ![a] = row]
    BY <1>1 DEF WriteState, Typed, RosterTyped
  <2> HIDE DEF row
  <2> QED
    BY <2>1, <2>2, <2>3, NobodyAbsent DEF Typed, RosterTyped
<1>2. CASE ~OnRoster(a)
  BY <1>2 DEF WriteState
<1> QED
  BY <1>1, <1>2

LEMMA StillHere ==
  ASSUME Typed, NEW p \in Proc, NEW r, r.op = proc[p].op, r.name = proc[p].name,
         r.parent = proc[p].parent, r.seen = proc[p].seen,
         proc[p].op # "remove" \/ r.at # "delete" \/ ChildrenOf(proc[p].name) = {},
         proc' = [proc EXCEPT ![p] = r],
         \A a \in Analyst : /\ roster'[a] = Absent <=> roster[a] = Absent
                            /\ roster'[a].owner = roster[a].owner
                            /\ roster'[a].parent = roster[a].parent,
         UNCHANGED <<task, met, booked, reopened, byHand, missing>>
  PROVE  Quiet
<1>1. proc \in [Proc -> Handler]
  BY DEF Typed, ProcTyped
<1> QED
  BY <1>1 DEF Quiet

LEMMA EndedQuiet ==
  ASSUME Typed, NEW p \in Proc, End(p),
         \A a \in Analyst : /\ roster'[a] = Absent <=> roster[a] = Absent
                            /\ roster'[a].owner = roster[a].owner
                            /\ roster'[a].parent = roster[a].parent,
         UNCHANGED <<task, met, booked, reopened, byHand, missing>>
  PROVE  Quiet
BY EndsQuietly DEF Quiet

LEMMA QuietSteps ==
  ASSUME Typed, NEW p \in Proc,
         \/ SetState(p) \/ Rebrief(p) \/ RemoveLooks(p) \/ HaltSuspends(p) \/ Halt(p)
         \/ LiftWakes(p) \/ Lift(p) \/ JudgeArtifact(p, "post") \/ JudgeArtifact(p, "return")
         \/ Die(p)
  PROVE  Quiet
<1> DEFINE r == proc[p]
<1>0. r \in Handler /\ Shape(r) /\ proc \in [Proc -> Handler]
  BY DEF Typed, ProcTyped
<1>1. CASE SetState(p)
  <2>1. r.name \in Analyst /\ r.to \in States /\ WriteState(r.name, r.to, "")
    BY <1>0, <1>1 DEF SetState, Shape
  <2> QED
    BY <2>1, <1>1, StateQuiet, EndedQuiet DEF SetState, Same
<1>2. CASE Rebrief(p)
  <2>1. r.name \in Analyst /\ r.desk \in Desk
    BY <1>0, <1>2 DEF Rebrief, Shape
  <2>2. CASE OnRoster(r.name)
    <3> DEFINE row == [roster[r.name] EXCEPT !.desk = r.desk]
    <3>1. roster[r.name] \in Entry
      BY <2>1, <2>2 DEF Typed, RosterTyped, OnRoster
    <3>2. row \in Entry /\ row.owner = roster[r.name].owner /\ row.parent = roster[r.name].parent
      BY <2>1, <3>1 DEF Entry
    <3>3. roster' = [roster EXCEPT ![r.name] = row]
      BY <1>2, <2>1, <2>2 DEF Rebrief, Typed, RosterTyped
    <3> HIDE DEF row
    <3>4. \A a \in Analyst : /\ roster'[a] = Absent <=> roster[a] = Absent
                             /\ roster'[a].owner = roster[a].owner
                             /\ roster'[a].parent = roster[a].parent
      BY <3>1, <3>2, <3>3, NobodyAbsent DEF Typed, RosterTyped
    <3> QED
      BY <3>4, <1>2, EndedQuiet DEF Rebrief, Same
  <2>3. CASE ~OnRoster(r.name)
    BY <1>2, <2>3, EndedQuiet DEF Rebrief, Same
  <2> QED
    BY <2>2, <2>3
<1>3. CASE RemoveLooks(p)
  <2>1. CASE ChildrenOf(r.name) = {}
    <3> DEFINE s == [r EXCEPT !.at = "delete"]
    <3>1. s.op = r.op /\ s.name = r.name /\ s.parent = r.parent /\ s.seen = r.seen
      BY <1>0 DEF Handler
    <3>2. proc' = [proc EXCEPT ![p] = s]
      BY <1>0, <1>3, <2>1 DEF RemoveLooks, Goto
    <3> HIDE DEF s
    <3> QED
      BY <3>1, <3>2, <2>1, <1>3, StillHere DEF RemoveLooks, Same, boardVars
  <2>2. CASE ChildrenOf(r.name) # {}
    BY <1>3, <2>2, EndedQuiet DEF RemoveLooks, Same, boardVars
  <2> QED
    BY <2>1, <2>2
<1>4. CASE HaltSuspends(p)
  <2>1. PICK a \in r.todo :
          IF OnRoster(a)
          THEN /\ WriteState(a, "suspended", r.desk)
               /\ proc' = [proc EXCEPT ![p].todo = r.todo \ {a}, ![p].did = r.did \cup {a}]
          ELSE /\ UNCHANGED <<roster, cause>>
               /\ proc' = [proc EXCEPT ![p] = Idle]
    BY <1>4 DEF HaltSuspends
  <2>2. a \in Analyst /\ r.op = "halt"
    BY <1>0, <1>4 DEF Handler, HaltSuspends, At
  <2>3. CASE OnRoster(a)
    <3> DEFINE s == [r EXCEPT !.todo = r.todo \ {a}, !.did = r.did \cup {a}]
    <3>1. s.op = r.op /\ s.name = r.name /\ s.parent = r.parent /\ s.seen = r.seen
      BY <1>0 DEF Handler
    <3>2. proc' = [proc EXCEPT ![p] = s]
      BY <1>0, <2>1, <2>3
    <3> HIDE DEF s
    <3>3. \A b \in Analyst : /\ roster'[b] = Absent <=> roster[b] = Absent
                             /\ roster'[b].owner = roster[b].owner
                             /\ roster'[b].parent = roster[b].parent
      BY <2>1, <2>2, <2>3, StateQuiet DEF States
    <3> QED
      BY <3>1, <3>2, <3>3, <2>2, <1>4, StillHere DEF HaltSuspends, Same
  <2>4. CASE ~OnRoster(a)
    BY <2>1, <2>4, <1>4, EndedQuiet DEF HaltSuspends, Same, End
  <2> QED
    BY <2>3, <2>4
<1>5. CASE LiftWakes(p)
  <2>1. PICK a \in r.todo :
          IF OnRoster(a)
          THEN /\ WriteState(a, "active", "")
               /\ proc' = [proc EXCEPT ![p].todo = r.todo \ {a}]
          ELSE /\ UNCHANGED <<roster, cause>>
               /\ proc' = [proc EXCEPT ![p] = Idle]
    BY <1>5 DEF LiftWakes
  <2>2. a \in Analyst /\ r.op = "lift"
    BY <1>0, <1>5 DEF Handler, LiftWakes, At
  <2>3. CASE OnRoster(a)
    <3> DEFINE s == [r EXCEPT !.todo = r.todo \ {a}]
    <3>1. s.op = r.op /\ s.name = r.name /\ s.parent = r.parent /\ s.seen = r.seen
      BY <1>0 DEF Handler
    <3>2. proc' = [proc EXCEPT ![p] = s]
      BY <1>0, <2>1, <2>3
    <3> HIDE DEF s
    <3>3. \A b \in Analyst : /\ roster'[b] = Absent <=> roster[b] = Absent
                             /\ roster'[b].owner = roster[b].owner
                             /\ roster'[b].parent = roster[b].parent
      BY <2>1, <2>2, <2>3, StateQuiet DEF States
    <3> QED
      BY <3>1, <3>2, <3>3, <2>2, <1>5, StillHere DEF LiftWakes, Same
  <2>4. CASE ~OnRoster(a)
    BY <2>1, <2>4, <1>5, EndedQuiet DEF LiftWakes, Same, End
  <2> QED
    BY <2>3, <2>4
<1>6. ASSUME NEW op \in {"post", "return"}, JudgeArtifact(p, op) PROVE Quiet
  <2> DEFINE s == [r EXCEPT !.at = "task"]
  <2>1. s.op = r.op /\ s.name = r.name /\ s.parent = r.parent /\ s.seen = r.seen
        /\ r.op # "remove"
    BY <1>0, <1>6 DEF Handler, JudgeArtifact, At
  <2>2. proc' = [proc EXCEPT ![p] = s]
    BY <1>0, <1>6 DEF JudgeArtifact, Goto
  <2> HIDE DEF s
  <2> QED
    BY <2>1, <2>2, <1>6, StillHere DEF JudgeArtifact, Same
<1>7. CASE Halt(p)
  BY <1>7, EndedQuiet DEF Halt, Same
<1>8. CASE Lift(p)
  BY <1>8, EndedQuiet DEF Lift, Same
<1>9. CASE Die(p)
  BY <1>9, EndedQuiet DEF Die, boardVars
<1> QED
  BY <1>1, <1>2, <1>3, <1>4, <1>5, <1>6, <1>7, <1>8, <1>9

\* Every step is one of these.
Step ==
  \/ Quiet
  \/ \E p \in Proc :
       \/ \E r \in Handler : Shape(r) /\ Looked(r) /\ Begin(p, r)
       \/ Hire(p) \/ Remove(p) \/ Transfer(p) \/ Assign(p)
       \/ \E t \in Task, s \in TaskStates : TaskMoves(p, t, s)

LEMMA Steps == Typed /\ [Next]_vars => Step
<1> SUFFICES ASSUME Typed, [Next]_vars PROVE Step
  OBVIOUS
<1>1. ASSUME NEW p \in Proc, Starts(p) PROVE Step
  BY <1>1, StartsLooked DEF Step
<1>2. ASSUME NEW p \in Proc, Block(p) PROVE Step
  <2>1. proc[p].task \in Task
    BY <1>2 DEF Typed, ProcTyped, Shape, Block
  <2>2. TaskMoves(p, proc[p].task, "blocked")
    BY <1>2, <2>1 DEF Block, TaskMoves, TaskStates, Same
  <2> QED
    BY <2>1, <2>2 DEF Step, TaskStates
<1>3. ASSUME NEW p \in Proc, NEW op \in {"post", "return"}, JudgeTask(p, op) PROVE Step
  <2>1. proc[p].task \in Task /\ Verdict(op) \in TaskStates
    BY <1>3 DEF Typed, ProcTyped, Shape, JudgeTask, At, Verdict, TaskStates
  <2>2. TaskMoves(p, proc[p].task, Verdict(op))
    BY <1>3, <2>1 DEF JudgeTask, TaskMoves, Same
  <2> QED
    BY <2>1, <2>2 DEF Step
<1>4. ASSUME NEW p \in Proc, Continues(p) PROVE Step
  BY <1>2, <1>3, <1>4, QuietSteps DEF Continues, Step
<1>5. ASSUME NEW p \in Proc, Die(p) PROVE Step
  BY <1>5, QuietSteps DEF Step
<1>6. ASSUME NEW t \in Task, NEW k \in 1..Copies, File(t, k) PROVE Step
  BY <1>6 DEF File, histVars, Step, Quiet
<1>7. ASSUME UNCHANGED vars PROVE Step
  BY <1>7 DEF vars, boardVars, histVars, Step, Quiet
<1> QED
  BY <1>1, <1>4, <1>5, <1>6, <1>7 DEF Next

-----------------------------------------------------------------------------
(* What a charge was booked to, and who answers for open work. *)

\* A handler's end, and a beginning, seen from the others.
LEMMA OthersStay ==
  ASSUME Typed, NEW p \in Proc, NEW r \in Handler, Begin(p, r)
  PROVE  /\ proc'[p] = r /\ proc[p].op = "idle"
         /\ \A q \in Proc : q # p => proc'[q] = proc[q]
         /\ UNCHANGED <<roster, task, booked, reopened, byHand, missing>>
         /\ met \subseteq met'
BY DEF Typed, ProcTyped, Begin, boardVars

LEMMA OpenOrPosted ==
  ASSUME TaskTyped, NEW t \in Task
  PROVE  /\ Open(t) <=> task[t].state # "posted"
         /\ task[t].state \in TaskStates /\ task[t].owner \in Person \cup {Nobody}
BY DEF TaskTyped, Row, Open, TaskStates, OpenStates

\* What a written task looks like afterwards.
LEMMA Moved ==
  ASSUME Typed, NEW p \in Proc, NEW t \in Task, NEW s \in TaskStates, TaskMoves(p, t, s)
  PROVE  /\ task'[t].state = s /\ task'[t].who = task[t].who /\ task'[t].owner = task[t].owner
         /\ \A u \in Task : u # t => task'[u] = task[u]
<1>1. task[t] \in Row /\ task \in [Task -> Row]
  BY DEF Typed, TaskTyped
<1>2. task' = [task EXCEPT ![t] = [task[t] EXCEPT !.state = s]]
  BY DEF TaskMoves, WriteTask
<1> QED
  BY <1>1, <1>2 DEF Row

LEMMA Assigned ==
  ASSUME Typed, NEW p \in Proc, Assign(p)
  PROVE  LET t == proc[p].task IN
         /\ t \in Task
         /\ task'[t].state = "active" /\ task'[t].who = proc[p].name
         /\ task'[t].owner = task[t].owner
         /\ \A u \in Task : u # t => task'[u] = task[u]
         /\ booked' = booked
         /\ reopened' = IF booked[t] # "" THEN reopened \cup {t} ELSE reopened
         /\ byHand' = byHand \cup {t} /\ UNCHANGED <<roster, met, missing>> /\ End(p)
<1> DEFINE t == proc[p].task
<1> DEFINE row == [task[t] EXCEPT !.who = proc[p].name, !.state = "active"]
<1>1. t \in Task /\ proc[p].name \in Analyst \cup {Nobody}
  BY DEF Typed, ProcTyped, Shape, Handler, Assign
<1>2. task[t] \in Row /\ task \in [Task -> Row]
  BY <1>1 DEF Typed, TaskTyped
<1>3. row.state = "active" /\ row.who = proc[p].name /\ row.owner = task[t].owner
  BY <1>2 DEF Row
<1>4. WriteTask(t, row) /\ byHand' = byHand \cup {t} /\ UNCHANGED <<roster, met, missing>> /\ End(p)
  BY DEF Assign, Same
<1> HIDE DEF row, t
<1>5. task' = [task EXCEPT ![t] = row] /\ booked' = booked
      /\ reopened' = IF booked[t] # "" THEN reopened \cup {t} ELSE reopened
  BY <1>3, <1>4 DEF WriteTask
<1>6. /\ task'[t].state = "active" /\ task'[t].who = proc[p].name
      /\ task'[t].owner = task[t].owner
      /\ \A u \in Task : u # t => task'[u] = task[u]
  BY <1>1, <1>2, <1>3, <1>5
<1> QED
  BY <1>1, <1>4, <1>5, <1>6 DEF t

\* A transfer rewrites the owner of the open work of one analyst.
LEMMA Transferred ==
  ASSUME Typed, NEW p \in Proc, Transfer(p)
  PROVE  LET r == proc[p] IN
         /\ r.name \in Analyst /\ r.owner \in Person
         /\ \A t \in Task : /\ task'[t].state = task[t].state /\ task'[t].who = task[t].who
                            /\ task'[t].owner = IF t \in OpenOf(r.name) THEN r.owner
                                                ELSE task[t].owner
         /\ \A b \in Analyst : b # r.name \/ ~OnRoster(b) => roster'[b] = roster[b]
         /\ OnRoster(r.name) => /\ roster'[r.name] # Absent
                                /\ roster'[r.name].owner = r.owner
                                /\ roster'[r.name].parent = NewParent(r)
         /\ UNCHANGED <<met, booked, reopened, byHand, missing>> /\ End(p)
<1> DEFINE r == proc[p]
<1>1. r.name \in Analyst /\ r.owner \in Person /\ r.desk \in Desk
  BY DEF Typed, ProcTyped, Shape, Transfer
<1>2. /\ roster' = IF OnRoster(r.name)
                   THEN [roster EXCEPT ![r.name].desk = r.desk, ![r.name].owner = r.owner,
                                       ![r.name].parent = NewParent(r)]
                   ELSE roster
      /\ task' = [t \in Task |-> IF t \in MovesWith(r.name)
                                 THEN [task[t] EXCEPT !.desk = r.desk, !.owner = r.owner]
                                 ELSE task[t]]
      /\ UNCHANGED <<met, booked, reopened, byHand, missing>> /\ End(p)
  BY DEF Transfer, Same
<1> HIDE DEF r
<1>3. ASSUME NEW t \in Task
      PROVE  /\ task'[t].state = task[t].state /\ task'[t].who = task[t].who
             /\ task'[t].owner = IF t \in OpenOf(r.name) THEN r.owner ELSE task[t].owner
  <2>1. task[t] \in Row
    BY DEF Typed, TaskTyped
  <2> QED
    BY <1>2, <2>1 DEF MovesWith, Row
<1>4. \A b \in Analyst : b # r.name \/ ~OnRoster(b) => roster'[b] = roster[b]
  BY <1>1, <1>2 DEF Typed, RosterTyped
<1>5. ASSUME OnRoster(r.name)
      PROVE  roster'[r.name] # Absent /\ roster'[r.name].owner = r.owner
             /\ roster'[r.name].parent = NewParent(r)
  <2> DEFINE e == roster[r.name]
             row == [e EXCEPT !.desk = r.desk, !.owner = r.owner, !.parent = NewParent(r)]
  <2>1. e \in Entry
    BY <1>1, <1>5 DEF Typed, RosterTyped, OnRoster
  <2>2. row.desk = r.desk /\ row.owner = r.owner /\ row.parent = NewParent(r)
    BY <2>1 DEF Entry
  <2>3. roster'[r.name] = row
    BY <1>1, <1>2, <1>5, <2>1 DEF Typed, RosterTyped
  <2>4. r.desk # Absent.desk
    BY <1>1, RosterAssumption DEF Absent
  <2> QED
    BY <2>2, <2>3, <2>4
<1> QED
  BY <1>1, <1>2, <1>3, <1>4, <1>5 DEF r

\* What was stamped and never opened again is still posted, under the owner it
\* was booked to; and nothing is posted that was not booked.
BookInv ==
  /\ booked = [t \in Task |-> booked[t]]
  /\ \A t \in Task : /\ task[t].state = "posted" => booked[t] # ""
                     /\ booked[t] # "" /\ t \notin reopened =>
                          task[t].state = "posted" /\ task[t].owner = booked[t]

LEMMA BookInit == Init => BookInv
<1> SUFFICES ASSUME Init PROVE BookInv
  OBVIOUS
<1>1. booked = [t \in Task |-> ""] /\ task = InitTask
  BY DEF Init
<1>2. \A t \in Task : task[t].state # "posted"
  BY <1>1, RosterAssumption DEF OpenStates
<1> QED
  BY <1>1, <1>2 DEF BookInv

LEMMA BookMoves ==
  ASSUME Typed, BookInv, NEW p \in Proc, NEW t \in Task, NEW s \in TaskStates, TaskMoves(p, t, s)
  PROVE  BookInv'
<1> DEFINE row == [task[t] EXCEPT !.state = s]
<1>1. row.state = s /\ row.owner = task[t].owner
  BY DEF Typed, TaskTyped, Row
<1>2. task[t].owner # ""
  BY OpenOrPosted, NobodyAbsent, SeedAssumption DEF Typed
<1>3. /\ booked' = IF row.state = "posted" /\ booked[t] = ""
                   THEN [booked EXCEPT ![t] = row.owner] ELSE booked
      /\ reopened' = IF booked[t] # "" /\ row.state # "posted"
                     THEN reopened \cup {t} ELSE reopened
  BY DEF TaskMoves, WriteTask
<1> HIDE DEF row
<1>4. /\ booked' = [u \in Task |-> booked'[u]]
      /\ \A u \in Task : u # t => booked'[u] = booked[u]
      /\ booked'[t] = IF s = "posted" /\ booked[t] = "" THEN task[t].owner ELSE booked[t]
  BY <1>1, <1>3 DEF BookInv
<1>5. ASSUME NEW u \in Task, u # t
      PROVE  /\ task'[u].state = "posted" => booked'[u] # ""
             /\ booked'[u] # "" /\ u \notin reopened' =>
                  task'[u].state = "posted" /\ task'[u].owner = booked'[u]
  BY <1>3, <1>4, <1>5, Moved DEF BookInv
<1>6. /\ task'[t].state = "posted" => booked'[t] # ""
      /\ booked'[t] # "" /\ t \notin reopened' =>
           task'[t].state = "posted" /\ task'[t].owner = booked'[t]
  BY <1>1, <1>2, <1>3, <1>4, Moved DEF BookInv
<1> QED
  BY <1>4, <1>5, <1>6 DEF BookInv

LEMMA BookAssign ==
  ASSUME Typed, BookInv, NEW p \in Proc, Assign(p)
  PROVE  BookInv'
BY Assigned, ZenonT(60) DEF BookInv

LEMMA BookTransfer ==
  ASSUME Typed, BookInv, NEW p \in Proc, Transfer(p)
  PROVE  BookInv'
<1>1. \A t \in Task : task[t].state = "posted" => t \notin OpenOf(proc[p].name)
  BY OpenOrPosted DEF Typed, OpenOf
<1> QED
  BY <1>1, Transferred, ZenonT(60) DEF BookInv

LEMMA BookNext == Typed /\ BookInv /\ [Next]_vars => BookInv'
<1> SUFFICES ASSUME Typed, BookInv, [Next]_vars PROVE BookInv'
  OBVIOUS
<1>0. Step
  BY Steps
<1>1. CASE Quiet
  BY <1>1 DEF Quiet, BookInv
<1>2. ASSUME NEW p \in Proc, NEW r \in Handler, Begin(p, r) PROVE BookInv'
  BY <1>2, OthersStay DEF BookInv
<1>3. ASSUME NEW p \in Proc, Hire(p) \/ Remove(p) PROVE BookInv'
  BY <1>3 DEF Hire, Remove, BookInv
<1> QED
  BY <1>0, <1>1, <1>2, <1>3, BookMoves, BookAssign, BookTransfer DEF Step

\* The owner a charge was booked to is never rewritten while the work stays
\* stamped: Transfer moves open work alone, and no click writes an owner.
THEOREM RosterBooksStayPut == Spec => []BooksStayPut
<1>1. Init => Typed /\ BookInv
  BY TypedInit, BookInit
<1>2. Typed /\ BookInv /\ [Next]_vars => (Typed /\ BookInv)'
  BY TypedNext, BookNext
<1>3. BookInv => BooksStayPut
  BY DEF BookInv, BooksStayPut
<1> QED
  BY <1>1, <1>2, <1>3, PTL DEF Spec

\* Open work nobody touched by hand is owned by its analyst's owner, and its
\* analyst is there; a removal in flight has counted none of it.
Clean(t) == Open(t) /\ t \notin byHand \cup reopened
AnswerInv ==
  /\ \A t \in Task : Clean(t) =>
       IF task[t].who = Nobody THEN task[t].owner = InitTask[t].owner
       ELSE OnRoster(task[t].who) /\ task[t].owner = roster[task[t].who].owner
  /\ \A p \in Proc : proc[p].op = "remove" =>
       \A t \in Task : Clean(t) => task[t].who # proc[p].name

LEMMA AnswerInit == Init => AnswerInv
<1> SUFFICES ASSUME Init PROVE AnswerInv
  OBVIOUS
<1>1. task = InitTask /\ roster = InitRoster /\ proc = [p \in Proc |-> Idle]
  BY DEF Init
<1>2. \A p \in Proc : proc[p].op = "idle"
  BY <1>1 DEF Idle
<1> QED
  BY <1>1, <1>2, SeedAssumption DEF AnswerInv, OnRoster

LEMMA Hired ==
  ASSUME Typed, NEW p \in Proc, Hire(p)
  PROVE  LET r == proc[p] IN
         /\ r.name \in Analyst
         /\ \A a \in Analyst : a # r.name \/ OnRoster(a) => roster'[a] = roster[a]
         /\ ~OnRoster(r.name) => roster'[r.name] # Absent /\ roster'[r.name].parent = r.parent
         /\ missing' = IF OnRoster(r.name) THEN missing
                       ELSE (missing \cup {q \in {r.parent} : q # Nobody /\ ~OnRoster(q)}) \ {r.name}
         /\ UNCHANGED <<task, met, booked, reopened, byHand>> /\ End(p)
<1> DEFINE r == proc[p]
           row == [state |-> "active", desk |-> r.desk, owner |-> r.owner, parent |-> r.parent]
<1>1. r.name \in Analyst /\ r.desk \in Desk
  BY DEF Typed, ProcTyped, Shape, Hire
<1>2. roster' = IF OnRoster(r.name) THEN roster ELSE [roster EXCEPT ![r.name] = row]
  BY DEF Hire
<1>3. /\ missing' = IF OnRoster(r.name) THEN missing
                    ELSE (missing \cup {q \in {r.parent} : q # Nobody /\ ~OnRoster(q)}) \ {r.name}
      /\ UNCHANGED <<task, met, booked, reopened, byHand>> /\ End(p)
  BY DEF Hire
<1>4. row.parent = r.parent /\ row # Absent
  <2>1. row.desk = r.desk /\ row.desk # Absent.desk
    BY <1>1, RosterAssumption DEF Absent
  <2> QED
    BY <2>1
<1> HIDE DEF r, row
<1>5. /\ \A a \in Analyst : a # r.name \/ OnRoster(a) => roster'[a] = roster[a]
      /\ ~OnRoster(r.name) => roster'[r.name] # Absent /\ roster'[r.name].parent = r.parent
  BY <1>1, <1>2, <1>4 DEF Typed, RosterTyped
<1> QED
  BY <1>1, <1>3, <1>5 DEF r

LEMMA Removed ==
  ASSUME Typed, NEW p \in Proc, Remove(p)
  PROVE  /\ proc[p].op = "remove" /\ proc[p].at = "delete" /\ proc[p].name \in Analyst
         /\ roster'[proc[p].name] = Absent
         /\ \A a \in Analyst : a # proc[p].name => roster'[a] = roster[a]
         /\ UNCHANGED <<task, met, booked, reopened, byHand, missing>> /\ End(p)
<1>1. proc[p].op = "remove" /\ proc[p].at = "delete" /\ proc[p].name \in Analyst
  BY DEF Typed, ProcTyped, Shape, Remove, At
<1> QED
  BY <1>1 DEF Typed, RosterTyped, Remove, Same

\* A step that opens no clean work and leaves the clean work as it was.
LEMMA AnswerKept ==
  ASSUME Typed, AnswerInv, NEW p \in Proc, End(p),
         \A t \in Task : Clean(t)' => Clean(t) /\ task'[t].who = task[t].who
                                      /\ task'[t].owner = task[t].owner,
         \A t \in Task : Clean(t)' /\ task[t].who # Nobody =>
           roster'[task[t].who] = roster[task[t].who]
  PROVE  AnswerInv'
<1>1. \A t \in Task : Clean(t)' =>
        IF task'[t].who = Nobody THEN task'[t].owner = InitTask[t].owner
        ELSE OnRoster(task[t].who)' /\ task'[t].owner = roster'[task'[t].who].owner
  BY DEF AnswerInv, OnRoster
<1>2. \A q \in Proc : proc'[q].op = "remove" => proc'[q] = proc[q]
  BY EndsQuietly
<1> QED
  BY <1>1, <1>2 DEF AnswerInv

LEMMA AnswerMoves ==
  ASSUME Typed, BookInv, AnswerInv, NEW p \in Proc, NEW t \in Task, NEW s \in TaskStates,
         TaskMoves(p, t, s)
  PROVE  AnswerInv'
<1>1. /\ reopened' = IF booked[t] # "" /\ s # "posted" THEN reopened \cup {t} ELSE reopened
      /\ byHand' = byHand /\ roster' = roster /\ End(p)
  <2>1. [task[t] EXCEPT !.state = s].state = s
    BY DEF Typed, TaskTyped, Row
  <2> QED
    BY <2>1 DEF TaskMoves, WriteTask
<1>2. ASSUME NEW u \in Task, Clean(u)' PROVE Clean(u)
  <2>2. task'[u].state # "posted" /\ u \notin byHand \cup reopened
    BY <1>1, <1>2, NobodyAbsent DEF Clean, Open, OpenStates
  <2>3. CASE u = t
    <3>1. s # "posted" /\ booked[t] = ""
      <4>1. t \notin reopened'
        BY <1>2, <2>3 DEF Clean
      <4> QED
        BY <1>1, <2>2, <2>3, <4>1, Moved
    <3>2. Open(t)
      BY <3>1, OpenOrPosted DEF BookInv, Typed
    <3> QED
      BY <2>2, <2>3, <3>2 DEF Clean
  <2>4. CASE u # t
    BY <1>2, <2>2, <2>4, Moved DEF Clean, Open
  <2> QED
    BY <2>3, <2>4
<1> QED
  BY <1>1, <1>2, Moved, AnswerKept

LEMMA AnswerAssign ==
  ASSUME Typed, AnswerInv, NEW p \in Proc, Assign(p)
  PROVE  AnswerInv'
<1>1. \A t \in Task : Clean(t)' => t # proc[p].task /\ Clean(t)
  BY Assigned DEF Clean, Open
<1> QED
  BY <1>1, Assigned, AnswerKept

LEMMA AnswerTransfer ==
  ASSUME Typed, AnswerInv, NEW p \in Proc, Transfer(p)
  PROVE  AnswerInv'
<1> DEFINE r == proc[p]
<1>1. \A t \in Task : Clean(t)' <=> Clean(t)
  BY Transferred DEF Clean, Open
<1>2. ASSUME NEW t \in Task, Clean(t)
      PROVE  IF task'[t].who = Nobody THEN task'[t].owner = InitTask[t].owner
             ELSE OnRoster(task[t].who)' /\ task'[t].owner = roster'[task'[t].who].owner
  <2>1. task'[t].who = task[t].who /\ task[t].who \in Analyst \cup {Nobody}
    BY Transferred DEF Typed, TaskTyped, Row
  <2>2. t \in OpenOf(r.name) <=> task[t].who = r.name
    BY <1>2 DEF OpenOf, Clean
  <2>3. CASE task[t].who = r.name
    <3>1. r.name \in Analyst /\ r.name # Nobody
      BY Transferred, NobodyAbsent
    <3>2. OnRoster(r.name)
      BY <1>2, <2>3, <3>1 DEF AnswerInv
    <3>3. task'[t].owner = r.owner /\ roster'[r.name].owner = r.owner /\ roster'[r.name] # Absent
      BY <2>2, <2>3, <3>2, Transferred
    <3> QED
      BY <2>1, <2>3, <3>1, <3>3 DEF OnRoster
  <2>4. CASE task[t].who # r.name
    BY <1>2, <2>1, <2>2, <2>4, Transferred DEF AnswerInv, OnRoster
  <2> QED
    BY <2>3, <2>4
<1>3. \A q \in Proc : proc'[q].op = "remove" => proc'[q] = proc[q]
  BY EndsQuietly, Transferred
<1> QED
  BY <1>1, <1>2, <1>3, Transferred DEF AnswerInv

LEMMA AnswerNext == Typed /\ BookInv /\ AnswerInv /\ [Next]_vars => AnswerInv'
<1> SUFFICES ASSUME Typed, BookInv, AnswerInv, [Next]_vars PROVE AnswerInv'
  OBVIOUS
<1>0. Step
  BY Steps
<1>1. CASE Quiet
  <2>1. \A t \in Task : task[t].who \in Analyst \cup {Nobody}
    BY DEF Typed, TaskTyped, Row
  <2>2. \A t \in Task : Clean(t)' <=> Clean(t)
    BY <1>1 DEF Quiet, Clean, Open
  <2> QED
    BY <1>1, <2>1, <2>2, OnRosterIs DEF Quiet, AnswerInv, OnRoster
<1>2. ASSUME NEW p \in Proc, NEW r \in Handler, Looked(r), Begin(p, r) PROVE AnswerInv'
  <2>1. \A t \in Task : Clean(t)' <=> Clean(t)
    BY <1>2, OthersStay DEF Clean, Open
  <2>2. r.op = "remove" => \A t \in Task : Clean(t) => task[t].who # r.name
    BY <1>2 DEF Looked, OpenOf, Clean
  <2> QED
    BY <1>2, <2>1, <2>2, OthersStay DEF AnswerInv, OnRoster
<1>3. ASSUME NEW p \in Proc, Hire(p) PROVE AnswerInv'
  <2>1. \A t \in Task : Clean(t)' <=> Clean(t)
    BY <1>3, Hired DEF Clean, Open
  <2>2. \A t \in Task : Clean(t) /\ task[t].who # Nobody =>
          roster'[task[t].who] = roster[task[t].who]
    BY <1>3, Hired DEF AnswerInv, Typed, TaskTyped, Row
  <2> QED
    BY <1>3, <2>1, <2>2, Hired, AnswerKept
<1>4. ASSUME NEW p \in Proc, Remove(p) PROVE AnswerInv'
  <2>1. \A t \in Task : Clean(t)' <=> Clean(t)
    BY <1>4, Removed DEF Clean, Open
  <2>2. \A t \in Task : Clean(t) /\ task[t].who # Nobody =>
          roster'[task[t].who] = roster[task[t].who]
    BY <1>4, Removed DEF AnswerInv, Typed, TaskTyped, Row
  <2> QED
    BY <1>4, <2>1, <2>2, Removed, AnswerKept
<1> QED
  BY <1>0, <1>1, <1>2, <1>3, <1>4, AnswerMoves, AnswerAssign, AnswerTransfer DEF Step

\* Open work is answered for by its analyst's owner: what moves an analyst to
\* another owner moves its open work in the same transaction, and no removal
\* leaves counted work behind.
THEOREM RosterWorkIsAnsweredFor == Spec => []WorkIsAnsweredFor
<1>1. Init => Typed /\ BookInv /\ AnswerInv
  BY TypedInit, BookInit, AnswerInit
<1>2. Typed /\ BookInv /\ AnswerInv /\ [Next]_vars => (Typed /\ BookInv /\ AnswerInv)'
  BY TypedNext, BookNext, AnswerNext
<1>3. AnswerInv => WorkIsAnsweredFor
  BY DEF AnswerInv, Clean, WorkIsAnsweredFor
<1> QED
  BY <1>1, <1>2, <1>3, PTL DEF Spec

-----------------------------------------------------------------------------
(* Assignments and removals beside each other. *)

\* Two kinds in flight together are remembered when the later one comes in.
LEMMA Meets ==
  ASSUME Typed, NEW p \in Proc, NEW r \in Handler, Begin(p, r),
         NEW q \in Proc, proc[q].op # "idle", {r.op, proc[q].op} \in Races
  PROVE  {r.op, proc[q].op} \in met'
BY DEF Begin, Busy

GhostRace == Overlapped("remove", "assign")
GhostInv == ~GhostRace =>
  /\ \A t \in Task : Open(t) /\ t \notin reopened /\ task[t].who # Nobody =>
       OnRoster(task[t].who)
  /\ \A p \in Proc : proc[p].op = "assign" => proc[p].name = Nobody \/ OnRoster(proc[p].name)
  /\ \A p \in Proc : proc[p].op = "remove" =>
       \A t \in Task : Open(t) /\ t \notin reopened => task[t].who # proc[p].name
  /\ \A p, q \in Proc : ~(proc[p].op = "remove" /\ proc[q].op = "assign")

LEMMA GhostInit == Init => GhostInv
<1> SUFFICES ASSUME Init PROVE GhostInv
  OBVIOUS
<1>1. task = InitTask /\ roster = InitRoster /\ proc = [p \in Proc |-> Idle]
  BY DEF Init
<1>2. \A p \in Proc : proc[p].op = "idle"
  BY <1>1 DEF Idle
<1> QED
  BY <1>1, <1>2, SeedAssumption DEF GhostInv, OnRoster

\* A handler that ends leaves the others' part of the invariant alone, as long
\* as nobody goes and no work is opened or handed over.
LEMMA GhostKept ==
  ASSUME Typed, GhostInv, NEW p \in Proc, End(p), met' = met,
         \A a \in Analyst : roster[a] # Absent => roster'[a] # Absent,
         \A t \in Task : Open(t)' /\ t \notin reopened' =>
           Open(t) /\ t \notin reopened /\ task'[t].who = task[t].who
  PROVE  GhostInv'
<1> SUFFICES ASSUME ~GhostRace PROVE GhostInv'
  BY DEF GhostInv, GhostRace, Overlapped
<1>1. \A a \in Analyst \cup {Nobody} : OnRoster(a) => a # Nobody /\ roster'[a] # Absent
  BY NobodyAbsent DEF OnRoster
<1>2. \A t \in Task : task[t].who \in Analyst \cup {Nobody}
  BY DEF Typed, TaskTyped, Row
<1>3. \A q \in Proc : proc[q].name \in Analyst \cup {Nobody}
  BY DEF Typed, ProcTyped, Handler
<1>4. \A q \in Proc : proc'[q].op \in {"assign", "remove"} => proc'[q] = proc[q]
  BY EndsQuietly
<1>5. \A t \in Task : Open(t)' /\ t \notin reopened' /\ task'[t].who # Nobody =>
        task'[t].who # Nobody /\ roster'[task'[t].who] # Absent
  BY <1>1, <1>2 DEF GhostInv
<1>6. \A q \in Proc : proc'[q].op = "assign" =>
        proc'[q].name = Nobody \/ (proc'[q].name # Nobody /\ roster'[proc'[q].name] # Absent)
  BY <1>1, <1>3, <1>4 DEF GhostInv
<1>7. \A q \in Proc : proc'[q].op = "remove" =>
        \A t \in Task : Open(t)' /\ t \notin reopened' => task'[t].who # proc'[q].name
  BY <1>4 DEF GhostInv
<1>8. \A q, u \in Proc : ~(proc'[q].op = "remove" /\ proc'[u].op = "assign")
  BY <1>4 DEF GhostInv
<1> QED
  BY <1>5, <1>6, <1>7, <1>8 DEF GhostInv, OnRoster

LEMMA GhostMoves ==
  ASSUME Typed, BookInv, GhostInv, NEW p \in Proc, NEW t \in Task, NEW s \in TaskStates,
         TaskMoves(p, t, s)
  PROVE  GhostInv'
<1>1. /\ reopened' = IF booked[t] # "" /\ s # "posted" THEN reopened \cup {t} ELSE reopened
      /\ met' = met /\ roster' = roster /\ End(p)
  <2>1. [task[t] EXCEPT !.state = s].state = s
    BY DEF Typed, TaskTyped, Row
  <2> QED
    BY <2>1 DEF TaskMoves, WriteTask
<1>2. ASSUME NEW u \in Task, Open(u)', u \notin reopened' PROVE Open(u) /\ u \notin reopened
  <2>2. task'[u].state # "posted" /\ u \notin reopened
    BY <1>1, <1>2 DEF Open, OpenStates
  <2>3. CASE u = t
    <3>1. s # "posted" /\ booked[t] = ""
      BY <1>1, <1>2, <2>2, <2>3, Moved
    <3>2. Open(t)
      BY <3>1, OpenOrPosted DEF BookInv, Typed
    <3> QED
      BY <2>2, <2>3, <3>2
  <2>4. CASE u # t
    BY <1>2, <2>2, <2>4, Moved DEF Open
  <2> QED
    BY <2>3, <2>4
<1> QED
  BY <1>1, <1>2, Moved, GhostKept

LEMMA GhostAssign ==
  ASSUME Typed, BookInv, GhostInv, NEW p \in Proc, Assign(p)
  PROVE  GhostInv'
<1> SUFFICES ASSUME ~GhostRace PROVE GhostInv'
  BY Assigned DEF GhostInv, GhostRace, Overlapped
<1>1. proc[p].op = "assign" /\ \A q \in Proc : proc[q].op # "remove"
  BY DEF Assign, GhostInv
<1>2. \A q \in Proc : proc'[q].op # "idle" => proc'[q] = proc[q]
  BY EndsQuietly, Assigned
<1>3. ASSUME NEW u \in Task, Open(u)', u \notin reopened', task'[u].who # Nobody
      PROVE  OnRoster(task'[u].who)
  <2>1. CASE u = proc[p].task
    BY <1>1, <1>3, <2>1, Assigned DEF GhostInv
  <2>2. CASE u # proc[p].task
    <3>1. task'[u] = task[u] /\ u \notin reopened
      BY <1>3, <2>2, Assigned
    <3> QED
      BY <1>3, <3>1 DEF GhostInv, Open
  <2> QED
    BY <2>1, <2>2
<1>4. roster' = roster
  BY Assigned
<1>5. \A q \in Proc : proc'[q].op # "remove"
  BY <1>1, <1>2
<1>6. \A q \in Proc : proc'[q].op = "assign" =>
        proc'[q].name = Nobody \/ OnRoster(proc'[q].name)
  BY <1>2 DEF GhostInv
<1>7. \A u \in Task : Open(u)' /\ u \notin reopened' /\ task'[u].who # Nobody =>
        task'[u].who # Nobody /\ roster'[task'[u].who] # Absent
  BY <1>3, <1>4 DEF OnRoster
<1>8. \A q \in Proc : proc'[q].op = "assign" =>
        proc'[q].name = Nobody \/ (proc'[q].name # Nobody /\ roster'[proc'[q].name] # Absent)
  BY <1>4, <1>6 DEF OnRoster
<1> QED
  BY <1>5, <1>7, <1>8 DEF GhostInv, OnRoster

LEMMA GhostBegin ==
  ASSUME Typed, GhostInv, NEW p \in Proc, NEW r \in Handler, Looked(r), Begin(p, r)
  PROVE  GhostInv'
<1> SUFFICES ASSUME ~GhostRace, ~GhostRace' PROVE GhostInv'
  BY OthersStay DEF GhostInv, GhostRace, Overlapped
<1>1. \A q \in Proc : q # p => proc'[q] = proc[q]
  BY OthersStay
<1>2. proc'[p] = r /\ UNCHANGED <<roster, task, reopened>>
  BY OthersStay
<1>3. ASSUME NEW q \in Proc, {r.op, proc[q].op} = {"remove", "assign"} PROVE FALSE
  <2>1. {r.op, proc[q].op} \in Races /\ proc[q].op # "idle"
    BY <1>3 DEF Races
  <2> QED
    BY <1>3, <2>1, Meets DEF GhostRace, Overlapped
<1>4. \A t \in Task : Open(t)' /\ t \notin reopened' /\ task'[t].who # Nobody =>
        task'[t].who # Nobody /\ roster'[task'[t].who] # Absent
  BY <1>2 DEF GhostInv, Open, OnRoster
<1>5. \A q \in Proc : proc'[q].op = "assign" =>
        proc'[q].name = Nobody \/ (proc'[q].name # Nobody /\ roster'[proc'[q].name] # Absent)
  BY <1>1, <1>2 DEF GhostInv, OnRoster, Looked, Assignable
<1>6. \A q \in Proc : proc'[q].op = "remove" =>
        \A t \in Task : Open(t)' /\ t \notin reopened' => task'[t].who # proc'[q].name
  BY <1>1, <1>2 DEF GhostInv, Looked, OpenOf, Open
<1>7. \A q, u \in Proc : ~(proc'[q].op = "remove" /\ proc'[u].op = "assign")
  <2> SUFFICES ASSUME NEW q \in Proc, NEW u \in Proc,
                      proc'[q].op = "remove", proc'[u].op = "assign" PROVE FALSE
    OBVIOUS
  <2>1. CASE q = p
    BY <1>1, <1>2, <1>3, <2>1
  <2>2. CASE u = p
    BY <1>1, <1>2, <1>3, <2>2
  <2>3. CASE q # p /\ u # p
    BY <1>1, <2>3 DEF GhostInv
  <2> QED
    BY <2>1, <2>2, <2>3
<1> QED
  BY <1>4, <1>5, <1>6, <1>7 DEF GhostInv, OnRoster

LEMMA GhostRemove ==
  ASSUME Typed, GhostInv, NEW p \in Proc, Remove(p)
  PROVE  GhostInv'
<1> SUFFICES ASSUME ~GhostRace PROVE GhostInv'
  BY Removed DEF GhostInv, GhostRace, Overlapped
<1> DEFINE a == proc[p].name
<1>1. \A q \in Proc : proc[q].op # "assign"
  BY Removed DEF GhostInv
<1>2. \A q \in Proc : proc'[q].op # "idle" => proc'[q] = proc[q]
  BY EndsQuietly, Removed
<1>3. \A t \in Task : task[t].who \in Analyst \cup {Nobody}
  BY DEF Typed, TaskTyped, Row
<1>4. \A t \in Task : Open(t)' /\ t \notin reopened' /\ task'[t].who # Nobody =>
        task'[t].who # Nobody /\ roster'[task'[t].who] # Absent
  BY <1>3, Removed DEF GhostInv, Open, OnRoster
<1>5. \A q \in Proc : proc'[q].op = "remove" =>
        \A t \in Task : Open(t)' /\ t \notin reopened' => task'[t].who # proc'[q].name
  BY <1>2, Removed DEF GhostInv, Open
<1>6. \A q \in Proc : proc'[q].op # "assign"
  BY <1>1, <1>2
<1> QED
  BY <1>4, <1>5, <1>6 DEF GhostInv, OnRoster

LEMMA GhostNext == Typed /\ BookInv /\ GhostInv /\ [Next]_vars => GhostInv'
<1> SUFFICES ASSUME Typed, BookInv, GhostInv, [Next]_vars PROVE GhostInv'
  OBVIOUS
<1>0. Step
  BY Steps
<1>1. CASE Quiet
  <2>1. \A t \in Task : task[t].who \in Analyst \cup {Nobody}
    BY DEF Typed, TaskTyped, Row
  <2>2. \A q \in Proc : proc[q].name \in Analyst \cup {Nobody}
    BY DEF Typed, ProcTyped, Handler
  <2>3. \A q \in Proc : proc'[q].op \in {"assign", "remove"} =>
          proc'[q].op = proc[q].op /\ proc'[q].name = proc[q].name
    BY <1>1 DEF Quiet
  <2>4. UNCHANGED <<task, met, reopened>>
        /\ \A a \in Analyst : roster'[a] = Absent <=> roster[a] = Absent
    BY <1>1 DEF Quiet
  <2> HIDE DEF Quiet
  <2> QED
    BY <2>1, <2>2, <2>3, <2>4 DEF GhostInv, GhostRace, Overlapped, Open, OnRoster
<1>2. ASSUME NEW p \in Proc, Hire(p) PROVE GhostInv'
  <2>1. \A a \in Analyst : roster[a] # Absent => roster'[a] # Absent
    BY <1>2, Hired, OnRosterIs
  <2>2. \A t \in Task : Open(t)' /\ t \notin reopened' =>
          Open(t) /\ t \notin reopened /\ task'[t].who = task[t].who
    BY <1>2, Hired DEF Open
  <2> QED
    BY <1>2, <2>1, <2>2, Hired, GhostKept
<1>3. ASSUME NEW p \in Proc, Transfer(p) PROVE GhostInv'
  <2>1. \A a \in Analyst : roster[a] # Absent => roster'[a] # Absent
    BY <1>3, Transferred, OnRosterIs
  <2>2. \A t \in Task : Open(t)' /\ t \notin reopened' =>
          Open(t) /\ t \notin reopened /\ task'[t].who = task[t].who
    BY <1>3, Transferred DEF Open
  <2> QED
    BY <1>3, <2>1, <2>2, Transferred, GhostKept
<1> QED
  BY <1>0, <1>1, <1>2, <1>3, GhostMoves, GhostAssign, GhostBegin, GhostRemove DEF Step

\* Nobody works for a name that is not on the roster, unless an assignment ran
\* beside a removal or stamped work was opened again: what Remove counts before
\* it deletes and Assign asks of the name keep each other's promise.
THEOREM RosterNobodyWorksForAGhost == Spec => []NobodyWorksForAGhost
<1>1. Init => Typed /\ BookInv /\ GhostInv
  BY TypedInit, BookInit, GhostInit
<1>2. Typed /\ BookInv /\ GhostInv /\ [Next]_vars => (Typed /\ BookInv /\ GhostInv)'
  BY TypedNext, BookNext, GhostNext
<1>3. GhostInv => NobodyWorksForAGhost
  BY DEF GhostInv, GhostRace, NobodyWorksForAGhost
<1> QED
  BY <1>1, <1>2, <1>3, PTL DEF Spec

-----------------------------------------------------------------------------
(* Removals beside hires and transfers. *)

ChainRace == Overlapped("remove", "transfer") \/ Overlapped("remove", "hire")

\* A parent's name that the roster R answers for, or that a hire was put under
\* while nobody had it.
Stands(R, M, a) == a = Nobody \/ (a # Nobody /\ R[a] # Absent) \/ a \in M
There(a) == Stands(roster, missing, a)

\* Every analyst acts under somebody who is there; a removal that has looked
\* found no children, and no hire or transfer runs beside it.
ChainInv == ~ChainRace =>
  /\ OnRoster(Supervisor)
  /\ \A a \in Analyst : There(roster[a].parent)
  /\ \A p \in Proc : proc[p].op = "remove" =>
       /\ proc[p].name # Supervisor
       /\ proc[p].at = "delete" => ChildrenOf(proc[p].name) = {}
  /\ \A p \in Proc : proc[p].op = "transfer" =>
       There(proc[p].parent) /\ There(proc[p].seen.parent)
  /\ \A p, q \in Proc : ~(proc[p].op = "remove" /\ proc[q].op \in {"transfer", "hire"})

LEMMA ChainInit == Init => ChainInv
<1> SUFFICES ASSUME Init PROVE ChainInv
  OBVIOUS
<1>1. roster = InitRoster /\ proc = [p \in Proc |-> Idle]
  BY DEF Init
<1>2. \A p \in Proc : proc[p].op = "idle"
  BY <1>1 DEF Idle
<1>3. \A a \in Analyst : There(roster[a].parent)
  BY <1>1, SeedAssumption DEF There, Stands
<1>4. OnRoster(Supervisor)
  BY <1>1, SeedAssumption, RosterAssumption DEF OnRoster
<1> QED
  BY <1>2, <1>3, <1>4 DEF ChainInv

\* A parent's name, whoever reads it.
LEMMA ParentNames ==
  ASSUME Typed
  PROVE  /\ \A a \in Analyst : roster[a].parent \in Analyst \cup {Nobody}
         /\ \A p \in Proc : proc[p].parent \in Analyst \cup {Nobody}
         /\ \A p \in Proc : proc[p].seen.parent \in Analyst \cup {Nobody}
<1>1. \A e \in Entry \cup {Absent} : e.parent \in Analyst \cup {Nobody}
  <2>1. \A e \in Entry : e.parent \in Analyst \cup {Nobody}
    BY DEF Entry
  <2>2. Absent.parent = Nobody
    BY DEF Absent
  <2> QED
    BY <2>1, <2>2
<1>2. \A p \in Proc : proc[p].parent \in Analyst \cup {Nobody} /\ proc[p].seen \in Entry \cup {Absent}
  BY DEF Typed, ProcTyped, Handler
<1> QED
  BY <1>1, <1>2 DEF Typed, RosterTyped

\* Whoever stood still stands.
StandsOn ==
  \A a \in Analyst \cup {Nobody} : There(a) => Stands(roster', missing', a)

\* Where nobody goes, whoever was there still is.
LEMMA StillThere ==
  ASSUME \A a \in Analyst : roster[a] # Absent => roster'[a] # Absent, missing' = missing
  PROVE  StandsOn
BY DEF StandsOn, There, Stands

\* What a step leaves to be shown: the parents, and the handlers that go on.
LEMMA ChainFollows ==
  ASSUME Typed, roster'[Supervisor] # Absent,
         \A a \in Analyst : Stands(roster', missing', roster'[a].parent),
         \A q \in Proc : proc'[q].op = "remove" =>
           /\ proc'[q].name # Supervisor
           /\ proc'[q].at = "delete" => \A b \in Analyst : roster'[b].parent # proc'[q].name,
         \A q \in Proc : proc'[q].op = "transfer" =>
           /\ Stands(roster', missing', proc'[q].parent)
           /\ Stands(roster', missing', proc'[q].seen.parent),
         \A q, u \in Proc : ~(proc'[q].op = "remove" /\ proc'[u].op \in {"transfer", "hire"})
  PROVE  ChainInv'
<1>1. Supervisor # Nobody
  BY RosterAssumption
<1> QED
  BY <1>1 DEF ChainInv, There, OnRoster, ChildrenOf

LEMMA ChainQuiet == ASSUME Typed, ChainInv, Quiet PROVE ChainInv'
<1> SUFFICES ASSUME ~ChainRace PROVE ChainInv'
  BY DEF ChainInv, ChainRace, Overlapped, Quiet
<1>1. /\ \A a \in Analyst : roster[a] # Absent => roster'[a] # Absent
      /\ \A a \in Analyst : roster'[a].parent = roster[a].parent
      /\ missing' = missing
  BY DEF Quiet
<1>2. \A q \in Proc : proc'[q].op # "idle" =>
        /\ proc'[q].op = proc[q].op /\ proc'[q].name = proc[q].name
        /\ proc'[q].parent = proc[q].parent /\ proc'[q].seen = proc[q].seen
        /\ proc[q].op = "remove" /\ proc'[q].at = "delete" =>
             proc[q].at = "delete" \/ ChildrenOf(proc[q].name) = {}
  BY DEF Quiet
<1>3. StandsOn
  BY <1>1, StillThere
<1>4. roster'[Supervisor] # Absent
  BY <1>1, RosterAssumption DEF ChainInv, OnRoster
<1>5. \A a \in Analyst : Stands(roster', missing', roster'[a].parent)
  BY <1>1, <1>3, ParentNames DEF ChainInv, StandsOn
<1>6. \A q \in Proc : proc'[q].op = "remove" =>
        /\ proc'[q].name # Supervisor
        /\ proc'[q].at = "delete" => \A b \in Analyst : roster'[b].parent # proc'[q].name
  BY <1>1, <1>2 DEF ChainInv, ChildrenOf
<1>7. \A q \in Proc : proc'[q].op = "transfer" =>
        /\ Stands(roster', missing', proc'[q].parent)
        /\ Stands(roster', missing', proc'[q].seen.parent)
  BY <1>2, <1>3, ParentNames DEF ChainInv, StandsOn
<1>8. \A q, u \in Proc : ~(proc'[q].op = "remove" /\ proc'[u].op \in {"transfer", "hire"})
  BY <1>2 DEF ChainInv
<1> HIDE DEF Quiet
<1> QED
  BY <1>4, <1>5, <1>6, <1>7, <1>8, ChainFollows

LEMMA ChainBegin ==
  ASSUME Typed, ChainInv, NEW p \in Proc, NEW r \in Handler, Looked(r), Begin(p, r)
  PROVE  ChainInv'
<1> SUFFICES ASSUME ~ChainRace, ~ChainRace' PROVE ChainInv'
  BY OthersStay DEF ChainInv, ChainRace, Overlapped
<1>1. \A q \in Proc : q # p => proc'[q] = proc[q]
  BY OthersStay
<1>2. proc'[p] = r /\ roster' = roster /\ missing' = missing
  BY OthersStay
<1>3. ASSUME NEW q \in Proc,
             {r.op, proc[q].op} \in {{"remove", "transfer"}, {"remove", "hire"}} PROVE FALSE
  <2>1. {r.op, proc[q].op} \in Races /\ proc[q].op # "idle"
    BY <1>3 DEF Races
  <2> QED
    BY <1>3, <2>1, Meets DEF ChainRace, Overlapped
<1>4. r.op = "remove" => r.name # Supervisor /\ r.at # "delete"
  BY DEF Looked
<1>5. r.op = "transfer" => There(r.parent) /\ There(r.seen.parent)
  <2> SUFFICES ASSUME r.op = "transfer" PROVE There(r.parent) /\ There(r.seen.parent)
    OBVIOUS
  <2>1. r.name \in Analyst /\ r.seen = roster[r.name]
    BY DEF Looked
  <2>2. There(roster[r.name].parent)
    BY <2>1 DEF ChainInv
  <2>3. r.parent \in {Nobody, roster[r.name].parent} \/ OnRoster(r.parent)
    BY DEF Looked, MayActUnder
  <2> QED
    BY <2>1, <2>2, <2>3 DEF There, Stands, OnRoster
<1>6. \A q, u \in Proc : ~(proc'[q].op = "remove" /\ proc'[u].op \in {"transfer", "hire"})
  <2> SUFFICES ASSUME NEW q \in Proc, NEW u \in Proc,
                      proc'[q].op = "remove", proc'[u].op \in {"transfer", "hire"} PROVE FALSE
    OBVIOUS
  <2>1. CASE q = p
    BY <1>1, <1>2, <1>3, <2>1
  <2>2. CASE u = p
    BY <1>1, <1>2, <1>3, <2>2
  <2>3. CASE q # p /\ u # p
    BY <1>1, <2>3 DEF ChainInv
  <2> QED
    BY <2>1, <2>2, <2>3
<1>7. \A q \in Proc : proc'[q].op = "remove" =>
        /\ proc'[q].name # Supervisor
        /\ proc'[q].at = "delete" => \A b \in Analyst : roster'[b].parent # proc'[q].name
  BY <1>1, <1>2, <1>4 DEF ChainInv, ChildrenOf
<1>8. \A q \in Proc : proc'[q].op = "transfer" =>
        /\ Stands(roster', missing', proc'[q].parent)
        /\ Stands(roster', missing', proc'[q].seen.parent)
  BY <1>1, <1>2, <1>5 DEF ChainInv, There
<1>9. roster'[Supervisor] # Absent /\ \A a \in Analyst : Stands(roster', missing', roster'[a].parent)
  BY <1>2 DEF ChainInv, There, OnRoster
<1> QED
  BY <1>6, <1>7, <1>8, <1>9, ChainFollows

\* A handler ends; whoever stood stands, and nobody gets a parent who does not
\* or one that a removal has counted.
LEMMA ChainKept ==
  ASSUME Typed, ChainInv, ~ChainRace, NEW p \in Proc, End(p), StandsOn,
         roster'[Supervisor] # Absent,
         \A a \in Analyst : \/ roster'[a].parent = roster[a].parent
                            \/ /\ Stands(roster', missing', roster'[a].parent)
                               /\ \A q \in Proc : proc[q].op # "remove"
  PROVE  ChainInv'
<1>1. \A q \in Proc : proc'[q].op # "idle" => proc'[q] = proc[q]
  BY EndsQuietly
<1>2. \A a \in Analyst : Stands(roster', missing', roster'[a].parent)
  BY ParentNames DEF ChainInv, StandsOn
<1>3. \A q \in Proc : proc'[q].op = "remove" =>
        /\ proc'[q].name # Supervisor
        /\ proc'[q].at = "delete" => \A b \in Analyst : roster'[b].parent # proc'[q].name
  BY <1>1 DEF ChainInv, ChildrenOf
<1>4. \A q \in Proc : proc'[q].op = "transfer" =>
        /\ Stands(roster', missing', proc'[q].parent)
        /\ Stands(roster', missing', proc'[q].seen.parent)
  BY <1>1, ParentNames DEF ChainInv, StandsOn
<1>5. \A q, u \in Proc : ~(proc'[q].op = "remove" /\ proc'[u].op \in {"transfer", "hire"})
  BY <1>1 DEF ChainInv
<1> QED
  BY <1>2, <1>3, <1>4, <1>5, ChainFollows

LEMMA ChainHire == ASSUME Typed, ChainInv, NEW p \in Proc, Hire(p) PROVE ChainInv'
<1> SUFFICES ASSUME ~ChainRace PROVE ChainInv'
  BY Hired DEF ChainInv, ChainRace, Overlapped
<1> DEFINE n == proc[p].name
           q == proc[p].parent
<1>1. \A u \in Proc : proc[u].op # "remove"
  BY DEF Hire, ChainInv
<1>2. n \in Analyst /\ n # Nobody /\ q \in Analyst \cup {Nobody}
  BY Hired, ParentNames, NobodyAbsent
<1>3. \A a \in Analyst : roster[a] # Absent => roster'[a] # Absent
  BY Hired, OnRosterIs
<1>4. CASE OnRoster(n)
  <2>1. missing' = missing /\ roster' = roster /\ End(p)
    BY <1>4, Hired DEF Hire
  <2> QED
    BY <1>3, <2>1, StillThere, ChainKept DEF ChainInv, OnRoster
<1>5. CASE ~OnRoster(n)
  <2>1. missing' = (missing \cup {u \in {q} : u # Nobody /\ ~OnRoster(u)}) \ {n}
    BY <1>5, Hired
  <2>2. roster'[n] # Absent /\ \A a \in Analyst : a # n => roster'[a] = roster[a]
    BY <1>5, Hired
  <2>3. roster'[n].parent = q /\ End(p)
    BY <1>5, Hired
  <2> HIDE DEF n, q
  <2>4. StandsOn
    BY <1>2, <1>3, <2>1, <2>2 DEF StandsOn, There, Stands
  <2>5. Stands(roster', missing', q)
    BY <1>2, <1>3, <2>1, <2>2, OnRosterIs, NobodyAbsent DEF Stands
  <2>6. roster'[Supervisor] # Absent
    BY <1>3, RosterAssumption DEF ChainInv, OnRoster
  <2>7. \A a \in Analyst : \/ roster'[a].parent = roster[a].parent
                           \/ Stands(roster', missing', roster'[a].parent)
    BY <2>2, <2>3, <2>5
  <2> QED
    BY <1>1, <2>3, <2>4, <2>6, <2>7, ChainKept
<1> QED
  BY <1>4, <1>5

LEMMA ChainTransfer == ASSUME Typed, ChainInv, NEW p \in Proc, Transfer(p) PROVE ChainInv'
<1> SUFFICES ASSUME ~ChainRace PROVE ChainInv'
  BY Transferred DEF ChainInv, ChainRace, Overlapped
<1> DEFINE n == NewParent(proc[p])
<1>1. proc[p].op = "transfer" /\ \A q \in Proc : proc[q].op # "remove"
  BY DEF Transfer, ChainInv
<1>2. n \in Analyst \cup {Nobody} /\ There(n)
  <2>1. There(proc[p].parent) /\ There(proc[p].seen.parent) /\ OnRoster(Supervisor)
    BY <1>1 DEF ChainInv
  <2>2. proc[p].desk \in Desk /\ Partner[proc[p].desk] \in Analyst \cup {Nobody}
        /\ Supervisor \in Analyst
    BY <1>1, RosterAssumption DEF Typed, ProcTyped, Shape
  <2> QED
    BY <2>1, <2>2, ParentNames DEF NewParent, There, Stands, OnRoster
<1>3. \A a \in Analyst : roster[a] # Absent => roster'[a] # Absent
  BY Transferred, OnRosterIs
<1>4. \A a \in Analyst : roster'[a].parent \in {roster[a].parent, n}
  BY Transferred
<1>5. missing' = missing /\ End(p)
  BY Transferred
<1> HIDE DEF n
<1>6. StandsOn
  BY <1>3, <1>5, StillThere
<1>7. Stands(roster', missing', n)
  BY <1>2, <1>6 DEF StandsOn
<1>8. roster'[Supervisor] # Absent
  BY <1>3, RosterAssumption DEF ChainInv, OnRoster
<1> QED
  BY <1>1, <1>4, <1>5, <1>6, <1>7, <1>8, ChainKept

LEMMA ChainRemove == ASSUME Typed, ChainInv, NEW p \in Proc, Remove(p) PROVE ChainInv'
<1> SUFFICES ASSUME ~ChainRace PROVE ChainInv'
  BY Removed DEF ChainInv, ChainRace, Overlapped
<1> DEFINE a == proc[p].name
<1>1. a \in Analyst /\ a # Supervisor /\ \A b \in Analyst : roster[b].parent # a
  BY Removed DEF ChainInv, ChildrenOf
<1>2. \A q \in Proc : proc'[q].op # "idle" => proc'[q] = proc[q]
  BY EndsQuietly, Removed
<1>3. roster'[a] = Absent /\ missing' = missing /\ \A b \in Analyst : b # a => roster'[b] = roster[b]
  BY Removed
<1>4. \A q \in Proc : proc[q].op \notin {"transfer", "hire"}
  BY Removed DEF ChainInv
<1> HIDE DEF a
<1>5. roster'[Supervisor] # Absent
  BY <1>1, <1>3, RosterAssumption DEF ChainInv, OnRoster
<1>6. \A b \in Analyst : roster'[b].parent \in {Nobody, roster[b].parent}
  <2>1. Absent.parent = Nobody
    BY DEF Absent
  <2> QED
    BY <1>3, <2>1
<1>7. ASSUME NEW b \in Analyst PROVE Stands(roster', missing', roster'[b].parent)
  <2>1. CASE roster'[b].parent = Nobody
    BY <2>1 DEF Stands
  <2>2. CASE roster'[b].parent # Nobody
    <3>1. roster'[b].parent = roster[b].parent /\ roster[b].parent \in Analyst
      BY <1>6, <2>2, ParentNames
    <3>2. There(roster[b].parent) /\ roster[b].parent # a
      BY <1>1 DEF ChainInv
    <3> QED
      BY <1>3, <3>1, <3>2 DEF There, Stands
  <2> QED
    BY <2>1, <2>2
<1>8. ASSUME NEW q \in Proc, proc'[q].op = "remove"
      PROVE  /\ proc'[q].name # Supervisor
             /\ proc'[q].at = "delete" => \A b \in Analyst : roster'[b].parent # proc'[q].name
  <2>1. proc'[q] = proc[q] /\ proc[q].op = "remove"
    BY <1>2, <1>8
  <2>2. proc[q].name \in Analyst
    BY <2>1 DEF Typed, ProcTyped, Shape
  <2>3. /\ proc[q].name # Supervisor
        /\ proc[q].at = "delete" => \A b \in Analyst : roster[b].parent # proc[q].name
    BY <2>1 DEF ChainInv, ChildrenOf
  <2>4. proc[q].name # Nobody
    BY <2>2, NobodyAbsent
  <2> QED
    BY <1>6, <2>1, <2>3, <2>4
<1>9. \A q \in Proc : proc'[q].op \notin {"transfer", "hire"}
  BY <1>2, <1>4
<1> QED
  BY <1>5, <1>7, <1>8, <1>9, ChainFollows

LEMMA ChainNext == Typed /\ ChainInv /\ [Next]_vars => ChainInv'
<1> SUFFICES ASSUME Typed, ChainInv, [Next]_vars PROVE ChainInv'
  OBVIOUS
<1>0. Step
  BY Steps
<1>1. ASSUME NEW p \in Proc, End(p), UNCHANGED <<roster, met, missing>> PROVE ChainInv'
  <2> SUFFICES ASSUME ~ChainRace PROVE ChainInv'
    BY <1>1 DEF ChainInv, ChainRace, Overlapped
  <2>1. StandsOn /\ roster'[Supervisor] # Absent
    BY <1>1, StillThere DEF ChainInv, OnRoster
  <2> QED
    BY <1>1, <2>1, ChainKept
<1>2. ASSUME NEW p \in Proc, Assign(p) PROVE ChainInv'
  BY <1>1, <1>2, Assigned
<1>3. ASSUME NEW p \in Proc, NEW t \in Task, NEW s \in TaskStates, TaskMoves(p, t, s)
      PROVE  ChainInv'
  BY <1>1, <1>3 DEF TaskMoves
<1> QED
  BY <1>0, <1>2, <1>3, ChainQuiet, ChainBegin, ChainHire, ChainTransfer, ChainRemove DEF Step

\* Whoever an analyst acts under is on the roster, unless a hire was put under
\* a name nobody had and nobody has had since, or a hire or a transfer ran
\* beside a removal: Remove refuses the supervisor and whoever has children,
\* and a transfer takes no parent that is not there (roster.go).
THEOREM RosterChainIsWhole == Spec => []ChainIsWhole
<1>1. Init => Typed /\ ChainInv
  BY TypedInit, ChainInit
<1>2. Typed /\ ChainInv /\ [Next]_vars => (Typed /\ ChainInv)'
  BY TypedNext, ChainNext
<1>3. ChainInv => ChainIsWhole
  BY DEF ChainInv, ChainRace, There, Stands, OnRoster, ChainIsWhole
<1> QED
  BY <1>1, <1>2, <1>3, PTL DEF Spec
=============================================================================
