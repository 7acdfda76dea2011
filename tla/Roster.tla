------------------------------- MODULE Roster -------------------------------
(***************************************************************************)
(* The crew's roster and the work it holds: hiring, states, re-briefing,   *)
(* transfers and removals (crew/roster.go), desk halts (crew/halt.go), the *)
(* board's clicks (crew/crew.go) and the owner recorded on a charge        *)
(* (crew/ownership.go), as the console's handlers call them.               *)
(*                                                                         *)
(* A handler is a process of its own over one SQLite database; a write is  *)
(* one step, and so are the reads a handler makes before its next write    *)
(* unless another handler can get between them to some effect.             *)
(***************************************************************************)
EXTENDS Integers, FiniteSets

CONSTANTS
  Proc,        \* the handlers that may be in flight
  Analyst, Desk, Person, Task,
  Supervisor,  \* the name every default parent points at
  Partner,     \* Partner[d]: the name "partner-" \o d
  InitRoster,  \* the roster as it was seeded
  InitTask,    \* the board as it was seeded
  Copies,      \* bound: deliverables of one task
  MaxBusy,     \* bound: handlers in flight at once
  MaxOps,      \* bound: handlers started
  MaxFails     \* bound: handlers that die between two statements

Nobody == "nobody"   \* no assignee, no parent, no owner
Absent == [state |-> "absent", desk |-> "", owner |-> Nobody, parent |-> Nobody]

States == {"active", "suspended", "restricted"}   \* probation, onboarding: as restricted
TaskStates == {"queued", "active", "blocked", "returned", "posted"}
OpenStates == {"queued", "active", "blocked", "returned"}
ArtifactStates == {"none", "draft", "returned", "posted"}
Kinds == {"hire", "state", "rebrief", "remove", "transfer", "assign", "block",
          "post", "return", "halt", "lift"}

Entry == [state : States, desk : Desk, owner : Person, parent : Analyst \cup {Nobody}]
Row == [state : TaskStates, who : Analyst \cup {Nobody}, desk : Desk,
        owner : Person \cup {Nobody}]

ASSUME RosterAssumption ==
  /\ Supervisor \in Analyst /\ Nobody \notin Analyst \cup Person
  /\ Partner \in [Desk -> Analyst \cup {Nobody}]
  /\ InitRoster \in [Analyst -> Entry \cup {Absent}]
  /\ InitTask \in [Task -> Row]
  /\ \A t \in Task : InitTask[t].state \in OpenStates
  /\ "" \notin Desk
  /\ Copies \in Nat \ {0}
  /\ MaxBusy \in Nat /\ MaxOps \in Nat /\ MaxFails \in Nat

\* What the seeds leave: the supervisor and every parent are on the roster, and
\* a task is owned by whoever owns its analyst.
ASSUME SeedAssumption ==
  /\ InitRoster[Supervisor] # Absent
  /\ \A a \in Analyst : InitRoster[a].parent # Nobody => InitRoster[InitRoster[a].parent] # Absent
  /\ \A t \in Task : InitTask[t].who # Nobody =>
       /\ InitRoster[InitTask[t].who] # Absent
       /\ InitTask[t].owner = InitRoster[InitTask[t].who].owner
  /\ "" \notin Person

VARIABLES
  roster,    \* analysts, by name
  task,      \* tasks
  draft,     \* artifacts.state of each deliverable of a task
  halt,      \* desk_halts: the suspended column, or NoHalt
  proc,      \* per handler, what it does and where it stands
  ops, fails,  \* counters of two bounds
  met,       \* history: which kinds were in flight together
  died,      \* history: the kinds that died half way
  cause,     \* history: the desk whose halt wrote an analyst's state last
  spared,    \* history: analysts a person stopped outside any halt's list
  booked,    \* history: the owner of a task when it was first posted
  reopened,  \* history: posted tasks that were opened again
  byHand,    \* history: tasks Assign wrote
  missing    \* history: names nobody had when a hire was put under them

boardVars == <<roster, task, draft, halt>>
histVars == <<met, died, cause, spared, booked, reopened, byHand, missing>>
vars == <<boardVars, proc, ops, fails, histVars>>

NoHalt == <<>>
Idle == [op |-> "idle", at |-> "", name |-> Nobody, desk |-> "",
         owner |-> Nobody, parent |-> Nobody, to |-> "", task |-> Nobody,
         copy |-> 0, seen |-> Absent, todo |-> {}, did |-> {}]

Init ==
  /\ roster = InitRoster
  /\ task = InitTask
  /\ draft = [t \in Task |-> [k \in 1..Copies |-> "none"]]
  /\ halt = [d \in Desk |-> NoHalt]
  /\ proc = [p \in Proc |-> Idle]
  /\ ops = 0 /\ fails = 0
  /\ met = {} /\ died = {}
  /\ cause = [a \in Analyst |-> ""]
  /\ spared = {a \in Analyst : InitRoster[a].state # "active"}
  /\ booked = [t \in Task |-> ""]
  /\ reopened = {} /\ byHand = {} /\ missing = {}

-----------------------------------------------------------------------------
OnRoster(a) == a # Nobody /\ roster[a] # Absent
Open(t) == task[t].state \in OpenStates
\* Slip: only work in flight is counted, not what was blocked or returned.
OpenOfActive(a) == {t \in Task : task[t].state = "active" /\ task[t].who = a}

OpenOf(a) == {t \in Task : Open(t) /\ task[t].who = a}
\* Slip: the children on the rota are counted, not the suspended ones.
ChildrenOnTheRota(a) == {b \in Analyst : roster[b].parent = a /\ roster[b].state = "active"}

ChildrenOf(a) == {b \in Analyst : roster[b].parent = a}

\* mayManage: the owner of the analyst, or an admin; the one who asks is not
\* remembered, so Person holds the admins as well.
MayManage(u, a) == OnRoster(a) /\ roster[a].owner = u

Busy == {p \in Proc : proc[p].op # "idle"}

\* The overlaps the history keeps: the ones a property names.
Races == {{"halt"}, {"lift"}, {"transfer"}, {"halt", "remove"}, {"halt", "state"},
          {"remove", "assign"}, {"remove", "transfer"}, {"remove", "hire"},
          {"post", "return"}}

\* A handler comes in; the ones already in flight are remembered with it.
Begin(p, r) ==
  /\ proc[p].op = "idle"
  /\ Cardinality(Busy) < MaxBusy
  /\ ops < MaxOps
  /\ proc' = [proc EXCEPT ![p] = r]
  /\ ops' = ops + 1
  /\ met' = met \cup (Races \cap {{r.op, proc[q].op} : q \in Busy})
  /\ UNCHANGED <<boardVars, fails, died, cause, spared, booked, reopened, byHand, missing>>

End(p) == proc' = [proc EXCEPT ![p] = Idle]
Goto(p, at) == proc' = [proc EXCEPT ![p].at = at]
At(p, op, at) == proc[p].op = op /\ proc[p].at = at
Same == UNCHANGED <<ops, fails, met, died, missing>>

\* UPDATE analysts SET state: every caller of SetState ends here.  A row that
\* is gone is updated by nobody, which is no error.
WriteState(a, s, why) ==
  /\ roster' = IF OnRoster(a) THEN [roster EXCEPT ![a].state = s] ELSE roster
  /\ cause' = IF OnRoster(a) THEN [cause EXCEPT ![a] = why] ELSE cause

-----------------------------------------------------------------------------
(* Hiring, states, re-briefing and removal: crew/roster.go. *)

\* Any name may be posted as the parent, and nobody asks whether it exists.
BeginHire(p) == \E a \in Analyst, d \in Desk, u \in Person, q \in Analyst \cup {Nobody} :
  /\ ~OnRoster(a) /\ q # a
  /\ Begin(p, [Idle EXCEPT !.op = "hire", !.name = a, !.desk = d,
                           !.owner = u, !.parent = q])

\* The name is the primary key: a hire that lost the race is refused.
Hire(p) ==
  LET r == proc[p] IN
  /\ r.op = "hire"
  /\ roster' = IF OnRoster(r.name) THEN roster
               ELSE [roster EXCEPT ![r.name] =
                       [state |-> "active", desk |-> r.desk,
                        owner |-> r.owner, parent |-> r.parent]]
  /\ cause' = IF OnRoster(r.name) THEN cause ELSE [cause EXCEPT ![r.name] = ""]
  /\ spared' = spared \ (IF OnRoster(r.name) THEN {} ELSE {r.name})
  /\ missing' = IF OnRoster(r.name) THEN missing
                ELSE (missing \cup {q \in {r.parent} : q # Nobody /\ ~OnRoster(q)}) \ {r.name}
  /\ End(p)
  /\ UNCHANGED <<task, draft, halt, ops, fails, met, died, booked, reopened, byHand>>

BeginState(p) == \E a \in Analyst, s \in States :
  /\ \E u \in Person : MayManage(u, a)
  /\ Begin(p, [Idle EXCEPT !.op = "state", !.name = a, !.to = s])

SetState(p) ==
  LET r == proc[p] IN
  /\ r.op = "state"
  /\ WriteState(r.name, r.to, "")
  /\ spared' = IF r.to = "active" THEN spared \ {r.name}
               ELSE IF OnRoster(r.name)
                       /\ \A d \in Desk : halt[d] = NoHalt \/ r.name \notin halt[d].names
                    THEN spared \cup {r.name} ELSE spared
  /\ End(p) /\ Same
  /\ UNCHANGED <<task, draft, halt, booked, reopened, byHand>>

\* Rebrief moves the desk and nothing that hangs on it.
BeginRebrief(p) == \E a \in Analyst, d \in Desk :
  /\ \E u \in Person : MayManage(u, a)
  /\ Begin(p, [Idle EXCEPT !.op = "rebrief", !.name = a, !.desk = d])

Rebrief(p) ==
  LET r == proc[p] IN
  /\ r.op = "rebrief"
  /\ roster' = IF OnRoster(r.name) THEN [roster EXCEPT ![r.name].desk = r.desk] ELSE roster
  /\ End(p) /\ Same
  /\ UNCHANGED <<task, draft, halt, cause, spared, booked, reopened, byHand>>

\* Remove counts the open work and then the children, and deletes last.
BeginRemove(p) == \E a \in Analyst :
  /\ \E u \in Person : MayManage(u, a)
  /\ a # Supervisor
  /\ OpenOf(a) = {}
  /\ Begin(p, [Idle EXCEPT !.op = "remove", !.name = a, !.at = "children"])

RemoveLooks(p) ==
  /\ At(p, "remove", "children")
  /\ IF ChildrenOf(proc[p].name) = {} THEN Goto(p, "delete") ELSE End(p)
  /\ Same
  /\ UNCHANGED <<boardVars, cause, spared, booked, reopened, byHand>>

\* Slip: the row is blanked where it should be deleted.
RemoveBlanks(p) ==
  LET a == proc[p].name IN
  /\ At(p, "remove", "delete")
  /\ roster' = [roster EXCEPT ![a].owner = Nobody]
  /\ End(p) /\ Same
  /\ UNCHANGED <<task, draft, halt, cause, spared, booked, reopened, byHand>>

Remove(p) ==
  LET a == proc[p].name IN
  /\ At(p, "remove", "delete")
  /\ roster' = [roster EXCEPT ![a] = Absent]
  /\ cause' = [cause EXCEPT ![a] = ""]
  /\ spared' = spared \ {a}
  /\ End(p) /\ Same
  /\ UNCHANGED <<task, draft, halt, booked, reopened, byHand>>

-----------------------------------------------------------------------------
(* Transfer: the analyst is read once, the move is one transaction. *)

\* Slip: the parent exists, and who it acts under is not asked.
MayActUnderAnybody(a, q) == OnRoster(q)

\* One hop: it exists and does not act under a already.
MayActUnder(a, q) == OnRoster(q) /\ roster[q].parent # a

BeginTransfer(p) ==
  \E a \in Analyst, d \in Desk, w \in Person, q \in Analyst \cup {Nobody} :
  /\ \E u \in Person : MayManage(u, a)
  /\ d # roster[a].desk \/ w # roster[a].owner \/ q \notin {Nobody, roster[a].parent}
  /\ q # a
  /\ q \notin {Nobody, roster[a].parent} => MayActUnder(a, q)
  /\ Begin(p, [Idle EXCEPT !.op = "transfer", !.name = a, !.desk = d, !.owner = w,
                           !.parent = q, !.seen = roster[a]])

\* The parent a move ends under: the one asked for, the new desk's partner
\* for one who answered to the old desk's, the old one otherwise.
Follows(r) ==
  /\ r.parent = Nobody /\ r.desk # r.seen.desk
  /\ r.seen.parent # Nobody /\ r.seen.parent = Partner[r.seen.desk]

NewParent(r) ==
  IF r.parent # Nobody THEN r.parent
  ELSE IF ~Follows(r) THEN r.seen.parent
  ELSE IF Partner[r.desk] # Nobody /\ OnRoster(Partner[r.desk]) THEN Partner[r.desk]
  ELSE Supervisor

\* Slip: all its work moves, what was stamped and charged as well.
MovesAll(a) == {t \in Task : task[t].who = a}

\* Slip: the work stays where it was.
MovesNothing(a) == {}

\* Which work moves with an analyst.
MovesWith(a) == OpenOf(a)

Transfer(p) ==
  LET r == proc[p] IN
  /\ r.op = "transfer"
  /\ roster' = IF OnRoster(r.name)
               THEN [roster EXCEPT ![r.name].desk = r.desk, ![r.name].owner = r.owner,
                                   ![r.name].parent = NewParent(r)]
               ELSE roster
  /\ task' = [t \in Task |-> IF t \in MovesWith(r.name)
                             THEN [task[t] EXCEPT !.desk = r.desk, !.owner = r.owner]
                             ELSE task[t]]
  /\ End(p) /\ Same
  /\ UNCHANGED <<draft, halt, cause, spared, booked, reopened, byHand>>

-----------------------------------------------------------------------------
(* The board's clicks: crew/crew.go. *)

\* A task's new state, and what the history makes of it.
WriteTask(t, row) ==
  /\ task' = [task EXCEPT ![t] = row]
  /\ booked' = IF row.state = "posted" /\ booked[t] = ""
               THEN [booked EXCEPT ![t] = row.owner] ELSE booked
  /\ reopened' = IF booked[t] # "" /\ row.state # "posted"
                 THEN reopened \cup {t} ELSE reopened

Assignable(a) == a # Nobody => OnRoster(a) /\ roster[a].state # "suspended"

BeginAssign(p) == \E t \in Task, a \in Analyst \cup {Nobody} :
  /\ task[t].state # "posted"
  /\ Assignable(a)
  /\ Begin(p, [Idle EXCEPT !.op = "assign", !.task = t, !.name = a])

\* Assign rewrites who works on it, and neither the desk nor the owner.
Assign(p) ==
  LET r == proc[p] IN
  /\ r.op = "assign"
  /\ WriteTask(r.task, [task[r.task] EXCEPT !.who = r.name, !.state = "active"])
  /\ byHand' = byHand \cup {r.task}
  /\ End(p) /\ Same
  /\ UNCHANGED <<roster, draft, halt, cause, spared>>

BeginBlock(p) == \E t \in Task :
  /\ task[t].state # "posted"
  /\ Begin(p, [Idle EXCEPT !.op = "block", !.task = t])

Block(p) ==
  LET t == proc[p].task IN
  /\ proc[p].op = "block"
  /\ WriteTask(t, [task[t] EXCEPT !.state = "blocked"])
  /\ End(p) /\ Same
  /\ UNCHANGED <<roster, draft, halt, cause, spared, byHand>>

\* The live runner's draft: any task that is open and not blocked, also one
\* that has a deliverable waiting already.
File(t, k) ==
  /\ Open(t) /\ task[t].state # "blocked"
  /\ task[t].who # Nobody /\ OnRoster(task[t].who)
  /\ roster[task[t].who].state # "suspended"
  /\ draft[t][k] = "none"
  /\ \A j \in 1..(k - 1) : draft[t][j] # "none"
  /\ draft' = [draft EXCEPT ![t][k] = "draft"]
  /\ UNCHANGED <<roster, task, halt, proc, ops, fails, histVars>>

\* Post and Return look at their own deliverable only.
Unsettled(t, k) == draft[t][k] \in {"draft", "returned"}

BeginJudge(p, op) == \E t \in Task, k \in 1..Copies :
  /\ Unsettled(t, k)
  /\ Begin(p, [Idle EXCEPT !.op = op, !.at = "artifact", !.task = t, !.copy = k])

Verdict(op) == IF op = "post" THEN "posted" ELSE "returned"

JudgeArtifact(p, op) ==
  LET r == proc[p] IN
  /\ At(p, op, "artifact")
  /\ draft' = [draft EXCEPT ![r.task][r.copy] = Verdict(op)]
  /\ Goto(p, "task") /\ Same
  /\ UNCHANGED <<roster, task, halt, cause, spared, booked, reopened, byHand>>

\* Slip: the verdict reaches the task only while it is in flight.
JudgeTaskInFlight(p, op) ==
  LET t == proc[p].task IN
  /\ At(p, op, "task")
  /\ IF task[t].state = "active"
     THEN WriteTask(t, [task[t] EXCEPT !.state = Verdict(op)])
     ELSE UNCHANGED <<task, booked, reopened>>
  /\ End(p) /\ Same
  /\ UNCHANGED <<roster, draft, halt, cause, spared, byHand>>

JudgeTask(p, op) ==
  LET t == proc[p].task IN
  /\ At(p, op, "task")
  /\ WriteTask(t, [task[t] EXCEPT !.state = Verdict(op)])
  /\ End(p) /\ Same
  /\ UNCHANGED <<roster, draft, halt, cause, spared, byHand>>

-----------------------------------------------------------------------------
(* Desk halts: crew/halt.go. *)

\* Slip: everybody on the desk, whoever stopped them before.
ToSuspendAll(d) == {a \in Analyst : OnRoster(a) /\ roster[a].desk = d}

\* The roster is read once; who is active on the desk then is put down.
ToSuspend(d) == {a \in Analyst : OnRoster(a) /\ roster[a].desk = d
                                 /\ roster[a].state = "active"}

\* Slip: a desk already halted is halted again.
BeginHaltAgain(p) == \E d \in Desk :
  Begin(p, [Idle EXCEPT !.op = "halt", !.at = "suspend", !.desk = d,
                        !.todo = ToSuspend(d)])

BeginHalt(p) == \E d \in Desk :
  /\ halt[d] = NoHalt
  /\ Begin(p, [Idle EXCEPT !.op = "halt", !.at = "suspend", !.desk = d,
                           !.todo = ToSuspend(d)])

\* One SetState after the other; a name that is gone ends the halt there.
HaltSuspends(p) ==
  LET r == proc[p] IN
  /\ At(p, "halt", "suspend")
  /\ \E a \in r.todo :
       IF OnRoster(a)
       THEN /\ WriteState(a, "suspended", r.desk)
            /\ proc' = [proc EXCEPT ![p].todo = r.todo \ {a}, ![p].did = r.did \cup {a}]
       ELSE /\ UNCHANGED <<roster, cause>>
            /\ proc' = [proc EXCEPT ![p] = Idle]
  /\ Same
  /\ UNCHANGED <<task, draft, halt, spared, booked, reopened, byHand>>

\* The row that remembers whom: last, and refused when there is one already.
Halt(p) ==
  LET r == proc[p] IN
  /\ At(p, "halt", "suspend")
  /\ r.todo = {}
  /\ halt' = IF halt[r.desk] = NoHalt
             THEN [halt EXCEPT ![r.desk] = [names |-> r.did]] ELSE halt
  /\ End(p) /\ Same
  /\ UNCHANGED <<roster, task, draft, cause, spared, booked, reopened, byHand>>

BeginLift(p) == \E d \in Desk :
  /\ halt[d] # NoHalt
  /\ Begin(p, [Idle EXCEPT !.op = "lift", !.at = "wake", !.desk = d,
                           !.todo = halt[d].names])

\* A name that is no longer on the roster refuses the whole lift.
LiftWakes(p) ==
  LET r == proc[p] IN
  /\ At(p, "lift", "wake")
  /\ \E a \in r.todo :
       IF OnRoster(a)
       THEN /\ WriteState(a, "active", "")
            /\ proc' = [proc EXCEPT ![p].todo = r.todo \ {a}]
       ELSE /\ UNCHANGED <<roster, cause>>
            /\ proc' = [proc EXCEPT ![p] = Idle]
  /\ Same
  /\ UNCHANGED <<task, draft, halt, spared, booked, reopened, byHand>>

Lift(p) ==
  LET r == proc[p] IN
  /\ At(p, "lift", "wake")
  /\ r.todo = {}
  /\ halt' = [halt EXCEPT ![r.desk] = NoHalt]
  /\ End(p) /\ Same
  /\ UNCHANGED <<roster, task, draft, cause, spared, booked, reopened, byHand>>

\* A handler that dies between two of its writes.  One that dies before its
\* first has changed nothing.
Die(p) ==
  /\ \/ proc[p].at = "task"
     \/ proc[p].op = "halt" /\ proc[p].did # {}
     \/ proc[p].op = "lift"
  /\ fails < MaxFails
  /\ fails' = fails + 1
  /\ died' = died \cup {proc[p].op}
  /\ End(p)
  /\ UNCHANGED <<boardVars, ops, met, cause, spared, booked, reopened, byHand, missing>>

-----------------------------------------------------------------------------
Starts(p) ==
  \/ BeginHire(p) \/ BeginState(p) \/ BeginRebrief(p) \/ BeginRemove(p)
  \/ BeginTransfer(p) \/ BeginAssign(p) \/ BeginBlock(p)
  \/ BeginJudge(p, "post") \/ BeginJudge(p, "return")
  \/ BeginHalt(p) \/ BeginLift(p)

Continues(p) ==
  \/ Hire(p) \/ SetState(p) \/ Rebrief(p) \/ RemoveLooks(p) \/ Remove(p)
  \/ Transfer(p) \/ Assign(p) \/ Block(p)
  \/ JudgeArtifact(p, "post") \/ JudgeTask(p, "post")
  \/ JudgeArtifact(p, "return") \/ JudgeTask(p, "return")
  \/ HaltSuspends(p) \/ Halt(p) \/ LiftWakes(p) \/ Lift(p)

Next ==
  \/ \E p \in Proc : Starts(p) \/ Continues(p) \/ Die(p)
  \/ \E t \in Task, k \in 1..Copies : File(t, k)

Spec == Init /\ [][Next]_vars

-----------------------------------------------------------------------------
(* Properties. *)

Overlapped(x, y) == {x, y} \in met

Handler == [op : Kinds \cup {"idle"}, at : {"", "children", "delete", "artifact",
            "task", "suspend", "wake"}, name : Analyst \cup {Nobody},
            desk : Desk \cup {""}, owner : Person \cup {Nobody},
            parent : Analyst \cup {Nobody}, to : States \cup {""},
            task : Task \cup {Nobody}, copy : 0..Copies, seen : Entry \cup {Absent},
            todo : SUBSET Analyst, did : SUBSET Analyst]

\* The tables hold what their columns may hold.
TypeOK ==
  /\ roster \in [Analyst -> Entry \cup {Absent}]
  /\ task \in [Task -> Row]
  /\ draft \in [Task -> [1..Copies -> ArtifactStates]]
  /\ halt \in [Desk -> {NoHalt} \cup [names : SUBSET Analyst]]
  /\ proc \in [Proc -> Handler]
  /\ ops \in 0..MaxOps /\ fails \in 0..MaxFails

\* Open work is answered for by the owner of the analyst who has it: a
\* transfer moves both in one transaction.  What Assign handed over by hand
\* keeps the owner it had (Assign writes no owner), and so does work that was
\* opened again after its stamp.
WorkIsAnsweredFor ==
  \A t \in Task : Open(t) /\ t \notin byHand \cup reopened =>
    IF task[t].who = Nobody THEN task[t].owner = InitTask[t].owner
    ELSE OnRoster(task[t].who) => task[t].owner = roster[task[t].who].owner

\* "Work assigned to a name nobody can open" is what Remove refuses to make.
\* It arises only when an assignment ran beside the removal, between its
\* count and its DELETE, or from stamped work that was opened again.
NobodyWorksForAGhost ==
  \A t \in Task : Open(t) /\ task[t].who # Nobody =>
    OnRoster(task[t].who) \/ t \in reopened \/ Overlapped("remove", "assign")

\* Every analyst acts under one that exists: Remove refuses a parent, a move
\* asks for the one it is given, and one that follows the desk asks for the
\* partner inside its transaction. What breaks the chain is a hire under a name
\* nobody had then or has had since (crew.Hire takes the one it is given), or a
\* hire or a move beside a removal, between its count and its DELETE.
ChainIsWhole ==
  \A a \in Analyst : roster[a].parent # Nobody =>
    \/ OnRoster(roster[a].parent) \/ roster[a].parent \in missing
    \/ Overlapped("remove", "transfer") \/ Overlapped("remove", "hire")

\* The stamp and the board agree once nobody is judging: a posted deliverable
\* has a posted task and the other way round, short of the orders two clicks
\* on one deliverable may take, a death in between, and a second deliverable
\* returned after the first was posted.
Judging(t) == \E p \in Proc : proc[p].op \in {"post", "return"} /\ proc[p].task = t
StampAndTaskAgree ==
  \A t \in Task :
    ~Judging(t) /\ t \notin reopened /\ ~Overlapped("post", "return")
    /\ died \cap {"post", "return"} = {}
    => (task[t].state = "posted" <=> \E k \in 1..Copies : draft[t][k] = "posted")

\* The owner a charge was booked to is history: nothing rewrites it while the
\* work stays stamped.
BooksStayPut ==
  \A t \in Task : booked[t] # "" /\ t \notin reopened => task[t].owner = booked[t]

\* Whoever a halt put down is on its list, so that a lift can find them:
\* unless the halt died, ran beside another one or beside a removal, or two
\* lifts ran at once.
HaltRemembers ==
  \A a \in Analyst :
    cause[a] # "" /\ (\A p \in Proc : proc[p].op # "halt") /\ "halt" \notin died
    /\ ~Overlapped("halt", "halt") /\ ~Overlapped("halt", "remove")
    /\ ~Overlapped("lift", "lift")
    => halt[cause[a]] # NoHalt /\ a \in halt[cause[a]].names

\* A lift wakes nobody a person stopped outside its list: "lifting a halt
\* must not silently reactivate it".
LiftSparesOthers ==
  [][\A p \in Proc, a \in spared :
       At(p, "lift", "wake") /\ proc'[p] # proc[p]
       /\ ~Overlapped("halt", "state") /\ ~Overlapped("lift", "lift")
       => roster'[a].state = roster[a].state]_vars

\* A move under a parent somebody asked for closes no loop of two, unless two
\* moves overlapped, or the parent was removed beside the move and hired again
\* under the one who moves.  The parent a move FOLLOWS its desk to is not
\* looked at.
InLoop(R, a) == R[a].parent # Nobody /\ R[R[a].parent].parent = a
AskedMovesMakeNoLoop ==
  [][\A p \in Proc :
       proc[p].op = "transfer" /\ proc'[p] # proc[p] /\ proc[p].parent # Nobody
       /\ ~Overlapped("transfer", "transfer") /\ ~Overlapped("remove", "transfer")
       => LET a == proc[p].name IN InLoop(roster', a) => InLoop(roster, a)]_vars
=============================================================================
