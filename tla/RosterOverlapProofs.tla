------------------------ MODULE RosterOverlapProofs ------------------------
(***************************************************************************)
(* Theorems about the roster's handlers (Roster) beside each other: moves  *)
(* under a parent somebody asked for, desk halts and lifts, and the two    *)
(* writes of a verdict.  Each says what holds short of the overlaps, and   *)
(* the deaths half way, that its property names.                           *)
(***************************************************************************)
EXTENDS RosterProofs

-----------------------------------------------------------------------------
(* Moves under a parent somebody asked for. *)

LoopRace == Overlapped("transfer", "transfer") \/ Overlapped("remove", "transfer")

\* A move in flight still has its analyst, and keeps the parent the analyst has,
\* who may be nobody on the roster, or goes under one who is there and does not act
\* under the analyst.
Sound(r) ==
  /\ OnRoster(r.name)
  /\ r.parent # Nobody =>
       /\ r.parent # r.name
       /\ \/ roster[r.name].parent = r.parent
          \/ OnRoster(r.parent) /\ roster[r.parent].parent # r.name
LoopInv == ~LoopRace =>
  /\ \A p \in Proc : proc[p].op = "transfer" => Sound(proc[p])
  /\ \A p, q \in Proc :
       p # q => ~(proc[p].op \in {"transfer", "remove"} /\ proc[q].op = "transfer")

\* Where neither of its two names goes or gets another parent, a move stays
\* sound.
LEMMA SoundStays ==
  ASSUME Typed, NEW p \in Proc, proc[p].op = "transfer", Sound(proc[p]),
         \A a \in Analyst : OnRoster(a) => /\ roster'[a] # Absent
                                           /\ roster'[a].parent = roster[a].parent
  PROVE  LET r == proc[p] IN
         /\ r.name # Nobody /\ roster'[r.name] # Absent
         /\ r.parent # Nobody =>
              /\ r.parent # r.name
              /\ \/ roster'[r.name].parent = r.parent
                 \/ roster'[r.parent] # Absent /\ roster'[r.parent].parent # r.name
<1>1. proc[p].name \in Analyst /\ proc[p].parent \in Analyst \cup {Nobody}
  BY DEF Typed, ProcTyped, Shape, Handler
<1> QED
  BY <1>1, NobodyAbsent DEF Sound, OnRoster

LEMMA LoopKept ==
  ASSUME Typed, LoopInv, met' = met,
         \A a \in Analyst : OnRoster(a) => /\ roster'[a] # Absent
                                           /\ roster'[a].parent = roster[a].parent,
         \A q \in Proc : \/ proc'[q].op = "idle"
                         \/ /\ proc'[q].op = proc[q].op /\ proc'[q].name = proc[q].name
                            /\ proc'[q].parent = proc[q].parent
  PROVE  LoopInv'
<1> SUFFICES ASSUME ~LoopRace PROVE LoopInv'
  BY DEF LoopInv, LoopRace, Overlapped
<1>1. ASSUME NEW q \in Proc, proc'[q].op = "transfer"
      PROVE  LET r == proc'[q] IN
             /\ r.name # Nobody /\ roster'[r.name] # Absent
             /\ r.parent # Nobody =>
                  /\ r.parent # r.name
                  /\ \/ roster'[r.name].parent = r.parent
                     \/ roster'[r.parent] # Absent /\ roster'[r.parent].parent # r.name
  <2>1. proc[q].op = "transfer" /\ proc'[q].name = proc[q].name
        /\ proc'[q].parent = proc[q].parent
    BY <1>1
  <2>2. Sound(proc[q])
    BY <2>1 DEF LoopInv
  <2> QED
    BY <2>1, <2>2, SoundStays
<1>2. \A p, q \in Proc :
        p # q => ~(proc'[p].op \in {"transfer", "remove"} /\ proc'[q].op = "transfer")
  BY DEF LoopInv
<1> QED
  BY <1>1, <1>2 DEF LoopInv, Sound, OnRoster

LEMMA LoopBegin ==
  ASSUME Typed, LoopInv, NEW p \in Proc, NEW r \in Handler, Looked(r), Begin(p, r)
  PROVE  LoopInv'
<1> SUFFICES ASSUME ~LoopRace, ~LoopRace' PROVE LoopInv'
  BY OthersStay DEF LoopInv, LoopRace, Overlapped
<1>1. /\ \A q \in Proc : q # p => proc'[q] = proc[q]
      /\ proc'[p] = r /\ roster' = roster
  BY OthersStay
<1>2. ASSUME NEW q \in Proc, r.op \in {"transfer", "remove"},
             proc[q].op \in {"transfer", "remove"}
      PROVE  r.op = "remove" /\ proc[q].op = "remove"
  <2> SUFFICES ASSUME ~(r.op = "remove" /\ proc[q].op = "remove") PROVE FALSE
    OBVIOUS
  <2>1. {r.op, proc[q].op} \in {{"transfer"}, {"remove", "transfer"}}
    BY <1>2
  <2>2. {r.op, proc[q].op} \in met'
    BY <1>2, <2>1, Meets DEF Races
  <2> QED
    BY <2>1, <2>2 DEF LoopRace, Overlapped
<1>3. r.op = "transfer" => Sound(r)
  <2> SUFFICES ASSUME r.op = "transfer" PROVE Sound(r)
    OBVIOUS
  <2>1. /\ r.name \in Analyst /\ OnRoster(r.name) /\ r.parent # r.name
        /\ r.parent \notin {Nobody, roster[r.name].parent} => MayActUnder(r.name, r.parent)
    BY DEF Looked
  <2> QED
    BY <2>1 DEF Sound, MayActUnder
<1>4. \A q \in Proc : proc'[q].op = "transfer" => Sound(proc'[q])
  BY <1>1, <1>3 DEF LoopInv
<1>5. \A q, u \in Proc :
        q # u => ~(proc'[q].op \in {"transfer", "remove"} /\ proc'[u].op = "transfer")
  BY <1>1, <1>2 DEF LoopInv
<1> QED
  BY <1>1, <1>4, <1>5 DEF LoopInv, Sound, OnRoster

LEMMA LoopNext == Typed /\ LoopInv /\ [Next]_vars => LoopInv'
<1> SUFFICES ASSUME Typed, LoopInv, [Next]_vars PROVE LoopInv'
  OBVIOUS
<1>0. Step
  BY Steps
<1>1. CASE Quiet
  <2>1. \A a \in Analyst : OnRoster(a) => /\ roster'[a] # Absent
                                          /\ roster'[a].parent = roster[a].parent
    BY <1>1, OnRosterIs DEF Quiet
  <2>2. met' = met /\ \A q \in Proc :
          \/ proc'[q].op = "idle"
          \/ /\ proc'[q].op = proc[q].op /\ proc'[q].name = proc[q].name
             /\ proc'[q].parent = proc[q].parent
    BY <1>1 DEF Quiet
  <2> HIDE DEF Quiet
  <2> QED
    BY <2>1, <2>2, LoopKept
<1>2. ASSUME NEW p \in Proc, End(p), met' = met,
             \A a \in Analyst : OnRoster(a) => roster'[a] = roster[a]
      PROVE  LoopInv'
  <2>1. \A a \in Analyst : OnRoster(a) => /\ roster'[a] # Absent
                                          /\ roster'[a].parent = roster[a].parent
    BY <1>2, OnRosterIs
  <2>2. \A q \in Proc : proc'[q].op = "idle" \/ proc'[q] = proc[q]
    BY <1>2, EndsQuietly
  <2> QED
    BY <1>2, <2>1, <2>2, LoopKept
<1>3. ASSUME NEW p \in Proc, Hire(p) PROVE LoopInv'
  BY <1>2, <1>3, Hired
<1>4. ASSUME NEW p \in Proc, Assign(p) PROVE LoopInv'
  BY <1>2, <1>4, Assigned
<1>5. ASSUME NEW p \in Proc, NEW t \in Task, NEW s \in TaskStates, TaskMoves(p, t, s)
      PROVE  LoopInv'
  BY <1>2, <1>5 DEF TaskMoves
<1>6. ASSUME NEW p \in Proc, Remove(p) \/ Transfer(p), ~LoopRace,
             UNCHANGED met, End(p)
      PROVE  \A q \in Proc : proc'[q].op # "transfer"
  <2>1. proc[p].op \in {"transfer", "remove"}
    BY <1>6 DEF Remove, Transfer, At
  <2>2. \A q \in Proc : q # p => proc[q].op # "transfer"
    BY <1>6, <2>1 DEF LoopInv
  <2> QED
    BY <1>6, <2>2, EndsQuietly
<1>7. ASSUME NEW p \in Proc, Remove(p) \/ Transfer(p) PROVE LoopInv'
  <2>1. UNCHANGED met /\ End(p)
    BY <1>7, Removed, Transferred
  <2> QED
    BY <1>6, <1>7, <2>1 DEF LoopInv, LoopRace, Overlapped
<1> QED
  BY <1>0, <1>1, <1>3, <1>4, <1>5, <1>7, LoopBegin DEF Step

\* A handler moves by its own step alone.
LEMMA OwnStep ==
  ASSUME Typed, [Next]_vars, NEW p \in Proc, proc'[p] # proc[p], proc[p].op # "idle"
  PROVE  Continues(p) \/ Die(p)
<1>0. proc \in [Proc -> Handler]
  BY DEF Typed, ProcTyped
<1>1. ASSUME NEW u \in Proc, Starts(u) \/ Continues(u) \/ Die(u), u # p
      PROVE  FALSE
  <2>1. \E r : proc' = [proc EXCEPT ![u] = r]
    BY <1>0, <1>1, ZenonT(60) DEF Starts, Continues, Begin, End, Goto, Die,
       BeginHire, BeginState, BeginRebrief, BeginRemove, BeginTransfer, BeginAssign,
       BeginBlock, BeginJudge, BeginHalt, BeginLift, Hire, SetState, Rebrief,
       RemoveLooks, Remove, Transfer, Assign, Block, JudgeArtifact, JudgeTask,
       HaltSuspends, Halt, LiftWakes, Lift
  <2> QED
    BY <1>0, <1>1, <2>1
<1>2. CASE Starts(p)
  BY <1>2, StartsLooked, OthersStay
<1>3. ASSUME NEW t \in Task, NEW k \in 1..Copies, File(t, k) PROVE FALSE
  BY <1>3 DEF File
<1>4. CASE UNCHANGED vars
  BY <1>4 DEF vars
<1> QED
  BY <1>1, <1>2, <1>3, <1>4 DEF Next

\* The one step of a move that changes the roster.
LEMMA MoveClosesNoLoop ==
  ASSUME Typed, LoopInv, ~LoopRace, [Next]_vars,
         NEW p \in Proc, proc[p].op = "transfer", proc'[p] # proc[p], proc[p].parent # Nobody,
         InLoop(roster', proc[p].name)
  PROVE  InLoop(roster, proc[p].name)
<1> DEFINE a == proc[p].name
           q == proc[p].parent
<1>0. a \in Analyst /\ q \in Analyst /\ Sound(proc[p])
  BY DEF Typed, ProcTyped, Shape, Handler, LoopInv
<1>1. CASE Transfer(p)
  <2>1. OnRoster(a) /\ q # a
    BY <1>0 DEF Sound
  <2>2. roster'[a].parent = q /\ roster'[q] = roster[q]
    BY <1>0, <1>1, <2>1, Transferred DEF NewParent
  <2>3. roster[q].parent = a
    BY <2>2 DEF InLoop
  <2> QED
    BY <1>0, <2>1, <2>3 DEF Sound, InLoop
<1>2. CASE Die(p)
  BY <1>2 DEF Die, boardVars
<1>3. Transfer(p) \/ Die(p) \/ roster' = roster
  <2>1. Continues(p) => Transfer(p)
    BY DEF Continues, Hire, SetState, Rebrief, RemoveLooks, Remove, Assign, Block,
       JudgeArtifact, JudgeTask, HaltSuspends, Halt, LiftWakes, Lift, At
  <2> QED
    BY <2>1, OwnStep
<1> QED
  BY <1>1, <1>2, <1>3

\* A move under a parent somebody asked for closes no loop of two: what
\* Transfer reads of that parent still holds when it writes, unless another
\* move, or the parent's removal, ran beside it.
THEOREM RosterAskedMovesMakeNoLoop == Spec => AskedMovesMakeNoLoop
<1>1. Init => Typed /\ LoopInv
  <2> SUFFICES ASSUME Init PROVE LoopInv
    BY TypedInit
  <2>1. \A p \in Proc : proc[p].op = "idle"
    BY DEF Init, Idle
  <2> QED
    BY <2>1 DEF LoopInv
<1>2. Typed /\ LoopInv /\ [Next]_vars => (Typed /\ LoopInv)'
  BY TypedNext, LoopNext
<1>3. Typed /\ LoopInv /\ [Next]_vars =>
        [\A p \in Proc :
           proc[p].op = "transfer" /\ proc'[p] # proc[p] /\ proc[p].parent # Nobody
           /\ ~Overlapped("transfer", "transfer") /\ ~Overlapped("remove", "transfer")
           => LET a == proc[p].name IN InLoop(roster', a) => InLoop(roster, a)]_vars
  BY MoveClosesNoLoop DEF LoopRace
<1> QED
  BY <1>1, <1>2, <1>3, PTL DEF Spec, AskedMovesMakeNoLoop

-----------------------------------------------------------------------------
(* Desk halts and lifts. *)

CauseTyped == cause \in [Analyst -> Desk \cup {""}]

\* Nobody halts or lifts here: what is on the lists stays, a halt or a lift
\* stays where it is, and whoever becomes spared is active nowhere, on no list
\* and put down by hand.
Aside ==
  /\ UNCHANGED <<halt, died, met>>
  /\ \A q \in Proc :
       \/ proc'[q] = proc[q]
       \/ proc[q].op \notin {"halt", "lift"} /\ proc'[q].op \in {"idle", proc[q].op}
  /\ CauseTyped' /\ \A a \in Analyst : cause'[a] \in {cause[a], ""}
  /\ \/ \A a \in Analyst : roster[a] # Absent => roster'[a] # Absent
     \/ \E q \in Proc : proc[q].op = "remove"
  /\ \A a \in Analyst \cap spared' :
       \/ roster'[a].state # "active"
       \/ a \in spared /\ roster'[a].state = roster[a].state
  /\ \A a \in spared' \ spared :
       /\ a \in Analyst /\ \E q \in Proc : proc[q].op = "state"
       /\ \A d \in Desk : halt[d] = NoHalt \/ a \notin halt[d].names

\* What a step of a handler that ends leaves of the others.
LEMMA AsideEnds ==
  ASSUME Typed, NEW p \in Proc, End(p) \/ Goto(p, "delete") \/ Goto(p, "task"),
         proc[p].op \notin {"halt", "lift"}
  PROVE  \A q \in Proc :
           \/ proc'[q] = proc[q]
           \/ proc[q].op \notin {"halt", "lift"} /\ proc'[q].op \in {"idle", proc[q].op}
<1>1. proc \in [Proc -> Handler]
  BY DEF Typed, ProcTyped
<1>2. CASE End(p)
  BY <1>2, EndsQuietly
<1>3. ASSUME NEW at, Goto(p, at)
      PROVE  \A q \in Proc : proc'[q] = proc[q] \/ (q = p /\ proc'[q].op = proc[q].op)
  <2> DEFINE r == [proc[p] EXCEPT !.at = at]
  <2>1. r.op = proc[p].op
    BY <1>1, ZenonT(60) DEF Handler
  <2>2. proc' = [proc EXCEPT ![p] = r]
    BY <1>1, <1>3 DEF Goto
  <2> HIDE DEF r
  <2> QED
    BY <1>1, <2>1, <2>2
<1> QED
  BY <1>2, <1>3

\* A step that leaves the roster, its states and the history of halts alone.
LEMMA AsideBoard ==
  ASSUME Typed, CauseTyped, NEW p \in Proc,
         End(p) \/ Goto(p, "delete") \/ Goto(p, "task"),
         proc[p].op \notin {"halt", "lift"},
         UNCHANGED <<roster, halt, died, met, cause, spared>>
  PROVE  Aside
<1>1. CauseTyped'
  BY DEF CauseTyped
<1> QED
  BY <1>1, AsideEnds DEF Aside

\* UPDATE analysts SET state, on the row and on its history.
LEMMA StateWrites ==
  ASSUME Typed, CauseTyped, NEW a \in Analyst, NEW s \in States,
         NEW why \in Desk \cup {""}, WriteState(a, s, why)
  PROVE  /\ CauseTyped'
         /\ \A b \in Analyst : roster[b] # Absent => roster'[b] # Absent
         /\ \A b \in Analyst : b # a => roster'[b] = roster[b] /\ cause'[b] = cause[b]
         /\ OnRoster(a) => roster'[a].state = s /\ cause'[a] = why
         /\ ~OnRoster(a) => roster' = roster /\ cause' = cause
<1>1. CASE OnRoster(a)
  <2> DEFINE row == [roster[a] EXCEPT !.state = s]
  <2>1. roster[a] \in Entry
    BY <1>1 DEF Typed, RosterTyped, OnRoster
  <2>2. row \in Entry /\ row.state = s
    BY <2>1 DEF Entry
  <2>3. roster' = [roster EXCEPT ![a] = row] /\ cause' = [cause EXCEPT ![a] = why]
    BY <1>1 DEF WriteState, Typed, RosterTyped
  <2> HIDE DEF row
  <2> QED
    BY <1>1, <2>2, <2>3, NobodyAbsent DEF Typed, RosterTyped, CauseTyped
<1>2. CASE ~OnRoster(a)
  BY <1>2 DEF WriteState, CauseTyped
<1> QED
  BY <1>1, <1>2

LEMMA AsideState == ASSUME Typed, CauseTyped, NEW p \in Proc, SetState(p) PROVE Aside
<1> DEFINE r == proc[p]
<1>1. /\ r.op = "state" /\ r.name \in Analyst /\ r.to \in States
      /\ WriteState(r.name, r.to, "")
      /\ spared' = IF r.to = "active" THEN spared \ {r.name}
                   ELSE IF OnRoster(r.name)
                           /\ \A d \in Desk : halt[d] = NoHalt \/ r.name \notin halt[d].names
                        THEN spared \cup {r.name} ELSE spared
      /\ End(p) /\ UNCHANGED <<halt, died, met>>
  BY DEF SetState, Same, Typed, ProcTyped, Shape
<1> HIDE DEF r
<1>2. /\ CauseTyped'
      /\ \A b \in Analyst : roster[b] # Absent => roster'[b] # Absent
      /\ \A b \in Analyst : b # r.name => roster'[b] = roster[b] /\ cause'[b] = cause[b]
      /\ OnRoster(r.name) => roster'[r.name].state = r.to /\ cause'[r.name] = ""
      /\ ~OnRoster(r.name) => roster' = roster /\ cause' = cause
  BY <1>1, StateWrites
<1>3. \A a \in Analyst : cause'[a] \in {cause[a], ""}
  BY <1>2
<1>4. \A a \in Analyst \cap spared' :
        \/ roster'[a].state # "active"
        \/ a \in spared /\ roster'[a].state = roster[a].state
  BY <1>1, <1>2
<1>5. \A a \in spared' \ spared :
        a \in Analyst /\ \A d \in Desk : halt[d] = NoHalt \/ a \notin halt[d].names
  BY <1>1
<1>6. \A q \in Proc :
        \/ proc'[q] = proc[q]
        \/ proc[q].op \notin {"halt", "lift"} /\ proc'[q].op \in {"idle", proc[q].op}
  BY <1>1, AsideEnds DEF r
<1>7. proc[p].op = "state"
  BY <1>1 DEF r
<1> QED
  BY <1>1, <1>2, <1>3, <1>4, <1>5, <1>6, <1>7 DEF Aside

LEMMA AsideHire == ASSUME Typed, CauseTyped, NEW p \in Proc, Hire(p) PROVE Aside
<1> DEFINE a == proc[p].name
<1>1. /\ a \in Analyst /\ proc[p].op = "hire"
      /\ \A b \in Analyst : b # a \/ OnRoster(b) => roster'[b] = roster[b]
      /\ cause' = IF OnRoster(a) THEN cause ELSE [cause EXCEPT ![a] = ""]
      /\ spared' = spared \ (IF OnRoster(a) THEN {} ELSE {a})
      /\ End(p) /\ UNCHANGED <<halt, died, met>>
  BY Hired DEF Hire, Same
<1> HIDE DEF a
<1>2. CauseTyped' /\ \A b \in Analyst : cause'[b] \in {cause[b], ""}
  BY <1>1 DEF CauseTyped
<1>3. \A b \in Analyst : roster[b] # Absent => roster'[b] # Absent
  BY <1>1, OnRosterIs
<1>4. spared' \subseteq spared /\ \A b \in Analyst \cap spared' : roster'[b] = roster[b]
  BY <1>1
<1> QED
  BY <1>1, <1>2, <1>3, <1>4, AsideEnds DEF Aside

LEMMA AsideRemove == ASSUME Typed, CauseTyped, NEW p \in Proc, Remove(p) PROVE Aside
<1> DEFINE a == proc[p].name
<1>1. /\ a \in Analyst /\ proc[p].op = "remove"
      /\ \A b \in Analyst : b # a => roster'[b] = roster[b]
      /\ cause' = [cause EXCEPT ![a] = ""] /\ spared' = spared \ {a}
      /\ End(p) /\ UNCHANGED <<halt, died, met>>
  BY Removed DEF Remove, Same
<1> HIDE DEF a
<1>2. CauseTyped' /\ \A b \in Analyst : cause'[b] \in {cause[b], ""}
  BY <1>1 DEF CauseTyped
<1> QED
  BY <1>1, <1>2, AsideEnds DEF Aside

\* A re-brief and a move change the desk, the owner and the parent, and neither
\* the state nor who is there.
LEMMA AsideMoves ==
  ASSUME Typed, CauseTyped, NEW p \in Proc, Rebrief(p) \/ Transfer(p)
  PROVE  Aside
<1> DEFINE r == proc[p]
           a == r.name
<1>1. /\ r \in Handler /\ Shape(r) /\ r.op \in {"rebrief", "transfer"}
      /\ a \in Analyst /\ r.desk \in Desk
  BY DEF Typed, ProcTyped, Shape, Rebrief, Transfer
<1>2. UNCHANGED <<halt, died, met, cause, spared>> /\ End(p)
  BY DEF Rebrief, Transfer, Same
<1>3. \A b \in Analyst : roster'[b].state = roster[b].state
                         /\ (roster[b] # Absent => roster'[b] # Absent)
  <2>1. CASE OnRoster(a)
    <3>1. roster[a] \in Entry /\ roster \in [Analyst -> Entry \cup {Absent}]
      BY <1>1, <2>1 DEF Typed, RosterTyped, OnRoster
    <3>2. PICK row : /\ roster' = [roster EXCEPT ![a] = row]
                     /\ row.state = roster[a].state /\ row.desk = r.desk
      <4>1. CASE Rebrief(p)
        <5> DEFINE row == [roster[a] EXCEPT !.desk = r.desk]
        <5>1. row.state = roster[a].state /\ row.desk = r.desk
          BY <3>1 DEF Entry
        <5>2. roster' = [roster EXCEPT ![a] = row]
          BY <2>1, <3>1, <4>1 DEF Rebrief
        <5> QED BY <5>1, <5>2
      <4>2. CASE Transfer(p)
        <5> DEFINE row == [roster[a] EXCEPT !.desk = r.desk, !.owner = r.owner,
                                            !.parent = NewParent(r)]
        <5>1. row.state = roster[a].state /\ row.desk = r.desk
          BY <3>1 DEF Entry
        <5>2. roster' = [roster EXCEPT ![a] = row]
          BY <2>1, <3>1, <4>2 DEF Transfer
        <5> QED BY <5>1, <5>2
      <4> QED BY <4>1, <4>2
    <3>3. row # Absent
      <4>1. Absent.desk = "" /\ row.desk # ""
        BY <1>1, <3>2, RosterAssumption DEF Absent
      <4> QED BY <4>1
    <3> QED
      BY <1>1, <3>1, <3>2, <3>3
  <2>2. CASE ~OnRoster(a)
    BY <2>2 DEF Rebrief, Transfer
  <2> QED
    BY <2>1, <2>2
<1>4. CauseTyped'
  BY <1>2 DEF CauseTyped
<1> QED
  BY <1>1, <1>2, <1>3, <1>4, AsideEnds DEF Aside

\* Every step as a halt or a lift sees it.
HaltSide ==
  \/ Aside
  \/ \E p \in Proc : \/ \E r \in Handler : Shape(r) /\ Looked(r) /\ Begin(p, r)
                     \/ HaltSuspends(p) \/ Halt(p) \/ LiftWakes(p) \/ Lift(p) \/ Die(p)

LEMMA HaltSides == Typed /\ CauseTyped /\ [Next]_vars => HaltSide
<1> SUFFICES ASSUME Typed, CauseTyped, [Next]_vars PROVE HaltSide
  OBVIOUS
<1>1. ASSUME NEW p \in Proc, Starts(p) PROVE HaltSide
  BY <1>1, StartsLooked DEF HaltSide
<1>2. ASSUME NEW p \in Proc, RemoveLooks(p) \/ Assign(p) \/ Block(p) PROVE Aside
  BY <1>2, AsideBoard DEF RemoveLooks, Assign, Block, Same, At, boardVars
<1>3. ASSUME NEW p \in Proc, NEW op \in {"post", "return"},
             JudgeArtifact(p, op) \/ JudgeTask(p, op)
      PROVE  Aside
  BY <1>3, AsideBoard DEF JudgeArtifact, JudgeTask, Same, At
<1>4. ASSUME NEW p \in Proc, Continues(p) PROVE HaltSide
  BY <1>2, <1>3, <1>4, AsideState, AsideHire, AsideRemove, AsideMoves
  DEF Continues, HaltSide
<1>5. ASSUME NEW t \in Task, NEW k \in 1..Copies, File(t, k) PROVE Aside
  BY <1>5 DEF File, histVars, Aside, CauseTyped
<1>6. CASE UNCHANGED vars
  BY <1>6 DEF vars, boardVars, histVars, HaltSide, Aside, CauseTyped
<1> QED
  BY <1>1, <1>4, <1>5, <1>6 DEF Next, HaltSide

HaltRace ==
  \/ "halt" \in died \/ Overlapped("halt", "halt")
  \/ Overlapped("halt", "remove") \/ Overlapped("lift", "lift")

Listed(a, d) == halt[d] # NoHalt /\ a \in halt[d].names

\* A halt in flight halts a desk that is not halted yet, and finds whoever it
\* set out to put down; a lift finds on its list whoever its desk's halt put
\* down; and whoever a halt put down is on its list, or will be.
OneOfEach ==
  \A p, q \in Proc : p # q /\ proc[p].op \in {"halt", "lift"} => proc[q].op # proc[p].op
NoneRemoved == \A p, q \in Proc : ~(proc[p].op = "halt" /\ proc[q].op = "remove")
HaltsFind ==
  \A p \in Proc : proc[p].op = "halt" =>
    halt[proc[p].desk] = NoHalt /\ \A a \in proc[p].todo : OnRoster(a)
LiftsFind ==
  \A p \in Proc : proc[p].op = "lift" =>
    /\ halt[proc[p].desk] # NoHalt
    /\ \A a \in Analyst : cause[a] = proc[p].desk => a \in proc[p].todo
Will(a, d) ==
  \E p \in Proc : proc[p].op = "halt" /\ proc[p].desk = d /\ a \in proc[p].did
AllListed == \A a \in Analyst : cause[a] # "" => Listed(a, cause[a]) \/ Will(a, cause[a])

HaltInv == ~HaltRace => OneOfEach /\ NoneRemoved /\ HaltsFind /\ LiftsFind /\ AllListed

\* What a handler in flight is about.
LEMMA HandlerTyped ==
  ASSUME Typed, NEW p \in Proc
  PROVE  /\ proc[p].todo \in SUBSET Analyst /\ proc[p].did \in SUBSET Analyst
         /\ proc[p].op \in {"halt", "lift"} => proc[p].desk \in Desk /\ proc[p].desk # ""
BY RosterAssumption DEF Typed, ProcTyped, Shape, Handler

LEMMA AList == \A S : [names |-> S] # NoHalt /\ [names |-> S].names = S
BY DEF NoHalt

\* A step beside every halt.
LEMMA HaltKept ==
  ASSUME Typed, HaltInv, halt' = halt, HaltRace => HaltRace',
         \A q \in Proc :
           \/ proc'[q] = proc[q]
           \/ /\ proc[q].op # "halt"
              /\ proc'[q].op = "idle"
                 \/ (proc[q].op # "lift" /\ proc'[q].op = proc[q].op),
         \A a \in Analyst : cause'[a] \in {cause[a], ""},
         \/ \A a \in Analyst : roster[a] # Absent => roster'[a] # Absent
         \/ \E q \in Proc : proc[q].op = "remove"
  PROVE  HaltInv'
<1> SUFFICES ASSUME ~HaltRace PROVE HaltInv'
  BY DEF HaltInv
<1>0. OneOfEach /\ NoneRemoved /\ HaltsFind /\ LiftsFind /\ AllListed
  BY DEF HaltInv
<1>1. \A q \in Proc : /\ proc'[q].op \in {"halt", "lift"} => proc'[q] = proc[q]
                      /\ proc'[q].op = "remove" => proc[q].op = "remove"
                      /\ proc[q].op = "halt" => proc'[q] = proc[q]
  OBVIOUS
<1>2. OneOfEach'
  <2> SUFFICES ASSUME NEW p \in Proc, NEW q \in Proc, p # q, proc'[p].op \in {"halt", "lift"},
                      proc'[q].op = proc'[p].op
               PROVE  FALSE
    BY Zenon DEF OneOfEach
  <2>1. proc'[p] = proc[p] /\ proc'[q] = proc[q]
    BY <1>1
  <2> QED
    BY <1>0, <2>1, Zenon DEF OneOfEach
<1>3. NoneRemoved'
  BY <1>0, <1>1 DEF NoneRemoved
<1>4. HaltsFind'
  <2> SUFFICES ASSUME NEW p \in Proc, proc'[p].op = "halt"
               PROVE  halt'[proc'[p].desk] = NoHalt
                      /\ \A a \in proc'[p].todo : a # Nobody /\ roster'[a] # Absent
    BY DEF HaltsFind, OnRoster
  <2>1. proc'[p] = proc[p] /\ proc[p].op = "halt" /\ halt[proc[p].desk] = NoHalt
        /\ \A a \in proc[p].todo : OnRoster(a)
    BY <1>0, <1>1 DEF HaltsFind
  <2>2. \A q \in Proc : proc[q].op # "remove"
    BY <1>0, <2>1 DEF NoneRemoved
  <2> QED
    BY <2>1, <2>2, HandlerTyped DEF OnRoster
<1>5. LiftsFind'
  <2> SUFFICES ASSUME NEW p \in Proc, proc'[p].op = "lift"
               PROVE  /\ halt'[proc'[p].desk] # NoHalt
                      /\ \A a \in Analyst :
                           cause'[a] = proc'[p].desk => a \in proc'[p].todo
    BY DEF LiftsFind
  <2>1. proc'[p] = proc[p] /\ proc[p].desk # "" /\ proc[p].op = "lift"
    BY <1>1, HandlerTyped
  <2> QED
    BY <1>0, <2>1 DEF LiftsFind
<1>6. AllListed'
  <2> SUFFICES ASSUME NEW a \in Analyst, cause'[a] # ""
               PROVE  (Listed(a, cause[a]) \/ Will(a, cause[a]))' /\ cause'[a] = cause[a]
    BY DEF AllListed, Listed, Will
  <2>1. cause'[a] = cause[a] /\ (Listed(a, cause[a]) \/ Will(a, cause[a]))
    BY <1>0 DEF AllListed
  <2> QED
    BY <1>1, <2>1 DEF Listed, Will
<1> QED
  BY <1>2, <1>3, <1>4, <1>5, <1>6 DEF HaltInv

LEMMA HaltAside == ASSUME Typed, HaltInv, Aside PROVE HaltInv'
<1>1. HaltRace => HaltRace'
  BY DEF Aside, HaltRace, Overlapped
<1>2. /\ halt' = halt /\ \A a \in Analyst : cause'[a] \in {cause[a], ""}
      /\ \/ \A a \in Analyst : roster[a] # Absent => roster'[a] # Absent
         \/ \E q \in Proc : proc[q].op = "remove"
  BY DEF Aside
<1>3. \A q \in Proc :
        \/ proc'[q] = proc[q]
        \/ /\ proc[q].op # "halt"
           /\ proc'[q].op = "idle" \/ (proc[q].op # "lift" /\ proc'[q].op = proc[q].op)
  BY DEF Aside
<1> QED
  BY <1>1, <1>2, <1>3, HaltKept

LEMMA HaltDies == ASSUME Typed, HaltInv, NEW p \in Proc, Die(p) PROVE HaltInv'
<1>1. /\ UNCHANGED <<roster, halt, met, cause>> /\ died' = died \cup {proc[p].op} /\ End(p)
  BY DEF Die, boardVars
<1>2. CASE proc[p].op = "halt"
  BY <1>1, <1>2 DEF HaltInv, HaltRace
<1>3. CASE proc[p].op # "halt"
  <2>1. HaltRace => HaltRace'
    BY <1>1 DEF HaltRace, Overlapped
  <2>2. \A q \in Proc :
          proc'[q] = proc[q] \/ (proc[q].op # "halt" /\ proc'[q].op = "idle")
    BY <1>1, <1>3, EndsQuietly
  <2> QED
    BY <1>1, <2>1, <2>2, HaltKept
<1> QED
  BY <1>2, <1>3

LEMMA HaltBegin ==
  ASSUME Typed, HaltInv, NEW p \in Proc, NEW r \in Handler, Shape(r), Looked(r), Begin(p, r)
  PROVE  HaltInv'
<1>0. /\ proc'[p] = r /\ \A q \in Proc : q # p => proc'[q] = proc[q]
      /\ UNCHANGED <<roster, halt, cause, died>> /\ met \subseteq met' /\ proc[p].op = "idle"
  BY OthersStay DEF Begin, boardVars
<1> SUFFICES ASSUME ~HaltRace, ~HaltRace' PROVE HaltInv'
  BY <1>0 DEF HaltInv, HaltRace, Overlapped
<1>1. ASSUME NEW q \in Proc, proc[q].op # "idle" PROVE {r.op, proc[q].op} \notin
        {{"halt", "halt"}, {"halt", "remove"}, {"lift", "lift"}}
  <2> SUFFICES ASSUME {r.op, proc[q].op} \in
                        {{"halt", "halt"}, {"halt", "remove"}, {"lift", "lift"}}
               PROVE  FALSE
    OBVIOUS
  <2>1. {r.op, proc[q].op} \in Races
    BY DEF Races
  <2> QED
    BY <1>1, <2>1, Meets DEF HaltRace, Overlapped
<1>2. OneOfEach /\ NoneRemoved /\ HaltsFind /\ LiftsFind /\ AllListed
  BY DEF HaltInv
<1>3. OneOfEach'
  BY <1>0, <1>1, <1>2 DEF OneOfEach
<1>4. NoneRemoved'
  BY <1>0, <1>1, <1>2 DEF NoneRemoved
<1>5. HaltsFind'
  <2>1. r.op = "halt" => halt[r.desk] = NoHalt /\ \A a \in r.todo : OnRoster(a)
    BY DEF Looked, ToSuspend
  <2> QED
    BY <1>0, <1>2, <2>1 DEF HaltsFind, OnRoster
<1>6. LiftsFind'
  <2>1. ASSUME r.op = "lift"
        PROVE  /\ halt[r.desk] # NoHalt
               /\ \A a \in Analyst : cause[a] = r.desk => a \in r.todo
    <3>1. r.desk # "" /\ halt[r.desk] # NoHalt /\ r.todo = halt[r.desk].names
      BY <2>1, RosterAssumption DEF Shape, Looked
    <3>2. \A a \in Analyst : ~Will(a, r.desk)
      BY <1>2, <3>1 DEF Will, HaltsFind
    <3> QED
      BY <1>2, <3>1, <3>2 DEF AllListed, Listed
  <2> QED
    BY <1>0, <1>2, <2>1 DEF LiftsFind
<1>7. AllListed'
  <2>1. \A a, d : Will(a, d) => Will(a, d)'
    BY <1>0 DEF Will
  <2> QED
    BY <1>0, <1>2, <2>1 DEF AllListed, Listed
<1> QED
  BY <1>3, <1>4, <1>5, <1>6, <1>7 DEF HaltInv

\* One analyst of a halt or of a lift.  A name that is gone ends the handler
\* there; any other is put down, or woken, and ticked off.
LEMMA Suspends ==
  ASSUME Typed, CauseTyped, NEW p \in Proc, HaltSuspends(p)
  PROVE  \E a \in proc[p].todo :
           /\ a \in Analyst /\ CauseTyped'
           /\ UNCHANGED <<halt, died, met, spared>>
           /\ \A q \in Proc : q # p => proc'[q] = proc[q]
           /\ \A b \in Analyst : /\ roster[b] # Absent => roster'[b] # Absent
                                 /\ b # a => roster'[b] = roster[b] /\ cause'[b] = cause[b]
           /\ \/ /\ ~OnRoster(a) /\ proc'[p].op = "idle" /\ UNCHANGED <<roster, cause>>
              \/ /\ OnRoster(a) /\ roster'[a].state = "suspended" /\ cause'[a] = proc[p].desk
                 /\ proc'[p].op = "halt" /\ proc'[p].desk = proc[p].desk
                 /\ proc'[p].todo = proc[p].todo \ {a} /\ proc'[p].did = proc[p].did \cup {a}
<1> DEFINE r == proc[p]
<1>1. /\ r.op = "halt" /\ UNCHANGED <<halt, died, met, spared>>
      /\ r \in Handler /\ proc \in [Proc -> Handler]
  BY DEF HaltSuspends, At, Same, Typed, ProcTyped
<1>2. PICK a \in r.todo :
        IF OnRoster(a)
        THEN /\ WriteState(a, "suspended", r.desk)
             /\ proc' = [proc EXCEPT ![p].todo = r.todo \ {a}, ![p].did = r.did \cup {a}]
        ELSE /\ UNCHANGED <<roster, cause>> /\ proc' = [proc EXCEPT ![p] = Idle]
  BY DEF HaltSuspends
<1>3. a \in Analyst /\ r.desk \in Desk
  BY <1>1, HandlerTyped
<1>4. CASE OnRoster(a)
  <2> DEFINE n == [r EXCEPT !.todo = r.todo \ {a}, !.did = r.did \cup {a}]
  <2>1. /\ n.op = "halt" /\ n.desk = r.desk /\ n.todo = r.todo \ {a}
        /\ n.did = r.did \cup {a}
    BY <1>1 DEF Handler
  <2>2. proc' = [proc EXCEPT ![p] = n] /\ WriteState(a, "suspended", r.desk)
    BY <1>1, <1>2, <1>4
  <2>3. /\ CauseTyped' /\ \A b \in Analyst : roster[b] # Absent => roster'[b] # Absent
        /\ \A b \in Analyst : b # a => roster'[b] = roster[b] /\ cause'[b] = cause[b]
        /\ roster'[a].state = "suspended" /\ cause'[a] = r.desk
    BY <1>3, <1>4, <2>2, StateWrites DEF States
  <2> HIDE DEF n
  <2> QED
    BY <1>1, <1>3, <1>4, <2>1, <2>2, <2>3
<1>5. CASE ~OnRoster(a)
  <2>1. proc' = [proc EXCEPT ![p] = Idle] /\ UNCHANGED <<roster, cause>>
    BY <1>2, <1>5
  <2>2. proc'[p].op = "idle" /\ \A q \in Proc : q # p => proc'[q] = proc[q]
    BY <1>1, <2>1 DEF Idle
  <2>3. CauseTyped'
    BY <2>1 DEF CauseTyped
  <2> HIDE DEF r
  <2> QED
    BY <1>1, <1>3, <1>5, <2>1, <2>2, <2>3 DEF r
<1> QED
  BY <1>4, <1>5

LEMMA Wakes ==
  ASSUME Typed, CauseTyped, NEW p \in Proc, LiftWakes(p)
  PROVE  \E a \in proc[p].todo :
           /\ a \in Analyst /\ CauseTyped'
           /\ UNCHANGED <<halt, died, met, spared>>
           /\ \A q \in Proc : q # p => proc'[q] = proc[q]
           /\ \A b \in Analyst : /\ roster[b] # Absent => roster'[b] # Absent
                                 /\ b # a => roster'[b] = roster[b] /\ cause'[b] = cause[b]
           /\ \/ proc'[p].op = "idle" /\ UNCHANGED <<roster, cause>>
              \/ /\ cause'[a] = ""
                 /\ proc'[p].op = "lift" /\ proc'[p].desk = proc[p].desk
                 /\ proc'[p].todo = proc[p].todo \ {a}
<1> DEFINE r == proc[p]
<1>1. /\ r.op = "lift" /\ UNCHANGED <<halt, died, met, spared>>
      /\ r \in Handler /\ proc \in [Proc -> Handler]
  BY DEF LiftWakes, At, Same, Typed, ProcTyped
<1>2. PICK a \in r.todo :
        IF OnRoster(a)
        THEN /\ WriteState(a, "active", "")
             /\ proc' = [proc EXCEPT ![p].todo = r.todo \ {a}]
        ELSE /\ UNCHANGED <<roster, cause>> /\ proc' = [proc EXCEPT ![p] = Idle]
  BY DEF LiftWakes
<1>3. a \in Analyst
  BY <1>1, HandlerTyped
<1>4. CASE OnRoster(a)
  <2> DEFINE n == [r EXCEPT !.todo = r.todo \ {a}]
  <2>1. n.op = "lift" /\ n.desk = r.desk /\ n.todo = r.todo \ {a}
    BY <1>1 DEF Handler
  <2>2. proc' = [proc EXCEPT ![p] = n] /\ WriteState(a, "active", "")
    BY <1>1, <1>2, <1>4
  <2>3. /\ CauseTyped' /\ \A b \in Analyst : roster[b] # Absent => roster'[b] # Absent
        /\ \A b \in Analyst : b # a => roster'[b] = roster[b] /\ cause'[b] = cause[b]
        /\ cause'[a] = ""
    BY <1>3, <1>4, <2>2, StateWrites DEF States
  <2> HIDE DEF n
  <2> QED
    BY <1>1, <1>3, <2>1, <2>2, <2>3
<1>5. CASE ~OnRoster(a)
  <2>1. proc' = [proc EXCEPT ![p] = Idle] /\ UNCHANGED <<roster, cause>>
    BY <1>2, <1>5
  <2>2. proc'[p].op = "idle" /\ \A q \in Proc : q # p => proc'[q] = proc[q]
    BY <1>1, <2>1 DEF Idle
  <2>3. CauseTyped'
    BY <2>1 DEF CauseTyped
  <2> HIDE DEF r
  <2> QED
    BY <1>1, <1>3, <1>5, <2>1, <2>2, <2>3 DEF r
<1> QED
  BY <1>4, <1>5

LEMMA HaltStep ==
  ASSUME Typed, CauseTyped, HaltInv, NEW p \in Proc, HaltSuspends(p)
  PROVE  HaltInv' /\ CauseTyped'
<1>1. PICK a \in proc[p].todo :
        /\ a \in Analyst /\ CauseTyped'
        /\ UNCHANGED <<halt, died, met, spared>>
        /\ \A q \in Proc : q # p => proc'[q] = proc[q]
        /\ \A b \in Analyst : /\ roster[b] # Absent => roster'[b] # Absent
                              /\ b # a => roster'[b] = roster[b] /\ cause'[b] = cause[b]
        /\ \/ /\ ~OnRoster(a) /\ proc'[p].op = "idle" /\ UNCHANGED <<roster, cause>>
           \/ /\ OnRoster(a) /\ roster'[a].state = "suspended" /\ cause'[a] = proc[p].desk
              /\ proc'[p].op = "halt" /\ proc'[p].desk = proc[p].desk
              /\ proc'[p].todo = proc[p].todo \ {a} /\ proc'[p].did = proc[p].did \cup {a}
  BY Suspends
<1>2. proc[p].op = "halt"
  BY DEF HaltSuspends, At
<1> SUFFICES ASSUME ~HaltRace PROVE HaltInv'
  BY <1>1 DEF HaltInv, HaltRace, Overlapped
<1>3. OneOfEach /\ NoneRemoved /\ HaltsFind /\ LiftsFind /\ AllListed
  BY DEF HaltInv
<1>4. /\ OnRoster(a) /\ cause'[a] = proc[p].desk
      /\ proc'[p].op = "halt" /\ proc'[p].desk = proc[p].desk
      /\ proc'[p].todo = proc[p].todo \ {a} /\ proc'[p].did = proc[p].did \cup {a}
  BY <1>1, <1>2, <1>3 DEF HaltsFind
<1>5. OneOfEach' /\ NoneRemoved'
  BY <1>1, <1>2, <1>3, <1>4 DEF OneOfEach, NoneRemoved
<1>6. HaltsFind'
  <2> SUFFICES ASSUME NEW q \in Proc, proc'[q].op = "halt"
               PROVE  halt'[proc'[q].desk] = NoHalt
                      /\ \A b \in proc'[q].todo : b # Nobody /\ roster'[b] # Absent
    BY DEF HaltsFind, OnRoster
  <2>1. /\ proc[q].op = "halt" /\ proc'[q].desk = proc[q].desk
        /\ proc'[q].todo \subseteq proc[q].todo
    BY <1>1, <1>2, <1>4
  <2>2. halt[proc[q].desk] = NoHalt /\ \A b \in proc[q].todo : OnRoster(b)
    BY <1>3, <2>1 DEF HaltsFind
  <2> QED
    BY <1>1, <2>1, <2>2, HandlerTyped DEF OnRoster
<1>7. LiftsFind'
  <2> SUFFICES ASSUME NEW q \in Proc, proc'[q].op = "lift"
               PROVE  /\ halt'[proc'[q].desk] # NoHalt
                      /\ \A b \in Analyst :
                           cause'[b] = proc'[q].desk => b \in proc'[q].todo
    BY DEF LiftsFind
  <2>1. proc'[q] = proc[q] /\ proc[q].op = "lift"
    BY <1>1, <1>4
  <2>2. halt[proc[q].desk] # NoHalt /\ halt[proc[p].desk] = NoHalt
    BY <1>2, <1>3, <2>1 DEF LiftsFind, HaltsFind
  <2> QED
    BY <1>1, <1>3, <1>4, <2>1, <2>2 DEF LiftsFind
<1>8. AllListed'
  <2>1. \A b, d : Will(b, d) => Will(b, d)'
    BY <1>1, <1>2, <1>4 DEF Will
  <2>2. Will(a, cause[a])'
    BY <1>4 DEF Will
  <2> QED
    BY <1>1, <1>3, <2>1, <2>2 DEF AllListed, Listed
<1> QED
  BY <1>5, <1>6, <1>7, <1>8 DEF HaltInv

LEMMA HaltEnds ==
  ASSUME Typed, CauseTyped, HaltInv, NEW p \in Proc, Halt(p)
  PROVE  HaltInv' /\ CauseTyped'
<1> DEFINE d == proc[p].desk
<1>1. /\ UNCHANGED <<roster, cause, died, met>> /\ End(p) /\ proc[p].op = "halt"
      /\ halt' = IF halt[d] = NoHalt
                 THEN [halt EXCEPT ![d] = [names |-> proc[p].did]] ELSE halt
  BY DEF Halt, At, Same
<1>2. CauseTyped' /\ d \in Desk /\ halt \in [Desk -> {NoHalt} \cup [names : SUBSET Analyst]]
  BY <1>1, HandlerTyped DEF CauseTyped, Typed, HaltTyped
<1> SUFFICES ASSUME ~HaltRace PROVE HaltInv'
  BY <1>1, <1>2 DEF HaltInv, HaltRace, Overlapped
<1>3. OneOfEach /\ NoneRemoved /\ HaltsFind /\ LiftsFind /\ AllListed
  BY DEF HaltInv
<1>4. /\ proc'[p].op = "idle" /\ \A q \in Proc : q # p => proc'[q] = proc[q]
      /\ \A q \in Proc : q # p => proc[q].op # "halt"
  BY <1>1, <1>3, EndsQuietly DEF OneOfEach
<1>5. /\ halt'[d] # NoHalt /\ halt'[d].names = proc[p].did
      /\ \A e \in Desk : e # d => halt'[e] = halt[e]
  BY <1>1, <1>2, <1>3, AList DEF HaltsFind
<1> HIDE DEF d
<1>6. OneOfEach' /\ NoneRemoved' /\ HaltsFind'
  BY <1>3, <1>4 DEF OneOfEach, NoneRemoved, HaltsFind
<1>7. LiftsFind'
  BY <1>1, <1>2, <1>3, <1>4, <1>5, HandlerTyped DEF LiftsFind
<1>8. AllListed'
  <2> SUFFICES ASSUME NEW a \in Analyst, cause[a] # ""
               PROVE  halt'[cause[a]] # NoHalt /\ a \in halt'[cause[a]].names
    BY <1>1 DEF AllListed, Listed
  <2>1. cause[a] \in Desk
    BY DEF CauseTyped
  <2>2. Will(a, cause[a]) => cause[a] = d /\ a \in proc[p].did
    BY <1>4 DEF Will, d
  <2>3. halt[d] = NoHalt
    BY <1>1, <1>3 DEF HaltsFind, d
  <2> QED
    BY <1>3, <1>5, <2>1, <2>2, <2>3 DEF AllListed, Listed
<1> QED
  BY <1>6, <1>7, <1>8 DEF HaltInv

LEMMA LiftStep ==
  ASSUME Typed, CauseTyped, HaltInv, NEW p \in Proc, LiftWakes(p)
  PROVE  HaltInv' /\ CauseTyped'
<1>1. PICK a \in proc[p].todo :
        /\ a \in Analyst /\ CauseTyped'
        /\ UNCHANGED <<halt, died, met, spared>>
        /\ \A q \in Proc : q # p => proc'[q] = proc[q]
        /\ \A b \in Analyst : /\ roster[b] # Absent => roster'[b] # Absent
                              /\ b # a => roster'[b] = roster[b] /\ cause'[b] = cause[b]
        /\ \/ proc'[p].op = "idle" /\ UNCHANGED <<roster, cause>>
           \/ /\ cause'[a] = ""
              /\ proc'[p].op = "lift" /\ proc'[p].desk = proc[p].desk
              /\ proc'[p].todo = proc[p].todo \ {a}
  BY Wakes
<1>2. proc[p].op = "lift" /\ proc[p].desk # ""
  BY HandlerTyped DEF LiftWakes, At
<1>3. CASE proc'[p].op = "idle" /\ UNCHANGED <<roster, cause>>
  <2>1. HaltRace => HaltRace'
    BY <1>1 DEF HaltRace, Overlapped
  <2>2. \A q \in Proc :
          proc'[q] = proc[q] \/ (proc[q].op # "halt" /\ proc'[q].op = "idle")
    BY <1>1, <1>2, <1>3
  <2> QED
    BY <1>1, <1>3, <2>1, <2>2, HaltKept
<1>4. CASE /\ cause'[a] = ""
           /\ proc'[p].op = "lift" /\ proc'[p].desk = proc[p].desk
           /\ proc'[p].todo = proc[p].todo \ {a}
  <2> SUFFICES ASSUME ~HaltRace PROVE HaltInv'
    BY <1>1 DEF HaltInv, HaltRace, Overlapped
  <2>1. OneOfEach /\ NoneRemoved /\ HaltsFind /\ LiftsFind /\ AllListed
    BY DEF HaltInv
  <2>0. /\ \A q \in Proc : proc'[q].op = proc[q].op
        /\ \A q \in Proc : proc[q].op = "halt" => proc'[q] = proc[q]
    BY <1>1, <1>2, <1>4
  <2>2. OneOfEach' /\ NoneRemoved'
    BY <2>0, <2>1 DEF OneOfEach, NoneRemoved
  <2>3. HaltsFind'
    <3> SUFFICES ASSUME NEW q \in Proc, proc'[q].op = "halt"
                 PROVE  halt'[proc'[q].desk] = NoHalt
                        /\ \A b \in proc'[q].todo : b # Nobody /\ roster'[b] # Absent
      BY DEF HaltsFind, OnRoster
    <3>1. proc'[q] = proc[q] /\ halt[proc[q].desk] = NoHalt
          /\ \A b \in proc[q].todo : OnRoster(b)
      BY <2>0, <2>1 DEF HaltsFind
    <3> QED
      BY <1>1, <3>1, HandlerTyped DEF OnRoster
  <2>4. LiftsFind'
    <3> SUFFICES ASSUME NEW q \in Proc, proc'[q].op = "lift"
                 PROVE  /\ halt'[proc'[q].desk] # NoHalt
                        /\ \A b \in Analyst :
                             cause'[b] = proc'[q].desk => b \in proc'[q].todo
      BY DEF LiftsFind
    <3>1. q = p
      BY <1>1, <1>2, <2>1 DEF OneOfEach
    <3> QED
      BY <1>1, <1>2, <1>4, <2>1, <3>1 DEF LiftsFind
  <2>5. AllListed'
    <3>1. \A b, e : Will(b, e) => Will(b, e)'
      BY <1>1, <1>2 DEF Will
    <3> QED
      BY <1>1, <1>4, <2>1, <3>1 DEF AllListed, Listed
  <2> QED
    BY <2>2, <2>3, <2>4, <2>5 DEF HaltInv
<1> QED
  BY <1>1, <1>3, <1>4

LEMMA LiftEnds ==
  ASSUME Typed, CauseTyped, HaltInv, NEW p \in Proc, Lift(p)
  PROVE  HaltInv' /\ CauseTyped'
<1> DEFINE d == proc[p].desk
<1>1. /\ UNCHANGED <<roster, cause, died, met>> /\ End(p) /\ proc[p].op = "lift"
      /\ proc[p].todo = {} /\ halt' = [halt EXCEPT ![d] = NoHalt]
  BY DEF Lift, At, Same
<1>2. CauseTyped' /\ d \in Desk /\ halt \in [Desk -> {NoHalt} \cup [names : SUBSET Analyst]]
  BY <1>1, HandlerTyped DEF CauseTyped, Typed, HaltTyped
<1> SUFFICES ASSUME ~HaltRace PROVE HaltInv'
  BY <1>1, <1>2 DEF HaltInv, HaltRace, Overlapped
<1>3. OneOfEach /\ NoneRemoved /\ HaltsFind /\ LiftsFind /\ AllListed
  BY DEF HaltInv
<1>4. /\ proc'[p].op = "idle" /\ \A q \in Proc : q # p => proc'[q] = proc[q]
      /\ \A q \in Proc : q # p => proc[q].op # "lift"
  BY <1>1, <1>3, EndsQuietly DEF OneOfEach
<1>5. halt'[d] = NoHalt /\ \A e \in Desk : e # d => halt'[e] = halt[e]
  BY <1>1, <1>2
<1>6. \A a \in Analyst : cause[a] # d
  BY <1>1, <1>3 DEF LiftsFind
<1> HIDE DEF d
<1>7. OneOfEach' /\ NoneRemoved' /\ LiftsFind'
  BY <1>3, <1>4 DEF OneOfEach, NoneRemoved, LiftsFind
<1>8. HaltsFind'
  BY <1>1, <1>3, <1>4, <1>5, HandlerTyped, ZenonT(60) DEF HaltsFind, OnRoster
<1>9. AllListed'
  <2>1. \A b, e : Will(b, e) => Will(b, e)'
    BY <1>1, <1>4 DEF Will
  <2> QED
    BY <1>1, <1>3, <1>5, <1>6, <2>1 DEF AllListed, Listed, CauseTyped
<1> QED
  BY <1>7, <1>8, <1>9 DEF HaltInv

LEMMA CauseBegun == ASSUME CauseTyped, NEW p, NEW r, Begin(p, r) PROVE CauseTyped'
BY DEF Begin, CauseTyped

LEMMA HaltNext ==
  Typed /\ CauseTyped /\ HaltInv /\ [Next]_vars => HaltInv' /\ CauseTyped'
<1> SUFFICES ASSUME Typed, CauseTyped, HaltInv, [Next]_vars PROVE HaltInv' /\ CauseTyped'
  OBVIOUS
<1>1. HaltSide
  BY HaltSides
<1>2. CASE Aside
  BY <1>2, HaltAside DEF Aside
<1>3. ASSUME NEW p \in Proc, Die(p) PROVE CauseTyped'
  BY <1>3 DEF Die, CauseTyped
<1> QED
  BY <1>1, <1>2, <1>3, HaltBegin, CauseBegun, HaltDies, HaltStep, HaltEnds, LiftStep, LiftEnds
  DEF HaltSide

\* Whoever a halt put down is on its list, so that a lift finds them, unless
\* the halt died half way, ran beside another one or beside a removal, or two
\* lifts ran at once (HaltDesk's two loops and LiftDesk's).
THEOREM RosterHaltRemembers == Spec => []HaltRemembers
<1>1. Init => Typed /\ CauseTyped /\ HaltInv
  <2> SUFFICES ASSUME Init PROVE CauseTyped /\ HaltInv
    BY TypedInit
  <2>1. (\A p \in Proc : proc[p].op = "idle") /\ cause = [a \in Analyst |-> ""]
    BY DEF Init, Idle
  <2>2. CauseTyped /\ \A a \in Analyst : cause[a] = ""
    BY <2>1 DEF CauseTyped
  <2> QED
    BY <2>1, <2>2 DEF HaltInv, OneOfEach, NoneRemoved, HaltsFind, LiftsFind, AllListed
<1>2. Typed /\ CauseTyped /\ HaltInv /\ [Next]_vars => (Typed /\ CauseTyped /\ HaltInv)'
  BY TypedNext, HaltNext
<1>3. HaltInv => HaltRemembers
  BY DEF HaltInv, HaltRace, AllListed, Will, Listed, HaltRemembers
<1> QED
  BY <1>1, <1>2, <1>3, PTL DEF Spec

-----------------------------------------------------------------------------
(* Whom a lift spares. *)

SpareRace == Overlapped("halt", "state") \/ Overlapped("lift", "lift")

\* Whoever a person put down is not active, is on no list, and is not one of
\* those a halt in flight puts down or a lift in flight wakes.
SparedStopped == \A a \in spared : a \in Analyst /\ roster[a].state # "active"
SparedUnlisted == \A d \in Desk : halt[d] # NoHalt => \A a \in spared : a \notin halt[d].names
HaltsSpare ==
  \A p \in Proc : proc[p].op = "halt" =>
    /\ \A a \in spared : a \notin proc[p].todo \cup proc[p].did
    /\ \A q \in Proc : proc[q].op # "state"
LiftsListed ==
  \A p \in Proc : proc[p].op = "lift" =>
    /\ halt[proc[p].desk] # NoHalt /\ proc[p].todo \subseteq halt[proc[p].desk].names
    /\ \A q \in Proc : proc[q].op = "lift" => q = p
SpareInv == /\ spared \subseteq Analyst
            /\ ~SpareRace => SparedStopped /\ SparedUnlisted /\ HaltsSpare /\ LiftsListed

\* A step beside every list.
LEMMA SpareKept ==
  ASSUME Typed, SpareInv, halt' = halt, SpareRace => SpareRace',
         \A q \in Proc :
           \/ proc'[q] = proc[q] \/ proc'[q].op = "idle"
           \/ proc[q].op \notin {"halt", "lift"} /\ proc'[q].op = proc[q].op,
         \A a \in Analyst \cap spared' :
           \/ roster'[a].state # "active"
           \/ a \in spared /\ roster'[a].state = roster[a].state,
         \A a \in spared' \ spared :
           /\ a \in Analyst /\ \E q \in Proc : proc[q].op = "state"
           /\ \A d \in Desk : halt[d] = NoHalt \/ a \notin halt[d].names
  PROVE  SpareInv'
<1>0. spared' \subseteq Analyst
  BY DEF SpareInv
<1> SUFFICES ASSUME ~SpareRace
             PROVE  (SparedStopped /\ SparedUnlisted /\ HaltsSpare /\ LiftsListed)'
  BY <1>0 DEF SpareInv
<1>1. SparedStopped /\ SparedUnlisted /\ HaltsSpare /\ LiftsListed
  BY DEF SpareInv
<1>2. /\ \A q \in Proc : proc'[q].op \in {"halt", "lift"} => proc'[q] = proc[q]
      /\ \A q \in Proc : proc'[q].op = "state" => proc[q].op = "state"
  OBVIOUS
<1>3. SparedStopped'
  BY <1>0, <1>1 DEF SparedStopped
<1>4. SparedUnlisted'
  BY <1>1 DEF SparedUnlisted
<1>5. HaltsSpare'
  <2> SUFFICES ASSUME NEW p \in Proc, proc'[p].op = "halt"
               PROVE  /\ \A a \in spared' : a \notin proc'[p].todo \cup proc'[p].did
                      /\ \A q \in Proc : proc'[q].op # "state"
    BY DEF HaltsSpare
  <2>1. /\ proc'[p] = proc[p] /\ \A q \in Proc : proc[q].op # "state"
        /\ \A a \in spared : a \notin proc[p].todo \cup proc[p].did
    BY <1>1, <1>2 DEF HaltsSpare
  <2> QED
    BY <1>2, <2>1
<1>6. LiftsListed'
  BY <1>1, <1>2 DEF LiftsListed
<1> QED
  BY <1>3, <1>4, <1>5, <1>6

LEMMA SpareAside == ASSUME Typed, SpareInv, Aside PROVE SpareInv'
<1>1. SpareRace => SpareRace'
  BY DEF Aside, SpareRace, Overlapped
<1>2. \A q \in Proc :
        \/ proc'[q] = proc[q] \/ proc'[q].op = "idle"
        \/ proc[q].op \notin {"halt", "lift"} /\ proc'[q].op = proc[q].op
  BY DEF Aside
<1>3. /\ halt' = halt
      /\ \A a \in Analyst \cap spared' :
           \/ roster'[a].state # "active"
           \/ a \in spared /\ roster'[a].state = roster[a].state
      /\ \A a \in spared' \ spared :
           /\ a \in Analyst /\ \E q \in Proc : proc[q].op = "state"
           /\ \A d \in Desk : halt[d] = NoHalt \/ a \notin halt[d].names
  BY DEF Aside
<1> QED
  BY <1>1, <1>2, <1>3, SpareKept

\* A handler that ends, or dies, and leaves the tables alone.
LEMMA SpareEnded ==
  ASSUME Typed, SpareInv, UNCHANGED <<roster, halt, met, spared>>,
         \A q \in Proc : proc'[q] = proc[q] \/ proc'[q].op = "idle"
  PROVE  SpareInv'
<1>1. SpareRace => SpareRace'
  BY DEF SpareRace, Overlapped
<1> QED
  BY <1>1, SpareKept

LEMMA SpareBegin ==
  ASSUME Typed, SpareInv, NEW p \in Proc, NEW r \in Handler, Shape(r), Looked(r), Begin(p, r)
  PROVE  SpareInv'
<1>0. /\ proc'[p] = r /\ \A q \in Proc : q # p => proc'[q] = proc[q]
      /\ UNCHANGED <<roster, halt, spared>> /\ met \subseteq met' /\ proc[p].op = "idle"
  BY OthersStay DEF Begin, boardVars
<1> SUFFICES ASSUME ~SpareRace, ~SpareRace'
             PROVE  (SparedStopped /\ SparedUnlisted /\ HaltsSpare /\ LiftsListed)'
  BY <1>0 DEF SpareInv, SpareRace, Overlapped
<1>1. SparedStopped /\ SparedUnlisted /\ HaltsSpare /\ LiftsListed
  BY DEF SpareInv
<1>2. ASSUME NEW q \in Proc, proc[q].op # "idle" PROVE {r.op, proc[q].op} \notin
        {{"halt", "state"}, {"lift", "lift"}}
  <2> SUFFICES ASSUME {r.op, proc[q].op} \in {{"halt", "state"}, {"lift", "lift"}}
               PROVE  FALSE
    OBVIOUS
  <2>1. {r.op, proc[q].op} \in Races
    BY DEF Races
  <2> QED
    BY <1>2, <2>1, Meets DEF SpareRace, Overlapped
<1>3. SparedStopped' /\ SparedUnlisted'
  BY <1>0, <1>1 DEF SparedStopped, SparedUnlisted
<1>4. HaltsSpare'
  <2>1. r.op = "halt" => \A a \in spared : a \notin r.todo \cup r.did
    BY <1>1 DEF Looked, ToSuspend, SparedStopped
  <2>2. \A u, q \in Proc : proc'[u].op = "halt" => proc'[q].op # "state"
    <3>1. \A q \in Proc : proc[q].op = "state" => r.op # "halt"
      BY <1>2
    <3>2. \A q \in Proc : proc[q].op = "halt" => r.op # "state"
      BY <1>2
    <3> QED
      BY <1>0, <1>1, <3>1, <3>2 DEF HaltsSpare
  <2>3. \A u \in Proc : proc'[u].op = "halt" =>
          \A a \in spared : a \notin proc'[u].todo \cup proc'[u].did
    BY <1>0, <1>1, <2>1 DEF HaltsSpare
  <2> QED
    BY <1>0, <2>2, <2>3 DEF HaltsSpare
<1>5. LiftsListed'
  <2>1. r.op = "lift" => halt[r.desk] # NoHalt /\ r.todo \subseteq halt[r.desk].names
    BY DEF Looked
  <2>2. \A q \in Proc : proc[q].op = "lift" => r.op # "lift"
    BY <1>2
  <2> QED
    BY <1>0, <1>1, <2>1, <2>2 DEF LiftsListed
<1> QED
  BY <1>3, <1>4, <1>5

LEMMA SpareHalt ==
  ASSUME Typed, CauseTyped, SpareInv, NEW p \in Proc, HaltSuspends(p)
  PROVE  SpareInv'
<1>1. PICK a \in proc[p].todo :
        /\ a \in Analyst /\ CauseTyped'
        /\ UNCHANGED <<halt, died, met, spared>>
        /\ \A q \in Proc : q # p => proc'[q] = proc[q]
        /\ \A b \in Analyst : /\ roster[b] # Absent => roster'[b] # Absent
                              /\ b # a => roster'[b] = roster[b] /\ cause'[b] = cause[b]
        /\ \/ /\ ~OnRoster(a) /\ proc'[p].op = "idle" /\ UNCHANGED <<roster, cause>>
           \/ /\ OnRoster(a) /\ roster'[a].state = "suspended" /\ cause'[a] = proc[p].desk
              /\ proc'[p].op = "halt" /\ proc'[p].desk = proc[p].desk
              /\ proc'[p].todo = proc[p].todo \ {a} /\ proc'[p].did = proc[p].did \cup {a}
  BY Suspends
<1>2. CASE proc'[p].op = "idle" /\ UNCHANGED <<roster, cause>>
  BY <1>1, <1>2, SpareEnded
<1>3. CASE /\ roster'[a].state = "suspended"
           /\ proc'[p].op = "halt"
           /\ proc'[p].todo = proc[p].todo \ {a} /\ proc'[p].did = proc[p].did \cup {a}
  <2>0. proc[p].op = "halt"
    BY DEF HaltSuspends, At
  <2> SUFFICES ASSUME ~SpareRace
               PROVE  (SparedStopped /\ SparedUnlisted /\ HaltsSpare /\ LiftsListed)'
    BY <1>1 DEF SpareInv, SpareRace, Overlapped
  <2>1. SparedStopped /\ SparedUnlisted /\ HaltsSpare /\ LiftsListed
    BY DEF SpareInv
  <2>2. SparedStopped' /\ SparedUnlisted'
    BY <1>1, <1>3, <2>1 DEF SparedStopped, SparedUnlisted
  <2>3. /\ \A q \in Proc : proc'[q].op = proc[q].op
        /\ \A q \in Proc : proc[q].op = "lift" => proc'[q] = proc[q]
        /\ \A q \in Proc : q # p => proc'[q] = proc[q]
        /\ proc'[p].todo \cup proc'[p].did = proc[p].todo \cup proc[p].did
    BY <1>1, <1>3, <2>0
  <2>4. HaltsSpare'
    <3> SUFFICES ASSUME NEW u \in Proc, proc'[u].op = "halt"
                 PROVE  /\ \A b \in spared : b \notin proc'[u].todo \cup proc'[u].did
                        /\ \A q \in Proc : proc'[q].op # "state"
      BY <1>1 DEF HaltsSpare
    <3>1. proc'[u].todo \cup proc'[u].did = proc[u].todo \cup proc[u].did
      BY <2>3
    <3> QED
      BY <2>1, <2>3, <3>1 DEF HaltsSpare
  <2>5. LiftsListed'
    BY <1>1, <2>1, <2>3 DEF LiftsListed
  <2> QED
    BY <2>2, <2>4, <2>5
<1> QED
  BY <1>1, <1>2, <1>3

LEMMA SpareHalted == ASSUME Typed, SpareInv, NEW p \in Proc, Halt(p) PROVE SpareInv'
<1> DEFINE d == proc[p].desk
<1>1. /\ UNCHANGED <<roster, met, spared>> /\ End(p) /\ proc[p].op = "halt"
      /\ halt' = IF halt[d] = NoHalt
                 THEN [halt EXCEPT ![d] = [names |-> proc[p].did]] ELSE halt
  BY DEF Halt, At, Same
<1>2. d \in Desk /\ halt \in [Desk -> {NoHalt} \cup [names : SUBSET Analyst]]
  BY <1>1, HandlerTyped DEF Typed, HaltTyped
<1>3. \A q \in Proc : proc'[q].op = "idle" \/ proc'[q] = proc[q]
  BY <1>1, EndsQuietly
<1>4. CASE halt' = halt
  BY <1>1, <1>3, <1>4, SpareEnded
<1>5. CASE halt[d] = NoHalt
  <2>1. /\ halt'[d].names = proc[p].did
        /\ \A e \in Desk : e # d => halt'[e] = halt[e]
    BY <1>1, <1>2, <1>5, AList
  <2> HIDE DEF d
  <2> SUFFICES ASSUME ~SpareRace
               PROVE  (SparedStopped /\ SparedUnlisted /\ HaltsSpare /\ LiftsListed)'
    BY <1>1 DEF SpareInv, SpareRace, Overlapped
  <2>2. SparedStopped /\ SparedUnlisted /\ HaltsSpare /\ LiftsListed
    BY DEF SpareInv
  <2>3. SparedStopped'
    BY <1>1, <2>2 DEF SparedStopped
  <2>4. SparedUnlisted'
    <3>1. \A a \in spared : a \notin proc[p].did
      BY <1>1, <2>2 DEF HaltsSpare
    <3> QED
      BY <1>1, <2>1, <2>2, <3>1 DEF SparedUnlisted
  <2>5. HaltsSpare'
    BY <1>1, <1>3, <2>2 DEF HaltsSpare
  <2>6. LiftsListed'
    <3> SUFFICES ASSUME NEW q \in Proc, proc'[q].op = "lift"
                 PROVE  /\ halt'[proc'[q].desk] # NoHalt
                        /\ proc'[q].todo \subseteq halt'[proc'[q].desk].names
                        /\ \A u \in Proc : proc'[u].op = "lift" => u = q
      BY DEF LiftsListed
    <3>1. proc'[q] = proc[q]
      BY <1>3
    <3>2. proc[q].desk # d /\ proc[q].desk \in Desk
      BY <1>5, <2>2, <3>1, HandlerTyped DEF LiftsListed
    <3>3. halt'[proc[q].desk] = halt[proc[q].desk]
      BY <2>1, <3>2
    <3>4. \A u \in Proc : proc'[u].op = "lift" => proc[u].op = "lift"
      BY <1>3
    <3> QED
      BY <2>2, <3>1, <3>3, <3>4 DEF LiftsListed
  <2> QED
    BY <2>3, <2>4, <2>5, <2>6
<1> QED
  BY <1>1, <1>4, <1>5

\* A lift wakes names of its own list alone.
LEMMA SpareWakes ==
  ASSUME Typed, CauseTyped, SpareInv, NEW p \in Proc, LiftWakes(p)
  PROVE  /\ SpareInv'
         /\ ~SpareRace => \A b \in spared : roster'[b].state = roster[b].state
<1>1. PICK a \in proc[p].todo :
        /\ a \in Analyst /\ CauseTyped'
        /\ UNCHANGED <<halt, died, met, spared>>
        /\ \A q \in Proc : q # p => proc'[q] = proc[q]
        /\ \A b \in Analyst : /\ roster[b] # Absent => roster'[b] # Absent
                              /\ b # a => roster'[b] = roster[b] /\ cause'[b] = cause[b]
        /\ \/ proc'[p].op = "idle" /\ UNCHANGED <<roster, cause>>
           \/ /\ cause'[a] = ""
              /\ proc'[p].op = "lift" /\ proc'[p].desk = proc[p].desk
              /\ proc'[p].todo = proc[p].todo \ {a}
  BY Wakes
<1>2. CASE proc'[p].op = "idle" /\ UNCHANGED <<roster, cause>>
  BY <1>1, <1>2, SpareEnded
<1>3. CASE /\ proc'[p].op = "lift" /\ proc'[p].desk = proc[p].desk
           /\ proc'[p].todo = proc[p].todo \ {a}
  <2>0. proc[p].op = "lift" /\ proc[p].desk \in Desk
    BY HandlerTyped DEF LiftWakes, At
  <2> SUFFICES ASSUME ~SpareRace
               PROVE  /\ (SparedStopped /\ SparedUnlisted /\ HaltsSpare /\ LiftsListed)'
                      /\ \A b \in spared : roster'[b].state = roster[b].state
    BY <1>1 DEF SpareInv, SpareRace, Overlapped
  <2>1. SparedStopped /\ SparedUnlisted /\ HaltsSpare /\ LiftsListed
    BY DEF SpareInv
  <2>2. \A b \in spared : b # a /\ b \in Analyst
    BY <2>0, <2>1 DEF LiftsListed, SparedUnlisted, SparedStopped
  <2>3. \A b \in spared : roster'[b] = roster[b]
    BY <1>1, <2>2
  <2>4. SparedStopped' /\ SparedUnlisted'
    BY <1>1, <2>1, <2>3 DEF SparedStopped, SparedUnlisted
  <2>5. /\ \A q \in Proc : proc'[q].op = proc[q].op
        /\ \A q \in Proc : proc[q].op = "halt" => proc'[q] = proc[q]
        /\ \A q \in Proc : q # p => proc'[q] = proc[q]
    BY <1>1, <1>3, <2>0
  <2>6. HaltsSpare'
    BY <1>1, <2>1, <2>5 DEF HaltsSpare
  <2>7. LiftsListed'
    <3> SUFFICES ASSUME NEW q \in Proc, proc'[q].op = "lift"
                 PROVE  /\ halt[proc'[q].desk] # NoHalt
                        /\ proc'[q].todo \subseteq halt[proc'[q].desk].names
                        /\ \A u \in Proc : proc'[u].op = "lift" => u = q
      BY <1>1 DEF LiftsListed
    <3>1. q = p
      BY <2>0, <2>1, <2>5 DEF LiftsListed
    <3>2. \A u \in Proc : proc'[u].op = "lift" => u = p
      BY <2>0, <2>1, <2>5 DEF LiftsListed
    <3> QED
      BY <1>3, <2>0, <2>1, <3>1, <3>2 DEF LiftsListed
  <2> QED
    BY <2>3, <2>4, <2>6, <2>7
<1> QED
  BY <1>1, <1>2, <1>3

LEMMA SpareLifted == ASSUME Typed, SpareInv, NEW p \in Proc, Lift(p) PROVE SpareInv'
<1> DEFINE d == proc[p].desk
<1>1. /\ UNCHANGED <<roster, met, spared>> /\ End(p) /\ proc[p].op = "lift"
      /\ halt' = [halt EXCEPT ![d] = NoHalt]
  BY DEF Lift, At, Same
<1>2. d \in Desk /\ halt \in [Desk -> {NoHalt} \cup [names : SUBSET Analyst]]
  BY <1>1, HandlerTyped DEF Typed, HaltTyped
<1>3. /\ proc'[p].op = "idle"
      /\ \A q \in Proc : proc'[q].op = "idle" \/ proc'[q] = proc[q]
  BY <1>1, EndsQuietly
<1>4. halt'[d] = NoHalt /\ \A e \in Desk : e # d => halt'[e] = halt[e]
  BY <1>1, <1>2
<1> HIDE DEF d
<1> SUFFICES ASSUME ~SpareRace
             PROVE  (SparedStopped /\ SparedUnlisted /\ HaltsSpare /\ LiftsListed)'
  BY <1>1 DEF SpareInv, SpareRace, Overlapped
<1>5. SparedStopped /\ SparedUnlisted /\ HaltsSpare /\ LiftsListed
  BY DEF SpareInv
<1>6. SparedStopped' /\ SparedUnlisted'
  BY <1>1, <1>4, <1>5 DEF SparedStopped, SparedUnlisted
<1>7. HaltsSpare'
  BY <1>1, <1>3, <1>5 DEF HaltsSpare
<1>8. LiftsListed'
  <2>1. \A q \in Proc : proc'[q].op # "lift"
    BY <1>1, <1>3, <1>5 DEF LiftsListed
  <2> QED
    BY <2>1 DEF LiftsListed
<1> QED
  BY <1>6, <1>7, <1>8

LEMMA SpareNext == Typed /\ CauseTyped /\ SpareInv /\ [Next]_vars => SpareInv'
<1> SUFFICES ASSUME Typed, CauseTyped, SpareInv, [Next]_vars PROVE SpareInv'
  OBVIOUS
<1>1. HaltSide
  BY HaltSides
<1>2. ASSUME NEW p \in Proc, Die(p) PROVE SpareInv'
  BY <1>2, SpareEnded, EndsQuietly DEF Die, boardVars
<1> QED
  BY <1>1, <1>2, SpareAside, SpareBegin, SpareHalt, SpareHalted, SpareWakes, SpareLifted
  DEF HaltSide

\* The steps a lift in flight can take.
LEMMA LiftSpares ==
  ASSUME Typed, CauseTyped, SpareInv, ~SpareRace, [Next]_vars,
         NEW p \in Proc, NEW a \in spared, At(p, "lift", "wake"), proc'[p] # proc[p]
  PROVE  roster'[a].state = roster[a].state
<1>1. Continues(p) \/ Die(p)
  BY OwnStep DEF At
<1>2. CASE LiftWakes(p)
  BY <1>2, SpareWakes
<1>3. Continues(p) => LiftWakes(p) \/ Lift(p)
  BY DEF Continues, Hire, SetState, Rebrief, RemoveLooks, Remove, Transfer, Assign, Block,
     JudgeArtifact, JudgeTask, HaltSuspends, Halt, At
<1>4. CASE Lift(p) \/ Die(p)
  BY <1>4 DEF Lift, Die, boardVars
<1> QED
  BY <1>1, <1>2, <1>3, <1>4

\* A lift wakes nobody a person stopped outside its list ("lifting a halt must
\* not silently reactivate it", halt.go), unless that person's click ran beside
\* the halt, or two lifts ran at once.
THEOREM RosterLiftSparesOthers == Spec => LiftSparesOthers
<1>1. Init => Typed /\ CauseTyped /\ SpareInv
  <2> SUFFICES ASSUME Init PROVE CauseTyped /\ SpareInv
    BY TypedInit
  <2>1. (\A p \in Proc : proc[p].op = "idle") /\ cause = [a \in Analyst |-> ""]
        /\ roster = InitRoster /\ halt = [d \in Desk |-> NoHalt]
        /\ spared = {a \in Analyst : InitRoster[a].state # "active"}
    BY DEF Init, Idle
  <2>2. CauseTyped
    BY <2>1 DEF CauseTyped
  <2> QED
    BY <2>1, <2>2 DEF SpareInv, SparedStopped, SparedUnlisted, HaltsSpare, LiftsListed
<1>2. Typed /\ CauseTyped /\ SpareInv /\ [Next]_vars => (Typed /\ CauseTyped /\ SpareInv)'
  <2>1. Typed /\ CauseTyped /\ [Next]_vars => CauseTyped'
    <3> SUFFICES ASSUME Typed, CauseTyped, [Next]_vars PROVE CauseTyped'
      OBVIOUS
    <3>1. ASSUME NEW p \in Proc, HaltSuspends(p) \/ LiftWakes(p) PROVE CauseTyped'
      BY <3>1, Suspends, Wakes
    <3>2. ASSUME NEW p \in Proc, Halt(p) \/ Lift(p) \/ Die(p) PROVE CauseTyped'
      BY <3>2 DEF Halt, Lift, Die, CauseTyped
    <3>3. Aside => CauseTyped'
      BY DEF Aside
    <3> QED
      BY <3>1, <3>2, <3>3, HaltSides, CauseBegun DEF HaltSide
  <2> QED
    BY <2>1, TypedNext, SpareNext
<1>3. Typed /\ CauseTyped /\ SpareInv /\ [Next]_vars =>
        [\A p \in Proc, a \in spared :
           At(p, "lift", "wake") /\ proc'[p] # proc[p]
           /\ ~Overlapped("halt", "state") /\ ~Overlapped("lift", "lift")
           => roster'[a].state = roster[a].state]_vars
  BY LiftSpares DEF SpareRace
<1> QED
  BY <1>1, <1>2, <1>3, PTL DEF Spec, LiftSparesOthers

-----------------------------------------------------------------------------
(* The stamp and the board. *)

StampRace == Overlapped("post", "return") \/ died \cap {"post", "return"} # {}
Stamped(t) == \E k \in 1..Copies : draft[t][k] = "posted"
Stamping(t) == \E p \in Proc : At(p, "post", "task") /\ proc[p].task = t

\* A post and a return are not in flight together; a post between its two
\* writes has stamped its deliverable, a return before its first finds it
\* unstamped; and where no post is between its two writes the board agrees.
NotBoth == \A p, q \in Proc : ~(proc[p].op = "post" /\ proc[q].op = "return")
PostsStamped ==
  \A p \in Proc : At(p, "post", "task") => draft[proc[p].task][proc[p].copy] = "posted"
ReturnsUnstamped ==
  \A p \in Proc : At(p, "return", "artifact") => draft[proc[p].task][proc[p].copy] # "posted"
BoardAgrees ==
  \A t \in Task : t \notin reopened /\ ~Stamping(t) =>
    (task[t].state = "posted" <=> Stamped(t))
StampInv == ~StampRace => NotBoth /\ PostsStamped /\ ReturnsUnstamped /\ BoardAgrees

\* A step that judges nothing and stamps nothing.
NoVerdict ==
  /\ draft' = draft /\ (StampRace => StampRace')
  /\ \A q \in Proc : proc'[q].op \in {"post", "return"} => proc'[q] = proc[q]
  /\ \A q \in Proc : proc[q].op = "post" => proc'[q] = proc[q]
  /\ \A t \in Task : t \notin reopened' =>
       t \notin reopened /\ (task'[t].state = "posted" <=> task[t].state = "posted")

LEMMA StampKept == ASSUME StampInv, NoVerdict PROVE StampInv'
<1> SUFFICES ASSUME ~StampRace
             PROVE  (NotBoth /\ PostsStamped /\ ReturnsUnstamped /\ BoardAgrees)'
  BY DEF StampInv, NoVerdict
<1>1. NotBoth /\ PostsStamped /\ ReturnsUnstamped /\ BoardAgrees
  BY DEF StampInv
<1>2. NotBoth'
  BY <1>1 DEF NoVerdict, NotBoth
<1>3. PostsStamped' /\ ReturnsUnstamped'
  BY <1>1 DEF NoVerdict, PostsStamped, ReturnsUnstamped, At
<1>4. \A t \in Task : Stamping(t) => Stamping(t)'
  BY DEF NoVerdict, Stamping, At
<1>5. \A t \in Task : Stamped(t)' <=> Stamped(t)
  BY DEF NoVerdict, Stamped
<1>6. BoardAgrees'
  BY <1>1, <1>4, <1>5 DEF NoVerdict, BoardAgrees
<1> QED
  BY <1>2, <1>3, <1>6

\* What a write of one task's state does to the history.
LEMMA ReopensBooked ==
  ASSUME Typed, BookInv, NEW p \in Proc, NEW t \in Task, NEW s \in TaskStates \ {"posted"},
         TaskMoves(p, t, s)
  PROVE  \A u \in Task : u \notin reopened' =>
           /\ u \notin reopened /\ (task'[u].state = "posted" <=> task[u].state = "posted")
           /\ u = t => task[u].state # "posted"
<1>1. [task[t] EXCEPT !.state = s].state = s
  BY DEF Typed, TaskTyped, Row
<1>2. reopened' = IF booked[t] # "" THEN reopened \cup {t} ELSE reopened
  BY <1>1 DEF TaskMoves, WriteTask
<1>3. task'[t].state # "posted" /\ \A u \in Task : u # t => task'[u] = task[u]
  BY Moved
<1> QED
  BY <1>2, <1>3 DEF BookInv

\* A handler that is no judge ends.
LEMMA NoJudgeEnds ==
  ASSUME Typed, NEW p \in Proc, proc[p].op # "post",
         End(p), UNCHANGED <<draft, met>>, died \subseteq died',
         \A t \in Task : t \notin reopened' =>
           t \notin reopened /\ (task'[t].state = "posted" <=> task[t].state = "posted")
  PROVE  NoVerdict
<1>1. /\ proc'[p].op = "idle" /\ \A q \in Proc : q # p => proc'[q] = proc[q]
  BY EndsQuietly
<1> QED
  BY <1>1 DEF NoVerdict, StampRace, Overlapped

\* A handler that is no judge goes on.
LEMMA NoJudgeGoesOn ==
  ASSUME NEW p \in Proc, proc[p].op \notin {"post", "return"}, proc'[p].op = proc[p].op,
         \A q \in Proc : q # p => proc'[q] = proc[q],
         UNCHANGED <<draft, met, died, task, reopened>>
  PROVE  NoVerdict
BY DEF NoVerdict, StampRace, Overlapped

LEMMA StampBegin ==
  ASSUME Typed, StampInv, NEW p \in Proc, NEW r \in Handler, Looked(r), Begin(p, r)
  PROVE  StampInv'
<1>1. /\ proc'[p] = r /\ proc[p].op = "idle"
      /\ \A q \in Proc : q # p => proc'[q] = proc[q]
      /\ UNCHANGED <<task, draft, reopened, died>> /\ met \subseteq met'
  BY OthersStay DEF Begin, boardVars
<1> SUFFICES ASSUME ~StampRace, ~StampRace'
             PROVE  (NotBoth /\ PostsStamped /\ ReturnsUnstamped /\ BoardAgrees)'
  BY <1>1 DEF StampInv, StampRace, Overlapped
<1>2. NotBoth /\ PostsStamped /\ ReturnsUnstamped /\ BoardAgrees
  BY DEF StampInv
<1>3. ASSUME NEW q \in Proc, {r.op, proc[q].op} = {"post", "return"} PROVE FALSE
  <2>1. {r.op, proc[q].op} \in Races /\ proc[q].op # "idle"
    BY <1>3 DEF Races
  <2>2. {"post", "return"} \in met'
    BY <1>3, <2>1, Meets
  <2> QED
    BY <2>2 DEF StampRace, Overlapped
<1>4. NotBoth'
  BY <1>1, <1>2, <1>3 DEF NotBoth
<1>5. r.op \in {"post", "return"} => r.at = "artifact" /\ Unsettled(r.task, r.copy)
  BY DEF Looked
<1>6. PostsStamped'
  BY <1>1, <1>2, <1>5 DEF PostsStamped, At
<1>7. ReturnsUnstamped'
  BY <1>1, <1>2, <1>5 DEF ReturnsUnstamped, At, Unsettled
<1>8. \A t \in Task : Stamping(t) => Stamping(t)'
  BY <1>1 DEF Stamping, At
<1>9. \A t \in Task : Stamped(t)' <=> Stamped(t)
  BY <1>1 DEF Stamped
<1>10. BoardAgrees'
  BY <1>1, <1>2, <1>8, <1>9 DEF BoardAgrees
<1> QED
  BY <1>4, <1>6, <1>7, <1>10

\* The first write of a verdict settles one deliverable.
LEMMA Settled ==
  ASSUME Typed, NEW p \in Proc, NEW op \in {"post", "return"}, JudgeArtifact(p, op)
  PROVE  LET t == proc[p].task  k == proc[p].copy IN
         /\ t \in Task /\ k \in 1..Copies
         /\ draft'[t][k] = Verdict(op)
         /\ \A u \in Task, j \in 1..Copies : u # t \/ j # k => draft'[u][j] = draft[u][j]
         /\ UNCHANGED <<task, reopened, met, died>>
         /\ proc'[p] = [proc[p] EXCEPT !.at = "task"]
         /\ \A q \in Proc : q # p => proc'[q] = proc[q]
<1> DEFINE t == proc[p].task
           k == proc[p].copy
<1>1. t \in Task /\ k \in 1..Copies
  BY DEF Typed, ProcTyped, Shape, JudgeArtifact, At
<1>2. draft' = [draft EXCEPT ![t][k] = Verdict(op)]
      /\ UNCHANGED <<task, reopened, met, died>> /\ Goto(p, "task")
  BY DEF JudgeArtifact, Same
<1>3. proc' = [proc EXCEPT ![p] = [proc[p] EXCEPT !.at = "task"]]
  BY <1>2 DEF Goto, Typed, ProcTyped
<1> HIDE DEF t, k
<1>4. /\ draft'[t][k] = Verdict(op)
      /\ \A u \in Task, j \in 1..Copies : u # t \/ j # k => draft'[u][j] = draft[u][j]
  BY <1>1, <1>2 DEF Typed, DraftTyped
<1>5. /\ proc'[p] = [proc[p] EXCEPT !.at = "task"]
      /\ \A q \in Proc : q # p => proc'[q] = proc[q]
  BY <1>3 DEF Typed, ProcTyped
<1> QED
  BY <1>1, <1>2, <1>4, <1>5 DEF t, k

LEMMA StampSettles ==
  ASSUME Typed, StampInv, NEW p \in Proc, JudgeArtifact(p, "post")
  PROVE  StampInv'
<1> DEFINE t == proc[p].task
           k == proc[p].copy
<1>0. proc[p] \in Handler
  BY DEF Typed, ProcTyped
<1>0a. [proc[p] EXCEPT !.at = "task"].op = proc[p].op
       /\ [proc[p] EXCEPT !.at = "task"].at = "task"
       /\ [proc[p] EXCEPT !.at = "task"].task = t
       /\ [proc[p] EXCEPT !.at = "task"].copy = k
  BY <1>0 DEF Handler
<1>1. /\ t \in Task /\ k \in 1..Copies /\ draft'[t][k] = "posted"
      /\ \A u \in Task, j \in 1..Copies : u # t \/ j # k => draft'[u][j] = draft[u][j]
      /\ UNCHANGED <<task, reopened, met, died>>
      /\ proc'[p].op = "post" /\ proc'[p].at = "task"
      /\ proc'[p].task = t /\ proc'[p].copy = k
      /\ \A q \in Proc : q # p => proc'[q] = proc[q]
  BY <1>0a, Settled DEF Verdict, JudgeArtifact, At
<1>2. proc[p].op = "post"
  BY DEF JudgeArtifact, At
<1> SUFFICES ASSUME ~StampRace
             PROVE  (NotBoth /\ PostsStamped /\ ReturnsUnstamped /\ BoardAgrees)'
  BY <1>1 DEF StampInv, StampRace, Overlapped
<1>3. NotBoth /\ PostsStamped /\ ReturnsUnstamped /\ BoardAgrees
  BY DEF StampInv
<1>4. \A q \in Proc : proc'[q].op = proc[q].op
  BY <1>1, <1>2
<1>5. NotBoth'
  BY <1>3, <1>4 DEF NotBoth
<1>6. PostsStamped'
  <2> SUFFICES ASSUME NEW q \in Proc, proc'[q].op = "post", proc'[q].at = "task"
               PROVE  draft'[proc'[q].task][proc'[q].copy] = "posted"
    BY DEF PostsStamped, At
  <2>1. CASE q = p
    BY <1>1, <2>1
  <2>2. CASE q # p
    <3>1. /\ proc'[q] = proc[q] /\ draft[proc[q].task][proc[q].copy] = "posted"
          /\ proc[q].task \in Task /\ proc[q].copy \in 1..Copies
      BY <1>1, <1>3, <2>2 DEF PostsStamped, At, Typed, ProcTyped, Shape
    <3> QED
      BY <1>1, <3>1
  <2> QED
    BY <2>1, <2>2
<1>7. ReturnsUnstamped'
  BY <1>2, <1>3, <1>4 DEF NotBoth, ReturnsUnstamped, At
<1>8. \A u \in Task : Stamping(u) => Stamping(u)'
  BY <1>1 DEF Stamping, At
<1>9. \A u \in Task : u # t => (Stamped(u)' <=> Stamped(u))
  BY <1>1 DEF Stamped
<1>10. Stamping(t)'
  BY <1>1 DEF Stamping, At
<1>11. BoardAgrees'
  BY <1>1, <1>3, <1>8, <1>9, <1>10 DEF BoardAgrees
<1> QED
  BY <1>5, <1>6, <1>7, <1>11

LEMMA ReturnSettles ==
  ASSUME Typed, StampInv, NEW p \in Proc, JudgeArtifact(p, "return")
  PROVE  StampInv'
<1> DEFINE t == proc[p].task
           k == proc[p].copy
<1>1. /\ t \in Task /\ k \in 1..Copies /\ draft'[t][k] = "returned"
      /\ \A u \in Task, j \in 1..Copies : u # t \/ j # k => draft'[u][j] = draft[u][j]
      /\ UNCHANGED <<task, reopened, met, died>>
      /\ proc'[p].op = "return" /\ proc'[p].at = "task"
      /\ \A q \in Proc : q # p => proc'[q] = proc[q]
  BY Settled, ZenonT(60) DEF Verdict, Typed, ProcTyped, Handler, JudgeArtifact, At
<1>2. proc[p].op = "return" /\ At(p, "return", "artifact")
  BY DEF JudgeArtifact, At
<1> SUFFICES ASSUME ~StampRace
             PROVE  (NotBoth /\ PostsStamped /\ ReturnsUnstamped /\ BoardAgrees)'
  BY <1>1 DEF StampInv, StampRace, Overlapped
<1>3. NotBoth /\ PostsStamped /\ ReturnsUnstamped /\ BoardAgrees
  BY DEF StampInv
<1>4. \A q \in Proc : proc'[q].op = proc[q].op
  BY <1>1, <1>2
<1>5. NotBoth' /\ PostsStamped'
  BY <1>2, <1>3, <1>4 DEF NotBoth, PostsStamped, At
<1>6. draft[t][k] # "posted"
  BY <1>2, <1>3 DEF ReturnsUnstamped
<1>7. ReturnsUnstamped'
  <2> SUFFICES ASSUME NEW q \in Proc, proc'[q].op = "return", proc'[q].at = "artifact"
               PROVE  draft'[proc'[q].task][proc'[q].copy] # "posted"
    BY DEF ReturnsUnstamped, At
  <2>1. q # p
    BY <1>1
  <2>2. /\ proc'[q] = proc[q] /\ draft[proc[q].task][proc[q].copy] # "posted"
        /\ proc[q].task \in Task /\ proc[q].copy \in 1..Copies
    BY <1>1, <1>3, <2>1 DEF ReturnsUnstamped, At, Typed, ProcTyped, Shape
  <2> QED
    BY <1>1, <2>2
<1>8. \A u \in Task : Stamping(u) => Stamping(u)'
  BY <1>1, <1>2 DEF Stamping, At
<1>9. \A u \in Task : Stamped(u)' <=> Stamped(u)
  BY <1>1, <1>6 DEF Stamped
<1>10. BoardAgrees'
  BY <1>1, <1>3, <1>8, <1>9 DEF BoardAgrees
<1> QED
  BY <1>5, <1>7, <1>10

\* The second write of a verdict brings the board in line.
LEMMA StampLands ==
  ASSUME Typed, StampInv, NEW p \in Proc, JudgeTask(p, "post")
  PROVE  StampInv'
<1>1. PICK t \in Task :
        /\ t = proc[p].task /\ At(p, "post", "task") /\ TaskMoves(p, t, "posted")
        /\ End(p) /\ UNCHANGED <<draft, met, died>>
  BY DEF Typed, ProcTyped, Shape, JudgeTask, At, Verdict, TaskStates, TaskMoves, Same
<1>2. /\ proc'[p].op = "idle" /\ \A q \in Proc : q # p => proc'[q] = proc[q]
  BY <1>1, EndsQuietly
<1>3. task'[t].state = "posted" /\ \A u \in Task : u # t => task'[u] = task[u]
  BY <1>1, Moved DEF TaskStates
<1>4. reopened \subseteq reopened'
  BY <1>1 DEF TaskMoves, WriteTask
<1> SUFFICES ASSUME ~StampRace
             PROVE  (NotBoth /\ PostsStamped /\ ReturnsUnstamped /\ BoardAgrees)'
  BY <1>1 DEF StampInv, StampRace, Overlapped
<1>5. NotBoth /\ PostsStamped /\ ReturnsUnstamped /\ BoardAgrees
  BY DEF StampInv
<1>6. NotBoth' /\ PostsStamped' /\ ReturnsUnstamped'
  BY <1>1, <1>2, <1>5 DEF NotBoth, PostsStamped, ReturnsUnstamped, At
<1>7. Stamped(t)'
  <2>1. draft[t][proc[p].copy] = "posted" /\ proc[p].copy \in 1..Copies
    BY <1>1, <1>5 DEF PostsStamped, At, Typed, ProcTyped, Shape
  <2> QED
    BY <1>1, <2>1 DEF Stamped
<1>8. \A u \in Task : Stamped(u)' <=> Stamped(u)
  BY <1>1 DEF Stamped
<1>9. \A u \in Task : u # t /\ Stamping(u) => Stamping(u)'
  BY <1>1, <1>2 DEF Stamping, At
<1>10. BoardAgrees'
  BY <1>3, <1>4, <1>5, <1>7, <1>8, <1>9 DEF BoardAgrees
<1> QED
  BY <1>6, <1>10

LEMMA ReturnLands ==
  ASSUME Typed, BookInv, StampInv, NEW p \in Proc, JudgeTask(p, "return")
  PROVE  StampInv'
<1>1. /\ proc[p].task \in Task /\ TaskMoves(p, proc[p].task, "returned")
      /\ proc[p].op = "return" /\ End(p) /\ UNCHANGED <<draft, met, died>>
  BY DEF Typed, ProcTyped, Shape, JudgeTask, At, Verdict, TaskStates, TaskMoves, Same
<1>2. "returned" \in TaskStates \ {"posted"}
  BY DEF TaskStates
<1>3. NoVerdict
  BY <1>1, <1>2, ReopensBooked, NoJudgeEnds
<1> QED
  BY <1>3, StampKept

\* A draft filed is a deliverable nobody has judged.
LEMMA StampFiles ==
  ASSUME Typed, StampInv, NEW t \in Task, NEW k \in 1..Copies, File(t, k)
  PROVE  StampInv'
<1>1. UNCHANGED <<task, proc, met, died, reopened>> /\ draft[t][k] = "none"
      /\ draft' = [draft EXCEPT ![t][k] = "draft"]
  BY DEF File, histVars
<1>2. /\ draft'[t][k] = "draft"
      /\ \A u \in Task, j \in 1..Copies : u # t \/ j # k => draft'[u][j] = draft[u][j]
  BY <1>1 DEF Typed, DraftTyped
<1>3. \A u \in Task, j \in 1..Copies : draft'[u][j] = "posted" <=> draft[u][j] = "posted"
  BY <1>1, <1>2
<1>4. \A q \in Proc : proc[q].op \in {"post", "return"} =>
        proc[q].task \in Task /\ proc[q].copy \in 1..Copies
  BY DEF Typed, ProcTyped, Shape
<1> SUFFICES ASSUME ~StampRace
             PROVE  (NotBoth /\ PostsStamped /\ ReturnsUnstamped /\ BoardAgrees)'
  BY <1>1 DEF StampInv, StampRace, Overlapped
<1>5. NotBoth /\ PostsStamped /\ ReturnsUnstamped /\ BoardAgrees
  BY DEF StampInv
<1>6. NotBoth'
  BY <1>1, <1>5 DEF NotBoth
<1>7. PostsStamped'
  BY <1>1, <1>3, <1>4, <1>5 DEF PostsStamped, At
<1>8. ReturnsUnstamped'
  BY <1>1, <1>3, <1>4, <1>5 DEF ReturnsUnstamped, At
<1>9. \A u \in Task : Stamping(u)' <=> Stamping(u)
  BY <1>1 DEF Stamping, At
<1>10. \A u \in Task : Stamped(u)' <=> Stamped(u)
  BY <1>3 DEF Stamped
<1>11. BoardAgrees'
  BY <1>1, <1>5, <1>9, <1>10 DEF BoardAgrees
<1> QED
  BY <1>6, <1>7, <1>8, <1>11

\* Whoever is not judging: a step of the roster, of a halt or of a lift, a
\* move, and a click that writes a task's state.
LEMMA NobodyJudges ==
  ASSUME Typed, BookInv, NEW p \in Proc, Continues(p),
         proc[p].op \notin {"post", "return"}
  PROVE  NoVerdict
<1>1. CASE Hire(p) \/ SetState(p) \/ Rebrief(p) \/ Remove(p) \/ Halt(p) \/ Lift(p)
  <2>1. End(p) /\ UNCHANGED <<task, draft, met, died, reopened>>
    BY <1>1 DEF Hire, SetState, Rebrief, Remove, Halt, Lift, Same
  <2> QED
    BY <2>1, NoJudgeEnds
<1>2. CASE RemoveLooks(p)
  <2>1. CASE End(p)
    BY <1>2, <2>1, NoJudgeEnds DEF RemoveLooks, boardVars, Same
  <2>2. CASE Goto(p, "delete")
    <3>1. proc'[p].op = proc[p].op /\ \A q \in Proc : q # p => proc'[q] = proc[q]
      BY <2>2, ZenonT(60) DEF Goto, Typed, ProcTyped, Handler
    <3> QED
      BY <1>2, <3>1, NoJudgeGoesOn DEF RemoveLooks, boardVars, Same
  <2> QED
    BY <1>2, <2>1, <2>2 DEF RemoveLooks
<1>3. CASE HaltSuspends(p) \/ LiftWakes(p)
  <2>1. /\ UNCHANGED <<task, draft, met, died, reopened>>
        /\ \/ End(p)
           \/ /\ proc'[p].op = proc[p].op
              /\ \A q \in Proc : q # p => proc'[q] = proc[q]
    BY <1>3, ZenonT(60) DEF HaltSuspends, LiftWakes, Same, End, Typed, ProcTyped, Handler
  <2> QED
    BY <2>1, NoJudgeEnds, NoJudgeGoesOn
<1>4. CASE Transfer(p)
  <2>1. UNCHANGED <<draft, died>>
    BY <1>4 DEF Transfer, Same
  <2> QED
    BY <1>4, <2>1, Transferred, NoJudgeEnds
<1>5. CASE Assign(p)
  <2>1. UNCHANGED <<draft, died>>
    BY <1>5 DEF Assign, Same
  <2>2. \A t \in Task : t \notin reopened' =>
          t \notin reopened /\ (task'[t].state = "posted" <=> task[t].state = "posted")
    BY <1>5, Assigned DEF BookInv
  <2> QED
    BY <1>5, <2>1, <2>2, Assigned, NoJudgeEnds
<1>6. CASE Block(p)
  <2>1. /\ proc[p].task \in Task /\ TaskMoves(p, proc[p].task, "blocked")
        /\ End(p) /\ UNCHANGED <<draft, met, died>>
    BY <1>6 DEF Typed, ProcTyped, Shape, Block, TaskStates, TaskMoves, Same
  <2>2. "blocked" \in TaskStates \ {"posted"}
    BY DEF TaskStates
  <2> QED
    BY <2>1, <2>2, ReopensBooked, NoJudgeEnds
<1> QED
  BY <1>1, <1>2, <1>3, <1>4, <1>5, <1>6 DEF Continues, JudgeArtifact, JudgeTask, At

LEMMA StampDies == ASSUME Typed, StampInv, NEW p \in Proc, Die(p) PROVE StampInv'
<1>1. /\ End(p) /\ UNCHANGED <<task, draft, met, reopened>>
      /\ died' = died \cup {proc[p].op}
  BY DEF Die, boardVars
<1>2. CASE proc[p].op \in {"post", "return"}
  BY <1>1, <1>2 DEF StampInv, StampRace
<1>3. CASE proc[p].op \notin {"post", "return"}
  BY <1>1, <1>3, NoJudgeEnds, StampKept
<1> QED
  BY <1>2, <1>3

LEMMA StampInit == Init => StampInv
<1> SUFFICES ASSUME Init PROVE StampInv
  OBVIOUS
<1>1. /\ task = InitTask /\ proc = [p \in Proc |-> Idle]
      /\ draft = [t \in Task |-> [k \in 1..Copies |-> "none"]]
  BY DEF Init
<1>2. \A t \in Task : task[t].state # "posted"
  BY <1>1, RosterAssumption DEF OpenStates
<1>3. \A p \in Proc : proc[p].op = "idle"
  BY <1>1 DEF Idle
<1>4. \A t \in Task : ~Stamped(t)
  BY <1>1 DEF Stamped
<1> QED
  BY <1>2, <1>3, <1>4
  DEF StampInv, NotBoth, PostsStamped, ReturnsUnstamped, BoardAgrees, At

LEMMA StampNext == Typed /\ BookInv /\ StampInv /\ [Next]_vars => StampInv'
<1> SUFFICES ASSUME Typed, BookInv, StampInv, [Next]_vars PROVE StampInv'
  OBVIOUS
<1>1. ASSUME NEW p \in Proc, Starts(p) PROVE StampInv'
  BY <1>1, StartsLooked, StampBegin
<1>2. ASSUME NEW p \in Proc, Continues(p) PROVE StampInv'
  <2>1. CASE proc[p].op \notin {"post", "return"}
    BY <1>2, <2>1, NobodyJudges, StampKept
  <2>2. CASE proc[p].op \in {"post", "return"}
    <3>1. \/ JudgeArtifact(p, "post") \/ JudgeTask(p, "post")
          \/ JudgeArtifact(p, "return") \/ JudgeTask(p, "return")
      BY <1>2, <2>2 DEF Continues, Hire, SetState, Rebrief, RemoveLooks, Remove, Transfer,
         Assign, Block, HaltSuspends, Halt, LiftWakes, Lift, At
    <3> QED
      BY <3>1, StampSettles, StampLands, ReturnSettles, ReturnLands
  <2> QED
    BY <2>1, <2>2
<1>3. ASSUME NEW p \in Proc, Die(p) PROVE StampInv'
  BY <1>3, StampDies
<1>4. ASSUME NEW t \in Task, NEW k \in 1..Copies, File(t, k) PROVE StampInv'
  BY <1>4, StampFiles
<1>5. ASSUME UNCHANGED vars PROVE StampInv'
  <2>1. NoVerdict
    BY <1>5 DEF vars, boardVars, histVars, NoVerdict, StampRace, Overlapped
  <2> QED
    BY <2>1, StampKept
<1> QED
  BY <1>1, <1>2, <1>3, <1>4, <1>5 DEF Next

\* The deliverable's stamp and the board's agree once nobody is judging, short
\* of a post and a return in flight together, of a judge that died between its
\* two writes, and of work opened again after its stamp (Post and Return,
\* crew.go, write the artifact first and the task second).
THEOREM RosterStampAndTaskAgree == Spec => []StampAndTaskAgree
<1>1. Init => Typed /\ BookInv /\ StampInv
  BY TypedInit, BookInit, StampInit
<1>2. Typed /\ BookInv /\ StampInv /\ [Next]_vars => (Typed /\ BookInv /\ StampInv)'
  BY TypedNext, BookNext, StampNext
<1>3. StampInv => StampAndTaskAgree
  BY DEF StampInv, StampRace, BoardAgrees, Stamping, Stamped, Judging, At, StampAndTaskAgree
<1> QED
  BY <1>1, <1>2, <1>3, PTL DEF Spec
=============================================================================
