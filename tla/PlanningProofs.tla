--------------------------- MODULE PlanningProofs ---------------------------
(***************************************************************************)
(* Theorems about planning (Planning), for any browsers and runners, any   *)
(* world and whatever models answer: no label twice, what a model's plan   *)
(* costs and where it may move work, what is booked for asking, and what a *)
(* cadence run obeys.                                                      *)
(***************************************************************************)
EXTENDS Planning, SumLemmas, FunctionTheorems, TLAPS

Handlers == Browser \cup Runner

\* A handler's record, with values of any kind in its fields.
RowOf(D) == [at : D, label : D, goal : D, items : D, exists : BOOLEAN, seen : D,
             det : D, answer : D, shown : D, cost : D, would : D, ceiling : D, missed : D]

Shaped ==
  /\ \E D : proc \in [Handlers -> RowOf(D)]
  /\ \E S : board \in Seq(S)

\* A cadence run is about the label of its day, and has not found it.
DueIsTheDay(r) ==
  r.at \in {"priced", "checked"} => r.label = CadenceLabel /\ ~r.exists

\* Who looked for its label and did not find it finds it on the board only if
\* the creator of it raced with the one that looked.
Outrun(r) ==
  r.at \in {"read", "checked"} /\ ~r.exists /\ r.label \in Labels
    => r.label \in raced

LabelInv ==
  /\ \A p \in Handlers : DueIsTheDay(proc[p]) /\ Outrun(proc[p])
  /\ LabelOnce

-----------------------------------------------------------------------------
(* What a handler's step leaves of the records. *)

LEMMA RowsGrow ==
  ASSUME NEW D, NEW E, D \subseteq E
  PROVE  RowOf(D) \subseteq RowOf(E)
BY DEF RowOf

LEMMA IdleRow == \E D : Idle \in RowOf(D)
<1>. DEFINE D == {Idle.at, Idle.label, Idle.goal, Idle.items, Idle.seen, Idle.det,
                  Idle.answer, Idle.shown, Idle.cost, Idle.would, Idle.ceiling, Idle.missed}
<1>1. Idle \in RowOf(D)
  BY DEF Idle, RowOf
<1>. QED BY <1>1

\* One field written, whatever is written.
LEMMA RowWrites ==
  ASSUME NEW D, NEW r \in RowOf(D), NEW v
  PROVE  /\ [r EXCEPT !.at = v] \in RowOf(D \cup {v})
         /\ [r EXCEPT !.missed = v] \in RowOf(D \cup {v})
BY DEF RowOf

LEMMA OneRow ==
  ASSUME Shaped, NEW p \in Handlers, NEW E, NEW n \in RowOf(E),
         proc' = [proc EXCEPT ![p] = n]
  PROVE  /\ \E D : proc' \in [Handlers -> RowOf(D)]
         /\ proc'[p] = n
         /\ \A q \in Handlers \ {p} : proc'[q] = proc[q]
<1>1. PICK D : proc \in [Handlers -> RowOf(D)]
  BY DEF Shaped
<1>2. RowOf(D) \subseteq RowOf(D \cup E) /\ RowOf(E) \subseteq RowOf(D \cup E)
  BY RowsGrow
<1>3. proc' \in [Handlers -> RowOf(D \cup E)]
  BY <1>1, <1>2
<1>. QED BY <1>1, <1>3

\* A handler that writes nothing on the board.
LEMMA QuietKeeps ==
  ASSUME Shaped, LabelInv, board' = board, raced' = raced,
         NEW p \in Handlers, NEW E, NEW n \in RowOf(E),
         proc' = [proc EXCEPT ![p] = n], DueIsTheDay(n), Outrun(n)
  PROVE  Shaped' /\ LabelInv'
<1>1. /\ \E D : proc' \in [Handlers -> RowOf(D)]
      /\ proc'[p] = n
      /\ \A q \in Handlers \ {p} : proc'[q] = proc[q]
  BY OneRow
<1>2. Shaped'
  BY <1>1 DEF Shaped
<1>3. \A q \in Handlers : DueIsTheDay(proc'[q]) /\ Outrun(proc'[q])
  BY <1>1 DEF LabelInv
<1>4. (\A q \in Handlers : DueIsTheDay(proc[q]) /\ Outrun(proc[q]))'
  BY <1>3 DEF DueIsTheDay, Outrun, Labels, CadenceLabel
<1>5. LabelOnce'
  BY DEF LabelInv, LabelOnce
<1>. QED BY <1>2, <1>4, <1>5 DEF LabelInv

\* A handler that puts the sprint of its label on the board and ends.
Creates(p) ==
  /\ proc[p].at \in {"read", "checked"} /\ ~proc[p].exists
  /\ \E by : Materialise(p, by)
  /\ proc' = [proc EXCEPT ![p] = Idle]

LEMMA CreateKeeps ==
  ASSUME Shaped, LabelInv, NEW p \in Handlers, Creates(p)
  PROVE  Shaped' /\ LabelInv'
<1>0. PICK by : Materialise(p, by)
  BY DEF Creates
<1>. DEFINE l == proc[p].label
            s == [label |-> l, by |-> by, items |-> proc[p].items,
                  shown |-> proc[p].shown, unmoved |-> proc[p].seen = world]
<1>1. /\ board' = Append(board, s)
      /\ raced' = raced \cup {x \in {l} : \E o \in Handlers \ {p} : Looked(o, x)}
  BY <1>0 DEF Materialise, Handlers
<1>2. /\ \E D : proc' \in [Handlers -> RowOf(D)]
      /\ proc'[p] = Idle
      /\ \A q \in Handlers \ {p} : proc'[q] = proc[q]
  BY IdleRow, OneRow DEF Creates
<1>3. s.label = l
  OBVIOUS
<1>. HIDE DEF s
<1>4. PICK S : board \in Seq(S)
  BY DEF Shaped
<1>5. /\ board' \in Seq(S \cup {s}) /\ Len(board') = Len(board) + 1
      /\ board'[Len(board) + 1] = s
      /\ \A i \in 1..Len(board) : board'[i] = board[i]
      /\ DOMAIN board = 1..Len(board) /\ DOMAIN board' = 1..(Len(board) + 1)
      /\ Len(board) \in Nat
  BY <1>1, <1>4
<1>6. Shaped'
  BY <1>2, <1>5 DEF Shaped
<1>7. Labels' = Labels \cup {l}
  BY <1>3, <1>5 DEF Labels
<1>8. l \in Labels => l \in raced
  BY DEF LabelInv, Outrun, Creates
<1>9. ASSUME NEW q \in Handlers
      PROVE  DueIsTheDay(proc'[q]) /\ Outrun(proc[q])'
  <2>1. CASE q = p
    BY <1>2, <2>1 DEF Idle, DueIsTheDay, Outrun
  <2>2. CASE q # p
    <3>1. proc'[q] = proc[q] /\ DueIsTheDay(proc[q]) /\ Outrun(proc[q])
      BY <1>2, <2>2 DEF LabelInv
    <3>2. ASSUME proc[q].at \in {"read", "checked"}, ~proc[q].exists,
                 proc[q].label \in Labels'
          PROVE  proc[q].label \in raced'
      <4>1. CASE proc[q].label \in Labels
        BY <1>1, <3>1, <3>2, <4>1 DEF Outrun
      <4>2. CASE proc[q].label = l
        BY <1>1, <2>2, <3>2, <4>2 DEF Looked
      <4>. QED BY <1>7, <3>2, <4>1, <4>2
    <3>. QED BY <3>1, <3>2 DEF Outrun
  <2>. QED BY <2>1, <2>2
<1>10. ASSUME NEW i \in DOMAIN board', NEW j \in DOMAIN board', i # j,
              board'[i].label = board'[j].label
       PROVE  board'[i].label \in raced'
  <2>1. CASE i \in 1..Len(board) /\ j \in 1..Len(board)
    BY <1>1, <1>5, <1>10, <2>1 DEF LabelInv, LabelOnce
  <2>2. CASE i = Len(board) + 1 \/ j = Len(board) + 1
    <3>1. PICK k \in 1..Len(board) : board[k].label = l /\ board'[i].label = l
      BY <1>3, <1>5, <1>10, <2>2
    <3>2. l \in Labels
      BY <1>5, <3>1 DEF Labels
    <3>. QED BY <1>1, <1>8, <3>1, <3>2
  <2>. QED BY <1>5, <2>1, <2>2
<1>11. LabelOnce'
  BY <1>10 DEF LabelOnce
<1>12. (\A q \in Handlers : DueIsTheDay(proc[q]))'
  BY <1>9 DEF DueIsTheDay, CadenceLabel
<1>13. (\A q \in Handlers : Outrun(proc[q]))'
  BY <1>9
<1>. QED BY <1>6, <1>11, <1>12, <1>13 DEF LabelInv

-----------------------------------------------------------------------------
(* The steps. *)

\* The fields each handler of the page writes at once.
LEMMA PageOpens ==
  ASSUME NEW D, NEW r \in RowOf(D), NEW a, NEW b, NEW c
  PROVE  /\ [r EXCEPT !.at = a, !.label = b, !.goal = c].at = a
         /\ \E E : [r EXCEPT !.at = a, !.label = b, !.goal = c] \in RowOf(E)
<1>1. r \in RowOf(D \cup {a, b, c})
  BY RowsGrow
<1>2. [r EXCEPT !.at = a, !.label = b, !.goal = c] \in RowOf(D \cup {a, b, c})
  BY <1>1 DEF RowOf
<1>. QED BY <1>2 DEF RowOf

LEMMA PageCalls ==
  ASSUME NEW D, NEW r \in RowOf(D), NEW a, NEW b, NEW c
  PROVE  /\ [r EXCEPT !.at = a, !.det = b, !.seen = c].at = a
         /\ \E E : [r EXCEPT !.at = a, !.det = b, !.seen = c] \in RowOf(E)
<1>1. r \in RowOf(D \cup {a, b, c})
  BY RowsGrow
<1>2. [r EXCEPT !.at = a, !.det = b, !.seen = c] \in RowOf(D \cup {a, b, c})
  BY <1>1 DEF RowOf
<1>. QED BY <1>2 DEF RowOf

LEMMA PageIsCharged ==
  ASSUME NEW D, NEW r \in RowOf(D), NEW a, NEW b
  PROVE  /\ [r EXCEPT !.at = a, !.cost = b].at = a
         /\ \E E : [r EXCEPT !.at = a, !.cost = b] \in RowOf(E)
<1>1. r \in RowOf(D \cup {a, b})
  BY RowsGrow
<1>2. [r EXCEPT !.at = a, !.cost = b] \in RowOf(D \cup {a, b})
  BY <1>1 DEF RowOf
<1>. QED BY <1>2 DEF RowOf

\* A handler that neither looked for a label nor prices a cadence run.
LEMMA AsidePc ==
  ASSUME NEW n, n.at \notin {"priced", "read", "checked"}
  PROVE  DueIsTheDay(n) /\ Outrun(n)
BY DEF DueIsTheDay, Outrun

LEMMA PageKeeps ==
  ASSUME Shaped, LabelInv, NEW p \in Browser,
         \/ \E g \in Goals : OpenPage(p, g)
         \/ AskCalls(p) \/ GatewayAnswers(p) \/ AskGivesUp(p)
         \/ \E a \in Answers : AskReturns(p, a)
  PROVE  Shaped' /\ LabelInv'
<1>. DEFINE r == proc[p]
<1>1. PICK D : proc \in [Handlers -> RowOf(D)]
  BY DEF Shaped
<1>2. p \in Handlers /\ r \in RowOf(D)
  BY <1>1 DEF Handlers
<1>3. PICK I : Idle \in RowOf(I)
  BY IdleRow
<1>4. board' = board /\ raced' = raced
  BY DEF OpenPage, AskCalls, GatewayAnswers, AskGivesUp, AskReturns
<1>5. ASSUME NEW n, proc' = [proc EXCEPT ![p] = n],
             n.at \in {"page", "called", "answered", "shown"}, NEW E, n \in RowOf(E)
      PROVE  Shaped' /\ LabelInv'
  BY <1>2, <1>4, <1>5, AsidePc, QuietKeeps
<1>6. ASSUME NEW b, NEW c,
             proc' = [proc EXCEPT ![p] = [Idle EXCEPT !.at = "page", !.label = b, !.goal = c]]
      PROVE  Shaped' /\ LabelInv'
  <2>. DEFINE n == [Idle EXCEPT !.at = "page", !.label = b, !.goal = c]
  <2>1. n.at = "page" /\ \E E : n \in RowOf(E)
    BY <1>3, PageOpens
  <2>2. proc' = [proc EXCEPT ![p] = n]
    BY <1>6
  <2>. HIDE DEF n
  <2>. QED BY <1>5, <2>1, <2>2
<1>7. CASE \E g \in Goals : OpenPage(p, g)
  BY <1>6, <1>7 DEF OpenPage
<1>8. CASE AskGivesUp(p)
  BY <1>6, <1>8 DEF AskGivesUp
<1>9. CASE AskCalls(p)
  <2>. DEFINE d == ByGuard(ProposeFor(p))
              n == [r EXCEPT !.at = "called", !.det = d, !.seen = world]
  <2>1. proc' = [proc EXCEPT ![p].at = "called", ![p].det = d, ![p].seen = world]
    BY <1>9 DEF AskCalls
  <2>. HIDE DEF d
  <2>2. proc' = [proc EXCEPT ![p] = n]
    BY <1>1, <1>2, <2>1
  <2>3. n.at = "called" /\ \E E : n \in RowOf(E)
    BY <1>2, PageCalls
  <2>. HIDE DEF n
  <2>. QED BY <1>5, <2>2, <2>3
<1>10. CASE GatewayAnswers(p)
  <2>. DEFINE n == [r EXCEPT !.at = "answered", !.cost = AskCost]
  <2>1. proc' = [proc EXCEPT ![p].at = "answered", ![p].cost = AskCost]
    BY <1>10 DEF GatewayAnswers
  <2>2. proc' = [proc EXCEPT ![p] = n]
    BY <1>1, <1>2, <2>1
  <2>3. n.at = "answered" /\ \E E : n \in RowOf(E)
    BY <1>2, PageIsCharged
  <2>. HIDE DEF n
  <2>. QED BY <1>5, <2>2, <2>3
<1>11. ASSUME NEW a \in Answers, AskReturns(p, a)
       PROVE  Shaped' /\ LabelInv'
  <2>1. \/ \E s, m : proc' = [proc EXCEPT ![p] =
               [r EXCEPT !.at = "shown", !.answer = a, !.cost = 0, !.seen = s, !.shown = m]]
        \/ \E b, c : proc' = [proc EXCEPT ![p] =
               [Idle EXCEPT !.at = "page", !.label = b, !.goal = c]]
    BY <1>11 DEF AskReturns
  <2>2. ASSUME NEW s, NEW m, proc' = [proc EXCEPT ![p] =
               [r EXCEPT !.at = "shown", !.answer = a, !.cost = 0, !.seen = s, !.shown = m]]
        PROVE  Shaped' /\ LabelInv'
    <3>. DEFINE n == [r EXCEPT !.at = "shown", !.answer = a, !.cost = 0, !.seen = s, !.shown = m]
    <3>1. n.at = "shown" /\ \E E : n \in RowOf(E)
      <4>1. r \in RowOf(D \cup {"shown", a, 0, s, m})
        BY <1>2, RowsGrow
      <4>2. n \in RowOf(D \cup {"shown", a, 0, s, m})
        BY <4>1 DEF RowOf
      <4>. QED BY <4>2, <1>2 DEF RowOf
    <3>2. proc' = [proc EXCEPT ![p] = n]
      BY <2>2
    <3>. HIDE DEF n
    <3>. QED BY <1>5, <3>1, <3>2
  <2>. QED BY <1>6, <2>1, <2>2
<1>. QED BY <1>7, <1>8, <1>9, <1>10, <1>11

\* What approves: it reads the label, then creates the sprint or does not.
LEMMA ApproveKeeps ==
  ASSUME Shaped, LabelInv, NEW p \in Browser,
         ReadPlan(p) \/ ReadModelPlan(p) \/ Approve(p)
  PROVE  Shaped' /\ LabelInv'
<1>. DEFINE r == proc[p]
<1>1. PICK D : proc \in [Handlers -> RowOf(D)]
  BY DEF Shaped
<1>2. p \in Handlers /\ r \in RowOf(D)
  BY <1>1 DEF Handlers
<1>3. PICK I : Idle \in RowOf(I)
  BY IdleRow
<1>4. ASSUME board' = board, raced' = raced, proc' = [proc EXCEPT ![p] = Idle]
      PROVE  Shaped' /\ LabelInv'
  <2>1. DueIsTheDay(Idle) /\ Outrun(Idle)
    BY DEF Idle, DueIsTheDay, Outrun
  <2>. QED BY <1>2, <1>3, <1>4, <2>1, QuietKeeps
<1>5. ASSUME board' = board, raced' = raced, NEW n, proc' = [proc EXCEPT ![p] = n],
             NEW E, n \in RowOf(E), n.at = "read", n.exists = (n.label \in Labels)
      PROVE  Shaped' /\ LabelInv'
  <2>1. DueIsTheDay(n) /\ Outrun(n)
    BY <1>5 DEF DueIsTheDay, Outrun
  <2>. QED BY <1>2, <1>5, <2>1, QuietKeeps
<1>6. CASE ReadPlan(p)
  <2>. DEFINE i == ProposeFor(p)
              x == r.label \in Labels
              n == [Idle EXCEPT !.at = "read", !.label = r.label, !.items = i, !.exists = x]
  <2>1. board' = board /\ raced' = raced /\ proc' = [proc EXCEPT ![p] = n]
    BY <1>6 DEF ReadPlan
  <2>2. x \in BOOLEAN
    OBVIOUS
  <2>. HIDE DEF i, x
  <2>3. n.at = "read" /\ \E E : n \in RowOf(E)
    <3>1. Idle \in RowOf(I \cup {"read", r.label, i})
      BY <1>3, RowsGrow
    <3>2. n \in RowOf(I \cup {"read", r.label, i})
      BY <2>2, <3>1, ZenonT(60) DEF RowOf
    <3>. QED BY <1>3, <3>2 DEF RowOf
  <2>4. n.label = r.label /\ n.exists = x
    BY <1>3 DEF RowOf
  <2>. HIDE DEF n
  <2>. QED BY <1>5, <2>1, <2>3, <2>4 DEF x
<1>7. CASE ReadModelPlan(p)
  <2>. DEFINE d == ProposeFor(p)
              i == ModelPlanFrom(d, r.answer)
              x == r.label \in Labels
              n == [r EXCEPT !.at = "read", !.det = d, !.items = i, !.exists = x]
  <2>1. /\ board' = board /\ raced' = raced
        /\ proc' = [proc EXCEPT ![p] = n] \/ proc' = [proc EXCEPT ![p] = Idle]
    BY <1>7 DEF ReadModelPlan
  <2>2. x \in BOOLEAN
    OBVIOUS
  <2>. HIDE DEF d, i, x
  <2>3. n.at = "read" /\ \E E : n \in RowOf(E)
    <3>1. r \in RowOf(D \cup {"read", d, i})
      BY <1>2, RowsGrow
    <3>2. n \in RowOf(D \cup {"read", d, i})
      BY <2>2, <3>1, ZenonT(60) DEF RowOf
    <3>. QED BY <1>2, <3>2 DEF RowOf
  <2>4. n.label = r.label /\ n.exists = x
    BY <1>2 DEF RowOf
  <2>. HIDE DEF n
  <2>. QED BY <1>4, <1>5, <2>1, <2>3, <2>4 DEF x
<1>8. CASE Approve(p)
  <2>1. CASE Approvable(p)
    <3>1. Creates(p)
      BY <1>8, <2>1 DEF Approve, Approvable, Creates
    <3>. QED BY <1>2, <3>1, CreateKeeps
  <2>2. CASE ~Approvable(p)
    BY <1>4, <1>8, <2>2 DEF Approve
  <2>. QED BY <2>1, <2>2
<1>. QED BY <1>6, <1>7, <1>8

\* -due: it prices, looks for the label of its day, and creates the sprint.
LEMMA DueKeeps ==
  ASSUME Shaped, LabelInv, NEW p \in Runner, RunnerStep(p)
  PROVE  Shaped' /\ LabelInv'
<1>. DEFINE r == proc[p]
<1>1. PICK D : proc \in [Handlers -> RowOf(D)]
  BY DEF Shaped
<1>2. p \in Handlers /\ r \in RowOf(D)
  BY <1>1 DEF Handlers
<1>3. CASE DuePreflight(p)
  <2>. DEFINE i == CadenceDue(world, Today)
              o == WouldRun(world, i)
              c == EffectiveCeiling(cadence.ceiling)
              n == [Idle EXCEPT !.at = "priced", !.label = CadenceLabel,
                                !.items = i, !.would = o, !.ceiling = c]
  <2>1. board' = board /\ raced' = raced /\ proc' = [proc EXCEPT ![p] = n]
    BY <1>3 DEF DuePreflight
  <2>2. PICK I : Idle \in RowOf(I)
    BY IdleRow
  <2>. DEFINE E == I \cup {"priced", CadenceLabel, i, o, c}
  <2>3. Idle \in RowOf(E)
    BY <2>2, RowsGrow
  <2>4. "priced" \in E /\ CadenceLabel \in E /\ i \in E /\ o \in E /\ c \in E
    OBVIOUS
  <2>a. Idle.exists = FALSE
    BY DEF Idle
  <2>. HIDE DEF E, i, o, c
  <2>5. /\ n \in RowOf(E) /\ n.at = "priced" /\ n.label = CadenceLabel
        /\ n.exists = FALSE
    BY <2>3, <2>4, <2>a DEF RowOf
  <2>. HIDE DEF n
  <2>6. DueIsTheDay(n) /\ Outrun(n)
    BY <2>5 DEF DueIsTheDay, Outrun
  <2>. QED BY <1>2, <2>1, <2>5, <2>6, QuietKeeps
<1>4. CASE DueRechecks(p)
  <2>1. board' = board /\ raced' = raced /\ r.at = "priced"
    BY <1>4 DEF DueRechecks
  <2>2. CASE DueStands(p)
    <3>. DEFINE n == [r EXCEPT !.at = "checked"]
    <3>1. proc' = [proc EXCEPT ![p] = n] /\ CadenceLabel \notin Labels
      BY <1>4, <2>2 DEF DueRechecks, DueStands
    <3>2. r.label = CadenceLabel /\ ~r.exists
      BY <1>2, <2>1 DEF LabelInv, DueIsTheDay
    <3>3. /\ n \in RowOf(D \cup {"checked"}) /\ n.at = "checked"
          /\ n.label = r.label /\ n.exists = r.exists
      BY <1>2, RowWrites DEF RowOf
    <3>. HIDE DEF n
    <3>4. DueIsTheDay(n) /\ Outrun(n)
      BY <3>1, <3>2, <3>3 DEF DueIsTheDay, Outrun
    <3>. QED BY <1>2, <2>1, <3>1, <3>3, <3>4, QuietKeeps
  <2>3. CASE ~DueStands(p)
    <3>1. proc' = [proc EXCEPT ![p] = Idle]
      BY <1>4, <2>3 DEF DueRechecks
    <3>2. DueIsTheDay(Idle) /\ Outrun(Idle)
      BY DEF Idle, DueIsTheDay, Outrun
    <3>. QED BY <1>2, <2>1, <3>1, <3>2, IdleRow, QuietKeeps
  <2>. QED BY <2>2, <2>3
<1>5. CASE DueCreates(p)
  <2>1. r.at = "checked" /\ Materialise(p, p) /\ proc' = [proc EXCEPT ![p] = Idle]
    BY <1>5 DEF DueCreates
  <2>2. ~r.exists
    BY <1>2, <2>1 DEF LabelInv, DueIsTheDay
  <2>3. Creates(p)
    BY <2>1, <2>2 DEF Creates
  <2>. QED BY <1>2, <2>3, CreateKeeps
<1>. QED BY <1>3, <1>4, <1>5 DEF RunnerStep

\* A person changes the switch under the runs that have read it.
LEMMA SwitchKeeps ==
  ASSUME Shaped, LabelInv, NEW on, NEW c, SetCadence(on, c)
  PROVE  Shaped' /\ LabelInv'
<1>1. PICK D : proc \in [Handlers -> RowOf(D)]
  BY DEF Shaped
<1>. DEFINE M == {proc[p].missed \cup {proc[p].at} : p \in Handlers}
            E == D \cup M
<1>2. ASSUME NEW p \in Handlers
      PROVE  /\ proc'[p] \in RowOf(E)
             /\ proc'[p].at = proc[p].at /\ proc'[p].label = proc[p].label
             /\ proc'[p].exists = proc[p].exists
  <2>1. \/ proc'[p] = proc[p]
        \/ proc'[p] = [proc[p] EXCEPT !.missed = proc[p].missed \cup {proc[p].at}]
    BY <1>1 DEF SetCadence
  <2>2. proc[p] \in RowOf(E)
    BY <1>1, RowsGrow
  <2>3. proc[p].missed \cup {proc[p].at} \in E
    OBVIOUS
  <2>. HIDE DEF E
  <2>. QED BY <2>1, <2>2, <2>3 DEF RowOf
<1>3. proc' = [p \in Handlers |-> proc'[p]]
  BY <1>1 DEF SetCadence
<1>4. proc' \in [Handlers -> RowOf(E)]
  BY <1>2, <1>3
<1>5. board' = board /\ raced' = raced
  BY DEF SetCadence
<1>6. Shaped'
  BY <1>4, <1>5 DEF Shaped
<1>7. (\A p \in Handlers : DueIsTheDay(proc[p]) /\ Outrun(proc[p]))'
  BY <1>2, <1>5, ZenonT(60) DEF LabelInv, DueIsTheDay, Outrun, Labels, CadenceLabel
<1>8. LabelOnce'
  BY <1>5 DEF LabelInv, LabelOnce
<1>. QED BY <1>6, <1>7, <1>8 DEF LabelInv

LEMMA LabelNext ==
  ASSUME Shaped, LabelInv, [Next]_vars
  PROVE  Shaped' /\ LabelInv'
<1>1. ASSUME proc' = proc, board' = board, raced' = raced
      PROVE  Shaped' /\ LabelInv'
  <2>1. Shaped'
    BY <1>1 DEF Shaped
  <2>2. (\A p \in Handlers : DueIsTheDay(proc[p]) /\ Outrun(proc[p]))'
    BY <1>1 DEF LabelInv, DueIsTheDay, Outrun, Labels, CadenceLabel
  <2>3. LabelOnce'
    BY <1>1 DEF LabelInv, LabelOnce
  <2>. QED BY <2>1, <2>2, <2>3 DEF LabelInv
<1>2. CASE UNCHANGED vars
  BY <1>1, <1>2 DEF vars
<1>3. CASE WorldMoves
  BY <1>1, <1>3 DEF WorldMoves
<1>4. ASSUME NEW p \in Browser, BrowserStep(p) PROVE Shaped' /\ LabelInv'
  <2>1. CASE AskRefused(p)
    BY <1>1, <2>1 DEF AskRefused
  <2>2. CASE ReadPlan(p) \/ ReadModelPlan(p) \/ Approve(p)
    BY <2>2, ApproveKeeps
  <2>3. CASE ~AskRefused(p) /\ ~(ReadPlan(p) \/ ReadModelPlan(p) \/ Approve(p))
    BY <1>4, <2>3, PageKeeps DEF BrowserStep
  <2>. QED BY <2>1, <2>2, <2>3
<1>5. ASSUME NEW p \in Runner, RunnerStep(p) PROVE Shaped' /\ LabelInv'
  BY <1>5, DueKeeps
<1>6. ASSUME NEW on \in BOOLEAN, NEW c \in Ceilings, SetCadence(on, c)
      PROVE  Shaped' /\ LabelInv'
  BY <1>6, SwitchKeeps
<1>. QED BY <1>2, <1>3, <1>4, <1>5, <1>6 DEF Next

LEMMA LabelInit == Init => Shaped /\ LabelInv
<1>. SUFFICES ASSUME Init PROVE Shaped /\ LabelInv
  OBVIOUS
<1>1. proc = [p \in Handlers |-> Idle] /\ board = <<>>
  BY DEF Init, Handlers
<1>2. \E D : proc \in [Handlers -> RowOf(D)]
  BY <1>1, IdleRow
<1>3. \E S : board \in Seq(S)
  <2>1. board \in Seq({})
    BY <1>1
  <2>. QED BY <2>1
<1>4. \A p \in Handlers : DueIsTheDay(proc[p]) /\ Outrun(proc[p])
  BY <1>1 DEF Idle, DueIsTheDay, Outrun
<1>5. LabelOnce
  BY <1>1 DEF LabelOnce
<1>. QED BY <1>2, <1>3, <1>4, <1>5 DEF Shaped, LabelInv

\* No label is on the board twice, unless two creators raced for it: neither a
\* second click on a page left open nor a second -due of the day doubles a
\* sprint (Approve's Existing, dueExecute's lookup).
THEOREM PlanningLabelOnce == Spec => []LabelOnce
<1>1. Init => Shaped /\ LabelInv
  BY LabelInit
<1>2. Shaped /\ LabelInv /\ [Next]_vars => Shaped' /\ LabelInv'
  BY LabelNext
<1>3. LabelInv => LabelOnce
  BY DEF LabelInv
<1>. QED BY <1>1, <1>2, <1>3, PTL DEF Spec

-----------------------------------------------------------------------------
(* Lists in an order: the k-th element is the one k - 1 others are before. *)

Before(R, S, x) == {y \in S : <<y, x>> \in R}
Orders(R, S) ==
  /\ \A x \in S : <<x, x>> \notin R
  /\ \A x, y \in S : x # y => <<x, y>> \in R \/ <<y, x>> \in R
  /\ \A x, y, z \in S : <<x, y>> \in R /\ <<y, z>> \in R => <<x, z>> \in R
ByRanks(F, R, S) ==
  /\ DOMAIN F = 1..Cardinality(S)
  /\ \A k \in DOMAIN F :
       (\E x \in S : Cardinality(Before(R, S, x)) = k - 1)
         => F[k] \in S /\ Cardinality(Before(R, S, F[k])) = k - 1

\* A strict total order of a finite set gives every rank to one element.
LEMMA Ranks ==
  ASSUME NEW S, IsFiniteSet(S), NEW R, Orders(R, S)
  PROVE  /\ Cardinality(S) \in Nat
         /\ \A k \in 1..Cardinality(S) : \E x \in S : Cardinality(Before(R, S, x)) = k - 1
         /\ \A x, y \in S : Cardinality(Before(R, S, x)) = Cardinality(Before(R, S, y)) => x = y
<1> DEFINE n == Cardinality(S)
           rank == [x \in S |-> Cardinality(Before(R, S, x))]
<1>1. n \in Nat
  BY FS_CardinalityType
<1>2. ASSUME NEW x \in S
      PROVE  /\ IsFiniteSet(Before(R, S, x)) /\ Cardinality(Before(R, S, x)) \in Nat
             /\ Cardinality(Before(R, S, x)) <= n - 1
  <2>1. Before(R, S, x) \in SUBSET (S \ {x})
    BY DEF Before, Orders
  <2>2. IsFiniteSet(S \ {x}) /\ Cardinality(S \ {x}) = n - 1
    BY FS_RemoveElement
  <2>3. IsFiniteSet(Before(R, S, x)) /\ Cardinality(Before(R, S, x)) <= n - 1
    BY <2>1, <2>2, FS_Subset
  <2> QED
    BY <2>3, FS_CardinalityType
<1>3. ASSUME NEW x \in S, NEW y \in S, <<x, y>> \in R
      PROVE  Cardinality(Before(R, S, x)) < Cardinality(Before(R, S, y))
  <2>1. Before(R, S, x) \cup {x} \in SUBSET Before(R, S, y) /\ x \notin Before(R, S, x)
    BY <1>3 DEF Before, Orders
  <2>2. Cardinality(Before(R, S, x) \cup {x}) = Cardinality(Before(R, S, x)) + 1
    BY <1>2, <2>1, FS_AddElement
  <2>3. Cardinality(Before(R, S, x) \cup {x}) <= Cardinality(Before(R, S, y))
    BY <1>2, <2>1, FS_Subset
  <2> QED
    BY <1>2, <2>2, <2>3
<1>4. \A x, y \in S : Cardinality(Before(R, S, x)) = Cardinality(Before(R, S, y)) => x = y
  <2> SUFFICES ASSUME NEW x \in S, NEW y \in S, x # y
               PROVE  Cardinality(Before(R, S, x)) # Cardinality(Before(R, S, y))
    OBVIOUS
  <2>1. Cardinality(Before(R, S, x)) \in Nat /\ Cardinality(Before(R, S, y)) \in Nat
    BY <1>2
  <2>2. <<x, y>> \in R \/ <<y, x>> \in R
    BY DEF Orders
  <2> QED
    BY <1>3, <2>1, <2>2
<1>5. ASSUME NEW k \in 1..n PROVE \E x \in S : Cardinality(Before(R, S, x)) = k - 1
  <2>1. rank \in [S -> 0..(n - 1)]
    BY <1>1, <1>2
  <2>2. rank \in Injection(S, 0..(n - 1))
    BY <1>4, <2>1, Fun_IsInj
  <2>3. IsFiniteSet(0..(n - 1)) /\ Cardinality(0..(n - 1)) = n
    <3>1. 0 \in Int /\ n - 1 \in Int
      BY <1>1
    <3>2. IsFiniteSet(0..(n - 1))
          /\ Cardinality(0..(n - 1)) = IF 0 > n - 1 THEN 0 ELSE (n - 1) - 0 + 1
      BY <3>1, FS_Interval
    <3> HIDE DEF n
    <3> QED
      BY <1>1, <3>2
  <2>4. rank \in Surjection(S, 0..(n - 1))
    BY <2>2, <2>3, FS_Injection
  <2>5. k - 1 \in 0..(n - 1)
    BY <1>1
  <2>6. PICK x \in S : rank[x] = k - 1
    BY <2>4, <2>5 DEF Surjection
  <2> QED
    BY <2>6
<1> QED
  BY <1>1, <1>4, <1>5

\* So does a list that takes its elements by rank.
LEMMA Listed ==
  ASSUME NEW S, IsFiniteSet(S), NEW R, Orders(R, S),
         NEW F, ByRanks(F, R, S)
  PROVE  /\ Cardinality(S) \in Nat
         /\ \A k \in 1..Cardinality(S) : F[k] \in S
         /\ \A k, j \in 1..Cardinality(S) : F[k] = F[j] => k = j
         /\ {F[k] : k \in 1..Cardinality(S)} = S
<1> DEFINE n == Cardinality(S)
<1>1. n \in Nat /\ \A k \in 1..n : F[k] \in S /\ Cardinality(Before(R, S, F[k])) = k - 1
  BY Ranks DEF ByRanks
<1>2. \A k, j \in 1..n : F[k] = F[j] => k = j
  BY <1>1
<1>3. {F[k] : k \in 1..n} = S
  <2> DEFINE T == {F[k] : k \in 1..n}
             g == [k \in 1..n |-> F[k]]
  <2>1. T \in SUBSET S
    BY <1>1
  <2>2. g \in Surjection(1..n, T)
    BY DEF Surjection
  <2>3. g \in Injection(1..n, T)
    BY <1>2, <2>2, Fun_IsInj DEF Surjection
  <2>4. IsFiniteSet(1..n) /\ Cardinality(1..n) = n
    BY <1>1, FS_Interval
  <2>5. Cardinality(T) = n
    BY <2>2, <2>3, <2>4, FS_Surjection
  <2> QED
    BY <2>1, <2>5, FS_Subset
<1> QED
  BY <1>1, <1>2, <1>3

\* Somebody is first: nothing is before it.
LEMMA FirstRank ==
  ASSUME NEW S, IsFiniteSet(S), S # {}, NEW R, Orders(R, S)
  PROVE  \E x \in S : Before(R, S, x) = {}
<1>1. Cardinality(S) \in Nat
      /\ \A k \in 1..Cardinality(S) : \E x \in S : Cardinality(Before(R, S, x)) = k - 1
  BY Ranks
<1>2. Cardinality(S) # 0
  BY FS_CardinalityType, FS_EmptySet
<1>3. PICK x \in S : Cardinality(Before(R, S, x)) = 1 - 1
  <2>1. 1 \in 1..Cardinality(S)
    BY <1>1, <1>2
  <2> QED
    BY <1>1, <2>1
<1>4. Before(R, S, x) \in SUBSET S
  BY DEF Before
<1> QED
  BY <1>3, <1>4, FS_Subset, FS_EmptySet

-----------------------------------------------------------------------------
(* What a plan is made of. *)

Job == ({"anomaly"} \X Anomaly) \cup ({"blocked"} \X Task) \cup ({"cadence"} \X Analyst)
       \cup ({"halted"} \X Desk) \cup ({"returned"} \X Task) \cup ({"request"} \X Request)
       \cup {<<"goal">>}

\* An item whose guard is in B: a proposal's is never negative, a model may
\* write any number under it.
ItemOf(B) == [who : Names, desk : Desk \cup {Management}, budget : B,
              skill : Skill \cup {NoSkill}, job : Job]
Item == ItemOf(Nat)

LEMMA ItemsAreItems == Item \subseteq ItemOf(Int) /\ Seq(Item) \subseteq Seq(ItemOf(Int))
<1>1. Item \subseteq ItemOf(Int)
  BY DEF Item, ItemOf
<1> QED
  BY <1>1

LEMMA WhoIsWho ==
  ASSUME NEW w \in World
  PROVE  /\ Active(w) \subseteq OnRoster(w) /\ OnRoster(w) \subseteq Analyst
         /\ Analyst \subseteq Names /\ Supervisor \in Names
         /\ \A a \in Analyst : Headroom(w, a) \in Int
<1>1. Supervisor \in Analyst /\ \A a \in Analyst : Brief[a].monthly \in Nat
  BY PlanAssumption
<1>2. \A a \in Analyst : w.spent[a] \in Nat
  BY DEF World
<1> QED
  BY <1>1, <1>2 DEF Active, OnRoster, Names, Headroom

LEMMA SupervisorTyped == ASSUME NEW job \in Job PROVE ToSupervisor(job) \in Item
<1>1. Supervisor \in Names
  BY PlanAssumption DEF Names
<1> QED
  BY <1>1 DEF ToSupervisor, Item, ItemOf

LEMMA AnalystTyped ==
  ASSUME NEW a \in Analyst, NEW desk \in Desk \cup {Management},
         NEW skill \in Skill \cup {NoSkill}, NEW job \in Job
  PROVE  ToAnalyst(a, desk, skill, job) \in Item
<1>1. a \in Names /\ Brief[a].perTask \in Nat
  BY PlanAssumption DEF Names
<1> QED
  BY <1>1 DEF ToAnalyst, Item, ItemOf

-----------------------------------------------------------------------------
(* Routing. *)

\* The preference among analysts, as a set of pairs.
Prefer(w, engine, V) == {e \in V \X V : Ahead(w, engine, e[1], e[2])}

\* Some analyst is ahead of all the others.
LEMMA Chosen ==
  ASSUME NEW w \in World, NEW candidates, candidates \subseteq Analyst, NEW engine,
         Viable(w, candidates) # {}
  PROVE  ChooseAnalyst(w, candidates, engine) \in Viable(w, candidates)
<1> DEFINE V == Viable(w, candidates)
           R == Prefer(w, engine, V)
<1>1. V \subseteq Analyst /\ IsFiniteSet(V) /\ V \subseteq Nat
  <2>1. V \in SUBSET Analyst /\ IsFiniteSet(Analyst) /\ Analyst \subseteq Nat
    BY PlanAssumption DEF Viable
  <2> HIDE DEF V
  <2> QED
    BY <2>1, FS_Subset
<1>2. \A a \in V : Headroom(w, a) \in Int /\ a \in Nat
  BY <1>1, WhoIsWho
<1>3. \A a, b \in V : <<a, b>> \in R <=> Ahead(w, engine, a, b)
  BY DEF Prefer
<1> DEFINE fits(a) == engine # NoEngine /\ Brief[a].engine = engine
<1>4. \A a, b \in V : Ahead(w, engine, a, b) <=>
        \/ fits(a) /\ ~fits(b)
        \/ /\ fits(a) <=> fits(b)
           /\ \/ Headroom(w, a) > Headroom(w, b)
              \/ Headroom(w, a) = Headroom(w, b) /\ a < b
  BY DEF Ahead
<1> HIDE DEF V, R, fits
<1>5. \A x \in V : <<x, x>> \notin R
  BY <1>2, <1>3, <1>4
<1>6. \A x, y \in V : x # y => <<x, y>> \in R \/ <<y, x>> \in R
  BY <1>2, <1>3, <1>4
<1>7. \A x, y, z \in V : <<x, y>> \in R /\ <<y, z>> \in R => <<x, z>> \in R
  BY <1>2, <1>3, <1>4
<1>8. PICK x \in V : Before(R, V, x) = {}
  <2>1. Orders(R, V)
    BY <1>5, <1>6, <1>7 DEF Orders
  <2>2. V # {}
    BY DEF V
  <2> QED
    BY <1>1, <2>1, <2>2, FirstRank
<1>9. \A b \in V \ {x} : Ahead(w, engine, x, b)
  BY <1>3, <1>6, <1>8 DEF Before
<1> QED
  BY <1>9 DEF ChooseAnalyst, V

LEMMA RoutedTyped ==
  ASSUME NEW w \in World, NEW candidates, candidates \subseteq Analyst, NEW engine,
         NEW skill \in Skill \cup {NoSkill}, NEW job \in Job
  PROVE  RoutedItem(w, candidates, engine, skill, job) \in Item
<1> DEFINE a == ChooseAnalyst(w, candidates, engine)
<1>1. CASE Viable(w, candidates) = {}
  BY <1>1, SupervisorTyped DEF RoutedItem
<1>2. CASE Viable(w, candidates) # {}
  <2>1. a \in Analyst
    BY <1>2, Chosen DEF Viable
  <2>2. Brief[a].desk \in Desk \cup {Management}
    BY <2>1, PlanAssumption
  <2>3. RoutedItem(w, candidates, engine, skill, job) = ToAnalyst(a, Brief[a].desk, skill, job)
    BY <1>2 DEF RoutedItem
  <2> HIDE DEF a
  <2> QED
    BY <2>1, <2>2, <2>3, AnalystTyped
<1> QED
  BY <1>1, <1>2

LEMMA AnomalyTyped == ASSUME NEW w \in World, NEW x \in Anomaly PROVE AnomalyItem(w, x) \in Item
<1> DEFINE job == <<"anomaly", x>>
           candidates == CandidatesWithSkill(w, TriageSkill, {Source[x]})
           named == Triage[Source[x]]
<1>1. Source[x] \in Desk /\ TriageSkill \in Skill /\ FlatGuard \in Nat
  BY PlanAssumption
<1>2. job \in Job /\ candidates \subseteq Analyst /\ named \in Names
  BY <1>1 DEF Job, CandidatesWithSkill, Active, Names
<1>3. CASE Cardinality(candidates) > 1
  <2>1. AnomalyItem(w, x) = RoutedItem(w, candidates, Prefers[TriageSkill], TriageSkill, job)
    BY <1>3 DEF AnomalyItem
  <2> HIDE DEF job, candidates
  <2> QED
    BY <1>1, <1>2, <2>1, RoutedTyped
<1>4. CASE ~(Cardinality(candidates) > 1) /\ named \in OnRoster(w)
  <2>1. AnomalyItem(w, x) = ToAnalyst(named, Source[x], TriageSkill, job)
    BY <1>4 DEF AnomalyItem
  <2>2. named \in Analyst
    BY <1>4, WhoIsWho
  <2> HIDE DEF job, named
  <2> QED
    BY <1>1, <1>2, <2>1, <2>2, AnalystTyped
<1>5. CASE ~(Cardinality(candidates) > 1) /\ named \notin OnRoster(w)
  <2>1. AnomalyItem(w, x) = [who |-> named, desk |-> Source[x], budget |-> FlatGuard,
                             skill |-> TriageSkill, job |-> job]
    BY <1>5 DEF AnomalyItem
  <2> HIDE DEF job, named
  <2> QED
    BY <1>1, <1>2, <2>1 DEF Item, ItemOf
<1> QED
  BY <1>3, <1>4, <1>5

-----------------------------------------------------------------------------
(* The lists a proposal is put together from. *)

\* What maps a list is a list as long.
LEMMA MappedTyped ==
  ASSUME NEW S, NEW T, NEW s \in Seq(S), NEW m, m = [k \in DOMAIN s |-> m[k]],
         \A k \in DOMAIN s : m[k] \in T
  PROVE  m \in Seq(T) /\ Len(m) = Len(s) /\ DOMAIN m = DOMAIN s
<1>1. DOMAIN s = 1..Len(s) /\ Len(s) \in Nat
  OBVIOUS
<1>2. m \in [1..Len(s) -> T]
  BY <1>1
<1> QED
  BY <1>1, <1>2

LEMMA FirstTyped ==
  ASSUME NEW S, NEW s \in Seq(S), NEW n \in Nat
  PROVE  FirstOf(n, s) \in Seq(S)
<1> DEFINE m == IF Len(s) < n THEN Len(s) ELSE n
<1>1. m \in Nat /\ m <= Len(s)
  OBVIOUS
<1>2. \A i \in 1..m : s[i] \in S
  BY <1>1
<1> HIDE DEF m
<1>3. SubSeq(s, 1, m) \in Seq(S)
  BY <1>1, <1>2
<1> QED
  BY <1>3 DEF FirstOf, m

LEMMA ByRank ==
  ASSUME NEW S, NEW n \in Nat, NEW F, F = [k \in 1..n |-> F[k]], \A k \in 1..n : F[k] \in S
  PROVE  F \in Seq(S)
<1>1. F \in [1..n -> S]
  OBVIOUS
<1> QED
  BY <1>1

LEMMA AscendingTyped ==
  ASSUME NEW S, S \subseteq Nat, IsFiniteSet(S)
  PROVE  Ascending(S) \in Seq(S)
<1> DEFINE R == {e \in S \X S : e[1] < e[2]}
           F == Ascending(S)
           n == Cardinality(S)
<1>1. F = [k \in 1..n |-> CHOOSE x \in S : Cardinality({y \in S : y < x}) = k - 1]
  BY DEF Ascending, InOrder
<1>2. \A x \in S : Before(R, S, x) = {y \in S : y < x}
  BY DEF Before
<1>3. \A x, y \in S : <<x, y>> \in R <=> x < y
  OBVIOUS
<1>4. ASSUME NEW k \in 1..n, \E x \in S : Cardinality(Before(R, S, x)) = k - 1
      PROVE  F[k] \in S /\ Cardinality(Before(R, S, F[k])) = k - 1
  <2>1. \E x \in S : Cardinality({y \in S : y < x}) = k - 1
    BY <1>2, <1>4
  <2>2. F[k] = CHOOSE x \in S : Cardinality({y \in S : y < x}) = k - 1
    BY <1>1
  <2>3. F[k] \in S /\ Cardinality({y \in S : y < F[k]}) = k - 1
    BY <2>1, <2>2
  <2> QED
    BY <1>2, <2>3
<1>5. DOMAIN F = 1..n /\ F = [k \in 1..n |-> F[k]]
  BY <1>1
<1>6. /\ \A x \in S : <<x, x>> \notin R
      /\ \A x, y \in S : x # y => <<x, y>> \in R \/ <<y, x>> \in R
      /\ \A x, y, z \in S : <<x, y>> \in R /\ <<y, z>> \in R => <<x, z>> \in R
  BY <1>3
<1> HIDE DEF F, R
<1>7. n \in Nat /\ \A k \in 1..n : F[k] \in S
  <2>1. Orders(R, S) /\ ByRanks(F, R, S)
    BY <1>4, <1>5, <1>6 DEF Orders, ByRanks
  <2> QED
    BY <2>1, Listed
<1>8. F \in Seq(S)
  BY <1>5, <1>7, ByRank
<1> QED
  BY <1>8 DEF F

\* The open anomalies, the largest first.
LEMMA BiggerTyped ==
  ASSUME NEW S, S \subseteq Anomaly
  PROVE  InOrder(S, LAMBDA x, y : Size[x] > Size[y] \/ (Size[x] = Size[y] /\ x < y)) \in Seq(S)
<1> DEFINE bigger(x, y) == Size[x] > Size[y] \/ (Size[x] = Size[y] /\ x < y)
           R == {e \in S \X S : bigger(e[1], e[2])}
           F == InOrder(S, bigger)
           n == Cardinality(S)
<1>0. IsFiniteSet(S) /\ \A x \in S : x \in Nat /\ Size[x] \in Nat
  BY PlanAssumption, FS_Subset
<1>1. F = [k \in 1..n |-> CHOOSE x \in S : Cardinality({y \in S : bigger(y, x)}) = k - 1]
  BY DEF InOrder
<1>2. \A x \in S : Before(R, S, x) = {y \in S : bigger(y, x)}
  BY DEF Before
<1>3. \A x, y \in S : <<x, y>> \in R <=> bigger(x, y)
  OBVIOUS
<1>4. ASSUME NEW k \in 1..n, \E x \in S : Cardinality(Before(R, S, x)) = k - 1
      PROVE  F[k] \in S /\ Cardinality(Before(R, S, F[k])) = k - 1
  <2>1. \E x \in S : Cardinality({y \in S : bigger(y, x)}) = k - 1
    BY <1>2, <1>4
  <2>2. F[k] = CHOOSE x \in S : Cardinality({y \in S : bigger(y, x)}) = k - 1
    BY <1>1
  <2>3. F[k] \in S /\ Cardinality({y \in S : bigger(y, F[k])}) = k - 1
    BY <2>1, <2>2
  <2> QED
    BY <1>2, <2>3
<1>5. DOMAIN F = 1..n /\ F = [k \in 1..n |-> F[k]]
  BY <1>1
<1>6. /\ \A x \in S : <<x, x>> \notin R
      /\ \A x, y \in S : x # y => <<x, y>> \in R \/ <<y, x>> \in R
      /\ \A x, y, z \in S : <<x, y>> \in R /\ <<y, z>> \in R => <<x, z>> \in R
  BY <1>0, <1>3
<1> HIDE DEF F, R
<1>7. n \in Nat /\ \A k \in 1..n : F[k] \in S
  <2>1. Orders(R, S) /\ ByRanks(F, R, S)
    BY <1>4, <1>5, <1>6 DEF Orders, ByRanks
  <2> QED
    BY <1>0, <2>1, Listed
<1>8. F \in Seq(S)
  BY <1>5, <1>7, ByRank
<1> QED
  BY <1>8 DEF F

\* The blocked tasks, the newest first.
LEMMA DescendingTyped ==
  ASSUME NEW S, S \subseteq Nat, IsFiniteSet(S)
  PROVE  InOrder(S, >) \in Seq(S)
<1> DEFINE R == {e \in S \X S : e[1] > e[2]}
           F == InOrder(S, >)
           n == Cardinality(S)
<1>1. F = [k \in 1..n |-> CHOOSE x \in S : Cardinality({y \in S : y > x}) = k - 1]
  BY DEF InOrder
<1>2. \A x \in S : Before(R, S, x) = {y \in S : y > x}
  BY DEF Before
<1>3. \A x, y \in S : <<x, y>> \in R <=> x > y
  OBVIOUS
<1>4. ASSUME NEW k \in 1..n, \E x \in S : Cardinality(Before(R, S, x)) = k - 1
      PROVE  F[k] \in S /\ Cardinality(Before(R, S, F[k])) = k - 1
  <2>1. \E x \in S : Cardinality({y \in S : y > x}) = k - 1
    BY <1>2, <1>4
  <2>2. F[k] = CHOOSE x \in S : Cardinality({y \in S : y > x}) = k - 1
    BY <1>1
  <2>3. F[k] \in S /\ Cardinality({y \in S : y > F[k]}) = k - 1
    BY <2>1, <2>2
  <2> QED
    BY <1>2, <2>3
<1>5. DOMAIN F = 1..n /\ F = [k \in 1..n |-> F[k]]
  BY <1>1
<1>6. /\ \A x \in S : <<x, x>> \notin R
      /\ \A x, y \in S : x # y => <<x, y>> \in R \/ <<y, x>> \in R
      /\ \A x, y, z \in S : <<x, y>> \in R /\ <<y, z>> \in R => <<x, z>> \in R
  BY <1>3
<1> HIDE DEF F, R
<1>7. n \in Nat /\ \A k \in 1..n : F[k] \in S
  <2>1. Orders(R, S) /\ ByRanks(F, R, S)
    BY <1>4, <1>5, <1>6 DEF Orders, ByRanks
  <2> QED
    BY <2>1, Listed
<1>8. F \in Seq(S)
  BY <1>5, <1>7, ByRank
<1> QED
  BY <1>8 DEF F

\* A finite set is put in some order.
LEMMA SetListed ==
  ASSUME NEW S, IsFiniteSet(S)
  PROVE  SetToSeq(S) \in Seq(S)
<1>1. Cardinality(S) \in Nat /\ ExistsBijection(1..Cardinality(S), S)
  BY FS_CardinalityType
<1>2. \E f \in [1..Cardinality(S) -> S] : IsInjective(f)
  BY <1>1 DEF ExistsBijection, Bijection, Injection
<1>3. SetToSeq(S) \in [1..Cardinality(S) -> S]
  BY <1>2 DEF SetToSeq
<1> QED
  BY <1>1, <1>3

-----------------------------------------------------------------------------
(* A proposal is made of items. *)

LEMMA AnomaliesTyped == ASSUME NEW w \in World PROVE ProposeAnomalies(w) \in Seq(Item)
<1> DEFINE bigger(x, y) == Size[x] > Size[y] \/ (Size[x] = Size[y] /\ x < y)
           s == FirstOf(AnomalyLimit, InOrder(w.open, bigger))
<1>1. w.open \subseteq Anomaly /\ AnomalyLimit \in Nat
  BY PlanAssumption DEF World
<1>2. s \in Seq(w.open)
  BY <1>1, BiggerTyped, FirstTyped
<1>3. ProposeAnomalies(w) = [k \in DOMAIN s |-> AnomalyItem(w, s[k])]
  BY DEF ProposeAnomalies, Map
<1> HIDE DEF s
<1>4. \A k \in DOMAIN s : s[k] \in w.open
  BY <1>2
<1>5. \A k \in DOMAIN s : ProposeAnomalies(w)[k] \in Item
  BY <1>1, <1>3, <1>4, AnomalyTyped
<1>6. ProposeAnomalies(w) = [k \in DOMAIN s |-> ProposeAnomalies(w)[k]]
  BY <1>3
<1> QED
  BY <1>2, <1>5, <1>6, MappedTyped

LEMMA BlockedTyped == ASSUME NEW w \in World PROVE ProposeBlocked(w) \in Seq(Item)
<1> DEFINE s == FirstOf(BlockedLimit, InOrder(w.blocked, >))
           row(t) == [who |-> Holder[t], desk |-> Home[t], budget |-> ReworkGuard,
                      skill |-> NoSkill, job |-> <<"blocked", t>>]
<1>1. w.blocked \subseteq Task /\ IsFiniteSet(w.blocked) /\ w.blocked \subseteq Nat
      /\ BlockedLimit \in Nat
  <2>1. w.blocked \in SUBSET Task
    BY DEF World
  <2> QED
    BY <2>1, PlanAssumption, FS_Subset
<1>2. s \in Seq(w.blocked)
  BY <1>1, DescendingTyped, FirstTyped
<1>3. ProposeBlocked(w) = [k \in DOMAIN s |-> row(s[k])]
  BY DEF ProposeBlocked, Map
<1>4. ASSUME NEW t \in Task PROVE row(t) \in Item
  <2>1. Holder[t] \in Names /\ Home[t] \in Desk /\ ReworkGuard \in Nat
    BY PlanAssumption DEF Names
  <2>2. <<"blocked", t>> \in Job
    BY DEF Job
  <2> QED
    BY <2>1, <2>2 DEF Item, ItemOf
<1> HIDE DEF s, row
<1>5. \A k \in DOMAIN s : s[k] \in Task
  BY <1>1, <1>2
<1>6. \A k \in DOMAIN s : ProposeBlocked(w)[k] \in Item
  BY <1>3, <1>4, <1>5
<1>7. ProposeBlocked(w) = [k \in DOMAIN s |-> ProposeBlocked(w)[k]]
  BY <1>3
<1> QED
  BY <1>2, <1>6, <1>7, MappedTyped

LEMMA CadenceTyped == ASSUME NEW w \in World, NEW day PROVE CadenceDue(w, day) \in Seq(Item)
<1> DEFINE due == {a \in Active(w) : IsDue(w, a, day)}
           item(a) == IF Headroom(w, a) <= 0 THEN ToSupervisor(<<"cadence", a>>)
                      ELSE ToAnalyst(a, Brief[a].desk, NoSkill, <<"cadence", a>>)
           s == SetToSeq(w.halted)
           d == Ascending(due)
           F == [k \in DOMAIN s |-> ToSupervisor(<<"halted", s[k]>>)]
           G == [k \in DOMAIN d |-> item(d[k])]
<1>1. w.halted \subseteq Desk /\ IsFiniteSet(w.halted)
  <2>1. w.halted \in SUBSET Desk
    BY DEF World
  <2> QED
    BY <2>1, PlanAssumption, FS_Subset
<1>2. due \subseteq Analyst /\ IsFiniteSet(due) /\ due \subseteq Nat
  <2>1. due \in SUBSET Analyst
    BY DEF Active
  <2> HIDE DEF due
  <2> QED
    BY <2>1, PlanAssumption, FS_Subset
<1>3. CadenceDue(w, day) = F \o G
  BY DEF CadenceDue, Map
<1>4. s \in Seq(w.halted)
  BY <1>1, SetListed
<1>5. d \in Seq(due)
  <2> HIDE DEF due
  <2> QED BY <1>2, AscendingTyped
<1>6. ASSUME NEW a \in Analyst PROVE item(a) \in Item
  <2>1. <<"cadence", a>> \in Job /\ Brief[a].desk \in Desk \cup {Management}
    BY PlanAssumption DEF Job
  <2> QED
    BY <2>1, SupervisorTyped, AnalystTyped
<1>7. ASSUME NEW e \in Desk PROVE ToSupervisor(<<"halted", e>>) \in Item
  <2>1. <<"halted", e>> \in Job
    BY DEF Job
  <2> QED
    BY <2>1, SupervisorTyped
<1> HIDE DEF due, item, s, d
<1>8. F \in Seq(Item)
  <2>1. \A k \in DOMAIN s : s[k] \in Desk
    BY <1>1, <1>4
  <2>2. \A k \in DOMAIN s : F[k] \in Item
    BY <1>7, <2>1
  <2>3. F = [k \in DOMAIN s |-> F[k]]
    OBVIOUS
  <2> HIDE DEF F
  <2> QED
    BY <1>4, <2>2, <2>3, MappedTyped
<1>9. G \in Seq(Item)
  <2>0. \A k \in DOMAIN d : d[k] \in due
    BY <1>5
  <2>1. \A k \in DOMAIN d : d[k] \in Analyst
    BY <1>2, <2>0
  <2>2. \A k \in DOMAIN d : G[k] \in Item
    BY <1>6, <2>1
  <2>3. G = [k \in DOMAIN d |-> G[k]]
    OBVIOUS
  <2> HIDE DEF G
  <2> QED
    BY <1>5, <2>2, <2>3, MappedTyped
<1> HIDE DEF F, G
<1> QED
  BY <1>3, <1>8, <1>9

LEMMA ReturnedTyped == ASSUME NEW w \in World PROVE ProposeReturned(w) \in Seq(Item)
<1> DEFINE item(t) == IF Holder[t] \in Active(w) /\ Headroom(w, Holder[t]) > 0
                      THEN ToAnalyst(Holder[t], Home[t], NoSkill, <<"returned", t>>)
                      ELSE ToSupervisor(<<"returned", t>>)
           s == Ascending(w.returned)
           F == [k \in DOMAIN s |-> item(s[k])]
<1>1. w.returned \subseteq Task /\ IsFiniteSet(w.returned) /\ w.returned \subseteq Nat
  <2>1. w.returned \in SUBSET Task
    BY DEF World
  <2> QED
    BY <2>1, PlanAssumption, FS_Subset
<1>2. s \in Seq(w.returned)
  BY <1>1, AscendingTyped
<1>3. ProposeReturned(w) = F
  BY DEF ProposeReturned, Map
<1>4. ASSUME NEW t \in Task PROVE item(t) \in Item
  <2>1. <<"returned", t>> \in Job /\ Holder[t] \in Analyst /\ Home[t] \in Desk \cup {Management}
    BY PlanAssumption DEF Job
  <2> QED
    BY <2>1, SupervisorTyped, AnalystTyped
<1> HIDE DEF item, s
<1>5. \A k \in DOMAIN s : s[k] \in w.returned
  BY <1>2
<1>6. \A k \in DOMAIN s : F[k] \in Item
  BY <1>1, <1>4, <1>5
<1>7. F = [k \in DOMAIN s |-> F[k]]
  OBVIOUS
<1> HIDE DEF F
<1> QED
  BY <1>2, <1>3, <1>6, <1>7, MappedTyped

LEMMA RequestsTyped == ASSUME NEW w \in World PROVE ProposeRequests(w) \in Seq(Item)
<1> DEFINE s == Ascending(w.carried)
           F == [k \in DOMAIN s |-> ToSupervisor(<<"request", s[k]>>)]
<1>1. w.carried \subseteq Request /\ IsFiniteSet(w.carried) /\ w.carried \subseteq Nat
  <2>1. w.carried \in SUBSET Request
    BY DEF World
  <2> QED
    BY <2>1, PlanAssumption, FS_Subset
<1>2. s \in Seq(w.carried)
  BY <1>1, AscendingTyped
<1>3. ProposeRequests(w) = F
  BY DEF ProposeRequests, Map
<1>4. ASSUME NEW r \in Request PROVE ToSupervisor(<<"request", r>>) \in Item
  <2>1. <<"request", r>> \in Job
    BY DEF Job
  <2> QED
    BY <2>1, SupervisorTyped
<1> HIDE DEF s
<1>5. \A k \in DOMAIN s : s[k] \in w.carried
  BY <1>2
<1>6. \A k \in DOMAIN s : F[k] \in Item
  BY <1>1, <1>4, <1>5
<1>7. F = [k \in DOMAIN s |-> F[k]]
  OBVIOUS
<1> HIDE DEF F
<1> QED
  BY <1>2, <1>3, <1>6, <1>7, MappedTyped

\* What somebody typed, or nothing.
GoalsOrNone == Goals \cup {NoGoal}

LEMMA GoalTyped ==
  ASSUME NEW w \in World, NEW goal \in GoalsOrNone
  PROVE  ProposeGoal(w, goal) \in Seq(Item)
<1> DEFINE desks == IF goal.desk = {} THEN Desk \cup {Management} ELSE goal.desk
           known(word) == word.kind = "name" => word.of \in OnRoster(w)
           item(word) ==
             IF word.kind = "skill"
             THEN RoutedItem(w, CandidatesWithSkill(w, word.of, desks), Prefers[word.of],
                             word.of, <<"goal">>)
             ELSE RoutedItem(w, {word.of} \cap Active(w), NoEngine, NoSkill, <<"goal">>)
           D == {i \in DOMAIN goal.words : known(goal.words[i])}
           s == Ascending(D)
           F == [k \in DOMAIN s |-> item(goal.words[s[k]])]
<1>1. goal.words \in Seq(Words)
  <2>1. CASE goal \in Goals
    BY <2>1, PlanningAssumption
  <2>2. CASE goal = NoGoal
    <3>1. goal.words = <<>>
      BY <2>2 DEF NoGoal
    <3> QED
      BY <3>1
  <2> QED
    BY <2>1, <2>2 DEF GoalsOrNone
<1>2. DOMAIN goal.words = 1..Len(goal.words) /\ Len(goal.words) \in Nat
  BY <1>1
<1>3. D \subseteq Nat /\ IsFiniteSet(D)
  <2>1. 1 \in Int /\ Len(goal.words) \in Int
    BY <1>2
  <2>2. IsFiniteSet(1..Len(goal.words))
    BY <2>1, FS_Interval
  <2>3. D \in SUBSET (1..Len(goal.words)) /\ 1..Len(goal.words) \subseteq Nat
    BY <1>2
  <2> HIDE DEF D
  <2> QED
    BY <2>2, <2>3, FS_Subset
<1>4. s \in Seq(D)
  <2> HIDE DEF D
  <2> QED BY <1>3, AscendingTyped
<1>5. ProposeGoal(w, goal) = F
  BY DEF ProposeGoal, Map
<1>6. ASSUME NEW word \in Words PROVE item(word) \in Item
  <2>1. <<"goal">> \in Job
    BY DEF Job
  <2>2. CASE word.kind = "skill"
    <3>1. word.of \in Skill
      BY <2>2 DEF Words
    <3>2. CandidatesWithSkill(w, word.of, desks) \subseteq Analyst
      BY DEF CandidatesWithSkill, Active
    <3>3. item(word) = RoutedItem(w, CandidatesWithSkill(w, word.of, desks), Prefers[word.of],
                                  word.of, <<"goal">>)
      BY <2>2
    <3> HIDE DEF item, desks
    <3> QED
      BY <2>1, <3>1, <3>2, <3>3, RoutedTyped
  <2>3. CASE word.kind # "skill"
    <3>1. {word.of} \cap Active(w) \subseteq Analyst
      BY DEF Active
    <3>2. item(word) = RoutedItem(w, {word.of} \cap Active(w), NoEngine, NoSkill, <<"goal">>)
      BY <2>3
    <3> HIDE DEF item
    <3> QED
      BY <2>1, <3>1, <3>2, RoutedTyped
  <2> QED
    BY <2>2, <2>3
<1>7. \A k \in D : goal.words[k] \in Words
  BY <1>1
<1> HIDE DEF item, s, D
<1>8. \A k \in DOMAIN s : s[k] \in D
  BY <1>4
<1>9. \A k \in DOMAIN s : F[k] \in Item
  BY <1>6, <1>7, <1>8
<1>10. F = [k \in DOMAIN s |-> F[k]]
  OBVIOUS
<1> HIDE DEF F
<1> QED
  BY <1>4, <1>5, <1>9, <1>10, MappedTyped

LEMMA ProposeTyped ==
  ASSUME NEW w \in World, NEW day, NEW goal \in GoalsOrNone
  PROVE  Propose(w, day, goal) \in Seq(Item)
<1>1. /\ ProposeAnomalies(w) \in Seq(Item) /\ ProposeBlocked(w) \in Seq(Item)
      /\ CadenceDue(w, day) \in Seq(Item) /\ ProposeReturned(w) \in Seq(Item)
      /\ ProposeRequests(w) \in Seq(Item) /\ ProposeGoal(w, goal) \in Seq(Item)
  BY AnomaliesTyped, BlockedTyped, CadenceTyped, ReturnedTyped, RequestsTyped, GoalTyped
<1> QED
  BY <1>1 DEF Propose

-----------------------------------------------------------------------------
(* Sorting by the guard loses nothing, and a model's plan is no dearer than *)
(* the proposal it answers.                                                 *)

\* The order ByGuard sorts in, as a set of pairs of places.
Dearer(items) ==
  {e \in (DOMAIN items) \X (DOMAIN items) :
     \/ items[e[1]].budget > items[e[2]].budget
     \/ items[e[1]].budget = items[e[2]].budget /\ e[1] < e[2]}

LEMMA SortedPlaces ==
  ASSUME NEW items \in Seq(ItemOf(Int))
  PROVE  \E F : /\ F \in [DOMAIN items -> DOMAIN items]
                /\ \A k, j \in DOMAIN items : F[k] = F[j] => k = j
                /\ {F[k] : k \in DOMAIN items} = DOMAIN items
                /\ ByGuard(items) = [k \in DOMAIN items |-> items[F[k]]]
<1> DEFINE S == DOMAIN items
           R == Dearer(items)
           dearer(i, j) == \/ items[i].budget > items[j].budget
                           \/ items[i].budget = items[j].budget /\ i < j
           F == InOrder(S, dearer)
<1>1. S = 1..Len(items) /\ Len(items) \in Nat /\ \A i \in S : i \in Nat /\ items[i].budget \in Int
  <2>1. S = 1..Len(items) /\ Len(items) \in Nat /\ \A i \in S : items[i] \in ItemOf(Int)
    OBVIOUS
  <2>2. \A it \in ItemOf(Int) : it.budget \in Int
    BY DEF ItemOf
  <2> QED
    BY <2>1, <2>2
<1>2. IsFiniteSet(S) /\ Cardinality(S) = Len(items)
  <2>1. 1 \in Int /\ Len(items) \in Int
    BY <1>1
  <2>2. IsFiniteSet(1..Len(items))
        /\ Cardinality(1..Len(items)) = IF 1 > Len(items) THEN 0 ELSE Len(items) - 1 + 1
    BY <2>1, FS_Interval
  <2> HIDE DEF S
  <2> QED
    BY <1>1, <2>2
<1>3. F = [k \in 1..Cardinality(S) |->
             CHOOSE x \in S : Cardinality({y \in S : dearer(y, x)}) = k - 1]
  BY DEF InOrder
<1>4. \A x, y \in S : <<x, y>> \in R <=> dearer(x, y)
  BY DEF Dearer
<1>5. \A x \in S : Before(R, S, x) = {y \in S : dearer(y, x)}
  BY <1>4 DEF Before
<1>6. /\ \A x \in S : <<x, x>> \notin R
      /\ \A x, y \in S : x # y => <<x, y>> \in R \/ <<y, x>> \in R
      /\ \A x, y, z \in S : <<x, y>> \in R /\ <<y, z>> \in R => <<x, z>> \in R
  BY <1>1, <1>4
<1>7. ASSUME NEW k \in 1..Cardinality(S), \E x \in S : Cardinality(Before(R, S, x)) = k - 1
      PROVE  F[k] \in S /\ Cardinality(Before(R, S, F[k])) = k - 1
  <2>1. \E x \in S : Cardinality({y \in S : dearer(y, x)}) = k - 1
    BY <1>5, <1>7
  <2>2. F[k] = CHOOSE x \in S : Cardinality({y \in S : dearer(y, x)}) = k - 1
    BY <1>3
  <2>3. F[k] \in S /\ Cardinality({y \in S : dearer(y, F[k])}) = k - 1
    BY <2>1, <2>2
  <2> QED
    BY <1>5, <2>3
<1>8. DOMAIN F = 1..Cardinality(S) /\ F = [k \in 1..Cardinality(S) |-> F[k]]
  BY <1>3
<1>9. ByGuard(items) = [k \in DOMAIN F |-> items[F[k]]]
  BY DEF ByGuard, Map
<1>10. 1..Cardinality(S) = S
  BY <1>1, <1>2
<1> HIDE DEF F, R, S
<1>11. /\ \A k \in 1..Cardinality(S) : F[k] \in S
       /\ \A k, j \in 1..Cardinality(S) : F[k] = F[j] => k = j
       /\ {F[k] : k \in 1..Cardinality(S)} = S
  <2>1. Orders(R, S) /\ ByRanks(F, R, S)
    BY <1>6, <1>7, <1>8 DEF Orders, ByRanks
  <2> QED
    BY <1>2, <2>1, Listed
<1>12. /\ F \in [S -> S]
       /\ \A k, j \in S : F[k] = F[j] => k = j
       /\ {F[k] : k \in S} = S
       /\ ByGuard(items) = [k \in S |-> items[F[k]]]
  BY <1>8, <1>9, <1>10, <1>11
<1> QED
  BY <1>12 DEF S

LEMMA PlacesAreFinite ==
  ASSUME NEW S, NEW s \in Seq(S)
  PROVE  IsFiniteSet(DOMAIN s)
<1>1. DOMAIN s = 1..Len(s) /\ 1 \in Int /\ Len(s) \in Int
  OBVIOUS
<1>2. IsFiniteSet(1..Len(s))
  BY <1>1, FS_Interval
<1> QED
  BY <1>1, <1>2

LEMMA GuardsAreOf ==
  ASSUME NEW B \in SUBSET Int, NEW items \in Seq(ItemOf(B))
  PROVE  \A i \in DOMAIN items : items[i] \in ItemOf(B) /\ items[i].budget \in B
                                  /\ items[i].budget \in Int
<1>1. \A i \in DOMAIN items : items[i] \in ItemOf(B)
  OBVIOUS
<1>2. \A it \in ItemOf(B) : it.budget \in B
  BY DEF ItemOf
<1> QED
  BY <1>1, <1>2

LEMMA SortedTotal ==
  ASSUME NEW B \in SUBSET Int, NEW items \in Seq(ItemOf(B))
  PROVE  ByGuard(items) \in Seq(ItemOf(B)) /\ Total(ByGuard(items)) = Total(items)
<1> DEFINE D == DOMAIN items
           G == ByGuard(items)
           g == [i \in D |-> items[i].budget]
           h == [k \in D |-> G[k].budget]
<1>1. items \in Seq(ItemOf(Int))
  <2>1. ItemOf(B) \subseteq ItemOf(Int)
    BY DEF ItemOf
  <2> QED
    BY <2>1
<1>2. PICK F : /\ F \in [D -> D]
               /\ \A k, j \in D : F[k] = F[j] => k = j
               /\ {F[k] : k \in D} = D
               /\ G = [k \in D |-> items[F[k]]]
  BY <1>1, SortedPlaces
<1>3. IsFiniteSet(D)
  BY PlacesAreFinite
<1>4. \A i \in D : items[i] \in ItemOf(B) /\ items[i].budget \in Int
  BY GuardsAreOf
<1>5. Total(items) = SumFunctionOnSet(g, D)
  BY DEF Total
<1>6. Total(G) = SumFunctionOnSet(h, D)
  <2>1. DOMAIN G = D
    BY <1>2
  <2> HIDE DEF G, D
  <2> QED
    BY <2>1 DEF Total
<1>7. \A k \in D : h[k] \in Int /\ h[k] = g[F[k]]
  <2>1. \A k \in D : F[k] \in D /\ G[k] = items[F[k]]
    BY <1>2
  <2> HIDE DEF G, D
  <2> QED
    BY <1>4, <2>1
<1>8. G \in Seq(ItemOf(B))
  <2>1. \A k \in D : G[k] \in ItemOf(B)
    BY <1>2, <1>4
  <2>2. G = [k \in D |-> G[k]]
    BY <1>2
  <2> HIDE DEF G
  <2> QED
    BY <2>1, <2>2, MappedTyped
<1> HIDE DEF G, D, g, h
<1>9. SumFunctionOnSet(h, D) = SumFunctionOnSet(g, D)
  <2>1. Renames(F, D, D)
    BY <1>2 DEF Renames
  <2> QED
    BY <1>3, <1>7, <2>1, SumRenames
<1> QED
  BY <1>5, <1>6, <1>8, <1>9 DEF G

\* What is left of a whole costs no more than the whole.
LEMMA SumOfPart ==
  ASSUME NEW S, IsFiniteSet(S), NEW g, \A x \in S : g[x] \in Nat, NEW R \in SUBSET S
  PROVE  SumFunctionOnSet(g, R) <= SumFunctionOnSet(g, S)
<1> DEFINE h == [x \in S |-> IF x \in R THEN g[x] ELSE 0]
<1>1. \A x \in S : h[x] \in Int /\ g[x] \in Int /\ h[x] <= g[x]
  OBVIOUS
<1>2. (\A x \in S \ R : h[x] = 0) /\ \A x \in R : h[x] = g[x]
  OBVIOUS
<1>3. IsFiniteSet(R)
  BY FS_Subset
<1> HIDE DEF h
<1>4. SumFunctionOnSet(h, S) = SumFunctionOnSet(h, R)
  BY <1>1, <1>2, SumSkips
<1>5. SumFunctionOnSet(h, R) = SumFunctionOnSet(g, R)
  BY <1>2, <1>3, SumAgrees
<1>6. SumFunctionOnSet(h, S) <= SumFunctionOnSet(g, S)
  BY <1>1, SumGrows
<1> QED
  BY <1>4, <1>5, <1>6

\* The item an accepted answer makes of one it names.
LEMMA AnswerTyped ==
  ASSUME NEW w \in World, NEW det \in Seq(Item), NEW answer \in Seq(Taken),
         ValidatePlanAnswer(w, det, answer), NEW k \in DOMAIN answer
  PROVE  /\ answer[k].ref \in DOMAIN det
         /\ ModelPlanFrom(det, answer)[k] \in ItemOf(Int)
         /\ ModelPlanFrom(det, answer)[k].budget = BudgetOf(det, answer[k])
         /\ ModelPlanFrom(det, answer)[k].who = AssigneeOf(det, answer[k])
         /\ ModelPlanFrom(det, answer)[k].desk = det[answer[k].ref].desk
         /\ BudgetOf(det, answer[k]) \in Int
         /\ BudgetOf(det, answer[k]) <= det[answer[k].ref].budget
         /\ AnswerItemHolds(w, det, answer[k])
<1> DEFINE r == answer[k]
           it == det[r.ref]
           n == [it EXCEPT !.who = AssigneeOf(det, r), !.budget = BudgetOf(det, r)]
<1>1. r \in Taken
  OBVIOUS
<1>2. r.ref \in DOMAIN det /\ AnswerItemHolds(w, det, r)
  BY DEF ValidatePlanAnswer, RefsAreSound
<1>3. ModelPlanFrom(det, answer)[k] = n
  BY DEF ModelPlanFrom, Map
<1>4. it \in Item
  BY <1>2
<1>5. AssigneeOf(det, r) \in Names
  BY <1>2, WhoIsWho DEF AnswerItemHolds
<1>6. BudgetOf(det, r) \in Int
  <2>1. it.budget \in Int
    BY <1>4 DEF Item, ItemOf
  <2>2. r.budget \in Int
    BY <1>1 DEF Taken
  <2> QED
    BY <2>1, <2>2 DEF BudgetOf
<1>7. BudgetOf(det, r) <= it.budget
  BY <1>2 DEF AnswerItemHolds
<1>8. \A who \in Names, budget \in Int :
        /\ [it EXCEPT !.who = who, !.budget = budget] \in ItemOf(Int)
        /\ [it EXCEPT !.who = who, !.budget = budget].who = who
        /\ [it EXCEPT !.who = who, !.budget = budget].budget = budget
        /\ [it EXCEPT !.who = who, !.budget = budget].desk = it.desk
  <2> HIDE DEF it
  <2> QED
    BY <1>4 DEF Item, ItemOf
<1>9. /\ n \in ItemOf(Int) /\ n.who = AssigneeOf(det, r) /\ n.budget = BudgetOf(det, r)
      /\ n.desk = it.desk
  BY <1>5, <1>6, <1>8
<1> QED
  BY <1>2, <1>3, <1>6, <1>7, <1>9

LEMMA ModelTyped ==
  ASSUME NEW w \in World, NEW det \in Seq(Item), NEW answer \in Seq(Taken),
         ValidatePlanAnswer(w, det, answer)
  PROVE  /\ ModelPlanFrom(det, answer) \in Seq(ItemOf(Int))
         /\ DOMAIN ModelPlanFrom(det, answer) = DOMAIN answer
<1> DEFINE m == ModelPlanFrom(det, answer)
<1>1. m = [k \in DOMAIN answer |-> m[k]]
  BY DEF ModelPlanFrom, Map
<1>2. \A k \in DOMAIN answer : m[k] \in ItemOf(Int)
  BY AnswerTyped
<1> HIDE DEF m
<1>3. m \in Seq(ItemOf(Int)) /\ DOMAIN m = DOMAIN answer
  BY <1>1, <1>2, MappedTyped
<1> QED
  BY <1>3 DEF m

LEMMA ModelCheaper ==
  ASSUME NEW w \in World, NEW det \in Seq(Item), NEW answer \in Seq(Taken),
         ValidatePlanAnswer(w, det, answer)
  PROVE  Total(ModelPlanFrom(det, answer)) <= Total(det)
<1> DEFINE D == DOMAIN answer
           m == ModelPlanFrom(det, answer)
           ref == [k \in D |-> answer[k].ref]
           h == [k \in D |-> m[k].budget]
           was == [k \in D |-> det[answer[k].ref].budget]
           g == [i \in DOMAIN det |-> det[i].budget]
           R == {ref[k] : k \in D}
<1>1. IsFiniteSet(D) /\ IsFiniteSet(DOMAIN det)
  BY PlacesAreFinite
<1>2. Nat \subseteq Int /\ \A i \in DOMAIN det : det[i].budget \in Nat
  BY GuardsAreOf DEF Item
<1>3. \A k \in D : answer[k].ref \in DOMAIN det
  BY AnswerTyped
<1>4. \A k \in D : m[k].budget \in Int /\ m[k].budget <= det[answer[k].ref].budget
  <2> SUFFICES ASSUME NEW k \in D
               PROVE  m[k].budget \in Int /\ m[k].budget <= det[answer[k].ref].budget
    OBVIOUS
  <2>1. m[k].budget = BudgetOf(det, answer[k]) /\ BudgetOf(det, answer[k]) \in Int
        /\ BudgetOf(det, answer[k]) <= det[answer[k].ref].budget
    BY AnswerTyped
  <2> QED
    BY <2>1
<1>5. Total(m) = SumFunctionOnSet(h, D) /\ Total(det) = SumFunctionOnSet(g, DOMAIN det)
  BY ModelTyped DEF Total
<1>6. \A k \in D : h[k] \in Int /\ was[k] \in Int /\ h[k] <= was[k]
  <2> HIDE DEF m, D
  <2> QED
    BY <1>2, <1>3, <1>4
<1>7. \A k \in D : was[k] \in Int /\ was[k] = g[ref[k]]
  BY <1>2, <1>3
<1>8. \A k, j \in D : ref[k] = ref[j] => k = j
  BY DEF ValidatePlanAnswer, RefsAreSound
<1>9. R \in SUBSET DOMAIN det /\ \A i \in DOMAIN det : g[i] \in Nat
  BY <1>2, <1>3
<1> HIDE DEF D, m, ref, h, was, g
<1>10. SumFunctionOnSet(h, D) <= SumFunctionOnSet(was, D)
  BY <1>1, <1>6, SumGrows
<1>11. SumFunctionOnSet(was, D) = SumFunctionOnSet(g, R)
  <2>1. Renames(ref, D, R)
    BY <1>8 DEF Renames, R
  <2> HIDE DEF R
  <2> QED
    BY <1>1, <1>7, <2>1, SumRenames
<1>12. Total(m) \in Int /\ Total(det) \in Int /\ SumFunctionOnSet(was, D) \in Int
  <2>1. /\ \A k \in D : h[k] \in Int /\ was[k] \in Int
        /\ \A i \in DOMAIN det : g[i] \in Int
    BY <1>6, <1>9
  <2> QED
    BY <1>1, <1>5, <2>1, SumType
<1>13. SumFunctionOnSet(g, R) <= SumFunctionOnSet(g, DOMAIN det)
  <2> HIDE DEF R
  <2> QED
    BY <1>1, <1>9, SumOfPart
<1> QED
  BY <1>5, <1>10, <1>11, <1>12, <1>13 DEF m

-----------------------------------------------------------------------------
(***************************************************************************)
(* What a handler holds: typed plans, a charge only while an answer is on  *)
(* its way, and a model's plan no dearer than the proposal it answers and  *)
(* on its desks.                                                           *)
(***************************************************************************)
Faithful(r) ==
  /\ Total(r.items) <= Total(r.det)
  /\ \A k \in DOMAIN r.items :
       r.items[k].who # r.det[r.answer[k].ref].who => Brief[r.items[k].who].desk = r.items[k].desk

Fit(r) ==
  /\ r.goal \in GoalsOrNone /\ r.seen \in World
  /\ r.items \in Seq(ItemOf(Int)) /\ r.det \in Seq(Item) /\ r.answer \in Seq(Taken)
  /\ r.cost \in Nat /\ (r.at # "answered" => r.cost = 0)
  /\ r.at = "shown" => Total(r.shown) <= Total(r.det)
  /\ r.at = "read" /\ r.answer # <<>> => Faithful(r)

PlanFit ==
  /\ world \in World /\ asks \in [accepted : Nat, refused : Nat, cents : Nat]
  /\ \A p \in Handlers : Fit(proc[p])

LEMMA IdleHolds ==
  /\ Idle.goal \in GoalsOrNone /\ Idle.seen \in World
  /\ Idle.items \in Seq(ItemOf(Int)) /\ Idle.det \in Seq(Item) /\ Idle.answer \in Seq(Taken)
  /\ Idle.cost = 0 /\ Idle.answer = <<>> /\ Idle.at = "idle"
<1>1. /\ Idle.goal = NoGoal /\ Idle.seen = InitWorld /\ Idle.items = <<>> /\ Idle.det = <<>>
      /\ Idle.answer = <<>> /\ Idle.cost = 0 /\ Idle.at = "idle"
  BY DEF Idle
<1>2. InitWorld \in World
  BY PlanningAssumption
<1> QED
  BY <1>1, <1>2 DEF GoalsOrNone

LEMMA IdleFits == Fit(Idle)
BY IdleHolds DEF Fit

\* A page has no plan in its hands yet.
LEMMA PageFits ==
  ASSUME NEW l, NEW g \in GoalsOrNone
  PROVE  Fit([Idle EXCEPT !.at = "page", !.label = l, !.goal = g])
<1> DEFINE n == [Idle EXCEPT !.at = "page", !.label = l, !.goal = g]
<1>1. /\ n.goal = g /\ n.seen = Idle.seen /\ n.items = Idle.items /\ n.det = Idle.det
      /\ n.answer = Idle.answer /\ n.cost = Idle.cost /\ n.at = "page"
  BY DEF Idle
<1> HIDE DEF n
<1>2. Fit(n)
  BY <1>1, IdleHolds DEF Fit
<1> QED
  BY <1>2 DEF n

\* A person's plan is a proposal as it stands.
LEMMA ProposalFits ==
  ASSUME NEW l, NEW d \in Seq(Item), NEW e
  PROVE  Fit([Idle EXCEPT !.at = "read", !.label = l, !.items = d, !.exists = e])
<1> DEFINE n == [Idle EXCEPT !.at = "read", !.label = l, !.items = d, !.exists = e]
<1>1. /\ n.goal = Idle.goal /\ n.seen = Idle.seen /\ n.items = d /\ n.det = Idle.det
      /\ n.answer = Idle.answer /\ n.cost = Idle.cost /\ n.at = "read"
  BY DEF Idle
<1> HIDE DEF n
<1>2. Fit(n)
  BY <1>1, IdleHolds, ItemsAreItems DEF Fit
<1> QED
  BY <1>2 DEF n

LEMMA CadenceFits ==
  ASSUME NEW l, NEW d \in Seq(Item), NEW o, NEW c
  PROVE  Fit([Idle EXCEPT !.at = "priced", !.label = l, !.items = d, !.would = o, !.ceiling = c])
<1> DEFINE n == [Idle EXCEPT !.at = "priced", !.label = l, !.items = d, !.would = o, !.ceiling = c]
<1>1. /\ n.goal = Idle.goal /\ n.seen = Idle.seen /\ n.items = d /\ n.det = Idle.det
      /\ n.answer = Idle.answer /\ n.cost = Idle.cost /\ n.at = "priced"
  BY DEF Idle
<1> HIDE DEF n
<1>2. Fit(n)
  BY <1>1, IdleHolds, ItemsAreItems DEF Fit
<1> QED
  BY <1>2 DEF n

\* The call goes out with the sorted proposal.
LEMMA CalledFits ==
  ASSUME NEW D, NEW r \in RowOf(D), Fit(r), r.at = "page", NEW d \in Seq(Item), NEW w \in World
  PROVE  Fit([r EXCEPT !.at = "called", !.det = d, !.seen = w])
<1> DEFINE n == [r EXCEPT !.at = "called", !.det = d, !.seen = w]
<1>1. /\ n.goal = r.goal /\ n.seen = w /\ n.items = r.items /\ n.det = d
      /\ n.answer = r.answer /\ n.cost = r.cost /\ n.at = "called"
  BY DEF RowOf
<1> HIDE DEF n
<1>2. Fit(n)
  BY <1>1 DEF Fit
<1> QED
  BY <1>2 DEF n

LEMMA AnsweredFits ==
  ASSUME NEW D, NEW r \in RowOf(D), Fit(r)
  PROVE  Fit([r EXCEPT !.at = "answered", !.cost = AskCost])
<1> DEFINE n == [r EXCEPT !.at = "answered", !.cost = AskCost]
<1>1. /\ n.goal = r.goal /\ n.seen = r.seen /\ n.items = r.items /\ n.det = r.det
      /\ n.answer = r.answer /\ n.cost = AskCost /\ n.at = "answered"
  BY DEF RowOf
<1> HIDE DEF n
<1>2. AskCost \in Nat
  BY PlanningAssumption
<1>3. Fit(n)
  BY <1>1, <1>2 DEF Fit
<1> QED
  BY <1>3 DEF n

\* An answer that holds is shown sorted, and costs no more.
LEMMA ShownFits ==
  ASSUME NEW D, NEW r \in RowOf(D), Fit(r), NEW answer \in Seq(Taken), NEW w \in World,
         ValidatePlanAnswer(r.seen, r.det, answer)
  PROVE  Fit([r EXCEPT !.at = "shown", !.answer = answer, !.cost = 0, !.seen = w,
                       !.shown = ByGuard(ModelPlanFrom(r.det, answer))])
<1> DEFINE m == ModelPlanFrom(r.det, answer)
           s == ByGuard(m)
           n == [r EXCEPT !.at = "shown", !.answer = answer, !.cost = 0, !.seen = w, !.shown = s]
<1>1. m \in Seq(ItemOf(Int)) /\ Total(m) <= Total(r.det)
  BY ModelTyped, ModelCheaper DEF Fit
<1>2. Int \in SUBSET Int
  OBVIOUS
<1> HIDE DEF m
<1>3. Total(s) <= Total(r.det)
  BY <1>1, <1>2, SortedTotal
<1> HIDE DEF s
<1>4. /\ n.goal = r.goal /\ n.seen = w /\ n.items = r.items /\ n.det = r.det
      /\ n.answer = answer /\ n.cost = 0 /\ n.at = "shown" /\ n.shown = s
  BY DEF RowOf
<1> HIDE DEF n
<1>5. Fit(n)
  BY <1>3, <1>4 DEF Fit
<1> QED
  BY <1>5 DEF n, s, m

\* An answer looked up in a proposal made later is checked against that one.
LEMMA ModelFits ==
  ASSUME NEW D, NEW r \in RowOf(D), Fit(r), r.at = "shown", NEW w \in World, NEW det \in Seq(Item),
         ValidatePlanAnswer(w, det, r.answer), NEW e
  PROVE  Fit([r EXCEPT !.at = "read", !.det = det, !.items = ModelPlanFrom(det, r.answer),
                       !.exists = e])
<1> DEFINE a == r.answer
           m == ModelPlanFrom(det, a)
           n == [r EXCEPT !.at = "read", !.det = det, !.items = m, !.exists = e]
<1>0. a \in Seq(Taken)
  BY DEF Fit
<1>1. m \in Seq(ItemOf(Int)) /\ DOMAIN m = DOMAIN a /\ Total(m) <= Total(det)
  BY <1>0, ModelTyped, ModelCheaper
<1>2. ASSUME NEW k \in DOMAIN a, m[k].who # det[a[k].ref].who
      PROVE  Brief[m[k].who].desk = m[k].desk
  <2>1. /\ m[k].who = AssigneeOf(det, a[k]) /\ m[k].desk = det[a[k].ref].desk
        /\ AnswerItemHolds(w, det, a[k])
    BY <1>0, AnswerTyped
  <2>2. MayReroute(w, det[a[k].ref], m[k].who)
    BY <1>2, <2>1 DEF AnswerItemHolds
  <2> QED
    BY <2>1, <2>2 DEF MayReroute
<1> HIDE DEF m
<1>3. /\ n.goal = r.goal /\ n.seen = r.seen /\ n.items = m /\ n.det = det
      /\ n.answer = a /\ n.cost = r.cost /\ n.at = "read"
  BY DEF RowOf
<1> HIDE DEF n, a
<1>4. Faithful(n)
  BY <1>1, <1>2, <1>3 DEF Faithful
<1>5. Fit(n)
  <2>1. r.goal \in GoalsOrNone /\ r.seen \in World /\ r.cost = 0
    BY DEF Fit
  <2> QED
    BY <1>0, <1>1, <1>3, <1>4, <2>1 DEF Fit
<1> QED
  BY <1>5 DEF n, m, a

\* A field no plan depends on: the checks passed, the changes missed.
LEMMA CheckedFits ==
  ASSUME NEW D, NEW r \in RowOf(D), Fit(r), r.at = "priced"
  PROVE  Fit([r EXCEPT !.at = "checked"])
<1> DEFINE n == [r EXCEPT !.at = "checked"]
<1>1. /\ n.goal = r.goal /\ n.seen = r.seen /\ n.items = r.items /\ n.det = r.det
      /\ n.answer = r.answer /\ n.cost = r.cost /\ n.at = "checked"
  BY DEF RowOf
<1> HIDE DEF n
<1>2. Fit(n)
  BY <1>1 DEF Fit
<1> QED
  BY <1>2 DEF n

LEMMA MissedFits ==
  ASSUME NEW D, NEW r \in RowOf(D), Fit(r), NEW v
  PROVE  Fit([r EXCEPT !.missed = v])
<1> DEFINE n == [r EXCEPT !.missed = v]
<1>1. /\ n.goal = r.goal /\ n.seen = r.seen /\ n.items = r.items /\ n.det = r.det
      /\ n.answer = r.answer /\ n.cost = r.cost /\ n.at = r.at /\ n.shown = r.shown
  BY DEF RowOf
<1> HIDE DEF n
<1>2. Fit(n)
  BY <1>1 DEF Fit, Faithful
<1> QED
  BY <1>2 DEF n

-----------------------------------------------------------------------------
(* The steps keep it. *)

LEMMA ForTyped ==
  ASSUME PlanFit, NEW p \in Handlers
  PROVE  ProposeFor(p) \in Seq(Item) /\ ByGuard(ProposeFor(p)) \in Seq(Item)
<1>1. world \in World /\ proc[p].goal \in GoalsOrNone
  BY DEF PlanFit, Fit
<1>2. ProposeFor(p) \in Seq(Item)
  BY <1>1, ProposeTyped DEF ProposeFor
<1>3. ProposeFor(p) \in Seq(ItemOf(Nat)) /\ Nat \in SUBSET Int
  BY <1>2 DEF Item
<1> QED
  BY <1>2, <1>3, SortedTotal DEF Item

\* One call settled: the count of its outcome, its cents, and the supervisor's
\* month.
LEMMA Settles ==
  ASSUME PlanFit, NEW accepted \in BOOLEAN, NEW cost \in Nat, SettleAsk(accepted, cost)
  PROVE  /\ asks' \in [accepted : Nat, refused : Nat, cents : Nat]
         /\ asks'.cents = asks.cents + cost
         /\ asks'.accepted + asks'.refused = asks.accepted + asks.refused + 1
         /\ world' \in World
<1> DEFINE A == [accepted : Nat, refused : Nat, cents : Nat]
<1>1. asks \in A /\ world \in World
  BY DEF PlanFit
<1>2. asks' = [accepted |-> asks.accepted + (IF accepted THEN 1 ELSE 0),
               refused |-> asks.refused + (IF accepted THEN 0 ELSE 1),
               cents |-> asks.cents + cost]
  BY <1>1 DEF SettleAsk, Booked
<1>3. /\ asks' \in A /\ asks'.cents = asks.cents + cost
      /\ asks'.accepted + asks'.refused = asks.accepted + asks.refused + 1
  BY <1>1, <1>2
<1>4. Supervisor \in Analyst /\ asks.cents \in Nat
  BY <1>1, PlanAssumption
<1>5. world.spent \in [Analyst -> Nat]
  BY <1>1 DEF World
<1> DEFINE f == [world.spent EXCEPT ![Supervisor] = @ + asks'.cents - asks.cents]
<1>6. f \in [Analyst -> Nat]
  <2>1. world.spent[Supervisor] + asks'.cents - asks.cents \in Nat
    BY <1>3, <1>4, <1>5
  <2> QED
    BY <1>5, <2>1
<1>7. world' = [world EXCEPT !.spent = f]
  BY <1>5 DEF SettleAsk
<1> HIDE DEF f
<1>8. world' \in World
  BY <1>1, <1>6, <1>7 DEF World
<1> QED
  BY <1>3, <1>8

LEMMA OneFits ==
  ASSUME Shaped, PlanFit, NEW p \in Handlers, NEW n, proc' = [proc EXCEPT ![p] = n], Fit(n),
         world' \in World, asks' \in [accepted : Nat, refused : Nat, cents : Nat]
  PROVE  PlanFit'
<1>1. PICK D : proc \in [Handlers -> RowOf(D)]
  BY DEF Shaped
<1>2. ASSUME NEW q \in Handlers PROVE Fit(proc'[q])
  <2>1. CASE q = p
    BY <1>1, <2>1
  <2>2. CASE q # p
    <3>1. proc'[q] = proc[q] /\ Fit(proc[q])
      BY <1>1, <2>2 DEF PlanFit
    <3> QED
      BY <3>1
  <2> QED
    BY <2>1, <2>2
<1>3. (\A q \in Handlers : Fit(proc[q]))'
  BY <1>2
<1> QED
  BY <1>3 DEF PlanFit

LEMMA PageStepFits ==
  ASSUME Shaped, PlanFit, NEW p \in Browser, BrowserStep(p)
  PROVE  PlanFit'
<1> DEFINE r == proc[p]
           A == [accepted : Nat, refused : Nat, cents : Nat]
<1>1. PICK D : proc \in [Handlers -> RowOf(D)]
  BY DEF Shaped
<1>2. p \in Handlers /\ r \in RowOf(D) /\ Fit(r) /\ world \in World /\ asks \in A
  BY <1>1 DEF Handlers, PlanFit
<1>3. ProposeFor(p) \in Seq(Item) /\ ByGuard(ProposeFor(p)) \in Seq(Item)
  BY <1>2, ForTyped
<1>4. r.goal \in GoalsOrNone
  BY <1>2 DEF Fit
<1>5. CASE \E g \in Goals : OpenPage(p, g)
  <2>1. PICK g \in Goals : OpenPage(p, g)
    BY <1>5
  <2> DEFINE n == [Idle EXCEPT !.at = "page", !.label = NextWeek, !.goal = g]
  <2>2. g \in GoalsOrNone
    BY DEF GoalsOrNone
  <2>3. Fit(n)
    BY <2>2, PageFits
  <2>4. proc' = [proc EXCEPT ![p] = n] /\ world' = world /\ asks' = asks
    BY <2>1 DEF OpenPage
  <2> HIDE DEF n
  <2> QED
    BY <1>2, <2>3, <2>4, OneFits
<1>6. CASE ReadPlan(p)
  <2> DEFINE d == ProposeFor(p)
             e == r.label \in Labels
             n == [Idle EXCEPT !.at = "read", !.label = r.label, !.items = d, !.exists = e]
  <2>1. proc' = [proc EXCEPT ![p] = n] /\ world' = world /\ asks' = asks
    BY <1>6 DEF ReadPlan
  <2>2. Fit(n)
    <3> HIDE DEF d, e
    <3> QED BY <1>3, ProposalFits DEF d
  <2> HIDE DEF n
  <2> QED
    BY <1>2, <2>1, <2>2, OneFits
<1>7. CASE ReadModelPlan(p)
  <2> DEFINE det == ProposeFor(p)
             holds == ValidatePlanAnswer(world, det, r.answer)
             e == r.label \in Labels
             n == [r EXCEPT !.at = "read", !.det = det, !.items = ModelPlanFrom(det, r.answer),
                            !.exists = e]
  <2>1. /\ r.at = "shown" /\ world' = world /\ asks' = asks
        /\ proc' = [proc EXCEPT ![p] = IF holds THEN n ELSE Idle]
    BY <1>1, <1>7 DEF ReadModelPlan, Handlers
  <2>2. CASE holds
    <3>1. Fit(n)
      <4>1. det \in Seq(Item)
        BY <1>3
      <4> HIDE DEF det, e
      <4> QED BY <1>2, <2>1, <2>2, <4>1, ModelFits
    <3>2. proc' = [proc EXCEPT ![p] = n]
      BY <2>1, <2>2
    <3> HIDE DEF n
    <3> QED
      BY <1>2, <2>1, <3>1, <3>2, OneFits
  <2>3. CASE ~holds
    <3>1. proc' = [proc EXCEPT ![p] = Idle]
      BY <2>1, <2>3
    <3> QED
      BY <1>2, <2>1, <3>1, IdleFits, OneFits
  <2> QED
    BY <2>2, <2>3
<1>8. CASE Approve(p)
  <2>1. proc' = [proc EXCEPT ![p] = Idle] /\ world' = world /\ asks' = asks
    BY <1>8 DEF Approve
  <2> QED
    BY <1>2, <2>1, IdleFits, OneFits
<1>9. CASE AskRefused(p)
  <2>1. proc' = proc /\ world' = world /\ asks' = [asks EXCEPT !.refused = @ + 1]
    BY <1>9 DEF AskRefused
  <2>2. asks' \in A
    BY <1>2, <2>1
  <2> QED
    BY <2>1, <2>2 DEF PlanFit
<1>10. CASE AskCalls(p)
  <2> DEFINE d == ByGuard(ProposeFor(p))
             n == [r EXCEPT !.at = "called", !.det = d, !.seen = world]
  <2>1. proc' = [proc EXCEPT ![p].at = "called", ![p].det = d, ![p].seen = world]
        /\ world' = world /\ asks' = asks /\ r.at = "page"
    BY <1>10 DEF AskCalls
  <2>2. proc' = [proc EXCEPT ![p] = n]
    <3> HIDE DEF d
    <3> QED BY <1>1, <1>2, <2>1
  <2>3. Fit(n)
    <3> HIDE DEF d
    <3> QED BY <1>2, <1>3, <2>1, CalledFits DEF d
  <2> HIDE DEF n
  <2> QED
    BY <1>2, <2>1, <2>2, <2>3, OneFits
<1>11. CASE GatewayAnswers(p)
  <2> DEFINE n == [r EXCEPT !.at = "answered", !.cost = AskCost]
  <2>1. proc' = [proc EXCEPT ![p].at = "answered", ![p].cost = AskCost]
        /\ world' = world /\ asks' = asks
    BY <1>11 DEF GatewayAnswers
  <2>2. proc' = [proc EXCEPT ![p] = n]
    BY <1>1, <1>2, <2>1
  <2>3. Fit(n)
    BY <1>2, AnsweredFits
  <2> HIDE DEF n
  <2> QED
    BY <1>2, <2>1, <2>2, <2>3, OneFits
<1>12. CASE AskGivesUp(p)
  <2> DEFINE n == [Idle EXCEPT !.at = "page", !.label = r.label, !.goal = r.goal]
  <2>1. proc' = [proc EXCEPT ![p] = n] /\ SettleAsk(FALSE, 0)
    BY <1>12 DEF AskGivesUp
  <2>2. world' \in World /\ asks' \in A
    <3>1. FALSE \in BOOLEAN /\ 0 \in Nat
      OBVIOUS
    <3> QED
      BY <2>1, <3>1, Settles
  <2>3. Fit(n)
    BY <1>4, PageFits
  <2> HIDE DEF n
  <2> QED
    BY <1>2, <2>1, <2>2, <2>3, OneFits
<1>13. CASE \E a \in Answers : AskReturns(p, a)
  <2>1. PICK a \in Answers : AskReturns(p, a)
    BY <1>13
  <2>2. a \in Seq(Taken)
    BY PlanningAssumption
  <2> DEFINE holds == ValidatePlanAnswer(r.seen, r.det, a)
             w == IF r.seen = world THEN world' ELSE r.seen
             n == [r EXCEPT !.at = "shown", !.answer = a, !.cost = 0, !.seen = w,
                            !.shown = ByGuard(ModelPlanFrom(r.det, a))]
             m == [Idle EXCEPT !.at = "page", !.label = r.label, !.goal = r.goal]
  <2>3. SettleAsk(holds, r.cost) /\ proc' = [proc EXCEPT ![p] = IF holds THEN n ELSE m]
    BY <2>1 DEF AskReturns
  <2>4. world' \in World /\ asks' \in A
    <3>1. holds \in BOOLEAN /\ r.cost \in Nat
      BY <1>2 DEF Fit, ValidatePlanAnswer
    <3> HIDE DEF holds
    <3> QED
      BY <2>3, <3>1, Settles
  <2>5. w \in World
    BY <1>2, <2>4 DEF Fit
  <2>6. CASE holds
    <3>1. Fit(n)
      <4> HIDE DEF w
      <4> QED BY <1>2, <2>2, <2>5, <2>6, ShownFits
    <3>2. proc' = [proc EXCEPT ![p] = n]
      BY <2>3, <2>6
    <3> HIDE DEF n
    <3> QED
      BY <1>2, <2>4, <3>1, <3>2, OneFits
  <2>7. CASE ~holds
    <3>1. Fit(m)
      BY <1>4, PageFits
    <3>2. proc' = [proc EXCEPT ![p] = m]
      BY <2>3, <2>7
    <3> HIDE DEF m
    <3> QED
      BY <1>2, <2>4, <3>1, <3>2, OneFits
  <2> QED
    BY <2>6, <2>7
<1> QED
  BY <1>5, <1>6, <1>7, <1>8, <1>9, <1>10, <1>11, <1>12, <1>13 DEF BrowserStep

LEMMA DueStepFits ==
  ASSUME Shaped, PlanFit, NEW p \in Runner, RunnerStep(p)
  PROVE  PlanFit'
<1> DEFINE r == proc[p]
           A == [accepted : Nat, refused : Nat, cents : Nat]
<1>1. PICK D : proc \in [Handlers -> RowOf(D)]
  BY DEF Shaped
<1>2. p \in Handlers /\ r \in RowOf(D) /\ Fit(r) /\ world \in World /\ asks \in A
  BY <1>1 DEF Handlers, PlanFit
<1>3. world' = world /\ asks' = asks
  BY DEF RunnerStep, DuePreflight, DueRechecks, DueCreates
<1>4. CASE DuePreflight(p)
  <2> DEFINE d == CadenceDue(world, Today)
             o == WouldRun(world, d)
             c == EffectiveCeiling(cadence.ceiling)
             n == [Idle EXCEPT !.at = "priced", !.label = CadenceLabel, !.items = d,
                               !.would = o, !.ceiling = c]
  <2>1. proc' = [proc EXCEPT ![p] = n]
    BY <1>4 DEF DuePreflight
  <2>2. d \in Seq(Item)
    BY <1>2, CadenceTyped
  <2>3. Fit(n)
    <3> HIDE DEF d, o, c
    <3> QED BY <2>2, CadenceFits
  <2> HIDE DEF n
  <2> QED
    BY <1>2, <1>3, <2>1, <2>3, OneFits
<1>5. CASE DueRechecks(p)
  <2>1. CASE DueStands(p)
    <3>1. proc' = [proc EXCEPT ![p] = [r EXCEPT !.at = "checked"]] /\ r.at = "priced"
      BY <1>1, <1>2, <1>5, <2>1 DEF DueRechecks
    <3>2. Fit([r EXCEPT !.at = "checked"])
      BY <1>2, <3>1, CheckedFits
    <3> QED
      BY <1>2, <1>3, <3>1, <3>2, OneFits
  <2>2. CASE ~DueStands(p)
    <3>1. proc' = [proc EXCEPT ![p] = Idle]
      BY <1>5, <2>2 DEF DueRechecks
    <3> QED
      BY <1>2, <1>3, <3>1, IdleFits, OneFits
  <2> QED
    BY <2>1, <2>2
<1>6. CASE DueCreates(p)
  <2>1. proc' = [proc EXCEPT ![p] = Idle]
    BY <1>6 DEF DueCreates
  <2> QED
    BY <1>2, <1>3, <2>1, IdleFits, OneFits
<1> QED
  BY <1>4, <1>5, <1>6 DEF RunnerStep

LEMMA FitNext ==
  ASSUME Shaped, PlanFit, [Next]_vars
  PROVE  PlanFit'
<1>1. CASE UNCHANGED vars
  BY <1>1 DEF vars, PlanFit
<1>2. CASE WorldMoves
  <2>1. world' \in World /\ proc' = proc /\ asks' = asks
    BY <1>2 DEF WorldMoves
  <2> QED
    BY <2>1 DEF PlanFit
<1>3. ASSUME NEW on \in BOOLEAN, NEW c \in Ceilings, SetCadence(on, c)
      PROVE  PlanFit'
  <2>1. PICK D : proc \in [Handlers -> RowOf(D)]
    BY DEF Shaped
  <2>2. ASSUME NEW p \in Handlers PROVE Fit(proc'[p])
    <3>1. \/ proc'[p] = proc[p]
          \/ proc'[p] = [proc[p] EXCEPT !.missed = proc[p].missed \cup {proc[p].at}]
      BY <1>3, <2>1 DEF SetCadence
    <3>2. proc[p] \in RowOf(D) /\ Fit(proc[p])
      BY <2>1 DEF PlanFit
    <3>3. Fit([proc[p] EXCEPT !.missed = proc[p].missed \cup {proc[p].at}])
      BY <3>2, MissedFits
    <3> QED
      BY <3>1, <3>2, <3>3
  <2>3. (\A p \in Handlers : Fit(proc[p]))'
    BY <2>2
  <2>4. world' = world /\ asks' = asks
    BY <1>3 DEF SetCadence
  <2> QED
    BY <2>3, <2>4 DEF PlanFit
<1> QED
  BY <1>1, <1>2, <1>3, PageStepFits, DueStepFits DEF Next

-----------------------------------------------------------------------------
(***************************************************************************)
(* The invariants hold together, and what follows from them at once.       *)
(***************************************************************************)
PlanInv == Shaped /\ LabelInv /\ PlanFit

LEMMA FitInit == Init => PlanFit
<1> SUFFICES ASSUME Init PROVE PlanFit
  OBVIOUS
<1>1. \A p \in Handlers : proc[p] = Idle
  BY DEF Init, Handlers
<1>2. world \in World
  BY PlanningAssumption DEF Init
<1>3. asks \in [accepted : Nat, refused : Nat, cents : Nat]
  BY DEF Init
<1> QED
  BY <1>1, <1>2, <1>3, IdleFits DEF PlanFit

LEMMA PlanningInv == Spec => []PlanInv
<1>1. Init => PlanInv
  BY LabelInit, FitInit DEF PlanInv
<1>2. PlanInv /\ [Next]_vars => PlanInv'
  BY LabelNext, FitNext DEF PlanInv
<1> QED
  BY <1>1, <1>2, PTL DEF Spec

\* A model's plan never costs more than the proposal it answers, when it is
\* shown and when it is approved against a proposal made later: the answer's
\* refs are unique and no guard goes up (ValidatePlanAnswer).
THEOREM PlanningModelCostsNoMore == Spec => []ModelCostsNoMore
<1>1. PlanInv => ModelCostsNoMore
  <2> SUFFICES ASSUME PlanInv, NEW p \in Browser
               PROVE  /\ proc[p].at = "shown" => Total(proc[p].shown) <= Total(proc[p].det)
                      /\ proc[p].at = "read" /\ proc[p].answer # <<>>
                           => Total(proc[p].items) <= Total(proc[p].det)
    BY DEF ModelCostsNoMore
  <2>1. Fit(proc[p])
    BY DEF PlanInv, PlanFit, Handlers
  <2> QED
    BY <2>1 DEF Fit, Faithful
<1> QED
  BY <1>1, PlanningInv, PTL

\* Work a model moves to somebody else goes to an analyst of the desk it is
\* on, whoever was active when the answer was read (MayReroute).
THEOREM PlanningMovedWorkStays == Spec => []MovedWorkStaysOnTheDesk
<1>1. PlanInv => MovedWorkStaysOnTheDesk
  <2> SUFFICES ASSUME PlanInv, NEW p \in Browser, proc[p].at = "read", proc[p].answer # <<>>,
                      NEW k \in DOMAIN proc[p].items,
                      proc[p].items[k].who # proc[p].det[proc[p].answer[k].ref].who
               PROVE  Brief[proc[p].items[k].who].desk = proc[p].items[k].desk
    BY DEF MovedWorkStaysOnTheDesk
  <2>1. Fit(proc[p])
    BY DEF PlanInv, PlanFit, Handlers
  <2> QED
    BY <2>1 DEF Fit, Faithful
<1> QED
  BY <1>1, PlanningInv, PTL

-----------------------------------------------------------------------------
(***************************************************************************)
(* What the gateway charged for planning calls is booked, given up on, or  *)
(* on its way.                                                             *)
(***************************************************************************)
Owed(r) == IF r.at = "answered" THEN r.cost ELSE 0
OnTheWay == [p \in Browser |-> Owed(proc[p])]

Ledger == charged \in Nat /\ abandoned \in Nat /\ AskIsBooked

LEMMA LedgerIs ==
  AskIsBooked <=> charged = asks.cents + abandoned + SumFunctionOnSet(OnTheWay, Browser)
BY DEF AskIsBooked, OnTheWay, Owed

LEMMA OwedTyped ==
  ASSUME PlanFit
  PROVE  \A p \in Browser : Owed(proc[p]) \in Int
<1>1. \A p \in Browser : proc[p].cost \in Nat
  BY DEF PlanFit, Fit, Handlers
<1> QED
  BY <1>1 DEF Owed

\* One browser's money moves.
LEMMA MoneyMoves ==
  ASSUME PlanFit, PlanFit', Ledger, NEW p \in Browser,
         \A q \in Browser \ {p} : proc'[q] = proc[q],
         NEW x \in Nat, NEW y \in Nat, charged' = charged + x, abandoned' = abandoned + y,
         x + Owed(proc[p]) = y + (asks'.cents - asks.cents) + Owed(proc'[p])
  PROVE  Ledger'
<1> DEFINE g == OnTheWay'
           h == OnTheWay
<1>1. \A q \in Browser : Owed(proc[q]) \in Int /\ Owed(proc'[q]) \in Int
  <2>1. \A q \in Browser : Owed(proc[q]) \in Int
    BY OwedTyped
  <2>2. \A q \in Browser : proc'[q].cost \in Nat
    BY DEF PlanFit, Fit, Handlers
  <2> QED
    BY <2>1, <2>2 DEF Owed
<1>2. \A q \in Browser : h[q] = Owed(proc[q]) /\ g[q] = Owed(proc'[q])
  BY DEF OnTheWay
<1>3. IsFiniteSet(Browser)
  BY PlanningAssumption
<1>4. asks.cents \in Nat /\ asks'.cents \in Nat
  BY DEF PlanFit
<1> HIDE DEF g, h
<1>5. /\ \A q \in Browser : g[q] \in Int /\ h[q] \in Int
      /\ \A q \in Browser \ {p} : g[q] = h[q]
  BY <1>1, <1>2
<1>6. SumFunctionOnSet(g, Browser) = SumFunctionOnSet(h, Browser) + g[p] - h[p]
  BY <1>3, <1>5, SumMoves
<1>7. SumFunctionOnSet(h, Browser) \in Int
  BY <1>3, <1>5, SumType
<1>8. charged = asks.cents + abandoned + SumFunctionOnSet(h, Browser)
  BY LedgerIs DEF Ledger, h
<1>9. charged' = asks'.cents + abandoned' + SumFunctionOnSet(g, Browser)
  <2>1. g[p] \in Int /\ h[p] \in Int /\ g[p] = Owed(proc'[p]) /\ h[p] = Owed(proc[p])
    BY <1>2, <1>5
  <2> QED
    BY <1>4, <1>6, <1>7, <1>8, <2>1 DEF Ledger
<1>10. AskIsBooked'
  BY <1>9 DEF AskIsBooked, g, OnTheWay, Owed
<1>11. charged' \in Nat /\ abandoned' \in Nat
  BY DEF Ledger
<1> QED
  BY <1>10, <1>11 DEF Ledger

\* A browser's step, as the money, the waiting calls and its stage see it.
LEMMA PageMoney ==
  ASSUME PlanInv, Ledger, NEW p \in Browser, BrowserStep(p)
  PROVE  Ledger'
<1> DEFINE r == proc[p]
<1>1. PICK D : proc \in [Handlers -> RowOf(D)]
  BY DEF PlanInv, Shaped
<1>2. p \in Handlers /\ r \in RowOf(D) /\ Fit(r) /\ PlanFit /\ Shaped
  BY <1>1 DEF Handlers, PlanInv, PlanFit
<1>3. PlanFit'
  BY <1>2, PageStepFits
<1>4. asks.cents \in Nat /\ r.cost \in Nat /\ (r.at # "answered" => r.cost = 0) /\ Owed(r) = r.cost
  BY <1>2 DEF PlanFit, Fit, Owed
<1>5. ASSUME NEW n, proc' = [proc EXCEPT ![p] = n]
      PROVE  proc'[p] = n /\ \A q \in Browser \ {p} : proc'[q] = proc[q]
  BY <1>1, <1>2, <1>5 DEF Handlers
<1>6. ASSUME charged' = charged, abandoned' = abandoned, asks' = asks, NEW n,
             proc' = [proc EXCEPT ![p] = n], Owed(n) = 0, r.at # "answered"
      PROVE  Ledger'
  <2>1. Owed(r) = 0
    BY <1>4, <1>6
  <2>2. charged' = charged + 0 /\ abandoned' = abandoned + 0 /\ 0 \in Nat
    BY <1>6 DEF Ledger
  <2>3. 0 + Owed(r) = 0 + (asks'.cents - asks.cents) + Owed(proc'[p])
    BY <1>4, <1>5, <1>6, <2>1
  <2> QED
    BY <1>2, <1>3, <1>5, <1>6, <2>2, <2>3, MoneyMoves
<1>7. CASE \E g \in Goals : OpenPage(p, g)
  <2>1. PICK g \in Goals : OpenPage(p, g)
    BY <1>7
  <2> DEFINE n == [Idle EXCEPT !.at = "page", !.label = NextWeek, !.goal = g]
  <2>2. /\ proc' = [proc EXCEPT ![p] = n] /\ charged' = charged /\ abandoned' = abandoned
        /\ asks' = asks /\ r.at = "idle"
    BY <2>1 DEF OpenPage
  <2>3. Owed(n) = 0
    BY DEF Idle, Owed
  <2> HIDE DEF n
  <2> QED
    BY <1>6, <2>2, <2>3
<1>8. CASE ReadPlan(p)
  <2> DEFINE n == [Idle EXCEPT !.at = "read", !.label = r.label, !.items = ProposeFor(p),
                               !.exists = r.label \in Labels]
  <2>1. /\ proc' = [proc EXCEPT ![p] = n] /\ charged' = charged /\ abandoned' = abandoned
        /\ asks' = asks /\ r.at # "answered"
    BY <1>8 DEF ReadPlan
  <2>2. Owed(n) = 0
    BY DEF Idle, Owed
  <2> HIDE DEF n
  <2> QED
    BY <1>6, <2>1, <2>2
<1>9. CASE ReadModelPlan(p)
  <2> DEFINE det == ProposeFor(p)
             e == r.label \in Labels
             m == ModelPlanFrom(det, r.answer)
             n == [r EXCEPT !.at = "read", !.det = det, !.items = m, !.exists = e]
  <2>1. /\ proc' = [proc EXCEPT ![p] = n] \/ proc' = [proc EXCEPT ![p] = Idle]
        /\ charged' = charged /\ abandoned' = abandoned /\ asks' = asks /\ r.at # "answered"
    BY <1>1, <1>2, <1>9 DEF ReadModelPlan
  <2>2. n.at = "read"
    <3> HIDE DEF det, e, m
    <3> QED BY <1>2 DEF RowOf
  <2>3. Owed(n) = 0 /\ Owed(Idle) = 0
    BY <2>2, IdleHolds DEF Owed
  <2> HIDE DEF n
  <2> QED
    BY <1>6, <2>1, <2>3
<1>10. CASE Approve(p)
  <2>1. /\ proc' = [proc EXCEPT ![p] = Idle] /\ charged' = charged /\ abandoned' = abandoned
        /\ asks' = asks /\ r.at # "answered"
    BY <1>10 DEF Approve
  <2>2. Owed(Idle) = 0
    BY IdleHolds DEF Owed
  <2> QED
    BY <1>6, <2>1, <2>2
<1>11. CASE AskRefused(p)
  <2>1. /\ proc' = proc /\ charged' = charged /\ abandoned' = abandoned
        /\ asks' = [asks EXCEPT !.refused = @ + 1]
    BY <1>11 DEF AskRefused
  <2>2. asks'.cents = asks.cents
    BY <1>2, <2>1 DEF PlanFit
  <2>3. proc'[p] = r /\ \A q \in Browser \ {p} : proc'[q] = proc[q]
    BY <2>1
  <2>4. charged' = charged + 0 /\ abandoned' = abandoned + 0 /\ 0 \in Nat
    BY <2>1 DEF Ledger
  <2>5. 0 + Owed(r) = 0 + (asks'.cents - asks.cents) + Owed(proc'[p])
    BY <1>4, <2>2, <2>3
  <2> QED
    BY <1>2, <1>3, <2>3, <2>4, <2>5, MoneyMoves
<1>12. CASE AskCalls(p)
  <2> DEFINE d == ByGuard(ProposeFor(p))
             n == [r EXCEPT !.at = "called", !.det = d, !.seen = world]
  <2>1. /\ proc' = [proc EXCEPT ![p].at = "called", ![p].det = d, ![p].seen = world]
        /\ charged' = charged /\ abandoned' = abandoned /\ asks' = asks /\ r.at = "page"
    BY <1>12 DEF AskCalls
  <2>2. proc' = [proc EXCEPT ![p] = n]
    <3> HIDE DEF d
    <3> QED BY <1>1, <1>2, <2>1
  <2>3. Owed(n) = 0
    <3> HIDE DEF d
    <3>1. n.at = "called"
      BY <1>2 DEF RowOf
    <3> HIDE DEF n
    <3> QED
      BY <3>1 DEF Owed
  <2> HIDE DEF n
  <2> QED
    BY <1>6, <2>1, <2>2, <2>3
<1>13. CASE GatewayAnswers(p)
  <2> DEFINE n == [r EXCEPT !.at = "answered", !.cost = AskCost]
  <2>1. /\ proc' = [proc EXCEPT ![p].at = "answered", ![p].cost = AskCost] /\ r.at = "called"
        /\ charged' = charged + AskCost /\ abandoned' = abandoned /\ asks' = asks
    BY <1>13 DEF GatewayAnswers
  <2>2. proc' = [proc EXCEPT ![p] = n]
    BY <1>1, <1>2, <2>1
  <2>3. n.at = "answered" /\ n.cost = AskCost
    BY <1>2 DEF RowOf
  <2> HIDE DEF n
  <2>4. AskCost \in Nat /\ Owed(proc'[p]) = AskCost /\ Owed(r) = 0
    BY <1>4, <1>5, <2>1, <2>2, <2>3, PlanningAssumption DEF Owed
  <2>5. abandoned' = abandoned + 0 /\ 0 \in Nat
    BY <2>1 DEF Ledger
  <2>6. AskCost + Owed(r) = 0 + (asks'.cents - asks.cents) + Owed(proc'[p])
    BY <1>4, <2>1, <2>4
  <2> QED
    BY <1>2, <1>3, <1>5, <2>1, <2>2, <2>4, <2>5, <2>6, MoneyMoves
<1>14. CASE AskGivesUp(p)
  <2> DEFINE n == [Idle EXCEPT !.at = "page", !.label = r.label, !.goal = r.goal]
  <2>1. /\ proc' = [proc EXCEPT ![p] = n] /\ SettleAsk(FALSE, 0)
        /\ charged' = charged /\ abandoned' = abandoned + r.cost
    BY <1>14 DEF AskGivesUp
  <2>2. asks'.cents = asks.cents
    <3>1. FALSE \in BOOLEAN /\ 0 \in Nat
      OBVIOUS
    <3>2. asks'.cents = asks.cents + 0
      BY <1>2, <2>1, <3>1, Settles
    <3> QED
      BY <1>4, <3>2
  <2>3. Owed(n) = 0
    BY DEF Idle, Owed
  <2> HIDE DEF n
  <2>4. charged' = charged + 0 /\ 0 \in Nat
    BY <2>1 DEF Ledger
  <2>5. 0 + Owed(r) = r.cost + (asks'.cents - asks.cents) + Owed(proc'[p])
    <3>1. Owed(proc'[p]) = 0
      BY <1>5, <2>1, <2>3
    <3> QED
      BY <1>4, <2>2, <3>1
  <2> QED
    BY <1>2, <1>3, <1>4, <1>5, <2>1, <2>4, <2>5, MoneyMoves
<1>15. CASE \E a \in Answers : AskReturns(p, a)
  <2>1. PICK a \in Answers : AskReturns(p, a)
    BY <1>15
  <2> DEFINE holds == ValidatePlanAnswer(r.seen, r.det, a)
             w == IF r.seen = world THEN world' ELSE r.seen
             s == ByGuard(ModelPlanFrom(r.det, a))
             n == [r EXCEPT !.at = "shown", !.answer = a, !.cost = 0, !.seen = w, !.shown = s]
             m == [Idle EXCEPT !.at = "page", !.label = r.label, !.goal = r.goal]
  <2>2. /\ SettleAsk(holds, r.cost) /\ r.at = "answered"
        /\ proc' = [proc EXCEPT ![p] = IF holds THEN n ELSE m]
        /\ charged' = charged /\ abandoned' = abandoned
    BY <2>1 DEF AskReturns
  <2>3. asks'.cents = asks.cents + r.cost
    <3>1. holds \in BOOLEAN
      BY DEF ValidatePlanAnswer
    <3> HIDE DEF holds
    <3> QED
      BY <1>2, <1>4, <2>2, <3>1, Settles
  <2>4. Owed(n) = 0 /\ Owed(m) = 0
    <3>1. n.at = "shown"
      <4> HIDE DEF w, s
      <4> QED BY <1>2 DEF RowOf
    <3>2. m.at = "page"
      BY DEF Idle
    <3> HIDE DEF n, m
    <3> QED
      BY <3>1, <3>2 DEF Owed
  <2>5. Owed(proc'[p]) = 0 /\ \A q \in Browser \ {p} : proc'[q] = proc[q]
    <3> HIDE DEF n, m, holds
    <3>1. proc' = [proc EXCEPT ![p] = n] \/ proc' = [proc EXCEPT ![p] = m]
      BY <2>2
    <3> QED
      BY <1>5, <2>4, <3>1
  <2>6. charged' = charged + 0 /\ abandoned' = abandoned + 0 /\ 0 \in Nat
    BY <2>2 DEF Ledger
  <2>7. 0 + Owed(r) = 0 + (asks'.cents - asks.cents) + Owed(proc'[p])
    BY <1>4, <2>3, <2>5
  <2> HIDE DEF n, m, holds
  <2> QED
    BY <1>2, <1>3, <2>5, <2>6, <2>7, MoneyMoves
<1> QED
  BY <1>7, <1>8, <1>9, <1>10, <1>11, <1>12, <1>13, <1>14, <1>15 DEF BrowserStep

\* What the browsers' rows keep, a runner or the world changes nothing of.
LEMMA MoneyStays ==
  ASSUME Ledger, charged' = charged, abandoned' = abandoned, asks' = asks,
         \A p \in Browser : Owed(proc'[p]) = Owed(proc[p])
  PROVE  Ledger'
<1>1. OnTheWay' = OnTheWay
  BY DEF OnTheWay
<1>2. charged = asks.cents + abandoned + SumFunctionOnSet(OnTheWay, Browser)
  BY LedgerIs DEF Ledger
<1>3. charged' = asks'.cents + abandoned' + SumFunctionOnSet(OnTheWay', Browser)
  BY <1>1, <1>2
<1>4. AskIsBooked'
  BY <1>3 DEF AskIsBooked, OnTheWay, Owed
<1> QED
  BY <1>4 DEF Ledger

LEMMA LedgerNext ==
  ASSUME PlanInv, Ledger, [Next]_vars
  PROVE  Ledger'
<1>1. PICK D : proc \in [Handlers -> RowOf(D)]
  BY DEF PlanInv, Shaped
<1>2. ASSUME proc' = proc, charged' = charged, abandoned' = abandoned, asks' = asks
      PROVE  Ledger'
  BY <1>2, MoneyStays
<1>3. CASE UNCHANGED vars
  BY <1>2, <1>3 DEF vars
<1>4. CASE WorldMoves
  BY <1>2, <1>4 DEF WorldMoves
<1>5. ASSUME NEW r \in Runner, RunnerStep(r) PROVE Ledger'
  <2>1. charged' = charged /\ abandoned' = abandoned /\ asks' = asks
    BY <1>5 DEF RunnerStep, DuePreflight, DueRechecks, DueCreates
  <2>2. \E n : proc' = [proc EXCEPT ![r] = n]
    BY <1>5 DEF RunnerStep, DuePreflight, DueRechecks, DueCreates
  <2>3. \A p \in Browser : proc'[p] = proc[p]
    BY <1>1, <2>2, PlanningAssumption DEF Handlers
  <2>4. \A p \in Browser : Owed(proc'[p]) = Owed(proc[p])
    BY <2>3
  <2> QED
    BY <2>1, <2>4, MoneyStays
<1>6. ASSUME NEW on \in BOOLEAN, NEW c \in Ceilings, SetCadence(on, c)
      PROVE  Ledger'
  <2>1. charged' = charged /\ abandoned' = abandoned /\ asks' = asks
    BY <1>6 DEF SetCadence
  <2>2. ASSUME NEW p \in Browser PROVE Owed(proc'[p]) = Owed(proc[p])
    <3>1. p \in Handlers /\ proc[p] \in RowOf(D)
      BY <1>1 DEF Handlers
    <3>2. \/ proc'[p] = proc[p]
          \/ proc'[p] = [proc[p] EXCEPT !.missed = proc[p].missed \cup {proc[p].at}]
      BY <1>1, <1>6, <3>1 DEF SetCadence
    <3>3. proc'[p].at = proc[p].at /\ proc'[p].cost = proc[p].cost
      BY <3>1, <3>2 DEF RowOf
    <3> QED
      BY <3>3 DEF Owed
  <2> QED
    BY <2>1, <2>2, MoneyStays
<1> QED
  BY <1>3, <1>4, <1>5, <1>6, PageMoney DEF Next

LEMMA LedgerInit == Init => Ledger
<1> SUFFICES ASSUME Init PROVE Ledger
  OBVIOUS
<1>1. charged = 0 /\ abandoned = 0 /\ asks.cents = 0 /\ \A p \in Browser : proc[p] = Idle
  BY DEF Init
<1>2. \A p \in Browser : OnTheWay[p] = 0
  BY <1>1, IdleHolds DEF OnTheWay, Owed
<1>3. IsFiniteSet(Browser) /\ {} \in SUBSET Browser /\ IsFiniteSet({})
  BY PlanningAssumption, FS_EmptySet
<1>4. SumFunctionOnSet(OnTheWay, Browser) = SumFunctionOnSet(OnTheWay, {})
  <2>1. \A p \in Browser : OnTheWay[p] \in Int
    BY <1>2
  <2>2. \A p \in Browser \ {} : OnTheWay[p] = 0
    BY <1>2
  <2> QED
    BY <1>3, <2>1, <2>2, SumSkips
<1>5. SumFunctionOnSet(OnTheWay, {}) = 0
  BY <1>3, SumUnfolds
<1> QED
  BY <1>1, <1>4, <1>5, LedgerIs DEF Ledger

\* Every cent the gateway charged for a planning call is booked to the
\* supervisor, except for calls given up on and those whose answer is on its
\* way (SettlePlanAsk, refusePlanAsk).
THEOREM PlanningAskIsBooked == Spec => []AskIsBooked
<1>1. Init => Ledger
  BY LedgerInit
<1>2. PlanInv /\ Ledger /\ [Next]_vars => Ledger'
  BY LedgerNext
<1>3. Ledger => AskIsBooked
  BY DEF Ledger
<1> QED
  BY <1>1, <1>2, <1>3, PlanningInv, PTL DEF Spec

-----------------------------------------------------------------------------
(***************************************************************************)
(* Types: the counters, the calls asked for, the stages, the board.        *)
(***************************************************************************)
PageStages == {"idle", "page", "called", "answered", "shown", "read"}
DueStages == {"idle", "priced", "checked"}
Pending == {"called", "answered"}

Counts ==
  /\ moves \in 0..MaxMoves /\ starts \in 0..MaxStarts /\ settings \in 0..MaxSettings
  /\ cadence \in [on : BOOLEAN, ceiling : Ceilings \cup {Cap}]
Stages ==
  /\ \A p \in Browser : proc[p].at \in PageStages
  /\ \A r \in Runner : proc[r].at \in DueStages
Named == \A i \in DOMAIN board : \A k \in DOMAIN board[i].items : board[i].items[k].who \in Names

Waiting == {p \in Browser : proc[p].at \in Pending}
Settled == asks.accepted + asks.refused

PlanTypes == Counts /\ Stages /\ Named /\ Asked <= MaxAsks /\ raced \subseteq Labels

LEMMA CountsNext ==
  ASSUME Counts, [Next]_vars
  PROVE  Counts'
<1> DEFINE C == [on : BOOLEAN, ceiling : Ceilings \cup {Cap}]
<1>1. MaxMoves \in Nat /\ MaxStarts \in Nat /\ MaxSettings \in Nat
  BY PlanningAssumption
<1>2. moves \in 0..MaxMoves /\ starts \in 0..MaxStarts /\ settings \in 0..MaxSettings
      /\ cadence \in C
  BY DEF Counts
<1>3. moves' = moves \/ (moves < MaxMoves /\ moves' = moves + 1)
  BY DEF Next, vars, WorldMoves, SetCadence, BrowserStep, OpenPage, ReadPlan, ReadModelPlan,
         Approve, AskRefused, AskCalls, GatewayAnswers, AskGivesUp, AskReturns,
         RunnerStep, DuePreflight, DueRechecks, DueCreates
<1>4. starts' = starts \/ (starts < MaxStarts /\ starts' = starts + 1)
  BY DEF Next, vars, WorldMoves, SetCadence, BrowserStep, OpenPage, ReadPlan, ReadModelPlan,
         Approve, AskRefused, AskCalls, GatewayAnswers, AskGivesUp, AskReturns,
         RunnerStep, DuePreflight, DueRechecks, DueCreates
<1>5. \/ settings' = settings /\ cadence' = cadence
      \/ /\ settings < MaxSettings /\ settings' = settings + 1
         /\ \E on \in BOOLEAN, c \in Ceilings : cadence' = [on |-> on, ceiling |-> c]
  BY DEF Next, vars, WorldMoves, SetCadence, BrowserStep, OpenPage, ReadPlan, ReadModelPlan,
         Approve, AskRefused, AskCalls, GatewayAnswers, AskGivesUp, AskReturns,
         RunnerStep, DuePreflight, DueRechecks, DueCreates
<1>6. moves' \in 0..MaxMoves /\ starts' \in 0..MaxStarts /\ settings' \in 0..MaxSettings
  BY <1>1, <1>2, <1>3, <1>4, <1>5
<1>7. cadence' \in C
  BY <1>2, <1>5
<1> QED
  BY <1>6, <1>7 DEF Counts

\* Who puts a sprint on the board: a page, under the plan's name or the
\* model's, or a cadence run under its own.
LEMMA BoardMoves ==
  ASSUME [Next]_vars
  PROVE  \/ board' = board /\ raced' = raced
         \/ \E p \in Browser, by \in {"plan", "model"} : Materialise(p, by)
         \/ \E r \in Runner : DueCreates(r)
<1>1. ASSUME NEW p \in Browser, BrowserStep(p)
      PROVE  \/ board' = board /\ raced' = raced
             \/ \E by \in {"plan", "model"} : Materialise(p, by)
  BY <1>1 DEF BrowserStep, OpenPage, ReadPlan, ReadModelPlan, Approve, AskRefused, AskCalls,
              GatewayAnswers, AskGivesUp, AskReturns
<1>2. ASSUME NEW r \in Runner, RunnerStep(r)
      PROVE  (board' = board /\ raced' = raced) \/ DueCreates(r)
  BY <1>2 DEF RunnerStep, DuePreflight, DueRechecks
<1>3. (\E on \in BOOLEAN, c \in Ceilings : SetCadence(on, c)) \/ WorldMoves \/ UNCHANGED vars
        => board' = board /\ raced' = raced
  BY DEF SetCadence, WorldMoves, vars
<1> QED
  BY <1>1, <1>2, <1>3 DEF Next

LEMMA Materialised ==
  ASSUME Shaped, PlanFit, NEW p \in Handlers, NEW by, Materialise(p, by)
  PROVE  /\ Len(board') = Len(board) + 1 /\ Len(board) \in Nat
         /\ DOMAIN board = 1..Len(board) /\ DOMAIN board' = 1..(Len(board) + 1)
         /\ \A i \in DOMAIN board : board'[i] = board[i]
         /\ board'[Len(board) + 1].items = proc[p].items
         /\ board'[Len(board) + 1].label = proc[p].label
         /\ board'[Len(board) + 1].by = by
         /\ raced' \subseteq raced \cup {proc[p].label}
<1> DEFINE s == [label |-> proc[p].label, by |-> by, items |-> proc[p].items,
                 shown |-> proc[p].shown, unmoved |-> proc[p].seen = world]
<1>1. board' = Append(board, s) /\ raced' \subseteq raced \cup {proc[p].label}
  BY DEF Materialise
<1>2. s.items = proc[p].items /\ s.label = proc[p].label /\ s.by = by
  OBVIOUS
<1> HIDE DEF s
<1>3. PICK S : board \in Seq(S)
  BY DEF Shaped
<1>4. /\ Len(board') = Len(board) + 1 /\ Len(board) \in Nat
      /\ DOMAIN board = 1..Len(board) /\ DOMAIN board' = 1..(Len(board) + 1)
      /\ \A i \in DOMAIN board : board'[i] = board[i]
      /\ board'[Len(board) + 1] = s
  BY <1>1, <1>3
<1> QED
  BY <1>1, <1>2, <1>4

LEMMA BoardTypes ==
  ASSUME Shaped, PlanFit, Named, raced \subseteq Labels, [Next]_vars
  PROVE  Named' /\ raced' \subseteq Labels'
<1>1. CASE board' = board /\ raced' = raced
  BY <1>1 DEF Named, Labels
<1>2. ASSUME NEW p \in Handlers, NEW by, Materialise(p, by)
      PROVE  Named' /\ raced' \subseteq Labels'
  <2> DEFINE n == Len(board) + 1
  <2>1. /\ n \in Nat /\ DOMAIN board = 1..Len(board) /\ DOMAIN board' = 1..n /\ Len(board) \in Nat
        /\ \A i \in DOMAIN board : board'[i] = board[i]
        /\ board'[n].items = proc[p].items /\ board'[n].label = proc[p].label
        /\ raced' \subseteq raced \cup {proc[p].label}
    BY <1>2, Materialised
  <2> HIDE DEF n
  <2>2. \A k \in DOMAIN proc[p].items : proc[p].items[k].who \in Names
    <3>1. proc[p].items \in Seq(ItemOf(Int))
      BY DEF PlanFit, Fit
    <3>2. \A k \in DOMAIN proc[p].items : proc[p].items[k] \in ItemOf(Int)
      BY <3>1
    <3> QED
      BY <3>2 DEF ItemOf
  <2>3. ASSUME NEW i \in DOMAIN board', NEW k \in DOMAIN board'[i].items
        PROVE  board'[i].items[k].who \in Names
    <3>1. CASE i \in DOMAIN board
      BY <2>1, <2>3, <3>1 DEF Named
    <3>2. CASE i = n
      BY <2>1, <2>2, <2>3, <3>2
    <3> QED
      BY <2>1, <3>1, <3>2 DEF n
  <2>4. ASSUME NEW l \in raced' PROVE l \in Labels'
    <3>1. CASE l \in raced
      <4>1. PICK i \in DOMAIN board : board[i].label = l
        BY <3>1 DEF Labels
      <4>2. i \in DOMAIN board' /\ board'[i].label = l
        BY <2>1, <4>1 DEF n
      <4> QED
        BY <4>2 DEF Labels
    <3>2. CASE l = proc[p].label
      <4>1. n \in DOMAIN board' /\ board'[n].label = l
        BY <2>1, <3>2 DEF n
      <4> QED
        BY <4>1 DEF Labels
    <3> QED
      BY <2>1, <2>4, <3>1, <3>2
  <2> QED
    BY <2>3, <2>4 DEF Named
<1>3. CASE \E p \in Browser, by \in {"plan", "model"} : Materialise(p, by)
  BY <1>2, <1>3 DEF Handlers
<1>4. CASE \E r \in Runner : DueCreates(r)
  BY <1>2, <1>4 DEF Handlers, DueCreates
<1> QED
  BY <1>1, <1>3, <1>4, BoardMoves

\* What a browser's step does to its stage and to the count of calls.
LEMMA PageStage ==
  ASSUME PlanInv, Stages, NEW p \in Browser, BrowserStep(p)
  PROVE  /\ \A q \in Handlers \ {p} : proc'[q] = proc[q]
         /\ proc'[p].at \in PageStages
         /\ \/ Asked < MaxAsks /\ Settled' = Settled /\ proc'[p].at \in Pending
            \/ Settled' = Settled + 1 /\ proc[p].at \in Pending /\ proc'[p].at \notin Pending
            \/ Asked < MaxAsks /\ Settled' = Settled + 1 /\ proc'[p].at = proc[p].at
            \/ Settled' = Settled /\ (proc'[p].at \in Pending => proc[p].at \in Pending)
<1> DEFINE r == proc[p]
<1>1. PICK D : proc \in [Handlers -> RowOf(D)]
  BY DEF PlanInv, Shaped
<1>2. p \in Handlers /\ r \in RowOf(D) /\ Fit(r) /\ PlanFit /\ r.at \in PageStages
  BY <1>1 DEF Handlers, PlanInv, PlanFit, Stages
<1>3. ASSUME NEW n, proc' = [proc EXCEPT ![p] = n]
      PROVE  proc'[p] = n /\ \A q \in Handlers \ {p} : proc'[q] = proc[q]
  BY <1>1, <1>2, <1>3
<1>4. Idle.at = "idle"
  BY DEF Idle
<1>5. asks' = asks => Settled' = Settled
  BY DEF Settled
<1>6. CASE \E g \in Goals : OpenPage(p, g)
  <2>1. PICK g \in Goals : OpenPage(p, g)
    BY <1>6
  <2> DEFINE n == [Idle EXCEPT !.at = "page", !.label = NextWeek, !.goal = g]
  <2>2. proc' = [proc EXCEPT ![p] = n] /\ asks' = asks
    BY <2>1 DEF OpenPage
  <2>3. n.at = "page"
    BY DEF Idle
  <2> HIDE DEF n
  <2> QED
    BY <1>3, <1>5, <2>2, <2>3 DEF PageStages, Pending
<1>7. CASE ReadPlan(p)
  <2> DEFINE n == [Idle EXCEPT !.at = "read", !.label = r.label, !.items = ProposeFor(p),
                               !.exists = r.label \in Labels]
  <2>1. proc' = [proc EXCEPT ![p] = n] /\ asks' = asks
    BY <1>7 DEF ReadPlan
  <2>2. n.at = "read"
    BY DEF Idle
  <2> HIDE DEF n
  <2> QED
    BY <1>3, <1>5, <2>1, <2>2 DEF PageStages, Pending
<1>8. CASE ReadModelPlan(p)
  <2> DEFINE det == ProposeFor(p)
             e == r.label \in Labels
             m == ModelPlanFrom(det, r.answer)
             n == [r EXCEPT !.at = "read", !.det = det, !.items = m, !.exists = e]
  <2>1. /\ proc' = [proc EXCEPT ![p] = n] \/ proc' = [proc EXCEPT ![p] = Idle]
        /\ asks' = asks
    BY <1>1, <1>2, <1>8 DEF ReadModelPlan
  <2>2. n.at = "read"
    <3> HIDE DEF det, e, m
    <3> QED BY <1>2 DEF RowOf
  <2> HIDE DEF n
  <2>3. proc'[p].at \in {"read", "idle"} /\ \A q \in Handlers \ {p} : proc'[q] = proc[q]
    BY <1>3, <1>4, <2>1, <2>2
  <2> QED
    BY <1>5, <2>1, <2>3 DEF PageStages, Pending
<1>9. CASE Approve(p)
  <2>1. proc' = [proc EXCEPT ![p] = Idle] /\ asks' = asks
    BY <1>9 DEF Approve
  <2> QED
    BY <1>3, <1>4, <1>5, <2>1 DEF PageStages, Pending
<1>10. CASE AskRefused(p)
  <2>1. proc' = proc /\ asks' = [asks EXCEPT !.refused = @ + 1] /\ Asked < MaxAsks
    BY <1>10 DEF AskRefused
  <2>2. Settled' = Settled + 1
    BY <1>2, <2>1 DEF PlanFit, Settled
  <2> QED
    BY <1>2, <2>1, <2>2
<1>11. CASE AskCalls(p)
  <2> DEFINE d == ByGuard(ProposeFor(p))
             n == [r EXCEPT !.at = "called", !.det = d, !.seen = world]
  <2>1. /\ proc' = [proc EXCEPT ![p].at = "called", ![p].det = d, ![p].seen = world]
        /\ asks' = asks /\ Asked < MaxAsks
    BY <1>11 DEF AskCalls
  <2>2. proc' = [proc EXCEPT ![p] = n]
    <3> HIDE DEF d
    <3> QED BY <1>1, <1>2, <2>1
  <2>3. n.at = "called"
    <3> HIDE DEF d
    <3> QED BY <1>2 DEF RowOf
  <2> HIDE DEF n
  <2> QED
    BY <1>3, <1>5, <2>1, <2>2, <2>3 DEF PageStages, Pending
<1>12. CASE GatewayAnswers(p)
  <2> DEFINE n == [r EXCEPT !.at = "answered", !.cost = AskCost]
  <2>1. /\ proc' = [proc EXCEPT ![p].at = "answered", ![p].cost = AskCost]
        /\ r.at = "called" /\ asks' = asks
    BY <1>12 DEF GatewayAnswers
  <2>2. proc' = [proc EXCEPT ![p] = n]
    BY <1>1, <1>2, <2>1
  <2>3. n.at = "answered"
    BY <1>2 DEF RowOf
  <2> HIDE DEF n
  <2> QED
    BY <1>3, <1>5, <2>1, <2>2, <2>3 DEF PageStages, Pending
<1>13. CASE AskGivesUp(p)
  <2> DEFINE n == [Idle EXCEPT !.at = "page", !.label = r.label, !.goal = r.goal]
  <2>1. proc' = [proc EXCEPT ![p] = n] /\ SettleAsk(FALSE, 0) /\ r.at \in Pending
    BY <1>13 DEF AskGivesUp, Pending
  <2>2. Settled' = Settled + 1
    <3>1. FALSE \in BOOLEAN /\ 0 \in Nat
      OBVIOUS
    <3> QED
      BY <1>2, <2>1, <3>1, Settles DEF Settled
  <2>3. n.at = "page"
    BY DEF Idle
  <2> HIDE DEF n
  <2> QED
    BY <1>3, <2>1, <2>2, <2>3 DEF PageStages, Pending
<1>14. CASE \E a \in Answers : AskReturns(p, a)
  <2>1. PICK a \in Answers : AskReturns(p, a)
    BY <1>14
  <2> DEFINE holds == ValidatePlanAnswer(r.seen, r.det, a)
             w == IF r.seen = world THEN world' ELSE r.seen
             s == ByGuard(ModelPlanFrom(r.det, a))
             n == [r EXCEPT !.at = "shown", !.answer = a, !.cost = 0, !.seen = w, !.shown = s]
             m == [Idle EXCEPT !.at = "page", !.label = r.label, !.goal = r.goal]
  <2>2. /\ SettleAsk(holds, r.cost) /\ r.at \in Pending
        /\ proc' = [proc EXCEPT ![p] = IF holds THEN n ELSE m]
    BY <2>1 DEF AskReturns, Pending
  <2>3. Settled' = Settled + 1
    <3>1. holds \in BOOLEAN /\ r.cost \in Nat
      BY <1>2 DEF ValidatePlanAnswer, Fit
    <3> HIDE DEF holds
    <3> QED
      BY <1>2, <2>2, <3>1, Settles DEF Settled
  <2>4. n.at = "shown" /\ m.at = "page"
    <3>1. n.at = "shown"
      <4> HIDE DEF w, s
      <4> QED BY <1>2 DEF RowOf
    <3> QED
      BY <3>1 DEF Idle
  <2> HIDE DEF n, m, holds
  <2>5. proc' = [proc EXCEPT ![p] = n] \/ proc' = [proc EXCEPT ![p] = m]
    BY <2>2
  <2>6. proc'[p].at \in {"shown", "page"} /\ \A q \in Handlers \ {p} : proc'[q] = proc[q]
    BY <1>3, <2>4, <2>5
  <2> QED
    BY <2>2, <2>3, <2>6 DEF PageStages, Pending
<1> QED
  BY <1>6, <1>7, <1>8, <1>9, <1>10, <1>11, <1>12, <1>13, <1>14 DEF BrowserStep

\* The calls in flight, when one browser moves.
LEMMA WaitingMoves ==
  ASSUME NEW p \in Browser, \A q \in Browser \ {p} : proc'[q] = proc[q]
  PROVE  /\ Cardinality(Waiting) \in Nat /\ Cardinality(Waiting') \in Nat
         /\ proc'[p].at \in Pending => Cardinality(Waiting') <= Cardinality(Waiting) + 1
         /\ (proc'[p].at \in Pending => proc[p].at \in Pending)
              => Cardinality(Waiting') <= Cardinality(Waiting)
         /\ proc[p].at \in Pending /\ proc'[p].at \notin Pending
              => Cardinality(Waiting') + 1 = Cardinality(Waiting)
<1> DEFINE V == Waiting
           W == Waiting'
<1>1. IsFiniteSet(V) /\ IsFiniteSet(W)
  <2>1. V \in SUBSET Browser /\ W \in SUBSET Browser
    BY DEF Waiting
  <2> HIDE DEF V, W
  <2> QED
    BY <2>1, PlanningAssumption, FS_Subset
<1>2. /\ \A q \in Browser : q \in V <=> proc[q].at \in Pending
      /\ \A q \in Browser : q \in W <=> proc'[q].at \in Pending
      /\ V \subseteq Browser /\ W \subseteq Browser
  BY DEF Waiting
<1> HIDE DEF V, W
<1>3. Cardinality(V) \in Nat /\ Cardinality(W) \in Nat
  BY <1>1, FS_CardinalityType
<1>4. ASSUME proc'[p].at \in Pending PROVE Cardinality(W) <= Cardinality(V) + 1
  <2>1. W \in SUBSET (V \cup {p})
    BY <1>2
  <2>2. IsFiniteSet(V \cup {p}) /\ (Cardinality(V \cup {p}) = Cardinality(V)
                                     \/ Cardinality(V \cup {p}) = Cardinality(V) + 1)
    BY <1>1, FS_AddElement
  <2>3. Cardinality(W) <= Cardinality(V \cup {p})
    BY <2>1, <2>2, FS_Subset
  <2> QED
    BY <1>3, <2>2, <2>3
<1>5. ASSUME proc'[p].at \in Pending => proc[p].at \in Pending
      PROVE  Cardinality(W) <= Cardinality(V)
  <2>1. W \in SUBSET V
    BY <1>2, <1>5
  <2> QED
    BY <1>1, <2>1, FS_Subset
<1>6. ASSUME proc[p].at \in Pending, proc'[p].at \notin Pending
      PROVE  Cardinality(W) + 1 = Cardinality(V)
  <2>1. W = V \ {p} /\ p \in V
    BY <1>2, <1>6
  <2>2. Cardinality(V \ {p}) = Cardinality(V) - 1
    BY <1>1, <2>1, FS_RemoveElement
  <2> QED
    BY <1>3, <2>1, <2>2
<1> QED
  BY <1>3, <1>4, <1>5, <1>6 DEF V, W

LEMMA AskedIs == Asked = Settled + Cardinality(Waiting)
BY DEF Asked, Settled, Waiting, Pending

\* Nobody's stage changes.
LEMMA StagesStay ==
  ASSUME Stages, Asked <= MaxAsks, asks' = asks,
         \A p \in Browser : proc'[p].at = proc[p].at,
         \A r \in Runner : proc'[r].at \in DueStages
  PROVE  Stages' /\ Asked' <= MaxAsks
<1>1. Stages'
  BY DEF Stages
<1>2. Asked' = Asked
  BY DEF Asked
<1> QED
  BY <1>1, <1>2

LEMMA StagesNext ==
  ASSUME PlanInv, Stages, Asked <= MaxAsks, [Next]_vars
  PROVE  Stages' /\ Asked' <= MaxAsks
<1>1. PICK D : proc \in [Handlers -> RowOf(D)]
  BY DEF PlanInv, Shaped
<1>2. (\A p \in Browser : proc[p].at \in PageStages) /\ \A r \in Runner : proc[r].at \in DueStages
  BY DEF Stages
<1>3. CASE UNCHANGED vars
  BY <1>2, <1>3, StagesStay DEF vars
<1>4. CASE WorldMoves
  BY <1>2, <1>4, StagesStay DEF WorldMoves
<1>5. ASSUME NEW on \in BOOLEAN, NEW c \in Ceilings, SetCadence(on, c)
      PROVE  Stages' /\ Asked' <= MaxAsks
  <2>1. ASSUME NEW p \in Handlers PROVE proc'[p].at = proc[p].at
    <3>1. proc[p] \in RowOf(D)
      BY <1>1
    <3>2. \/ proc'[p] = proc[p]
          \/ proc'[p] = [proc[p] EXCEPT !.missed = proc[p].missed \cup {proc[p].at}]
      BY <1>1, <1>5 DEF SetCadence
    <3> QED
      BY <3>1, <3>2 DEF RowOf
  <2>2. asks' = asks
    BY <1>5 DEF SetCadence
  <2> QED
    BY <1>2, <2>1, <2>2, StagesStay DEF Handlers
<1>6. ASSUME NEW r \in Runner, RunnerStep(r)
      PROVE  Stages' /\ Asked' <= MaxAsks
  <2> DEFINE i == CadenceDue(world, Today)
             o == WouldRun(world, i)
             c == EffectiveCeiling(cadence.ceiling)
             n == [Idle EXCEPT !.at = "priced", !.label = CadenceLabel, !.items = i,
                               !.would = o, !.ceiling = c]
             m == [proc[r] EXCEPT !.at = "checked"]
  <2>1. \/ proc' = [proc EXCEPT ![r] = n] \/ proc' = [proc EXCEPT ![r] = m]
        \/ proc' = [proc EXCEPT ![r] = Idle]
    BY <1>1, <1>6 DEF RunnerStep, DuePreflight, DueRechecks, DueCreates, Handlers
  <2>2. n.at = "priced" /\ m.at = "checked" /\ Idle.at = "idle"
    <3>1. n.at = "priced" /\ Idle.at = "idle"
      BY DEF Idle
    <3>2. m.at = "checked"
      BY <1>1 DEF RowOf, Handlers
    <3> QED
      BY <3>1, <3>2
  <2> HIDE DEF n, m
  <2>3. proc'[r].at \in DueStages /\ \A q \in Handlers \ {r} : proc'[q] = proc[q]
    BY <1>1, <2>1, <2>2 DEF DueStages, Handlers
  <2>4. /\ \A p \in Browser : proc'[p].at = proc[p].at
        /\ \A q \in Runner : proc'[q].at \in DueStages
    BY <1>2, <2>3, PlanningAssumption DEF Handlers
  <2>5. asks' = asks
    BY <1>6 DEF RunnerStep, DuePreflight, DueRechecks, DueCreates
  <2> QED
    BY <2>4, <2>5, StagesStay
<1>7. ASSUME NEW p \in Browser, BrowserStep(p)
      PROVE  Stages' /\ Asked' <= MaxAsks
  <2>1. /\ \A q \in Handlers \ {p} : proc'[q] = proc[q]
        /\ proc'[p].at \in PageStages
    BY <1>7, PageStage
  <2>2. \/ Asked < MaxAsks /\ Settled' = Settled /\ proc'[p].at \in Pending
        \/ Settled' = Settled + 1 /\ proc[p].at \in Pending /\ proc'[p].at \notin Pending
        \/ Asked < MaxAsks /\ Settled' = Settled + 1 /\ proc'[p].at = proc[p].at
        \/ Settled' = Settled /\ (proc'[p].at \in Pending => proc[p].at \in Pending)
    BY <1>7, PageStage
  <2>3. Stages'
    BY <1>2, <2>1, PlanningAssumption DEF Stages, Handlers
  <2>4. \A q \in Browser \ {p} : proc'[q] = proc[q]
    BY <2>1 DEF Handlers
  <2> DEFINE v == Cardinality(Waiting)
             w == Cardinality(Waiting')
  <2>5. /\ v \in Nat /\ w \in Nat
        /\ proc'[p].at \in Pending => w <= v + 1
        /\ (proc'[p].at \in Pending => proc[p].at \in Pending) => w <= v
        /\ proc[p].at \in Pending /\ proc'[p].at \notin Pending => w + 1 = v
    BY <2>4, WaitingMoves
  <2>6. Asked = Settled + v /\ Asked' = Settled' + w
    BY DEF Asked, Settled, Waiting, Pending
  <2>7. Settled \in Nat /\ Settled' \in Nat /\ MaxAsks \in Nat
    <3>1. PlanFit /\ PlanFit'
      BY <1>7, PageStepFits DEF PlanInv
    <3> QED
      BY <3>1, PlanningAssumption DEF PlanFit, Settled
  <2> DEFINE a == Settled
             b == Settled'
             x == Asked
             y == Asked'
  <2> HIDE DEF v, w, a, b, x, y
  <2>8. y <= MaxAsks
    <3>1. x = a + v /\ y = b + w /\ a \in Nat /\ b \in Nat /\ v \in Nat /\ w \in Nat /\ x <= MaxAsks
      BY <2>5, <2>6, <2>7 DEF v, w, a, b, x, y
    <3>2. \/ x < MaxAsks /\ b = a /\ w <= v + 1
          \/ b = a + 1 /\ w + 1 = v
          \/ x < MaxAsks /\ b = a + 1 /\ w <= v
          \/ b = a /\ w <= v
      BY <2>2, <2>5 DEF a, b, x
    <3> QED
      BY <2>7, <3>1, <3>2
  <2> QED
    BY <2>3, <2>8 DEF y
<1> QED
  BY <1>3, <1>4, <1>5, <1>6, <1>7 DEF Next

LEMMA TypesInit == Init => PlanTypes
<1> SUFFICES ASSUME Init PROVE PlanTypes
  OBVIOUS
<1>1. MaxMoves \in Nat /\ MaxStarts \in Nat /\ MaxSettings \in Nat /\ MaxAsks \in Nat
  BY PlanningAssumption
<1>2. Counts
  BY <1>1 DEF Init, Counts
<1>3. (\A p \in Browser : proc[p] = Idle) /\ \A r \in Runner : proc[r] = Idle
  BY DEF Init
<1>4. Stages
  BY <1>3, IdleHolds DEF Stages, PageStages, DueStages
<1>5. board = <<>> /\ raced = {}
  BY DEF Init
<1>6. Named /\ raced \subseteq Labels
  BY <1>5 DEF Named
<1>7. Asked <= MaxAsks
  <2>1. Waiting = {}
    BY <1>3, IdleHolds DEF Waiting, Pending
  <2>2. Settled = 0
    BY DEF Init, Settled
  <2>3. Asked = 0
    BY <2>1, <2>2, AskedIs, FS_EmptySet
  <2> QED
    BY <1>1, <2>3
<1> QED
  BY <1>2, <1>4, <1>6, <1>7 DEF PlanTypes

\* The rows keep their shape: no more calls are asked for than allowed, and
\* every item that gets onto the board is for a name the console knows, be the
\* plan a proposal or a model's (Propose, ValidatePlanAnswer).
THEOREM PlanningTypeOK == Spec => []TypeOK
<1>1. PlanInv /\ PlanTypes /\ [Next]_vars => PlanTypes'
  <2> SUFFICES ASSUME PlanInv, PlanTypes, [Next]_vars PROVE PlanTypes'
    OBVIOUS
  <2>1. Counts'
    BY CountsNext DEF PlanTypes
  <2>2. Named' /\ raced' \subseteq Labels'
    BY BoardTypes DEF PlanTypes, PlanInv
  <2>3. Stages' /\ Asked' <= MaxAsks
    BY StagesNext DEF PlanTypes
  <2> QED
    BY <2>1, <2>2, <2>3 DEF PlanTypes
<1>2. Init => Ledger
  BY LedgerInit
<1>3. PlanInv /\ Ledger /\ [Next]_vars => Ledger'
  BY LedgerNext
<1>4. PlanInv /\ PlanTypes /\ Ledger => TypeOK
  <2> SUFFICES ASSUME PlanInv, PlanTypes, Ledger PROVE TypeOK
    OBVIOUS
  <2>1. asks \in [accepted : 0..MaxAsks, refused : 0..MaxAsks, cents : Nat]
    <3>1. asks \in [accepted : Nat, refused : Nat, cents : Nat] /\ Settled \in Nat
      BY DEF PlanInv, PlanFit, Settled
    <3>2. Cardinality(Waiting) \in Nat
      <4>1. Waiting \in SUBSET Browser
        BY DEF Waiting
      <4> QED
        BY <4>1, PlanningAssumption, FS_Subset, FS_CardinalityType
    <3>3. Settled + Cardinality(Waiting) <= MaxAsks /\ MaxAsks \in Nat
      BY AskedIs, PlanningAssumption DEF PlanTypes
    <3>4. asks.accepted <= MaxAsks /\ asks.refused <= MaxAsks
      <4>1. Settled <= MaxAsks
        BY <3>1, <3>2, <3>3
      <4> QED
        BY <3>1, <3>3, <4>1 DEF Settled
    <3> QED
      BY <3>1, <3>3, <3>4
  <2>2. \A p \in DOMAIN proc :
          proc[p].at \in IF p \in Browser THEN {"idle", "page", "called", "answered", "shown", "read"}
                         ELSE {"idle", "priced", "checked"}
    <3>1. DOMAIN proc = Handlers
      BY DEF PlanInv, Shaped
    <3> QED
      BY <3>1 DEF PlanTypes, Stages, PageStages, DueStages, Handlers
  <2> QED
    BY <2>1, <2>2 DEF TypeOK, PlanInv, PlanFit, PlanTypes, Counts, Named, Ledger
<1> QED
  BY <1>1, <1>2, <1>3, <1>4, TypesInit, PlanningInv, PTL DEF Spec

-----------------------------------------------------------------------------
(***************************************************************************)
(* A cadence run obeys the page as it read it.                             *)
(***************************************************************************)
DueHolds(r) ==
  r.at \in {"priced", "checked"} =>
    /\ r.ceiling \in Int /\ r.ceiling <= Cap
    /\ r.missed = {} => r.ceiling <= cadence.ceiling
    /\ r.would \subseteq DOMAIN r.items
    /\ r.at = "checked" => DueWorst(r.items, r.would) <= r.ceiling
                           /\ (cadence.on \/ "checked" \in r.missed)

DueInv == Counts /\ \A r \in Runner : DueHolds(proc[r])

LEMMA WorstTyped ==
  ASSUME NEW items \in Seq(ItemOf(Int)), NEW W \in SUBSET DOMAIN items
  PROVE  DueWorst(items, W) \in Int
<1> DEFINE h == [i \in W |-> Worst[items[i].who]]
<1>1. \A i \in DOMAIN items : items[i] \in ItemOf(Int)
  OBVIOUS
<1>2. \A i \in DOMAIN items : Worst[items[i].who] \in Int
  BY <1>1, PlanningAssumption DEF ItemOf
<1>3. W \in SUBSET DOMAIN items /\ IsFiniteSet(DOMAIN items)
  BY PlacesAreFinite
<1>4. IsFiniteSet(W)
  BY <1>3, FS_Subset
<1>5. \A i \in W : h[i] \in Int
  BY <1>2, <1>3
<1> HIDE DEF h
<1>6. SumFunctionOnSet(h, W) \in Int
  BY <1>4, <1>5, SumType
<1> QED
  BY <1>6 DEF DueWorst, h

\* A run whose row is left alone, as are the page's switch and ceiling.
LEMMA DueStays ==
  ASSUME DueInv, Counts', cadence' = cadence, NEW p,
         \A q \in Runner \ {p} : proc'[q] = proc[q],
         p \in Runner => DueHolds(proc[p])'
  PROVE  DueInv'
<1>1. ASSUME NEW q \in Runner PROVE DueHolds(proc[q])'
  <2>1. CASE q = p
    BY <2>1
  <2>2. CASE q # p
    <3>1. proc'[q] = proc[q] /\ DueHolds(proc[q])
      BY <2>2 DEF DueInv
    <3> QED
      BY <3>1 DEF DueHolds
  <2> QED
    BY <2>1, <2>2
<1> QED
  BY <1>1 DEF DueInv

\* A browser's step writes its own row.
LEMMA PageAlone ==
  ASSUME PlanInv, NEW p \in Browser, BrowserStep(p)
  PROVE  \A q \in Handlers \ {p} : proc'[q] = proc[q]
<1>1. PICK D : proc \in [Handlers -> RowOf(D)]
  BY DEF PlanInv, Shaped
<1>2. proc' = proc \/ \E n : proc' = [proc EXCEPT ![p] = n]
  <2>1. CASE AskCalls(p)
    <3> DEFINE n == [proc[p] EXCEPT !.at = "called", !.det = ByGuard(ProposeFor(p)), !.seen = world]
    <3>1. proc' = [proc EXCEPT ![p] = n]
      BY <1>1, <2>1 DEF AskCalls, Handlers
    <3> HIDE DEF n
    <3> QED
      BY <3>1
  <2>2. CASE GatewayAnswers(p)
    <3>1. proc' = [proc EXCEPT ![p] = [proc[p] EXCEPT !.at = "answered", !.cost = AskCost]]
      BY <1>1, <2>2 DEF GatewayAnswers, Handlers
    <3> QED
      BY <3>1
  <2>3. CASE ~AskCalls(p) /\ ~GatewayAnswers(p)
    BY <2>3 DEF BrowserStep, OpenPage, ReadPlan, ReadModelPlan, Approve, AskRefused,
                AskGivesUp, AskReturns
  <2> QED
    BY <2>1, <2>2, <2>3
<1> QED
  BY <1>1, <1>2 DEF Handlers

LEMMA DueNext ==
  ASSUME PlanInv, DueInv, [Next]_vars
  PROVE  DueInv'
<1>1. PICK D : proc \in [Handlers -> RowOf(D)]
  BY DEF PlanInv, Shaped
<1>2. Counts'
  BY CountsNext DEF DueInv
<1>3. Cap \in Int /\ cadence.ceiling \in Int
  BY PlanningAssumption DEF DueInv, Counts
<1>4. CASE UNCHANGED vars
  <2>1. cadence' = cadence /\ proc' = proc
    BY <1>4 DEF vars
  <2> QED
    BY <1>2, <2>1 DEF DueInv, DueHolds
<1>5. CASE WorldMoves
  <2>1. cadence' = cadence /\ proc' = proc
    BY <1>5 DEF WorldMoves
  <2> QED
    BY <1>2, <2>1 DEF DueInv, DueHolds
<1>6. ASSUME NEW on \in BOOLEAN, NEW c \in Ceilings, SetCadence(on, c)
      PROVE  DueInv'
  <2>1. ASSUME NEW r \in Runner PROVE DueHolds(proc[r])'
    <3>1. r \in Handlers /\ proc[r] \in RowOf(D) /\ DueHolds(proc[r])
      BY <1>1 DEF Handlers, DueInv
    <3>2. CASE proc[r].at \in {"priced", "checked"}
      <4> DEFINE m == proc[r].missed \cup {proc[r].at}
                 n == [proc[r] EXCEPT !.missed = m]
      <4>1. proc'[r] = n
        BY <1>1, <1>6, <3>1, <3>2 DEF SetCadence
      <4>2. proc[r].at \in m
        OBVIOUS
      <4> HIDE DEF m
      <4>3. /\ n.at = proc[r].at /\ n.missed = m /\ n.ceiling = proc[r].ceiling
            /\ n.items = proc[r].items /\ n.would = proc[r].would
        BY <3>1 DEF RowOf
      <4> HIDE DEF n
      <4> QED
        BY <3>1, <4>1, <4>2, <4>3 DEF DueHolds
    <3>3. CASE proc[r].at \notin {"priced", "checked"}
      <4>1. proc'[r] = proc[r]
        BY <1>1, <1>6, <3>1, <3>3 DEF SetCadence
      <4> QED
        BY <3>3, <4>1 DEF DueHolds
    <3> QED
      BY <3>2, <3>3
  <2> QED
    BY <1>2, <2>1 DEF DueInv
<1>7. ASSUME NEW p \in Browser, BrowserStep(p)
      PROVE  DueInv'
  <2>1. cadence' = cadence
    BY <1>7 DEF BrowserStep, OpenPage, ReadPlan, ReadModelPlan, Approve, AskRefused, AskCalls,
                GatewayAnswers, AskGivesUp, AskReturns
  <2>2. \A q \in Handlers \ {p} : proc'[q] = proc[q]
    BY <1>7, PageAlone
  <2> QED
    BY <1>2, <2>1, <2>2, DueStays, PlanningAssumption DEF Handlers
<1>8. ASSUME NEW p \in Runner, RunnerStep(p)
      PROVE  DueInv'
  <2> DEFINE r == proc[p]
  <2>1. cadence' = cadence
    BY <1>8 DEF RunnerStep, DuePreflight, DueRechecks, DueCreates
  <2>2. p \in Handlers /\ r \in RowOf(D) /\ DueHolds(r)
    BY <1>1 DEF Handlers, DueInv
  <2>3. ASSUME NEW n, proc' = [proc EXCEPT ![p] = n], DueHolds(n)
        PROVE  DueInv'
    <3>1. proc'[p] = n /\ \A q \in Runner \ {p} : proc'[q] = proc[q]
      BY <1>1, <2>2, <2>3 DEF Handlers
    <3>2. DueHolds(proc[p])'
      BY <2>1, <2>3, <3>1 DEF DueHolds
    <3> QED
      BY <1>2, <2>1, <3>1, <3>2, DueStays
  <2>4. DueHolds(Idle)
    BY IdleHolds DEF DueHolds
  <2>5. CASE DuePreflight(p)
    <3> DEFINE d == CadenceDue(world, Today)
               o == WouldRun(world, d)
               c == EffectiveCeiling(cadence.ceiling)
               n == [Idle EXCEPT !.at = "priced", !.label = CadenceLabel, !.items = d,
                                 !.would = o, !.ceiling = c]
    <3>1. proc' = [proc EXCEPT ![p] = n]
      BY <2>5 DEF DuePreflight
    <3>2. c \in Int /\ c <= Cap /\ c <= cadence.ceiling
      BY <1>3 DEF EffectiveCeiling
    <3>5. o \subseteq DOMAIN d
      BY DEF WouldRun
    <3> HIDE DEF d, o, c
    <3>3. n.at = "priced" /\ n.ceiling = c /\ n.items = d /\ n.would = o
      BY DEF Idle
    <3> HIDE DEF n
    <3>4. DueHolds(n)
      BY <3>2, <3>3, <3>5 DEF DueHolds
    <3> QED
      BY <2>3, <3>1, <3>4
  <2>6. CASE DueRechecks(p)
    <3>1. CASE DueStands(p)
      <4> DEFINE n == [r EXCEPT !.at = "checked"]
      <4>1. proc' = [proc EXCEPT ![p] = n] /\ r.at = "priced"
        BY <1>1, <2>2, <2>6, <3>1 DEF DueRechecks
      <4>2. cadence.on /\ DueWorst(r.items, r.would) <= r.ceiling
        BY <3>1 DEF DueStands
      <4>3. /\ n.at = "checked" /\ n.missed = r.missed /\ n.ceiling = r.ceiling
            /\ n.items = r.items /\ n.would = r.would
        BY <2>2 DEF RowOf
      <4> HIDE DEF n
      <4>4. DueHolds(n)
        BY <2>2, <4>1, <4>2, <4>3 DEF DueHolds
      <4> QED
        BY <2>3, <4>1, <4>4
    <3>2. CASE ~DueStands(p)
      <4>1. proc' = [proc EXCEPT ![p] = Idle]
        BY <2>6, <3>2 DEF DueRechecks
      <4> QED
        BY <2>3, <2>4, <4>1
    <3> QED
      BY <3>1, <3>2
  <2>7. CASE DueCreates(p)
    <3>1. proc' = [proc EXCEPT ![p] = Idle]
      BY <2>7 DEF DueCreates
    <3> QED
      BY <2>3, <2>4, <3>1
  <2> QED
    BY <1>8, <2>5, <2>6, <2>7 DEF RunnerStep
<1> QED
  BY <1>4, <1>5, <1>6, <1>7, <1>8 DEF Next

\* A cadence sprint is created only under the switch and the ceilings: the
\* worst case of everything in it that would run, the notes without a guard
\* among them, fits the runner's flag, and the page's ceiling and switch as
\* they stand, unless a person changed them after the run had read them
\* (duePreflight, dueExecute).
THEOREM PlanningDueObeys == Spec => DueObeysThePage
<1> DEFINE last == board'[Len(board')]
           Obeys == \A r \in Runner :
              board' # board /\ last.by = r =>
                LET worst == DueWorst(last.items, proc[r].would)
                IN  /\ worst <= Cap
                    /\ cadence.on \/ "checked" \in proc[r].missed
                    /\ worst <= cadence.ceiling \/ proc[r].missed # {}
<1>1. Init => DueInv
  <2> SUFFICES ASSUME Init PROVE DueInv
    OBVIOUS
  <2>1. Counts
    BY TypesInit DEF PlanTypes
  <2>2. \A r \in Runner : proc[r] = Idle
    BY DEF Init
  <2> QED
    BY <2>1, <2>2, IdleHolds DEF DueInv, DueHolds
<1>2. PlanInv /\ DueInv /\ [Next]_vars => DueInv'
  BY DueNext
<1>3. PlanInv /\ DueInv /\ [Next]_vars => [Obeys]_vars
  <2> SUFFICES ASSUME PlanInv, DueInv, [Next]_vars, NEW r \in Runner, board' # board,
                      board'[Len(board')].by = r
               PROVE  LET worst == DueWorst(board'[Len(board')].items, proc[r].would)
                      IN  /\ worst <= Cap
                          /\ cadence.on \/ "checked" \in proc[r].missed
                          /\ worst <= cadence.ceiling \/ proc[r].missed # {}
    OBVIOUS
  <2>1. PlanFit /\ Shaped
    BY DEF PlanInv
  <2>2. ASSUME NEW p \in Browser, NEW by \in {"plan", "model"}, Materialise(p, by)
        PROVE  FALSE
    <3>1. board'[Len(board')].by = by
      <4>1. p \in Handlers
        BY DEF Handlers
      <4> QED
        BY <2>1, <2>2, <4>1, Materialised
    <3> QED
      BY <3>1, PlanningAssumption
  <2>3. PICK q \in Runner : DueCreates(q)
    BY <2>2, BoardMoves
  <2>4. q \in Handlers /\ Materialise(q, q) /\ proc[q].at = "checked"
    BY <2>3 DEF DueCreates, Handlers
  <2>5. board'[Len(board')].by = q /\ board'[Len(board')].items = proc[q].items
    BY <2>1, <2>4, Materialised
  <2>6. q = r
    BY <2>5
  <2>7. proc[r].items \in Seq(ItemOf(Int))
    BY <2>1, <2>4, <2>6 DEF PlanFit, Fit
  <2>12. proc[r].would \in SUBSET DOMAIN proc[r].items
    BY <2>4, <2>6 DEF DueInv, DueHolds
  <2> DEFINE w == DueWorst(proc[r].items, proc[r].would)
             c == proc[r].ceiling
  <2>8. w \in Int
    BY <2>7, <2>12, WorstTyped
  <2>9. /\ c \in Int /\ c <= Cap /\ w <= c
        /\ cadence.on \/ "checked" \in proc[r].missed
        /\ proc[r].missed = {} => c <= cadence.ceiling
    BY <2>4, <2>6 DEF DueInv, DueHolds
  <2>10. Cap \in Int /\ cadence.ceiling \in Int
    BY PlanningAssumption DEF DueInv, Counts
  <2> HIDE DEF w, c
  <2>11. w <= Cap /\ (w <= cadence.ceiling \/ proc[r].missed # {})
    BY <2>8, <2>9, <2>10
  <2> QED
    BY <2>5, <2>6, <2>9, <2>11 DEF w
<1> HIDE DEF Obeys
<1>4. Spec => [][Obeys]_vars
  BY <1>1, <1>2, <1>3, PlanningInv, PTL DEF Spec
<1> QED
  BY <1>4 DEF DueObeysThePage, Obeys
=============================================================================
