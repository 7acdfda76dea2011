----------------------------- MODULE Decisions ------------------------------
(***************************************************************************)
(* The options of a sprint's deliverables, from the stamp that makes them  *)
(* collectable to the answer: finops.Supervise (the supervisor's pass),    *)
(* finops.ApplyAs, crew's option and decision-request writes, the console's *)
(* answer handler, the clicks that move an anomaly, and the person's own   *)
(* Post or Return of a decision request on the board.                      *)
(*                                                                         *)
(* Every handler is a process of its own (a web goroutine, or the runner's *)
(* -supervise) over one SQLite database.  One statement is one step, and a  *)
(* handler's statements share no transaction, so MaxBusy = 1 is the console *)
(* of one person and MaxBusy = 2 lets two handlers interleave.              *)
(***************************************************************************)
EXTENDS Integers, FiniteSets

CONSTANTS
  Proc,          \* the handlers that may be in flight
  Deliverable,
  Option,        \* numbered in the order of (artifact, ordinal)
  Of,            \* Of[o]: the deliverable o is an alternative of
  Class,         \* Class[o]: its decision class
  Summary,       \* Summary[o]: the text of it, trimmed
  Place,         \* Place[o]: saving_cents descending, then risk, as a number
  Figure,        \* Figure[o]: figure_cents as the analyst wrote it
  AnomalyOf,     \* AnomalyOf[d]: tasks.anomaly of d's task
  OwnerOf,       \* OwnerOf[d]: tasks.owner of d's task
  Excess,        \* Excess[a]: the recorded excess of an anomaly, absolute
  TAnomaly,      \* the T.anomaly threshold of roles.yaml
  MaxBusy,       \* bound: handlers in flight at once
  MaxClicks,     \* bound: clicks on an anomaly's own page
  MaxFails       \* bound: handlers that die between two statements

NoAnomaly == ""
Nobody == ""              \* tasks.owner of a task nobody owns
Unclaimed == "unclaimed"
NoOption == 0

Anomaly == DOMAIN Excess
Owner == {OwnerOf[d] : d \in Deliverable} \cup {Unclaimed}
Classes == {"explain", "dismiss", "accept", "driver", "record"}

ASSUME DecisionsAssumption ==
  /\ Option \subseteq Nat \ {0}
  /\ Of \in [Option -> Deliverable]
  /\ Class \in [Option -> Classes]
  /\ Place \in [Option -> Nat]
  /\ Figure \in [Option -> Nat]
  /\ Excess \in [Anomaly -> Nat]
  /\ AnomalyOf \in [Deliverable -> Anomaly \cup {NoAnomaly}]
  /\ NoAnomaly \notin Anomaly
  /\ TAnomaly \in Nat /\ MaxBusy \in Nat
  /\ MaxClicks \in Nat /\ MaxFails \in Nat

VARIABLES
  art,      \* artifacts.state of a deliverable
  opt,      \* artifact_options.state
  anom,     \* anomalies.state
  req,      \* the request of one owner: the artifact DecisionRequestFor finds
  proc,     \* per handler, where it stands
  clicks, fails,   \* counters of the two bounds
  acted,    \* history: options whose side effect happened
  asked,    \* history: <<option, owner>>, o asked about in w's request
  aborted,  \* history: some pass returned an error
  lapped,   \* history: two passes were in flight at once
  stamped   \* history: owners whose request a person posted on the board

boardVars == <<art, opt, anom, req>>
histVars  == <<acted, asked, aborted, lapped, stamped>>
vars == <<boardVars, proc, clicks, fails, histVars>>

OptionStates == {"open", "carried", "applied", "refused", "not_chosen"}
AnomalyStates == {"open", "triaged", "explained", "accepted", "dismissed"}
Closed == {"accepted", "dismissed"}
Live == {"open", "carried"}
Settled == {"applied", "refused", "not_chosen"}

NoMove == [on |-> NoAnomaly, to |-> "open"]
Idle == [pc |-> "idle", actor |-> "nobody", mine |-> {}, todo |-> {},
         settled |-> {}, sent |-> {}, asks |-> {}, job |-> NoOption,
         left |-> {}, move |-> NoMove]

Init ==
  /\ art = [d \in Deliverable |-> "draft"]
  /\ opt = [o \in Option |-> "open"]
  /\ anom = [a \in Anomaly |-> "open"]
  /\ req = [w \in Owner |-> "none"]
  /\ proc = [p \in Proc |-> Idle]
  /\ clicks = 0 /\ fails = 0
  /\ acted = {} /\ asked = {}
  /\ aborted = FALSE /\ lapped = FALSE
  /\ stamped = {}

-----------------------------------------------------------------------------
(* What the pass reads once and decides from. *)

\* rankOptions: a stable sort over the collected order.
Before(x, y) == Place[x] < Place[y] \/ (Place[x] = Place[y] /\ x < y)
First(S) == CHOOSE x \in S : \A y \in S : x = y \/ Before(x, y)

Topic(o) == AnomalyOf[Of[o]]
Group(M, d) == {o \in M : Of[o] = d}

\* anomalyOfOption: the anomaly an option would move.
Moves(o) == IF Class[o] \in {"explain", "dismiss", "accept"}
            THEN Topic(o) ELSE NoAnomaly

\* SupervisorMaySelect: its own classes, and the analysts' by option.select.
AnalystOwned(c) == c \in {"explain", "dismiss", "driver"}
SupervisorMaySelect(c) == AnalystOwned(c) \/ c = "accept"

\* recordedFigure: an option of an anomaly is judged on the recorded excess,
\* and is the supervisor's only when its own figure agrees with it.
WithinThreshold(o) ==
  (IF Topic(o) = NoAnomaly THEN Figure[o] ELSE Excess[Topic(o)]) <= TAnomaly
Agrees(o) == Topic(o) # NoAnomaly => Figure[o] = Excess[Topic(o)]

Explains(M, a) == {o \in M : Class[o] = "explain" /\ Topic(o) = a}

\* A deliverable speaks through its lowest-ordinal explanation.
Voice(M, d) ==
  LET S == {o \in Explains(M, AnomalyOf[d]) : Of[o] = d}
  IN  CHOOSE o \in S : \A x \in S : o <= x

\* Slip: only the best-placed explanation of all is compared with the rest
\* of its own deliverable.
ContradictedWithin(M, d) ==
  \E x, y \in Explains(M, AnomalyOf[d]) :
    /\ AnomalyOf[d] # NoAnomaly
    /\ Of[x] = d /\ Of[y] = d
    /\ Summary[x] # Summary[y]

\* contradictionRouting: two deliverables explain one anomaly differently.
Contradicted(M, d) ==
  LET E == Explains(M, AnomalyOf[d])
  IN  /\ AnomalyOf[d] # NoAnomaly
      /\ \E o \in E : Of[o] = d
      /\ \E x, y \in E : Summary[Voice(M, Of[x])] # Summary[Voice(M, Of[y])]

\* ownerOfOption, and the owner a contradiction is redirected to: the task
\* owner of the best-placed side.
Addressee(M, d) ==
  IF Contradicted(M, d) THEN OwnerOf[Of[First(Explains(M, AnomalyOf[d]))]]
  ELSE IF OwnerOf[d] = Nobody THEN Unclaimed ELSE OwnerOf[d]

\* The pass applies the top option of a group itself, or carries the group.
SupervisorApplies(r, o) ==
  /\ SupervisorMaySelect(Class[o]) /\ WithinThreshold(o) /\ Agrees(o)
  /\ ~Contradicted(r.mine, Of[o])
  /\ ~(Moves(o) \in r.settled /\ AnalystOwned(Class[o]))

\* ApplyAs up to its first write: which side effect comes first.
Begin(r, o) ==
  [r EXCEPT !.job = o,
            !.pc = IF Moves(o) # NoAnomaly THEN "read"
                   ELSE IF Class[o] = "driver" THEN "driver" ELSE "mark"]

\* The loop over groupOrder, and what comes after it.
Turn(r) ==
  IF r.todo = {}
  THEN IF r.sent = {} THEN Idle
       ELSE [r EXCEPT !.pc = "ask", !.job = NoOption, !.left = {},
                      !.asks = {Addressee(r.mine, Of[o]) : o \in r.sent}]
  ELSE LET top  == First({o \in r.mine : Of[o] \in r.todo})
           rest == [r EXCEPT !.todo = @ \ {Of[top]}]
       IN  IF SupervisorApplies(r, top) THEN Begin(rest, top)
           ELSE [rest EXCEPT !.pc = "carry", !.job = NoOption,
                             !.left = Group(r.mine, Of[top])]

Set(p, r) == proc' = [proc EXCEPT ![p] = r]
Busy == {p \in Proc : proc[p].pc # "idle"}
MayStart(p) == proc[p].pc = "idle" /\ Cardinality(Busy) < MaxBusy
Spend(p) == Set(p, Idle)

-----------------------------------------------------------------------------
(* Supervise. *)

\* crew.Post: the stamp that makes a deliverable's options collectable.
PostDeliverable(d) ==
  /\ art[d] = "draft"
  /\ art' = [art EXCEPT ![d] = "posted"]
  /\ UNCHANGED <<opt, anom, req, proc, clicks, fails, histVars>>

\* OpenOptionsForSprint.  A pass that collects nothing changes nothing.
Collectable(o) == opt[o] = "open" /\ art[Of[o]] = "posted"

StartPass(p) ==
  LET M == {o \in Option : Collectable(o)}
  IN  /\ MayStart(p) /\ M # {}
      /\ Set(p, Turn([Idle EXCEPT !.actor = "supervisor", !.mine = M,
                                  !.todo = {Of[o] : o \in M}]))
      /\ lapped' = (lapped \/ \E q \in Proc : proc[q].actor = "supervisor")
      /\ UNCHANGED <<boardVars, clicks, fails, acted, asked, aborted, stamped>>

\* MarkOptionCarried, whatever the option's state is by now.
Carry(p) ==
  LET r == proc[p]  o == First(r.left)
      rest == [r EXCEPT !.left = @ \ {o}, !.sent = @ \cup {o}]
  IN  /\ r.pc = "carry"
      /\ opt' = [opt EXCEPT ![o] = "carried"]
      /\ Set(p, IF rest.left = {} THEN Turn(rest) ELSE rest)
      /\ UNCHANGED <<art, anom, req, clicks, fails, histVars>>

\* One owner's request (in the order of their names; here in some fixed
\* order): DecisionRequestFor decides whether it is rewritten or inserted.
NextOwner(r) == CHOOSE w \in r.asks : TRUE

FindRequest(p) ==
  LET r == proc[p]
  IN  /\ r.pc = "ask"
      /\ Set(p, [r EXCEPT !.pc = IF req[NextOwner(r)] = "none"
                                 THEN "insert" ELSE "redraft"])
      /\ UNCHANGED <<boardVars, clicks, fails, histVars>>

AskedFor(r, w) == {o \in r.sent : Addressee(r.mine, Of[o]) = w} \X {w}
NextAsk(r) == IF r.asks = {NextOwner(r)} THEN Idle
              ELSE [r EXCEPT !.pc = "ask", !.asks = @ \ {NextOwner(r)}]

\* Slip: the body is rewritten and the request stays as it was.
WriteDecisionRequestKeepsState(p) ==
  LET r == proc[p]  w == NextOwner(r)
  IN  /\ r.pc \in {"insert", "redraft"}
      /\ req' = [req EXCEPT ![w] = IF @ = "none" THEN "draft" ELSE @]
      /\ asked' = asked \cup AskedFor(r, w)
      /\ stamped' = stamped \ {w}
      /\ Set(p, NextAsk(r))
      /\ UNCHANGED <<art, opt, anom, clicks, fails, acted, aborted, lapped>>

\* WriteDecisionRequest: the found one becomes a draft again; a new one is
\* inserted.  Of two handlers that insert, the second row is never found.
WriteDecisionRequest(p) ==
  LET r == proc[p]  w == NextOwner(r)
  IN  /\ r.pc \in {"insert", "redraft"}
      /\ req' = [req EXCEPT ![w] = IF r.pc = "redraft" \/ @ = "none"
                                   THEN "draft" ELSE @]
      /\ asked' = asked \cup AskedFor(r, w)
      /\ stamped' = stamped \ {w}
      /\ Set(p, NextAsk(r))
      /\ UNCHANGED <<art, opt, anom, clicks, fails, acted, aborted, lapped>>

-----------------------------------------------------------------------------
(* ApplyAs, by the pass or by a person. *)

MayMove(cur, to) == IF to = "accepted" THEN cur \in {"explained", "triaged"}
                    ELSE cur \notin Closed

\* Slip: the verb is written where the state belongs.
TargetOfVerb(c) == c

TargetOf(c) == CASE c = "explain" -> "explained"
                 [] c = "dismiss" -> "dismissed"
                 [] c = "accept"  -> "accepted"

\* An error of Apply ends the whole pass; a person is shown it.
Abort(p) ==
  /\ Spend(p)
  /\ aborted' = (aborted \/ proc[p].actor = "supervisor")

\* Slip: what the anomaly's own state machine refuses is ignored.
ReadAnomalyIgnoresRefusal(p) ==
  LET r == proc[p]  a == Moves(r.job)  to == TargetOf(Class[r.job])
  IN  /\ r.pc = "read"
      /\ Set(p, IF MayMove(anom[a], to)
                THEN [r EXCEPT !.pc = "move", !.move = [on |-> a, to |-> to]]
                ELSE [r EXCEPT !.pc = "mark"])
      /\ UNCHANGED <<boardVars, clicks, fails, histVars>>

\* anomaly.transition: SELECT state, and what it may refuse.
ReadAnomaly(p) ==
  LET r == proc[p]  a == Moves(r.job)  to == TargetOf(Class[r.job])
  IN  /\ r.pc = "read"
      /\ IF MayMove(anom[a], to)
         THEN /\ Set(p, [r EXCEPT !.pc = "move",
                                  !.move = [on |-> a, to |-> to]])
              /\ UNCHANGED aborted
         ELSE Abort(p)
      /\ UNCHANGED <<boardVars, clicks, fails, acted, asked, lapped,
                     stamped>>

\* anomaly.transition: UPDATE, whatever the state is by now.
MoveAnomaly(p) ==
  LET r == proc[p]
  IN  /\ r.pc = "move"
      /\ anom' = [anom EXCEPT ![r.move.on] = r.move.to]
      /\ IF r.job = NoOption
         THEN Spend(p) /\ UNCHANGED acted
         ELSE /\ Set(p, [r EXCEPT !.pc = "mark", !.move = NoMove])
              /\ acted' = acted \cup {r.job}
      /\ UNCHANGED <<art, opt, req, clicks, fails, asked, aborted, lapped,
                     stamped>>

\* applyDriver: estate.InsertDriver.
InsertDriver(p) ==
  LET r == proc[p]
  IN  /\ r.pc = "driver"
      /\ acted' = acted \cup {r.job}
      /\ Set(p, [r EXCEPT !.pc = "mark"])
      /\ UNCHANGED <<boardVars, clicks, fails, asked, aborted, lapped, stamped>>

\* Slip: only the options nobody was asked about count as rivals.
LiveRivalsOfOpen(o) ==
  {x \in Option : opt[x] = "open" /\ x # o /\ Of[x] = Of[o]}

\* Slip: only the options somebody was asked about count as rivals.
LiveRivalsOfCarried(o) ==
  {x \in Option : opt[x] = "carried" /\ x # o /\ Of[x] = Of[o]}

\* LiveRivalsOf: the live alternatives, and the live explanations elsewhere
\* that give the same anomaly another cause.
LiveRivalsOf(o) ==
  {x \in Option :
     /\ opt[x] \in Live /\ x # o
     /\ \/ Of[x] = Of[o]
        \/ /\ Class[o] = "explain" /\ Class[x] = "explain"
           /\ Topic(o) # NoAnomaly /\ Topic(x) = Topic(o)
           /\ Summary[x] # Summary[o]}

\* ApplyAs returned.
Applied(r) ==
  IF r.actor = "supervisor"
  THEN Turn([r EXCEPT !.settled = @ \cup ({Moves(r.job)} \ {NoAnomaly}),
                      !.left = {}])
  ELSE [r EXCEPT !.pc = "close", !.left = {}]

\* Slip: the rivals are read before the option is marked, and not again.
MarkAfterReadingRivals(p) ==
  LET r == proc[p]
  IN  /\ r.pc = "mark"
      /\ IF r.job \notin r.left
         THEN /\ Set(p, [r EXCEPT !.left = {r.job} \cup LiveRivalsOf(r.job)])
              /\ UNCHANGED opt
         ELSE /\ opt' = [opt EXCEPT ![r.job] = "applied"]
              /\ Set(p, IF r.left = {r.job} THEN Applied(r)
                        ELSE [r EXCEPT !.pc = "unchosen",
                                       !.left = @ \ {r.job}])
      /\ UNCHANGED <<art, anom, req, clicks, fails, histVars>>

\* MarkOptionAppliedAs, whatever the option's state is by now.
Mark(p) ==
  LET r == proc[p]
  IN  /\ r.pc = "mark"
      /\ opt' = [opt EXCEPT ![r.job] = "applied"]
      /\ Set(p, [r EXCEPT !.pc = "rivals"])
      /\ UNCHANGED <<art, anom, req, clicks, fails, histVars>>

ReadRivals(p) ==
  LET r == proc[p]  S == LiveRivalsOf(r.job)
  IN  /\ r.pc = "rivals"
      /\ Set(p, IF S = {} THEN Applied(r)
                ELSE [r EXCEPT !.pc = "unchosen", !.left = S])
      /\ UNCHANGED <<boardVars, clicks, fails, histVars>>

\* MarkOptionNotChosen, one rival at a time.
MarkNotChosen(p) ==
  LET r == proc[p]  o == First(r.left)
  IN  /\ r.pc = "unchosen"
      /\ opt' = [opt EXCEPT ![o] = "not_chosen"]
      /\ Set(p, IF r.left = {o} THEN Applied(r)
                ELSE [r EXCEPT !.left = @ \ {o}])
      /\ UNCHANGED <<art, anom, req, clicks, fails, histVars>>

-----------------------------------------------------------------------------
(* The console: an owner's answer, and the anomaly's own page. *)

\* optionAction: a carried option of an owned task, applied or refused.
StartAnswer(p, o) ==
  /\ MayStart(p)
  /\ opt[o] = "carried" /\ OwnerOf[Of[o]] # Nobody
  /\ LET r == [Idle EXCEPT !.actor = "person"]
     IN  Set(p, Begin(r, o)) \/ Set(p, [r EXCEPT !.pc = "refuse", !.job = o])
  /\ UNCHANGED <<boardVars, clicks, fails, histVars>>

\* RefuseOption, whatever the option's state is by now.
Refuse(p) ==
  LET r == proc[p]
  IN  /\ r.pc = "refuse"
      /\ opt' = [opt EXCEPT ![r.job] = "refused"]
      /\ Set(p, [r EXCEPT !.pc = "close"])
      /\ UNCHANGED <<art, anom, req, clicks, fails, histVars>>

CarriedOptionsFor(w) == {o \in Option : OwnerOf[Of[o]] = w
                                        /\ opt[o] = "carried"}

\* Slip: the request is closed on the first answer.
CloseOnFirstAnswer(p) ==
  LET r == proc[p]  w == OwnerOf[Of[r.job]]
  IN  /\ r.pc = "close"
      /\ Set(p, IF req[w] = "none" THEN Idle ELSE [r EXCEPT !.pc = "post"])
      /\ UNCHANGED <<boardVars, clicks, fails, histVars>>

\* PostDecisionRequestIfComplete: the two reads.
Close(p) ==
  LET r == proc[p]  w == OwnerOf[Of[r.job]]
  IN  /\ r.pc = "close"
      /\ Set(p, IF CarriedOptionsFor(w) # {} \/ req[w] = "none"
                THEN Idle ELSE [r EXCEPT !.pc = "post"])
      /\ UNCHANGED <<boardVars, clicks, fails, histVars>>

\* PostDecisionRequestIfComplete: the write.
PostRequest(p) ==
  LET r == proc[p]
  IN  /\ r.pc = "post"
      /\ req' = [req EXCEPT ![OwnerOf[Of[r.job]]] = "posted"]
      /\ Spend(p)
      /\ UNCHANGED <<art, opt, anom, clicks, fails, histVars>>

\* anomalyAction: assign, explain or dismiss on the anomaly's page.
Click(p, a) ==
  /\ MayStart(p) /\ clicks < MaxClicks
  /\ \E to \in {"triaged", "explained", "dismissed"} :
       /\ MayMove(anom[a], to)
       /\ Set(p, [Idle EXCEPT !.actor = "person", !.pc = "move",
                              !.move = [on |-> a, to |-> to]])
  /\ clicks' = clicks + 1
  /\ UNCHANGED <<boardVars, fails, histVars>>

\* artifactAction on the request itself, a deliverable of the supervisor's
\* own task: its page offers Post and Return as long as it is not posted.
StartJudge(p, w) ==
  /\ MayStart(p)
  /\ req[w] \in {"draft", "returned"}
  /\ Set(p, [Idle EXCEPT !.actor = "person", !.pc = "judge", !.asks = {w}])
  /\ UNCHANGED <<boardVars, clicks, fails, histVars>>

\* crew.Post and crew.Return: the UPDATE of the request's row, whatever its
\* state is by now, and whatever options it still asks about.
JudgeRequest(p) ==
  LET r == proc[p]  w == NextOwner(r)
  IN  /\ r.pc = "judge"
      /\ \/ /\ req' = [req EXCEPT ![w] = "posted"]
            /\ stamped' = stamped \cup {w}
         \/ /\ req' = [req EXCEPT ![w] = "returned"]
            /\ UNCHANGED stamped
      /\ Spend(p)
      /\ UNCHANGED <<art, opt, anom, clicks, fails, acted, asked, aborted,
                     lapped>>

\* A process dies, or a statement fails, between two statements.
Die(p) ==
  /\ proc[p].pc # "idle" /\ fails < MaxFails
  /\ Abort(p)
  /\ fails' = fails + 1
  /\ UNCHANGED <<boardVars, clicks, acted, asked, lapped, stamped>>

-----------------------------------------------------------------------------
Step(p) ==
  \/ Carry(p) \/ FindRequest(p) \/ WriteDecisionRequest(p)
  \/ ReadAnomaly(p) \/ MoveAnomaly(p) \/ InsertDriver(p)
  \/ Mark(p) \/ ReadRivals(p) \/ MarkNotChosen(p)
  \/ Refuse(p) \/ Close(p) \/ PostRequest(p) \/ JudgeRequest(p)

Next ==
  \/ \E d \in Deliverable : PostDeliverable(d)
  \/ \E p \in Proc :
       \/ StartPass(p) \/ Step(p) \/ Die(p)
       \/ \E o \in Option : StartAnswer(p, o)
       \/ \E a \in Anomaly : Click(p, a)
       \/ \E w \in Owner : StartJudge(p, w)

\* A handler in flight runs on, and the sprint's pass is run again as long
\* as it has something to collect (strongly: MaxBusy is this model's bound,
\* and other handlers must not keep the pass out); nobody owes an answer.
Fairness ==
  /\ \A p \in Proc : WF_vars(Step(p))
  /\ SF_vars(\E p \in Proc : StartPass(p))

Spec == Init /\ [][Next]_vars /\ Fairness

-----------------------------------------------------------------------------
(* Properties. *)

Pcs == {"idle", "carry", "ask", "insert", "redraft", "read", "move",
        "driver", "mark", "rivals", "unchosen", "refuse", "close", "post",
        "judge"}

TypeOK ==
  /\ art \in [Deliverable -> {"draft", "posted"}]
  /\ opt \in [Option -> OptionStates]
  /\ anom \in [Anomaly -> AnomalyStates]
  /\ req \in [Owner -> {"none", "draft", "returned", "posted"}]
  /\ proc \in [Proc -> [pc : Pcs, actor : {"nobody", "supervisor", "person"},
                        mine : SUBSET Option, todo : SUBSET Deliverable,
                        settled : SUBSET Anomaly, sent : SUBSET Option,
                        asks : SUBSET Owner, job : Option \cup {NoOption},
                        left : SUBSET Option,
                        move : [on : Anomaly \cup {NoAnomaly},
                                to : AnomalyStates]]]
  /\ clicks \in 0..MaxClicks /\ fails \in 0..MaxFails
  /\ acted \subseteq Option /\ asked \subseteq Option \X Owner
  /\ aborted \in BOOLEAN /\ lapped \in BOOLEAN
  /\ stamped \subseteq Owner

\* Supervise's first property, "this never applies more than one option of
\* one deliverable", and answers are final: with one handler at a time the
\* console implements the choice Choice.tla specifies.
C == INSTANCE Choice WITH
       applied <- {o \in Option : opt[o] = "applied"},
       refused <- {o \in Option : opt[o] = "refused"}
ImplementsChoice == C!Spec

\* With one handler at a time, the console itself never closes the request an
\* owner was sent while one of the owner's own options it asked about is
\* unanswered: such a request is posted only by a person who posts it on the
\* board, and the next pass that asks the owner anything opens it again.
RequestOpenWhileAsked ==
  \A q \in asked :
    opt[q[1]] = "carried" /\ OwnerOf[Of[q[1]]] = q[2]
    => req[q[2]] \in {"draft", "returned"} \/ q[2] \in stamped

\* An option that was collected is on somebody's desk: decided, or carried
\* and asked about in an open request.
OnADesk(o) ==
  \/ opt[o] \in Settled
  \/ opt[o] = "carried" /\ \E w \in Owner : <<o, w>> \in asked
                                            /\ req[w] = "draft"

\* "Nothing is dropped" (Supervise): as long as no pass ends in an error,
\* every option of a posted deliverable reaches a desk.
ReachesADesk ==
  \A o \in Option : Collectable(o) ~> (OnADesk(o) \/ aborted)

\* A pass that ends without an error (a refused transition, a failed
\* statement) leaves none of its options open,
\* whatever other handlers did meanwhile.
PassHandlesAll ==
  [][\A p \in Proc :
       /\ proc[p].actor = "supervisor" /\ proc'[p].pc = "idle"
       /\ proc[p].pc # "read" /\ fails' = fails
       => \A o \in proc[p].mine : opt'[o] # "open"]_vars

\* An applied option has had its side effect ("Called ... once the side
\* effect has already succeeded, never before", MarkOptionAppliedAs), even
\* when handlers die between statements or answer at once.
AppliedHasActed ==
  \A o \in Option :
    opt[o] = "applied" /\ (Moves(o) # NoAnomaly \/ Class[o] = "driver")
    => o \in acted

\* Two applies of one question at once may both win, never both lose: each
\* marks its own before it reads its rivals, so an option is set aside only
\* for another that is not (it is applied, or a refusal given at the same time
\* has written over it).  Two PASSES at once lose this: one carries again what
\* the other has just applied.
SomebodyWins ==
  ~lapped => \A o \in Option :
    opt[o] = "not_chosen" =>
      \E w \in Option :
        /\ w # o
        /\ Of[w] = Of[o] \/ (Topic(o) # NoAnomaly /\ Topic(w) = Topic(o))
        /\ opt[w] \in {"applied", "carried", "refused"}

\* "any question two analysts answer differently on the same evidence" goes
\* to the owner: while a pass holds two deliverables whose explanations of an
\* anomaly all differ, it applies nothing of either.
ContradictionIsAsked ==
  [][\A p \in Proc :
       LET r == proc[p]
       IN  r.pc = "mark" /\ r.actor = "supervisor" /\ opt' # opt
           /\ opt'[r.job] = "applied" /\ proc'[p] # proc[p]
           => ~ \E d, e \in Deliverable :
                  /\ d # e /\ Of[r.job] \in {d, e}
                  /\ AnomalyOf[d] = AnomalyOf[e]
                  /\ AnomalyOf[d] # NoAnomaly
                  /\ \E x \in Explains(r.mine, AnomalyOf[d]) : Of[x] = d
                  /\ \E x \in Explains(r.mine, AnomalyOf[d]) : Of[x] = e
                  /\ \A x, y \in Explains(r.mine, AnomalyOf[d]) :
                       Of[x] = d /\ Of[y] = e => Summary[x] # Summary[y]
       ]_vars

\* "Nothing is dropped", as Supervise's comment says it.
NothingIsDropped == \A o \in Option : Collectable(o) ~> OnADesk(o)

\* An option that was decided stays decided: it is not the owner's to answer
\* any more (optionAction refuses one that is not carried).
DecidedIsFinal ==
  [][\A o \in Option : opt[o] \in Settled => opt'[o] = opt[o]]_vars
=============================================================================
