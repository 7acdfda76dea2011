--------------------------- MODULE DecisionsProofs ---------------------------
(***************************************************************************)
(* What is proved of Decisions, for every set of handlers, deliverables    *)
(* and options and every value of the three bounds.  The argument is the   *)
(* shape of a handler's record: what each program counter says of the      *)
(* deliverables the pass has yet to turn to and of the options it holds.   *)
(***************************************************************************)
EXTENDS Decisions, TLAPS, WellFoundedInduction, FiniteSetTheorems

(* The record of a handler, and what its program counter says of it. *)

Handler == [pc : Pcs, actor : {"nobody", "supervisor", "person"},
            mine : SUBSET Option, todo : SUBSET Deliverable,
            settled : SUBSET Anomaly, sent : SUBSET Option,
            asks : SUBSET Owner, job : Option \cup {NoOption},
            left : SUBSET Option,
            move : [on : Anomaly \cup {NoAnomaly}, to : AnomalyStates]]

Acting == {"read", "driver", "mark"}
OnAJob == Acting \cup {"rivals", "unchosen", "refuse", "close", "post"}
Asking == {"ask", "insert", "redraft"}
Passing == {"carry", "move", "rivals", "unchosen"} \cup Asking \cup Acting

\* The deliverables still to come are some of those the pass collected.
Ahead(r) == r.todo \subseteq {Of[o] : o \in r.mine}

Shape(r) ==
  /\ Ahead(r)
  /\ r.pc \in OnAJob => r.job \in Option
  /\ r.pc = "read" => Moves(r.job) # NoAnomaly
  /\ r.pc \in {"carry", "unchosen"} => r.left # {}
  /\ r.pc = "carry" => r.left \subseteq r.mine
  /\ r.pc \in Asking => r.asks # {} /\ r.todo = {}
  /\ r.pc = "judge" => r.asks # {}
  /\ r.pc \in {"carry"} \cup Asking => r.actor = "supervisor"
  /\ r.pc = "idle" => r.actor = "nobody"
  /\ r.actor = "supervisor" =>
       /\ r.pc \in Passing
       /\ r.pc = "move" => r.job \in Option
       /\ r.pc \in Acting \cup {"move"} => /\ ~Contradicted(r.mine, Of[r.job])
                                          /\ Of[r.job] \notin r.todo
       /\ r.pc = "carry" => \A o \in r.left : Of[o] \notin r.todo

Typed == TypeOK /\ \A p \in Proc : Shape(proc[p])

-----------------------------------------------------------------------------
(* The picks of the model are well defined. *)

LEMMA LeastNat ==
  ASSUME NEW S, S \subseteq Nat, S # {}
  PROVE  \E x \in S : \A y \in S : x <= y
<1>1. \E x \in S : \A y \in S : ~ (<<y, x>> \in OpToRel(<, Nat))
  BY NatLessThanWellFounded, WFMin, Zenon
<1>2. PICK x \in S : \A y \in S : ~ (<<y, x>> \in OpToRel(<, Nat))
  BY <1>1
<1>3. ASSUME NEW y \in S PROVE x <= y
  <2>1. ~ (<<y, x>> \in OpToRel(<, Nat))
    BY <1>2
  <2>2. x \in Nat /\ y \in Nat
    OBVIOUS
  <2>3. ~ (y < x)
    BY <2>1, <2>2, Zenon DEF OpToRel
  <2>. QED BY <2>2, <2>3
<1>. QED BY <1>3

\* rankOptions puts one option first, whichever options it is given.
LEMMA FirstIsOneOf ==
  ASSUME NEW S, S \subseteq Option, S # {}
  PROVE  First(S) \in S
<1>. DEFINE P == {Place[x] : x \in S}
<1>0. \A x \in S : Place[x] \in Nat
  BY DecisionsAssumption
<1>1. P \subseteq Nat /\ P # {}
  BY <1>0
<1>a. \E n \in P : \A m \in P : n <= m
  <2>. HIDE DEF P
  <2>. QED BY <1>1, LeastNat
<1>2. PICK x \in S : \A y \in S : Place[x] <= Place[y]
  BY <1>a
<1>. DEFINE T == {y \in S : Place[y] = Place[x]}
<1>3. T \subseteq Nat /\ T # {}
  BY DecisionsAssumption
<1>4. PICK z \in T : \A y \in T : z <= y
  BY <1>3, LeastNat
<1>5. \A y \in S : Place[y] \in Nat /\ y \in Nat
  BY DecisionsAssumption
<1>6. \A y \in S : z = y \/ Before(z, y)
  BY <1>2, <1>4, <1>5 DEF Before
<1>7. \E w \in S : \A y \in S : w = y \/ Before(w, y)
  BY <1>6
<1>. QED BY <1>7 DEF First

\* A deliverable that explains an anomaly has an explanation that speaks for it.
LEMMA VoiceIsOneOf ==
  ASSUME NEW M, M \subseteq Option, NEW d,
         NEW x \in Explains(M, AnomalyOf[d]), Of[x] = d
  PROVE  /\ Voice(M, d) \in Explains(M, AnomalyOf[d])
         /\ Of[Voice(M, d)] = d
<1>. DEFINE S == {o \in Explains(M, AnomalyOf[d]) : Of[o] = d}
<1>1. S \subseteq Nat /\ S # {}
  BY DecisionsAssumption DEF Explains
<1>2. \E o \in S : \A y \in S : o <= y
  BY <1>1, LeastNat
<1>3. Voice(M, d) = CHOOSE o \in S : \A y \in S : o <= y
  BY DEF Voice
<1>4. Voice(M, d) \in S
  BY <1>2, <1>3
<1>. QED BY <1>4

-----------------------------------------------------------------------------
(* What the shared pieces of the handlers return. *)

LEMMA IdleHandler == Idle \in Handler /\ Shape(Idle)
<1>1. Idle \in Handler
  BY DEF Idle, Handler, NoMove, NoOption, NoAnomaly, Pcs, AnomalyStates
<1>2. Idle.pc = "idle" /\ Idle.actor = "nobody" /\ Idle.todo = {}
  BY DEF Idle
<1>. QED BY <1>1, <1>2 DEF Shape, Ahead, OnAJob, Acting, Asking

LEMMA MovesWhat ==
  ASSUME NEW o \in Option
  PROVE  /\ Of[o] \in Deliverable
         /\ Moves(o) \in Anomaly \cup {NoAnomaly}
         /\ Moves(o) # NoAnomaly => /\ Class[o] \in {"explain", "dismiss", "accept"}
                                    /\ TargetOf(Class[o]) \in AnomalyStates
<1>1. Of[o] \in Deliverable /\ AnomalyOf[Of[o]] \in Anomaly \cup {NoAnomaly}
  BY DecisionsAssumption
<1>2. Moves(o) \in Anomaly \cup {NoAnomaly}
  BY <1>1 DEF Moves, Topic
<1>3. ASSUME Moves(o) # NoAnomaly
      PROVE  /\ Class[o] \in {"explain", "dismiss", "accept"}
             /\ TargetOf(Class[o]) \in AnomalyStates
  <2>1. Class[o] \in {"explain", "dismiss", "accept"}
    BY <1>3 DEF Moves
  <2>. QED BY <2>1 DEF TargetOf, AnomalyStates
<1>. QED BY <1>1, <1>2, <1>3

\* Begin: the first step of an apply is an action on the option's own terms.
LEMMA BeginWhat ==
  ASSUME NEW r \in Handler, NEW o \in Option
  PROVE  /\ Begin(r, o) \in Handler
         /\ Begin(r, o).pc \in Acting
         /\ Begin(r, o).pc = "read" => Moves(o) # NoAnomaly
         /\ Begin(r, o).pc = "mark" => /\ Moves(o) = NoAnomaly
                                       /\ Class[o] # "driver"
         /\ Begin(r, o).job = o
         /\ Begin(r, o).actor = r.actor
         /\ Begin(r, o).mine = r.mine
         /\ Begin(r, o).todo = r.todo
         /\ Begin(r, o).sent = r.sent
<1>. DEFINE c == IF Moves(o) # NoAnomaly THEN "read"
                 ELSE IF Class[o] = "driver" THEN "driver" ELSE "mark"
            b == [r EXCEPT !.job = o, !.pc = c]
<1>1. /\ c \in Acting /\ c \in Pcs
      /\ c = "read" => Moves(o) # NoAnomaly
      /\ c = "mark" => Moves(o) = NoAnomaly /\ Class[o] # "driver"
  BY DEF Acting, Pcs
<1>2. Begin(r, o) = b
  BY DEF Begin
<1>. HIDE DEF c
<1>3. b \in Handler
  BY <1>1 DEF Handler
<1>4. /\ b.pc = c /\ b.job = o /\ b.actor = r.actor
      /\ b.mine = r.mine /\ b.todo = r.todo /\ b.sent = r.sent
  BY DEF Handler
<1>. QED BY <1>1, <1>2, <1>3, <1>4

\* Turn: the loop over groupOrder goes to a deliverable still to come, and
\* leaves the loop only when there is none.
LEMMA TurnWhat ==
  ASSUME NEW r \in Handler, Ahead(r), r.actor = "supervisor"
  PROVE  /\ Turn(r) \in Handler
         /\ Shape(Turn(r))
         /\ Turn(r).pc = "idle" => r.todo = {}
         /\ Turn(r).pc # "idle" => /\ Turn(r).mine = r.mine /\ Turn(r).sent = r.sent
                                   /\ Turn(r).actor = "supervisor"
         /\ Turn(r).pc \in {"idle", "ask", "carry"} \cup Acting
         /\ Turn(r).pc = "ask" => r.todo = {}
         /\ Turn(r).pc = "mark" => /\ Moves(Turn(r).job) = NoAnomaly
                                   /\ Class[Turn(r).job] # "driver"
         /\ Turn(r).todo \subseteq r.todo
         /\ Turn(r).pc = "carry" => \A o \in Turn(r).left : Of[o] \in r.todo
         /\ Turn(r).pc \in Acting =>
              /\ Turn(r).job \in r.mine
              /\ Of[Turn(r).job] \in r.todo \ Turn(r).todo
         /\ Turn(r).pc = "carry" =>
              \A o \in r.mine : Of[o] \in r.todo =>
                Of[o] \in Turn(r).todo \/ o \in Turn(r).left
         /\ Turn(r).pc \in Acting =>
              \A o \in r.mine : Of[o] \in r.todo =>
                Of[o] \in Turn(r).todo \/ Of[o] = Of[Turn(r).job]
<1>0. r.mine \subseteq Option /\ r.sent \subseteq Option /\ r.todo \subseteq Deliverable
  BY DEF Handler
<1>1. CASE r.todo = {} /\ r.sent = {}
  <2>1. Turn(r) = Idle
    BY <1>1 DEF Turn
  <2>2. Idle.pc = "idle" /\ Idle.todo = {}
    BY DEF Idle
  <2>. QED BY <1>1, <2>1, <2>2, IdleHandler DEF Acting
<1>2. CASE r.todo = {} /\ r.sent # {}
  <2>. DEFINE A == {Addressee(r.mine, Of[o]) : o \in r.sent}
              t == [r EXCEPT !.pc = "ask", !.job = NoOption, !.left = {}, !.asks = A]
  <2>1. Turn(r) = t
    BY <1>2 DEF Turn
  <2>2. A \subseteq Owner
    <3>1. SUFFICES ASSUME NEW o \in r.sent
                   PROVE  Addressee(r.mine, Of[o]) \in Owner
      OBVIOUS
    <3>2. o \in Option /\ Of[o] \in Deliverable
      BY <1>0, MovesWhat
    <3>3. CASE Contradicted(r.mine, Of[o])
      <4>1. Explains(r.mine, AnomalyOf[Of[o]]) # {}
        BY <3>3 DEF Contradicted
      <4>2. First(Explains(r.mine, AnomalyOf[Of[o]])) \in Option
        BY <4>1, <1>0, FirstIsOneOf DEF Explains
      <4>3. Of[First(Explains(r.mine, AnomalyOf[Of[o]]))] \in Deliverable
        BY <4>2, MovesWhat
      <4>. QED BY <3>3, <4>3 DEF Addressee, Owner
    <3>4. CASE ~Contradicted(r.mine, Of[o])
      BY <3>2, <3>4 DEF Addressee, Owner
    <3>. QED BY <3>3, <3>4
  <2>3. A # {}
    BY <1>2
  <2>. HIDE DEF A
  <2>4. t \in Handler
    BY <2>2 DEF Handler, Pcs
  <2>5. /\ t.pc = "ask" /\ t.asks = A /\ t.todo = r.todo /\ t.mine = r.mine
        /\ t.actor = r.actor /\ t.sent = r.sent
    BY DEF Handler
  <2>6. Shape(t)
    BY <1>2, <2>3, <2>5 DEF Shape, Ahead, OnAJob, Acting, Asking, Passing
  <2>. HIDE DEF t
  <2>. QED BY <1>2, <2>1, <2>4, <2>5, <2>6 DEF Acting
<1>3. CASE r.todo # {}
  <2>. DEFINE S == {o \in r.mine : Of[o] \in r.todo}
              top == First(S)
              rest == [r EXCEPT !.todo = @ \ {Of[top]}]
              left == [rest EXCEPT !.pc = "carry", !.job = NoOption,
                                   !.left = Group(r.mine, Of[top])]
  <2>1. S \subseteq Option /\ S # {}
    BY <1>0, <1>3 DEF Ahead
  <2>2. top \in S
    BY <2>1, FirstIsOneOf
  <2>3. Turn(r) = IF SupervisorApplies(r, top) THEN Begin(rest, top) ELSE left
    BY <1>3 DEF Turn
  <2>4. top \in r.mine /\ top \in Option /\ Of[top] \in r.todo
    BY <2>1, <2>2
  <2>. HIDE DEF top, S
  <2>5. /\ rest \in Handler /\ rest.mine = r.mine /\ rest.actor = r.actor
        /\ rest.todo = r.todo \ {Of[top]} /\ rest.sent = r.sent
    BY DEF Handler
  <2>. HIDE DEF rest
  <2>6. CASE SupervisorApplies(r, top)
    <3>. DEFINE t == Begin(rest, top)
    <3>1. Turn(r) = t
      BY <2>3, <2>6
    <3>2. /\ t \in Handler /\ t.pc \in Acting
          /\ t.pc = "read" => Moves(top) # NoAnomaly
          /\ t.pc = "mark" => Moves(top) = NoAnomaly /\ Class[top] # "driver"
          /\ t.job = top /\ t.actor = "supervisor" /\ t.mine = r.mine
          /\ t.todo = r.todo \ {Of[top]} /\ t.sent = r.sent
      BY <2>4, <2>5, BeginWhat
    <3>3. ~Contradicted(r.mine, Of[top])
      BY <2>6 DEF SupervisorApplies
    <3>. HIDE DEF t
    <3>4. Ahead(t)
      BY <3>2 DEF Ahead
    <3>5. Shape(t)
      BY <2>4, <3>2, <3>3, <3>4 DEF Shape, OnAJob, Acting, Asking, Passing
    <3>6. \A o \in r.mine : Of[o] \in r.todo => Of[o] \in t.todo \/ Of[o] = Of[t.job]
      BY <3>2
    <3>. QED BY <2>4, <3>1, <3>2, <3>5, <3>6 DEF Acting
  <2>7. CASE ~SupervisorApplies(r, top)
    <3>1. Turn(r) = left
      BY <2>3, <2>7
    <3>2. Group(r.mine, Of[top]) \subseteq Option /\ top \in Group(r.mine, Of[top])
      BY <1>0, <2>4 DEF Group
    <3>3. left \in Handler
      BY <2>5, <3>2 DEF Handler, Pcs
    <3>4. /\ left.pc = "carry" /\ left.left = Group(r.mine, Of[top])
          /\ left.actor = "supervisor" /\ left.mine = r.mine
          /\ left.todo = r.todo \ {Of[top]} /\ left.sent = r.sent
          /\ left.left \subseteq r.mine
          /\ \A o \in left.left : Of[o] = Of[top]
      BY <2>5 DEF Handler, Group
    <3>. HIDE DEF left
    <3>5. Ahead(left)
      BY <3>4 DEF Ahead
    <3>6. Shape(left)
      BY <3>2, <3>4, <3>5 DEF Shape, OnAJob, Acting, Asking, Passing
    <3>7. \A o \in r.mine : Of[o] \in r.todo => Of[o] \in left.todo \/ o \in left.left
      BY <3>4 DEF Group
    <3>. QED BY <2>4, <3>1, <3>3, <3>4, <3>6, <3>7 DEF Acting
  <2>. QED BY <2>6, <2>7
<1>. QED BY <1>1, <1>2, <1>3

\* ApplyAs returned: a pass turns on, a person's answer closes the request.
LEMMA AppliedWhat ==
  ASSUME NEW r \in Handler, Ahead(r), r.job \in Option
  PROVE  /\ Applied(r) \in Handler
         /\ Shape(Applied(r))
         /\ r.actor # "supervisor" => /\ Applied(r).actor = r.actor
                                      /\ Applied(r).pc = "close"
                                      /\ Applied(r).job = r.job
         /\ Applied(r).pc = "mark" => /\ Moves(Applied(r).job) = NoAnomaly
                                      /\ Class[Applied(r).job] # "driver"
         /\ r.actor = "supervisor" =>
              /\ Applied(r).pc = "idle" => r.todo = {}
              /\ Applied(r).pc # "idle" => /\ Applied(r).mine = r.mine
                                           /\ Applied(r).sent = r.sent
                                           /\ Applied(r).actor = "supervisor"
              /\ Applied(r).pc \in {"idle", "ask", "carry"} \cup Acting
              /\ Applied(r).pc = "ask" => r.todo = {}
              /\ Applied(r).todo \subseteq r.todo
              /\ Applied(r).pc = "carry" =>
                   \A o \in Applied(r).left : Of[o] \in r.todo
              /\ Applied(r).pc \in Acting =>
                   /\ Applied(r).job \in r.mine
                   /\ Of[Applied(r).job] \in r.todo \ Applied(r).todo
              /\ Applied(r).pc = "carry" =>
                   \A o \in r.mine : Of[o] \in r.todo =>
                     Of[o] \in Applied(r).todo \/ o \in Applied(r).left
              /\ Applied(r).pc \in Acting =>
                   \A o \in r.mine : Of[o] \in r.todo =>
                     Of[o] \in Applied(r).todo \/ Of[o] = Of[Applied(r).job]
<1>1. CASE r.actor = "supervisor"
  <2>. DEFINE G == {Moves(r.job)} \ {NoAnomaly}
              s == [r EXCEPT !.settled = @ \cup G, !.left = {}]
  <2>1. G \subseteq Anomaly
    BY MovesWhat
  <2>. HIDE DEF G
  <2>2. s \in Handler
    BY <2>1 DEF Handler
  <2>3. s.actor = "supervisor" /\ s.mine = r.mine /\ s.todo = r.todo
        /\ s.sent = r.sent
    BY <1>1 DEF Handler
  <2>4. Applied(r) = Turn(s)
    BY <1>1 DEF Applied, G
  <2>. HIDE DEF s
  <2>5. Ahead(s)
    BY <2>3 DEF Ahead
  <2>. QED BY <1>1, <2>2, <2>3, <2>4, <2>5, TurnWhat
<1>2. CASE r.actor # "supervisor"
  <2>. DEFINE t == [r EXCEPT !.pc = "close", !.left = {}]
  <2>1. Applied(r) = t
    BY <1>2 DEF Applied
  <2>2. t \in Handler
    BY DEF Handler, Pcs
  <2>3. t.pc = "close" /\ t.job = r.job /\ t.actor = r.actor
        /\ t.mine = r.mine /\ t.todo = r.todo
    BY DEF Handler
  <2>. HIDE DEF t
  <2>4. Shape(t)
    BY <1>2, <2>3 DEF Shape, Ahead, OnAJob, Acting, Asking
  <2>. QED BY <1>2, <2>1, <2>2, <2>3, <2>4
<1>. QED BY <1>1, <1>2

-----------------------------------------------------------------------------
(* Type correctness. *)

TypedBoard ==
  /\ art \in [Deliverable -> {"draft", "posted"}]
  /\ opt \in [Option -> OptionStates]
  /\ anom \in [Anomaly -> AnomalyStates]
  /\ req \in [Owner -> {"none", "draft", "returned", "posted"}]
  /\ clicks \in 0..MaxClicks /\ fails \in 0..MaxFails
  /\ acted \subseteq Option /\ asked \subseteq Option \X Owner
  /\ aborted \in BOOLEAN /\ lapped \in BOOLEAN
  /\ stamped \subseteq Owner

Shaped == proc \in [Proc -> Handler] /\ \A p \in Proc : Shape(proc[p])

LEMMA TypedParts == Typed <=> TypedBoard /\ Shaped
BY DEF Typed, TypeOK, TypedBoard, Shaped, Handler

\* A step moves one handler; the others stand where they stood.
LEMMA OneMoves ==
  ASSUME Shaped, NEW p \in Proc, NEW r \in Handler, Shape(r), Set(p, r)
  PROVE  Shaped' /\ proc'[p] = r /\ \A q \in Proc \ {p} : proc'[q] = proc[q]
<1>1. proc' = [proc EXCEPT ![p] = r]
  BY DEF Set
<1>2. proc \in [Proc -> Handler]
  BY DEF Shaped
<1>3. proc' \in [Proc -> Handler]
  BY <1>1, <1>2
<1>4. proc'[p] = r /\ \A q \in Proc \ {p} : proc'[q] = proc[q]
  BY <1>1, <1>2
<1>5. ASSUME NEW q \in Proc PROVE Shape(proc'[q])
  BY <1>4 DEF Shaped
<1>. QED BY <1>3, <1>4, <1>5 DEF Shaped

LEMMA TypedInit == Init => Typed
<1>. SUFFICES ASSUME Init PROVE Typed
  OBVIOUS
<1>a. MaxClicks \in Nat /\ MaxFails \in Nat
  BY DecisionsAssumption
<1>b. clicks \in 0..MaxClicks /\ fails \in 0..MaxFails
  BY <1>a DEF Init
<1>c. art \in [Deliverable -> {"draft", "posted"}]
      /\ req \in [Owner -> {"none", "draft", "returned", "posted"}]
  BY DEF Init
<1>d. opt \in [Option -> OptionStates] /\ anom \in [Anomaly -> AnomalyStates]
  BY DEF Init, OptionStates, AnomalyStates
<1>1. TypedBoard
  BY <1>b, <1>c, <1>d DEF Init, TypedBoard
<1>2. proc = [p \in Proc |-> Idle]
  BY DEF Init
<1>3. Shaped
  BY <1>2, IdleHandler DEF Shaped
<1>. QED BY <1>1, <1>3, TypedParts

LEMMA HandlerFields ==
  ASSUME NEW r \in Handler
  PROVE  /\ r.mine \subseteq Option /\ r.todo \subseteq Deliverable
         /\ r.sent \subseteq Option /\ r.left \subseteq Option
         /\ r.asks \subseteq Owner /\ r.job \in Option \cup {NoOption}
         /\ r.move.on \in Anomaly \cup {NoAnomaly} /\ r.move.to \in AnomalyStates
         /\ r.pc \in Pcs /\ r.actor \in {"nobody", "supervisor", "person"}
BY DEF Handler

\* The option a handler sets down next, and what is left of its work.
LEMMA CarryWhat ==
  ASSUME NEW r \in Handler, Shape(r), r.pc = "carry",
         NEW rest, rest = [r EXCEPT !.left = @ \ {First(r.left)},
                                    !.sent = @ \cup {First(r.left)}]
  PROVE  /\ rest \in Handler
         /\ First(r.left) \in r.left /\ First(r.left) \in Option
         /\ rest.pc = "carry" /\ rest.left = r.left \ {First(r.left)}
         /\ rest.mine = r.mine /\ rest.todo = r.todo /\ rest.actor = r.actor
         /\ rest.job = r.job
         /\ rest.sent = r.sent \cup {First(r.left)}
         /\ Ahead(rest)
         /\ rest.left # {} => Shape(rest)
<1>1. r.left \subseteq Option /\ r.left # {}
  BY HandlerFields DEF Shape
<1>2. First(r.left) \in r.left
  BY <1>1, FirstIsOneOf
<1>. DEFINE o == First(r.left)
<1>3. o \in Option
  BY <1>1, <1>2
<1>. HIDE DEF o
<1>. DEFINE L == r.left \ {o}
            S == r.sent \cup {o}
<1>4. rest = [r EXCEPT !.left = L, !.sent = S]
  BY DEF o
<1>a. L \subseteq Option /\ S \subseteq Option
  BY <1>1, <1>3, HandlerFields
<1>b. L = r.left \ {o} /\ S = r.sent \cup {o}
  OBVIOUS
<1>. HIDE DEF L, S
<1>5. rest \in Handler
  BY <1>4, <1>a DEF Handler
<1>6. /\ rest.pc = "carry" /\ rest.left = r.left \ {o}
      /\ rest.mine = r.mine /\ rest.todo = r.todo /\ rest.actor = r.actor
      /\ rest.job = r.job /\ rest.sent = r.sent \cup {o}
  BY <1>4, <1>b DEF Handler
<1>7. Ahead(rest)
  BY <1>6 DEF Shape, Ahead
<1>8. ASSUME rest.left # {} PROVE Shape(rest)
  BY <1>6, <1>7, <1>8 DEF Shape, OnAJob, Acting, Asking
<1>. QED BY <1>2, <1>3, <1>5, <1>6, <1>7, <1>8 DEF o

LEMMA NextAskWhat ==
  ASSUME NEW r \in Handler, Shape(r), r.pc \in {"insert", "redraft"}
  PROVE  /\ NextOwner(r) \in r.asks /\ NextOwner(r) \in Owner
         /\ NextAsk(r) \in Handler /\ Shape(NextAsk(r))
         /\ NextAsk(r).pc \in {"idle", "ask"}
         /\ r.todo = {}
         /\ NextAsk(r).pc = "ask" =>
              /\ NextAsk(r).todo = {} /\ NextAsk(r).mine = r.mine
              /\ NextAsk(r).sent = r.sent /\ NextAsk(r).actor = r.actor
              /\ NextAsk(r).asks = r.asks \ {NextOwner(r)}
         /\ NextAsk(r).pc = "idle" => NextAsk(r) = Idle /\ r.asks = {NextOwner(r)}
<1>1. r.asks \subseteq Owner /\ r.asks # {} /\ r.todo = {}
  BY HandlerFields DEF Shape, Asking
<1>2. NextOwner(r) \in r.asks
  BY <1>1 DEF NextOwner
<1>3. CASE r.asks = {NextOwner(r)}
  <2>1. NextAsk(r) = Idle /\ Idle.pc = "idle"
    BY <1>3 DEF NextAsk, Idle
  <2>. QED BY <1>1, <1>2, <1>3, <2>1, IdleHandler
<1>4. CASE r.asks # {NextOwner(r)}
  <2>. DEFINE A == r.asks \ {NextOwner(r)}
              t == [r EXCEPT !.pc = "ask", !.asks = A]
  <2>1. A # {} /\ A \subseteq Owner
    BY <1>1, <1>2, <1>4
  <2>. HIDE DEF A
  <2>2. NextAsk(r) = t
    BY <1>4 DEF NextAsk, A
  <2>3. t \in Handler
    BY <2>1 DEF Handler, Pcs
  <2>4. t.pc = "ask" /\ t.asks = A /\ t.todo = r.todo /\ t.mine = r.mine
        /\ t.actor = r.actor /\ t.sent = r.sent
    BY DEF Handler
  <2>. HIDE DEF t
  <2>5. Shape(t)
    BY <1>1, <2>1, <2>4 DEF Shape, Ahead, OnAJob, Acting, Asking, Passing
  <2>. QED BY <1>1, <1>2, <2>2, <2>3, <2>4, <2>5 DEF A
<1>. QED BY <1>3, <1>4

\* Where the counter goes inside an apply: the record keeps its job.
LEMMA HopWhat ==
  ASSUME NEW r \in Handler, Ahead(r), r.job \in Option,
         r.actor = "supervisor" => /\ r.pc \in Acting \cup {"move"}
                                   /\ ~Contradicted(r.mine, Of[r.job])
                                   /\ Of[r.job] \notin r.todo,
         NEW c \in {"mark", "rivals"}
  PROVE  /\ [r EXCEPT !.pc = c] \in Handler
         /\ Shape([r EXCEPT !.pc = c])
         /\ [r EXCEPT !.pc = c].job = r.job
         /\ [r EXCEPT !.pc = c].pc = c
         /\ [r EXCEPT !.pc = c].mine = r.mine
         /\ [r EXCEPT !.pc = c].todo = r.todo
         /\ [r EXCEPT !.pc = c].actor = r.actor
<1>. DEFINE t == [r EXCEPT !.pc = c]
<1>1. t \in Handler
  BY DEF Handler, Pcs
<1>2. /\ t.job = r.job /\ t.pc = c /\ t.mine = r.mine /\ t.todo = r.todo
      /\ t.actor = r.actor
  BY DEF Handler
<1>. HIDE DEF t
<1>3. Ahead(t)
  BY <1>2 DEF Ahead
<1>4. Shape(t)
  BY <1>2, <1>3 DEF Shape, OnAJob, Acting, Asking, Passing
<1>. QED BY <1>1, <1>2, <1>4 DEF t

\* A handler goes idle, whatever it was doing.
LEMMA SpendKeeps ==
  ASSUME Shaped, NEW p \in Proc, Spend(p)
  PROVE  Shaped' /\ proc'[p] = Idle /\ \A q \in Proc \ {p} : proc'[q] = proc[q]
BY IdleHandler, OneMoves DEF Spend

LEMMA ShapedHandler ==
  ASSUME Shaped, NEW p \in Proc
  PROVE  proc[p] \in Handler /\ Shape(proc[p])
BY DEF Shaped

LEMMA BoardWrites ==
  ASSUME TypedBoard, NEW o
  PROVE  /\ \A s \in OptionStates :
              [opt EXCEPT ![o] = s] \in [Option -> OptionStates]
         /\ \A s \in AnomalyStates :
              [anom EXCEPT ![o] = s] \in [Anomaly -> AnomalyStates]
         /\ \A s \in {"none", "draft", "returned", "posted"} :
              [req EXCEPT ![o] = s] \in [Owner -> {"none", "draft", "returned", "posted"}]
BY DEF TypedBoard

LEMMA TypedPass ==
  ASSUME Typed, NEW p \in Proc,
         StartPass(p) \/ Carry(p) \/ FindRequest(p) \/ WriteDecisionRequest(p)
  PROVE  Typed'
<1>. DEFINE r == proc[p]
<1>0. TypedBoard /\ Shaped
  BY TypedParts
<1>1. r \in Handler /\ Shape(r)
  BY <1>0, ShapedHandler
<1>2. CASE StartPass(p)
  <2>. DEFINE M == {o \in Option : Collectable(o)}
              T == {Of[o] : o \in M}
              s == [Idle EXCEPT !.actor = "supervisor", !.mine = M, !.todo = T]
  <2>1. T \subseteq Deliverable
    BY MovesWhat
  <2>2. M \subseteq Option
    OBVIOUS
  <2>. HIDE DEF M
  <2>3. T = {Of[o] : o \in M}
    OBVIOUS
  <2>. HIDE DEF T
  <2>4. s \in Handler
    BY <2>1, <2>2, IdleHandler DEF Handler
  <2>5. s.actor = "supervisor" /\ s.mine = M /\ s.todo = T
    BY IdleHandler DEF Handler
  <2>6. Set(p, Turn(s))
    BY <1>2 DEF StartPass, M, T
  <2>. HIDE DEF s
  <2>7. Ahead(s)
    BY <2>3, <2>5 DEF Ahead
  <2>8. Turn(s) \in Handler /\ Shape(Turn(s))
    BY <2>4, <2>5, <2>7, TurnWhat
  <2>9. Shaped'
    BY <1>0, <2>6, <2>8, OneMoves
  <2>10. TypedBoard'
    BY <1>0, <1>2 DEF StartPass, TypedBoard, boardVars
  <2>. QED BY <2>9, <2>10, TypedParts, PTL
<1>3. CASE Carry(p)
  <2>. DEFINE rest == [r EXCEPT !.left = @ \ {First(r.left)},
                                !.sent = @ \cup {First(r.left)}]
              n == IF rest.left = {} THEN Turn(rest) ELSE rest
  <2>1. r.pc = "carry" /\ Set(p, n)
    BY <1>3 DEF Carry
  <2>2. /\ rest \in Handler /\ Ahead(rest) /\ rest.actor = r.actor
        /\ rest.left # {} => Shape(rest)
    BY <1>1, <2>1, CarryWhat
  <2>3. r.actor = "supervisor"
    BY <1>1, <2>1 DEF Shape
  <2>. HIDE DEF rest
  <2>4. n \in Handler /\ Shape(n)
    BY <2>2, <2>3, TurnWhat
  <2>5. Shaped'
    BY <1>0, <2>1, <2>4, OneMoves
  <2>6. TypedBoard'
    BY <1>0, <1>3, BoardWrites DEF Carry, TypedBoard, histVars, OptionStates
  <2>. QED BY <2>5, <2>6, TypedParts, PTL
<1>4. CASE FindRequest(p)
  <2>. DEFINE c == IF req[NextOwner(r)] = "none" THEN "insert" ELSE "redraft"
              n == [r EXCEPT !.pc = c]
  <2>1. r.pc = "ask" /\ Set(p, n)
    BY <1>4 DEF FindRequest
  <2>2. c \in {"insert", "redraft"}
    OBVIOUS
  <2>. HIDE DEF c
  <2>3. n \in Handler
    BY <1>1, <2>2 DEF Handler, Pcs
  <2>4. n.pc = c /\ n.asks = r.asks /\ n.todo = r.todo /\ n.mine = r.mine
        /\ n.actor = r.actor
    BY <1>1 DEF Handler
  <2>. HIDE DEF n
  <2>5. Shape(n)
    BY <1>1, <2>1, <2>2, <2>4 DEF Shape, Ahead, OnAJob, Acting, Asking, Passing
  <2>6. Shaped'
    BY <1>0, <2>1, <2>3, <2>5, OneMoves
  <2>7. TypedBoard'
    BY <1>0, <1>4 DEF FindRequest, TypedBoard, boardVars, histVars
  <2>. QED BY <2>6, <2>7, TypedParts, PTL
<1>5. CASE WriteDecisionRequest(p)
  <2>1. r.pc \in {"insert", "redraft"} /\ Set(p, NextAsk(r))
    BY <1>5 DEF WriteDecisionRequest
  <2>2. NextAsk(r) \in Handler /\ Shape(NextAsk(r)) /\ NextOwner(r) \in Owner
    BY <1>1, <2>1, NextAskWhat
  <2>3. Shaped'
    BY <1>0, <2>1, <2>2, OneMoves
  <2>4. AskedFor(r, NextOwner(r)) \subseteq Option \X Owner
    BY <1>1, <2>2, HandlerFields DEF AskedFor
  <2>5. asked' \subseteq Option \X Owner
    BY <1>0, <1>5, <2>4 DEF WriteDecisionRequest, TypedBoard
  <2>6. req' \in [Owner -> {"none", "draft", "returned", "posted"}]
    BY <1>0, <1>5 DEF WriteDecisionRequest, TypedBoard
  <2>7. TypedBoard'
    BY <1>0, <1>5, <2>5, <2>6 DEF WriteDecisionRequest, TypedBoard
  <2>. QED BY <2>3, <2>7, TypedParts, PTL
<1>. QED BY <1>2, <1>3, <1>4, <1>5

LEMMA TypedApply ==
  ASSUME Typed, NEW p \in Proc,
         \/ ReadAnomaly(p) \/ MoveAnomaly(p) \/ InsertDriver(p)
         \/ Mark(p) \/ ReadRivals(p) \/ MarkNotChosen(p)
  PROVE  Typed'
<1>. DEFINE r == proc[p]
<1>0. TypedBoard /\ Shaped
  BY TypedParts
<1>1. r \in Handler /\ Shape(r)
  BY <1>0, ShapedHandler
<1>2. CASE ReadAnomaly(p)
  <2>. DEFINE a == Moves(r.job)
              to == TargetOf(Class[r.job])
              n == [r EXCEPT !.pc = "move", !.move = [on |-> a, to |-> to]]
  <2>1. r.pc = "read" /\ r.job \in Option /\ Moves(r.job) # NoAnomaly
    BY <1>1, <1>2 DEF ReadAnomaly, Shape, OnAJob, Acting
  <2>2. a \in Anomaly /\ to \in AnomalyStates
    BY <2>1, MovesWhat
  <2>3. \/ Set(p, n) /\ UNCHANGED aborted
        \/ Abort(p)
    BY <1>2 DEF ReadAnomaly
  <2>. HIDE DEF a, to
  <2>4. CASE Set(p, n) /\ UNCHANGED aborted
    <3>1. n \in Handler
      BY <1>1, <2>2 DEF Handler, Pcs
    <3>2. /\ n.pc = "move" /\ n.todo = r.todo /\ n.mine = r.mine
          /\ n.actor = r.actor /\ n.job = r.job
      BY <1>1 DEF Handler
    <3>. HIDE DEF n
    <3>3. Shape(n)
      BY <1>1, <2>1, <3>2 DEF Shape, Ahead, OnAJob, Acting, Asking, Passing
    <3>4. Shaped'
      BY <1>0, <2>4, <3>1, <3>3, OneMoves
    <3>5. TypedBoard'
      BY <1>0, <1>2, <2>4 DEF ReadAnomaly, TypedBoard, boardVars
    <3>. QED BY <3>4, <3>5, TypedParts, PTL
  <2>5. CASE Abort(p)
    <3>1. Shaped'
      BY <1>0, <2>5, SpendKeeps DEF Abort
    <3>2. aborted' \in BOOLEAN
      BY <1>0, <2>5 DEF Abort, TypedBoard
    <3>3. TypedBoard'
      BY <1>0, <1>2, <3>2 DEF ReadAnomaly, TypedBoard, boardVars
    <3>. QED BY <3>1, <3>3, TypedParts, PTL
  <2>. QED BY <2>3, <2>4, <2>5
<1>3. CASE MoveAnomaly(p)
  <2>0. r.pc = "move" /\ r.move.to \in AnomalyStates
    BY <1>1, <1>3, HandlerFields DEF MoveAnomaly
  <2>1. anom' \in [Anomaly -> AnomalyStates]
    BY <1>0, <1>3, <2>0, BoardWrites DEF MoveAnomaly
  <2>2. CASE r.job = NoOption
    <3>1. Spend(p) /\ UNCHANGED acted
      BY <1>3, <2>2 DEF MoveAnomaly
    <3>2. Shaped'
      BY <1>0, <3>1, SpendKeeps
    <3>3. TypedBoard'
      BY <1>0, <1>3, <2>1, <3>1 DEF MoveAnomaly, TypedBoard
    <3>. QED BY <3>2, <3>3, TypedParts, PTL
  <2>3. CASE r.job # NoOption
    <3>. DEFINE n == [r EXCEPT !.pc = "mark", !.move = NoMove]
    <3>1. r.job \in Option
      BY <1>1, <2>3, HandlerFields
    <3>2. Set(p, n) /\ acted' = acted \cup {r.job}
      BY <1>3, <2>3 DEF MoveAnomaly
    <3>3. n \in Handler
      BY <1>1 DEF Handler, Pcs, NoMove, AnomalyStates
    <3>4. /\ n.pc = "mark" /\ n.todo = r.todo /\ n.mine = r.mine
          /\ n.actor = r.actor /\ n.job = r.job
      BY <1>1 DEF Handler
    <3>. HIDE DEF n
    <3>5. Shape(n)
      BY <1>1, <2>0, <3>1, <3>4 DEF Shape, Ahead, OnAJob, Acting, Asking, Passing
    <3>6. Shaped'
      BY <1>0, <3>2, <3>3, <3>5, OneMoves
    <3>7. TypedBoard'
      BY <1>0, <1>3, <2>1, <3>1, <3>2 DEF MoveAnomaly, TypedBoard
    <3>. QED BY <3>6, <3>7, TypedParts, PTL
  <2>. QED BY <2>2, <2>3
<1>4. CASE InsertDriver(p)
  <2>1. /\ r.pc = "driver" /\ Set(p, [r EXCEPT !.pc = "mark"])
        /\ acted' = acted \cup {r.job}
    BY <1>4 DEF InsertDriver
  <2>2. r.job \in Option /\ Ahead(r)
        /\ (r.actor = "supervisor" => ~Contradicted(r.mine, Of[r.job])
                                       /\ Of[r.job] \notin r.todo)
    BY <1>1, <2>1 DEF Shape, OnAJob, Acting
  <2>3. [r EXCEPT !.pc = "mark"] \in Handler /\ Shape([r EXCEPT !.pc = "mark"])
    BY <1>1, <2>1, <2>2, HopWhat DEF Acting
  <2>4. Shaped'
    BY <1>0, <2>1, <2>3, OneMoves
  <2>5. TypedBoard'
    BY <1>0, <1>4, <2>1, <2>2 DEF InsertDriver, TypedBoard, boardVars
  <2>. QED BY <2>4, <2>5, TypedParts, PTL
<1>5. CASE Mark(p)
  <2>1. r.pc = "mark" /\ Set(p, [r EXCEPT !.pc = "rivals"])
    BY <1>5 DEF Mark
  <2>2. r.job \in Option /\ Ahead(r)
        /\ (r.actor = "supervisor" => ~Contradicted(r.mine, Of[r.job])
                                       /\ Of[r.job] \notin r.todo)
    BY <1>1, <2>1 DEF Shape, OnAJob, Acting
  <2>3. [r EXCEPT !.pc = "rivals"] \in Handler /\ Shape([r EXCEPT !.pc = "rivals"])
    BY <1>1, <2>1, <2>2, HopWhat DEF Acting
  <2>4. Shaped'
    BY <1>0, <2>1, <2>3, OneMoves
  <2>5. opt' \in [Option -> OptionStates]
    BY <1>0, <1>5, BoardWrites DEF Mark, OptionStates
  <2>6. TypedBoard'
    BY <1>0, <1>5, <2>5 DEF Mark, TypedBoard, histVars
  <2>. QED BY <2>4, <2>6, TypedParts, PTL
<1>6. CASE ReadRivals(p)
  <2>. DEFINE S == LiveRivalsOf(r.job)
              n == [r EXCEPT !.pc = "unchosen", !.left = S]
  <2>1. r.pc = "rivals" /\ Set(p, IF S = {} THEN Applied(r) ELSE n)
    BY <1>6 DEF ReadRivals
  <2>2. r.job \in Option /\ Ahead(r) /\ S \subseteq Option
    BY <1>1, <2>1 DEF Shape, OnAJob, LiveRivalsOf
  <2>. HIDE DEF S
  <2>3. Applied(r) \in Handler /\ Shape(Applied(r))
    BY <1>1, <2>2, AppliedWhat
  <2>4. n \in Handler
    BY <1>1, <2>2 DEF Handler, Pcs
  <2>5. /\ n.pc = "unchosen" /\ n.todo = r.todo /\ n.mine = r.mine
        /\ n.actor = r.actor /\ n.job = r.job /\ n.left = S
    BY <1>1 DEF Handler
  <2>. HIDE DEF n
  <2>6. S # {} => Shape(n)
    BY <1>1, <2>2, <2>5 DEF Shape, Ahead, OnAJob, Acting, Asking, Passing
  <2>7. Shaped'
    BY <1>0, <2>1, <2>3, <2>4, <2>6, OneMoves
  <2>8. TypedBoard'
    BY <1>0, <1>6 DEF ReadRivals, TypedBoard, boardVars, histVars
  <2>. QED BY <2>7, <2>8, TypedParts, PTL
<1>7. CASE MarkNotChosen(p)
  <2>. DEFINE L == r.left \ {First(r.left)}
              n == [r EXCEPT !.left = L]
  <2>1. r.pc = "unchosen" /\ Set(p, IF r.left = {First(r.left)} THEN Applied(r) ELSE n)
    BY <1>7 DEF MarkNotChosen
  <2>2. r.job \in Option /\ Ahead(r) /\ r.left \subseteq Option /\ r.left # {}
    BY <1>1, <2>1, HandlerFields DEF Shape, OnAJob
  <2>3. L \subseteq Option /\ (r.left # {First(r.left)} => L # {})
    BY <2>2, FirstIsOneOf
  <2>. HIDE DEF L
  <2>4. Applied(r) \in Handler /\ Shape(Applied(r))
    BY <1>1, <2>2, AppliedWhat
  <2>5. n \in Handler
    BY <1>1, <2>3 DEF Handler, Pcs
  <2>6. /\ n.pc = r.pc /\ n.todo = r.todo /\ n.mine = r.mine
        /\ n.actor = r.actor /\ n.job = r.job /\ n.left = L
    BY <1>1 DEF Handler
  <2>. HIDE DEF n
  <2>7. L # {} => Shape(n)
    BY <1>1, <2>1, <2>2, <2>6 DEF Shape, Ahead, OnAJob, Acting, Asking, Passing
  <2>8. Shaped'
    BY <1>0, <2>1, <2>3, <2>4, <2>5, <2>7, OneMoves
  <2>9. opt' \in [Option -> OptionStates]
    BY <1>0, <1>7, BoardWrites DEF MarkNotChosen, OptionStates
  <2>10. TypedBoard'
    BY <1>0, <1>7, <2>9 DEF MarkNotChosen, TypedBoard, histVars
  <2>. QED BY <2>8, <2>10, TypedParts, PTL
<1>. QED BY <1>2, <1>3, <1>4, <1>5, <1>6, <1>7

LEMMA PersonWhat ==
  ASSUME NEW c \in Pcs \ ({"idle", "read", "carry", "unchosen", "judge"}
                          \cup Asking),
         NEW j \in Option \cup {NoOption}, c \in OnAJob => j \in Option,
         NEW m, m \in [on : Anomaly \cup {NoAnomaly}, to : AnomalyStates],
         NEW n, n = [Idle EXCEPT !.actor = "person", !.pc = c, !.job = j,
                                 !.move = m]
  PROVE  n \in Handler /\ Shape(n) /\ n.actor = "person" /\ n.pc = c /\ n.job = j
<1>1. n \in Handler
  BY IdleHandler DEF Handler
<1>2. /\ n.actor = "person" /\ n.pc = c /\ n.job = j /\ n.todo = {}
  BY DEF Idle
<1>3. Shape(n)
  BY <1>2 DEF Shape, Ahead, OnAJob, Acting, Asking
<1>. QED BY <1>1, <1>2, <1>3

\* What an answer starts as: an apply or a refusal of one carried option.
LEMMA AnswerWhat ==
  ASSUME Shaped, NEW p \in Proc, NEW o \in Option, StartAnswer(p, o)
  PROVE  \E n \in Handler :
           /\ Set(p, n) /\ Shape(n) /\ n.actor = "person" /\ n.job = o
           /\ n.pc \in Acting \cup {"refuse"}
           /\ n.pc = "mark" => Moves(o) = NoAnomaly /\ Class[o] # "driver"
<1>. DEFINE r == [Idle EXCEPT !.actor = "person"]
            b == Begin(r, o)
            f == [r EXCEPT !.pc = "refuse", !.job = o]
<1>1. Set(p, b) \/ Set(p, f)
  BY DEF StartAnswer
<1>2. r \in Handler
  BY IdleHandler DEF Handler
<1>3. r.actor = "person" /\ r.todo = {}
  BY DEF Idle
<1>4. /\ b \in Handler /\ b.pc \in Acting
      /\ b.pc = "read" => Moves(o) # NoAnomaly
      /\ b.pc = "mark" => Moves(o) = NoAnomaly /\ Class[o] # "driver"
      /\ b.job = o /\ b.actor = "person" /\ b.todo = {}
  BY <1>2, <1>3, BeginWhat
<1>5. f \in Handler
  BY <1>2 DEF Handler, Pcs
<1>6. f.pc = "refuse" /\ f.job = o /\ f.actor = "person" /\ f.todo = {}
  BY <1>2, <1>3 DEF Handler
<1>. HIDE DEF b, f
<1>7. Shape(b)
  BY <1>4 DEF Shape, Ahead, OnAJob, Acting, Asking
<1>8. Shape(f)
  BY <1>6 DEF Shape, Ahead, OnAJob, Acting, Asking
<1>9. CASE Set(p, b)
  BY <1>4, <1>7, <1>9
<1>10. CASE Set(p, f)
  BY <1>5, <1>6, <1>8, <1>10 DEF Acting
<1>. QED BY <1>1, <1>9, <1>10

\* What a click starts as: a move of an anomaly, with no option behind it.
LEMMA ClickWhat ==
  ASSUME Shaped, NEW p \in Proc, NEW a \in Anomaly, Click(p, a)
  PROVE  \E n \in Handler :
           /\ Set(p, n) /\ Shape(n) /\ n.actor = "person"
           /\ n.pc = "move" /\ n.job = NoOption
<1>1. PICK to \in {"triaged", "explained", "dismissed"} :
        Set(p, [Idle EXCEPT !.actor = "person", !.pc = "move",
                            !.move = [on |-> a, to |-> to]])
  BY DEF Click
<1>. DEFINE m == [on |-> a, to |-> to]
            n == [Idle EXCEPT !.actor = "person", !.pc = "move", !.move = m]
<1>2. m \in [on : Anomaly \cup {NoAnomaly}, to : AnomalyStates]
  BY DEF AnomalyStates
<1>. HIDE DEF m
<1>3. n \in Handler
  BY <1>2, IdleHandler DEF Handler, Pcs
<1>4. n.actor = "person" /\ n.pc = "move" /\ n.job = NoOption /\ n.todo = {}
  BY DEF Idle
<1>5. Set(p, n)
  BY <1>1 DEF m
<1>. HIDE DEF n
<1>6. Shape(n)
  BY <1>4 DEF Shape, Ahead, OnAJob, Acting, Asking
<1>. QED BY <1>3, <1>4, <1>5, <1>6

\* What a person's own judgement of a request starts as.
LEMMA JudgeWhat ==
  ASSUME Shaped, NEW p \in Proc, NEW w \in Owner, StartJudge(p, w)
  PROVE  \E n \in Handler :
           /\ Set(p, n) /\ Shape(n) /\ n.actor = "person"
           /\ n.pc = "judge" /\ n.job = NoOption
<1>. DEFINE n == [Idle EXCEPT !.actor = "person", !.pc = "judge", !.asks = {w}]
<1>1. n \in Handler
  BY IdleHandler DEF Handler, Pcs
<1>2. /\ n.actor = "person" /\ n.pc = "judge" /\ n.job = NoOption
      /\ n.todo = {} /\ n.asks = {w}
  BY DEF Idle
<1>3. Set(p, n)
  BY DEF StartJudge
<1>. HIDE DEF n
<1>4. Shape(n)
  BY <1>2 DEF Shape, Ahead, OnAJob, Acting, Asking
<1>. QED BY <1>1, <1>2, <1>3, <1>4

\* A person's judgement is one write of one request, and the handler is done.
LEMMA JudgesOne ==
  ASSUME Typed, NEW p \in Proc, JudgeRequest(p)
  PROVE  /\ proc[p].pc = "judge" /\ proc[p].actor # "supervisor"
         /\ NextOwner(proc[p]) \in Owner /\ proc'[p] = Idle
         /\ \A q \in Proc \ {p} : proc'[q] = proc[q]
         /\ opt' = opt /\ acted' = acted /\ asked' = asked
<1>0. Shaped
  BY DEF Typed, TypeOK, Shaped, Handler
<1>1. proc[p] \in Handler /\ Shape(proc[p]) /\ proc[p].pc = "judge"
  BY <1>0, ShapedHandler DEF JudgeRequest
<1>2. proc[p].asks # {} /\ proc[p].asks \subseteq Owner
  BY <1>1, HandlerFields DEF Shape
<1>3. NextOwner(proc[p]) \in Owner
  BY <1>2 DEF NextOwner
<1>4. proc[p].actor # "supervisor"
  BY <1>1 DEF Shape, Passing, Acting, Asking
<1>5. proc'[p] = Idle /\ \A q \in Proc \ {p} : proc'[q] = proc[q]
  BY <1>0, SpendKeeps DEF JudgeRequest
<1>. QED BY <1>1, <1>3, <1>4, <1>5 DEF JudgeRequest

LEMMA TypedConsole ==
  ASSUME Typed, NEW p \in Proc,
         \/ Refuse(p) \/ Close(p) \/ PostRequest(p) \/ JudgeRequest(p) \/ Die(p)
         \/ \E o \in Option : StartAnswer(p, o)
         \/ \E a \in Anomaly : Click(p, a)
         \/ \E w \in Owner : StartJudge(p, w)
  PROVE  Typed'
<1>. DEFINE r == proc[p]
<1>0. TypedBoard /\ Shaped
  BY TypedParts
<1>1. r \in Handler /\ Shape(r)
  BY <1>0, ShapedHandler
<1>2. CASE Refuse(p)
  <2>. DEFINE n == [r EXCEPT !.pc = "close"]
  <2>1. r.pc = "refuse" /\ Set(p, n)
    BY <1>2 DEF Refuse
  <2>2. n \in Handler
    BY <1>1 DEF Handler, Pcs
  <2>3. n.pc = "close" /\ n.job = r.job /\ n.actor = r.actor /\ n.todo = r.todo
        /\ n.mine = r.mine
    BY <1>1 DEF Handler
  <2>. HIDE DEF n
  <2>4. Shape(n)
    BY <1>1, <2>1, <2>3 DEF Shape, Ahead, OnAJob, Acting, Asking, Passing
  <2>5. Shaped'
    BY <1>0, <2>1, <2>2, <2>4, OneMoves
  <2>6. opt' \in [Option -> OptionStates]
    BY <1>0, <1>2, BoardWrites DEF Refuse, OptionStates
  <2>7. TypedBoard'
    BY <1>0, <1>2, <2>6 DEF Refuse, TypedBoard, histVars
  <2>. QED BY <2>5, <2>7, TypedParts, PTL
<1>3. CASE Close(p)
  <2>. DEFINE n == [r EXCEPT !.pc = "post"]
  <2>1. r.pc = "close" /\ (Set(p, Idle) \/ Set(p, n))
    BY <1>3 DEF Close
  <2>2. n \in Handler
    BY <1>1 DEF Handler, Pcs
  <2>3. n.pc = "post" /\ n.job = r.job /\ n.actor = r.actor /\ n.todo = r.todo
        /\ n.mine = r.mine
    BY <1>1 DEF Handler
  <2>. HIDE DEF n
  <2>4. Shape(n)
    BY <1>1, <2>1, <2>3 DEF Shape, Ahead, OnAJob, Acting, Asking, Passing
  <2>5. Shaped'
    BY <1>0, <2>1, <2>2, <2>4, IdleHandler, OneMoves
  <2>6. TypedBoard'
    BY <1>0, <1>3 DEF Close, TypedBoard, boardVars, histVars
  <2>. QED BY <2>5, <2>6, TypedParts, PTL
<1>4. CASE PostRequest(p)
  <2>1. Shaped'
    BY <1>0, <1>4, SpendKeeps DEF PostRequest
  <2>2. req' \in [Owner -> {"none", "draft", "returned", "posted"}]
    BY <1>0, <1>4, BoardWrites DEF PostRequest
  <2>3. TypedBoard'
    BY <1>0, <1>4, <2>2 DEF PostRequest, TypedBoard, histVars
  <2>. QED BY <2>1, <2>3, TypedParts, PTL
<1>8. CASE JudgeRequest(p)
  <2>1. Shaped'
    BY <1>0, <1>8, SpendKeeps DEF JudgeRequest
  <2>a. NextOwner(proc[p]) \in Owner
    BY <1>8, JudgesOne
  <2>2. req' \in [Owner -> {"none", "draft", "returned", "posted"}]
    BY <1>0, <1>8, <2>a, BoardWrites DEF JudgeRequest
  <2>3. stamped' \subseteq Owner
    BY <1>0, <1>8, <2>a DEF JudgeRequest, TypedBoard
  <2>4. TypedBoard'
    BY <1>0, <1>8, <2>2, <2>3 DEF JudgeRequest, TypedBoard
  <2>. QED BY <2>1, <2>4, TypedParts, PTL
<1>9. ASSUME NEW w \in Owner, StartJudge(p, w) PROVE Typed'
  <2>1. Shaped'
    BY <1>0, <1>9, JudgeWhat, OneMoves
  <2>2. TypedBoard'
    BY <1>0, <1>9 DEF StartJudge, TypedBoard, boardVars, histVars
  <2>. QED BY <2>1, <2>2, TypedParts, PTL
<1>5. CASE Die(p)
  <2>1. Shaped'
    BY <1>0, <1>5, SpendKeeps DEF Die, Abort
  <2>2. aborted' \in BOOLEAN
    BY <1>0, <1>5 DEF Die, Abort, TypedBoard
  <2>3. fails' \in 0..MaxFails
    BY <1>0, <1>5, DecisionsAssumption DEF Die, TypedBoard
  <2>4. TypedBoard'
    BY <1>0, <1>5, <2>2, <2>3 DEF Die, TypedBoard, boardVars
  <2>. QED BY <2>1, <2>4, TypedParts, PTL
<1>6. ASSUME NEW o \in Option, StartAnswer(p, o) PROVE Typed'
  <2>1. Shaped'
    BY <1>0, <1>6, AnswerWhat, OneMoves
  <2>2. TypedBoard'
    BY <1>0, <1>6 DEF StartAnswer, TypedBoard, boardVars, histVars
  <2>. QED BY <2>1, <2>2, TypedParts, PTL
<1>7. ASSUME NEW a \in Anomaly, Click(p, a) PROVE Typed'
  <2>1. Shaped'
    BY <1>0, <1>7, ClickWhat, OneMoves
  <2>a. clicks < MaxClicks /\ clicks' = clicks + 1
    BY <1>7 DEF Click
  <2>b. clicks \in 0..MaxClicks /\ MaxClicks \in Nat
    BY <1>0, DecisionsAssumption DEF TypedBoard
  <2>2. clicks' \in 0..MaxClicks
    BY <2>a, <2>b
  <2>3. TypedBoard'
    BY <1>0, <1>7, <2>2 DEF Click, TypedBoard, boardVars, histVars
  <2>. QED BY <2>1, <2>3, TypedParts, PTL
<1>. QED BY <1>2, <1>3, <1>4, <1>5, <1>6, <1>7, <1>8, <1>9

LEMMA TypedNext == Typed /\ [Next]_vars => Typed'
<1>. SUFFICES ASSUME Typed, [Next]_vars PROVE Typed'
  OBVIOUS
<1>0. TypedBoard /\ Shaped
  BY TypedParts
<1>1. CASE UNCHANGED vars
  <2>1. TypedBoard'
    BY <1>0, <1>1 DEF vars, TypedBoard, boardVars, histVars
  <2>2. Shaped'
    BY <1>0, <1>1 DEF vars, Shaped
  <2>. QED BY <2>1, <2>2, TypedParts, PTL
<1>2. ASSUME NEW d \in Deliverable, PostDeliverable(d) PROVE Typed'
  <2>1. TypedBoard'
    BY <1>0, <1>2 DEF PostDeliverable, TypedBoard, histVars
  <2>2. Shaped'
    BY <1>0, <1>2 DEF PostDeliverable, Shaped
  <2>. QED BY <2>1, <2>2, TypedParts, PTL
<1>3. ASSUME NEW p \in Proc, \/ StartPass(p) \/ Step(p) \/ Die(p)
                             \/ \E o \in Option : StartAnswer(p, o)
                             \/ \E a \in Anomaly : Click(p, a)
                             \/ \E w \in Owner : StartJudge(p, w)
      PROVE  Typed'
  BY <1>3, TypedPass, TypedApply, TypedConsole DEF Step
<1>. QED BY <1>1, <1>2, <1>3 DEF Next

LEMMA AlwaysTyped == Spec => []Typed
BY TypedInit, TypedNext, PTL DEF Spec

\* Every variable keeps its type, the records of the handlers included: in
\* particular the pass never acts on an option it did not collect.
THEOREM DecisionsTypeCorrect == Spec => []TypeOK
<1>1. Typed => TypeOK
  BY DEF Typed
<1>. QED BY <1>1, AlwaysTyped, PTL

-----------------------------------------------------------------------------
(* An applied option has had its side effect. *)

NeedsEffect(o) == Moves(o) # NoAnomaly \/ Class[o] = "driver"

\* A handler that is about to mark an option has carried it out.
ActedFirst ==
  \A p \in Proc :
    proc[p].pc = "mark" /\ NeedsEffect(proc[p].job) => proc[p].job \in acted

\* What a step makes of the handler it moves: one that turns up at "mark"
\* has its effect behind it or needs none; only "mark" writes "applied".
LEMMA MarkComesLast ==
  ASSUME Typed, NEW p \in Proc, Step(p)
  PROVE  /\ proc'[p].pc = "mark" /\ NeedsEffect(proc'[p].job)
              => proc'[p].job \in acted'
         /\ \A q \in Proc \ {p} : proc'[q] = proc[q]
         /\ acted \subseteq acted'
         /\ \A o \in Option : opt'[o] = "applied" =>
              \/ opt[o] = "applied"
              \/ proc[p].pc = "mark" /\ o = proc[p].job
<1>. DEFINE r == proc[p]
<1>0. TypedBoard /\ Shaped
  BY TypedParts
<1>1. r \in Handler /\ Shape(r) /\ proc \in [Proc -> Handler]
  BY <1>0, ShapedHandler DEF Shaped
<1>a. opt \in [Option -> OptionStates]
  BY <1>0 DEF TypedBoard
<1>2. CASE Carry(p)
  <2>. DEFINE rest == [r EXCEPT !.left = @ \ {First(r.left)},
                                !.sent = @ \cup {First(r.left)}]
  <2>1. r.pc = "carry" /\ Set(p, IF rest.left = {} THEN Turn(rest) ELSE rest)
        /\ opt' = [opt EXCEPT ![First(r.left)] = "carried"] /\ acted' = acted
    BY <1>2 DEF Carry, histVars
  <2>2. rest \in Handler /\ Ahead(rest) /\ rest.actor = r.actor /\ rest.pc = "carry"
    BY <1>1, <2>1, CarryWhat
  <2>3. r.actor = "supervisor"
    BY <1>1, <2>1 DEF Shape
  <2>. HIDE DEF rest
  <2>4. Turn(rest).pc = "mark" => ~NeedsEffect(Turn(rest).job)
    BY <2>2, <2>3, TurnWhat DEF NeedsEffect
  <2>. QED BY <1>1, <1>a, <2>1, <2>2, <2>4 DEF Set
<1>3. CASE FindRequest(p)
  <2>1. PICK c \in {"insert", "redraft"} : Set(p, [r EXCEPT !.pc = c])
    BY <1>3 DEF FindRequest
  <2>2. [r EXCEPT !.pc = c].pc = c
    BY <1>1 DEF Handler
  <2>3. acted' = acted /\ opt' = opt
    BY <1>3 DEF FindRequest, boardVars, histVars
  <2>. QED BY <1>1, <2>1, <2>2, <2>3 DEF Set
<1>4. CASE WriteDecisionRequest(p)
  <2>1. r.pc \in {"insert", "redraft"} /\ Set(p, NextAsk(r))
        /\ acted' = acted /\ opt' = opt
    BY <1>4 DEF WriteDecisionRequest
  <2>2. NextAsk(r).pc \in {"idle", "ask"}
    BY <1>1, <2>1, NextAskWhat
  <2>. QED BY <1>1, <2>1, <2>2 DEF Set
<1>5. CASE ReadAnomaly(p)
  <2>1. acted' = acted /\ opt' = opt
    BY <1>5 DEF ReadAnomaly, boardVars
  <2>2. \/ \E m : Set(p, [r EXCEPT !.pc = "move", !.move = m])
        \/ Set(p, Idle)
    BY <1>5 DEF ReadAnomaly, Abort, Spend
  <2>3. \A m : [r EXCEPT !.pc = "move", !.move = m].pc = "move"
    BY <1>1 DEF Handler
  <2>4. Idle.pc = "idle"
    BY DEF Idle
  <2>5. proc'[p].pc # "mark" /\ \A q \in Proc \ {p} : proc'[q] = proc[q]
    BY <1>1, <2>2, <2>3, <2>4 DEF Set
  <2>. QED BY <2>1, <2>5
<1>6. CASE MoveAnomaly(p)
  <2>1. opt' = opt
    BY <1>6 DEF MoveAnomaly
  <2>2. \/ Set(p, Idle) /\ acted' = acted
        \/ /\ Set(p, [r EXCEPT !.pc = "mark", !.move = NoMove])
           /\ acted' = acted \cup {r.job}
    BY <1>6 DEF MoveAnomaly, Spend
  <2>3. [r EXCEPT !.pc = "mark", !.move = NoMove].job = r.job
    BY <1>1 DEF Handler
  <2>4. Idle.pc = "idle"
    BY DEF Idle
  <2>. QED BY <1>1, <2>1, <2>2, <2>3, <2>4 DEF Set
<1>7. CASE InsertDriver(p)
  <2>1. /\ Set(p, [r EXCEPT !.pc = "mark"])
        /\ acted' = acted \cup {r.job} /\ opt' = opt
    BY <1>7 DEF InsertDriver, boardVars
  <2>2. [r EXCEPT !.pc = "mark"].job = r.job
    BY <1>1 DEF Handler
  <2>. QED BY <1>1, <2>1, <2>2 DEF Set
<1>8. CASE Mark(p)
  <2>1. /\ r.pc = "mark" /\ Set(p, [r EXCEPT !.pc = "rivals"])
        /\ acted' = acted /\ opt' = [opt EXCEPT ![r.job] = "applied"]
    BY <1>8 DEF Mark, histVars
  <2>2. [r EXCEPT !.pc = "rivals"].pc = "rivals"
    BY <1>1 DEF Handler
  <2>. QED BY <1>1, <1>a, <2>1, <2>2 DEF Set
<1>9. CASE ReadRivals(p)
  <2>. DEFINE S == LiveRivalsOf(r.job)
              n == [r EXCEPT !.pc = "unchosen", !.left = S]
  <2>1. r.pc = "rivals" /\ Set(p, IF S = {} THEN Applied(r) ELSE n)
        /\ acted' = acted /\ opt' = opt
    BY <1>9 DEF ReadRivals, boardVars, histVars
  <2>2. r.job \in Option /\ Ahead(r)
    BY <1>1, <2>1 DEF Shape, OnAJob
  <2>3. Applied(r).pc = "mark" => ~NeedsEffect(Applied(r).job)
    BY <1>1, <2>2, AppliedWhat DEF NeedsEffect
  <2>. HIDE DEF S
  <2>4. n.pc = "unchosen"
    BY <1>1 DEF Handler
  <2>. HIDE DEF n
  <2>. QED BY <1>1, <2>1, <2>3, <2>4 DEF Set
<1>10. CASE MarkNotChosen(p)
  <2>. DEFINE n == [r EXCEPT !.left = @ \ {First(r.left)}]
  <2>1. r.pc = "unchosen"
        /\ Set(p, IF r.left = {First(r.left)} THEN Applied(r) ELSE n)
        /\ acted' = acted /\ opt' = [opt EXCEPT ![First(r.left)] = "not_chosen"]
    BY <1>10 DEF MarkNotChosen, histVars
  <2>2. r.job \in Option /\ Ahead(r)
    BY <1>1, <2>1 DEF Shape, OnAJob
  <2>3. Applied(r).pc = "mark" => ~NeedsEffect(Applied(r).job)
    BY <1>1, <2>2, AppliedWhat DEF NeedsEffect
  <2>4. n.pc = r.pc
    BY <1>1 DEF Handler
  <2>. HIDE DEF n
  <2>. QED BY <1>1, <1>a, <2>1, <2>3, <2>4 DEF Set
<1>11. CASE Refuse(p)
  <2>1. /\ Set(p, [r EXCEPT !.pc = "close"])
        /\ acted' = acted /\ opt' = [opt EXCEPT ![r.job] = "refused"]
    BY <1>11 DEF Refuse, histVars
  <2>2. [r EXCEPT !.pc = "close"].pc = "close"
    BY <1>1 DEF Handler
  <2>. QED BY <1>1, <1>a, <2>1, <2>2 DEF Set
<1>12. CASE Close(p) \/ PostRequest(p) \/ JudgeRequest(p)
  <2>1. Set(p, Idle) \/ Set(p, [r EXCEPT !.pc = "post"])
    BY <1>12 DEF Close, PostRequest, JudgeRequest, Spend
  <2>2. [r EXCEPT !.pc = "post"].pc = "post" /\ Idle.pc = "idle"
    BY <1>1 DEF Handler, Idle
  <2>3. acted' = acted /\ opt' = opt
    BY <1>12 DEF Close, PostRequest, JudgeRequest, boardVars, histVars
  <2>. QED BY <1>1, <2>1, <2>2, <2>3 DEF Set
<1>. QED BY <1>2, <1>3, <1>4, <1>5, <1>6, <1>7, <1>8, <1>9, <1>10, <1>11, <1>12
         DEF Step

\* The steps that begin and end a handler do not write an option.
LEMMA EdgesWriteNoOption ==
  ASSUME Typed, NEW p \in Proc,
         \/ StartPass(p) \/ Die(p)
         \/ \E o \in Option : StartAnswer(p, o)
         \/ \E a \in Anomaly : Click(p, a)
         \/ \E w \in Owner : StartJudge(p, w)
  PROVE  /\ opt' = opt /\ acted' = acted
         /\ \A q \in Proc \ {p} : proc'[q] = proc[q]
         /\ proc'[p].pc = "mark" => ~NeedsEffect(proc'[p].job)
<1>0. TypedBoard /\ Shaped
  BY TypedParts
<1>1. proc \in [Proc -> Handler]
  BY <1>0 DEF Shaped
<1>2. CASE StartPass(p)
  <2>. DEFINE M == {o \in Option : Collectable(o)}
              T == {Of[o] : o \in M}
              s == [Idle EXCEPT !.actor = "supervisor", !.mine = M, !.todo = T]
  <2>1. T \subseteq Deliverable
    BY MovesWhat
  <2>2. M \subseteq Option
    OBVIOUS
  <2>. HIDE DEF M
  <2>3. T = {Of[o] : o \in M}
    OBVIOUS
  <2>. HIDE DEF T
  <2>4. s \in Handler
    BY <2>1, <2>2, IdleHandler DEF Handler
  <2>5. s.actor = "supervisor" /\ s.mine = M /\ s.todo = T
    BY IdleHandler DEF Handler
  <2>6. Set(p, Turn(s))
    BY <1>2 DEF StartPass, M, T
  <2>. HIDE DEF s
  <2>7. Turn(s).pc = "mark" => ~NeedsEffect(Turn(s).job)
    BY <2>3, <2>4, <2>5, TurnWhat DEF Ahead, NeedsEffect
  <2>8. opt' = opt /\ acted' = acted
    BY <1>2 DEF StartPass, boardVars
  <2>. QED BY <1>1, <2>6, <2>7, <2>8 DEF Set
<1>3. CASE Die(p)
  <2>1. opt' = opt /\ acted' = acted
    BY <1>3 DEF Die, boardVars
  <2>2. proc'[p] = Idle /\ \A q \in Proc \ {p} : proc'[q] = proc[q]
    BY <1>0, <1>3, SpendKeeps DEF Die, Abort
  <2>. QED BY <2>1, <2>2 DEF Idle
<1>4. ASSUME NEW o \in Option, StartAnswer(p, o)
      PROVE  /\ opt' = opt /\ acted' = acted
             /\ \A q \in Proc \ {p} : proc'[q] = proc[q]
             /\ proc'[p].pc = "mark" => ~NeedsEffect(proc'[p].job)
  <2>1. opt' = opt /\ acted' = acted
    BY <1>4 DEF StartAnswer, boardVars, histVars
  <2>. QED BY <1>0, <1>4, <2>1, AnswerWhat, OneMoves DEF NeedsEffect
<1>5. ASSUME NEW a \in Anomaly, Click(p, a)
      PROVE  /\ opt' = opt /\ acted' = acted
             /\ \A q \in Proc \ {p} : proc'[q] = proc[q]
             /\ proc'[p].pc = "mark" => ~NeedsEffect(proc'[p].job)
  <2>1. opt' = opt /\ acted' = acted
    BY <1>5 DEF Click, boardVars, histVars
  <2>. QED BY <1>0, <1>5, <2>1, ClickWhat, OneMoves
<1>6. ASSUME NEW w \in Owner, StartJudge(p, w)
      PROVE  /\ opt' = opt /\ acted' = acted
             /\ \A q \in Proc \ {p} : proc'[q] = proc[q]
             /\ proc'[p].pc = "mark" => ~NeedsEffect(proc'[p].job)
  <2>1. opt' = opt /\ acted' = acted
    BY <1>6 DEF StartJudge, boardVars, histVars
  <2>. QED BY <1>0, <1>6, <2>1, JudgeWhat, OneMoves
<1>. QED BY <1>2, <1>3, <1>4, <1>5, <1>6

LEMMA ActedNext ==
  ASSUME Typed, ActedFirst, AppliedHasActed, [Next]_vars
  PROVE  ActedFirst' /\ AppliedHasActed'
<1>1. CASE UNCHANGED vars
  BY <1>1 DEF vars, boardVars, histVars, ActedFirst, AppliedHasActed
<1>2. ASSUME NEW d \in Deliverable, PostDeliverable(d)
      PROVE  ActedFirst' /\ AppliedHasActed'
  BY <1>2 DEF PostDeliverable, histVars, ActedFirst, AppliedHasActed
<1>3. ASSUME NEW p \in Proc, \/ StartPass(p) \/ Die(p)
                             \/ \E o \in Option : StartAnswer(p, o)
                             \/ \E a \in Anomaly : Click(p, a)
                             \/ \E w \in Owner : StartJudge(p, w)
      PROVE  ActedFirst' /\ AppliedHasActed'
  <2>1. /\ opt' = opt /\ acted' = acted
        /\ \A q \in Proc \ {p} : proc'[q] = proc[q]
        /\ proc'[p].pc = "mark" => ~NeedsEffect(proc'[p].job)
    BY <1>3, EdgesWriteNoOption
  <2>. QED BY <2>1 DEF ActedFirst, AppliedHasActed
<1>4. ASSUME NEW p \in Proc, Step(p)
      PROVE  ActedFirst' /\ AppliedHasActed'
  <2>1. /\ proc'[p].pc = "mark" /\ NeedsEffect(proc'[p].job)
              => proc'[p].job \in acted'
        /\ \A q \in Proc \ {p} : proc'[q] = proc[q]
        /\ acted \subseteq acted'
        /\ \A o \in Option : opt'[o] = "applied" =>
             \/ opt[o] = "applied"
             \/ proc[p].pc = "mark" /\ o = proc[p].job
    BY <1>4, MarkComesLast
  <2>2. ActedFirst'
    BY <2>1 DEF ActedFirst
  <2>3. AppliedHasActed'
    BY <2>1 DEF ActedFirst, AppliedHasActed, NeedsEffect
  <2>. QED BY <2>2, <2>3
<1>. QED BY <1>1, <1>2, <1>3, <1>4 DEF Next

\* No option is marked applied before its side effect has happened, however
\* many handlers answer at once and wherever one of them dies.
THEOREM DecisionsAppliedHasActed == Spec => []AppliedHasActed
<1>1. Init => ActedFirst /\ AppliedHasActed
  BY DEF Init, Idle, ActedFirst, AppliedHasActed
<1>2. Typed /\ ActedFirst /\ AppliedHasActed /\ [Next]_vars
      => ActedFirst' /\ AppliedHasActed'
  BY ActedNext
<1>. QED BY <1>1, <1>2, AlwaysTyped, PTL DEF Spec

-----------------------------------------------------------------------------
(* A contradiction goes to its owner. *)

LEMMA ContradictionStep ==
  ASSUME Typed, NEW p \in Proc,
         proc[p].pc = "mark", proc[p].actor = "supervisor",
         NEW d \in Deliverable, NEW e \in Deliverable, Of[proc[p].job] \in {d, e},
         AnomalyOf[d] = AnomalyOf[e], AnomalyOf[d] # NoAnomaly,
         NEW x \in Explains(proc[p].mine, AnomalyOf[d]), Of[x] = d,
         NEW y \in Explains(proc[p].mine, AnomalyOf[d]), Of[y] = e
  PROVE  \E v, w \in Explains(proc[p].mine, AnomalyOf[d]) :
           Of[v] = d /\ Of[w] = e /\ Summary[v] = Summary[w]
<1>. DEFINE M == proc[p].mine
            E == Explains(M, AnomalyOf[d])
            v == Voice(M, d)
            w == Voice(M, e)
<1>1. proc[p] \in Handler /\ Shape(proc[p])
  BY TypedParts, ShapedHandler
<1>2. M \subseteq Option
  BY <1>1, HandlerFields
<1>3. ~Contradicted(M, Of[proc[p].job])
  BY <1>1 DEF Shape, Acting
<1>. HIDE DEF M
<1>4. v \in E /\ Of[v] = d
  BY <1>2, VoiceIsOneOf DEF M
<1>5. w \in E /\ Of[w] = e
  BY <1>2, VoiceIsOneOf DEF M
<1>6. AnomalyOf[Of[proc[p].job]] = AnomalyOf[d]
  OBVIOUS
<1>7. x \in E /\ y \in E /\ \E o \in E : Of[o] = Of[proc[p].job]
  BY DEF M
<1>8. \A o, z \in E : Summary[Voice(M, Of[o])] = Summary[Voice(M, Of[z])]
  BY <1>3, <1>6, <1>7 DEF Contradicted
<1>9. Summary[v] = Summary[w]
  BY <1>4, <1>5, <1>8
<1>. QED BY <1>4, <1>5, <1>9 DEF M

\* While a pass holds two deliverables that explain one anomaly differently,
\* it marks no option of either applied: an owner is asked instead.
THEOREM DecisionsContradictionIsAsked == Spec => ContradictionIsAsked
<1>1. ASSUME Typed, NEW p \in Proc,
             proc[p].pc = "mark", proc[p].actor = "supervisor"
      PROVE  ~ \E d, e \in Deliverable :
                 /\ d # e /\ Of[proc[p].job] \in {d, e}
                 /\ AnomalyOf[d] = AnomalyOf[e]
                 /\ AnomalyOf[d] # NoAnomaly
                 /\ \E x \in Explains(proc[p].mine, AnomalyOf[d]) : Of[x] = d
                 /\ \E x \in Explains(proc[p].mine, AnomalyOf[d]) : Of[x] = e
                 /\ \A x, y \in Explains(proc[p].mine, AnomalyOf[d]) :
                      Of[x] = d /\ Of[y] = e => Summary[x] # Summary[y]
  BY <1>1, ContradictionStep
<1>. DEFINE A == \A p \in Proc :
       LET r == proc[p]
       IN  r.pc = "mark" /\ r.actor = "supervisor" /\ opt' # opt
           /\ opt'[r.job] = "applied" /\ proc'[p] # proc[p]
           => ~ \E d, e \in Deliverable :
                  /\ d # e /\ Of[r.job] \in {d, e}
                  /\ AnomalyOf[d] = AnomalyOf[e]
                  /\ AnomalyOf[d] # NoAnomaly
                  /\ \E x \in Explains(r.mine, AnomalyOf[d]) : Of[x] = d
                  /\ \E x \in Explains(r.mine, AnomalyOf[d]) : Of[x] = e
                  /\ \A x, y \in Explains(r.mine, AnomalyOf[d]) :
                       Of[x] = d /\ Of[y] = e => Summary[x] # Summary[y]
<1>2. Typed => A
  BY <1>1
<1>. HIDE DEF A
<1>3. Typed /\ [Next]_vars => [A]_vars
  BY <1>2
<1>4. ContradictionIsAsked <=> [][A]_vars
  BY DEF ContradictionIsAsked, A
<1>. QED BY <1>3, <1>4, AlwaysTyped, PTL DEF Spec

-----------------------------------------------------------------------------
(* A pass that ends well leaves none of its options open. *)

\* What the pass still has to do about one of its options.
Pending(r, o) ==
  \/ Of[o] \in r.todo
  \/ r.pc \in {"carry", "unchosen"} /\ o \in r.left
  \/ r.pc \in Acting \cup {"move"} /\ Of[o] = Of[r.job]
  \/ r.pc = "rivals" /\ Of[o] = Of[r.job] /\ o # r.job

Covers(r, states) ==
  r.actor = "supervisor" =>
    \A o \in r.mine : states[o] # "open" \/ Pending(r, o)

NothingForgotten == \A p \in Proc : Covers(proc[p], opt)

LEMMA TurnCovers ==
  ASSUME NEW r \in Handler, Ahead(r), r.actor = "supervisor",
         NEW o \in r.mine, Of[o] \in r.todo
  PROVE  Turn(r).pc # "idle" /\ Pending(Turn(r), o)
BY TurnWhat DEF Pending

LEMMA AppliedCovers ==
  ASSUME NEW r \in Handler, Ahead(r), r.job \in Option, r.actor = "supervisor",
         NEW o \in r.mine, Of[o] \in r.todo
  PROVE  Applied(r).pc # "idle" /\ Pending(Applied(r), o)
BY AppliedWhat DEF Pending

\* Nothing takes an option back to "open".
LEMMA OpenIsLeftOnce ==
  ASSUME Typed, NEW p \in Proc, Step(p), NEW o \in Option, opt[o] # "open"
  PROVE  opt'[o] # "open"
<1>1. opt \in [Option -> OptionStates]
  BY DEF Typed, TypeOK
<1>2. \/ opt' = opt
      \/ \E x, s : opt' = [opt EXCEPT ![x] = s] /\ s # "open"
  <2>1. CASE Carry(p) \/ Mark(p) \/ MarkNotChosen(p) \/ Refuse(p)
    <3>1. \/ opt' = [opt EXCEPT ![First(proc[p].left)] = "carried"]
          \/ opt' = [opt EXCEPT ![proc[p].job] = "applied"]
          \/ opt' = [opt EXCEPT ![First(proc[p].left)] = "not_chosen"]
          \/ opt' = [opt EXCEPT ![proc[p].job] = "refused"]
      BY <2>1 DEF Carry, Mark, MarkNotChosen, Refuse
    <3>2. "carried" # "open" /\ "applied" # "open" /\ "not_chosen" # "open"
          /\ "refused" # "open"
      OBVIOUS
    <3>. QED BY <3>1, <3>2, Zenon
  <2>2. CASE FindRequest(p) \/ WriteDecisionRequest(p) \/ ReadAnomaly(p)
             \/ MoveAnomaly(p) \/ InsertDriver(p) \/ ReadRivals(p)
             \/ Close(p) \/ PostRequest(p) \/ JudgeRequest(p)
    BY <2>2 DEF FindRequest, WriteDecisionRequest, ReadAnomaly, MoveAnomaly,
                InsertDriver, ReadRivals, Close, PostRequest, JudgeRequest, boardVars
  <2>. QED BY <2>1, <2>2 DEF Step
<1>. QED BY <1>1, <1>2

\* A step of the pass does the next thing it owes each of its options.
Delivers(p) ==
  LET r == proc[p]
  IN  r.actor = "supervisor" =>
        /\ proc'[p].pc # "idle" =>
             /\ proc'[p].mine = r.mine
             /\ \A o \in r.mine : opt'[o] # "open" \/ Pending(proc'[p], o)
        /\ proc'[p].pc = "idle" /\ r.pc # "read" =>
             \A o \in r.mine : opt'[o] # "open"

LEMMA CarryDelivers ==
  ASSUME Typed, NothingForgotten, NEW p \in Proc, Carry(p)
  PROVE  Delivers(p)
<1>. DEFINE r == proc[p]
            rest == [r EXCEPT !.left = @ \ {First(r.left)},
                              !.sent = @ \cup {First(r.left)}]
            n == IF rest.left = {} THEN Turn(rest) ELSE rest
<1>0. TypedBoard /\ Shaped
  BY TypedParts
<1>1. r \in Handler /\ Shape(r)
  BY <1>0, ShapedHandler
<1>2. /\ r.pc = "carry" /\ Set(p, n)
      /\ opt' = [opt EXCEPT ![First(r.left)] = "carried"]
  BY DEF Carry
<1>3. proc'[p] = n
  BY <1>0, <1>2 DEF Set, Shaped
<1>4. /\ rest \in Handler /\ Ahead(rest) /\ First(r.left) \in Option
      /\ rest.actor = r.actor /\ rest.mine = r.mine /\ rest.todo = r.todo
      /\ rest.left = r.left \ {First(r.left)} /\ rest.pc = "carry"
  BY <1>1, <1>2, CarryWhat
<1>5. r.actor = "supervisor" /\ r.mine \subseteq Option
  BY <1>1, <1>2, HandlerFields DEF Shape
<1>6. opt'[First(r.left)] = "carried"
      /\ \A o \in Option \ {First(r.left)} : opt'[o] = opt[o]
  BY <1>0, <1>2, <1>4 DEF TypedBoard
<1>. HIDE DEF rest
<1>7. ASSUME NEW o \in r.mine
      PROVE  opt'[o] # "open" \/ (n.pc # "idle" /\ Pending(n, o))
  <2>1. opt[o] # "open" \/ Of[o] \in r.todo \/ o \in r.left
    BY <1>2, <1>5 DEF NothingForgotten, Covers, Pending, Acting
  <2>2. CASE opt[o] # "open"
    BY <1>5, <1>6, <2>2
  <2>3. CASE o \in r.left /\ o = First(r.left)
    BY <1>6, <2>3
  <2>4. CASE o \in r.left /\ o # First(r.left)
    BY <1>4, <2>4 DEF Pending
  <2>5. CASE Of[o] \in r.todo
    <3>1. Turn(rest).pc # "idle" /\ Pending(Turn(rest), o)
      BY <1>4, <1>5, <2>5, TurnCovers
    <3>2. rest.pc # "idle" /\ Pending(rest, o)
      BY <1>4, <2>5 DEF Pending
    <3>. QED BY <3>1, <3>2
  <2>. QED BY <2>1, <2>2, <2>3, <2>4, <2>5
<1>8. n.pc # "idle" => n.mine = r.mine
  BY <1>4, <1>5, TurnWhat
<1>. HIDE DEF n
<1>. QED BY <1>3, <1>7, <1>8 DEF Delivers

LEMMA AskDelivers ==
  ASSUME Typed, NothingForgotten, NEW p \in Proc,
         FindRequest(p) \/ WriteDecisionRequest(p)
  PROVE  Delivers(p)
<1>. DEFINE r == proc[p]
<1>0. TypedBoard /\ Shaped
  BY TypedParts
<1>1. r \in Handler /\ Shape(r)
  BY <1>0, ShapedHandler
<1>2. /\ r.pc \in Asking /\ opt' = opt
      /\ \/ \E c \in {"insert", "redraft"} : Set(p, [r EXCEPT !.pc = c])
         \/ r.pc \in {"insert", "redraft"} /\ Set(p, NextAsk(r))
  BY DEF FindRequest, WriteDecisionRequest, boardVars, Asking
<1>3. r.todo = {}
  BY <1>1, <1>2 DEF Shape
<1>4. r.actor = "supervisor"
  BY <1>1, <1>2 DEF Shape
<1>5. \A o \in r.mine : opt'[o] # "open"
  BY <1>2, <1>3, <1>4 DEF NothingForgotten, Covers, Pending, Acting, Asking
<1>6. proc'[p].pc # "idle" => proc'[p].mine = r.mine
  <2>1. ASSUME NEW c \in {"insert", "redraft"}, Set(p, [r EXCEPT !.pc = c])
        PROVE  proc'[p].mine = r.mine
    <3>1. [r EXCEPT !.pc = c].mine = r.mine
      BY <1>1 DEF Handler
    <3>. QED BY <1>0, <2>1, <3>1 DEF Set, Shaped
  <2>2. CASE r.pc \in {"insert", "redraft"} /\ Set(p, NextAsk(r))
    <3>1. proc'[p] = NextAsk(r)
      BY <1>0, <2>2 DEF Set, Shaped
    <3>. QED BY <1>1, <2>2, <3>1, NextAskWhat
  <2>. QED BY <1>2, <2>1, <2>2
<1>. QED BY <1>5, <1>6 DEF Delivers

LEMMA ApplyDelivers ==
  ASSUME Typed, NothingForgotten, NEW p \in Proc,
         ReadAnomaly(p) \/ MoveAnomaly(p) \/ InsertDriver(p) \/ Mark(p)
  PROVE  Delivers(p)
<1>. DEFINE r == proc[p]
<1>0. TypedBoard /\ Shaped
  BY TypedParts
<1>1. r \in Handler /\ Shape(r)
  BY <1>0, ShapedHandler
<1>2. SUFFICES ASSUME r.actor = "supervisor" PROVE Delivers(p)
  BY DEF Delivers
<1>3. r.mine \subseteq Option /\ r.pc \in Acting \cup {"move"}
  BY <1>1, HandlerFields
     DEF ReadAnomaly, MoveAnomaly, InsertDriver, Mark, Acting
<1>4. r.job \in Option /\ r.job # NoOption
  BY <1>1, <1>2, <1>3, DecisionsAssumption DEF Shape, OnAJob, NoOption
<1>5. \A o \in r.mine : opt[o] # "open" \/ Of[o] \in r.todo \/ Of[o] = Of[r.job]
  BY <1>2, <1>3 DEF NothingForgotten, Covers, Pending, Acting
<1>6. CASE ReadAnomaly(p)
  <2>1. /\ r.pc = "read" /\ opt' = opt
        /\ \/ \E m : Set(p, [r EXCEPT !.pc = "move", !.move = m])
           \/ Set(p, Idle)
    BY <1>6 DEF ReadAnomaly, Abort, Spend, boardVars
  <2>2. CASE Set(p, Idle)
    <3>1. proc'[p].pc = "idle"
      BY <1>0, <2>2 DEF Set, Shaped, Idle
    <3>. QED BY <2>1, <3>1 DEF Delivers
  <2>3. ASSUME NEW m, Set(p, [r EXCEPT !.pc = "move", !.move = m])
        PROVE  Delivers(p)
    <3>. DEFINE n == [r EXCEPT !.pc = "move", !.move = m]
    <3>1. proc'[p] = n
      BY <1>0, <2>3 DEF Set, Shaped
    <3>2. n.pc = "move" /\ n.mine = r.mine /\ n.todo = r.todo /\ n.job = r.job
      BY <1>1 DEF Handler
    <3>. HIDE DEF n
    <3>. QED BY <1>5, <2>1, <3>1, <3>2 DEF Delivers, Pending
  <2>. QED BY <2>1, <2>2, <2>3
<1>7. CASE MoveAnomaly(p)
  <2>. DEFINE n == [r EXCEPT !.pc = "mark", !.move = NoMove]
  <2>1. opt' = opt /\ Set(p, n)
    BY <1>4, <1>7 DEF MoveAnomaly
  <2>2. proc'[p] = n
    BY <1>0, <2>1 DEF Set, Shaped
  <2>3. n.pc = "mark" /\ n.mine = r.mine /\ n.todo = r.todo /\ n.job = r.job
    BY <1>1 DEF Handler
  <2>. HIDE DEF n
  <2>. QED BY <1>5, <2>1, <2>2, <2>3 DEF Delivers, Pending, Acting
<1>8. CASE InsertDriver(p)
  <2>. DEFINE n == [r EXCEPT !.pc = "mark"]
  <2>1. opt' = opt /\ Set(p, n)
    BY <1>8 DEF InsertDriver, boardVars
  <2>2. proc'[p] = n
    BY <1>0, <2>1 DEF Set, Shaped
  <2>3. n.pc = "mark" /\ n.mine = r.mine /\ n.todo = r.todo /\ n.job = r.job
    BY <1>1 DEF Handler
  <2>. HIDE DEF n
  <2>. QED BY <1>5, <2>1, <2>2, <2>3 DEF Delivers, Pending, Acting
<1>9. CASE Mark(p)
  <2>. DEFINE n == [r EXCEPT !.pc = "rivals"]
  <2>1. opt' = [opt EXCEPT ![r.job] = "applied"] /\ Set(p, n)
    BY <1>9 DEF Mark
  <2>2. proc'[p] = n
    BY <1>0, <2>1 DEF Set, Shaped
  <2>3. n.pc = "rivals" /\ n.mine = r.mine /\ n.todo = r.todo /\ n.job = r.job
    BY <1>1 DEF Handler
  <2>. HIDE DEF n
  <2>4. opt'[r.job] = "applied" /\ \A o \in Option \ {r.job} : opt'[o] = opt[o]
    BY <1>0, <1>4, <2>1 DEF TypedBoard
  <2>5. \A o \in r.mine : opt'[o] # "open" \/ Pending(n, o)
    BY <1>3, <1>5, <2>3, <2>4 DEF Pending
  <2>. QED BY <2>2, <2>3, <2>5 DEF Delivers
<1>. QED BY <1>6, <1>7, <1>8, <1>9

LEMMA SetAsideDelivers ==
  ASSUME Typed, NothingForgotten, NEW p \in Proc,
         ReadRivals(p) \/ MarkNotChosen(p)
  PROVE  Delivers(p)
<1>. DEFINE r == proc[p]
<1>0. TypedBoard /\ Shaped
  BY TypedParts
<1>1. r \in Handler /\ Shape(r)
  BY <1>0, ShapedHandler
<1>2. SUFFICES ASSUME r.actor = "supervisor" PROVE Delivers(p)
  BY DEF Delivers
<1>3. /\ r.mine \subseteq Option /\ r.left \subseteq Option
      /\ r.pc \in {"rivals", "unchosen"}
  BY <1>1, HandlerFields DEF ReadRivals, MarkNotChosen
<1>4. r.job \in Option /\ Ahead(r)
  BY <1>1, <1>3 DEF Shape, OnAJob
<1>5. Applied(r).pc # "idle" => Applied(r).mine = r.mine
  BY <1>1, <1>2, <1>4, AppliedWhat
<1>6. CASE ReadRivals(p)
  <2>. DEFINE S == LiveRivalsOf(r.job)
              n == [r EXCEPT !.pc = "unchosen", !.left = S]
  <2>1. r.pc = "rivals" /\ opt' = opt /\ Set(p, IF S = {} THEN Applied(r) ELSE n)
    BY <1>6 DEF ReadRivals, boardVars
  <2>2. proc'[p] = IF S = {} THEN Applied(r) ELSE n
    BY <1>0, <2>1 DEF Set, Shaped
  <2>3. \A o \in r.mine : opt[o] = "open" /\ Of[o] = Of[r.job] /\ o # r.job => o \in S
    BY <1>3 DEF LiveRivalsOf, Live
  <2>. HIDE DEF S
  <2>4. n.pc = "unchosen" /\ n.mine = r.mine /\ n.todo = r.todo /\ n.left = S
    BY <1>1 DEF Handler
  <2>. HIDE DEF n
  <2>5. ASSUME NEW o \in r.mine
        PROVE  opt[o] # "open" \/ Of[o] \in r.todo \/ o \in S
    BY <1>2, <2>1, <2>3 DEF NothingForgotten, Covers, Pending, Acting
  <2>6. ASSUME NEW o \in r.mine, Of[o] \in r.todo
        PROVE  Applied(r).pc # "idle" /\ Pending(Applied(r), o)
    BY <1>1, <1>2, <1>4, <2>6, AppliedCovers
  <2>7. CASE S = {}
    BY <1>5, <2>1, <2>2, <2>5, <2>6, <2>7 DEF Delivers
  <2>8. CASE S # {}
    BY <2>1, <2>2, <2>4, <2>5, <2>8 DEF Delivers, Pending
  <2>. QED BY <2>7, <2>8
<1>7. CASE MarkNotChosen(p)
  <2>. DEFINE f == First(r.left)
              n == [r EXCEPT !.left = @ \ {f}]
  <2>1. /\ r.pc = "unchosen" /\ opt' = [opt EXCEPT ![f] = "not_chosen"]
        /\ Set(p, IF r.left = {f} THEN Applied(r) ELSE n)
    BY <1>7 DEF MarkNotChosen
  <2>2. proc'[p] = IF r.left = {f} THEN Applied(r) ELSE n
    BY <1>0, <2>1 DEF Set, Shaped
  <2>3. f \in Option
    BY <1>1, <1>3, <2>1, FirstIsOneOf DEF Shape
  <2>. HIDE DEF f
  <2>4. n.pc = "unchosen" /\ n.mine = r.mine /\ n.todo = r.todo
        /\ n.left = r.left \ {f}
    BY <1>1, <2>1 DEF Handler
  <2>. HIDE DEF n
  <2>5. opt'[f] = "not_chosen" /\ \A o \in Option \ {f} : opt'[o] = opt[o]
    BY <1>0, <2>1, <2>3 DEF TypedBoard
  <2>6. ASSUME NEW o \in r.mine
        PROVE  opt'[o] # "open" \/ Of[o] \in r.todo \/ o \in r.left \ {f}
    <3>1. opt[o] # "open" \/ Of[o] \in r.todo \/ o \in r.left
      BY <1>2, <2>1 DEF NothingForgotten, Covers, Pending, Acting
    <3>. QED BY <1>3, <2>5, <3>1
  <2>7. ASSUME NEW o \in r.mine, Of[o] \in r.todo
        PROVE  Applied(r).pc # "idle" /\ Pending(Applied(r), o)
    BY <1>1, <1>2, <1>4, <2>7, AppliedCovers
  <2>8. CASE r.left = {f}
    BY <1>5, <2>2, <2>6, <2>7, <2>8 DEF Delivers
  <2>9. CASE r.left # {f}
    BY <2>2, <2>4, <2>6, <2>9 DEF Delivers, Pending
  <2>. QED BY <2>8, <2>9
<1>. QED BY <1>6, <1>7

\* The console's own steps are not the pass's.
LEMMA ConsoleDelivers ==
  ASSUME Typed, NEW p \in Proc, Refuse(p) \/ Close(p) \/ PostRequest(p) \/ JudgeRequest(p)
  PROVE  Delivers(p)
<1>1. Shape(proc[p])
  BY TypedParts, ShapedHandler
<1>2. proc[p].pc \in {"refuse", "close", "post", "judge"}
  BY DEF Refuse, Close, PostRequest, JudgeRequest
<1>3. proc[p].actor # "supervisor"
  BY <1>1, <1>2 DEF Shape, Passing, Acting, Asking
<1>. QED BY <1>3 DEF Delivers

LEMMA StepDelivers ==
  ASSUME Typed, NothingForgotten, NEW p \in Proc, Step(p)
  PROVE  Delivers(p)
BY CarryDelivers, AskDelivers, ApplyDelivers, SetAsideDelivers, ConsoleDelivers
   DEF Step

\* A handler that starts or ends forgets nothing either.
LEMMA EdgesCover ==
  ASSUME Typed, NEW p \in Proc,
         \/ StartPass(p) \/ Die(p)
         \/ \E o \in Option : StartAnswer(p, o)
         \/ \E a \in Anomaly : Click(p, a)
         \/ \E w \in Owner : StartJudge(p, w)
  PROVE  Covers(proc'[p], opt')
<1>0. TypedBoard /\ Shaped
  BY TypedParts
<1>1. CASE StartPass(p)
  <2>. DEFINE M == {o \in Option : Collectable(o)}
              T == {Of[o] : o \in M}
              s == [Idle EXCEPT !.actor = "supervisor", !.mine = M, !.todo = T]
  <2>1. T \subseteq Deliverable
    BY MovesWhat
  <2>2. M \subseteq Option
    OBVIOUS
  <2>. HIDE DEF M
  <2>3. T = {Of[o] : o \in M}
    OBVIOUS
  <2>. HIDE DEF T
  <2>4. s \in Handler
    BY <2>1, <2>2, IdleHandler DEF Handler
  <2>5. s.actor = "supervisor" /\ s.mine = M /\ s.todo = T
    BY IdleHandler DEF Handler
  <2>6. Set(p, Turn(s))
    BY <1>1 DEF StartPass, M, T
  <2>. HIDE DEF s
  <2>7. Ahead(s)
    BY <2>3, <2>5 DEF Ahead
  <2>8. Turn(s).pc # "idle" => Turn(s).mine = M
    BY <2>4, <2>5, <2>7, TurnWhat
  <2>9. \A o \in M : Pending(Turn(s), o)
    BY <2>3, <2>4, <2>5, <2>7, TurnCovers
  <2>10. Turn(s).pc = "idle" => Turn(s).actor = "nobody"
    BY <2>4, <2>5, <2>7, TurnWhat DEF Shape
  <2>11. proc'[p] = Turn(s)
    BY <1>0, <2>6 DEF Set, Shaped
  <2>. QED BY <2>8, <2>9, <2>10, <2>11 DEF Covers
<1>2. CASE Die(p)
  <2>1. proc'[p] = Idle
    BY <1>0, <1>2, SpendKeeps DEF Die, Abort
  <2>. QED BY <2>1 DEF Idle, Covers
<1>3. ASSUME NEW o \in Option, StartAnswer(p, o) PROVE Covers(proc'[p], opt')
  <2>1. proc'[p].actor = "person"
    BY <1>0, <1>3, AnswerWhat, OneMoves
  <2>. QED BY <2>1 DEF Covers
<1>4. ASSUME NEW a \in Anomaly, Click(p, a) PROVE Covers(proc'[p], opt')
  <2>1. proc'[p].actor = "person"
    BY <1>0, <1>4, ClickWhat, OneMoves
  <2>. QED BY <2>1 DEF Covers
<1>5. ASSUME NEW w \in Owner, StartJudge(p, w) PROVE Covers(proc'[p], opt')
  <2>1. proc'[p].actor = "person"
    BY <1>0, <1>5, JudgeWhat, OneMoves
  <2>. QED BY <2>1 DEF Covers
<1>. QED BY <1>1, <1>2, <1>3, <1>4, <1>5

\* The handler a step moves is another's actor only when it starts or ends.
LEMMA StepKeepsActor ==
  ASSUME Typed, NEW p \in Proc, Step(p), proc[p].actor # "supervisor"
  PROVE  proc'[p].actor # "supervisor"
<1>. DEFINE r == proc[p]
<1>0. TypedBoard /\ Shaped
  BY TypedParts
<1>1. r \in Handler /\ Shape(r)
  BY <1>0, ShapedHandler
<1>2. r.pc \notin {"carry"} \cup Asking
  BY <1>1 DEF Shape
<1>3. \/ \E c : Set(p, [r EXCEPT !.pc = c])
      \/ \E m : Set(p, [r EXCEPT !.pc = "move", !.move = m])
      \/ Set(p, [r EXCEPT !.pc = "mark", !.move = NoMove])
      \/ \E S : Set(p, [r EXCEPT !.pc = "unchosen", !.left = S])
      \/ \E S : Set(p, [r EXCEPT !.left = S])
      \/ Set(p, Applied(r)) /\ r.pc \in {"rivals", "unchosen"}
      \/ Set(p, Idle)
  <2>1. CASE ReadAnomaly(p)
    BY <2>1 DEF ReadAnomaly, Abort, Spend
  <2>2. CASE MoveAnomaly(p)
    BY <2>2 DEF MoveAnomaly, Spend
  <2>3. CASE InsertDriver(p) \/ Mark(p) \/ Refuse(p)
    BY <2>3 DEF InsertDriver, Mark, Refuse
  <2>4. CASE ReadRivals(p)
    BY <2>4 DEF ReadRivals
  <2>5. CASE MarkNotChosen(p)
    BY <2>5 DEF MarkNotChosen
  <2>6. CASE Close(p) \/ PostRequest(p) \/ JudgeRequest(p)
    BY <2>6 DEF Close, PostRequest, JudgeRequest, Spend
  <2>7. CASE Carry(p) \/ FindRequest(p) \/ WriteDecisionRequest(p)
    BY <1>2, <2>7 DEF Carry, FindRequest, WriteDecisionRequest, Asking
  <2>. QED BY <2>1, <2>2, <2>3, <2>4, <2>5, <2>6, <2>7 DEF Step
<1>4. /\ \A c : [r EXCEPT !.pc = c].actor = r.actor
      /\ \A m : [r EXCEPT !.pc = "move", !.move = m].actor = r.actor
      /\ [r EXCEPT !.pc = "mark", !.move = NoMove].actor = r.actor
      /\ \A S : [r EXCEPT !.pc = "unchosen", !.left = S].actor = r.actor
      /\ \A S : [r EXCEPT !.left = S].actor = r.actor
      /\ Idle.actor = "nobody"
  BY <1>1 DEF Handler, Idle
<1>5. r.pc \in {"rivals", "unchosen"} => Applied(r).actor = r.actor
  <2>1. SUFFICES ASSUME r.pc \in {"rivals", "unchosen"}
                 PROVE  Applied(r).actor = r.actor
    OBVIOUS
  <2>2. r.job \in Option /\ Ahead(r)
    BY <1>1, <2>1 DEF Shape, OnAJob
  <2>. QED BY <1>1, <2>2, AppliedWhat
<1>6. ASSUME NEW x, Set(p, x) PROVE proc'[p] = x
  BY <1>0, <1>6 DEF Set, Shaped
<1>7. CASE \E c : Set(p, [r EXCEPT !.pc = c])
  BY <1>4, <1>6, <1>7
<1>8. CASE \E m : Set(p, [r EXCEPT !.pc = "move", !.move = m])
  BY <1>4, <1>6, <1>8, ZenonT(60)
<1>9. CASE Set(p, [r EXCEPT !.pc = "mark", !.move = NoMove])
  BY <1>4, <1>6, <1>9
<1>10. CASE \/ \E S : Set(p, [r EXCEPT !.pc = "unchosen", !.left = S])
            \/ \E S : Set(p, [r EXCEPT !.left = S])
  BY <1>4, <1>6, <1>10, ZenonT(60)
<1>11. CASE \/ Set(p, Applied(r)) /\ r.pc \in {"rivals", "unchosen"}
            \/ Set(p, Idle)
  BY <1>4, <1>5, <1>6, <1>11
<1>. QED BY <1>3, <1>7, <1>8, <1>9, <1>10, <1>11

LEMMA ForgottenNext ==
  ASSUME Typed, NothingForgotten, [Next]_vars
  PROVE  NothingForgotten'
<1>0. TypedBoard /\ Shaped
  BY TypedParts
<1>1. CASE UNCHANGED vars
  BY <1>1 DEF vars, boardVars, NothingForgotten, Covers
<1>2. ASSUME NEW d \in Deliverable, PostDeliverable(d) PROVE NothingForgotten'
  BY <1>2 DEF PostDeliverable, NothingForgotten, Covers
<1>3. ASSUME NEW p \in Proc, \/ StartPass(p) \/ Die(p)
                             \/ \E o \in Option : StartAnswer(p, o)
                             \/ \E a \in Anomaly : Click(p, a)
                             \/ \E w \in Owner : StartJudge(p, w)
      PROVE  NothingForgotten'
  <2>1. opt' = opt /\ \A q \in Proc \ {p} : proc'[q] = proc[q]
    BY <1>3, EdgesWriteNoOption
  <2>2. Covers(proc'[p], opt')
    BY <1>3, EdgesCover
  <2>3. \A q \in Proc : Covers(proc'[q], opt')
    BY <2>1, <2>2 DEF NothingForgotten
  <2>. QED BY <2>3 DEF NothingForgotten
<1>4. ASSUME NEW p \in Proc, Step(p) PROVE NothingForgotten'
  <2>1. \A q \in Proc \ {p} : proc'[q] = proc[q]
    BY <1>4, MarkComesLast
  <2>2. \A o \in Option : opt[o] # "open" => opt'[o] # "open"
    BY <1>4, OpenIsLeftOnce
  <2>3. ASSUME NEW q \in Proc \ {p} PROVE Covers(proc'[q], opt')
    <3>1. proc[q].mine \subseteq Option
      BY <1>0, ShapedHandler, HandlerFields
    <3>2. Covers(proc[q], opt)
      BY DEF NothingForgotten
    <3>3. Covers(proc[q], opt')
      BY <2>2, <3>1, <3>2 DEF Covers
    <3>. QED BY <2>1, <3>3
  <2>4. Covers(proc'[p], opt')
    <3>1. Delivers(p)
      BY <1>4, StepDelivers
    <3>2. CASE proc[p].actor # "supervisor"
      BY <1>4, <3>2, StepKeepsActor DEF Covers
    <3>3. CASE proc[p].actor = "supervisor" /\ proc'[p].pc # "idle"
      BY <3>1, <3>3 DEF Delivers, Covers
    <3>4. CASE proc'[p].pc = "idle"
      <4>1. Shape(proc'[p])
        <5>1. Next
          BY <1>4 DEF Next
        <5>2. Typed'
          BY <5>1, TypedNext
        <5>3. Shaped'
          BY <5>2, TypedParts, PTL
        <5>. QED BY <5>3 DEF Shaped
      <4>. QED BY <3>4, <4>1 DEF Shape, Covers
    <3>. QED BY <3>2, <3>3, <3>4
  <2>5. \A q \in Proc : Covers(proc'[q], opt')
    BY <2>3, <2>4
  <2>. QED BY <2>5 DEF NothingForgotten
<1>. QED BY <1>1, <1>2, <1>3, <1>4 DEF Next

\* The step that ends a pass without an error ends it with nothing pending.
LEMMA PassEnds ==
  ASSUME Typed, NothingForgotten, Next, NEW p \in Proc,
         proc[p].actor = "supervisor", proc'[p].pc = "idle",
         proc[p].pc # "read", fails' = fails,
         NEW o \in proc[p].mine
  PROVE  opt'[o] # "open"
<1>0. TypedBoard /\ Shaped
  BY TypedParts
<1>1. proc[p].pc # "idle" /\ proc[p].mine \subseteq Option
  BY <1>0, ShapedHandler, HandlerFields DEF Shape, Passing, Acting, Asking
<1>2. ASSUME NEW d \in Deliverable, PostDeliverable(d) PROVE FALSE
  BY <1>1, <1>2 DEF PostDeliverable
<1>3. ASSUME NEW q \in Proc, \/ StartPass(q) \/ Die(q)
                             \/ \E x \in Option : StartAnswer(q, x)
                             \/ \E a \in Anomaly : Click(q, a)
                             \/ \E w \in Owner : StartJudge(q, w)
      PROVE  FALSE
  <2>1. \A s \in Proc \ {q} : proc'[s] = proc[s]
    BY <1>3, EdgesWriteNoOption
  <2>2. q = p
    BY <1>1, <2>1
  <2>3. ~Die(q)
    <3>1. fails \in 0..MaxFails /\ MaxFails \in Nat
      BY <1>0, DecisionsAssumption DEF TypedBoard
    <3>. QED BY <3>1 DEF Die
  <2>. QED BY <1>1, <1>3, <2>2, <2>3 DEF StartPass, StartAnswer, Click, StartJudge, MayStart
<1>4. ASSUME NEW q \in Proc, Step(q) PROVE opt'[o] # "open"
  <2>1. \A s \in Proc \ {q} : proc'[s] = proc[s]
    BY <1>4, MarkComesLast
  <2>2. q = p
    BY <1>1, <2>1
  <2>3. Delivers(p)
    BY <1>4, <2>2, StepDelivers
  <2>. QED BY <2>3 DEF Delivers
<1>. QED BY <1>2, <1>3, <1>4 DEF Next

LEMMA AlwaysCovered == Spec => []NothingForgotten
<1>1. Init => NothingForgotten
  BY DEF Init, Idle, NothingForgotten, Covers
<1>2. Typed /\ NothingForgotten /\ [Next]_vars => NothingForgotten'
  BY ForgottenNext
<1>. QED BY <1>1, <1>2, AlwaysTyped, PTL DEF Spec

\* "Nothing is dropped": a pass that ends without an error leaves no option
\* it collected open, whatever other passes, answers and clicks did while it
\* ran and wherever their handlers died.
THEOREM DecisionsPassHandlesAll == Spec => PassHandlesAll
<1>. DEFINE A == \A p \in Proc :
                   /\ proc[p].actor = "supervisor" /\ proc'[p].pc = "idle"
                   /\ proc[p].pc # "read" /\ fails' = fails
                   => \A o \in proc[p].mine : opt'[o] # "open"
<1>1. Typed /\ NothingForgotten /\ [Next]_vars => [A]_vars
  BY PassEnds
<1>. HIDE DEF A
<1>2. PassHandlesAll <=> [][A]_vars
  BY DEF PassHandlesAll, A
<1>. QED BY <1>1, <1>2, AlwaysTyped, AlwaysCovered, PTL DEF Spec

-----------------------------------------------------------------------------
(* One handler at a time: a request stays a draft while what it asks about *)
(* is unanswered.                                                          *)

Single ==
  \A p, q \in Proc : proc[p].pc # "idle" /\ proc[q].pc # "idle" => p = q

CarriedIn(states, w) ==
  {o \in Option : OwnerOf[Of[o]] = w /\ states[o] = "carried"}

\* What a handler that runs alone may rely on: the pass asks about options
\* nobody was asked about before, and what it read still holds.
Relies(r, states, known, requests) ==
  /\ r.actor = "supervisor" =>
       /\ \A o \in r.sent : states[o] # "open"
       /\ r.pc \notin Asking => \A q \in known : q[1] \notin r.mine
  /\ r.pc = "insert" => requests[NextOwner(r)] = "none"
  /\ r.pc = "post" => CarriedIn(states, OwnerOf[Of[r.job]]) = {}

Known == \A q \in asked : opt[q[1]] # "open"

Alone ==
  /\ Single /\ Known
  /\ \A p \in Proc : Relies(proc[p], opt, asked, req)

LEMMA SingleNext ==
  ASSUME Typed, Single, [Next]_vars, MaxBusy = 1, IsFiniteSet(Proc)
  PROVE  Single'
<1>0. TypedBoard /\ Shaped
  BY TypedParts
<1>1. CASE UNCHANGED vars
  BY <1>1 DEF vars, Single
<1>2. ASSUME NEW d \in Deliverable, PostDeliverable(d) PROVE Single'
  BY <1>2 DEF PostDeliverable, Single
<1>3. ASSUME NEW p \in Proc, \/ StartPass(p)
                             \/ \E o \in Option : StartAnswer(p, o)
                             \/ \E a \in Anomaly : Click(p, a)
                             \/ \E w \in Owner : StartJudge(p, w)
      PROVE  Single'
  <2>1. Cardinality(Busy) < 1
    BY <1>3 DEF StartPass, StartAnswer, Click, StartJudge, MayStart
  <2>2. IsFiniteSet(Busy)
    BY FS_Subset DEF Busy
  <2>3. Busy = {}
    BY <2>1, <2>2, FS_CardinalityType, FS_EmptySet
  <2>4. \A q \in Proc \ {p} : proc'[q] = proc[q]
    BY <1>3, EdgesWriteNoOption
  <2>. QED BY <2>3, <2>4 DEF Busy, Single
<1>4. ASSUME NEW p \in Proc, Step(p) \/ Die(p) PROVE Single'
  <2>1. \A q \in Proc \ {p} : proc'[q] = proc[q]
    BY <1>4, MarkComesLast, EdgesWriteNoOption
  <2>2. proc[p].pc # "idle"
    BY <1>4 DEF Step, Die, Carry, FindRequest, WriteDecisionRequest,
                ReadAnomaly, MoveAnomaly, InsertDriver, Mark, ReadRivals,
                MarkNotChosen, Refuse, Close, PostRequest, JudgeRequest
  <2>. QED BY <2>1, <2>2 DEF Single
<1>. QED BY <1>1, <1>2, <1>3, <1>4 DEF Next

LEMMA IdleRelies ==
  ASSUME NEW r \in Handler, Shape(r), r.pc = "idle", NEW s, NEW k, NEW q
  PROVE  Relies(r, s, k, q)
BY DEF Relies, Shape

\* A handler that turns to its next deliverable relies on what it relied on.
LEMMA TurnRelies ==
  ASSUME NEW r \in Handler, Ahead(r), NEW s, NEW k, NEW q,
         r.actor = "supervisor", \A o \in r.sent : s[o] # "open",
         \A x \in k : x[1] \notin r.mine
  PROVE  Relies(Turn(r), s, k, q)
<1>1. /\ Turn(r) \in Handler /\ Shape(Turn(r))
      /\ Turn(r).pc # "idle" => /\ Turn(r).mine = r.mine /\ Turn(r).sent = r.sent
                                /\ Turn(r).actor = "supervisor"
      /\ Turn(r).pc \in {"idle", "ask", "carry"} \cup Acting
  BY TurnWhat
<1>2. CASE Turn(r).pc = "idle"
  BY <1>1, <1>2, IdleRelies
<1>3. CASE Turn(r).pc # "idle"
  BY <1>1, <1>3 DEF Relies, Acting
<1>. QED BY <1>2, <1>3

LEMMA AppliedRelies ==
  ASSUME NEW r \in Handler, Ahead(r), r.job \in Option, NEW s, NEW k, NEW q,
         r.actor = "supervisor" => /\ \A o \in r.sent : s[o] # "open"
                                   /\ \A x \in k : x[1] \notin r.mine
  PROVE  Relies(Applied(r), s, k, q)
<1>1. Applied(r) \in Handler /\ Shape(Applied(r))
  BY AppliedWhat
<1>2. CASE r.actor = "supervisor" /\ Applied(r).pc = "idle"
  BY <1>1, <1>2, IdleRelies
<1>3. CASE r.actor = "supervisor" /\ Applied(r).pc # "idle"
  <2>1. /\ Applied(r).mine = r.mine /\ Applied(r).sent = r.sent
        /\ Applied(r).pc \in {"idle", "ask", "carry"} \cup Acting
    BY <1>3, AppliedWhat
  <2>. QED BY <1>3, <2>1 DEF Relies, Acting
<1>4. CASE r.actor # "supervisor"
  BY <1>4, AppliedWhat DEF Relies
<1>. QED BY <1>2, <1>3, <1>4

\* A request nobody has posted, or that a person posted on the board.
StaysOpen(requests, stamps, w) ==
  requests[w] \in {"draft", "returned"} \/ w \in stamps

\* The goal of one step of the handler that runs alone.
KeepsRequests(p) ==
  /\ \A q \in asked' : opt'[q[1]] # "open"
  /\ Relies(proc'[p], opt', asked', req')
  /\ \A q \in asked' :
       opt'[q[1]] = "carried" /\ OwnerOf[Of[q[1]]] = q[2]
       => StaysOpen(req', stamped', q[2])

LEMMA CarryKeepsRequests ==
  ASSUME Typed, Alone, RequestOpenWhileAsked, NEW p \in Proc, Carry(p)
  PROVE  KeepsRequests(p)
<1>. DEFINE r == proc[p]
            f == First(r.left)
            rest == [r EXCEPT !.left = @ \ {First(r.left)},
                              !.sent = @ \cup {First(r.left)}]
            n == IF rest.left = {} THEN Turn(rest) ELSE rest
<1>0. TypedBoard /\ Shaped
  BY TypedParts
<1>1. r \in Handler /\ Shape(r)
  BY <1>0, ShapedHandler
<1>2. /\ r.pc = "carry" /\ Set(p, n) /\ opt' = [opt EXCEPT ![f] = "carried"]
      /\ asked' = asked /\ req' = req /\ stamped' = stamped
  BY DEF Carry, histVars
<1>3. proc'[p] = n
  BY <1>0, <1>2 DEF Set, Shaped
<1>4. /\ rest \in Handler /\ Ahead(rest) /\ f \in r.left /\ f \in Option
      /\ rest.actor = r.actor /\ rest.mine = r.mine /\ rest.pc = "carry"
      /\ rest.sent = r.sent \cup {f}
  BY <1>1, <1>2, CarryWhat
<1>5. r.actor = "supervisor" /\ f \in r.mine
  BY <1>1, <1>2, <1>4 DEF Shape
<1>6. /\ \A o \in r.sent : opt[o] # "open"
      /\ \A q \in asked : q[1] \notin r.mine
  BY <1>2, <1>5 DEF Alone, Relies, Asking
<1>7. opt'[f] = "carried" /\ \A o \in Option \ {f} : opt'[o] = opt[o]
  BY <1>0, <1>2, <1>4 DEF TypedBoard
<1>8. \A q \in asked : q[1] \in Option /\ q[1] # f
  BY <1>0, <1>5, <1>6 DEF TypedBoard
<1>9. r.sent \subseteq Option
  BY <1>1, HandlerFields
<1>. HIDE DEF rest, f
<1>10. \A o \in rest.sent : opt'[o] # "open"
  BY <1>4, <1>6, <1>7, <1>9
<1>11. Relies(Turn(rest), opt', asked', req')
  BY <1>2, <1>4, <1>5, <1>6, <1>10, TurnRelies
<1>12. Relies(rest, opt', asked', req')
  BY <1>2, <1>4, <1>5, <1>6, <1>10 DEF Relies
<1>13. \A q \in asked' : opt'[q[1]] = opt[q[1]]
  BY <1>2, <1>7, <1>8
<1>14. \A q \in asked' : opt'[q[1]] # "open"
  BY <1>2, <1>13 DEF Alone, Known
<1>15. \A q \in asked' : opt'[q[1]] = "carried" /\ OwnerOf[Of[q[1]]] = q[2]
                         => StaysOpen(req', stamped', q[2])
  BY <1>2, <1>13 DEF RequestOpenWhileAsked, StaysOpen
<1>. QED BY <1>3, <1>11, <1>12, <1>14, <1>15 DEF KeepsRequests

LEMMA AskKeepsRequests ==
  ASSUME Typed, Alone, RequestOpenWhileAsked, NEW p \in Proc,
         FindRequest(p) \/ WriteDecisionRequest(p)
  PROVE  KeepsRequests(p)
<1>. DEFINE r == proc[p]
            w == NextOwner(r)
<1>0. TypedBoard /\ Shaped
  BY TypedParts
<1>1. r \in Handler /\ Shape(r)
  BY <1>0, ShapedHandler
<1>2. r.pc \in Asking /\ r.actor = "supervisor" /\ opt' = opt
  BY <1>1 DEF FindRequest, WriteDecisionRequest, boardVars, Asking, Shape
<1>3. \A o \in r.sent : opt[o] # "open"
  BY <1>2 DEF Alone, Relies
<1>4. CASE FindRequest(p)
  <2>. DEFINE c == IF req[w] = "none" THEN "insert" ELSE "redraft"
              n == [r EXCEPT !.pc = c]
  <2>1. /\ Set(p, n) /\ asked' = asked /\ req' = req /\ stamped' = stamped
    BY <1>4 DEF FindRequest, boardVars, histVars
  <2>2. proc'[p] = n
    BY <1>0, <2>1 DEF Set, Shaped
  <2>3. c \in {"insert", "redraft"} /\ (c = "insert" => req[w] = "none")
    OBVIOUS
  <2>. HIDE DEF c
  <2>4. n.pc = c /\ n.asks = r.asks /\ n.sent = r.sent /\ n.actor = r.actor
    BY <1>1 DEF Handler
  <2>. HIDE DEF n
  <2>5. NextOwner(n) = w
    BY <2>4 DEF NextOwner
  <2>6. Relies(n, opt', asked', req')
    BY <1>2, <1>3, <2>1, <2>3, <2>4, <2>5 DEF Relies, Asking
  <2>. QED BY <1>2, <2>1, <2>2, <2>6
           DEF KeepsRequests, Alone, Known, RequestOpenWhileAsked, StaysOpen
<1>5. CASE WriteDecisionRequest(p)
  <2>1. /\ r.pc \in {"insert", "redraft"} /\ Set(p, NextAsk(r))
        /\ req' = [req EXCEPT ![w] = IF r.pc = "redraft" \/ @ = "none"
                                     THEN "draft" ELSE @]
        /\ asked' = asked \cup AskedFor(r, w) /\ stamped' = stamped \ {w}
    BY <1>5 DEF WriteDecisionRequest
  <2>2. proc'[p] = NextAsk(r)
    BY <1>0, <2>1 DEF Set, Shaped
  <2>3. w \in Owner
    BY <1>1, <2>1, NextAskWhat
  <2>4. req[w] = "none" \/ r.pc = "redraft"
    BY <2>1 DEF Alone, Relies
  <2>5. req' = [req EXCEPT ![w] = "draft"]
    BY <2>1, <2>4
  <2>6. req'[w] = "draft" /\ \A x \in Owner \ {w} : req'[x] = req[x]
    BY <1>0, <2>3, <2>5 DEF TypedBoard
  <2>7. \A q \in AskedFor(r, w) : q[1] \in r.sent /\ q[2] = w
    BY DEF AskedFor
  <2>8. \A q \in asked : q[2] \in Owner
    BY <1>0 DEF TypedBoard
  <2>. HIDE DEF w
  <2>9. \A q \in asked' : opt'[q[1]] # "open"
    BY <1>2, <1>3, <2>1, <2>7 DEF Alone, Known
  <2>10. \A q \in asked' : opt'[q[1]] = "carried" /\ OwnerOf[Of[q[1]]] = q[2]
                           => StaysOpen(req', stamped', q[2])
    BY <1>2, <2>1, <2>6, <2>7, <2>8 DEF RequestOpenWhileAsked, StaysOpen
  <2>11. Relies(NextAsk(r), opt', asked', req')
    <3>1. NextAsk(r) \in Handler /\ Shape(NextAsk(r))
      BY <1>1, <2>1, NextAskWhat
    <3>2. CASE NextAsk(r).pc = "idle"
      BY <3>1, <3>2, IdleRelies
    <3>3. CASE NextAsk(r).pc = "ask"
      <4>1. NextAsk(r).sent = r.sent
        BY <1>1, <2>1, <3>3, NextAskWhat
      <4>. QED BY <1>2, <1>3, <3>3, <4>1 DEF Relies, Asking
    <3>. QED BY <1>1, <2>1, <3>2, <3>3, NextAskWhat
  <2>. QED BY <2>2, <2>9, <2>10, <2>11 DEF KeepsRequests
<1>. QED BY <1>4, <1>5

\* A step that settles at most one option and writes no request keeps them.
LEMMA SettlingKeepsRequests ==
  ASSUME Typed, Alone, RequestOpenWhileAsked, NEW p \in Proc,
         asked' = asked, req' = req, stamped' = stamped,
         \/ opt' = opt
         \/ \E x \in Option : \E s \in Settled : opt' = [opt EXCEPT ![x] = s],
         proc[p].actor = "supervisor" => proc[p].pc \notin Asking,
         NEW n \in Handler, Shape(n), proc'[p] = n,
         \/ n.pc = "idle"
         \/ /\ n.pc \notin {"insert", "post"}
            /\ n.actor = "supervisor" =>
                 /\ proc[p].actor = "supervisor"
                 /\ n.mine = proc[p].mine /\ n.sent = proc[p].sent
         \/ n = Applied(proc[p]) /\ Ahead(proc[p]) /\ proc[p].job \in Option
  PROVE  KeepsRequests(p)
<1>. DEFINE r == proc[p]
<1>0. TypedBoard /\ Shaped
  BY TypedParts
<1>1. r \in Handler /\ Shape(r)
  BY <1>0, ShapedHandler
<1>2. \A o \in Option : opt'[o] = opt[o] \/ opt'[o] \in Settled
  BY <1>0 DEF TypedBoard
<1>3. \A o \in Option : opt[o] # "open" => opt'[o] # "open"
  BY <1>2 DEF Settled
<1>4. r.actor = "supervisor" => /\ \A o \in r.sent : opt[o] # "open"
                                /\ \A q \in asked : q[1] \notin r.mine
  BY DEF Alone, Relies
<1>5. r.sent \subseteq Option
  BY <1>1, HandlerFields
<1>6. r.actor = "supervisor" => /\ \A o \in r.sent : opt'[o] # "open"
                                /\ \A q \in asked' : q[1] \notin r.mine
  BY <1>3, <1>4, <1>5
<1>7. Relies(n, opt', asked', req')
  <2>1. CASE n.pc = "idle"
    BY <2>1, IdleRelies
  <2>2. CASE /\ n.pc \notin {"insert", "post"}
             /\ n.actor = "supervisor" =>
                  /\ r.actor = "supervisor"
                  /\ n.mine = r.mine /\ n.sent = r.sent
    BY <1>6, <2>2 DEF Relies
  <2>3. CASE n = Applied(r) /\ Ahead(r) /\ r.job \in Option
    BY <1>1, <1>6, <2>3, AppliedRelies
  <2>. QED BY <2>1, <2>2, <2>3
<1>8. \A q \in asked : q[1] \in Option
  BY <1>0 DEF TypedBoard
<1>9. \A q \in asked' : opt'[q[1]] # "open"
  BY <1>3, <1>8 DEF Alone, Known
<1>10. \A q \in asked' : opt'[q[1]] = "carried" /\ OwnerOf[Of[q[1]]] = q[2]
                         => StaysOpen(req', stamped', q[2])
  BY <1>2, <1>8 DEF Settled, RequestOpenWhileAsked, StaysOpen
<1>. QED BY <1>7, <1>9, <1>10 DEF KeepsRequests

LEMMA ApplyKeepsRequests ==
  ASSUME Typed, Alone, RequestOpenWhileAsked, NEW p \in Proc,
         \/ ReadAnomaly(p) \/ MoveAnomaly(p) \/ InsertDriver(p)
         \/ Mark(p) \/ ReadRivals(p) \/ MarkNotChosen(p) \/ Refuse(p),
         Typed'
  PROVE  KeepsRequests(p)
<1>. DEFINE r == proc[p]
            n == proc'[p]
<1>0. TypedBoard /\ Shaped
  BY TypedParts
<1>1. r \in Handler /\ Shape(r)
  BY <1>0, ShapedHandler
<1>a. Shaped'
  BY TypedParts, PTL
<1>2. n \in Handler /\ Shape(n)
  BY <1>a DEF Shaped
<1>b. \A x : Set(p, x) => n = x
  BY <1>0 DEF Set, Shaped
<1>. HIDE DEF n
<1>3. asked' = asked /\ req' = req /\ stamped' = stamped
  BY DEF ReadAnomaly, MoveAnomaly, InsertDriver, Mark, ReadRivals,
         MarkNotChosen, Refuse, boardVars, histVars
<1>4. r.pc \in Acting \cup {"move", "rivals", "unchosen", "refuse"}
  BY DEF ReadAnomaly, MoveAnomaly, InsertDriver, Mark, ReadRivals,
         MarkNotChosen, Refuse, Acting
<1>5. r.pc \notin Asking
  BY <1>4 DEF Acting, Asking
<1>6. r.pc # "move" => r.job \in Option /\ Ahead(r)
  BY <1>1, <1>4 DEF Shape, OnAJob
<1>7. \/ opt' = opt
      \/ \E x \in Option : \E s \in Settled : opt' = [opt EXCEPT ![x] = s]
  <2>1. CASE ReadAnomaly(p) \/ MoveAnomaly(p) \/ InsertDriver(p) \/ ReadRivals(p)
    BY <2>1 DEF ReadAnomaly, MoveAnomaly, InsertDriver, ReadRivals, boardVars
  <2>2. CASE Mark(p)
    <3>1. r.pc = "mark" /\ opt' = [opt EXCEPT ![r.job] = "applied"]
      BY <2>2 DEF Mark
    <3>. QED BY <1>6, <3>1 DEF Settled
  <2>3. CASE Refuse(p)
    <3>1. r.pc = "refuse" /\ opt' = [opt EXCEPT ![r.job] = "refused"]
      BY <2>3 DEF Refuse
    <3>. QED BY <1>6, <3>1 DEF Settled
  <2>4. CASE MarkNotChosen(p)
    <3>1. r.pc = "unchosen" /\ opt' = [opt EXCEPT ![First(r.left)] = "not_chosen"]
      BY <2>4 DEF MarkNotChosen
    <3>2. First(r.left) \in Option
      BY <1>1, <3>1, HandlerFields, FirstIsOneOf DEF Shape
    <3>. QED BY <3>1, <3>2 DEF Settled
  <2>. QED BY <2>1, <2>2, <2>3, <2>4
<1>8. \/ n.pc = "idle"
      \/ /\ n.pc \notin {"insert", "post"}
         /\ n.actor = "supervisor" =>
              r.actor = "supervisor" /\ n.mine = r.mine /\ n.sent = r.sent
      \/ n = Applied(r) /\ Ahead(r) /\ r.job \in Option
  <2>1. CASE ReadAnomaly(p)
    <3>1. \/ n = Idle
          \/ \E m : n = [r EXCEPT !.pc = "move", !.move = m]
      BY <1>b, <2>1 DEF ReadAnomaly, Abort, Spend
    <3>2. CASE n = Idle
      BY <3>2 DEF Idle
    <3>3. ASSUME NEW m, n = [r EXCEPT !.pc = "move", !.move = m]
          PROVE  n.pc = "move" /\ n.actor = r.actor /\ n.mine = r.mine
                 /\ n.sent = r.sent
      BY <1>1, <3>3 DEF Handler
    <3>. QED BY <3>1, <3>2, <3>3
  <2>2. CASE MoveAnomaly(p)
    <3>1. n = Idle \/ n = [r EXCEPT !.pc = "mark", !.move = NoMove]
      BY <1>b, <2>2 DEF MoveAnomaly, Spend
    <3>2. CASE n = Idle
      BY <3>2 DEF Idle
    <3>3. CASE n = [r EXCEPT !.pc = "mark", !.move = NoMove]
      <4>1. n.pc = "mark" /\ n.actor = r.actor /\ n.mine = r.mine
            /\ n.sent = r.sent
        BY <1>1, <3>3 DEF Handler
      <4>. QED BY <4>1
    <3>. QED BY <3>1, <3>2, <3>3
  <2>3. CASE InsertDriver(p) \/ Mark(p) \/ Refuse(p)
    <3>1. PICK c \in {"mark", "rivals", "close"} : n = [r EXCEPT !.pc = c]
      BY <1>b, <2>3 DEF InsertDriver, Mark, Refuse
    <3>2. n.pc = c /\ n.actor = r.actor /\ n.mine = r.mine /\ n.sent = r.sent
      BY <1>1, <3>1 DEF Handler
    <3>. QED BY <3>2
  <2>4. CASE ReadRivals(p)
    <3>1. r.pc = "rivals" /\ (n = Applied(r)
             \/ n = [r EXCEPT !.pc = "unchosen", !.left = LiveRivalsOf(r.job)])
      BY <1>b, <2>4 DEF ReadRivals
    <3>2. CASE n = [r EXCEPT !.pc = "unchosen", !.left = LiveRivalsOf(r.job)]
      <4>1. n.pc = "unchosen" /\ n.actor = r.actor /\ n.mine = r.mine
            /\ n.sent = r.sent
        BY <1>1, <3>2 DEF Handler
      <4>. QED BY <4>1
    <3>. QED BY <1>6, <3>1, <3>2
  <2>5. CASE MarkNotChosen(p)
    <3>1. r.pc = "unchosen"
          /\ (n = Applied(r) \/ n = [r EXCEPT !.left = @ \ {First(r.left)}])
      BY <1>b, <2>5 DEF MarkNotChosen
    <3>2. CASE n = [r EXCEPT !.left = @ \ {First(r.left)}]
      <4>1. n.pc = r.pc /\ n.actor = r.actor /\ n.mine = r.mine
            /\ n.sent = r.sent
        BY <1>1, <3>2 DEF Handler
      <4>. QED BY <3>1, <4>1
    <3>. QED BY <1>6, <3>1, <3>2
  <2>. QED BY <2>1, <2>2, <2>3, <2>4, <2>5
<1>. QED BY <1>2, <1>3, <1>5, <1>7, <1>8, SettlingKeepsRequests DEF n

LEMMA CloseKeepsRequests ==
  ASSUME Typed, Alone, RequestOpenWhileAsked, NEW p \in Proc,
         Close(p) \/ PostRequest(p)
  PROVE  KeepsRequests(p)
<1>. DEFINE r == proc[p]
            w == OwnerOf[Of[r.job]]
<1>0. TypedBoard /\ Shaped
  BY TypedParts
<1>1. r \in Handler /\ Shape(r)
  BY <1>0, ShapedHandler
<1>2. r.pc \in {"close", "post"} /\ opt' = opt /\ asked' = asked
  BY DEF Close, PostRequest, boardVars, histVars
<1>3. r.actor # "supervisor"
  BY <1>1, <1>2 DEF Shape, Passing, Acting, Asking
<1>4. r.job \in Option
  BY <1>1, <1>2 DEF Shape, OnAJob
<1>5. w \in Owner
  BY <1>4, MovesWhat DEF Owner
<1>6. CASE Close(p)
  <2>. DEFINE n == [r EXCEPT !.pc = "post"]
  <2>1. /\ req' = req /\ stamped' = stamped
        /\ Set(p, Idle) \/ (Set(p, n) /\ CarriedOptionsFor(w) = {})
    BY <1>6 DEF Close, boardVars, histVars
  <2>2. proc'[p] = Idle \/ (proc'[p] = n /\ CarriedOptionsFor(w) = {})
    BY <1>0, <2>1 DEF Set, Shaped
  <2>3. n.pc = "post" /\ n.job = r.job /\ n.actor = r.actor
    BY <1>1 DEF Handler
  <2>. HIDE DEF n
  <2>4. CarriedOptionsFor(w) = {} => Relies(n, opt, asked, req)
    BY <1>3, <2>3 DEF Relies, CarriedIn, CarriedOptionsFor
  <2>5. Relies(Idle, opt, asked, req)
    BY DEF Idle, Relies
  <2>6. Relies(proc'[p], opt', asked', req')
    BY <1>2, <2>1, <2>2, <2>4, <2>5
  <2>. QED BY <1>2, <2>1, <2>6
           DEF KeepsRequests, Alone, Known, RequestOpenWhileAsked, StaysOpen
<1>7. CASE PostRequest(p)
  <2>1. r.pc = "post" /\ req' = [req EXCEPT ![w] = "posted"] /\ stamped' = stamped
    BY <1>7 DEF PostRequest, histVars
  <2>2. proc'[p] = Idle
    BY <1>0, <1>7, SpendKeeps DEF PostRequest
  <2>3. CarriedIn(opt, w) = {}
    BY <2>1 DEF Alone, Relies
  <2>4. \A x \in Owner \ {w} : req'[x] = req[x]
    BY <1>0, <2>1 DEF TypedBoard
  <2>5. \A q \in asked : q[1] \in Option /\ q[2] \in Owner
    BY <1>0 DEF TypedBoard
  <2>. HIDE DEF w
  <2>6. \A q \in asked : opt[q[1]] = "carried" /\ OwnerOf[Of[q[1]]] = q[2]
                         => StaysOpen(req', stamped', q[2])
    BY <2>1, <2>3, <2>4, <2>5 DEF CarriedIn, RequestOpenWhileAsked, StaysOpen
  <2>7. Relies(proc'[p], opt', asked', req')
    BY <2>2 DEF Idle, Relies
  <2>. QED BY <1>2, <2>6, <2>7 DEF KeepsRequests, Alone, Known
<1>. QED BY <1>6, <1>7

\* What a person judges a request to be is on record as the person's.
LEMMA JudgeKeepsRequests ==
  ASSUME Typed, Alone, RequestOpenWhileAsked, NEW p \in Proc, JudgeRequest(p)
  PROVE  KeepsRequests(p)
<1>. DEFINE w == NextOwner(proc[p])
<1>0. TypedBoard
  BY TypedParts
<1>1. proc'[p] = Idle /\ opt' = opt /\ asked' = asked /\ w \in Owner
  BY JudgesOne
<1>2. \/ req' = [req EXCEPT ![w] = "posted"] /\ stamped' = stamped \cup {w}
      \/ req' = [req EXCEPT ![w] = "returned"] /\ stamped' = stamped
  BY DEF JudgeRequest
<1>. HIDE DEF w
<1>3. \A x \in Owner : StaysOpen(req, stamped, x) => StaysOpen(req', stamped', x)
  BY <1>0, <1>1, <1>2 DEF StaysOpen, TypedBoard
<1>4. \A q \in asked : q[2] \in Owner
  BY <1>0 DEF TypedBoard
<1>5. \A q \in asked : opt[q[1]] = "carried" /\ OwnerOf[Of[q[1]]] = q[2]
                       => StaysOpen(req, stamped, q[2])
  BY DEF RequestOpenWhileAsked, StaysOpen
<1>6. Relies(Idle, opt', asked', req')
  BY DEF Idle, Relies
<1>. QED BY <1>1, <1>3, <1>4, <1>5, <1>6 DEF KeepsRequests, Alone, Known

\* What starts a handler, or ends it early, keeps the requests too.
LEMMA EdgesKeepRequests ==
  ASSUME Typed, Alone, RequestOpenWhileAsked, NEW p \in Proc,
         \/ StartPass(p) \/ Die(p)
         \/ \E o \in Option : StartAnswer(p, o)
         \/ \E a \in Anomaly : Click(p, a)
         \/ \E w \in Owner : StartJudge(p, w)
  PROVE  opt' = opt /\ asked' = asked /\ req' = req /\ stamped' = stamped
         /\ Relies(proc'[p], opt, asked, req)
<1>0. TypedBoard /\ Shaped
  BY TypedParts
<1>1. CASE StartPass(p)
  <2>. DEFINE M == {o \in Option : Collectable(o)}
              T == {Of[o] : o \in M}
              s == [Idle EXCEPT !.actor = "supervisor", !.mine = M, !.todo = T]
  <2>1. T \subseteq Deliverable
    BY MovesWhat
  <2>2. M \subseteq Option
    OBVIOUS
  <2>3. \A q \in asked : q[1] \notin M
    BY DEF Alone, Known, Collectable
  <2>. HIDE DEF M
  <2>4. T = {Of[o] : o \in M}
    OBVIOUS
  <2>. HIDE DEF T
  <2>5. s \in Handler
    BY <2>1, <2>2, IdleHandler DEF Handler
  <2>6. s.actor = "supervisor" /\ s.mine = M /\ s.todo = T /\ s.sent = {}
    BY IdleHandler DEF Handler, Idle
  <2>7. Set(p, Turn(s))
    BY <1>1 DEF StartPass, M, T
  <2>. HIDE DEF s
  <2>8. Relies(Turn(s), opt, asked, req)
    BY <2>3, <2>4, <2>5, <2>6, TurnRelies DEF Ahead
  <2>9. proc'[p] = Turn(s)
    BY <1>0, <2>7 DEF Set, Shaped
  <2>10. opt' = opt /\ asked' = asked /\ req' = req /\ stamped' = stamped
    BY <1>1 DEF StartPass, boardVars, histVars
  <2>. QED BY <2>8, <2>9, <2>10
<1>2. CASE Die(p)
  <2>1. proc'[p] = Idle
    BY <1>0, <1>2, SpendKeeps DEF Die, Abort
  <2>2. opt' = opt /\ asked' = asked /\ req' = req /\ stamped' = stamped
    BY <1>2 DEF Die, boardVars
  <2>. QED BY <2>1, <2>2 DEF Idle, Relies
<1>3. ASSUME NEW o \in Option, StartAnswer(p, o)
      PROVE  opt' = opt /\ asked' = asked /\ req' = req /\ stamped' = stamped
             /\ Relies(proc'[p], opt, asked, req)
  <2>1. proc'[p].actor = "person" /\ proc'[p].pc \in Acting \cup {"refuse"}
    BY <1>0, <1>3, AnswerWhat, OneMoves
  <2>2. opt' = opt /\ asked' = asked /\ req' = req /\ stamped' = stamped
    BY <1>3 DEF StartAnswer, boardVars, histVars
  <2>. QED BY <2>1, <2>2 DEF Relies, Acting
<1>4. ASSUME NEW a \in Anomaly, Click(p, a)
      PROVE  opt' = opt /\ asked' = asked /\ req' = req /\ stamped' = stamped
             /\ Relies(proc'[p], opt, asked, req)
  <2>1. proc'[p].actor = "person" /\ proc'[p].pc = "move"
    BY <1>0, <1>4, ClickWhat, OneMoves
  <2>2. opt' = opt /\ asked' = asked /\ req' = req /\ stamped' = stamped
    BY <1>4 DEF Click, boardVars, histVars
  <2>. QED BY <2>1, <2>2 DEF Relies
<1>5. ASSUME NEW w \in Owner, StartJudge(p, w)
      PROVE  opt' = opt /\ asked' = asked /\ req' = req /\ stamped' = stamped
             /\ Relies(proc'[p], opt, asked, req)
  <2>1. proc'[p].actor = "person" /\ proc'[p].pc = "judge"
    BY <1>0, <1>5, JudgeWhat, OneMoves
  <2>2. opt' = opt /\ asked' = asked /\ req' = req /\ stamped' = stamped
    BY <1>5 DEF StartJudge, boardVars, histVars
  <2>. QED BY <2>1, <2>2 DEF Relies
<1>. QED BY <1>1, <1>2, <1>3, <1>4, <1>5

LEMMA AloneNext ==
  ASSUME Typed, Alone, RequestOpenWhileAsked, [Next]_vars,
         MaxBusy = 1, IsFiniteSet(Proc)
  PROVE  Alone' /\ RequestOpenWhileAsked'
<1>0. TypedBoard /\ Shaped
  BY TypedParts
<1>1. Single'
  BY SingleNext DEF Alone
<1>2. CASE UNCHANGED vars
  BY <1>1, <1>2
     DEF vars, boardVars, histVars, Alone, Known, RequestOpenWhileAsked
<1>3. ASSUME NEW d \in Deliverable, PostDeliverable(d)
      PROVE  Alone' /\ RequestOpenWhileAsked'
  BY <1>1, <1>3
     DEF PostDeliverable, histVars, Alone, Known, RequestOpenWhileAsked
<1>4. ASSUME NEW p \in Proc, \/ StartPass(p) \/ Die(p)
                             \/ \E o \in Option : StartAnswer(p, o)
                             \/ \E a \in Anomaly : Click(p, a)
                             \/ \E w \in Owner : StartJudge(p, w)
      PROVE  Alone' /\ RequestOpenWhileAsked'
  <2>1. /\ opt' = opt /\ asked' = asked /\ req' = req /\ stamped' = stamped
        /\ Relies(proc'[p], opt, asked, req)
    BY <1>4, EdgesKeepRequests
  <2>2. \A q \in Proc \ {p} : proc'[q] = proc[q]
    BY <1>4, EdgesWriteNoOption
  <2>3. \A q \in Proc : Relies(proc'[q], opt', asked', req')
    BY <2>1, <2>2 DEF Alone
  <2>. QED BY <1>1, <2>1, <2>3 DEF Alone, Known, RequestOpenWhileAsked
<1>5. ASSUME NEW p \in Proc, Step(p)
      PROVE  Alone' /\ RequestOpenWhileAsked'
  <2>1. Next
    BY <1>5 DEF Next
  <2>2. Typed'
    BY <2>1, TypedNext
  <2>3. KeepsRequests(p)
    BY <1>5, <2>2, CarryKeepsRequests, AskKeepsRequests, ApplyKeepsRequests,
       CloseKeepsRequests, JudgeKeepsRequests DEF Step
  <2>4. \A q \in Proc \ {p} : proc'[q] = proc[q]
    BY <1>5, MarkComesLast
  <2>5. proc[p].pc # "idle"
    BY <1>5 DEF Step, Carry, FindRequest, WriteDecisionRequest,
                ReadAnomaly, MoveAnomaly, InsertDriver, Mark, ReadRivals,
                MarkNotChosen, Refuse, Close, PostRequest, JudgeRequest
  <2>6. ASSUME NEW q \in Proc PROVE Relies(proc'[q], opt', asked', req')
    <3>1. CASE q = p
      BY <2>3, <3>1 DEF KeepsRequests
    <3>2. CASE q # p
      <4>1. proc[q].pc = "idle"
        BY <2>5, <3>2 DEF Alone, Single
      <4>2. Relies(proc[q], opt', asked', req')
        BY <1>0, <4>1, ShapedHandler, IdleRelies
      <4>. QED BY <2>4, <3>2, <4>2
    <3>. QED BY <3>1, <3>2
  <2>. QED BY <1>1, <2>3, <2>6
           DEF KeepsRequests, Alone, Known, RequestOpenWhileAsked, StaysOpen
<1>. QED BY <1>2, <1>3, <1>4, <1>5 DEF Next

LEMMA AloneInit == Init => Alone /\ RequestOpenWhileAsked
BY DEF Init, Idle, Alone, Single, Known, Relies, RequestOpenWhileAsked

\* With one handler at a time, an owner's request that asks about one of the
\* owner's own unanswered options is closed by nobody but a person who posts it
\* on the board, wherever a handler dies.
THEOREM DecisionsRequestOpenWhileAsked ==
  ASSUME MaxBusy = 1, IsFiniteSet(Proc)
  PROVE  Spec => []RequestOpenWhileAsked
<1>1. Typed /\ Alone /\ RequestOpenWhileAsked /\ [Next]_vars
      => Alone' /\ RequestOpenWhileAsked'
  BY AloneNext
<1>. QED BY <1>1, AloneInit, AlwaysTyped, PTL DEF Spec

-----------------------------------------------------------------------------
(* One handler at a time, none of which dies: the console implements the   *)
(* choice that Choice specifies.                                           *)

\* No alternative of deliverable d has been carried out or applied.
Unspoiled(d, states, done) ==
  \A x \in Option : Of[x] = d => x \notin done /\ states[x] # "applied"

\* What each handler knows of the option it is about to decide.
Decides(r, states, done) ==
  /\ r.actor = "supervisor" =>
       /\ \A o \in r.mine : states[o] # "refused"
       /\ \A d \in r.todo : Unspoiled(d, states, done)
       /\ r.pc = "carry" => \A o \in r.left : Unspoiled(Of[o], states, done)
       /\ r.pc \in Acting \cup {"move"} =>
            r.job \in r.mine /\ Of[r.job] \notin r.todo
  /\ r.pc \in {"read", "driver"} \/ (r.pc = "move" /\ r.job # NoOption) =>
       Unspoiled(Of[r.job], states, done) /\ states[r.job] # "refused"
  /\ r.pc = "mark" =>
       /\ states[r.job] # "refused"
       /\ \A x \in Option : Of[x] = Of[r.job] /\ x # r.job
                            => x \notin done /\ states[x] # "applied"
  /\ r.pc = "refuse" => r.job \notin done /\ states[r.job] # "applied"
  /\ r.pc = "rivals" => states[r.job] = "applied"
  /\ r.pc = "unchosen" => \A x \in r.left : states[x] \in Live

\* The alternatives a handler has yet to set aside.
Excuses(r, o) ==
  \/ r.pc \in {"mark", "rivals"} /\ Of[o] = Of[r.job]
  \/ r.pc = "unchosen" /\ o \in r.left

\* An option somebody may still answer has no winner beside it, or the
\* handler that makes one is about to set it aside.
Answerable ==
  \A o \in Option : opt[o] \in Live =>
    Unspoiled(Of[o], opt, acted) \/ \E p \in Proc : Excuses(proc[p], o)

Orderly ==
  /\ Single /\ Answerable
  /\ \A p \in Proc : Decides(proc[p], opt, acted)

LEMMA IdleDecides ==
  ASSUME NEW r \in Handler, Shape(r), r.pc = "idle", NEW s, NEW k
  PROVE  Decides(r, s, k)
BY DEF Decides, Shape, Acting

LEMMA TurnDecides ==
  ASSUME NEW r \in Handler, Ahead(r), NEW s, NEW k,
         r.actor = "supervisor", \A o \in r.mine : s[o] # "refused",
         \A d \in r.todo : Unspoiled(d, s, k)
  PROVE  Decides(Turn(r), s, k)
<1>. DEFINE t == Turn(r)
<1>1. /\ t \in Handler /\ Shape(t)
      /\ t.pc # "idle" => t.mine = r.mine
      /\ t.pc \in {"idle", "ask", "carry"} \cup Acting
      /\ t.todo \subseteq r.todo
      /\ t.pc = "carry" => \A o \in t.left : Of[o] \in r.todo
      /\ t.pc \in Acting => t.job \in r.mine /\ Of[t.job] \in r.todo \ t.todo
  BY TurnWhat
<1>. HIDE DEF t
<1>2. CASE t.pc = "idle"
  BY <1>1, <1>2, IdleDecides DEF t
<1>3. CASE t.pc = "ask" \/ t.pc = "carry"
  BY <1>1, <1>3 DEF Decides, Acting, t
<1>4. CASE t.pc \in Acting
  <2>1. Unspoiled(Of[t.job], s, k) /\ s[t.job] # "refused" /\ t.mine = r.mine
        /\ t.job \in r.mine /\ Of[t.job] \notin t.todo
    BY <1>1, <1>4 DEF Acting
  <2>2. t.pc = "mark" => \A x \in Option : Of[x] = Of[t.job] /\ x # t.job
                                           => x \notin k /\ s[x] # "applied"
    BY <2>1 DEF Unspoiled
  <2>3. \A d \in t.todo : Unspoiled(d, s, k)
    BY <1>1
  <2>. QED BY <1>4, <2>1, <2>2, <2>3 DEF Decides, Acting, t
<1>. QED BY <1>1, <1>2, <1>3, <1>4

LEMMA AppliedDecides ==
  ASSUME NEW r \in Handler, Ahead(r), r.job \in Option, NEW s, NEW k,
         r.actor = "supervisor" => /\ \A o \in r.mine : s[o] # "refused"
                                   /\ \A d \in r.todo : Unspoiled(d, s, k)
  PROVE  Decides(Applied(r), s, k)
<1>1. CASE r.actor = "supervisor"
  <2>. DEFINE G == {Moves(r.job)} \ {NoAnomaly}
              t == [r EXCEPT !.settled = @ \cup G, !.left = {}]
  <2>1. G \subseteq Anomaly
    BY MovesWhat
  <2>2. Applied(r) = Turn(t)
    BY <1>1 DEF Applied
  <2>. HIDE DEF G
  <2>3. t \in Handler
    BY <2>1 DEF Handler
  <2>4. t.actor = "supervisor" /\ t.mine = r.mine /\ t.todo = r.todo
    BY <1>1 DEF Handler
  <2>. HIDE DEF t
  <2>. QED BY <1>1, <2>2, <2>3, <2>4, TurnDecides DEF Ahead
<1>2. CASE r.actor # "supervisor"
  <2>1. Applied(r).actor = r.actor /\ Applied(r).pc = "close"
    BY <1>2, AppliedWhat
  <2>. QED BY <1>2, <2>1 DEF Decides, Acting
<1>. QED BY <1>1, <1>2

\* What a step of the handler that runs alone must keep.
KeepsChoice(p) ==
  /\ Decides(proc'[p], opt', acted')
  /\ \A o \in Option : opt'[o] \in Live =>
       Unspoiled(Of[o], opt', acted') \/ Excuses(proc'[p], o)
  /\ [C!Next]_(C!vars)

\* While one handler runs, no other excuses anything.
LEMMA OnlyExcuse ==
  ASSUME Typed, Orderly, NEW p \in Proc, proc[p].pc # "idle",
         NEW o \in Option, opt[o] \in Live
  PROVE  Unspoiled(Of[o], opt, acted) \/ Excuses(proc[p], o)
<1>1. \A q \in Proc : q # p => proc[q].pc = "idle"
  BY DEF Orderly, Single
<1>2. \A q \in Proc : q # p => ~Excuses(proc[q], o)
  BY <1>1 DEF Excuses
<1>. QED BY <1>2 DEF Orderly, Answerable

AppliedSet == {o \in Option : opt[o] = "applied"}
RefusedSet == {o \in Option : opt[o] = "refused"}

LEMMA ChoiceStutters ==
  ASSUME acted' = acted,
         \A o \in Option : /\ opt'[o] = "applied" <=> opt[o] = "applied"
                           /\ opt'[o] = "refused" <=> opt[o] = "refused"
  PROVE  [C!Next]_(C!vars)
BY DEF C!vars

LEMMA ChoiceActs ==
  ASSUME NEW o \in Option, acted' = acted \cup {o}, opt' = opt,
         opt[o] # "refused", Unspoiled(Of[o], opt, acted)
  PROVE  [C!Next]_(C!vars)
<1>1. o \notin RefusedSet \cup AppliedSet
  BY DEF RefusedSet, AppliedSet, Unspoiled
<1>2. C!Alternatives(o) \cap (acted \cup AppliedSet) = {}
  BY DEF C!Alternatives, AppliedSet, Unspoiled
<1>3. C!Act(o)
  BY <1>1, <1>2 DEF C!Act, RefusedSet, AppliedSet
<1>. QED BY <1>3 DEF C!Next

LEMMA ChoiceApplies ==
  ASSUME Typed, NEW o \in Option, acted' = acted,
         opt' = [opt EXCEPT ![o] = "applied"], opt[o] # "refused",
         \A x \in Option : Of[x] = Of[o] /\ x # o
                           => x \notin acted /\ opt[x] # "applied"
  PROVE  [C!Next]_(C!vars)
<1>0. opt \in [Option -> OptionStates]
  BY DEF Typed, TypeOK
<1>1. C!Alternatives(o) \cap (acted \cup AppliedSet) = {}
  BY DEF C!Alternatives, AppliedSet
<1>2. {x \in Option : opt'[x] = "applied"} = AppliedSet \cup {o}
  BY <1>0 DEF AppliedSet
<1>3. {x \in Option : opt'[x] = "refused"} = RefusedSet
  BY <1>0 DEF RefusedSet
<1>4. C!Apply(o)
  BY <1>1, <1>2, <1>3 DEF C!Apply, RefusedSet, AppliedSet
<1>. QED BY <1>4 DEF C!Next

LEMMA ChoiceRefuses ==
  ASSUME Typed, NEW o \in Option, acted' = acted,
         opt' = [opt EXCEPT ![o] = "refused"],
         o \notin acted, opt[o] # "applied"
  PROVE  [C!Next]_(C!vars)
<1>0. opt \in [Option -> OptionStates]
  BY DEF Typed, TypeOK
<1>1. {x \in Option : opt'[x] = "refused"} = RefusedSet \cup {o}
  BY <1>0 DEF RefusedSet
<1>2. {x \in Option : opt'[x] = "applied"} = AppliedSet
  BY <1>0 DEF AppliedSet
<1>3. C!Refuse(o)
  BY <1>1, <1>2 DEF C!Refuse, RefusedSet, AppliedSet
<1>. QED BY <1>3 DEF C!Next

LEMMA CarryKeepsChoice ==
  ASSUME Typed, Orderly, NEW p \in Proc, Carry(p)
  PROVE  KeepsChoice(p)
<1>. DEFINE r == proc[p]
            f == First(r.left)
            rest == [r EXCEPT !.left = @ \ {First(r.left)},
                              !.sent = @ \cup {First(r.left)}]
            n == IF rest.left = {} THEN Turn(rest) ELSE rest
<1>0. TypedBoard /\ Shaped
  BY TypedParts
<1>1. r \in Handler /\ Shape(r)
  BY <1>0, ShapedHandler
<1>2. /\ r.pc = "carry" /\ Set(p, n) /\ opt' = [opt EXCEPT ![f] = "carried"]
      /\ acted' = acted
  BY DEF Carry, histVars
<1>3. proc'[p] = n
  BY <1>0, <1>2 DEF Set, Shaped
<1>4. /\ rest \in Handler /\ Ahead(rest) /\ f \in r.left /\ f \in Option
      /\ rest.actor = r.actor /\ rest.mine = r.mine /\ rest.pc = "carry"
      /\ rest.todo = r.todo /\ rest.left = r.left \ {f}
  BY <1>1, <1>2, CarryWhat
<1>5. r.actor = "supervisor" /\ f \in r.mine /\ r.mine \subseteq Option
      /\ r.left \subseteq Option
  BY <1>1, <1>2, <1>4, HandlerFields DEF Shape
<1>6. /\ \A o \in r.mine : opt[o] # "refused"
      /\ \A d \in r.todo : Unspoiled(d, opt, acted)
      /\ \A o \in r.left : Unspoiled(Of[o], opt, acted)
  BY <1>2, <1>5 DEF Orderly, Decides
<1>. HIDE DEF rest, f
<1>7. opt'[f] = "carried" /\ \A o \in Option \ {f} : opt'[o] = opt[o]
  BY <1>0, <1>2, <1>4 DEF TypedBoard
<1>8. \A d : Unspoiled(d, opt, acted) => Unspoiled(d, opt', acted')
  BY <1>2, <1>7 DEF Unspoiled
<1>9. \A o \in rest.mine : opt'[o] # "refused"
  BY <1>4, <1>5, <1>6, <1>7
<1>10. Decides(Turn(rest), opt', acted')
  BY <1>4, <1>5, <1>6, <1>8, <1>9, TurnDecides
<1>11. Decides(rest, opt', acted')
  BY <1>4, <1>5, <1>6, <1>8, <1>9 DEF Decides, Acting
<1>12. ASSUME NEW o \in Option, opt'[o] \in Live
       PROVE  Unspoiled(Of[o], opt', acted')
  <2>1. CASE o = f
    BY <1>4, <1>6, <1>8, <2>1
  <2>2. CASE o # f
    <3>1. opt[o] \in Live
      BY <1>7, <1>12, <2>2
    <3>2. ~Excuses(r, o)
      BY <1>2 DEF Excuses
    <3>. QED BY <1>2, <1>8, <3>1, <3>2, OnlyExcuse
  <2>. QED BY <2>1, <2>2
<1>13. opt[f] # "applied" /\ opt[f] # "refused"
  BY <1>4, <1>5, <1>6 DEF Unspoiled
<1>14. [C!Next]_(C!vars)
  BY <1>2, <1>7, <1>13, ChoiceStutters
<1>. QED BY <1>3, <1>10, <1>11, <1>12, <1>14 DEF KeepsChoice

\* A step that writes neither an option nor an effect, and excuses nobody.
LEMMA QuietKeepsChoice ==
  ASSUME Typed, Orderly, NEW p \in Proc, proc[p].pc # "idle",
         opt' = opt, acted' = acted,
         proc[p].pc \notin {"mark", "rivals", "unchosen"},
         Decides(proc'[p], opt, acted)
  PROVE  KeepsChoice(p)
<1>1. \A o \in Option : ~Excuses(proc[p], o)
  BY DEF Excuses
<1>2. \A o \in Option : opt[o] \in Live => Unspoiled(Of[o], opt, acted)
  BY <1>1, OnlyExcuse
<1>3. [C!Next]_(C!vars)
  BY ChoiceStutters
<1>. QED BY <1>2, <1>3 DEF KeepsChoice

LEMMA AskKeepsChoice ==
  ASSUME Typed, Orderly, NEW p \in Proc,
         FindRequest(p) \/ WriteDecisionRequest(p)
  PROVE  KeepsChoice(p)
<1>. DEFINE r == proc[p]
            n == proc'[p]
<1>0. TypedBoard /\ Shaped
  BY TypedParts
<1>1. r \in Handler /\ Shape(r)
  BY <1>0, ShapedHandler
<1>2. r.pc \in Asking /\ opt' = opt /\ acted' = acted
  BY DEF FindRequest, WriteDecisionRequest, boardVars, histVars, Asking
<1>3. r.actor = "supervisor" /\ r.todo = {}
  BY <1>1, <1>2 DEF Shape
<1>4. \A o \in r.mine : opt[o] # "refused"
  BY <1>3 DEF Orderly, Decides
<1>5. \/ n.pc \in Asking /\ n.mine = r.mine /\ n.todo = {}
      \/ n = Idle
  <2>1. CASE FindRequest(p)
    <3>1. PICK c \in {"insert", "redraft"} : Set(p, [r EXCEPT !.pc = c])
      BY <2>1 DEF FindRequest
    <3>2. n = [r EXCEPT !.pc = c]
      BY <1>0, <3>1 DEF Set, Shaped
    <3>3. [r EXCEPT !.pc = c].pc = c /\ [r EXCEPT !.pc = c].mine = r.mine
          /\ [r EXCEPT !.pc = c].todo = r.todo
      BY <1>1 DEF Handler
    <3>. QED BY <1>3, <3>2, <3>3 DEF Asking
  <2>2. CASE WriteDecisionRequest(p)
    <3>1. r.pc \in {"insert", "redraft"} /\ Set(p, NextAsk(r))
      BY <2>2 DEF WriteDecisionRequest
    <3>2. n = NextAsk(r)
      BY <1>0, <3>1 DEF Set, Shaped
    <3>. QED BY <1>1, <3>1, <3>2, NextAskWhat DEF Asking
  <2>. QED BY <2>1, <2>2
<1>. HIDE DEF n
<1>6. CASE n = Idle
  BY <1>6, IdleHandler, IdleDecides, <1>2, QuietKeepsChoice DEF Asking, Idle, n
<1>7. CASE n.pc \in Asking /\ n.mine = r.mine /\ n.todo = {}
  <2>1. Decides(n, opt, acted)
    BY <1>4, <1>7 DEF Decides, Asking, Acting
  <2>. QED BY <1>2, <2>1, QuietKeepsChoice DEF Asking, n
<1>. QED BY <1>5, <1>6, <1>7

\* The side effect of an option that nothing rules out.
LEMMA ActKeepsChoice ==
  ASSUME Typed, Orderly, NEW p \in Proc, proc[p].pc \in {"driver", "move"},
         proc[p].job \in Option, proc[p].job # NoOption,
         opt' = opt, acted' = acted \cup {proc[p].job},
         NEW n \in Handler, proc'[p] = n, n.pc = "mark",
         n.job = proc[p].job, n.mine = proc[p].mine, n.todo = proc[p].todo,
         n.actor = proc[p].actor
  PROVE  KeepsChoice(p)
<1>. DEFINE r == proc[p]
            j == r.job
<1>1. /\ Unspoiled(Of[j], opt, acted) /\ opt[j] # "refused"
      /\ r.actor = "supervisor" =>
           /\ \A o \in r.mine : opt[o] # "refused"
           /\ \A d \in r.todo : Unspoiled(d, opt, acted)
           /\ j \in r.mine /\ Of[j] \notin r.todo
  BY DEF Orderly, Decides, Acting
<1>2. \A d : d # Of[j] /\ Unspoiled(d, opt, acted) => Unspoiled(d, opt', acted')
  BY DEF Unspoiled
<1>3. \A x \in Option : Of[x] = Of[j] /\ x # j => x \notin acted' /\ opt'[x] # "applied"
  BY <1>1 DEF Unspoiled
<1>4. n.actor = "supervisor" =>
        /\ \A o \in n.mine : opt'[o] # "refused"
        /\ \A d \in n.todo : Unspoiled(d, opt', acted')
  BY <1>1, <1>2
<1>5. Decides(n, opt', acted')
  BY <1>1, <1>3, <1>4 DEF Decides, Acting
<1>6. ASSUME NEW o \in Option, opt'[o] \in Live
      PROVE  Unspoiled(Of[o], opt', acted') \/ Excuses(n, o)
  <2>1. CASE Of[o] = Of[j]
    BY <2>1 DEF Excuses
  <2>2. CASE Of[o] # Of[j]
    <3>1. ~Excuses(r, o)
      BY DEF Excuses
    <3>2. Unspoiled(Of[o], opt, acted)
      BY <1>6, <3>1, OnlyExcuse
    <3>. QED BY <1>2, <2>2, <3>2
  <2>. QED BY <2>1, <2>2
<1>7. [C!Next]_(C!vars)
  BY <1>1, ChoiceActs
<1>. QED BY <1>5, <1>6, <1>7 DEF KeepsChoice

LEMMA EffectKeepsChoice ==
  ASSUME Typed, Orderly, NEW p \in Proc,
         ReadAnomaly(p) \/ MoveAnomaly(p) \/ InsertDriver(p)
  PROVE  KeepsChoice(p)
<1>. DEFINE r == proc[p]
<1>0. TypedBoard /\ Shaped
  BY TypedParts
<1>1. r \in Handler /\ Shape(r)
  BY <1>0, ShapedHandler
<1>2. ASSUME NEW x, Set(p, x) PROVE proc'[p] = x
  BY <1>0, <1>2 DEF Set, Shaped
<1>3. Decides(Idle, opt, acted)
  BY IdleHandler, IdleDecides DEF Idle
<1>4. CASE ReadAnomaly(p)
  <2>1. r.pc = "read" /\ opt' = opt /\ acted' = acted
    BY <1>4 DEF ReadAnomaly, boardVars
  <2>2. Set(p, Idle) \/ \E m : Set(p, [r EXCEPT !.pc = "move", !.move = m])
    BY <1>4 DEF ReadAnomaly, Abort, Spend
  <2>3. CASE Set(p, Idle)
    BY <1>2, <1>3, <2>1, <2>3, QuietKeepsChoice
  <2>4. ASSUME NEW m, Set(p, [r EXCEPT !.pc = "move", !.move = m])
        PROVE  KeepsChoice(p)
    <3>. DEFINE n == [r EXCEPT !.pc = "move", !.move = m]
    <3>1. proc'[p] = n
      BY <1>2, <2>4
    <3>2. /\ n.pc = "move" /\ n.job = r.job /\ n.mine = r.mine
          /\ n.todo = r.todo /\ n.actor = r.actor
      BY <1>1 DEF Handler
    <3>. HIDE DEF n
    <3>3. Decides(r, opt, acted)
      BY DEF Orderly
    <3>4. Decides(n, opt, acted)
      BY <2>1, <3>2, <3>3 DEF Decides, Acting
    <3>. QED BY <2>1, <3>1, <3>4, QuietKeepsChoice
  <2>. QED BY <2>2, <2>3, <2>4
<1>5. CASE MoveAnomaly(p)
  <2>1. r.pc = "move" /\ opt' = opt
    BY <1>5 DEF MoveAnomaly
  <2>2. CASE r.job = NoOption
    <3>1. Set(p, Idle) /\ acted' = acted
      BY <1>5, <2>2 DEF MoveAnomaly, Spend
    <3>. QED BY <1>2, <1>3, <2>1, <3>1, QuietKeepsChoice
  <2>3. CASE r.job # NoOption
    <3>. DEFINE n == [r EXCEPT !.pc = "mark", !.move = NoMove]
    <3>1. Set(p, n) /\ acted' = acted \cup {r.job}
      BY <1>5, <2>3 DEF MoveAnomaly
    <3>2. r.job \in Option
      BY <1>1, <2>3, HandlerFields
    <3>3. n \in Handler
      BY <1>1 DEF Handler, Pcs, NoMove, AnomalyStates
    <3>4. /\ n.pc = "mark" /\ n.job = r.job /\ n.mine = r.mine
          /\ n.todo = r.todo /\ n.actor = r.actor
      BY <1>1 DEF Handler
    <3>5. proc'[p] = n
      BY <1>2, <3>1
    <3>. HIDE DEF n
    <3>. QED BY <2>1, <2>3, <3>1, <3>2, <3>3, <3>4, <3>5, ActKeepsChoice
  <2>. QED BY <2>2, <2>3
<1>6. CASE InsertDriver(p)
  <2>. DEFINE n == [r EXCEPT !.pc = "mark"]
  <2>1. r.pc = "driver" /\ opt' = opt /\ acted' = acted \cup {r.job} /\ Set(p, n)
    BY <1>6 DEF InsertDriver, boardVars
  <2>2. r.job \in Option
    BY <1>1, <2>1 DEF Shape, OnAJob, Acting
  <2>3. r.job # NoOption
    BY <2>2, DecisionsAssumption DEF NoOption
  <2>4. n \in Handler
    BY <1>1 DEF Handler, Pcs
  <2>5. /\ n.pc = "mark" /\ n.job = r.job /\ n.mine = r.mine
        /\ n.todo = r.todo /\ n.actor = r.actor
    BY <1>1 DEF Handler
  <2>6. proc'[p] = n
    BY <1>2, <2>1
  <2>. HIDE DEF n
  <2>. QED BY <2>1, <2>2, <2>3, <2>4, <2>5, <2>6, ActKeepsChoice
<1>. QED BY <1>4, <1>5, <1>6

LEMMA MarkKeepsChoice ==
  ASSUME Typed, Orderly, NEW p \in Proc, Mark(p)
  PROVE  KeepsChoice(p)
<1>. DEFINE r == proc[p]
            j == r.job
            n == [r EXCEPT !.pc = "rivals"]
<1>0. TypedBoard /\ Shaped
  BY TypedParts
<1>1. r \in Handler /\ Shape(r)
  BY <1>0, ShapedHandler
<1>2. /\ r.pc = "mark" /\ opt' = [opt EXCEPT ![j] = "applied"] /\ Set(p, n)
      /\ acted' = acted
  BY DEF Mark, histVars
<1>3. proc'[p] = n
  BY <1>0, <1>2 DEF Set, Shaped
<1>4. /\ n.pc = "rivals" /\ n.job = j /\ n.mine = r.mine
      /\ n.todo = r.todo /\ n.actor = r.actor
  BY <1>1 DEF Handler
<1>5. j \in Option /\ r.mine \subseteq Option
  BY <1>1, <1>2, HandlerFields DEF Shape, OnAJob, Acting
<1>6. /\ opt[j] # "refused"
      /\ \A x \in Option : Of[x] = Of[j] /\ x # j => x \notin acted /\ opt[x] # "applied"
      /\ r.actor = "supervisor" =>
           /\ \A o \in r.mine : opt[o] # "refused"
           /\ \A d \in r.todo : Unspoiled(d, opt, acted)
           /\ Of[j] \notin r.todo
  BY <1>2 DEF Orderly, Decides, Acting
<1>. HIDE DEF n, j
<1>7. opt'[j] = "applied" /\ \A o \in Option \ {j} : opt'[o] = opt[o]
  BY <1>0, <1>2, <1>5 DEF TypedBoard
<1>8. \A d : d # Of[j] /\ Unspoiled(d, opt, acted) => Unspoiled(d, opt', acted')
  BY <1>2, <1>7 DEF Unspoiled
<1>9. n.actor = "supervisor" =>
        /\ \A o \in n.mine : opt'[o] # "refused"
        /\ \A d \in n.todo : Unspoiled(d, opt', acted')
  BY <1>4, <1>5, <1>6, <1>7, <1>8
<1>10. Decides(n, opt', acted')
  BY <1>4, <1>7, <1>9 DEF Decides, Acting
<1>11. ASSUME NEW o \in Option, opt'[o] \in Live
       PROVE  Unspoiled(Of[o], opt', acted') \/ Excuses(n, o)
  <2>1. CASE Of[o] = Of[j]
    BY <1>4, <2>1 DEF Excuses
  <2>2. CASE Of[o] # Of[j]
    <3>1. ~Excuses(r, o)
      BY <1>2, <2>2 DEF Excuses, j
    <3>2. opt[o] \in Live
      BY <1>7, <1>11, <2>2
    <3>. QED BY <1>2, <1>8, <2>2, <3>1, <3>2, OnlyExcuse
  <2>. QED BY <2>1, <2>2
<1>12. [C!Next]_(C!vars)
  BY <1>2, <1>5, <1>6, ChoiceApplies
<1>. QED BY <1>3, <1>10, <1>11, <1>12 DEF KeepsChoice

LEMMA SetAsideKeepsChoice ==
  ASSUME Typed, Orderly, NEW p \in Proc, ReadRivals(p) \/ MarkNotChosen(p)
  PROVE  KeepsChoice(p)
<1>. DEFINE r == proc[p]
<1>0. TypedBoard /\ Shaped
  BY TypedParts
<1>1. r \in Handler /\ Shape(r)
  BY <1>0, ShapedHandler
<1>2. /\ r.mine \subseteq Option /\ r.left \subseteq Option
      /\ r.pc \in {"rivals", "unchosen"} /\ acted' = acted
  BY <1>1, HandlerFields DEF ReadRivals, MarkNotChosen, histVars
<1>3. r.job \in Option /\ Ahead(r)
  BY <1>1, <1>2 DEF Shape, OnAJob
<1>4. Decides(r, opt, acted)
  BY DEF Orderly
<1>5. r.actor = "supervisor" => /\ \A o \in r.mine : opt[o] # "refused"
                                /\ \A d \in r.todo : Unspoiled(d, opt, acted)
  BY <1>4 DEF Decides
<1>6. CASE ReadRivals(p)
  <2>. DEFINE S == LiveRivalsOf(r.job)
              n == [r EXCEPT !.pc = "unchosen", !.left = S]
  <2>1. r.pc = "rivals" /\ opt' = opt /\ Set(p, IF S = {} THEN Applied(r) ELSE n)
    BY <1>6 DEF ReadRivals, boardVars
  <2>2. proc'[p] = IF S = {} THEN Applied(r) ELSE n
    BY <1>0, <2>1 DEF Set, Shaped
  <2>3. opt[r.job] = "applied"
    BY <1>4, <2>1 DEF Decides
  <2>4. \A o \in Option : opt[o] \in Live /\ Of[o] = Of[r.job] => o \in S
    BY <2>3 DEF LiveRivalsOf, Live
  <2>5. \A o \in S : opt[o] \in Live
    BY DEF LiveRivalsOf
  <2>. HIDE DEF S
  <2>6. /\ n.pc = "unchosen" /\ n.mine = r.mine /\ n.todo = r.todo
        /\ n.left = S /\ n.actor = r.actor
    BY <1>1 DEF Handler
  <2>. HIDE DEF n
  <2>7. Decides(n, opt, acted)
    BY <1>5, <2>5, <2>6 DEF Decides, Acting
  <2>8. Decides(Applied(r), opt, acted)
    BY <1>1, <1>3, <1>5, AppliedDecides
  <2>9. ASSUME NEW o \in Option, opt[o] \in Live
        PROVE  Unspoiled(Of[o], opt, acted) \/ o \in S
    <3>1. Unspoiled(Of[o], opt, acted) \/ Excuses(r, o)
      BY <2>1, <2>9, OnlyExcuse
    <3>. QED BY <2>1, <2>4, <2>9, <3>1 DEF Excuses
  <2>10. \A o \in Option : opt'[o] \in Live =>
           Unspoiled(Of[o], opt', acted') \/ Excuses(proc'[p], o)
    BY <1>2, <2>1, <2>2, <2>6, <2>9 DEF Excuses
  <2>11. Decides(proc'[p], opt', acted')
    BY <1>2, <2>1, <2>2, <2>7, <2>8
  <2>12. [C!Next]_(C!vars)
    BY <1>2, <2>1, ChoiceStutters
  <2>. QED BY <2>10, <2>11, <2>12 DEF KeepsChoice
<1>7. CASE MarkNotChosen(p)
  <2>. DEFINE f == First(r.left)
              n == [r EXCEPT !.left = @ \ {f}]
  <2>1. /\ r.pc = "unchosen" /\ opt' = [opt EXCEPT ![f] = "not_chosen"]
        /\ Set(p, IF r.left = {f} THEN Applied(r) ELSE n)
    BY <1>7 DEF MarkNotChosen
  <2>2. proc'[p] = IF r.left = {f} THEN Applied(r) ELSE n
    BY <1>0, <2>1 DEF Set, Shaped
  <2>3. f \in r.left /\ f \in Option
    BY <1>1, <1>2, <2>1, FirstIsOneOf DEF Shape
  <2>. HIDE DEF f
  <2>4. /\ n.pc = "unchosen" /\ n.mine = r.mine /\ n.todo = r.todo
        /\ n.left = r.left \ {f} /\ n.actor = r.actor
    BY <1>1, <2>1 DEF Handler
  <2>. HIDE DEF n
  <2>5. opt'[f] = "not_chosen" /\ \A o \in Option \ {f} : opt'[o] = opt[o]
    BY <1>0, <2>1, <2>3 DEF TypedBoard
  <2>6. \A o \in r.left : opt[o] \in Live
    BY <1>4, <2>1 DEF Decides
  <2>7. \A d : Unspoiled(d, opt, acted) => Unspoiled(d, opt', acted')
    BY <1>2, <2>5 DEF Unspoiled
  <2>8. r.actor = "supervisor" => /\ \A o \in r.mine : opt'[o] # "refused"
                                  /\ \A d \in r.todo : Unspoiled(d, opt', acted')
    BY <1>2, <1>5, <2>5, <2>7
  <2>9. \A o \in n.left : opt'[o] \in Live
    BY <1>2, <2>4, <2>5, <2>6
  <2>10. Decides(n, opt', acted')
    BY <2>4, <2>8, <2>9 DEF Decides, Acting
  <2>11. Decides(Applied(r), opt', acted')
    BY <1>1, <1>3, <2>8, AppliedDecides
  <2>12. ASSUME NEW o \in Option, opt'[o] \in Live
         PROVE  Unspoiled(Of[o], opt', acted') \/ o \in r.left \ {f}
    <3>1. o # f
      BY <2>5, <2>12 DEF Live
    <3>2. Unspoiled(Of[o], opt, acted) \/ Excuses(r, o)
      BY <2>1, <2>5, <2>12, <3>1, OnlyExcuse
    <3>. QED BY <2>1, <2>7, <3>1, <3>2 DEF Excuses
  <2>13. \A o \in Option : opt'[o] \in Live =>
           Unspoiled(Of[o], opt', acted') \/ Excuses(proc'[p], o)
    BY <2>2, <2>4, <2>12 DEF Excuses
  <2>14. opt[f] # "applied" /\ opt[f] # "refused"
    BY <2>3, <2>6 DEF Live
  <2>15. [C!Next]_(C!vars)
    BY <1>2, <2>5, <2>14, ChoiceStutters
  <2>. QED BY <2>2, <2>10, <2>11, <2>13, <2>15 DEF KeepsChoice
<1>. QED BY <1>6, <1>7

LEMMA ConsoleKeepsChoice ==
  ASSUME Typed, Orderly, NEW p \in Proc, Refuse(p) \/ Close(p) \/ PostRequest(p)
  PROVE  KeepsChoice(p)
<1>. DEFINE r == proc[p]
<1>0. TypedBoard /\ Shaped
  BY TypedParts
<1>1. r \in Handler /\ Shape(r)
  BY <1>0, ShapedHandler
<1>2. r.pc \in {"refuse", "close", "post"} /\ acted' = acted
  BY DEF Refuse, Close, PostRequest, boardVars, histVars
<1>3. r.actor # "supervisor" /\ r.job \in Option
  BY <1>1, <1>2 DEF Shape, OnAJob, Passing, Acting, Asking
<1>4. PICK n : Set(p, n) /\ (n = Idle \/ \E c \in {"close", "post"} : n = [r EXCEPT !.pc = c])
  BY DEF Refuse, Close, PostRequest, Spend
<1>5. proc'[p] = n
  BY <1>0, <1>4 DEF Set, Shaped
<1>6. n.actor # "supervisor" /\ n.pc \in {"idle", "close", "post"}
  <2>1. CASE n = Idle
    BY <2>1 DEF Idle
  <2>2. ASSUME NEW c \in {"close", "post"}, n = [r EXCEPT !.pc = c]
        PROVE  n.actor # "supervisor" /\ n.pc = c
    BY <1>1, <1>3, <2>2 DEF Handler
  <2>. QED BY <1>4, <2>1, <2>2
<1>7. \A s, k : Decides(n, s, k)
  BY <1>6 DEF Decides, Acting
<1>8. CASE Close(p) \/ PostRequest(p)
  <2>1. opt' = opt /\ r.pc \in {"close", "post"}
    BY <1>8 DEF Close, PostRequest, boardVars
  <2>. QED BY <1>2, <1>5, <1>7, <2>1, QuietKeepsChoice
<1>9. CASE Refuse(p)
  <2>1. r.pc = "refuse" /\ opt' = [opt EXCEPT ![r.job] = "refused"]
    BY <1>9 DEF Refuse
  <2>2. r.job \notin acted /\ opt[r.job] # "applied"
    BY <2>1 DEF Orderly, Decides
  <2>3. [C!Next]_(C!vars)
    BY <1>2, <1>3, <2>1, <2>2, ChoiceRefuses
  <2>4. opt'[r.job] = "refused" /\ \A o \in Option \ {r.job} : opt'[o] = opt[o]
    BY <1>0, <1>3, <2>1 DEF TypedBoard
  <2>5. \A d : Unspoiled(d, opt, acted) => Unspoiled(d, opt', acted')
    BY <1>2, <2>4 DEF Unspoiled
  <2>6. ASSUME NEW o \in Option, opt'[o] \in Live
        PROVE  Unspoiled(Of[o], opt', acted')
    <3>1. opt[o] \in Live
      BY <2>4, <2>6 DEF Live
    <3>2. ~Excuses(r, o)
      BY <2>1 DEF Excuses
    <3>. QED BY <2>1, <2>5, <3>1, <3>2, OnlyExcuse
  <2>. QED BY <1>5, <1>7, <2>3, <2>6 DEF KeepsChoice
<1>. QED BY <1>8, <1>9

LEMMA JudgeKeepsChoice ==
  ASSUME Typed, Orderly, NEW p \in Proc, JudgeRequest(p)
  PROVE  KeepsChoice(p)
<1>1. /\ proc[p].pc = "judge" /\ proc'[p] = Idle
      /\ opt' = opt /\ acted' = acted
  BY JudgesOne
<1>2. \A s, k : Decides(Idle, s, k)
  BY DEF Decides, Acting, Idle
<1>. QED BY <1>1, <1>2, QuietKeepsChoice

\* A handler starts from options nobody has decided beside.
LEMMA StartKeepsChoice ==
  ASSUME Typed, Orderly, NEW p \in Proc, MaxBusy = 1, IsFiniteSet(Proc),
         \/ StartPass(p)
         \/ \E o \in Option : StartAnswer(p, o)
         \/ \E a \in Anomaly : Click(p, a)
         \/ \E w \in Owner : StartJudge(p, w)
  PROVE  /\ \A o \in Option : opt[o] \in Live => Unspoiled(Of[o], opt, acted)
         /\ Decides(proc'[p], opt, acted)
<1>0. TypedBoard /\ Shaped
  BY TypedParts
<1>a. Cardinality(Busy) < 1
  BY DEF StartPass, StartAnswer, Click, StartJudge, MayStart
<1>b. IsFiniteSet(Busy)
  BY FS_Subset DEF Busy
<1>c. Busy = {}
  BY <1>a, <1>b, FS_CardinalityType, FS_EmptySet
<1>d. \A q \in Proc, o \in Option : ~Excuses(proc[q], o)
  BY <1>c DEF Busy, Excuses
<1>e. \A o \in Option : opt[o] \in Live => Unspoiled(Of[o], opt, acted)
  BY <1>d DEF Orderly, Answerable
<1>1. CASE StartPass(p)
  <2>. DEFINE M == {o \in Option : Collectable(o)}
              T == {Of[o] : o \in M}
              s == [Idle EXCEPT !.actor = "supervisor", !.mine = M, !.todo = T]
  <2>1. T \subseteq Deliverable
    BY MovesWhat
  <2>2. M \subseteq Option /\ \A o \in M : opt[o] = "open"
    BY DEF Collectable
  <2>. HIDE DEF M
  <2>3. \A d \in T : Unspoiled(d, opt, acted)
    BY <1>e, <2>2 DEF Live
  <2>4. T = {Of[o] : o \in M}
    OBVIOUS
  <2>. HIDE DEF T
  <2>5. s \in Handler
    BY <2>1, <2>2, IdleHandler DEF Handler
  <2>6. s.actor = "supervisor" /\ s.mine = M /\ s.todo = T
    BY IdleHandler DEF Handler
  <2>7. Set(p, Turn(s))
    BY <1>1 DEF StartPass, M, T
  <2>. HIDE DEF s
  <2>8. Decides(Turn(s), opt, acted)
    BY <2>2, <2>3, <2>4, <2>5, <2>6, TurnDecides DEF Ahead
  <2>9. proc'[p] = Turn(s)
    BY <1>0, <2>7 DEF Set, Shaped
  <2>. QED BY <1>e, <2>8, <2>9
<1>2. ASSUME NEW o \in Option, StartAnswer(p, o)
      PROVE  Decides(proc'[p], opt, acted)
  <2>1. PICK n \in Handler :
          /\ Set(p, n) /\ Shape(n) /\ n.actor = "person" /\ n.job = o
          /\ n.pc \in Acting \cup {"refuse"}
    BY <1>0, <1>2, AnswerWhat
  <2>2. proc'[p] = n
    BY <1>0, <2>1 DEF Set, Shaped
  <2>3. opt[o] = "carried"
    BY <1>2 DEF StartAnswer
  <2>4. Unspoiled(Of[o], opt, acted)
    BY <1>e, <2>3 DEF Live
  <2>5. o \notin acted /\ opt[o] # "applied"
        /\ \A x \in Option : Of[x] = Of[o] => x \notin acted /\ opt[x] # "applied"
    BY <2>4 DEF Unspoiled
  <2>6. Decides(n, opt, acted)
    BY <2>1, <2>3, <2>4, <2>5 DEF Decides, Acting
  <2>. QED BY <2>2, <2>6
<1>3. ASSUME NEW a \in Anomaly, Click(p, a)
      PROVE  Decides(proc'[p], opt, acted)
  <2>1. /\ proc'[p].actor = "person" /\ proc'[p].pc = "move"
        /\ proc'[p].job = NoOption
    BY <1>0, <1>3, ClickWhat, OneMoves
  <2>. QED BY <2>1 DEF Decides, Acting
<1>4. ASSUME NEW w \in Owner, StartJudge(p, w)
      PROVE  Decides(proc'[p], opt, acted)
  <2>1. /\ proc'[p].actor = "person" /\ proc'[p].pc = "judge"
    BY <1>0, <1>4, JudgeWhat, OneMoves
  <2>. QED BY <2>1 DEF Decides, Acting
<1>. QED BY <1>e, <1>1, <1>2, <1>3, <1>4

LEMMA OrderlyNext ==
  ASSUME Typed, Orderly, [Next]_vars,
         MaxBusy = 1, MaxFails = 0, IsFiniteSet(Proc)
  PROVE  Orderly' /\ [C!Next]_(C!vars)
<1>0. TypedBoard /\ Shaped
  BY TypedParts
<1>1. Single'
  BY SingleNext DEF Orderly
<1>2. CASE UNCHANGED vars
  <2>1. opt' = opt /\ acted' = acted /\ proc' = proc
    BY <1>2 DEF vars, boardVars, histVars
  <2>2. Orderly'
    BY <1>1, <2>1 DEF Orderly, Answerable
  <2>. QED BY <2>1, <2>2, ChoiceStutters
<1>3. ASSUME NEW d \in Deliverable, PostDeliverable(d)
      PROVE  Orderly' /\ [C!Next]_(C!vars)
  <2>1. opt' = opt /\ acted' = acted /\ proc' = proc
    BY <1>3 DEF PostDeliverable, histVars
  <2>2. Orderly'
    BY <1>1, <2>1 DEF Orderly, Answerable
  <2>. QED BY <2>1, <2>2, ChoiceStutters
<1>4. ASSUME NEW p \in Proc, \/ StartPass(p)
                             \/ \E o \in Option : StartAnswer(p, o)
                             \/ \E a \in Anomaly : Click(p, a)
                             \/ \E w \in Owner : StartJudge(p, w)
      PROVE  Orderly' /\ [C!Next]_(C!vars)
  <2>1. /\ opt' = opt /\ acted' = acted
        /\ \A q \in Proc \ {p} : proc'[q] = proc[q]
    BY <1>4, EdgesWriteNoOption
  <2>2. /\ \A o \in Option : opt[o] \in Live => Unspoiled(Of[o], opt, acted)
        /\ Decides(proc'[p], opt, acted)
    BY <1>4, StartKeepsChoice
  <2>3. \A q \in Proc : Decides(proc'[q], opt', acted')
    BY <2>1, <2>2 DEF Orderly
  <2>4. Answerable'
    BY <2>1, <2>2 DEF Answerable
  <2>. QED BY <1>1, <2>1, <2>3, <2>4, ChoiceStutters DEF Orderly
<1>5. ASSUME NEW p \in Proc, Die(p) PROVE FALSE
  <2>1. fails \in 0..0
    BY <1>0 DEF TypedBoard
  <2>. QED BY <1>5, <2>1 DEF Die
<1>6. ASSUME NEW p \in Proc, Step(p)
      PROVE  Orderly' /\ [C!Next]_(C!vars)
  <2>1. KeepsChoice(p)
    BY <1>6, CarryKeepsChoice, AskKeepsChoice, EffectKeepsChoice,
       MarkKeepsChoice, SetAsideKeepsChoice, ConsoleKeepsChoice,
       JudgeKeepsChoice DEF Step
  <2>2. \A q \in Proc \ {p} : proc'[q] = proc[q]
    BY <1>6, MarkComesLast
  <2>3. proc[p].pc # "idle"
    BY <1>6 DEF Step, Carry, FindRequest, WriteDecisionRequest,
                ReadAnomaly, MoveAnomaly, InsertDriver, Mark, ReadRivals,
                MarkNotChosen, Refuse, Close, PostRequest, JudgeRequest
  <2>4. ASSUME NEW q \in Proc PROVE Decides(proc'[q], opt', acted')
    <3>1. CASE q = p
      BY <2>1, <3>1 DEF KeepsChoice
    <3>2. CASE q # p
      <4>1. proc[q].pc = "idle"
        BY <2>3, <3>2 DEF Orderly, Single
      <4>2. Decides(proc[q], opt', acted')
        BY <1>0, <4>1, ShapedHandler, IdleDecides
      <4>. QED BY <2>2, <3>2, <4>2
    <3>. QED BY <3>1, <3>2
  <2>5. ASSUME NEW o \in Option, opt'[o] \in Live
        PROVE  Unspoiled(Of[o], opt', acted')
               \/ \E q \in Proc : Excuses(proc'[q], o)
    BY <2>1, <2>5 DEF KeepsChoice
  <2>6. Answerable'
    BY <2>5 DEF Answerable
  <2>7. [C!Next]_(C!vars)
    BY <2>1 DEF KeepsChoice
  <2>. QED BY <1>1, <2>4, <2>6, <2>7 DEF Orderly
<1>. QED BY <1>2, <1>3, <1>4, <1>5, <1>6 DEF Next

LEMMA OrderlyInit == Init => Orderly /\ C!Init
<1>. SUFFICES ASSUME Init PROVE Orderly /\ C!Init
  OBVIOUS
<1>1. /\ \A o \in Option : opt[o] = "open"
      /\ acted = {} /\ \A p \in Proc : proc[p] = Idle
  BY DEF Init
<1>2. Single
  BY <1>1 DEF Single, Idle
<1>3. Answerable
  BY <1>1 DEF Answerable, Unspoiled
<1>4. \A p \in Proc : Decides(proc[p], opt, acted)
  BY <1>1, IdleHandler, IdleDecides DEF Idle
<1>5. C!Init
  BY <1>1 DEF C!Init
<1>. QED BY <1>2, <1>3, <1>4, <1>5 DEF Orderly

\* Supervise's first property and the finality of answers: with one handler at
\* a time, none of which dies between two statements, the passes and the answers
\* together do what Choice specifies.
THEOREM DecisionsImplementsChoice ==
  ASSUME MaxBusy = 1, MaxFails = 0, IsFiniteSet(Proc)
  PROVE  Spec => ImplementsChoice
<1>1. Typed /\ Orderly /\ [Next]_vars => Orderly' /\ [C!Next]_(C!vars)
  BY OrderlyNext
<1>2. ImplementsChoice <=> C!Init /\ [][C!Next]_(C!vars)
  BY DEF ImplementsChoice, C!Spec
<1>. QED BY <1>1, <1>2, OrderlyInit, AlwaysTyped, PTL DEF Spec

-----------------------------------------------------------------------------
(* Of the alternatives to one question somebody wins, however many people  *)
(* answer at once: as long as no two passes are in flight together.        *)

\* Two options that may rule each other out.
Kin(x, y) == Of[x] = Of[y] \/ (Topic(x) # NoAnomaly /\ Topic(x) = Topic(y))

LEMMA KinIsEquivalence ==
  ASSUME NEW x, NEW y, NEW z
  PROVE  /\ Kin(x, x)
         /\ Kin(x, y) => Kin(y, x)
         /\ Kin(x, y) /\ Kin(y, z) => Kin(x, z)
BY DEF Kin, Topic

\* The options a pass has collected and not come to yet.
Untouched(r) ==
  {o \in r.mine : Of[o] \in r.todo \/ (r.pc = "carry" /\ o \in r.left)}

OnePass ==
  \A p, q \in Proc :
    proc[p].actor = "supervisor" /\ proc[q].actor = "supervisor" => p = q

\* A pass comes to options nobody has decided, people answer about options
\* no pass has still to come to, and there are no other handlers in flight.
PassAndPeople ==
  \A p \in Proc :
    /\ proc[p].pc # "idle" => proc[p].actor # "nobody"
    /\ proc[p].actor = "supervisor" =>
         \A o \in Untouched(proc[p]) : opt[o] \in {"open", "not_chosen"}
    /\ proc[p].actor = "person" /\ proc[p].job \in Option =>
         /\ opt[proc[p].job] # "open"
         /\ \A q \in Proc : proc[q].actor = "supervisor" =>
              proc[p].job \notin Untouched(proc[q])

SettingAside(r) == r.pc \in {"rivals", "unchosen"}

\* Where a handler sets an option aside, or has, one that was decided stands
\* on no handler's list.
Beaten(o) ==
  \/ opt[o] = "not_chosen"
  \/ \E p \in Proc : SettingAside(proc[p]) /\ Kin(proc[p].job, o)

Secure(w) ==
  /\ opt[w] \in {"applied", "refused"}
  /\ \A q \in Proc : proc[q].pc = "unchosen" => w \notin proc[q].left

SomebodyIsSecure ==
  /\ \A p \in Proc : proc[p].pc = "unchosen" =>
       \A x \in proc[p].left : Kin(proc[p].job, x)
  /\ \A o \in Option : Beaten(o) => \E w \in Option : Kin(w, o) /\ Secure(w)

Fought == lapped \/ (OnePass /\ PassAndPeople /\ SomebodyIsSecure)

LEMMA TurnShrinks ==
  ASSUME NEW r \in Handler, Ahead(r), r.actor = "supervisor"
  PROVE  /\ Untouched(Turn(r)) \subseteq Untouched(r)
         /\ ~SettingAside(Turn(r))
<1>1. CASE Turn(r).pc = "idle"
  <2>1. Shape(Turn(r)) /\ Turn(r).todo \subseteq r.todo /\ r.todo = {}
    BY <1>1, TurnWhat
  <2>. QED BY <1>1, <2>1 DEF Untouched, SettingAside
<1>2. CASE Turn(r).pc # "idle"
  <2>1. /\ Turn(r).mine = r.mine /\ Turn(r).todo \subseteq r.todo
        /\ Turn(r).pc = "carry" => \A o \in Turn(r).left : Of[o] \in r.todo
        /\ Turn(r).pc \in {"idle", "ask", "carry"} \cup Acting
    BY <1>2, TurnWhat
  <2>. QED BY <2>1 DEF Untouched, SettingAside, Acting
<1>. QED BY <1>1, <1>2

LEMMA AppliedShrinks ==
  ASSUME NEW r \in Handler, Ahead(r), r.job \in Option
  PROVE  /\ r.actor = "supervisor" => Untouched(Applied(r)) \subseteq Untouched(r)
         /\ ~SettingAside(Applied(r))
<1>1. CASE r.actor = "supervisor"
  <2>1. CASE Applied(r).pc = "idle"
    <3>1. Applied(r).todo \subseteq r.todo /\ r.todo = {}
      BY <1>1, <2>1, AppliedWhat
    <3>. QED BY <2>1, <3>1 DEF Untouched, SettingAside
  <2>2. CASE Applied(r).pc # "idle"
    <3>1. /\ Applied(r).mine = r.mine /\ Applied(r).todo \subseteq r.todo
          /\ Applied(r).pc = "carry" => \A o \in Applied(r).left : Of[o] \in r.todo
          /\ Applied(r).pc \in {"idle", "ask", "carry"} \cup Acting
      BY <1>1, <2>2, AppliedWhat
    <3>. QED BY <3>1 DEF Untouched, SettingAside, Acting
  <2>. QED BY <2>1, <2>2
<1>2. CASE r.actor # "supervisor"
  BY <1>2, AppliedWhat DEF SettingAside
<1>. QED BY <1>1, <1>2

\* What a step leaves of the handler it moves.
Narrows(p) ==
  /\ \A q \in Proc \ {p} : proc'[q] = proc[q]
  /\ proc'[p].pc # "idle" => proc'[p].actor = proc[p].actor
  /\ proc'[p].actor = "supervisor" =>
       /\ proc[p].actor = "supervisor"
       /\ Untouched(proc'[p]) \subseteq Untouched(proc[p])
  /\ proc'[p].actor = "person" /\ proc'[p].job \in Option =>
       proc[p].actor = "person" /\ proc'[p].job = proc[p].job

\* A record that keeps what Narrows compares, or that is idle.
LEMMA KeptNarrows ==
  ASSUME Typed, NEW p \in Proc, NEW n, Set(p, n),
         \/ n = Idle
         \/ /\ n.actor = proc[p].actor /\ n.mine = proc[p].mine
            /\ n.todo = proc[p].todo /\ n.job = proc[p].job /\ n.pc # "carry"
  PROVE  Narrows(p)
<1>0. Shaped
  BY TypedParts
<1>1. proc'[p] = n /\ \A q \in Proc \ {p} : proc'[q] = proc[q]
  BY <1>0 DEF Set, Shaped
<1>2. CASE n = Idle
  BY <1>1, <1>2 DEF Narrows, Idle
<1>3. CASE n # Idle
  BY <1>1, <1>3 DEF Narrows, Untouched
<1>. QED BY <1>2, <1>3

LEMMA AppliedNarrows ==
  ASSUME Typed, NEW p \in Proc, Set(p, Applied(proc[p])),
         proc[p].job \in Option
  PROVE  Narrows(p)
<1>. DEFINE r == proc[p]
<1>0. Shaped
  BY TypedParts
<1>1. r \in Handler /\ Ahead(r)
  BY <1>0, ShapedHandler DEF Shape
<1>2. proc'[p] = Applied(r) /\ \A q \in Proc \ {p} : proc'[q] = proc[q]
  BY <1>0 DEF Set, Shaped
<1>3. CASE r.actor = "supervisor"
  <2>1. Applied(r).actor # "person"
    <3>1. CASE Applied(r).pc = "idle"
      BY <1>1, <3>1, AppliedWhat DEF Shape
    <3>2. CASE Applied(r).pc # "idle"
      BY <1>1, <1>3, <3>2, AppliedWhat
    <3>. QED BY <3>1, <3>2
  <2>2. Applied(r).pc # "idle" => Applied(r).actor = r.actor
    BY <1>1, <1>3, AppliedWhat
  <2>3. /\ Untouched(Applied(r)) \subseteq Untouched(r)
        /\ Applied(r).actor = "supervisor" => r.actor = "supervisor"
    BY <1>1, <1>3, AppliedShrinks
  <2>. QED BY <1>2, <2>1, <2>2, <2>3 DEF Narrows
<1>4. CASE r.actor # "supervisor"
  BY <1>1, <1>2, <1>4, AppliedWhat DEF Narrows
<1>. QED BY <1>3, <1>4

LEMMA PassNarrows ==
  ASSUME Typed, NEW p \in Proc,
         Carry(p) \/ FindRequest(p) \/ WriteDecisionRequest(p)
  PROVE  /\ Narrows(p) /\ ~SettingAside(proc'[p])
         /\ Carry(p) => First(proc[p].left) \notin Untouched(proc'[p])
<1>. DEFINE r == proc[p]
<1>0. Shaped
  BY TypedParts
<1>1. r \in Handler /\ Shape(r)
  BY <1>0, ShapedHandler
<1>2. ASSUME NEW x, Set(p, x)
      PROVE  proc'[p] = x /\ \A q \in Proc \ {p} : proc'[q] = proc[q]
  BY <1>0, <1>2 DEF Set, Shaped
<1>3. CASE Carry(p)
  <2>. DEFINE f == First(r.left)
              rest == [r EXCEPT !.left = @ \ {First(r.left)},
                                !.sent = @ \cup {First(r.left)}]
              n == IF rest.left = {} THEN Turn(rest) ELSE rest
  <2>1. r.pc = "carry" /\ Set(p, n)
    BY <1>3 DEF Carry
  <2>2. /\ rest \in Handler /\ Ahead(rest) /\ f \in r.left /\ f \in Option
        /\ rest.actor = r.actor /\ rest.mine = r.mine /\ rest.pc = "carry"
        /\ rest.todo = r.todo /\ rest.left = r.left \ {f} /\ rest.job = r.job
    BY <1>1, <2>1, CarryWhat
  <2>3. r.actor = "supervisor" /\ Of[f] \notin r.todo
    BY <1>1, <2>1, <2>2 DEF Shape
  <2>4. proc'[p] = n /\ \A q \in Proc \ {p} : proc'[q] = proc[q]
    BY <1>2, <2>1
  <2>. HIDE DEF rest, f
  <2>5. Untouched(rest) \subseteq Untouched(r) \ {f} /\ ~SettingAside(rest)
    BY <2>1, <2>2, <2>3 DEF Untouched, SettingAside
  <2>6. Untouched(Turn(rest)) \subseteq Untouched(rest) /\ ~SettingAside(Turn(rest))
    BY <2>2, <2>3, TurnShrinks
  <2>7. /\ Turn(rest).actor # "person"
        /\ Turn(rest).pc # "idle" => Turn(rest).actor = r.actor
    <3>1. CASE Turn(rest).pc = "idle"
      BY <2>2, <2>3, <3>1, TurnWhat DEF Shape
    <3>2. CASE Turn(rest).pc # "idle"
      BY <2>2, <2>3, <3>2, TurnWhat
    <3>. QED BY <3>1, <3>2
  <2>8. /\ Untouched(n) \subseteq Untouched(r) \ {f}
        /\ ~SettingAside(n) /\ n.actor # "person"
        /\ n.pc # "idle" => n.actor = r.actor
    BY <2>2, <2>3, <2>5, <2>6, <2>7
  <2>. HIDE DEF n
  <2>. QED BY <2>3, <2>4, <2>8 DEF Narrows, f
<1>4. CASE FindRequest(p)
  <2>1. PICK c \in {"insert", "redraft"} : Set(p, [r EXCEPT !.pc = c])
    BY <1>4 DEF FindRequest
  <2>. DEFINE n == [r EXCEPT !.pc = c]
  <2>2. /\ n.pc = c /\ n.actor = r.actor /\ n.mine = r.mine
        /\ n.todo = r.todo /\ n.job = r.job
    BY <1>1 DEF Handler
  <2>3. Set(p, n)
    BY <2>1
  <2>. HIDE DEF n
  <2>4. Narrows(p)
    BY <2>2, <2>3, KeptNarrows
  <2>5. ~Carry(p)
    BY <1>4 DEF Carry, FindRequest
  <2>. QED BY <1>2, <2>2, <2>3, <2>4, <2>5 DEF SettingAside
<1>5. CASE WriteDecisionRequest(p)
  <2>1. r.pc \in {"insert", "redraft"} /\ Set(p, NextAsk(r))
    BY <1>5 DEF WriteDecisionRequest
  <2>2. /\ NextAsk(r).pc \in {"idle", "ask"} /\ r.todo = {}
        /\ NextAsk(r).pc = "idle" => NextAsk(r) = Idle
        /\ NextAsk(r).pc = "ask" =>
             NextAsk(r).todo = {} /\ NextAsk(r).actor = r.actor
    BY <1>1, <2>1, NextAskWhat
  <2>3. r.actor = "supervisor"
    BY <1>1, <2>1 DEF Shape, Asking
  <2>4. /\ proc'[p] = NextAsk(r)
        /\ \A q \in Proc \ {p} : proc'[q] = proc[q]
    BY <1>2, <2>1
  <2>5. ~Carry(p)
    BY <2>1 DEF Carry
  <2>. QED BY <2>2, <2>3, <2>4, <2>5 DEF Narrows, Untouched, SettingAside, Idle
<1>. QED BY <1>3, <1>4, <1>5

LEMMA ApplyNarrows ==
  ASSUME Typed, NEW p \in Proc,
         \/ ReadAnomaly(p) \/ MoveAnomaly(p) \/ InsertDriver(p) \/ Mark(p)
         \/ Refuse(p) \/ Close(p) \/ PostRequest(p) \/ JudgeRequest(p)
  PROVE  /\ Narrows(p)
         /\ SettingAside(proc'[p]) => Mark(p)
         /\ Mark(p) => proc'[p].pc = "rivals" /\ proc'[p].job = proc[p].job
<1>. DEFINE r == proc[p]
<1>0. Shaped
  BY TypedParts
<1>1. r \in Handler /\ Shape(r)
  BY <1>0, ShapedHandler
<1>2. ASSUME NEW x, Set(p, x) PROVE proc'[p] = x
  BY <1>0, <1>2 DEF Set, Shaped
<1>a. Idle.pc = "idle"
  BY DEF Idle
<1>3. CASE ReadAnomaly(p)
  <2>1. Set(p, Idle) \/ \E m : Set(p, [r EXCEPT !.pc = "move", !.move = m])
    BY <1>3 DEF ReadAnomaly, Abort, Spend
  <2>2. ~Mark(p)
    BY <1>3 DEF ReadAnomaly, Mark
  <2>3. CASE Set(p, Idle)
    BY <1>2, <1>a, <2>2, <2>3, KeptNarrows DEF SettingAside
  <2>4. ASSUME NEW m, Set(p, [r EXCEPT !.pc = "move", !.move = m])
        PROVE  Narrows(p) /\ ~SettingAside(proc'[p])
    <3>. DEFINE n == [r EXCEPT !.pc = "move", !.move = m]
    <3>1. /\ n.pc = "move" /\ n.actor = r.actor /\ n.mine = r.mine
          /\ n.todo = r.todo /\ n.job = r.job
      BY <1>1 DEF Handler
    <3>2. Set(p, n)
      BY <2>4
    <3>. HIDE DEF n
    <3>. QED BY <1>2, <3>1, <3>2, KeptNarrows DEF SettingAside
  <2>. QED BY <2>1, <2>2, <2>3, <2>4
<1>4. CASE MoveAnomaly(p)
  <2>1. Set(p, Idle) \/ Set(p, [r EXCEPT !.pc = "mark", !.move = NoMove])
    BY <1>4 DEF MoveAnomaly, Spend
  <2>2. ~Mark(p)
    BY <1>4 DEF MoveAnomaly, Mark
  <2>3. CASE Set(p, Idle)
    BY <1>2, <1>a, <2>2, <2>3, KeptNarrows DEF SettingAside
  <2>4. CASE Set(p, [r EXCEPT !.pc = "mark", !.move = NoMove])
    <3>. DEFINE n == [r EXCEPT !.pc = "mark", !.move = NoMove]
    <3>1. /\ n.pc = "mark" /\ n.actor = r.actor /\ n.mine = r.mine
          /\ n.todo = r.todo /\ n.job = r.job
      BY <1>1 DEF Handler
    <3>2. Set(p, n)
      BY <2>4
    <3>. HIDE DEF n
    <3>. QED BY <1>2, <2>2, <3>1, <3>2, KeptNarrows DEF SettingAside
  <2>. QED BY <2>1, <2>3, <2>4
<1>5. CASE InsertDriver(p) \/ Mark(p) \/ Refuse(p)
  <2>1. PICK c \in {"mark", "rivals", "close"} :
          Set(p, [r EXCEPT !.pc = c]) /\ (c = "rivals" <=> Mark(p))
    <3>1. CASE InsertDriver(p)
      BY <3>1 DEF InsertDriver, Mark
    <3>2. CASE Mark(p)
      BY <3>2 DEF Mark
    <3>3. CASE Refuse(p)
      BY <3>3 DEF Refuse, Mark
    <3>. QED BY <1>5, <3>1, <3>2, <3>3
  <2>. DEFINE n == [r EXCEPT !.pc = c]
  <2>2. /\ n.pc = c /\ n.actor = r.actor /\ n.mine = r.mine
        /\ n.todo = r.todo /\ n.job = r.job
    BY <1>1 DEF Handler
  <2>3. Set(p, n)
    BY <2>1
  <2>. HIDE DEF n
  <2>. QED BY <1>2, <2>1, <2>2, <2>3, KeptNarrows DEF SettingAside
<1>6. CASE Close(p) \/ PostRequest(p) \/ JudgeRequest(p)
  <2>1. Set(p, Idle) \/ Set(p, [r EXCEPT !.pc = "post"])
    BY <1>6 DEF Close, PostRequest, JudgeRequest, Spend
  <2>2. ~Mark(p)
    BY <1>6 DEF Close, PostRequest, JudgeRequest, Mark
  <2>3. CASE Set(p, Idle)
    BY <1>2, <1>a, <2>2, <2>3, KeptNarrows DEF SettingAside
  <2>4. CASE Set(p, [r EXCEPT !.pc = "post"])
    <3>. DEFINE n == [r EXCEPT !.pc = "post"]
    <3>1. /\ n.pc = "post" /\ n.actor = r.actor /\ n.mine = r.mine
          /\ n.todo = r.todo /\ n.job = r.job
      BY <1>1 DEF Handler
    <3>2. Set(p, n)
      BY <2>4
    <3>. HIDE DEF n
    <3>. QED BY <1>2, <2>2, <3>1, <3>2, KeptNarrows DEF SettingAside
  <2>. QED BY <2>1, <2>3, <2>4
<1>. QED BY <1>3, <1>4, <1>5, <1>6

LEMMA SetAsideNarrows ==
  ASSUME Typed, NEW p \in Proc, ReadRivals(p) \/ MarkNotChosen(p)
  PROVE  Narrows(p)
<1>. DEFINE r == proc[p]
<1>0. Shaped
  BY TypedParts
<1>1. r \in Handler /\ Shape(r) /\ r.pc \in {"rivals", "unchosen"}
  BY <1>0, ShapedHandler DEF ReadRivals, MarkNotChosen
<1>2. r.job \in Option
  BY <1>1 DEF Shape, OnAJob
<1>3. \/ Set(p, Applied(r))
      \/ \E S : Set(p, [r EXCEPT !.pc = "unchosen", !.left = S])
      \/ r.pc = "unchosen" /\ \E S : Set(p, [r EXCEPT !.left = S])
  BY DEF ReadRivals, MarkNotChosen
<1>4. CASE Set(p, Applied(r))
  BY <1>2, <1>4, AppliedNarrows
<1>5. ASSUME NEW S, Set(p, [r EXCEPT !.pc = "unchosen", !.left = S])
      PROVE  Narrows(p)
  <2>. DEFINE n == [r EXCEPT !.pc = "unchosen", !.left = S]
  <2>1. /\ n.actor = r.actor /\ n.mine = r.mine /\ n.todo = r.todo
        /\ n.job = r.job /\ n.pc # "carry"
    BY <1>1 DEF Handler
  <2>2. Set(p, n)
    BY <1>5
  <2>. HIDE DEF n
  <2>. QED BY <2>1, <2>2, KeptNarrows
<1>6. ASSUME r.pc = "unchosen", NEW S, Set(p, [r EXCEPT !.left = S])
      PROVE  Narrows(p)
  <2>. DEFINE n == [r EXCEPT !.left = S]
  <2>1. /\ n.actor = r.actor /\ n.mine = r.mine /\ n.todo = r.todo
        /\ n.job = r.job /\ n.pc # "carry"
    BY <1>1, <1>6 DEF Handler
  <2>2. Set(p, n)
    BY <1>6
  <2>. HIDE DEF n
  <2>. QED BY <2>1, <2>2, KeptNarrows
<1>. QED BY <1>3, <1>4, <1>5, <1>6

\* A step that narrows a handler, and decides nothing a pass has still to come
\* to, leaves the pass alone and the people off its options.
LEMMA NarrowingKeeps ==
  ASSUME Typed, OnePass, PassAndPeople, NEW p \in Proc, Step(p), Narrows(p),
         \A o \in Option :
           \/ opt'[o] \in {opt[o], "not_chosen"}
           \/ \A q \in Proc : proc'[q].actor = "supervisor" =>
                                o \notin Untouched(proc'[q])
  PROVE  OnePass' /\ PassAndPeople'
<1>0. Shaped
  BY TypedParts
<1>1. ASSUME NEW q \in Proc
      PROVE  /\ proc'[q].actor = "supervisor" =>
                  /\ proc[q].actor = "supervisor"
                  /\ Untouched(proc'[q]) \subseteq Untouched(proc[q])
             /\ proc'[q].actor = "person" /\ proc'[q].job \in Option =>
                  proc[q].actor = "person" /\ proc'[q].job = proc[q].job
             /\ proc'[q].pc # "idle" => proc'[q].actor # "nobody"
  <2>1. CASE q = p
    <3>1. proc[p].pc # "idle"
      BY DEF Step, Carry, FindRequest, WriteDecisionRequest, ReadAnomaly,
             MoveAnomaly, InsertDriver, Mark, ReadRivals, MarkNotChosen,
             Refuse, Close, PostRequest, JudgeRequest
    <3>. QED BY <2>1, <3>1 DEF Narrows, PassAndPeople
  <2>2. CASE q # p
    BY <2>2 DEF Narrows, PassAndPeople
  <2>. QED BY <2>1, <2>2
<1>2. OnePass'
  BY <1>1 DEF OnePass
<1>3. ASSUME NEW q \in Proc, proc'[q].actor = "supervisor",
             NEW o \in Untouched(proc'[q])
      PROVE  opt'[o] \in {"open", "not_chosen"}
  <2>1. proc[q].actor = "supervisor" /\ o \in Untouched(proc[q])
    BY <1>1, <1>3
  <2>2. o \in Option
    BY <1>0, <2>1, ShapedHandler, HandlerFields DEF Untouched
  <2>3. opt[o] \in {"open", "not_chosen"}
    BY <2>1 DEF PassAndPeople
  <2>. QED BY <1>3, <2>2, <2>3
<1>4. ASSUME NEW q \in Proc, proc'[q].actor = "person", proc'[q].job \in Option
      PROVE  /\ opt'[proc'[q].job] # "open"
             /\ \A x \in Proc : proc'[x].actor = "supervisor" =>
                  proc'[q].job \notin Untouched(proc'[x])
  <2>1. proc[q].actor = "person" /\ proc'[q].job = proc[q].job
    BY <1>1, <1>4
  <2>2. /\ opt[proc[q].job] # "open"
        /\ \A x \in Proc : proc[x].actor = "supervisor" =>
             proc[q].job \notin Untouched(proc[x])
    BY <1>4, <2>1 DEF PassAndPeople
  <2>3. opt'[proc[q].job] # "open"
    BY <1>4, <2>1, <2>2, OpenIsLeftOnce
  <2>. QED BY <1>1, <2>1, <2>2, <2>3
<1>. QED BY <1>1, <1>2, <1>3, <1>4 DEF PassAndPeople

LEMMA SecureNext ==
  ASSUME \A q \in Proc : proc'[q].pc = "unchosen" =>
           \A x \in proc'[q].left : Kin(proc'[q].job, x),
         \A o \in Option :
           \/ opt'[o] = "not_chosen"
           \/ \E q \in Proc : SettingAside(proc'[q]) /\ Kin(proc'[q].job, o)
           => \E w \in Option :
                /\ Kin(w, o) /\ opt'[w] \in {"applied", "refused"}
                /\ \A q \in Proc : proc'[q].pc = "unchosen" =>
                                     w \notin proc'[q].left
  PROVE  SomebodyIsSecure'
<1>1. \A o \in Option : Beaten(o)' =>
        \/ opt'[o] = "not_chosen"
        \/ \E q \in Proc : SettingAside(proc'[q]) /\ Kin(proc'[q].job, o)
  BY DEF Beaten, SettingAside, Kin, Topic
<1>. QED BY <1>1 DEF SomebodyIsSecure, Secure, Kin, Topic

\* A step that sets nothing aside, and takes no decision back, leaves whoever
\* was secure secure.
LEMMA QuietKeepsSecure ==
  ASSUME SomebodyIsSecure, NEW p \in Proc,
         \A q \in Proc \ {p} : proc'[q] = proc[q],
         ~SettingAside(proc'[p]),
         \A o \in Option :
           /\ opt'[o] = "not_chosen" => opt[o] = "not_chosen"
           /\ opt[o] \in {"applied", "refused"} =>
                opt'[o] \in {"applied", "refused"}
  PROVE  SomebodyIsSecure'
<1>1. \A q \in Proc : SettingAside(proc'[q]) => proc'[q] = proc[q]
  OBVIOUS
<1>2. \A q \in Proc : proc'[q].pc = "unchosen" => proc'[q] = proc[q]
  BY <1>1 DEF SettingAside
<1>3. \A q \in Proc : proc'[q].pc = "unchosen" =>
        \A x \in proc'[q].left : Kin(proc'[q].job, x)
  BY <1>2 DEF SomebodyIsSecure
<1>4. ASSUME NEW o \in Option,
             \/ opt'[o] = "not_chosen"
             \/ \E q \in Proc : SettingAside(proc'[q]) /\ Kin(proc'[q].job, o)
      PROVE  \E w \in Option :
               /\ Kin(w, o) /\ opt'[w] \in {"applied", "refused"}
               /\ \A q \in Proc : proc'[q].pc = "unchosen" =>
                                    w \notin proc'[q].left
  <2>1. Beaten(o)
    BY <1>1, <1>4 DEF Beaten
  <2>2. PICK w \in Option : Kin(w, o) /\ Secure(w)
    BY <2>1 DEF SomebodyIsSecure
  <2>. QED BY <1>2, <2>2 DEF Secure
<1>. QED BY <1>3, <1>4, SecureNext

\* An option that is applied is on nobody's list, or it was beaten before.
LEMMA MarkSecures ==
  ASSUME Typed, SomebodyIsSecure, NEW p \in Proc, Mark(p), Narrows(p),
         proc'[p].pc = "rivals", proc'[p].job = proc[p].job
  PROVE  SomebodyIsSecure'
<1>. DEFINE j == proc[p].job
<1>0. TypedBoard /\ Shaped
  BY TypedParts
<1>1. /\ opt \in [Option -> OptionStates] /\ j \in Option
      /\ opt' = [opt EXCEPT ![j] = "applied"]
  <2>1. Shape(proc[p]) /\ proc[p].pc = "mark"
    BY <1>0, ShapedHandler DEF Mark
  <2>. QED BY <1>0, <2>1 DEF TypedBoard, Mark, Shape, OnAJob, Acting
<1>2. \A q \in Proc \ {p} : proc'[q] = proc[q]
  BY DEF Narrows
<1>3. \A q \in Proc : proc'[q].pc = "unchosen" => proc'[q] = proc[q]
  BY <1>2
<1>4. \A q \in Proc : proc'[q].pc = "unchosen" =>
        \A x \in proc'[q].left : Kin(proc'[q].job, x)
  BY <1>3 DEF SomebodyIsSecure
<1>5. \A o \in Option : opt[o] \in {"applied", "refused"} =>
                          opt'[o] \in {"applied", "refused"}
  BY <1>1
<1>6. ASSUME NEW o \in Option,
             \/ opt'[o] = "not_chosen"
             \/ \E q \in Proc : SettingAside(proc'[q]) /\ Kin(proc'[q].job, o)
      PROVE  \E w \in Option :
               /\ Kin(w, o) /\ opt'[w] \in {"applied", "refused"}
               /\ \A q \in Proc : proc'[q].pc = "unchosen" =>
                                    w \notin proc'[q].left
  <2>1. CASE Beaten(o)
    <3>1. PICK w \in Option : Kin(w, o) /\ Secure(w)
      BY <2>1 DEF SomebodyIsSecure
    <3>. QED BY <1>3, <1>5, <3>1 DEF Secure
  <2>2. CASE ~Beaten(o)
    <3>1. opt'[o] # "not_chosen"
      BY <1>1, <2>2 DEF Beaten
    <3>2. Kin(j, o)
      <4>1. PICK q \in Proc : SettingAside(proc'[q]) /\ Kin(proc'[q].job, o)
        BY <1>6, <3>1
      <4>2. q = p
        BY <1>2, <2>2, <4>1 DEF Beaten
      <4>. QED BY <4>1, <4>2
    <3>3. ASSUME NEW q \in Proc, proc'[q].pc = "unchosen" PROVE j \notin proc'[q].left
      <4>1. SUFFICES ASSUME j \in proc'[q].left PROVE FALSE
        OBVIOUS
      <4>2. proc'[q] = proc[q] /\ Kin(proc[q].job, j)
        BY <1>3, <1>4, <3>3, <4>1
      <4>3. Kin(proc[q].job, o)
        BY <3>2, <4>2, KinIsEquivalence
      <4>. QED BY <2>2, <3>3, <4>2, <4>3 DEF Beaten, SettingAside
    <3>4. opt'[j] = "applied"
      BY <1>1
    <3>. QED BY <1>1, <3>2, <3>3, <3>4
  <2>. QED BY <2>1, <2>2
<1>. QED BY <1>4, <1>6, SecureNext

\* The rivals read are live, so whoever is secure is none of them.
LEMMA ReadSecures ==
  ASSUME Typed, SomebodyIsSecure, NEW p \in Proc, ReadRivals(p)
  PROVE  SomebodyIsSecure'
<1>. DEFINE r == proc[p]
            S == LiveRivalsOf(r.job)
            n == [r EXCEPT !.pc = "unchosen", !.left = S]
<1>0. TypedBoard /\ Shaped
  BY TypedParts
<1>1. /\ r \in Handler /\ Shape(r) /\ r.pc = "rivals" /\ r.job \in Option
      /\ opt' = opt
  BY <1>0, ShapedHandler DEF ReadRivals, boardVars, Shape, OnAJob
<1>2. Set(p, Applied(r)) \/ Set(p, n)
  BY DEF ReadRivals
<1>3. ASSUME NEW x, Set(p, x)
      PROVE  proc'[p] = x /\ \A q \in Proc \ {p} : proc'[q] = proc[q]
  BY <1>0, <1>3 DEF Set, Shaped
<1>4. CASE Set(p, Applied(r))
  <2>1. ~SettingAside(Applied(r))
    BY <1>1, AppliedShrinks DEF Shape
  <2>2. proc'[p] = Applied(r) /\ \A q \in Proc \ {p} : proc'[q] = proc[q]
    BY <1>3, <1>4
  <2>3. ~SettingAside(proc'[p])
    BY <2>1, <2>2
  <2>. QED BY <1>1, <2>2, <2>3, QuietKeepsSecure
<1>5. CASE Set(p, n)
  <2>1. n.pc = "unchosen" /\ n.left = S /\ n.job = r.job
    BY <1>1 DEF Handler
  <2>2. proc'[p] = n /\ \A q \in Proc \ {p} : proc'[q] = proc[q]
    BY <1>3, <1>5
  <2>3. \A x \in S : x \in Option /\ Kin(r.job, x) /\ opt[x] \in Live
    BY DEF LiveRivalsOf, Kin
  <2>. HIDE DEF n, S
  <2>4. ASSUME NEW q \in Proc, proc'[q].pc = "unchosen"
        PROVE  \A x \in proc'[q].left : Kin(proc'[q].job, x)
    BY <2>1, <2>2, <2>3, <2>4 DEF SomebodyIsSecure
  <2>5. ASSUME NEW o \in Option,
               \/ opt'[o] = "not_chosen"
               \/ \E q \in Proc : SettingAside(proc'[q]) /\ Kin(proc'[q].job, o)
        PROVE  \E w \in Option :
                 /\ Kin(w, o) /\ opt'[w] \in {"applied", "refused"}
                 /\ \A q \in Proc : proc'[q].pc = "unchosen" =>
                                      w \notin proc'[q].left
    <3>1. Beaten(o)
      BY <1>1, <2>1, <2>2, <2>5 DEF Beaten, SettingAside
    <3>2. PICK w \in Option : Kin(w, o) /\ Secure(w)
      BY <3>1 DEF SomebodyIsSecure
    <3>3. w \notin S
      BY <2>3, <3>2 DEF Secure, Live
    <3>. QED BY <1>1, <2>1, <2>2, <3>2, <3>3 DEF Secure
  <2>. QED BY <2>4, <2>5, SecureNext
<1>. QED BY <1>2, <1>4, <1>5

\* Setting one of the list aside beats nobody who was not beaten before.
LEMMA NotChosenSecures ==
  ASSUME Typed, SomebodyIsSecure, NEW p \in Proc, MarkNotChosen(p)
  PROVE  SomebodyIsSecure'
<1>. DEFINE r == proc[p]
            f == First(r.left)
            n == [r EXCEPT !.left = @ \ {f}]
<1>0. TypedBoard /\ Shaped
  BY TypedParts
<1>1. /\ r \in Handler /\ Shape(r) /\ r.pc = "unchosen" /\ r.job \in Option
      /\ opt' = [opt EXCEPT ![f] = "not_chosen"]
      /\ opt \in [Option -> OptionStates]
  BY <1>0, ShapedHandler DEF MarkNotChosen, Shape, OnAJob, TypedBoard
<1>2. f \in r.left /\ f \in Option
  <2>1. r.left \subseteq Option /\ r.left # {}
    BY <1>1, HandlerFields DEF Shape
  <2>. QED BY <2>1, FirstIsOneOf
<1>3. Set(p, Applied(r)) \/ Set(p, n)
  BY DEF MarkNotChosen
<1>4. ASSUME NEW x, Set(p, x)
      PROVE  proc'[p] = x /\ \A q \in Proc \ {p} : proc'[q] = proc[q]
  BY <1>0, <1>4 DEF Set, Shaped
<1>5. n.pc = "unchosen" /\ n.left \subseteq r.left /\ n.job = r.job
  BY <1>1 DEF Handler
<1>6. ~SettingAside(Applied(r))
  BY <1>1, AppliedShrinks DEF Shape
<1>. HIDE DEF n, f
<1>7. /\ \A q \in Proc \ {p} : proc'[q] = proc[q]
      /\ SettingAside(proc'[p]) =>
           proc'[p].left \subseteq r.left /\ proc'[p].job = r.job
  BY <1>3, <1>4, <1>5, <1>6
<1>8. ASSUME NEW q \in Proc, proc'[q].pc = "unchosen"
      PROVE  /\ proc[q].pc = "unchosen" /\ proc'[q].left \subseteq proc[q].left
             /\ proc'[q].job = proc[q].job
  BY <1>1, <1>7, <1>8 DEF SettingAside
<1>9. ASSUME NEW q \in Proc, proc'[q].pc = "unchosen"
      PROVE  \A x \in proc'[q].left : Kin(proc'[q].job, x)
  BY <1>8, <1>9 DEF SomebodyIsSecure
<1>10. ASSUME NEW o \in Option,
              \/ opt'[o] = "not_chosen"
              \/ \E q \in Proc : SettingAside(proc'[q]) /\ Kin(proc'[q].job, o)
       PROVE  \E w \in Option :
                /\ Kin(w, o) /\ opt'[w] \in {"applied", "refused"}
                /\ \A q \in Proc : proc'[q].pc = "unchosen" =>
                                     w \notin proc'[q].left
  <2>1. Beaten(o)
    <3>1. CASE o = f
      BY <1>1, <1>2, <3>1 DEF Beaten, SettingAside, SomebodyIsSecure
    <3>2. CASE o # f /\ opt'[o] = "not_chosen"
      BY <1>1, <3>2 DEF Beaten
    <3>3. ASSUME NEW q \in Proc, SettingAside(proc'[q]), Kin(proc'[q].job, o)
          PROVE  Beaten(o)
      <4>1. SettingAside(proc[q]) /\ proc'[q].job = proc[q].job
        BY <1>1, <1>7, <3>3 DEF SettingAside
      <4>. QED BY <3>3, <4>1 DEF Beaten
    <3>. QED BY <1>10, <3>1, <3>2, <3>3
  <2>2. PICK w \in Option : Kin(w, o) /\ Secure(w)
    BY <2>1 DEF SomebodyIsSecure
  <2>3. w \notin r.left
    BY <1>1, <2>2 DEF Secure
  <2>4. opt'[w] = opt[w]
    BY <1>1, <1>2, <2>3
  <2>. QED BY <1>8, <2>2, <2>4 DEF Secure
<1>. QED BY <1>9, <1>10, SecureNext

\* Whoever writes the option of its own job writes none a pass has yet to come to.
LEMMA JobIsTouched ==
  ASSUME Typed, OnePass, PassAndPeople, NEW p \in Proc, Narrows(p),
         proc[p].pc \in {"mark", "refuse"},
         NEW q \in Proc, proc'[q].actor = "supervisor"
  PROVE  proc[p].job \notin Untouched(proc'[q])
<1>. DEFINE r == proc[p]
<1>0. Shaped
  BY TypedParts
<1>1. r \in Handler /\ Shape(r) /\ r.job \in Option
  BY <1>0, ShapedHandler DEF Shape, OnAJob, Acting
<1>2. /\ proc[q].actor = "supervisor"
      /\ Untouched(proc'[q]) \subseteq Untouched(proc[q])
  <2>1. CASE q = p
    BY <2>1 DEF Narrows
  <2>2. CASE q # p
    BY <2>2 DEF Narrows
  <2>. QED BY <2>1, <2>2
<1>3. CASE r.actor = "supervisor"
  <2>1. q = p
    BY <1>2, <1>3 DEF OnePass
  <2>2. Of[r.job] \notin r.todo
    BY <1>1, <1>3 DEF Shape, Passing, Acting, Asking
  <2>. QED BY <1>2, <2>1, <2>2 DEF Untouched
<1>4. CASE r.actor = "person"
  BY <1>1, <1>2, <1>4 DEF PassAndPeople
<1>5. r.actor # "nobody"
  BY DEF PassAndPeople
<1>. QED BY <1>1, <1>3, <1>4, <1>5, HandlerFields

LEMMA FoughtStep ==
  ASSUME Typed, OnePass, PassAndPeople, SomebodyIsSecure,
         NEW p \in Proc, Step(p)
  PROVE  OnePass' /\ PassAndPeople' /\ SomebodyIsSecure'
<1>. DEFINE r == proc[p]
            Writes == Carry(p) \/ Mark(p) \/ MarkNotChosen(p) \/ Refuse(p)
<1>0. TypedBoard /\ Shaped
  BY TypedParts
<1>1. r \in Handler /\ Shape(r) /\ opt \in [Option -> OptionStates]
  BY <1>0, ShapedHandler DEF TypedBoard
<1>2. Narrows(p) /\ \A q \in Proc \ {p} : proc'[q] = proc[q]
  <2>1. Narrows(p)
    BY PassNarrows, ApplyNarrows, SetAsideNarrows DEF Step
  <2>. QED BY <2>1 DEF Narrows
<1>3. CASE Carry(p)
  <2>. DEFINE f == First(r.left)
  <2>1. opt' = [opt EXCEPT ![f] = "carried"] /\ r.pc = "carry"
    BY <1>3 DEF Carry
  <2>2. /\ f \notin Untouched(proc'[p]) /\ ~SettingAside(proc'[p])
        /\ r.actor = "supervisor"
    BY <1>1, <1>3, <2>1, PassNarrows DEF Shape
  <2>3. f \in r.left /\ f \in Option /\ r.left \subseteq r.mine
    <3>1. r.left \subseteq Option /\ r.left # {} /\ r.left \subseteq r.mine
      BY <1>1, <2>1, HandlerFields DEF Shape
    <3>. QED BY <3>1, FirstIsOneOf
  <2>. HIDE DEF f
  <2>4. opt[f] \in {"open", "not_chosen"}
    BY <2>1, <2>2, <2>3 DEF Untouched, PassAndPeople
  <2>5. ASSUME NEW q \in Proc, proc'[q].actor = "supervisor"
        PROVE  f \notin Untouched(proc'[q])
    <3>1. proc[q].actor = "supervisor"
      BY <1>2, <2>2, <2>5
    <3>2. q = p
      BY <2>2, <3>1 DEF OnePass
    <3>. QED BY <2>2, <3>2
  <2>6. \A o \in Option : o # f => opt'[o] = opt[o]
    BY <2>1
  <2>7. OnePass' /\ PassAndPeople'
    BY <1>2, <2>5, <2>6, NarrowingKeeps
  <2>8. opt'[f] = "carried"
    BY <1>1, <2>1, <2>3
  <2>9. \A o \in Option :
          /\ opt'[o] = "not_chosen" => opt[o] = "not_chosen"
          /\ opt[o] \in {"applied", "refused"} =>
               opt'[o] \in {"applied", "refused"}
    BY <2>4, <2>6, <2>8
  <2>10. SomebodyIsSecure'
    BY <1>2, <2>2, <2>9, QuietKeepsSecure
  <2>. QED BY <2>7, <2>10
<1>4. CASE Mark(p) \/ Refuse(p)
  <2>. DEFINE j == r.job
  <2>1. PICK s \in {"applied", "refused"} : opt' = [opt EXCEPT ![j] = s]
    BY <1>4 DEF Mark, Refuse
  <2>2. r.pc \in {"mark", "refuse"}
    BY <1>4 DEF Mark, Refuse
  <2>3. \A q \in Proc : proc'[q].actor = "supervisor" =>
                          j \notin Untouched(proc'[q])
    BY <1>2, <2>2, JobIsTouched
  <2>4. \A o \in Option : /\ o # j => opt'[o] = opt[o]
                          /\ o = j => opt'[o] = s
    BY <1>1, <2>1
  <2>. HIDE DEF j
  <2>5. OnePass' /\ PassAndPeople'
    BY <1>2, <2>3, <2>4, NarrowingKeeps
  <2>6. CASE Mark(p)
    BY <1>2, <2>5, <2>6, ApplyNarrows, MarkSecures
  <2>7. CASE Refuse(p)
    <3>1. ~SettingAside(proc'[p])
      <4>1. ~Mark(p)
        BY <2>7 DEF Refuse, Mark
      <4>. QED BY <2>7, <4>1, ApplyNarrows
    <3>2. \A o \in Option :
            /\ opt'[o] = "not_chosen" => opt[o] = "not_chosen"
            /\ opt[o] \in {"applied", "refused"} =>
                 opt'[o] \in {"applied", "refused"}
      BY <2>4
    <3>. QED BY <1>2, <2>5, <3>1, <3>2, QuietKeepsSecure
  <2>. QED BY <1>4, <2>6, <2>7
<1>5. CASE MarkNotChosen(p)
  <2>1. opt' = [opt EXCEPT ![First(r.left)] = "not_chosen"]
    BY <1>5 DEF MarkNotChosen
  <2>2. \A o \in Option : opt'[o] \in {opt[o], "not_chosen"}
    BY <1>1, <2>1
  <2>. QED BY <1>2, <1>5, <2>2, NarrowingKeeps, NotChosenSecures
<1>6. CASE ~Writes
  <2>1. opt' = opt
    BY <1>6 DEF Step, FindRequest, WriteDecisionRequest, ReadAnomaly,
                MoveAnomaly, InsertDriver, ReadRivals, Close, PostRequest, JudgeRequest,
                boardVars
  <2>2. OnePass' /\ PassAndPeople'
    BY <1>2, <2>1, NarrowingKeeps
  <2>3. CASE ReadRivals(p)
    BY <2>2, <2>3, ReadSecures
  <2>4. CASE ~ReadRivals(p)
    <3>1. ~SettingAside(proc'[p])
      BY <1>6, <2>4, PassNarrows, ApplyNarrows DEF Step
    <3>. QED BY <1>2, <2>1, <2>2, <3>1, QuietKeepsSecure
  <2>. QED BY <2>3, <2>4
<1>. QED BY <1>3, <1>4, <1>5, <1>6

\* What starts or dies without collecting anything.
LEMMA OthersStart ==
  ASSUME OnePass, PassAndPeople, SomebodyIsSecure, NEW p \in Proc,
         opt' = opt, \A q \in Proc \ {p} : proc'[q] = proc[q],
         NEW n, proc'[p] = n, n.actor # "supervisor", ~SettingAside(n),
         n.pc # "idle" => n.actor # "nobody",
         n.actor = "person" /\ n.job \in Option => opt[n.job] = "carried"
  PROVE  OnePass' /\ PassAndPeople' /\ SomebodyIsSecure'
<1>1. \A q \in Proc : proc'[q].actor = "supervisor" => proc'[q] = proc[q]
  OBVIOUS
<1>2. OnePass'
  BY <1>1 DEF OnePass
<1>3. ASSUME NEW q \in Proc, proc'[q].actor = "supervisor",
             NEW o \in Untouched(proc'[q])
      PROVE  opt'[o] \in {"open", "not_chosen"}
  BY <1>1, <1>3 DEF PassAndPeople
<1>4. ASSUME NEW q \in Proc, proc'[q].actor = "person", proc'[q].job \in Option
      PROVE  /\ opt'[proc'[q].job] # "open"
             /\ \A x \in Proc : proc'[x].actor = "supervisor" =>
                  proc'[q].job \notin Untouched(proc'[x])
  <2>1. CASE q = p
    BY <1>1, <1>4, <2>1 DEF PassAndPeople
  <2>2. CASE q # p
    BY <1>1, <1>4, <2>2 DEF PassAndPeople
  <2>. QED BY <2>1, <2>2
<1>5. ASSUME NEW q \in Proc, proc'[q].pc # "idle" PROVE proc'[q].actor # "nobody"
  BY <1>5 DEF PassAndPeople
<1>6. PassAndPeople'
  BY <1>3, <1>4, <1>5 DEF PassAndPeople
<1>7. ~SettingAside(proc'[p])
  OBVIOUS
<1>8. SomebodyIsSecure'
  BY <1>7, QuietKeepsSecure
<1>. QED BY <1>2, <1>6, <1>8

\* A pass that starts alone collects what is open, and nobody answers about that.
LEMMA PassStarts ==
  ASSUME Typed, OnePass, PassAndPeople, SomebodyIsSecure,
         NEW p \in Proc, StartPass(p)
  PROVE  lapped' \/ (OnePass' /\ PassAndPeople' /\ SomebodyIsSecure')
<1>. DEFINE M == {o \in Option : Collectable(o)}
            T == {Of[o] : o \in M}
            s == [Idle EXCEPT !.actor = "supervisor", !.mine = M, !.todo = T]
            n == Turn(s)
<1>. SUFFICES ASSUME ~lapped'
              PROVE  OnePass' /\ PassAndPeople' /\ SomebodyIsSecure'
  OBVIOUS
<1>0. TypedBoard /\ Shaped
  BY TypedParts
<1>1. opt' = opt /\ \A q \in Proc \ {p} : proc'[q] = proc[q]
  BY EdgesWriteNoOption
<1>2. \A q \in Proc : proc[q].actor # "supervisor"
  BY DEF StartPass
<1>3. Set(p, n)
  BY DEF StartPass
<1>4. \A o \in M : opt[o] = "open"
  BY DEF Collectable
<1>5. T \subseteq Deliverable /\ M \subseteq Option /\ T = {Of[o] : o \in M}
  BY MovesWhat
<1>. HIDE DEF M, T
<1>6. s \in Handler /\ s.actor = "supervisor" /\ s.mine = M /\ s.todo = T
  BY <1>5, IdleHandler DEF Handler
<1>. HIDE DEF s
<1>7. /\ Untouched(n) \subseteq M /\ ~SettingAside(n)
      /\ n.pc # "idle" => n.actor = "supervisor"
      /\ n.pc = "idle" => n.actor = "nobody"
  <2>1. Ahead(s)
    BY <1>5, <1>6 DEF Ahead
  <2>2. Untouched(s) \subseteq M
    BY <1>6 DEF Untouched
  <2>3. Untouched(n) \subseteq Untouched(s) /\ ~SettingAside(n)
    BY <1>6, <2>1, TurnShrinks
  <2>4. Shape(n) /\ (n.pc # "idle" => n.actor = "supervisor")
    BY <1>6, <2>1, TurnWhat
  <2>5. n.pc = "idle" => n.actor = "nobody"
    BY <2>4 DEF Shape
  <2>. QED BY <2>2, <2>3, <2>4, <2>5
<1>8. proc'[p] = n
  BY <1>0, <1>3 DEF Set, Shaped
<1>. HIDE DEF n
<1>9. \A q \in Proc : proc'[q].actor = "supervisor" =>
        q = p /\ Untouched(proc'[q]) \subseteq M
  BY <1>1, <1>2, <1>7, <1>8
<1>10. OnePass'
  BY <1>9 DEF OnePass
<1>11. ASSUME NEW q \in Proc
       PROVE  /\ proc'[q].pc # "idle" => proc'[q].actor # "nobody"
              /\ proc'[q].actor = "person" => proc'[q] = proc[q]
  <2>1. CASE q = p
    BY <1>7, <1>8, <2>1
  <2>2. CASE q # p
    BY <1>1, <2>2 DEF PassAndPeople
  <2>. QED BY <2>1, <2>2
<1>12. ASSUME NEW q \in Proc, proc'[q].actor = "person", proc'[q].job \in Option
       PROVE  /\ opt'[proc'[q].job] # "open"
              /\ \A x \in Proc : proc'[x].actor = "supervisor" =>
                   proc'[q].job \notin Untouched(proc'[x])
  BY <1>1, <1>4, <1>9, <1>11, <1>12 DEF PassAndPeople
<1>13. PassAndPeople'
  BY <1>1, <1>4, <1>9, <1>11, <1>12 DEF PassAndPeople
<1>14. ~SettingAside(proc'[p])
  BY <1>7, <1>8
<1>15. SomebodyIsSecure'
  BY <1>1, <1>14, QuietKeepsSecure
<1>. QED BY <1>10, <1>13, <1>15

LEMMA FoughtNext ==
  ASSUME Typed, Fought, [Next]_vars
  PROVE  Fought'
<1>0. TypedBoard /\ Shaped
  BY TypedParts
<1>1. CASE UNCHANGED vars
  BY <1>1 DEF vars, boardVars, histVars, Fought, OnePass, PassAndPeople,
              SomebodyIsSecure, Beaten, Secure
<1>2. CASE Next /\ lapped
  <2>1. lapped'
    BY <1>2 DEF Next, PostDeliverable, StartPass, StartAnswer, Click, StartJudge, Die, Step,
                Carry, FindRequest, WriteDecisionRequest, ReadAnomaly,
                MoveAnomaly, InsertDriver, Mark, ReadRivals, MarkNotChosen,
                Refuse, Close, PostRequest, JudgeRequest, histVars
  <2>. QED BY <2>1 DEF Fought
<1>3. ASSUME ~lapped, NEW d \in Deliverable, PostDeliverable(d) PROVE Fought'
  BY <1>3 DEF PostDeliverable, histVars, Fought, OnePass, PassAndPeople,
              SomebodyIsSecure, Beaten, Secure
<1>4. ASSUME ~lapped, NEW p \in Proc, StartPass(p) PROVE Fought'
  BY <1>4, PassStarts DEF Fought
<1>5. ASSUME ~lapped, NEW p \in Proc, Step(p) PROVE Fought'
  BY <1>5, FoughtStep DEF Fought
<1>6. ASSUME ~lapped, NEW p \in Proc, Die(p) PROVE Fought'
  <2>1. opt' = opt /\ \A q \in Proc \ {p} : proc'[q] = proc[q]
    BY <1>6, EdgesWriteNoOption
  <2>2. proc'[p] = Idle
    BY <1>0, <1>6, SpendKeeps DEF Die, Abort
  <2>3. Idle.pc = "idle" /\ Idle.actor = "nobody"
    BY DEF Idle
  <2>. QED BY <1>6, <2>1, <2>2, <2>3, OthersStart DEF Fought, SettingAside
<1>7. ASSUME ~lapped, NEW p \in Proc, NEW o \in Option, StartAnswer(p, o)
      PROVE  Fought'
  <2>1. opt' = opt /\ \A q \in Proc \ {p} : proc'[q] = proc[q]
    BY <1>7, EdgesWriteNoOption
  <2>2. PICK n \in Handler :
          /\ Set(p, n) /\ Shape(n) /\ n.actor = "person" /\ n.job = o
          /\ n.pc \in Acting \cup {"refuse"}
    BY <1>0, <1>7, AnswerWhat
  <2>3. proc'[p] = n
    BY <1>0, <2>2 DEF Set, Shaped
  <2>4. opt[o] = "carried"
    BY <1>7 DEF StartAnswer
  <2>5. ~SettingAside(n)
    BY <2>2 DEF SettingAside, Acting
  <2>. QED BY <1>7, <2>1, <2>2, <2>3, <2>4, <2>5, OthersStart DEF Fought
<1>8. ASSUME ~lapped, NEW p \in Proc, NEW a \in Anomaly, Click(p, a)
      PROVE  Fought'
  <2>1. opt' = opt /\ \A q \in Proc \ {p} : proc'[q] = proc[q]
    BY <1>8, EdgesWriteNoOption
  <2>2. PICK n \in Handler :
          /\ Set(p, n) /\ Shape(n) /\ n.actor = "person"
          /\ n.pc = "move" /\ n.job = NoOption
    BY <1>0, <1>8, ClickWhat
  <2>3. proc'[p] = n
    BY <1>0, <2>2 DEF Set, Shaped
  <2>4. n.job \notin Option
    BY <2>2, DecisionsAssumption DEF NoOption
  <2>. QED BY <1>8, <2>1, <2>2, <2>3, <2>4, OthersStart DEF Fought, SettingAside
<1>9. ASSUME ~lapped, NEW p \in Proc, NEW w \in Owner, StartJudge(p, w)
      PROVE  Fought'
  <2>1. opt' = opt /\ \A q \in Proc \ {p} : proc'[q] = proc[q]
    BY <1>9, EdgesWriteNoOption
  <2>2. PICK n \in Handler :
          /\ Set(p, n) /\ Shape(n) /\ n.actor = "person"
          /\ n.pc = "judge" /\ n.job = NoOption
    BY <1>0, <1>9, JudgeWhat
  <2>3. proc'[p] = n
    BY <1>0, <2>2 DEF Set, Shaped
  <2>4. n.job \notin Option
    BY <2>2, DecisionsAssumption DEF NoOption
  <2>. QED BY <1>9, <2>1, <2>2, <2>3, <2>4, OthersStart DEF Fought, SettingAside
<1>. QED BY <1>1, <1>2, <1>3, <1>4, <1>5, <1>6, <1>7, <1>8, <1>9 DEF Next

LEMMA FoughtInit == Init => Fought
<1>. SUFFICES ASSUME Init PROVE Fought
  OBVIOUS
<1>1. /\ \A o \in Option : opt[o] = "open"
      /\ \A p \in Proc : /\ proc[p].pc = "idle" /\ proc[p].actor = "nobody"
  BY DEF Init, Idle
<1>. QED BY <1>1 DEF Fought, OnePass, PassAndPeople, SomebodyIsSecure, Beaten,
              SettingAside

\* Of the alternatives to one question somebody wins, however many handlers
\* answer at once and wherever one dies, while no two passes run together.
THEOREM DecisionsSomebodyWins == Spec => []SomebodyWins
<1>1. Fought => SomebodyWins
  <2>. SUFFICES ASSUME Fought, ~lapped, NEW o \in Option, opt[o] = "not_chosen"
                PROVE  \E w \in Option :
                         /\ w # o
                         /\ Of[w] = Of[o] \/ (Topic(o) # NoAnomaly
                                              /\ Topic(w) = Topic(o))
                         /\ opt[w] \in {"applied", "carried", "refused"}
    BY DEF SomebodyWins
  <2>1. Beaten(o)
    BY DEF Beaten
  <2>2. PICK w \in Option : Kin(w, o) /\ Secure(w)
    BY <2>1 DEF Fought, SomebodyIsSecure
  <2>. QED BY <2>2 DEF Kin, Secure
<1>2. Typed /\ Fought /\ [Next]_vars => Fought'
  BY FoughtNext
<1>. QED BY <1>1, <1>2, FoughtInit, AlwaysTyped, PTL DEF Spec
=============================================================================
