------------------------- MODULE RunnerLedgerProofs -------------------------
(***************************************************************************)
(* Theorems about what the live runner (Runner) books: its queues hand     *)
(* every task to one worker, the task's charge and draft reach the board   *)
(* with its outcome, what is reserved is what is in flight, and the cents  *)
(* of the settled ledger add up.                                           *)
(***************************************************************************)
EXTENDS RunnerProofs, SumLemmas

-----------------------------------------------------------------------------
(* The tasks pass through the queues once. *)

Offered(q) ==
  {Line[q][i] : i \in {j \in 1..Len(Line[q]) : j < feeder[q].next}}
Waiting(q) == {Line[q][i] : i \in feeder[q].next..Len(Line[q])}

\* A task at work waits in no queue, is at work with one worker alone, and
\* has no outcome yet.
IdleIsEmpty == \A w \in Worker : ~Busy(w) => worker[w].task = NoTask
HeldIsOpen ==
  \A w \in Worker : Busy(w) =>
    /\ outcome[worker[w].task] = "none"
    /\ \A q \in Queue : worker[w].task \notin Waiting(q)
HeldByOne ==
  \A v, w \in Worker : v # w /\ Busy(v) => worker[v].task # worker[w].task
WaitingIsOpen == \A q \in Queue : \A t \in Waiting(q) : outcome[t] = "none"

\* As long as nothing was refused, every task that was offered has an outcome
\* or a worker, and a feeder only stops at the end of its queue.
OfferedIsCounted ==
  ~stop => \A q \in Queue : \A t \in Offered(q) :
             outcome[t] # "none" \/ \E w \in Worker : worker[w].task = t
ClosedIsDrained ==
  ~stop => \A q \in Queue :
             feeder[q].pc = "closed" => feeder[q].next > Len(Line[q])

\* Once the run is over every worker is gone.
AllGone == phase \in {"ended", "unsettled"} => \A w \in Worker : Exited(w)

\* What a statement of execute() leaves alone: the worker has the same task.
Carries(w) ==
  /\ Busy(w) /\ worker'[w].pc # "idle" /\ worker'[w].task = worker[w].task
  /\ UNCHANGED <<phase, stop, feeder, outcome>>
Drops(w) ==
  /\ AskHalted(w) /\ Busy(w) /\ stop /\ worker'[w] = Idle
  /\ UNCHANGED <<phase, stop, feeder, outcome>>

LEMMA WorkKinds ==
  ASSUME Typed, NEW w \in Worker, Work(w)
  PROVE  /\ Take(w) \/ Finish(w) \/ Drops(w) \/ Carries(w)
         /\ \A v \in Worker \ {w} : worker'[v] = worker[v]
         /\ DOMAIN worker' = Worker
<1> USE DEF runVars, setupVars, budgetVars, ledgerVars, clickVars, Carries,
            Busy, WorkerRec, Goto, Conclude, AfterCall
<1>1. worker \in [Worker -> WorkerRec]
  BY DEF Typed, WorkersTyped
<1>2. CASE Take(w)
  BY <1>1, <1>2 DEF Take
<1>3. CASE AskHalted(w)
  BY <1>1, <1>3 DEF AskHalted, Drops
<1>4. CASE Finish(w)
  BY <1>1, <1>4 DEF Finish
<1>5. CASE Round(w)
  <2>1. PICK u \in Usages :
          \/ worker' = [worker EXCEPT ![w].call =
                          FoldRound(worker[w].call, u)]
          \/ worker' = [worker EXCEPT
                          ![w].call = FoldRound(worker[w].call, u),
                          ![w].pc = "settle", ![w].result = "ok"]
    BY <1>5 DEF Round
  <2> QED
    BY <1>1, <1>5, <2>1 DEF Round
<1>6. CASE RoundFails(w)
  <2>1. PICK c, r :
          worker' = [worker EXCEPT ![w].call = c, ![w].pc = "settle",
                                   ![w].result = r]
    BY <1>6 DEF RoundFails
  <2>2. /\ worker[w].pc = "call"
        /\ UNCHANGED <<phase, stop, feeder, outcome>>
    BY <1>6 DEF RoundFails
  <2>3. worker'[w].pc = "settle" /\ worker'[w].task = worker[w].task
    BY <1>1, <2>1
  <2> QED
    BY <1>1, <2>1, <2>2, <2>3
<1>7. CASE HeadersRefused(w) \/ Reserve(w) \/ ReserveTokens(w) \/ Unreserve(w)
  BY <1>1, <1>7 DEF HeadersRefused, Reserve, ReserveTokens, Unreserve
<1>8. CASE Settle(w) \/ SettleTokens(w) \/ RecordTokens(w)
  BY <1>1, <1>8 DEF Settle, SettleTokens, RecordTokens
<1>9. CASE InsertDraft(w) \/ Options(w) \/ ReturnCheck(w)
  BY <1>1, <1>9 DEF InsertDraft, Options, ReturnCheck
<1>10. CASE ReturnArtifact(w) \/ ReturnTask(w) \/ RecordCharge(w)
  BY <1>1, <1>10 DEF ReturnArtifact, ReturnTask, RecordCharge
<1> QED
  BY <1>2, <1>3, <1>4, <1>5, <1>6, <1>7, <1>8, <1>9, <1>10 DEF Work

\* No task waits twice: taking one leaves the others where they were.
LEMMA TakeMoves ==
  ASSUME Typed, NEW w \in Worker, Take(w)
  PROVE  \E t \in Task :
           /\ worker' = [worker EXCEPT ![w].pc = "taken", ![w].task = t]
           /\ t \in Waiting(Serves[w])
           /\ \A r \in Queue : /\ Waiting(r)' = Waiting(r) \ {t}
                               /\ Offered(r)' \subseteq Offered(r) \cup {t}
<1> DEFINE q == Serves[w]
           n == feeder[q].next
           t == Line[q][n]
<1>1. /\ q \in Queue /\ \A r \in Queue : Line[r] \in Seq(Task)
      /\ \A r \in Queue : Len(Line[r]) \in Nat
  BY RunnerAssumption
<1>2. /\ n \in Nat /\ 1 <= n /\ n <= Len(Line[q])
      /\ \A r \in Queue : feeder[r].next \in Nat /\ feeder[r].next >= 1
  BY <1>1 DEF Take, Typed, FeedersTyped
<1>3. t \in Task /\ t \in Waiting(q)
  BY <1>1, <1>2 DEF Waiting
<1>4. /\ feeder'[q].next = n + 1
      /\ \A r \in Queue \ {q} : feeder'[r] = feeder[r]
  BY <1>1 DEF Take, Typed, FeedersTyped
<1>5. \A r \in Queue : \A i \in 1..Len(Line[r]) : Line[r][i] = t => r = q /\ i = n
  BY <1>1, <1>2, LineAssumption
<1>6. ASSUME NEW r \in Queue, r # q
      PROVE  Waiting(r)' = Waiting(r) \ {t} /\ Offered(r)' = Offered(r)
  <2>1. Waiting(r)' = Waiting(r) /\ Offered(r)' = Offered(r)
    BY <1>4, <1>6 DEF Waiting, Offered
  <2>2. \A i \in feeder[r].next..Len(Line[r]) : i \in 1..Len(Line[r])
    BY <1>1, <1>2
  <2>3. \A i \in feeder[r].next..Len(Line[r]) : Line[r][i] # t
    BY <1>5, <1>6, <2>2
  <2>4. t \notin Waiting(r)
    <3> HIDE DEF t
    <3> QED BY <2>3 DEF Waiting
  <2> QED
    BY <2>1, <2>4
<1>7. Waiting(q)' = {Line[q][i] : i \in (n + 1)..Len(Line[q])}
  BY <1>4 DEF Waiting
<1>8. Waiting(q)' = Waiting(q) \ {t}
  <2> HIDE DEF q, n, t
  <2>1. n..Len(Line[q]) = {n} \cup (n + 1)..Len(Line[q])
    BY <1>1, <1>2
  <2>2. \A i \in (n + 1)..Len(Line[q]) : i \in 1..Len(Line[q]) /\ i # n
    BY <1>1, <1>2
  <2>3. \A i \in (n + 1)..Len(Line[q]) : Line[q][i] # t
    BY <1>1, <1>5, <2>2
  <2>4. Waiting(q) = {Line[q][i] : i \in n..Len(Line[q])}
    BY DEF Waiting, n
  <2>5. Line[q][n] = t
    BY DEF t
  <2> QED
    BY <1>7, <2>1, <2>3, <2>4, <2>5
<1>9. Offered(q)' \subseteq Offered(q) \cup {t}
  <2>1. \A j \in 1..Len(Line[q]) : j < feeder'[q].next => j < n \/ j = n
    BY <1>1, <1>2, <1>4
  <2> QED
    BY <2>1 DEF Offered
<1>10. worker' = [worker EXCEPT ![w].pc = "taken", ![w].task = t]
  BY DEF Take
<1> HIDE DEF t, q
<1>11. \A r \in Queue : /\ Waiting(r)' = Waiting(r) \ {t}
                        /\ Offered(r)' \subseteq Offered(r) \cup {t}
  BY <1>6, <1>8, <1>9
<1> QED
  BY <1>3, <1>10, <1>11 DEF q

\* Nothing but a worker's step moves a task.
LEMMA OtherMoves ==
  ASSUME Typed, [Next]_vars, ~\E w \in Worker : Work(w)
  PROVE  /\ UNCHANGED <<worker, outcome, stop>>
         /\ \A q \in Queue : feeder'[q].next = feeder[q].next
<1> USE DEF runVars
<1>1. UNCHANGED <<worker, outcome, stop>>
  BY DEF Next, Preflight, EndRun, Feed, Person, PersonReads,
     PersonWritesArtifact, PersonWritesTask, vars
<1>2. feeder \in [Queue -> [pc : {"check", "offer", "closed"},
                            next : Nat \ {0}]]
  BY DEF Typed, FeedersTyped
<1>3. ASSUME NEW q \in Queue, Feed(q)
      PROVE  \A r \in Queue : feeder'[r].next = feeder[r].next
  BY <1>2, <1>3 DEF Feed
<1>4. CASE ~\E q \in Queue : Feed(q)
  BY <1>4 DEF Next, Preflight, EndRun, Person, PersonReads,
     PersonWritesArtifact, PersonWritesTask, vars
<1> QED
  BY <1>1, <1>3, <1>4

\* Nothing but Take moves a feeder on.
LEMMA QueuesStay ==
  ASSUME \A q \in Queue : feeder'[q].next = feeder[q].next
  PROVE  \A q \in Queue : Waiting(q)' = Waiting(q) /\ Offered(q)' = Offered(q)
BY DEF Waiting, Offered

HandsOut == IdleIsEmpty /\ HeldIsOpen /\ HeldByOne /\ WaitingIsOpen

LEMMA HandsOutInit == Init => HandsOut
<1> SUFFICES ASSUME Init PROVE HandsOut
  OBVIOUS
<1>1. IdleIsEmpty /\ HeldIsOpen /\ HeldByOne
  BY DEF Init, IdleIsEmpty, HeldIsOpen, HeldByOne, Busy, Idle
<1>2. WaitingIsOpen
  <2>1. \A q \in Queue : \A i \in 1..Len(Line[q]) : Line[q][i] \in Task
    BY RunnerAssumption
  <2>2. \A q \in Queue : Waiting(q) \subseteq Task
    BY <2>1 DEF Init, Waiting
  <2> QED
    BY <2>2 DEF Init, WaitingIsOpen
<1> QED
  BY <1>1, <1>2 DEF HandsOut

LEMMA HandsOutStep ==
  ASSUME Typed, HandsOut, [Next]_vars
  PROVE  HandsOut'
<1>0. /\ IdleIsEmpty /\ HeldIsOpen /\ HeldByOne /\ WaitingIsOpen
      /\ worker \in [Worker -> WorkerRec] /\ outcome \in [Task -> Results]
      /\ \A w \in Worker : Busy(w) => worker[w].task \in Task
      /\ NoTask \notin Task
  BY RunnerAssumption DEF HandsOut, Typed, WorkersTyped, BoardTyped, NoTask
<1> USE DEF HandsOut, Busy
<1>1. CASE ~\E w \in Worker : Work(w)
  <2>1. UNCHANGED <<worker, outcome, stop>>
    BY <1>1, OtherMoves
  <2>2. \A q \in Queue : Waiting(q)' = Waiting(q)
    BY <1>1, OtherMoves, QueuesStay
  <2> QED
    BY <1>0, <2>1, <2>2 DEF IdleIsEmpty, HeldIsOpen, HeldByOne, WaitingIsOpen
<1>2. ASSUME NEW w \in Worker, Take(w)
      PROVE  HandsOut'
  <2>1. PICK t \in Task :
           /\ worker' = [worker EXCEPT ![w].pc = "taken", ![w].task = t]
           /\ t \in Waiting(Serves[w])
           /\ \A r \in Queue : Waiting(r)' = Waiting(r) \ {t}
    BY <1>2, TakeMoves
  <2>2. /\ worker'[w].pc = "taken" /\ worker'[w].task = t
        /\ \A v \in Worker \ {w} : worker'[v] = worker[v]
    BY <1>0, <2>1 DEF WorkerRec
  <2>3. outcome' = outcome /\ outcome[t] = "none"
    BY <1>0, <1>2, <2>1, RunnerAssumption DEF Take, WaitingIsOpen
  <2>4. \A v \in Worker : Busy(v) => worker[v].task # t
    <3>1. Serves[w] \in Queue
      BY RunnerAssumption
    <3> QED
      BY <1>0, <2>1, <3>1 DEF HeldIsOpen
  <2>5. IdleIsEmpty'
    BY <1>0, <2>2 DEF IdleIsEmpty
  <2>6. HeldIsOpen' /\ WaitingIsOpen'
    BY <1>0, <2>1, <2>2, <2>3 DEF HeldIsOpen, WaitingIsOpen
  <2>7. HeldByOne'
    BY <1>0, <2>2, <2>4 DEF HeldByOne, IdleIsEmpty
  <2> QED
    BY <2>5, <2>6, <2>7
<1>3. ASSUME NEW w \in Worker, Work(w), Finish(w)
      PROVE  HandsOut'
  <2>1. /\ worker'[w] = Idle /\ feeder' = feeder
        /\ \A v \in Worker \ {w} : worker'[v] = worker[v]
        /\ outcome' = [outcome EXCEPT ![worker[w].task] = worker[w].result]
        /\ worker[w].pc = "finish"
    BY <1>0, <1>3 DEF Finish
  <2>2. \A q \in Queue : Waiting(q)' = Waiting(q)
    BY <2>1, QueuesStay
  <2>3. IdleIsEmpty' /\ HeldByOne'
    BY <1>0, <2>1 DEF IdleIsEmpty, HeldByOne, Idle
  <2>4. WaitingIsOpen'
    BY <1>0, <2>1, <2>2 DEF WaitingIsOpen, HeldIsOpen
  <2>5. HeldIsOpen'
    BY <1>0, <2>1, <2>2 DEF HeldIsOpen, HeldByOne, Idle
  <2> QED
    BY <2>3, <2>4, <2>5
<1>4. ASSUME NEW w \in Worker, Work(w), Drops(w) \/ Carries(w)
      PROVE  HandsOut'
  <2>1. /\ \/ worker'[w].pc = "idle" /\ worker'[w].task = NoTask
           \/ worker'[w].pc # "idle" /\ worker'[w].task = worker[w].task
        /\ worker[w].pc # "idle"
        /\ \A v \in Worker \ {w} : worker'[v] = worker[v]
        /\ outcome' = outcome /\ feeder' = feeder
    BY <1>4, WorkKinds DEF Drops, Carries, Idle
  <2>2. \A q \in Queue : Waiting(q)' = Waiting(q)
    BY <2>1, QueuesStay
  <2>3. IdleIsEmpty' /\ WaitingIsOpen'
    BY <1>0, <2>1, <2>2 DEF IdleIsEmpty, WaitingIsOpen
  <2>4. HeldByOne'
    BY <1>0, <2>1 DEF HeldByOne
  <2>5. HeldIsOpen'
    BY <1>0, <2>1, <2>2 DEF HeldIsOpen
  <2> QED
    BY <2>3, <2>4, <2>5
<1> QED
  BY <1>1, <1>2, <1>3, <1>4, WorkKinds

\* What a feeder offers is a task of its queue.
LEMMA OfferedIsTask == \A q \in Queue : Offered(q) \subseteq Task
<1>1. \A q \in Queue : \A i \in 1..Len(Line[q]) : Line[q][i] \in Task
  BY RunnerAssumption
<1> QED
  BY <1>1 DEF Offered

\* A task that was offered and is counted stays counted.
LEMMA OfferedIsCountedStep ==
  ASSUME Typed, HandsOut, OfferedIsCounted, [Next]_vars
  PROVE  OfferedIsCounted'
<1> SUFFICES ASSUME ~stop' PROVE OfferedIsCounted'
  BY DEF OfferedIsCounted
<1>0. ~stop
  <2>1. stop' = stop \/ stop' = TRUE
    BY StopMoves
  <2> QED
    BY <2>1
<1>1. /\ worker \in [Worker -> WorkerRec]
      /\ \A w \in Worker : worker[w].pc # "idle" => worker[w].task \in Task
      /\ \A w \in Worker : worker[w].pc = "idle" => worker[w].task = NoTask
      /\ NoTask \notin Task
      /\ \A q \in Queue : \A t \in Offered(q) :
             outcome[t] # "none" \/ \E w \in Worker : worker[w].task = t
      /\ \A q \in Queue : Offered(q) \subseteq Task
  BY <1>0, RunnerAssumption, OfferedIsTask
     DEF HandsOut, Typed, WorkersTyped, IdleIsEmpty, OfferedIsCounted, NoTask,
         Busy
<1> SUFFICES ASSUME NEW q \in Queue, NEW t \in Offered(q)'
             PROVE  outcome'[t] # "none" \/ \E w \in Worker : worker'[w].task = t
  BY DEF OfferedIsCounted
<1>2. CASE ~\E w \in Worker : Work(w)
  <2>1. UNCHANGED <<worker, outcome, stop>>
    BY <1>2, OtherMoves
  <2>2. Offered(q)' = Offered(q)
    BY <1>2, OtherMoves, QueuesStay
  <2> QED
    BY <1>1, <2>1, <2>2
<1>3. ASSUME NEW w \in Worker, Take(w)
      PROVE  outcome'[t] # "none" \/ \E v \in Worker : worker'[v].task = t
  <2>1. PICK u \in Task :
           /\ worker' = [worker EXCEPT ![w].pc = "taken", ![w].task = u]
           /\ Offered(q)' \subseteq Offered(q) \cup {u}
    BY <1>3, TakeMoves
  <2>2. /\ worker'[w].task = u
        /\ \A v \in Worker \ {w} : worker'[v] = worker[v]
        /\ worker[w].pc = "idle" /\ outcome' = outcome
    BY <1>1, <1>3, <2>1 DEF Take, WorkerRec
  <2> QED
    BY <1>1, <2>1, <2>2
<1>4. ASSUME NEW w \in Worker, Work(w), ~Take(w)
      PROVE  outcome'[t] # "none" \/ \E v \in Worker : worker'[v].task = t
  <2>1. /\ \A v \in Worker \ {w} : worker'[v] = worker[v]
        /\ Finish(w) \/ Carries(w)
    BY <1>0, <1>4, WorkKinds DEF Drops
  <2>2. feeder' = feeder
    BY <2>1 DEF Finish, Carries
  <2>3. t \in Offered(q)
    BY <2>2, QueuesStay
  <2>4. CASE Carries(w)
    BY <1>1, <2>1, <2>3, <2>4 DEF Carries
  <2>5. CASE Finish(w)
    <3>1. /\ outcome' = [outcome EXCEPT ![worker[w].task] = worker[w].result]
          /\ worker[w].result # "none"
      BY <2>5 DEF Finish
    <3>2. outcome \in [Task -> Results]
      BY DEF Typed, BoardTyped
    <3> QED
      BY <1>1, <2>1, <2>3, <3>1, <3>2
  <2> QED
    BY <2>1, <2>4, <2>5
<1> QED
  BY <1>2, <1>3, <1>4

\* A feeder that nothing stopped closes its queue at the end of it.
LEMMA ClosedIsDrainedStep ==
  ASSUME Typed, ClosedIsDrained, [Next]_vars
  PROVE  ClosedIsDrained'
<1> USE DEF runVars
<1> SUFFICES ASSUME ~stop', NEW q \in Queue, feeder'[q].pc = "closed"
             PROVE  feeder'[q].next > Len(Line[q])
  BY DEF ClosedIsDrained
<1>0. ~stop
  <2>1. stop' = stop \/ stop' = TRUE
    BY StopMoves
  <2> QED
    BY <2>1
<1>1. /\ feeder \in [Queue -> [pc : {"check", "offer", "closed"},
                               next : Nat \ {0}]]
      /\ feeder[q].pc = "closed" => feeder[q].next > Len(Line[q])
  BY <1>0 DEF Typed, FeedersTyped, ClosedIsDrained
<1>2. ASSUME NEW r \in Queue, Feed(r)
      PROVE  feeder'[q].next > Len(Line[q])
  BY <1>0, <1>1, <1>2 DEF Feed
<1>3. ASSUME NEW w \in Worker, Work(w)
      PROVE  feeder'[q].next > Len(Line[q])
  <2>1. CASE Take(w)
    BY <1>1, <2>1 DEF Take
  <2>2. CASE ~Take(w)
    <3>1. feeder' = feeder
      BY <1>3, <2>2, WorkKinds DEF Finish, Drops, Carries
    <3> QED
      BY <1>1, <3>1
  <2> QED
    BY <2>1, <2>2
<1>4. CASE feeder' = feeder
  BY <1>1, <1>4
<1>5. CASE /\ ~\E w \in Worker : Work(w)
           /\ ~\E r \in Queue : Feed(r)
  BY <1>4, <1>5 DEF Next, Preflight, EndRun, Person, PersonReads,
     PersonWritesArtifact, PersonWritesTask, vars
<1> QED
  BY <1>2, <1>3, <1>5

\* Once wg.Wait has returned no goroutine of the run takes another step.
LEMMA AllGoneStep ==
  ASSUME Typed, AllGone, [Next]_vars
  PROVE  AllGone'
<1> USE DEF runVars
<1>1. CASE EndRun
  BY <1>1 DEF EndRun, AllGone, Exited
<1>2. CASE Preflight
  BY <1>2 DEF Preflight, AllGone
<1>3. ASSUME NEW q \in Queue, Feed(q)
      PROVE  AllGone'
  BY <1>3 DEF Feed, AllGone
<1>4. ASSUME NEW w \in Worker, Work(w)
      PROVE  AllGone'
  <2>1. phase \notin {"ended", "unsettled"}
    <3>1. CASE Take(w)
      BY <3>1 DEF Take
    <3>2. CASE worker[w].pc # "idle"
      BY <3>2 DEF AllGone, Exited
    <3> QED
      BY <1>4, <3>1, <3>2, WorkKinds DEF Finish, Drops, Carries, Busy
  <2>2. phase' = phase
    BY <1>4, WorkKinds DEF Take, Finish, Drops, Carries
  <2> QED
    BY <2>1, <2>2 DEF AllGone
<1>5. CASE Person \/ UNCHANGED vars
  <2>1. UNCHANGED <<phase, worker, feeder>>
    BY <1>5 DEF Person, PersonReads, PersonWritesArtifact, PersonWritesTask,
       vars
  <2> QED
    BY <2>1 DEF AllGone, Exited
<1> QED
  BY <1>1, <1>2, <1>3, <1>4, <1>5 DEF Next

Counts == OfferedIsCounted /\ ClosedIsDrained /\ AllGone

\* A run that is over and that nothing stopped has every task behind it.
LEMMA NothingLeftOut ==
  ASSUME Typed, HandsOut, Counts, phase \in {"ended", "unsettled"}, ~stop,
         NEW t \in Task
  PROVE  outcome[t] # "none"
<1>1. PICK q \in Queue : \E i \in 1..Len(Line[q]) : Line[q][i] = t
  BY LineAssumption
<1>2. PICK i \in 1..Len(Line[q]) : Line[q][i] = t
  BY <1>1
<1>3. Line[q] \in Seq(Task) /\ Len(Line[q]) \in Nat
  BY RunnerAssumption
<1>4. Line[q] # <<>>
  BY <1>2, <1>3
<1>5. PICK w \in Worker : Serves[w] = q
  BY <1>4, LineAssumption
<1>6. feeder[q].pc = "closed"
  BY <1>4, <1>5 DEF Counts, AllGone, Exited
<1>7. feeder[q].next > Len(Line[q]) /\ feeder[q].next \in Nat
  BY <1>6 DEF Counts, ClosedIsDrained, Typed, FeedersTyped
<1>8. t \in Offered(q)
  BY <1>2, <1>3, <1>7 DEF Offered
<1>9. outcome[t] # "none" \/ \E v \in Worker : worker[v].task = t
  BY <1>8 DEF Counts, OfferedIsCounted
<1>10. \A v \in Worker : worker[v].task = NoTask
  BY DEF Counts, AllGone, Exited, HandsOut, IdleIsEmpty, Busy
<1>11. t # NoTask
  BY RunnerAssumption DEF NoTask
<1> QED
  BY <1>9, <1>10, <1>11

LEMMA HandsOutAlways == Spec => []HandsOut
<1>1. Typed /\ HandsOut /\ [Next]_vars => HandsOut'
  BY HandsOutStep
<1> QED
  BY <1>1, HandsOutInit, TypedAlways, PTL DEF Spec

LEMMA CountsAlways == Spec => []Counts
<1>1. Init => Counts
  BY DEF Init, Counts, OfferedIsCounted, ClosedIsDrained, AllGone, Offered
<1>2. Typed /\ HandsOut /\ Counts /\ [Next]_vars => Counts'
  BY OfferedIsCountedStep, ClosedIsDrainedStep, AllGoneStep DEF Counts
<1> QED
  BY <1>1, <1>2, HandsOutAlways, TypedAlways, PTL DEF Spec

\* The queues hand every task to exactly one worker, whatever the widths and
\* the interleaving of the feeders, the workers and a refusal, and a run that
\* no refusal stopped has an outcome for every task of its list (runQueue).
THEOREM EachTaskOnceAlways == Spec => []EachTaskOnce
<1>1. Typed /\ HandsOut /\ Counts => EachTaskOnce
  <2> SUFFICES ASSUME Typed, HandsOut, Counts PROVE EachTaskOnce
    OBVIOUS
  <2>1. \A w \in Worker : worker[w].task # NoTask => Busy(w)
    BY DEF HandsOut, IdleIsEmpty
  <2>2. \A v, w \in Worker :
          v # w /\ worker[v].task # NoTask => worker[v].task # worker[w].task
    BY <2>1 DEF HandsOut, HeldByOne
  <2>3. \A w \in Worker :
          worker[w].task # NoTask => outcome[worker[w].task] = "none"
    BY <2>1 DEF HandsOut, HeldIsOpen
  <2>4. phase \in {"ended", "unsettled"} /\ ~stop =>
          \A t \in Task : outcome[t] # "none"
    BY NothingLeftOut
  <2> QED
    BY <2>2, <2>3, <2>4 DEF EachTaskOnce
<1> QED
  BY <1>1, HandsOutAlways, CountsAlways, TypedAlways, PTL

-----------------------------------------------------------------------------
(* The charge and the draft of a task reach the board with its outcome. *)

\* A task nobody has worked on yet: nothing charged, booked or drafted.
Fresh(t) == charged[t] = 0 /\ micros[t] = prior[t] /\ art[t] = "none"
WaitingIsFresh == \A q \in Queue : \A t \in Waiting(q) : Fresh(t)

Early == {"taken", "reserve", "reserveTokens", "unreserve", "call", "settle"}
Settled == {"settleTokens", "recordTokens", "insertDraft"}
Drafted == {"options", "returnCheck", "returnArtifact", "returnTask"}

\* What the place of its worker says of a task at work: of what settle()
\* charged it, of what recordCharge booked, and of its draft.
ChargeAt(k, t) ==
  /\ k.pc \in Early => Fresh(t)
  /\ k.pc \in Settled \cup Drafted \cup {"recordCharge"} =>
       charged[t] = ChargeMicros(k.call) /\ micros[t] = prior[t]
  /\ k.pc = "finish" =>
       /\ micros[t] \in {prior[t], prior[t] + charged[t]}
       /\ k.result = "ok" => micros[t] = prior[t] + charged[t]
DraftAt(k, t) ==
  /\ k.pc \in Settled => art[t] = "none"
  /\ k.pc \in Drafted => art[t] # "none"
  /\ k.pc \in Drafted \cup {"insertDraft"} => k.result = "ok"
  /\ k.pc \in {"recordCharge", "finish"} =>
       /\ k.result = "ok" => art[t] # "none"
       /\ k.result \in {"discarded", "refused"} => art[t] = "none"
AtWork ==
  \A w \in Worker : Busy(w) =>
    ChargeAt(worker[w], worker[w].task) /\ DraftAt(worker[w], worker[w].task)

\* A person only posts or returns a draft there is.
ClickHasDraft == click.at = "artifact" => art[click.task] # "none"

\* A step leaves the books and the draft of t alone.
LeavesAlone(t) ==
  /\ charged'[t] = charged[t] /\ micros'[t] = micros[t]
  /\ prior'[t] = prior[t]
  /\ art'[t] = "none" <=> art[t] = "none"

LEMMA OthersAlone ==
  ASSUME Typed, ClickHasDraft, [Next]_vars, NEW t \in Task,
         \A w \in Worker : Work(w) => worker[w].task # t \/ Take(w)
  PROVE  LeavesAlone(t)
<1> USE DEF LeavesAlone, runVars, setupVars, budgetVars, ledgerVars, clickVars
<1>0. art \in [Task -> Arts]
  BY DEF Typed, BoardTyped
<1>1. ASSUME NEW w \in Worker, Work(w)
      PROVE  LeavesAlone(t)
  <2>1. CASE Take(w)
    BY <2>1 DEF Take
  <2>2. CASE Settle(w) /\ worker[w].task # t
    BY <2>2 DEF Settle, Typed, HistoryTyped
  <2>3. CASE RecordCharge(w) /\ worker[w].task # t
    BY <2>3 DEF RecordCharge, Typed, BoardTyped
  <2>4. CASE InsertDraft(w) /\ worker[w].task # t
    BY <1>0, <2>4 DEF InsertDraft
  <2>5. CASE ReturnArtifact(w) /\ worker[w].task # t
    BY <1>0, <2>5 DEF ReturnArtifact
  <2>6. CASE ~Settle(w) /\ ~RecordCharge(w) /\ ~InsertDraft(w)
             /\ ~ReturnArtifact(w)
    <3>1. UNCHANGED <<charged, micros, prior, art>>
      BY <1>1, <2>6 DEF Work, Take, AskHalted, HeadersRefused, Reserve,
         ReserveTokens, Unreserve, Round, RoundFails, SettleTokens,
         RecordTokens, Options, ReturnCheck, ReturnTask, Finish
    <3> QED
      BY <3>1
  <2> QED
    BY <1>1, <2>1, <2>2, <2>3, <2>4, <2>5, <2>6
<1>2. CASE PersonWritesArtifact
  <2>1. click.task = t => art[t] # "none"
    BY <1>2 DEF PersonWritesArtifact, ClickHasDraft
  <2>2. art' = [art EXCEPT ![click.task] =
                  IF click.kind = "post" THEN "posted" ELSE "returned"]
        /\ UNCHANGED <<charged, micros, prior>>
    BY <1>2 DEF PersonWritesArtifact
  <2> QED
    BY <1>0, <2>1, <2>2
<1>3. CASE ~PersonWritesArtifact /\ ~\E w \in Worker : Work(w)
  BY <1>3 DEF Next, Preflight, EndRun, Feed, Person, PersonReads,
     PersonWritesTask, vars
<1> QED
  BY <1>1, <1>2, <1>3

LEMMA ClickHasDraftStep ==
  ASSUME Typed, ClickHasDraft, [Next]_vars
  PROVE  ClickHasDraft'
<1> USE DEF runVars, setupVars, budgetVars, ledgerVars, clickVars
<1>1. CASE PersonReads
  BY <1>1 DEF PersonReads, ClickHasDraft
<1>2. CASE PersonWritesArtifact \/ PersonWritesTask
  BY <1>2 DEF PersonWritesArtifact, PersonWritesTask, ClickHasDraft, NoClick,
     Typed, ClickTyped
<1>3. CASE ~Person
  <2>1. click' = click
    BY <1>3, ZenonT(60) DEF Next, Preflight, EndRun, Feed, Work, Take, AskHalted,
       HeadersRefused, Reserve,
       ReserveTokens, Unreserve, Round, RoundFails, Settle, SettleTokens,
       RecordTokens, InsertDraft, Options, ReturnCheck, ReturnArtifact,
       ReturnTask, RecordCharge, Finish, vars
  <2>2. click.at = "artifact" => click.task \in Task
    BY DEF Typed, ClickTyped
  <2> QED
    BY <2>1, <2>2, DraftStays DEF ClickHasDraft
<1> QED
  BY <1>1, <1>2, <1>3 DEF Person

\* One statement of execute() leads from what held of its task to what holds
\* of it next.
LEMMA OwnWork ==
  ASSUME Typed, HandsOut, WaitingIsFresh, AtWork, NEW w \in Worker, Work(w),
         Busy(w)'
  PROVE  (ChargeAt(worker[w], worker[w].task)
          /\ DraftAt(worker[w], worker[w].task))'
<1> USE DEF runVars, setupVars, budgetVars, ledgerVars, clickVars, ChargeAt,
            DraftAt, Fresh, Early, Settled, Drafted, WorkerRec
<1>0. /\ worker \in [Worker -> WorkerRec]
      /\ charged \in [Task -> Nat] /\ micros \in [Task -> Nat]
      /\ prior \in [Task -> Nat] /\ art \in [Task -> Arts]
      /\ worker[w].pc # "idle" =>
           /\ worker[w].task \in Task
           /\ ChargeAt(worker[w], worker[w].task)
           /\ DraftAt(worker[w], worker[w].task)
           /\ ChargeMicros(worker[w].call) \in Nat
  BY BusyInHand DEF Typed, WorkersTyped, HistoryTyped, BoardTyped, AtWork, Busy,
     InHand
<1>1. CASE Take(w)
  <2>1. PICK t \in Task :
           /\ worker' = [worker EXCEPT ![w].pc = "taken", ![w].task = t]
           /\ t \in Waiting(Serves[w])
    BY <1>1, TakeMoves
  <2>2. Serves[w] \in Queue
    BY RunnerAssumption
  <2>3. worker'[w].pc = "taken" /\ worker'[w].task = t
    BY <1>0, <2>1
  <2>4. charged[t] = 0 /\ micros[t] = prior[t] /\ art[t] = "none"
    BY <2>1, <2>2 DEF WaitingIsFresh
  <2>5. UNCHANGED <<charged, micros, prior, art>>
    BY <1>1 DEF Take
  <2> QED
    BY <2>3, <2>4, <2>5
<1>2. CASE Round(w)
  <2>1. PICK u \in Usages :
          \/ worker' = [worker EXCEPT ![w].call =
                          FoldRound(worker[w].call, u)]
          \/ worker' = [worker EXCEPT
                          ![w].call = FoldRound(worker[w].call, u),
                          ![w].pc = "settle", ![w].result = "ok"]
    BY <1>2 DEF Round
  <2>2. worker[w].pc = "call" /\ UNCHANGED <<charged, micros, prior, art>>
    BY <1>2 DEF Round
  <2>3. worker'[w].pc \in {"call", "settle"} /\ worker'[w].task = worker[w].task
    BY <1>0, <2>1, <2>2
  <2> QED
    BY <1>0, <2>2, <2>3
<1>3. CASE RoundFails(w)
  <2>1. PICK c, r :
          worker' = [worker EXCEPT ![w].call = c, ![w].pc = "settle",
                                   ![w].result = r]
    BY <1>3 DEF RoundFails
  <2>2. worker[w].pc = "call" /\ UNCHANGED <<charged, micros, prior, art>>
    BY <1>3 DEF RoundFails
  <2>3. worker'[w].pc = "settle" /\ worker'[w].task = worker[w].task
    BY <1>0, <2>1
  <2> QED
    BY <1>0, <2>2, <2>3
<1>4. CASE AskHalted(w)
  BY <1>0, <1>4 DEF AskHalted, Idle, Busy
<1>5. CASE HeadersRefused(w)
  BY <1>0, <1>5 DEF HeadersRefused, Goto, Conclude, AfterCall
<1>6. CASE Reserve(w)
  BY <1>0, <1>6 DEF Reserve, Goto, Conclude, AfterCall
<1>7. CASE ReserveTokens(w)
  BY <1>0, <1>7 DEF ReserveTokens, Goto, Conclude, AfterCall
<1>8. CASE Unreserve(w)
  BY <1>0, <1>8 DEF Unreserve, Goto, Conclude, AfterCall
<1>9. CASE Settle(w)
  BY <1>0, <1>9 DEF Settle, Goto, Conclude, AfterCall
<1>10. CASE SettleTokens(w)
  BY <1>0, <1>10 DEF SettleTokens, Goto, Conclude, AfterCall
<1>11. CASE RecordTokens(w)
  BY <1>0, <1>11 DEF RecordTokens, Goto, Conclude, AfterCall
<1>12. CASE InsertDraft(w)
  BY <1>0, <1>12 DEF InsertDraft, Goto, Conclude, AfterCall
<1>13. CASE Options(w)
  BY <1>0, <1>13 DEF Options, Goto, Conclude, AfterCall
<1>14. CASE ReturnCheck(w)
  BY <1>0, <1>14 DEF ReturnCheck, Goto, Conclude, AfterCall
<1>15. CASE ReturnArtifact(w)
  BY <1>0, <1>15 DEF ReturnArtifact, Goto, Conclude, AfterCall
<1>16. CASE ReturnTask(w)
  BY <1>0, <1>16 DEF ReturnTask, Goto, Conclude, AfterCall
<1>17. CASE RecordCharge(w)
  BY <1>0, <1>17 DEF RecordCharge, Goto, Conclude, AfterCall
<1>18. CASE Finish(w)
  BY <1>0, <1>18 DEF Finish, Busy, Idle
<1> QED
  BY <1>1, <1>2, <1>3, <1>4, <1>5, <1>6, <1>7, <1>8, <1>9, <1>10, <1>11, <1>12, <1>13, <1>14, <1>15, <1>16, <1>17, <1>18 DEF Work

LEMMA AtWorkStep ==
  ASSUME Typed, HandsOut, WaitingIsFresh, AtWork, ClickHasDraft, [Next]_vars
  PROVE  AtWork'
<1> SUFFICES ASSUME NEW w \in Worker, Busy(w)'
             PROVE  (ChargeAt(worker[w], worker[w].task)
                     /\ DraftAt(worker[w], worker[w].task))'
  BY DEF AtWork
<1>1. CASE Work(w)
  BY <1>1, OwnWork
<1>2. CASE ~Work(w)
  <2>1. worker'[w] = worker[w]
    BY <1>2, LateMoves
  <2>2. /\ worker[w].task \in Task
        /\ ChargeAt(worker[w], worker[w].task)
        /\ DraftAt(worker[w], worker[w].task)
    BY <2>1 DEF Busy, AtWork, Typed, WorkersTyped
  <2>3. ASSUME NEW v \in Worker, Work(v)
        PROVE  worker[v].task # worker[w].task \/ Take(v)
    <3>1. v # w /\ Busy(w)
      BY <1>2, <2>1, <2>3 DEF Busy
    <3> QED
      BY <3>1 DEF HandsOut, HeldByOne
  <2>4. LeavesAlone(worker[w].task)
    BY <2>2, <2>3, OthersAlone
  <2> QED
    BY <2>1, <2>2, <2>4 DEF LeavesAlone, ChargeAt, DraftAt, Fresh
<1> QED
  BY <1>1, <1>2

LEMMA WaitingIsFreshStep ==
  ASSUME Typed, HandsOut, WaitingIsFresh, ClickHasDraft, [Next]_vars
  PROVE  WaitingIsFresh'
<1>1. \A q \in Queue : Waiting(q)' \subseteq Waiting(q)
  <2>1. ASSUME NEW w \in Worker, Work(w)
        PROVE  \A q \in Queue : Waiting(q)' \subseteq Waiting(q)
    <3>1. CASE Take(w)
      BY <3>1, TakeMoves
    <3>2. CASE ~Take(w)
      <4>1. feeder' = feeder
        BY <2>1, <3>2, WorkKinds DEF Finish, Drops, Carries
      <4> QED
        BY <4>1, QueuesStay
    <3> QED
      BY <3>1, <3>2
  <2>2. CASE ~\E w \in Worker : Work(w)
    BY <2>2, OtherMoves, QueuesStay
  <2> QED
    BY <2>1, <2>2
<1>2. \A q \in Queue : Waiting(q) \subseteq Task
  <2>1. \A q \in Queue : Line[q] \in Seq(Task) /\ feeder[q].next \in Nat \ {0}
    BY RunnerAssumption DEF Typed, FeedersTyped
  <2>2. \A q \in Queue : \A i \in feeder[q].next..Len(Line[q]) : Line[q][i] \in Task
    BY <2>1
  <2> QED
    BY <2>2 DEF Waiting
<1>3. ASSUME NEW q \in Queue, NEW t \in Waiting(q)
      PROVE  LeavesAlone(t)
  <2>1. ASSUME NEW w \in Worker, Work(w)
        PROVE  worker[w].task # t \/ Take(w)
    <3>1. Take(w) \/ Busy(w)
      BY <2>1, WorkKinds DEF Finish, Drops, Carries, Busy
    <3> QED
      BY <3>1 DEF HandsOut, HeldIsOpen
  <2> QED
    BY <1>2, <2>1, OthersAlone
<1> QED
  BY <1>1, <1>3 DEF WaitingIsFresh, Fresh, LeavesAlone

\* What the board and the run say of one task agree.
Agrees(t) ==
  /\ micros[t] \in {prior[t], prior[t] + charged[t]}
  /\ outcome[t] = "ok" => micros[t] = prior[t] + charged[t] /\ art[t] # "none"
  /\ outcome[t] \in {"discarded", "refused"} => art[t] = "none"
AllAgree == \A t \in Task : Agrees(t)

LEMMA AllAgreeStep ==
  ASSUME Typed, HandsOut, WaitingIsFresh, AtWork, ClickHasDraft, AllAgree,
         [Next]_vars
  PROVE  AllAgree'
<1> SUFFICES ASSUME NEW t \in Task PROVE Agrees(t)'
  BY DEF AllAgree
<1>0. Agrees(t) /\ outcome \in [Task -> Results]
  BY DEF AllAgree, Typed, BoardTyped
<1>1. ASSUME NEW w \in Worker, Work(w), ~Take(w), worker[w].task = t
      PROVE  Agrees(t)'
  <2>1. CASE Carries(w)
    <3>1. /\ ChargeAt(worker[w], t)' /\ Busy(w)' /\ outcome'[t] = "none"
          /\ worker'[w].task = t
      <4>1. worker'[w].task = t /\ Busy(w)' /\ outcome' = outcome
        BY <1>1, <2>1 DEF Carries, Busy
      <4>2. outcome[t] = "none"
        BY <1>1, <2>1 DEF Carries, HandsOut, HeldIsOpen
      <4>3. ChargeAt(worker[w], worker[w].task)'
        BY <1>1, <4>1, OwnWork
      <4> QED
        BY <4>1, <4>2, <4>3
    <3>2. (charged \in [Task -> Nat] /\ prior \in [Task -> Nat]
           /\ worker \in [Worker -> WorkerRec])'
      BY TypedStep DEF Typed, HistoryTyped, BoardTyped, WorkersTyped
    <3>3. worker'[w].pc \in Pcs
      BY <3>2 DEF WorkerRec
    <3>4. worker'[w].pc \in Early \cup Settled \cup Drafted
                             \cup {"recordCharge", "finish"}
      BY <3>1, <3>3 DEF Pcs, Busy, Early, Settled, Drafted
    <3>5. micros'[t] \in {prior'[t], prior'[t] + charged'[t]}
      BY <3>1, <3>2, <3>4 DEF ChargeAt, Fresh
    <3> QED
      BY <3>1, <3>5 DEF Agrees
  <2>2. CASE Drops(w)
    BY <1>0, <2>2 DEF Drops, AskHalted, Agrees, runVars, setupVars, budgetVars,
       ledgerVars
  <2>3. CASE Finish(w)
    <3>1. ChargeAt(worker[w], t) /\ DraftAt(worker[w], t)
      BY <1>1, <2>3 DEF Finish, AtWork, Busy
    <3>2. UNCHANGED <<charged, micros, prior, art>>
      BY <2>3 DEF Finish, setupVars, budgetVars, ledgerVars
    <3>3. outcome'[t] = worker[w].result /\ worker[w].pc = "finish"
      BY <1>0, <1>1, <2>3 DEF Finish
    <3> QED
      BY <3>1, <3>2, <3>3 DEF ChargeAt, DraftAt, Agrees
  <2> QED
    BY <1>1, <2>1, <2>2, <2>3, WorkKinds
<1>2. CASE \A w \in Worker : Work(w) => worker[w].task # t \/ Take(w)
  <2>1. LeavesAlone(t)
    BY <1>2, OthersAlone
  <2>2. outcome'[t] = outcome[t]
    <3>1. ASSUME NEW w \in Worker, Work(w)
          PROVE  outcome'[t] = outcome[t]
      <4>1. CASE Finish(w)
        BY <1>0, <1>2, <3>1, <4>1 DEF Finish, Take
      <4>2. CASE ~Finish(w)
        BY <3>1, <4>2, WorkKinds DEF Take, Drops, Carries
      <4> QED
        BY <4>1, <4>2
    <3>2. CASE ~\E w \in Worker : Work(w)
      BY <3>2, OtherMoves
    <3> QED
      BY <3>1, <3>2
  <2> QED
    BY <1>0, <2>1, <2>2 DEF LeavesAlone, Agrees
<1> QED
  BY <1>1, <1>2

Booked == WaitingIsFresh /\ AtWork /\ ClickHasDraft /\ AllAgree

LEMMA BookedAlways == Spec => []Booked
<1>1. Init => Booked
  <2> SUFFICES ASSUME Init PROVE Booked
    OBVIOUS
  <2>1. \A q \in Queue : \A i \in 1..Len(Line[q]) : Line[q][i] \in Task
    BY RunnerAssumption
  <2>2. \A q \in Queue : Waiting(q) \subseteq Task
    BY <2>1 DEF Init, Waiting
  <2>3. WaitingIsFresh
    BY <2>2 DEF Init, WaitingIsFresh, Fresh
  <2>4. AtWork /\ ClickHasDraft /\ AllAgree
    BY DEF Init, AtWork, Busy, Idle, ClickHasDraft, NoClick, AllAgree, Agrees
  <2> QED
    BY <2>3, <2>4 DEF Booked
<1>2. Typed /\ HandsOut /\ Booked /\ [Next]_vars => Booked'
  BY WaitingIsFreshStep, AtWorkStep, ClickHasDraftStep, AllAgreeStep DEF Booked
<1> QED
  BY <1>1, <1>2, HandsOutAlways, TypedAlways, PTL DEF Spec

\* Whatever fails and whatever a person clicks meanwhile, a task's charge is
\* booked on the board at most once and whole, and always for a task counted
\* as done (recordCharge and its three callers).
THEOREM ChargeBookedOnceAlways == Spec => []ChargeBookedOnce
<1>1. Booked => ChargeBookedOnce
  BY DEF Booked, AllAgree, Agrees, ChargeBookedOnce
<1> QED
  BY <1>1, BookedAlways, PTL

\* A task counted as done has its draft; one that was refused or discarded has
\* none (saveDraft's INSERT ... WHERE NOT EXISTS and what follows it).
THEOREM DraftMatchesOutcomeAlways == Spec => []DraftMatchesOutcome
<1>1. Booked => DraftMatchesOutcome
  BY DEF Booked, AllAgree, Agrees, DraftMatchesOutcome
<1> QED
  BY <1>1, BookedAlways, PTL

-----------------------------------------------------------------------------
(* What is reserved is what is in flight. *)

\* What each worker holds of the two budgets.
MoneyHeld == [w \in Worker |-> IF HoldsMoney(w)
                               THEN ReservedWorstCase(worker[w].task) ELSE 0]
TokensHeld == [w \in Worker |-> IF HoldsTokens(w)
                                THEN ReservedWorstTokens(worker[w].task) ELSE 0]
InFlight ==
  /\ reserved = SumFunctionOnSet(MoneyHeld, Worker)
  /\ tokensReserved = SumFunctionOnSet(TokensHeld, Worker)

LEMMA HeldTyped ==
  ASSUME WorkersTyped, NEW w \in Worker
  PROVE  MoneyHeld[w] \in Nat /\ TokensHeld[w] \in Nat
<1>1. Busy(w) => InHand(w)
  BY BusyInHand
<1>2. HoldsMoney(w) \/ HoldsTokens(w) => Busy(w)
  BY DEF HoldsMoney, HoldsTokens, Busy
<1> QED
  BY <1>1, <1>2 DEF MoneyHeld, TokensHeld, InHand

HeldAreNat == \A w \in Worker : MoneyHeld[w] \in Nat /\ TokensHeld[w] \in Nat

LEMMA AllHeldTyped == WorkersTyped => HeldAreNat
BY HeldTyped DEF HeldAreNat

LEMMA HeldTypedNext == WorkersTyped' => HeldAreNat'
BY AllHeldTyped, PTL

\* Every step of a worker moves the totals by what it moves of its own.
LEMMA HeldMoves ==
  ASSUME Typed, NEW w \in Worker, Work(w)
  PROVE  /\ reserved' = reserved + MoneyHeld'[w] - MoneyHeld[w]
         /\ tokensReserved' = tokensReserved + TokensHeld'[w] - TokensHeld[w]
<1> USE DEF setupVars, budgetVars, HoldsMoney, HoldsTokens, WorkerRec
<1>0. /\ worker \in [Worker -> WorkerRec]
      /\ reserved \in Int /\ tokensReserved \in Int /\ tokenCeiling \in Nat
      /\ worker[w].pc # "idle" =>
           /\ ReservedWorstCase(worker[w].task) \in Nat
           /\ ReservedWorstTokens(worker[w].task) \in Nat
      /\ MoneyHeld[w] = IF HoldsMoney(w)
                        THEN ReservedWorstCase(worker[w].task) ELSE 0
      /\ TokensHeld[w] = IF HoldsTokens(w)
                         THEN ReservedWorstTokens(worker[w].task) ELSE 0
      /\ MoneyHeld'[w] = IF HoldsMoney(w)'
                         THEN ReservedWorstCase(worker'[w].task) ELSE 0
      /\ TokensHeld'[w] = IF HoldsTokens(w)'
                          THEN ReservedWorstTokens(worker'[w].task) ELSE 0
  BY BusyInHand DEF Typed, WorkersTyped, BudgetTyped, Busy, InHand, MoneyHeld,
     TokensHeld
<1>1. CASE Take(w)
  <2>1. PICK t \in Task :
          worker' = [worker EXCEPT ![w].pc = "taken", ![w].task = t]
    BY <1>1, TakeMoves
  <2>2. worker'[w].pc = "taken" /\ worker[w].pc = "idle"
    BY <1>0, <1>1, <2>1 DEF Take
  <2>3. UNCHANGED <<reserved, tokensReserved>>
    BY <1>1 DEF Take
  <2> QED
    BY <1>0, <2>2, <2>3
<1>2. CASE Round(w)
  <2>1. PICK u \in Usages :
          \/ worker' = [worker EXCEPT ![w].call =
                          FoldRound(worker[w].call, u)]
          \/ worker' = [worker EXCEPT
                          ![w].call = FoldRound(worker[w].call, u),
                          ![w].pc = "settle", ![w].result = "ok"]
    BY <1>2 DEF Round
  <2>2. worker[w].pc = "call" /\ UNCHANGED <<reserved, tokensReserved,
                                             tokenCeiling>>
    BY <1>2 DEF Round
  <2>3. worker'[w].pc \in {"call", "settle"} /\ worker'[w].task = worker[w].task
    BY <1>0, <2>1, <2>2
  <2> QED
    BY <1>0, <2>2, <2>3
<1>3. CASE RoundFails(w)
  <2>1. PICK c, r :
          worker' = [worker EXCEPT ![w].call = c, ![w].pc = "settle",
                                   ![w].result = r]
    BY <1>3 DEF RoundFails
  <2>2. worker[w].pc = "call" /\ UNCHANGED <<reserved, tokensReserved,
                                             tokenCeiling>>
    BY <1>3 DEF RoundFails
  <2>3. worker'[w].pc = "settle" /\ worker'[w].task = worker[w].task
    BY <1>0, <2>1
  <2> QED
    BY <1>0, <2>2, <2>3
<1>4. CASE AskHalted(w)
  BY <1>0, <1>4 DEF AskHalted, Idle
<1>5. CASE HeadersRefused(w)
  BY <1>0, <1>5 DEF HeadersRefused, Goto, Conclude, AfterCall
<1>6. CASE Reserve(w)
  BY <1>0, <1>6 DEF Reserve, Goto, Conclude, AfterCall
<1>7. CASE ReserveTokens(w)
  BY <1>0, <1>7 DEF ReserveTokens, Goto, Conclude, AfterCall
<1>8. CASE Unreserve(w)
  BY <1>0, <1>8 DEF Unreserve, Goto, Conclude, AfterCall
<1>9. CASE Settle(w)
  BY <1>0, <1>9 DEF Settle, Goto, Conclude, AfterCall
<1>10. CASE SettleTokens(w)
  BY <1>0, <1>10 DEF SettleTokens, Goto, Conclude, AfterCall
<1>11. CASE RecordTokens(w)
  BY <1>0, <1>11 DEF RecordTokens, Goto, Conclude, AfterCall
<1>12. CASE InsertDraft(w)
  BY <1>0, <1>12 DEF InsertDraft, Goto, Conclude, AfterCall
<1>13. CASE Options(w)
  BY <1>0, <1>13 DEF Options, Goto, Conclude, AfterCall
<1>14. CASE ReturnCheck(w)
  BY <1>0, <1>14 DEF ReturnCheck, Goto, Conclude, AfterCall
<1>15. CASE ReturnArtifact(w)
  BY <1>0, <1>15 DEF ReturnArtifact, Goto, Conclude, AfterCall
<1>16. CASE ReturnTask(w)
  BY <1>0, <1>16 DEF ReturnTask, Goto, Conclude, AfterCall
<1>17. CASE RecordCharge(w)
  BY <1>0, <1>17 DEF RecordCharge, Goto, Conclude, AfterCall
<1>18. CASE Finish(w)
  BY <1>0, <1>18 DEF Finish, Idle
<1> QED
  BY <1>1, <1>2, <1>3, <1>4, <1>5, <1>6, <1>7, <1>8, <1>9, <1>10, <1>11, <1>12, <1>13, <1>14, <1>15, <1>16, <1>17, <1>18 DEF Work

LEMMA InFlightStep ==
  ASSUME Typed, InFlight, [Next]_vars
  PROVE  InFlight'
<1>0. /\ WorkersTyped /\ WorkersTyped'
      /\ IsFiniteSet(Worker)
  BY TypedStep, RunnerAssumption DEF Typed
<1>1. ASSUME NEW w \in Worker, Work(w)
      PROVE  InFlight'
  <2>1. \A v \in Worker \ {w} :
          MoneyHeld'[v] = MoneyHeld[v] /\ TokensHeld'[v] = TokensHeld[v]
    <3>1. tokenCeiling' = tokenCeiling
      BY <1>1 DEF Work, Take, AskHalted, HeadersRefused, Reserve,
         ReserveTokens, Unreserve, Round, RoundFails, Settle, SettleTokens,
         RecordTokens, InsertDraft, Options, ReturnCheck, ReturnArtifact,
         ReturnTask, RecordCharge, Finish, setupVars
    <3> QED
      BY <1>1, <3>1, WorkKinds DEF MoneyHeld, TokensHeld, HoldsMoney, HoldsTokens
  <2>2. /\ \A v \in Worker : MoneyHeld'[v] \in Int /\ MoneyHeld[v] \in Int
        /\ \A v \in Worker : TokensHeld'[v] \in Int /\ TokensHeld[v] \in Int
    BY <1>0, AllHeldTyped, HeldTypedNext DEF HeldAreNat
  <2>3. SumFunctionOnSet(MoneyHeld', Worker)
          = SumFunctionOnSet(MoneyHeld, Worker) + MoneyHeld'[w] - MoneyHeld[w]
    <3> DEFINE g == MoneyHeld'
               h == MoneyHeld
    <3>1. /\ \A v \in Worker : g[v] \in Int /\ h[v] \in Int
          /\ \A v \in Worker \ {w} : g[v] = h[v]
      BY <2>1, <2>2
    <3> HIDE DEF g, h
    <3>2. SumFunctionOnSet(g, Worker) = SumFunctionOnSet(h, Worker) + g[w] - h[w]
      BY <1>0, <3>1, SumMoves
    <3> QED
      BY <3>2 DEF g, h
  <2>4. SumFunctionOnSet(TokensHeld', Worker)
          = SumFunctionOnSet(TokensHeld, Worker) + TokensHeld'[w] - TokensHeld[w]
    <3> DEFINE g == TokensHeld'
               h == TokensHeld
    <3>1. /\ \A v \in Worker : g[v] \in Int /\ h[v] \in Int
          /\ \A v \in Worker \ {w} : g[v] = h[v]
      BY <2>1, <2>2
    <3> HIDE DEF g, h
    <3>2. SumFunctionOnSet(g, Worker) = SumFunctionOnSet(h, Worker) + g[w] - h[w]
      BY <1>0, <3>1, SumMoves
    <3> QED
      BY <3>2 DEF g, h
  <2> QED
    BY <1>1, <2>3, <2>4, HeldMoves DEF InFlight
<1>2. CASE ~\E w \in Worker : Work(w)
  <2>1. UNCHANGED <<worker, reserved, tokensReserved, tokenCeiling>>
    BY <1>2, OtherMoves DEF Next, Preflight, EndRun, Feed, Person, PersonReads,
       PersonWritesArtifact, PersonWritesTask, vars, setupVars, budgetVars
  <2>2. MoneyHeld' = MoneyHeld /\ TokensHeld' = TokensHeld
    BY <2>1 DEF MoneyHeld, TokensHeld, HoldsMoney, HoldsTokens
  <2> QED
    BY <2>1, <2>2 DEF InFlight
<1> QED
  BY <1>1, <1>2

LEMMA InFlightInit == Init => InFlight
<1> SUFFICES ASSUME Init PROVE InFlight
  OBVIOUS
<1>1. \A w \in Worker : MoneyHeld[w] = 0 /\ TokensHeld[w] = 0
  BY DEF Init, Idle, MoneyHeld, TokensHeld, HoldsMoney, HoldsTokens
<1>2. IsFiniteSet(Worker) /\ IsFiniteSet({}) /\ {} \in SUBSET Worker
  BY RunnerAssumption, FS_EmptySet
<1>3. /\ SumFunctionOnSet(MoneyHeld, Worker) = SumFunctionOnSet(MoneyHeld, {})
      /\ SumFunctionOnSet(TokensHeld, Worker) = SumFunctionOnSet(TokensHeld, {})
  BY <1>1, <1>2, SumSkips
<1>4. /\ SumFunctionOnSet(MoneyHeld, {}) = 0
      /\ SumFunctionOnSet(TokensHeld, {}) = 0
  BY <1>2, SumUnfolds
<1> QED
  BY <1>3, <1>4 DEF Init, InFlight

\* The sums the property speaks of are the sums of what the workers hold.
LEMMA MoneyInFlight ==
  ASSUME WorkersTyped
  PROVE  MapThenSumSet(LAMBDA w : ReservedWorstCase(worker[w].task),
                       {w \in Worker : HoldsMoney(w)})
           = SumFunctionOnSet(MoneyHeld, Worker)
<1> DEFINE S == {w \in Worker : HoldsMoney(w)}
           sum(F) == F = [s \in SUBSET S |-> IF s = {} THEN 0
                     ELSE ReservedWorstCase(worker[Pick(s)].task)
                          + F[s \ {Pick(s)}]]
<1>1. IsFiniteSet(S) /\ S \in SUBSET Worker /\ IsFiniteSet(Worker)
  BY RunnerAssumption, FS_Subset
<1>2. \A s \in SUBSET S :
        s # {} => MoneyHeld[Pick(s)] = ReservedWorstCase(worker[Pick(s)].task)
  BY PickIn DEF MoneyHeld
<1>3. ASSUME NEW F
      PROVE  [s \in SUBSET S |-> IF s = {} THEN 0
                ELSE ReservedWorstCase(worker[Pick(s)].task) + F[s \ {Pick(s)}]]
               = [s \in SUBSET S |-> IF s = {} THEN 0
                    ELSE MoneyHeld[Pick(s)] + F[s \ {Pick(s)}]]
  <2> HIDE DEF S
  <2> QED
    BY <1>2
<1>4. \A F : sum(F) <=> AddsUp(F, MoneyHeld, S)
  <2> HIDE DEF S
  <2> QED
    BY <1>3, Zenon DEF AddsUp
<1>5. PICK F : AddsUp(F, MoneyHeld, S)
  BY <1>1, SumExists
<1>6. MapThenSumSet(LAMBDA w : ReservedWorstCase(worker[w].task), S)
        = (CHOOSE X : sum(X))[S]
  BY DEF MapThenSumSet, MapThenFoldSet, Pick
<1> HIDE DEF sum
<1>7. sum(CHOOSE X : sum(X))
  BY <1>4, <1>5
<1>8. SumFunctionOnSet(MoneyHeld, S) = (CHOOSE X : sum(X))[S]
  <2>1. S \in SUBSET S
    OBVIOUS
  <2>2. AddsUp(CHOOSE X : sum(X), MoneyHeld, S)
    BY <1>4, <1>7
  <2> HIDE DEF S
  <2> QED
    BY <1>1, <2>1, <2>2, SumIsSolution
<1>9. SumFunctionOnSet(MoneyHeld, Worker) = SumFunctionOnSet(MoneyHeld, S)
  <2>1. \A w \in Worker : MoneyHeld[w] \in Int
    BY HeldTyped
  <2>2. \A w \in Worker \ S : MoneyHeld[w] = 0
    BY DEF MoneyHeld
  <2> HIDE DEF S
  <2> QED
    BY <1>1, <2>1, <2>2, SumSkips
<1> QED
  BY <1>6, <1>8, <1>9

LEMMA TokensInFlight ==
  ASSUME WorkersTyped
  PROVE  MapThenSumSet(LAMBDA w : ReservedWorstTokens(worker[w].task),
                       {w \in Worker : HoldsTokens(w)})
           = SumFunctionOnSet(TokensHeld, Worker)
<1> DEFINE S == {w \in Worker : HoldsTokens(w)}
           sum(F) == F = [s \in SUBSET S |-> IF s = {} THEN 0
                     ELSE ReservedWorstTokens(worker[Pick(s)].task)
                          + F[s \ {Pick(s)}]]
<1>1. IsFiniteSet(S) /\ S \in SUBSET Worker /\ IsFiniteSet(Worker)
  BY RunnerAssumption, FS_Subset
<1>2. \A s \in SUBSET S :
        s # {} => TokensHeld[Pick(s)] = ReservedWorstTokens(worker[Pick(s)].task)
  BY PickIn DEF TokensHeld
<1>3. ASSUME NEW F
      PROVE  [s \in SUBSET S |-> IF s = {} THEN 0
                ELSE ReservedWorstTokens(worker[Pick(s)].task) + F[s \ {Pick(s)}]]
               = [s \in SUBSET S |-> IF s = {} THEN 0
                    ELSE TokensHeld[Pick(s)] + F[s \ {Pick(s)}]]
  <2> HIDE DEF S
  <2> QED
    BY <1>2
<1>4. \A F : sum(F) <=> AddsUp(F, TokensHeld, S)
  <2> HIDE DEF S
  <2> QED
    BY <1>3, Zenon DEF AddsUp
<1>5. PICK F : AddsUp(F, TokensHeld, S)
  BY <1>1, SumExists
<1>6. MapThenSumSet(LAMBDA w : ReservedWorstTokens(worker[w].task), S)
        = (CHOOSE X : sum(X))[S]
  BY DEF MapThenSumSet, MapThenFoldSet, Pick
<1> HIDE DEF sum
<1>7. sum(CHOOSE X : sum(X))
  BY <1>4, <1>5
<1>8. SumFunctionOnSet(TokensHeld, S) = (CHOOSE X : sum(X))[S]
  <2>1. S \in SUBSET S
    OBVIOUS
  <2>2. AddsUp(CHOOSE X : sum(X), TokensHeld, S)
    BY <1>4, <1>7
  <2> HIDE DEF S
  <2> QED
    BY <1>1, <2>1, <2>2, SumIsSolution
<1>9. SumFunctionOnSet(TokensHeld, Worker) = SumFunctionOnSet(TokensHeld, S)
  <2>1. \A w \in Worker : TokensHeld[w] \in Int
    BY HeldTyped
  <2>2. \A w \in Worker \ S : TokensHeld[w] = 0
    BY DEF TokensHeld
  <2> HIDE DEF S
  <2> QED
    BY <1>1, <2>1, <2>2, SumSkips
<1> QED
  BY <1>6, <1>8, <1>9

\* However the workers interleave, what is reserved of either ceiling is the
\* worst case of the tasks in flight: a refusal, a failed call, a settlement
\* and the undoing of a reservation each give back what their own reserve()
\* took (runBudget).
THEOREM ReservedIsInFlightAlways == Spec => []ReservedIsInFlight
<1>1. Typed /\ InFlight /\ [Next]_vars => InFlight'
  BY InFlightStep
<1>2. Typed /\ InFlight => ReservedIsInFlight
  BY MoneyInFlight, TokensInFlight DEF Typed, InFlight, ReservedIsInFlight
<1> QED
  BY <1>1, <1>2, InFlightInit, TypedAlways, PTL DEF Spec

-----------------------------------------------------------------------------
(* The settled cents add up. *)

\* A number is its whole cents and a remainder of less than one.
LEMMA WholeAndRest ==
  ASSUME NEW n \in Nat
  PROVE  /\ n \div Cent \in Nat /\ n % Cent \in 0..(Cent - 1)
         /\ n = Cent * (n \div Cent) + (n % Cent)
BY CentAssumption

\* Rounding up goes to the next whole cent, and by less than one.
LEMMA RoundsUp ==
  ASSUME NEW n \in Nat
  PROVE  LET c == (n + Cent - 1) \div Cent
         IN  c \in Nat /\ c * Cent >= n /\ (c - 1) * Cent < n
<1> DEFINE c == (n + Cent - 1) \div Cent
<1>1. n + Cent - 1 \in Nat /\ Cent \in Nat \ {0}
  BY CentAssumption
<1>2. /\ c \in Nat /\ (n + Cent - 1) % Cent \in 0..(Cent - 1)
      /\ n + Cent - 1 = Cent * c + ((n + Cent - 1) % Cent)
  BY <1>1, WholeAndRest
<1> HIDE DEF c
<1>3. c * Cent = Cent * c /\ (c - 1) * Cent = Cent * c - Cent /\ Cent * c \in Nat
  BY <1>1, <1>2
<1>4. c * Cent >= n /\ (c - 1) * Cent < n
  <2> DEFINE d == Cent * c
             r == (n + Cent - 1) % Cent
  <2>1. /\ d \in Nat /\ r \in 0..(Cent - 1) /\ n + Cent - 1 = d + r
        /\ c * Cent = d /\ (c - 1) * Cent = d - Cent
    BY <1>2, <1>3
  <2> HIDE DEF d, r
  <2> QED
    BY <1>1, <2>1
<1> QED
  BY <1>2, <1>4 DEF c

\* In a finite set ranked by a strict total order, as many come before the
\* L-th as L says.
LEMMA RanksCount ==
  ASSUME NEW R, IsFiniteSet(R), NEW rank \in [R -> Nat],
         \A t \in R : rank[t] < Cardinality(R),
         \A t, u \in R : rank[t] = rank[u] => t = u,
         NEW L \in 0..Cardinality(R)
  PROVE  Cardinality({t \in R : rank[t] < L}) = L
<1> DEFINE n == Cardinality(R)
           T == {t \in R : rank[t] < L}
           f == [t \in T |-> rank[t]]
<1>1. n \in Nat
  BY FS_CardinalityType
<1>2. rank \in Injection(R, 0..(n - 1))
  BY <1>1 DEF Injection, IsInjective
<1>3. IsFiniteSet(0..(n - 1)) /\ Cardinality(0..(n - 1)) = n
  <2> HIDE DEF n
  <2> QED BY <1>1, FS_Interval
<1>4. rank \in Surjection(R, 0..(n - 1))
  BY <1>2, <1>3, FS_Injection
<1>5. \A i \in 0..(n - 1) : \E t \in R : rank[t] = i
  BY <1>4 DEF Surjection
<1>6. f \in Bijection(T, 0..(L - 1))
  <2>1. f \in [T -> 0..(L - 1)]
    BY <1>1
  <2>2. \A t, u \in T : f[t] = f[u] => t = u
    OBVIOUS
  <2>3. \A i \in 0..(L - 1) : \E t \in T : f[t] = i
    BY <1>1, <1>5
  <2> HIDE DEF f
  <2> QED BY <2>1, <2>2, <2>3 DEF Bijection, Injection, Surjection, IsInjective
<1>7. IsFiniteSet(T) /\ ExistsBijection(T, 0..(L - 1))
  BY <1>6, FS_Subset DEF ExistsBijection
<1>8. Cardinality(0..(L - 1)) = Cardinality(T)
  <2> HIDE DEF T
  <2> QED BY <1>7, FS_Bijection
<1>9. Cardinality(0..(L - 1)) = L
  BY <1>1, FS_Interval
<1> QED
  BY <1>8, <1>9

\* The largest remainder first, ties to the lower task: a strict total order,
\* in which a task without a remainder comes after every task with one.
LEMMA RowsRanked ==
  ASSUME NEW m \in [Task -> Nat]
  PROVE  LET R == Rows(m)
             rank == [t \in R |-> Cardinality(SortedBefore(m, t))]
         IN  /\ R \in SUBSET Task /\ IsFiniteSet(R)
             /\ rank \in [R -> Nat]
             /\ \A t \in R : rank[t] < Cardinality(R)
             /\ \A t, u \in R : rank[t] = rank[u] => t = u
             /\ \A t \in R : m[t] % Cent = 0 =>
                  Cardinality({u \in R : m[u] % Cent > 0}) <= rank[t]
<1> DEFINE R == Rows(m)
           rank == [t \in R |-> Cardinality(SortedBefore(m, t))]
           rest(t) == m[t] % Cent
           before(t) == SortedBefore(m, t)
<1>1. R \in SUBSET Task /\ IsFiniteSet(R) /\ R \subseteq Nat
  BY RunnerAssumption, FS_Subset DEF Rows
<1>2. \A t \in R : rest(t) \in Nat
  BY <1>1, WholeAndRest
<1> HIDE DEF rest
<1>3. \A t \in R : before(t) = {u \in R : rest(u) > rest(t)
                                  \/ (rest(u) = rest(t) /\ u < t)}
  BY Zenon DEF SortedBefore, rest
<1>4. \A t \in R : before(t) \in SUBSET R /\ t \notin before(t)
  BY <1>1, <1>2, <1>3
<1> HIDE DEF before
<1>5. \A t \in R : /\ IsFiniteSet(before(t)) /\ Cardinality(before(t)) \in Nat
                   /\ Cardinality(before(t)) < Cardinality(R)
  <2> SUFFICES ASSUME NEW t \in R
               PROVE  /\ IsFiniteSet(before(t))
                      /\ Cardinality(before(t)) \in Nat
                      /\ Cardinality(before(t)) < Cardinality(R)
    OBVIOUS
  <2>1. IsFiniteSet(before(t)) /\ Cardinality(before(t)) <= Cardinality(R)
        /\ (Cardinality(before(t)) = Cardinality(R) => before(t) = R)
    <3> HIDE DEF R
    <3> QED BY <1>1, <1>4, FS_Subset
  <2>2. Cardinality(before(t)) \in Nat /\ Cardinality(R) \in Nat
    BY <1>1, <2>1, FS_CardinalityType
  <2>3. before(t) # R
    BY <1>4
  <2> QED
    BY <2>1, <2>2, <2>3
<1>6. \A t \in R : rank[t] = Cardinality(before(t))
  BY DEF before
<1>7. ASSUME NEW t \in R, NEW u \in R, t \in before(u)
      PROVE  rank[t] < rank[u]
  <2>1. before(t) \cup {t} \subseteq before(u)
    BY <1>1, <1>2, <1>3, <1>7
  <2>2. Cardinality(before(t) \cup {t}) = Cardinality(before(t)) + 1
    BY <1>4, <1>5, FS_AddElement
  <2>3. Cardinality(before(t) \cup {t}) <= Cardinality(before(u))
    BY <1>5, <2>1, FS_Subset
  <2> QED
    BY <1>5, <1>6, <2>2, <2>3
<1>8. ASSUME NEW t \in R, NEW u \in R, t # u
      PROVE  t \in before(u) \/ u \in before(t)
  <2> HIDE DEF R
  <2>1. t \in Nat /\ u \in Nat /\ rest(t) \in Nat /\ rest(u) \in Nat
    BY <1>1, <1>2
  <2>2. t \in before(u) <=> rest(t) > rest(u) \/ (rest(t) = rest(u) /\ t < u)
    BY <1>3
  <2>3. u \in before(t) <=> rest(u) > rest(t) \/ (rest(u) = rest(t) /\ u < t)
    BY <1>3
  <2> QED
    BY <1>8, <2>1, <2>2, <2>3
<1>9. \A t \in R : rank[t] \in Nat
  BY <1>5, <1>6
<1>10. \A t, u \in R : rank[t] = rank[u] => t = u
  BY <1>7, <1>8, <1>9
<1>11. ASSUME NEW t \in R, rest(t) = 0
       PROVE  Cardinality({u \in R : rest(u) > 0}) <= rank[t]
  <2> HIDE DEF R
  <2>1. {u \in R : rest(u) > 0} \in SUBSET before(t)
    BY <1>3, <1>11
  <2> QED
    BY <1>5, <1>6, <2>1, FS_Subset
<1>12. rank \in [R -> Nat]
  BY <1>9
<1>13. \A t \in R : rank[t] < Cardinality(R)
  BY <1>5, <1>6
<1> HIDE DEF rank, R
<1>14. \A t \in R : m[t] % Cent = 0 =>
         Cardinality({u \in R : m[u] % Cent > 0}) <= rank[t]
  BY <1>11 DEF rest
<1> QED
  BY <1>1, <1>10, <1>12, <1>13, <1>14 DEF rank, R

\* At least nothing and at most one cent for every remainder is left over,
\* once every task has its whole cents.
LEMMA LeftoverFits ==
  ASSUME NEW w \in Int, NEW s \in Nat, NEW p \in Nat, s <= (Cent - 1) * p,
         NEW c \in Int, c * Cent >= Cent * w + s, (c - 1) * Cent < Cent * w + s
  PROVE  c - w \in 0..p
<1>0. Cent \in Nat /\ Cent >= 1
  BY CentAssumption
<1> DEFINE l == c - w
<1>1. l \in Int /\ c = l + w
  OBVIOUS
<1> HIDE DEF l
<1>2. /\ c * Cent = Cent * w + Cent * l
      /\ (c - 1) * Cent = Cent * w + Cent * l - Cent
      /\ Cent * w \in Int /\ Cent * l \in Int
  BY <1>0, <1>1
<1>3. Cent * l >= s /\ Cent * l - Cent < s
  <2> DEFINE a == Cent * w
             b == Cent * l
  <2>1. a \in Int /\ b \in Int /\ a + b >= a + s /\ a + b - Cent < a + s
    BY <1>2
  <2> HIDE DEF a, b
  <2>2. b >= s /\ b - Cent < s
    BY <1>0, <2>1
  <2> QED BY <2>2 DEF b
<1>4. l >= 0
  <2> SUFFICES ASSUME l <= -1 PROVE FALSE
    BY <1>1
  <2>1. Cent * l <= Cent * (-1)
    BY <1>0, <1>1
  <2> QED
    BY <1>0, <1>2, <1>3, <2>1
<1>5. l <= p
  <2> SUFFICES ASSUME l >= p + 1 PROVE FALSE
    BY <1>1
  <2>1. Cent * l >= Cent * (p + 1)
    BY <1>0, <1>1
  <2>2. Cent * (p + 1) = Cent * p + Cent /\ (Cent - 1) * p = Cent * p - p
        /\ Cent * p \in Nat
    BY <1>0
  <2> QED
    BY <1>0, <1>2, <1>3, <2>1, <2>2
<1> QED
  BY <1>1, <1>4, <1>5 DEF l

\* One point of a remainder at most stands for one cent, less one micro-dollar.
LEMMA RestIsSmall ==
  ASSUME NEW R, IsFiniteSet(R), NEW rest,
         \A t \in R : rest[t] \in 0..(Cent - 1)
  PROVE  LET P == {t \in R : rest[t] > 0}
         IN  /\ SumFunctionOnSet(rest, R) \in Nat
             /\ SumFunctionOnSet(rest, R) <= (Cent - 1) * Cardinality(P)
<1> DEFINE P == {t \in R : rest[t] > 0}
           all == [t \in P |-> Cent - 1]
           one == [t \in P |-> 1]
<1>1. Cent - 1 \in Int /\ IsFiniteSet(P) /\ P \in SUBSET R
  BY CentAssumption, FS_Subset
<1>2. \A t \in R : rest[t] \in Nat /\ rest[t] \in Int /\ rest[t] <= Cent - 1
  BY <1>1
<1>3. SumFunctionOnSet(rest, R) = SumFunctionOnSet(rest, P)
  <2>1. \A t \in R \ P : rest[t] = 0
    BY <1>2
  <2> HIDE DEF P
  <2> QED BY <1>1, <1>2, <2>1, SumSkips
<1>4. SumFunctionOnSet(rest, P) <= SumFunctionOnSet(all, P)
  <2>1. \A t \in P : rest[t] \in Int /\ all[t] \in Int /\ rest[t] <= all[t]
    BY <1>1, <1>2
  <2> HIDE DEF P, all
  <2> QED BY <1>1, <2>1, SumGrows
<1>5. SumFunctionOnSet(all, P) = (Cent - 1) * SumFunctionOnSet(one, P)
  <2>1. \A t \in P : one[t] \in Int /\ all[t] = (Cent - 1) * one[t]
    BY <1>1
  <2> HIDE DEF P, all, one
  <2> QED BY <1>1, <2>1, SumScales
<1>6. SumFunctionOnSet(one, P) = Cardinality(P)
  <2>1. \A t \in P : one[t] = 1
    OBVIOUS
  <2> HIDE DEF P, one
  <2> QED BY <1>1, <2>1, SumCounts
<1>7. SumFunctionOnSet(rest, R) \in Nat
  BY <1>2, SumIsNat
<1> HIDE DEF P, all, one
<1> QED
  BY <1>3, <1>4, <1>5, <1>6, <1>7 DEF P

\* The whole cents and the remainders are the whole cost.
LEMMA SplitsUp ==
  ASSUME NEW R, IsFiniteSet(R), NEW m, \A t \in R : m[t] \in Nat
  PROVE  LET whole == [t \in R |-> m[t] \div Cent]
             rest == [t \in R |-> m[t] % Cent]
         IN  /\ SumFunctionOnSet(whole, R) \in Nat
             /\ SumFunctionOnSet(m, R) =
                  Cent * SumFunctionOnSet(whole, R) + SumFunctionOnSet(rest, R)
<1> DEFINE whole == [t \in R |-> m[t] \div Cent]
           rest == [t \in R |-> m[t] % Cent]
           price == [t \in R |-> Cent * (m[t] \div Cent)]
<1>0. Cent \in Int
  BY CentAssumption
<1>1. \A t \in R : /\ m[t] \div Cent \in Nat /\ m[t] % Cent \in 0..(Cent - 1)
                   /\ m[t] = Cent * (m[t] \div Cent) + (m[t] % Cent)
  BY WholeAndRest
<1>2. \A t \in R : /\ whole[t] \in Nat /\ whole[t] \in Int
                   /\ price[t] = Cent * whole[t]
  BY <1>1
<1>3. \A t \in R : price[t] \in Int /\ rest[t] \in Int
                   /\ m[t] = price[t] + rest[t]
  BY <1>0, <1>1
<1> HIDE DEF whole, rest, price
<1>4. SumFunctionOnSet(m, R) =
        SumFunctionOnSet(price, R) + SumFunctionOnSet(rest, R)
  BY <1>3, SumAdds
<1>5. SumFunctionOnSet(price, R) = Cent * SumFunctionOnSet(whole, R)
  BY <1>0, <1>2, SumScales
<1>6. SumFunctionOnSet(whole, R) \in Nat
  BY <1>2, SumIsNat
<1> QED
  BY <1>4, <1>5, <1>6 DEF whole, rest

\* SettleLiveSpend hands out exactly the cents it wants, and no task's share
\* is a whole cent or more away from its own cost.
LEMMA GiveAddsUp ==
  ASSUME NEW m \in [Task -> Nat]
  PROVE  LET R == Rows(m)
             total == SumFunctionOnSet(m, R)
             given == SumFunctionOnSet(Give(m), R)
         IN  /\ given * Cent >= total /\ (given - 1) * Cent < total
             /\ \A t \in R : /\ Give(m)[t] \in Nat
                             /\ Give(m)[t] * Cent > m[t] - Cent
                             /\ Give(m)[t] * Cent < m[t] + Cent
<1> DEFINE R == Rows(m)
           rank == [t \in R |-> Cardinality(SortedBefore(m, t))]
           whole == [t \in R |-> m[t] \div Cent]
           rest == [t \in R |-> m[t] % Cent]
           P == {t \in R : rest[t] > 0}
           total == SumFunctionOnSet(m, R)
           w == SumFunctionOnSet(whole, R)
           s == SumFunctionOnSet(rest, R)
           c == Want(m)
           l == c - w
           extra == [t \in R |-> IF rank[t] < l THEN 1 ELSE 0]
           g == Give(m)
<1>1. /\ R \in SUBSET Task /\ IsFiniteSet(R) /\ rank \in [R -> Nat]
      /\ \A t \in R : rank[t] < Cardinality(R)
      /\ \A t, u \in R : rank[t] = rank[u] => t = u
      /\ \A t \in R : rest[t] = 0 => Cardinality(P) <= rank[t]
  <2>1. P = {t \in R : m[t] % Cent > 0}
    OBVIOUS
  <2> HIDE DEF P, R
  <2> QED BY <2>1, RowsRanked DEF R
<1>2. \A t \in R : m[t] \in Nat
  BY <1>1
<1>3. \A t \in R : /\ whole[t] \in Nat /\ rest[t] \in 0..(Cent - 1)
                   /\ m[t] = Cent * whole[t] + rest[t]
  BY <1>2, WholeAndRest
<1>4. g = [t \in R |-> whole[t] + extra[t]]
  <2>1. SumFunction(WholeCents(m)) = w
    BY DEF SumFunction, WholeCents
  <2>2. g = [t \in R |-> whole[t] + (IF Cardinality(SortedBefore(m, t)) < l
                                       THEN 1 ELSE 0)]
    BY <2>1, Zenon DEF Give, WholeCents
  <2> QED BY <2>2
<1>5. total \in Nat /\ c = (total + Cent - 1) \div Cent
  <2>1. total \in Nat
    <3> HIDE DEF R
    <3> QED BY <1>1, <1>2, SumIsNat
  <2> QED BY <2>1 DEF Want
<1>6. w \in Nat /\ total = Cent * w + s
  <2> HIDE DEF R
  <2> QED BY <1>1, <1>2, SplitsUp
<1>7. s \in Nat /\ s <= (Cent - 1) * Cardinality(P)
  <2> HIDE DEF R, rest
  <2> QED BY <1>1, <1>3, RestIsSmall
<1>8. /\ IsFiniteSet(P) /\ Cardinality(P) \in Nat
      /\ Cardinality(P) <= Cardinality(R) /\ Cardinality(R) \in Nat
  <2>1. P \in SUBSET R
    OBVIOUS
  <2> HIDE DEF P, R
  <2> QED BY <1>1, <2>1, FS_Subset, FS_CardinalityType
<1> HIDE DEF R, rank, whole, rest, P, total, w, s, c, g
<1>9. c \in Nat /\ c * Cent >= total /\ (c - 1) * Cent < total
  BY <1>5, RoundsUp
<1>10. l \in 0..Cardinality(P)
  BY <1>6, <1>7, <1>8, <1>9, LeftoverFits
<1>11. l \in 0..Cardinality(R) /\ l \in Int
  BY <1>8, <1>10
<1> HIDE DEF l
<1>12. SumFunctionOnSet(extra, R) = l
  <2> DEFINE T == {t \in R : rank[t] < l}
  <2>1. Cardinality(T) = l
    BY <1>1, <1>11, RanksCount
  <2>2. T \in SUBSET R /\ IsFiniteSet(T)
    BY <1>1, FS_Subset
  <2>3. /\ \A t \in R : extra[t] \in Int
        /\ \A t \in R \ T : extra[t] = 0
        /\ \A t \in T : extra[t] = 1
    OBVIOUS
  <2> HIDE DEF T, extra
  <2>4. SumFunctionOnSet(extra, R) = SumFunctionOnSet(extra, T)
    BY <1>1, <2>2, <2>3, SumSkips
  <2>5. SumFunctionOnSet(extra, T) = Cardinality(T)
    BY <2>2, <2>3, SumCounts
  <2> QED
    BY <2>1, <2>4, <2>5
<1>13. SumFunctionOnSet(g, R) = c
  <2>1. \A t \in R : /\ whole[t] \in Int /\ extra[t] \in Int
                     /\ g[t] = whole[t] + extra[t]
    BY <1>3, <1>4
  <2> HIDE DEF extra
  <2>2. SumFunctionOnSet(g, R) = w + SumFunctionOnSet(extra, R)
    BY <1>1, <2>1, SumAdds DEF w
  <2> QED
    BY <1>6, <1>9, <1>12, <2>2 DEF l
<1>14. ASSUME NEW t \in R
       PROVE  g[t] \in Nat /\ g[t] * Cent > m[t] - Cent
              /\ g[t] * Cent < m[t] + Cent
  <2> DEFINE e == extra[t]
             d == Cent * whole[t]
  <2>1. /\ e \in {0, 1} /\ (rest[t] = 0 => e = 0)
    BY <1>1, <1>8, <1>10, <1>11
  <2>2. g[t] = whole[t] + e
    BY <1>4
  <2>3. Cent \in Nat /\ Cent >= 1 /\ whole[t] \in Nat
        /\ rest[t] \in Nat /\ rest[t] < Cent
    BY <1>3, CentAssumption
  <2>4. (e = 0 => g[t] * Cent = d) /\ (e = 1 => g[t] * Cent = d + Cent)
        /\ d \in Nat /\ g[t] \in Nat
    <3> HIDE DEF e
    <3>1. CASE e = 0
      BY <2>2, <2>3, <3>1
    <3>2. CASE e = 1
      BY <2>2, <2>3, <3>2
    <3> QED
      BY <2>1, <3>1, <3>2
  <2>5. m[t] = d + rest[t]
    BY <1>3
  <2> HIDE DEF e, d, extra
  <2> QED
    BY <2>1, <2>3, <2>4, <2>5
<1> QED
  BY <1>9, <1>13, <1>14 DEF R, total, g

\* Until it is settled the ledger holds what earlier runs booked.
LedgerHeld ==
  phase # "ended" =>
    /\ cents \in [Task -> Nat] /\ booked = cents
    /\ \A t \in Task : micros[t] = 0 => cents[t] = 0

\* No step but EndRun books cents, and a task's cost only grows, and only
\* while the run lasts.
LEMMA CostGrows ==
  ASSUME Typed, AllGone, [Next]_vars, ~EndRun
  PROVE  /\ UNCHANGED <<cents, booked>>
         /\ phase' = "ended" <=> phase = "ended"
         /\ phase = "ended" => micros' = micros
         /\ \A t \in Task : micros'[t] = 0 => micros[t] = 0
<1> USE DEF runVars, setupVars, budgetVars, ledgerVars, clickVars
<1>0. micros \in [Task -> Nat]
  BY DEF Typed, BoardTyped
<1>1. ASSUME NEW w \in Worker, RecordCharge(w)
      PROVE  /\ UNCHANGED <<phase, cents, booked>> /\ phase # "ended"
             /\ \A t \in Task : micros'[t] = 0 => micros[t] = 0
  <2> DEFINE t == worker[w].task
             x == ChargeMicros(worker[w].call)
  <2>1. t \in Task /\ x \in Nat
    BY <1>1, BusyInHand DEF RecordCharge, Busy, InHand, Typed
  <2>2. micros' = [micros EXCEPT ![t] = @ + x] \/ micros' = micros
    BY <1>1, Zenon DEF RecordCharge
  <2>3. phase # "ended"
    BY <1>1 DEF RecordCharge, AllGone, Exited
  <2>4. UNCHANGED <<phase, cents, booked>>
    BY <1>1 DEF RecordCharge
  <2> HIDE DEF x, t
  <2>5. \A u \in Task : micros'[u] = 0 => micros[u] = 0
    BY <1>0, <2>1, <2>2
  <2> QED
    BY <2>3, <2>4, <2>5
<1>2. ASSUME NEW w \in Worker, Work(w), ~RecordCharge(w)
      PROVE  UNCHANGED <<phase, micros, cents, booked>>
  BY <1>2 DEF Work, Take, AskHalted, HeadersRefused, Reserve, ReserveTokens,
     Unreserve, Round, RoundFails, Settle, SettleTokens, RecordTokens,
     InsertDraft, Options, ReturnCheck, ReturnArtifact, ReturnTask, Finish
<1>3. CASE ~\E w \in Worker : Work(w)
  BY <1>3 DEF Next, Preflight, Feed, Person, PersonReads,
     PersonWritesArtifact, PersonWritesTask, vars
<1> QED
  BY <1>1, <1>2, <1>3

LEMMA LedgerHeldStep ==
  ASSUME Typed, AllGone, LedgerHeld, [Next]_vars
  PROVE  LedgerHeld'
<1>1. CASE EndRun
  <2>1. CASE phase' = "ended"
    BY <2>1 DEF LedgerHeld
  <2>2. CASE phase' # "ended"
    BY <1>1, <2>2 DEF EndRun, LedgerHeld
  <2> QED
    BY <2>1, <2>2
<1>2. CASE ~EndRun
  BY <1>2, CostGrows DEF LedgerHeld
<1> QED
  BY <1>1, <1>2

\* SettleLiveSpend's one transaction: what it writes is what GiveAddsUp says.
LEMMA SettlesUp ==
  ASSUME Typed, LedgerHeld, phase # "ended", SettleLiveSpend, micros' = micros
  PROVE  CentsAddUp'
<1> DEFINE R == Rows(micros)
           g == Give(micros)
           c == cents'
<1>1. /\ micros \in [Task -> Nat] /\ cents \in [Task -> Nat] /\ booked = cents
      /\ \A t \in Task : micros[t] = 0 => cents[t] = 0
  BY DEF Typed, BoardTyped, LedgerHeld
<1>2. /\ R \in SUBSET Task /\ IsFiniteSet(R) /\ IsFiniteSet(Task)
      /\ \A t \in Task \ R : micros[t] = 0
  BY <1>1, RunnerAssumption, FS_Subset DEF Rows
<1>3. /\ SumFunctionOnSet(g, R) * Cent >= SumFunctionOnSet(micros, R)
      /\ (SumFunctionOnSet(g, R) - 1) * Cent < SumFunctionOnSet(micros, R)
      /\ \A t \in R : /\ g[t] \in Nat
                      /\ g[t] * Cent > micros[t] - Cent
                      /\ g[t] * Cent < micros[t] + Cent
  BY <1>1, GiveAddsUp
<1>4. /\ c = [t \in Task |-> IF t \in R THEN g[t] ELSE cents[t]]
      /\ booked' = [t \in Task |-> IF t \in R THEN booked[t] + g[t] - cents[t]
                                   ELSE booked[t]]
  BY Zenon DEF SettleLiveSpend
<1> HIDE DEF R, g, c
<1>5. /\ \A t \in R : c[t] = g[t]
      /\ \A t \in Task \ R : c[t] = 0
      /\ \A t \in Task : c[t] \in Nat /\ booked'[t] = c[t]
  BY <1>1, <1>2, <1>3, <1>4
<1>6. SumFunctionOnSet(c, Task) = SumFunctionOnSet(g, R)
  <2>1. SumFunctionOnSet(c, Task) = SumFunctionOnSet(c, R)
    BY <1>2, <1>5, SumSkips
  <2>2. SumFunctionOnSet(c, R) = SumFunctionOnSet(g, R)
    BY <1>2, <1>5, SumAgrees
  <2> QED
    BY <2>1, <2>2
<1>7. SumFunctionOnSet(micros, Task) = SumFunctionOnSet(micros, R)
  BY <1>1, <1>2, SumSkips
<1>8. SumFunction(c) = SumFunctionOnSet(c, Task)
      /\ SumFunction(micros) = SumFunctionOnSet(micros, Task)
  BY <1>1, <1>4, Zenon DEF SumFunction
<1>9. ASSUME NEW t \in Task
      PROVE  c[t] * Cent > micros[t] - Cent /\ c[t] * Cent < micros[t] + Cent
  <2>1. CASE t \in R
    BY <1>3, <1>5, <2>1
  <2>2. CASE t \notin R
    BY <1>2, <1>5, <2>2, CentAssumption
  <2> QED
    BY <2>1, <2>2
<1>10. /\ SumFunction(c) * Cent >= SumFunction(micros)
       /\ (SumFunction(c) - 1) * Cent < SumFunction(micros)
  BY <1>3, <1>6, <1>7, <1>8
<1> QED
  BY <1>5, <1>9, <1>10 DEF CentsAddUp, c

LEMMA CentsAddUpStep ==
  ASSUME Typed, AllGone, LedgerHeld, CentsAddUp, [Next]_vars
  PROVE  CentsAddUp'
<1>1. CASE EndRun
  <2>1. CASE phase' = "ended"
    <3>1. phase # "ended" /\ SettleLiveSpend /\ micros' = micros
      BY <1>1, <2>1 DEF EndRun
    <3> QED
      BY <3>1, SettlesUp
  <2>2. CASE phase' # "ended"
    BY <2>2 DEF CentsAddUp
  <2> QED
    BY <2>1, <2>2
<1>2. CASE ~EndRun
  <2>1. /\ UNCHANGED <<cents, booked>>
        /\ phase' = "ended" <=> phase = "ended"
        /\ phase = "ended" => micros' = micros
    BY <1>2, CostGrows
  <2> QED
    BY <2>1 DEF CentsAddUp
<1> QED
  BY <1>1, <1>2

\* Whatever earlier runs booked and however many micro-dollars each task cost,
\* the settled cents are the exact cost rounded up once, no task is a whole
\* cent away from its own, and spent_cents moved by the difference
\* (SettleLiveSpend's largest remainders).
THEOREM CentsAddUpAlways == Spec => []CentsAddUp
<1>1. Init => LedgerHeld /\ CentsAddUp
  BY RunnerAssumption, PriorAssumption DEF Init, LedgerHeld, CentsAddUp
<1>2. Typed /\ Counts /\ LedgerHeld /\ CentsAddUp /\ [Next]_vars
        => LedgerHeld' /\ CentsAddUp'
  BY LedgerHeldStep, CentsAddUpStep DEF Counts
<1> QED
  BY <1>1, <1>2, CountsAlways, TypedAlways, PTL DEF Spec
=============================================================================
