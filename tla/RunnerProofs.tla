---------------------------- MODULE RunnerProofs ----------------------------
(***************************************************************************)
(* Theorems about the live runner (Runner), for any tasks, queues, worker  *)
(* widths, prices, ceilings, clicks and faults.                            *)
(***************************************************************************)
EXTENDS Runner, TLAPS

\* Folding one more round's usage into a call leaves a call.
LEMMA FoldRoundType ==
  ASSUME NEW c \in Calls, NEW u \in Usages
  PROVE  FoldRound(c, u) \in Calls
BY RunnerAssumption DEF FoldRound, Calls, Usage

\* What a call is charged is an amount of money.
LEMMA ChargeType ==
  ASSUME NEW c \in Calls
  PROVE  ChargeMicros(c) \in Nat
BY DEF ChargeMicros, Calls

\* The reservations of a task are amounts.
LEMMA WorstType ==
  ASSUME NEW t \in Task
  PROVE  /\ ReservedWorstCase(t) \in Nat
         /\ ReservedWorstTokens(t) \in Nat
<1>1. /\ WorstMicros[t] \in Nat /\ WorstTokens[t] \in Nat /\ Loops[t] \in Nat
  BY RunnerAssumption
<1>2. \A m, n \in Nat : m * n \in Nat
  OBVIOUS
<1> QED
  BY <1>1, <1>2 DEF ReservedWorstCase, ReservedWorstTokens

\* The excess of a charge over its reservation is an amount, and covers the
\* part of the charge the reservation did not.
LEMMA ExcessType ==
  ASSUME NEW m \in Nat, NEW n \in Nat
  PROVE  Excess(m, n) \in Nat /\ n - m <= Excess(m, n)
BY DEF Excess

-----------------------------------------------------------------------------
(* Type correctness. *)

WorkerRec == [pc : Pcs, task : Task \cup {NoTask}, call : Calls,
              result : Results]

\* What the types alone leave open: a busy worker has a task, a feeder only
\* offers a task its queue has, and a click under way is about a task.
Busy(w) == worker[w].pc # "idle"
WorkersTyped ==
  /\ worker \in [Worker -> WorkerRec]
  /\ \A w \in Worker : Busy(w) => worker[w].task \in Task
FeedersTyped ==
  /\ feeder \in [Queue -> [pc : {"check", "offer", "closed"},
                           next : Nat \ {0}]]
  /\ \A q \in Queue : feeder[q].pc = "offer" => feeder[q].next <= Len(Line[q])
BudgetTyped ==
  /\ phase \in {"preflight", "refused", "running", "ended", "unsettled"}
  /\ ceiling \in Nat /\ tokenCeiling \in Nat
  /\ spent \in Nat /\ reserved \in Int
  /\ tokensSpent \in Nat /\ tokensReserved \in Int
  /\ over \in Nat /\ tokensOver \in Nat
HistoryTyped ==
  /\ charged \in [Task -> Nat]
  /\ late \in [Worker -> Nat]
BoardTyped ==
  /\ outcome \in [Task -> Results]
  /\ board \in [Task -> [state : States, by : Authors]]
  /\ art \in [Task -> Arts]
  /\ micros \in [Task -> Nat] /\ prior \in [Task -> Nat]
  /\ liveTokens \in [Task -> Nat]
FaultsTyped == faults \in 0..MaxFaults
ClickTyped ==
  /\ click \in [kind : {"none", "block", "assign", "post", "return"},
                task : Task \cup {NoTask}, at : {"none", "artifact", "task"}]
  /\ clicks \in 0..MaxClicks
  /\ click.at # "none" => click.task \in Task
Typed ==
  /\ WorkersTyped /\ FeedersTyped /\ BudgetTyped /\ HistoryTyped
  /\ BoardTyped /\ FaultsTyped /\ ClickTyped

LEMMA TypedImpliesTypeOK == Typed /\ stop \in BOOLEAN => TypeOK
BY DEF Typed, TypeOK, WorkersTyped, WorkerRec, FeedersTyped, BudgetTyped,
   HistoryTyped, BoardTyped, FaultsTyped, ClickTyped

LEMMA TypedInit == Init => Typed
<1> SUFFICES ASSUME Init PROVE Typed
  OBVIOUS
<1>1. WorkersTyped
  BY DEF Init, WorkersTyped, WorkerRec, Busy, Idle, NoCall, NoTask, Calls,
     Pcs, Results, Unsettled
<1>2. FeedersTyped
  BY DEF Init, FeedersTyped
<1>3. BudgetTyped /\ HistoryTyped
  BY RunnerAssumption DEF Init, BudgetTyped, HistoryTyped
<1>4. BoardTyped
  BY RunnerAssumption DEF Init, BoardTyped, Results, States, Authors, Arts
<1>5. FaultsTyped /\ ClickTyped
  BY RunnerAssumption DEF Init, FaultsTyped, ClickTyped, NoClick, NoTask
<1> QED
  BY <1>1, <1>2, <1>3, <1>4, <1>5 DEF Typed

\* A statement of the run fails only within the bound on faults.
LEMMA FaultTyped ==
  ASSUME FaultsTyped, Fault \/ NoFault
  PROVE  FaultsTyped'
BY RunnerAssumption DEF FaultsTyped, Fault, NoFault

\* The three ways a worker moves on to its next statement.
LEMMA GotoTyped ==
  ASSUME WorkersTyped, NEW w \in Worker, Busy(w), NEW p \in Pcs, Goto(w, p)
  PROVE  WorkersTyped'
BY DEF WorkersTyped, WorkerRec, Busy, Goto

LEMMA ConcludeTyped ==
  ASSUME WorkersTyped, NEW w \in Worker, Busy(w), NEW r \in Results,
         Conclude(w, r)
  PROVE  WorkersTyped'
BY DEF WorkersTyped, WorkerRec, Busy, Conclude, Pcs

LEMMA AfterCallTyped ==
  ASSUME WorkersTyped, NEW w \in Worker, Busy(w), NEW r \in Results,
         AfterCall(w, r)
  PROVE  WorkersTyped'
BY ZenonT(60) DEF WorkersTyped, WorkerRec, Busy, AfterCall, Pcs

LEMMA RoundTyped ==
  ASSUME WorkersTyped, NEW w \in Worker, Round(w) \/ RoundFails(w)
  PROVE  WorkersTyped'
<1>1. Busy(w) /\ worker[w].call \in Calls
  BY DEF WorkersTyped, WorkerRec, Round, RoundFails, Busy
<1>2. \A u \in Usages : FoldRound(worker[w].call, u) \in Calls
  BY <1>1, FoldRoundType
<1>3. CASE Round(w)
  <2>1. PICK u \in Usages :
          \/ worker' = [worker EXCEPT ![w].call =
                          FoldRound(worker[w].call, u)]
          \/ worker' = [worker EXCEPT
                          ![w].call = FoldRound(worker[w].call, u),
                          ![w].pc = "settle", ![w].result = "ok"]
    BY <1>3 DEF Round
  <2> QED
    BY <1>1, <1>2, <2>1 DEF WorkersTyped, WorkerRec, Busy, Pcs, Results
<1>4. CASE RoundFails(w)
  <2>1. PICK c \in Calls, r \in Results :
          worker' = [worker EXCEPT ![w].call = c, ![w].pc = "settle",
                                   ![w].result = r]
    BY <1>1, <1>2, <1>4 DEF RoundFails, Results
  <2> QED
    BY <1>1, <2>1, ZenonT(60) DEF WorkersTyped, WorkerRec, Busy, Pcs
<1> QED
  BY <1>3, <1>4

\* What execute() has in hand for the task it works on.
InHand(w) ==
  /\ worker[w].task \in Task /\ worker[w].call \in Calls
  /\ ReservedWorstCase(worker[w].task) \in Nat
  /\ ReservedWorstTokens(worker[w].task) \in Nat
  /\ ChargeMicros(worker[w].call) \in Nat
  /\ worker[w].call.tokens \in Nat

LEMMA BusyInHand ==
  ASSUME WorkersTyped, NEW w \in Worker, Busy(w)
  PROVE  InHand(w)
BY WorstType, ChargeType DEF InHand, WorkersTyped, WorkerRec, Calls

\* One step of one worker keeps the types.
LEMMA TypedWork ==
  ASSUME Typed, NEW w \in Worker, Work(w)
  PROVE  Typed'
<1> USE DEF runVars, setupVars, budgetVars, ledgerVars, clickVars
<1>0. /\ WorkersTyped /\ FeedersTyped /\ BudgetTyped /\ HistoryTyped
      /\ BoardTyped /\ FaultsTyped /\ ClickTyped
  BY DEF Typed
<1>1. CASE Take(w)
  <2>1. Line[Serves[w]][feeder[Serves[w]].next] \in Task
    <3>1. Serves[w] \in Queue /\ Line[Serves[w]] \in Seq(Task)
      BY RunnerAssumption
    <3>2. feeder[Serves[w]].next \in 1..Len(Line[Serves[w]])
      BY <1>0, <1>1, <3>1 DEF Take, FeedersTyped
    <3> QED
      BY <3>1, <3>2
  <2>2. WorkersTyped'
    BY <1>0, <1>1, <2>1, ZenonT(60) DEF Take, WorkersTyped, WorkerRec, Busy, Pcs
  <2>3. FeedersTyped'
    BY <1>0, <1>1, RunnerAssumption DEF Take, FeedersTyped
  <2>4. BudgetTyped' /\ HistoryTyped' /\ BoardTyped' /\ FaultsTyped'
       /\ ClickTyped'
    BY <1>0, <1>1 DEF Take, BudgetTyped, HistoryTyped, BoardTyped,
        FaultsTyped, ClickTyped
  <2> QED
    BY <2>2, <2>3, <2>4 DEF Typed
<1>2. CASE AskHalted(w)
  <2>1. WorkersTyped'
    BY <1>0, <1>2 DEF AskHalted, WorkersTyped, WorkerRec, Busy, Pcs, Idle,
       NoCall, NoTask, Calls, Unsettled, Results
  <2>2. FeedersTyped' /\ BudgetTyped' /\ HistoryTyped' /\ BoardTyped'
        /\ FaultsTyped' /\ ClickTyped'
    BY <1>0, <1>2
       DEF AskHalted, FeedersTyped, BudgetTyped, HistoryTyped, BoardTyped,
           FaultsTyped, ClickTyped
  <2> QED
    BY <2>1, <2>2 DEF Typed
<1>3. CASE Reserve(w)
  <2>1. WorkersTyped'
    BY <1>3, <1>0, GotoTyped, ConcludeTyped DEF Reserve, Busy, Pcs, Results
  <2>2. InHand(w)
    BY <1>0, <1>3, BusyInHand DEF Reserve, Busy
  <2>3. BudgetTyped'
    BY <1>0, <1>3, <2>2 DEF Reserve, BudgetTyped, InHand
  <2>4. HistoryTyped'
    BY <1>0, <1>3, <2>2 DEF Reserve, HistoryTyped, InHand
  <2>5. FeedersTyped' /\ BoardTyped' /\ FaultsTyped' /\ ClickTyped'
    BY <1>0, <1>3 DEF Reserve, FeedersTyped, BoardTyped, FaultsTyped, ClickTyped
  <2> QED
    BY <2>1, <2>3, <2>4, <2>5 DEF Typed
<1>4. CASE ReserveTokens(w)
  <2>1. WorkersTyped'
    BY <1>4, <1>0, GotoTyped DEF ReserveTokens, Busy, Pcs
  <2>2. InHand(w)
    BY <1>0, <1>4, BusyInHand DEF ReserveTokens, Busy
  <2>3. BudgetTyped'
    BY <1>0, <1>4, <2>2 DEF ReserveTokens, BudgetTyped, InHand
  <2>4. HistoryTyped'
    BY <1>0, <1>4, <2>2 DEF ReserveTokens, HistoryTyped, InHand
  <2>5. FeedersTyped' /\ BoardTyped' /\ FaultsTyped' /\ ClickTyped'
    BY <1>0, <1>4
       DEF ReserveTokens, FeedersTyped, BoardTyped, FaultsTyped, ClickTyped
  <2> QED
    BY <2>1, <2>3, <2>4, <2>5 DEF Typed
<1>5. CASE Unreserve(w)
  <2>1. WorkersTyped'
    BY <1>5, <1>0, ConcludeTyped DEF Unreserve, Busy, Results
  <2>2. InHand(w)
    BY <1>0, <1>5, BusyInHand DEF Unreserve, Busy
  <2>3. BudgetTyped'
    BY <1>0, <1>5, <2>2 DEF Unreserve, BudgetTyped, InHand
  <2>4. FeedersTyped' /\ HistoryTyped' /\ BoardTyped' /\ FaultsTyped'
        /\ ClickTyped'
    BY <1>0, <1>5
       DEF Unreserve, FeedersTyped, HistoryTyped, BoardTyped, FaultsTyped,
           ClickTyped
  <2> QED
    BY <2>1, <2>3, <2>4 DEF Typed
<1>6. CASE Round(w)
  <2>1. WorkersTyped'
    BY <1>6, <1>0, RoundTyped
  <2>2. FeedersTyped' /\ BudgetTyped' /\ HistoryTyped' /\ BoardTyped'
        /\ FaultsTyped' /\ ClickTyped'
    BY <1>0, <1>6
       DEF Round, FeedersTyped, BudgetTyped, HistoryTyped, BoardTyped,
           FaultsTyped, ClickTyped
  <2> QED
    BY <2>1, <2>2 DEF Typed
<1>7. CASE RoundFails(w)
  <2>1. WorkersTyped'
    BY <1>7, <1>0, RoundTyped
  <2>2. FeedersTyped' /\ BudgetTyped' /\ HistoryTyped' /\ BoardTyped'
        /\ FaultsTyped' /\ ClickTyped'
    BY <1>0, <1>7
       DEF RoundFails, FeedersTyped, BudgetTyped, HistoryTyped, BoardTyped,
           FaultsTyped, ClickTyped
  <2> QED
    BY <2>1, <2>2 DEF Typed
<1>8. CASE Settle(w)
  <2>1. WorkersTyped'
    BY <1>8, <1>0, GotoTyped DEF Settle, Busy, Pcs
  <2>2. InHand(w)
    BY <1>0, <1>8, BusyInHand DEF Settle, Busy
  <2>3. Excess(ReservedWorstCase(worker[w].task),
            ChargeMicros(worker[w].call)) \in Nat
    BY <2>2, ExcessType DEF InHand
  <2>4. BudgetTyped'
    BY <1>0, <1>8, <2>2, <2>3 DEF Settle, BudgetTyped, InHand
  <2>5. HistoryTyped'
    BY <1>0, <1>8, <2>2 DEF Settle, HistoryTyped, InHand
  <2>6. FeedersTyped' /\ BoardTyped' /\ FaultsTyped' /\ ClickTyped'
    BY <1>0, <1>8 DEF Settle, FeedersTyped, BoardTyped, FaultsTyped, ClickTyped
  <2> QED
    BY <2>1, <2>4, <2>5, <2>6 DEF Typed
<1>9. CASE SettleTokens(w)
  <2>1. WorkersTyped'
    BY <1>9, <1>0, GotoTyped DEF SettleTokens, Busy, Pcs
  <2>2. InHand(w)
    BY <1>0, <1>9, BusyInHand DEF SettleTokens, Busy
  <2>3. Excess(ReservedWorstTokens(worker[w].task),
            worker[w].call.tokens) \in Nat
    BY <2>2, ExcessType DEF InHand
  <2>4. BudgetTyped'
    BY <1>0, <1>9, <2>2, <2>3 DEF SettleTokens, BudgetTyped, InHand
  <2>5. HistoryTyped'
    BY <1>0, <1>9, <2>2 DEF SettleTokens, HistoryTyped, InHand
  <2>6. FeedersTyped' /\ BoardTyped' /\ FaultsTyped' /\ ClickTyped'
    BY <1>0, <1>9
       DEF SettleTokens, FeedersTyped, BoardTyped, FaultsTyped, ClickTyped
  <2> QED
    BY <2>1, <2>4, <2>5, <2>6 DEF Typed
<1>10. CASE RecordTokens(w)
  <2>1. WorkersTyped'
    BY <1>10, <1>0, GotoTyped, AfterCallTyped
       DEF RecordTokens, Busy, Pcs, WorkersTyped, WorkerRec
  <2>2. InHand(w)
    BY <1>0, <1>10, BusyInHand DEF RecordTokens, Busy
  <2>3. BoardTyped'
    BY <1>0, <1>10, <2>2
       DEF RecordTokens, BoardTyped, InHand, States, Authors, Arts, Results
  <2>4. FaultsTyped'
    BY <1>0, <1>10, FaultTyped DEF RecordTokens
  <2>5. FeedersTyped' /\ BudgetTyped' /\ HistoryTyped' /\ ClickTyped'
    BY <1>0, <1>10
       DEF RecordTokens, FeedersTyped, BudgetTyped, HistoryTyped, ClickTyped
  <2> QED
    BY <2>1, <2>3, <2>4, <2>5 DEF Typed
<1>11. CASE InsertDraft(w)
  <2>1. WorkersTyped'
    BY <1>11, <1>0, GotoTyped, AfterCallTyped, ConcludeTyped
       DEF InsertDraft, Busy, Pcs, Results
  <2>2. InHand(w)
    BY <1>0, <1>11, BusyInHand DEF InsertDraft, Busy
  <2>3. BoardTyped'
    BY <1>0, <1>11, <2>2
       DEF InsertDraft, BoardTyped, InHand, States, Authors, Arts, Results
  <2>4. FaultsTyped'
    BY <1>0, <1>11, FaultTyped DEF InsertDraft
  <2>5. FeedersTyped' /\ BudgetTyped' /\ HistoryTyped' /\ ClickTyped'
    BY <1>0, <1>11
       DEF InsertDraft, FeedersTyped, BudgetTyped, HistoryTyped, ClickTyped
  <2> QED
    BY <2>1, <2>3, <2>4, <2>5 DEF Typed
<1>12. CASE Options(w)
  <2>1. WorkersTyped'
    BY <1>12, <1>0, GotoTyped, ConcludeTyped DEF Options, Busy, Pcs, Results
  <2>2. InHand(w)
    BY <1>0, <1>12, BusyInHand DEF Options, Busy
  <2>3. BoardTyped'
    BY <1>0, <1>12, <2>2
       DEF Options, BoardTyped, InHand, States, Authors, Arts, Results
  <2>4. FaultsTyped'
    BY <1>0, <1>12, FaultTyped DEF Options
  <2>5. FeedersTyped' /\ BudgetTyped' /\ HistoryTyped' /\ ClickTyped'
    BY <1>0, <1>12
       DEF Options, FeedersTyped, BudgetTyped, HistoryTyped, ClickTyped
  <2> QED
    BY <2>1, <2>3, <2>4, <2>5 DEF Typed
<1>13. CASE ReturnCheck(w)
  <2>1. WorkersTyped'
    BY <1>13, <1>0, GotoTyped, ConcludeTyped
       DEF ReturnCheck, Busy, Pcs, Results
  <2>2. InHand(w)
    BY <1>0, <1>13, BusyInHand DEF ReturnCheck, Busy
  <2>3. BoardTyped'
    BY <1>0, <1>13, <2>2
       DEF ReturnCheck, BoardTyped, InHand, States, Authors, Arts, Results
  <2>4. FaultsTyped'
    BY <1>0, <1>13, FaultTyped DEF ReturnCheck
  <2>5. FeedersTyped' /\ BudgetTyped' /\ HistoryTyped' /\ ClickTyped'
    BY <1>0, <1>13
       DEF ReturnCheck, FeedersTyped, BudgetTyped, HistoryTyped, ClickTyped
  <2> QED
    BY <2>1, <2>3, <2>4, <2>5 DEF Typed
<1>14. CASE ReturnArtifact(w)
  <2>1. WorkersTyped'
    BY <1>14, <1>0, GotoTyped, ConcludeTyped
       DEF ReturnArtifact, Busy, Pcs, Results
  <2>2. InHand(w)
    BY <1>0, <1>14, BusyInHand DEF ReturnArtifact, Busy
  <2>3. BoardTyped'
    BY <1>0, <1>14, <2>2
       DEF ReturnArtifact, BoardTyped, InHand, States, Authors, Arts, Results
  <2>4. FaultsTyped'
    BY <1>0, <1>14, FaultTyped DEF ReturnArtifact
  <2>5. FeedersTyped' /\ BudgetTyped' /\ HistoryTyped' /\ ClickTyped'
    BY <1>0, <1>14
       DEF ReturnArtifact, FeedersTyped, BudgetTyped, HistoryTyped, ClickTyped
  <2> QED
    BY <2>1, <2>3, <2>4, <2>5 DEF Typed
<1>15. CASE ReturnTask(w)
  <2>1. WorkersTyped'
    BY <1>15, <1>0, GotoTyped, ConcludeTyped
       DEF ReturnTask, Busy, Pcs, Results
  <2>2. InHand(w)
    BY <1>0, <1>15, BusyInHand DEF ReturnTask, Busy
  <2>3. BoardTyped'
    BY <1>0, <1>15, <2>2
       DEF ReturnTask, BoardTyped, InHand, States, Authors, Arts, Results
  <2>4. FaultsTyped'
    BY <1>0, <1>15, FaultTyped DEF ReturnTask
  <2>5. FeedersTyped' /\ BudgetTyped' /\ HistoryTyped' /\ ClickTyped'
    BY <1>0, <1>15
       DEF ReturnTask, FeedersTyped, BudgetTyped, HistoryTyped, ClickTyped
  <2> QED
    BY <2>1, <2>3, <2>4, <2>5 DEF Typed
<1>16. CASE RecordCharge(w)
  <2>1. WorkersTyped'
    BY <1>16, <1>0, GotoTyped, ConcludeTyped
       DEF RecordCharge, Busy, Pcs, Results, WorkersTyped, WorkerRec
  <2>2. InHand(w)
    BY <1>0, <1>16, BusyInHand DEF RecordCharge, Busy
  <2>3. BoardTyped'
    BY <1>0, <1>16, <2>2
       DEF RecordCharge, BoardTyped, InHand, States, Authors, Arts, Results
  <2>4. FaultsTyped'
    BY <1>0, <1>16, FaultTyped DEF RecordCharge
  <2>5. FeedersTyped' /\ BudgetTyped' /\ HistoryTyped' /\ ClickTyped'
    BY <1>0, <1>16
       DEF RecordCharge, FeedersTyped, BudgetTyped, HistoryTyped, ClickTyped
  <2> QED
    BY <2>1, <2>3, <2>4, <2>5 DEF Typed
<1>17. CASE Finish(w)
  <2>1. WorkersTyped'
    BY <1>17, <1>0 DEF Finish, WorkersTyped, WorkerRec, Busy, Pcs, Idle,
       NoCall, NoTask, Calls, Unsettled, Results
  <2>2. InHand(w)
    BY <1>0, <1>17, BusyInHand DEF Finish, Busy
  <2>3. BoardTyped'
    BY <1>0, <1>17, <2>2
       DEF Finish, BoardTyped, InHand, States, Authors, Arts, Results
  <2>4. FaultsTyped'
    BY <1>0, <1>17, FaultTyped DEF Finish
  <2>5. FeedersTyped' /\ BudgetTyped' /\ HistoryTyped' /\ ClickTyped'
    BY <1>0, <1>17
       DEF Finish, FeedersTyped, BudgetTyped, HistoryTyped, ClickTyped
  <2> QED
    BY <2>1, <2>3, <2>4, <2>5 DEF Typed
<1>18. CASE HeadersRefused(w)
  <2>1. WorkersTyped'
    BY <1>18, <1>0, ConcludeTyped DEF HeadersRefused, Busy, Results
  <2>2. FeedersTyped' /\ BudgetTyped' /\ HistoryTyped' /\ BoardTyped'
        /\ FaultsTyped' /\ ClickTyped'
    BY <1>0, <1>18
       DEF HeadersRefused, FeedersTyped, BudgetTyped, HistoryTyped,
           BoardTyped, FaultsTyped, ClickTyped
  <2> QED
    BY <2>1, <2>2 DEF Typed
<1> QED
  BY <1>1, <1>2, <1>3, <1>4, <1>5, <1>6, <1>7, <1>8, <1>9, <1>10, <1>11,
     <1>12, <1>13, <1>14, <1>15, <1>16, <1>17, <1>18 DEF Work

LEMMA TypedStep == Typed /\ [Next]_vars => Typed'
<1> SUFFICES ASSUME Typed, [Next]_vars PROVE Typed'
  OBVIOUS
<1> USE DEF runVars, setupVars, budgetVars, ledgerVars, clickVars
<1>0. /\ WorkersTyped /\ FeedersTyped /\ BudgetTyped /\ HistoryTyped
      /\ BoardTyped /\ FaultsTyped /\ ClickTyped
  BY DEF Typed
<1>1. CASE Preflight
  <2>1. BudgetTyped'
    BY <1>0, <1>1 DEF Preflight, BudgetTyped
  <2>2. WorkersTyped' /\ FeedersTyped' /\ HistoryTyped' /\ BoardTyped'
    BY <1>0, <1>1 DEF Preflight, WorkersTyped, FeedersTyped, HistoryTyped,
       BoardTyped, Busy
  <2>3. FaultsTyped' /\ ClickTyped'
    BY <1>0, <1>1 DEF Preflight, FaultsTyped, ClickTyped
  <2> QED
    BY <2>1, <2>2, <2>3 DEF Typed
<1>2. CASE EndRun
  <2>1. BudgetTyped'
    BY <1>0, <1>2 DEF EndRun, BudgetTyped
  <2>2. WorkersTyped' /\ FeedersTyped' /\ HistoryTyped' /\ BoardTyped'
    BY <1>0, <1>2 DEF EndRun, WorkersTyped, FeedersTyped, HistoryTyped,
       BoardTyped, Busy
  <2>3. FaultsTyped' /\ ClickTyped'
    BY <1>0, <1>2, RunnerAssumption DEF EndRun, FaultsTyped, ClickTyped
  <2> QED
    BY <2>1, <2>2, <2>3 DEF Typed
<1>3. ASSUME NEW q \in Queue, Feed(q)
      PROVE  Typed'
  <2>1. FeedersTyped'
    <3>1. Len(Line[q]) \in Nat
      BY RunnerAssumption
    <3> QED
      BY <1>0, <1>3, <3>1 DEF Feed, FeedersTyped
  <2>2. WorkersTyped' /\ BudgetTyped' /\ HistoryTyped' /\ BoardTyped'
    BY <1>0, <1>3 DEF Feed, WorkersTyped, BudgetTyped, HistoryTyped,
       BoardTyped, Busy
  <2>3. FaultsTyped' /\ ClickTyped'
    BY <1>0, <1>3 DEF Feed, FaultsTyped, ClickTyped
  <2> QED
    BY <2>1, <2>2, <2>3 DEF Typed
<1>4. ASSUME NEW w \in Worker, Work(w)
      PROVE  Typed'
  BY <1>4, TypedWork
<1>5. CASE PersonReads
  <2>1. ClickTyped'
    BY <1>0, <1>5, RunnerAssumption DEF PersonReads, ClickTyped
  <2>2. WorkersTyped' /\ FeedersTyped' /\ BudgetTyped' /\ HistoryTyped'
    BY <1>0, <1>5 DEF PersonReads, WorkersTyped, FeedersTyped, BudgetTyped,
       HistoryTyped, Busy
  <2>3. BoardTyped' /\ FaultsTyped'
    BY <1>0, <1>5 DEF PersonReads, BoardTyped, FaultsTyped
  <2> QED
    BY <2>1, <2>2, <2>3 DEF Typed
<1>6. CASE PersonWritesArtifact
  <2>1. ClickTyped'
    BY <1>0, <1>6 DEF PersonWritesArtifact, ClickTyped
  <2>2. WorkersTyped' /\ FeedersTyped' /\ BudgetTyped' /\ HistoryTyped'
    BY <1>0, <1>6 DEF PersonWritesArtifact, WorkersTyped, FeedersTyped,
       BudgetTyped, HistoryTyped, Busy
  <2>3. BoardTyped' /\ FaultsTyped'
    BY <1>0, <1>6 DEF PersonWritesArtifact, BoardTyped, FaultsTyped, Arts
  <2> QED
    BY <2>1, <2>2, <2>3 DEF Typed
<1>7. CASE PersonWritesTask
  <2>1. ClickTyped'
    BY <1>0, <1>7 DEF PersonWritesTask, ClickTyped, NoClick, NoTask
  <2>2. WorkersTyped' /\ FeedersTyped' /\ BudgetTyped' /\ HistoryTyped'
    BY <1>0, <1>7 DEF PersonWritesTask, WorkersTyped, FeedersTyped,
       BudgetTyped, HistoryTyped, Busy
  <2>3. BoardTyped' /\ FaultsTyped'
    BY <1>0, <1>7 DEF PersonWritesTask, BoardTyped, FaultsTyped, States,
       Authors
  <2> QED
    BY <2>1, <2>2, <2>3 DEF Typed
<1>8. CASE UNCHANGED vars
  <2>1. WorkersTyped' /\ FeedersTyped' /\ BudgetTyped' /\ HistoryTyped'
    BY <1>0, <1>8 DEF vars, WorkersTyped, FeedersTyped, BudgetTyped,
       HistoryTyped, Busy
  <2>2. BoardTyped' /\ FaultsTyped' /\ ClickTyped'
    BY <1>0, <1>8 DEF vars, BoardTyped, FaultsTyped, ClickTyped
  <2> QED
    BY <2>1, <2>2 DEF Typed
<1> QED
  BY <1>1, <1>2, <1>3, <1>4, <1>5, <1>6, <1>7, <1>8 DEF Next, Person

LEMMA TypedAlways == Spec => []Typed
<1> QED
  BY TypedInit, TypedStep, PTL DEF Spec

\* The stop flag is only ever set.
LEMMA StopMoves ==
  ASSUME [Next]_vars
  PROVE  stop' = stop \/ (stop' = TRUE /\ \E w \in Worker : Finish(w))
<1> USE DEF runVars
<1>1. ASSUME NEW w \in Worker, Work(w)
      PROVE  stop' = stop \/ (stop' = TRUE /\ Finish(w))
  BY <1>1 DEF Work, Take, AskHalted, HeadersRefused, Reserve, ReserveTokens,
     Unreserve, Round, RoundFails, Settle, SettleTokens, RecordTokens,
     InsertDraft, Options, ReturnCheck, ReturnArtifact, ReturnTask,
     RecordCharge, Finish
<1>2. ASSUME ~\E w \in Worker : Work(w)
      PROVE  stop' = stop
  BY <1>2 DEF Next, Preflight, EndRun, Feed, Person, PersonReads,
     PersonWritesArtifact, PersonWritesTask, vars
<1> QED
  BY <1>1, <1>2

StopTyped == stop \in BOOLEAN

\* Every variable of the runner keeps its type, whatever the interleaving of
\* the workers, the feeders, a person's clicks and the failing statements.
THEOREM TypeCorrect == Spec => []TypeOK
<1>1. Init => StopTyped
  BY DEF Init, StopTyped
<1>2. StopTyped /\ [Next]_vars => StopTyped'
  <2>1. [Next]_vars => stop' = stop \/ stop' = TRUE
    BY StopMoves
  <2> QED
    BY <2>1, Zenon DEF StopTyped
<1>3. Typed /\ StopTyped => TypeOK
  BY TypedImpliesTypeOK DEF StopTyped
<1> QED
  BY <1>1, <1>2, <1>3, TypedAlways, PTL DEF Spec
-----------------------------------------------------------------------------
(* The two ceilings. *)

\* Nothing but reserve(), its undoing and settle() moves the run's money.
LEMMA MoneyMoves ==
  ASSUME [Next]_vars
  PROVE  \/ \E w \in Worker : Reserve(w) \/ Unreserve(w) \/ Settle(w)
         \/ UNCHANGED <<ceiling, spent, reserved, over>>
<1> USE DEF runVars, setupVars, budgetVars
<1>1. ASSUME NEW w \in Worker, Work(w)
      PROVE  \/ Reserve(w) \/ Unreserve(w) \/ Settle(w)
             \/ UNCHANGED <<ceiling, spent, reserved, over>>
  BY <1>1 DEF Work, Take, AskHalted, HeadersRefused, ReserveTokens, Round,
     RoundFails, SettleTokens, RecordTokens, InsertDraft, Options, ReturnCheck,
     ReturnArtifact, ReturnTask, RecordCharge, Finish
<1>2. ASSUME ~\E w \in Worker : Work(w)
      PROVE  UNCHANGED <<ceiling, spent, reserved, over>>
  BY <1>2 DEF Next, Preflight, EndRun, Feed, Person, PersonReads,
     PersonWritesArtifact, PersonWritesTask, vars
<1> QED
  BY <1>1, <1>2

LEMMA CeilingStep ==
  ASSUME Typed, CeilingHolds, [Next]_vars
  PROVE  CeilingHolds'
<1> USE DEF runVars, setupVars, budgetVars
<1>1. /\ WorkersTyped
      /\ spent \in Nat /\ reserved \in Int /\ ceiling \in Nat /\ over \in Nat
  BY DEF Typed, BudgetTyped
<1>2. ASSUME NEW w \in Worker, Reserve(w)
      PROVE  CeilingHolds'
  <2>1. InHand(w)
    BY <1>1, <1>2, BusyInHand DEF Reserve, Busy
  <2> QED
    BY <1>1, <1>2, <2>1 DEF Reserve, InHand, CeilingHolds
<1>3. ASSUME NEW w \in Worker, Unreserve(w)
      PROVE  CeilingHolds'
  <2>1. InHand(w)
    BY <1>1, <1>3, BusyInHand DEF Unreserve, Busy
  <2> QED
    BY <1>1, <1>3, <2>1 DEF Unreserve, InHand, CeilingHolds
<1>4. ASSUME NEW w \in Worker, Settle(w)
      PROVE  CeilingHolds'
  <2> DEFINE worst  == ReservedWorstCase(worker[w].task)
             charge == ChargeMicros(worker[w].call)
  <2>1. worst \in Nat /\ charge \in Nat
    BY <1>1, <1>4, BusyInHand DEF Settle, Busy, InHand
  <2>2. Excess(worst, charge) \in Nat /\ charge - worst <= Excess(worst, charge)
    BY <2>1, ExcessType
  <2>3. /\ spent' = spent + charge /\ reserved' = reserved - worst
        /\ over' = over + Excess(worst, charge) /\ ceiling' = ceiling
    BY <1>4 DEF Settle
  <2> QED
    BY <1>1, <2>1, <2>2, <2>3 DEF CeilingHolds
<1>5. CASE UNCHANGED <<ceiling, spent, reserved, over>>
  BY <1>5 DEF CeilingHolds
<1> QED
  BY <1>2, <1>3, <1>4, <1>5, MoneyMoves

\* However many tasks are in flight and however their reservations and
\* settlements interleave, a call only starts when all that is spent and in
\* flight fits under the ceiling with it (runBudget.reserve and settle).
THEOREM CeilingAlwaysHolds == Spec => []CeilingHolds
<1>1. Init => CeilingHolds
  BY RunnerAssumption DEF Init, CeilingHolds
<1>2. Typed /\ CeilingHolds /\ [Next]_vars => CeilingHolds'
  BY CeilingStep
<1> QED
  BY <1>1, <1>2, TypedAlways, PTL DEF Spec

LEMMA TokensMove ==
  ASSUME [Next]_vars
  PROVE  \/ \E w \in Worker : ReserveTokens(w) \/ SettleTokens(w)
         \/ UNCHANGED <<tokenCeiling, tokensSpent, tokensReserved, tokensOver>>
<1> USE DEF runVars, setupVars, budgetVars
<1>1. ASSUME NEW w \in Worker, Work(w)
      PROVE  \/ ReserveTokens(w) \/ SettleTokens(w)
             \/ UNCHANGED <<tokenCeiling, tokensSpent, tokensReserved,
                            tokensOver>>
  BY <1>1 DEF Work, Take, AskHalted, HeadersRefused, Reserve, Unreserve, Round,
     RoundFails, Settle, RecordTokens, InsertDraft, Options, ReturnCheck,
     ReturnArtifact, ReturnTask, RecordCharge, Finish
<1>2. ASSUME ~\E w \in Worker : Work(w)
      PROVE  UNCHANGED <<tokenCeiling, tokensSpent, tokensReserved, tokensOver>>
  BY <1>2 DEF Next, Preflight, EndRun, Feed, Person, PersonReads,
     PersonWritesArtifact, PersonWritesTask, vars
<1> QED
  BY <1>1, <1>2

LEMMA TokenCeilingStep ==
  ASSUME Typed, TokenCeilingHolds, [Next]_vars
  PROVE  TokenCeilingHolds'
<1> USE DEF runVars, setupVars, budgetVars
<1>1. /\ WorkersTyped /\ tokenCeiling \in Nat
      /\ tokensSpent \in Nat /\ tokensReserved \in Int /\ tokensOver \in Nat
  BY DEF Typed, BudgetTyped
<1>2. ASSUME NEW w \in Worker, ReserveTokens(w)
      PROVE  TokenCeilingHolds'
  <2>1. InHand(w)
    BY <1>1, <1>2, BusyInHand DEF ReserveTokens, Busy
  <2> QED
    BY <1>1, <1>2, <2>1 DEF ReserveTokens, InHand, TokenCeilingHolds
<1>3. ASSUME NEW w \in Worker, SettleTokens(w)
      PROVE  TokenCeilingHolds'
  <2> DEFINE worst == ReservedWorstTokens(worker[w].task)
             used  == worker[w].call.tokens
  <2>1. worst \in Nat /\ used \in Nat
    BY <1>1, <1>3, BusyInHand DEF SettleTokens, Busy, InHand
  <2>2. Excess(worst, used) \in Nat /\ used - worst <= Excess(worst, used)
    BY <2>1, ExcessType
  <2>3. /\ tokenCeiling' = tokenCeiling
        /\ tokenCeiling # 0 =>
             /\ tokensSpent' = tokensSpent + used
             /\ tokensReserved' = tokensReserved - worst
             /\ tokensOver' = tokensOver + Excess(worst, used)
    BY <1>3 DEF SettleTokens
  <2> QED
    BY <1>1, <2>1, <2>2, <2>3 DEF TokenCeilingHolds
<1>4. CASE UNCHANGED <<tokenCeiling, tokensSpent, tokensReserved, tokensOver>>
  BY <1>4 DEF TokenCeilingHolds
<1> QED
  BY <1>2, <1>3, <1>4, TokensMove

\* The same in tokens, when the run has a token ceiling (reserveTokens and
\* settleTokens): the bound of a run money cannot bound.
THEOREM TokenCeilingAlwaysHolds == Spec => []TokenCeilingHolds
<1>1. Init => TokenCeilingHolds
  BY RunnerAssumption DEF Init, TokenCeilingHolds
<1>2. Typed /\ TokenCeilingHolds /\ [Next]_vars => TokenCeilingHolds'
  BY TokenCeilingStep
<1> QED
  BY <1>1, <1>2, TypedAlways, PTL DEF Spec

-----------------------------------------------------------------------------
(* Nothing new starts after a refusal. *)

\* A worker that has started a task late never again gets past halted(), and
\* one that is about to start a task has not started one late before.
LateOnce(w) ==
  /\ late[w] <= 1
  /\ late[w] > 0 => stop = TRUE
  /\ worker[w].pc = "reserve" => late[w] = 0
StopHolds == \A w \in Worker : LateOnce(w)

\* Only halted() leads to a reservation, and only the INSERT of the draft
\* leads to the statements that follow it.
LEMMA NextPc ==
  ASSUME worker \in [Worker -> WorkerRec], NEW w \in Worker, Work(w)
  PROVE  /\ worker'[w].pc = "reserve" => AskHalted(w)
         /\ worker'[w].pc \in {"options", "returnCheck", "returnArtifact",
                               "returnTask"}
              => \/ InsertDraft(w) \/ Options(w) \/ ReturnCheck(w)
                 \/ ReturnArtifact(w)
<1> USE DEF WorkerRec, Goto, Conclude, AfterCall, Idle
<1>1. CASE Take(w)
  BY <1>1 DEF Take
<1>2. CASE AskHalted(w)
  BY <1>2 DEF AskHalted
<1>3. CASE Reserve(w)
  BY <1>3 DEF Reserve
<1>4. CASE ReserveTokens(w)
  BY <1>4 DEF ReserveTokens
<1>5. CASE Unreserve(w)
  BY <1>5 DEF Unreserve
<1>6. CASE Round(w)
  <2>1. PICK u \in Usages :
          \/ worker' = [worker EXCEPT ![w].call =
                          FoldRound(worker[w].call, u)]
          \/ worker' = [worker EXCEPT
                          ![w].call = FoldRound(worker[w].call, u),
                          ![w].pc = "settle", ![w].result = "ok"]
    BY <1>6 DEF Round
  <2>2. worker[w].pc = "call"
    BY <1>6 DEF Round
  <2> QED
    BY <2>1, <2>2
<1>7. CASE RoundFails(w)
  <2>1. PICK c, r :
          worker' = [worker EXCEPT ![w].call = c, ![w].pc = "settle",
                                   ![w].result = r]
    BY <1>7 DEF RoundFails
  <2> QED
    BY <2>1
<1>8. CASE Settle(w)
  BY <1>8 DEF Settle
<1>9. CASE SettleTokens(w)
  BY <1>9 DEF SettleTokens
<1>10. CASE RecordTokens(w)
  BY <1>10 DEF RecordTokens
<1>11. CASE InsertDraft(w)
  BY <1>11 DEF InsertDraft
<1>12. CASE Options(w)
  BY <1>12 DEF Options
<1>13. CASE ReturnCheck(w)
  BY <1>13 DEF ReturnCheck
<1>14. CASE ReturnArtifact(w)
  BY <1>14 DEF ReturnArtifact
<1>15. CASE ReturnTask(w)
  BY <1>15 DEF ReturnTask
<1>16. CASE RecordCharge(w)
  BY <1>16 DEF RecordCharge
<1>17. CASE Finish(w)
  BY <1>17 DEF Finish
<1>18. CASE HeadersRefused(w)
  BY <1>18 DEF HeadersRefused
<1> QED
  BY <1>1, <1>2, <1>3, <1>4, <1>5, <1>6, <1>7, <1>8, <1>9, <1>10, <1>11,
     <1>12, <1>13, <1>14, <1>15, <1>16, <1>17, <1>18 DEF Work

\* A step of another worker, or of anything else, leaves w's part alone.
LEMMA LateMoves ==
  ASSUME Typed, [Next]_vars, NEW w \in Worker, ~Work(w)
  PROVE  late'[w] = late[w] /\ worker'[w] = worker[w]
<1> USE DEF runVars, setupVars, budgetVars
<1>0. worker \in [Worker -> WorkerRec] /\ late \in [Worker -> Nat]
  BY DEF Typed, WorkersTyped, HistoryTyped
<1>1. ASSUME NEW v \in Worker, v # w, Work(v)
      PROVE  late'[w] = late[w] /\ worker'[w] = worker[w]
  BY <1>0, <1>1 DEF Work, Take, AskHalted, HeadersRefused, Reserve,
     ReserveTokens, Unreserve, Round, RoundFails, Settle, SettleTokens,
     RecordTokens, InsertDraft, Options, ReturnCheck, ReturnArtifact,
     ReturnTask, RecordCharge, Finish, Goto, Conclude, AfterCall
<1>2. ASSUME ~\E v \in Worker : Work(v)
      PROVE  late'[w] = late[w] /\ worker'[w] = worker[w]
  BY <1>2 DEF Next, Preflight, EndRun, Feed, Person, PersonReads,
     PersonWritesArtifact, PersonWritesTask, vars
<1> QED
  BY <1>1, <1>2

LEMMA StopHoldsStep ==
  ASSUME Typed, StopHolds, [Next]_vars
  PROVE  StopHolds'
<1> SUFFICES ASSUME NEW w \in Worker PROVE LateOnce(w)'
  BY DEF StopHolds
<1> USE DEF runVars, setupVars, budgetVars
<1>0. /\ worker \in [Worker -> WorkerRec] /\ late \in [Worker -> Nat]
      /\ LateOnce(w)
  BY DEF Typed, WorkersTyped, HistoryTyped, StopHolds
<1>1. stop = TRUE => stop' = TRUE
  BY StopMoves
<1>2. CASE ~Work(w)
  BY <1>0, <1>1, <1>2, LateMoves DEF LateOnce
<1>3. CASE AskHalted(w)
  BY <1>0, <1>1, <1>3 DEF AskHalted, LateOnce, Idle
<1>4. CASE Reserve(w)
  <2>1. worker'[w].pc # "reserve"
    BY <1>0, <1>4 DEF Reserve, Goto, Conclude, WorkerRec
  <2>2. late'[w] = IF stop THEN 1 ELSE 0
    BY <1>0, <1>4 DEF Reserve, LateOnce
  <2> QED
    BY <1>1, <2>1, <2>2 DEF LateOnce
<1>5. CASE Work(w) /\ ~AskHalted(w) /\ ~Reserve(w)
  <2>1. late'[w] = late[w]
    BY <1>5 DEF Work, Take, HeadersRefused, ReserveTokens, Unreserve, Round,
       RoundFails, Settle, SettleTokens, RecordTokens, InsertDraft, Options,
       ReturnCheck, ReturnArtifact, ReturnTask, RecordCharge, Finish
  <2>2. worker'[w].pc # "reserve"
    BY <1>0, <1>5, NextPc
  <2> QED
    BY <1>0, <1>1, <2>1, <2>2 DEF LateOnce
<1> QED
  BY <1>2, <1>3, <1>4, <1>5

\* After a refusal stopped the run, a worker starts at most the one task it
\* had asked halted() about before (runQueue, spend's stop flag).
THEOREM NothingNewStartsAlways == Spec => []NothingNewStarts
<1>1. Init => StopHolds
  BY DEF Init, StopHolds, LateOnce, Idle
<1>2. Typed /\ StopHolds /\ [Next]_vars => StopHolds'
  BY StopHoldsStep
<1>3. StopHolds => NothingNewStarts
  BY DEF StopHolds, LateOnce, NothingNewStarts
<1> QED
  BY <1>1, <1>2, <1>3, TypedAlways, PTL DEF Spec

-----------------------------------------------------------------------------
(* A person's block is an order. *)

\* A worker that saves options or returns a draft has inserted the draft.
Inserted(w) ==
  worker[w].pc \in {"options", "returnCheck", "returnArtifact", "returnTask"}
    => art[worker[w].task] # "none"
DraftFirst == \A w \in Worker : Inserted(w)

\* A draft, once inserted, is never taken off the board again.
LEMMA DraftStays ==
  ASSUME Typed, [Next]_vars, NEW t \in Task, art[t] # "none"
  PROVE  art'[t] # "none"
<1>0. art \in [Task -> Arts]
  BY DEF Typed, BoardTyped
<1>1. ASSUME NEW w \in Worker, Work(w)
      PROVE  art'[t] # "none"
  BY <1>0, <1>1 DEF Work, Take, AskHalted, HeadersRefused, Reserve,
     ReserveTokens, Unreserve, Round, RoundFails, Settle, SettleTokens,
     RecordTokens, InsertDraft, Options, ReturnCheck, ReturnArtifact,
     ReturnTask, RecordCharge, Finish
<1>2. ASSUME ~\E w \in Worker : Work(w)
      PROVE  art'[t] # "none"
  BY <1>0, <1>2 DEF Next, Preflight, EndRun, Feed, Person, PersonReads,
     PersonWritesArtifact, PersonWritesTask, vars
<1> QED
  BY <1>1, <1>2

LEMMA DraftFirstStep ==
  ASSUME Typed, DraftFirst, [Next]_vars
  PROVE  DraftFirst'
<1> SUFFICES ASSUME NEW w \in Worker PROVE Inserted(w)'
  BY DEF DraftFirst
<1>0. /\ WorkersTyped /\ worker \in [Worker -> WorkerRec]
      /\ art \in [Task -> Arts] /\ Inserted(w)
  BY DEF Typed, WorkersTyped, BoardTyped, DraftFirst
<1>1. CASE ~Work(w)
  <2>1. worker'[w] = worker[w]
    BY <1>1, LateMoves
  <2>2. Inserted(w) /\ worker[w].pc \in {"options", "returnCheck",
                                         "returnArtifact", "returnTask"}
        => worker[w].task \in Task
    BY <1>0 DEF WorkersTyped, Busy
  <2> QED
    BY <1>0, <2>1, <2>2, DraftStays DEF Inserted
<1>2. CASE InsertDraft(w)
  <2>1. worker[w].task \in Task
    BY <1>0, <1>2 DEF InsertDraft, WorkersTyped, Busy
  <2>2. worker'[w].pc = "options" => art'[worker[w].task] = "draft"
    BY <1>0, <1>2, <2>1 DEF InsertDraft, Goto, Conclude, AfterCall, WorkerRec
  <2>3. worker'[w].pc \in {"options", "finish", "recordCharge"}
        /\ worker'[w].task = worker[w].task
    BY <1>0, <1>2 DEF InsertDraft, Goto, Conclude, AfterCall, WorkerRec
  <2> QED
    BY <2>2, <2>3 DEF Inserted
<1>3. CASE Options(w) \/ ReturnCheck(w) \/ ReturnArtifact(w)
  <2>1. worker[w].task \in Task /\ art[worker[w].task] # "none"
    BY <1>0, <1>3 DEF Options, ReturnCheck, ReturnArtifact, WorkersTyped,
       Busy, Inserted
  <2>2. worker'[w].task = worker[w].task
    BY <1>0, <1>3 DEF Options, ReturnCheck, ReturnArtifact, Goto, Conclude,
       WorkerRec
  <2> QED
    BY <2>1, <2>2, DraftStays DEF Inserted
<1>4. CASE /\ Work(w) /\ ~InsertDraft(w) /\ ~Options(w)
           /\ ~ReturnCheck(w) /\ ~ReturnArtifact(w)
  <2>1. worker'[w].pc \notin {"options", "returnCheck", "returnArtifact",
                              "returnTask"}
    BY <1>0, <1>4, NextPc
  <2> QED
    BY <2>1 DEF Inserted
<1> QED
  BY <1>1, <1>2, <1>3, <1>4

\* What one step may do to a task a person blocked before it had a draft.
OrderKept ==
  \A t \in Task :
    /\ board[t] = [state |-> "blocked", by |-> "person"]
    /\ art[t] = "none"
    /\ ~Person
    => art'[t] = "none" /\ board'[t] = board[t]

LEMMA OrderKeptStep ==
  ASSUME Typed, DraftFirst, [Next]_vars
  PROVE  OrderKept
<1> SUFFICES ASSUME NEW t \in Task,
                    board[t] = [state |-> "blocked", by |-> "person"],
                    art[t] = "none", ~Person
             PROVE  art'[t] = "none" /\ board'[t] = board[t]
  BY DEF OrderKept
<1>0. /\ art \in [Task -> Arts] /\ WorkersTyped /\ board[t].state = "blocked"
      /\ board \in [Task -> [state : States, by : Authors]]
  BY DEF Typed, BoardTyped
<1>1. ASSUME NEW w \in Worker, InsertDraft(w)
      PROVE  art'[t] = "none" /\ board'[t] = board[t]
  BY <1>0, <1>1 DEF InsertDraft
<1>2. ASSUME NEW w \in Worker, ReturnArtifact(w) \/ ReturnTask(w)
      PROVE  art'[t] = "none" /\ board'[t] = board[t]
  <2>1. worker[w].task # t
    BY <1>2 DEF ReturnArtifact, ReturnTask, DraftFirst, Inserted
  <2> QED
    BY <1>0, <1>2, <2>1 DEF ReturnArtifact, ReturnTask
<1>3. ASSUME NEW w \in Worker, Finish(w)
      PROVE  art'[t] = "none" /\ board'[t] = board[t]
  BY <1>0, <1>3 DEF Finish
<1>4. ASSUME NEW w \in Worker, Work(w), ~InsertDraft(w), ~ReturnArtifact(w),
             ~ReturnTask(w), ~Finish(w)
      PROVE  art'[t] = "none" /\ board'[t] = board[t]
  BY <1>4 DEF Work, Take, AskHalted, HeadersRefused, Reserve, ReserveTokens,
     Unreserve, Round, RoundFails, Settle, SettleTokens, RecordTokens, Options,
     ReturnCheck, RecordCharge
<1>5. ASSUME ~\E w \in Worker : Work(w)
      PROVE  art'[t] = "none" /\ board'[t] = board[t]
  BY <1>5 DEF Next, Preflight, EndRun, Feed, vars
<1> QED
  BY <1>1, <1>2, <1>3, <1>4, <1>5

\* While a task a person blocked has no draft, no step of the run writes one
\* or replaces the person's reason (invariants 57 and 66 of the code).
THEOREM BlockIsAlwaysAnOrder == Spec => BlockIsAnOrder
<1>1. Init => DraftFirst
  BY DEF Init, DraftFirst, Inserted, Idle
<1>2. Typed /\ DraftFirst /\ [Next]_vars => DraftFirst'
  BY DraftFirstStep
<1>3. Typed /\ DraftFirst /\ [Next]_vars => [OrderKept]_vars
  BY OrderKeptStep
<1> QED
  BY <1>1, <1>2, <1>3, TypedAlways, PTL DEF Spec, BlockIsAnOrder, OrderKept
=============================================================================
