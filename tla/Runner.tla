------------------------------- MODULE Runner -------------------------------
(***************************************************************************)
(* tools/run/live.go: the live half of costcrew-run.                       *)
(*                                                                         *)
(* One process works the priced tasks of a sprint in two queues, each with *)
(* its own workers.  A worker reserves the worst case of a task, in money  *)
(* and then in tokens, drives the tool loop, settles what was really       *)
(* charged, saves the draft and books the charge on the board.  The board  *)
(* is a SQLite database the console writes too: a person's click (block,   *)
(* assign, post, return) is a read followed by its writes, and interleaves *)
(* with the run between any two statements.                                *)
(***************************************************************************)
EXTENDS Integers, Sequences, FiniteSetsExt, LiveLedger

CONSTANTS
  Task,           \* task ids: the priced, unrefused tasks of the run (todo)
  Queue,          \* the vendor queue and the local queue
  Line,           \* Line[q]: the tasks of q in the run's own order
  Worker,
  Serves,         \* Serves[w]: the queue w takes tasks from
  Loops,          \* Loops[t]: the rounds t's engine can loop through
  WorstMicros,    \* WorstMicros[t]: the worst case of ONE call, in money
  WorstTokens,    \* WorstTokens[t]: the same in tokens
  Usages,         \* what one answered round may report
  Ceilings,       \* the money ceilings a run is started with
  TokenCeilings,  \* the token ceilings (0: none)
  Priors,         \* what earlier runs left in the ledger
  MaxClicks,      \* bound: clicks a person makes while the run lasts
  MaxFaults       \* bound: database statements of the run that fail

\* What one answered round reports: its tokens, what the runner prices it at,
\* and what the gateway's header says it cost, when there is one.
Unsettled == -1
Usage == [tokens : Nat, price : Nat, paid : Nat \cup {Unsettled}]

ASSUME RunnerAssumption ==
  /\ Task \subseteq Nat \ {0} /\ IsFiniteSet(Task) /\ IsFiniteSet(Worker)
  /\ Line \in [Queue -> Seq(Task)]
  /\ Serves \in [Worker -> Queue]
  /\ Loops \in [Task -> Nat \ {0}]
  /\ WorstMicros \in [Task -> Nat]
  /\ WorstTokens \in [Task -> Nat]
  /\ Usages \subseteq Usage
  /\ Ceilings \subseteq Nat
  /\ TokenCeilings \subseteq Nat
  /\ Priors \subseteq [micros : [Task -> Nat], cents : [Task -> Nat]]
  /\ MaxClicks \in Nat
  /\ MaxFaults \in Nat

\* splitByEngine gives every task one place in one queue, and no queue with
\* a task in it is left without a worker: the vendor width is a constant and
\* localParallel is at least one.
ASSUME LineAssumption ==
  /\ \A t \in Task : \E q \in Queue : \E i \in 1..Len(Line[q]) : Line[q][i] = t
  /\ \A q, r \in Queue : \A i \in 1..Len(Line[q]), j \in 1..Len(Line[r]) :
       Line[q][i] = Line[r][j] => q = r /\ i = j
  /\ \A q \in Queue : Line[q] # <<>> => \E w \in Worker : Serves[w] = q

\* An earlier run's settlement gave cents to tasks with a live cost alone.
ASSUME PriorAssumption ==
  \A p \in Priors, t \in Task : p.micros[t] = 0 => p.cents[t] = 0

VARIABLES
  phase,           \* where spend() stands
  stop,            \* a refusal was counted: nothing new starts
  ceiling, tokenCeiling,
  spent, reserved,             \* runBudget, in money
  tokensSpent, tokensReserved, \* runBudget, in tokens
  feeder,          \* per queue, the goroutine that offers its tasks
  worker,          \* per worker, where it stands in work() and execute()
  outcome,         \* per task, how the run counted it
  board,           \* tasks.state, and who wrote tasks.reason
  art,             \* the draft this run inserted for the task
  micros,          \* tasks.live_micros
  liveTokens,      \* tasks.live_tokens
  cents,           \* tasks.live_cents
  booked,          \* the part of tasks.spent_cents a live run added
  click,           \* a person's request in progress
  clicks, faults,  \* counters of the two bounds
  prior,           \* history: live_micros when the run began
  charged,         \* history: what settle() charged for each task
  over, tokensOver,\* history: since the last reserve() that was granted,
                   \* charges above their reservation, added up
  late             \* history: per worker, tasks it started after stop

budgetVars == <<spent, reserved, tokensSpent, tokensReserved,
                charged, over, tokensOver>>
ledgerVars == <<micros, liveTokens, cents, booked>>
setupVars  == <<ceiling, tokenCeiling, prior>>
runVars    == <<phase, stop>>
clickVars  == <<click, clicks>>
vars == <<runVars, setupVars, budgetVars, feeder, worker, outcome, board,
          art, ledgerVars, clickVars, faults, late>>

States == {"active", "blocked", "returned", "posted"}
Authors == {"nobody", "person", "runner", "supervisor"}
Arts == {"none", "draft", "returned", "posted"}
Results == {"none", "ok", "failed", "refused", "discarded"}

NoCall == [round |-> 0, price |-> 0, paid |-> Unsettled, tokens |-> 0]
NoTask == 0
Idle == [pc |-> "idle", task |-> NoTask, call |-> NoCall, result |-> "none"]
NoClick == [kind |-> "none", task |-> NoTask, at |-> "none"]

\* reservedWorstCase: one call's bound, once for every round it can loop.
ReservedWorstCase(t) == WorstMicros[t] * Loops[t]
ReservedWorstTokens(t) == WorstTokens[t] * Loops[t]

\* deliver.Charge: the gateway's settlement when every round was settled,
\* the runner's own price otherwise.
ChargeMicros(c) == IF c.paid = Unsettled THEN c.price ELSE c.paid

\* foldRound and Settlement.AddRound: one answered round joins the call.
FoldRound(c, u) ==
  [round  |-> c.round + 1,
   price  |-> c.price + u.price,
   paid   |-> IF c.round = 0 THEN u.paid
              ELSE IF c.paid = Unsettled \/ u.paid = Unsettled THEN Unsettled
              ELSE c.paid + u.paid,
   tokens |-> c.tokens + u.tokens]

Excess(worst, actual) == IF actual > worst THEN actual - worst ELSE 0

Init ==
  /\ phase = "preflight" /\ stop = FALSE
  /\ ceiling \in Ceilings
  /\ tokenCeiling \in TokenCeilings
  /\ spent = 0 /\ reserved = 0
  /\ tokensSpent = 0 /\ tokensReserved = 0
  /\ feeder = [q \in Queue |-> [pc |-> "check", next |-> 1]]
  /\ worker = [w \in Worker |-> Idle]
  /\ outcome = [t \in Task |-> "none"]
  /\ board = [t \in Task |-> [state |-> "active", by |-> "nobody"]]
  /\ art = [t \in Task |-> "none"]
  /\ \E p \in Priors :
       /\ micros = p.micros
       /\ prior = p.micros
       /\ cents = p.cents
       /\ booked = p.cents
  /\ liveTokens = [t \in Task |-> 0]
  /\ click = NoClick /\ clicks = 0 /\ faults = 0
  /\ charged = [t \in Task |-> 0]
  /\ over = 0 /\ tokensOver = 0
  /\ late = [w \in Worker |-> 0]

-----------------------------------------------------------------------------
(* spend: the preflight, and what follows wg.Wait. *)

\* localPreflight's token sum and spend's own money sum, over the whole run.
FitsCeilings ==
  /\ tokenCeiling > 0 =>
       SumFunction([t \in Task |-> ReservedWorstTokens(t)]) <= tokenCeiling
  /\ SumFunction([t \in Task |-> ReservedWorstCase(t)]) <= ceiling

\* It refuses for other reasons too: no route, no price that could bound a
\* local task, a server that does not answer.
Preflight ==
  /\ phase = "preflight"
  /\ phase' = "refused" \/ (FitsCeilings /\ phase' = "running")
  /\ UNCHANGED <<stop, setupVars, budgetVars, feeder, worker, outcome, board,
                 art, ledgerVars, clickVars, faults, late>>

\* A worker leaves its range loop once the channel is closed; a queue with
\* no task starts no worker and no feeder.
Exited(w) ==
  LET q == Serves[w]
  IN  worker[w].pc = "idle" /\ (feeder[q].pc = "closed" \/ Line[q] = <<>>)

\* wg.Wait returned: SettleLiveSpend, one transaction over the whole ledger.
SettleLiveSpend ==
  LET give == Give(micros)
  IN  /\ cents' = [t \in Task |->
                     IF t \in Rows(micros) THEN give[t] ELSE cents[t]]
      /\ booked' = [t \in Task |->
                      IF t \in Rows(micros) THEN booked[t] + give[t] - cents[t]
                      ELSE booked[t]]

EndRun ==
  /\ phase = "running"
  /\ \A w \in Worker : Exited(w)
  /\ \/ phase' = "ended" /\ SettleLiveSpend /\ UNCHANGED faults
     \/ /\ faults < MaxFaults /\ faults' = faults + 1
        /\ phase' = "unsettled" /\ UNCHANGED <<cents, booked>>
  /\ UNCHANGED <<stop, setupVars, budgetVars, feeder, worker, outcome, board,
                 art, micros, liveTokens, clickVars, late>>

-----------------------------------------------------------------------------
(* runQueue: the feeder and the workers of one queue. *)

\* Slip: the last task of the queue is never offered.
FeedStopsEarly(q) ==
  /\ phase = "running" /\ feeder[q].pc = "check"
  /\ feeder' = [feeder EXCEPT ![q].pc =
                  IF feeder[q].next >= Len(Line[q]) \/ stop
                  THEN "closed" ELSE "offer"]
  /\ UNCHANGED <<runVars, setupVars, budgetVars, worker, outcome, board,
                 art, ledgerVars, clickVars, faults, late>>

\* Slip: a halted feeder returns without closing the channel.
FeedNeverCloses(q) ==
  /\ phase = "running" /\ feeder[q].pc = "check" /\ ~stop
  /\ feeder' = [feeder EXCEPT ![q].pc =
                  IF feeder[q].next > Len(Line[q]) THEN "closed" ELSE "offer"]
  /\ UNCHANGED <<runVars, setupVars, budgetVars, worker, outcome, board,
                 art, ledgerVars, clickVars, faults, late>>

\* The feeder looks at halted() and then blocks on the unbuffered channel.
Feed(q) ==
  /\ phase = "running" /\ feeder[q].pc = "check"
  /\ feeder' = [feeder EXCEPT ![q].pc =
                  IF feeder[q].next > Len(Line[q]) \/ stop
                  THEN "closed" ELSE "offer"]
  /\ UNCHANGED <<runVars, setupVars, budgetVars, worker, outcome, board,
                 art, ledgerVars, clickVars, faults, late>>

\* The rendezvous: an idle worker receives the task the feeder offers.
Take(w) ==
  LET q == Serves[w]
  IN  /\ phase = "running" /\ worker[w].pc = "idle" /\ feeder[q].pc = "offer"
      /\ worker' = [worker EXCEPT ![w].pc = "taken",
                                  ![w].task = Line[q][feeder[q].next]]
      /\ feeder' = [feeder EXCEPT ![q] = [pc |-> "check", next |-> @.next + 1]]
      /\ UNCHANGED <<runVars, setupVars, budgetVars, outcome, board, art,
                     ledgerVars, clickVars, faults, late>>

\* Slip: the second look at halted() is left out.
AskNothing(w) ==
  /\ worker[w].pc = "taken"
  /\ worker' = [worker EXCEPT ![w].pc = "reserve"]
  /\ UNCHANGED <<runVars, setupVars, budgetVars, feeder, outcome, board,
                 art, ledgerVars, clickVars, faults, late>>

\* A worker asks halted() again after taking a task.
AskHalted(w) ==
  /\ worker[w].pc = "taken"
  /\ worker' = [worker EXCEPT ![w] =
                  IF stop THEN Idle ELSE [@ EXCEPT !.pc = "reserve"]]
  /\ UNCHANGED <<runVars, setupVars, budgetVars, feeder, outcome, board,
                 art, ledgerVars, clickVars, faults, late>>

-----------------------------------------------------------------------------
(* execute: reserve, call, settle. *)

Goto(w, pc) == worker' = [worker EXCEPT ![w].pc = pc]
Conclude(w, result) ==
  worker' = [worker EXCEPT ![w].pc = "finish", ![w].result = result]

\* The gateway's headers cannot be built (an analyst with no owner): refused
\* with nothing taken from the ceiling, and counted as a failure.
HeadersRefused(w) ==
  /\ worker[w].pc = "reserve"
  /\ Conclude(w, "failed")
  /\ UNCHANGED <<runVars, setupVars, budgetVars, feeder, outcome, board, art,
                 ledgerVars, clickVars, faults, late>>

\* Slip: a check against the settled total alone, not what is in flight.
ReserveAgainstSpent(w) ==
  LET worst == ReservedWorstCase(worker[w].task)
  IN  /\ worker[w].pc = "reserve"
      /\ IF spent + worst > ceiling
         THEN UNCHANGED <<reserved, over>> /\ Conclude(w, "refused")
         ELSE /\ reserved' = reserved + worst /\ over' = 0
              /\ Goto(w, "reserveTokens")
      /\ late' = [late EXCEPT ![w] = IF stop THEN @ + 1 ELSE @]
      /\ UNCHANGED <<runVars, setupVars, spent, tokensSpent, tokensReserved,
                     charged, tokensOver, feeder, outcome, board, art,
                     ledgerVars, clickVars, faults>>

\* runBudget.reserve
Reserve(w) ==
  LET worst == ReservedWorstCase(worker[w].task)
  IN  /\ worker[w].pc = "reserve"
      /\ IF spent + reserved + worst > ceiling
         THEN UNCHANGED <<reserved, over>> /\ Conclude(w, "refused")
         ELSE /\ reserved' = reserved + worst /\ over' = 0
              /\ Goto(w, "reserveTokens")
      /\ late' = [late EXCEPT ![w] = IF stop THEN @ + 1 ELSE @]
      /\ UNCHANGED <<runVars, setupVars, spent, tokensSpent, tokensReserved,
                     charged, tokensOver, feeder, outcome, board, art,
                     ledgerVars, clickVars, faults>>

\* Slip: tokens in flight are left out of the check.
ReserveTokensAgainstSpent(w) ==
  LET worst == ReservedWorstTokens(worker[w].task)
  IN  /\ worker[w].pc = "reserveTokens"
      /\ \/ /\ tokenCeiling = 0
            /\ UNCHANGED <<tokensReserved, tokensOver>> /\ Goto(w, "call")
         \/ /\ tokenCeiling > 0
            /\ tokensSpent + worst > tokenCeiling
            /\ UNCHANGED <<tokensReserved, tokensOver>> /\ Goto(w, "unreserve")
         \/ /\ tokenCeiling > 0
            /\ tokensSpent + worst <= tokenCeiling
            /\ tokensReserved' = tokensReserved + worst /\ tokensOver' = 0
            /\ Goto(w, "call")
      /\ UNCHANGED <<runVars, setupVars, spent, reserved, tokensSpent, charged,
                     over, feeder, outcome, board, art,
                     ledgerVars, clickVars, faults, late>>

\* Slip: a refusal in tokens keeps the money it had reserved.
ReserveTokensKeepsMoney(w) ==
  LET worst == ReservedWorstTokens(worker[w].task)
  IN  /\ worker[w].pc = "reserveTokens"
      /\ \/ /\ tokenCeiling = 0
            /\ UNCHANGED <<tokensReserved, tokensOver>> /\ Goto(w, "call")
         \/ /\ tokenCeiling > 0
            /\ tokensSpent + tokensReserved + worst > tokenCeiling
            /\ UNCHANGED <<tokensReserved, tokensOver>>
            /\ Conclude(w, "refused")
         \/ /\ tokenCeiling > 0
            /\ tokensSpent + tokensReserved + worst <= tokenCeiling
            /\ tokensReserved' = tokensReserved + worst /\ tokensOver' = 0
            /\ Goto(w, "call")
      /\ UNCHANGED <<runVars, setupVars, spent, reserved, tokensSpent, charged,
                     over, feeder, outcome, board, art,
                     ledgerVars, clickVars, faults, late>>

\* runBudget.reserveTokens: a no-op when the run has no token ceiling.
ReserveTokens(w) ==
  LET worst == ReservedWorstTokens(worker[w].task)
  IN  /\ worker[w].pc = "reserveTokens"
      /\ \/ /\ tokenCeiling = 0
            /\ UNCHANGED <<tokensReserved, tokensOver>> /\ Goto(w, "call")
         \/ /\ tokenCeiling > 0
            /\ tokensSpent + tokensReserved + worst > tokenCeiling
            /\ UNCHANGED <<tokensReserved, tokensOver>> /\ Goto(w, "unreserve")
         \/ /\ tokenCeiling > 0
            /\ tokensSpent + tokensReserved + worst <= tokenCeiling
            /\ tokensReserved' = tokensReserved + worst /\ tokensOver' = 0
            /\ Goto(w, "call")
      /\ UNCHANGED <<runVars, setupVars, spent, reserved, tokensSpent, charged,
                     over, feeder, outcome, board, art,
                     ledgerVars, clickVars, faults, late>>

\* The tokens refused: the money reserved a moment ago is put back.
Unreserve(w) ==
  /\ worker[w].pc = "unreserve"
  /\ reserved' = reserved - ReservedWorstCase(worker[w].task)
  /\ Conclude(w, "refused")
  /\ UNCHANGED <<runVars, setupVars, spent, tokensSpent, tokensReserved,
                 charged, over, tokensOver, feeder, outcome, board, art,
                 ledgerVars, clickVars, faults, late>>

\* One round of the tool loop: it answers, or asks for tools while it may.
Round(w) ==
  LET t == worker[w].task
      c == worker[w].call
  IN  /\ worker[w].pc = "call"
      /\ \E u \in Usages :
           \/ /\ c.round + 1 < Loops[t]
              /\ worker' = [worker EXCEPT ![w].call = FoldRound(c, u)]
           \/ worker' = [worker EXCEPT ![w].call = FoldRound(c, u),
                                       ![w].pc = "settle", ![w].result = "ok"]
      /\ UNCHANGED <<runVars, setupVars, budgetVars, feeder, outcome,
                     board, art, ledgerVars, clickVars, faults, late>>

\* A round that ends the call with an error: no answer at all (a transport
\* error, the deadline), the gateway's 402, or a billed answer with nothing
\* readable in it.
RoundFails(w) ==
  LET c == worker[w].call
      fail(call, result) ==
        worker' = [worker EXCEPT ![w].call = call, ![w].pc = "settle",
                                 ![w].result = result]
  IN  /\ worker[w].pc = "call"
      /\ \/ fail(c, "failed")
         \/ fail(c, "refused")
         \/ \E u \in Usages : fail(FoldRound(c, u), "failed")
      /\ UNCHANGED <<runVars, setupVars, budgetVars, feeder, outcome,
                     board, art, ledgerVars, clickVars, faults, late>>

\* Slip: the difference to the reservation is booked as spent.
SettleTheDifference(w) ==
  LET t == worker[w].task
      charge == ChargeMicros(worker[w].call)
  IN  /\ worker[w].pc = "settle"
      /\ reserved' = reserved - ReservedWorstCase(t)
      /\ spent' = spent + charge - ReservedWorstCase(t)
      /\ charged' = [charged EXCEPT ![t] = @ + charge]
      /\ over' = over + Excess(ReservedWorstCase(t), charge)
      /\ Goto(w, "settleTokens")
      /\ UNCHANGED <<runVars, setupVars, tokensSpent, tokensReserved,
                     tokensOver, feeder, outcome, board, art, ledgerVars,
                     clickVars, faults, late>>

\* runBudget.settle
Settle(w) ==
  LET t == worker[w].task
      charge == ChargeMicros(worker[w].call)
  IN  /\ worker[w].pc = "settle"
      /\ reserved' = reserved - ReservedWorstCase(t)
      /\ spent' = spent + charge
      /\ charged' = [charged EXCEPT ![t] = @ + charge]
      /\ over' = over + Excess(ReservedWorstCase(t), charge)
      /\ Goto(w, "settleTokens")
      /\ UNCHANGED <<runVars, setupVars, tokensSpent, tokensReserved,
                     tokensOver, feeder, outcome, board, art, ledgerVars,
                     clickVars, faults, late>>

\* runBudget.settleTokens
SettleTokens(w) ==
  LET t == worker[w].task
      used == worker[w].call.tokens
  IN  /\ worker[w].pc = "settleTokens"
      /\ IF tokenCeiling = 0
         THEN UNCHANGED <<tokensSpent, tokensReserved, tokensOver>>
         ELSE /\ tokensReserved' = tokensReserved - ReservedWorstTokens(t)
              /\ tokensSpent' = tokensSpent + used
              /\ tokensOver' = tokensOver + Excess(ReservedWorstTokens(t), used)
      /\ Goto(w, "recordTokens")
      /\ UNCHANGED <<runVars, setupVars, spent, reserved, charged, over,
                     feeder, outcome, board, art, ledgerVars, clickVars,
                     faults, late>>

-----------------------------------------------------------------------------
(* execute and saveDraft: what is written on the board. *)

Fault == faults < MaxFaults /\ faults' = faults + 1
NoFault == UNCHANGED faults

\* The stopped and the discarded task book a charge only when there is one.
AfterCall(w, result) ==
  worker' = [worker EXCEPT
    ![w].result = result,
    ![w].pc = IF ChargeMicros(worker[w].call) > 0 THEN "recordCharge"
              ELSE "finish"]

\* recordTokens: its failure is printed, never returned.
RecordTokens(w) ==
  LET t == worker[w].task
      used == worker[w].call.tokens
  IN  /\ worker[w].pc = "recordTokens"
      /\ \/ NoFault /\ liveTokens' = [liveTokens EXCEPT ![t] = @ + used]
         \/ used > 0 /\ Fault /\ UNCHANGED liveTokens
      /\ IF worker[w].result = "ok" THEN Goto(w, "insertDraft")
         ELSE AfterCall(w, worker[w].result)
      /\ UNCHANGED <<runVars, setupVars, budgetVars, feeder, outcome,
                     board, art, micros, cents, booked, clickVars, late>>

\* Slip: the task blocked meanwhile is taken for one that was saved.
InsertDraftIgnoresTheBlock(w) ==
  LET t == worker[w].task
  IN  /\ worker[w].pc = "insertDraft"
      /\ \/ /\ board[t].state = "blocked"
            /\ NoFault /\ UNCHANGED art /\ Goto(w, "recordCharge")
         \/ /\ board[t].state # "blocked"
            /\ NoFault /\ art' = [art EXCEPT ![t] = "draft"]
            /\ Goto(w, "options")
         \/ Fault /\ UNCHANGED art /\ Conclude(w, "failed")
      /\ UNCHANGED <<runVars, setupVars, budgetVars, feeder, outcome,
                     board, ledgerVars, clickVars, late>>

\* saveDraft's INSERT ... WHERE NOT EXISTS (a blocked task).
InsertDraft(w) ==
  LET t == worker[w].task
  IN  /\ worker[w].pc = "insertDraft"
      /\ \/ /\ board[t].state = "blocked"
            /\ NoFault /\ UNCHANGED art /\ AfterCall(w, "discarded")
         \/ /\ board[t].state # "blocked"
            /\ NoFault /\ art' = [art EXCEPT ![t] = "draft"]
            /\ Goto(w, "options")
         \/ Fault /\ UNCHANGED art /\ Conclude(w, "failed")
      /\ UNCHANGED <<runVars, setupVars, budgetVars, feeder, outcome,
                     board, ledgerVars, clickVars, late>>

\* ValidateAndSaveOptions: the options are saved, or refused whole.
Options(w) ==
  /\ worker[w].pc = "options"
  /\ \/ NoFault /\ Goto(w, "recordCharge")
     \/ NoFault /\ Goto(w, "returnCheck")
     \/ Fault /\ Conclude(w, "failed")
  /\ UNCHANGED <<runVars, setupVars, budgetVars, feeder, outcome, board,
                 art, ledgerVars, clickVars, late>>

\* crew.Return by the supervisor link: the read that refuses a posted one.
ReturnCheck(w) ==
  LET t == worker[w].task
  IN  /\ worker[w].pc = "returnCheck"
      /\ \/ art[t] = "posted" /\ NoFault /\ Conclude(w, "failed")
         \/ art[t] # "posted" /\ NoFault /\ Goto(w, "returnArtifact")
         \/ Fault /\ Conclude(w, "failed")
      /\ UNCHANGED <<runVars, setupVars, budgetVars, feeder, outcome,
                     board, art, ledgerVars, clickVars, late>>

\* ... its UPDATE of the artifact ...
ReturnArtifact(w) ==
  LET t == worker[w].task
  IN  /\ worker[w].pc = "returnArtifact"
      /\ \/ /\ NoFault /\ art' = [art EXCEPT ![t] = "returned"]
            /\ Goto(w, "returnTask")
         \/ Fault /\ UNCHANGED art /\ Conclude(w, "failed")
      /\ UNCHANGED <<runVars, setupVars, budgetVars, feeder, outcome,
                     board, ledgerVars, clickVars, late>>

\* ... and its UPDATE of the task.
ReturnTask(w) ==
  LET t == worker[w].task
  IN  /\ worker[w].pc = "returnTask"
      /\ \/ /\ NoFault
            /\ board' = [board EXCEPT ![t] =
                           [state |-> "returned", by |-> "supervisor"]]
            /\ Goto(w, "recordCharge")
         \/ Fault /\ UNCHANGED board /\ Conclude(w, "failed")
      /\ UNCHANGED <<runVars, setupVars, budgetVars, feeder, outcome, art,
                     ledgerVars, clickVars, late>>

\* Slip: live_micros is set where it should be added to.
RecordChargeOverwrites(w) ==
  LET t == worker[w].task
  IN  /\ worker[w].pc = "recordCharge"
      /\ micros' = [micros EXCEPT ![t] = ChargeMicros(worker[w].call)]
      /\ NoFault /\ Goto(w, "finish")
      /\ UNCHANGED <<runVars, setupVars, budgetVars, feeder, outcome,
                     board, art, liveTokens, cents, booked, clickVars, late>>

\* recordCharge: saveDraft returns its error, the other two callers print it.
RecordCharge(w) ==
  LET t == worker[w].task
  IN  /\ worker[w].pc = "recordCharge"
      /\ \/ /\ NoFault
            /\ micros' = [micros EXCEPT ![t] =
                            @ + ChargeMicros(worker[w].call)]
            /\ Goto(w, "finish")
         \/ /\ Fault /\ UNCHANGED micros
            /\ Conclude(w, IF worker[w].result = "ok" THEN "failed"
                           ELSE worker[w].result)
      /\ UNCHANGED <<runVars, setupVars, budgetVars, feeder, outcome,
                     board, art, liveTokens, cents, booked, clickVars, late>>

\* Slip: the failure's reason is written without WHERE state <> 'blocked'.
FinishOverwrites(w) ==
  LET t == worker[w].task
      r == worker[w].result
  IN  /\ worker[w].pc = "finish" /\ NoFault
      /\ board' = IF r = "failed"
                  THEN [board EXCEPT ![t] =
                          [state |-> "blocked", by |-> "runner"]]
                  ELSE board
      /\ stop' = IF r = "refused" THEN TRUE ELSE stop
      /\ outcome' = [outcome EXCEPT ![t] = r]
      /\ worker' = [worker EXCEPT ![w] = Idle]
      /\ UNCHANGED <<phase, setupVars, budgetVars, feeder, art, ledgerVars,
                     clickVars, late>>

\* The end of work(), under spend's mutex.
Finish(w) ==
  LET t == worker[w].task
      r == worker[w].result
  IN  /\ worker[w].pc = "finish"
      /\ \/ /\ r \in {"ok", "discarded", "refused"}
            /\ NoFault /\ UNCHANGED board
         \/ /\ r = "failed" /\ NoFault
            /\ board' = [board EXCEPT ![t] =
                           IF @.state = "blocked" THEN @
                           ELSE [state |-> "blocked", by |-> "runner"]]
         \/ r = "failed" /\ Fault /\ UNCHANGED board
      /\ stop' = IF r = "refused" THEN TRUE ELSE stop
      /\ outcome' = [outcome EXCEPT ![t] = r]
      /\ worker' = [worker EXCEPT ![w] = Idle]
      /\ UNCHANGED <<phase, setupVars, budgetVars, feeder, art, ledgerVars,
                     clickVars, late>>

-----------------------------------------------------------------------------
(* A person at the console: crew.Block, Assign, Post and Return. *)

\* The read every one of them begins with.
PersonReads ==
  /\ phase = "running" /\ click = NoClick /\ clicks < MaxClicks
  /\ clicks' = clicks + 1
  /\ \E t \in Task :
       \/ /\ board[t].state # "posted"
          /\ \E k \in {"block", "assign"} :
               click' = [kind |-> k, task |-> t, at |-> "task"]
       \/ /\ art[t] \notin {"none", "posted"}
          /\ \E k \in {"post", "return"} :
               click' = [kind |-> k, task |-> t, at |-> "artifact"]
  /\ UNCHANGED <<runVars, setupVars, budgetVars, feeder, worker, outcome,
                 board, art, ledgerVars, faults, late>>

\* Post and Return: UPDATE artifacts.
PersonWritesArtifact ==
  /\ click.at = "artifact"
  /\ art' = [art EXCEPT ![click.task] =
               IF click.kind = "post" THEN "posted" ELSE "returned"]
  /\ click' = [click EXCEPT !.at = "task"]
  /\ UNCHANGED <<runVars, setupVars, budgetVars, feeder, worker, outcome,
                 board, ledgerVars, clicks, faults, late>>

\* All four: UPDATE tasks. Post leaves tasks.reason as it was.
PersonWritesTask ==
  /\ click.at = "task"
  /\ board' = [board EXCEPT ![click.task] =
       CASE click.kind = "block"  -> [state |-> "blocked", by |-> "person"]
         [] click.kind = "assign" -> [state |-> "active", by |-> "nobody"]
         [] click.kind = "return" -> [state |-> "returned", by |-> "person"]
         [] OTHER                 -> [@ EXCEPT !.state = "posted"]]
  /\ click' = NoClick
  /\ UNCHANGED <<runVars, setupVars, budgetVars, feeder, worker, outcome,
                 art, ledgerVars, clicks, faults, late>>

-----------------------------------------------------------------------------
Work(w) ==
  \/ Take(w) \/ AskHalted(w) \/ HeadersRefused(w)
  \/ Reserve(w) \/ ReserveTokens(w) \/ Unreserve(w)
  \/ Round(w) \/ RoundFails(w)
  \/ Settle(w) \/ SettleTokens(w) \/ RecordTokens(w)
  \/ InsertDraft(w) \/ Options(w)
  \/ ReturnCheck(w) \/ ReturnArtifact(w) \/ ReturnTask(w)
  \/ RecordCharge(w) \/ Finish(w)

Person == PersonReads \/ PersonWritesArtifact \/ PersonWritesTask

Next ==
  \/ Preflight \/ EndRun
  \/ \E q \in Queue : Feed(q)
  \/ \E w \in Worker : Work(w)
  \/ Person

\* Every goroutine of the run is scheduled, and every call it waits on is
\* bounded by its deadline; a person owes the run nothing.
Fairness ==
  /\ WF_vars(Preflight) /\ WF_vars(EndRun)
  /\ \A q \in Queue : WF_vars(Feed(q))
  /\ \A w \in Worker : WF_vars(Work(w))

Spec == Init /\ [][Next]_vars /\ Fairness

-----------------------------------------------------------------------------
(* Properties. *)

Calls == [round : Nat, price : Nat, paid : Nat \cup {Unsettled}, tokens : Nat]
Pcs == {"idle", "taken", "reserve", "reserveTokens", "unreserve", "call",
        "settle", "settleTokens", "recordTokens", "insertDraft", "options",
        "returnCheck", "returnArtifact", "returnTask", "recordCharge",
        "finish"}

\* The type of every variable but the cents, whose type is CentsAddUp's.
TypeOK ==
  /\ phase \in {"preflight", "refused", "running", "ended", "unsettled"}
  /\ stop \in BOOLEAN
  /\ ceiling \in Nat /\ tokenCeiling \in Nat
  /\ spent \in Nat /\ reserved \in Int
  /\ tokensSpent \in Nat /\ tokensReserved \in Int
  /\ feeder \in [Queue -> [pc : {"check", "offer", "closed"},
                           next : Nat \ {0}]]
  /\ worker \in [Worker -> [pc : Pcs, task : Task \cup {NoTask},
                            call : Calls, result : Results]]
  /\ outcome \in [Task -> Results]
  /\ board \in [Task -> [state : States, by : Authors]]
  /\ art \in [Task -> Arts]
  /\ micros \in [Task -> Nat] /\ prior \in [Task -> Nat]
  /\ charged \in [Task -> Nat]
  /\ liveTokens \in [Task -> Nat]
  /\ click \in [kind : {"none", "block", "assign", "post", "return"},
                task : Task \cup {NoTask}, at : {"none", "artifact", "task"}]
  /\ clicks \in 0..MaxClicks /\ faults \in 0..MaxFaults
  /\ over \in Nat /\ tokensOver \in Nat
  /\ late \in [Worker -> Nat]

HoldsMoney(w) == worker[w].pc \in {"reserveTokens", "unreserve", "call",
                                   "settle"}
HoldsTokens(w) == tokenCeiling > 0
                  /\ worker[w].pc \in {"call", "settle", "settleTokens"}

\* What is reserved is the worst case of the tasks in flight, no more and no
\* less: a refusal, a failure and a settlement each give back exactly what
\* their own reserve() took (runBudget, live.go).
ReservedIsInFlight ==
  /\ reserved = MapThenSumSet(
       LAMBDA w : ReservedWorstCase(worker[w].task),
       {w \in Worker : HoldsMoney(w)})
  /\ tokensReserved = MapThenSumSet(
       LAMBDA w : ReservedWorstTokens(worker[w].task),
       {w \in Worker : HoldsTokens(w)})

\* "every one of those has its worst case reserved, so the ceiling holds":
\* when a call starts, all that is spent and in flight fits under the ceiling
\* with it, however many are in flight; past the ceiling goes only what tasks
\* already in flight then were charged above their own worst case.
CeilingHolds == spent + reserved <= ceiling + over

\* The same for -max-run-tokens.
TokenCeilingHolds ==
  tokenCeiling > 0 => tokensSpent + tokensReserved <= tokenCeiling + tokensOver

\* "Nothing new starts" after a refusal: what each worker may still start is
\* the one task it had already asked halted() about.
NothingNewStarts == \A w \in Worker : late[w] <= 1

\* The queues hand every task to exactly one worker, and a run that no
\* refusal stopped has an outcome for every task of its list.
EachTaskOnce ==
  /\ \A v, w \in Worker :
       v # w /\ worker[v].task # NoTask => worker[v].task # worker[w].task
  /\ \A w \in Worker :
       worker[w].task # NoTask => outcome[worker[w].task] = "none"
  /\ phase \in {"ended", "unsettled"} /\ ~stop =>
       \A t \in Task : outcome[t] # "none"

\* A task's charge is booked on the board at most once and whole, and always
\* for a task counted as done.
ChargeBookedOnce ==
  \A t \in Task :
    /\ micros[t] \in {prior[t], prior[t] + charged[t]}
    /\ outcome[t] = "ok" => micros[t] = prior[t] + charged[t]

\* A task counted as done has its draft; one that was refused, or whose
\* answer was discarded because a person blocked it, has none.
DraftMatchesOutcome ==
  \A t \in Task :
    /\ outcome[t] = "ok" => art[t] # "none"
    /\ outcome[t] \in {"discarded", "refused"} => art[t] = "none"

\* Once the run is settled the cents on the board are the exact cost rounded
\* up once, each task is within a cent of its own cost, and spent_cents moved
\* by exactly the difference, whatever earlier runs had booked.
CentsAddUp ==
  phase = "ended" =>
    /\ SumFunction(cents) * Cent >= SumFunction(micros)
    /\ (SumFunction(cents) - 1) * Cent < SumFunction(micros)
    /\ \A t \in Task :
         /\ cents[t] \in Nat /\ booked[t] = cents[t]
         /\ cents[t] * Cent > micros[t] - Cent
         /\ cents[t] * Cent < micros[t] + Cent

\* A person's block is an order (invariants 57 and 66): while no draft of the
\* task exists, no step of the run writes one or touches the person's reason.
BlockIsAnOrder ==
  [][\A t \in Task :
       /\ board[t] = [state |-> "blocked", by |-> "person"]
       /\ art[t] = "none"
       /\ ~Person
       => art'[t] = "none" /\ board'[t] = board[t]]_vars

\* The run ends: refused before the first call, or with every worker gone.
RunEnds == <>(phase \in {"refused", "ended", "unsettled"})

\* "the run's ceiling above already counts what the rounds that were billed
\* cost, and the board must carry the same figure" (costcrew#82).
BoardCarriesTheCharge ==
  phase = "ended" => \A t \in Task : micros[t] = prior[t] + charged[t]
=============================================================================
