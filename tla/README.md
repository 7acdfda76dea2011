# A TLA+ model of costcrew

costcrew is a FinOps console for cloud and AI spend. A crew of AI analysts
works a board of tasks, a runner calls the models under a budget, a supervisor
decides what it may and puts the rest before people, export files become a
bill, the bill becomes what each team owes, and every figure ends up in one
SQLite database. This directory models the parts of it that several actors
share, checks them with TLC on small instances, and proves the main results
about them with TLAPS for every size.

Run from this directory, with any of the cfg files and the module it is for:

    tlc -workers 4 -config MCRunnerMoney.cfg MCRunner
    tlc -workers 4 -config MCDecisionsPair.cfg MCDecisions
    tlc -workers 4 -config MCRosterPair.cfg MCRoster
    tlc -workers 4 -config MCPlanning.cfg MCPlanning
    tlc -workers 4 -config MCBooks.cfg MCBooks
    tlapm RunnerProofs.tla          # and the other *Proofs modules

## How the system runs, and what a step is

There is one SQLite database in WAL mode (`internal/store`). These write it:

- the console (`cmd/costcrew`, `internal/web`): one goroutine per request;
- the live runner (`tools/run`, no flag): one process, two queues of worker
  goroutines over one vendor width and one local width;
- the supervisor's pass (`tools/run -supervise`, or a button in the console);
- the cadence (`tools/run -due`), started by cron;
- the imports (`internal/connectors`), from the console's watcher or a click.

SQLite makes one **statement** atomic. Most functions of `internal/crew`,
`internal/finops` and `internal/anomaly` are a SELECT followed by one or more
writes with no transaction around them, so two of them interleave between any
two statements. The models take exactly that grain: one action is one
statement, or one critical section of a mutex, or one step of a goroutine that
others can observe. Where the code does open a transaction
(`SettleLiveSpend`, `Approve`, `Transfer`'s move, the rows of `Close`, an
import), its effect is one action, and what was read before it opened is an
earlier one.

## Inventory

State, operations and hazards of every component; the same list is in
PROJECT.json with sources and status, where each hazard has its line.

| Component | State | Operations | Interacts with | What makes it correct |
|---|---|---|---|---|
| live runner (`tools/run/live.go`) | `runBudget` (spent, reserved, in money and tokens), the stop flag, the workers, the feeders | preflight, reserve, call, settle, save the draft, record the charge, mark a failure | tool loop, ledger, board | ceilings hold across workers; a refusal stops new work; each task once; the board carries the charge; a person's block is kept; the run ends |
| tool loop (`loop.go`, `deliver/settlement.go`) | the call so far | one round, fold usage and settlement | gateway, vendors | every billed round is in the charge |
| live spend ledger (`crew/provenance.go`) | `live_micros`, `live_cents`, `spent_cents` | record, settle | runner, board | cents add up to the cost rounded up once |
| estimates and preflight (`run/main.go`, `local.go`) | none | price a run, refuse it | runner | nothing is called that does not fit |
| supervisor's pass (`finops/supervise.go`) | none of its own; one read of the options | rank, detect contradictions, apply, carry, ask | options, anomalies, requests | nothing dropped; one option per deliverable; contradictions go to a person |
| applying (`finops/apply.go`) | none | side effect, mark, set rivals aside | anomalies, drivers, periods, halts | applied only after it happened |
| options and requests (`crew/options.go`, `decision.go`, `answer.go`) | `artifact_options.state`, the request artifact | mark carried/applied/refused/not chosen, write and close a request | supervisor, console | an answer is final; a request stays open while it is owed an answer |
| answering (`web/decisions.go`) | none | apply or refuse a carried option | options | only carried options are answered |
| anomalies (`internal/anomaly`) | `anomalies.state` | assign, explain, accept, dismiss | options | closed is closed |
| roles (`crew/roles.go`, `roles.yaml`) | a file | who may select what | supervisor | the supervisor keeps to its classes |
| board (`crew/crew.go`, `web/work.go`) | tasks, artifacts, sprints | assign, block, post, return, FromAnomaly, CloseSprint | runner, console | a posted deliverable and its task agree |
| desk halts (`crew/halt.go`) | halts, analysts' states | apply, lift, list the stale | roster, supervisor, runner | lifting gives back what applying took |
| roster, mandate, ownership (`crew/roster.go`, `mandate.go`, `ownership.go`, `owners.go`) | analysts, owners | hire, set a state, re-brief, remove, transfer | board, halts | no work without an owner, no analyst under nobody, booked charges stay put |
| planning (`crew/plan.go`, `plan_ask.go`, `plan_ledger.go`, `web/planning.go`) | sprints, asks | propose, ask a model, validate, approve | board | a plan becomes one sprint, an answer costs no more than what it answers, every call is booked |
| cadence (`run/due.go`, `cadence_settings.go`) | the switch | start what is due | planning | one sprint a day, none when off |
| periods (`finops/chargeback.go`, `allocation.go`, `closure.go`, `forecast.go`) | chargeback rows, rules, forecasts | allocate, close, reopen, true up | applying, imports | the allocation is the bill to the cent; a closed period does not move |
| explainers (`crew/explainer.go`) | packs | commission, draft, publish | periods | one pack of a period |
| figures (`finops/kpi.go`, `ai.go`, `results.go`, ...) | none | queries | the tables | arithmetic of rows |
| store and journal (`internal/store`) | journal rows, hash chain | append, verify, migrate | everything | the chain has no fork |
| authentication (`internal/auth`) | accounts, sessions, throttling | sign in, out, expire | web | a session outlives nothing it should not |
| single sign-on (`internal/sso`) | pending flows | begin, call back | auth | a flow is used once |
| stack supervisor (`internal/stack`) | child processes | start, stop, watch | siblings | stops what it started |
| packets (`internal/deliver`) | none between calls | build a prompt, tokenise names | runner | text |
| engines (`internal/engines`) | a table under a lock | load, price | runner | data |
| connectors (`internal/connectors`) | calls, invoice rows, derived charges, attribution | import a folder in one transaction | periods, estate | each call counts once; a revised file replaces itself; the ledger is the rows |
| detection, estate (`internal/detect`, `internal/estate`) | spend rows | intake, detect | anomalies | statistics |
| enforcement, guard (`internal/enforce`, `crew/guard.go`) | files | render policies | gateway | rendering |
| typryx (`internal/typryx`) | stored verdicts | call a judge | deliverables | I/O |
| web (`internal/web`) | none | routing, pages | everything | rendering |
| console binary, seeds, history | none | wiring, samples | everything | wiring |
| other tools (`tools/*`) | none | imports, benches | store | I/O |

The hard behaviour is in the first nine rows and in the board, halt, roster,
planning, cadence, period, connector and journal rows: read-then-write without
a transaction, several workers under one budget, errors that end a pass half
way, answers that travel through a page, files rewritten under an import.

## Modules

| Module | Models | Depends on |
|---|---|---|
| `LiveLedger` | the rounding of `SettleLiveSpend` (provenance.go) as pure functions | |
| `Runner` | one live run, its two queues, budgets, tool loop, board writes, and a person's clicks on the same rows | `LiveLedger` |
| `Choice` | abstract: what the options of a deliverable promise | |
| `Decisions` | the supervisor's pass, ApplyAs, option and request writes, the answer handler, anomaly clicks | `Choice` |
| `Roster` | hiring, states, re-briefing, transfers and removals, desk halts, the board's clicks, the owner a charge is booked to | |
| `Plan` | the proposal of a sprint and what of a model's answer to it is accepted, as pure functions of the rows they read | |
| `Planning` | the planning page, the paid ask, `Approve`, and `-due` under the switch of /cadence | `Plan` |
| `Allocation` | how a month's bill is split between teams, as pure functions of the charges and rules | |
| `Books` | export files to rows, rows to charges and attribution, charges to a closed chargeback | `Allocation` |
| `MCRunner`, `MCDecisions`, `MCRoster`, `MCPlanning`, `MCBooks` | the instances for TLC | the module of that name |
| `RunnerProofs`, `DecisionsProofs`, `RosterProofs`, `PlanningProofs`, `BooksProofs` | theorems | the module of that name |
| `RunnerLedgerProofs` | theorems about the queues, the reservations, the board and the settlement | `RunnerProofs`, `SumLemmas` |
| `RosterOverlapProofs` | theorems about the halts, the moves and the stamp, which hold outside named overlaps | `RosterProofs` |
| `SumLemmas` | what a sum over a finite set is | |

A component that reads what another one writes takes it as its environment:
`Planning` lets the rest of the console change the rows a plan reads
(`WorldMoves`), `Runner` and `Roster` both model the board's clicks, against a
running run in the one and against the crew's changes in the other.

### Runner and LiveLedger

| Model | Code |
|---|---|
| `phase`, `Preflight`, `FitsCeilings`, `EndRun` | `spend`: the whole-run refusals, `wg.Wait`, `SettleLiveSpend` |
| `feeder`, `Feed`, `Take` | `runQueue`: the feeder looks at `halted()` and blocks on an unbuffered channel; the workers range over it |
| `worker[w].pc` | the line a worker stands at in `work` and `execute` |
| `AskHalted`, `Finish`, `stop` | the second look at `halted()`, and the end of `work` under spend's mutex |
| `Reserve`, `ReserveTokens`, `Unreserve`, `Settle`, `SettleTokens` | the methods of `runBudget`, each one critical section |
| `Round`, `RoundFails`, `FoldRound`, `ChargeMicros` | `anthropicToolLoop`/`openAIToolLoop`, `foldRound`, `deliver.Charge` |
| `RecordTokens`, `InsertDraft`, `Options`, `ReturnCheck`, `ReturnArtifact`, `ReturnTask`, `RecordCharge` | `recordTokens`, the statements of `saveDraft`, `crew.Return` by the supervisor link, `recordCharge` |
| `PersonReads`, `PersonWritesArtifact`, `PersonWritesTask` | `crew.Block`, `Assign`, `Post`, `Return`: a read that may refuse, then their writes |
| `Rows`, `Want`, `WholeCents`, `SortedBefore`, `Give` | the sort and the largest-remainder loop of `SettleLiveSpend` |

`charged`, `over`, `tokensOver`, `late` and `prior` are history: no guard reads
them. An LLM's answer is nondeterministic: any round may answer, ask for a
tool while rounds are left, fail without an answer, fail after it was billed,
or be refused by the gateway. What a round costs is any member of `Usages`.

### Decisions and Choice

| Model | Code |
|---|---|
| `opt`, `art`, `anom`, `req` | `artifact_options.state`, `artifacts.state`, `anomalies.state`, the decision-request artifact of one owner |
| `StartPass`, `Turn`, `First` | `Supervise` up to and around its loop: one read of the open options of posted deliverables (`OpenOptionsForSprint`), then `rankOptions` order |
| `Contradicted`, `Voice`, `Addressee` | `contradictionRouting`, `ownerOfOption` |
| `SupervisorApplies` | the mandate, threshold and recorded-figure conditions |
| `ReadAnomaly`, `MoveAnomaly`, `InsertDriver`, `Mark`, `ReadRivals`, `MarkNotChosen` | the statements of `ApplyAs` in their order |
| `Carry`, `FindRequest`, `WriteDecisionRequest` | `MarkOptionCarried`, `DecisionRequestFor`, `WriteDecisionRequest` |
| `StartAnswer`, `Refuse`, `Close`, `PostRequest` | `optionAction` and `PostDecisionRequestIfComplete` |
| `Click` | assign, explain or dismiss on the anomaly's own page |
| `StartJudge`, `JudgeRequest` | `crew.Post` and `Return` of the request itself, which the board offers like any deliverable's |
| `Die` | a process that ends, or a statement that fails, between two statements |

A handler is a member of `Proc`; its local variables are the fields of
`proc[p]`. `MaxBusy = 1` is a console used by one person at a time, and
`MaxBusy = 2` interleaves two handlers statement by statement.

`Choice` is the abstract specification: of the alternatives of one deliverable
at most one is carried out and applied, and an applied or refused option stays
so. It knows nothing of passes, requests or anomalies. `Decisions` implements
it, through the mapping `applied <- {o : opt[o] = "applied"}`, as long as one
handler runs at a time. `stamped` is history: the owners whose request a person
posted on the board.

### Roster

| Model | Code |
|---|---|
| `roster`, `task`, `draft`, `halt` | the tables analysts, tasks, artifacts (one per `Copies`) and desk_halts |
| `Begin...` | what a handler of `web/roster.go`, `web/halt.go` or `web/work.go` looks at before its first write; `MayManage` is `mayManage` |
| `Hire`, `SetState`, `Rebrief` | one INSERT or UPDATE each, which finds the row gone or there already |
| `BeginRemove`, `RemoveLooks`, `Remove` | the count of open work, the count of children, the DELETE |
| `BeginTransfer`, `MayActUnder`, `NewParent`, `Transfer` | the checks on a read made once; the move of the analyst and its open work in one transaction, whose default parent is asked for inside it |
| `Assign`, `Block`, `JudgeArtifact`, `JudgeTask` | `crew.Assign`, `Block`, and the two statements of `Post` and `Return` |
| `File` | the draft of a live run, which is `Runner`'s |
| `HaltSuspends`, `Halt`, `LiftWakes`, `Lift` | `ApplyHalt` and `LiftHalt`, name by name, the row of desk_halts last |
| `Die` | a handler that ends between two of its writes |

A hire takes any name as its parent, as `crew.Hire` does; only `hire.html` offers
fewer.

`met`, `died`, `cause`, `spared`, `booked`, `reopened`, `byHand` and `missing`
are history. `missing` holds the names nobody had when a hire was put under them.
`met` holds the pairs of kinds that were in flight together: several
promises of this code hold unless two particular handlers overlapped, and the
properties name the overlap.

### Plan and Planning

| Model | Code |
|---|---|
| `Propose...`, `CadenceDue`, `RoutedItem`, `ChooseAnalyst` | the sources of `Propose` in their order, `routedItem`, `chooseAnalyst` |
| `RefsAreSound`, `MayReroute`, `AnswerItemHolds`, `ValidatePlanAnswer`, `ModelPlanFrom` | the checks on a model's answer and the plan made of it |
| `OpenPage`, `ReadPlan`, `ReadModelPlan`, `Approve` | the planning page, `approvePlan` and `approveModelPlan` up to `crew.Approve`, and its transaction |
| `AskRefused`, `AskCalls`, `GatewayAnswers`, `AskReturns`, `AskGivesUp`, `SettleAsk` | `askPlan` and `SettlePlanAsk` |
| `DuePreflight`, `DueRechecks`, `DueCreates`, `SetCadence` | `-due` and the switch of /cadence |
| `WouldRun`, `DueWorst` | `price` and `dueWorstMicros`: the items that are not refused, and what they cost at worst; an item without a guard is one of them (`price` asks nothing of a budget of 0) |

### Books and Allocation

| Model | Code |
|---|---|
| `folder`, `FolderMoves` | the export folders, which the gateway and the clouds write |
| `ImportListed`, `ImportOpened`, `ImportCommitted`, `ImportFailed` | the readers of `tokenfusefocus.go` and `cloudfocus.go` around their one transaction |
| `FileHashed`, `Hash`, `Seen` | `sha256OfFile`, the first of the two times a file is read, and the cloud reader's `seen` |
| `FileRefused` | a file that is gone, or not readable to its end |
| `RowsOf`, `LinesOf`, `Upserted`, `WrittenOver` | the rows of a file under the hash taken of it, and `ON CONFLICT(file_sha256, row_no) DO UPDATE` |
| `ExportRead`, `superseded`, `daysTouched` | the second time, `processFocusFile` from its `os.Open` on, and `supersede`: of two copies of a call the newer export's stays, of two equally new the one read later |
| `BillRead`, `BillSeen`, `ReplacedBy`, `staleDays` | `processCloudFile` and the skip of bytes already seen |
| `deriveCharges`, `deriveCloudCharges`, `deriveAttribution` | the functions of those names |
| `CloseLooked`, `CloseReadDirect`, `CloseReadPots`, `CloseWritten`, `Reopened`, `SetRule` | `Close` read by read, `Reopen`, the rules' form |
| `directCosts`, `sharedCostPots`, `ruleFor`, `Borne`, `TeamCosts`, `TrueUpFor` | `Allocate` with Go's truncating division, and the true-up |

A file may be rewritten between its hash and its rows, and what is read is then
filed under the hash of what is gone. `torn`, `lost` and `lapsed` are history:
the hashes another content was filed under, the gateway's rows such a content has
written over, and per reader the days of rows written over that no import has
derived again since.

`TheBooksAddUp` says that the allocation
with its remainders is the bill to the cent and that what was frozen, its
true-up and the teams it never charged are what the month costs now.

### Abstractions, and what they leave out

All modules: journal events, console lines, the bus and wording are left out.

Runner and Decisions:

- The runner's own `saveDraft` options validation is a nondeterministic
  refusal: what makes an options block valid is text.
- `LiveRivalsOf` makes two SELECTs one after the other; they are one step.
- A new decision request is an `EnsureTask` and two INSERTs; they are one step.
  Of two requests inserted for one owner `DecisionRequestFor` keeps finding
  one, so the second row is not represented. A person's Post or Return of a
  request writes its artifact; the state of its task, which no handler here
  reads, is left out.
- `Supervise` also mentions stale desk halts in the requests.
- An apply that fails for want of a desk or a target (a driver) is `Die`.
- The lapse date of an option is stored and shown, and nothing enforces it.
- Owners are asked in the order of their names; the model fixes some order.
- `transition` writes unconditionally after its read; so does the model.

Roster:

- The states probation and onboarding are to every guard here what restricted
  is, and stand behind it. A task's state `done` is read by some queries and
  set by none, and is left out.
- Who asks is not remembered: an owner or an admin is in `Person`.
- `SeedOwners` and the seeds are the initial state.
- Facts of the code the model shows and no property forbids, because nothing
  in the repository says otherwise: the parent a transfer follows its desk to
  may be the analyst itself or close a loop; a lift whose list holds a removed
  analyst fails for ever; a halt that dies leaves suspended analysts no lift
  finds; returning one deliverable of a stamped task opens the task again, and
  a transfer then rewrites the owner its charge was booked to.

Planning:

- Titles, reasons and a goal's sentence are what they resolve to. Negative
  budgets and start dates that do not parse are left out, and so is
  `CloseSprint`.
- `Tasks` is ordered newest first, so the three blocked tasks that come back
  are the newest, although the comment at plan.go:272 calls them the oldest;
  the model follows the code.
- A planning call given up by its timeout books nothing, whatever the gateway
  charges (`abandoned` is that money).

Books:

- One month, one provider of a cloud, one model of an AI call; a category, a
  team and a day are what a row is told apart by.
- A row refused by the parser is left out and the file carries on; a file that
  cannot be read to its end is refused whole (`Unreadable`).
- One reading of a file sees one content. A file that changes while it is read
  is a content of its own, which may be offered like any other.
- The same bytes in both doors' folders, commitments, the dry run and the
  other tables an import empties with the generated estate are left out.
- The console inserts rules for every desk only; the order of `ruleFor` is
  modelled all the same.
- Facts of the code behind the exceptions the properties name: two closes that
  overlap mix their rows through INSERT OR REPLACE; the replacement of the
  generated estate is decided before the transaction opens, so that a second
  import may empty what was written since; `TrueUpFor` walks the frozen teams,
  so a team first charged after the close appears in no true-up; the rows of
  a file removed from its folder stay.

## What each run checks

| Run | Instance | Shows |
|---|---|---|
| `runner_money` | 3 vendor tasks over 2 workers, an idle local queue, one task of 2 rounds, ceilings 3 and 4 in both units, charges below and above the reservation | `TypeOK`, `ReservedIsInFlight`, `CeilingHolds`, `TokenCeilingHolds`, `NothingNewStarts`, `EachTaskOnce`, `CentsAddUp`, and `RunEnds` under fairness |
| `runner_board` | one vendor and one local task at once, 2 clicks, 1 failing statement, an earlier run's cost on the ledger | `ChargeBookedOnce`, `DraftMatchesOutcome`, `BlockIsAnOrder` |
| `runner_charge` | the same with 1 click and no failing statement | a counterexample to `BoardCarriesTheCharge` |
| `decisions_serial` | 4 deliverables, 7 options, 2 anomalies, an unowned task, a figure that disagrees with the record, 2 clicks on anomalies, one handler at a time | `TypeOK`, `RequestOpenWhileAsked`, `ImplementsChoice`, `ReachesADesk` under fairness |
| `decisions_pair` | 3 deliverables, 4 options, two handlers interleaved, one of which may die | `AppliedHasActed`, `SomebodyWins`, `PassHandlesAll`, `ContradictionIsAsked` |
| `decisions_dropped` | the serial instance with one click | a counterexample to `NothingIsDropped` |
| `decisions_reopened` | the serial instance with no click | a counterexample to `DecidedIsFinal` |
| `roster_pair` | a supervisor, a partner and an analyst on two desks, two people, one task with 2 deliverables; 3 handlers, two at once, one of which may die | `TypeOK`, `WorkIsAnsweredFor`, `NobodyWorksForAGhost`, `ChainIsWhole`, `StampAndTaskAgree`, `BooksStayPut`, `HaltRemembers`, `LiftSparesOthers`, `AskedMovesMakeNoLoop` |
| `planning` | 4 analysts on two desks and management, 2 anomalies, two browsers and two `-due` runners, four answers of a model (sound, moved and cheaper, a ref twice, off its desk), one change of the rows and one of the switch | `TypeOK`, `LabelOnce`, `ModelCostsNoMore`, `MovedWorkStaysOnTheDesk`, `AskIsBooked`, `DueObeysThePage` |
| `planning_shown` | the same with one browser and one runner | a counterexample to `ApprovedIsShown` |
| `books` | gateway folder with two files, the second door's folder, two cloud files that may come to hold the same bytes, two importers, two closers, 5 things begun | `TypeOK`, `EachCallStandsOnce`, `LedgerIsTheRows`, `RevisionReplacesUnlessTwin`, `TheBooksAddUp`, `FrozenStays` |
| `books_revised` | the same with fewer things begun | a counterexample to `RevisionReplaces` |

Every property of a passing run has a mutant in PROJECT.json: a slip a
programmer could make in the modelled code (a check against the settled total
alone, a reservation kept after a refusal, a feeder that never closes its
channel, rivals read before the mark, ...) under which the same run reports
the property violated.

### The five disagreements

- **A charge the board never carries** (`runner_charge`). `execute` says that
  the board must carry what the run's ceiling counted. `saveDraft` returns the
  supervisor's `crew.Return` error before it reaches `recordCharge`. A person
  who posts the draft between its INSERT and that read makes `Return` refuse
  with `ErrSettled`: the charge is in the ceiling and never on the board, and
  the posted task is then marked blocked.
- **A deliverable that is dropped** (`decisions_dropped`). `Supervise` says
  that nothing is dropped. Once a person has dismissed an anomaly on its own
  page, applying an explanation of it is refused, the refusal ends the pass,
  and the option stays open, so that every later pass ends there too. What is
  ranked behind it is neither decided nor carried.
- **A decision that is taken back** (`decisions_reopened`). Applying one
  deliverable's explanation sets a differing alternative of another
  deliverable aside; the same pass, working from the states it read at its
  start, then carries that deliverable whole, and the option set aside is
  before its owner again.
- **Another item than the one shown** (`planning_shown`). The page numbers a
  plan's items after sorting them by guard, and the model answers with those
  numbers. `approveModelPlan` looks them up in the proposal as `Propose`
  returns it. With nothing changed in between, other work is created than was
  on the page.
- **Rows nobody removes** (`books_revised`). A cloud file that was rewritten
  with the bytes of an earlier file of the folder is passed over as a
  duplicate, before anything asks what its path held. The rows of its earlier
  version stay in the bill, though no file holds them.

`ReachesADesk` and `PassHandlesAll` say what remains true of the second, and
`SomebodyWins`, which allows the carried state, of the third.
`ModelCostsNoMore` and `MovedWorkStaysOnTheDesk` are what still holds of the
fourth, and `RevisionReplacesUnlessTwin` of the fifth.

### What the properties allow, because the code does it

The model takes these steps, and a property names each as its exception or says
what holds in spite of it.

- **A request closed with a question open.** A person may post an owner's
  request on the board whatever is carried under it. The losing side of a
  contradiction, too, is asked in the request of the winner's owner, while the
  count before a request is posted is of the owner's own options; and that count
  and the post are two statements, between which a pass may carry another.
  `RequestOpenWhileAsked` is what holds, one handler at a time: the console itself
  posts no request while an option of its owner's is carried in it, and only a
  person's post on the board closes one that has any.
- **Work without a guard.** `CadenceDue` hands the supervisor items with a
  budget of 0, which `price` takes for no guard at all: a day with nothing else due
  creates a sprint. `DueObeysThePage` counts that work in the ceiling's sum.
- **A day run twice.** Two creators look for one label before either has written
  it, and both create its sprint. `LabelOnce` says that only that race doubles one.
- **A file that changes while it is read.** Its new rows are kept under its old
  hash and write over the old rows of the same numbers; the rest of the old
  stays beside them, and a call in both is in the bill twice.
  `EachCallStandsOnce`, `LedgerIsTheRows` and `RevisionReplacesUnlessTwin` say what
  holds all the same: no two hashes count a call, only rows written over are lost,
  only their days' charges lapse, and only until an import touches those days.

## Bounds, and why they are enough

- `MaxClicks`: a person's requests. Each property a click can break needs one
  click, or two that interleave (block, then assign; post, then return).
- `MaxFaults`, `MaxFails`: failing statements. One is enough to leave each
  sequence of statements unfinished at each of its places.
- `MaxBusy = 2`: every read-then-write race here is between two handlers.
- Two vendor workers and three tasks: two are in flight while a third is
  offered, so a refusal meets a call in flight and a task already handed over.
  The worst cases add up to 4, in money and in tokens: under a ceiling of 3 the
  preflight refuses the run, and under 4 it starts with nothing to spare, so
  that a reservation is refused exactly when an earlier charge broke its own.
- Usages: one within the reservation of the first two tasks, and one settled
  above it in both money and tokens; the third task's bound in money is 0, so
  any price is above it.
- `Cent = 3` micro-dollars gives remainders 0, 1 and 2, with ties. The prior
  ledger holds cents from an earlier run that need correcting.
- A task with two rounds is enough for a fold: settled and unsettled rounds mix.
- Four deliverables: one pair that agrees and offers alternatives, one pair
  that contradicts itself, one owned by nobody.

- `MaxOps = 3`, `MaxBusy = 2`: in the roster a third handler finds what two that
  overlapped have left. The one task, the partner's desk without the partner
  and a suspended partner at the start are what each exception needs; two
  `Copies` give a stamped task a second deliverable.
- `planning`: `MaxStarts = 3` lets two creators look at one label and a third
  come later; one change of the world between the answer and its approval is
  enough for a ref to mean something else. The proposal has anomalies on both
  desks, a cadence in and out of its guard, a halted desk and a supervisor.
- `books`: five things begun (files moved, imports, closes, rules) are enough
  for a file rewritten between its hash and its rows after an earlier import of
  it, for an export rewritten between two imports, or for a close overtaken by another
  around an import. A day is lapsed, a row lost and a hash torn in it: each of the
  three properties fails there without its exception. The amounts are chosen so that rounding, a remainder, a
  credit, a desk that nets to zero and a pot no rule names occur.

Deadlock checking is off in every cfg, because the systems stop: a run ends, a
sprint whose options are all decided has nothing left to do, and the bounds on
what is begun run out.

## Fairness, and why the code justifies it

- `Runner`: weak fairness of `Preflight`, `EndRun`, each `Feed(q)` and each
  worker. The Go scheduler runs every runnable goroutine, and the one long wait,
  a call, is bounded by the task's deadline (`taskDeadline`) and the HTTP
  client's timeout; the round cap bounds the loop. A person's clicks have no
  fairness: `RunEnds` does not depend on one.
- `Decisions`: weak fairness of a handler in flight, for the same reason. The
  pass itself has strong fairness: it is run again and again on the sprint as
  long as there is something to collect. It has to be strong because with
  `MaxBusy = 1` another handler disables it for a moment, which is a limit of
  the model and not of the console. Nobody owes an answer, so no property says
  that a carried option is ever decided.
- `Roster`, `Planning` and `Books` state safety only: people owe the console
  nothing, an import or a close that fails is simply asked for again, and no
  loop in them has to end for another to go on.

## What is proved

Every theorem is for all values of the constants that the named assumptions
allow. Where a theorem assumes more, the table says so. The assumptions are
what the code justifies:

- `RunnerAssumption`: finitely many tasks and workers, since a run is a list
  read at its start and two fixed widths; prices and ceilings are amounts.
  `LineAssumption`: each queue is a list without repetition and no task is on
  both, and no queue with a task in it is without a worker (`splitByEngine`,
  widths of at least one). `PriorAssumption`: an earlier settlement gave cents
  to tasks with a live cost alone (`SettleLiveSpend`'s `live_micros > 0`).
- `DecisionsAssumption`, `RosterAssumption`, and `SeedAssumption`: what the seeds
  leave, the supervisor and every parent on the roster and a task owned by its
  analyst's owner.
- `PlanAssumption` and `PlanningAssumption`: finitely many rows in each list a
  plan reads, guards that are amounts, the initial rows among those the rest of
  the console may leave, and finitely many browsers.
- `AllocationAssumption`: a cent is some micro-dollars. `BooksAssumption`: files
  of finitely many rows, one month of finitely many days, amounts and team
  numbers that are integers of any sign.

| Theorem | States |
|---|---|
| `RunnerProofs!TypeCorrect` | `Spec => []TypeOK` |
| `RunnerProofs!CeilingAlwaysHolds` | `Spec => []CeilingHolds` |
| `RunnerProofs!TokenCeilingAlwaysHolds` | `Spec => []TokenCeilingHolds` |
| `RunnerProofs!NothingNewStartsAlways` | `Spec => []NothingNewStarts` |
| `RunnerProofs!BlockIsAlwaysAnOrder` | `Spec => BlockIsAnOrder` |
| `RunnerLedgerProofs!EachTaskOnceAlways` | `Spec => []EachTaskOnce` |
| `RunnerLedgerProofs!ChargeBookedOnceAlways` | `Spec => []ChargeBookedOnce` |
| `RunnerLedgerProofs!DraftMatchesOutcomeAlways` | `Spec => []DraftMatchesOutcome` |
| `RunnerLedgerProofs!ReservedIsInFlightAlways` | `Spec => []ReservedIsInFlight` |
| `RunnerLedgerProofs!CentsAddUpAlways` | `Spec => []CentsAddUp` |
| `DecisionsProofs!DecisionsTypeCorrect` | `Spec => []TypeOK` |
| `DecisionsProofs!DecisionsAppliedHasActed` | `Spec => []AppliedHasActed` |
| `DecisionsProofs!DecisionsContradictionIsAsked` | `Spec => ContradictionIsAsked` |
| `DecisionsProofs!DecisionsPassHandlesAll` | `Spec => PassHandlesAll` |
| `DecisionsProofs!DecisionsSomebodyWins` | `Spec => []SomebodyWins` |
| `DecisionsProofs!DecisionsRequestOpenWhileAsked` | `Spec => []RequestOpenWhileAsked`, with `MaxBusy = 1` and finitely many handlers |
| `DecisionsProofs!DecisionsImplementsChoice` | `Spec => ImplementsChoice`, with `MaxBusy = 1`, `MaxFails = 0` and finitely many handlers |
| `RosterProofs!RosterTypeCorrect` | `Spec => []TypeOK` |
| `RosterProofs!RosterBooksStayPut` | `Spec => []BooksStayPut` |
| `RosterProofs!RosterWorkIsAnsweredFor` | `Spec => []WorkIsAnsweredFor` |
| `RosterProofs!RosterNobodyWorksForAGhost` | `Spec => []NobodyWorksForAGhost` |
| `RosterProofs!RosterChainIsWhole` | `Spec => []ChainIsWhole` |
| `RosterOverlapProofs!RosterAskedMovesMakeNoLoop` | `Spec => AskedMovesMakeNoLoop` |
| `RosterOverlapProofs!RosterHaltRemembers` | `Spec => []HaltRemembers` |
| `RosterOverlapProofs!RosterLiftSparesOthers` | `Spec => LiftSparesOthers` |
| `RosterOverlapProofs!RosterStampAndTaskAgree` | `Spec => []StampAndTaskAgree` |
| `PlanningProofs!PlanningLabelOnce` | `Spec => []LabelOnce` |
| `PlanningProofs!PlanningModelCostsNoMore` | `Spec => []ModelCostsNoMore` |
| `PlanningProofs!PlanningMovedWorkStays` | `Spec => []MovedWorkStaysOnTheDesk` |
| `PlanningProofs!PlanningAskIsBooked` | `Spec => []AskIsBooked` |
| `PlanningProofs!PlanningTypeOK` | `Spec => []TypeOK` |
| `PlanningProofs!PlanningDueObeys` | `Spec => DueObeysThePage` |
| `BooksProofs!BooksTypeCorrect` | `Spec => []TypeOK` |
| `BooksProofs!BooksCallStandsOnce` | `Spec => []EachCallStandsOnce` |
| `BooksProofs!BooksLedgerIsTheRows` | `Spec => []LedgerIsTheRows` |
| `BooksProofs!BooksRevisionReplaces` | `Spec => []RevisionReplacesUnlessTwin` |
| `BooksProofs!BooksFrozenStays` | `Spec => FrozenStays` |
| `BooksProofs!BooksAddUp` | `Spec => []TheBooksAddUp` |

The runner:

- `Typed` is `TypeOK` made inductive. The types alone do not say that a busy
  worker has a task (its reservation would have no value), that a feeder
  offers an index its queue has, or that a click under way is about a task;
  `Typed` adds these three. `stop` is treated apart (`StopMoves`).
- `CeilingHolds` is inductive with `Typed`. `reserve` adds at most what the
  ceiling leaves and resets `over`; `settle` moves a reservation to `spent` and
  adds to `over` exactly what the charge is above it (`ExcessType`); everything
  else moves neither (`MoneyMoves`). The token ceiling follows the same steps.
- `NothingNewStarts` needs to know that a worker past `AskHalted` before the
  stop has not started its one task yet, and that a worker that has used it up
  cannot pass `AskHalted` again (`StopHoldsStep`).
- `BlockIsAnOrder` needs `DraftFirst`: a worker at the return of refused
  options, or at its writes, has inserted the draft. So while the task has no
  draft, the only write the run could make is the INSERT, which looks at the
  task's state, or a failure's UPDATE, which spares a blocked task.

- `EachTaskOnce` needs `HandsOut`: a task at work is with one worker, has no
  outcome and waits in no queue, and what waits has no outcome. That a run which
  nothing stopped leaves no task out is `Counts`: what was offered has an outcome
  or a worker, and a feeder closes at the end of its queue only.
- `ChargeBookedOnce` and `DraftMatchesOutcome` need `Booked`: the place of a
  worker says what its task has been charged, what of it is on the board and
  whether its draft is there (`AtWork`). A click can post or return a draft that
  exists (`ClickHasDraft`), so it never brings one back that was discarded.
- `ReservedIsInFlight` is inductive with `Typed`. Each step moves the sum by one
  worker's term (`SumMoves`), and the critical sections of `runBudget` by the same.
- `CentsAddUp` holds because `EndRun` is the only step that books cents. The
  largest remainder is proved of the model's own `SettleLiveSpend`: the whole
  cents left over are fewer than the rows with a remainder, and the rows before
  a place in the sorted order are as many as its rank, so that exactly the
  missing cents are given, at most one to a row.

The options:

- `Typed` is `TypeOK` with `Shape`: what each program counter says of the option
  a handler is about, of those it has still to write and of the deliverables the
  pass has still to come to. The picks of the model are shown to be picks
  (`FirstIsOneOf`, `VoiceIsOneOf`): an order of placings and numbers has a least
  element, by the library's theorem on well-founded relations.
- `AppliedHasActed` needs `ActedFirst`: a handler about to mark an option that
  has a side effect has had it.
- `ContradictionIsAsked` is what `Shape` says of a pass that acts: the anomaly
  of its option is not contradicted among the options it collected. That two
  deliverables whose explanations all differ are a contradiction is
  `ContradictionStep`.
- `PassHandlesAll` needs `NothingForgotten`: each option a pass collected is no
  longer open or still `Pending`, of a deliverable to come, on the list it
  carries, or beside the option it applies. Every step `Delivers` what it owes.
- `SomebodyWins` follows from `Fought`. Whoever sets rivals aside (`Beaten`) has
  marked its own option first, and some related option is `Secure`: applied or
  refused, and on the list of no handler that is setting aside. The mark of an
  option that is on no list makes it secure; if it is on a list, its relations
  were beaten before, and a secure one was there. Only a pass could take an
  applied option back, and while one pass runs it comes only to options nobody
  answers about (`PassAndPeople`). Two passes at once break this, which is why
  the property says `~lapped`.
- `RequestOpenWhileAsked` needs `Alone` and `Relies`: one handler is in flight,
  and what it has yet to write about a request is still true of the options; a
  handler about to post finds none of its owner's options carried. A person's
  post on the board puts the owner among the `stamped`, and the pass that writes
  the request again takes it out. With two handlers it fails, since a close looks
  at the options and posts later.
- `ImplementsChoice` needs `Orderly`: an option that may still be answered has no
  applied option beside it (`Unspoiled`), unless the one handler in flight is
  about to set it aside (`Excuses`); then a side effect is an `Act` of the
  abstract specification, a mark an `Apply`, a refusal a `Refuse`, and every
  other step a stutter.

The roster:

- `Typed` adds to `TypeOK` what a handler of each kind carries (`Shape`).
- `Steps` sorts every action into one of seven: quiet ones, which take nobody in or
  out, change no parent and no owner, and only end or carry on handlers; the
  beginning of a handler that has looked (`Looked`); `Hire`, `Remove`,
  `Transfer`, `Assign`; and a task that changes its state alone. Every theorem
  after it is a proof by these seven.
- `BookInv`: what is posted was booked, and what was booked and never opened
  again is posted, under the owner it was booked to. `Transfer` touches open
  work only, so it cannot reach it.
- `AnswerInv`: a removal in flight is about a name with no clean open work.
  Without that, nothing would keep the analyst of open work on the roster at
  the DELETE, which looks at nothing. `BookInv` is needed with it: a task that
  becomes open again was booked, hence counts as reopened.
- `GhostInv` and `ChainInv` hold while certain kinds have not met: no removal is
  in flight together with an assignment (with a transfer or a hire), an
  assignment's name is on the roster, the parents a transfer carries are on it or
  were never there when a hire was put under them (`Stands`), and a removal past
  its look at the children has found none. A hire is the one step that may put
  somebody under an absent name, and then that name is `missing`. `Meets` is what
  ties the history to the handlers.

- `LoopInv`, `HaltInv`, `SpareInv` and `StampInv` each hold as long as the overlaps
  their property names have not happened, and each says what the handlers in
  flight still find true. A move's analyst is there, and its parent is the one
  the analyst has or is there and does not act under the analyst (`Sound`); whoever a halt put down is on its list or will be
  when its row is written (`Will`), and a lift's list has everybody it should;
  whoever a person stopped is on no list and in no list being made; and a post
  between its writes has stamped its deliverable while a return finds its own
  unstamped. `StampInv` leans on `BookInv`.
- `AskedMovesMakeNoLoop` exempts a removal beside the move. Without that `Sound` is
  not inductive, and the state where it fails can be reached beyond the bounds
  of `roster_pair`: a move of `a` under `b` reads `b`'s parent, `b` is removed and
  hired again under `a`, and the move then closes the loop its check was written
  to refuse.

Planning:

- `PlanFit` says of a handler's plan what its stage relies on (`Fit`). A proposal
  is a sequence of typed items whatever the rows (`ProposeTyped`): the lists it
  draws from are sorted by an order, so each has its elements once (`Ranks`).
  An answer names each ref once and raises no guard, so its items, one for each
  ref, cost no more than those they answer (`ModelCheaper`), sorted or not
  (`SortedTotal`). The proposal an answer is checked against is the one its own
  handler read, so the world may move in between.
- `AskIsBooked` is inductive with the types of the counters: an answer on its way
  is one browser's term of the sum, and settling it moves that term to the ledger.
- `TypeOK` needs `PlanTypes`: a call pending belongs to a browser at that stage,
  so the calls settled and pending are the calls begun, which `MaxAsks` bounds.
- `DueObeysThePage` needs `DueInv`: a cadence run carries a ceiling within the
  runner's flag, and within the page's unless the page changed after it looked.
  The sum is over the items it found not refused, guarded or not.
- `LabelOnce` needs `Outrun`: a creator that looked for its label and did not
  find it finds it on the board only if whoever created it raced with that look;
  and `DueIsTheDay`: a cadence run is about its own day and has not found it.
  Plans, worlds and answers are opaque, so `Shaped` says no more than that a
  handler's record has its fields.

The books:

- `FileStep` is any of the five steps a file takes in an import, and a lemma of
  each (`ExportReadIs`, `BillReadIs`, ...) says what it leaves of the open import.
- `OnceInv`: no two hashes of one door hold one call (`Unique`), and of every
  export read each call stands in a copy at least as new or a row of it was
  written over (`Covered`). It holds for what is committed and for what the open
  transaction holds (`ReadByNow`, `LostByNow`), and `supersede` keeps it
  whichever of two exports is read first and whatever a hash had under it. That
  rows of one hash are of one door is `Doored`: a hash was offered at the path it
  was taken at (`HashOffered`).
- `RevisionInv` speaks of the files the open import has found so far: what
  stands under a path is of the hash found there, and is what was read there
  (`Alone`) unless something else was filed under that hash or a file before it,
  in the order they are read (`InOrder`), had the same bytes. Rows of a hash that
  is not torn are that hash's own content (`Clean`), so reading it again leaves
  nothing over.
- `LedgerInv`: outside the days the open import has touched or written over, the
  rows are those committed (`Untouched`), and outside the lapsed days the ledger
  and the attribution are what they say; so deriving the touched days at the
  commit is enough. It needs that an import's files are its reader's own
  (`OneReader`), and that no gateway call is in before the generated estate was
  replaced (`SeededFirst`).
- `FrozenStays` needs `UnlessOvertaken`: a closer in flight that no other close
  has overtaken looks at a month that is still open.

- `TheBooksAddUp` needs `MoneyInv`: the ledger's rows are finitely many amounts
  (`Counted`), what was frozen is owed once by each team of a desk (`Owed`), and
  so is what a close in flight has read (`Dues`, `Amounts`). Nothing is assumed of
  the rules. Of one bill: named charges and pots partition it (`DirectAddUp`,
  `SharedAddUp`); the shares of a placed pot and the remainder its biggest bearer
  takes are the pot, whatever the quotients truncate (`PotSplit`); added up by
  teams or by pots, a table of shares is the same sum (`SumRows`, `SumColumns`);
  and of a closed month, teams that were charged have one row each, so what they
  cost now splits by those rows (`TrueUpAddsUp`).

### Sums

The community modules define a sum by a recursive function over the subsets of
a set, and the library's induction theorems take an operator, which the provers
cannot instantiate. `SumLemmas` proves by well-foundedness that a SET of subsets
which holds each subset as soon as it holds that subset less any one element
holds them all (`SubsetInduction`). From this it derives that the recursive
function exists and is unique, and what the other modules cite: a sum takes its
terms in any order, agrees, grows and moves with them, counts, scales, splits,
and may be regrouped by a key, renamed one to one, and added up by rows or by
columns.

### Only model-checked

`RunEnds` and `ReachesADesk` are liveness under fairness, which the prover does
not reach. Every other property of a passing run is a theorem. The five
violations are counterexamples, and have nothing to prove. That the constants
of an instance meet the assumptions is evaluated by TLC on every run.

## Not modelled

Figures and reports over rows, detection, packets and pseudonyms, engines,
enforcement files, the judge, pages and routing, seeds and the other tools have
no shared state of their own to get wrong: they compute or render from rows.
Forecasts are run rates in floating point. Token verification in single sign-on
is cryptography; sessions and the table of pending flows touch nothing that is
modelled here. The stack supervisor's behaviour is the operating system's.

Hazards without a property, and why, are in PROJECT.json: two settlements at
once (the runner model has one run), a posted task that a failure blocks and a
click that reopens an anomaly (nothing in the repository says which should
win), two decision requests for one owner, the journal's chain under two
processes, and the overlaps and deaths that a property names as its exception:
there the code does go wrong, and the property says that nothing else does.
