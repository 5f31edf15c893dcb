# TLA+ models of InnFlow

InnFlow takes hotel guests' requests, plans them with an AI provider, asks a human
where policy demands it, and carries them out by driving a browser in the hotel's
property management system (PMS). A request crosses four processes (control API,
Temporal worker, browser worker, PMS), two databases and Redis, and every hop
may be lost, late or repeated. Operators watch and decide in a dashboard. These
modules model the control flow of that path, check it with TLC on small instances,
and prove its main safety properties with TLAPS for all values of the constants.

Paths below are relative to the repository's root. `PROJECT.json` maps each
definition to the lines it models.

    tlc -workers 2 -config RequestApproval.cfg GuestRequestWorkflowMC.tla
    tlapm GuestRequestWorkflowProofs.tla

## 1. The system

| component | state | operations | talks to |
|---|---|---|---|
| **Request ingestion**: `apps/control-api/src/{idempotency,request}` | `idempotency_records` (key, body hash, 24 h expiry), a lock per key in Redis (30 s), `guest_requests` | `execute`, `createRequest`, `cancelRequest`, `retryRequest` | clients retry with an `Idempotency-Key`; channels deliver webhooks twice; starts and signals the workflow |
| **Guest request workflow**: `packages/workflows/src/workflows/guest-request.workflow.ts` | workflow locals: plan, task results, cancel flag, decision, retry payload | `HotelGuestRequestWorkflow`, three signals, one query | calls activities; Temporal retries and replays |
| **Orchestration activities**: `.../activities/orchestration.activities.ts` | `guest_requests.status`, `workflow_executions`, `human_approvals`, `failure_queue_items` | initialize, classify, plan, policy, createHumanApproval, resolveHumanApproval, enqueueFailureItem, escalate, finalize | control database; no transaction |
| **Approval, failure and workflow services**: `apps/control-api/src/{approval,failure,workflow}` | the same rows | approve, reject, requeue, resolve, cancel | signal the workflow |
| **AI providers**: `packages/ai` | none between calls; usage of the last call | classify, plan, policy, summarize; OpenAI repeats its HTTP call | called by the orchestration activities, which record each call as an `agent_runs` row |
| **Browser worker**: `apps/browser-worker` | `browser_action_receipts`, the PMS session, the browser page | `executeBrowserTask`, `verifyBrowserTask` | the PMS's pages, through the circuit breaker |
| **Mock PMS**: `apps/mock-pms` | each hotel's rows, unique by `receiptId`, its reservations, and the same receipts | login, POST of four kinds of rows, PATCH and DELETE of reservations, lists | the browser worker's page, and staff |
| **Circuit breaker**: `packages/telemetry/src/circuit-breaker.ts` | state, failure count, probe count, opening time | `execute`, `getState` | every concurrent browser attempt of a worker |
| **Failure injection**: `apps/mock-pms/src/lib/failure-injection.ts`, its settings page and route | a row per hotel and a process-wide map | read and consume in every route, load and save in the page | all PMS routes, the settings route included |
| **Dashboard**: `apps/dashboard` | tokens in `localStorage`, the session, the rows and the dialog of the mounted page | bootstrap, login, logout, list, resolve an approval, requeue or resolve a failure | the control API; other tabs share the storage |
| **Authentication**: `apps/control-api/src/{auth,common/guards}` | users, a login counter in Redis | login, refresh, me; tenant and role guards | every API call |
| events, audit, metrics, tracing, health, storage, configuration | see section 8 | | |

What is hard:

* **Interleaving.** API handlers check a row, await, and act; the workflow runs
  meanwhile. Two operators, a cancel call and a timer race for one approval.
* **Loss and repetition.** Temporal repeats an activity whose answer is late while
  the old attempt still runs. Activities have no transactions, so an attempt can
  stop between any two writes.
* **Partial failure.** A row and its receipt, a request and its workflow, a signal
  and the row that records it are separate writes to separate systems.
* **Stale state.** A waiter's two reads of one record, a breaker state seen at
  admission, a receipt looked up before another attempt's submission.
* **Shared places.** Requests of several guests, the staff and failure injection
  write to one PMS, and verification reads pages anybody may have written to.
* **Untidy answers.** A language model answers a repeated question differently; a
  page's answers arrive out of order, or after its user has gone.
* **Progress.** The workflow has to close though operators are silent; the breaker
  has to close though rejected callers re-arm it.

What makes each component correct:

* *Ingestion*: duplicates start one workflow, and get one answer, each for the
  client's own body, as long as a key is not shared by different external requests.
* *Workflow and its activities*: nothing reaches the PMS without the consent it needs; a refusal is final; a
  cancel starts nothing new; order is kept; the final rows say what happened; each
  failure is queued; the workflow closes.
* *API services*: an answer takes effect once, for the approval the workflow waits
  for; a settled request has no open approval.
* *Browser worker and PMS*: in a hotel a creation happens once; a success is on
  record where the attempt worked; a record is true and final.
* *Agents and desk*: a reservation is touched in the guest's own hotel only and
  cancelled only with consent; what is reported as done has been done, in the
  guest's hotel; a cancellation stays.
* *AI calls*: bounded in number, and what the workflow goes on with is on record.
* *Failure injection*: one arming fails one request until the armed row is found
  disarmed; maintenance holds.
* *Dashboard*: one person per session; who has a tenant sees only its rows; no
  list older than what the operator was told.
* *Breaker*: threshold, deadline and probe budget are exact under overlapping
  calls; it opens and closes as the dependency does.

## 2. Modules

    RequestLifecycle            abstract: what is promised about one request
          ^  implemented by
          |-- GuestRequestWorkflow   one request: workflow, activities, API handlers
          |     - GuestRequestWorkflowMC, GuestRequestWorkflowProofs
          |-- GuestTasks             several requests, two hotels, staff
                - GuestTasksMC, GuestTasksProofs
                EXTENDS PmsDesk          the PMS's tables and routes
                EXTENDS RequestAgents    the mock provider's agents
    RequestIngestion            calls of the create endpoints, up to workflow.start
      - RequestIngestionMC, RequestIngestionProofs
    AgentCalls                  one agent activity: attempts, retries, agent runs
      - AgentCallsProofs
    BrowserReceipts             all attempts of one browser task
      - BrowserReceiptsProofs
    CircuitBreaker              one breaker and its overlapping callers
      - CircuitBreakerProofs
    FailureInjection            the PMS's injected failures and their settings page
      - FailureInjectionProofs
    Dashboard                   one tab, its session and pages, and the API behind it
      - DashboardMC, DashboardProofs

The modules meet at narrow places: `RequestIngestion`'s `starts` is
`GuestRequestWorkflow`'s `StartWorkflow`; what `AgentCalls` calls `taken` is the answer
`ClassifyReturned` and its like go on with; an attempt of `execute` or `verify` there is
a set of effects (`pms`, `adrift`) refined by `BrowserReceipts`' attempts, and by the
attempts of `GuestTasks` among other requests; a call that the `CircuitBreaker`
rejects or `FailureInjection` fails is a failed attempt of both; `Dashboard`'s
`HandleApproval` is `ResolveCheck` and `ResolveSignal`, and its `RowCloses` is the
workflow resolving the row.

**GuestRequestWorkflow.** `pc` is the activity the workflow awaits. Workflow code
between two awaits is one action (`ClassifyReturned`, `ConditionMet`,
`ExecuteReturned`...), since Temporal runs it on one worker and replays it after a
crash. `ActivityWrite` is one database write of the current attempt; `Effect` says
what each write of each activity does. `ActivityLost` ends an attempt anywhere
between two writes and may leave it in `stray`, from which `StrayWrite` performs its
next write at any later time. An initialization whose row is already there fails
(`InitializeConflict`). Browser attempts are coarser: success with an effect in
`pms`, failure, or loss with an effect `adrift`. The API's handlers
(`CancelRequestRead/Signal/Write`, `CancelWorkflow`, `ResolveCheck/Signal`,
`RequeueSignal/Write`, `ResolveFailure`, `RetryRequest`) interleave at their awaits.
What the AI answers (kind of request, tasks, blocked tasks, need of approval) is
chosen freely.

**RequestLifecycle** has five variables: whether consent is needed, where it stands,
whether the request is withdrawn, what has been touched, and the outcome. The
refinement mapping at the end of `GuestRequestWorkflow` reads consent off the
approval *row* the workflow waits for, so the row and not only the workflow's local
variable has to be right. `GuestTasks` maps each of its requests. An answer may
still be recorded after a `FAULT`, and after no other outcome: the last attempt of
`resolveHumanApproval` can be given up and write its row when the workflow has
already failed. Nothing acts on that row any more.

**RequestAgents, PmsDesk, GuestTasks.** A message is the set of key words the
mock provider looks for, with the room and time it names and what the channel
knows of the guest. `Rules` is the order of `classifyByPattern`, `CreatePlan` and
`EvaluatePolicy` are the plan and the gate made of it. `PmsDesk` has the rows,
receipts and one reservation per hotel; `Post`, `Patch` and `Delete` are what a
submitted form does, `RowVisible` what verification looks for. In `GuestTasks` a
request goes through these; its attempts are cut at the three moments at which
others can come between (page open, form submitted, result recorded). Its session
is the hotel `OpenPage` is signed in to: any hotel, since all have a user `staff`.
Staff submits forms and opens, saves and cancels reservations at both desks.

**AgentCalls.** Three loops in each other: Temporal's attempts, the provider's HTTP
retries, and the writes of an attempt (agent run, request row). Every answer is
free, so a second attempt may answer differently, and a timed-out attempt goes on
in `stray`. `Traceable` allows the row to differ only after such an attempt has
written to it (`overtaken`).

**RequestIngestion.** A phase per call, one action per await of
`IdempotencyService.execute` and of `createRequest` under it: lookup, `SET NX`, polls
of a waiter, a waiter's second read, the search by `externalRequestId`, the insert,
the start, the record, the release. Locks and records expire at any time; a handler
may fail (its lock is released) or die (its lock stays until it expires). Any key may
be sent with any body. `Mixed` names the keys that come with two bodies of which one
has an `externalRequestId`; section 6 says what `SameAnswer` and `AnswerFits` leave
out for those.

**BrowserReceipts.** An attempt's worker and the PMS route it triggers are two
processes; an attempt Temporal has timed out goes on (`overdue`), and a new one
begins. Rows and receipts are unique by (hotel, receipt id). The worker looks and
records under the hotel of the task's tenant (`Home`), the route under the hotel of
the attempt's `session`, which is any hotel with a user of the bot's name. When they
differ the worker does not find the row (`Resource` is empty) and answers success
without recording anything (`AnswerUnrecorded`); the page of a reservation is not
found at all. Reservations are written by PATCH and DELETE, which the page sends
without a receipt id.

**CircuitBreaker.** A call is admitted in one state and ends in another. The clock
is reduced to whether the reset timeout has elapsed since `openedAt`. `probing`
means a probe of the *current* HALF_OPEN period; a probe of a period that has ended
is `running`, so that the budget can be related to the calls which hold it.

**FailureInjection.** `seen` is the row a handler has read, `spent` the entry of the
process-wide map. A handler is `read` while it waits out the injected latency, then
throws, is the one to fail (`FailNextTakes`, then `WritesBack` with what it had
read), or passes on to its own work. Loading and saving the settings are requests
like any other. A restart loses the map and the handlers.

**Dashboard.** `boot` is `AuthProvider`'s bootstrap with the tokens it has read, `fetches`
the calls of `useAsyncData` that have not been answered, `posts` the calls that act
on a row, which go on when their page has gone. Of a token the model keeps whose it
is; it may have expired whenever it is used. A SYSTEM_ADMIN has no tenant, and
`TenantGuard` lets his lists and calls through without one: `OwnRows` of such a user is
every row. Other tabs change the storage, which a tab reads only when it is loaded.

## 3. Runs

Passing:

| run | distinct states | shows |
|---|---|---|
| `RequestApproval` | 1,533,518, about 90 s | consent, refusal, order, cancel, final rows and queue hold |
| `RequestTermination` | 253,432, with liveness, about 60 s | the workflow closes, its approval row is settled, and it implements `RequestLifecycle` |
| `GuestTasks` | 143,025, about 30 s | reports are true, reservations are touched in the guest's own hotel and cancelled by consent only, a cancellation stays and is noticed; every request among others implements `RequestLifecycle` |
| `RequestIngestion` | 560,500, about 70 s | one workflow, one handler, and one fitting answer but for mixed keys |
| `AgentCalls` | 20,781 | bounded calls, and an answer on record |
| `BrowserReceipts` | 168,485 | per hotel one insertion, recorded, truly and finally |
| `CircuitBreaker` | 500 | threshold, deadline, budget, and both liveness properties |
| `FailureInjection` | 2,116,799, about 50 s | fail-next fails one request before the row is found disarmed, maintenance is ended only from before |
| `Dashboard` | 2,530,864, about 100 s | one person per session, no foreign row for who has a tenant, no handled failure back on the list |

Runs that show a disagreement between the code and its documents (each ends in the
violation named, and each is a finding of `PROJECT.json`):

| run | property | what happens |
|---|---|---|
| `CancelStops` | `CancelStops` | `cancelRequest` finds no execution row yet, so it signals nobody, writes CANCELLED and answers. The workflow's first activity then writes RECEIVED and the request is carried out. |
| `ManualRetry` | `RequeueIsRetried` | `requeue` signals `manualRetry` with an empty payload, which `shouldRetryTask` ignores; nothing runs a failed task again, but its item is REQUEUED. |
| `WrongHotel` | `DoneInOwnHotel` | the PMS's login takes the first user of that name; the bot's `staff` is in every hotel, so a row is written, found again and reported as done in another guest's hotel. |

Every property of a passing run has a mutant: a plausible slip in one action
(`ConditionMetByAny` takes an answer for any approval, `CreateOver` inserts over a
row, `AdmitProbeBeyond` admits a probe too many, `FailNextChecks` forgets the map), defined
beside it, that the run catches.

## 4. Bounds

* *Two tasks, listed against their execution order*, are what order, partial
  completion and failure of one task need; a third adds no new kind of pair.
  The classification chooses between `MULTI_ACTION` and single-action requests.
* *Two operators* give both orders of two answers; *one canceller* may call either
  endpoint. Operators are symmetric.
* *Faults.* `RequestApproval` loses one attempt of any activity, with a stray writer
  left behind. `RequestTermination` loses two with two attempts allowed, so each
  activity can exhaust its retries; the refinement is checked there, because only
  an attempt that was the last one can write after the workflow has failed. Cancel
  calls and two tasks are in the proof of the refinement, which has no bounds. The code's limits are 3 (orchestration) and 2
  (browser); `CancelStops` and `ManualRetry` use exactly those.
* *Ingestion*: four calls are a holder, a waiter, a latecomer who finds the lock
  released or expired, and one under another key. Three of them share a key and send
  any of three bodies: two without an `externalRequestId`, and one with that of the
  fourth call, so the key may be plain, reused or mixed. One fault is an expiry under a
  live holder or a failure; one poll stands for twenty. Within these bounds a waiter
  under a mixed key does get another body's answer, so the exception of `SameAnswer` and
  `AnswerFits` is needed. The proofs have no bounds.
* *Receipts*: two hotels are the tenant's and another the session may be of; three
  attempts are two of Temporal and one of the workflow's own retry; three faults let an overdue attempt, a handler without a page and a
  fresh attempt overlap.
* *Guest tasks*: two guests in five combinations (`GuestTasksMC!Mixed`): to one
  hotel and to two, every request type, a type that fails at the desk, messages with
  two intents, and a modification racing a cancellation of one reservation. Two
  tries, one fault and two acts of the staff let one of each fall between any two
  steps of a request. A reservation is CONFIRMED in one hotel, CHECKED_IN in the other.
* *Agent calls*: the code's limits (three attempts, two retries), two answers, and
  two faults: a lost attempt and an overdue one.
* *Failure injection*: three handlers are one that fails, one that has read the
  armed row too, and one that finds it disarmed or saves over it. Five requests and
  restarts let a settings page be opened, saved and saved again around two others.
* *Dashboard*: an operator of one hotel and a SYSTEM_ADMIN, who is listed the other
  hotel's rows too; two failures that differ in nothing (a symmetry), an approval, a
  request. Three answers asked for are an old list, the one after an action and
  another; two acting calls are one of this page and one of a page that has gone.
* *Breaker*: the worker uses threshold 5 and one probe; threshold 3 with two probes
  and four calls lets stale calls of two periods meet a spent and an unspent budget.
  The program counts failures for ever; the model stops counting at `CountCap`, which
  is a bound of the model only, above every value the counter is compared with.

`CHECK_DEADLOCK FALSE` appears where the system rests: a closed workflow whose
clients are done, a task whose attempts are spent, calls that are all answered,
requests that are all closed, a bound on requests reached, a tab nobody uses.

## 5. Fairness

* `GuestRequestWorkflow!FairSpec`: weak fairness of the workflow and its current
  attempt. Temporal schedules a running workflow until it closes: an activity that
  neither answers nor fails runs into its start-to-close timeout, and timers are
  durable. A handler that has begun runs on. Not assumed: that the API starts the
  workflow, that an operator answers, that anybody requeues, that a lost attempt
  writes, or that an attempt is not lost.
* `CircuitBreaker!FairSpec`: time passes; an admitted call ends (every Playwright
  step has a timeout); somebody keeps calling. Nothing is assumed of `getState`, and
  `Recovers` and `Trips` have the dependency's own behaviour as their premise.
* The other specifications state no fairness and no liveness: a guest's request
  makes progress by `GuestRequestWorkflow`, and a tab by its operator.

## 6. Proofs

Each module's proofs use the assumptions declared in that module (numbers are
naturals, limits are at least one) and, where named, one more.

| theorem | argument |
|---|---|
| `GuestRequestWorkflowProofs!TypeCorrect` | `TypeInv` adds that `finalStatus` is known wherever a finalization, current or stray, can write it |
| `ApprovalGateHolds`, `RefusalIsFinal` | `ApprovalInv`, below |
| `CancelHolds` (`NoNewTaskAfterCancel`) | step by step from `TypeInv`: only `ExecuteNext` starts a task, and it reads the flag |
| `CompletedIsEarnedHolds`, `FinalStatusHolds`, `FailuresQueued`, `ExecutionIsOrdered` | `LoopInv`, below |
| `LifecycleImplemented` (`ImplementsLifecycle`) | `ConsentInv`, below; each action is a step of the lifecycle or a stutter |
| `GuestTasksProofs!TypeCorrect`, `ReportsHold`, `NoModificationOfCancelled`, `ReservationsAreProtected` | `Inv`, below |
| `CancellationsStay` (`CancelledForGood`), `LifecycleImplemented` of `GuestTasksProofs` | step by step from `TypeInv` and `Inv` |
| `CircuitBreakerProofs!DeadlineTheorem`, `ThresholdTheorem`, `ProbeTheorem` | the three properties and `TypeOK` are inductive together: `ProbeBudget` says no probe is in flight outside HALF_OPEN, which is why a late end may leave the budget alone |
| `CircuitBreakerProofs!TypeTheorem`, `BrowserReceiptsProofs!TypeTheorem` | a conjunct of each module's `IInv` |
| `BrowserReceiptsProofs!CreatedOnceHolds`, `SuccessTheorem`, `ReceiptTheorem`, `ReceiptIsFinalTheorem` | `IInv` adds `ReplyIsTrue`: a route about to record has written the only row of its hotel, and a page told of success has one behind it there |
| `RequestIngestionProofs!TypeCorrect` | `TypeInv` adds that a waiter has polls left |
| `StartedOnceHolds` | `StartInv`: rows are unique by key and by external id, and only a row's inserter starts its workflow |
| `AnswerFitsHolds`, `SameAnswerHolds` | `AnswerInv`: what is answered, recorded or, unless the key is mixed, about to be fetched fits the body of whoever gets it |
| `OneHandlerHolds` | `LockInv`: while nothing has gone wrong, whoever is between taking a lock and its release has it |
| `AgentCallsProofs!SpecCallBudget` | `Budget`: what the earlier attempts may have spent, and the calls of this one, bound the calls of all |
| `SpecTraceable` | `IInv`: `Ages`, no row and no overdue attempt is younger than the current attempt; `Progress`, what an attempt has done at each of its points |
| `FailureInjectionProofs!FailsOnceHolds` | `MapCounts`: the map is set from the first victim on until it is cleared, with the victims |
| `MaintenanceTheorem` | `SawNone`: a handler that goes on has seen no maintenance, so while there is one it was there before |
| `DashboardProofs!SessionTheorem`, `ShownIsOwnHolds` | `OneSession`: while a bootstrap runs nobody is signed in and no page is mounted; `Mounted`: a page takes what it waits for along; `OwnFetches`: it has asked with its session's token |
| `HandledIsGoneHolds` | `HandledInv`: the failures page waits for one answer at a time, and what it was told is handled is closed before it asks again |

`ApprovalInv` is the strengthening the consent gate needs. The gate relates the PMS to a
row and to an operator's verdict, which meet only through the workflow: `Answered`
(the decision held is an operator's answer), `ResolvedAsAnswered` and `Recorded`
carry the verdict to the row; `ApprovalPhases` and `StrayApprovals` say nothing
disturbs the row on the way (a lost `createHumanApproval` writes to another row
than the one the workflow waits for); `Granted` and `Refused` are what execution
relies on. Without `StrayApprovals` a late insert could make an APPROVED row PENDING
again after execution has begun.

`AnswerFitsHolds` and `SameAnswerHolds` assume nothing of the clients; what does not
hold is excepted in the properties themselves. The code compares hashes at lookup but
not again once it holds the lock, and a waiter checks the hash of one read and answers
with another. Where the bodies under a key have no `externalRequestId` the unique key
of `guest_requests` still stops the second of them; where one has, both are handled, and
a waiter may be answered for the other body. Key and external id both come from the
client (a header and a field of the body), and nothing in the service relates them.
`docs/demo-script.md:101` promises that the same key returns the same resource: under
a mixed key that is not so for waiters, nor between the two bodies (section 7).

`LoopInv` follows the tasks through the two loops of the workflow. `LoopPhases` says
which tasks have results and verifications at each place, and carries
`OrderedExecution`. `Deserved` says that the derived status is earned, `Confirmed` that
a success is in the PMS; `Reported` and `Agreement` take the status to the two rows,
one write after the other and past attempts that write late; `Queued` says that the
loop does not go past a failure before its queue item is there, unless the workflow
fails on the way.

`ConsentInv` is what the refinement needs beyond these. `Asked` and `Resolved` pin the
row of the approval: PENDING until the workflow resolves it and the resolution
afterwards, except after a failed workflow, whose lost attempt may still write. From
them `ConsentOnRecord` computes the lifecycle's consent at each place.

In `GuestTasksProofs` the invariant has a part per question, for each request:
`Gated` (a plan with a cancellation of the reservation needs consent, whatever the
message was), `Consented` (no task is handed out without consent) and
`Progress` (results, verifications and the place in the loop). `Recorded` is about all
of them: what has succeeded, is about to be recorded or has a receipt was written
by this very request (`Backed`), although verification looks at rows that others
may have written; and a write that found its reservation cancelled is to one that
stays so, hence never verified (`Sound`). A receipt alone has to count as a write,
since a later attempt succeeds by finding it.

Not proved, only model-checked: `Terminates`, `ApprovalIsSettled`, `Recovers` and
`Trips`, the properties under fairness. TLAPS in the version used does not reason
about `ENABLED` and liveness. It does not reason by induction over data with operator
parameters either, and loses its SMT backend where `RECURSIVE` is used; no module here
declares a recursive operator. Every invariant and action property of the passing
runs is the subject of a theorem. What the three runs with a violation refute is
refuted by one behaviour each.

## 7. Observations that are not findings

Read in the code or seen in the models' behaviours while they were built; no run
states a property about them.

Requests and their workflow:

* Two operators may both be answered with success; the second signal overwrites
  the first if the workflow has not looked, and is ignored if it has. The row follows
  what the workflow used.
* A cancel call that is slow to write replaces a final status by CANCELLED
  (`FinalStatusAgrees` allows exactly that, and a stray late write).
* A retried `createHumanApproval`, or an answer for another row, leaves a PENDING
  approval nobody waits for.
* A task's `dependencies` are planned (`task-1` for the wake-up call of a
  `MULTI_ACTION` request) and never read by the workflow: after task 1 has failed
  task 2 runs. `docs/workflows.md` speaks of "dependency ordering"; execution order
  is what the code keeps, and `OrderedExecution` states that.
* A plan whose tasks are all blocked ends COMPLETED.
* The policy's `escalationRequired` is never read: only `approved`,
  `requiresApproval` and `blockedTasks` decide what the workflow does.
* `guest_requests.status` is never EXECUTING or VERIFYING.
* A success admitted while CLOSED closes an OPEN breaker, and across periods more
  probes than `halfOpenMaxAttempts` can be in flight.
* `docs/failure-recovery.md` names other retry counts than the workflow's proxies (3
  for orchestration, 2 for browser activities).
* After a failure between insert and record, or after a record's 24 hours, a retry
  with its key meets the table's unique key and is answered with an internal error
  each time. The lock is deleted without looking at whose it is.
* An attempt of `initializeWorkflowExecution` that is lost after its insert makes each
  retry violate `temporalWorkflowId`'s unique key: the workflow fails for good and the
  request stays RECEIVED (`InitializeConflict`).
* When the row is inserted and the workflow's start fails, the webhook's next delivery
  finds the row and is answered 201, and no workflow ever handles the request
  (`RequestIngestion!FindExternal`).
* `requeue` and `resolve` look at no status: a stale page requeues a RESOLVED item.
* `docs/demo-script.md:101` says the same `Idempotency-Key` returns the identical
  resource. A key sent with two bodies, one of which has an `externalRequestId`, may
  be handled for both, and a call that waited for one may be answered with the other
  (`RequestIngestion!Mixed`; the hash is checked at lookup only).
* A PARTIALLY_COMPLETED request's summary lists all that was executed
  (`guest-request.workflow.ts:728`), what failed its verification included: of a
  modification that found its reservation cancelled an operator reads among the
  completed actions, although `NotDoneOnCancelled` keeps the request from COMPLETED.

Agents (the mock provider):

* A message about towels, a wake-up call and dinner is planned without the dinner
  (`docs/demo-script.md:47` has one). "Cancel my wake-up call" books one, and "cancel
  my dinner booking" is planned as the cancellation of the reservation.
* `failedActions` of an escalation's summary is always empty: the activity passes
  the completed tasks only.
* The policy of the mock provider asks for a human before a cancellation only;
  `README.md:12` of the repository has modifications approved as well.
* With the OpenAI provider only the prompts ask for a human before a cancellation.
* A call of OpenAI whose answer does not parse has cost tokens and is recorded
  nowhere.

Browser worker and PMS:

* The reservation page sends no receipt id (`ReservationDetailClient.tsx:27`), so after
  a crash the next attempt writes the reservation again; `docs/failure-recovery.md:81`
  says receipt ids prevent that. `CancelledForGood` shows the repetition is harmless.
* When the bot's session is of another hotel (`WrongHotel`), the worker does not find the
  row it has created: it answers success and records nothing in the tenant's hotel. If
  Temporal has given that attempt up, the next one looks there, finds no receipt and
  submits again, and with a session of a different hotel leaves a second row
  (`CreatedOnce` is per hotel).
* A route that inserts its row and fails to record the receipt (`housekeeping/route.ts:62`)
  makes every retry run into the row's unique index (`GuestTasks!ReceiptLost`).
* The housekeeping and restaurant forms never succeed: `ActionForm` sends strings,
  `quantity` and `partySize` are integer columns (`PmsDesk!TakesStrings`).
* A form submitted by hand has an empty receipt id, which is unique as any other is:
  of each kind and hotel the second is refused.
* A modification of a CHECKED_IN reservation is written and never verified, since
  the page has to show CONFIRMED.
* Notes saved from a page that was opened before the bot's change overwrite it.

Failure injection:

* One arming of fail-next can fail two requests if a third has found the row
  disarmed in between: the map is cleared, and a handler that read the armed row
  earlier takes it again.
* The row is written back as it was read, so a save that came between is undone; and
  a save that comes late can arm the row while the map is spent, which no request
  clears.
* Opening the settings page of an armed hotel consumes the arming, and the page then
  shows defaults; saving them replaces everything. Maintenance cannot be switched
  off from the page, nor by any request that comes in after it (`MaintenanceHolds`).
* The API's own `failure_injection` configuration is read by nobody that injects.

Dashboard:

* A SYSTEM_ADMIN is listed the rows of every tenant and may act on them: he has no
  tenant, the dashboard sends none, and the services leave out a filter they have no
  tenant for (`failure.service.ts:12`, `tenant.guard.ts:22`). `docs/architecture.md:62`
  says all queries are scoped by tenant. `ShownIsOwn` is about everybody else.
* Every connection to the event stream is refused: the guard reads the
  `Authorization` header, the `EventSource` sends a query parameter. Pages change on
  mount and on their own actions only.
* The approvals page asks for its rows before the workflow has resolved the one just
  answered, so it stays on the list; that is why `HandledIsGone` is about failures.
* The requests page shows the rows of another filter when answers overtake each other.
* A bootstrap without a connection throws the session away, the refresh token
  included; and one that ends late in another tab stores a token after a logout.

## 8. Not modelled

| part | reason |
|---|---|
| AI providers' prompts, token counts, prices | text and bookkeeping nothing decides on |
| screenshots, page objects' selectors, evidence | they fail or do nothing; a failure of the attempt |
| workflow steps, audit events, publishing of events | written and never read back; an error writing one is an error of the attempt at that point |
| progress query, listings not shown by a modelled page, timelines | only read |
| receipt branch of PATCH and DELETE | no caller sends a receipt id there |
| the login counter, passwords, user and tenant administration | one counter (see hazards), hashing, plain CRUD |
| dashboard: detail, audit, agent-run, failure lab and settings pages, charts | presentation over lists that only read, or a form over a configuration nobody uses |
| the API's failure injection service | its rows are read by nobody that injects |
| health, metrics, tracing, storage, configuration | reading and wiring |
| Temporal's server | taken at its word: one workflow per id, signals delivered in order, an activity tried up to its limit |

## 9. Plan

Done, in this order: `GuestRequestWorkflow` with `RequestLifecycle` and their runs;
`CircuitBreaker`; `BrowserReceipts`; the proofs of the three; `RequestIngestion`
and its proofs; `RequestAgents`, `PmsDesk` and their composition `GuestTasks`;
`AgentCalls`, `FailureInjection` and `Dashboard` with their proofs; `GuestTasksProofs`;
the loop, the final rows and the refinement of `GuestRequestWorkflow`; `OneHandler`,
`CallBudget` and `HandledIsGone`.

Next:

1. A composition of `BrowserReceipts` with the breaker, in which rejected calls use
   up attempts.
2. An abstract specification of ingestion (a key has one answer, given once and for
   good) that `RequestIngestion` implements for keys that are not `Mixed`.
3. For the hazards without a property: the API's stored failure configuration and
   login counter, and the request whose workflow never starts.
