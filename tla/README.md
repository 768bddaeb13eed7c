# Competitor Scout: formal models

TLA+ models of the backend of Competitor Scout (`apps/backend` of the
repository), TLC configurations that check them on small instances, and TLAPS
proofs of the properties that hold for every instance. Paths below are relative
to `src/apps/backend/src/competitor_scout/` unless they say otherwise.

## The system

An API process and a worker process share one PostgreSQL database. The API
creates users, competitors, sources and *Scout Runs*; the worker's scheduler
creates the daily and weekly runs. Every run is executed as a *job* of a durable
table, by one of several executor loops of the worker, with the help of a model
gateway (Otari) that is called over HTTP and may fail, be slow or answer badly.

| Part | State | Operations | Talks to |
|---|---|---|---|
| Job queue (`jobs/repository.py`, `models/jobs.py`) | `jobs` rows: status, lease owner, lease expiry, available_at, deduplication key | enqueue, claim, renew, complete, fail | PostgreSQL row locks |
| Executor and worker (`jobs/executor.py`, `worker_main.py`) | per loop: handler task, renewal task, stop event; per process: child semaphore | run_once, run_loop, renewal timer, signal handling, teardown | job queue, handlers |
| Orchestrator (`agents/orchestrator.py`) | `scout_runs`, `agent_tasks`, evidence, usage | start, plan, child waves, synthesis, publication, finish, fail, terminalize | model gateway, publication |
| Publication (`services/findings.py`, `services/snapshots.py`) | `findings`, `starting_snapshots` | publish after checks of run, tasks and evidence | orchestrator |
| Scheduler (`jobs/scheduler.py`) | `scout_runs`, `jobs` | one pass every 30 s over users and competitors | job queue |
| Manual requests (`services/runs.py`) | `scout_runs`, `jobs`, advisory lock | request a run, return an active or recent one | job queue, scheduler (unique indexes) |
| Source discovery (`jobs/handlers.py`) | run, task, `sources` | claim, plan, recover, publish | model gateway |
| Weekly brief (`jobs/weekly_brief.py`) | run, task, `weekly_briefs` | prepare, synthesize, publish | model gateway |
| Competitor and source lifecycle (`services/competitors.py`, `api/competitors.py`) | `competitors`, `sources` | create, approve, reject, pause, start monitoring, delete | discovery, scheduler |
| Authentication (`services/auth.py`, `api/auth.py`) | `users`, `sessions` | login, session resolution, revocation, registration limit | OAuth |
| Usage and cost (`agents/costs.py`, `agents/client.py`) | usage columns of runs and tasks | settle the cost of a request, ceilings | model gateway |
| Settings (`api/settings.py`) | `users` | daily time, time zone | scheduler and weekly brief read them |
| Read models (`services/briefs.py`, `services/runs.py`) | none | digests, progress, activity | all tables |
| Web client (`apps/web`) | React state, polling | forms, run progress | API |

What is hard about it, and what each part owes:

* **Leases.** A claim, a renewal and a settlement compare a time read before
  their transaction with a row that others change; processes die, are paused or
  are shut down; statements arrive late. *A job is settled once, by its owner;
  it is taken away only after its lease ran out; every job is settled; two
  executors do not work on one job.*
* **Runs.** A run is a dozen transactions, spread over minutes, whose writes do
  not look at the status they replace. A handler may be cancelled or vanish
  between any two of them and the job may be claimed again. *A run goes through
  its statuses in order, ends, stays ended, leaves no live task behind, and
  publishes only while it is synthesizing* (which all holds for runs with one job; the
  code can give a run two).
* **Children.** The child tasks of a wave run concurrently under a semaphore
  that all handlers of the process share, each with a deadline; an unexpected
  error of one does not stop its siblings.
* **Admission.** Scheduler passes and manual requests race for the one active
  run a competitor may have, through unique indexes and insert-or-ignore, while the
  user changes the settings they are computed from. *Every queued run has a job that
  will run it, and one handler executes it.*
* **Data.** Source approval races with discovery, competitor limits with
  concurrent requests, costs with concurrent runs, local calendar days with
  daylight saving.

* **Sources.** Requests read a competitor without locking it and write a status they
  computed from that reading; a discovery stores sources the user has decided about
  in the meantime. *Decisions are kept, a monitored competitor has an approved
  source, the limit holds, a deleted competitor stays deleted*, of which the last three
  hold only up to the overlaps described below.
* **Weekly digests.** A brief is about a local calendar week, computed in two places
  from two inputs, with clock changes and a zone the user may change in between; what
  it is made of is read before a paid request and published after it. *A brief is about
  exactly the period it names, for one request, and its run agrees with it.*
* **Costs.** The children of a wave share the reservations; each attempt may or may
  not tell what it cost, at once or later. *Ceilings hold, no cost is lost or counted
  twice, an unknown cost never reads as zero.*

PROJECT.json lists these hazards one by one, at the line where each bites, with
the properties that cover it.

## The modules

```
JobQueue            abstract queue: enqueue once, one holder, settled by the holder
   ^ implemented by
JobLeases           job table, executor loops, renewal tasks, processes, time
   ^ extended by          ^ proved about in JobLeasesProofs
ScoutRuns           the orchestrator's handler as client of the leases
   |                      ^ proved about in ScoutRunsProofs
   v implements
RunOutcomes         abstract run: begins once, ends once, what its readers see
RunAdmission        how runs and their jobs come into being, over JobQueue
                          ^ proved about in RunAdmissionProofs
CompetitorSources   API requests on competitors and their sources
   ^ extended by
SourceDiscovery     the discovery handler beside those requests, over JobQueue
                          ^ proved about in SourceDiscoveryProofs
WeeklyBrief         weekly scheduling and the brief handler, over JobQueue
                          ^ proved about in WeeklyBriefProofs
RunCosts            the paid requests of one Scout Run and its books
                          ^ proved about in RunCostsProofs
SmallestElement     least elements and minima, for three of the proof modules
FoldedSums          what sums over finite sets are, for RunCostsProofs
MCPausedRuns, MCScoutRuns, MCRunAdmission, MCSourceDiscovery, MCWeeklyBrief,
MCRunCosts          TLC instances
```

### JobLeases

One action per repository statement and per step of `run_once`, `run_loop`,
`_renew_until_stopped` and `worker_service`.

* *Table*: `status`, `owner`, `due` (available_at or lease_expires_at relative to
  now). `Claimable`, `Owns`, `Extend`, `Close` are the WHERE clauses and SET
  lists of `claim`, `_owned_update`, `renew`, `complete`/`fail`. A claim is two
  steps: `SelectRow` takes the row lock (FOR UPDATE SKIP LOCKED), `CommitClaim`
  or `ClaimError` releases it; updates of others wait for it (`Locked`).
* *Executor*: `pc` is where the loop stands, `hdl` and `ren` are the handler and
  the renewal task `run_once` waits for. `WakeLeaseLost` and `WakeHandlerDone`
  are the two ways `asyncio.wait` returns; when both tasks are done the code
  looks at the renewal first, and so do the guards.
* *Process*: `StartWorker`, `Signal`, `StopWorker` (orderly end, grace period
  over, or torn down by an executor's exception), `Crash`. `Signal` also stands
  for an error of the scheduler loop, which stops the process the same way. Rows
  stay as they are: jobs of a process that ends remain leased.
* *Time*: `Tick` advances it. Each statement carries the age of the `now` it was
  given (`lag`, `rtime`). A statement is in flight at most `MaxLag` ticks. With
  `MayStall` a process can be paused for any time between two steps (virtual
  machine pauses, a blocked event loop); without it timers fire and tasks wake up
  within the tick in which they become ready (`Prompt`).

Abstractions: all processes read the same clock; a restarted executor reuses the
owner name (the code makes a new one, so the model lets an executor own a row of
its former life, which is the harder case); a statement of a process that ended
has taken effect before or never does; the job payload is the job's identity.

### ScoutRuns

Extends JobLeases: executor `e` with a claimed job runs the handler of the run
with the same number. `at[e]` is its program point, and every action is one
transaction of `execute_daily_run` with the control flow up to the next one:
`StartRun` (`_start_run`, with `_terminalize_interrupted_run` for a run that a
former handler left in an intermediate status), `AskModel`, `RepairAnswer`,
`ModelFails`, `CostCeiling` and `PlanAccepted`/`SynthesisAccepted` (the two main
model phases), `CreateChildTasks`, the waves (`NextWave`, `StopWaves`,
`GatheringEnds`), `CreateSynthesisTask`, publication (`PublishSnapshot`,
`CheckFinding`, `CommitFinding`, `PublicationFails`), and the ends (`FinishRun`,
`EndRun`). `HandlerError` is a database error of any transaction, before or
after its commit.

Children are coroutines of their own (`kid`): they wait for a permit
(`PermitHolders` counts those of the same process), run attempts, end by success,
stop code, failure or deadline, or raise (`ChildRaises`), in which case
`asyncio.gather` ends the handler and leaves the siblings running. Such orphans
run until they end or their process does. `runner` is the executor whose
handler took the run out of the queue, so that orphans can be placed.

A run may have further jobs (`services/runs.py:354`, see RunAdmission): `SecondJobs` are the
runs that do. The handler of such a job finds the run in an intermediate status and
terminalizes it at any moment, whatever the first handler is doing (`SecondHandler`; on a
run that is still QUEUED it would be the first handler itself). What holds for every run
in spite of that is `OneHandlerWorks` and `SnapshotBeforeSuccess`; the other properties
are about `OneJobRuns`, and the run admission_second shows what the second job does to the
status of the others.

`Elsewhere`, `Composed`, `EndProcess`, `Platform` and `RequestRun` join the steps
of JobLeases with their effect on handlers. `PromptTeardown` says, for
processes that are never paused, that a process in which an executor failed
without settling its job cancels its coroutines within the tick.

Abstractions: model answers, validation verdicts, budgets and evidence are
nondeterministic; the attempts of a child are one repeatable step; a status
write that reads and then writes a row in one transaction is one step; planning
and synthesis deadlines apply to a single request, so they appear as `ModelFails`.

### RunOutcomes

A Scout Run with one job, without handlers, leases, waves, deadlines and retries: it is requested,
begins, is worked on (`Work` moves its tasks, `Publish` adds a finding or the Starting
Snapshot), ends, and its job is completed. `End` leaves no task open and COMPLETED only
with the snapshot the run owes; no action changes a row of a run that has ended. ScoutRuns
refers to it as `Outcomes`, with PLANNING, GATHERING and SYNTHESIZING as one phase and
a `completed` job row as `done`; re-entry into an interrupted run is an `End`, a job failed by
a database error leaves its run in the phase it had reached.

### RunAdmission

The rows of `scout_runs` of one competitor, as the scheduler and manual requests
create them concurrently. Each action is one SQL statement.

* *Scheduler pass* (`schedule_due_daily_runs`): `BeginPass` reads the time, the
  competitor and its user; `CheckManual` looks for a manual run that satisfied the
  local day; `InsertDaily` inserts with ON CONFLICT DO NOTHING and enqueues;
  `FindDaily` looks for the row that was in the way. `PassFails` rolls back.
* *Manual request* (`enqueue_manual_run`): `BeginRequest` reads the time,
  `LookForRun` takes the advisory lock and looks for an active or recent run,
  `InsertManual` and `ResolveConflict` are the insert and what follows when
  somebody else's row was in the way. `LockHolders` are the holders of the lock.
* *Rows and jobs*: `Conflict` is the two unique indexes (one active run per
  competitor, one run per type and scheduled time); `EnqueueJob` is
  `enqueue_in_session` with the keys `DayKey` and `RunKey`. The jobs are those of
  `JobQueue`, which JobLeases implements, so the lease protocol is not repeated.
* *Workers*: `StartRun` decides what `_start_run` decides (execute, refuse, terminalize an
  interrupted run, leave an ended one), `EndRun` writes the end without looking.
  `CompleteJob` and `FailJob` are the two ends of `run_once`: an error of the handler or
  of the renewal fails the job for good, before the run was started as well as after
  (`executor.py:71-96`), and leaves the run as it is. `Vanish` is a crash; a job is taken
  over only from a worker that vanished (a lease lost while its worker lives on is the
  subject of JobLeases and ScoutRuns).
* *Settings*: `ChangeSettings` changes the daily time and the time zone.

Abstractions: the competitor is ACTIVE, with an approved source and an enabled
user; a day has `DayLength` ticks and local time is a fixed offset (WeeklyBrief has
clock changes); "successful" stands for COMPLETED and PARTIAL, "working"
for the statuses between QUEUED and the end; the steps from a successful insert to
the commit are one, since a conflicting insert waits for the commit; a pass or a
request lasts at most `MaxLag` ticks.

### CompetitorSources

The rows of `competitors` and `monitored_sources` of one user, as the requests of
`api/competitors.py` and `services/competitors.py` change them. A request whose reads
and writes others can tell apart is kept in `req[r]` between them: creation under its
advisory lock (`BeginCreate`, `CommitCreate`), a status update (`BeginUpdate`,
`CommitUpdate`), a rejection (`BeginReject`, `FlushReject`, `CommitReject`) and
start-monitoring (`BeginStart`, `LockCompetitor`, `CommitStart`). Deletion, approval
and adding a source are single actions. `locked` are source rows with an uncommitted
write, `CompetitorLocked` the FOR UPDATE of start-monitoring. `Rollback` is every way a
request fails, the victim of a deadlock between row locks included: start-monitoring
locks competitor and then sources, a rejection and a discovery the other way round.
`WriteStatus` writes what was computed from the status read earlier, and only if it
differed from that (the ORM's dirty check), so it can bring a deleted row back.

Any two requests may overlap, those for one competitor included: the page disables only the
control of its own mutation, and nothing orders two tabs or two clients. Two history
variables tell the overlaps that matter apart. `crossed` are the competitors one of
whose rejections overlapped another rejection or an activation: each decides on
approved sources the other is about to change, and `MonitoredHasSource` fails (the run
discovery_overlap). Without such a crossing it holds (`MonitoredUnlessCrossed`), whatever
pauses, approvals, additions and deletions overlap. `revived` are the competitors whose
deletion was overwritten: a start-monitoring, a status update or a rejection computes a
status from a row read without a lock and writes it although the row was deleted
meanwhile (`api/competitors.py:260`). That does happen. What holds is that it can be done
only by requests that had read the row before the deletion, so that a deletion is final
once they are over (`DeletionSettles`), and that only such competitors can exceed the
limit (`LimitHolds`).

### SourceDiscovery

`enqueue_source_discovery` and `SourceDiscoveryHandler`, one action per transaction:
`RequestDiscovery`, `ClaimRun` (with `_recover_or_report_planning`), `AskProvider` (one
round of the request loop), `EndFailed` (`_complete_failure`, `_stop_for_cost`),
`BeginStore`/`CommitStore`/`SkipStore` (`_complete_success`, split where its row locks
are waited for). A run and its job share their key (competitor and five-minute bucket)
and are one element of `Jobs`. The jobs are those of JobQueue, in which a silent holder
may lose its job at any moment, so a first handler may be dead or merely late.
`HandlerError` is a transaction that raises, `HandlerDies` a crash or a cancelled
handler.

The lease (60 s, `worker_main.py:27`) and the planning deadline (1 to 900 s, default 60,
`config.py:45`) are independent settings, and `started_at` is read after the lease began
(`handlers.py:168`, `:194`). A job may therefore be re-entered before the deadline of the
attempt that started the run has passed. The second handler then reports PLANNING and
returns (pinned by the second call of
`test_handler_commits_claim_before_external_call_and_concurrent_call_is_noop`,
`apps/backend/tests/unit/test_source_discovery.py:256`), its job is completed, and if
the first handler is dead nothing ends the run any more. The history variable `early`
holds those runs; `DiscoveryEnds` is about all others, `TaskMatchesRun` and
`EndedDiscoveryFinal` about these as well.

### WeeklyBrief

`schedule_due_weekly_briefs` and `WeeklyBriefHandler`. `Local`, `Instant`, `FirstValid`
are wall clock arithmetic in a zone with one transition, `ScheduledPeriod` is the
period the scheduler looks for activity in, in the zone the user has then (kept in
`origin`). `EndDay` and `Period` are what the handler computes from `scheduled_for` when it
prepares the run, in the zone the user has *by then*: `ChangeZone`
(`api/settings.py:41-42`) may happen in between, and a brief records both the days and the
zone it was computed for. `Calendar` holds slots and periods for the instances.
`ScheduleWeekly` also shows the pass after a change of zone: the slot of the same week has
moved, so another run is inserted, but the job key of the week is taken; such runs are
`spare`, QUEUED for good. `Prepare` (with `PrepareQueued`), `AskProvider`, `Publish`,
`Fail` and `StopForCost` are the handler's transactions. Beside it Scout Runs are created,
publish a finding (`BeginPublish` reads the clock, `CommitPublish` makes it visible) and
end; the status of those in `TwoJobs` may be rewritten afterwards (`RewriteScan`, which is
what admission_second shows of runs with two jobs). `asked` counts requests.

Abstractions: a user may be disabled (no code writes that column, but the handler
reads it); a publication commits within `CommitWithin` of its clock reading, which is no
more than the time from Monday midnight to the run, an hour that the clock change of the
zone removes from it not counted (`WeeklyAssumption`); the local day of a slot determines
its week in whatever zone it is seen (`WeeksApart`: real offsets are at most 26 hours
apart, weeks seven days; with the one week of the TLC instance it says nothing); a Scout
Run publishes at most one finding; weeks may be shorter than seven days. Too many findings
and a finding without evidence (`weekly_brief.py:239`) are one nondeterministic failure. A
finding that a Sunday run publishes on Monday falls into the next week, whose brief is
scheduled only if a Scout Run was scheduled in it. The brief of a disabled user fails and
leaves a task of an interrupted request RUNNING. The branch for a period that has a brief
already (`weekly_brief.py:166-176`, `Taken`) is modelled but never taken, not after a
change of zone either: one run per week reaches a handler, and two weeks do not share an
end day (`OwnPeriod` in the proofs).

### RunCosts

The requests of one run from planning to synthesis: `AskMain`, `MainAnswered`,
`MainFails` with repairs; the children of a wave side by side (`AskChild`,
`ChildAnswered`, `ChildFails`, `ChildReturns`, `ChildTimeout`) with retries, the one
Firecrawl attempt of a first-party review and the result retained for it; `EndWave`,
which adds the outcomes. `SettledCost` is how `OtariClient` settles a cost: inline, or by
lookups that may stay pending. `usage` and `reserved` are the accumulator, `ledger` what
the usage events add up to, `reported` the run's settled cost, `paid` a history variable
with what the requests did cost. `Failures` are the errors by what the callers tell
apart. Leases, crashes and permits are in ScoutRuns.

The usage event of a task holds the metadata of its last attempt only (`_succeed_task`,
`_fail_task`), so the sum of the day, on which the daily ceiling rests, misses attempts
that were repaired or retried: the ledger is at most, not equal to, what was paid.

## The runs

| Run | Instance | What it shows |
|---|---|---|
| runs_stall | 2 processes of one executor, 1 fault, lease 2, renewal 1, lag 1, pauses; either 2 jobs (one of an unknown type) and the job table alone, or 1 run with a second job and crashes | type correctness; `TerminalIsFinal`, `SettledByHolder`, `StealsOnlyLapsed`; the table implements JobQueue; `OneHandlerWorks` and `SnapshotBeforeSuccess` even for handlers that lost their lease |
| runs_timely | 1 run, 2 children in one wave, 1 permit, 2 executors of one process, lease 5, 1 fault, 1 database error of a handler or child, fairness | `NoOverlap`, `EndedRunHasNoLiveTask`, `MovesForward`, `PublishesWhileSynthesizing`; the runs implement RunOutcomes (`ImplementsOutcomes`); `EveryJobSettles`, `RunEndsOrJobFails` |
| runs_ends | 1 run, 1 executor, one database error | violation: `EveryRunEnds` |
| admission_fixed | 2 requests, 1 pass, 2 workers, 1 fault (crash, failed pass or failed job), one daily time and zone, fairness | `AdmissionTypeOK`, `ManualRunsApart`, `QueuedRunHasJob`, `OneWorkerPerRun`, `SatisfiedDayIsLeftAlone`, `DailyCadence` |
| admission_second | 1 request, 1 pass, 2 workers, no fault | violation: `EndedRunsStay` |
| admission_settings | 1 request, 1 pass, 1 worker, no fault, two daily times | violation: `QueuedRunHasJob` |
| discovery_page | 2 competitors, limit 1, 2 URLs; either 2 requests of any kind, or a discovery with 2 executors and 1 error beside 1 request; fairness | `DiscoveryTypeOK`, `MonitoredUnlessCrossed`, `LimitHolds`, `TaskMatchesRun`, `DeletionSettles`, `DecisionsKept`, `EndedDiscoveryFinal`, `DiscoveryEnds` |
| discovery_overlap | as above | violation: `MonitoredHasSource` |
| weekly_dst | 1 week, three zones; either 2 Scout Runs and a handler without errors, or 1 Scout Run, 2 executors, 1 error and changes of zone; one Scout Run has two jobs; fairness | `WeeklyTypeOK`, `BriefTellsItsWeek`, `BriefMatchesRun`, `PaidOnce`, `ReceiptStands`, `WeeklyRunEnds` |
| weekly_stop | as above, Scout Runs with one job | violation: `WeeklyStatusSteps` |
| costs_stops | 3 children in waves of 2, 1 retry, 1 fallback, 1 repair, 2 lookups, tight ceilings | `CostsTypeOK`, `SpendsWithinCeilings`, `BooksMatchRequests`, `TaskTellsOutcome` |
| costs_whole | as above | violation: `ReportedCostIsWhole` |

*Bounds.* Two executors are what a race over one job needs: the one that lost the
job and the one that took it. Two jobs are enough for a claim to choose and for a
lock to be skipped. A lease of 2 with renewals every 1 and statements that take
1 lets a lease lapse during a renewal (runs_stall); a lease of 4 is the smallest that
satisfies `Timely` (renewal + 2 statements < lease; with the deployed 60 and 20 seconds
a statement may take 19). runs_timely uses 5: orphaned children live on while the
handler's `fail` is in flight, one statement longer than the handler itself (`Patient` below; with
4 TLC finds `EndedRunHasNoLiveTask` violated). One run per instance suffices because runs
meet only in the semaphore and in admission; the second executor is there to take the
job over. Two children in a wave with one permit are siblings that contend: one waits
while the other works, raises or runs on as an orphan.

Three instances explore two slices of the state space each, chosen in the initial state
and defined in the MC module: what is left out of a slice is the product of two things
that do not meet (job-table faults of two jobs and the program points of a run; a
fault after an error that has already ended the handler; two requests in flight and a
discovery; two Scout Runs and all errors). The theorems are about the full
specifications, and so cover what the slices leave out of the safety properties; the
liveness properties are checked per slice.

The admission instance starts the clock at 1 and ends it at 2, with days of
2 ticks and an offset of 1: that is where the local day and the server's differ. A
window of 2 spans both ticks, `MaxLag` 1 lets the time change during a request and
a pass. Two manual runs are enough for `ManualRunsApart` and for one that fails
before one that succeeds, two requests for a race over the lock, four rows for
all runs that can come about.

discovery_page and discovery_overlap: two requests are what an overlap needs; a limit of 1 with two
competitors makes a second creation exceed it; two URLs give a discovery something new
beside something decided, and a rejection another approved source. weekly_dst: days of
4 units and weeks of 2 days; on the Monday the clock goes forward between midnight and the
slot, or back at midnight, and a third zone is so far west that this Monday is still a
Sunday there; Scout Runs may be scheduled at the end of the week or on the Monday after it; with `MaxFindings` 1 two findings
exceed the limit. costs_stops: three children are two waves, the first with two in
parallel, one of them with the fallback; the ceilings 9 and 10, with 0 or 4 already
spent, are met at every point of the run; every request costs 1, tells it inline, after
a pending lookup, or not at all.

*Fairness.* In ScoutRuns (`RunFairness`) weak fairness of: time, once processes have torn
down what has to end within the tick; per worker, the end of a process that shuts down
and its restart by the platform; per executor, the next ready step of its loop or
handler (`LoopStep`) and of its renewal task; per run, the end of some child that is active
(every wait of a handler or child has a deadline, its repairs and attempts are bounded).
No fairness for faults, for requests, or for which outcome a step has. In RunAdmission:
of time, of the statements of passes and requests, of starting a pass (the loop runs one
every 30 seconds) and of the workers; not of requests, settings, faults. In
SourceDiscovery: of claims, of the handler's next step, of the clock passing the planning
deadline, and of a request that has begun ending by commit or rollback; strong fairness of
the handler's two steps that wait for row locks, because PostgreSQL grants a lock in the
order it was asked for. In WeeklyBrief: of claims and of the handler's next step (each of
its awaits has a deadline), not of Scout Runs, the clock, the scheduler or the user.
RunCosts has no liveness property: its deadlines are in ScoutRuns.

## What is proved

For every value of the constants that satisfies the named assumptions of the modules.
In each module the theorem rests on an inductive invariant that says more than the
property; what it adds is why the property holds. None of the safety theorems assumes
anything about how often processes die, requests fail or transactions raise.

*Leases* (`JobLeasesProofs`)

* **TypeCorrect**: `Spec => []TypeOK`. The inductive form `Base` adds that program
  points, tasks and held jobs fit together (a running handler belongs to an
  executor in `run` or `cancel`, an executor in flight holds a job, terminal rows
  have no owner).
* **RowLocks**: at most one claim holds the lock of a row, and the row is then still
  as the claim found it: live and lapsed. This is why a claim that compares with an
  old clock reading is harmless. `IInv` is `Base` with it.
* **TableStep**: any step leaves a row alone, enqueues, leases, extends or
  settles it under the conditions of the WHERE clauses. From it follow
  **TerminalFinal**, **OnlyHolderSettles**, **OnlyLapsedStolen** and
  **LeasesImplementQueue** (every step maps to a step of JobQueue or to a stutter).
* **HandlersOwnLeases** and **HandlersDoNotOverlap**: under `Timely`, `Coverage`
  (the remaining lease always covers the time until the renewal in progress or
  the next one has executed) is inductive, so a running handler owns its lease,
  and two handlers of one job would own it both.
* **PatientSettlements**: under `Patient` (no pauses, renewal period + 3 statements <
  lease: up to 13 seconds per statement for the deployed 60 and 20) an executor that
  completes or fails its job still owns it, so `run_once` never raises
  LeaseOwnershipError. `Lasting` says that the lease outlasts what is ahead of the
  executor (`Ahead`): the renewal in progress, or the next one, and the settlement.

*Runs* (`ScoutRunsProofs`)

* **RunsUseLeases**: `RunSpec => Spec`; all of the above carries over to runs.
* **RunsHaveOneWorker**: `OneHandlerWorks` without any timing assumption, from `RInv`:
  a handler at work is in `run` with its job held, its run left the queue, and its
  executor is the `runner`.
* **TimelyRunsMoveForward** and **TimelyPublication**: under `Timely`, `Phases`
  (the status of a run with one job is the one its handler's program point stands for)
  is inductive, since nobody else writes it; hence the blind writes never go back, skip
  a status or replace an end.
* **SnapshotsComeFirst**: `SnapshotBeforeSuccess` without any timing assumption.
  `Snapped` adds that a handler past `PublishSnapshot` left the snapshot behind; since
  it is never removed, a handler that lost its lease can rely on it as well.
* **TypeCorrectR**: `RunTypeOK`. `TypeInv` adds to the types of runs and tasks (`TaskTypes`)
  that attempts and repairs fit the program point (`Attempts`) and that a finding that
  was checked has room in its run, which only one handler works on (`Room`).
* **TimelyJobsComplete**: under `Timely` the run of a completed job has ended, if it has
  no other job (`CompletedJobEndedRun`, which the refinement below contains). `Delivered` adds that a
  handler that has returned left an ended run, and that nobody else writes it.
* **PatientRunsEndTidily**: `EndedRunHasNoLiveTask` under `Patient`, for runs with one job. Children outlive a
  handler when a sibling raises, so the argument goes through the lease: `Sheltered` says
  that while children of a run live, its runner still awaits them, or fails its job or
  leaves its process with the lease still its own; `Tidy` says which task a handler's
  program point keeps open and that a run nobody works on has none. `Timely` is not
  enough: with a lease of 4, TLC lets it lapse while the `fail` after a late failing
  renewal is in flight; another executor terminalizes the run and an orphan then marks
  its task RUNNING.
* **PatientRunsImplementOutcomes**: `RunSpec => ImplementsOutcomes` under `Patient`, for the runs with
  one job, action by action: a handler's step begins, moves, publishes or ends its run, the step of a child
  moves a task of a run that is worked on (`Sheltered` and `Tidy` again, for the
  orphans), a row of the job table that becomes completed does so for an ended run
  (`Delivered`), and a snapshot is there when it is owed (`Snapped`).
* **PatientRunsStand**: from the refinement alone, no row of a run with one job that has ended
  changes any more (`EndedRowsStand`), although every status write is blind.

*Admission* (`RunAdmissionProofs`)

* **TypeCorrectA**: `AdmissionTypeOK`. The inductive form adds `Assigned`: a job
  that exists points to a row, and a worker with work holds its job.
* **RunsExecuteOnce**: `OneWorkerPerRun`, although a run may get two jobs. The
  strengthening `Executing` adds that a run in execution is no longer QUEUED, which
  is what `_start_run` asks for.
* **ManualRequestsIdempotent**: `ManualRunsApart`: a manual run is requested a window
  after every earlier one, or it was requested before that one and committed after it, by a
  request that took no longer than `MaxLag` (a clock reading that was overtaken does not
  see the run of the later one, once that has ended). The strengthening `Apart` adds that
  the advisory lock has one holder, that what it saw is still so when it inserts and
  how old the reading of a request can be; passes add daily rows only, and statuses do not
  matter to it.
* **QueuedRunsHaveJobs**: `QueuedRunHasJob` under `SettingsFixed` (one daily time, one
  zone): a queued run has a job that is queued or held, or one that an error failed.
  `Jobbed` adds that every taken key belongs to a run that exists, so the key of a new run
  is free, and that no job is completed before its run was started. The run
  admission_settings shows that the assumption is needed.
* **SatisfiedDaysLeftAlone**: `SatisfiedDayIsLeftAlone`, for any settings. The history
  that the property compares a pass with is replaced by what rows still show: `Decided`,
  a pass whose day was satisfied before it began has yet to check, and finds a run when it
  does. That run stays (`AtWork`, `OwnKeys`: a manual run is moved by the worker of its one
  key only) and was not requested later than now (`Dated`). `Minded` joins the four.
* **AdmissionUsesQueue**: every step on the jobs is one of JobQueue. With
  LeasesImplementQueue, what admission relies on is what the leased rows provide.

*Sources* (`SourceDiscoveryProofs`)

* **TypeCorrectD**, **BooksAgree**, **EndedRunsKeepStatus**: `DiscoveryTypeOK`,
  `TaskMatchesRun`, `EndedDiscoveryFinal`. `Books` adds that statuses, task and usage of
  a run are consistent and that a handler between the first write of `_complete_success`
  and its commit has the run, still PLANNING, to itself (`StoresAlone`).
* **MonitoredKeepSource**: `MonitoredUnlessCrossed`. `Sound` says of a competitor without a
  crossing that nothing else takes approved sources away or activates it while a rejection
  is under way (`Apart`), so that what requests have read of its sources still stands
  when they write (`Stands`); that replaces the lock the code does not take. Discoveries may
  overlap with everything.
* **DeletionsSettle**: `DeletionSettles`, from `Shaped` (a request in flight writes what its
  kind may write, to a row that exists): only requests that are served can load a
  competitor, and none is served for a deleted one.
* **SourceDecisionsKept**: `DecisionsKept`.
* **LimitNeverExceeded**: `LimitHolds`. `Counted` adds that the count a creation has compared
  with the limit under the advisory lock is still below it; it is about `Counting`, the
  competitors that were not brought back, of which every other request can only make fewer.
* **DiscoveryUsesQueue**: every step on the jobs is one of JobQueue, as in admission.

*Weekly digests* (`WeeklyBriefProofs`)

* **TypeCorrectW**: `WeeklyTypeOK`, with `Dated` (a run exists from its slot on).
* **BriefAgreesWithRun**, **RequestsPaidOnce**: `BriefMatchesRun`, `PaidOnce`. `Charged` adds
  that the books of run and task are consistent and that one handler at most works between
  the request and its outcome (`WorksAlone`). `Placed` says that brief and context are for
  the local day of the slot, in the zone the handler found, from which `OwnPeriod` follows:
  no other week's brief is in the way of an insert.
* **BriefsTellTheirWeek**: `BriefTellsItsWeek`: whatever the user's zone was when the
  handler prepared the run, a brief refers to findings of its period only; if it still was
  the one the run was scheduled in, the period is the week the scheduler meant, and an
  empty brief means that this week never gets a finding. `Told` says the same of the
  context a handler carries between `_prepare` and `_publish`; `QuietWeek`, that a week found
  empty gets no finding later, uses that the zone's clock change leaves a publication the
  time to commit before the slot (`WeeklyAssumption`).
* **ReceiptsStand**: `ReceiptStands`, from `Told` as well (`ReceiptHolds`): the receipt agrees
  for good with the statuses of Scout Runs that have one job.
* **WeeklyUsesQueue**: every step on the jobs is one of JobQueue, as in admission.

*Costs* (`RunCostsProofs`)

* **TasksTellOutcomes**: `TaskTellsOutcome`. `Told` adds that task and outcome
  agree from the settling transaction on and that the children of later waves are idle.
* **SpendingStaysWithinCeilings**: `SpendsWithinCeilings`, for requests that cost no more
  than their estimate (a condition of the property). `Reserves` adds that `Exposure`,
  what was paid plus the open reservations, is at most what was reserved, and that at
  most the ceilings.
* **CostsTyped**: `CostsTypeOK`. `Typed` adds which attempt numbers fit which program point
  (`Counts`), so that retries, the fallback and repairs stay within their allowance.
* **BooksMatch**: `BooksMatchRequests`. `Balanced` says that, unless a cost is unknown or a
  child was stopped by the ceiling, what was paid is what the accumulator holds plus what
  the children of the wave still carry (`Owed`); `Backed`, that what the usage events were
  charged and the retained answers will be charged is never more than was paid.
  `InTheWave` adds that only children of the wave in progress carry anything.
  Both speak of sums over children. `FoldedSums` proves what they need: a sum
  changes at one place by what its summand changes, and depends on its summands only. The
  library defines a sum by recursion over subsets, and no induction principle can be
  instantiated; each lemma takes a counterexample of least cardinality, which `Least` of
  `SmallestElement` provides, and unfolds the recursion once there.

Model-checked only: liveness (`EveryJobSettles`, `RunEndsOrJobFails`, `DailyCadence`,
`DiscoveryEnds`, `WeeklyRunEnds`), since it rests on fairness and ENABLED, which TLAPS does
not handle. All invariants and action properties of the passing runs are proved: those of
runs_timely under the timing condition its instance satisfies (`Timely` or `Patient`) and about
runs with one job, `QueuedRunHasJob` for fixed settings, the others without condition.

## Where code and documents disagree

Each of the first six has a run; PROJECT.json quotes the document or comment it contradicts.

* **runs_ends**: an exception of the renewal task fails the job for good, and the run
  keeps its intermediate status.
* **admission_second**: a manual request whose insert meets a daily run that a pass
  committed since the request looked gives that run a second job under another key.
  The second handler finds the live run in an intermediate status and terminalizes it; the
  first goes on and writes its own end over that (`orchestrator.py:1492`), so an ended run
  changes its status (`EndedRunsStay`).
* **admission_settings**: runs are unique per scheduled time, the job of a daily
  run per local date. When the daily time changes after the run of the day has
  ended, the next pass inserts a second daily run but its job key is taken: the
  run stays QUEUED without a job and blocks the competitor's active slot.
* **discovery_overlap**: a rejection that overlaps another one, or an activation, leaves a
  competitor ACTIVE without an approved source (`services/competitors.py:296`), against
  `docs/frontend/design-system.md:141`.
* **weekly_stop**: `_stop_for_cost` of the weekly handler writes PARTIAL whatever the status is
  by then; after a lost lease that is a run which the re-entry failed
  (`weekly_brief.py:528`). `_WEEKLY_TRANSITIONS` has no step out of FAILED.
* **costs_whole**: a child stopped by the ceiling before its second attempt returns no
  metadata; what the first one cost, or that it is unknown, is lost to the run.
  `BooksMatchRequests` says that nothing else loses a cost.

More came up in modelling, without a run of their own; the properties named are stated so
that they say what the code does keep.

* The tables of `schemas/runs.py:44-47` and the diagram of
  `docs/architecture/agent-runtime.md:10-18` have no step from PLANNING to PARTIAL, which a
  planning request over the cost ceiling takes; `tests/integration/test_daily_run.py:1350-1371`
  pins it. `MovesForward` therefore is not that table: it lets a run end from any
  intermediate status, and forbids everything else (a step back, a skipped status, a way out
  of an end, COMPLETED from anywhere but SYNTHESIZING).
* A discovery that fails drops the metadata `client.py:206-224` attaches to the error
  (`handlers.py:151-160`, `:258-274`), while `agent-runtime.md:92` has failed attempts with
  metadata count towards usage and ceilings. `TaskMatchesRun` says of the usage of a
  discovery only that a stored outcome is charged once.
* Re-entry of a discovery within its planning deadline completes the job of a run that
  nothing ends if the first handler is dead (`early` above).
* `jobs/scheduler.py:150` has the brief cover the prior Monday to Sunday. After a change of
  zone between scheduling and handling the handler's period may be another one;
  `BriefTellsItsWeek` says which.
* After the same change the next pass inserts a second weekly run whose job key is taken
  (`scheduler.py:194-226`): QUEUED for good (`spare`). Unlike a daily run it blocks nothing.
* A deletion is overwritten by a request that read the competitor before
  (`api/competitors.py:260`, `revived` above).
* Without `Timely` (a slow claim followed by a slow renewal) a handler that lost its lease
  overwrites the terminal status another executor gave the run, since `_finish_run` and
  `_fail_run` do not look at it (`orchestrator.py:1492`).
* A job that an error fails before its run was started leaves the run QUEUED in the
  competitor's one active slot (`executor.py:84`). `QueuedRunHasJob` and `DailyCadence` name
  that case (`Stranded`).

## Not modelled

* **Authentication** (`services/auth.py`): rows of one request each. Its one race, the account
  limit, is an advisory lock around count and insert, the pattern `LimitHolds` checks
  for competitors.
* **Publication data** (`services/findings.py`): fingerprints, duplicates and evidence links
  are functions of text; ScoutRuns models when and after which checks rows appear.
* **Contracts, prompts, validation, URL security**: pure functions of model text and
  URLs, verdicts in the models.
* **Read models, logging, web client**: they decide nothing. Of the settings only the daily
  time and the time zone are modelled, which the scheduler and the weekly brief compute from.
* The day's cost across concurrent runs: it is read once per run by design, RunCosts takes
  it as given.
