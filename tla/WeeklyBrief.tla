------------------------------ MODULE WeeklyBrief ------------------------------
(***************************************************************************)
(* The Weekly Digest of one user: schedule_due_weekly_briefs of            *)
(* jobs/scheduler.py and the handler of jobs/weekly_brief.py, transaction  *)
(* by transaction, on the job table of JobQueue, beside the Scout Runs     *)
(* whose findings it summarizes.                                           *)
(*                                                                         *)
(* Time is counted in units; a local day has DayLength of them and a week  *)
(* WeekDays days, day 0 being a Monday.  A zone has one transition, which  *)
(* may skip or repeat local times, and the user may move to another zone   *)
(* at any moment.  Jobs are the week numbers: job w has the key of the     *)
(* brief generated on the Monday that starts week w, about week w - 1, and *)
(* run w is the run it was enqueued for.  A Scout Run publishes one finding*)
(* or none.                                                                *)
(***************************************************************************)
EXTENDS JobQueue, Integers, FiniteSets, FiniteSetsExt

CONSTANTS DayLength, WeekDays,
          RunAt,         \* WEEKLY_RUN_TIME_LOCAL
          MaxAdvance,    \* how far first_valid_local_occurrence looks
          Zones,         \* offsets before and after a transition
          Scans,         \* Scout Runs of the user
          TwoJobs,       \* those that got a second job (RunAdmission)
          ScanTimes,     \* bound: when a Scout Run may be scheduled
          Outcomes,      \* bound: how it may end
          CommitWithin,  \* longest time from reading the clock to the commit
          MaxFindings,   \* MAX_BRIEF_FINDINGS
          Horizon,       \* bound on the clock
          MaxErrors      \* bound on crashes, lost leases and database errors

EndedScan == {"completed", "partial", "failed"}

\* Coverage receipts: how the Scout Runs of a period ended.
Receipts == UNION {[S -> EndedScan] : S \in SUBSET Scans}

\* The published rows: the period is named by its dates, here by the day after
\* it, and was computed in a zone.
Briefs == [references : SUBSET Scans, receipt : Receipts, day : Int, zone : Zones]

ASSUME WeeklyAssumption ==
    /\ Jobs \subseteq Nat \ {0}
    /\ {DayLength, WeekDays, RunAt, Horizon} \subseteq Nat \ {0}
    /\ {MaxAdvance, MaxFindings, MaxErrors, CommitWithin} \subseteq Nat
    /\ RunAt + MaxAdvance < DayLength
    /\ Zones \subseteq [at : Nat, before : Int, after : Int]
    /\ CommitWithin <= RunAt
    /\ \A z \in Zones : CommitWithin + (z.after - z.before) <= RunAt
    /\ IsFiniteSet(Scans) /\ TwoJobs \subseteq Scans /\ Outcomes \subseteq EndedScan
    /\ None \notin Jobs \cup Briefs \cup Zones

VARIABLES
    now, zone, active,  \* clock; users.timezone; disabled_at IS NULL
    scan,       \* status of the Scout Run
    scanAt,     \* its scheduled_for
    finding,    \* its finding: not there, being committed, visible
    stamp,      \* Finding.published_at
    origin,     \* zone in which the run of week w was scheduled, or None
    spare,      \* scheduled_for of further QUEUED runs of week w: no job names
                \* them, and no handler ever reads them
    run,        \* scout_runs.status of the weekly run
    task,       \* agent_tasks.status of its weekly_synthesis task
    usage,      \* usage_events recorded for it
    brief,      \* the weekly_briefs row of the period, or None
    asked,      \* history: provider requests made for the run
    at, held,   \* program point of executor e, and the job it runs for
    context,    \* the _BriefContext it works from
    errors

slots == <<origin, spare>>
environment == <<zone, active, scan, scanAt, finding, stamp, slots>>
records == <<run, task, usage, brief>>
handlers == <<at, held, context>>
allVars == <<vars, now, environment, records, asked, handlers, errors>>

EndedRun == {"completed", "partial", "failed"}
Points == {"none", "start", "ask", "fail", "failpaid", "stop", "publish", "done", "raised"}
Contexts ==
    [findings : SUBSET Scans, references : SUBSET Scans, receipt : Receipts,
     day : Int, zone : Zones \cup {None}]
NoContext ==
    [findings |-> {}, references |-> {}, receipt |-> [s \in {} |-> "completed"],
     day |-> 0, zone |-> None]

-----------------------------------------------------------------------------
(* Local time in zone z *)

\* What the wall clock shows at instant t.
Local(z, t) == t + (IF t < z.at THEN z.before ELSE z.after)

\* datetime.combine(..., tzinfo=zone).astimezone(UTC) with fold zero: a local
\* time that is repeated or skipped is read with the offset before.
Instant(z, wall) ==
    IF wall - z.before < z.at \/ wall - z.after < z.at
    THEN wall - z.before ELSE wall - z.after

LocalDay(z, t) == Local(z, t) \div DayLength
Midnight(z, day) == Instant(z, day * DayLength)

\* first_valid_local_occurrence: how far it may advance to a wall time that
\* exists, and the nearest one.
ValidAdvances(z, day, time) ==
    {k \in 0 .. MaxAdvance :
        LET wall == day * DayLength + time + k IN Local(z, Instant(z, wall)) = wall}

FirstValid(z, day, time) ==
    Instant(z, day * DayLength + time + Min(ValidAdvances(z, day, time)))

\* The Monday of week w, and scheduled_for of its run.
Monday(w) == w * WeekDays
HasSlot(z, w) == ValidAdvances(z, Monday(w), RunAt) # {}
Slot(z, w) == FirstValid(z, Monday(w), RunAt)

\* The period ending before the local day `end`.
Week(z, end) == [from |-> Midnight(z, end - WeekDays), to |-> Midnight(z, end)]
Within(t, period) == period.from <= t /\ t < period.to

\* The period the scheduler looks for activity in.
ScheduledPeriod(z, w) == Week(z, Monday(w))

\* The same as tables.
Calendar ==
    [z \in Zones |->
        [w \in {x \in Jobs : HasSlot(z, x)} |->
            [slot |-> Slot(z, w), scheduled |-> ScheduledPeriod(z, w)]]]

ScheduledFor(w) == Calendar[origin[w]][w].slot

\* Offsets differ by little more than a day: a slot falls near the Monday of its
\* own week in every zone.
ASSUME WeeksApart ==
    \A z, y \in Zones : \A w \in DOMAIN Calendar[z], v \in DOMAIN Calendar[y] :
        \A a, b \in Zones :
            LocalDay(a, Calendar[z][w].slot) = LocalDay(b, Calendar[y][v].slot) => w = v

\* Mutant: the last day of the period is taken for the day after it.
EndDay_DropsSunday(w) == LocalDay(zone, ScheduledFor(w)) - 1

\* weekly_period, in the zone the user has when the handler prepares the run.
EndDay(w) == LocalDay(zone, ScheduledFor(w))

Period(w) == Week(zone, EndDay(w))

-----------------------------------------------------------------------------
WeeklyTypeOK ==
    /\ TypeOK
    /\ now \in 0 .. Horizon /\ zone \in Zones /\ active \in BOOLEAN
    /\ scan \in [Scans -> {"absent", "live"} \cup EndedScan]
    /\ scanAt \in [Scans -> 0 .. Horizon]
    /\ finding \in [Scans -> {"none", "writing", "visible"}]
    /\ stamp \in [Scans -> 0 .. Horizon]
    /\ origin \in [Jobs -> Zones \cup {None}]
    /\ spare \in [Jobs -> SUBSET Int]
    /\ run \in [Jobs -> {"absent", "queued", "synthesizing"} \cup EndedRun]
    /\ task \in [Jobs -> {"absent", "running", "succeeded", "failed", "cancelled"}]
    /\ usage \in [Jobs -> Nat]
    /\ brief \in [Jobs -> Briefs \cup {None}]
    /\ asked \in [Jobs -> Nat]
    /\ at \in [Executors -> Points]
    /\ held \in [Executors -> Jobs \cup {None}]
    /\ context \in [Executors -> Contexts]
    /\ errors \in 0 .. MaxErrors

WeeklyInit ==
    /\ Init
    /\ now = 0 /\ zone \in Zones /\ active = TRUE
    /\ scan = [s \in Scans |-> "absent"]
    /\ scanAt = [s \in Scans |-> 0]
    /\ finding = [s \in Scans |-> "none"]
    /\ stamp = [s \in Scans |-> 0]
    /\ origin = [w \in Jobs |-> None]
    /\ spare = [w \in Jobs |-> {}]
    /\ run = [w \in Jobs |-> "absent"]
    /\ task = [w \in Jobs |-> "absent"]
    /\ usage = [w \in Jobs |-> 0]
    /\ brief = [w \in Jobs |-> None]
    /\ asked = [w \in Jobs |-> 0]
    /\ at = [e \in Executors |-> "none"]
    /\ held = [e \in Executors |-> None]
    /\ context = [e \in Executors |-> NoContext]
    /\ errors = 0

-----------------------------------------------------------------------------
(* The user, the Scout Runs and the clock *)

\* A publication reads the clock and commits soon after.
Tick ==
    /\ now < Horizon
    /\ \A s \in Scans : finding[s] = "writing" => now < stamp[s] + CommitWithin
    /\ now' = now + 1
    /\ UNCHANGED <<vars, environment, records, asked, handlers, errors>>

DisableUser ==
    /\ active
    /\ active' = FALSE
    /\ UNCHANGED <<vars, now, zone, scan, scanAt, finding, stamp, slots, records, asked, handlers, errors>>

\* The settings are saved with another time zone.
ChangeZone ==
    /\ zone' \in Zones \ {zone}
    /\ UNCHANGED <<vars, now, active, scan, scanAt, finding, stamp, slots, records, asked, handlers, errors>>

StartScan(s) ==
    /\ scan[s] = "absent" /\ now \in ScanTimes
    /\ scan' = [scan EXCEPT ![s] = "live"]
    /\ scanAt' = [scanAt EXCEPT ![s] = now]
    /\ UNCHANGED <<vars, now, zone, active, finding, stamp, slots, records, asked, handlers, errors>>

BeginPublish(s) ==
    /\ scan[s] = "live" /\ finding[s] = "none"
    /\ finding' = [finding EXCEPT ![s] = "writing"]
    /\ stamp' = [stamp EXCEPT ![s] = now]
    /\ UNCHANGED <<vars, now, zone, active, scan, scanAt, slots, records, asked, handlers, errors>>

CommitPublish(s) ==
    /\ finding[s] = "writing"
    /\ finding' = [finding EXCEPT ![s] = "visible"]
    /\ UNCHANGED <<vars, now, zone, active, scan, scanAt, stamp, slots, records, asked, handlers, errors>>

\* A publication of another handler may still be committing.
EndScan(s) ==
    /\ scan[s] = "live"
    /\ \E status \in Outcomes : scan' = [scan EXCEPT ![s] = status]
    /\ UNCHANGED <<vars, now, zone, active, scanAt, finding, stamp, slots, records, asked, handlers, errors>>

\* The handler of one of its two jobs writes over the status that the other
\* ended the Scout Run with.
RewriteScan(s) ==
    /\ s \in TwoJobs /\ scan[s] \in EndedScan
    /\ \E status \in {"live"} \cup Outcomes : scan' = [scan EXCEPT ![s] = status]
    /\ UNCHANGED <<vars, now, zone, active, scanAt, finding, stamp, slots, records, asked, handlers, errors>>

-----------------------------------------------------------------------------
\* One pass of schedule_due_weekly_briefs, the run and its job in one
\* transaction.  A later pass resolves the job of the week, and the run unless
\* the slot has moved with the zone: then it inserts another.
ScheduleWeekly(w) ==
    /\ active
    /\ w = LocalDay(zone, now) \div WeekDays
    /\ w \in DOMAIN Calendar[zone] /\ Calendar[zone][w].slot <= now
    /\ \E s \in Scans : scan[s] # "absent" /\ Within(scanAt[s], Calendar[zone][w].scheduled)
    /\ \/ /\ run[w] = "absent"
          /\ run' = [run EXCEPT ![w] = "queued"]
          /\ origin' = [origin EXCEPT ![w] = zone]
          /\ Enqueue(w)
          /\ UNCHANGED spare
       \/ /\ run[w] # "absent"
          /\ Calendar[zone][w].slot \notin {ScheduledFor(w)} \cup spare[w]
          /\ spare' = [spare EXCEPT ![w] = @ \cup {Calendar[zone][w].slot}]
          /\ UNCHANGED <<vars, run, origin>>
    /\ UNCHANGED <<now, zone, active, scan, scanAt, finding, stamp, task, usage, brief, asked, handlers, errors>>

GoTo(e, point) == at' = [at EXCEPT ![e] = point]

\* An executor takes the job, from a holder without a handler or from one
\* whose lease lapsed under it.
StartHandler(e, w) ==
    /\ at[e] = "none"
    /\ Take(e, w)
    /\ IF \E f \in Executors : held[f] = w
       THEN errors < MaxErrors /\ errors' = errors + 1
       ELSE UNCHANGED errors
    /\ GoTo(e, "start")
    /\ held' = [held EXCEPT ![e] = w]
    /\ UNCHANGED <<now, environment, records, asked, context>>

\* The findings the handler selects, and the coverage receipt of the period.
PeriodFindings(w) ==
    {s \in Scans : finding[s] = "visible" /\ Within(stamp[s], Period(w))}

\* Mutant: a scan counts whether or not it has ended.
CoverageReceipt_AnyStatus(w) ==
    [s \in {x \in Scans : scan[x] # "absent" /\ Within(scanAt[x], Period(w))}
        |-> scan[s]]

CoverageReceipt(w) ==
    [s \in {x \in Scans : scan[x] \in EndedScan /\ Within(scanAt[x], Period(w))}
        |-> scan[s]]

EndWith(w, r, t) ==
    /\ run' = [run EXCEPT ![w] = r]
    /\ task' = [task EXCEPT ![w] = t]

\* The _BriefContext, the row made of one, and the unique period of the rows.
Prepared(w) ==
    [findings |-> PeriodFindings(w), references |-> {}, receipt |-> CoverageReceipt(w),
     day |-> EndDay(w), zone |-> zone]

Publication(c) ==
    [references |-> c.references, receipt |-> c.receipt, day |-> c.day, zone |-> c.zone]

Taken(day) == \E v \in Jobs : brief[v] # None /\ brief[v].day = day

FailedTask(w) == IF task[w] = "absent" THEN "absent" ELSE "failed"

\* Mutant: the run stays PLANNING while the provider answers.
PrepareQueued_StaysPlanning(e, w) ==
    LET c == Prepared(w) IN
    /\ run[w] = "queued"
    /\ \/ /\ c.findings # {}
          /\ EndWith(w, "failed", task[w]) /\ GoTo(e, "done")
          /\ UNCHANGED <<brief, context>>
       \/ /\ c.findings = {}
          /\ brief' = [brief EXCEPT ![w] = Publication(c)]
          /\ EndWith(w, "completed", task[w]) /\ GoTo(e, "done")
          /\ UNCHANGED context
       \/ /\ c.findings # {} /\ Cardinality(c.findings) <= MaxFindings
          /\ EndWith(w, "planning", "running") /\ GoTo(e, "ask")
          /\ context' = [context EXCEPT ![e] = c]
          /\ UNCHANGED brief

\* A QUEUED run of an enabled user without a brief for the period: too many
\* findings, or one without evidence, fail it.
PrepareQueued(e, w) ==
    LET c == Prepared(w) IN
    /\ run[w] = "queued"
    /\ \/ /\ c.findings # {}
          /\ EndWith(w, "failed", task[w]) /\ GoTo(e, "done")
          /\ UNCHANGED <<brief, context>>
       \/ /\ c.findings = {}
          /\ brief' = [brief EXCEPT ![w] = Publication(c)]
          /\ EndWith(w, "completed", task[w]) /\ GoTo(e, "done")
          /\ UNCHANGED context
       \/ /\ c.findings # {} /\ Cardinality(c.findings) <= MaxFindings
          /\ EndWith(w, "synthesizing", "running") /\ GoTo(e, "ask")
          /\ context' = [context EXCEPT ![e] = c]
          /\ UNCHANGED brief

\* Mutant: an interrupted run asks again.
Prepare_Retries(e) ==
    LET w == held[e] IN
    /\ at[e] = "start"
    /\ \/ /\ run[w] \in EndedRun
          /\ UNCHANGED <<run, task, brief, context>> /\ GoTo(e, "done")
       \/ /\ run[w] \notin EndedRun /\ ~active
          /\ EndWith(w, "failed", task[w]) /\ GoTo(e, "done")
          /\ UNCHANGED <<brief, context>>
       \/ /\ run[w] \notin EndedRun /\ active /\ Taken(EndDay(w))
          /\ EndWith(w, "completed", task[w]) /\ GoTo(e, "done")
          /\ UNCHANGED <<brief, context>>
       \/ /\ run[w] \notin EndedRun \cup {"queued"} /\ active /\ ~Taken(EndDay(w))
          /\ UNCHANGED <<run, task>> /\ GoTo(e, "ask")
          /\ context' = [context EXCEPT ![e] = Prepared(w)]
          /\ UNCHANGED brief
       \/ active /\ ~Taken(EndDay(w)) /\ PrepareQueued(e, w)
    /\ UNCHANGED <<vars, now, environment, usage, asked, held, errors>>

\* Mutant: an interrupted run is left alone.
Prepare_LeavesInterrupted(e) ==
    LET w == held[e] IN
    /\ at[e] = "start"
    /\ \/ /\ run[w] \in EndedRun
          /\ UNCHANGED <<run, task, brief, context>> /\ GoTo(e, "done")
       \/ /\ run[w] \notin EndedRun /\ ~active
          /\ EndWith(w, "failed", task[w]) /\ GoTo(e, "done")
          /\ UNCHANGED <<brief, context>>
       \/ /\ run[w] \notin EndedRun /\ active /\ Taken(EndDay(w))
          /\ EndWith(w, "completed", task[w]) /\ GoTo(e, "done")
          /\ UNCHANGED <<brief, context>>
       \/ /\ run[w] \notin EndedRun \cup {"queued"} /\ active /\ ~Taken(EndDay(w))
          /\ UNCHANGED <<run, task>> /\ GoTo(e, "done")
          /\ UNCHANGED <<brief, context>>
       \/ active /\ ~Taken(EndDay(w)) /\ PrepareQueued(e, w)
    /\ UNCHANGED <<vars, now, environment, usage, asked, held, errors>>

\* _prepare, under the row lock of the run.
Prepare(e) ==
    LET w == held[e] IN
    /\ at[e] = "start"
    /\ \/ /\ run[w] \in EndedRun
          /\ UNCHANGED <<run, task, brief, context>> /\ GoTo(e, "done")
       \/ /\ run[w] \notin EndedRun /\ ~active
          /\ EndWith(w, "failed", task[w]) /\ GoTo(e, "done")
          /\ UNCHANGED <<brief, context>>
       \/ /\ run[w] \notin EndedRun /\ active /\ Taken(EndDay(w))
          /\ EndWith(w, "completed", task[w]) /\ GoTo(e, "done")
          /\ UNCHANGED <<brief, context>>
       \/ /\ run[w] \notin EndedRun \cup {"queued"} /\ active /\ ~Taken(EndDay(w))
          /\ EndWith(w, "failed", FailedTask(w)) /\ GoTo(e, "done")
          /\ UNCHANGED <<brief, context>>
       \/ active /\ ~Taken(EndDay(w)) /\ PrepareQueued(e, w)
    /\ UNCHANGED <<vars, now, environment, usage, asked, held, errors>>

\* _validate_grounding: there are references, all to findings it supplied.
Grounded(references, c) == references # {} /\ references \subseteq c.findings

\* _request_would_exceed_cost_ceiling, the token limit, or the one request and
\* what the handler makes of its answer.
AskProvider(e) ==
    LET w == held[e] IN
    /\ at[e] = "ask"
    /\ \/ /\ GoTo(e, "stop") \/ GoTo(e, "fail")
          /\ UNCHANGED <<asked, context>>
       \/ /\ asked' = [asked EXCEPT ![w] = @ + 1]
          /\ \/ GoTo(e, "fail") /\ UNCHANGED context
             \/ GoTo(e, "failpaid") /\ UNCHANGED context
             \/ \E references \in SUBSET Scans :
                   IF Grounded(references, context[e])
                   THEN /\ GoTo(e, "publish")
                        /\ context' = [context EXCEPT ![e].references = references]
                   ELSE GoTo(e, "failpaid") /\ UNCHANGED context
    /\ UNCHANGED <<vars, now, environment, records, held, errors>>

\* _apply_metadata and _record_usage of an answer.
RecordUsage(w) == usage' = [usage EXCEPT ![w] = @ + 1]

Done(e) ==
    /\ GoTo(e, "done")
    /\ context' = [context EXCEPT ![e] = NoContext]
    /\ UNCHANGED <<vars, now, environment, asked, held, errors>>

\* INSERT ... ON CONFLICT DO NOTHING on the period.
InsertBrief(w, c) ==
    brief' = IF Taken(c.day) THEN brief ELSE [brief EXCEPT ![w] = Publication(c)]

\* Mutant: the brief is inserted before the status is looked at.
Publish_BriefFirst(e) ==
    LET w == held[e] IN
    /\ at[e] = "publish"
    /\ InsertBrief(w, context[e])
    /\ IF run[w] \in EndedRun THEN UNCHANGED <<run, task, usage>>
       ELSE /\ EndWith(w, "completed", "succeeded")
            /\ RecordUsage(w)
    /\ Done(e)

\* _publish, for the period the run was prepared with.
Publish(e) ==
    LET w == held[e] IN
    /\ at[e] = "publish"
    /\ IF run[w] \in EndedRun THEN UNCHANGED records
       ELSE /\ EndWith(w, "completed", "succeeded")
            /\ InsertBrief(w, context[e])
            /\ RecordUsage(w)
    /\ Done(e)

\* _fail; the usage of an answer is recorded.
Fail(e) ==
    LET w == held[e] IN
    /\ at[e] \in {"fail", "failpaid"}
    /\ IF run[w] \in EndedRun THEN UNCHANGED <<run, task, usage>>
       ELSE /\ EndWith(w, "failed", "failed")
            /\ IF at[e] = "fail" THEN UNCHANGED usage ELSE RecordUsage(w)
    /\ UNCHANGED brief
    /\ Done(e)

\* _stop_for_cost, whatever the status of the run is by now.
StopForCost(e) ==
    /\ at[e] = "stop"
    /\ EndWith(held[e], "partial", "cancelled")
    /\ UNCHANGED <<usage, brief>>
    /\ Done(e)

\* A transaction of the handler raises.
HandlerError(e) ==
    /\ at[e] \notin {"none", "done", "raised"}
    /\ errors < MaxErrors /\ errors' = errors + 1
    /\ GoTo(e, "raised")
    /\ context' = [context EXCEPT ![e] = NoContext]
    /\ UNCHANGED <<vars, now, environment, records, asked, held>>

\* The process dies, or the renewal has failed and the handler is cancelled.
HandlerDies(e) ==
    /\ at[e] # "none"
    /\ errors < MaxErrors /\ errors' = errors + 1
    /\ GoTo(e, "none") /\ held' = [held EXCEPT ![e] = None]
    /\ context' = [context EXCEPT ![e] = NoContext]
    /\ UNCHANGED <<vars, now, environment, records, asked>>

\* The executor completes or fails the job; a job taken over by another is
\* left alone.
EndHandler(e) ==
    LET w == held[e] IN
    /\ at[e] \in {"done", "raised"}
    /\ IF holder[w] = e
       THEN Settle(e, w, IF at[e] = "done" THEN "completed" ELSE "failed")
       ELSE UNCHANGED vars
    /\ GoTo(e, "none") /\ held' = [held EXCEPT ![e] = None]
    /\ UNCHANGED <<now, environment, records, asked, context, errors>>

HandlerStep(e) ==
    Prepare(e) \/ AskProvider(e) \/ Publish(e) \/ Fail(e) \/ StopForCost(e) \/ EndHandler(e)

ScanStep(s) ==
    StartScan(s) \/ BeginPublish(s) \/ CommitPublish(s) \/ EndScan(s) \/ RewriteScan(s)

WeeklyNext ==
    \/ Tick \/ DisableUser \/ ChangeZone
    \/ \E s \in Scans : ScanStep(s)
    \/ \E w \in Jobs : ScheduleWeekly(w)
    \/ \E e \in Executors :
          \/ HandlerStep(e) \/ HandlerError(e) \/ HandlerDies(e)
          \/ \E w \in Jobs : StartHandler(e, w)

WeeklySpec == WeeklyInit /\ [][WeeklyNext]_allVars

\* The executors claim jobs until the worker ends, and every await of the
\* handler has a deadline.
WeeklyFairness ==
    \A e \in Executors :
        /\ WF_allVars(\E w \in Jobs : StartHandler(e, w))
        /\ WF_allVars(HandlerStep(e))

FairWeeklySpec == WeeklySpec /\ WeeklyFairness

-----------------------------------------------------------------------------
(* Properties *)

\* A published brief tells its period, for good and across a clock change: it
\* refers only to findings published in it.  If the user had the zone the run
\* was scheduled in when the handler prepared it, the period is the Monday to
\* Sunday the scheduler meant, and the brief is the empty one only if no finding
\* of that week ever becomes visible, although a publication may have read the
\* clock before the slot and committed after it.
BriefTellsItsWeek ==
    \A w \in Jobs : brief[w] # None =>
        LET b == brief[w]
            ofPeriod == {s \in Scans : finding[s] # "none" /\ Within(stamp[s], Week(b.zone, b.day))}
        IN
        /\ b.references \subseteq ofPeriod
        /\ b.zone = origin[w] =>
              /\ Week(b.zone, b.day) = ScheduledPeriod(origin[w], w)
              /\ b.references = {} => ofPeriod = {}

\* A brief exists exactly when its run is COMPLETED, although a handler that
\* lost its job may still stop the run for cost without looking at its status;
\* the usage of the answer is recorded with it.
BriefMatchesRun ==
    \A w \in Jobs :
        /\ run[w] = "completed" <=> brief[w] # None
        /\ task[w] = "succeeded" <=> run[w] = "completed" /\ usage[w] = 1
        /\ usage[w] = 1 => run[w] \in EndedRun

\* A request that may have been paid for is not repeated after a crash or a
\* lost lease, and an answer is charged at most once.
PaidOnce == \A w \in Jobs : usage[w] <= asked[w] /\ asked[w] <= 1

\* The coverage receipt counts Scout Runs of the period of the brief that had
\* ended, so it still agrees with their statuses later, except for those that
\* two jobs write.
ReceiptStands ==
    \A w \in Jobs : brief[w] # None =>
        LET b == brief[w] IN
        \A s \in DOMAIN b.receipt :
            /\ scan[s] = b.receipt[s] \/ s \in TwoJobs
            /\ Within(scanAt[s], Week(b.zone, b.day))

\* A weekly run moves as _WEEKLY_TRANSITIONS says, several steps of it in one
\* transaction: an ended run keeps its status.
Later ==
    [absent |-> {"queued"},
     queued |-> {"planning", "synthesizing"} \cup EndedRun,
     planning |-> {"synthesizing"} \cup EndedRun,
     synthesizing |-> EndedRun,
     completed |-> {}, partial |-> {}, failed |-> {}]

WeeklyStatusSteps ==
    [][\A w \in Jobs : run'[w] = run[w] \/ run'[w] \in Later[run[w]]]_allVars

\* The run that has the job of its week ends, or an error fails the job.
WeeklyRunEnds ==
    \A w \in Jobs : run[w] = "queued" ~> (run[w] \in EndedRun \/ stage[w] = "failed")

=============================================================================
