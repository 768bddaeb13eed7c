---------------------------- MODULE RunAdmission ----------------------------
(***************************************************************************)
(* How the Scout Runs of one competitor come into being: the passes of the *)
(* scheduler (jobs/scheduler.py) and manual requests (services/runs.py)    *)
(* create rows of scout_runs and jobs concurrently, and coordinate by      *)
(* unique indexes with insert-or-ignore, an advisory lock and the          *)
(* deduplication keys of the jobs.                                         *)
(*                                                                         *)
(* The job table is the abstract queue of JobQueue, which JobLeases        *)
(* implements.  Its workers are taken at their Timely best: a job is only  *)
(* taken over from a worker that vanished.  Handlers are reduced to what   *)
(* _start_run decides and to the end of the run; ScoutRuns has the rest.   *)
(*                                                                         *)
(* Each action of a pass or a request is one SQL statement; those from an  *)
(* insert that succeeds to the commit are one step, since whoever          *)
(* conflicts with the new row waits for the commit.                        *)
(*                                                                         *)
(* The competitor is ACTIVE, with an approved source and an enabled user,  *)
(* throughout.  A local day has DayLength ticks and local time is `zone`   *)
(* ticks ahead of now, without daylight saving.                            *)
(***************************************************************************)
EXTENDS Integers, Sequences, FiniteSets

CONSTANTS Requests,   \* API requests in flight at the same time
          Passes,     \* scheduler loops, one per worker process
          Workers,    \* executors
          None,       \* no worker, no key
          DayLength,  \* ticks of a day
          Times,      \* daily run times a user may choose
          Zones,      \* time zone offsets a user may choose
          Window,     \* MANUAL_IDEMPOTENCY_WINDOW
          MaxLag,     \* bound on the duration of a pass or a request
          MinTime,    \* the time at which the clock starts
          MaxTime,    \* bound on the clock
          MaxManual,  \* bound on the manual runs
          MaxRuns,    \* bound on the rows of scout_runs
          MaxFaults   \* bound on vanished workers, failed passes and failed jobs

ASSUME AdmissionAssumption ==
    /\ DayLength \in Nat \ {0} /\ Window \in Nat /\ MaxLag \in Nat
    /\ MinTime \in Nat /\ MaxTime \in Nat /\ MinTime <= MaxTime
    /\ MaxManual \in Nat /\ MaxRuns \in Nat /\ MaxFaults \in Nat
    /\ Times # {} /\ Times \subseteq 0 .. DayLength - 1
    /\ Zones # {} /\ Zones \subseteq 0 .. DayLength - 1

VARIABLES
    now,
    dailyTime,  \* competitors.daily_run_time_local
    zone,       \* users.timezone
    runs,       \* scout_runs of the competitor, in the order of creation
    stage,      \* the job table: see JobQueue
    holder,
    payload,    \* payload[k]: the run of the job with key k, 0 for no job
    pass,       \* scheduler passes in progress
    request,    \* manual requests in progress
    handler,    \* what the handler of a worker is about to do
    claimed,    \* the job a worker claimed
    faults

settings == <<dailyTime, zone>>
table == <<stage, holder, payload>>
workers == <<handler, claimed>>
vars == <<now, settings, runs, table, pass, request, workers, faults>>

LocalDay(t) == (t + zone) \div DayLength

\* first_valid_local_occurrence, as a time of the clock.
Slot(day) == day * DayLength + dailyTime - zone

Days == {(t + z) \div DayLength : t \in 0 .. MaxTime, z \in Zones}
RunIds == 1 .. MaxRuns

\* daily_deduplication_key, and the key of _enqueue_run_job.
DayKey(day) == <<"day", day>>
RunKey(i) == <<"run", i>>
Keys == {DayKey(d) : d \in Days} \cup {RunKey(i) : i \in RunIds}

ASSUME NoneAssumption == None \notin Workers /\ None \notin Keys

Queue == INSTANCE JobQueue WITH Jobs <- Keys, Executors <- Workers

\* "successful" stands for COMPLETED and PARTIAL, "working" for the statuses
\* in between.
TerminalRun == {"successful", "failed"}
ActiveRun == {"queued", "working"}

RunRows == [type : {"daily", "manual"}, due : Int, status : ActiveRun \cup TerminalRun]

AdmissionTypeOK ==
    /\ now \in MinTime .. MaxTime
    /\ dailyTime \in Times /\ zone \in Zones
    /\ runs \in Seq(RunRows) /\ Len(runs) <= MaxRuns
    /\ Queue!TypeOK
    /\ payload \in [Keys -> 0 .. Len(runs)]
    /\ pass \in [Passes -> [at : {"idle", "check", "insert", "find"},
                            now : 0 .. MaxTime, zone : Zones, day : Days,
                            due : Int, satisfied : BOOLEAN]]
    /\ request \in [Requests -> [at : {"idle", "lock", "insert", "resolve"},
                                 now : 0 .. MaxTime]]
    /\ handler \in [Workers -> {"none", "start", "work", "done"}]
    /\ claimed \in [Workers -> Keys \cup {None}]
    /\ faults \in 0 .. MaxFaults

IdlePass == [at |-> "idle", now |-> 0, zone |-> CHOOSE z \in Zones : TRUE, day |-> CHOOSE d \in Days : TRUE,
             due |-> 0, satisfied |-> FALSE]
IdleRequest == [at |-> "idle", now |-> 0]

Init ==
    /\ now = MinTime
    /\ dailyTime \in Times /\ zone \in Zones
    /\ runs = << >>
    /\ Queue!Init
    /\ payload = [k \in Keys |-> 0]
    /\ pass = [s \in Passes |-> IdlePass]
    /\ request = [r \in Requests |-> IdleRequest]
    /\ handler = [w \in Workers |-> "none"]
    /\ claimed = [w \in Workers |-> None]
    /\ faults = 0

-----------------------------------------------------------------------------
(* Rows *)

Active == {i \in DOMAIN runs : runs[i].status \in ActiveRun}

Manual == {i \in DOMAIN runs : runs[i].type = "manual"}

\* The unique indexes of scout_runs: one active run per competitor, and one
\* run per type and scheduled time.
Conflict(type, due) ==
    \/ Active # {}
    \/ \E i \in DOMAIN runs : runs[i].type = type /\ runs[i].due = due

InsertRun(type, due) ==
    /\ Len(runs) < MaxRuns
    /\ runs' = Append(runs, [type |-> type, due |-> due, status |-> "queued"])

\* enqueue_in_session
EnqueueJob(k, i) ==
    IF stage[k] = "absent"
    THEN Queue!Enqueue(k) /\ payload' = [payload EXCEPT ![k] = i]
    ELSE UNCHANGED table

SetStatus(i, s) == runs' = [runs EXCEPT ![i].status = s]

-----------------------------------------------------------------------------
(* schedule_due_daily_runs, as scheduler_loop calls it *)

\* A manual run of the day has ended well (written into the pass so that a
\* property can refer to the time at which it began).
Satisfied(day) ==
    \E i \in Manual : LocalDay(runs[i].due) = day /\ runs[i].status = "successful"

\* `now` is read, then the competitor with its user.
BeginPass(s) ==
    /\ pass[s].at = "idle"
    /\ Slot(LocalDay(now)) <= now
    /\ pass' = [pass EXCEPT ![s] = [at |-> "check", now |-> now, zone |-> zone,
                                    day |-> LocalDay(now), due |-> Slot(LocalDay(now)),
                                    satisfied |-> Satisfied(LocalDay(now))]]
    /\ UNCHANGED <<now, settings, runs, table, request, workers, faults>>

\* Mutant: the calendar day of the server instead of the user's.
SatisfiedBy_UtcDay(s) ==
    {i \in Manual : /\ runs[i].status = "successful"
                    /\ runs[i].due \div DayLength = pass[s].now \div DayLength
                    /\ runs[i].due <= pass[s].now}

\* Mutant: a failed manual run counts as well.
SatisfiedBy_AnyOutcome(s) ==
    {i \in Manual : /\ runs[i].status \in TerminalRun
                    /\ (runs[i].due + pass[s].zone) \div DayLength = pass[s].day
                    /\ runs[i].due <= pass[s].now}

\* The successful manual runs of the local day that the pass is for.
SatisfiedBy(s) ==
    {i \in Manual : /\ runs[i].status = "successful"
                    /\ (runs[i].due + pass[s].zone) \div DayLength = pass[s].day
                    /\ runs[i].due <= pass[s].now}

CheckManual(s) ==
    /\ pass[s].at = "check"
    /\ pass' = [pass EXCEPT ![s] =
                   IF SatisfiedBy(s) = {} THEN [@ EXCEPT !.at = "insert"] ELSE IdlePass]
    /\ UNCHANGED <<now, settings, runs, table, request, workers, faults>>

\* Mutant: the job is written by a transaction before the run's.
InsertDaily_JobFirst(s) ==
    /\ pass[s].at = "insert"
    /\ IF Conflict("daily", pass[s].due)
       THEN pass' = [pass EXCEPT ![s].at = "find"] /\ UNCHANGED <<runs, table>>
       ELSE IF stage[DayKey(pass[s].day)] = "absent"
            THEN EnqueueJob(DayKey(pass[s].day), Len(runs) + 1) /\ UNCHANGED <<runs, pass>>
            ELSE /\ InsertRun("daily", pass[s].due)
                 /\ pass' = [pass EXCEPT ![s] = IdlePass]
                 /\ UNCHANGED table
    /\ UNCHANGED <<now, settings, request, workers, faults>>

InsertDaily(s) ==
    /\ pass[s].at = "insert"
    /\ IF Conflict("daily", pass[s].due)
       THEN /\ pass' = [pass EXCEPT ![s].at = "find"]
            /\ UNCHANGED <<runs, table>>
       ELSE /\ InsertRun("daily", pass[s].due)
            /\ EnqueueJob(DayKey(pass[s].day), Len(runs) + 1)
            /\ pass' = [pass EXCEPT ![s] = IdlePass]
    /\ UNCHANGED <<now, settings, request, workers, faults>>

FindDaily(s) ==
    LET found == {i \in DOMAIN runs : runs[i].type = "daily" /\ runs[i].due = pass[s].due} IN
    /\ pass[s].at = "find"
    /\ \/ \E i \in found : EnqueueJob(DayKey(pass[s].day), i)
       \/ found = {} /\ UNCHANGED table
    /\ pass' = [pass EXCEPT ![s] = IdlePass]
    /\ UNCHANGED <<now, settings, runs, request, workers, faults>>

Fault == faults < MaxFaults /\ faults' = faults + 1

\* The transaction is rolled back and the worker process restarted.
PassFails(s) ==
    /\ pass[s].at # "idle"
    /\ Fault
    /\ pass' = [pass EXCEPT ![s] = IdlePass]
    /\ UNCHANGED <<now, settings, runs, table, request, workers>>

-----------------------------------------------------------------------------
(* enqueue_manual_run *)

InProgress == {r \in Requests : request[r].at # "idle"}

\* `now` is read before anything else.
BeginRequest(r) ==
    /\ request[r].at = "idle"
    /\ Cardinality(Manual) + Cardinality(InProgress) < MaxManual
    /\ request' = [request EXCEPT ![r] = [at |-> "lock", now |-> now]]
    /\ UNCHANGED <<now, settings, runs, table, pass, workers, faults>>

\* Mutant: no advisory lock.
LockHolders_Nobody == {}

\* The requests that hold pg_advisory_xact_lock.
LockHolders == {r \in Requests : request[r].at \in {"insert", "resolve"}}

\* The manual runs of the last Window ticks, as of the request's `now`.
Recent(r) ==
    {i \in Manual : runs[i].due > request[r].now - Window /\ runs[i].due <= request[r].now}

\* The lock, and what is read under it.  A manual run that is still queued is
\* enqueued again; any other active or recent run is just returned.
LookForRun(r) ==
    /\ request[r].at = "lock"
    /\ LockHolders = {}
    /\ \/ /\ Active = {} /\ Recent(r) = {}
          /\ request' = [request EXCEPT ![r].at = "insert"]
          /\ UNCHANGED table
       \/ /\ \E i \in Active : IF i \in Manual /\ runs[i].status = "queued"
                               THEN EnqueueJob(RunKey(i), i)
                               ELSE UNCHANGED table
          /\ request' = [request EXCEPT ![r] = IdleRequest]
       \/ /\ Active = {} /\ Recent(r) # {}
          /\ request' = [request EXCEPT ![r] = IdleRequest]
          /\ UNCHANGED table
    /\ UNCHANGED <<now, settings, runs, pass, workers, faults>>

\* Mutant: a manual run's job keyed by its day, as the scheduler's are.
InsertManual_DayKey(r) ==
    /\ request[r].at = "insert"
    /\ IF Conflict("manual", request[r].now)
       THEN /\ request' = [request EXCEPT ![r].at = "resolve"]
            /\ UNCHANGED <<runs, table>>
       ELSE /\ InsertRun("manual", request[r].now)
            /\ EnqueueJob(DayKey(LocalDay(request[r].now)), Len(runs) + 1)
            /\ request' = [request EXCEPT ![r] = IdleRequest]
    /\ UNCHANGED <<now, settings, pass, workers, faults>>

InsertManual(r) ==
    /\ request[r].at = "insert"
    /\ IF Conflict("manual", request[r].now)
       THEN /\ request' = [request EXCEPT ![r].at = "resolve"]
            /\ UNCHANGED <<runs, table>>
       ELSE /\ InsertRun("manual", request[r].now)
            /\ EnqueueJob(RunKey(Len(runs) + 1), Len(runs) + 1)
            /\ request' = [request EXCEPT ![r] = IdleRequest]
    /\ UNCHANGED <<now, settings, pass, workers, faults>>

\* The insert met a run that was created in the meantime: it is returned, with
\* a job for it.  If it has ended by now the request raises.
ResolveConflict(r) ==
    /\ request[r].at = "resolve"
    /\ \/ \E i \in Active : EnqueueJob(RunKey(i), i)
       \/ Active = {} /\ UNCHANGED table
    /\ request' = [request EXCEPT ![r] = IdleRequest]
    /\ UNCHANGED <<now, settings, runs, pass, workers, faults>>

-----------------------------------------------------------------------------
(* Jobs and their handlers *)

\* claim, under Timely: nobody's lease lapses while its worker is there.
TakeJob(w, k) ==
    /\ claimed[w] = None
    /\ \A v \in Workers : claimed[v] # k
    /\ Queue!Take(w, k)
    /\ claimed' = [claimed EXCEPT ![w] = k]
    /\ handler' = [handler EXCEPT ![w] = "start"]
    /\ UNCHANGED <<now, settings, runs, payload, pass, request, faults>>

\* Mutant: a run in an intermediate status is executed again.
StartRun_Resumes(w) ==
    LET i == payload[claimed[w]] IN
    /\ handler[w] = "start"
    /\ \/ /\ runs[i].status \in ActiveRun
          /\ SetStatus(i, "working")
          /\ handler' = [handler EXCEPT ![w] = "work"]
       \/ /\ runs[i].status \in TerminalRun
          /\ handler' = [handler EXCEPT ![w] = "done"]
          /\ UNCHANGED runs
    /\ UNCHANGED <<now, settings, table, pass, request, claimed, faults>>

\* _start_run: execute a queued run, terminalize one that somebody started,
\* leave one alone that has ended.
StartRun(w) ==
    LET i == payload[claimed[w]] IN
    /\ handler[w] = "start"
    /\ \/ /\ runs[i].status = "queued"
          /\ SetStatus(i, "working")
          /\ handler' = [handler EXCEPT ![w] = "work"]
       \/ /\ \/ runs[i].status = "queued" /\ SetStatus(i, "failed")
             \/ runs[i].status = "working" /\ \E s \in TerminalRun : SetStatus(i, s)
             \/ runs[i].status \in TerminalRun /\ UNCHANGED runs
          /\ handler' = [handler EXCEPT ![w] = "done"]
    /\ UNCHANGED <<now, settings, table, pass, request, claimed, faults>>

\* _finish_run and _fail_run do not look at the status they overwrite.
EndRun(w) ==
    /\ handler[w] = "work"
    /\ \E s \in TerminalRun : SetStatus(payload[claimed[w]], s)
    /\ handler' = [handler EXCEPT ![w] = "done"]
    /\ UNCHANGED <<now, settings, table, pass, request, claimed, faults>>

SettleJob(w, s) ==
    /\ Queue!Settle(w, claimed[w], s)
    /\ handler' = [handler EXCEPT ![w] = "none"]
    /\ claimed' = [claimed EXCEPT ![w] = None]
    /\ UNCHANGED <<now, settings, runs, payload, pass, request>>

CompleteJob(w) ==
    /\ handler[w] = "done"
    /\ SettleJob(w, "completed")
    /\ UNCHANGED faults

\* The handler raises, or a renewal does and the handler is cancelled wherever
\* it is: the job is failed for good, and its run stays as it is.
FailJob(w) ==
    /\ claimed[w] # None
    /\ Fault
    /\ SettleJob(w, "failed")

\* The worker's process dies, and its lease lapses.
Vanish(w) ==
    /\ claimed[w] # None
    /\ Fault
    /\ handler' = [handler EXCEPT ![w] = "none"]
    /\ claimed' = [claimed EXCEPT ![w] = None]
    /\ UNCHANGED <<now, settings, runs, table, pass, request>>

-----------------------------------------------------------------------------
(* The user, and time *)

\* update_competitor_route and update_settings_route.
ChangeSettings ==
    /\ dailyTime' \in Times /\ zone' \in Zones
    /\ UNCHANGED <<now, runs, table, pass, request, workers, faults>>

Tick ==
    /\ now < MaxTime
    /\ \A s \in Passes : pass[s].at # "idle" => now < pass[s].now + MaxLag
    /\ \A r \in InProgress : now < request[r].now + MaxLag
    /\ now' = now + 1
    /\ UNCHANGED <<settings, runs, table, pass, request, workers, faults>>

PassStep(s) == BeginPass(s) \/ CheckManual(s) \/ InsertDaily(s) \/ FindDaily(s)

RequestStep(r) == LookForRun(r) \/ InsertManual(r) \/ ResolveConflict(r)

WorkerStep(w) == (\E k \in Keys : TakeJob(w, k)) \/ StartRun(w) \/ EndRun(w) \/ CompleteJob(w)

Next ==
    \/ \E s \in Passes : PassStep(s) \/ PassFails(s)
    \/ \E r \in Requests : BeginRequest(r) \/ RequestStep(r)
    \/ \E w \in Workers : WorkerStep(w) \/ FailJob(w) \/ Vanish(w)
    \/ ChangeSettings
    \/ Tick

Spec == Init /\ [][Next]_vars

\* The scheduler loop runs a pass every 30 seconds, statements execute, handlers
\* end, and time passes.  Nobody has to ask for a run or change a setting.
Fairness ==
    /\ WF_vars(Tick)
    /\ \A s \in Passes : WF_vars(PassStep(s))
    /\ \A r \in Requests : WF_vars(RequestStep(r))
    /\ \A w \in Workers : WF_vars(WorkerStep(w))

FairSpec == Spec /\ Fairness

-----------------------------------------------------------------------------
(* Properties *)

\* Manual runs are a window apart, whatever requests run concurrently: the
\* advisory lock covers the look and the insert.  A request that was overtaken
\* by a later one does not see the run of that one, which lies in the future
\* of the time it has read; once that run has ended it adds one of its own,
\* earlier by as much as a request may take.
ManualRunsApart ==
    \A i, j \in Manual : i < j =>
        \/ runs[j].due >= runs[i].due + Window
        \/ runs[j].due < runs[i].due /\ runs[i].due <= runs[j].due + MaxLag

\* A queued run has a job that somebody will execute, or had one until an
\* error failed it (run and job are created by one transaction, under keys that
\* no other run has, and no job is completed before its run was started).
QueuedRunHasJob ==
    \A i \in DOMAIN runs : runs[i].status = "queued" =>
        \E k \in Keys : payload[k] = i /\ stage[k] \in {"queued", "held", "failed"}

\* However many jobs a run gets, one worker executes it (_start_run).
OneWorkerPerRun ==
    \A v, w \in Workers :
        /\ handler[v] = "work" /\ handler[w] = "work"
        /\ payload[claimed[v]] = payload[claimed[w]]
        => v = w

\* The status with which a run has ended is the one it keeps.
EndedRunsStay ==
    [][\A i \in DOMAIN runs :
          runs[i].status \in TerminalRun => runs'[i].status = runs[i].status]_vars

\* No pass creates the daily run of a local day that a manual run, over
\* before the pass began, has satisfied.
SatisfiedDayIsLeftAlone ==
    [][\A s \in Passes :
          pass[s].at = "insert" /\ pass'[s] # pass[s] /\ runs' # runs =>
              ~pass[s].satisfied]_vars

\* The day `d` got its daily run or did not need it.
Served(d) ==
    \E i \in DOMAIN runs :
        /\ LocalDay(runs[i].due) = d
        /\ runs[i].type = "daily" \/ runs[i].status = "successful"

\* A run holds the competitor's active slot and all its jobs are settled: an
\* error has failed one of them.
Stranded ==
    \E i \in Active :
        /\ \E k \in Keys : payload[k] = i /\ stage[k] = "failed"
        /\ \A k \in Keys : payload[k] = i => stage[k] \in Queue!Settled

\* Once the daily time of the last day has passed the competitor gets its run
\* of that day, whatever manual runs, races and failures are in the way, unless
\* a run whose job was failed by an error is in the way for good.
DailyCadence ==
    Slot(LocalDay(MaxTime)) <= MaxTime => <>[](Served(LocalDay(MaxTime)) \/ Stranded)

=============================================================================
