---------------------------- MODULE SourceDiscovery ----------------------------
(***************************************************************************)
(* Source discovery: the run enqueue_source_discovery creates, and its     *)
(* handler of jobs/handlers.py, transaction by transaction, on the job     *)
(* table of JobQueue and beside the requests of CompetitorSources.         *)
(*                                                                         *)
(* JobQueue lets a job be taken from a silent holder at any moment, so the *)
(* first handler may still be working (its lease lapsed) or be gone (its   *)
(* process died).  A run and its job share the key, the competitor and the *)
(* five-minute bucket of the request: one element of Jobs.                 *)
(*                                                                         *)
(* The lease and planning_deadline_seconds are set independently, so a job *)
(* may be re-entered before the planning deadline of the attempt that      *)
(* started the run has passed, or after it.                                *)
(***************************************************************************)
EXTENDS JobQueue, CompetitorSources

CONSTANTS Target,     \* Target[j]: the competitor of run j
          MaxErrors   \* bound on crashes, lost leases and database errors

ASSUME DiscoveryAssumption ==
    /\ Target \in [Jobs -> Competitors]
    /\ MaxErrors \in Nat
    /\ None \notin Jobs

VARIABLES
    run,      \* scout_runs.status
    task,     \* agent_tasks.status of the one task of the run
    usage,    \* usage_events recorded for the run
    overdue,  \* PLANNING past started_at + planning_deadline_seconds?
    at,       \* program point of the handler executor e runs
    held,     \* the job it runs for
    attempt,  \* its attempt of the provider request
    found,    \* the sources it is storing
    early,    \* history: runs a re-entry found PLANNING within the deadline
    errors

records == <<run, task, usage>>
handlers == <<at, held, attempt, found>>
discovery == <<records, overdue, handlers, early, errors>>
allVars == <<vars, lifecycle, discovery>>

TerminalRun == {"completed", "partial", "failed"}

DiscoveryTypeOK ==
    /\ TypeOK /\ LifecycleTypeOK
    /\ run \in [Jobs -> {"absent", "queued", "planning"} \cup TerminalRun]
    /\ task \in [Jobs -> {"absent", "running", "succeeded", "failed", "cancelled"}]
    /\ usage \in [Jobs -> Nat]
    /\ overdue \in [Jobs -> BOOLEAN]
    /\ at \in [Executors -> {"none", "start", "ask", "fail", "stop", "store", "stored",
                             "done", "raised"}]
    /\ held \in [Executors -> Jobs \cup {None}]
    /\ attempt \in [Executors -> 0 .. 2]
    /\ found \in [Executors -> SUBSET Sources]
    /\ early \in SUBSET Jobs
    /\ errors \in 0 .. MaxErrors

DiscoveryInit ==
    /\ Init /\ LifecycleInit
    /\ run = [j \in Jobs |-> "absent"]
    /\ task = [j \in Jobs |-> "absent"]
    /\ usage = [j \in Jobs |-> 0]
    /\ overdue = [j \in Jobs |-> FALSE]
    /\ at = [e \in Executors |-> "none"]
    /\ held = [e \in Executors |-> None]
    /\ attempt = [e \in Executors |-> 0]
    /\ found = [e \in Executors |-> {}]
    /\ early = {}
    /\ errors = 0

-----------------------------------------------------------------------------
\* discover_sources_route: a second request in the same bucket resolves the
\* run that exists and finds its job.
RequestDiscovery(j) ==
    /\ Serves(Target[j]) /\ ~CompetitorLocked(Target[j])
    /\ run[j] = "absent"
    /\ run' = [run EXCEPT ![j] = "queued"]
    /\ Enqueue(j)
    /\ UNCHANGED <<lifecycle, task, usage, overdue, handlers, early, errors>>

GoTo(e, point) == at' = [at EXCEPT ![e] = point]

\* An executor takes the job, from a holder without a handler or from one
\* whose lease lapsed under it.
StartHandler(e, j) ==
    /\ at[e] = "none"
    /\ Take(e, j)
    /\ IF \E f \in Executors : held[f] = j
       THEN errors < MaxErrors /\ errors' = errors + 1
       ELSE UNCHANGED errors
    /\ GoTo(e, "start")
    /\ held' = [held EXCEPT ![e] = j]
    /\ UNCHANGED <<lifecycle, records, overdue, attempt, found, early>>

\* The clock moves past started_at + planning_deadline_seconds.
DeadlinePasses(j) ==
    /\ run[j] = "planning" /\ ~overdue[j]
    /\ overdue' = [overdue EXCEPT ![j] = TRUE]
    /\ UNCHANGED <<vars, lifecycle, records, handlers, early, errors>>

\* The row of run j is locked by a handler that is storing sources.
Storing(j) == \E f \in Executors : at[f] = "stored" /\ held[f] = j

EndRun(j, r, t) ==
    /\ run' = [run EXCEPT ![j] = r]
    /\ task' = [task EXCEPT ![j] = t]
    /\ overdue' = [overdue EXCEPT ![j] = FALSE]

\* Mutant: an interrupted run is left to the handler that started it.
ClaimRun_LeavesPlanning(e) ==
    LET j == held[e] IN
    /\ at[e] = "start" /\ ~Storing(j)
    /\ \/ /\ run[j] \in TerminalRun \cup {"planning"}
          /\ UNCHANGED <<run, task, overdue>> /\ GoTo(e, "done")
       \/ /\ run[j] = "queued" /\ ~Live(Target[j])
          /\ EndRun(j, "failed", task[j]) /\ GoTo(e, "done")
       \/ /\ run[j] = "queued" /\ Live(Target[j])
          /\ EndRun(j, "planning", "running") /\ GoTo(e, "ask")
    /\ attempt' = [attempt EXCEPT ![e] = IF at'[e] = "ask" THEN 1 ELSE 0]
    /\ UNCHANGED <<vars, lifecycle, usage, held, found, early, errors>>

\* Mutant: an interrupted run is ended without its task.
ClaimRun_ForgetsTask(e) ==
    LET j == held[e] IN
    /\ at[e] = "start" /\ ~Storing(j)
    /\ \/ /\ run[j] \in TerminalRun \/ (run[j] = "planning" /\ ~overdue[j])
          /\ UNCHANGED <<run, task, overdue>> /\ GoTo(e, "done")
       \/ /\ run[j] = "planning" /\ overdue[j]
          /\ EndRun(j, "failed", task[j]) /\ GoTo(e, "done")
       \/ /\ run[j] = "queued" /\ Live(Target[j])
          /\ EndRun(j, "planning", "running") /\ GoTo(e, "ask")
    /\ attempt' = [attempt EXCEPT ![e] = IF at'[e] = "ask" THEN 1 ELSE 0]
    /\ UNCHANGED <<vars, lifecycle, usage, held, found, early, errors>>

\* _recover_or_report_planning leaves a run within its deadline alone.
ReportsPlanning(j) == run[j] = "planning" /\ ~overdue[j]

\* _claim, under the row lock of the run, with _recover_or_report_planning.
ClaimRun(e) ==
    LET j == held[e] IN
    /\ at[e] = "start" /\ ~Storing(j)
    /\ \/ /\ run[j] \in TerminalRun \/ ReportsPlanning(j)
          /\ UNCHANGED <<run, task, overdue>> /\ GoTo(e, "done")
       \/ /\ run[j] = "planning" /\ overdue[j]
          /\ EndRun(j, "failed", IF task[j] = "running" THEN "failed" ELSE task[j])
          /\ GoTo(e, "done")
       \/ /\ run[j] = "queued" /\ ~Live(Target[j])
          /\ EndRun(j, "failed", task[j]) /\ GoTo(e, "done")
       \/ /\ run[j] = "queued" /\ Live(Target[j])
          /\ EndRun(j, "planning", "running") /\ GoTo(e, "ask")
    /\ attempt' = [attempt EXCEPT ![e] = IF at'[e] = "ask" THEN 1 ELSE 0]
    /\ early' = IF ReportsPlanning(j) THEN early \cup {j} ELSE early
    /\ UNCHANGED <<vars, lifecycle, usage, held, found, errors>>

\* Mutant: a retryable error is retried once more.
AskProvider_OneMore(e) ==
    /\ at[e] = "ask"
    /\ attempt[e] <= 2
    /\ attempt' = [attempt EXCEPT ![e] = @ + 1]
    /\ UNCHANGED <<vars, lifecycle, records, overdue, at, held, found, early, errors>>

\* What SourceDiscoveryService.discover may keep: distinct URLs of the domain.
Discoverable(j) == {s \in Sources : Owner[s] = Target[j]}

\* One round of the request loop: the reserved estimate exceeds a ceiling, the
\* first attempt meets a retryable error, any other error, or an outcome with
\* sources of the competitor's domain.
AskProvider(e) ==
    /\ at[e] = "ask"
    /\ \/ /\ attempt[e] = 1
          /\ attempt' = [attempt EXCEPT ![e] = 2]
          /\ UNCHANGED <<at, found>>
       \/ /\ attempt' = [attempt EXCEPT ![e] = 0]
          /\ \/ GoTo(e, "stop") /\ UNCHANGED found
             \/ GoTo(e, "fail") /\ UNCHANGED found
             \/ /\ GoTo(e, "store")
                /\ \E urls \in SUBSET Discoverable(held[e]) :
                      found' = [found EXCEPT ![e] = urls]
    /\ UNCHANGED <<vars, lifecycle, records, overdue, held, early, errors>>

\* Mutant: the outcome ends the run whatever its status is by now.
EndFailed_AnyStatus(e) ==
    LET j == held[e] IN
    /\ at[e] \in {"fail", "stop"} /\ ~Storing(j)
    /\ IF at[e] = "fail" THEN EndRun(j, "failed", "failed")
       ELSE EndRun(j, "partial", "cancelled")
    /\ GoTo(e, "done")
    /\ UNCHANGED <<vars, lifecycle, usage, held, attempt, found, early, errors>>

\* _complete_failure and _stop_for_cost.
EndFailed(e) ==
    LET j == held[e] IN
    /\ at[e] \in {"fail", "stop"} /\ ~Storing(j)
    /\ IF run[j] # "planning" THEN UNCHANGED <<run, task, overdue>>
       ELSE IF at[e] = "fail" THEN EndRun(j, "failed", "failed")
       ELSE EndRun(j, "partial", "cancelled")
    /\ GoTo(e, "done")
    /\ UNCHANGED <<vars, lifecycle, usage, held, attempt, found, early, errors>>

\* _complete_success: the run is locked and still PLANNING; the source rows it
\* updates or inserts are locked.
BeginStore(e) ==
    LET j == held[e] IN
    /\ at[e] = "store" /\ ~Storing(j)
    /\ run[j] = "planning"
    /\ found[e] \cap locked = {}
    /\ locked' = locked \cup found[e]
    /\ GoTo(e, "stored")
    /\ UNCHANGED <<vars, comp, approval, req, history, records, overdue, held, attempt, found, early, errors>>

\* Another handler has ended the run.
SkipStore(e) ==
    /\ at[e] = "store" /\ ~Storing(held[e])
    /\ run[held[e]] # "planning"
    /\ GoTo(e, "done")
    /\ found' = [found EXCEPT ![e] = {}]
    /\ UNCHANGED <<vars, lifecycle, records, overdue, held, attempt, early, errors>>

\* Mutant: the upsert sets the default approval status as well.
CommitStore_Resets(e) ==
    LET j == held[e] IN
    /\ at[e] = "stored"
    /\ approval' = [s \in Sources |-> IF s \in found[e] THEN "suggested" ELSE approval[s]]
    /\ locked' = locked \ found[e]
    /\ EndRun(j, IF found[e] = {} THEN "partial" ELSE "completed", "succeeded")
    /\ usage' = [usage EXCEPT ![j] = @ + 1]
    /\ found' = [found EXCEPT ![e] = {}]
    /\ GoTo(e, "done")
    /\ UNCHANGED <<vars, comp, req, history, held, attempt, early, errors>>

\* The rest of _complete_success.  New rows need the competitor's row, which
\* start-monitoring may have locked.
CommitStore(e) ==
    LET j == held[e]
        new == {s \in found[e] : approval[s] = "absent"}
    IN
    /\ at[e] = "stored"
    /\ new # {} => ~CompetitorLocked(Target[j])
    /\ approval' = [s \in Sources |-> IF s \in new THEN "suggested" ELSE approval[s]]
    /\ locked' = locked \ found[e]
    /\ EndRun(j, IF found[e] = {} THEN "partial" ELSE "completed", "succeeded")
    /\ usage' = [usage EXCEPT ![j] = @ + 1]
    /\ found' = [found EXCEPT ![e] = {}]
    /\ GoTo(e, "done")
    /\ UNCHANGED <<vars, comp, req, history, held, attempt, early, errors>>

Leave(e) ==
    /\ locked' = IF at[e] = "stored" THEN locked \ found[e] ELSE locked
    /\ found' = [found EXCEPT ![e] = {}]
    /\ attempt' = [attempt EXCEPT ![e] = 0]

\* A transaction of the handler raises; one that stored sources may also be
\* the victim of a deadlock with start-monitoring.
HandlerError(e) ==
    /\ at[e] \notin {"none", "done", "raised"}
    /\ errors < MaxErrors /\ errors' = errors + 1
    /\ GoTo(e, "raised")
    /\ Leave(e)
    /\ UNCHANGED <<vars, comp, approval, req, history, records, overdue, held, early>>

\* The process dies, or the renewal has failed and the handler is cancelled.
HandlerDies(e) ==
    /\ at[e] # "none"
    /\ errors < MaxErrors /\ errors' = errors + 1
    /\ GoTo(e, "none") /\ held' = [held EXCEPT ![e] = None]
    /\ Leave(e)
    /\ UNCHANGED <<vars, comp, approval, req, history, records, overdue, early>>

\* The executor completes or fails the job; a job taken over by another is
\* left alone.
EndHandler(e) ==
    LET j == held[e] IN
    /\ at[e] \in {"done", "raised"}
    /\ IF holder[j] = e
       THEN Settle(e, j, IF at[e] = "done" THEN "completed" ELSE "failed")
       ELSE UNCHANGED vars
    /\ GoTo(e, "none") /\ held' = [held EXCEPT ![e] = None]
    /\ Leave(e)
    /\ UNCHANGED <<comp, approval, req, history, records, overdue, early, errors>>

HandlerStep(e) ==
    \/ ClaimRun(e) \/ AskProvider(e) \/ EndFailed(e) \/ BeginStore(e) \/ SkipStore(e) \/ CommitStore(e) \/ EndHandler(e)

DiscoveryNext ==
    \/ LifecycleNext /\ UNCHANGED <<vars, discovery>>
    \/ \E j \in Jobs : RequestDiscovery(j) \/ DeadlinePasses(j)
    \/ \E e \in Executors :
          \/ HandlerStep(e) \/ HandlerError(e) \/ HandlerDies(e)
          \/ \E j \in Jobs : StartHandler(e, j)

DiscoverySpec == DiscoveryInit /\ [][DiscoveryNext]_allVars

\* The executors of a worker claim jobs until the end and every await in the
\* handler has a deadline; a request ends with a commit or a rollback.  Row
\* locks are granted in the order they were asked for, so that requests which
\* keep coming do not starve the handler (strong fairness).
DiscoveryFairness ==
    /\ \A e \in Executors :
          /\ WF_allVars(\E j \in Jobs : StartHandler(e, j))
          /\ WF_allVars(HandlerStep(e))
          /\ SF_allVars(BeginStore(e) \/ CommitStore(e))
    /\ \A j \in Jobs : WF_allVars(DeadlinePasses(j))
    /\ \A r \in Requests :
          WF_allVars((Commit(r) \/ Rollback(r)) /\ UNCHANGED <<vars, discovery>>)

FairDiscoverySpec == DiscoverySpec /\ DiscoveryFairness

-----------------------------------------------------------------------------
(* Properties *)

\* A discovery run that ended keeps its status, although handlers that lost
\* their job finish their work: every write is made under the row lock and only
\* while the run is PLANNING.
EndedDiscoveryFinal ==
    [][\A j \in Jobs : run[j] \in TerminalRun => run'[j] = run[j]]_allVars

\* The run, its task and its usage agree whatever crash or takeover comes in
\* between: the task of an ended run is settled, and an outcome that was stored
\* is accounted, once.
TaskMatchesRun ==
    \A j \in Jobs :
        /\ task[j] = "running" <=> run[j] = "planning"
        /\ task[j] = "succeeded" => run[j] \in {"completed", "partial"}
        /\ run[j] = "completed" => task[j] = "succeeded"
        /\ usage[j] <= 1
        /\ task[j] = "succeeded" => usage[j] = 1

\* A discovery that was requested ends, unless an error failed its job or the
\* job was re-entered within the planning deadline of an interrupted attempt:
\* such a handler reports PLANNING, and its job is completed.
DiscoveryEnds ==
    \A j \in Jobs :
        run[j] = "queued" ~> (run[j] \in TerminalRun \/ stage[j] = "failed" \/ j \in early)

=============================================================================
