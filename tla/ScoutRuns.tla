------------------------------ MODULE ScoutRuns ------------------------------
(***************************************************************************)
(* Daily and manual Scout Runs, executed by the handler of                 *)
(* agents/orchestrator.py on top of the leases of JobLeases: what the      *)
(* handler does transaction by transaction, interleaved with claims, lost  *)
(* leases, crashes, restarts and the handlers of other workers.            *)
(*                                                                         *)
(* A run is named by the job whose handler takes it out of the queue.  A   *)
(* run of SecondJobs has further jobs (services/runs.py enqueues one for a *)
(* request that finds the run active, RunAdmission): their handlers can    *)
(* only terminalize it (SecondHandler), whatever the first is doing.       *)
(*                                                                         *)
(* at[e] is the program point of the handler that executor e runs for run  *)
(* held[e].  Every action of a handler is one committed transaction, and   *)
(* no write of them is conditional on the status the run has by then.      *)
(* Model answers, budgets and validation results are nondeterministic.     *)
(*                                                                         *)
(* The child tasks of a wave are coroutines of their own (kid).  When one  *)
(* raises, gather lets its siblings run on after the handler has ended.    *)
(***************************************************************************)
EXTENDS JobLeases, FiniteSets

CONSTANTS NumChildren,  \* child tasks of a plan
          WaveSize,     \* max_concurrent_child_tasks
          Permits,      \* permits of the process-wide child semaphore
          MaxRepairs,   \* max_planning_repairs, max_synthesis_repairs
          Snapshots,    \* runs that owe their competitor a Starting Snapshot
          SecondJobs,   \* runs that more than one job was enqueued for
          MaxFindings,  \* bound on the findings of a synthesis
          MaxErrors     \* bound on database errors met by handlers

ASSUME RunsAssumption ==
    /\ NumChildren \in Nat \ {0} /\ WaveSize \in Nat \ {0} /\ Permits \in Nat \ {0}
    /\ MaxRepairs \in Nat /\ MaxFindings \in Nat /\ MaxErrors \in Nat
    /\ Snapshots \subseteq Jobs /\ SecondJobs \subseteq Jobs

VARIABLES
    run,       \* scout_runs.status, "absent" before the run is created
    task,      \* agent_tasks.status of the run's tasks
    kid,       \* the child coroutines of the run
    runner,    \* the executor whose handler took the run out of the queue
    at,        \* program point of the handler of an executor
    tries,     \* attempts of the main model in the current phase
    findings,  \* findings published by the run
    snapshot,  \* has the run published a Starting Snapshot?
    errors     \* database errors met by handlers so far

rows == <<run, task, findings, snapshot>>
locals == <<kid, runner, at, tries, errors>>
runVars == <<rows, locals>>
allVars == <<vars, runVars>>

Children == 1 .. NumChildren
Planner == 0
Synthesizer == NumChildren + 1
TaskIds == 0 .. Synthesizer

Intermediate == {"planning", "gathering", "synthesizing"}
TerminalRun == {"completed", "partial", "failed"}
LiveTask == {"queued", "running"}
ActiveKid == {"waiting", "running"}

\* Program points at which the handler works on a run it took from the queue.
Working == {"plan", "planAsked", "create", "gather", "synthesize", "synth",
            "synthAsked", "snapshot", "publish", "commit", "fail", "partial"}

RunTypeOK ==
    /\ run \in [Jobs -> {"absent", "queued"} \cup Intermediate \cup TerminalRun]
    /\ task \in [Jobs -> [TaskIds -> {"absent", "succeeded", "failed", "cancelled"}
                                        \cup LiveTask]]
    /\ kid \in [Jobs -> [Children -> {"none", "planned", "accepted", "empty", "failed",
                                      "stopped", "cancelled", "dead"} \cup ActiveKid]]
    /\ runner \in [Jobs -> Executors \cup {None}]
    /\ at \in [Executors -> {"none", "start", "done", "raised"} \cup Working]
    /\ tries \in [Executors -> 0 .. MaxRepairs + 1]
    /\ findings \in [Jobs -> 0 .. MaxFindings]
    /\ snapshot \in [Jobs -> BOOLEAN]
    /\ errors \in 0 .. MaxErrors

RunInit ==
    /\ Init
    /\ run = [j \in Jobs |-> "absent"]
    /\ task = [j \in Jobs |-> [t \in TaskIds |-> "absent"]]
    /\ kid = [j \in Jobs |-> [c \in Children |-> "none"]]
    /\ runner = [j \in Jobs |-> None]
    /\ at = [e \in Executors |-> "none"]
    /\ tries = [e \in Executors |-> 0]
    /\ findings = [j \in Jobs |-> 0]
    /\ snapshot = [j \in Jobs |-> FALSE]
    /\ errors = 0

-----------------------------------------------------------------------------
(* Steps of a handler *)

At(e, points) == pc[e] = "run" /\ hdl[e] = "running" /\ at[e] \in points

GoTo(e, point) == at' = [at EXCEPT ![e] = point]

SetRun(j, s) == run' = [run EXCEPT ![j] = s]

SetTask(j, t, s) == task' = [task EXCEPT ![j][t] = s]

\* Mutant: tasks that have not started yet are forgotten.
Terminalize_RunningOnly(j) ==
    /\ SetRun(j, IF run[j] = "synthesizing" THEN "partial" ELSE "failed")
    /\ task' = [task EXCEPT ![j] = [t \in TaskIds |->
                   IF @[t] = "running" THEN "failed" ELSE @[t]]]

\* _terminalize_interrupted_run
Terminalize(j) ==
    /\ SetRun(j, IF run[j] = "synthesizing" THEN "partial" ELSE "failed")
    /\ task' = [task EXCEPT ![j] = [t \in TaskIds |->
                   CASE @[t] = "running" -> "failed"
                     [] @[t] = "queued" -> "cancelled"
                     [] OTHER -> @[t]]]

\* Mutant: a run in an intermediate status is executed again.
StartRun_Resumes(e) ==
    LET j == held[e] IN
    /\ At(e, {"start"})
    /\ \/ /\ run[j] \in TerminalRun
          /\ GoTo(e, "done")
          /\ UNCHANGED <<run, task, runner>>
       \/ /\ run[j] \notin TerminalRun
          /\ SetRun(j, "planning")
          /\ SetTask(j, Planner, "running")
          /\ runner' = [runner EXCEPT ![j] = e]
          /\ GoTo(e, "plan")
    /\ UNCHANGED <<vars, kid, tries, findings, snapshot, errors>>

\* Mutant: a run in an intermediate status is left to whoever started it.
StartRun_LeavesIntermediate(e) ==
    LET j == held[e] IN
    /\ At(e, {"start"})
    /\ \/ /\ run[j] \in TerminalRun \cup Intermediate
          /\ GoTo(e, "done")
          /\ UNCHANGED <<run, task, runner>>
       \/ /\ run[j] = "queued"
          /\ SetRun(j, "planning")
          /\ SetTask(j, Planner, "running")
          /\ runner' = [runner EXCEPT ![j] = e]
          /\ GoTo(e, "plan")
    /\ UNCHANGED <<vars, kid, tries, findings, snapshot, errors>>

\* _start_run, FOR UPDATE: an intermediate run is terminalized, a terminal one
\* left alone, a queued one refused (inactive competitor, foreign owner, daily
\* cost limit) or started.
StartRun(e) ==
    LET j == held[e] IN
    /\ At(e, {"start"})
    /\ \/ /\ run[j] \in Intermediate
          /\ Terminalize(j)
          /\ GoTo(e, "done")
          /\ UNCHANGED runner
       \/ /\ run[j] \in TerminalRun
          /\ GoTo(e, "done")
          /\ UNCHANGED <<run, task, runner>>
       \/ /\ run[j] = "queued"
          /\ SetRun(j, "failed")
          /\ GoTo(e, "done")
          /\ UNCHANGED <<task, runner>>
       \/ /\ run[j] = "queued"
          /\ SetRun(j, "planning")
          /\ SetTask(j, Planner, "running")
          /\ runner' = [runner EXCEPT ![j] = e]
          /\ GoTo(e, "plan")
    /\ UNCHANGED <<vars, kid, tries, findings, snapshot, errors>>

\* _start_run in the handler of another job of run j.
SecondHandler(j) ==
    /\ j \in SecondJobs
    /\ run[j] \in Intermediate
    /\ Terminalize(j)
    /\ UNCHANGED <<vars, findings, snapshot, locals>>

\* The task of the main model's current phase.
MainTask(e) == IF at[e] \in {"plan", "planAsked"} THEN Planner ELSE Synthesizer

\* _set_task_attempt and the request to the main model.
AskModel(e) ==
    /\ At(e, {"plan", "synth"})
    /\ SetTask(held[e], MainTask(e), "running")
    /\ tries' = [tries EXCEPT ![e] = @ + 1]
    /\ GoTo(e, IF at[e] = "plan" THEN "planAsked" ELSE "synthAsked")
    /\ UNCHANGED <<vars, run, kid, runner, findings, snapshot, errors>>

\* _request_would_exceed_cost_ceiling: the task is cancelled.
CostCeiling(e) ==
    /\ At(e, {"plan", "synth"})
    /\ SetTask(held[e], MainTask(e), "cancelled")
    /\ GoTo(e, "partial")
    /\ tries' = [tries EXCEPT ![e] = 0]
    /\ UNCHANGED <<vars, run, kid, runner, findings, snapshot, errors>>

\* Mutant: one repair too many.
RepairAnswer_OneMore(e) ==
    /\ At(e, {"planAsked", "synthAsked"})
    /\ tries[e] <= MaxRepairs + 1
    /\ GoTo(e, IF at[e] = "planAsked" THEN "plan" ELSE "synth")
    /\ UNCHANGED <<vars, rows, kid, runner, tries, errors>>

\* A schema error is answered with a repair request while repairs are left.
RepairAnswer(e) ==
    /\ At(e, {"planAsked", "synthAsked"})
    /\ tries[e] <= MaxRepairs
    /\ GoTo(e, IF at[e] = "planAsked" THEN "plan" ELSE "synth")
    /\ UNCHANGED <<vars, rows, kid, runner, tries, errors>>

\* Any other failure of the phase, its request deadline, or a prompt above the
\* input limit before the first request.
ModelFails(e) ==
    /\ \/ At(e, {"planAsked", "synthAsked"})
       \/ At(e, {"plan", "synth"}) /\ tries[e] = 0
    /\ SetTask(held[e], MainTask(e), "failed")
    /\ GoTo(e, "fail")
    /\ tries' = [tries EXCEPT ![e] = 0]
    /\ UNCHANGED <<vars, run, kid, runner, findings, snapshot, errors>>

\* A valid plan: the children follow, unless the run budget is used up.
PlanAccepted(e) ==
    /\ At(e, {"planAsked"})
    /\ SetTask(held[e], Planner, "succeeded")
    /\ \E next \in {"create", "fail"} : GoTo(e, next)
    /\ tries' = [tries EXCEPT ![e] = 0]
    /\ UNCHANGED <<vars, run, kid, runner, findings, snapshot, errors>>

\* The first wave of planned children.
Wave(kids) ==
    LET waveOf(c) == (c - 1) \div WaveSize
    IN  {c \in Children : /\ kids[c] = "planned"
                          /\ \A d \in Children :
                                kids[d] = "planned" => waveOf(c) <= waveOf(d)}

StartWave(kids) == [c \in Children |-> IF c \in Wave(kids) THEN "waiting" ELSE kids[c]]

CreateChildTasks(e) ==
    LET j == held[e] IN
    /\ At(e, {"create"})
    /\ SetRun(j, "gathering")
    /\ task' = [task EXCEPT ![j] = [t \in TaskIds |->
                   IF t \in Children THEN "queued" ELSE @[t]]]
    /\ kid' = [kid EXCEPT ![j] = StartWave([c \in Children |-> "planned"])]
    /\ GoTo(e, "gather")
    /\ UNCHANGED <<vars, runner, tries, findings, snapshot, errors>>

-----------------------------------------------------------------------------
(* Child coroutines *)

\* The children that hold a permit of the process of executor e.
PermitHolders(e) ==
    {jc \in Jobs \X Children :
        /\ kid[jc[1]][jc[2]] = "running"
        /\ Home[runner[jc[1]]] = Home[e]}

\* The semaphore is free and the first attempt begins, or a later one does.
ChildAttempt(j, c) ==
    /\ \/ kid[j][c] = "running"
       \/ kid[j][c] = "waiting" /\ Cardinality(PermitHolders(runner[j])) < Permits
    /\ kid' = [kid EXCEPT ![j][c] = "running"]
    /\ SetTask(j, c, "running")
    /\ UNCHANGED <<vars, run, runner, at, tries, findings, snapshot, errors>>

ChildSettles(j, c, outcome, s) ==
    /\ kid' = [kid EXCEPT ![j][c] = outcome]
    /\ SetTask(j, c, s)
    /\ UNCHANGED <<vars, run, runner, at, tries, findings, snapshot, errors>>

\* _execute_child: the deadline also runs while the child waits for a permit.
ChildEnds(j, c) ==
    \/ /\ kid[j][c] = "running"
       /\ \/ ChildSettles(j, c, "accepted", "succeeded")
          \/ ChildSettles(j, c, "empty", "succeeded")
          \/ ChildSettles(j, c, "stopped", "failed")
          \/ ChildSettles(j, c, "stopped", "cancelled")
    \/ kid[j][c] \in ActiveKid /\ ChildSettles(j, c, "failed", "failed")

\* A database error outside the child's try block: gather passes it on at
\* once and the siblings go on without a handler.
ChildRaises(j, c) ==
    LET e == runner[j] IN
    /\ kid[j][c] \in ActiveKid
    /\ errors < MaxErrors
    /\ errors' = errors + 1
    /\ kid' = [kid EXCEPT ![j][c] = "dead"]
    /\ IF At(e, {"gather"}) /\ held[e] = j THEN GoTo(e, "raised") ELSE UNCHANGED at
    /\ UNCHANGED <<vars, rows, runner, tries>>

-----------------------------------------------------------------------------
(* Waves, synthesis and publication *)

WaveSettled(j) == \A c \in Children : kid[j][c] \notin ActiveKid

Stopped(j) == \E c \in Children : kid[j][c] = "stopped"

NextWave(e) ==
    LET j == held[e] IN
    /\ At(e, {"gather"})
    /\ WaveSettled(j) /\ ~Stopped(j)
    /\ Wave(kid[j]) # {}
    /\ kid' = [kid EXCEPT ![j] = StartWave(@)]
    /\ UNCHANGED <<vars, rows, runner, at, tries, errors>>

\* A stop code of a child, or the run budget: children not started yet are
\* cancelled and the run ends PARTIAL.
StopWaves(e) ==
    LET j == held[e]
        left == {c \in Children : kid[j][c] = "planned"}
    IN
    /\ At(e, {"gather"})
    /\ WaveSettled(j)
    /\ task' = [task EXCEPT ![j] = [t \in TaskIds |->
                   IF t \in left THEN "cancelled" ELSE @[t]]]
    /\ kid' = [kid EXCEPT ![j] = [c \in Children |->
                   IF c \in left THEN "cancelled" ELSE @[c]]]
    /\ GoTo(e, "partial")
    /\ UNCHANGED <<vars, run, runner, tries, findings, snapshot, errors>>

\* All waves are over.  The evidence is stored; without any the run fails.
GatheringEnds(e) ==
    LET j == held[e] IN
    /\ At(e, {"gather"})
    /\ WaveSettled(j) /\ ~Stopped(j)
    /\ Wave(kid[j]) = {}
    /\ GoTo(e, IF \E c \in Children : kid[j][c] = "accepted"
               THEN "synthesize" ELSE "fail")
    /\ UNCHANGED <<vars, rows, kid, runner, tries, errors>>

CreateSynthesisTask(e) ==
    /\ At(e, {"synthesize"})
    /\ SetRun(held[e], "synthesizing")
    /\ SetTask(held[e], Synthesizer, "running")
    /\ GoTo(e, "synth")
    /\ UNCHANGED <<vars, kid, runner, tries, findings, snapshot, errors>>

SynthesisAccepted(e) ==
    /\ At(e, {"synthAsked"})
    /\ SetTask(held[e], Synthesizer, "succeeded")
    /\ GoTo(e, IF held[e] \in Snapshots THEN "snapshot" ELSE "publish")
    /\ tries' = [tries EXCEPT ![e] = 0]
    /\ UNCHANGED <<vars, run, kid, runner, findings, snapshot, errors>>

\* SnapshotPublicationService.publish does not look at the run's status.
PublishSnapshot(e) ==
    /\ At(e, {"snapshot"})
    /\ snapshot' = [snapshot EXCEPT ![held[e]] = TRUE]
    /\ GoTo(e, "publish")
    /\ UNCHANGED <<vars, run, task, kid, runner, tries, findings, errors>>

\* FindingPublicationService.publish reads the run and its tasks without
\* locking them; the finding is committed by a later step.
CheckFinding(e) ==
    LET j == held[e] IN
    /\ At(e, {"publish"})
    /\ findings[j] < MaxFindings
    /\ run[j] = "synthesizing"
    /\ \A c \in Children : kid[j][c] = "accepted" => task[j][c] = "succeeded"
    /\ GoTo(e, "commit")
    /\ UNCHANGED <<vars, rows, kid, runner, tries, errors>>

CommitFinding(e) ==
    /\ At(e, {"commit"})
    /\ findings' = [findings EXCEPT ![held[e]] = @ + 1]
    /\ GoTo(e, "publish")
    /\ UNCHANGED <<vars, run, task, kid, runner, tries, snapshot, errors>>

\* Mutant: an error of the snapshot publication is skipped like one of a finding.
PublicationFails_Skipped(e) ==
    /\ At(e, {"snapshot", "publish", "commit"})
    /\ GoTo(e, "publish")
    /\ UNCHANGED <<vars, rows, kid, runner, tries, errors>>

\* Any other exception than a rejected finding.
PublicationFails(e) ==
    /\ At(e, {"snapshot", "publish", "commit"})
    /\ GoTo(e, "fail")
    /\ UNCHANGED <<vars, rows, kid, runner, tries, errors>>

\* The last _finish_run: PARTIAL if a child failed or the budget is used up.
FinishRun(e) ==
    LET j == held[e] IN
    /\ At(e, {"publish"})
    /\ \/ SetRun(j, "partial")
       \/ (\A c \in Children : kid[j][c] # "failed") /\ SetRun(j, "completed")
    /\ GoTo(e, "done")
    /\ UNCHANGED <<vars, task, kid, runner, tries, findings, snapshot, errors>>

\* _fail_run, and _finish_run with PARTIAL after a budget stop.
EndRun(e) ==
    /\ At(e, {"fail", "partial"})
    /\ SetRun(held[e], IF at[e] = "fail" THEN "failed" ELSE "partial")
    /\ GoTo(e, "done")
    /\ UNCHANGED <<vars, task, kid, runner, tries, findings, snapshot, errors>>

\* A transaction of the handler raises, before or after its commit; publication
\* errors are caught (PublicationFails).
HandlerError(e) ==
    /\ At(e, ({"start", "done"} \cup Working) \ {"snapshot", "commit"})
    /\ at[e] = "gather" => WaveSettled(held[e])
    /\ errors < MaxErrors
    /\ errors' = errors + 1
    /\ GoTo(e, "raised")
    /\ tries' = [tries EXCEPT ![e] = 0]
    /\ UNCHANGED <<vars, rows, kid, runner>>

-----------------------------------------------------------------------------
(* Steps of the job table and of the executors that a run takes part in *)

\* The run and its job are inserted by one transaction.
RequestRun(j) ==
    /\ Enqueue(j)
    /\ SetRun(j, "queued")
    /\ UNCHANGED <<task, findings, snapshot, locals>>

StartHandler(e) ==
    /\ CommitClaim(e)
    /\ IF held[e] \in Handled THEN GoTo(e, "start") ELSE UNCHANGED at
    /\ UNCHANGED <<rows, kid, runner, tries, errors>>

EndHandler(e) ==
    /\ \/ At(e, {"done"}) /\ HandlerEnds(e, "returned")
       \/ At(e, {"raised"}) /\ HandlerEnds(e, "raised")
    /\ GoTo(e, "none")
    /\ UNCHANGED <<rows, kid, runner, tries, errors>>

\* Child coroutines that end with what awaits them.
Dying(kids) == [c \in Children |-> IF kids[c] \in ActiveKid THEN "dead" ELSE kids[c]]

\* handler_task.cancel() reaches the children gather is waiting for.
CancelHandler(e) ==
    /\ WakeLeaseLost(e)
    /\ kid' = [j \in Jobs |->
                  IF at[e] = "gather" /\ held[e] = j THEN Dying(kid[j]) ELSE kid[j]]
    /\ UNCHANGED <<rows, runner, at, tries, errors>>

HandlerCancelled(e) ==
    /\ Cancelled(e)
    /\ GoTo(e, "none")
    /\ tries' = [tries EXCEPT ![e] = 0]
    /\ UNCHANGED <<rows, kid, runner, errors>>

EndProcess(w) ==
    /\ StopWorker(w) \/ Crash(w)
    /\ at' = [e \in Executors |-> IF Home[e] = w THEN "none" ELSE at[e]]
    /\ kid' = [j \in Jobs |->
                  IF runner[j] # None /\ Home[runner[j]] = w
                  THEN Dying(kid[j]) ELSE kid[j]]
    /\ tries' = [e \in Executors |-> IF Home[e] = w THEN 0 ELSE tries[e]]
    /\ UNCHANGED <<rows, runner, errors>>

\* Steps that no run takes part in.
Elsewhere(e) ==
    /\ \/ BeginClaim(e) \/ LeaveLoop(e) \/ SelectNone(e) \/ SelectRow(e) \/ ClaimError(e)
       \/ Renewal(e) \/ WakeHandlerDone(e) \/ Settlement(e)
    /\ UNCHANGED runVars

\* An executor that ends without settling its job raises; its process cancels
\* every task within the current tick, children without a handler included.
PromptTeardown ==
    \A j \in Jobs, c \in Children :
        kid[j][c] \in ActiveKid =>
            ~ /\ pc[runner[j]] \in {"escape", "down"}
              /\ ren[runner[j]] # "renewing"
              /\ owner[j] = runner[j]

Platform ==
    /\ \/ \E w \in Workers : StartWorker(w) \/ Signal(w)
       \/ Tick /\ (MayStall \/ PromptTeardown)
    /\ UNCHANGED runVars

Planning(e) == StartRun(e) \/ AskModel(e) \/ CostCeiling(e) \/ RepairAnswer(e)
                  \/ ModelFails(e) \/ PlanAccepted(e) \/ CreateChildTasks(e)

Gathering(e) == NextWave(e) \/ StopWaves(e) \/ GatheringEnds(e)

Publishing(e) == CreateSynthesisTask(e) \/ SynthesisAccepted(e) \/ PublishSnapshot(e)
                    \/ CheckFinding(e) \/ CommitFinding(e) \/ PublicationFails(e)

Ending(e) == FinishRun(e) \/ EndRun(e)

HandlerStep(e) == Planning(e) \/ Gathering(e) \/ Publishing(e) \/ Ending(e)

ChildStep(j, c) == ChildAttempt(j, c) \/ ChildEnds(j, c)

Composed(e) == StartHandler(e) \/ EndHandler(e) \/ CancelHandler(e) \/ HandlerCancelled(e)

RunNext ==
    \/ \E j \in Jobs : RequestRun(j) \/ SecondHandler(j)
    \/ \E e \in Executors : HandlerStep(e) \/ HandlerError(e) \/ Composed(e) \/ Elsewhere(e)
    \/ \E j \in Jobs, c \in Children : ChildStep(j, c) \/ ChildRaises(j, c)
    \/ \E w \in Workers : EndProcess(w)
    \/ Platform

RunSpec == RunInit /\ [][RunNext]_allVars

\* What run_loop and the handler it awaits do next, errors apart.
LoopStep(e) ==
    \/ /\ \/ BeginClaim(e) \/ LeaveLoop(e) \/ SelectNone(e) \/ SelectRow(e)
          \/ WakeHandlerDone(e) \/ Settle(e) \/ RunEnds(e)
       /\ UNCHANGED runVars
    \/ Composed(e) \/ HandlerStep(e)

\* asyncio runs every ready task, the platform restarts a process that ended,
\* time passes, and a handler or a child ends because every wait in it has a
\* deadline and its repairs and attempts are bounded.  Nothing is promised
\* about faults and errors.
RunFairness ==
    /\ WF_allVars(Tick /\ PromptTeardown /\ UNCHANGED runVars)
    /\ \A w \in Workers :
          WF_allVars(\/ StartWorker(w) /\ UNCHANGED runVars
                     \/ EndProcess(w) /\ StopWorker(w))
    /\ \A e \in Executors :
          /\ WF_allVars(LoopStep(e))
          /\ WF_allVars((RenewBegin(e) \/ RenewExecute(e)) /\ UNCHANGED runVars)
    /\ \A j \in Jobs : WF_allVars(\E c \in Children : ChildEnds(j, c))

FairRunSpec == RunSpec /\ RunFairness

-----------------------------------------------------------------------------
(* Properties *)

\* Whatever leases are lost and however often the job is claimed again, one
\* handler at most ever works on a run: _start_run lets a run leave the queue
\* once, under the row lock, and terminalizes it ever after.
OneHandlerWorks ==
    \A e, f \in Executors :
        at[e] \in Working /\ at[f] \in Working /\ held[e] = held[f] => e = f

\* A run that owes a Starting Snapshot is never COMPLETED without it, not even
\* by a handler that lost its lease (_publish raises before _finish_run).
SnapshotBeforeSuccess ==
    \A j \in Snapshots : run[j] = "completed" => snapshot[j]

\* Runs with one job.  What a second handler can do to the others is the
\* subject of EndedRunsStay in RunAdmission.
OneJobRuns == Jobs \ SecondJobs

\* The order in which a run passes its statuses; it may end in any but the first.
NextStatus == {<<"absent", "queued">>, <<"queued", "planning">>,
               <<"planning", "gathering">>, <<"gathering", "synthesizing">>}

Advances(j) ==
    \/ <<run[j], run'[j]>> \in NextStatus
    \/ /\ run[j] \in Intermediate \cup {"queued"}
       /\ run'[j] \in TerminalRun
       /\ run'[j] = "completed" => run[j] = "synthesizing"

\* A run with one job never goes back, never skips a status and never leaves
\* the status it ended with, although every status write of the handler is
\* blind (orchestrator.py:1492): crashes, orphaned children and re-entry
\* included, as long as leases last until jobs are settled.
MovesForward ==
    [][\A j \in OneJobRuns : run'[j] # run[j] => Advances(j)]_allVars

\* A run that ended leaves no task queued or running behind, after crashes and
\* cancelled handlers too (_terminalize_interrupted_run).
EndedRunHasNoLiveTask ==
    \A j \in OneJobRuns : run[j] \in TerminalRun =>
        \A t \in TaskIds : task[j][t] \notin LiveTask

\* Findings and snapshots appear only while their run is SYNTHESIZING, although
\* the check of the status and the commit are separate steps.
PublishesWhileSynthesizing ==
    [][\A j \in OneJobRuns : findings'[j] # findings[j] \/ snapshot'[j] # snapshot[j] =>
          run[j] = "synthesizing"]_allVars

\* A completed job means that its run, if it has no other, has ended.
CompletedJobEndedRun ==
    \A j \in OneJobRuns : status[j] = "completed" => run[j] \in TerminalRun

\* A requested run ends, unless its job is failed by a database error: a crash
\* or a restart in any state is followed by the re-entry that terminalizes it.
RunEndsOrJobFails ==
    \A j \in Jobs :
        run[j] = "queued" ~> (run[j] \in TerminalRun \/ status[j] = "failed")

\* Every requested run ends as completed, partial or failed.
EveryRunEnds ==
    \A j \in Jobs : run[j] = "queued" ~> run[j] \in TerminalRun

\* What the handlers make of a run with one job implements what its readers
\* are promised.
Outcomes == INSTANCE RunOutcomes
    WITH Jobs <- OneJobRuns,
         Tasks <- TaskIds,
         Live <- LiveTask,
         Snapshots <- Snapshots \ SecondJobs,
         phase <- [j \in OneJobRuns |->
                      IF run[j] \in Intermediate THEN "working" ELSE run[j]],
         task <- [j \in OneJobRuns |-> task[j]],
         findings <- [j \in OneJobRuns |-> findings[j]],
         snapshot <- [j \in OneJobRuns |-> snapshot[j]],
         done <- [j \in OneJobRuns |-> status[j] = "completed"]

ImplementsOutcomes == Outcomes!Spec

=============================================================================
