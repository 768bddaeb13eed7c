--------------------------- MODULE ScoutRunsProofs ---------------------------
(***************************************************************************)
(* Theorems about ScoutRuns, for any jobs, workers, plans and any number   *)
(* of faults: run execution only uses the leases, and one handler at most  *)
(* works on a run.  About runs with one job: where handlers do not         *)
(* overlap, the blind status writes of the orchestrator only move them     *)
(* forward; where leases last until jobs are settled, ended runs have no   *)
(* open task and the whole execution implements RunOutcomes.               *)
(***************************************************************************)
EXTENDS ScoutRuns, JobLeasesProofs, SmallestElement

-----------------------------------------------------------------------------
(* The leases below the runs *)

\* The handler of another job touches the run and its tasks only.
LEMMA SecondHandlerFrame ==
  ASSUME NEW j \in Jobs, SecondHandler(j)
  PROVE  /\ j \in SecondJobs /\ run[j] \in Intermediate /\ Terminalize(j)
         /\ UNCHANGED vars /\ UNCHANGED <<kid, runner, at, tries, errors, findings, snapshot>>
         /\ \E s \in {"failed", "partial"} : run' = [run EXCEPT ![j] = s]
<1>1. /\ j \in SecondJobs /\ run[j] \in Intermediate /\ Terminalize(j)
      /\ UNCHANGED vars /\ UNCHANGED <<kid, runner, at, tries, errors, findings, snapshot>>
  BY DEF SecondHandler, locals
<1>2. run' = [run EXCEPT ![j] = IF run[j] = "synthesizing" THEN "partial" ELSE "failed"]
  BY <1>1 DEF Terminalize, SetRun
<1>3. CASE run[j] = "synthesizing"
  BY <1>1, <1>2, <1>3
<1>4. CASE run[j] # "synthesizing"
  BY <1>1, <1>2, <1>4
<1> QED BY <1>3, <1>4

\* Every step of the composition is a step of JobLeases or invisible to it.
LEMMA RunStepIsLeaseStep == RunNext => [Next]_vars
<1> USE DEF Claim, Renewal, Handling, Settlement, Process
<1>1. ASSUME NEW e \in Executors, HandlerStep(e) \/ HandlerError(e) PROVE UNCHANGED vars
  BY <1>1 DEF HandlerStep, Planning, Gathering, Publishing, Ending, HandlerError, StartRun,
     AskModel, CostCeiling, RepairAnswer, ModelFails, PlanAccepted, CreateChildTasks,
     NextWave, StopWaves, GatheringEnds, CreateSynthesisTask, SynthesisAccepted,
     PublishSnapshot, CheckFinding, CommitFinding, PublicationFails, FinishRun, EndRun
<1>2. ASSUME NEW j \in Jobs, NEW c \in Children, ChildStep(j, c) \/ ChildRaises(j, c)
      PROVE  UNCHANGED vars
  BY <1>2 DEF ChildStep, ChildAttempt, ChildEnds, ChildSettles, ChildRaises
<1>3. ASSUME NEW j \in Jobs, RequestRun(j) PROVE Next
  BY <1>3 DEF RequestRun, Next
<1>4. ASSUME NEW e \in Executors, Composed(e) \/ Elsewhere(e) PROVE Next
  BY <1>4 DEF Composed, StartHandler, EndHandler, CancelHandler, HandlerCancelled,
     Elsewhere, Next
<1>5. ASSUME NEW w \in Workers, EndProcess(w) PROVE Next
  BY <1>5 DEF EndProcess, Next
<1>6. CASE Platform
  BY <1>6 DEF Platform, Next
<1>7. ASSUME NEW j \in Jobs, SecondHandler(j) PROVE UNCHANGED vars
  BY <1>7, SecondHandlerFrame
<1> QED BY <1>1, <1>2, <1>3, <1>4, <1>5, <1>6, <1>7 DEF RunNext

\* Executing runs is a way of using the job table and nothing else: every
\* theorem of JobLeasesProofs holds of a system that executes runs.
THEOREM RunsUseLeases == RunSpec => Spec
<1>1. RunInit => Init
  BY DEF RunInit
<1>2. [RunNext]_allVars => [Next]_vars
  BY RunStepIsLeaseStep DEF allVars
<1> QED BY <1>1, <1>2, PTL DEF RunSpec, Spec

-----------------------------------------------------------------------------
(* One handler works on a run *)

\* What the proofs need to know of the types.
RunTypes ==
    /\ run \in [Jobs -> {"absent", "queued"} \cup Intermediate \cup TerminalRun]
    /\ runner \in [Jobs -> Executors \cup {None}]
    /\ at \in [Executors -> {"none", "start", "done", "raised"} \cup Working]
    /\ findings \in [Jobs -> Nat]
    /\ snapshot \in [Jobs -> BOOLEAN]

\* A handler has a program point only while its executor runs or cancels it.
HandlerPlace ==
    \A e \in Executors :
        at[e] # "none" => hdl[e] = "running" /\ pc[e] \in {"run", "cancel"}

\* A run and its job come into being together.
RunOfJob == \A j \in Jobs : run[j] = "absent" <=> status[j] = "absent"

\* Whoever works on a run is the one that took it out of the queue.
WorkerIsRunner ==
    \A e \in Executors : at[e] \in Working =>
        /\ runner[held[e]] = e
        /\ run[held[e]] \notin {"absent", "queued"}

RInv == RunTypes /\ HandlerPlace /\ RunOfJob /\ WorkerIsRunner

\* The steps of one handler and of its executor, in one relation.
HandlerSide(e) == HandlerStep(e) \/ HandlerError(e)

\* A handler that has a program point before and after a step is the same
\* handler, of the same job; a new one begins at the start.
SameHandler(e) ==
    /\ at'[e] # "none" => hdl'[e] = "running" /\ pc'[e] \in {"run", "cancel"}
    /\ at[e] # "none" /\ at'[e] # "none" => held'[e] = held[e]
    /\ at[e] = "none" => at'[e] \in {"none", "start"}

\* Steps of handlers do not touch the executors.
LEMMA HandlerStepFrame ==
  ASSUME NEW e \in Executors, HandlerSide(e)
  PROVE  UNCHANGED vars
BY DEF HandlerSide, HandlerStep, Planning, Gathering, Publishing, Ending, HandlerError,
   StartRun, AskModel, CostCeiling, RepairAnswer, ModelFails, PlanAccepted,
   CreateChildTasks, NextWave, StopWaves, GatheringEnds, CreateSynthesisTask,
   SynthesisAccepted, PublishSnapshot, CheckFinding, CommitFinding, PublicationFails,
   FinishRun, EndRun

\* Child coroutines touch neither executors nor runs, only tasks.
LEMMA ChildStepFrame ==
  ASSUME NEW j \in Jobs, NEW c \in Children, ChildStep(j, c) \/ ChildRaises(j, c)
  PROVE  UNCHANGED vars /\ UNCHANGED <<run, runner, findings, snapshot>>
BY DEF ChildStep, ChildAttempt, ChildEnds, ChildSettles, ChildRaises, rows

\* The program point moves only for the handler that takes the step, and
\* only from a point of its own.
LEMMA HandlerStepMoves ==
  ASSUME RunTypes, NEW e \in Executors, HandlerSide(e)
  PROVE  /\ at[e] # "none" /\ at'[e] # "none"
         /\ \A f \in Executors \ {e} : at'[f] = at[f]
BY DEF RunTypes, HandlerSide, HandlerStep, Planning, Gathering, Publishing, Ending,
   HandlerError, StartRun, AskModel, CostCeiling, RepairAnswer, ModelFails, PlanAccepted,
   CreateChildTasks, NextWave, StopWaves, GatheringEnds, CreateSynthesisTask,
   SynthesisAccepted, PublishSnapshot, CheckFinding, CommitFinding, PublicationFails,
   FinishRun, EndRun, At, GoTo, Working, rows

\* A child only moves the program point of the handler it fails.
LEMMA ChildStepMoves ==
  ASSUME RunTypes, NEW j \in Jobs, NEW c \in Children, ChildStep(j, c) \/ ChildRaises(j, c),
         NEW e \in Executors
  PROVE  at'[e] = at[e] \/ (at[e] = "gather" /\ at'[e] = "raised")
<1>1. CASE ChildStep(j, c)
  <2>1. UNCHANGED at
    BY <1>1 DEF ChildStep, ChildAttempt, ChildEnds, ChildSettles
  <2> QED BY <2>1
<1>2. CASE ChildRaises(j, c)
  <2>1. UNCHANGED at \/ (at[runner[j]] = "gather" /\ GoTo(runner[j], "raised"))
    BY <1>2 DEF ChildRaises, At
  <2> QED BY <2>1 DEF GoTo, RunTypes
<1> QED BY <1>1, <1>2

\* Whatever step is taken, an executor runs the same handler or starts a new one.
LEMMA HandlersStay ==
  ASSUME IInv, RInv, RunNext, NEW e \in Executors
  PROVE  SameHandler(e)
<1> USE DEF RInv, IInv, Base, TypeOK
<1>1. ASSUME NEW g \in Executors, HandlerSide(g) PROVE SameHandler(e)
  BY <1>1, HandlerStepFrame, HandlerStepMoves DEF SameHandler, HandlerPlace, vars
<1>2. ASSUME NEW j \in Jobs, NEW c \in Children, ChildStep(j, c) \/ ChildRaises(j, c)
      PROVE  SameHandler(e)
  <2>1. UNCHANGED vars
    BY <1>2, ChildStepFrame
  <2>2. at'[e] = at[e] \/ (at[e] # "none" /\ at'[e] # "none")
    BY <1>2, ChildStepMoves
  <2> QED BY <2>1, <2>2 DEF SameHandler, HandlerPlace, vars
<1>3. ASSUME NEW j \in Jobs, RequestRun(j) PROVE SameHandler(e)
  BY <1>3 DEF RequestRun, Enqueue, locals, tasks, SameHandler, HandlerPlace, RunTypes
<1>4. ASSUME NEW g \in Executors, StartHandler(g) PROVE SameHandler(e)
  BY <1>4 DEF StartHandler, CommitClaim, GoTo, SameHandler, HandlerPlace, RunTypes
<1>5. ASSUME NEW g \in Executors, EndHandler(g) PROVE SameHandler(e)
  BY <1>5 DEF EndHandler, HandlerEnds, GoTo, At, SameHandler, HandlerPlace, RunTypes, table
<1>6. ASSUME NEW g \in Executors, CancelHandler(g) PROVE SameHandler(e)
  BY <1>6 DEF CancelHandler, WakeLeaseLost, SameHandler, HandlerPlace, RunTypes, table
<1>7. ASSUME NEW g \in Executors, HandlerCancelled(g) PROVE SameHandler(e)
  BY <1>7 DEF HandlerCancelled, Cancelled, GoTo, SameHandler, HandlerPlace, RunTypes, table
<1>8. ASSUME NEW w \in Workers, EndProcess(w) PROVE SameHandler(e)
  BY <1>8, ExecutorsAssumption
     DEF EndProcess, StopWorker, Crash, Vanish, SameHandler, HandlerPlace, RunTypes
<1>9. ASSUME NEW g \in Executors, Elsewhere(g) PROVE SameHandler(e)
  BY <1>9 DEF Elsewhere, BeginClaim, LeaveLoop, SelectNone, SelectRow, ClaimError, Renewal,
     RenewBegin, RenewExecute, RenewError, WakeHandlerDone, Settlement, Settle, SettleError,
     RunEnds, Settling, runVars, locals, table, tasks, SameHandler, HandlerPlace, RunTypes
<1>10. CASE Platform
  BY <1>10, ExecutorsAssumption DEF Platform, StartWorker, Signal, Tick, runVars, locals,
     table, tasks, SameHandler, HandlerPlace, RunTypes, Bookkeeping
<1>11. ASSUME NEW j \in Jobs, SecondHandler(j) PROVE SameHandler(e)
  BY <1>11, SecondHandlerFrame DEF SameHandler, HandlerPlace, vars
<1> QED BY <1>1, <1>2, <1>3, <1>4, <1>5, <1>6, <1>7, <1>8, <1>9, <1>10, <1>11
        DEF RunNext, HandlerSide, Composed

\* Only RequestRun creates a job.
LEMMA NoOtherRequest ==
  ASSUME IInv,
         \/ \E e \in Executors : Composed(e) \/ Elsewhere(e)
         \/ \E w \in Workers : EndProcess(w)
         \/ Platform
  PROVE  \A j \in Jobs : status'[j] = "absent" <=> status[j] = "absent"
<1> USE DEF IInv, Base, TypeOK
<1>1. ASSUME NEW e \in Executors, pc[e] = "commit", LeaseTo(e, held[e])
      PROVE  \A j \in Jobs : status'[j] = "absent" <=> status[j] = "absent"
  BY <1>1 DEF LeaseTo, RowLocks
<1>2. ASSUME NEW e \in Executors, Owns(e, held[e], lag[e]), Close(held[e], Outcome(e))
      PROVE  \A j \in Jobs : status'[j] = "absent" <=> status[j] = "absent"
  BY <1>2 DEF Owns, Close, Outcome
<1>3. ASSUME NEW e \in Executors, Composed(e)
      PROVE  \A j \in Jobs : status'[j] = "absent" <=> status[j] = "absent"
  BY <1>1, <1>3 DEF Composed, StartHandler, CommitClaim, EndHandler, HandlerEnds,
     CancelHandler, WakeLeaseLost, HandlerCancelled, Cancelled, table
<1>4. ASSUME NEW e \in Executors, Elsewhere(e)
      PROVE  \A j \in Jobs : status'[j] = "absent" <=> status[j] = "absent"
  BY <1>1, <1>2, <1>4 DEF Elsewhere, BeginClaim, LeaveLoop, SelectNone, SelectRow, ClaimError,
     Renewal, RenewBegin, RenewExecute, RenewError, WakeHandlerDone, Settlement, Settle,
     SettleError, RunEnds, table
<1>5. ASSUME NEW w \in Workers, EndProcess(w)
      PROVE  \A j \in Jobs : status'[j] = "absent" <=> status[j] = "absent"
  BY <1>5 DEF EndProcess, StopWorker, Crash, Vanish, table
<1>6. CASE Platform
  BY <1>6 DEF Platform, StartWorker, Signal, Tick, table
<1> QED BY <1>3, <1>4, <1>5, <1>6

\* Steps of executors and processes leave runs, runners and findings alone.
LEMMA ExecutorStepKeepsRuns ==
  ASSUME \/ \E e \in Executors : Composed(e) \/ Elsewhere(e)
         \/ \E w \in Workers : EndProcess(w)
         \/ Platform
  PROVE  UNCHANGED <<run, runner, findings, snapshot>>
BY DEF Composed, StartHandler, EndHandler, CancelHandler, HandlerCancelled, Elsewhere,
   EndProcess, Platform, runVars, rows, locals

\* What a step of a handler may do to its run and to the runner.
LEMMA HandlerStepOnRun ==
  ASSUME IInv, RInv, NEW e \in Executors, HandlerSide(e)
  PROVE  /\ held[e] \in Jobs
         /\ \A j \in Jobs \ {held[e]} : run'[j] = run[j] /\ runner'[j] = runner[j]
         /\ run'[held[e]] = "absent" <=> run[held[e]] = "absent"
         /\ run'[held[e]] = "queued" => run[held[e]] = "queued"
         /\ runner'[held[e]] # runner[held[e]] => run[held[e]] = "queued"
         /\ at'[e] \in Working => /\ runner'[held[e]] = e
                                  /\ run'[held[e]] \notin {"absent", "queued"}
<1> DEFINE j == held[e]
<1>1. pc[e] = "run" /\ at[e] # "none" /\ j \in Jobs
  BY DEF HandlerSide, HandlerStep, Planning, Gathering, Publishing, Ending, HandlerError,
     StartRun, AskModel, CostCeiling, RepairAnswer, ModelFails, PlanAccepted,
     CreateChildTasks, NextWave, StopWaves, GatheringEnds, CreateSynthesisTask,
     SynthesisAccepted, PublishSnapshot, CheckFinding, CommitFinding, PublicationFails,
     FinishRun, EndRun, At, Working, IInv, Base, Bookkeeping
<1> USE <1>1 DEF RInv, RunTypes, At, GoTo, SetRun, Intermediate, TerminalRun
<1>2. CASE StartRun(e)
  BY <1>2 DEF StartRun, Terminalize, Working
<1>3. ASSUME at[e] \in Working
      PROVE  runner[j] = e /\ run[j] \notin {"absent", "queued"}
  BY <1>3 DEF WorkerIsRunner
<1>4. CASE HandlerError(e)
  BY <1>4 DEF HandlerError, rows, Working
<1>5. ASSUME at[e] \in Working, UNCHANGED run \/ \E s \in Intermediate \cup TerminalRun : SetRun(j, s),
             UNCHANGED runner
      PROVE  /\ \A k \in Jobs \ {j} : run'[k] = run[k]
             /\ run'[j] \notin {"absent", "queued"}
             /\ runner'[j] = e
  BY <1>3, <1>5
<1>6. CASE AskModel(e) \/ CostCeiling(e) \/ RepairAnswer(e) \/ ModelFails(e) \/ PlanAccepted(e)
           \/ Gathering(e) \/ SynthesisAccepted(e) \/ PublishSnapshot(e) \/ CheckFinding(e)
           \/ CommitFinding(e) \/ PublicationFails(e)
  <2>1. at[e] \in Working /\ UNCHANGED <<run, runner>>
    BY <1>6 DEF AskModel, CostCeiling, RepairAnswer, ModelFails, PlanAccepted, Gathering,
       NextWave, StopWaves, GatheringEnds, SynthesisAccepted, PublishSnapshot, CheckFinding,
       CommitFinding, PublicationFails, Working, rows
  <2> QED BY <1>3, <2>1
<1>7. CASE CreateChildTasks(e) \/ CreateSynthesisTask(e) \/ Ending(e)
  <2>1. at[e] \in Working /\ UNCHANGED runner
    BY <1>7 DEF CreateChildTasks, CreateSynthesisTask, Ending, FinishRun, EndRun, Working
  <2>2. \E s \in Intermediate \cup TerminalRun : SetRun(j, s)
    BY <1>7 DEF CreateChildTasks, CreateSynthesisTask, Ending, FinishRun, EndRun
  <2> QED BY <1>3, <1>5, <2>1, <2>2
<1> QED BY <1>2, <1>4, <1>6, <1>7 DEF HandlerSide, HandlerStep, Planning, Publishing

\* Steps of executors and processes start and end handlers, and move no
\* program point otherwise.
LEMMA QuietMoves ==
  ASSUME RunTypes,
         \/ \E e \in Executors : Composed(e) \/ Elsewhere(e)
         \/ \E w \in Workers : EndProcess(w)
         \/ Platform
  PROVE  /\ DOMAIN at' = Executors
         /\ at' = [e \in Executors |-> at'[e]]
         /\ \A e \in Executors : at'[e] \in {at[e], "none", "start"}
<1> USE DEF RunTypes
<1>1. ASSUME NEW e \in Executors, Composed(e)
      PROVE  \E p \in {at[e], "none", "start"} : at' = [at EXCEPT ![e] = p]
  BY <1>1 DEF Composed, StartHandler, EndHandler, CancelHandler, HandlerCancelled, GoTo
<1>2. ASSUME NEW e \in Executors, Elsewhere(e) PROVE UNCHANGED at
  BY <1>2 DEF Elsewhere, runVars, locals
<1>3. ASSUME NEW w \in Workers, EndProcess(w)
      PROVE  at' = [e \in Executors |-> IF Home[e] = w THEN "none" ELSE at[e]]
  BY <1>3 DEF EndProcess
<1>4. CASE Platform
  BY <1>4 DEF Platform, runVars, locals
<1> QED BY <1>1, <1>2, <1>3, <1>4

\* The types of RunTypes are preserved.
LEMMA NextRunTypes == ASSUME IInv, RInv, RunNext PROVE RunTypes'
<1> USE DEF RInv, RunTypes, Intermediate, TerminalRun, Working
<1>1. ASSUME NEW e \in Executors, HandlerSide(e) PROVE RunTypes'
  <2> USE DEF GoTo, SetRun, At, rows
  <2>1. CASE StartRun(e)
    BY <1>1, <2>1, HandlerStepOnRun DEF StartRun, Terminalize
  <2>2. CASE HandlerError(e)
    BY <2>2 DEF HandlerError
  <2>3. CASE AskModel(e) \/ CostCeiling(e) \/ RepairAnswer(e) \/ ModelFails(e)
             \/ PlanAccepted(e) \/ SynthesisAccepted(e)
    BY <2>3 DEF AskModel, CostCeiling, RepairAnswer, ModelFails, PlanAccepted,
       SynthesisAccepted
  <2>4. CASE Gathering(e)
    BY <2>4 DEF Gathering, NextWave, StopWaves, GatheringEnds
  <2>5. CASE PublishSnapshot(e) \/ CheckFinding(e) \/ CommitFinding(e) \/ PublicationFails(e)
    <3>1. held[e] \in Jobs
      BY <1>1, HandlerStepOnRun
    <3>2. CASE PublishSnapshot(e)
      BY <3>1, <3>2 DEF PublishSnapshot
    <3>3. CASE CommitFinding(e)
      BY <3>1, <3>3 DEF CommitFinding
    <3>4. CASE CheckFinding(e) \/ PublicationFails(e)
      BY <3>4 DEF CheckFinding, PublicationFails
    <3> QED BY <2>5, <3>2, <3>3, <3>4
  <2>6. CASE CreateChildTasks(e) \/ CreateSynthesisTask(e) \/ Ending(e)
    BY <2>6 DEF CreateChildTasks, CreateSynthesisTask, Ending, FinishRun, EndRun
  <2> QED BY <1>1, <2>1, <2>2, <2>3, <2>4, <2>5, <2>6
          DEF HandlerSide, HandlerStep, Planning, Publishing
<1>2. ASSUME NEW j \in Jobs, NEW c \in Children, ChildStep(j, c) \/ ChildRaises(j, c)
      PROVE  RunTypes'
  <2>1. UNCHANGED at \/ GoTo(runner[j], "raised")
    BY <1>2 DEF ChildStep, ChildAttempt, ChildEnds, ChildSettles, ChildRaises
  <2> QED BY <1>2, <2>1, ChildStepFrame DEF GoTo
<1>3. ASSUME NEW j \in Jobs, RequestRun(j) PROVE RunTypes'
  BY <1>3 DEF RequestRun, SetRun, locals
<1>4. CASE \/ \E e \in Executors : Composed(e) \/ Elsewhere(e)
           \/ \E w \in Workers : EndProcess(w)
           \/ Platform
  BY <1>4, QuietMoves, ExecutorStepKeepsRuns
<1>5. ASSUME NEW j \in Jobs, SecondHandler(j) PROVE RunTypes'
  BY <1>5, SecondHandlerFrame
<1> QED BY <1>1, <1>2, <1>3, <1>4, <1>5 DEF RunNext, HandlerSide

\* RInv is preserved by every step.
LEMMA NextRInv == IInv /\ RInv /\ [RunNext]_allVars => RInv'
<1> SUFFICES ASSUME IInv, RInv, RunNext PROVE RInv'
  BY DEF allVars, vars, runVars, rows, locals, RInv, RunTypes, HandlerPlace, RunOfJob,
     WorkerIsRunner
<1> DEFINE Quiet == \/ \E e \in Executors : Composed(e) \/ Elsewhere(e)
                    \/ \E w \in Workers : EndProcess(w)
                    \/ Platform
<1>1. RunTypes'
  BY NextRunTypes
<1>2. \A e \in Executors : SameHandler(e)
  BY HandlersStay
<1>3. HandlerPlace'
  BY <1>1, <1>2 DEF HandlerPlace, SameHandler
<1>4. RunOfJob'
  <2>1. ASSUME NEW e \in Executors, HandlerSide(e) PROVE RunOfJob'
    <3>1. UNCHANGED status
      BY <2>1, HandlerStepFrame DEF vars
    <3>2. \A j \in Jobs : run'[j] = "absent" <=> run[j] = "absent"
      BY <2>1, HandlerStepOnRun
    <3> QED BY <3>1, <3>2 DEF RInv, RunOfJob
  <2>2. ASSUME NEW j \in Jobs, NEW c \in Children, ChildStep(j, c) \/ ChildRaises(j, c)
        PROVE  RunOfJob'
    BY <2>2, ChildStepFrame DEF vars, RInv, RunOfJob
  <2>3. ASSUME NEW j \in Jobs, RequestRun(j) PROVE RunOfJob'
    BY <2>3 DEF RequestRun, Enqueue, SetRun, RInv, RunTypes, RunOfJob, IInv, Base, TypeOK
  <2>4. CASE Quiet
    BY <2>4, NoOtherRequest, ExecutorStepKeepsRuns DEF RInv, RunOfJob
  <2>5. ASSUME NEW j \in Jobs, SecondHandler(j) PROVE RunOfJob'
    BY <2>5, SecondHandlerFrame DEF RInv, RunTypes, RunOfJob, Intermediate, vars, table
  <2> QED BY <2>1, <2>2, <2>3, <2>4, <2>5 DEF RunNext, HandlerSide
<1>5. WorkerIsRunner'
  <2> SUFFICES ASSUME NEW f \in Executors, at'[f] \in Working
               PROVE  /\ runner'[held'[f]] = f
                      /\ run'[held'[f]] \notin {"absent", "queued"}
    BY DEF WorkerIsRunner
  <2>1. "none" \notin Working /\ "start" \notin Working
    BY DEF Working
  <2>2. held'[f] = held[f] /\ at[f] # "none" /\ held[f] \in Jobs
    BY <1>2, <2>1 DEF SameHandler, RInv, HandlerPlace, IInv, Base, Bookkeeping
  <2>3. ASSUME at[f] = at'[f]
        PROVE  runner[held[f]] = f /\ run[held[f]] \notin {"absent", "queued"}
    BY <2>3 DEF RInv, WorkerIsRunner
  <2>4. ASSUME NEW e \in Executors, HandlerSide(e)
        PROVE  /\ runner'[held[f]] = f
               /\ run'[held[f]] \notin {"absent", "queued"}
    <3>1. CASE e = f
      BY <2>4, <3>1, HandlerStepOnRun
    <3>2. CASE e # f
      <4>1. runner[held[f]] = f /\ run[held[f]] \notin {"absent", "queued"}
        BY <2>3, <2>4, <3>2, HandlerStepMoves DEF RInv
      <4> QED BY <2>2, <2>4, <4>1, HandlerStepOnRun
    <3> QED BY <3>1, <3>2
  <2>5. ASSUME NEW j \in Jobs, NEW c \in Children, ChildStep(j, c) \/ ChildRaises(j, c)
        PROVE  /\ runner'[held[f]] = f
               /\ run'[held[f]] \notin {"absent", "queued"}
    <3>1. at[f] = at'[f]
      BY <2>5, ChildStepMoves DEF Working, RInv
    <3> QED BY <2>3, <2>5, <3>1, ChildStepFrame
  <2>6. ASSUME NEW j \in Jobs, RequestRun(j)
        PROVE  /\ runner'[held[f]] = f
               /\ run'[held[f]] \notin {"absent", "queued"}
    <3>1. at[f] = at'[f] /\ UNCHANGED runner
      BY <2>6 DEF RequestRun, locals
    <3>2. run[j] = "absent"
      BY <2>6 DEF RequestRun, Enqueue, RInv, RunOfJob
    <3>3. held[f] # j
      BY <2>3, <3>1, <3>2
    <3> QED BY <2>2, <2>3, <2>6, <3>1, <3>3 DEF RequestRun, SetRun, RInv, RunTypes
  <2>7. CASE Quiet
    <3>1. at[f] = at'[f]
      BY <2>1, <2>7, QuietMoves DEF RInv
    <3> QED BY <2>2, <2>3, <2>7, <3>1, ExecutorStepKeepsRuns
  <2>8. ASSUME NEW j \in Jobs, SecondHandler(j)
        PROVE  /\ runner'[held[f]] = f
               /\ run'[held[f]] \notin {"absent", "queued"}
    BY <2>2, <2>3, <2>8, SecondHandlerFrame DEF RInv, RunTypes
  <2> QED BY <2>2, <2>4, <2>5, <2>6, <2>7, <2>8 DEF RunNext, HandlerSide
<1> QED BY <1>1, <1>3, <1>4, <1>5 DEF RInv

\* RInv always holds: its own steps preserve it, given IInv of the leases below.
LEMMA RInvInvariant == RunSpec => []RInv
<1>1. RunInit => RInv
  BY DEF RunInit, Init, RInv, RunTypes, HandlerPlace, RunOfJob, WorkerIsRunner, Working
<1>2. IInv /\ RInv /\ [RunNext]_allVars => RInv'
  BY NextRInv
<1> QED BY <1>1, <1>2, RunsUseLeases, IInvInvariant, PTL DEF RunSpec

\* One handler at most works on a run, whatever leases are lost and however
\* often its job is claimed again (_start_run).
THEOREM RunsHaveOneWorker == RunSpec => []OneHandlerWorks
<1>1. RInv => OneHandlerWorks
  BY DEF RInv, WorkerIsRunner, OneHandlerWorks
<1> QED BY <1>1, RInvInvariant, PTL

-----------------------------------------------------------------------------
(* Snapshots, whatever leases are lost *)

\* A handler that is past the snapshot, which a run may owe, has published it.
PastSnapshot(e) ==
    at[e] \in {"publish", "commit"} /\ held[e] \in Snapshots => snapshot[held[e]]

Snapped == (\A e \in Executors : PastSnapshot(e)) /\ SnapshotBeforeSuccess

\* A step of a handler publishes the snapshot before it goes on, and completes
\* the run only when it is past it.
LEMMA HandlerStepSnaps ==
  ASSUME IInv, RInv, NEW e \in Executors, HandlerSide(e), PastSnapshot(e)
  PROVE  /\ PastSnapshot(e)'
         /\ \A j \in Jobs : snapshot[j] => snapshot'[j]
         /\ run'[held[e]] = "completed" /\ run[held[e]] # "completed" => at[e] = "publish"
<1> DEFINE j == held[e]
<1>1. j \in Jobs /\ held' = held
  BY HandlerStepOnRun, HandlerStepFrame DEF vars
<1> USE <1>1 DEF RInv, RunTypes, At, GoTo, SetRun, PastSnapshot, rows
<1>2. CASE StartRun(e)
  BY <1>2 DEF StartRun, Terminalize
<1>3. CASE HandlerError(e)
  BY <1>3 DEF HandlerError
<1>4. CASE AskModel(e) \/ CostCeiling(e) \/ RepairAnswer(e) \/ ModelFails(e)
  BY <1>4 DEF AskModel, CostCeiling, RepairAnswer, ModelFails
<1>5. CASE PlanAccepted(e) \/ SynthesisAccepted(e) \/ Gathering(e)
  BY <1>5 DEF PlanAccepted, SynthesisAccepted, Gathering, NextWave, StopWaves, GatheringEnds
<1>6. CASE CreateChildTasks(e) \/ CreateSynthesisTask(e)
  BY <1>6 DEF CreateChildTasks, CreateSynthesisTask
<1>7. CASE PublishSnapshot(e) \/ CheckFinding(e) \/ CommitFinding(e) \/ PublicationFails(e)
  BY <1>7 DEF PublishSnapshot, CheckFinding, CommitFinding, PublicationFails
<1>8. CASE Ending(e)
  BY <1>8 DEF Ending, FinishRun, EndRun
<1> QED BY <1>2, <1>3, <1>4, <1>5, <1>6, <1>7, <1>8
        DEF HandlerSide, HandlerStep, Planning, Publishing

LEMMA NextSnapped == IInv /\ RInv /\ Snapped /\ [RunNext]_allVars => Snapped'
<1> SUFFICES ASSUME IInv, RInv, Snapped, RunNext PROVE Snapped'
  BY DEF allVars, vars, runVars, rows, locals, Snapped, PastSnapshot, SnapshotBeforeSuccess
<1>1. \A e \in Executors : SameHandler(e)
  BY HandlersStay
<1>2. \A e \in Executors : at[e] # "none" => held[e] \in Jobs
  BY DEF RInv, HandlerPlace, IInv, Base, Bookkeeping
<1>3. ASSUME \A j \in Jobs : snapshot[j] => snapshot'[j],
             NEW f \in Executors, at'[f] \in {at[f], "none", "start", "raised"}
      PROVE  PastSnapshot(f)'
  BY <1>1, <1>2, <1>3 DEF Snapped, PastSnapshot, SameHandler
<1>4. ASSUME \A j \in Jobs : snapshot[j] => snapshot'[j],
             \A j \in Jobs : run'[j] = "completed" => run[j] = "completed"
      PROVE  SnapshotBeforeSuccess'
  BY <1>4, RunsAssumption DEF Snapped, SnapshotBeforeSuccess
<1>5. ASSUME NEW e \in Executors, HandlerSide(e) PROVE Snapped'
  <2>1. PastSnapshot(e)
    BY DEF Snapped
  <2>2. PastSnapshot(e)' /\ \A j \in Jobs : snapshot[j] => snapshot'[j]
    BY <1>5, <2>1, HandlerStepSnaps
  <2>3. ASSUME NEW f \in Executors \ {e} PROVE PastSnapshot(f)'
    <3>1. at'[f] = at[f]
      BY <1>5, HandlerStepMoves DEF RInv
    <3> QED BY <1>3, <2>2, <3>1
  <2>4. ASSUME NEW j \in Snapshots, run'[j] = "completed" PROVE snapshot'[j]
    <3>1. j \in Jobs
      BY RunsAssumption
    <3>2. CASE run[j] = "completed"
      BY <2>2, <3>1, <3>2 DEF Snapped, SnapshotBeforeSuccess
    <3>3. CASE run[j] # "completed"
      <4>1. j = held[e]
        BY <1>5, <2>4, <3>1, <3>3, HandlerStepOnRun
      <4>2. at[e] = "publish"
        BY <1>5, <2>1, <2>4, <3>3, <4>1, HandlerStepSnaps
      <4> QED BY <2>1, <2>2, <3>1, <4>1, <4>2 DEF PastSnapshot
    <3> QED BY <3>2, <3>3
  <2>5. \A f \in Executors : PastSnapshot(f)'
    BY <2>2, <2>3
  <2> QED BY <2>4, <2>5 DEF Snapped, SnapshotBeforeSuccess
<1>6. ASSUME NEW j \in Jobs, NEW c \in Children, ChildStep(j, c) \/ ChildRaises(j, c)
      PROVE  Snapped'
  <2>1. UNCHANGED <<run, snapshot>>
    BY <1>6, ChildStepFrame
  <2>2. \A f \in Executors : at'[f] \in {at[f], "raised"}
    BY <1>6, ChildStepMoves DEF RInv
  <2> QED BY <1>3, <1>4, <2>1, <2>2 DEF Snapped
<1>7. ASSUME NEW j \in Jobs, RequestRun(j) PROVE Snapped'
  <2>1. UNCHANGED <<snapshot, at>> /\ run' = [run EXCEPT ![j] = "queued"]
    BY <1>7 DEF RequestRun, SetRun, locals
  <2> QED BY <1>3, <1>4, <2>1 DEF Snapped, RInv, RunTypes
<1>8. CASE \/ \E e \in Executors : Composed(e) \/ Elsewhere(e)
           \/ \E w \in Workers : EndProcess(w)
           \/ Platform
  <2>1. UNCHANGED <<run, snapshot>> /\ \A f \in Executors : at'[f] \in {at[f], "none", "start"}
    BY <1>8, QuietMoves, ExecutorStepKeepsRuns DEF RInv
  <2> QED BY <1>3, <1>4, <2>1 DEF Snapped
<1>9. ASSUME NEW j \in Jobs, SecondHandler(j) PROVE Snapped'
  <2>1. UNCHANGED <<snapshot, at>>
    BY <1>9, SecondHandlerFrame
  <2>2. \A k \in Jobs : run'[k] = "completed" => run[k] = "completed"
    BY <1>9, SecondHandlerFrame DEF RInv, RunTypes
  <2> QED BY <1>3, <1>4, <2>1, <2>2 DEF Snapped
<1> QED BY <1>5, <1>6, <1>7, <1>8, <1>9 DEF RunNext, HandlerSide

\* A run that owes a Starting Snapshot is not COMPLETED without it, whoever's
\* handler completes it: also one whose lease was lost long ago.
THEOREM SnapshotsComeFirst == RunSpec => []SnapshotBeforeSuccess
<1>1. RunInit => Snapped
  BY RunsAssumption DEF RunInit, Snapped, PastSnapshot, SnapshotBeforeSuccess
<1>2. IInv /\ RInv /\ Snapped /\ [RunNext]_allVars => Snapped'
  BY NextSnapped
<1>3. Snapped => SnapshotBeforeSuccess
  BY DEF Snapped
<1> QED BY <1>1, <1>2, <1>3, RunsUseLeases, IInvInvariant, RInvInvariant, PTL DEF RunSpec

-----------------------------------------------------------------------------
(* Type correctness *)

TaskStatus == {"absent", "succeeded", "failed", "cancelled"} \cup LiveTask
KidStatus == {"none", "planned", "accepted", "empty", "failed", "stopped", "cancelled",
              "dead"} \cup ActiveKid

TaskTypes ==
    /\ task \in [Jobs -> [TaskIds -> TaskStatus]]
    /\ kid \in [Jobs -> [Children -> KidStatus]]
    /\ errors \in 0 .. MaxErrors

\* The attempts of the main model are counted within a phase only.
Asking == {"plan", "planAsked", "synth", "synthAsked"}

Attempts(e) ==
    /\ tries[e] \in 0 .. MaxRepairs + 1
    /\ at[e] \in {"plan", "synth"} => tries[e] <= MaxRepairs
    /\ at[e] \notin Asking => tries[e] = 0

\* A finding that was checked has room in the run: one handler works on it.
Room(e) == at[e] = "commit" => findings[held[e]] < MaxFindings

TypeInv ==
    /\ TaskTypes
    /\ DOMAIN tries = Executors /\ tries = [e \in Executors |-> tries[e]]
    /\ \A e \in Executors : Attempts(e) /\ Room(e)
    /\ \A j \in Jobs : findings[j] <= MaxFindings

LEMMA TaskIdFacts ==
    /\ Planner \in TaskIds /\ Synthesizer \in TaskIds /\ Children \subseteq TaskIds
    /\ MaxRepairs \in Nat /\ MaxErrors \in Nat /\ MaxFindings \in Nat
BY RunsAssumption DEF Planner, Synthesizer, TaskIds, Children

LEMMA SetTaskTypes ==
  ASSUME TaskTypes, NEW j \in Jobs, NEW t \in TaskIds, NEW s \in TaskStatus, SetTask(j, t, s)
  PROVE  task' \in [Jobs -> [TaskIds -> TaskStatus]]
BY DEF TaskTypes, SetTask

LEMMA SetKidTypes ==
  ASSUME TaskTypes, NEW j \in Jobs, NEW c \in Children, NEW s \in KidStatus,
         kid' = [kid EXCEPT ![j][c] = s]
  PROVE  kid' \in [Jobs -> [Children -> KidStatus]]
BY DEF TaskTypes

\* What a wave, a stop and an end of a process make of the children.
LEMMA KidsTypes ==
  ASSUME NEW kids \in [Children -> KidStatus]
  PROVE  /\ StartWave(kids) \in [Children -> KidStatus]
         /\ Dying(kids) \in [Children -> KidStatus]
BY DEF StartWave, Dying, KidStatus, ActiveKid

LEMMA TerminalizeTypes ==
  ASSUME TaskTypes, NEW j \in Jobs, Terminalize(j)
  PROVE  task' \in [Jobs -> [TaskIds -> TaskStatus]]
<1> DEFINE new == [t \in TaskIds |-> CASE task[j][t] = "running" -> "failed"
                                       [] task[j][t] = "queued" -> "cancelled"
                                       [] OTHER -> task[j][t]]
<1>1. task' = [task EXCEPT ![j] = new]
  BY DEF Terminalize
<1>2. task[j] \in [TaskIds -> TaskStatus]
  BY DEF TaskTypes
<1>3. new \in [TaskIds -> TaskStatus]
  BY <1>2 DEF TaskStatus, LiveTask
<1> HIDE DEF new
<1> QED BY <1>1, <1>3 DEF TaskTypes

LEMMA HandlerTaskTypes ==
  ASSUME IInv, RInv, TaskTypes, NEW e \in Executors, HandlerSide(e)
  PROVE  TaskTypes'
<1> DEFINE j == held[e]
<1>1. j \in Jobs
  BY HandlerStepOnRun
<1>2. task[j] \in [TaskIds -> TaskStatus] /\ kid[j] \in [Children -> KidStatus]
  BY <1>1 DEF TaskTypes
<1>3. {"running", "cancelled", "failed", "succeeded", "queued"} \subseteq TaskStatus
  BY DEF TaskStatus, LiveTask
<1>4. MainTask(e) \in TaskIds
  BY TaskIdFacts DEF MainTask
<1>5. ASSUME UNCHANGED <<kid, errors>>, NEW t \in TaskIds,
             NEW s \in {"running", "cancelled", "failed", "succeeded", "queued"}, SetTask(j, t, s)
      PROVE  TaskTypes'
  BY <1>1, <1>3, <1>5, SetTaskTypes DEF TaskTypes
<1>6. CASE StartRun(e)
  <2>1. CASE Terminalize(j)
    BY <1>1, <1>6, <2>1, TerminalizeTypes DEF StartRun, TaskTypes
  <2>2. CASE UNCHANGED task
    BY <1>6, <2>2 DEF StartRun, TaskTypes
  <2>3. CASE SetTask(j, Planner, "running")
    BY <1>5, <1>6, <2>3, TaskIdFacts DEF StartRun
  <2> QED BY <1>6, <2>1, <2>2, <2>3 DEF StartRun
<1>7. CASE AskModel(e) \/ CostCeiling(e) \/ ModelFails(e) \/ PlanAccepted(e)
           \/ CreateSynthesisTask(e) \/ SynthesisAccepted(e)
  BY <1>4, <1>5, <1>7, TaskIdFacts DEF AskModel, CostCeiling, ModelFails, PlanAccepted,
     CreateSynthesisTask, SynthesisAccepted
<1>8. CASE CreateChildTasks(e)
  <2> DEFINE new == [t \in TaskIds |-> IF t \in Children THEN "queued" ELSE task[j][t]]
             kids == [c \in Children |-> "planned"]
  <2>1. task' = [task EXCEPT ![j] = new] /\ kid' = [kid EXCEPT ![j] = StartWave(kids)]
        /\ errors' = errors
    BY <1>8 DEF CreateChildTasks
  <2>2. new \in [TaskIds -> TaskStatus]
    BY <1>2, <1>3
  <2>3. kids \in [Children -> KidStatus]
    BY DEF KidStatus
  <2>4. StartWave(kids) \in [Children -> KidStatus]
    BY <2>3, KidsTypes
  <2> HIDE DEF new, kids
  <2> QED BY <1>1, <2>1, <2>2, <2>4 DEF TaskTypes
<1>9. CASE NextWave(e)
  <2>1. kid' = [kid EXCEPT ![j] = StartWave(kid[j])] /\ UNCHANGED <<task, errors>>
    BY <1>9 DEF NextWave, rows
  <2> QED BY <1>1, <1>2, <2>1, KidsTypes DEF TaskTypes
<1>10. CASE StopWaves(e)
  <2> DEFINE left == {c \in Children : kid[j][c] = "planned"}
             new == [t \in TaskIds |-> IF t \in left THEN "cancelled" ELSE task[j][t]]
             kids == [c \in Children |-> IF c \in left THEN "cancelled" ELSE kid[j][c]]
  <2>1. task' = [task EXCEPT ![j] = new] /\ kid' = [kid EXCEPT ![j] = kids] /\ errors' = errors
    BY <1>10 DEF StopWaves
  <2>2. new \in [TaskIds -> TaskStatus]
    BY <1>2, <1>3
  <2>3. kids \in [Children -> KidStatus]
    BY <1>2 DEF KidStatus
  <2> HIDE DEF new, kids
  <2> QED BY <1>1, <2>1, <2>2, <2>3 DEF TaskTypes
<1>11. CASE RepairAnswer(e) \/ GatheringEnds(e) \/ PublishSnapshot(e) \/ CheckFinding(e)
            \/ CommitFinding(e) \/ PublicationFails(e) \/ Ending(e)
  <2>1. UNCHANGED <<task, kid, errors>>
    BY <1>11 DEF RepairAnswer, GatheringEnds, PublishSnapshot, CheckFinding, CommitFinding,
       PublicationFails, Ending, FinishRun, EndRun, rows
  <2> QED BY <2>1 DEF TaskTypes
<1>12. CASE HandlerError(e)
  <2>1. UNCHANGED <<task, kid>> /\ errors < MaxErrors /\ errors' = errors + 1
    BY <1>12 DEF HandlerError, rows
  <2> QED BY <2>1, TaskIdFacts DEF TaskTypes
<1> QED BY <1>6, <1>7, <1>8, <1>9, <1>10, <1>11, <1>12
        DEF HandlerSide, HandlerStep, Planning, Gathering, Publishing

LEMMA OtherTaskTypes ==
  ASSUME TaskTypes, RunNext, \A e \in Executors : ~HandlerSide(e)
  PROVE  TaskTypes'
<1>1. ASSUME NEW j \in Jobs, NEW c \in Children, ChildStep(j, c) PROVE TaskTypes'
  <2>1. PICK k \in KidStatus, s \in TaskStatus :
           kid' = [kid EXCEPT ![j][c] = k] /\ SetTask(j, c, s) /\ errors' = errors
    <3>1. {"running", "cancelled", "failed", "succeeded"} \subseteq TaskStatus
      BY DEF TaskStatus, LiveTask
    <3>2. {"running", "accepted", "empty", "stopped", "failed"} \subseteq KidStatus
      BY DEF KidStatus, ActiveKid
    <3> QED BY <1>1, <3>1, <3>2 DEF ChildStep, ChildAttempt, ChildEnds, ChildSettles
  <2> QED BY <2>1, SetTaskTypes, SetKidTypes, TaskIdFacts DEF TaskTypes
<1>2. ASSUME NEW j \in Jobs, NEW c \in Children, ChildRaises(j, c) PROVE TaskTypes'
  <2>1. /\ kid' = [kid EXCEPT ![j][c] = "dead"] /\ task' = task
        /\ errors < MaxErrors /\ errors' = errors + 1
    BY <1>2 DEF ChildRaises, rows
  <2>2. "dead" \in KidStatus
    BY DEF KidStatus
  <2>3. kid' \in [Jobs -> [Children -> KidStatus]]
    BY <2>1, <2>2, SetKidTypes
  <2> QED BY <2>1, <2>3, TaskIdFacts DEF TaskTypes
<1>3. ASSUME NEW e \in Executors, CancelHandler(e) PROVE TaskTypes'
  <2>1. UNCHANGED <<task, errors>>
    BY <1>3 DEF CancelHandler, rows
  <2>2. kid' = [j \in Jobs |-> IF at[e] = "gather" /\ held[e] = j THEN Dying(kid[j]) ELSE kid[j]]
    BY <1>3 DEF CancelHandler
  <2> QED BY <2>1, <2>2, KidsTypes DEF TaskTypes
<1>4. ASSUME NEW w \in Workers, EndProcess(w) PROVE TaskTypes'
  <2>1. UNCHANGED <<task, errors>>
    BY <1>4 DEF EndProcess, rows
  <2>2. kid' = [j \in Jobs |-> IF runner[j] # None /\ Home[runner[j]] = w
                               THEN Dying(kid[j]) ELSE kid[j]]
    BY <1>4 DEF EndProcess
  <2> QED BY <2>1, <2>2, KidsTypes DEF TaskTypes
<1>5. ASSUME UNCHANGED <<task, kid, errors>> PROVE TaskTypes'
  BY <1>5 DEF TaskTypes
<1>6. ASSUME NEW j \in Jobs, RequestRun(j) PROVE TaskTypes'
  BY <1>5, <1>6 DEF RequestRun, locals
<1>7. ASSUME NEW e \in Executors, Composed(e) \/ Elsewhere(e) PROVE TaskTypes'
  BY <1>3, <1>5, <1>7 DEF Composed, StartHandler, EndHandler, HandlerCancelled, Elsewhere,
     runVars, rows, locals
<1>8. CASE Platform
  BY <1>5, <1>8 DEF Platform, runVars, rows, locals
<1>9. ASSUME NEW j \in Jobs, SecondHandler(j) PROVE TaskTypes'
  BY <1>9, SecondHandlerFrame, TerminalizeTypes DEF TaskTypes
<1> QED BY <1>1, <1>2, <1>4, <1>6, <1>7, <1>8, <1>9 DEF RunNext, HandlerSide

LEMMA HandlerAttempts ==
  ASSUME IInv, RInv, TypeInv, NEW e \in Executors, HandlerSide(e)
  PROVE  /\ DOMAIN tries' = Executors /\ tries' = [f \in Executors |-> tries'[f]]
         /\ Attempts(e)'
         /\ \A f \in Executors \ {e} : tries'[f] = tries[f]
<1>1. Attempts(e) /\ DOMAIN tries = Executors /\ MaxRepairs \in Nat
  BY TaskIdFacts DEF TypeInv
<1> USE <1>1 DEF RInv, RunTypes, At, GoTo, Attempts, Asking, TypeInv
<1>2. CASE StartRun(e)
  BY <1>2 DEF StartRun
<1>3. CASE AskModel(e)
  BY <1>3 DEF AskModel
<1>4. CASE CostCeiling(e) \/ ModelFails(e) \/ PlanAccepted(e) \/ SynthesisAccepted(e)
  BY <1>4 DEF CostCeiling, ModelFails, PlanAccepted, SynthesisAccepted
<1>5. CASE HandlerError(e)
  BY <1>5 DEF HandlerError, Working
<1>6. CASE RepairAnswer(e)
  BY <1>6 DEF RepairAnswer
<1>7. CASE CreateChildTasks(e) \/ CreateSynthesisTask(e) \/ Gathering(e)
  BY <1>7 DEF CreateChildTasks, CreateSynthesisTask, Gathering, NextWave, StopWaves, GatheringEnds
<1>8. CASE PublishSnapshot(e) \/ CheckFinding(e) \/ CommitFinding(e) \/ PublicationFails(e)
  BY <1>8 DEF PublishSnapshot, CheckFinding, CommitFinding, PublicationFails
<1>9. CASE Ending(e)
  BY <1>9 DEF Ending, FinishRun, EndRun
<1> QED BY <1>2, <1>3, <1>4, <1>5, <1>6, <1>7, <1>8, <1>9
        DEF HandlerSide, HandlerStep, Planning, Publishing

\* A finding is committed into room that was checked, and one handler commits.
LEMMA HandlerRoom ==
  ASSUME IInv, RInv, TypeInv, NEW e \in Executors, HandlerSide(e)
  PROVE  /\ \A f \in Executors : Room(f)'
         /\ \A j \in Jobs : findings'[j] <= MaxFindings
<1>1. held[e] \in Jobs /\ held' = held
  BY HandlerStepOnRun, HandlerStepFrame DEF vars
<1>2. \A f \in Executors \ {e} : at'[f] = at[f]
  BY HandlerStepMoves DEF RInv
<1>3. CASE CommitFinding(e)
  <2>1. /\ at[e] = "commit" /\ at'[e] = "publish"
        /\ findings' = [findings EXCEPT ![held[e]] = @ + 1]
    BY <1>3 DEF CommitFinding, At, GoTo, RInv, RunTypes
  <2>2. findings[held[e]] < MaxFindings
    BY <2>1 DEF TypeInv, Room
  <2>3. ASSUME NEW f \in Executors, at'[f] = "commit" PROVE findings'[held'[f]] < MaxFindings
    <3>1. f # e /\ at[f] = "commit"
      BY <1>2, <2>1, <2>3
    <3>2. held[f] # held[e]
      BY <2>1, <3>1 DEF RInv, WorkerIsRunner, Working
    <3>3. findings'[held[f]] = findings[held[f]]
      BY <2>1, <3>2
    <3> QED BY <1>1, <3>1, <3>3 DEF TypeInv, Room
  <2>4. \A j \in Jobs : findings'[j] <= MaxFindings
    BY <2>1, <2>2, TaskIdFacts DEF TypeInv, RInv, RunTypes
  <2> QED BY <2>3, <2>4 DEF Room
<1>4. CASE ~CommitFinding(e)
  <2>1. /\ findings' = findings
        /\ at'[e] = "commit" => at[e] = "publish" /\ findings[held[e]] < MaxFindings
    <3> USE DEF RInv, RunTypes, At, GoTo, rows
    <3>1. CASE StartRun(e) \/ HandlerError(e)
      BY <3>1 DEF StartRun, HandlerError
    <3>2. CASE AskModel(e) \/ CostCeiling(e) \/ RepairAnswer(e) \/ ModelFails(e)
               \/ PlanAccepted(e) \/ SynthesisAccepted(e)
      BY <3>2 DEF AskModel, CostCeiling, RepairAnswer, ModelFails, PlanAccepted, SynthesisAccepted
    <3>3. CASE CreateChildTasks(e) \/ CreateSynthesisTask(e) \/ Gathering(e)
      BY <3>3 DEF CreateChildTasks, CreateSynthesisTask, Gathering, NextWave, StopWaves,
         GatheringEnds
    <3>4. CASE PublishSnapshot(e) \/ CheckFinding(e) \/ PublicationFails(e) \/ Ending(e)
      BY <3>4 DEF PublishSnapshot, CheckFinding, PublicationFails, Ending, FinishRun, EndRun
    <3> QED BY <1>4, <3>1, <3>2, <3>3, <3>4 DEF HandlerSide, HandlerStep, Planning, Publishing
  <2> QED BY <1>1, <1>2, <2>1 DEF TypeInv, Room
<1> QED BY <1>3, <1>4

\* The other steps: who ends a handler forgets its attempts.
LEMMA OtherAttempts ==
  ASSUME IInv, RInv, TypeInv, RunNext, \A g \in Executors : ~HandlerSide(g)
  PROVE  /\ DOMAIN tries' = Executors /\ tries' = [f \in Executors |-> tries'[f]]
         /\ \A e \in Executors : Attempts(e)'
<1> USE TaskIdFacts DEF TypeInv, Attempts, Asking
<1>1. ASSUME tries' = tries,
             \A e \in Executors : \/ at'[e] = at[e]
                                  \/ at[e] \notin Asking /\ at'[e] \notin Asking
      PROVE  /\ DOMAIN tries' = Executors /\ tries' = [f \in Executors |-> tries'[f]]
             /\ \A e \in Executors : Attempts(e)'
  BY <1>1
<1>2. ASSUME NEW j \in Jobs, NEW c \in Children, ChildStep(j, c) \/ ChildRaises(j, c)
      PROVE  /\ tries' = tries
             /\ \A e \in Executors : \/ at'[e] = at[e]
                                     \/ at[e] \notin Asking /\ at'[e] \notin Asking
  <2>1. tries' = tries
    BY <1>2 DEF ChildStep, ChildAttempt, ChildEnds, ChildSettles, ChildRaises
  <2> QED BY <1>2, <2>1, ChildStepMoves DEF RInv
<1>3. ASSUME NEW j \in Jobs, RequestRun(j) PROVE tries' = tries /\ at' = at
  BY <1>3 DEF RequestRun, locals
<1>4. ASSUME NEW g \in Executors, StartHandler(g) \/ EndHandler(g)
      PROVE  /\ tries' = tries
             /\ \A e \in Executors : \/ at'[e] = at[e]
                                     \/ at[e] \notin Asking /\ at'[e] \notin Asking
  <2>1. CASE StartHandler(g)
    <3>1. at[g] = "none"
      BY <2>1 DEF StartHandler, CommitClaim, RInv, HandlerPlace
    <3> QED BY <2>1, <3>1 DEF StartHandler, GoTo, RInv, RunTypes
  <2>2. CASE EndHandler(g)
    BY <2>2 DEF EndHandler, At, GoTo, RInv, RunTypes
  <2> QED BY <1>4, <2>1, <2>2
<1>5. ASSUME NEW g \in Executors, CancelHandler(g) \/ Elsewhere(g) PROVE tries' = tries /\ at' = at
  BY <1>5 DEF CancelHandler, Elsewhere, runVars, locals
<1>6. ASSUME NEW g \in Executors, HandlerCancelled(g)
      PROVE  /\ DOMAIN tries' = Executors /\ tries' = [f \in Executors |-> tries'[f]]
             /\ \A e \in Executors : Attempts(e)'
  <2>1. at' = [at EXCEPT ![g] = "none"] /\ tries' = [tries EXCEPT ![g] = 0]
    BY <1>6 DEF HandlerCancelled, GoTo
  <2> QED BY <2>1 DEF RInv, RunTypes
<1>7. ASSUME NEW w \in Workers, EndProcess(w)
      PROVE  /\ DOMAIN tries' = Executors /\ tries' = [f \in Executors |-> tries'[f]]
             /\ \A e \in Executors : Attempts(e)'
  <2>1. /\ at' = [e \in Executors |-> IF Home[e] = w THEN "none" ELSE at[e]]
        /\ tries' = [e \in Executors |-> IF Home[e] = w THEN 0 ELSE tries[e]]
    BY <1>7 DEF EndProcess
  <2> QED BY <2>1
<1>8. CASE Platform
  <2>1. tries' = tries /\ at' = at
    BY <1>8 DEF Platform, runVars, locals
  <2> QED BY <1>1, <2>1
<1>9. ASSUME NEW j \in Jobs, SecondHandler(j) PROVE tries' = tries /\ at' = at
  BY <1>9, SecondHandlerFrame
<1> QED BY <1>1, <1>2, <1>3, <1>4, <1>5, <1>6, <1>7, <1>8, <1>9 DEF RunNext, HandlerSide, Composed

LEMMA OtherRoom ==
  ASSUME IInv, RInv, TypeInv, RunNext, \A g \in Executors : ~HandlerSide(g)
  PROVE  /\ \A e \in Executors : Room(e)'
         /\ \A j \in Jobs : findings'[j] <= MaxFindings
<1>1. findings' = findings
  <2>1. ASSUME NEW j \in Jobs, RequestRun(j) PROVE findings' = findings
    BY <2>1 DEF RequestRun
  <2> QED BY <2>1, ChildStepFrame, SecondHandlerFrame, ExecutorStepKeepsRuns
          DEF RunNext, HandlerSide
<1>2. ASSUME NEW e \in Executors, at'[e] = "commit" PROVE at[e] = "commit" /\ held'[e] = held[e]
  <2>1. at[e] = "commit"
    <3>1. ASSUME NEW j \in Jobs, RequestRun(j) PROVE at' = at
      BY <3>1 DEF RequestRun, locals
    <3>2. ASSUME NEW j \in Jobs, NEW c \in Children, ChildStep(j, c) \/ ChildRaises(j, c)
          PROVE  at[e] = "commit"
      BY <1>2, <3>2, ChildStepMoves DEF RInv
    <3>3. CASE \/ \E g \in Executors : Composed(g) \/ Elsewhere(g)
               \/ \E w \in Workers : EndProcess(w)
               \/ Platform
      BY <1>2, <3>3, QuietMoves DEF RInv
    <3> QED BY <1>2, <3>1, <3>2, <3>3, SecondHandlerFrame DEF RunNext, HandlerSide
  <2> QED BY <1>2, <2>1, HandlersStay DEF SameHandler
<1> QED BY <1>1, <1>2 DEF TypeInv, Room

LEMMA NextTypeInv == IInv /\ RInv /\ TypeInv /\ [RunNext]_allVars => TypeInv'
<1> SUFFICES ASSUME IInv, RInv, TypeInv, RunNext PROVE TypeInv'
  BY DEF allVars, vars, runVars, rows, locals, TypeInv, TaskTypes, Attempts, Room
<1>1. ASSUME NEW e \in Executors, HandlerSide(e) PROVE TypeInv'
  <2>1. TaskTypes'
    BY <1>1, HandlerTaskTypes DEF TypeInv
  <2>2. ASSUME NEW f \in Executors PROVE Attempts(f)'
    <3>1. CASE f = e
      BY <1>1, <3>1, HandlerAttempts
    <3>2. CASE f # e
      <4>1. at'[f] = at[f] /\ tries'[f] = tries[f]
        BY <1>1, <3>2, HandlerAttempts, HandlerStepMoves DEF RInv
      <4> QED BY <4>1 DEF TypeInv, Attempts
    <3> QED BY <3>1, <3>2
  <2> QED BY <1>1, <2>1, <2>2, HandlerAttempts, HandlerRoom DEF TypeInv
<1>2. CASE \A e \in Executors : ~HandlerSide(e)
  BY <1>2, OtherTaskTypes, OtherAttempts, OtherRoom DEF TypeInv
<1> QED BY <1>1, <1>2

\* TypeInv always holds.
LEMMA TypeInvInvariant == RunSpec => []TypeInv
<1>1. RunInit => TypeInv
  <2> SUFFICES ASSUME RunInit PROVE TypeInv
    OBVIOUS
  <2>1. TaskTypes
    BY TaskIdFacts DEF RunInit, TaskTypes, TaskStatus, KidStatus
  <2>2. \A e \in Executors : at[e] = "none" /\ tries[e] = 0
    BY DEF RunInit
  <2>3. DOMAIN tries = Executors /\ tries = [e \in Executors |-> tries[e]]
    BY DEF RunInit
  <2>4. \A j \in Jobs : findings[j] <= MaxFindings
    <3>1. \A j \in Jobs : findings[j] = 0
      BY DEF RunInit
    <3>2. 0 <= MaxFindings
      BY RunsAssumption
    <3> QED BY <3>1, <3>2
  <2> QED BY <2>1, <2>2, <2>3, <2>4, TaskIdFacts DEF TypeInv, Attempts, Room, Asking
<1>2. IInv /\ RInv /\ TypeInv /\ [RunNext]_allVars => TypeInv'
  BY NextTypeInv
<1> QED BY <1>1, <1>2, RunsUseLeases, IInvInvariant, RInvInvariant, PTL DEF RunSpec

\* Type correctness: the statuses of runs, tasks and children, the attempts
\* within the repairs the settings allow, and the bounds of the model.
THEOREM TypeCorrectR == RunSpec => []RunTypeOK
<1>1. RInv /\ TypeInv => RunTypeOK
  <2> SUFFICES ASSUME RInv, TypeInv PROVE RunTypeOK
    OBVIOUS
  <2>1. tries \in [Executors -> 0 .. MaxRepairs + 1]
    BY DEF TypeInv, Attempts
  <2>2. findings \in [Jobs -> 0 .. MaxFindings]
    BY TaskIdFacts DEF TypeInv, RInv, RunTypes
  <2>3. /\ task \in [Jobs -> [TaskIds -> {"absent", "succeeded", "failed", "cancelled"}
                                            \cup LiveTask]]
        /\ kid \in [Jobs -> [Children -> {"none", "planned", "accepted", "empty", "failed",
                                          "stopped", "cancelled", "dead"} \cup ActiveKid]]
        /\ errors \in 0 .. MaxErrors
    BY DEF TypeInv, TaskTypes, TaskStatus, KidStatus
  <2> QED BY <2>1, <2>2, <2>3 DEF RInv, RunTypes, RunTypeOK
<1> QED BY <1>1, RInvInvariant, TypeInvInvariant, PTL

-----------------------------------------------------------------------------
(* Status writes to runs with one job, where handlers do not overlap *)

\* The status that the program point of a handler takes for granted.
Phase(e) ==
    /\ at[e] \in {"plan", "planAsked", "create"} => run[held[e]] = "planning"
    /\ at[e] \in {"gather", "synthesize"} => run[held[e]] = "gathering"
    /\ at[e] \in {"synth", "synthAsked", "snapshot", "publish", "commit"} =>
          run[held[e]] = "synthesizing"
    /\ at[e] \in {"fail", "partial"} => run[held[e]] \in Intermediate
    /\ at[e] = "done" => run[held[e]] \in TerminalRun

Phases == \A e \in Executors : held[e] \notin SecondJobs => Phase(e)

\* A step of a handler in phase keeps it in phase and moves its run forward.
LEMMA HandlerStepPhase ==
  ASSUME IInv, RInv, NEW e \in Executors, HandlerSide(e), Phase(e)
  PROVE  /\ Phase(e)'
         /\ run'[held[e]] # run[held[e]] => Advances(held[e])
         /\ (findings'[held[e]] # findings[held[e]] \/ snapshot'[held[e]] # snapshot[held[e]]) =>
               run[held[e]] = "synthesizing"
<1> DEFINE j == held[e]
<1>1. j \in Jobs /\ held' = held
  BY HandlerStepOnRun, HandlerStepFrame DEF vars
<1> USE <1>1 DEF RInv, RunTypes, At, GoTo, SetRun, Intermediate, TerminalRun, Phase, Advances,
    NextStatus, rows
<1>2. CASE StartRun(e)
  BY <1>2 DEF StartRun, Terminalize
<1>3. CASE HandlerError(e)
  BY <1>3 DEF HandlerError
<1>4. CASE AskModel(e) \/ CostCeiling(e) \/ RepairAnswer(e) \/ ModelFails(e)
  BY <1>4 DEF AskModel, CostCeiling, RepairAnswer, ModelFails
<1>5. CASE PlanAccepted(e) \/ SynthesisAccepted(e) \/ Gathering(e)
  BY <1>5 DEF PlanAccepted, SynthesisAccepted, Gathering, NextWave, StopWaves, GatheringEnds
<1>6. CASE CreateChildTasks(e) \/ CreateSynthesisTask(e)
  BY <1>6 DEF CreateChildTasks, CreateSynthesisTask
<1>7. CASE PublishSnapshot(e) \/ CheckFinding(e) \/ CommitFinding(e) \/ PublicationFails(e)
  BY <1>7 DEF PublishSnapshot, CheckFinding, CommitFinding, PublicationFails
<1>8. CASE Ending(e)
  BY <1>8 DEF Ending, FinishRun, EndRun
<1> QED BY <1>2, <1>3, <1>4, <1>5, <1>6, <1>7, <1>8
        DEF HandlerSide, HandlerStep, Planning, Publishing

\* A handler publishes for its own run only.
LEMMA HandlerStepPublishes ==
  ASSUME RInv, NEW e \in Executors, HandlerSide(e)
  PROVE  \A j \in Jobs \ {held[e]} :
            findings'[j] = findings[j] /\ snapshot'[j] = snapshot[j]
BY DEF RInv, RunTypes, HandlerSide, HandlerStep, Planning, Gathering, Publishing, Ending,
   HandlerError, StartRun, AskModel, CostCeiling, RepairAnswer, ModelFails, PlanAccepted,
   CreateChildTasks, NextWave, StopWaves, GatheringEnds, CreateSynthesisTask,
   SynthesisAccepted, PublishSnapshot, CheckFinding, CommitFinding, PublicationFails,
   FinishRun, EndRun, rows

\* While handlers do not overlap, every handler of a run with one job stays in
\* phase.
LEMMA NextPhases == NoOverlap /\ IInv /\ RInv /\ Phases /\ [RunNext]_allVars => Phases'
<1> SUFFICES ASSUME NoOverlap, IInv, RInv, Phases, RunNext, NEW f \in Executors,
                    held'[f] \notin SecondJobs
             PROVE  Phase(f)'
  BY DEF allVars, vars, runVars, rows, locals, Phases, Phase
<1>1. SameHandler(f)
  BY HandlersStay
<1>2. ASSUME at'[f] \in {at[f], "none", "start", "raised"},
             at[f] # "none" /\ at'[f] # "none" => run'[held[f]] = run[held[f]]
      PROVE  Phase(f)'
  BY <1>1, <1>2 DEF Phases, Phase, SameHandler
<1>3. ASSUME NEW e \in Executors, HandlerSide(e) PROVE Phase(f)'
  <2>1. CASE e = f
    BY <1>3, <2>1, HandlerStepPhase, HandlerStepFrame DEF Phases, vars
  <2>2. CASE e # f
    <3>1. at'[f] = at[f]
      BY <1>3, <2>2, HandlerStepMoves DEF RInv
    <3>2. ASSUME at[f] # "none" PROVE held[f] # held[e] /\ held[f] \in Jobs
      <4>1. hdl[e] = "running" /\ hdl[f] = "running" /\ pc[f] \in {"run", "cancel"}
        BY <1>3, <3>2, HandlerStepMoves DEF RInv, HandlerPlace
      <4> QED BY <2>2, <4>1 DEF NoOverlap, IInv, Base, Bookkeeping
    <3> QED BY <1>2, <1>3, <3>1, <3>2, HandlerStepOnRun
  <2> QED BY <2>1, <2>2
<1>4. ASSUME NEW j \in Jobs, NEW c \in Children, ChildStep(j, c) \/ ChildRaises(j, c)
      PROVE  Phase(f)'
  BY <1>2, <1>4, ChildStepFrame, ChildStepMoves DEF RInv
<1>5. ASSUME NEW j \in Jobs, RequestRun(j) PROVE Phase(f)'
  <2>1. at'[f] = at[f] /\ run[j] = "absent"
    BY <1>5 DEF RequestRun, locals, Enqueue, RInv, RunOfJob
  <2>2. CASE at[f] \in Working \cup {"done"}
    <3>1. held[f] # j
      <4>1. held'[f] = held[f]
        BY <1>1, <2>1, <2>2 DEF SameHandler, Working
      <4> QED BY <2>1, <2>2, <4>1 DEF Phases, Phase, RInv, WorkerIsRunner, TerminalRun
    <3> QED BY <1>2, <1>5, <2>1, <3>1 DEF RequestRun, SetRun, RInv, RunTypes
  <2>3. CASE at[f] \notin Working \cup {"done"}
    BY <2>1, <2>3 DEF Phase, Working
  <2> QED BY <2>2, <2>3
<1>6. CASE \/ \E e \in Executors : Composed(e) \/ Elsewhere(e)
           \/ \E w \in Workers : EndProcess(w)
           \/ Platform
  BY <1>2, <1>6, QuietMoves, ExecutorStepKeepsRuns DEF RInv
<1>7. ASSUME NEW j \in Jobs, SecondHandler(j) PROVE Phase(f)'
  <2>1. j \in SecondJobs /\ UNCHANGED vars /\ UNCHANGED at
    BY <1>7, SecondHandlerFrame
  <2>2. held[f] # j
    BY <2>1 DEF vars
  <2>3. at[f] # "none" => held[f] \in Jobs
    BY DEF RInv, HandlerPlace, IInv, Base, Bookkeeping
  <2>4. at[f] # "none" => run'[held[f]] = run[held[f]]
    BY <1>7, <2>2, <2>3, SecondHandlerFrame DEF RInv, RunTypes
  <2> QED BY <1>2, <2>1, <2>4
<1> QED BY <1>3, <1>4, <1>5, <1>6, <1>7 DEF RunNext, HandlerSide

\* In a timely system every handler of a run with one job stays in phase with it.
LEMMA PhasesInvariant == ASSUME Timely PROVE RunSpec => []Phases
<1>1. RunInit => Phases
  BY DEF RunInit, Phases, Phase
<1>2. NoOverlap /\ IInv /\ RInv /\ Phases /\ [RunNext]_allVars => Phases'
  BY NextPhases
<1>3. Spec => []NoOverlap
  BY Timely, HandlersDoNotOverlap
<1> QED BY <1>1, <1>2, <1>3, RunsUseLeases, IInvInvariant, RInvInvariant, PTL DEF RunSpec

\* In a timely system a run with one job only moves forward and stays as it
\* ended, although no status write of the orchestrator looks at the status it
\* replaces (orchestrator.py:1492).
THEOREM TimelyRunsMoveForward == ASSUME Timely PROVE RunSpec => MovesForward
<1>1. IInv /\ RInv /\ Phases /\ [RunNext]_allVars =>
        [\A j \in OneJobRuns : run'[j] # run[j] => Advances(j)]_allVars
  <2> SUFFICES ASSUME IInv, RInv, Phases, RunNext, NEW j \in Jobs, j \notin SecondJobs,
                      run'[j] # run[j]
               PROVE  Advances(j)
    BY DEF OneJobRuns
  <2>1. ASSUME NEW e \in Executors, HandlerSide(e) PROVE Advances(j)
    <3>1. held[e] = j
      BY <2>1, HandlerStepOnRun
    <3> QED BY <2>1, <3>1, HandlerStepPhase DEF Phases
  <2>2. ASSUME NEW k \in Jobs, RequestRun(k) PROVE Advances(j)
    BY <2>2 DEF RequestRun, Enqueue, SetRun, RInv, RunTypes, RunOfJob, Advances, NextStatus
  <2>3. ASSUME NEW k \in Jobs, SecondHandler(k) PROVE FALSE
    <3>1. k # j /\ run'[j] = run[j]
      BY <2>3, SecondHandlerFrame DEF RInv, RunTypes
    <3> QED BY <3>1
  <2> QED BY <2>1, <2>2, <2>3, ChildStepFrame, ExecutorStepKeepsRuns DEF RunNext, HandlerSide
<1> QED BY <1>1, RunsUseLeases, IInvInvariant, RInvInvariant, PhasesInvariant, PTL
        DEF RunSpec, MovesForward

\* In a timely system findings and snapshots of a run with one job appear only
\* while it is SYNTHESIZING, although the check and the commit are separate and the
\* snapshot is not checked at all (publish in findings.py and snapshots.py).
THEOREM TimelyPublication == ASSUME Timely PROVE RunSpec => PublishesWhileSynthesizing
<1>1. IInv /\ RInv /\ Phases /\ [RunNext]_allVars =>
        [\A j \in OneJobRuns : findings'[j] # findings[j] \/ snapshot'[j] # snapshot[j] =>
            run[j] = "synthesizing"]_allVars
  <2> SUFFICES ASSUME IInv, RInv, Phases, RunNext, NEW j \in Jobs, j \notin SecondJobs,
                      findings'[j] # findings[j] \/ snapshot'[j] # snapshot[j]
               PROVE  run[j] = "synthesizing"
    BY DEF OneJobRuns
  <2>1. ASSUME NEW e \in Executors, HandlerSide(e) PROVE run[j] = "synthesizing"
    <3>1. held[e] = j
      BY <2>1, HandlerStepPublishes
    <3> QED BY <2>1, <3>1, HandlerStepPhase DEF Phases
  <2>2. ASSUME NEW k \in Jobs, RequestRun(k) PROVE FALSE
    BY <2>2 DEF RequestRun
  <2> QED BY <2>1, <2>2, ChildStepFrame, SecondHandlerFrame, ExecutorStepKeepsRuns
          DEF RunNext, HandlerSide
<1> QED BY <1>1, RunsUseLeases, IInvInvariant, RInvInvariant, PhasesInvariant, PTL
        DEF RunSpec, PublishesWhileSynthesizing

-----------------------------------------------------------------------------
(* Completed jobs, where handlers do not overlap *)

\* The handler of executor e has returned, and its job is not settled yet.
Returned(e) == (pc[e] = "run" /\ hdl[e] = "returned") \/ pc[e] = "complete"

\* Between the last status write and the settlement of the job a restart, a
\* renewal and the executor's wake-up may come; the run has ended throughout.
Delivered ==
    /\ \A e \in Executors :
          Returned(e) /\ held[e] \notin SecondJobs => run[held[e]] \in TerminalRun
    /\ CompletedJobEndedRun

\* A handler returns from its last point, and only its executor, which has
\* kept the job, completes it.
LEMMA ReturnSteps ==
  ASSUME IInv, RInv, RunNext
  PROVE  /\ \A e \in Executors : Returned(e)' =>
               held'[e] = held[e] /\ held[e] \in Jobs /\ (Returned(e) \/ at[e] = "done")
         /\ \A j \in Jobs : status'[j] = "completed" /\ status[j] # "completed" =>
               \E e \in Executors : Returned(e) /\ held[e] = j
<1> DEFINE Stays(e) == Returned(e)' =>
               held'[e] = held[e] /\ held[e] \in Jobs /\ (Returned(e) \/ at[e] = "done")
           Opens == \A j \in Jobs : status'[j] = "completed" => status[j] = "completed"
<1> SUFFICES (\A e \in Executors : Stays(e))
             /\ (Opens \/ \E g \in Executors : /\ Returned(g)
                                              /\ \A j \in Jobs \ {held[g]} : status'[j] = status[j])
  <2>1. CASE Opens
    BY <2>1
  <2>2. CASE \E g \in Executors : Returned(g) /\ \A j \in Jobs \ {held[g]} : status'[j] = status[j]
    BY <2>2
  <2> QED BY <2>1, <2>2
<1>1. \A e \in Executors : Returned(e) => held[e] \in Jobs
  BY DEF Returned, IInv, Base, Bookkeeping, InFlight, Settling
<1> USE DEF IInv, Base, TypeOK
<1>2. ASSUME UNCHANGED vars PROVE (\A e \in Executors : Stays(e)) /\ Opens
  BY <1>1, <1>2 DEF vars, table, tasks, Returned
<1>3. ASSUME NEW j \in Jobs, RequestRun(j) PROVE (\A e \in Executors : Stays(e)) /\ Opens
  BY <1>1, <1>3 DEF RequestRun, Enqueue, tasks, Returned
<1>4. ASSUME NEW g \in Executors, StartHandler(g) PROVE (\A e \in Executors : Stays(e)) /\ Opens
  BY <1>1, <1>4 DEF StartHandler, CommitClaim, LeaseTo, Returned
<1>5. ASSUME NEW g \in Executors, EndHandler(g) PROVE (\A e \in Executors : Stays(e)) /\ Opens
  <2>1. at[g] \in {"done", "raised"} /\ pc[g] = "run" /\ held[g] \in Jobs
    BY <1>5 DEF EndHandler, At, Bookkeeping
  <2>2. UNCHANGED <<pc, held, status>>
    BY <1>5 DEF EndHandler, HandlerEnds, table
  <2>3. \/ at[g] = "done" /\ hdl' = [hdl EXCEPT ![g] = "returned"]
        \/ hdl' = [hdl EXCEPT ![g] = "raised"]
    BY <1>5 DEF EndHandler, HandlerEnds, At
  <2> QED BY <1>1, <2>1, <2>2, <2>3 DEF Returned
<1>6. ASSUME NEW g \in Executors, CancelHandler(g) \/ HandlerCancelled(g)
      PROVE  (\A e \in Executors : Stays(e)) /\ Opens
  BY <1>1, <1>6 DEF CancelHandler, HandlerCancelled, WakeLeaseLost, Cancelled, table, Returned
<1>7. ASSUME NEW w \in Workers, EndProcess(w) PROVE (\A e \in Executors : Stays(e)) /\ Opens
  BY <1>1, <1>7 DEF EndProcess, StopWorker, Crash, Vanish, table, Returned
<1>8. CASE Platform
  BY <1>1, <1>8 DEF Platform, StartWorker, Signal, Tick, table, tasks, Returned
<1>9. ASSUME NEW g \in Executors, BeginClaim(g) \/ LeaveLoop(g) \/ SelectNone(g) \/ SelectRow(g)
                                    \/ ClaimError(g)
      PROVE  (\A e \in Executors : Stays(e)) /\ Opens
  BY <1>1, <1>9 DEF BeginClaim, LeaveLoop, SelectNone, SelectRow, ClaimError, LeaseTo, table, tasks,
     Returned
<1>10. ASSUME NEW g \in Executors, Renewal(g) PROVE (\A e \in Executors : Stays(e)) /\ Opens
  BY <1>1, <1>10 DEF Renewal, RenewBegin, RenewExecute, RenewError, table, Returned
<1>11. ASSUME NEW g \in Executors, WakeHandlerDone(g) PROVE (\A e \in Executors : Stays(e)) /\ Opens
  BY <1>1, <1>11 DEF WakeHandlerDone, table, Returned
<1>12. ASSUME NEW g \in Executors, Settlement(g)
       PROVE  /\ \A e \in Executors : Stays(e)
              /\ Opens \/ (Returned(g) /\ \A j \in Jobs \ {held[g]} : status'[j] = status[j])
  <2>1. CASE Settle(g) \/ SettleError(g)
    <3>1. pc' \in {[pc EXCEPT ![g] = "drain"], [pc EXCEPT ![g] = "escape"]} /\ UNCHANGED <<held, hdl>>
      BY <2>1 DEF Settle, SettleError, tasks
    <3>2. UNCHANGED status \/ status' = [status EXCEPT ![held[g]] = Outcome(g)]
      BY <2>1 DEF Settle, SettleError, Close, table
    <3>3. pc[g] = "complete" \/ Outcome(g) = "failed"
      BY DEF Outcome
    <3>4. \A e \in Executors : Stays(e)
      BY <1>1, <3>1 DEF Returned
    <3> QED BY <3>2, <3>3, <3>4 DEF Returned
  <2>2. CASE RunEnds(g)
    BY <1>1, <2>2 DEF RunEnds, table, Returned
  <2> QED BY <1>12, <2>1, <2>2 DEF Settlement
<1>13. ASSUME NEW g \in Executors, Composed(g) \/ Elsewhere(g)
       PROVE  /\ \A e \in Executors : Stays(e)
              /\ Opens \/ (Returned(g) /\ \A j \in Jobs \ {held[g]} : status'[j] = status[j])
  <2>1. CASE Composed(g)
    BY <1>4, <1>5, <1>6, <2>1 DEF Composed
  <2>2. CASE Elsewhere(g)
    BY <1>9, <1>10, <1>11, <1>12, <2>2 DEF Elsewhere
  <2> QED BY <1>13, <2>1, <2>2
<1>14. ASSUME NEW g \in Executors, HandlerSide(g) PROVE (\A e \in Executors : Stays(e)) /\ Opens
  BY <1>2, <1>14, HandlerStepFrame
<1>15. ASSUME NEW j \in Jobs, NEW c \in Children, ChildStep(j, c) \/ ChildRaises(j, c)
       PROVE  (\A e \in Executors : Stays(e)) /\ Opens
  BY <1>2, <1>15, ChildStepFrame
<1>16. ASSUME NEW j \in Jobs, SecondHandler(j) PROVE (\A e \in Executors : Stays(e)) /\ Opens
  BY <1>2, <1>16, SecondHandlerFrame
<1> QED BY <1>3, <1>7, <1>8, <1>13, <1>14, <1>15, <1>16 DEF RunNext, HandlerSide

\* No step changes the status of a run with one job that has ended.
LEMMA EndedStays ==
  ASSUME IInv, RInv, Phases, RunNext, NEW j \in OneJobRuns, run[j] \in TerminalRun
  PROVE  run'[j] \in TerminalRun
<1> USE DEF OneJobRuns
<1>1. ASSUME NEW e \in Executors, HandlerSide(e) PROVE run'[j] \in TerminalRun
  <2>1. CASE j = held[e]
    <3>1. run'[j] # run[j] => Advances(j)
      BY <1>1, <2>1, HandlerStepPhase DEF Phases
    <3>2. ~Advances(j)
      BY DEF Advances, NextStatus, TerminalRun, Intermediate
    <3> QED BY <3>1, <3>2
  <2>2. CASE j # held[e]
    BY <1>1, <2>2, HandlerStepOnRun
  <2> QED BY <2>1, <2>2
<1>2. ASSUME NEW k \in Jobs, RequestRun(k) PROVE run'[j] \in TerminalRun
  <2>1. run[k] = "absent" /\ run' = [run EXCEPT ![k] = "queued"]
    BY <1>2 DEF RequestRun, Enqueue, SetRun, RInv, RunOfJob
  <2> QED BY <2>1 DEF TerminalRun, RInv, RunTypes
<1>3. ASSUME NEW k \in Jobs, SecondHandler(k) PROVE run'[j] = run[j]
  BY <1>3, SecondHandlerFrame DEF RInv, RunTypes
<1> QED BY <1>1, <1>2, <1>3, ChildStepFrame, ExecutorStepKeepsRuns DEF RunNext, HandlerSide

LEMMA NextDelivered ==
  IInv /\ RInv /\ Phases /\ Delivered /\ [RunNext]_allVars => Delivered'
<1> SUFFICES ASSUME IInv, RInv, Phases, Delivered, RunNext PROVE Delivered'
  BY DEF allVars, vars, table, tasks, runVars, rows, Delivered, Returned, CompletedJobEndedRun
<1>1. ASSUME NEW e \in Executors, Returned(e)', held'[e] \notin SecondJobs
      PROVE  run'[held'[e]] \in TerminalRun
  <2>1. held'[e] = held[e] /\ held[e] \in Jobs /\ (Returned(e) \/ at[e] = "done")
    BY <1>1, ReturnSteps
  <2>2. run[held[e]] \in TerminalRun /\ held[e] \in OneJobRuns
    BY <1>1, <2>1 DEF Delivered, Phases, Phase, OneJobRuns
  <2> QED BY <2>1, <2>2, EndedStays
<1>2. ASSUME NEW j \in OneJobRuns, status'[j] = "completed" PROVE run'[j] \in TerminalRun
  <2>1. CASE status[j] = "completed"
    BY <2>1, EndedStays DEF Delivered, CompletedJobEndedRun
  <2>2. CASE status[j] # "completed"
    <3>1. PICK e \in Executors : Returned(e) /\ held[e] = j
      BY <1>2, <2>2, ReturnSteps DEF OneJobRuns
    <3>2. run[j] \in TerminalRun
      BY <3>1 DEF Delivered, OneJobRuns
    <3> QED BY <3>2, EndedStays
  <2> QED BY <2>1, <2>2
<1> QED BY <1>1, <1>2 DEF Delivered, CompletedJobEndedRun

\* In a timely system a completed job tells the truth about a run that has no
\* other: the run has ended, and no later step of any handler undoes it.
THEOREM TimelyJobsComplete == ASSUME Timely PROVE RunSpec => []CompletedJobEndedRun
<1>1. RunInit => Delivered
  BY DEF RunInit, Init, Delivered, Returned, CompletedJobEndedRun, OneJobRuns
<1>2. IInv /\ RInv /\ Phases /\ Delivered /\ [RunNext]_allVars => Delivered'
  BY NextDelivered
<1>3. Delivered => CompletedJobEndedRun
  BY DEF Delivered
<1> QED BY <1>1, <1>2, <1>3, RunsUseLeases, IInvInvariant, RInvInvariant, PhasesInvariant, PTL
        DEF RunSpec

-----------------------------------------------------------------------------
(* Child coroutines, where leases last *)

LiveKids(j) == \E c \in Children : kid[j][c] \in ActiveKid

\* Where the executor that started a run may stand while children of the run
\* are alive: gather awaits them or has raised, and whatever comes after that
\* up to the end of the process happens while the job is still its own.
Awaited(e, j) ==
    \/ /\ pc[e] = "run" /\ held[e] = j
       /\ at[e] \in {"gather", "raised", "none"}
    \/ /\ pc[e] \in {"cancel"} \cup Settling /\ held[e] = j
       /\ at[e] \in {"raised", "none"}
    \/ pc[e] = "escape" /\ held[e] = j
    \/ pc[e] = "down" /\ worker[Home[e]] = "stopping"

Sheltering(e, j) ==
    /\ e \in Executors
    /\ worker[Home[e]] # "down"
    /\ status[j] \in Terminal \/ (LeaseLasts(e, j) /\ Awaited(e, j))

\* Children without a handler live on only where nobody else takes the run.
Sheltered == \A j \in OneJobRuns : LiveKids(j) => Sheltering(runner[j], j)

\* A run that nobody works on has neither live tasks nor live children, and a
\* handler at work knows which task of its run is alive, if the run has no
\* other job.
LiveAt(e, t) ==
    \/ t = Planner /\ at[e] \in {"plan", "planAsked"}
    \/ t = Synthesizer /\ at[e] \in {"synth", "synthAsked"}
    \/ /\ t \in Children /\ at[e] = "gather"
       /\ kid[held[e]][t] \in {"planned"} \cup ActiveKid

NoLiveTask(j) == \A t \in TaskIds : task[j][t] \notin LiveTask

Accounted(e) ==
    At(e, Working) => \A t \in TaskIds : task[held[e]][t] \in LiveTask => LiveAt(e, t)

Tidy ==
    /\ \A j \in OneJobRuns : run[j] \notin Intermediate => NoLiveTask(j) /\ ~LiveKids(j)
    /\ \A e \in Executors : held[e] \notin SecondJobs => Accounted(e)

\* What the lemmas below may assume of a state.
Orderly == IInv /\ RInv /\ TaskTypes /\ Phases /\ Lasting /\ Sheltered /\ Tidy

\* A patient system is timely.
LEMMA PatientIsTimely == Patient => Timely
BY ArithmeticFacts DEF Patient, Timely

\* A handler at work holds the lease of its run, and nobody else is at work
\* on it.
LEMMA WorkerHolds ==
  ASSUME Orderly, NEW e \in Executors, pc[e] = "run"
  PROVE  /\ held[e] \in Jobs /\ LeaseLasts(e, held[e])
         /\ worker[Home[e]] # "down"
         /\ held[e] \notin SecondJobs /\ LiveKids(held[e]) =>
               runner[held[e]] = e /\ at[e] \in {"gather", "raised", "none"}
<1>1. held[e] \in Jobs /\ LeaseLasts(e, held[e]) /\ worker[Home[e]] # "down"
  BY DEF Orderly, IInv, Base, Bookkeeping, Lasting, Keeping
<1>2. ASSUME LiveKids(held[e]), held[e] \notin SecondJobs
      PROVE  runner[held[e]] = e /\ at[e] \in {"gather", "raised", "none"}
  <2>1. Sheltering(runner[held[e]], held[e])
    BY <1>1, <1>2 DEF Orderly, Sheltered, OneJobRuns
  <2>2. status[held[e]] = "leased" /\ owner[held[e]] = e
    BY <1>1 DEF LeaseLasts
  <2>3. runner[held[e]] = e /\ Awaited(e, held[e])
    BY <2>1, <2>2 DEF Sheltering, LeaseLasts, Terminal
  <2> QED BY <2>3 DEF Awaited, Settling
<1> QED BY <1>1, <1>2

\* A handler step leaves every other run alone.
LEMMA HandlerStepElsewhere ==
  ASSUME IInv, RInv, TaskTypes, NEW e \in Executors, HandlerSide(e), NEW j \in Jobs, j # held[e]
  PROVE  task'[j] = task[j] /\ kid'[j] = kid[j]
<1> USE DEF TaskTypes, SetTask, rows
<1>1. CASE StartRun(e)
  BY <1>1 DEF StartRun, Terminalize
<1>2. CASE AskModel(e) \/ CostCeiling(e) \/ RepairAnswer(e) \/ ModelFails(e) \/ PlanAccepted(e)
  BY <1>2 DEF AskModel, CostCeiling, RepairAnswer, ModelFails, PlanAccepted
<1>3. CASE CreateChildTasks(e) \/ Gathering(e)
  BY <1>3 DEF CreateChildTasks, Gathering, NextWave, StopWaves, GatheringEnds
<1>4. CASE Publishing(e) \/ Ending(e) \/ HandlerError(e)
  BY <1>4 DEF Publishing, CreateSynthesisTask, SynthesisAccepted, PublishSnapshot, CheckFinding,
     CommitFinding, PublicationFails, Ending, FinishRun, EndRun, HandlerError
<1> QED BY <1>1, <1>2, <1>3, <1>4 DEF HandlerSide, HandlerStep, Planning

\* As long as children are planned there is a wave to start.
LEMMA WaveBegins ==
  ASSUME NEW kids, NEW c \in Children, kids[c] = "planned"
  PROVE  Wave(kids) # {}
<1> DEFINE planned == {d \in Children : kids[d] = "planned"}
           waveOf(d) == (d - 1) \div WaveSize
           waves == {waveOf(d) : d \in planned}
<1>1. \A d \in Children : waveOf(d) \in Nat
  BY RunsAssumption DEF Children
<1>2. waves \in SUBSET Nat /\ waves # {}
  BY <1>1
<1>3. PICK n \in waves : \A y \in waves : n <= y
  <2> HIDE DEF waves
  <2> QED BY <1>2, Least
<1>4. PICK d \in planned : n = waveOf(d)
  BY <1>3
<1>5. \A x \in Children : kids[x] = "planned" => waveOf(d) <= waveOf(x)
  BY <1>3, <1>4
<1>6. d \in Wave(kids)
  <2>1. d \in Children /\ kids[d] = "planned"
    BY <1>4
  <2> QED BY <1>5, <2>1 DEF Wave
<1> QED BY <1>6

\* Children come alive in a wave of a handler at gather, and a run does not
\* change hands while they live.
LEMMA KidsComeAlive ==
  ASSUME Orderly, RunNext, NEW j \in OneJobRuns, LiveKids(j)'
  PROVE  \/ LiveKids(j) /\ runner'[j] = runner[j]
         \/ \E e \in Executors : /\ CreateChildTasks(e) \/ NextWave(e)
                                 /\ held[e] = j
<1> USE DEF Orderly, OneJobRuns
<1> DEFINE Stays == LiveKids(j) /\ runner'[j] = runner[j]
<1>1. ASSUME NEW e \in Executors, HandlerSide(e), ~CreateChildTasks(e), ~NextWave(e)
      PROVE  Stays
  <2>1. \A c \in Children : kid'[j][c] \in ActiveKid => kid[j][c] \in ActiveKid
    <3>1. CASE StopWaves(e)
      BY <3>1 DEF StopWaves, TaskTypes, ActiveKid
    <3>2. CASE ~StopWaves(e)
      <4>1. kid' = kid
        BY <1>1, <3>2 DEF HandlerSide, HandlerStep, Planning, Gathering, Publishing, Ending,
           HandlerError, StartRun, AskModel, CostCeiling, RepairAnswer, ModelFails, PlanAccepted,
           GatheringEnds, CreateSynthesisTask, SynthesisAccepted, PublishSnapshot, CheckFinding,
           CommitFinding, PublicationFails, FinishRun, EndRun
      <4> QED BY <4>1
    <3> QED BY <3>1, <3>2
  <2>2. LiveKids(j)
    BY <2>1 DEF LiveKids
  <2>3. run[j] \in Intermediate
    BY <2>2 DEF Tidy
  <2>4. runner'[j] = runner[j]
    BY <1>1, <2>3, HandlerStepOnRun DEF Intermediate
  <2> QED BY <2>2, <2>4
<1>2. ASSUME NEW e \in Executors, HandlerSide(e), CreateChildTasks(e) \/ NextWave(e)
      PROVE  Stays \/ held[e] = j
  <2>1. CASE held[e] # j
    BY <1>2, <2>1, HandlerStepElsewhere, HandlerStepOnRun DEF LiveKids
  <2> QED BY <2>1
<1>3. ASSUME NEW k \in Jobs, NEW c \in Children, ChildStep(k, c) \/ ChildRaises(k, c)
      PROVE  Stays
  <2>1. PICK s : kid[k][c] \in ActiveKid /\ kid' = [kid EXCEPT ![k][c] = s]
    BY <1>3 DEF ChildStep, ChildAttempt, ChildEnds, ChildSettles, ChildRaises, ActiveKid
  <2>2. LiveKids(j)
    <3>1. CASE k = j
      BY <2>1, <3>1 DEF LiveKids
    <3>2. CASE k # j
      BY <2>1, <3>2 DEF LiveKids, TaskTypes
    <3> QED BY <3>1, <3>2
  <2> QED BY <1>3, <2>2, ChildStepFrame
<1>4. ASSUME \A c \in Children : kid'[j][c] \in ActiveKid => kid[j][c] \in ActiveKid,
             UNCHANGED runner
      PROVE  Stays
  BY <1>4 DEF LiveKids
<1>5. ASSUME NEW e \in Executors, CancelHandler(e) PROVE Stays
  BY <1>4, <1>5 DEF CancelHandler, Dying, ActiveKid
<1>6. ASSUME NEW w \in Workers, EndProcess(w) PROVE Stays
  BY <1>4, <1>6 DEF EndProcess, Dying, ActiveKid
<1>7. ASSUME NEW k \in Jobs, RequestRun(k) PROVE Stays
  BY <1>4, <1>7 DEF RequestRun, locals
<1>8. ASSUME NEW e \in Executors, Composed(e) \/ Elsewhere(e), ~CancelHandler(e) PROVE Stays
  BY <1>4, <1>8 DEF Composed, StartHandler, EndHandler, HandlerCancelled, Elsewhere, runVars, locals
<1>9. CASE Platform
  BY <1>4, <1>9 DEF Platform, runVars, locals
<1>10. ASSUME NEW k \in Jobs, SecondHandler(k) PROVE Stays
  BY <1>4, <1>10, SecondHandlerFrame
<1> QED BY <1>1, <1>2, <1>3, <1>5, <1>6, <1>7, <1>8, <1>9, <1>10 DEF RunNext, HandlerSide

\* What a lease is good for does not change by steps that leave it alone.
LEMMA LeaseUntouched ==
  ASSUME NEW e, NEW j, LeaseLasts(e, j),
         status'[j] = status[j], owner'[j] = owner[j], due'[j] = due[j],
         pc'[e] = pc[e], lag'[e] = lag[e], ren'[e] = ren[e], rtime'[e] = rtime[e]
  PROVE  LeaseLasts(e, j)'
BY DEF LeaseLasts, Ahead

\* Who starts a wave holds the run.
LEMMA WaveIsSheltered ==
  ASSUME Orderly, NEW e \in Executors, CreateChildTasks(e) \/ NextWave(e),
         NEW j \in Jobs, held[e] = j
  PROVE  Sheltering(runner[j], j)'
<1>1. At(e, {"create", "gather"}) /\ at'[e] = "gather" /\ HandlerSide(e)
  BY DEF CreateChildTasks, NextWave, At, GoTo, HandlerSide, HandlerStep, Planning, Gathering,
     Orderly, RInv, RunTypes
<1>2. UNCHANGED vars /\ runner' = runner
  BY <1>1, HandlerStepFrame DEF CreateChildTasks, NextWave
<1>3. /\ LeaseLasts(e, j) /\ worker[Home[e]] # "down" /\ runner[j] = e
  BY <1>1, WorkerHolds DEF At, Orderly, RInv, WorkerIsRunner, Working
<1>4. LeaseLasts(e, j)'
  BY <1>2, <1>3, LeaseUntouched DEF vars
<1>5. Awaited(e, j)'
  BY <1>1, <1>2 DEF Awaited, At, vars
<1> QED BY <1>2, <1>3, <1>4, <1>5 DEF Sheltering, vars

\* The job of a run with live children is settled for good, or nobody but its
\* runner settles or takes it.
LEMMA SettledStays ==
  ASSUME IInv, RunNext, NEW j \in Jobs, status[j] \in Terminal
  PROVE  status'[j] \in Terminal
<1>1. TableStep
  BY RunStepIsLeaseStep, NextTableStep
<1> QED BY <1>1 DEF TableStep, Enqueues, Takes, Settles, Terminal, IInv, Base, TypeOK

\* The executor that shelters children does not lose its process by itself.
LEMMA ProcessStays ==
  ASSUME Orderly, RunNext, NEW j \in Jobs, LiveKids(j)', NEW e \in Executors, runner[j] = e,
         worker[Home[e]] # "down"
  PROVE  /\ worker'[Home[e]] # "down"
         /\ worker[Home[e]] = "stopping" => worker'[Home[e]] = "stopping"
         /\ \A w \in Workers : EndProcess(w) => Home[e] # w
<1> USE ExecutorsAssumption DEF Orderly, IInv, Base, TypeOK, table, tasks
<1>1. ASSUME UNCHANGED worker
      PROVE  /\ worker'[Home[e]] # "down"
             /\ worker[Home[e]] = "stopping" => worker'[Home[e]] = "stopping"
  BY <1>1
<1>2. ASSUME NEW w \in Workers, EndProcess(w)
      PROVE  /\ Home[e] # w
             /\ worker'[Home[e]] = worker[Home[e]]
  <2>1. Home[e] # w
    <3>1. CASE Home[e] = w
      <4>1. kid'[j] = Dying(kid[j])
        BY <1>2, <3>1, NoneAssumption DEF EndProcess
      <4> QED BY <4>1 DEF LiveKids, Dying, ActiveKid
    <3> QED BY <3>1
  <2> QED BY <1>2, <2>1 DEF EndProcess, StopWorker, Crash, Vanish
<1>3. ASSUME NEW w \in Workers, StartWorker(w)
      PROVE  worker'[Home[e]] = worker[Home[e]]
  BY <1>3 DEF StartWorker
<1>4. ASSUME NEW w \in Workers, Signal(w)
      PROVE  /\ worker'[Home[e]] # "down"
             /\ worker[Home[e]] = "stopping" => worker'[Home[e]] = "stopping"
  BY <1>4 DEF Signal
<1>5. ASSUME NEW g \in Executors, Elsewhere(g)
      PROVE  /\ worker'[Home[e]] # "down"
             /\ worker[Home[e]] = "stopping" => worker'[Home[e]] = "stopping"
  <2>1. CASE RunEnds(g)
    <3>1. worker' = [worker EXCEPT ![Home[g]] = worker[Home[g]]]
            \/ worker' = [worker EXCEPT ![Home[g]] = "stopping"]
      BY <2>1 DEF RunEnds
    <3> QED BY <3>1
  <2>2. CASE ~RunEnds(g)
    <3>1. UNCHANGED worker
      BY <1>5, <2>2 DEF Elsewhere, BeginClaim, LeaveLoop, SelectNone, SelectRow, ClaimError,
         Renewal, RenewBegin, RenewExecute, RenewError, WakeHandlerDone, Settlement, Settle,
         SettleError
    <3> QED BY <1>1, <3>1
  <2> QED BY <2>1, <2>2
<1>6. ASSUME NEW g \in Executors, Composed(g) PROVE UNCHANGED worker
  BY <1>6 DEF Composed, StartHandler, CommitClaim, EndHandler, HandlerEnds, CancelHandler,
     WakeLeaseLost, HandlerCancelled, Cancelled
<1>7. ASSUME NEW g \in Executors, HandlerSide(g) PROVE UNCHANGED worker
  BY <1>7, HandlerStepFrame DEF vars
<1>8. ASSUME NEW k \in Jobs, NEW c \in Children, ChildStep(k, c) \/ ChildRaises(k, c)
      PROVE  UNCHANGED worker
  BY <1>8, ChildStepFrame DEF vars
<1>9. ASSUME NEW k \in Jobs, RequestRun(k) PROVE UNCHANGED worker
  BY <1>9 DEF RequestRun, Enqueue
<1>10. ASSUME Tick PROVE UNCHANGED worker
  BY <1>10 DEF Tick
<1>11. ASSUME NEW k \in Jobs, SecondHandler(k) PROVE UNCHANGED worker
  BY <1>11, SecondHandlerFrame DEF vars
<1> QED BY <1>1, <1>2, <1>3, <1>4, <1>5, <1>6, <1>7, <1>8, <1>9, <1>10, <1>11
        DEF RunNext, HandlerSide, Platform

\* Steps that leave the executor of live children where it is.
LEMMA AwaitedStays ==
  ASSUME Orderly, RunNext, NEW j \in Jobs, LiveKids(j)', NEW e \in Executors, runner[j] = e,
         worker[Home[e]] # "down", Awaited(e, j),
         pc'[e] = pc[e], held'[e] = held[e], at'[e] = at[e] \/ at'[e] = "raised"
  PROVE  Awaited(e, j)'
<1>1. worker[Home[e]] = "stopping" => worker'[Home[e]] = "stopping"
  BY ProcessStays
<1> QED BY <1>1 DEF Awaited, Settling

\* The runner's own executor steps keep the lease, or settle the job.
LEMMA RunnerSteps ==
  ASSUME Orderly, Patient, NEW e \in Executors, Composed(e) \/ Elsewhere(e), RunNext,
         NEW j \in Jobs, LiveKids(j)', runner[j] = e,
         worker[Home[e]] # "down", LeaseLasts(e, j), Awaited(e, j)
  PROVE  status'[j] \in Terminal \/ (LeaseLasts(e, j)' /\ Awaited(e, j)')
<1> USE DEF Orderly
<1>1. ExecutorStep(e)
  BY DEF Composed, StartHandler, EndHandler, CancelHandler, HandlerCancelled, Elsewhere,
     ExecutorStep, Claim, Renewal, Handling, Settlement
<1>2. pc[e] # "down"
  BY DEF Composed, StartHandler, EndHandler, CancelHandler, HandlerCancelled, Elsewhere,
     Renewal, Settlement, BeginClaim, LeaveLoop, SelectNone,
     SelectRow, CommitClaim, ClaimError, RenewBegin, RenewExecute, RenewError, HandlerEnds,
     WakeLeaseLost, Cancelled, WakeHandlerDone, Settle, SettleError, RunEnds, IInv, Base,
     Bookkeeping, Settling
<1>3. held[e] = j /\ pc[e] \in Keeping \cup {"escape"}
  BY <1>2 DEF Awaited, Keeping
<1>4. LeaseLasts(e, j)' \/ status'[j] \in Terminal
  BY <1>1, <1>3, OwnerLasts
<1>5. ASSUME LeaseLasts(e, j)' PROVE Awaited(e, j)'
  <2> USE <1>3 DEF IInv, Base, TypeOK, RInv, RunTypes, Keeping, Settling, table, tasks
  <2>1. ASSUME BeginClaim(e) \/ LeaveLoop(e) \/ SelectNone(e) \/ SelectRow(e) \/ ClaimError(e)
                 \/ StartHandler(e)
        PROVE  FALSE
    BY <2>1 DEF BeginClaim, LeaveLoop, SelectNone, SelectRow, ClaimError, StartHandler,
       CommitClaim
  <2>2. CASE Renewal(e) /\ UNCHANGED runVars
    <3>1. UNCHANGED <<pc, held, at>>
      BY <2>2 DEF Renewal, RenewBegin, RenewExecute, RenewError, runVars, locals
    <3> QED BY <3>1, AwaitedStays
  <2>3. CASE EndHandler(e)
    <3>1. pc[e] = "run" /\ pc' = pc /\ held' = held /\ at'[e] = "none"
      BY <2>3 DEF EndHandler, HandlerEnds, At, GoTo
    <3> QED BY <3>1 DEF Awaited
  <2>4. CASE CancelHandler(e)
    <3>1. pc[e] = "run" /\ pc'[e] = "cancel" /\ held' = held /\ at' = at
      BY <2>4 DEF CancelHandler, WakeLeaseLost
    <3>2. at[e] # "gather"
      <4>1. CASE at[e] = "gather"
        <5>1. kid'[j] = Dying(kid[j])
          BY <2>4, <4>1 DEF CancelHandler
        <5> QED BY <5>1 DEF LiveKids, Dying, ActiveKid
      <4> QED BY <4>1
    <3> QED BY <3>1, <3>2 DEF Awaited
  <2>5. CASE HandlerCancelled(e)
    <3>1. pc'[e] = "fail" /\ held' = held /\ at'[e] = "none"
      BY <2>5 DEF HandlerCancelled, Cancelled, GoTo
    <3> QED BY <3>1 DEF Awaited
  <2>6. CASE WakeHandlerDone(e) /\ UNCHANGED runVars
    <3>1. /\ pc[e] = "run" /\ hdl[e] # "running"
          /\ pc'[e] \in {"complete", "fail"} /\ held' = held /\ at' = at
      BY <2>6 DEF WakeHandlerDone, runVars, locals
    <3>2. at[e] = "none"
      BY <3>1 DEF HandlerPlace
    <3> QED BY <3>1, <3>2 DEF Awaited
  <2>7. CASE Settle(e)
    <3>1. pc'[e] = "escape" \/ status' = [status EXCEPT ![j] = Outcome(e)]
      BY <2>7 DEF Settle, Close
    <3>2. status'[j] = "leased"
      BY <1>5 DEF LeaseLasts
    <3>3. pc'[e] = "escape" /\ held' = held
      BY <2>7, <3>1, <3>2 DEF Settle, Outcome
    <3> QED BY <3>3 DEF Awaited
  <2>8. CASE SettleError(e)
    <3>1. pc'[e] = "escape" /\ held' = held
      BY <2>8 DEF SettleError
    <3> QED BY <3>1 DEF Awaited
  <2>9. CASE RunEnds(e)
    <3>1. pc[e] = "escape" /\ pc'[e] = "down" /\ worker'[Home[e]] = "stopping"
      BY <2>9, ExecutorsAssumption DEF RunEnds
    <3> QED BY <3>1 DEF Awaited
  <2> QED BY <2>1, <2>2, <2>3, <2>4, <2>5, <2>6, <2>7, <2>8, <2>9
          DEF Composed, Elsewhere, Settlement
<1> QED BY <1>4, <1>5

\* The executor of live children keeps their job, wherever its own step or
\* another's takes it.
LEMMA SheltersOn ==
  ASSUME Patient, Orderly, RunNext, NEW j \in Jobs, LiveKids(j), LiveKids(j)',
         NEW e \in Executors, runner[j] = e, worker[Home[e]] # "down",
         LeaseLasts(e, j), Awaited(e, j)
  PROVE  status'[j] \in Terminal \/ (LeaseLasts(e, j)' /\ Awaited(e, j)')
<1>1. \A w \in Workers : EndProcess(w) => Home[e] # w
  BY ProcessStays
<1>2. ASSUME UNCHANGED vars, at'[e] = at[e] \/ at'[e] = "raised"
      PROVE  LeaseLasts(e, j)' /\ Awaited(e, j)'
  <2>1. LeaseLasts(e, j)'
    BY <1>2, LeaseUntouched DEF vars
  <2>2. Awaited(e, j)'
    BY <1>2 DEF vars, Awaited, Settling
  <2> QED BY <2>1, <2>2
<1>3. ASSUME NEW g \in Executors, HandlerSide(g) PROVE LeaseLasts(e, j)' /\ Awaited(e, j)'
  <2>1. at'[e] = at[e]
    <3>1. CASE g = e
      <4>1. pc[e] = "run" /\ hdl[e] = "running" /\ held[e] = j
        BY <1>3, <3>1 DEF HandlerSide, HandlerStep, Planning, Gathering, Publishing, Ending,
           HandlerError, StartRun, AskModel, CostCeiling, RepairAnswer, ModelFails,
           PlanAccepted, CreateChildTasks, NextWave, StopWaves, GatheringEnds,
           CreateSynthesisTask, SynthesisAccepted, PublishSnapshot, CheckFinding,
           CommitFinding, PublicationFails, FinishRun, EndRun, At, Awaited, Settling
      <4>2. at[e] \in {"gather", "raised", "none"} /\ ~WaveSettled(j)
        BY <4>1 DEF Awaited, Settling, LiveKids, WaveSettled
      <4> QED BY <1>3, <3>1, <4>1, <4>2 DEF HandlerSide, HandlerStep, Planning, Gathering,
             Publishing, Ending, HandlerError, StartRun, AskModel, CostCeiling, RepairAnswer,
             ModelFails, PlanAccepted, CreateChildTasks, NextWave, StopWaves, GatheringEnds,
             CreateSynthesisTask, SynthesisAccepted, PublishSnapshot, CheckFinding,
             CommitFinding, PublicationFails, FinishRun, EndRun, At, Working
    <3>2. CASE g # e
      BY <1>3, <3>2, HandlerStepMoves DEF Orderly, RInv
    <3> QED BY <3>1, <3>2
  <2> QED BY <1>2, <1>3, <2>1, HandlerStepFrame
<1>4. ASSUME NEW k \in Jobs, NEW c \in Children, ChildStep(k, c) \/ ChildRaises(k, c)
      PROVE  LeaseLasts(e, j)' /\ Awaited(e, j)'
  BY <1>2, <1>4, ChildStepFrame, ChildStepMoves DEF Orderly, RInv
<1>5. ASSUME UNCHANGED <<pc[e], held[e], lag[e], ren[e], rtime[e], at[e]>>,
             UNCHANGED <<status[j], owner[j], due[j]>>
      PROVE  LeaseLasts(e, j)' /\ Awaited(e, j)'
  <2>1. LeaseLasts(e, j)'
    BY <1>5, LeaseUntouched
  <2>2. Awaited(e, j)'
    BY <1>5, AwaitedStays
  <2> QED BY <2>1, <2>2
<1>6. ASSUME NEW k \in Jobs, RequestRun(k) PROVE LeaseLasts(e, j)' /\ Awaited(e, j)'
  <2>1. k # j /\ UNCHANGED <<pc, held, lag, ren, rtime, at, owner>>
    BY <1>6 DEF RequestRun, Enqueue, locals, tasks, LeaseLasts
  <2>2. status'[j] = status[j] /\ due'[j] = due[j]
    BY <1>6, <2>1 DEF RequestRun, Enqueue, Orderly, IInv, Base, TypeOK
  <2> QED BY <1>5, <2>1, <2>2
<1>7. ASSUME NEW g \in Executors, Composed(g) \/ Elsewhere(g), g # e
      PROVE  LeaseLasts(e, j)' /\ Awaited(e, j)'
  <2>1. ExecutorStep(g)
    BY <1>7 DEF Composed, StartHandler, EndHandler, CancelHandler, HandlerCancelled, Elsewhere,
       ExecutorStep, Claim, Renewal, Handling, Settlement
  <2>2. LeaseLasts(e, j)'
    BY <1>7, <2>1, OthersLast DEF Orderly
  <2>3. pc'[e] = pc[e] /\ held'[e] = held[e]
    BY <1>7, <2>1, OthersStay DEF Orderly, IInv
  <2>4. at'[e] = at[e]
    BY <1>7 DEF Composed, StartHandler, EndHandler, CancelHandler, HandlerCancelled, GoTo,
       Elsewhere, runVars, locals, Orderly, RInv, RunTypes
  <2> QED BY <2>2, <2>3, <2>4, AwaitedStays
<1>8. ASSUME Composed(e) \/ Elsewhere(e)
      PROVE  status'[j] \in Terminal \/ (LeaseLasts(e, j)' /\ Awaited(e, j)')
  BY <1>8, RunnerSteps
<1>9. ASSUME NEW w \in Workers, EndProcess(w) PROVE LeaseLasts(e, j)' /\ Awaited(e, j)'
  <2>1. Home[e] # w
    BY <1>1, <1>9
  <2> QED BY <1>5, <1>9, <2>1 DEF EndProcess, StopWorker, Crash, Vanish, table
<1>10. ASSUME NEW w \in Workers, StartWorker(w) \/ Signal(w), UNCHANGED runVars
      PROVE  LeaseLasts(e, j)' /\ Awaited(e, j)'
  <2>1. w # Home[e] \/ ~StartWorker(w)
    BY DEF StartWorker
  <2> QED BY <1>5, <1>10, <2>1 DEF StartWorker, Signal, table, tasks, runVars, locals
<1>11. ASSUME Tick, MayStall \/ PromptTeardown, UNCHANGED runVars
      PROVE  LeaseLasts(e, j)' /\ Awaited(e, j)'
  <2>1. pc[e] \in Keeping \/ ren[e] = "renewing"
    <3>1. PromptTeardown /\ owner[j] = e /\ runner[j] = e
      BY <1>11 DEF Patient, LeaseLasts
    <3>2. pc[e] \in Keeping \cup {"escape", "down"}
      BY DEF Awaited, Keeping
    <3>3. ~(pc[e] \in {"escape", "down"} /\ ren[e] # "renewing")
      BY <3>1 DEF PromptTeardown, LiveKids
    <3> QED BY <3>2, <3>3
  <2>2. LeaseLasts(e, j)'
    BY <1>11, <2>1, TickLasts DEF Orderly
  <2>3. UNCHANGED <<pc, held, at, worker>>
    BY <1>11 DEF Tick, runVars, locals
  <2> QED BY <2>2, <2>3 DEF Awaited
<1>12. ASSUME NEW k \in Jobs, SecondHandler(k) PROVE LeaseLasts(e, j)' /\ Awaited(e, j)'
  BY <1>2, <1>12, SecondHandlerFrame
<1> QED BY <1>3, <1>4, <1>6, <1>7, <1>8, <1>9, <1>10, <1>11, <1>12
        DEF RunNext, HandlerSide, Platform

\* Sheltered is preserved by every step of a patient system.
LEMMA NextSheltered == Patient /\ Orderly /\ [RunNext]_allVars => Sheltered'
<1> SUFFICES ASSUME Patient, Orderly, RunNext, NEW j \in OneJobRuns, LiveKids(j)'
             PROVE  Sheltering(runner[j], j)'
  BY DEF Orderly, Sheltered, allVars, vars, runVars, rows, locals, LiveKids, Sheltering,
     LeaseLasts, Ahead, Awaited
<1> USE DEF OneJobRuns
<1>1. CASE \E g \in Executors : (CreateChildTasks(g) \/ NextWave(g)) /\ held[g] = j
  BY <1>1, WaveIsSheltered
<1>2. CASE LiveKids(j) /\ runner'[j] = runner[j]
  <2>1. Sheltering(runner[j], j)
    BY <1>2 DEF Orderly, Sheltered
  <2>2. PICK e \in Executors : e = runner[j]
    BY <2>1 DEF Sheltering
  <2>3. worker[Home[e]] # "down" /\ (status[j] \in Terminal \/ (LeaseLasts(e, j) /\ Awaited(e, j)))
    BY <2>1, <2>2 DEF Sheltering
  <2>4. worker'[Home[e]] # "down"
    BY <2>2, <2>3, ProcessStays
  <2>5. status'[j] \in Terminal \/ (LeaseLasts(e, j)' /\ Awaited(e, j)')
    BY <1>2, <2>2, <2>3, SettledStays, SheltersOn DEF Orderly
  <2>6. Sheltering(e, j)'
    BY <2>4, <2>5 DEF Sheltering
  <2> QED BY <1>2, <2>2, <2>6 DEF Sheltering, LeaseLasts, Ahead, Awaited
<1> QED BY <1>1, <1>2, KidsComeAlive

-----------------------------------------------------------------------------
(* Live tasks, where leases last *)

\* Tasks of the main model, of children and of the synthesis are different.
LEMMA TasksDiffer ==
    /\ Planner \in TaskIds /\ Synthesizer \in TaskIds /\ Planner # Synthesizer
    /\ \A c \in Children : c \in TaskIds /\ c # Planner /\ c # Synthesizer
BY RunsAssumption DEF Planner, Synthesizer, Children, TaskIds

\* What a handler knows of its run before it takes a step.
LEMMA AtWork ==
  ASSUME Orderly, NEW e \in Executors, HandlerSide(e)
  PROVE  /\ held[e] \in Jobs /\ pc[e] = "run" /\ at[e] # "none"
         /\ at[e] \in Working => At(e, Working)
         /\ held[e] \notin SecondJobs /\ at[e] \in Working =>
               \A t \in TaskIds : task[held[e]][t] \in LiveTask => LiveAt(e, t)
         /\ held[e] \notin SecondJobs /\ at[e] \notin {"gather", "raised"} => ~LiveKids(held[e])
<1>1. pc[e] = "run" /\ hdl[e] = "running" /\ at[e] # "none"
  BY DEF HandlerSide, HandlerStep, Planning, Gathering, Publishing, Ending, HandlerError,
     StartRun, AskModel, CostCeiling, RepairAnswer, ModelFails, PlanAccepted,
     CreateChildTasks, NextWave, StopWaves, GatheringEnds, CreateSynthesisTask,
     SynthesisAccepted, PublishSnapshot, CheckFinding, CommitFinding, PublicationFails,
     FinishRun, EndRun, At, Working
<1>2. /\ held[e] \in Jobs
      /\ held[e] \notin SecondJobs /\ at[e] \notin {"gather", "raised"} => ~LiveKids(held[e])
  BY <1>1, WorkerHolds
<1>3. at[e] \in Working => At(e, Working)
  BY <1>1 DEF At
<1> QED BY <1>1, <1>2, <1>3 DEF Orderly, Tidy, Accounted

\* One task changes its status.
LEMMA OneTask ==
  ASSUME TaskTypes, NEW j \in Jobs, NEW t \in TaskIds, NEW s, SetTask(j, t, s)
  PROVE  task'[j][t] = s /\ \A u \in TaskIds \ {t} : task'[j][u] = task[j][u]
BY DEF TaskTypes, SetTask

\* What a step of a handler must leave behind for Tidy.
Leaves(e, j) ==
    /\ run'[j] \notin Intermediate => NoLiveTask(j)' /\ ~LiveKids(j)'
    /\ at'[e] \in Working =>
          \A t \in TaskIds : task'[j][t] \in LiveTask =>
             \/ t = Planner /\ at'[e] \in {"plan", "planAsked"}
             \/ t = Synthesizer /\ at'[e] \in {"synth", "synthAsked"}
             \/ t \in Children /\ at'[e] = "gather" /\ kid'[j][t] \in {"planned"} \cup ActiveKid

LEMMA StartLeaves ==
  ASSUME Orderly, NEW e \in Executors, StartRun(e), NEW j \in OneJobRuns, held[e] = j
  PROVE  Leaves(e, j)
<1> USE DEF Orderly, RInv, RunTypes, TaskTypes, OneJobRuns
<1>1. HandlerSide(e) /\ at[e] = "start"
  BY DEF HandlerSide, HandlerStep, Planning, StartRun, At
<1>2. ~LiveKids(j)
  BY <1>1, AtWork
<1>3. ~LiveKids(j)'
  BY <1>2 DEF LiveKids, StartRun
<1>4. ASSUME NoLiveTask(j)', at'[e] = "done" PROVE Leaves(e, j)
  BY <1>3, <1>4 DEF Leaves, Working
<1>5. ASSUME run[j] \notin Intermediate PROVE NoLiveTask(j)
  BY <1>5 DEF Tidy
<1>6. CASE Terminalize(j) /\ GoTo(e, "done")
  <2>1. \A t \in TaskIds : task'[j][t] =
           CASE task[j][t] = "running" -> "failed"
             [] task[j][t] = "queued" -> "cancelled"
             [] OTHER -> task[j][t]
    BY <1>6 DEF Terminalize
  <2>2. \A t \in TaskIds : task'[j][t] \notin LiveTask
    BY <2>1 DEF LiveTask
  <2> QED BY <1>4, <1>6, <2>2 DEF NoLiveTask, GoTo
<1>7. CASE run[j] \notin Intermediate /\ UNCHANGED task /\ GoTo(e, "done")
  BY <1>4, <1>5, <1>7 DEF NoLiveTask, GoTo
<1>8. CASE run[j] = "queued" /\ SetRun(j, "planning") /\ SetTask(j, Planner, "running") /\ GoTo(e, "plan")
  <2>1. at'[e] = "plan" /\ run'[j] = "planning"
    BY <1>8 DEF GoTo, SetRun
  <2>2. \A t \in TaskIds \ {Planner} : task'[j][t] \notin LiveTask
    BY <1>5, <1>8, OneTask, TasksDiffer DEF NoLiveTask, Intermediate
  <2> QED BY <2>1, <2>2 DEF Leaves, Intermediate
<1> QED BY <1>6, <1>7, <1>8 DEF StartRun, TerminalRun, Intermediate

\* A step of a handler at work that ends no run: the task it sets is the one
\* its program point is about.
LEMMA MainLeaves ==
  ASSUME Orderly, NEW e \in Executors, NEW j \in OneJobRuns, held[e] = j,
         \/ AskModel(e) \/ CostCeiling(e) \/ RepairAnswer(e) \/ ModelFails(e)
         \/ PlanAccepted(e) \/ CreateSynthesisTask(e) \/ SynthesisAccepted(e)
  PROVE  Leaves(e, j)
<1> USE DEF Orderly, RInv, RunTypes, At, GoTo, OneJobRuns
<1>1. HandlerSide(e) /\ at[e] \in Working /\ at[e] # "gather"
  BY DEF HandlerSide, HandlerStep, Planning, Publishing, AskModel, CostCeiling, RepairAnswer,
     ModelFails, PlanAccepted, CreateSynthesisTask, SynthesisAccepted, Working
<1>2. run'[j] \in Intermediate
  <2>1. CASE CreateSynthesisTask(e)
    BY <2>1 DEF CreateSynthesisTask, SetRun, Intermediate
  <2>2. CASE ~CreateSynthesisTask(e)
    <3>1. run' = run
      BY <2>2 DEF AskModel, CostCeiling, RepairAnswer, ModelFails, PlanAccepted, SynthesisAccepted,
         rows
    <3>2. run[j] \in Intermediate
      <4>1. Phase(e) /\ at[e] \in {"plan", "planAsked", "synth", "synthAsked"}
        BY <2>2 DEF Phases, AskModel, CostCeiling, RepairAnswer, ModelFails, PlanAccepted,
           SynthesisAccepted
      <4> QED BY <4>1 DEF Phase, Intermediate
    <3> QED BY <3>1, <3>2
  <2> QED BY <2>1, <2>2
<1>3. \A t \in TaskIds : task[j][t] \in LiveTask =>
         \/ t = Planner /\ at[e] \in {"plan", "planAsked"}
         \/ t = Synthesizer /\ at[e] \in {"synth", "synthAsked"}
  BY <1>1, AtWork DEF LiveAt
<1>4. CASE RepairAnswer(e)
  BY <1>2, <1>3, <1>4 DEF Leaves, RepairAnswer, rows
<1>5. CASE AskModel(e) \/ CostCeiling(e) \/ ModelFails(e)
  <2>1. /\ MainTask(e) \in {Planner, Synthesizer}
        /\ MainTask(e) = Planner <=> at[e] \in {"plan", "planAsked"}
        /\ at[e] \in {"plan", "planAsked", "synth", "synthAsked"}
    BY <1>5, TasksDiffer DEF MainTask, AskModel, CostCeiling, ModelFails
  <2>2. \/ /\ SetTask(j, MainTask(e), "running")
           /\ at'[e] = IF at[e] = "plan" THEN "planAsked" ELSE "synthAsked"
           /\ at[e] \in {"plan", "synth"}
        \/ \E s \in {"cancelled", "failed"} : SetTask(j, MainTask(e), s) /\ at'[e] \in {"fail", "partial"}
    BY <1>5 DEF AskModel, CostCeiling, ModelFails
  <2>3. \A t \in TaskIds \ {MainTask(e)} : task'[j][t] = task[j][t]
    BY <2>1, <2>2, OneTask, TasksDiffer
  <2>4. \A t \in TaskIds \ {MainTask(e)} : task'[j][t] \notin LiveTask
    BY <1>3, <2>1, <2>3
  <2>5. CASE SetTask(j, MainTask(e), "running")
              /\ at'[e] = (IF at[e] = "plan" THEN "planAsked" ELSE "synthAsked")
              /\ at[e] \in {"plan", "synth"}
    BY <1>2, <2>1, <2>4, <2>5 DEF Leaves
  <2>6. ASSUME NEW s \in {"cancelled", "failed"}, SetTask(j, MainTask(e), s)
        PROVE  Leaves(e, j)
    <3>1. task'[j][MainTask(e)] \notin LiveTask
      BY <2>1, <2>6, OneTask, TasksDiffer DEF LiveTask
    <3> QED BY <1>2, <2>4, <3>1 DEF Leaves
  <2> QED BY <2>2, <2>5, <2>6
<1>6. CASE PlanAccepted(e) \/ SynthesisAccepted(e)
  <2>1. PICK t \in {Planner, Synthesizer} :
           /\ SetTask(j, t, "succeeded")
           /\ t = Planner <=> at[e] = "planAsked"
           /\ at[e] \in {"planAsked", "synthAsked"}
    BY <1>6, TasksDiffer DEF PlanAccepted, SynthesisAccepted
  <2>2. \A u \in TaskIds \ {t} : task'[j][u] = task[j][u]
    BY <2>1, OneTask, TasksDiffer
  <2>3. task'[j][t] \notin LiveTask
    BY <2>1, OneTask, TasksDiffer DEF LiveTask
  <2>4. \A u \in TaskIds : task'[j][u] \notin LiveTask
    BY <1>3, <2>1, <2>2, <2>3
  <2> QED BY <1>2, <2>4 DEF Leaves
<1>7. CASE CreateSynthesisTask(e)
  <2>1. /\ SetTask(j, Synthesizer, "running") /\ at[e] = "synthesize" /\ at'[e] = "synth"
    BY <1>7 DEF CreateSynthesisTask
  <2>2. \A u \in TaskIds \ {Synthesizer} : task'[j][u] \notin LiveTask
    BY <1>3, <2>1, OneTask, TasksDiffer
  <2> QED BY <1>2, <2>1, <2>2 DEF Leaves
<1> QED BY <1>4, <1>5, <1>6, <1>7

\* The waves: a child task is alive while its child is planned or active.
LEMMA WavesLeave ==
  ASSUME Orderly, NEW e \in Executors, NEW j \in OneJobRuns, held[e] = j,
         CreateChildTasks(e) \/ Gathering(e)
  PROVE  Leaves(e, j)
<1> USE DEF Orderly, RInv, RunTypes, TaskTypes, At, GoTo, OneJobRuns
<1>1. HandlerSide(e) /\ at[e] \in {"create", "gather"} /\ at[e] \in Working
  BY DEF HandlerSide, HandlerStep, Planning, Gathering, CreateChildTasks, NextWave, StopWaves,
     GatheringEnds, Working
<1>2. run'[j] \in Intermediate
  <2>1. CASE CreateChildTasks(e)
    BY <2>1 DEF CreateChildTasks, SetRun, Intermediate
  <2>2. CASE Gathering(e)
    <3>1. run' = run /\ at[e] = "gather"
      BY <2>2 DEF Gathering, NextWave, StopWaves, GatheringEnds, rows
    <3> QED BY <3>1 DEF Phases, Phase, Intermediate
  <2> QED BY <2>1, <2>2
<1>3. \A t \in TaskIds : task[j][t] \in LiveTask =>
         t \in Children /\ at[e] = "gather" /\ kid[j][t] \in {"planned"} \cup ActiveKid
  BY <1>1, AtWork DEF LiveAt
<1>4. \A t \in Children : t \in TaskIds
  BY TasksDiffer
<1>5. CASE CreateChildTasks(e)
  <2>1. at'[e] = "gather" /\ at[e] = "create"
    BY <1>5 DEF CreateChildTasks
  <2>2. kid'[j] = StartWave([c \in Children |-> "planned"])
    BY <1>5 DEF CreateChildTasks
  <2>3. \A c \in Children : kid'[j][c] \in {"planned", "waiting"}
    BY <2>2 DEF StartWave
  <2>4. \A t \in TaskIds \ Children : task'[j][t] = task[j][t]
    BY <1>5 DEF CreateChildTasks
  <2> QED BY <1>2, <1>3, <2>1, <2>3, <2>4 DEF Leaves, ActiveKid
<1>6. CASE NextWave(e)
  <2>1. at'[e] = "gather" /\ task' = task
    BY <1>6 DEF NextWave, rows
  <2>2. kid'[j] = StartWave(kid[j])
    BY <1>6 DEF NextWave
  <2>3. \A c \in Children : kid[j][c] \in {"planned"} \cup ActiveKid =>
           kid'[j][c] \in {"planned"} \cup ActiveKid
    BY <2>2 DEF StartWave, ActiveKid
  <2> QED BY <1>2, <1>3, <2>1, <2>3 DEF Leaves
<1>7. CASE StopWaves(e)
  <2>1. \A c \in Children : kid[j][c] \notin ActiveKid
    BY <1>7 DEF StopWaves, WaveSettled
  <2>2. \A t \in TaskIds : task'[j][t] =
           IF t \in {c \in Children : kid[j][c] = "planned"} THEN "cancelled" ELSE task[j][t]
    BY <1>7 DEF StopWaves
  <2>3. \A t \in TaskIds : task'[j][t] \notin LiveTask
    BY <1>3, <2>1, <2>2 DEF LiveTask
  <2> QED BY <1>2, <2>3 DEF Leaves
<1>8. CASE GatheringEnds(e)
  <2>1. \A c \in Children : kid[j][c] \notin ActiveKid
    BY <1>8 DEF GatheringEnds, WaveSettled
  <2>2. \A c \in Children : kid[j][c] # "planned"
    BY <1>8, WaveBegins DEF GatheringEnds
  <2>3. task' = task
    BY <1>8 DEF GatheringEnds, rows
  <2> QED BY <1>2, <1>3, <2>1, <2>2, <2>3 DEF Leaves
<1> QED BY <1>5, <1>6, <1>7, <1>8 DEF Gathering

\* Publication and the ends of a run: no task is alive any more.
LEMMA EndsLeave ==
  ASSUME Orderly, NEW e \in Executors, NEW j \in OneJobRuns, held[e] = j,
         \/ PublishSnapshot(e) \/ CheckFinding(e) \/ CommitFinding(e) \/ PublicationFails(e)
         \/ Ending(e)
  PROVE  Leaves(e, j)
<1>1. HandlerSide(e) /\ at[e] \in {"snapshot", "publish", "commit", "fail", "partial"}
  BY DEF HandlerSide, HandlerStep, Publishing, PublishSnapshot, CheckFinding, CommitFinding,
     PublicationFails, Ending, FinishRun, EndRun, At
<1>2. NoLiveTask(j) /\ ~LiveKids(j)
  BY <1>1, AtWork DEF LiveAt, NoLiveTask, Working, OneJobRuns
<1>3. UNCHANGED <<task, kid>>
  BY DEF PublishSnapshot, CheckFinding, CommitFinding, PublicationFails, Ending, FinishRun,
     EndRun, rows
<1> QED BY <1>2, <1>3 DEF Leaves, NoLiveTask, LiveKids

\* A database error ends the handler and leaves the run as it was.
LEMMA ErrorLeaves ==
  ASSUME Orderly, NEW e \in Executors, NEW j \in OneJobRuns, held[e] = j, HandlerError(e)
  PROVE  Leaves(e, j)
<1>1. UNCHANGED <<run, task, kid>> /\ at'[e] = "raised"
  BY DEF HandlerError, rows, At, GoTo, Orderly, RInv, RunTypes
<1> QED BY <1>1 DEF Leaves, NoLiveTask, LiveKids, Orderly, Tidy, Working

LEMMA HandlerLeaves ==
  ASSUME Orderly, NEW e \in Executors, HandlerSide(e), NEW j \in OneJobRuns, held[e] = j
  PROVE  Leaves(e, j)
BY StartLeaves, MainLeaves, WavesLeave, EndsLeave, ErrorLeaves
   DEF HandlerSide, HandlerStep, Planning, Gathering, Publishing

\* A handler at work after a step was at work before it, on the same run.
LEMMA WasAtWork ==
  ASSUME Orderly, RunNext, NEW f \in Executors, At(f, Working)',
         at[f] \in Working
  PROVE  At(f, Working) /\ held'[f] = held[f]
<1>1. held'[f] = held[f]
  BY HandlersStay DEF SameHandler, Orderly, At, Working
<1>2. hdl[f] = "running" /\ pc[f] \in {"run", "cancel"}
  BY DEF Orderly, RInv, HandlerPlace, Working
<1>3. pc[f] # "cancel"
  <2> SUFFICES ASSUME pc[f] = "cancel" PROVE pc'[f] # "run"
    BY DEF At
  <2> USE DEF Orderly, IInv, Base, TypeOK, table, tasks
  <2>1. ASSUME NEW g \in Executors, Composed(g) \/ Elsewhere(g) PROVE pc'[f] # "run"
    <3>1. ExecutorStep(g)
      BY <2>1 DEF Composed, StartHandler, EndHandler, CancelHandler, HandlerCancelled, Elsewhere,
         ExecutorStep, Claim, Renewal, Handling, Settlement
    <3>2. CASE g # f
      BY <3>1, <3>2, OthersStay
    <3>3. CASE g = f
      BY <2>1, <3>3 DEF Composed, StartHandler, CommitClaim, EndHandler, HandlerEnds, CancelHandler,
         WakeLeaseLost, HandlerCancelled, Cancelled, Elsewhere, BeginClaim, LeaveLoop, SelectNone,
         SelectRow, ClaimError, Renewal, RenewBegin, RenewExecute, RenewError, WakeHandlerDone,
         Settlement, Settle, SettleError, RunEnds
    <3> QED BY <3>2, <3>3
  <2>2. ASSUME NEW w \in Workers, EndProcess(w) PROVE pc'[f] # "run"
    BY <2>2 DEF EndProcess, StopWorker, Crash, Vanish
  <2>3. CASE Platform
    BY <2>3 DEF Platform, StartWorker, Signal, Tick
  <2>4. ASSUME NEW g \in Executors, HandlerSide(g) PROVE pc'[f] # "run"
    BY <2>4, HandlerStepFrame DEF vars
  <2>5. ASSUME NEW j \in Jobs, NEW c \in Children, ChildStep(j, c) \/ ChildRaises(j, c)
        PROVE  pc'[f] # "run"
    BY <2>5, ChildStepFrame DEF vars
  <2>6. ASSUME NEW j \in Jobs, RequestRun(j) PROVE pc'[f] # "run"
    BY <2>6 DEF RequestRun, Enqueue
  <2>7. ASSUME NEW j \in Jobs, SecondHandler(j) PROVE pc'[f] # "run"
    BY <2>7, SecondHandlerFrame DEF vars
  <2> QED BY <2>1, <2>2, <2>3, <2>4, <2>5, <2>6, <2>7 DEF RunNext, HandlerSide
<1> QED BY <1>1, <1>2, <1>3 DEF At

\* Steps that touch neither tasks nor the children of handlers at work.
LEMMA TidyKept ==
  ASSUME Orderly, RunNext, UNCHANGED task,
         \A j \in OneJobRuns : run'[j] \notin Intermediate => run[j] \notin Intermediate,
         \A j \in OneJobRuns, c \in Children : kid'[j][c] \in ActiveKid => kid[j][c] \in ActiveKid,
         \A f \in Executors : At(f, Working)' =>
            at[f] = at'[f] /\ kid'[held[f]] = kid[held[f]]
  PROVE  Tidy'
<1>1. ASSUME NEW j \in OneJobRuns, run'[j] \notin Intermediate
      PROVE  NoLiveTask(j)' /\ ~LiveKids(j)'
  BY <1>1 DEF Orderly, Tidy, NoLiveTask, LiveKids
<1>2. ASSUME NEW f \in Executors, held'[f] \notin SecondJobs, At(f, Working)' PROVE Accounted(f)'
  <2>1. at[f] = at'[f] /\ kid'[held[f]] = kid[held[f]] /\ at[f] \in Working
    BY <1>2 DEF At
  <2>2. At(f, Working) /\ held'[f] = held[f]
    BY <1>2, <2>1, WasAtWork
  <2>3. \A t \in TaskIds : task[held[f]][t] \in LiveTask => LiveAt(f, t)
    BY <1>2, <2>2 DEF Orderly, Tidy, Accounted
  <2> QED BY <2>1, <2>2, <2>3 DEF Accounted, LiveAt
<1>3. \A f \in Executors : held'[f] \notin SecondJobs => Accounted(f)'
  BY <1>2 DEF Accounted
<1> QED BY <1>1, <1>3 DEF Tidy

\* Steps of handlers keep Tidy: each of its own run, and runs are worked on by one.
LEMMA HandlerTidy ==
  ASSUME Orderly, RunNext, NEW e \in Executors, HandlerSide(e) PROVE Tidy'
<1>1. held[e] \in Jobs /\ UNCHANGED vars
  BY HandlerStepFrame, AtWork
<1>2. PICK j \in Jobs : j = held[e]
  BY <1>1
<1>3. j \notin SecondJobs => Leaves(e, j)
  BY <1>2, HandlerLeaves DEF OneJobRuns
<1>4. \A k \in Jobs \ {j} : task'[k] = task[k] /\ kid'[k] = kid[k] /\ run'[k] = run[k]
  BY <1>2, HandlerStepElsewhere, HandlerStepOnRun DEF Orderly
<1>5. ASSUME NEW k \in OneJobRuns, run'[k] \notin Intermediate
      PROVE  NoLiveTask(k)' /\ ~LiveKids(k)'
  <2> USE DEF OneJobRuns
  <2>1. CASE k = j
    BY <1>3, <1>5, <2>1 DEF Leaves
  <2>2. CASE k # j
    BY <1>4, <1>5, <2>2 DEF Orderly, Tidy, NoLiveTask, LiveKids
  <2> QED BY <2>1, <2>2
<1>6. ASSUME NEW f \in Executors, held'[f] \notin SecondJobs, At(f, Working)' PROVE Accounted(f)'
  <2>1. held'[f] = held[f] /\ held[f] \notin SecondJobs /\ at'[f] \in Working
    BY <1>1, <1>6 DEF vars, At
  <2>2. CASE f = e
    BY <1>2, <1>3, <2>1, <2>2 DEF Leaves, Accounted, LiveAt
  <2>3. CASE f # e
    <3>1. at'[f] = at[f]
      BY <2>3, HandlerStepMoves DEF Orderly, RInv
    <3>2. At(f, Working) /\ held[f] \in Jobs
      BY <1>6, <2>1, <3>1, WasAtWork DEF At, Orderly, IInv, Base, Bookkeeping
    <3>3. held[f] # j
      <4>1. owner[held[f]] = f /\ owner[held[e]] = e
        BY <3>2, WorkerHolds, AtWork DEF At, LeaseLasts
      <4> QED BY <1>2, <2>3, <4>1
    <3>4. task'[held[f]] = task[held[f]] /\ kid'[held[f]] = kid[held[f]]
      BY <1>4, <3>2, <3>3
    <3>5. \A t \in TaskIds : task[held[f]][t] \in LiveTask => LiveAt(f, t)
      BY <2>1, <3>2 DEF Orderly, Tidy, Accounted
    <3> QED BY <2>1, <3>1, <3>4, <3>5 DEF Accounted, LiveAt
  <2> QED BY <2>2, <2>3
<1>7. \A f \in Executors : held'[f] \notin SecondJobs => Accounted(f)'
  BY <1>6 DEF Accounted
<1> QED BY <1>5, <1>7 DEF Tidy

\* A child coroutine of a run with one job only ever works on it while it has
\* not ended: a task it sets running is its own, and its handler, if it has one,
\* is at gather.
LEMMA ChildTidy ==
  ASSUME Orderly, RunNext, NEW j \in Jobs, NEW c \in Children,
         ChildStep(j, c) \/ ChildRaises(j, c)
  PROVE  Tidy'
<1> USE DEF Orderly, RInv, RunTypes, TaskTypes, OneJobRuns
<1>1. /\ LiveKids(j) /\ UNCHANGED vars /\ UNCHANGED run
      /\ j \notin SecondJobs => run[j] \in Intermediate
  <2>1. kid[j][c] \in ActiveKid
    BY DEF ChildStep, ChildAttempt, ChildEnds, ChildSettles, ChildRaises, ActiveKid
  <2> QED BY <2>1, ChildStepFrame DEF LiveKids, Tidy
<1>2. \A k \in Jobs \ {j} : task'[k] = task[k] /\ kid'[k] = kid[k]
  BY DEF ChildStep, ChildAttempt, ChildEnds, ChildSettles, ChildRaises, SetTask, rows
<1>3. /\ \A t \in TaskIds \ {c} : task'[j][t] = task[j][t]
      /\ \A d \in Children \ {c} : kid'[j][d] = kid[j][d]
  BY TasksDiffer DEF ChildStep, ChildAttempt, ChildEnds, ChildSettles, ChildRaises, SetTask, rows
<1>4. ChildStep(j, c) => (task'[j][c] \in LiveTask => kid'[j][c] \in ActiveKid)
  BY TasksDiffer DEF ChildStep, ChildAttempt, ChildEnds, ChildSettles, SetTask, LiveTask, ActiveKid
<1>5. ASSUME NEW k \in OneJobRuns, run'[k] \notin Intermediate
      PROVE  NoLiveTask(k)' /\ ~LiveKids(k)'
  <2>1. k # j
    BY <1>1, <1>5
  <2> QED BY <1>1, <1>2, <1>5, <2>1 DEF Tidy, NoLiveTask, LiveKids
<1>6. ASSUME NEW f \in Executors, held'[f] \notin SecondJobs, At(f, Working)' PROVE Accounted(f)'
  <2>1. at'[f] = at[f] /\ at'[f] \in Working
    BY <1>6, ChildStepMoves DEF At, Working
  <2>2. At(f, Working) /\ held'[f] = held[f] /\ held[f] \in Jobs /\ pc[f] = "run"
    BY <1>6, <2>1, WasAtWork DEF At, IInv, Base, Bookkeeping
  <2>3. \A t \in TaskIds : task[held[f]][t] \in LiveTask => LiveAt(f, t)
    BY <1>6, <2>2 DEF Tidy, Accounted
  <2>4. CASE held[f] # j
    BY <1>2, <2>1, <2>2, <2>3, <2>4 DEF Accounted, LiveAt
  <2>5. CASE held[f] = j
    <3>1. runner[j] = f /\ at[f] = "gather"
      BY <1>1, <1>6, <2>1, <2>2, <2>5, WorkerHolds DEF Working
    <3>2. ChildStep(j, c)
      <4>1. ~ChildRaises(j, c)
        BY <2>1, <2>2, <2>5, <3>1 DEF ChildRaises, At, GoTo, Working
      <4> QED BY <4>1
    <3>3. ASSUME NEW t \in TaskIds, task'[j][t] \in LiveTask
          PROVE  t \in Children /\ kid'[j][t] \in {"planned"} \cup ActiveKid
      <4>1. CASE t = c
        BY <1>4, <3>2, <3>3, <4>1
      <4>2. CASE t # c
        BY <1>3, <2>3, <2>5, <3>1, <3>3, <4>2 DEF LiveAt
      <4> QED BY <4>1, <4>2
    <3> QED BY <2>1, <2>2, <2>5, <3>1, <3>3 DEF Accounted, LiveAt
  <2> QED BY <2>4, <2>5
<1>7. \A f \in Executors : held'[f] \notin SecondJobs => Accounted(f)'
  BY <1>6 DEF Accounted
<1> QED BY <1>5, <1>7 DEF Tidy

\* Executors and processes: children die with the handler that awaits them or
\* with their process, and never under a handler that goes on.
LEMMA ExecutorTidy ==
  ASSUME Orderly, RunNext,
         \/ \E e \in Executors : Composed(e) \/ Elsewhere(e)
         \/ \E w \in Workers : EndProcess(w)
         \/ Platform
  PROVE  Tidy'
<1> USE DEF Orderly, RInv, RunTypes, TaskTypes, OneJobRuns
<1>1. UNCHANGED <<run, task>>
  BY ExecutorStepKeepsRuns DEF Composed, StartHandler, EndHandler, CancelHandler,
     HandlerCancelled, Elsewhere, EndProcess, Platform, runVars, rows
<1>2. ASSUME NEW f \in Executors, At(f, Working)'
      PROVE  at'[f] = at[f] /\ At(f, Working) /\ held[f] \in Jobs
  <2>1. at'[f] = at[f]
    BY <1>2, QuietMoves DEF At, Working
  <2> QED BY <1>2, <2>1, WasAtWork DEF At, IInv, Base, Bookkeeping
<1>3. CASE UNCHANGED kid
  BY <1>1, <1>2, <1>3, TidyKept
<1>4. ASSUME NEW e \in Executors, CancelHandler(e) PROVE Tidy'
  <2>1. kid' = [j \in Jobs |-> IF at[e] = "gather" /\ held[e] = j THEN Dying(kid[j]) ELSE kid[j]]
    BY <1>4 DEF CancelHandler
  <2>2. \A j \in Jobs, c \in Children : kid'[j][c] \in ActiveKid => kid[j][c] \in ActiveKid
    BY <2>1 DEF Dying, ActiveKid
  <2>3. ASSUME NEW f \in Executors, At(f, Working)' PROVE kid'[held[f]] = kid[held[f]]
    <3>1. pc[e] = "run" /\ pc'[e] = "cancel"
      BY <1>4 DEF CancelHandler, WakeLeaseLost, IInv, Base, TypeOK
    <3>2. f # e /\ pc[f] = "run" /\ held[f] \in Jobs
      BY <1>2, <2>3, <3>1 DEF At
    <3>3. owner[held[f]] = f /\ owner[held[e]] = e
      BY <3>1, <3>2, WorkerHolds DEF LeaseLasts
    <3> QED BY <2>1, <3>2, <3>3
  <2> QED BY <1>1, <1>2, <2>2, <2>3, TidyKept
<1>5. ASSUME NEW w \in Workers, EndProcess(w) PROVE Tidy'
  <2>1. kid' = [j \in Jobs |-> IF runner[j] # None /\ Home[runner[j]] = w
                               THEN Dying(kid[j]) ELSE kid[j]]
    BY <1>5 DEF EndProcess
  <2>2. \A j \in Jobs, c \in Children : kid'[j][c] \in ActiveKid => kid[j][c] \in ActiveKid
    BY <2>1 DEF Dying, ActiveKid
  <2>3. ASSUME NEW f \in Executors, At(f, Working)' PROVE kid'[held[f]] = kid[held[f]]
    <3>1. Home[f] # w
      BY <1>5, <2>3 DEF EndProcess, At, Working
    <3>2. runner[held[f]] = f /\ held[f] \in Jobs
      BY <1>2, <2>3 DEF WorkerIsRunner, At
    <3> QED BY <2>1, <3>1, <3>2
  <2> QED BY <1>1, <1>2, <2>2, <2>3, TidyKept
<1>6. ASSUME NEW e \in Executors, Composed(e) \/ Elsewhere(e), ~CancelHandler(e)
      PROVE  UNCHANGED kid
  BY <1>6 DEF Composed, StartHandler, EndHandler, HandlerCancelled, Elsewhere, runVars, locals
<1>7. CASE Platform
  BY <1>3, <1>7 DEF Platform, runVars, locals
<1> QED BY <1>3, <1>4, <1>5, <1>6, <1>7

\* The handler of another job leaves the runs with one job alone.
LEMMA SecondHandlerTidy ==
  ASSUME Orderly, RunNext, NEW j \in Jobs, SecondHandler(j)
  PROVE  Tidy'
<1> USE DEF Orderly, RInv, RunTypes, TaskTypes
<1>1. j \in SecondJobs /\ UNCHANGED vars /\ UNCHANGED <<kid, at>>
  BY SecondHandlerFrame
<1>2. \A k \in Jobs \ {j} : run'[k] = run[k] /\ task'[k] = task[k]
  BY SecondHandlerFrame DEF Terminalize
<1>3. ASSUME NEW k \in OneJobRuns, run'[k] \notin Intermediate
      PROVE  NoLiveTask(k)' /\ ~LiveKids(k)'
  BY <1>1, <1>2, <1>3 DEF Tidy, NoLiveTask, LiveKids, OneJobRuns
<1>4. ASSUME NEW f \in Executors, held'[f] \notin SecondJobs, At(f, Working)' PROVE Accounted(f)'
  <2>1. At(f, Working) /\ held'[f] = held[f]
    BY <1>1, <1>4 DEF At, vars
  <2>2. held[f] \in Jobs \ {j}
    BY <1>1, <1>4, <2>1 DEF At, IInv, Base, Bookkeeping
  <2>3. \A t \in TaskIds : task[held[f]][t] \in LiveTask => LiveAt(f, t)
    BY <1>4, <2>1 DEF Tidy, Accounted
  <2> QED BY <1>1, <1>2, <2>1, <2>2, <2>3 DEF Accounted, LiveAt
<1>5. \A f \in Executors : held'[f] \notin SecondJobs => Accounted(f)'
  BY <1>4 DEF Accounted
<1> QED BY <1>3, <1>5 DEF Tidy

\* Tidy is preserved by every step.
LEMMA NextTidy == Orderly /\ [RunNext]_allVars => Tidy'
<1> SUFFICES ASSUME Orderly, RunNext PROVE Tidy'
  BY DEF allVars, vars, runVars, rows, locals, Orderly, Tidy, Accounted, LiveAt, At, NoLiveTask,
     LiveKids
<1>1. ASSUME NEW j \in Jobs, RequestRun(j) PROVE Tidy'
  <2>1. /\ UNCHANGED <<task, kid, at>>
        /\ \A k \in OneJobRuns : run'[k] \notin Intermediate => run[k] \notin Intermediate
    BY <1>1 DEF RequestRun, SetRun, Enqueue, locals, Orderly, RInv, RunTypes, RunOfJob, Intermediate,
       OneJobRuns
  <2> QED BY <2>1, TidyKept
<1>2. ASSUME NEW j \in Jobs, SecondHandler(j) PROVE Tidy'
  BY <1>2, SecondHandlerTidy
<1> QED BY <1>1, <1>2, HandlerTidy, ChildTidy, ExecutorTidy DEF RunNext, HandlerSide

\* What a patient system keeps to.
LEMMA OrderlyInvariant == ASSUME Patient PROVE RunSpec => [](Sheltered /\ Tidy)
<1> DEFINE Both == Sheltered /\ Tidy
<1>1. RunInit => Both
  BY DEF RunInit, Sheltered, Tidy, Accounted, NoLiveTask, LiveKids, LiveTask, ActiveKid, At, Init,
     OneJobRuns
<1>2. IInv /\ RInv /\ TypeInv /\ Phases /\ Lasting /\ Both /\ [RunNext]_allVars => Both'
  BY NextSheltered, NextTidy, Patient DEF Orderly, TypeInv
<1>3. Spec => []Lasting
  BY Patient, LastingInvariant
<1>4. RunSpec => []Phases
  BY Patient, PatientIsTimely, PhasesInvariant
<1>5. RunSpec => []Both
  <2> HIDE DEF Both
  <2> QED BY <1>1, <1>2, <1>3, <1>4, RunsUseLeases, IInvInvariant, RInvInvariant,
             TypeInvInvariant, PTL DEF RunSpec
<1> QED BY <1>5

\* In a patient system a run with one job that ended has no queued or running
\* task, although the siblings of a child that raised run on without a handler: their process
\* is torn down before anybody can end the run (_terminalize_interrupted_run).
THEOREM PatientRunsEndTidily == ASSUME Patient PROVE RunSpec => []EndedRunHasNoLiveTask
<1>1. Sheltered /\ Tidy => EndedRunHasNoLiveTask
  BY DEF OneJobRuns, Tidy, NoLiveTask, EndedRunHasNoLiveTask, TerminalRun, Intermediate
<1> QED BY <1>1, OrderlyInvariant, PTL

-----------------------------------------------------------------------------
(* What readers are promised, where leases last *)

\* What the refinement needs of a state.
Faithful == Orderly /\ Snapped /\ Delivered

\* The phase that readers see.
Seen(s) == IF s \in Intermediate THEN "working" ELSE s

LEMMA RunEnters ==
  ASSUME RunTypes, NEW j \in OneJobRuns, NEW s, SetRun(j, s)
  PROVE  Outcomes!Enters(j, Seen(s))
BY DEF RunTypes, SetRun, Outcomes!Enters, Seen, OneJobRuns

\* Readers of runs with one job do not see the others.
LEMMA Unseen ==
  ASSUME \A j \in OneJobRuns :
            /\ run'[j] = run[j] /\ task'[j] = task[j]
            /\ findings'[j] = findings[j] /\ snapshot'[j] = snapshot[j]
            /\ status'[j] = "completed" <=> status[j] = "completed"
  PROVE  UNCHANGED Outcomes!vars
<1>1. \A j \in OneJobRuns : (IF run'[j] \in Intermediate THEN "working" ELSE run'[j])
                           = (IF run[j] \in Intermediate THEN "working" ELSE run[j])
  OBVIOUS
<1>2. \A j \in OneJobRuns : (status'[j] = "completed") = (status[j] = "completed")
  BY Zenon
<1> QED BY <1>1, <1>2 DEF Outcomes!vars

\* The tasks of one run move.
LEMMA TasksOf ==
  ASSUME NEW j, \A k \in Jobs \ {j} : task'[k] = task[k]
  PROVE  Outcomes!TasksMove(j)
BY DEF Outcomes!TasksMove, OneJobRuns

\* A step that leaves run, findings and snapshot alone and touches the tasks of
\* a run that is worked on.
LEMMA TasksWork ==
  ASSUME NEW j \in OneJobRuns, run[j] \in Intermediate,
         \A k \in Jobs \ {j} : task'[k] = task[k],
         UNCHANGED <<run, findings, snapshot, status>>
  PROVE  Outcomes!Work(j)
BY TasksOf DEF Outcomes!Work

\* The run moves on to its next phase of work.
LEMMA PhasesWork ==
  ASSUME RunTypes, NEW j \in OneJobRuns, run[j] \in Intermediate,
         NEW s \in Intermediate, SetRun(j, s),
         \A k \in Jobs \ {j} : task'[k] = task[k],
         UNCHANGED <<findings, snapshot, status>>
  PROVE  Outcomes!Work(j)
<1>1. \A k \in OneJobRuns : (IF run'[k] \in Intermediate THEN "working" ELSE run'[k])
                          = (IF run[k] \in Intermediate THEN "working" ELSE run[k])
  BY DEF RunTypes, SetRun, OneJobRuns
<1> QED BY <1>1, TasksOf DEF Outcomes!Work

\* A handler ends its run: whoever does it leaves no open task.
LEMMA RunIsOver ==
  ASSUME Faithful, Faithful', NEW j \in OneJobRuns, NEW s \in TerminalRun, SetRun(j, s),
         run[j] \in Intermediate \/ (run[j] = "queued" /\ s = "failed"),
         \A k \in Jobs \ {j} : task'[k] = task[k],
         UNCHANGED <<findings, snapshot, status>>
  PROVE  Outcomes!End(j, s) /\ s \in Outcomes!Ended
<1>1. RunTypes /\ run'[j] = s
  BY DEF Faithful, Orderly, RInv, RunTypes, SetRun, OneJobRuns
<1>2. Seen(s) = s
  BY DEF Seen, Intermediate, TerminalRun
<1>3. Outcomes!Enters(j, s)
  BY <1>1, <1>2, RunEnters
<1>4. \A t \in TaskIds : task'[j][t] \notin LiveTask
  BY <1>1 DEF Faithful, Orderly, Tidy, NoLiveTask, Intermediate, TerminalRun
<1>5. s = "completed" /\ j \in Snapshots => snapshot[j]
  BY <1>1 DEF Faithful, Snapped, SnapshotBeforeSuccess
<1>6. s \in Outcomes!Ended
  BY DEF Outcomes!Ended, TerminalRun
<1> QED BY <1>3, <1>4, <1>5, <1>6, TasksOf DEF Outcomes!End

\* A handler begins its run, goes on with it, publishes or ends it.
LEMMA HandlerKeepsPromise ==
  ASSUME Faithful, Faithful', NEW e \in Executors, HandlerSide(e), held[e] \notin SecondJobs
  PROVE  \/ UNCHANGED <<rows, status>>
         \/ Outcomes!Next
<1>1. held[e] \in OneJobRuns /\ UNCHANGED status
  BY HandlerStepFrame, AtWork DEF Faithful, vars, table, OneJobRuns
<1>2. PICK j \in OneJobRuns : j = held[e]
  BY <1>1
<1>3. RunTypes /\ \A k \in Jobs \ {j} : task'[k] = task[k]
  BY <1>2, HandlerStepElsewhere DEF Faithful, Orderly, RInv
<1>4. Phase(e)
  BY DEF Faithful, Orderly, Phases
<1>5. at[e] \in Working => run[j] \in Intermediate
  BY <1>2, <1>4 DEF Phase, Working, Intermediate
<1>6. CASE StartRun(e)
  <2>1. CASE run[j] \in Intermediate /\ Terminalize(j)
    <3>1. PICK s \in TerminalRun : SetRun(j, s)
      BY <2>1 DEF Terminalize, TerminalRun
    <3>2. UNCHANGED <<findings, snapshot>>
      BY <1>6 DEF StartRun
    <3>3. Outcomes!End(j, s) /\ s \in Outcomes!Ended
      BY <1>1, <1>3, <2>1, <3>1, <3>2, RunIsOver
    <3> QED BY <3>3 DEF Outcomes!Next
  <2>2. CASE run[j] \in TerminalRun /\ UNCHANGED <<run, task>>
    BY <1>1, <1>6, <2>2 DEF StartRun, rows
  <2>3. CASE run[j] = "queued" /\ SetRun(j, "failed")
    <3>1. "failed" \in TerminalRun /\ UNCHANGED <<findings, snapshot>>
      BY <1>6 DEF TerminalRun, StartRun
    <3>2. Outcomes!End(j, "failed") /\ "failed" \in Outcomes!Ended
      BY <1>1, <1>3, <2>3, <3>1, RunIsOver
    <3> QED BY <3>2 DEF Outcomes!Next
  <2>4. CASE run[j] = "queued" /\ SetRun(j, "planning")
    <3>1. Outcomes!Enters(j, Seen("planning")) /\ Seen("planning") = "working"
      BY <1>3, <2>4, RunEnters DEF Seen, Intermediate
    <3>2. UNCHANGED <<findings, snapshot>> /\ "queued" \notin Intermediate
      BY <1>6 DEF StartRun, Intermediate
    <3>3. Outcomes!Begin(j)
      BY <1>1, <1>3, <2>4, <3>1, <3>2, TasksOf DEF Outcomes!Begin
    <3> QED BY <3>3 DEF Outcomes!Next
  <2> QED BY <1>2, <1>6, <2>1, <2>2, <2>3, <2>4 DEF StartRun
<1>7. CASE \/ AskModel(e) \/ CostCeiling(e) \/ ModelFails(e) \/ PlanAccepted(e)
           \/ StopWaves(e) \/ SynthesisAccepted(e)
  <2>1. at[e] \in Working /\ UNCHANGED <<run, findings, snapshot>>
    BY <1>7 DEF AskModel, CostCeiling, ModelFails, PlanAccepted, StopWaves, SynthesisAccepted,
       At, Working
  <2>2. Outcomes!Work(j)
    BY <1>1, <1>3, <1>5, <2>1, TasksWork
  <2> QED BY <2>2 DEF Outcomes!Next
<1>8. CASE CreateChildTasks(e) \/ CreateSynthesisTask(e)
  <2>1. at[e] \in Working /\ UNCHANGED <<findings, snapshot>>
    BY <1>8 DEF CreateChildTasks, CreateSynthesisTask, At, Working
  <2>2. PICK s \in Intermediate : SetRun(j, s)
    BY <1>2, <1>8 DEF CreateChildTasks, CreateSynthesisTask, Intermediate
  <2>3. Outcomes!Work(j)
    BY <1>1, <1>3, <1>5, <2>1, <2>2, PhasesWork
  <2> QED BY <2>3 DEF Outcomes!Next
<1>9. CASE PublishSnapshot(e) \/ CommitFinding(e)
  <2>1. at[e] \in Working /\ UNCHANGED <<run, task>>
    BY <1>9 DEF PublishSnapshot, CommitFinding, At, Working
  <2>2. \/ findings' = [findings EXCEPT ![j] = @ + 1] /\ UNCHANGED snapshot
        \/ snapshot' = [snapshot EXCEPT ![j] = TRUE] /\ UNCHANGED findings
    BY <1>2, <1>9 DEF PublishSnapshot, CommitFinding
  <2>3. Outcomes!Publish(j)
    BY <1>1, <1>3, <1>5, <2>1, <2>2 DEF Outcomes!Publish, RunTypes, OneJobRuns
  <2> QED BY <2>3 DEF Outcomes!Next
<1>10. CASE Ending(e)
  <2>1. at[e] \in Working /\ UNCHANGED <<findings, snapshot>>
    BY <1>10 DEF Ending, FinishRun, EndRun, At, Working
  <2>2. PICK s \in TerminalRun : SetRun(j, s)
    BY <1>2, <1>10 DEF Ending, FinishRun, EndRun, TerminalRun
  <2>3. Outcomes!End(j, s) /\ s \in Outcomes!Ended
    BY <1>1, <1>3, <1>5, <2>1, <2>2, RunIsOver
  <2> QED BY <2>3 DEF Outcomes!Next
<1>11. CASE \/ HandlerError(e) \/ RepairAnswer(e) \/ NextWave(e) \/ GatheringEnds(e)
            \/ CheckFinding(e) \/ PublicationFails(e)
  BY <1>1, <1>11 DEF HandlerError, RepairAnswer, NextWave, GatheringEnds, CheckFinding,
     PublicationFails
<1> QED BY <1>6, <1>7, <1>8, <1>9, <1>10, <1>11
        DEF HandlerSide, HandlerStep, Planning, Gathering, Publishing

\* A child, with its handler or without, only works on a run that has not ended.
LEMMA ChildKeepsPromise ==
  ASSUME Faithful, NEW j \in OneJobRuns, NEW c \in Children, ChildStep(j, c) \/ ChildRaises(j, c)
  PROVE  Outcomes!Work(j)
<1> USE DEF OneJobRuns
<1>1. kid[j][c] \in ActiveKid
  BY DEF ChildStep, ChildAttempt, ChildEnds, ChildSettles, ChildRaises, ActiveKid
<1>2. run[j] \in Intermediate
  BY <1>1 DEF Faithful, Orderly, Tidy, LiveKids
<1>3. UNCHANGED <<run, findings, snapshot, status>>
  BY ChildStepFrame DEF vars, table
<1>4. \A k \in Jobs \ {j} : task'[k] = task[k]
  BY DEF ChildStep, ChildAttempt, ChildEnds, ChildSettles, ChildRaises, SetTask, rows,
     Faithful, Orderly, TaskTypes
<1> QED BY <1>2, <1>3, <1>4, TasksWork

\* The job table goes on below: a settlement completes the job of a run that
\* has ended, and no other step shows.
LEMMA TableKeepsPromise ==
  ASSUME Faithful, Faithful', RunNext, UNCHANGED rows
  PROVE  UNCHANGED Outcomes!vars \/ Outcomes!Next
<1>1. /\ TableStep /\ UNCHANGED <<run, task, findings, snapshot>>
      /\ status \in [Jobs -> {"absent", "queued", "leased"} \cup Terminal]
  BY RunStepIsLeaseStep, NextTableStep DEF Faithful, Orderly, IInv, Base, TypeOK, rows
<1>2. \/ \A j \in OneJobRuns : status'[j] = "completed" <=> status[j] = "completed"
      \/ \E j \in OneJobRuns :
            status[j] # "completed" /\ status' = [status EXCEPT ![j] = "completed"]
  BY <1>1 DEF TableStep, Enqueues, Takes, Settles, Terminal, OneJobRuns
<1>3. ASSUME NEW j \in OneJobRuns, status[j] # "completed",
             status' = [status EXCEPT ![j] = "completed"]
      PROVE  Outcomes!Next
  <2> USE DEF OneJobRuns
  <2>1. run[j] \in TerminalRun
    BY <1>1, <1>3 DEF Faithful, Delivered, CompletedJobEndedRun
  <2>2. Outcomes!Complete(j)
    BY <1>1, <1>3, <2>1 DEF Outcomes!Complete, Outcomes!Ended, TerminalRun, Intermediate
  <2> QED BY <2>2 DEF Outcomes!Next
<1> QED BY <1>1, <1>2, <1>3, Unseen

\* Every step of the detailed system is a step that readers are promised, or
\* none that they can see.
LEMMA StepKeepsPromise ==
  Faithful /\ Faithful' /\ [RunNext]_allVars => [Outcomes!Next]_(Outcomes!vars)
<1> SUFFICES ASSUME Faithful, Faithful', RunNext PROVE [Outcomes!Next]_(Outcomes!vars)
  BY DEF allVars, vars, table, runVars, rows, Outcomes!vars
<1>1. CASE UNCHANGED rows
  BY <1>1, TableKeepsPromise
<1>2. ASSUME NEW k \in SecondJobs,
             \A j \in Jobs \ {k} : run'[j] = run[j] /\ task'[j] = task[j],
             \A j \in Jobs \ {k} : findings'[j] = findings[j] /\ snapshot'[j] = snapshot[j],
             \A j \in Jobs \ {k} : status'[j] = "completed" <=> status[j] = "completed"
      PROVE  UNCHANGED Outcomes!vars
  BY <1>2, Unseen DEF OneJobRuns
<1>3. ASSUME NEW e \in Executors, HandlerSide(e) PROVE [Outcomes!Next]_(Outcomes!vars)
  <2>1. CASE held[e] \in SecondJobs
    <3>1. /\ \A j \in Jobs \ {held[e]} : run'[j] = run[j] /\ task'[j] = task[j]
          /\ \A j \in Jobs \ {held[e]} : findings'[j] = findings[j] /\ snapshot'[j] = snapshot[j]
          /\ UNCHANGED status
      BY <1>3, HandlerStepOnRun, HandlerStepElsewhere, HandlerStepPublishes, HandlerStepFrame
         DEF Faithful, Orderly, vars, table
    <3> QED BY <1>2, <2>1, <3>1
  <2>2. CASE held[e] \notin SecondJobs
    BY <1>1, <1>3, <2>2, HandlerKeepsPromise
  <2> QED BY <2>1, <2>2
<1>4. ASSUME NEW j \in Jobs, NEW c \in Children, ChildStep(j, c) \/ ChildRaises(j, c)
      PROVE  [Outcomes!Next]_(Outcomes!vars)
  <2>1. CASE j \in SecondJobs
    <3>1. \A k \in Jobs \ {j} : task'[k] = task[k]
      BY <1>4 DEF ChildStep, ChildAttempt, ChildEnds, ChildSettles, ChildRaises, SetTask, rows,
         Faithful, Orderly, TaskTypes
    <3>2. UNCHANGED <<run, findings, snapshot, status>>
      BY <1>4, ChildStepFrame DEF vars, table
    <3> QED BY <1>2, <2>1, <3>1, <3>2
  <2>2. CASE j \notin SecondJobs
    BY <1>4, <2>2, ChildKeepsPromise DEF Outcomes!Next, OneJobRuns
  <2> QED BY <2>1, <2>2
<1>5. ASSUME NEW j \in Jobs, RequestRun(j) PROVE [Outcomes!Next]_(Outcomes!vars)
  <2>1. /\ run[j] = "absent" /\ SetRun(j, "queued") /\ UNCHANGED <<task, findings, snapshot>>
        /\ status' = [status EXCEPT ![j] = "queued"] /\ status[j] = "absent"
    BY <1>5 DEF RequestRun, Enqueue, Faithful, Orderly, RInv, RunOfJob
  <2>2. \A k \in Jobs : status'[k] = "completed" <=> status[k] = "completed"
    BY <2>1 DEF Faithful, Orderly, IInv, Base, TypeOK
  <2>3. CASE j \in SecondJobs
    <3>1. \A k \in Jobs \ {j} : run'[k] = run[k]
      BY <2>1 DEF SetRun, Faithful, Orderly, RInv, RunTypes
    <3> QED BY <1>2, <2>1, <2>2, <2>3, <3>1
  <2>4. CASE j \notin SecondJobs
    <3>1. j \in OneJobRuns /\ RunTypes
      BY <2>4 DEF OneJobRuns, Faithful, Orderly, RInv
    <3>2. Outcomes!Enters(j, Seen("queued")) /\ Seen("queued") = "queued"
      BY <2>1, <3>1, RunEnters DEF Seen, Intermediate
    <3>3. \A k \in OneJobRuns : (status'[k] = "completed") = (status[k] = "completed")
      BY <2>2, Zenon DEF OneJobRuns
    <3>4. Outcomes!Request(j)
      BY <2>1, <3>1, <3>2, <3>3 DEF Outcomes!Request, Intermediate
    <3> QED BY <3>1, <3>4 DEF Outcomes!Next
  <2> QED BY <2>3, <2>4
<1>6. CASE \/ \E e \in Executors : Composed(e) \/ Elsewhere(e)
           \/ \E w \in Workers : EndProcess(w)
           \/ Platform
  BY <1>1, <1>6 DEF Composed, StartHandler, EndHandler, CancelHandler, HandlerCancelled,
     Elsewhere, EndProcess, Platform, runVars
<1>7. ASSUME NEW j \in Jobs, SecondHandler(j) PROVE UNCHANGED Outcomes!vars
  <2>1. j \in SecondJobs /\ UNCHANGED <<findings, snapshot, status>>
    BY <1>7, SecondHandlerFrame DEF vars, table
  <2>2. \A k \in Jobs \ {j} : run'[k] = run[k] /\ task'[k] = task[k]
    BY <1>7, SecondHandlerFrame DEF Terminalize, Faithful, Orderly, RInv, RunTypes, TaskTypes
  <2> QED BY <1>2, <2>1, <2>2
<1> QED BY <1>3, <1>4, <1>5, <1>6, <1>7 DEF RunNext, HandlerSide

\* In a patient system the handlers implement what readers are promised of a run
\* with one job: it begins once and ends once, with no task open, and is never touched again,
\* through crashes, restarts, raising children and jobs that are taken over.
THEOREM PatientRunsImplementOutcomes == ASSUME Patient PROVE RunSpec => ImplementsOutcomes
<1>1. RunInit => Outcomes!Init
  <2> SUFFICES ASSUME RunInit PROVE Outcomes!Init
    OBVIOUS
  <2> USE DEF OneJobRuns
  <2>1. [j \in OneJobRuns |-> IF run[j] \in Intermediate THEN "working" ELSE run[j]]
          = [j \in OneJobRuns |-> "absent"]
    BY DEF RunInit, Intermediate
  <2>2. \A j \in OneJobRuns, t \in TaskIds : task[j][t] \notin LiveTask
    BY DEF RunInit, LiveTask
  <2>3. [j \in OneJobRuns |-> status[j] = "completed"] = [j \in OneJobRuns |-> FALSE]
    BY DEF RunInit, Init
  <2> QED BY <2>1, <2>2, <2>3 DEF RunInit, Outcomes!Init
<1>2. RunInit => Snapped /\ Delivered
  BY RunsAssumption DEF RunInit, Init, Snapped, PastSnapshot, SnapshotBeforeSuccess, Delivered,
     Returned, CompletedJobEndedRun, OneJobRuns
<1>3. Spec => []Lasting
  BY Patient, LastingInvariant
<1>4. RunSpec => []Phases
  BY Patient, PatientIsTimely, PhasesInvariant
<1>5. RunSpec => [](Sheltered /\ Tidy)
  BY Patient, OrderlyInvariant
<1>6. RunSpec => []Snapped
  BY <1>2, NextSnapped, RunsUseLeases, IInvInvariant, RInvInvariant, PTL DEF RunSpec
<1>7. RunSpec => []Delivered
  BY <1>2, <1>4, NextDelivered, RunsUseLeases, IInvInvariant, RInvInvariant, PTL DEF RunSpec
<1>8. /\ IInv /\ RInv /\ TypeInv /\ Phases /\ Lasting /\ (Sheltered /\ Tidy)
      /\ Snapped /\ Delivered
      => Faithful
  BY DEF Faithful, Orderly, TypeInv
<1>9. RunSpec => []Faithful
  BY <1>3, <1>4, <1>5, <1>6, <1>7, <1>8, RunsUseLeases, IInvInvariant, RInvInvariant,
     TypeInvInvariant, PTL
<1> QED BY <1>1, <1>9, StepKeepsPromise, PTL DEF RunSpec, ImplementsOutcomes, Outcomes!Spec

\* A run with one job that ended is the same for its readers at any later time.
EndedRowsStand ==
    \A j \in OneJobRuns : run[j] \in TerminalRun =>
        /\ run'[j] = run[j] /\ task'[j] = task[j]
        /\ findings'[j] = findings[j] /\ snapshot'[j] = snapshot[j]

\* Once a run with one job has ended, none of its rows changes any more: not its
\* status, which every write of the orchestrator overwrites blindly, nor its tasks, findings and
\* Starting Snapshot, although handlers are cancelled, children live on without
\* one and the job may be claimed again.
THEOREM PatientRunsStand == ASSUME Patient PROVE RunSpec => [][EndedRowsStand]_allVars
<1> DEFINE phase == [j \in OneJobRuns |-> IF run[j] \in Intermediate THEN "working" ELSE run[j]]
           seen == [j \in OneJobRuns |-> task[j]]
           found == [j \in OneJobRuns |-> findings[j]]
           snapped == [j \in OneJobRuns |-> snapshot[j]]
<1>1. RunTypes /\ [Outcomes!Next]_(Outcomes!vars) => EndedRowsStand
  <2> SUFFICES ASSUME RunTypes, [Outcomes!Next]_(Outcomes!vars),
                      NEW i \in OneJobRuns, run[i] \in TerminalRun
               PROVE  /\ run'[i] = run[i] /\ task'[i] = task[i]
                      /\ findings'[i] = findings[i] /\ snapshot'[i] = snapshot[i]
    BY DEF EndedRowsStand
  <2> SUFFICES /\ phase'[i] = phase[i] /\ seen'[i] = seen[i]
               /\ found'[i] = found[i] /\ snapped'[i] = snapped[i]
    <3>1. phase'[i] = phase[i] => run'[i] = run[i]
      BY DEF TerminalRun, Intermediate
    <3> QED BY <3>1
  <2>1. phase[i] \notin {"absent", "queued", "working"}
    BY DEF TerminalRun, Intermediate
  <2>2. CASE UNCHANGED Outcomes!vars
    BY <2>2 DEF Outcomes!vars
  <2>3. ASSUME NEW j \in OneJobRuns, phase[j] \in {"absent", "queued", "working"},
               phase' = phase \/ \E p : phase' = [phase EXCEPT ![j] = p],
               \A k \in OneJobRuns \ {j} : seen'[k] = seen[k],
               \A k \in OneJobRuns \ {j} : found'[k] = found[k] /\ snapped'[k] = snapped[k]
        PROVE  /\ phase'[i] = phase[i] /\ seen'[i] = seen[i]
               /\ found'[i] = found[i] /\ snapped'[i] = snapped[i]
    <3>1. i # j /\ DOMAIN phase = OneJobRuns
      BY <2>1, <2>3
    <3> HIDE DEF phase, seen, found, snapped
    <3> QED BY <2>3, <3>1
  <2>4. ASSUME NEW j \in OneJobRuns, Outcomes!Request(j) \/ Outcomes!Begin(j) \/ Outcomes!Work(j)
        PROVE  /\ phase[j] \in {"absent", "queued", "working"}
               /\ phase' = phase \/ \E p : phase' = [phase EXCEPT ![j] = p]
               /\ \A k \in OneJobRuns \ {j} : seen'[k] = seen[k]
               /\ found' = found /\ snapped' = snapped
    BY <2>4, Zenon DEF Outcomes!Request, Outcomes!Begin, Outcomes!Work, Outcomes!Enters,
       Outcomes!TasksMove
  <2>5. ASSUME NEW j \in OneJobRuns, NEW p, Outcomes!End(j, p)
        PROVE  /\ phase[j] \in {"absent", "queued", "working"}
               /\ phase' = [phase EXCEPT ![j] = p]
               /\ \A k \in OneJobRuns \ {j} : seen'[k] = seen[k]
               /\ found' = found /\ snapped' = snapped
    BY <2>5, Zenon DEF Outcomes!End, Outcomes!Enters, Outcomes!TasksMove
  <2>6. ASSUME NEW j \in OneJobRuns, Outcomes!Publish(j)
        PROVE  /\ phase[j] \in {"absent", "queued", "working"}
               /\ phase' = phase /\ seen' = seen
               /\ \A k \in OneJobRuns \ {j} : found'[k] = found[k] /\ snapped'[k] = snapped[k]
    <3>1. /\ phase[j] = "working" /\ phase' = phase /\ seen' = seen
          /\ \/ found' = [found EXCEPT ![j] = @ + 1] /\ snapped' = snapped
             \/ snapped' = [snapped EXCEPT ![j] = TRUE] /\ found' = found
      BY <2>6, Zenon DEF Outcomes!Publish
    <3> HIDE DEF phase, seen
    <3> QED BY <3>1
  <2>7. ASSUME NEW j \in OneJobRuns, Outcomes!Complete(j)
        PROVE  phase' = phase /\ seen' = seen /\ found' = found /\ snapped' = snapped
    BY <2>7, Zenon DEF Outcomes!Complete
  <2> HIDE DEF phase, seen, found, snapped
  <2> QED BY <2>2, <2>3, <2>4, <2>5, <2>6, <2>7 DEF Outcomes!Next
<1>2. RInv => RunTypes
  BY DEF RInv
<1> QED BY <1>1, <1>2, PatientRunsImplementOutcomes, RunsUseLeases, IInvInvariant, RInvInvariant,
           PTL DEF ImplementsOutcomes, Outcomes!Spec

=============================================================================
