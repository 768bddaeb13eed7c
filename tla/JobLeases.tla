------------------------------ MODULE JobLeases ------------------------------
(***************************************************************************)
(* The durable job table and the worker processes that drain it:           *)
(* jobs/repository.py (claim, renew, complete, fail), jobs/executor.py     *)
(* (one executor loop: claim, run the handler beside a renewal task,       *)
(* settle) and worker_main.py (a process owning several executor loops).   *)
(*                                                                         *)
(* TIME.  The columns available_at and lease_expires_at are modelled by    *)
(* due[j], the column minus the current time.  Every repository operation  *)
(* reads its `now` before its transaction: lag[e] (rtime[e] for the        *)
(* renewal task) is how long ago that was.  "column <= now" is therefore   *)
(* due[j] <= -lag[e].  An operation in flight executes or fails within     *)
(* MaxLag ticks, so due may stop falling at -MaxLag: below it every        *)
(* comparison already has its final outcome.                               *)
(*                                                                         *)
(* FAULTS.  faults counts process kills, termination signals and database  *)
(* errors, at most MaxFaults of them.  With MayStall a process may also    *)
(* be paused between its steps for as long as it likes, at no charge.      *)
(***************************************************************************)
EXTENDS Integers

CONSTANTS Jobs,        \* numbers, in the order of (available_at, created_at, id)
          Handled,     \* the jobs whose job_type has a handler
          Workers,     \* worker processes
          Executors,   \* executor loops, each with its own lease owner name
          Home,        \* Home[e]: the process executor e runs in
          None,        \* no owner, no job
          LeaseSecs,   \* LEASE_SECONDS
          RenewEvery,  \* LEASE_RENEWAL_SECONDS
          MaxLag,      \* bound on the time an operation is in flight
          MayStall,    \* may a process be paused between two of its steps?
          MaxFaults    \* bound on crashes, signals and database errors

ASSUME JobsAssumption == Jobs \subseteq Nat /\ Handled \subseteq Jobs
ASSUME ExecutorsAssumption == Home \in [Executors -> Workers]
ASSUME NoneAssumption == None \notin Executors /\ None \notin Jobs
ASSUME TimingAssumption ==
    /\ LeaseSecs \in Nat /\ RenewEvery \in Nat /\ MaxLag \in Nat
    /\ 0 < RenewEvery /\ RenewEvery < LeaseSecs
ASSUME FaultAssumption == MayStall \in BOOLEAN /\ MaxFaults \in Nat

VARIABLES
    status,   \* jobs.status, or "absent" when no row has the key
    owner,    \* jobs.lease_owner
    due,      \* available_at (queued) or lease_expires_at (leased), minus now
    worker,   \* worker_service: "down", "up", or "stopping" once stop is set
    pc,       \* where the executor loop stands
    held,     \* the job the executor claimed
    lag,      \* age of the `now` of its claim, complete or fail in flight
    hdl,      \* the handler task
    ren,      \* the renewal task
    rtime,    \* time since the renewal timer was armed, or since its `now`
    faults

table == <<status, owner, due>>
tasks == <<hdl, ren, rtime>>
vars == <<status, owner, due, worker, pc, held, lag, hdl, ren, rtime, faults>>

Terminal == {"completed", "failed"}
Settling == {"complete", "fail"}
InFlight == {"select", "commit"} \cup Settling

TypeOK ==
    /\ status \in [Jobs -> {"absent", "queued", "leased"} \cup Terminal]
    /\ owner \in [Jobs -> Executors \cup {None}]
    /\ due \in [Jobs -> (-MaxLag) .. LeaseSecs]
    /\ worker \in [Workers -> {"down", "up", "stopping"}]
    /\ pc \in [Executors -> {"down", "idle", "run", "cancel", "drain", "escape"}
                            \cup InFlight]
    /\ held \in [Executors -> Jobs \cup {None}]
    /\ lag \in [Executors -> 0 .. MaxLag]
    /\ hdl \in [Executors -> {"none", "running", "returned", "raised"}]
    /\ ren \in [Executors -> {"off", "sleep", "renewing", "failed"}]
    /\ rtime \in [Executors -> Nat]
    /\ faults \in 0 .. MaxFaults

Init ==
    /\ status = [j \in Jobs |-> "absent"]
    /\ owner = [j \in Jobs |-> None]
    /\ due = [j \in Jobs |-> 0]
    /\ worker = [w \in Workers |-> "down"]
    /\ pc = [e \in Executors |-> "down"]
    /\ held = [e \in Executors |-> None]
    /\ lag = [e \in Executors |-> 0]
    /\ hdl = [e \in Executors |-> "none"]
    /\ ren = [e \in Executors |-> "off"]
    /\ rtime = [e \in Executors |-> 0]
    /\ faults = 0

-----------------------------------------------------------------------------
(* The job table *)

\* Mutant: claim without FOR UPDATE.
Locked_NoRowLock == {}

\* Rows locked by a claim (FOR UPDATE) that has not committed yet.
Locked == {held[e] : e \in {x \in Executors : pc[x] = "commit"}}

\* enqueue_in_session: an insert that does nothing when the key exists.  Its
\* available_at is the time of the request or the scheduled time before it.
Enqueue(j) ==
    /\ status[j] = "absent"
    /\ status' = [status EXCEPT ![j] = "queued"]
    /\ \E d \in {-MaxLag, 0} : due' = [due EXCEPT ![j] = d]
    /\ UNCHANGED <<owner, worker, pc, held, lag, tasks, faults>>

\* Mutant: claim without its status conditions.
Claimable_AnyStatus(e) ==
    {j \in Jobs \ Locked : status[j] # "absent" /\ due[j] <= -lag[e]}

\* Mutant: claim that forgets lapsed leases.
Claimable_QueuedOnly(e) ==
    {j \in Jobs \ Locked : status[j] = "queued" /\ due[j] <= -lag[e]}

\* The WHERE clause of claim, for a `now` read lag[e] ago; SKIP LOCKED.
Claimable(e) ==
    {j \in Jobs \ Locked : /\ status[j] \in {"queued", "leased"}
                           /\ due[j] <= -lag[e]}

\* Mutant: _owned_update without the owner condition.
Owns_AnyOwner(e, j, age) == status[j] = "leased" /\ due[j] > -age

\* The WHERE clause of _owned_update, for a `now` read `age` ago.
Owns(e, j, age) ==
    /\ status[j] = "leased"
    /\ owner[j] = e
    /\ due[j] > -age

\* Mutant: a renewal that adds to the old expiry.
Extend_Accumulates(j, age) == due' = [due EXCEPT ![j] = @ + LeaseSecs]

\* The values claim and renew write, for a `now` read `age` ago.
Extend(j, age) == due' = [due EXCEPT ![j] = LeaseSecs - age]

\* Mutant: a settlement that leaves the owner in the row.
Close_KeepsOwner(j, outcome) ==
    /\ status' = [status EXCEPT ![j] = outcome]
    /\ due' = [due EXCEPT ![j] = 0]
    /\ UNCHANGED owner

\* The values complete and fail write.
Close(j, outcome) ==
    /\ status' = [status EXCEPT ![j] = outcome]
    /\ owner' = [owner EXCEPT ![j] = None]
    /\ due' = [due EXCEPT ![j] = 0]

Fault == faults < MaxFaults /\ faults' = faults + 1

-----------------------------------------------------------------------------
(* JobExecutor.run_loop and the claim of run_once *)

BeginClaim(e) ==
    /\ pc[e] = "idle"
    /\ worker[Home[e]] = "up"
    /\ pc' = [pc EXCEPT ![e] = "select"]
    /\ UNCHANGED <<table, worker, held, lag, tasks, faults>>

LeaveLoop(e) ==
    /\ pc[e] = "idle"
    /\ worker[Home[e]] = "stopping"
    /\ pc' = [pc EXCEPT ![e] = "down"]
    /\ UNCHANGED <<table, worker, held, lag, tasks, faults>>

SelectNone(e) ==
    /\ pc[e] = "select"
    /\ Claimable(e) = {}
    /\ pc' = [pc EXCEPT ![e] = "idle"]
    /\ lag' = [lag EXCEPT ![e] = 0]
    /\ UNCHANGED <<table, worker, held, tasks, faults>>

SelectRow(e) ==
    /\ pc[e] = "select"
    /\ \E j \in Claimable(e) :
          /\ \A k \in Claimable(e) : j <= k
          /\ held' = [held EXCEPT ![e] = j]
    /\ pc' = [pc EXCEPT ![e] = "commit"]
    /\ UNCHANGED <<table, worker, lag, tasks, faults>>

LeaseTo(e, j) ==
    /\ status' = [status EXCEPT ![j] = "leased"]
    /\ owner' = [owner EXCEPT ![j] = e]
    /\ Extend(j, lag[e])

\* A known job type starts the handler and the renewal task; an unknown one
\* is failed at once.
CommitClaim(e) ==
    /\ pc[e] = "commit"
    /\ LeaseTo(e, held[e])
    /\ IF held[e] \in Handled
       THEN /\ pc' = [pc EXCEPT ![e] = "run"]
            /\ hdl' = [hdl EXCEPT ![e] = "running"]
            /\ ren' = [ren EXCEPT ![e] = "sleep"]
       ELSE /\ pc' = [pc EXCEPT ![e] = "fail"]
            /\ UNCHANGED <<hdl, ren>>
    /\ lag' = [lag EXCEPT ![e] = 0]
    /\ rtime' = [rtime EXCEPT ![e] = 0]
    /\ UNCHANGED <<worker, held, faults>>

\* The claim raises; its commit may have reached the database or not.
ClaimError(e) ==
    /\ Fault
    /\ \/ pc[e] \in {"select", "commit"} /\ UNCHANGED table
       \/ pc[e] = "commit" /\ LeaseTo(e, held[e])
    /\ pc' = [pc EXCEPT ![e] = "escape"]
    /\ held' = [held EXCEPT ![e] = None]
    /\ lag' = [lag EXCEPT ![e] = 0]
    /\ UNCHANGED <<worker, tasks>>

-----------------------------------------------------------------------------
(* The renewal task: _renew_until_stopped *)

\* The timer fires and `now` is read; not after the stop event is set.
RenewBegin(e) ==
    /\ ren[e] = "sleep"
    /\ rtime[e] = RenewEvery
    /\ pc[e] \in {"run"} \cup Settling
    /\ ren' = [ren EXCEPT ![e] = "renewing"]
    /\ rtime' = [rtime EXCEPT ![e] = 0]
    /\ UNCHANGED <<table, worker, pc, held, lag, hdl, faults>>

\* Mutant: a renewal task that renews once.
RenewalEnds_Once(e, raised) ==
    /\ ren' = [ren EXCEPT ![e] = IF raised /\ pc[e] = "run" THEN "failed" ELSE "off"]
    /\ rtime' = [rtime EXCEPT ![e] = 0]

\* The task as it stands after its UPDATE: it sleeps again unless it raised;
\* an error counts only while run_once still waits on it.
RenewalEnds(e, raised) ==
    /\ ren' = [ren EXCEPT ![e] =
                  IF raised THEN IF pc[e] = "run" THEN "failed" ELSE "off"
                  ELSE IF pc[e] \in {"drain", "escape"} THEN "off" ELSE "sleep"]
    /\ rtime' = [rtime EXCEPT ![e] = 0]

\* The UPDATE waits for a row that a claim has locked, then looks again.
RenewExecute(e) ==
    /\ ren[e] = "renewing"
    /\ held[e] \notin Locked
    /\ IF Owns(e, held[e], rtime[e])
       THEN Extend(held[e], rtime[e]) /\ RenewalEnds(e, FALSE)
       ELSE UNCHANGED due /\ RenewalEnds(e, TRUE)
    /\ UNCHANGED <<status, owner, worker, pc, held, lag, hdl, faults>>

\* A database error, before or after the UPDATE took effect.
RenewError(e) ==
    /\ ren[e] = "renewing"
    /\ Fault
    /\ \/ UNCHANGED due
       \/ held[e] \notin Locked /\ Owns(e, held[e], rtime[e])
          /\ Extend(held[e], rtime[e])
    /\ RenewalEnds(e, TRUE)
    /\ UNCHANGED <<status, owner, worker, pc, held, lag, hdl>>

-----------------------------------------------------------------------------
(* The handler task and run_once *)

HandlerEnds(e, how) ==
    /\ pc[e] = "run"
    /\ hdl[e] = "running"
    /\ hdl' = [hdl EXCEPT ![e] = how]
    /\ UNCHANGED <<table, worker, pc, held, lag, ren, rtime, faults>>

\* asyncio.wait returns with the renewal task done: it only ends by raising,
\* so the handler is cancelled and awaited, also one that has just finished.
WakeLeaseLost(e) ==
    /\ pc[e] = "run"
    /\ ren[e] = "failed"
    /\ ren' = [ren EXCEPT ![e] = "off"]
    /\ pc' = [pc EXCEPT ![e] = "cancel"]
    /\ UNCHANGED <<table, worker, held, lag, hdl, rtime, faults>>

Cancelled(e) ==
    /\ pc[e] = "cancel"
    /\ hdl' = [hdl EXCEPT ![e] = "none"]
    /\ pc' = [pc EXCEPT ![e] = "fail"]
    /\ UNCHANGED <<table, worker, held, lag, ren, rtime, faults>>

\* asyncio.wait returns with only the handler done.
WakeHandlerDone(e) ==
    /\ pc[e] = "run"
    /\ ren[e] # "failed"
    /\ hdl[e] \in {"returned", "raised"}
    /\ hdl' = [hdl EXCEPT ![e] = "none"]
    /\ pc' = [pc EXCEPT ![e] = IF hdl[e] = "returned" THEN "complete" ELSE "fail"]
    /\ UNCHANGED <<table, worker, held, lag, ren, rtime, faults>>

Outcome(e) == IF pc[e] = "complete" THEN "completed" ELSE "failed"

\* complete or fail: LeaseOwnershipError when the row is not the caller's.
Settle(e) ==
    /\ pc[e] \in Settling
    /\ held[e] \notin Locked
    /\ IF Owns(e, held[e], lag[e])
       THEN Close(held[e], Outcome(e)) /\ pc' = [pc EXCEPT ![e] = "drain"]
       ELSE UNCHANGED table /\ pc' = [pc EXCEPT ![e] = "escape"]
    /\ lag' = [lag EXCEPT ![e] = 0]
    /\ UNCHANGED <<worker, held, tasks, faults>>

SettleError(e) ==
    /\ pc[e] \in Settling
    /\ Fault
    /\ \/ UNCHANGED table
       \/ held[e] \notin Locked /\ Owns(e, held[e], lag[e])
          /\ Close(held[e], Outcome(e))
    /\ pc' = [pc EXCEPT ![e] = "escape"]
    /\ lag' = [lag EXCEPT ![e] = 0]
    /\ UNCHANGED <<worker, held, tasks>>

\* The finally block waits for a renewal in flight.  After it run_once either
\* returns to the loop or its exception ends the executor, and with it the
\* process: worker_service sets stop and gather raises.
RunEnds(e) ==
    /\ pc[e] \in {"drain", "escape"}
    /\ ren[e] # "renewing"
    /\ pc' = [pc EXCEPT ![e] = IF pc[e] = "drain" THEN "idle" ELSE "down"]
    /\ worker' = [worker EXCEPT ![Home[e]] =
                     IF pc[e] = "drain" THEN @ ELSE "stopping"]
    /\ held' = [held EXCEPT ![e] = None]
    /\ ren' = [ren EXCEPT ![e] = "off"]
    /\ rtime' = [rtime EXCEPT ![e] = 0]
    /\ UNCHANGED <<table, lag, hdl, faults>>

-----------------------------------------------------------------------------
(* worker_service *)

StartWorker(w) ==
    /\ worker[w] = "down"
    /\ worker' = [worker EXCEPT ![w] = "up"]
    /\ pc' = [e \in Executors |-> IF Home[e] = w THEN "idle" ELSE pc[e]]
    /\ UNCHANGED <<table, held, lag, tasks, faults>>

\* SIGTERM or SIGINT.
Signal(w) ==
    /\ worker[w] = "up"
    /\ Fault
    /\ worker' = [worker EXCEPT ![w] = "stopping"]
    /\ UNCHANGED <<table, pc, held, lag, tasks>>

\* Every task of the process vanishes; what it wrote stays.
Vanish(w) ==
    /\ worker' = [worker EXCEPT ![w] = "down"]
    /\ pc' = [e \in Executors |-> IF Home[e] = w THEN "down" ELSE pc[e]]
    /\ held' = [e \in Executors |-> IF Home[e] = w THEN None ELSE held[e]]
    /\ lag' = [e \in Executors |-> IF Home[e] = w THEN 0 ELSE lag[e]]
    /\ hdl' = [e \in Executors |-> IF Home[e] = w THEN "none" ELSE hdl[e]]
    /\ ren' = [e \in Executors |-> IF Home[e] = w THEN "off" ELSE ren[e]]
    /\ rtime' = [e \in Executors |-> IF Home[e] = w THEN 0 ELSE rtime[e]]
    /\ UNCHANGED table

\* The process ends: its loops have all left, TERMINATION_GRACE_SECONDS are
\* over, or an executor's exception tears it down.  Handlers are cancelled and
\* their jobs stay leased.
StopWorker(w) ==
    /\ worker[w] = "stopping"
    /\ Vanish(w)
    /\ UNCHANGED faults

Crash(w) ==
    /\ worker[w] # "down"
    /\ Fault
    /\ Vanish(w)

-----------------------------------------------------------------------------
(* Time *)

\* No executor has a reaction pending: a process that is not paused fires a
\* due timer, wakes up and cancels within the current tick.
Prompt ==
    \A e \in Executors :
        /\ ~(ren[e] = "sleep" /\ rtime[e] = RenewEvery)
        /\ ren[e] # "failed"
        /\ pc[e] # "cancel"

Tick ==
    /\ \A e \in Executors :
          /\ pc[e] \in InFlight => lag[e] < MaxLag
          /\ ren[e] = "renewing" => rtime[e] < MaxLag
    /\ MayStall \/ Prompt
    /\ due' = [j \in Jobs |->
                  IF status[j] \in {"queued", "leased"} /\ due[j] > -MaxLag
                  THEN due[j] - 1 ELSE due[j]]
    /\ lag' = [e \in Executors |->
                  IF pc[e] \in InFlight THEN lag[e] + 1 ELSE lag[e]]
    /\ rtime' = [e \in Executors |->
                    IF \/ ren[e] = "renewing"
                       \/ ren[e] = "sleep" /\ rtime[e] < RenewEvery
                    THEN rtime[e] + 1 ELSE rtime[e]]
    /\ UNCHANGED <<status, owner, worker, pc, held, hdl, ren, faults>>

-----------------------------------------------------------------------------

Claim(e) == BeginClaim(e) \/ LeaveLoop(e) \/ SelectNone(e) \/ SelectRow(e)
                \/ CommitClaim(e) \/ ClaimError(e)

Renewal(e) == RenewBegin(e) \/ RenewExecute(e) \/ RenewError(e)

Handling(e) == HandlerEnds(e, "returned") \/ HandlerEnds(e, "raised")
                   \/ WakeLeaseLost(e) \/ Cancelled(e) \/ WakeHandlerDone(e)

Settlement(e) == Settle(e) \/ SettleError(e) \/ RunEnds(e)

Process(w) == StartWorker(w) \/ Signal(w) \/ StopWorker(w) \/ Crash(w)

Next ==
    \/ \E j \in Jobs : Enqueue(j)
    \/ \E e \in Executors : Claim(e) \/ Renewal(e) \/ Handling(e) \/ Settlement(e)
    \/ \E w \in Workers : Process(w)
    \/ Tick

Spec == Init /\ [][Next]_vars

-----------------------------------------------------------------------------
(* Properties *)

\* A job that was completed or failed never changes again, whatever zombies,
\* crashes and late statements do (claim and _owned_update only match live
\* rows).
TerminalIsFinal ==
    [][\A j \in Jobs : status[j] \in Terminal =>
          UNCHANGED <<status[j], owner[j]>>]_vars

\* Only the executor named in the row settles it, and only for the job it
\* claimed: an executor whose job was taken over cannot complete or fail it
\* (_owned_update).
SettledByHolder ==
    [][\A j \in Jobs : status[j] \notin Terminal /\ status'[j] \in Terminal =>
          \E e \in Executors :
             owner[j] = e /\ held[e] = j /\ pc[e] \in Settling]_vars

\* A job is never taken from an executor whose lease still runs at that very
\* moment, even though claim compares with a time read before its transaction
\* and the owner may renew between the claim's SELECT and its commit.
StealsOnlyLapsed ==
    [][\A j \in Jobs : status[j] = "leased" /\ owner'[j] \notin {owner[j], None} =>
          due[j] <= 0]_vars

\* No two executors run the handler of one job at the same time.  The single
\* timing assumption is Timely: the processes are not paused and a lease
\* outlives the renewal period plus two database operations.
NoOverlap ==
    \A e, f \in Executors :
        /\ hdl[e] = "running" /\ hdl[f] = "running"
        /\ held[e] = held[f]
        => e = f

\* A running handler owns the lease of its job.
LiveHandlerOwnsLease ==
    \A e \in Executors :
        hdl[e] = "running" => owner[held[e]] = e /\ status[held[e]] = "leased"

Timely == ~MayStall /\ RenewEvery + 2 * MaxLag < LeaseSecs

\* Every enqueued job is eventually completed or failed, across crashes,
\* restarts, lost leases and database errors (claim takes lapsed leases too).
EveryJobSettles ==
    \A j \in Jobs : status[j] = "queued" ~> status[j] \in Terminal

\* The table with its leases implements the abstract queue.
Queue == INSTANCE JobQueue
    WITH stage <- [j \in Jobs |-> IF status[j] = "leased" THEN "held" ELSE status[j]],
         holder <- owner

ImplementsQueue == Queue!Spec

=============================================================================
