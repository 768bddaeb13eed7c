--------------------------- MODULE JobLeasesProofs ---------------------------
(***************************************************************************)
(* Theorems about JobLeases, for any jobs, processes, executors, durations *)
(* and any number of faults.                                               *)
(***************************************************************************)
EXTENDS JobLeases, TLAPS

\* The steps of one executor, one of which every executor step is.
ExecutorStep(e) == Claim(e) \/ Renewal(e) \/ Handling(e) \/ Settlement(e)

\* What the program counter of an executor says about its other variables.
Bookkeeping ==
    \A e \in Executors :
        /\ pc[e] \in {"commit", "run", "cancel"} \cup Settling => held[e] \in Jobs
        /\ ren[e] \in {"sleep", "renewing"} =>
              /\ held[e] \in Jobs
              /\ pc[e] \in {"run", "drain", "escape"} \cup Settling
        /\ ren[e] = "renewing" => rtime[e] <= MaxLag
        /\ ren[e] = "sleep" => rtime[e] <= RenewEvery
        /\ ren[e] = "failed" => pc[e] = "run"
        /\ hdl[e] # "none" => pc[e] \in {"run", "cancel"}
        /\ pc[e] = "run" => ren[e] # "off"
        /\ worker[Home[e]] = "down" => pc[e] = "down"

\* A row names an owner exactly while it is leased.
OwnedIffLeased == \A j \in Jobs : status[j] = "leased" <=> owner[j] # None

Base == TypeOK /\ Bookkeeping /\ OwnedIffLeased

-----------------------------------------------------------------------------

\* The durations are numbers, and a lease outlives the renewal period.
LEMMA ArithmeticFacts ==
    /\ LeaseSecs \in Nat /\ RenewEvery \in Nat /\ MaxLag \in Nat /\ MaxFaults \in Nat
    /\ RenewEvery < LeaseSecs
  BY TimingAssumption, FaultAssumption

\* The initial state satisfies Base.
LEMMA InitBase == Init => Base
  BY ArithmeticFacts, NoneAssumption, ExecutorsAssumption
     DEF Init, Base, TypeOK, Bookkeeping, OwnedIffLeased, Terminal, Settling, InFlight

\* Base is preserved by claiming.
LEMMA ClaimBase == ASSUME NEW e \in Executors, Base, Claim(e) PROVE Base'
<1> USE ArithmeticFacts, NoneAssumption, JobsAssumption, ExecutorsAssumption
    DEF Base, TypeOK, Bookkeeping, OwnedIffLeased, Terminal, Settling, InFlight, table, tasks
<1>1. CASE BeginClaim(e) BY <1>1 DEF BeginClaim
<1>2. CASE LeaveLoop(e) BY <1>2 DEF LeaveLoop
<1>3. CASE SelectNone(e) BY <1>3 DEF SelectNone
<1>4. CASE SelectRow(e) BY <1>4 DEF SelectRow, Claimable
<1>5. CASE CommitClaim(e) BY <1>5 DEF CommitClaim, LeaseTo, Extend
<1>6. CASE ClaimError(e) BY <1>6 DEF ClaimError, LeaseTo, Extend, Fault
<1> QED BY <1>1, <1>2, <1>3, <1>4, <1>5, <1>6 DEF Claim

\* Base is preserved by the renewal task.
LEMMA RenewalBase == ASSUME NEW e \in Executors, Base, Renewal(e) PROVE Base'
<1> USE ArithmeticFacts, NoneAssumption, JobsAssumption, ExecutorsAssumption
    DEF Base, TypeOK, Bookkeeping, OwnedIffLeased, Terminal, Settling, InFlight, table, tasks
<1>1. CASE RenewBegin(e) BY <1>1 DEF RenewBegin
<1>2. CASE RenewExecute(e) BY <1>2 DEF RenewExecute, RenewalEnds, Extend, Owns
<1>3. CASE RenewError(e) BY <1>3 DEF RenewError, RenewalEnds, Extend, Owns, Fault
<1> QED BY <1>1, <1>2, <1>3 DEF Renewal

\* Base is preserved by the handler task and by run_once waiting on it.
LEMMA HandlingBase == ASSUME NEW e \in Executors, Base, Handling(e) PROVE Base'
<1> USE ArithmeticFacts, NoneAssumption, JobsAssumption, ExecutorsAssumption
    DEF Base, TypeOK, Bookkeeping, OwnedIffLeased, Terminal, Settling, InFlight, table, tasks
<1>1. CASE HandlerEnds(e, "returned") BY <1>1 DEF HandlerEnds
<1>2. CASE HandlerEnds(e, "raised") BY <1>2 DEF HandlerEnds
<1>3. CASE WakeLeaseLost(e) BY <1>3 DEF WakeLeaseLost
<1>4. CASE Cancelled(e) BY <1>4 DEF Cancelled
<1>5. CASE WakeHandlerDone(e) BY <1>5 DEF WakeHandlerDone
<1> QED BY <1>1, <1>2, <1>3, <1>4, <1>5 DEF Handling

\* Base is preserved by completing and failing jobs.
LEMMA SettlementBase == ASSUME NEW e \in Executors, Base, Settlement(e) PROVE Base'
<1> USE ArithmeticFacts, NoneAssumption, JobsAssumption, ExecutorsAssumption
    DEF Base, TypeOK, Bookkeeping, OwnedIffLeased, Terminal, Settling, InFlight, table, tasks
<1>1. CASE Settle(e) BY <1>1 DEF Settle, Owns, Close, Outcome
<1>2. CASE SettleError(e) BY <1>2 DEF SettleError, Owns, Close, Outcome, Fault
<1>3. CASE RunEnds(e) BY <1>3 DEF RunEnds
<1> QED BY <1>1, <1>2, <1>3 DEF Settlement

\* Base is preserved by starting, stopping and killing a process.
LEMMA ProcessBase == ASSUME NEW w \in Workers, Base, Process(w) PROVE Base'
<1> USE ArithmeticFacts, NoneAssumption, JobsAssumption, ExecutorsAssumption
    DEF Base, TypeOK, Bookkeeping, OwnedIffLeased, Terminal, Settling, InFlight, table, tasks
<1>1. CASE StartWorker(w) BY <1>1 DEF StartWorker
<1>2. CASE Signal(w) BY <1>2 DEF Signal, Fault
<1>3. CASE StopWorker(w) BY <1>3 DEF StopWorker, Vanish
<1>4. CASE Crash(w) BY <1>4 DEF Crash, Vanish, Fault
<1> QED BY <1>1, <1>2, <1>3, <1>4 DEF Process

\* Base is preserved by an enqueue and by the passing of time.
LEMMA EnvironmentBase ==
  ASSUME Base, (\E j \in Jobs : Enqueue(j)) \/ Tick \/ UNCHANGED vars PROVE Base'
<1> USE ArithmeticFacts, NoneAssumption, JobsAssumption, ExecutorsAssumption
    DEF Base, TypeOK, Bookkeeping, OwnedIffLeased, Terminal, Settling, InFlight, table, tasks
<1>1. CASE \E j \in Jobs : Enqueue(j) BY <1>1 DEF Enqueue
<1>2. CASE Tick BY <1>2 DEF Tick
<1>3. CASE UNCHANGED vars BY <1>3 DEF vars
<1> QED BY <1>1, <1>2, <1>3

\* Base is preserved by every step of the system.
LEMMA NextBase == Base /\ [Next]_vars => Base'
<1> SUFFICES ASSUME Base, [Next]_vars PROVE Base'
  OBVIOUS
<1>1. ASSUME NEW e \in Executors, Claim(e) PROVE Base'
  BY <1>1, ClaimBase
<1>2. ASSUME NEW e \in Executors, Renewal(e) PROVE Base'
  BY <1>2, RenewalBase
<1>3. ASSUME NEW e \in Executors, Handling(e) PROVE Base'
  BY <1>3, HandlingBase
<1>4. ASSUME NEW e \in Executors, Settlement(e) PROVE Base'
  BY <1>4, SettlementBase
<1>5. ASSUME NEW w \in Workers, Process(w) PROVE Base'
  BY <1>5, ProcessBase
<1>6. CASE (\E j \in Jobs : Enqueue(j)) \/ Tick \/ UNCHANGED vars
  BY <1>6, EnvironmentBase
<1> QED BY <1>1, <1>2, <1>3, <1>4, <1>5, <1>6 DEF Next

\* Base always holds.
LEMMA BaseInvariant == Spec => []Base
<1>1. Init => Base
  BY InitBase
<1>2. Base /\ [Next]_vars => Base'
  BY NextBase
<1> QED BY <1>1, <1>2, PTL DEF Spec

\* Every variable of the job table and of the executors keeps its type.
THEOREM TypeCorrect == Spec => []TypeOK
<1>1. Base => TypeOK
  BY DEF Base
<1> QED BY <1>1, BaseInvariant, PTL

-----------------------------------------------------------------------------
(* Row locks, and what a step may do to the table *)

\* The row a claim has locked stays claimable until the claim commits, and no
\* other claim holds it.
RowLocks ==
    \A f \in Executors : pc[f] = "commit" =>
        /\ status[held[f]] \in {"queued", "leased"}
        /\ due[held[f]] <= 0
        /\ \A e \in Executors : pc[e] = "commit" /\ held[e] = held[f] => e = f

IInv == Base /\ RowLocks

\* The four ways in which a step changes status and owner.
Enqueues(j) ==
    /\ status[j] = "absent"
    /\ status' = [status EXCEPT ![j] = "queued"]
    /\ UNCHANGED owner

Takes(e, j) ==
    /\ status[j] \in {"queued", "leased"}
    /\ due[j] <= 0
    /\ status' = [status EXCEPT ![j] = "leased"]
    /\ owner' = [owner EXCEPT ![j] = e]

Settles(e, j, outcome) ==
    /\ status[j] = "leased" /\ owner[j] = e
    /\ held[e] = j /\ pc[e] \in Settling
    /\ status' = [status EXCEPT ![j] = outcome]
    /\ owner' = [owner EXCEPT ![j] = None]

TableStep ==
    \/ UNCHANGED <<status, owner>>
    \/ \E j \in Jobs : Enqueues(j)
    \/ \E e \in Executors, j \in Jobs : Takes(e, j)
    \/ \E e \in Executors, j \in Jobs, outcome \in Terminal : Settles(e, j, outcome)

\* What an executor does to the job table is a take, a settlement, or a change
\* of expiries: claim, renew, complete and fail have no other effect on it.
LEMMA ExecutorTableStep ==
  ASSUME IInv, NEW e \in Executors, ExecutorStep(e) PROVE TableStep
<1> USE DEF TableStep, table, tasks
<1>1. CASE BeginClaim(e) \/ LeaveLoop(e) \/ SelectNone(e) \/ SelectRow(e)
  BY <1>1 DEF BeginClaim, LeaveLoop, SelectNone, SelectRow
<1>2. ASSUME pc[e] = "commit", LeaseTo(e, held[e]) PROVE TableStep
  <2>1. held[e] \in Jobs /\ Takes(e, held[e])
    BY <1>2 DEF LeaseTo, Takes, IInv, RowLocks, Base, Bookkeeping
  <2> QED BY <2>1
<1>3. CASE CommitClaim(e)
  BY <1>2, <1>3 DEF CommitClaim
<1>4. CASE ClaimError(e)
  BY <1>2, <1>4 DEF ClaimError
<1>5. CASE Renewal(e)
  BY <1>5 DEF Renewal, RenewBegin, RenewExecute, RenewError
<1>6. CASE Handling(e)
  BY <1>6 DEF Handling, HandlerEnds, WakeLeaseLost, Cancelled, WakeHandlerDone
<1>7. ASSUME pc[e] \in Settling, Owns(e, held[e], lag[e]), Close(held[e], Outcome(e))
      PROVE  TableStep
  <2>1. held[e] \in Jobs /\ Outcome(e) \in Terminal
    BY <1>7 DEF IInv, Base, Bookkeeping, Outcome, Terminal
  <2>2. Settles(e, held[e], Outcome(e))
    BY <1>7 DEF Settles, Owns, Close
  <2> QED BY <2>1, <2>2
<1>8. CASE Settle(e)
  BY <1>7, <1>8 DEF Settle
<1>9. CASE SettleError(e)
  BY <1>7, <1>9 DEF SettleError
<1>10. CASE RunEnds(e)
  BY <1>10 DEF RunEnds
<1> QED BY <1>1, <1>3, <1>4, <1>5, <1>6, <1>8, <1>9, <1>10
        DEF ExecutorStep, Claim, Settlement

\* The same of every step of the system.
LEMMA NextTableStep == IInv /\ [Next]_vars => TableStep
<1> SUFFICES ASSUME IInv, [Next]_vars PROVE TableStep
  OBVIOUS
<1>1. ASSUME NEW e \in Executors, ExecutorStep(e) PROVE TableStep
  BY <1>1, ExecutorTableStep
<1>2. ASSUME NEW j \in Jobs, Enqueue(j) PROVE TableStep
  BY <1>2 DEF Enqueue, Enqueues, TableStep
<1>3. ASSUME NEW w \in Workers, Process(w) PROVE TableStep
  BY <1>3 DEF Process, StartWorker, Signal, StopWorker, Crash, Vanish, table, TableStep
<1>4. CASE Tick \/ UNCHANGED vars
  BY <1>4 DEF Tick, vars, TableStep
<1> QED BY <1>1, <1>2, <1>3, <1>4 DEF Next, ExecutorStep

\* RowLocks is preserved.  While a row is locked no other claim selects it,
\* and renewals and settlements of it wait.
LEMMA ExecutorRowLocks ==
  ASSUME IInv, NEW g \in Executors, ExecutorStep(g) PROVE RowLocks'
<1> DEFINE Row(f) == /\ status[held[f]] \in {"queued", "leased"}
                     /\ due[held[f]] <= 0
<1>1. ASSUME NEW f \in Executors, pc[f] = "commit"
      PROVE  /\ held[f] \in Jobs
             /\ held[f] \in Locked
             /\ Row(f)
             /\ \A e \in Executors : pc[e] = "commit" /\ held[e] = held[f] => e = f
  BY <1>1 DEF IInv, Base, Bookkeeping, RowLocks, Locked
<1> USE DEF IInv, Base, TypeOK, table, tasks
\* A step that selects no row and writes no locked row.
<1>2. ASSUME \A e \in Executors : pc'[e] = "commit" => pc[e] = "commit" /\ held'[e] = held[e],
             \A f \in Executors : pc'[f] = "commit" =>
                /\ status'[held[f]] = status[held[f]]
                /\ due'[held[f]] = due[held[f]]
      PROVE  RowLocks'
  BY <1>1, <1>2 DEF RowLocks
<1>3. CASE SelectRow(g)
  <2>1. PICK j \in Claimable(g) : held' = [held EXCEPT ![g] = j]
    BY <1>3 DEF SelectRow
  <2>2. j \in Jobs \ Locked /\ status[j] \in {"queued", "leased"} /\ due[j] <= -lag[g]
    BY <2>1 DEF Claimable
  <2>3. due[j] <= 0
    BY <2>2, ArithmeticFacts
  <2>4. UNCHANGED <<status, due>> /\ pc' = [pc EXCEPT ![g] = "commit"] /\ pc[g] # "commit"
    BY <1>3 DEF SelectRow
  <2> QED BY <1>1, <2>1, <2>2, <2>3, <2>4 DEF RowLocks
<1>4. CASE BeginClaim(g) \/ LeaveLoop(g) \/ SelectNone(g)
  BY <1>2, <1>4 DEF BeginClaim, LeaveLoop, SelectNone
<1>5. ASSUME pc[g] = "commit", LeaseTo(g, held[g]), NEW p, p # "commit",
             pc' = [pc EXCEPT ![g] = p], \A e \in Executors \ {g} : held'[e] = held[e]
      PROVE  RowLocks'
  BY <1>1, <1>2, <1>5 DEF LeaseTo, Extend
<1>6. CASE CommitClaim(g)
  BY <1>5, <1>6 DEF CommitClaim
<1>7. CASE ClaimError(g)
  BY <1>2, <1>5, <1>7 DEF ClaimError
<1>8. CASE RenewBegin(g)
  BY <1>2, <1>8 DEF RenewBegin
<1>9. CASE RenewExecute(g)
  BY <1>1, <1>2, <1>9 DEF RenewExecute, Extend
<1>10. CASE RenewError(g)
  BY <1>1, <1>2, <1>10 DEF RenewError, Extend
<1>11. CASE Handling(g)
  BY <1>2, <1>11 DEF Handling, HandlerEnds, WakeLeaseLost, Cancelled, WakeHandlerDone
<1>12. CASE Settle(g)
  BY <1>1, <1>2, <1>12 DEF Settle, Close, Settling
<1>13. CASE SettleError(g)
  BY <1>1, <1>2, <1>13 DEF SettleError, Close, Settling
<1>14. CASE RunEnds(g)
  BY <1>2, <1>14 DEF RunEnds
<1> QED BY <1>3, <1>4, <1>6, <1>7, <1>8, <1>9, <1>10, <1>11, <1>12, <1>13, <1>14
        DEF ExecutorStep, Claim, Renewal, Settlement

\* The inductive invariant is preserved by every step.
LEMMA NextIInv == IInv /\ [Next]_vars => IInv'
<1> SUFFICES ASSUME IInv, [Next]_vars PROVE RowLocks'
  BY NextBase DEF IInv
<1> USE DEF IInv, RowLocks
<1>1. ASSUME NEW e \in Executors, ExecutorStep(e) PROVE RowLocks'
  BY <1>1, ExecutorRowLocks
<1>2. ASSUME NEW j \in Jobs, Enqueue(j) PROVE RowLocks'
  BY <1>2, ArithmeticFacts DEF Enqueue, Base, TypeOK, Bookkeeping
<1>3. ASSUME NEW w \in Workers, Process(w) PROVE RowLocks'
  BY <1>3, ExecutorsAssumption
     DEF Process, StartWorker, Signal, StopWorker, Crash, Vanish, table, Base, TypeOK
<1>4. CASE Tick
  BY <1>4, ArithmeticFacts DEF Tick, Base, TypeOK, Bookkeeping
<1>5. CASE UNCHANGED vars
  BY <1>5 DEF vars
<1> QED BY <1>1, <1>2, <1>3, <1>4, <1>5 DEF Next, ExecutorStep

\* The inductive invariant always holds.
LEMMA IInvInvariant == Spec => []IInv
<1>1. Init => IInv
  BY InitBase DEF IInv, RowLocks, Init
<1>2. IInv /\ [Next]_vars => IInv'
  BY NextIInv
<1> QED BY <1>1, <1>2, PTL DEF Spec

-----------------------------------------------------------------------------
(* The action properties and the refinement *)

\* A completed or failed job never changes again (claim, _owned_update).
THEOREM TerminalFinal == Spec => TerminalIsFinal
<1>1. IInv /\ [Next]_vars =>
        [\A j \in Jobs : status[j] \in Terminal => UNCHANGED <<status[j], owner[j]>>]_vars
  BY NextTableStep
     DEF TableStep, Enqueues, Takes, Settles, Terminal, IInv, Base, TypeOK
<1> QED BY <1>1, IInvInvariant, PTL DEF Spec, TerminalIsFinal

\* Only the executor named in the row settles a job (_owned_update).
THEOREM OnlyHolderSettles == Spec => SettledByHolder
<1>1. IInv /\ [Next]_vars =>
        [\A j \in Jobs : status[j] \notin Terminal /\ status'[j] \in Terminal =>
            \E e \in Executors : owner[j] = e /\ held[e] = j /\ pc[e] \in Settling]_vars
  BY NextTableStep
     DEF TableStep, Enqueues, Takes, Settles, Terminal, IInv, Base, TypeOK
<1> QED BY <1>1, IInvInvariant, PTL DEF Spec, SettledByHolder

\* A claim displaces only an owner whose lease has run out (claim).
THEOREM OnlyLapsedStolen == Spec => StealsOnlyLapsed
<1>1. IInv /\ [Next]_vars =>
        [\A j \in Jobs : status[j] = "leased" /\ owner'[j] \notin {owner[j], None} =>
            due[j] <= 0]_vars
  BY NextTableStep
     DEF TableStep, Enqueues, Takes, Settles, Terminal, IInv, Base, TypeOK
<1> QED BY <1>1, IInvInvariant, PTL DEF Spec, StealsOnlyLapsed

\* The leased table implements the abstract queue: every step of the workers
\* is an enqueue, a take, a settlement or invisible.
THEOREM LeasesImplementQueue == Spec => ImplementsQueue
<1>1. Init => Queue!Init
  BY DEF Init, Queue!Init
<1>2. IInv /\ [Next]_vars => [Queue!Next]_(Queue!vars)
  <2> SUFFICES ASSUME IInv, TableStep PROVE [Queue!Next]_(Queue!vars)
    BY NextTableStep
  <2> USE DEF IInv, Base, TypeOK, Queue!Next, Queue!vars
  <2>1. CASE UNCHANGED <<status, owner>>
    BY <2>1
  <2>2. ASSUME NEW j \in Jobs, Enqueues(j) PROVE Queue!Next
    BY <2>2 DEF Enqueues, Queue!Enqueue
  <2>3. ASSUME NEW e \in Executors, NEW j \in Jobs, Takes(e, j) PROVE Queue!Next
    BY <2>3 DEF Takes, Queue!Take
  <2>4. ASSUME NEW e \in Executors, NEW j \in Jobs, NEW outcome \in Terminal,
               Settles(e, j, outcome)
        PROVE  Queue!Next
    BY <2>4 DEF Settles, Queue!Settle, Terminal, Queue!Settled
  <2> QED BY <2>1, <2>2, <2>3, <2>4 DEF TableStep
<1> QED BY <1>1, <1>2, IInvInvariant, PTL DEF Spec, ImplementsQueue, Queue!Spec

-----------------------------------------------------------------------------
(* Exclusion: handlers of one job do not overlap when processes are not    *)
(* paused and a lease outlives the renewal period plus two operations.     *)

\* How much of its lease an executor has used up at most, beyond the age of
\* the `now` the lease was computed from.
Spent(e) ==
    IF ren[e] = "sleep" THEN rtime[e]
    ELSE IF ren[e] = "renewing" THEN RenewEvery + rtime[e]
    ELSE RenewEvery + MaxLag

\* Whoever runs or cancels a handler owns its job, with time left.
Covered(e) ==
    /\ status[held[e]] = "leased"
    /\ owner[held[e]] = e
    /\ due[held[e]] >= LeaseSecs - MaxLag - Spent(e)

Coverage == \A e \in Executors : pc[e] \in {"run", "cancel"} => Covered(e)

\* A covered lease has not lapsed, so its row is not locked by a claim.
LEMMA CoveredIsLive ==
  ASSUME Timely, IInv, Coverage, NEW e \in Executors, pc[e] \in {"run", "cancel"}
  PROVE  /\ held[e] \in Jobs
         /\ due[held[e]] > 0
         /\ \A f \in Executors : pc[f] = "commit" => held[f] # held[e]
<1>1. held[e] \in Jobs
  BY DEF IInv, Base, Bookkeeping
<1>2. Spent(e) \in Nat /\ Spent(e) <= RenewEvery + MaxLag
  BY ArithmeticFacts DEF Spent, IInv, Base, TypeOK, Bookkeeping
<1>3. due[held[e]] \in Int /\ due[held[e]] >= LeaseSecs - MaxLag - Spent(e)
  BY <1>1, ArithmeticFacts DEF Coverage, Covered, IInv, Base, TypeOK
<1>4. due[held[e]] > 0
  BY <1>2, <1>3, ArithmeticFacts DEF Timely
<1> QED BY <1>1, <1>3, <1>4 DEF IInv, RowLocks

\* A step that leaves executor e and its row alone keeps e covered.
LEMMA CoveredKept ==
  ASSUME NEW e \in Executors, Covered(e), held'[e] = held[e],
         ren'[e] = ren[e], rtime'[e] = rtime[e],
         status'[held[e]] = status[held[e]], owner'[held[e]] = owner[held[e]],
         due'[held[e]] = due[held[e]]
  PROVE  Covered(e)'
  BY DEF Covered, Spent

\* An executor's step leaves the row of every other covered executor alone.
LEMMA OthersCovered ==
  ASSUME Timely, IInv, Coverage, NEW g \in Executors, ExecutorStep(g),
         NEW e \in Executors, e # g, pc'[e] \in {"run", "cancel"}
  PROVE  Covered(e)'
<1> DEFINE j == held[e]
<1>1. /\ pc[e] = pc'[e] /\ held'[e] = j /\ ren'[e] = ren[e] /\ rtime'[e] = rtime[e]
  BY DEF ExecutorStep, Claim, Renewal, Handling, Settlement, table, tasks,
         BeginClaim, LeaveLoop, SelectNone, SelectRow, CommitClaim, ClaimError,
         RenewBegin, RenewExecute, RenewError, RenewalEnds, HandlerEnds, WakeLeaseLost,
         Cancelled, WakeHandlerDone, Settle, SettleError, RunEnds, IInv, Base, TypeOK
<1>2. /\ Covered(e) /\ j \in Jobs
      /\ \A f \in Executors : pc[f] = "commit" => held[f] # j
  BY <1>1, CoveredIsLive DEF Coverage
<1>3. /\ status'[j] = status[j] /\ owner'[j] = owner[j] /\ due'[j] = due[j]
  <2> USE <1>2 DEF table, IInv, Base, TypeOK
  <2>1. ASSUME pc[g] = "commit", LeaseTo(g, held[g]) PROVE <1>3!1
    BY <2>1 DEF LeaseTo, Extend
  <2>2. ASSUME NEW age, Owns(g, held[g], age) PROVE held[g] # j
    BY <2>2 DEF Owns, Covered
  <2>3. CASE Claim(g)
    BY <2>1, <2>3
       DEF Claim, BeginClaim, LeaveLoop, SelectNone, SelectRow, CommitClaim, ClaimError
  <2>4. CASE Renewal(g)
    BY <2>2, <2>4 DEF Renewal, RenewBegin, RenewExecute, RenewError, Extend
  <2>5. CASE Handling(g)
    BY <2>5 DEF Handling, HandlerEnds, WakeLeaseLost, Cancelled, WakeHandlerDone
  <2>6. CASE Settlement(g)
    BY <2>2, <2>6 DEF Settlement, Settle, SettleError, RunEnds, Close
  <2> QED BY <2>3, <2>4, <2>5, <2>6 DEF ExecutorStep
<1> QED BY <1>1, <1>2, <1>3, CoveredKept

\* An executor's own step keeps it covered while its handler may run.
LEMMA SelfCovered ==
  ASSUME Timely, IInv, Coverage, NEW e \in Executors, ExecutorStep(e),
         pc'[e] \in {"run", "cancel"}
  PROVE  Covered(e)'
<1> USE ArithmeticFacts DEF IInv, Base, TypeOK, Bookkeeping, table, tasks
<1>1. CASE Claim(e)
  <2>1. CommitClaim(e)
    BY <1>1 DEF Claim, BeginClaim, LeaveLoop, SelectNone, SelectRow, ClaimError
  <2>2. held[e] \in Jobs /\ held'[e] = held[e] /\ pc'[e] = "run"
    BY <2>1 DEF CommitClaim
  <2>3. ren'[e] = "sleep" /\ rtime'[e] = 0
    BY <2>1, <2>2 DEF CommitClaim
  <2>4. /\ status'[held[e]] = "leased" /\ owner'[held[e]] = e
        /\ due'[held[e]] = LeaseSecs - lag[e]
    BY <2>1, <2>2 DEF CommitClaim, LeaseTo, Extend
  <2> QED BY <2>2, <2>3, <2>4 DEF Covered, Spent
<1>2. ASSUME pc[e] \in {"run", "cancel"}
      PROVE  Covered(e) /\ held[e] \in Jobs /\ due[held[e]] > 0
  BY <1>2, CoveredIsLive DEF Coverage
<1>3. CASE RenewBegin(e)
  BY <1>2, <1>3 DEF RenewBegin, Covered, Spent
<1>4. CASE RenewExecute(e)
  <2>1. pc[e] = "run" /\ pc'[e] = pc[e] /\ held'[e] = held[e] /\ ren[e] = "renewing"
    BY <1>4 DEF RenewExecute, Settling
  <2>2. Owns(e, held[e], rtime[e])
    BY <1>2, <2>1 DEF Owns, Covered
  <2>3. ren'[e] = "sleep" /\ rtime'[e] = 0
    BY <1>4, <2>1, <2>2 DEF RenewExecute, RenewalEnds
  <2>4. due'[held[e]] = LeaseSecs - rtime[e] /\ UNCHANGED <<status, owner>>
    BY <1>2, <1>4, <2>1, <2>2 DEF RenewExecute, Extend
  <2> QED BY <1>2, <2>1, <2>3, <2>4 DEF Covered, Spent
<1>5. CASE RenewError(e)
  <2>1. pc[e] = "run" /\ pc'[e] = pc[e] /\ held'[e] = held[e] /\ ren[e] = "renewing"
    BY <1>5 DEF RenewError, Settling
  <2>2. ren'[e] = "failed"
    BY <1>5, <2>1 DEF RenewError, RenewalEnds
  <2>3. due'[held[e]] = due[held[e]] \/ due'[held[e]] = LeaseSecs - rtime[e]
    BY <1>2, <1>5, <2>1 DEF RenewError, Extend
  <2>4. due'[held[e]] >= LeaseSecs - MaxLag - (RenewEvery + MaxLag)
    <3>1. Spent(e) <= RenewEvery + MaxLag /\ rtime[e] <= MaxLag /\ rtime[e] \in Nat
      BY <2>1 DEF Spent
    <3>2. due[held[e]] >= LeaseSecs - MaxLag - Spent(e) /\ due[held[e]] \in Int
      BY <1>2, <2>1 DEF Covered
    <3>3. Spent(e) \in Nat
      BY <2>1 DEF Spent
    <3> QED BY <2>3, <3>1, <3>2, <3>3
  <2>5. UNCHANGED <<status, owner>>
    BY <1>5 DEF RenewError
  <2> QED BY <1>2, <2>1, <2>2, <2>4, <2>5 DEF Covered, Spent
<1>6. CASE Handling(e)
  BY <1>2, <1>6
     DEF Handling, HandlerEnds, WakeLeaseLost, Cancelled, WakeHandlerDone, Covered, Spent
<1>7. CASE Settlement(e)
  BY <1>7 DEF Settlement, Settle, SettleError, RunEnds, Settling
<1> QED BY <1>1, <1>3, <1>4, <1>5, <1>6, <1>7 DEF ExecutorStep, Renewal

\* Coverage is preserved by every step of a timely system.
LEMMA NextCoverage == Timely /\ IInv /\ Coverage /\ [Next]_vars => Coverage'
<1> SUFFICES ASSUME Timely, IInv, Coverage, [Next]_vars,
                    NEW e \in Executors, pc'[e] \in {"run", "cancel"}
             PROVE  Covered(e)'
  BY DEF Coverage
<1>1. ASSUME NEW g \in Executors, ExecutorStep(g) PROVE Covered(e)'
  BY <1>1, OthersCovered, SelfCovered
<1>2. ASSUME pc[e] \in {"run", "cancel"}
      PROVE  Covered(e) /\ held[e] \in Jobs
  BY <1>2, CoveredIsLive DEF Coverage
<1>3. ASSUME NEW j \in Jobs, Enqueue(j) PROVE Covered(e)'
  BY <1>2, <1>3 DEF Enqueue, tasks, Covered, Spent, IInv, Base, TypeOK
<1>4. ASSUME NEW w \in Workers, Process(w) PROVE Covered(e)'
  <2>1. /\ pc[e] = pc'[e] /\ held'[e] = held[e] /\ ren'[e] = ren[e] /\ rtime'[e] = rtime[e]
        /\ UNCHANGED table
    BY <1>4, ExecutorsAssumption
       DEF Process, StartWorker, Signal, StopWorker, Crash, Vanish, table, tasks,
           IInv, Base, TypeOK
  <2> QED BY <1>2, <2>1, CoveredKept DEF table
\* Each tick takes one from the lease and adds one to what is spent; no tick
\* passes while a renewal is due or a failed one has not been acted on.
<1>5. CASE Tick
  <2>1. UNCHANGED <<status, owner, pc, held, ren>>
    BY <1>5 DEF Tick
  <2>2. Covered(e) /\ held[e] \in Jobs /\ pc[e] = "run"
    BY <1>2, <1>5, <2>1 DEF Timely, Prompt, Tick
  <2>3. /\ ren[e] \in {"sleep", "renewing"}
        /\ ren[e] = "sleep" => rtime[e] < RenewEvery
    <3>1. Prompt
      BY <1>5 DEF Tick, Timely
    <3>2. ren[e] \notin {"off", "failed"} /\ ~(ren[e] = "sleep" /\ rtime[e] = RenewEvery)
      BY <2>2, <3>1 DEF Prompt, IInv, Base, Bookkeeping
    <3>3. rtime[e] \in Nat /\ (ren[e] = "sleep" => rtime[e] <= RenewEvery)
      BY DEF IInv, Base, TypeOK, Bookkeeping
    <3>4. ren[e] \in {"off", "sleep", "renewing", "failed"}
      BY DEF IInv, Base, TypeOK
    <3> QED BY <3>2, <3>3, <3>4, ArithmeticFacts
  <2>4. rtime'[e] = rtime[e] + 1 /\ due'[held[e]] >= due[held[e]] - 1
    BY <1>5, <2>2, <2>3, ArithmeticFacts DEF Tick, IInv, Base, TypeOK
  <2>5. rtime[e] \in Nat /\ due[held[e]] \in Int /\ due'[held[e]] \in Int
    BY <1>5, <2>2, ArithmeticFacts DEF Tick, IInv, Base, TypeOK
  <2>6. Spent(e) \in Nat /\ Spent(e)' = Spent(e) + 1
    BY <2>1, <2>3, <2>4, <2>5, ArithmeticFacts DEF Spent
  <2>7. due[held[e]] >= LeaseSecs - MaxLag - Spent(e)
    BY <2>2 DEF Covered
  <2>8. due'[held[e]] >= LeaseSecs - MaxLag - Spent(e)'
    BY <2>4, <2>5, <2>6, <2>7, ArithmeticFacts
  <2> QED BY <2>1, <2>2, <2>8 DEF Covered
<1>6. CASE UNCHANGED vars
  BY <1>2, <1>6, CoveredKept DEF vars
<1> QED BY <1>1, <1>3, <1>4, <1>5, <1>6 DEF Next, ExecutorStep

\* In a timely system the lease of a handler that may still run is always covered.
LEMMA CoverageInvariant == ASSUME Timely PROVE Spec => []Coverage
<1>1. Init => Coverage
  BY DEF Init, Coverage
<1>2. IInv /\ Coverage /\ [Next]_vars => Coverage'
  BY NextCoverage, Timely
<1> QED BY <1>1, <1>2, IInvInvariant, PTL DEF Spec

\* In a timely system a running handler owns the lease of its job (the
\* assumption behind recovery in agents/orchestrator.py, _start_run).
THEOREM HandlersOwnLeases == ASSUME Timely PROVE Spec => []LiveHandlerOwnsLease
<1>1. IInv /\ Coverage => LiveHandlerOwnsLease
  BY DEF IInv, Base, Bookkeeping, Coverage, Covered, LiveHandlerOwnsLease
<1> QED BY <1>1, IInvInvariant, CoverageInvariant, PTL

\* In a timely system no two executors run the handler of one job at a time
\* (claim, renew and the renewal task).
THEOREM HandlersDoNotOverlap == ASSUME Timely PROVE Spec => []NoOverlap
<1>1. LiveHandlerOwnsLease => NoOverlap
  BY DEF LiveHandlerOwnsLease, NoOverlap
<1> QED BY <1>1, HandlersOwnLeases, PTL

-----------------------------------------------------------------------------
(* Leases that last until the job is settled: a lease outlives the renewal *)
(* period plus three operations, the claim, a renewal that fails and the   *)
(* settlement.                                                             *)

\* The deployed 60 and 20 seconds leave 13 seconds for an operation.
Patient == ~MayStall /\ RenewEvery + 3 * MaxLag < LeaseSecs

\* While it runs, cancels or settles its job an executor relies on the lease.
Keeping == {"run", "cancel"} \cup Settling

\* How long executor e may still rely on its lease before it is extended.
Ahead(e) ==
    IF pc[e] \in Keeping
    THEN IF ren[e] = "sleep" THEN (RenewEvery - rtime[e]) + 2 * MaxLag
         ELSE IF ren[e] = "renewing" THEN (MaxLag - rtime[e]) + MaxLag
         ELSE MaxLag - lag[e]
    ELSE IF ren[e] = "renewing" THEN MaxLag - rtime[e] ELSE 0

LeaseLasts(e, j) == status[j] = "leased" /\ owner[j] = e /\ due[j] > Ahead(e)

Lasting == \A e \in Executors : pc[e] \in Keeping => LeaseLasts(e, held[e])

LEMMA AheadIsNat == ASSUME Base, NEW e \in Executors PROVE Ahead(e) \in Nat
<1>1. /\ rtime[e] \in Nat /\ lag[e] \in Nat /\ lag[e] <= MaxLag
      /\ ren[e] = "renewing" => rtime[e] <= MaxLag
      /\ ren[e] = "sleep" => rtime[e] <= RenewEvery
  BY ArithmeticFacts DEF Base, TypeOK, Bookkeeping
<1> QED BY <1>1, ArithmeticFacts DEF Ahead

\* No executor but its owner writes the row of a lease that still runs.
LEMMA LiveRowIsLeft ==
  ASSUME IInv, NEW g \in Executors, ExecutorStep(g), NEW e, e # g,
         NEW j \in Jobs, status[j] = "leased", owner[j] = e, due[j] > 0
  PROVE  status'[j] = status[j] /\ owner'[j] = owner[j] /\ due'[j] = due[j]
<1> USE DEF table, IInv, Base, TypeOK
<1>1. pc[g] = "commit" => held[g] # j
  BY ArithmeticFacts DEF RowLocks, Bookkeeping
<1>2. ASSUME pc[g] = "commit", LeaseTo(g, held[g])
      PROVE  status'[j] = status[j] /\ owner'[j] = owner[j] /\ due'[j] = due[j]
  BY <1>1, <1>2 DEF LeaseTo, Extend
<1>3. ASSUME NEW age, Owns(g, held[g], age) PROVE held[g] # j
  BY <1>3 DEF Owns
<1>4. CASE Claim(g)
  BY <1>2, <1>4
     DEF Claim, BeginClaim, LeaveLoop, SelectNone, SelectRow, CommitClaim, ClaimError
<1>5. CASE Renewal(g)
  BY <1>3, <1>5 DEF Renewal, RenewBegin, RenewExecute, RenewError, Extend
<1>6. CASE Handling(g)
  BY <1>6 DEF Handling, HandlerEnds, WakeLeaseLost, Cancelled, WakeHandlerDone
<1>7. CASE Settlement(g)
  BY <1>3, <1>7 DEF Settlement, Settle, SettleError, RunEnds, Close
<1> QED BY <1>4, <1>5, <1>6, <1>7 DEF ExecutorStep

\* What an executor does to itself does not concern any other.
LEMMA OthersStay ==
  ASSUME Base, NEW g \in Executors, ExecutorStep(g), NEW e \in Executors, e # g
  PROVE  /\ pc'[e] = pc[e] /\ held'[e] = held[e] /\ lag'[e] = lag[e]
         /\ ren'[e] = ren[e] /\ rtime'[e] = rtime[e] /\ hdl'[e] = hdl[e]
BY DEF ExecutorStep, Claim, Renewal, Handling, Settlement, table, tasks,
       BeginClaim, LeaveLoop, SelectNone, SelectRow, CommitClaim, ClaimError,
       RenewBegin, RenewExecute, RenewError, RenewalEnds, HandlerEnds, WakeLeaseLost,
       Cancelled, WakeHandlerDone, Settle, SettleError, RunEnds, Base, TypeOK

LEMMA OthersLast ==
  ASSUME IInv, NEW g \in Executors, ExecutorStep(g), NEW e \in Executors, e # g,
         NEW j \in Jobs, LeaseLasts(e, j)
  PROVE  LeaseLasts(e, j)'
<1>1. due[j] > 0
  <2>1. Ahead(e) \in Nat /\ due[j] \in Int
    BY AheadIsNat, ArithmeticFacts DEF IInv, Base, TypeOK
  <2> QED BY <2>1 DEF LeaseLasts
<1>2. status'[j] = status[j] /\ owner'[j] = owner[j] /\ due'[j] = due[j]
  BY <1>1, LiveRowIsLeft DEF LeaseLasts
<1>3. Ahead(e)' = Ahead(e)
  BY OthersStay DEF IInv, Ahead
<1> QED BY <1>2, <1>3 DEF LeaseLasts

\* The owner's own steps extend the lease, use no more of it than planned, or
\* settle the job.
LEMMA OwnerLasts ==
  ASSUME Patient, IInv, NEW e \in Executors, ExecutorStep(e),
         NEW j \in Jobs, LeaseLasts(e, j),
         \/ held[e] = j /\ pc[e] \in Keeping \cup {"escape"}
         \/ pc[e] = "down"
  PROVE  LeaseLasts(e, j)' \/ (status'[j] \in Terminal /\ pc'[e] \in {"drain", "escape"})
<1>1. /\ rtime[e] \in Nat /\ lag[e] \in Nat /\ lag[e] <= MaxLag /\ due[j] \in Int
      /\ ren[e] = "renewing" => rtime[e] <= MaxLag
      /\ ren[e] = "sleep" => rtime[e] <= RenewEvery
      /\ Ahead(e) \in Nat /\ due[j] > Ahead(e) /\ due[j] > 0
  BY AheadIsNat, ArithmeticFacts DEF IInv, Base, TypeOK, Bookkeeping, LeaseLasts
<1>2. j \notin Locked
  <2>1. \A f \in Executors : pc[f] = "commit" => held[f] # j
    BY <1>1, ArithmeticFacts DEF IInv, RowLocks
  <2> QED BY <2>1 DEF Locked
<1>3. pc[e] # "down"
  BY DEF ExecutorStep, Claim, Renewal, Handling, Settlement, BeginClaim, LeaveLoop, SelectNone,
     SelectRow, CommitClaim, ClaimError, RenewBegin, RenewExecute, RenewError, HandlerEnds,
     WakeLeaseLost, Cancelled, WakeHandlerDone, Settle, SettleError, RunEnds, IInv, Base,
     Bookkeeping, Settling
<1>4. held[e] = j /\ pc[e] \in {"run", "cancel", "complete", "fail", "escape"}
  BY <1>3 DEF Keeping, Settling
<1> DEFINE Row == status'[j] = "leased" /\ owner'[j] = e /\ due'[j] = due[j]
<1>5. ASSUME Row, Ahead(e)' \in Int, Ahead(e)' <= Ahead(e) PROVE LeaseLasts(e, j)'
  BY <1>1, <1>5 DEF LeaseLasts
<1> USE <1>1, <1>4, ArithmeticFacts
    DEF IInv, Base, TypeOK, Bookkeeping, table, tasks, Keeping, Settling
<1>6. CASE Claim(e)
  BY <1>6 DEF Claim, BeginClaim, LeaveLoop, SelectNone, SelectRow, CommitClaim, ClaimError
<1>7. CASE RenewBegin(e)
  <2>1. Row
    BY <1>7 DEF RenewBegin, LeaseLasts
  <2>2. Ahead(e)' = 2 * MaxLag /\ Ahead(e) = 2 * MaxLag
    BY <1>7 DEF RenewBegin, Ahead
  <2> QED BY <1>5, <2>1, <2>2
<1>8. CASE RenewExecute(e)
  <2>1. Owns(e, j, rtime[e])
    BY DEF Owns, LeaseLasts
  <2>2. ren[e] = "renewing" /\ due' = [due EXCEPT ![j] = LeaseSecs - rtime[e]] /\ RenewalEnds(e, FALSE)
    BY <1>8, <2>1 DEF RenewExecute, Extend
  <2>3. due'[j] = LeaseSecs - rtime[e] /\ rtime[e] <= MaxLag
    BY <2>2
  <2>4. pc'[e] = pc[e] /\ lag'[e] = lag[e] /\ status'[j] = "leased" /\ owner'[j] = e
    BY <1>8 DEF RenewExecute, LeaseLasts
  <2>5. rtime'[e] = 0 /\ ren'[e] \in {"off", "sleep"} /\ (pc[e] = "escape" => ren'[e] = "off")
    BY <2>2 DEF RenewalEnds
  <2>6. Ahead(e)' \in Nat /\ Ahead(e)' <= RenewEvery + 2 * MaxLag
    BY <2>4, <2>5 DEF Ahead
  <2>7. due'[j] > Ahead(e)'
    BY <2>3, <2>6 DEF Patient
  <2> QED BY <2>4, <2>7 DEF LeaseLasts
<1>9. CASE RenewError(e)
  <2>1. ren[e] = "renewing" /\ RenewalEnds(e, TRUE)
    BY <1>9 DEF RenewError
  <2>2. pc'[e] = pc[e] /\ lag'[e] = lag[e] /\ status'[j] = "leased" /\ owner'[j] = e
    BY <1>9 DEF RenewError, LeaseLasts
  <2>3. ren'[e] \in {"off", "failed"}
    BY <2>1 DEF RenewalEnds
  <2>4. Ahead(e)' \in Nat /\ Ahead(e)' <= MaxLag /\ Ahead(e)' <= Ahead(e)
    BY <2>1, <2>2, <2>3 DEF Ahead
  <2>5. due'[j] = due[j] \/ due'[j] = LeaseSecs - rtime[e]
    BY <1>9 DEF RenewError, Extend
  <2>6. due'[j] > Ahead(e)'
    BY <2>1, <2>4, <2>5 DEF Patient
  <2> QED BY <2>2, <2>6 DEF LeaseLasts
<1>10. CASE Handling(e)
  <2>1. Row
    BY <1>10 DEF Handling, HandlerEnds, WakeLeaseLost, Cancelled, WakeHandlerDone, LeaseLasts
  <2>2. /\ pc[e] \in {"run", "cancel"} /\ pc'[e] \in {"run", "cancel", "complete", "fail"}
        /\ lag'[e] = lag[e] /\ rtime'[e] = rtime[e]
        /\ ren'[e] = ren[e] \/ (ren[e] = "failed" /\ ren'[e] = "off")
    BY <1>10 DEF Handling, HandlerEnds, WakeLeaseLost, Cancelled, WakeHandlerDone
  <2>3. Ahead(e)' = Ahead(e)
    BY <2>2 DEF Ahead
  <2> QED BY <1>5, <2>1, <2>3
<1>11. CASE Settle(e)
  <2>1. Owns(e, j, lag[e])
    BY DEF Owns, LeaseLasts
  <2>2. status' = [status EXCEPT ![j] = Outcome(e)] /\ pc' = [pc EXCEPT ![e] = "drain"]
    BY <1>11, <2>1 DEF Settle, Close
  <2> QED BY <2>2 DEF Outcome, Terminal
<1>12. CASE SettleError(e)
  <2>1. pc[e] \in {"complete", "fail"} /\ pc' = [pc EXCEPT ![e] = "escape"] /\ UNCHANGED tasks
    BY <1>12 DEF SettleError
  <2>2. CASE UNCHANGED table
    <3>1. Row
      BY <2>2 DEF LeaseLasts
    <3>2. Ahead(e)' \in Nat /\ Ahead(e)' <= Ahead(e)
      BY <2>1 DEF Ahead
    <3> QED BY <1>5, <3>1, <3>2
  <2>3. CASE Close(j, Outcome(e))
    BY <2>1, <2>3 DEF Close, Outcome, Terminal
  <2> QED BY <1>12, <2>2, <2>3 DEF SettleError
<1>13. CASE RunEnds(e)
  <2>1. Row
    BY <1>13 DEF RunEnds, LeaseLasts
  <2>2. pc'[e] = "down" /\ ren'[e] = "off"
    BY <1>13 DEF RunEnds
  <2>3. Ahead(e)' = 0
    BY <2>2 DEF Ahead
  <2> QED BY <1>5, <2>1, <2>3
<1> QED BY <1>6, <1>7, <1>8, <1>9, <1>10, <1>11, <1>12, <1>13
        DEF ExecutorStep, Renewal, Settlement

\* A tick takes one from the lease and one from what is ahead.
LEMMA TickLasts ==
  ASSUME Patient, IInv, Tick, NEW e \in Executors, NEW j \in Jobs, LeaseLasts(e, j),
         pc[e] \in Keeping \/ ren[e] = "renewing"
  PROVE  LeaseLasts(e, j)'
<1>1. /\ rtime[e] \in Nat /\ lag[e] \in Nat /\ lag[e] <= MaxLag /\ due[j] \in Int
      /\ ren[e] = "renewing" => rtime[e] <= MaxLag
      /\ ren[e] = "sleep" => rtime[e] <= RenewEvery
      /\ ren[e] \in {"off", "sleep", "renewing", "failed"}
      /\ pc[e] = "run" => ren[e] # "off"
      /\ Ahead(e) \in Nat /\ due[j] > Ahead(e)
  BY AheadIsNat, ArithmeticFacts DEF IInv, Base, TypeOK, Bookkeeping, LeaseLasts
<1>2. /\ UNCHANGED <<status, owner, pc, held, ren>> /\ Prompt
      /\ pc[e] \in InFlight => lag[e] < MaxLag
      /\ ren[e] = "renewing" => rtime[e] < MaxLag
  BY DEF Tick, Patient
<1>3. /\ ~(ren[e] = "sleep" /\ rtime[e] = RenewEvery) /\ ren[e] # "failed" /\ pc[e] # "cancel"
  BY <1>2 DEF Prompt
<1>4. due'[j] \in Int /\ due'[j] >= due[j] - 1
  BY <1>1, ArithmeticFacts DEF Tick
<1>5. /\ lag'[e] = IF pc[e] \in InFlight THEN lag[e] + 1 ELSE lag[e]
      /\ rtime'[e] = IF ren[e] = "renewing" \/ (ren[e] = "sleep" /\ rtime[e] < RenewEvery)
                     THEN rtime[e] + 1 ELSE rtime[e]
  BY DEF Tick
<1>6. Ahead(e)' = Ahead(e) - 1
  <2>1. CASE pc[e] \in Keeping /\ ren[e] = "sleep"
    BY <1>1, <1>2, <1>3, <1>5, <2>1, ArithmeticFacts DEF Ahead
  <2>2. CASE ren[e] = "renewing"
    BY <1>1, <1>2, <1>5, <2>2, ArithmeticFacts DEF Ahead
  <2>3. CASE pc[e] \in Keeping /\ ren[e] \notin {"sleep", "renewing"}
    <3>1. pc[e] \in Settling
      BY <1>1, <1>3, <2>3 DEF Keeping
    <3> QED BY <1>1, <1>2, <1>5, <2>3, <3>1, ArithmeticFacts DEF Ahead, InFlight
  <2> QED BY <2>1, <2>2, <2>3
<1> QED BY <1>1, <1>2, <1>4, <1>6 DEF LeaseLasts

\* A claim that commits leaves the whole of a lease ahead.
LEMMA ClaimLasts ==
  ASSUME Patient, IInv, NEW e \in Executors, CommitClaim(e)
  PROVE  held'[e] = held[e] /\ held[e] \in Jobs /\ LeaseLasts(e, held[e])'
<1> USE ArithmeticFacts DEF IInv, Base, TypeOK, Bookkeeping
<1>1. /\ held[e] \in Jobs /\ held'[e] = held[e] /\ lag[e] \in Nat /\ lag[e] <= MaxLag
      /\ ren[e] = "off"
  BY DEF CommitClaim, Settling
<1>2. /\ status'[held[e]] = "leased" /\ owner'[held[e]] = e
      /\ due'[held[e]] = LeaseSecs - lag[e]
  BY <1>1 DEF CommitClaim, LeaseTo, Extend
<1>3. lag'[e] = 0 /\ rtime'[e] = 0 /\ ren'[e] \in {"off", "sleep"} /\ pc'[e] \in {"run", "fail"}
  BY <1>1 DEF CommitClaim
<1>4. Ahead(e)' \in Nat /\ Ahead(e)' <= RenewEvery + 2 * MaxLag
  BY <1>3 DEF Ahead
<1>5. due'[held[e]] > Ahead(e)'
  BY <1>1, <1>2, <1>4 DEF Patient
<1> QED BY <1>1, <1>2, <1>5 DEF LeaseLasts

\* An executor relies on its lease because it did before or has just claimed.
LEMMA KeepingSteps ==
  ASSUME IInv, NEW e \in Executors, ExecutorStep(e), pc'[e] \in Keeping
  PROVE  CommitClaim(e) \/ (pc[e] \in Keeping /\ held'[e] = held[e])
BY DEF ExecutorStep, Claim, Renewal, Handling, Settlement, BeginClaim, LeaveLoop, SelectNone,
   SelectRow, CommitClaim, ClaimError, RenewBegin, RenewExecute, RenewError, HandlerEnds,
   WakeLeaseLost, Cancelled, WakeHandlerDone, Settle, SettleError, RunEnds, IInv, Base,
   TypeOK, Keeping, Settling, table, tasks

LEMMA NextLasting == Patient /\ IInv /\ Lasting /\ [Next]_vars => Lasting'
<1> SUFFICES ASSUME Patient, IInv, Lasting, [Next]_vars,
                    NEW e \in Executors, pc'[e] \in Keeping
             PROVE  LeaseLasts(e, held[e])' 
  BY DEF Lasting
<1>1. ASSUME pc[e] \in Keeping PROVE LeaseLasts(e, held[e]) /\ held[e] \in Jobs
  BY <1>1 DEF Lasting, IInv, Base, Bookkeeping, Keeping
<1>2. ASSUME NEW g \in Executors, ExecutorStep(g) PROVE LeaseLasts(e, held[e])'
  <2>1. CASE g = e /\ CommitClaim(e)
    BY <2>1, ClaimLasts DEF LeaseLasts
  <2>2. CASE g = e /\ ~CommitClaim(e)
    <3>1. pc[e] \in Keeping /\ held'[e] = held[e]
      BY <1>2, <2>2, KeepingSteps
    <3>2. pc'[e] \notin {"drain", "escape"}
      BY DEF Keeping, Settling
    <3>3. \A j \in Jobs : held[e] = j /\ LeaseLasts(e, j) => LeaseLasts(e, j)'
      BY <1>2, <2>2, <3>1, <3>2, OwnerLasts
    <3> QED BY <1>1, <3>1, <3>3 DEF LeaseLasts
  <2>3. CASE g # e
    <3>1. pc'[e] = pc[e] /\ held'[e] = held[e]
      BY <1>2, <2>3, OthersStay DEF IInv
    <3>2. \A j \in Jobs : LeaseLasts(e, j) => LeaseLasts(e, j)'
      BY <1>2, <2>3, OthersLast
    <3> QED BY <1>1, <3>1, <3>2 DEF LeaseLasts
  <2> QED BY <2>1, <2>2, <2>3
<1>3. ASSUME pc[e] \in Keeping, held'[e] = held[e], Ahead(e)' = Ahead(e), UNCHANGED <<status, owner>>,
             due'[held[e]] = due[held[e]]
      PROVE  LeaseLasts(e, held[e])'
  BY <1>1, <1>3 DEF LeaseLasts
<1>4. ASSUME NEW j \in Jobs, Enqueue(j) PROVE LeaseLasts(e, held[e])'
  <2>1. pc[e] \in Keeping /\ UNCHANGED <<pc, held, lag, ren, rtime, owner>> /\ held[e] # j
    BY <1>1, <1>4 DEF Enqueue, tasks, LeaseLasts
  <2>2. Ahead(e)' = Ahead(e)
    BY <2>1 DEF Ahead
  <2>3. status'[held[e]] = status[held[e]] /\ due'[held[e]] = due[held[e]]
    BY <1>1, <1>4, <2>1 DEF Enqueue, IInv, Base, TypeOK
  <2> QED BY <1>1, <2>1, <2>2, <2>3 DEF LeaseLasts
<1>5. ASSUME NEW w \in Workers, Process(w) PROVE LeaseLasts(e, held[e])'
  <2>1. /\ pc[e] = pc'[e] /\ held'[e] = held[e] /\ ren'[e] = ren[e] /\ rtime'[e] = rtime[e]
        /\ lag'[e] = lag[e] /\ UNCHANGED table
    BY <1>5, ExecutorsAssumption
       DEF Process, StartWorker, Signal, StopWorker, Crash, Vanish, table, tasks,
           IInv, Base, TypeOK, Keeping, Settling
  <2>2. Ahead(e)' = Ahead(e)
    BY <2>1 DEF Ahead
  <2> QED BY <1>3, <2>1, <2>2 DEF table
<1>6. CASE Tick
  <2>1. UNCHANGED <<pc, held>>
    BY <1>6 DEF Tick
  <2>2. \A j \in Jobs : LeaseLasts(e, j) => LeaseLasts(e, j)'
    BY <1>6, <2>1, TickLasts
  <2> QED BY <1>1, <2>1, <2>2 DEF LeaseLasts
<1>7. CASE UNCHANGED vars
  BY <1>1, <1>7 DEF vars, LeaseLasts, Ahead
<1> QED BY <1>2, <1>4, <1>5, <1>6, <1>7 DEF Next, ExecutorStep

\* In a patient system every lease lasts until its job is settled.
LEMMA LastingInvariant == ASSUME Patient PROVE Spec => []Lasting
<1>1. Init => Lasting
  BY DEF Init, Lasting, Keeping, Settling
<1>2. IInv /\ Lasting /\ [Next]_vars => Lasting'
  BY NextLasting, Patient
<1> QED BY <1>1, <1>2, IInvInvariant, PTL DEF Spec

\* In a patient system complete and fail always find the lease they need:
\* run_once never raises LeaseOwnershipError, also after a renewal that failed.
THEOREM PatientSettlements ==
  ASSUME Patient
  PROVE  Spec => [][\A e \in Executors : Settle(e) => Owns(e, held[e], lag[e])]_vars
<1>1. IInv /\ Lasting /\ [Next]_vars =>
        [\A e \in Executors : Settle(e) => Owns(e, held[e], lag[e])]_vars
  <2> SUFFICES ASSUME IInv, Lasting, NEW e \in Executors, Settle(e)
               PROVE  Owns(e, held[e], lag[e])
    OBVIOUS
  <2>1. LeaseLasts(e, held[e]) /\ held[e] \in Jobs
    BY DEF Settle, Lasting, Keeping, IInv, Base, Bookkeeping
  <2>2. Ahead(e) \in Nat /\ due[held[e]] \in Int /\ lag[e] \in Nat
    BY <2>1, AheadIsNat, ArithmeticFacts DEF IInv, Base, TypeOK
  <2> QED BY <2>1, <2>2 DEF LeaseLasts, Owns
<1> QED BY <1>1, IInvInvariant, LastingInvariant, PTL DEF Spec

=============================================================================
