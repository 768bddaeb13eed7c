------------------------------- MODULE RunCosts -------------------------------
(***************************************************************************)
(* The paid requests of one Scout Run: how agents/orchestrator.py reserves *)
(* them against the ceilings, repairs, retries and replaces them, and how  *)
(* their cost, settled by agents/client.py or not, reaches the run, its    *)
(* tasks and the usage events.                                             *)
(*                                                                         *)
(* The children of a wave run side by side and share the accumulator.      *)
(* Statuses of the run between its ends, leases, crashes and the permits   *)
(* of the child semaphore are in ScoutRuns.                                *)
(***************************************************************************)
EXTENDS Integers, FiniteSets, FiniteSetsExt

CONSTANTS NumChildren,      \* child tasks of the plan
          WaveSize,         \* max_concurrent_child_tasks
          FirstParty,       \* the children that may fall back to Firecrawl
          MaxChildRetries,  \* max_child_retries
          MaxRepairs,       \* max_planning_repairs, max_synthesis_repairs
          CostLookups,      \* otari_cost_lookup_attempts
          MainEstimate, ChildEstimate,   \* estimated_*_request_cost_usd
          RunCeiling, DailyCeiling,      \* max_run_cost_usd, max_user_daily_cost_usd
          InitialCosts,     \* what the user may have spent today before the run
          Costs,            \* amounts a request may settle at
          Unknown,          \* NULL: a cost nobody knows
          Pending           \* a lookup answered by 202

ASSUME CostsAssumption ==
    /\ {NumChildren, WaveSize} \subseteq Nat \ {0}
    /\ {MaxChildRetries, MaxRepairs, CostLookups, MainEstimate, ChildEstimate,
        RunCeiling, DailyCeiling} \subseteq Nat
    /\ InitialCosts \subseteq Nat /\ Costs \subseteq Nat
    /\ Unknown \notin Int /\ Pending \notin Int
    /\ FirstParty \subseteq 1 .. NumChildren

VARIABLES
    phase,     \* program point of execute_daily_run, then the status it ended with
    tries,     \* requests of the main model in the phase
    initial,   \* initial_daily_cost of the run
    reserved,  \* estimated_cost_usd of the accumulator
    usage,     \* its settled cost
    wave,      \* the wave of children that runs
    child,     \* the coroutine of child c
    outcome,   \* the _ChildOutcome it returns
    task,      \* agent_tasks.status of child c
    reported,  \* scout_runs.settled_cost_usd
    ledger,    \* what the usage events of the run add up to
    paid       \* history: what the run really cost, as far as it was settled

accounts == <<usage, reported, ledger, paid>>
allVars == <<phase, tries, initial, reserved, wave, child, outcome, task, accounts>>

Children == 1 .. NumChildren
Ended == {"completed", "partial", "failed"}

\* max_child_retries + 1, and the bonus attempt of a first-party review.
PrimaryAttempts == MaxChildRetries + 1
TotalAttempts(c) == PrimaryAttempts + (IF c \in FirstParty THEN 1 ELSE 0)

-----------------------------------------------------------------------------
(* Costs *)

\* A sum of costs: is every one of them known, and are there any?
NoCost == [sum |-> 0, known |-> TRUE, any |-> FALSE]

\* Mutant: an unknown cost counts as zero.
Cost_UnknownIsZero(amount) ==
    [sum |-> IF amount = Unknown THEN 0 ELSE amount, known |-> TRUE, any |-> TRUE]

\* _UsageAccumulator.add for one request; mark_unsettled is the unknown cost.
Cost(amount) ==
    [sum |-> IF amount = Unknown THEN 0 ELSE amount, known |-> amount # Unknown, any |-> TRUE]

Plus(t, u) ==
    [sum |-> t.sum + u.sum, known |-> t.known /\ u.known, any |-> t.any \/ u.any]

\* recorded_cost
Recorded(t) == IF t.any /\ t.known THEN t.sum ELSE Unknown

\* COALESCE(settled_cost_usd, 0) in the sums over usage events.
Charged(amount) == IF amount = Unknown THEN 0 ELSE amount

\* How the provider tells the cost of a request: in the response, or by the
\* lookups that follow it, of which each is answered by the amount, by 202
\* (pending) or by anything else (Unknown).
Settlements ==
    [inline : Costs \cup {Unknown},
     replies : [1 .. CostLookups -> Costs \cup {Pending, Unknown}]]

Final(s) == {k \in DOMAIN s.replies : s.replies[k] # Pending}

\* Mutant: a cost that is still pending reads as zero.
SettledCost_PendingIsZero(s) ==
    IF s.inline # Unknown THEN s.inline
    ELSE IF Final(s) = {} THEN 0
    ELSE s.replies[Min(Final(s))]

\* _settled_usage and _request_cost.
SettledCost(s) ==
    IF s.inline # Unknown THEN s.inline
    ELSE IF Final(s) = {} THEN Unknown
    ELSE s.replies[Min(Final(s))]

\* What such a request really cost, when anybody was told.
Amounts(s) ==
    IF s.inline # Unknown THEN {s.inline}
    ELSE IF Final(s) = {} THEN {} ELSE {s.replies[Min(Final(s))]} \ {Unknown}

Spend(s) ==
    paid' = [sum |-> paid.sum + (IF Amounts(s) = {} THEN 0 ELSE CHOOSE a \in Amounts(s) : TRUE),
             whole |-> paid.whole /\ Amounts(s) # {}]

SpendUnsettled == paid' = [paid EXCEPT !.whole = FALSE]

\* Errors by what the callers tell apart: does one carry metadata, is it
\* retryable, may Firecrawl still succeed, does it stop the run?
Failure(metadata, retryable, eligible, stops) ==
    [metadata |-> metadata, retryable |-> retryable, eligible |-> eligible, stops |-> stops]

\* A response that cannot be used.
AnswerFailures ==
    {Failure(TRUE, TRUE, TRUE, FALSE),     \* schema error; JSON that cannot be read
     Failure(TRUE, FALSE, TRUE, FALSE),    \* refusal
     Failure(TRUE, FALSE, FALSE, FALSE)}   \* truncated; evidence or token limits violated

\* No response, an error status, or a response that is no JSON document.
RequestFailures ==
    {Failure(FALSE, TRUE, TRUE, FALSE),    \* timeout, network, 429, 5xx, no document
     Failure(FALSE, FALSE, TRUE, FALSE),   \* tool iteration limit, 404 and the like
     Failure(FALSE, FALSE, FALSE, FALSE),  \* 400, 401, 402, 403; prompt above the limit
     Failure(FALSE, FALSE, FALSE, TRUE)}   \* otari_budget_exceeded

Failures == AnswerFailures \cup RequestFailures

\* _request_would_exceed_cost_ceiling
WouldExceed(estimate) ==
    \/ reserved + estimate > RunCeiling
    \/ initial + reserved + estimate > DailyCeiling

\* _run_budget_reached
BudgetReached(t) ==
    LET current == IF Recorded(t) = Unknown THEN reserved ELSE Max({t.sum, reserved})
    IN  current >= RunCeiling \/ initial + current >= DailyCeiling

-----------------------------------------------------------------------------
Tally == [sum : Nat, known : BOOLEAN, any : BOOLEAN]
Amount == Nat \cup {Unknown}

CostsTypeOK ==
    /\ phase \in {"plan", "planAsked", "gather", "synth", "synthAsked"} \cup Ended
    /\ tries \in 0 .. MaxRepairs + 1
    /\ initial \in InitialCosts /\ reserved \in Nat
    /\ usage \in Tally
    /\ wave \in Nat
    /\ \A c \in Children :
          /\ child[c] \in [point : {"idle", "attempt", "asked", "settled", "done"},
                           attempt : 0 .. TotalAttempts(c), fallback : BOOLEAN,
                           retained : BOOLEAN, metadata : Amount, records : Tally]
          /\ outcome[c] \in [kind : {"none", "accepted", "failed", "ceiling"},
                             cost : Tally, stops : BOOLEAN]
          /\ task[c] \in {"absent", "queued", "running", "succeeded", "failed", "cancelled"}
    /\ reported \in Amount /\ ledger \in Nat
    /\ paid \in [sum : Nat, whole : BOOLEAN]

Idle == [point |-> "idle", attempt |-> 0, fallback |-> FALSE, retained |-> FALSE,
         metadata |-> Unknown, records |-> NoCost]
Started == [Idle EXCEPT !.point = "attempt", !.attempt = 1]
NoOutcome == [kind |-> "none", cost |-> NoCost, stops |-> FALSE]

CostsInit ==
    /\ phase = "plan" /\ tries = 0
    /\ initial \in InitialCosts /\ reserved = 0
    /\ usage = NoCost
    /\ wave = 0
    /\ child = [c \in Children |-> Idle]
    /\ outcome = [c \in Children |-> NoOutcome]
    /\ task = [c \in Children |-> "absent"]
    /\ reported = Unknown /\ ledger = 0
    /\ paid = [sum |-> 0, whole |-> TRUE]

-----------------------------------------------------------------------------
(* The main model: planning and synthesis *)

WaveOf(c) == (c - 1) \div WaveSize
InWave(c, w) == WaveOf(c) = w

\* _finish_run and _fail_run write the accumulator to the run.
EndRun(status, total) ==
    /\ phase' = status
    /\ reported' = Recorded(total)

AskMain ==
    /\ phase \in {"plan", "synth"}
    /\ IF WouldExceed(MainEstimate)
       THEN EndRun("partial", usage) /\ UNCHANGED <<reserved, tries>>
       ELSE /\ reserved' = reserved + MainEstimate
            /\ tries' = tries + 1
            /\ phase' = IF phase = "plan" THEN "planAsked" ELSE "synthAsked"
            /\ UNCHANGED reported
    /\ UNCHANGED <<initial, wave, child, outcome, task, usage, ledger, paid>>

\* A plan: the child tasks are created and the first wave starts.
Gather ==
    /\ phase' = "gather"
    /\ wave' = 0
    /\ task' = [c \in Children |-> "queued"]
    /\ child' = [c \in Children |-> IF InWave(c, 0) THEN Started ELSE Idle]

MainAnswered ==
    /\ phase \in {"planAsked", "synthAsked"}
    /\ \E s \in Settlements :
          LET total == Plus(usage, Cost(SettledCost(s))) IN
          /\ usage' = total
          /\ Spend(s)
          /\ ledger' = ledger + Charged(SettledCost(s))
          /\ IF phase = "synthAsked"
             THEN EndRun("completed", total) /\ UNCHANGED <<wave, child, task>>
             ELSE IF BudgetReached(total)
             THEN EndRun("failed", total) /\ UNCHANGED <<wave, child, task>>
             ELSE Gather /\ UNCHANGED reported
    /\ tries' = 0
    /\ UNCHANGED <<initial, reserved, outcome>>

\* An error is repaired while repairs are left; the metadata of a repaired
\* request reaches the accumulator only, that of the last one its task as well.
MainFails ==
    /\ phase \in {"planAsked", "synthAsked"}
    /\ \E f \in Failures, s \in Settlements :
          LET amount == IF f.metadata THEN SettledCost(s) ELSE Unknown
              total == Plus(usage, Cost(amount))
          IN
          /\ usage' = total
          /\ IF f.metadata THEN Spend(s) ELSE SpendUnsettled
          /\ IF f.retryable /\ tries <= MaxRepairs
             THEN /\ phase' = IF phase = "planAsked" THEN "plan" ELSE "synth"
                  /\ UNCHANGED <<reported, ledger, tries>>
             ELSE /\ EndRun("failed", total)
                  /\ ledger' = ledger + Charged(amount)
                  /\ tries' = 0
    /\ UNCHANGED <<initial, reserved, wave, child, outcome, task>>

-----------------------------------------------------------------------------
(* A child: _execute_child *)

SetChild(c, record) == child' = [child EXCEPT ![c] = record]

\* The transaction that settles the task has committed; the coroutine has its
\* outcome but has not returned it.
Settle(c, status, amount, result) ==
    /\ task' = [task EXCEPT ![c] = status]
    /\ ledger' = ledger + Charged(amount)
    /\ outcome' = [outcome EXCEPT ![c] = result]

\* Mutant: the estimate is compared with the ceilings and not reserved.
AskChild_ChecksOnly(c) ==
    /\ child[c].point = "attempt"
    /\ IF WouldExceed(ChildEstimate)
       THEN /\ Settle(c, "cancelled", Unknown,
                      [kind |-> "ceiling", cost |-> NoCost, stops |-> TRUE])
            /\ SetChild(c, [child[c] EXCEPT !.point = "settled"])
            /\ UNCHANGED reserved
       ELSE /\ task' = [task EXCEPT ![c] = "running"]
            /\ UNCHANGED reserved
            /\ SetChild(c, [child[c] EXCEPT !.point = "asked"])
            /\ UNCHANGED <<outcome, ledger>>
    /\ UNCHANGED <<phase, tries, initial, wave, usage, reported, paid>>

\* _set_task_attempt and the reservation.  Above the ceiling the task is
\* cancelled and the outcome carries no metadata.
AskChild(c) ==
    /\ child[c].point = "attempt"
    /\ IF WouldExceed(ChildEstimate)
       THEN /\ Settle(c, "cancelled", Unknown,
                      [kind |-> "ceiling", cost |-> NoCost, stops |-> TRUE])
            /\ SetChild(c, [child[c] EXCEPT !.point = "settled"])
            /\ UNCHANGED reserved
       ELSE /\ task' = [task EXCEPT ![c] = "running"]
            /\ reserved' = reserved + ChildEstimate
            /\ SetChild(c, [child[c] EXCEPT !.point = "asked"])
            /\ UNCHANGED <<outcome, ledger>>
    /\ UNCHANGED <<phase, tries, initial, wave, usage, reported, paid>>

TryAgain(c, record) ==
    /\ SetChild(c, [record EXCEPT !.point = "attempt", !.attempt = @ + 1])
    /\ UNCHANGED <<task, ledger, outcome>>

Accept(c, record, amount) ==
    /\ Settle(c, "succeeded", amount,
              [kind |-> "accepted", cost |-> record.records, stops |-> FALSE])
    /\ SetChild(c, [record EXCEPT !.point = "settled"])

\* A valid result.  When a first-party review has not inspected every URL it is
\* retained and Firecrawl asked once.
ChildAnswered(c) ==
    /\ child[c].point = "asked"
    /\ \E s \in Settlements, complete \in BOOLEAN :
          LET amount == SettledCost(s)
              r == [child[c] EXCEPT !.records = Plus(@, Cost(amount))]
          IN
          /\ Spend(s)
          /\ IF c \in FirstParty /\ ~r.fallback /\ ~complete
             THEN TryAgain(c, [r EXCEPT !.fallback = TRUE, !.retained = TRUE,
                                        !.metadata = amount])
             ELSE Accept(c, r, amount)
    /\ UNCHANGED <<phase, tries, initial, reserved, wave, usage, reported>>

\* Mutant: off by one.
Retry_OneMore(c, f) ==
    f.retryable /\ ~child[c].fallback /\ child[c].attempt <= PrimaryAttempts

\* Retries of the primary attempts, if the delay fits into the deadline.
Retry(c, f) == f.retryable /\ ~child[c].fallback /\ child[c].attempt < PrimaryAttempts

Fallback(c, f) == c \in FirstParty /\ ~child[c].fallback /\ f.eligible

\* An error: retried, replaced by Firecrawl, answered by the result retained
\* from the primary attempt, or the end of the child.
ChildFails(c) ==
    /\ child[c].point = "asked"
    /\ \E f \in Failures, s \in Settlements :
          LET amount == IF f.metadata THEN SettledCost(s) ELSE Unknown
              r == [child[c] EXCEPT !.records = Plus(@, Cost(amount))]
          IN
          /\ IF f.metadata THEN Spend(s) ELSE SpendUnsettled
          /\ \/ Retry(c, f) /\ TryAgain(c, r)
             \/ Fallback(c, f) /\ TryAgain(c, [r EXCEPT !.fallback = TRUE])
             \/ ~Fallback(c, f) /\ r.retained /\ Accept(c, r, r.metadata)
             \/ /\ ~Fallback(c, f) /\ ~r.retained
                /\ Settle(c, "failed", amount,
                          [kind |-> "failed", cost |-> r.records, stops |-> f.stops])
                /\ SetChild(c, [r EXCEPT !.point = "settled"])
    /\ UNCHANGED <<phase, tries, initial, reserved, wave, usage, reported>>

ChildReturns(c) ==
    /\ child[c].point = "settled"
    /\ SetChild(c, [child[c] EXCEPT !.point = "done"])
    /\ UNCHANGED <<phase, tries, initial, reserved, wave, outcome, task, accounts>>

\* Mutant: the deadline leaves the task to the attempt that was cut off.
ChildTimeout_TaskAsItIs(c) ==
    /\ child[c].point \in {"attempt", "asked", "settled"}
    /\ SetChild(c, [child[c] EXCEPT !.point = "done"])
    /\ outcome' = [outcome EXCEPT ![c] =
                      [kind |-> "failed", cost |-> Cost(Unknown), stops |-> FALSE]]
    /\ IF child[c].point = "asked" THEN SpendUnsettled ELSE UNCHANGED paid
    /\ UNCHANGED <<phase, tries, initial, reserved, wave, task, usage, reported, ledger>>

\* The deadline expires at any await, also after the transaction that settled
\* the task: the task is failed, and metadata of the attempts is gone.
ChildTimeout(c) ==
    /\ child[c].point \in {"attempt", "asked", "settled"}
    /\ SetChild(c, [child[c] EXCEPT !.point = "done"])
    /\ task' = [task EXCEPT ![c] = "failed"]
    /\ outcome' = [outcome EXCEPT ![c] =
                      [kind |-> "failed", cost |-> Cost(Unknown), stops |-> FALSE]]
    /\ IF child[c].point = "asked" THEN SpendUnsettled ELSE UNCHANGED paid
    /\ UNCHANGED <<phase, tries, initial, reserved, wave, usage, reported, ledger>>

-----------------------------------------------------------------------------
(* Waves *)

Sum(S) ==
    [sum |-> SumFunctionOnSet([c \in S |-> outcome[c].cost.sum], S),
     known |-> \A c \in S : outcome[c].cost.known,
     any |-> \E c \in S : outcome[c].cost.any]

\* All children of the wave have returned: their costs are added, then the run
\* is stopped (a stop code or its budget), the next wave starts, or the phase
\* ends; without accepted evidence the run fails.
EndWave ==
    LET current == {c \in Children : InWave(c, wave)}
        left == {c \in Children : WaveOf(c) > wave}
        total == Plus(usage, Sum(current))
        stopped == (\E c \in current : outcome[c].stops) \/ BudgetReached(total)
    IN
    /\ phase = "gather"
    /\ \A c \in current : child[c].point = "done"
    /\ usage' = total
    /\ \/ /\ stopped
          /\ EndRun("partial", total)
          /\ task' = [c \in Children |-> IF c \in left THEN "cancelled" ELSE task[c]]
          /\ UNCHANGED <<wave, child>>
       \/ /\ ~stopped /\ left # {}
          /\ wave' = wave + 1
          /\ child' = [c \in Children |-> IF InWave(c, wave + 1) THEN Started ELSE child[c]]
          /\ UNCHANGED <<phase, reported, task>>
       \/ /\ ~stopped /\ left = {}
          /\ \/ EndRun("failed", total)
             \/ /\ \E c \in Children : outcome[c].kind = "accepted"
                /\ phase' = "synth" /\ UNCHANGED reported
          /\ UNCHANGED <<wave, child, task>>
    /\ UNCHANGED <<tries, initial, reserved, outcome, ledger, paid>>

CostsNext ==
    \/ AskMain \/ MainAnswered \/ MainFails \/ EndWave
    \/ \E c \in Children :
          AskChild(c) \/ ChildAnswered(c) \/ ChildFails(c) \/ ChildReturns(c) \/ ChildTimeout(c)

CostsSpec == CostsInit /\ [][CostsNext]_allVars

-----------------------------------------------------------------------------
(* Properties *)

\* Where no request costs more than its estimate, the parallel children of a
\* wave, their retries, the Firecrawl attempts and the repairs together cost no
\* more than the run ceiling and what the day has left.
SpendsWithinCeilings ==
    (\A amount \in Costs : amount <= MainEstimate /\ amount <= ChildEstimate)
        => /\ paid.sum <= RunCeiling
           /\ paid.sum > 0 => initial + paid.sum <= DailyCeiling

\* An ended run that reports a cost reports what its requests cost.
ReportedCostIsWhole ==
    phase \in Ended /\ reported # Unknown => paid.whole /\ reported = paid.sum

\* The same where no child was stopped by the ceiling, whatever was repaired,
\* retried, retained or timed out and whichever costs stayed unsettled; and the
\* usage events never charge more than was settled.
BooksMatchRequests ==
    /\ (\A c \in Children : outcome[c].kind # "ceiling") => ReportedCostIsWhole
    /\ ledger <= paid.sum

\* When a child has returned its task tells its outcome, the deadline having
\* expired at any point: evidence is used only of SUCCEEDED tasks, whose
\* observations the coverage receipts count.
TaskTellsOutcome ==
    \A c \in Children : child[c].point = "done" =>
        /\ outcome[c].kind = "accepted" <=> task[c] = "succeeded"
        /\ outcome[c].kind = "failed" <=> task[c] = "failed"
        /\ outcome[c].kind = "ceiling" <=> task[c] = "cancelled"

=============================================================================
