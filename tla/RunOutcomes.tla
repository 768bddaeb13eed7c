---------------------------- MODULE RunOutcomes ----------------------------
(***************************************************************************)
(* What a Scout Run promises to those who read its rows, with no handler,  *)
(* lease, wave, deadline or retry in it: a run begins once and ends once,  *)
(* its tasks move and its findings and Starting Snapshot appear only while *)
(* it is worked on, it ends with no task open, COMPLETED only with the     *)
(* snapshot it owes, and from then on none of its rows ever changes.  Its  *)
(* job is completed after that.                                            *)
(*                                                                         *)
(* ScoutRuns implements this specification (Outcomes there), as long as    *)
(* leases last until jobs are settled.                                     *)
(***************************************************************************)
EXTENDS Integers

CONSTANTS Jobs,      \* runs, by their jobs
          Tasks,     \* tasks of a run
          Live,      \* statuses of a task that is open
          Snapshots  \* runs that owe their competitor a Starting Snapshot

VARIABLES phase,     \* phase[j]: "absent", "queued", "working", or how it ended
          task,      \* task[j][t]: the status of a task
          findings,  \* findings[j]: how many findings the run has published
          snapshot,  \* snapshot[j]: has it published a Starting Snapshot?
          done       \* done[j]: is the job of the run completed?

vars == <<phase, task, findings, snapshot, done>>

Ended == {"completed", "partial", "failed"}

Init ==
    /\ phase = [j \in Jobs |-> "absent"]
    /\ \A j \in Jobs, t \in Tasks : task[j][t] \notin Live
    /\ findings = [j \in Jobs |-> 0]
    /\ snapshot = [j \in Jobs |-> FALSE]
    /\ done = [j \in Jobs |-> FALSE]

Enters(j, p) == phase' = [phase EXCEPT ![j] = p]

TasksMove(j) == \A i \in Jobs \ {j} : task'[i] = task[i]

Request(j) ==
    /\ phase[j] = "absent"
    /\ Enters(j, "queued")
    /\ UNCHANGED <<task, findings, snapshot, done>>

Begin(j) ==
    /\ phase[j] = "queued"
    /\ Enters(j, "working")
    /\ TasksMove(j)
    /\ UNCHANGED <<findings, snapshot, done>>

Work(j) ==
    /\ phase[j] = "working"
    /\ TasksMove(j)
    /\ UNCHANGED <<phase, findings, snapshot, done>>

Publish(j) ==
    /\ phase[j] = "working"
    /\ \/ findings' = [findings EXCEPT ![j] = @ + 1] /\ UNCHANGED snapshot
       \/ snapshot' = [snapshot EXCEPT ![j] = TRUE] /\ UNCHANGED findings
    /\ UNCHANGED <<phase, task, done>>

\* A run that was never worked on can only have failed.
End(j, outcome) ==
    /\ phase[j] = "working" \/ (phase[j] = "queued" /\ outcome = "failed")
    /\ outcome = "completed" /\ j \in Snapshots => snapshot[j]
    /\ Enters(j, outcome)
    /\ TasksMove(j)
    /\ \A t \in Tasks : task'[j][t] \notin Live
    /\ UNCHANGED <<findings, snapshot, done>>

Complete(j) ==
    /\ phase[j] \in Ended
    /\ ~done[j]
    /\ done' = [done EXCEPT ![j] = TRUE]
    /\ UNCHANGED <<phase, task, findings, snapshot>>

Next ==
    \E j \in Jobs :
        \/ Request(j) \/ Begin(j) \/ Work(j) \/ Publish(j) \/ Complete(j)
        \/ \E outcome \in Ended : End(j, outcome)

Spec == Init /\ [][Next]_vars

=============================================================================
