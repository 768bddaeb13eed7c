---------------------------- MODULE MCPausedRuns ----------------------------
(***************************************************************************)
(* TLC instance of ScoutRuns with processes that may be paused.            *)
(*                                                                         *)
(* Two jobs and a run with all its steps have too many states to           *)
(* enumerate.  Two slices are explored instead, chosen in the initial      *)
(* state: the job table alone (Spec of JobLeases), with handlers that end  *)
(* at any time; and the runs of the jobs that have a handler (RunSpec),    *)
(* where crashes are the only faults.                                      *)
(***************************************************************************)
EXTENDS ScoutRuns

VARIABLE slice

\* Two processes of one executor each.
OneLoopEach == [e \in Executors |-> IF e = "e1" THEN "w1" ELSE "w2"]

LeasesNext == Next /\ UNCHANGED runVars

RunsNext ==
    /\ RunNext
    /\ \A j \in Jobs \ Handled : status'[j] = "absent"
    /\ faults' = faults \/ \E w \in Workers : EndProcess(w)

SliceNext ==
    /\ UNCHANGED slice
    /\ \/ slice = "leases" /\ LeasesNext
       \/ slice = "runs" /\ RunsNext

SlicedInit == RunInit /\ slice \in {"leases", "runs"}

SlicedSpec ==
    /\ SlicedInit
    /\ [][SliceNext]_<<allVars, slice>>

=============================================================================
