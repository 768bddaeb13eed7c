---------------------------- MODULE MCScoutRuns ----------------------------
(***************************************************************************)
(* TLC instances of ScoutRuns in which processes are never paused.         *)
(*                                                                         *)
(* Two slices of the behaviours of FairRunSpec are explored, chosen in the *)
(* initial state: no fault, with an error of a handler or of a child; and  *)
(* faults, beside an error of a child.  An error that ends a handler       *)
(* leaves nothing behind that a later fault could meet but its job.        *)
(***************************************************************************)
EXTENDS ScoutRuns

VARIABLE slice

\* One process; two of its executors share the semaphore.
OneProcess == [e \in Executors |-> "w1"]

SliceNext ==
    /\ UNCHANGED slice
    /\ RunNext
    /\ \/ slice = "errors" /\ faults' = 0
       \/ slice = "faults" /\ \A e \in Executors : ~HandlerError(e)

SlicedInit == RunInit /\ slice \in {"errors", "faults"}

SlicedSpec ==
    /\ SlicedInit
    /\ [][SliceNext]_<<allVars, slice>>
    /\ RunFairness

=============================================================================
