----------------------------- MODULE MCWeeklyBrief -----------------------------
(***************************************************************************)
(* TLC instances of WeeklyBrief.                                           *)
(*                                                                         *)
(* Two Scout Runs beside two handlers, errors and a user who moves have too*)
(* many states to enumerate.  Two slices of the behaviours of              *)
(* FairWeeklySpec are explored instead, chosen in the initial state: two   *)
(* Scout Runs and one handler that meets no error, in one zone; and one    *)
(* Scout Run with all the rest.                                            *)
(***************************************************************************)
EXTENDS WeeklyBrief

VARIABLE slice

\* On the Monday that follows the week the clock goes forward by one unit
\* between midnight and the slot, or back at midnight; far to the west that
\* Monday is still a Sunday.
ManyZones ==
    {[at |-> 9, before |-> 0, after |-> 1], [at |-> 8, before |-> 1, after |-> 0],
     [at |-> 0, before |-> -3, after |-> -3]}

SliceNext ==
    /\ UNCHANGED slice
    /\ WeeklyNext
    /\ \/ slice = "scans" /\ zone' = zone /\ errors' = 0 /\ at'["e2"] = "none"
       \/ slice = "handlers" /\ scan'["s2"] = "absent"

SlicedInit == WeeklyInit /\ slice \in {"scans", "handlers"}

SlicedSpec ==
    /\ SlicedInit
    /\ [][SliceNext]_<<allVars, slice>>
    /\ WeeklyFairness

=============================================================================
