------------------------------ MODULE JobQueue ------------------------------
(***************************************************************************)
(* What the durable job table promises to the rest of the system, with no  *)
(* clock, lease, timer or process in it: a job is enqueued at most once    *)
(* per deduplication key, it is held by at most one holder at a time, a    *)
(* holder may be displaced by another, and only the holder of the moment   *)
(* settles it, once and for all.                                           *)
(*                                                                         *)
(* JobLeases implements this specification (property Queue there).         *)
(***************************************************************************)
CONSTANTS Jobs,       \* logical jobs, one per deduplication key
          Executors,  \* lease owners
          None        \* the absence of a holder

VARIABLES stage,      \* stage[j]: where job j stands
          holder      \* holder[j]: the executor that holds job j, or None

vars == <<stage, holder>>

Settled == {"completed", "failed"}
Stages == {"absent", "queued", "held"} \cup Settled

TypeOK ==
    /\ stage \in [Jobs -> Stages]
    /\ holder \in [Jobs -> Executors \cup {None}]

Init ==
    /\ stage = [j \in Jobs |-> "absent"]
    /\ holder = [j \in Jobs |-> None]

Enqueue(j) ==
    /\ stage[j] = "absent"
    /\ stage' = [stage EXCEPT ![j] = "queued"]
    /\ UNCHANGED holder

\* A job nobody settled may be taken, also from a holder that went silent.
Take(e, j) ==
    /\ stage[j] \in {"queued", "held"}
    /\ stage' = [stage EXCEPT ![j] = "held"]
    /\ holder' = [holder EXCEPT ![j] = e]

Settle(e, j, outcome) ==
    /\ stage[j] = "held"
    /\ holder[j] = e
    /\ stage' = [stage EXCEPT ![j] = outcome]
    /\ holder' = [holder EXCEPT ![j] = None]

Next ==
    \E j \in Jobs :
        \/ Enqueue(j)
        \/ \E e \in Executors :
              \/ Take(e, j)
              \/ \E outcome \in Settled : Settle(e, j, outcome)

Spec == Init /\ [][Next]_vars

=============================================================================
