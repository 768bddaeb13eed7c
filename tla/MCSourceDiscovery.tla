--------------------------- MODULE MCSourceDiscovery ---------------------------
(***************************************************************************)
(* TLC instances of SourceDiscovery.                                       *)
(*                                                                         *)
(* A competitor's requests and its discovery together have too many states *)
(* to enumerate with two requests in flight.  Two slices of the behaviours *)
(* of FairDiscoverySpec are explored instead, chosen in the initial state: *)
(* any two requests for two competitors and no discovery, or the discovery *)
(* of one competitor with one URL, beside one request in flight for it.    *)
(***************************************************************************)
EXTENDS SourceDiscovery

VARIABLE slice

\* Two competitors of different domains; the URLs belong to the first.
TwoDomains == [c \in Competitors |-> c]
FirstOwns == [s \in Sources |-> "c1"]
FirstOnly == [j \in Jobs |-> "c1"]

SliceNext ==
    /\ UNCHANGED slice
    /\ \/ /\ slice = "requests"
          /\ LifecycleNext /\ UNCHANGED <<vars, discovery>>
       \/ /\ slice = "discovery"
          /\ DiscoveryNext
          /\ comp'["c2"] = "absent" /\ req'["r2"] = Idle
          /\ approval'["s2"] = "absent" /\ \A e \in Executors : "s2" \notin found'[e]

SlicedInit == DiscoveryInit /\ slice \in {"requests", "discovery"}

SlicedSpec ==
    /\ SlicedInit
    /\ [][SliceNext]_<<allVars, slice>>
    /\ DiscoveryFairness

=============================================================================
