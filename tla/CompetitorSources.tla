--------------------------- MODULE CompetitorSources ---------------------------
(***************************************************************************)
(* The competitors of one user and their monitored sources, as the API     *)
(* requests of services/competitors.py and api/competitors.py change them. *)
(*                                                                         *)
(* Every request is one READ COMMITTED transaction that reads rows without *)
(* locking them and writes some of them later.  A request whose reads and  *)
(* writes can be told apart by others is kept in req[r] between them; the  *)
(* remaining ones are single actions.  The ORM writes a status only if it  *)
(* differs from the one the request has read.  Any two requests may        *)
(* overlap: nothing in the API puts those of one competitor in an order.   *)
(*                                                                         *)
(* crossed and revived are no rows: they remember which competitors have   *)
(* met the two overlaps that can hurt them, and no action depends on them. *)
(***************************************************************************)
EXTENDS FiniteSets, Naturals

CONSTANTS Competitors,     \* competitor rows, created or not
          Domain,          \* Domain[c]: the primary domain of competitor c
          Sources,         \* URLs that may be monitored
          Owner,           \* Owner[s]: the competitor whose domain URL s is in
          Requests,        \* API requests in flight
          MaxCompetitors   \* max_active_competitors

ASSUME LifecycleAssumption ==
    /\ IsFiniteSet(Competitors) /\ MaxCompetitors \in Nat
    /\ Owner \in [Sources -> Competitors]

VARIABLES comp,      \* competitors.status
          approval,  \* monitored_sources.approval_status
          req,       \* requests between their reads and their writes
          locked,    \* source rows with an uncommitted write
          crossed,   \* competitors with a rejection that overlapped another
                     \* rejection, an activation or a start of monitoring
          revived    \* competitors a late write has brought back

history == <<crossed, revived>>
lifecycle == <<comp, approval, req, locked, history>>

Idle == [kind |-> "idle"]

\* A request for competitor c: the status it writes if any, the sources it
\* picked, and how far it has come.
RequestRecord ==
    {Idle} \cup [kind : {"create", "update", "reject", "start"}, c : Competitors,
                 write : {"active", "paused", "discovering", "none"},
                 picked : SUBSET Sources, step : {"loaded", "locked"}]

LifecycleTypeOK ==
    /\ comp \in [Competitors -> {"absent", "discovering", "active", "paused", "deleted"}]
    /\ approval \in [Sources -> {"absent", "suggested", "approved", "rejected"}]
    /\ req \in [Requests -> RequestRecord]
    /\ locked \in SUBSET Sources
    /\ crossed \in SUBSET Competitors /\ revived \in SUBSET Competitors

LifecycleInit ==
    /\ comp = [c \in Competitors |-> "absent"]
    /\ approval = [s \in Sources |-> "absent"]
    /\ req = [r \in Requests |-> Idle]
    /\ locked = {}
    /\ crossed = {} /\ revived = {}

-----------------------------------------------------------------------------
Live(c) == comp[c] \notin {"absent", "deleted"}

\* uq_competitors_user_active_domain
DomainFree(c) == \A d \in Competitors \ {c} : Domain[d] = Domain[c] => ~Live(d)

InFlight(r) == req[r] # Idle

\* No request that has read competitor c is under way.
Quiet(c) == \A r \in Requests : InFlight(r) => req[r].c # c

\* Mutant: include_deleted = True.
Serves_Deleted(c) == comp[c] # "absent"

\* owned_competitor finds the row.
Serves(c) == Live(c)

\* FOR UPDATE of select_monitoring_sources.
CompetitorLocked(c) ==
    \E r \in Requests : InFlight(r) /\ req[r].c = c /\ req[r].step = "locked"
                           /\ req[r].kind = "start"

SourcesOf(c) == {s \in Sources : Owner[s] = c /\ approval[s] # "absent"}

Monitored(c) == {s \in SourcesOf(c) : approval[s] = "approved"}

SetComp(c, s) == comp' = [comp EXCEPT ![c] = s]

\* A rejection decides on sources that others take away or rely on meanwhile.
Crosses(q, kind, write) ==
    \/ kind = "reject" /\ (req[q].kind = "reject" \/ req[q].write = "active")
    \/ write = "active" /\ req[q].kind = "reject"

Load(r, kind, c, write, picked) ==
    /\ req[r] = Idle
    /\ crossed' = IF \E q \in Requests : InFlight(q) /\ req[q].c = c /\ Crosses(q, kind, write)
                  THEN crossed \cup {c} ELSE crossed
    /\ req' = [req EXCEPT ![r] = [kind |-> kind, c |-> c, write |-> write,
                                  picked |-> picked, step |-> "loaded"]]

Done(r) == req' = [req EXCEPT ![r] = Idle]

At(r, kind, step) == InFlight(r) /\ req[r].kind = kind /\ req[r].step = step

\* Mutant: no advisory lock.
BeginCreate_NoLock(r, c) ==
    /\ comp[c] = "absent"
    /\ DomainFree(c)
    /\ Cardinality({d \in Competitors : Live(d)}) < MaxCompetitors
    /\ Load(r, "create", c, "discovering", {})
    /\ UNCHANGED <<comp, approval, locked, revived>>

\* create_competitor, up to its insert: the checks run under an advisory lock
\* of the user that the transaction keeps until it ends.
BeginCreate(r, c) ==
    /\ comp[c] = "absent"
    /\ \A q \in Requests : InFlight(q) => req[q].kind # "create"
    /\ DomainFree(c)
    /\ Cardinality({d \in Competitors : Live(d)}) < MaxCompetitors
    /\ Load(r, "create", c, "discovering", {})
    /\ UNCHANGED <<comp, approval, locked, revived>>

\* The write of a status read earlier; a row that was deleted in the meantime
\* comes back unless its domain is taken.
WriteStatus(r) ==
    LET c == req[r].c IN
    IF req[r].write = "none" THEN UNCHANGED <<comp, history>>
    ELSE /\ ~Live(c) => DomainFree(c)
         /\ SetComp(c, req[r].write)
         /\ revived' = IF comp[c] = "deleted" THEN revived \cup {c} ELSE revived
         /\ UNCHANGED crossed

CommitCreate(r) ==
    /\ At(r, "create", "loaded")
    /\ WriteStatus(r) /\ Done(r)
    /\ UNCHANGED <<approval, locked>>

\* soft_delete_competitor writes DELETED whatever it has read.
DeleteCompetitor(c) ==
    /\ Serves(c) /\ ~CompetitorLocked(c)
    /\ SetComp(c, "deleted")
    /\ UNCHANGED <<approval, req, locked, history>>

\* update_competitor_status, up to its write.
BeginUpdate(r, c, status) ==
    /\ Serves(c)
    /\ comp[c] # status
    /\ status = "active" => Monitored(c) # {}
    /\ Load(r, "update", c, status, {})
    /\ UNCHANGED <<comp, approval, locked, revived>>

CommitUpdate(r) ==
    /\ At(r, "update", "loaded") /\ ~CompetitorLocked(req[r].c)
    /\ WriteStatus(r) /\ Done(r)
    /\ UNCHANGED <<approval, locked>>

\* create_manual_source: inserted as a suggestion unless the URL is known.
AddSource(s) ==
    /\ Serves(Owner[s]) /\ ~CompetitorLocked(Owner[s])
    /\ approval[s] = "absent" /\ s \notin locked
    /\ approval' = [approval EXCEPT ![s] = "suggested"]
    /\ UNCHANGED <<comp, req, locked, history>>

\* update_source_approval, APPROVED; the URL passed its validation again.
ApproveSource(s) ==
    /\ Serves(Owner[s])
    /\ approval[s] # "absent" /\ s \notin locked
    /\ approval' = [approval EXCEPT ![s] = "approved"]
    /\ UNCHANGED <<comp, req, locked, history>>

\* update_source_approval, REJECTED: the competitor has been read.
BeginReject(r, s) ==
    /\ Serves(Owner[s]) /\ approval[s] # "absent"
    /\ Load(r, "reject", Owner[s],
            IF comp[Owner[s]] = "active" THEN "discovering" ELSE "none",
            IF approval[s] = "rejected" THEN {} ELSE {s})
    /\ UNCHANGED <<comp, approval, locked, revived>>

\* Mutant: the rejected source itself still counts as approved.
FlushReject_CountsItself(r) ==
    LET c == req[r].c
        rest == Monitored(c)
    IN
    /\ At(r, "reject", "loaded")
    /\ req[r].picked \cap locked = {}
    /\ locked' = locked \cup req[r].picked
    /\ req' = [req EXCEPT ![r].step = "locked",
                          ![r].write = IF rest = {} THEN @ ELSE "none"]
    /\ UNCHANGED <<comp, approval, history>>

\* The flush of the rejection, and the search for another approved source: it
\* sees what other transactions have committed.
FlushReject(r) ==
    LET c == req[r].c
        rest == Monitored(c) \ req[r].picked
    IN
    /\ At(r, "reject", "loaded")
    /\ req[r].picked \cap locked = {}
    /\ locked' = locked \cup req[r].picked
    /\ req' = [req EXCEPT ![r].step = "locked",
                          ![r].write = IF rest = {} THEN @ ELSE "none"]
    /\ UNCHANGED <<comp, approval, history>>

CommitReject(r) ==
    /\ At(r, "reject", "locked")
    /\ req[r].write # "none" => ~CompetitorLocked(req[r].c)
    /\ approval' = [s \in Sources |->
                       IF s \in req[r].picked THEN "rejected" ELSE approval[s]]
    /\ locked' = locked \ req[r].picked
    /\ WriteStatus(r) /\ Done(r)

\* start_monitoring_route: the competitor is read before it is locked.
BeginStart(r, c, picked) ==
    /\ Serves(c)
    /\ picked # {} /\ picked \subseteq SourcesOf(c)
    /\ Load(r, "start", c, IF comp[c] = "active" THEN "none" ELSE "active", picked)
    /\ UNCHANGED <<comp, approval, locked, revived>>

LockCompetitor(r) ==
    /\ At(r, "start", "loaded") /\ ~CompetitorLocked(req[r].c)
    /\ req' = [req EXCEPT ![r].step = "locked"]
    /\ UNCHANGED <<comp, approval, locked, history>>

\* select_monitoring_sources from the lock of the sources to the commit.
CommitStart(r) ==
    LET c == req[r].c
        picked == req[r].picked
    IN
    /\ At(r, "start", "locked")
    /\ SourcesOf(c) \cap locked = {}
    /\ approval' = [s \in Sources |->
                       IF s \in picked THEN "approved"
                       ELSE IF Owner[s] = c /\ approval[s] = "suggested" THEN "rejected"
                       ELSE approval[s]]
    /\ WriteStatus(r) /\ Done(r)
    /\ UNCHANGED locked

\* A refused URL, a lost connection, a violated index, or the victim of a
\* deadlock between row locks.
Rollback(r) ==
    /\ InFlight(r)
    /\ locked' = IF At(r, "reject", "locked") THEN locked \ req[r].picked ELSE locked
    /\ Done(r)
    /\ UNCHANGED <<comp, approval, history>>

Commit(r) == CommitCreate(r) \/ CommitUpdate(r) \/ CommitReject(r) \/ CommitStart(r)

BeginRequest(r) ==
    \/ \E c \in Competitors :
          \/ BeginCreate(r, c)
          \/ \E status \in {"active", "paused"} : BeginUpdate(r, c, status)
          \/ \E picked \in SUBSET Sources : BeginStart(r, c, picked)
    \/ \E s \in Sources : BeginReject(r, s)

LifecycleNext ==
    \/ \E r \in Requests : BeginRequest(r) \/ FlushReject(r) \/ LockCompetitor(r)
                              \/ Commit(r) \/ Rollback(r)
    \/ \E c \in Competitors : DeleteCompetitor(c)
    \/ \E s \in Sources : AddSource(s) \/ ApproveSource(s)

-----------------------------------------------------------------------------
(* Properties *)

\* A monitored competitor has an approved source: rejecting the last one sends
\* it back to DISCOVERING, and none is activated without one.
MonitoredHasSource == \A c \in Competitors : comp[c] = "active" => Monitored(c) # {}

\* The same of every competitor whose rejections came one after the other and
\* beside no activation: pauses, deletions, additions, approvals and starts
\* that overlap anything else do no harm.
MonitoredUnlessCrossed ==
    \A c \in Competitors \ crossed : comp[c] = "active" => Monitored(c) # {}

\* Concurrent creations never exceed the competitor limit together; only
\* competitors that a late write brought back come on top of it.
LimitHolds == Cardinality({c \in Competitors : Live(c)} \ revived) <= MaxCompetitors

\* A deletion is final once the requests that had read the competitor before it
\* have ended: no request is served for it any more, and none writes a status.
DeletionSettles ==
    [][\A c \in Competitors :
          comp[c] = "deleted" /\ Quiet(c) => comp'[c] = "deleted" /\ Quiet(c)']_lifecycle

\* Once the user has seen a URL as a suggestion it never becomes a new one
\* again, neither by adding it by hand nor by a discovery that finds it again.
DecisionsKept ==
    [][\A s \in Sources : approval[s] # "absent" =>
          approval'[s] # "suggested" \/ approval[s] = "suggested"]_lifecycle

=============================================================================
