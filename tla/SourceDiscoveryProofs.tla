------------------------ MODULE SourceDiscoveryProofs ------------------------
(***************************************************************************)
(* Theorems about SourceDiscovery and the requests of CompetitorSources,   *)
(* for any number of competitors, sources, requests, runs and executors,   *)
(* and that they only use what JobQueue promises.                          *)
(***************************************************************************)
EXTENDS SourceDiscovery, FiniteSetTheorems, TLAPS

-----------------------------------------------------------------------------
(* Types *)

\* A request record with another step or write is a request record.
LEMMA RequestRecords ==
  ASSUME LifecycleTypeOK, NEW r \in Requests, InFlight(r)
  PROVE  /\ req[r].c \in Competitors
         /\ req[r].picked \in SUBSET Sources
         /\ req[r].write \in {"active", "paused", "discovering", "none"}
         /\ req[r].kind \in {"create", "update", "reject", "start"}
         /\ req[r].step \in {"loaded", "locked"}
         /\ \A w \in {"active", "paused", "discovering", "none"}, s \in {"loaded", "locked"} :
               [req[r] EXCEPT !.step = s, !.write = w] \in RequestRecord
         /\ [req[r] EXCEPT !.step = "locked"] \in RequestRecord
<1>1. req[r] \in [kind : {"create", "update", "reject", "start"}, c : Competitors,
                  write : {"active", "paused", "discovering", "none"},
                  picked : SUBSET Sources, step : {"loaded", "locked"}]
  BY DEF LifecycleTypeOK, InFlight, RequestRecord
<1> QED BY <1>1 DEF RequestRecord

LEMMA LoadType ==
  ASSUME LifecycleTypeOK, NEW r \in Requests, NEW c \in Competitors,
         NEW kind \in {"create", "update", "reject", "start"},
         NEW write \in {"active", "paused", "discovering", "none"},
         NEW picked \in SUBSET Sources, Load(r, kind, c, write, picked)
  PROVE  req' \in [Requests -> RequestRecord] /\ crossed' \in SUBSET Competitors
BY DEF LifecycleTypeOK, Load, RequestRecord

LEMMA WriteStatusType ==
  ASSUME LifecycleTypeOK, NEW r \in Requests, InFlight(r), WriteStatus(r)
  PROVE  /\ comp' \in [Competitors -> {"absent", "discovering", "active", "paused", "deleted"}]
         /\ crossed' \in SUBSET Competitors /\ revived' \in SUBSET Competitors
<1>1. req[r].c \in Competitors /\ req[r].write \in {"active", "paused", "discovering", "none"}
  BY RequestRecords
<1>2. CASE req[r].write = "none"
  BY <1>2 DEF LifecycleTypeOK, WriteStatus, history
<1>3. CASE req[r].write # "none"
  BY <1>1, <1>3 DEF LifecycleTypeOK, WriteStatus, SetComp
<1> QED BY <1>2, <1>3

LEMMA DoneType ==
  ASSUME LifecycleTypeOK, NEW r \in Requests, Done(r)
  PROVE  req' \in [Requests -> RequestRecord]
BY DEF LifecycleTypeOK, Done, RequestRecord

\* The requests keep the types of the rows they share with the discovery.
LEMMA LifecycleTypeStep ==
  ASSUME LifecycleTypeOK, LifecycleNext
  PROVE  LifecycleTypeOK'
<1> USE LifecycleAssumption
<1>1. ASSUME NEW r \in Requests, BeginRequest(r) PROVE LifecycleTypeOK'
  <2>1. ASSUME NEW c \in Competitors, BeginCreate(r, c) PROVE LifecycleTypeOK'
    BY <2>1, LoadType DEF LifecycleTypeOK, BeginCreate
  <2>2. ASSUME NEW c \in Competitors, NEW status \in {"active", "paused"},
               BeginUpdate(r, c, status)
        PROVE LifecycleTypeOK'
    BY <2>2, LoadType DEF LifecycleTypeOK, BeginUpdate
  <2>3. ASSUME NEW c \in Competitors, NEW picked \in SUBSET Sources, BeginStart(r, c, picked)
        PROVE LifecycleTypeOK'
    BY <2>3, LoadType DEF LifecycleTypeOK, BeginStart
  <2>4. ASSUME NEW s \in Sources, BeginReject(r, s) PROVE LifecycleTypeOK'
    <3>1. Owner[s] \in Competitors
      OBVIOUS
    <3> QED BY <2>4, <3>1, LoadType DEF LifecycleTypeOK, BeginReject
  <2> QED BY <1>1, <2>1, <2>2, <2>3, <2>4 DEF BeginRequest
<1>2. ASSUME NEW r \in Requests, FlushReject(r) PROVE LifecycleTypeOK'
  <2>1. InFlight(r)
    BY <1>2 DEF FlushReject, At
  <2>2. req' \in [Requests -> RequestRecord]
    <3>1. PICK w \in {req[r].write, "none"} :
             req' = [req EXCEPT ![r].step = "locked", ![r].write = w]
      BY <1>2 DEF FlushReject
    <3> QED BY <2>1, <3>1, RequestRecords DEF LifecycleTypeOK
  <2> QED BY <1>2, <2>1, <2>2, RequestRecords DEF LifecycleTypeOK, FlushReject, history
<1>3. ASSUME NEW r \in Requests, LockCompetitor(r) PROVE LifecycleTypeOK'
  BY <1>3, RequestRecords DEF LifecycleTypeOK, LockCompetitor, At, history
<1>4. ASSUME NEW r \in Requests, Commit(r) PROVE LifecycleTypeOK'
  <2>1. InFlight(r) /\ Done(r) /\ WriteStatus(r)
    BY <1>4 DEF Commit, CommitCreate, CommitUpdate, CommitReject, CommitStart, At
  <2>2. locked' \in SUBSET Sources
    BY <1>4 DEF Commit, CommitCreate, CommitUpdate, CommitReject, CommitStart, LifecycleTypeOK
  <2>3. approval' \in [Sources -> {"absent", "suggested", "approved", "rejected"}]
    BY <1>4 DEF Commit, CommitCreate, CommitUpdate, CommitReject, CommitStart, LifecycleTypeOK
  <2> QED BY <2>1, <2>2, <2>3, DoneType, WriteStatusType DEF LifecycleTypeOK
<1>5. ASSUME NEW r \in Requests, Rollback(r) PROVE LifecycleTypeOK'
  BY <1>5, DoneType DEF LifecycleTypeOK, Rollback, history
<1>6. ASSUME NEW c \in Competitors, DeleteCompetitor(c) PROVE LifecycleTypeOK'
  BY <1>6 DEF LifecycleTypeOK, DeleteCompetitor, SetComp, history
<1>7. ASSUME NEW s \in Sources, AddSource(s) \/ ApproveSource(s) PROVE LifecycleTypeOK'
  BY <1>7 DEF LifecycleTypeOK, AddSource, ApproveSource, history
<1> QED BY <1>1, <1>2, <1>3, <1>4, <1>5, <1>6, <1>7 DEF LifecycleNext

\* The job table keeps its types.
LEMMA QueueTypeStep ==
  ASSUME TypeOK, NEW j \in Jobs,
         \/ Enqueue(j)
         \/ \E e \in Executors : Take(e, j) \/ \E o \in Settled : Settle(e, j, o)
         \/ UNCHANGED vars
  PROVE  TypeOK'
BY DEF TypeOK, Stages, Enqueue, Take, Settle, Settled, vars

\* A handler at work has a job.
Employed == \A e \in Executors : at[e] # "none" => held[e] \in Jobs

Typed == DiscoveryTypeOK /\ Employed

\* The rows that a handler writes when it ends or starts a run.
RunTypes ==
    /\ run \in [Jobs -> {"absent", "queued", "planning"} \cup TerminalRun]
    /\ task \in [Jobs -> {"absent", "running", "succeeded", "failed", "cancelled"}]
    /\ overdue \in [Jobs -> BOOLEAN]

LEMMA EndRunType ==
  ASSUME DiscoveryTypeOK, NEW j \in Jobs,
         \/ EndRun(j, "failed", task[j]) \/ EndRun(j, "failed", "failed")
         \/ EndRun(j, "partial", "cancelled") \/ EndRun(j, "planning", "running")
         \/ \E r \in {"partial", "completed"} : EndRun(j, r, "succeeded")
         \/ EndRun(j, "failed", IF task[j] = "running" THEN "failed" ELSE task[j])
         \/ UNCHANGED <<run, task, overdue>>
  PROVE  RunTypes'
BY DEF EndRun, DiscoveryTypeOK, RunTypes, TerminalRun

LEMMA TypedInit == DiscoveryInit => Typed
BY DiscoveryAssumption
   DEF DiscoveryInit, Init, LifecycleInit, Typed, DiscoveryTypeOK, Employed, TypeOK, Stages,
       LifecycleTypeOK, RequestRecord, TerminalRun

LEMMA TypedStep ==
  ASSUME Typed, [DiscoveryNext]_allVars
  PROVE  Typed'
<1> USE DEF Typed, Employed, GoTo
<1>1. CASE UNCHANGED allVars
  BY <1>1 DEF allVars, vars, lifecycle, history, discovery, records, handlers, DiscoveryTypeOK, TypeOK,
              LifecycleTypeOK
<1>2. CASE LifecycleNext /\ UNCHANGED <<vars, discovery>>
  <2>1. LifecycleTypeOK'
    BY <1>2, LifecycleTypeStep DEF DiscoveryTypeOK
  <2> QED BY <1>2, <2>1 DEF vars, discovery, records, handlers, DiscoveryTypeOK, TypeOK
<1>3. ASSUME NEW j \in Jobs, RequestDiscovery(j) PROVE Typed'
  <2>1. TypeOK'
    BY <1>3, QueueTypeStep DEF RequestDiscovery, DiscoveryTypeOK
  <2> QED BY <1>3, <2>1 DEF RequestDiscovery, DiscoveryTypeOK, lifecycle, history, handlers, LifecycleTypeOK
<1>4. ASSUME NEW j \in Jobs, DeadlinePasses(j) PROVE Typed'
  BY <1>4 DEF DeadlinePasses, DiscoveryTypeOK, TypeOK, vars, lifecycle, history, handlers, records, LifecycleTypeOK
<1>5. ASSUME NEW e \in Executors, NEW j \in Jobs, StartHandler(e, j) PROVE Typed'
  <2>1. TypeOK'
    BY <1>5, QueueTypeStep DEF StartHandler, DiscoveryTypeOK
  <2>2. errors' \in 0 .. MaxErrors
    BY <1>5, DiscoveryAssumption DEF StartHandler, DiscoveryTypeOK
  <2> QED BY <1>5, <2>1, <2>2 DEF StartHandler, DiscoveryTypeOK, lifecycle, history, records, LifecycleTypeOK
<1>6. ASSUME NEW e \in Executors, ClaimRun(e) PROVE Typed'
  <2>1. held[e] \in Jobs
    BY <1>6 DEF ClaimRun
  <2>2. RunTypes'
    BY <1>6, <2>1, EndRunType DEF ClaimRun
  <2>3. at' \in [Executors -> {"none", "start", "ask", "fail", "stop", "store", "stored", "done", "raised"}]
    BY <1>6 DEF ClaimRun, DiscoveryTypeOK
  <2>4. attempt' \in [Executors -> 0 .. 2]
    BY <1>6 DEF ClaimRun, DiscoveryTypeOK
  <2> QED BY <1>6, <2>1, <2>2, <2>3, <2>4
          DEF ClaimRun, RunTypes, DiscoveryTypeOK, TypeOK, vars, lifecycle, history, LifecycleTypeOK
<1>7. ASSUME NEW e \in Executors, AskProvider(e) PROVE Typed'
  <2>1. attempt' \in [Executors -> 0 .. 2] /\ at[e] # "none"
    BY <1>7 DEF AskProvider, DiscoveryTypeOK
  <2>2. found' \in [Executors -> SUBSET Sources]
    BY <1>7 DEF AskProvider, DiscoveryTypeOK, Discoverable
  <2> QED BY <1>7, <2>1, <2>2 DEF AskProvider, DiscoveryTypeOK, TypeOK, vars, lifecycle, history, records, LifecycleTypeOK
<1>8. ASSUME NEW e \in Executors, EndFailed(e) PROVE Typed'
  <2>1. held[e] \in Jobs
    BY <1>8 DEF EndFailed
  <2>2. RunTypes'
    BY <1>8, <2>1, EndRunType DEF EndFailed
  <2> QED BY <1>8, <2>1, <2>2 DEF EndFailed, RunTypes, DiscoveryTypeOK, TypeOK, vars, lifecycle, history, LifecycleTypeOK
<1>9. ASSUME NEW e \in Executors, BeginStore(e) PROVE Typed'
  BY <1>9 DEF BeginStore, history, DiscoveryTypeOK, TypeOK, vars, records, LifecycleTypeOK
<1>10. ASSUME NEW e \in Executors, SkipStore(e) PROVE Typed'
  BY <1>10 DEF SkipStore, DiscoveryTypeOK, TypeOK, vars, lifecycle, history, records, LifecycleTypeOK
<1>11. ASSUME NEW e \in Executors, CommitStore(e) PROVE Typed'
  <2>1. LifecycleTypeOK'
    BY <1>11 DEF CommitStore, history, DiscoveryTypeOK, LifecycleTypeOK
  <2> QED BY <1>11, <2>1 DEF CommitStore, EndRun, DiscoveryTypeOK, TypeOK, vars, TerminalRun
<1>12. ASSUME NEW e \in Executors, Leave(e)
       PROVE /\ locked' \in SUBSET Sources
             /\ found' \in [Executors -> SUBSET Sources]
             /\ attempt' \in [Executors -> 0 .. 2]
  BY <1>12 DEF Leave, DiscoveryTypeOK, LifecycleTypeOK
<1>13. ASSUME NEW e \in Executors, HandlerError(e) \/ HandlerDies(e) PROVE Typed'
  <2>1. errors' \in 0 .. MaxErrors
    BY <1>13, DiscoveryAssumption DEF HandlerError, HandlerDies, DiscoveryTypeOK
  <2> QED BY <1>12, <1>13, <2>1 DEF HandlerError, HandlerDies, history, DiscoveryTypeOK, TypeOK, vars, records, LifecycleTypeOK
<1>14. ASSUME NEW e \in Executors, EndHandler(e) PROVE Typed'
  <2>1. TypeOK'
    BY <1>14, QueueTypeStep DEF EndHandler, DiscoveryTypeOK, Settled
  <2> QED BY <1>12, <1>14, <2>1 DEF EndHandler, history, DiscoveryTypeOK, records, LifecycleTypeOK
<1> QED BY <1>1, <1>2, <1>3, <1>4, <1>5, <1>6, <1>7, <1>8, <1>9, <1>10, <1>11, <1>13, <1>14
        DEF DiscoveryNext, HandlerStep

\* Every variable keeps its type, whatever requests, handlers and crashes come
\* in between.
THEOREM TypeCorrectD == DiscoverySpec => []DiscoveryTypeOK
<1>1. Typed => DiscoveryTypeOK
  BY DEF Typed
<1> QED BY <1>1, TypedInit, TypedStep, PTL DEF DiscoverySpec

-----------------------------------------------------------------------------
(* Runs, their tasks and their usage *)

\* What the three rows of a run may say together.
Consistent(r, t, u) ==
    /\ r \in {"absent", "queued"} => t = "absent"
    /\ t = "running" <=> r = "planning"
    /\ t = "succeeded" => r \in {"completed", "partial"}
    /\ r = "completed" => t = "succeeded"
    /\ u = (IF t = "succeeded" THEN 1 ELSE 0)

\* A handler that stores sources has its run to itself, and the run is PLANNING.
StoresAlone ==
    \A e \in Executors : at[e] = "stored" =>
        /\ run[held[e]] = "planning"
        /\ \A f \in Executors : at[f] = "stored" /\ held[f] = held[e] => f = e

Books ==
    /\ Typed
    /\ \A j \in Jobs : Consistent(run[j], task[j], usage[j])
    /\ StoresAlone

LEMMA BooksInit == DiscoveryInit => Books
BY TypedInit DEF Books, Consistent, StoresAlone, DiscoveryInit

\* Handlers that have not reached the row lock leave the runs alone.
LEMMA BooksFrame ==
  ASSUME Books, Typed', UNCHANGED records,
         \A e \in Executors : at'[e] = "stored" => at[e] = "stored" /\ held'[e] = held[e]
  PROVE  Books'
BY DEF Books, StoresAlone, records

\* A write to run j under its row lock, with rows that agree.
LEMMA BooksWrite ==
  ASSUME Books, Typed', NEW e \in Executors, NEW r, NEW t, NEW u, held[e] \in Jobs,
         run' = [run EXCEPT ![held[e]] = r], task' = [task EXCEPT ![held[e]] = t],
         usage' = [usage EXCEPT ![held[e]] = u], Consistent(r, t, u),
         held' = held,
         \A f \in Executors : at'[f] = "stored" => at[f] = "stored" /\ held[f] # held[e]
  PROVE  Books'
<1>1. \A j \in Jobs : Consistent(run'[j], task'[j], usage'[j])
  BY DEF Books, Typed, DiscoveryTypeOK
<1>2. StoresAlone'
  BY DEF Books, Typed, Employed, DiscoveryTypeOK, StoresAlone
<1> QED BY <1>1, <1>2 DEF Books

LEMMA BooksStep ==
  ASSUME Books, [DiscoveryNext]_allVars
  PROVE  Books'
<1>0. Typed /\ Typed'
  BY TypedStep DEF Books
<1> USE DEF GoTo
<1>1. CASE UNCHANGED allVars
  BY <1>0, <1>1, BooksFrame DEF allVars, discovery, records, handlers
<1>2. CASE LifecycleNext /\ UNCHANGED <<vars, discovery>>
  BY <1>0, <1>2, BooksFrame DEF discovery, records, handlers
<1>3. ASSUME NEW j \in Jobs, RequestDiscovery(j) PROVE Books'
  <2>1. \A i \in Jobs : Consistent(run'[i], task'[i], usage'[i])
    BY <1>0, <1>3 DEF RequestDiscovery, Books, Consistent, Typed, DiscoveryTypeOK, handlers
  <2>2. \A i \in Jobs : run[i] = "planning" => run'[i] = "planning"
    BY <1>0, <1>3 DEF RequestDiscovery, Typed, DiscoveryTypeOK
  <2> QED BY <1>0, <1>3, <2>1, <2>2 DEF RequestDiscovery, Books, StoresAlone, handlers, Typed, Employed
<1>4. ASSUME NEW j \in Jobs, DeadlinePasses(j) PROVE Books'
  BY <1>0, <1>4, BooksFrame DEF DeadlinePasses, handlers
<1>5. ASSUME NEW e \in Executors, NEW j \in Jobs, StartHandler(e, j) PROVE Books'
  BY <1>0, <1>5, BooksFrame DEF StartHandler, Typed, DiscoveryTypeOK
<1>6. ASSUME NEW e \in Executors, ClaimRun(e) PROVE Books'
  <2>1. held[e] \in Jobs /\ at[e] = "start" /\ held' = held /\ usage' = usage /\ ~Storing(held[e])
    BY <1>0, <1>6 DEF ClaimRun, Typed, Employed
  <2>2. \A f \in Executors : at'[f] = "stored" => at[f] = "stored" /\ held[f] # held[e]
    BY <1>0, <1>6, <2>1 DEF ClaimRun, Storing, Typed, DiscoveryTypeOK
  <2>3. CASE UNCHANGED <<run, task>>
    BY <1>0, <2>1, <2>2, <2>3, BooksFrame DEF records
  <2>4. Consistent(run[held[e]], task[held[e]], usage[held[e]])
    BY <2>1 DEF Books
  <2>5. usage' = [usage EXCEPT ![held[e]] = usage[held[e]]]
    BY <1>0, <2>1 DEF Typed, DiscoveryTypeOK
  <2>6. ASSUME NEW r, NEW t, EndRun(held[e], r, t), Consistent(r, t, usage[held[e]])
        PROVE Books'
    BY <1>0, <2>1, <2>2, <2>5, <2>6, BooksWrite DEF EndRun
  <2>7. CASE run[held[e]] = "planning" /\ EndRun(held[e], "failed", IF task[held[e]] = "running" THEN "failed" ELSE task[held[e]])
    BY <2>4, <2>6, <2>7 DEF Consistent
  <2>8. CASE run[held[e]] = "queued" /\ EndRun(held[e], "failed", task[held[e]])
    BY <2>4, <2>6, <2>8 DEF Consistent
  <2>9. CASE run[held[e]] = "queued" /\ EndRun(held[e], "planning", "running")
    BY <2>4, <2>6, <2>9 DEF Consistent
  <2> QED BY <1>6, <2>3, <2>7, <2>8, <2>9 DEF ClaimRun
<1>7. ASSUME NEW e \in Executors, AskProvider(e) PROVE Books'
  BY <1>0, <1>7, BooksFrame DEF AskProvider, Typed, DiscoveryTypeOK
<1>8. ASSUME NEW e \in Executors, EndFailed(e) PROVE Books'
  <2>1. /\ held[e] \in Jobs /\ at[e] \in {"fail", "stop"} /\ held' = held /\ usage' = usage
        /\ ~Storing(held[e])
    BY <1>0, <1>8 DEF EndFailed, Typed, Employed
  <2>2. \A f \in Executors : at'[f] = "stored" => at[f] = "stored" /\ held[f] # held[e]
    BY <1>0, <1>8, <2>1 DEF EndFailed, Storing, Typed, DiscoveryTypeOK
  <2>3. CASE UNCHANGED <<run, task>>
    BY <1>0, <2>1, <2>2, <2>3, BooksFrame DEF records
  <2>4. Consistent(run[held[e]], task[held[e]], usage[held[e]])
    BY <2>1 DEF Books
  <2>5. usage' = [usage EXCEPT ![held[e]] = usage[held[e]]]
    BY <1>0, <2>1 DEF Typed, DiscoveryTypeOK
  <2>6. ASSUME NEW r, NEW t, EndRun(held[e], r, t), Consistent(r, t, usage[held[e]])
        PROVE Books'
    BY <1>0, <2>1, <2>2, <2>5, <2>6, BooksWrite DEF EndRun
  <2>7. CASE run[held[e]] = "planning" /\ EndRun(held[e], "failed", "failed")
    BY <2>4, <2>6, <2>7 DEF Consistent
  <2>8. CASE run[held[e]] = "planning" /\ EndRun(held[e], "partial", "cancelled")
    BY <2>4, <2>6, <2>8 DEF Consistent
  <2> QED BY <1>8, <2>3, <2>7, <2>8 DEF EndFailed
<1>9. ASSUME NEW e \in Executors, BeginStore(e) PROVE Books'
  <2>1. /\ held[e] \in Jobs /\ run[held[e]] = "planning" /\ ~Storing(held[e])
        /\ held' = held /\ UNCHANGED records /\ at' = [at EXCEPT ![e] = "stored"]
    BY <1>0, <1>9 DEF BeginStore, Typed, Employed
  <2>2. \A f \in Executors : at'[f] = "stored" => f = e \/ (at[f] = "stored" /\ held[f] # held[e])
    BY <1>0, <2>1 DEF Storing, Typed, DiscoveryTypeOK
  <2>3. StoresAlone'
    BY <2>1, <2>2 DEF Books, StoresAlone, records
  <2> QED BY <1>0, <2>1, <2>3 DEF Books, records
<1>10. ASSUME NEW e \in Executors, SkipStore(e) PROVE Books'
  BY <1>0, <1>10, BooksFrame DEF SkipStore, Typed, DiscoveryTypeOK
<1>11. ASSUME NEW e \in Executors, CommitStore(e) PROVE Books'
  <2>1. held[e] \in Jobs /\ at[e] = "stored" /\ held' = held
    BY <1>0, <1>11 DEF CommitStore, Typed, Employed
  <2>2. run[held[e]] = "planning" /\ \A f \in Executors : at[f] = "stored" /\ held[f] = held[e] => f = e
    BY <2>1 DEF Books, StoresAlone
  <2>3. \A f \in Executors : at'[f] = "stored" => at[f] = "stored" /\ held[f] # held[e]
    BY <1>0, <1>11, <2>2 DEF CommitStore, Typed, DiscoveryTypeOK
  <2>4. usage[held[e]] = 0
    BY <2>1, <2>2 DEF Books, Consistent
  <2>5. usage' = [usage EXCEPT ![held[e]] = 1]
    BY <1>11, <2>4 DEF CommitStore
  <2>6. PICK r \in {"partial", "completed"} : EndRun(held[e], r, "succeeded")
    BY <1>11 DEF CommitStore
  <2>7. Consistent(r, "succeeded", 1)
    BY DEF Consistent
  <2> QED BY <1>0, <2>1, <2>3, <2>5, <2>6, <2>7, BooksWrite DEF EndRun
<1>12. ASSUME NEW e \in Executors, HandlerError(e) PROVE Books'
  BY <1>0, <1>12, BooksFrame DEF HandlerError, Typed, DiscoveryTypeOK
<1>13. ASSUME NEW e \in Executors, HandlerDies(e) PROVE Books'
  BY <1>0, <1>13, BooksFrame DEF HandlerDies, Typed, DiscoveryTypeOK
<1>14. ASSUME NEW e \in Executors, EndHandler(e) PROVE Books'
  BY <1>0, <1>14, BooksFrame DEF EndHandler, Typed, DiscoveryTypeOK
<1> QED BY <1>1, <1>2, <1>3, <1>4, <1>5, <1>6, <1>7, <1>8, <1>9, <1>10, <1>11, <1>12, <1>13, <1>14
        DEF DiscoveryNext, HandlerStep

LEMMA BooksInvariant == DiscoverySpec => []Books
BY BooksInit, BooksStep, PTL DEF DiscoverySpec

\* A run, its task and its usage agree whatever crash or takeover comes in
\* between.
THEOREM BooksAgree == DiscoverySpec => []TaskMatchesRun
<1>1. ASSUME NEW r, NEW t, NEW u, Consistent(r, t, u)
      PROVE  /\ t = "running" <=> r = "planning"
             /\ t = "succeeded" => r \in {"completed", "partial"}
             /\ r = "completed" => t = "succeeded"
             /\ u <= 1
             /\ t = "succeeded" => u = 1
  BY <1>1 DEF Consistent
<1>2. Books => TaskMatchesRun
  BY <1>1 DEF Books, TaskMatchesRun
<1> QED BY <1>2, BooksInvariant, PTL

\* An ended discovery run is never written again, by whichever handler.
THEOREM EndedRunsKeepStatus == DiscoverySpec => EndedDiscoveryFinal
<1>1. ASSUME Books, [DiscoveryNext]_allVars, NEW j \in Jobs, run[j] \in TerminalRun
      PROVE  run'[j] = run[j]
  <2> USE DEF TerminalRun
  <2>0. Typed
    BY <1>1 DEF Books
  <2>1. ASSUME NEW e \in Executors, ClaimRun(e) \/ EndFailed(e) PROVE run'[j] = run[j]
    BY <1>1, <2>0, <2>1 DEF ClaimRun, EndFailed, EndRun, Typed, DiscoveryTypeOK
  <2>2. ASSUME NEW e \in Executors, CommitStore(e) PROVE run'[j] = run[j]
    <3>1. run[held[e]] = "planning"
      BY <1>1, <2>2 DEF Books, StoresAlone, CommitStore
    <3> QED BY <1>1, <2>0, <2>2, <3>1 DEF CommitStore, EndRun, Typed, DiscoveryTypeOK
  <2>3. ASSUME NEW e \in Executors,
               AskProvider(e) \/ BeginStore(e) \/ SkipStore(e) \/ EndHandler(e)
               \/ HandlerError(e) \/ HandlerDies(e) \/ \E i \in Jobs : StartHandler(e, i)
        PROVE run'[j] = run[j]
    BY <2>3 DEF AskProvider, BeginStore, SkipStore, EndHandler, HandlerError, HandlerDies,
                StartHandler, records
  <2>4. ASSUME NEW i \in Jobs, RequestDiscovery(i) \/ DeadlinePasses(i) PROVE run'[j] = run[j]
    BY <1>1, <2>0, <2>4 DEF RequestDiscovery, DeadlinePasses, records, Typed, DiscoveryTypeOK
  <2>5. CASE UNCHANGED discovery \/ UNCHANGED allVars
    BY <2>5 DEF allVars, discovery, records
  <2> QED BY <1>1, <2>1, <2>2, <2>3, <2>4, <2>5 DEF DiscoveryNext, HandlerStep
<1>2. Books /\ [DiscoveryNext]_allVars
         => [\A j \in Jobs : run[j] \in TerminalRun => run'[j] = run[j]]_allVars
  BY <1>1
<1> QED BY <1>2, BooksInvariant, PTL DEF DiscoverySpec, EndedDiscoveryFinal

-----------------------------------------------------------------------------
(* Requests that overlap *)

\* The handlers change no competitor, and make no decision about a known source.
LEMMA DiscoveryLeavesRequests ==
  ASSUME Typed, DiscoveryNext, ~LifecycleNext
  PROVE  /\ UNCHANGED <<comp, req, history>>
         /\ \A s \in Sources :
               approval'[s] = approval[s] \/ (approval[s] = "absent" /\ approval'[s] = "suggested")
<1>1. ASSUME NEW e \in Executors, CommitStore(e)
      PROVE  \A s \in Sources :
               approval'[s] = approval[s] \/ (approval[s] = "absent" /\ approval'[s] = "suggested")
  BY <1>1 DEF CommitStore, Typed, DiscoveryTypeOK, LifecycleTypeOK
<1> QED BY <1>1 DEF DiscoveryNext, HandlerStep, lifecycle, RequestDiscovery, DeadlinePasses, StartHandler,
                ClaimRun, AskProvider, EndFailed, BeginStore, SkipStore, CommitStore, EndHandler,
                HandlerError, HandlerDies

LEMMA InFlightTypes ==
  ASSUME Typed, NEW r \in Requests, InFlight(r)
  PROVE  /\ req[r].c \in Competitors
         /\ req[r].write \in {"active", "paused", "discovering", "none"}
<1>1. req[r] \in [kind : {"create", "update", "reject", "start"}, c : Competitors,
                  write : {"active", "paused", "discovering", "none"},
                  picked : SUBSET Sources, step : {"loaded", "locked"}]
  BY DEF Typed, DiscoveryTypeOK, LifecycleTypeOK, InFlight, RequestRecord
<1> QED BY <1>1

\* The status a request writes.
LEMMA Written ==
  ASSUME Typed, NEW r \in Requests, InFlight(r), WriteStatus(r)
  PROVE  /\ req[r].c \in Competitors
         /\ \A d \in Competitors \ {req[r].c} : comp'[d] = comp[d]
         /\ comp'[req[r].c] = (IF req[r].write = "none" THEN comp[req[r].c] ELSE req[r].write)
         /\ UNCHANGED crossed
<1>1. req[r].c \in Competitors
  BY InFlightTypes
<1>2. CASE req[r].write = "none"
  BY <1>1, <1>2 DEF WriteStatus, history
<1>3. CASE req[r].write # "none"
  BY <1>1, <1>3 DEF WriteStatus, SetComp, Typed, DiscoveryTypeOK, LifecycleTypeOK
<1> QED BY <1>1, <1>2, <1>3

LEMMA CommitShape ==
  ASSUME Typed, NEW r \in Requests, Commit(r)
  PROVE  /\ InFlight(r) /\ WriteStatus(r) /\ Done(r)
         /\ \A q \in Requests : q # r => req'[q] = req[q]
         /\ ~InFlight(r)'
BY DEF Commit, CommitCreate, CommitUpdate, CommitReject, CommitStart, At, Done, InFlight,
       Typed, DiscoveryTypeOK, LifecycleTypeOK

\* What a request in flight is made of, whatever others have done since.
Shape(q) ==
    /\ q.kind = "create" => q.write = "discovering"
    /\ q.kind = "update" => q.write # "none"
    /\ q.kind = "reject" => q.write \in {"discovering", "none"} /\ \A s \in q.picked : Owner[s] = q.c
    /\ q.kind = "start" => q.picked # {} /\ q.picked \subseteq SourcesOf(q.c)
    /\ q.kind # "create" => comp[q.c] # "absent"

Shaped ==
    /\ Typed
    /\ \A r \in Requests : InFlight(r) => Shape(req[r])

\* Rows that exist are not removed again.
LEMMA RowsStay ==
  ASSUME Typed, LifecycleNext
  PROVE  /\ \A c \in Competitors : comp[c] # "absent" => comp'[c] # "absent"
         /\ \A s \in Sources : approval[s] # "absent" => approval'[s] # "absent"
<1> USE DEF Typed, DiscoveryTypeOK, LifecycleTypeOK
<1>1. ASSUME NEW r \in Requests, Commit(r)
      PROVE  /\ \A c \in Competitors : comp[c] # "absent" => comp'[c] # "absent"
             /\ \A s \in Sources : approval[s] # "absent" => approval'[s] # "absent"
  <2>1. \A c \in Competitors : comp[c] # "absent" => comp'[c] # "absent"
    <3>1. req[r].write \in {"active", "paused", "discovering", "none"}
      BY <1>1, CommitShape, InFlightTypes
    <3> QED BY <1>1, <3>1, CommitShape, Written
  <2>2. \A s \in Sources : approval[s] # "absent" => approval'[s] # "absent"
    BY <1>1 DEF Commit, CommitCreate, CommitUpdate, CommitReject, CommitStart
  <2> QED BY <2>1, <2>2
<1>2. ASSUME NEW c \in Competitors, DeleteCompetitor(c)
      PROVE  /\ \A d \in Competitors : comp[d] # "absent" => comp'[d] # "absent"
             /\ UNCHANGED approval
  BY <1>2 DEF DeleteCompetitor, SetComp
<1>3. ASSUME NEW s \in Sources, AddSource(s) \/ ApproveSource(s)
      PROVE  /\ \A x \in Sources : approval[x] # "absent" => approval'[x] # "absent"
             /\ UNCHANGED comp
  BY <1>3 DEF AddSource, ApproveSource
<1>4. ASSUME NEW r \in Requests, BeginRequest(r) \/ FlushReject(r) \/ LockCompetitor(r) \/ Rollback(r)
      PROVE  UNCHANGED <<comp, approval>>
  BY <1>4 DEF BeginRequest, BeginCreate, BeginUpdate, BeginStart, BeginReject, FlushReject,
              LockCompetitor, Rollback
<1> QED BY <1>1, <1>2, <1>3, <1>4 DEF LifecycleNext

LEMMA ShapeFrame ==
  ASSUME NEW q, Shape(q), q.c \in Competitors,
         \A c \in Competitors : comp[c] # "absent" => comp'[c] # "absent",
         \A s \in Sources : approval[s] # "absent" => approval'[s] # "absent"
  PROVE  Shape(q)'
BY DEF Shape, SourcesOf

\* What a request has loaded.
LEMMA LoadShape ==
  ASSUME Typed, NEW r \in Requests, NEW kind, NEW c, NEW write, NEW picked,
         Load(r, kind, c, write, picked)
  PROVE  /\ req[r] = Idle
         /\ \A q \in Requests : q # r => req'[q] = req[q]
         /\ req'[r].kind = kind /\ req'[r].c = c /\ req'[r].write = write
         /\ req'[r].picked = picked /\ req'[r].step = "loaded"
BY DEF Load, Typed, DiscoveryTypeOK, LifecycleTypeOK

\* A rejection that has flushed, or a start that has its lock, is the same
\* request one step further.
LEMMA LockShape ==
  ASSUME Typed, NEW r \in Requests, FlushReject(r) \/ LockCompetitor(r)
  PROVE  /\ InFlight(r) /\ InFlight(r)' /\ UNCHANGED <<comp, approval, history>>
         /\ \A q \in Requests : q # r => req'[q] = req[q]
         /\ req'[r].kind = req[r].kind /\ req'[r].c = req[r].c /\ req'[r].picked = req[r].picked
         /\ req'[r].step = "locked" /\ req'[r].write \in {req[r].write, "none"}
         /\ req[r].kind \in {"reject", "start"}
         /\ req[r].kind = "start" => req'[r].write = req[r].write
         /\ req[r].kind = "reject" /\ req'[r].write # req[r].write =>
               Monitored(req[r].c) \ req[r].picked # {}
<1>1. /\ InFlight(r) /\ UNCHANGED <<comp, approval, history>>
      /\ req[r] \in [kind : {"create", "update", "reject", "start"}, c : Competitors,
                     write : {"active", "paused", "discovering", "none"},
                     picked : SUBSET Sources, step : {"loaded", "locked"}]
      /\ req \in [Requests -> RequestRecord]
  BY DEF FlushReject, LockCompetitor, At, Typed, DiscoveryTypeOK, LifecycleTypeOK,
         InFlight, RequestRecord
<1>2. PICK w \in {req[r].write, "none"} :
         /\ req' = [req EXCEPT ![r] = [@ EXCEPT !.step = "locked", !.write = w]]
         /\ req[r].kind = "start" => w = req[r].write
         /\ req[r].kind = "reject" /\ w # req[r].write => Monitored(req[r].c) \ req[r].picked # {}
         /\ req[r].kind \in {"reject", "start"}
  <2>1. CASE FlushReject(r)
    <3>1. PICK w \in {req[r].write, "none"} :
             /\ req' = [req EXCEPT ![r].step = "locked", ![r].write = w]
             /\ w # req[r].write => Monitored(req[r].c) \ req[r].picked # {}
      BY <2>1 DEF FlushReject
    <3>2. req' = [req EXCEPT ![r] = [@ EXCEPT !.step = "locked", !.write = w]]
      BY <1>1, <3>1
    <3> QED BY <2>1, <3>1, <3>2 DEF FlushReject, At
  <2>2. CASE LockCompetitor(r)
    <3>1. [req[r] EXCEPT !.step = "locked", !.write = req[r].write] = [req[r] EXCEPT !.step = "locked"]
      BY <1>1
    <3>2. req' = [req EXCEPT ![r] = [req[r] EXCEPT !.step = "locked"]] /\ req[r].kind = "start"
      BY <2>2 DEF LockCompetitor, At
    <3> QED BY <3>1, <3>2
  <2> QED BY <2>1, <2>2
<1>3. /\ \A q \in Requests : q # r => req'[q] = req[q]
      /\ req'[r].kind = req[r].kind /\ req'[r].c = req[r].c /\ req'[r].picked = req[r].picked
      /\ req'[r].write = w /\ req'[r].step = "locked"
  BY <1>1, <1>2
<1>4. req'[r] # Idle
  <2>1. req'[r].kind # "idle"
    BY <1>2, <1>3
  <2> QED BY <2>1 DEF Idle
<1> QED BY <1>1, <1>2, <1>3, <1>4 DEF InFlight

LEMMA ShapedStep ==
  ASSUME Shaped, [DiscoveryNext]_allVars
  PROVE  Shaped'
<1>0. Typed /\ Typed'
  BY TypedStep DEF Shaped
<1>1. /\ \A c \in Competitors : comp[c] # "absent" => comp'[c] # "absent"
      /\ \A s \in Sources : approval[s] # "absent" => approval'[s] # "absent"
  BY <1>0, RowsStay, DiscoveryLeavesRequests DEF allVars, lifecycle
<1>2. ASSUME NEW q \in Requests, InFlight(q), req'[q] = req[q] PROVE Shape(req[q])'
  <2>1. req[q].c \in Competitors /\ Shape(req[q])
    BY <1>0, <1>2, InFlightTypes DEF Shaped
  <2>2. PICK w : w = req[q]
    OBVIOUS
  <2>3. Shape(w)'
    BY <1>1, <2>1, <2>2, ShapeFrame
  <2> QED BY <1>2, <2>2, <2>3
<1>3. ASSUME NEW r \in Requests, \A q \in Requests : q # r => req'[q] = req[q],
             InFlight(r)' => Shape(req[r])'
      PROVE  Shaped'
  BY <1>0, <1>2, <1>3 DEF Shaped, InFlight
<1>4. ASSUME NEW r \in Requests, BeginRequest(r) PROVE Shaped'
  <2>1. ASSUME NEW c \in Competitors, BeginCreate(r, c) PROVE Shaped'
    BY <1>0, <1>3, <2>1, LoadShape DEF BeginCreate, Shape
  <2>2. ASSUME NEW c \in Competitors, NEW status \in {"active", "paused"},
               BeginUpdate(r, c, status)
        PROVE Shaped'
    BY <1>0, <1>3, <2>2, LoadShape DEF BeginUpdate, Shape, Serves, Live
  <2>3. ASSUME NEW c \in Competitors, NEW picked \in SUBSET Sources, BeginStart(r, c, picked)
        PROVE Shaped'
    BY <1>0, <1>3, <2>3, LoadShape DEF BeginStart, Shape, Serves, Live, SourcesOf
  <2>4. ASSUME NEW s \in Sources, BeginReject(r, s) PROVE Shaped'
    BY <1>0, <1>3, <2>4, LoadShape DEF BeginReject, Shape, Serves, Live
  <2> QED BY <1>4, <2>1, <2>2, <2>3, <2>4 DEF BeginRequest
<1>5. ASSUME NEW r \in Requests, FlushReject(r) \/ LockCompetitor(r) PROVE Shaped'
  BY <1>0, <1>3, <1>5, LockShape DEF Shaped, Shape, SourcesOf
<1>6. ASSUME NEW r \in Requests, Commit(r) \/ Rollback(r) PROVE Shaped'
  <2>1. ~InFlight(r)' /\ \A q \in Requests : q # r => req'[q] = req[q]
    BY <1>0, <1>6, CommitShape DEF Rollback, Done, InFlight, Typed, DiscoveryTypeOK, LifecycleTypeOK
  <2> QED BY <1>3, <2>1
<1>7. CASE UNCHANGED req
  BY <1>0, <1>2, <1>7 DEF Shaped, InFlight
<1> QED BY <1>0, <1>4, <1>5, <1>6, <1>7, DiscoveryLeavesRequests
        DEF LifecycleNext, DeleteCompetitor, AddSource, ApproveSource, allVars, lifecycle

LEMMA ShapedInit == DiscoveryInit => Shaped
BY TypedInit DEF Shaped, InFlight, DiscoveryInit, LifecycleInit

\* A competitor without a crossing.  Nothing else takes approved sources away
\* or activates it while a rejection is under way, so that what the rejection
\* and the other requests in flight have read of its sources still stands.
Apart(c) ==
    \A r, q \in Requests :
        InFlight(r) /\ InFlight(q) /\ r # q /\ req[r].c = c /\ req[q].c = c /\ req[r].kind = "reject"
            => req[q].kind # "reject" /\ req[q].write # "active"

Stands(q) ==
    /\ q.kind = "update" /\ q.write = "active" => Monitored(q.c) # {}
    /\ q.kind = "reject" /\ q.write = "none" /\ comp[q.c] = "active" =>
          q.step = "locked" /\ Monitored(q.c) \ q.picked # {}

Sound(c) ==
    c \notin crossed =>
        /\ Apart(c)
        /\ \A r \in Requests : InFlight(r) /\ req[r].c = c => Stands(req[r])
        /\ comp[c] = "active" => Monitored(c) # {}

AllSound == Shaped /\ \A c \in Competitors : Sound(c)

LEMMA AllSoundInit == DiscoveryInit => AllSound
BY ShapedInit DEF AllSound, Sound, Apart, InFlight, DiscoveryInit, LifecycleInit

\* A step that brings no request for c and takes no approved source from it.
LEMMA SoundFrame ==
  ASSUME NEW c \in Competitors, Sound(c),
         \A r \in Requests : InFlight(r)' /\ req'[r].c = c => InFlight(r) /\ req'[r] = req[r],
         comp'[c] = comp[c] \/ comp'[c] # "active",
         Monitored(c) \subseteq Monitored(c)',
         crossed \subseteq crossed'
  PROVE  Sound(c)'
<1> SUFFICES ASSUME c \notin crossed'
             PROVE  /\ Apart(c)'
                    /\ \A r \in Requests : InFlight(r)' /\ req'[r].c = c => Stands(req[r])'
                    /\ comp'[c] = "active" => Monitored(c)' # {}
  BY DEF Sound
<1>1. Apart(c)'
  BY DEF Sound, Apart
<1>2. ASSUME NEW r \in Requests, InFlight(r)', req'[r].c = c PROVE Stands(req[r])'
  <2>1. Stands(req[r]) /\ req'[r] = req[r] /\ req[r].c = c
    BY <1>2 DEF Sound
  <2>2. Monitored(req[r].c)' = Monitored(c)' /\ Monitored(req[r].c) = Monitored(c)
    BY <2>1 DEF Monitored, SourcesOf
  <2> QED BY <2>1, <2>2 DEF Stands
<1> QED BY <1>1, <1>2 DEF Sound

\* A step of a request for another competitor.
LEMMA SoundOther ==
  ASSUME AllSound, NEW r \in Requests, NEW c \in Competitors,
         \A q \in Requests : q # r => req'[q] = req[q],
         InFlight(r)' => req'[r].c # c,
         comp'[c] = comp[c],
         \A s \in Sources : Owner[s] = c => approval'[s] = approval[s],
         crossed \subseteq crossed'
  PROVE  Sound(c)'
<1>1. \A q \in Requests : InFlight(q)' /\ req'[q].c = c => InFlight(q) /\ req'[q] = req[q]
  BY DEF InFlight
<1>2. Monitored(c) \subseteq Monitored(c)'
  BY DEF Monitored, SourcesOf
<1> QED BY <1>1, <1>2, SoundFrame DEF AllSound

LEMMA SoundLoad ==
  ASSUME AllSound, NEW r \in Requests, NEW c \in Competitors,
         NEW kind \in {"create", "update", "reject", "start"}, NEW write, NEW picked,
         Load(r, kind, c, write, picked), UNCHANGED <<comp, approval>>,
         kind = "update" /\ write = "active" => Monitored(c) # {},
         kind = "reject" /\ write = "none" => comp[c] # "active"
  PROVE  \A d \in Competitors : Sound(d)'
<1>0. Typed /\ crossed \subseteq crossed'
  BY DEF AllSound, Shaped, Load
<1>1. ASSUME NEW d \in Competitors, d # c PROVE Sound(d)'
  BY <1>0, <1>1, LoadShape, SoundOther
<1>2. Sound(c)'
  <2> SUFFICES ASSUME c \notin crossed'
               PROVE  /\ Apart(c)'
                      /\ \A q \in Requests : InFlight(q)' /\ req'[q].c = c => Stands(req[q])'
                      /\ comp'[c] = "active" => Monitored(c)' # {}
    BY DEF Sound
  <2>1. /\ c \notin crossed
        /\ \A q \in Requests : InFlight(q) /\ req[q].c = c => ~Crosses(q, kind, write)
    BY DEF Load
  <2>2. Apart(c) /\ \A q \in Requests : InFlight(q) /\ req[q].c = c => Stands(req[q])
    BY <2>1 DEF AllSound, Sound
  <2>3. /\ req[r] = Idle /\ \A q \in Requests : q # r => req'[q] = req[q]
        /\ req'[r].kind = kind /\ req'[r].c = c /\ req'[r].write = write
        /\ req'[r].picked = picked /\ req'[r].step = "loaded"
    BY <1>0, LoadShape
  <2>4. Apart(c)'
    <3> SUFFICES ASSUME NEW p \in Requests, NEW q \in Requests, InFlight(p)', InFlight(q)', p # q,
                        req'[p].c = c, req'[q].c = c, req'[p].kind = "reject"
                 PROVE  req'[q].kind # "reject" /\ req'[q].write # "active"
      BY DEF Apart
    <3>1. CASE p # r /\ q # r
      BY <2>2, <2>3, <3>1 DEF Apart, InFlight
    <3>2. CASE p = r
      BY <2>1, <2>3, <3>2 DEF Crosses, InFlight
    <3>3. CASE q = r
      BY <2>1, <2>3, <3>3 DEF Crosses, InFlight
    <3> QED BY <3>1, <3>2, <3>3
  <2>5. UNCHANGED <<Monitored(c), comp[c]>>
    BY DEF Monitored, SourcesOf
  <2>6. ASSUME NEW q \in Requests, InFlight(q)', req'[q].c = c PROVE Stands(req[q])'
    <3>1. Monitored(req[q].c)' = Monitored(c)
      BY <2>5, <2>6 DEF Monitored, SourcesOf
    <3>2. CASE q = r
      BY <2>3, <2>5, <3>1, <3>2 DEF Stands
    <3>3. CASE q # r
      <4>1. InFlight(q) /\ req'[q] = req[q] /\ Stands(req[q])
        BY <2>2, <2>3, <2>6, <3>3 DEF InFlight
      <4> QED BY <2>5, <2>6, <3>1, <4>1 DEF Stands, Monitored, SourcesOf
    <3> QED BY <3>2, <3>3
  <2>7. comp'[c] = "active" => Monitored(c)' # {}
    BY <2>1, <2>5 DEF AllSound, Sound
  <2> QED BY <2>4, <2>6, <2>7
<1> QED BY <1>1, <1>2

LEMMA SoundLock ==
  ASSUME AllSound, NEW r \in Requests, FlushReject(r) \/ LockCompetitor(r)
  PROVE  \A d \in Competitors : Sound(d)'
<1>0. Typed
  BY DEF AllSound, Shaped
<1>1. /\ InFlight(r) /\ UNCHANGED <<comp, approval, crossed>>
      /\ \A q \in Requests : q # r => req'[q] = req[q]
      /\ req'[r].kind = req[r].kind /\ req'[r].c = req[r].c /\ req'[r].picked = req[r].picked
      /\ req'[r].step = "locked" /\ req'[r].write \in {req[r].write, "none"}
      /\ req[r].kind \in {"reject", "start"}
      /\ req[r].kind = "reject" /\ req'[r].write # req[r].write =>
            Monitored(req[r].c) \ req[r].picked # {}
  BY <1>0, LockShape DEF history
<1>2. \A q \in Requests : InFlight(q)' => InFlight(q) /\ req'[q].c = req[q].c /\ req'[q].kind = req[q].kind
  BY <1>1 DEF InFlight
<1>3. ASSUME NEW d \in Competitors, d # req[r].c PROVE Sound(d)'
  BY <1>1, <1>3, SoundOther
<1>4. ASSUME NEW c \in Competitors, c = req[r].c PROVE Sound(c)'
  <2> SUFFICES ASSUME c \notin crossed
               PROVE  /\ Apart(c)'
                      /\ \A q \in Requests : InFlight(q)' /\ req'[q].c = c => Stands(req[q])'
                      /\ comp'[c] = "active" => Monitored(c)' # {}
    BY <1>1 DEF Sound
  <2>1. /\ Apart(c) /\ \A q \in Requests : InFlight(q) /\ req[q].c = c => Stands(req[q])
        /\ comp[c] = "active" => Monitored(c) # {}
    BY DEF AllSound, Sound
  <2>2. UNCHANGED <<Monitored(c), comp[c]>>
    BY <1>1 DEF Monitored, SourcesOf
  <2>3. Apart(c)'
    <3>1. \A q \in Requests : InFlight(q)' /\ req'[q].write = "active" => req[q].write = "active"
      BY <1>1
    <3> QED BY <1>2, <2>1, <3>1 DEF Apart
  <2>4. ASSUME NEW q \in Requests, InFlight(q)', req'[q].c = c PROVE Stands(req[q])'
    <3>1. Monitored(req[q].c)' = Monitored(c) /\ InFlight(q) /\ req[q].c = c /\ Stands(req[q])
      BY <1>2, <2>1, <2>2, <2>4 DEF Monitored, SourcesOf
    <3>2. CASE q = r
      BY <1>1, <2>2, <3>1, <3>2 DEF Stands
    <3>3. CASE q # r
      BY <1>1, <2>2, <3>1, <3>3 DEF Stands
    <3> QED BY <3>2, <3>3
  <2> QED BY <2>1, <2>2, <2>3, <2>4
<1> QED BY <1>3, <1>4

LEMMA SoundCommit ==
  ASSUME AllSound, NEW r \in Requests, Commit(r)
  PROVE  \A d \in Competitors : Sound(d)'
<1>0. Typed /\ Shaped
  BY DEF AllSound, Shaped
<1>1. /\ InFlight(r) /\ ~InFlight(r)' /\ UNCHANGED crossed /\ req[r].c \in Competitors
      /\ \A q \in Requests : q # r => req'[q] = req[q]
      /\ \A d \in Competitors \ {req[r].c} : comp'[d] = comp[d]
      /\ comp'[req[r].c] = (IF req[r].write = "none" THEN comp[req[r].c] ELSE req[r].write)
      /\ Shape(req[r])
  BY <1>0, CommitShape, Written DEF Shaped
<1>2. \A q \in Requests : InFlight(q)' => q # r /\ InFlight(q) /\ req'[q] = req[q]
  BY <1>1 DEF InFlight
<1>3. \A s \in Sources : Owner[s] # req[r].c => approval'[s] = approval[s]
  <2>1. CASE CommitCreate(r) \/ CommitUpdate(r)
    BY <2>1 DEF CommitCreate, CommitUpdate
  <2>2. CASE CommitReject(r)
    BY <1>1, <2>2 DEF CommitReject, At, Shape
  <2>3. CASE CommitStart(r)
    BY <1>1, <2>3 DEF CommitStart, At, Shape, SourcesOf
  <2> QED BY <2>1, <2>2, <2>3 DEF Commit
<1>4. ASSUME NEW d \in Competitors, d # req[r].c PROVE Sound(d)'
  BY <1>1, <1>3, <1>4, SoundOther
<1>5. ASSUME NEW c \in Competitors, c = req[r].c PROVE Sound(c)'
  <2> SUFFICES ASSUME c \notin crossed
               PROVE  /\ Apart(c)'
                      /\ \A q \in Requests : InFlight(q)' /\ req'[q].c = c => Stands(req[q])'
                      /\ comp'[c] = "active" => Monitored(c)' # {}
    BY <1>1 DEF Sound
  <2>1. /\ Apart(c) /\ \A q \in Requests : InFlight(q) /\ req[q].c = c => Stands(req[q])
        /\ comp[c] = "active" => Monitored(c) # {}
    BY DEF AllSound, Sound
  <2>2. Apart(c)'
    BY <1>2, <2>1 DEF Apart
  <2>3. CASE CommitCreate(r) \/ CommitUpdate(r) \/ CommitStart(r)
    <3>1. Monitored(c) \subseteq Monitored(c)'
      <4>1. CASE UNCHANGED approval
        BY <4>1 DEF Monitored, SourcesOf
      <4>2. CASE CommitStart(r)
        BY <1>0, <1>5, <4>2 DEF CommitStart, Monitored, SourcesOf, Typed, DiscoveryTypeOK, LifecycleTypeOK
      <4> QED BY <2>3, <4>1, <4>2 DEF CommitCreate, CommitUpdate
    <3>2. comp'[c] = "active" => Monitored(c)' # {}
      <4>1. CASE CommitStart(r)
        <5>1. req[r].picked # {} /\ req[r].picked \subseteq SourcesOf(c)
          BY <1>1, <1>5, <4>1 DEF CommitStart, At, Shape
        <5>2. req[r].picked \subseteq Monitored(c)'
          BY <1>5, <4>1, <5>1 DEF CommitStart, Monitored, SourcesOf
        <5> QED BY <5>1, <5>2
      <4>2. CASE CommitCreate(r)
        BY <1>1, <1>5, <4>2 DEF CommitCreate, At, Shape
      <4>3. CASE CommitUpdate(r)
        <5>1. Stands(req[r]) /\ req[r].kind = "update" /\ req[r].write # "none"
          BY <1>1, <1>5, <2>1, <4>3 DEF CommitUpdate, At, Shape
        <5>2. comp'[c] = "active" => Monitored(c) # {}
          BY <1>1, <1>5, <5>1 DEF Stands
        <5> QED BY <3>1, <5>2
      <4> QED BY <2>3, <4>1, <4>2, <4>3
    <3>3. ASSUME NEW q \in Requests, InFlight(q)', req'[q].c = c PROVE Stands(req[q])'
      <4>1. InFlight(q) /\ q # r /\ req'[q] = req[q] /\ req[q].c = c /\ Stands(req[q])
        BY <1>2, <2>1, <3>3
      <4>2. req[q].kind = "reject" => req[r].write # "active"
        BY <1>1, <1>5, <2>1, <4>1 DEF Apart
      <4>3. req[q].kind = "reject" /\ comp'[c] = "active" => comp[c] = "active"
        BY <1>1, <1>5, <4>2
      <4>4. Monitored(req[q].c)' = Monitored(c)' /\ Monitored(req[q].c) = Monitored(c)
        BY <4>1 DEF Monitored, SourcesOf
      <4> QED BY <3>1, <4>1, <4>3, <4>4 DEF Stands
    <3> QED BY <2>2, <3>2, <3>3
  <2>4. CASE CommitReject(r)
    <3>1. /\ req[r].kind = "reject" /\ req[r].step = "locked" /\ req[r].write \in {"discovering", "none"}
          /\ approval' = [s \in Sources |-> IF s \in req[r].picked THEN "rejected" ELSE approval[s]]
      BY <1>1, <2>4 DEF CommitReject, At, Shape
    <3>2. Stands(req[r])
      BY <1>1, <1>5, <2>1
    <3>3. comp'[c] = "active" => Monitored(c) \ req[r].picked # {}
      BY <1>1, <1>5, <3>1, <3>2 DEF Stands
    <3>4. Monitored(c) \ req[r].picked \subseteq Monitored(c)'
      BY <3>1 DEF Monitored, SourcesOf
    <3>5. ASSUME NEW q \in Requests, InFlight(q)', req'[q].c = c PROVE Stands(req[q])'
      <4>1. InFlight(q) /\ q # r /\ req'[q] = req[q] /\ req[q].c = c
        BY <1>2, <3>5
      <4>2. req[q].kind # "reject" /\ req[q].write # "active"
        BY <1>1, <1>5, <2>1, <3>1, <4>1 DEF Apart
      <4> QED BY <4>1, <4>2 DEF Stands
    <3> QED BY <2>2, <3>3, <3>4, <3>5
  <2> QED BY <2>3, <2>4 DEF Commit
<1> QED BY <1>4, <1>5

LEMMA AllSoundStep ==
  ASSUME AllSound, [DiscoveryNext]_allVars
  PROVE  AllSound'
<1>0. Typed /\ Shaped'
  BY ShapedStep DEF AllSound, Shaped
<1>1. ASSUME NEW r \in Requests, BeginRequest(r) PROVE \A d \in Competitors : Sound(d)'
  <2>1. ASSUME NEW c \in Competitors, BeginCreate(r, c) PROVE \A d \in Competitors : Sound(d)'
    BY <2>1, SoundLoad DEF BeginCreate
  <2>2. ASSUME NEW c \in Competitors, NEW status \in {"active", "paused"},
               BeginUpdate(r, c, status)
        PROVE \A d \in Competitors : Sound(d)'
    BY <2>2, SoundLoad DEF BeginUpdate
  <2>3. ASSUME NEW c \in Competitors, NEW picked \in SUBSET Sources, BeginStart(r, c, picked)
        PROVE \A d \in Competitors : Sound(d)'
    BY <2>3, SoundLoad DEF BeginStart
  <2>4. ASSUME NEW s \in Sources, BeginReject(r, s) PROVE \A d \in Competitors : Sound(d)'
    <3>1. Owner[s] \in Competitors
      BY LifecycleAssumption
    <3> QED BY <2>4, <3>1, SoundLoad DEF BeginReject
  <2> QED BY <1>1, <2>1, <2>2, <2>3, <2>4 DEF BeginRequest
<1>2. ASSUME \A r \in Requests : InFlight(r)' => InFlight(r) /\ req'[r] = req[r],
             \A c \in Competitors : comp'[c] = comp[c] \/ comp'[c] # "active",
             \A s \in Sources : approval[s] = "approved" => approval'[s] = "approved",
             UNCHANGED crossed
      PROVE  \A d \in Competitors : Sound(d)'
  <2>1. ASSUME NEW d \in Competitors PROVE Monitored(d) \subseteq Monitored(d)'
    BY <1>2 DEF Monitored, SourcesOf
  <2> QED BY <1>2, <2>1, SoundFrame DEF AllSound
<1>3. ASSUME NEW r \in Requests, Rollback(r) PROVE \A d \in Competitors : Sound(d)'
  BY <1>0, <1>2, <1>3 DEF Rollback, Done, InFlight, history, Typed, DiscoveryTypeOK, LifecycleTypeOK
<1>4. ASSUME NEW c \in Competitors, DeleteCompetitor(c) PROVE \A d \in Competitors : Sound(d)'
  BY <1>0, <1>2, <1>4 DEF DeleteCompetitor, SetComp, InFlight, history, Typed, DiscoveryTypeOK, LifecycleTypeOK
<1>5. ASSUME NEW s \in Sources, AddSource(s) \/ ApproveSource(s) PROVE \A d \in Competitors : Sound(d)'
  BY <1>0, <1>2, <1>5 DEF AddSource, ApproveSource, InFlight, history, Typed, DiscoveryTypeOK, LifecycleTypeOK
<1>6. CASE LifecycleNext
  BY <1>0, <1>1, <1>3, <1>4, <1>5, <1>6, SoundLock, SoundCommit DEF LifecycleNext, AllSound
<1>7. CASE ~LifecycleNext
  <2>1. /\ UNCHANGED <<comp, req, crossed>>
        /\ \A s \in Sources :
              approval'[s] = approval[s] \/ (approval[s] = "absent" /\ approval'[s] = "suggested")
    BY <1>0, <1>7, DiscoveryLeavesRequests DEF allVars, lifecycle, history
  <2> QED BY <1>0, <1>2, <2>1 DEF InFlight, AllSound
<1> QED BY <1>6, <1>7

\* Whatever overlaps, a competitor whose rejections came one after the other
\* and beside no activation is never monitored without an approved source.
THEOREM MonitoredKeepSource == DiscoverySpec => []MonitoredUnlessCrossed
<1>1. AllSound => MonitoredUnlessCrossed
  BY DEF AllSound, Sound, MonitoredUnlessCrossed
<1> QED BY <1>1, AllSoundInit, AllSoundStep, PTL DEF DiscoverySpec

\* Once the requests that had read a competitor before its deletion have ended,
\* no request ever brings it back.
THEOREM DeletionsSettle == DiscoverySpec => DeletionSettles
<1>1. ASSUME Typed, [DiscoveryNext]_allVars, NEW c \in Competitors, comp[c] = "deleted", Quiet(c)
      PROVE  comp'[c] = "deleted" /\ Quiet(c)'
  <2> USE DEF Typed, DiscoveryTypeOK, LifecycleTypeOK
  <2>1. ASSUME NEW r \in Requests, \A q \in Requests : q # r => req'[q] = req[q],
               InFlight(r)' => req'[r].c # c
        PROVE  Quiet(c)'
    BY <1>1, <2>1 DEF Quiet, InFlight
  <2>2. ASSUME NEW r \in Requests, Commit(r) \/ Rollback(r) PROVE comp'[c] = "deleted" /\ Quiet(c)'
    <3>1. ~InFlight(r)' /\ InFlight(r) /\ \A q \in Requests : q # r => req'[q] = req[q]
      BY <1>1, <2>2, CommitShape DEF Rollback, Done, InFlight
    <3>2. req[r].c # c
      BY <1>1, <3>1 DEF Quiet
    <3>3. comp'[c] = comp[c]
      BY <1>1, <2>2, <3>2, CommitShape, Written DEF Rollback
    <3> QED BY <1>1, <2>1, <3>1, <3>3
  <2>3. ASSUME NEW r \in Requests, FlushReject(r) \/ LockCompetitor(r)
        PROVE  comp'[c] = "deleted" /\ Quiet(c)'
    <3>1. /\ InFlight(r) /\ UNCHANGED comp /\ req'[r].c = req[r].c
          /\ \A q \in Requests : q # r => req'[q] = req[q]
      BY <1>1, <2>3, LockShape
    <3>2. req[r].c # c
      BY <1>1, <3>1 DEF Quiet
    <3> QED BY <1>1, <2>1, <3>1, <3>2
  <2>4. ASSUME NEW r \in Requests, NEW d, d # c, NEW kind, NEW write, NEW picked,
               Load(r, kind, d, write, picked), UNCHANGED comp
        PROVE  comp'[c] = "deleted" /\ Quiet(c)'
    BY <1>1, <2>1, <2>4, LoadShape
  <2>5. ASSUME NEW r \in Requests, BeginRequest(r) PROVE comp'[c] = "deleted" /\ Quiet(c)'
    BY <1>1, <2>4, <2>5 DEF BeginRequest, BeginCreate, BeginUpdate, BeginStart, BeginReject, Serves, Live
  <2>6. ASSUME NEW d \in Competitors, DeleteCompetitor(d) PROVE comp'[c] = "deleted" /\ Quiet(c)'
    BY <1>1, <2>6 DEF DeleteCompetitor, SetComp, Quiet, InFlight
  <2>7. CASE UNCHANGED <<comp, req>>
    BY <1>1, <2>7 DEF Quiet, InFlight
  <2> QED BY <1>1, <2>2, <2>3, <2>5, <2>6, <2>7, DiscoveryLeavesRequests
          DEF LifecycleNext, AddSource, ApproveSource, allVars, lifecycle
<1>2. Typed /\ [DiscoveryNext]_allVars
         => [\A c \in Competitors :
                comp[c] = "deleted" /\ Quiet(c) => comp'[c] = "deleted" /\ Quiet(c)']_lifecycle
  BY <1>1
<1> QED BY <1>2, TypedInit, TypedStep, PTL DEF DiscoverySpec, DeletionSettles

\* Neither a request nor a discovery turns a known URL into a new suggestion,
\* also when they overlap.
THEOREM SourceDecisionsKept == DiscoverySpec => DecisionsKept
<1>1. ASSUME Typed, [DiscoveryNext]_allVars, NEW s \in Sources, approval[s] # "absent"
      PROVE  approval'[s] # "suggested" \/ approval[s] = "suggested"
  <2>1. ASSUME NEW r \in Requests, Commit(r)
        PROVE  approval'[s] # "suggested" \/ approval[s] = "suggested"
    BY <1>1, <2>1 DEF Commit, CommitCreate, CommitUpdate, CommitReject, CommitStart
  <2>2. CASE LifecycleNext
    BY <1>1, <2>1, <2>2
       DEF LifecycleNext, BeginRequest, BeginCreate, BeginUpdate, BeginStart, BeginReject, FlushReject,
           LockCompetitor, Rollback, DeleteCompetitor, AddSource, ApproveSource,
           Typed, DiscoveryTypeOK, LifecycleTypeOK
  <2>3. CASE ~LifecycleNext
    BY <1>1, <2>3, DiscoveryLeavesRequests DEF allVars, lifecycle
  <2> QED BY <2>2, <2>3
<1>2. Typed /\ [DiscoveryNext]_allVars
         => [\A s \in Sources : approval[s] # "absent" =>
                approval'[s] # "suggested" \/ approval[s] = "suggested"]_lifecycle
  BY <1>1
<1> QED BY <1>2, TypedInit, TypedStep, PTL DEF DiscoverySpec, DecisionsKept

-----------------------------------------------------------------------------
(* The competitor limit *)

\* The competitors the limit counts, but for those a late write brought back.
Counting == {c \in Competitors : Live(c)} \ revived

\* A creation holds the advisory lock from its count to its insert, and the
\* competitors it has counted only become fewer.
Counted ==
    /\ Shaped
    /\ LimitHolds
    /\ \A r, q \in Requests :
          InFlight(r) /\ InFlight(q) /\ req[r].kind = "create" /\ req[q].kind = "create" => r = q
    /\ \A r \in Requests :
          InFlight(r) /\ req[r].kind = "create" => Cardinality(Counting) < MaxCompetitors

LEMMA LiveFinite == IsFiniteSet(Counting) /\ Cardinality(Counting) \in Nat
BY LifecycleAssumption, FS_Subset, FS_CardinalityType DEF Counting

LEMMA CountedInit == DiscoveryInit => Counted
<1> SUFFICES ASSUME DiscoveryInit PROVE Counted
  OBVIOUS
<1>1. Counting = {}
  BY DEF DiscoveryInit, LifecycleInit, Counting, Live
<1>2. LimitHolds
  BY <1>1, FS_EmptySet, LifecycleAssumption DEF LimitHolds, Counting
<1> QED BY <1>2, ShapedInit DEF Counted, DiscoveryInit, LifecycleInit, InFlight

\* No more competitors count, and no new creation.
LEMMA CountedFrame ==
  ASSUME Counted, Shaped', Counting' \subseteq Counting,
         \A r \in Requests : InFlight(r)' /\ req'[r].kind = "create" =>
                                InFlight(r) /\ req[r].kind = "create"
  PROVE  Counted'
<1>1. Cardinality(Counting') <= Cardinality(Counting) /\ Cardinality(Counting') \in Nat
  BY LiveFinite, FS_Subset, FS_CardinalityType
<1>2. LimitHolds'
  BY <1>1, LiveFinite, LifecycleAssumption DEF Counted, LimitHolds, Counting
<1> QED BY <1>1, <1>2, LiveFinite, LifecycleAssumption DEF Counted

\* A commit makes its competitor count if the row did not exist or counted
\* before; a row that was deleted comes back as a revived one.
LEMMA CommitCounts ==
  ASSUME Shaped, NEW r \in Requests, Commit(r)
  PROVE  Counting' \subseteq Counting \cup (IF req[r].kind = "create" THEN {req[r].c} ELSE {})
<1>1. /\ InFlight(r) /\ WriteStatus(r) /\ req[r].c \in Competitors /\ Shape(req[r])
      /\ \A d \in Competitors \ {req[r].c} : comp'[d] = comp[d]
      /\ comp'[req[r].c] = (IF req[r].write = "none" THEN comp[req[r].c] ELSE req[r].write)
  BY CommitShape, Written DEF Shaped
<1>2. /\ revived \subseteq revived'
      /\ comp[req[r].c] = "deleted" /\ req[r].write # "none" => req[r].c \in revived'
  <2>1. CASE req[r].write = "none"
    BY <1>1, <2>1 DEF WriteStatus, history
  <2>2. CASE req[r].write # "none"
    BY <1>1, <2>2 DEF WriteStatus
  <2> QED BY <2>1, <2>2
<1>3. ASSUME NEW d \in Counting', d \notin Counting PROVE req[r].kind = "create" /\ d = req[r].c
  <2>1. d \in Competitors /\ ~Live(d) /\ Live(d)' /\ d \notin revived'
    BY <1>2, <1>3 DEF Counting
  <2>2. d = req[r].c /\ req[r].write # "none"
    BY <1>1, <2>1 DEF Live
  <2>3. comp[d] = "absent"
    BY <1>2, <2>1, <2>2 DEF Live
  <2> QED BY <1>1, <2>2, <2>3 DEF Shape
<1> QED BY <1>3

LEMMA CountedStep ==
  ASSUME Counted, [DiscoveryNext]_allVars
  PROVE  Counted'
<1>0. Shaped /\ Shaped' /\ Typed
  BY ShapedStep DEF Counted, Shaped
<1> USE DEF Typed, DiscoveryTypeOK, LifecycleTypeOK
<1>1. ASSUME NEW r \in Requests, Commit(r) PROVE Counted'
  <2>1. \A q \in Requests : InFlight(q)' => q # r /\ InFlight(q) /\ req'[q] = req[q]
    BY <1>0, <1>1, CommitShape DEF InFlight
  <2>2. CASE req[r].kind = "create"
    <3>1. Cardinality(Counting) < MaxCompetitors
      BY <1>0, <1>1, <2>2, CommitShape DEF Counted
    <3>2. Counting' \subseteq Counting \cup {req[r].c}
      BY <1>0, <1>1, <2>2, CommitCounts
    <3>3. /\ Cardinality(Counting') <= Cardinality(Counting \cup {req[r].c})
          /\ Cardinality(Counting') \in Nat
          /\ Cardinality(Counting \cup {req[r].c}) <= Cardinality(Counting) + 1
          /\ Cardinality(Counting \cup {req[r].c}) \in Nat
      BY <3>2, LiveFinite, FS_AddElement, FS_Subset, FS_CardinalityType
    <3>4. LimitHolds'
      BY <3>1, <3>3, LiveFinite, LifecycleAssumption DEF LimitHolds, Counting
    <3>5. \A q \in Requests : InFlight(q)' => req'[q].kind # "create"
      BY <1>0, <1>1, <2>1, <2>2, CommitShape DEF Counted
    <3> QED BY <1>0, <3>4, <3>5 DEF Counted
  <2>3. CASE req[r].kind # "create"
    <3>1. Counting' \subseteq Counting
      BY <1>0, <1>1, <2>3, CommitCounts
    <3> QED BY <1>0, <2>1, <3>1, CountedFrame
  <2> QED BY <2>2, <2>3
<1>2. ASSUME NEW r \in Requests, NEW c \in Competitors, BeginCreate(r, c) PROVE Counted'
  <2>1. /\ \A q \in Requests : InFlight(q) => req[q].kind # "create"
        /\ \A q \in Requests : q # r => req'[q] = req[q]
        /\ UNCHANGED <<comp, revived>>
        /\ Cardinality({d \in Competitors : Live(d)}) < MaxCompetitors
    BY <1>0, <1>2, LoadShape DEF BeginCreate
  <2>2. \A q \in Requests : InFlight(q)' /\ req'[q].kind = "create" => q = r
    BY <2>1 DEF InFlight
  <2>3. Counting' = Counting
    BY <2>1 DEF Counting, Live
  <2>4. Cardinality(Counting) <= Cardinality({d \in Competitors : Live(d)})
    BY LifecycleAssumption, FS_Subset DEF Counting
  <2>5. Cardinality({d \in Competitors : Live(d)}) \in Nat
    BY LifecycleAssumption, FS_Subset, FS_CardinalityType
  <2>6. Cardinality(Counting) < MaxCompetitors
    BY <2>1, <2>4, <2>5, LiveFinite, LifecycleAssumption
  <2>7. LimitHolds'
    BY <2>3, <2>6, LiveFinite, LifecycleAssumption DEF LimitHolds, Counting
  <2> QED BY <1>0, <2>2, <2>3, <2>6, <2>7 DEF Counted
<1>3. ASSUME NEW r \in Requests, NEW c \in Competitors, NEW kind, kind # "create",
             NEW write, NEW picked, Load(r, kind, c, write, picked), UNCHANGED <<comp, revived>>
      PROVE  Counted'
  <2>1. /\ \A q \in Requests : q # r => req'[q] = req[q]
        /\ req'[r].kind = kind /\ Counting' = Counting
    BY <1>0, <1>3, LoadShape DEF Counting, Live
  <2> QED BY <1>0, <1>3, <2>1, CountedFrame DEF InFlight
<1>4. ASSUME NEW r \in Requests, BeginRequest(r) PROVE Counted'
  <2>1. \A s \in Sources : Owner[s] \in Competitors
    BY LifecycleAssumption
  <2> QED BY <1>2, <1>3, <1>4, <2>1 DEF BeginRequest, BeginUpdate, BeginStart, BeginReject
<1>5. ASSUME NEW r \in Requests, FlushReject(r) \/ LockCompetitor(r) PROVE Counted'
  <2>1. /\ InFlight(r) /\ \A q \in Requests : q # r => req'[q] = req[q]
        /\ req'[r].kind = req[r].kind /\ UNCHANGED <<comp, revived>>
    BY <1>0, <1>5, LockShape DEF history
  <2>2. Counting' = Counting
    BY <2>1 DEF Counting, Live
  <2> QED BY <1>0, <2>1, <2>2, CountedFrame DEF InFlight
<1>6. ASSUME NEW r \in Requests, Rollback(r) PROVE Counted'
  <2>1. Counting' = Counting /\ \A q \in Requests : InFlight(q)' => InFlight(q) /\ req'[q] = req[q]
    BY <1>0, <1>6 DEF Rollback, Done, Counting, Live, InFlight, history
  <2> QED BY <1>0, <2>1, CountedFrame
<1>7. ASSUME NEW c \in Competitors, DeleteCompetitor(c) PROVE Counted'
  <2>1. Counting' \subseteq Counting /\ UNCHANGED req
    BY <1>0, <1>7 DEF DeleteCompetitor, SetComp, Counting, Live, history
  <2> QED BY <1>0, <2>1, CountedFrame DEF InFlight
<1>8. CASE UNCHANGED <<comp, req, revived>>
  <2>1. Counting' = Counting
    BY <1>8 DEF Counting, Live
  <2> QED BY <1>0, <1>8, <2>1, CountedFrame DEF InFlight
<1>9. CASE LifecycleNext
  BY <1>1, <1>4, <1>5, <1>6, <1>7, <1>8, <1>9 DEF LifecycleNext, AddSource, ApproveSource, history
<1>10. CASE ~LifecycleNext
  BY <1>0, <1>8, <1>10, DiscoveryLeavesRequests DEF allVars, lifecycle, history
<1> QED BY <1>9, <1>10

\* Whatever overlaps, concurrent creations never exceed the competitor limit
\* together; only what a late write brings back comes on top of it.
THEOREM LimitNeverExceeded == DiscoverySpec => []LimitHolds
<1>1. Counted => LimitHolds
  BY DEF Counted
<1> QED BY <1>1, CountedInit, CountedStep, PTL DEF DiscoverySpec

-----------------------------------------------------------------------------
(* The queue below the runs *)

\* Every step of the discovery and of the requests beside it enqueues a new
\* job, takes or settles one, or leaves the job table alone: it relies on no
\* more of the table than JobQueue promises, which LeasesImplementQueue shows
\* the leased rows to keep.
THEOREM DiscoveryUsesQueue == DiscoverySpec => Spec
<1>1. DiscoveryInit => Init
  BY DEF DiscoveryInit
<1>2. Employed /\ [DiscoveryNext]_allVars => [Next]_vars
  <2> SUFFICES ASSUME Employed, [DiscoveryNext]_allVars PROVE [Next]_vars
    OBVIOUS
  <2>1. ASSUME NEW j \in Jobs, RequestDiscovery(j) PROVE [Next]_vars
    BY <2>1 DEF RequestDiscovery, Next
  <2>2. ASSUME NEW e \in Executors, NEW j \in Jobs, StartHandler(e, j) PROVE [Next]_vars
    BY <2>2 DEF StartHandler, Next
  <2>3. ASSUME NEW e \in Executors, EndHandler(e) PROVE [Next]_vars
    <3>1. held[e] \in Jobs
      BY <2>3 DEF Employed, EndHandler
    <3>2. \/ UNCHANGED vars
          \/ \E outcome \in Settled : Settle(e, held[e], outcome)
      BY <2>3 DEF EndHandler, Settled
    <3> QED BY <3>1, <3>2 DEF Next
  <2>4. ASSUME NEW e \in Executors, ClaimRun(e) \/ AskProvider(e) \/ EndFailed(e) PROVE UNCHANGED vars
    BY <2>4 DEF ClaimRun, AskProvider, EndFailed
  <2>5. ASSUME NEW e \in Executors, BeginStore(e) \/ SkipStore(e) \/ CommitStore(e)
        PROVE  UNCHANGED vars
    BY <2>5 DEF BeginStore, SkipStore, CommitStore
  <2>6. ASSUME NEW e \in Executors, HandlerError(e) \/ HandlerDies(e) PROVE UNCHANGED vars
    BY <2>6 DEF HandlerError, HandlerDies
  <2>7. ASSUME NEW j \in Jobs, DeadlinePasses(j) PROVE UNCHANGED vars
    BY <2>7 DEF DeadlinePasses
  <2>8. UNCHANGED allVars => UNCHANGED vars
    BY DEF allVars
  <2> QED BY <2>1, <2>2, <2>3, <2>4, <2>5, <2>6, <2>7, <2>8 DEF DiscoveryNext, HandlerStep
<1>3. DiscoverySpec => []Typed
  BY TypedInit, TypedStep, PTL DEF DiscoverySpec
<1>4. Typed => Employed
  BY DEF Typed
<1> QED BY <1>1, <1>2, <1>3, <1>4, PTL DEF DiscoverySpec, Spec

=============================================================================
