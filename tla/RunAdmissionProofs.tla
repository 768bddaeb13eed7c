------------------------- MODULE RunAdmissionProofs -------------------------
(***************************************************************************)
(* Theorems about RunAdmission, for any number of requests, passes,        *)
(* workers, runs and faults: which runs may exist beside each other, which *)
(* a day or a request leads to, and what is asked of the job table.        *)
(***************************************************************************)
EXTENDS RunAdmission, SequenceTheorems, TLAPS

-----------------------------------------------------------------------------
(* Time *)

\* The days of the clock, and the daily time of each as a time of the clock.
LEMMA DaysFacts ==
  /\ (CHOOSE z \in Zones : TRUE) \in Zones
  /\ (CHOOSE d \in Days : TRUE) \in Days
  /\ 0 \in 0 .. MaxTime
<1>1. 0 \in 0 .. MaxTime
  BY AdmissionAssumption
<1>2. PICK z \in Zones : TRUE
  BY AdmissionAssumption
<1>3. (0 + z) \div DayLength \in Days
  BY <1>1 DEF Days
<1> QED BY <1>1, <1>2, <1>3

LEMMA DayTypes ==
  ASSUME now \in MinTime .. MaxTime, dailyTime \in Times, zone \in Zones
  PROVE  /\ now \in 0 .. MaxTime
         /\ LocalDay(now) \in Days
         /\ \A d \in Days : Slot(d) \in Int
<1>1. now \in 0 .. MaxTime
  BY AdmissionAssumption
<1>2. LocalDay(now) \in Days
  BY <1>1 DEF LocalDay, Days
<1>3. DayLength \in Nat \ {0} /\ dailyTime \in Int /\ zone \in Int
  BY AdmissionAssumption
<1>4. ASSUME NEW d \in Days PROVE Slot(d) \in Int
  <2>1. PICK t \in 0 .. MaxTime, z \in Zones : d = (t + z) \div DayLength
    BY DEF Days
  <2>2. t + z \in Int
    BY AdmissionAssumption
  <2>3. d \in Int
    BY <2>1, <2>2, <1>3
  <2> QED BY <2>3, <1>3 DEF Slot
<1> QED BY <1>1, <1>2, <1>4

-----------------------------------------------------------------------------
(* Rows *)

\* What may happen to the rows in one step: they keep their type and time, a
\* row is only queued when it is new.
RowsEvolve ==
    /\ runs' \in Seq(RunRows) /\ Len(runs) <= Len(runs')
    /\ \A i \in DOMAIN runs : /\ runs'[i].type = runs[i].type
                              /\ runs'[i].due = runs[i].due
                              /\ runs'[i].status = "queued" => runs[i].status = "queued"

\* A new row is appended and the others stay as they are.
LEMMA InsertRunRows ==
  ASSUME AdmissionTypeOK, NEW type \in {"daily", "manual"}, NEW due \in Int,
         InsertRun(type, due)
  PROVE  /\ RowsEvolve
         /\ Len(runs') = Len(runs) + 1 /\ Len(runs') <= MaxRuns
         /\ runs'[Len(runs')] = [type |-> type, due |-> due, status |-> "queued"]
         /\ \A i \in DOMAIN runs : runs'[i] = runs[i]
<1> DEFINE row == [type |-> type, due |-> due, status |-> "queued"]
<1>1. row \in RunRows
  BY DEF RunRows, ActiveRun
<1>2. runs \in Seq(RunRows) /\ runs' = Append(runs, row) /\ Len(runs) < MaxRuns
  BY DEF AdmissionTypeOK, InsertRun
<1>3. Len(runs) \in Nat /\ DOMAIN runs = 1 .. Len(runs) /\ MaxRuns \in Nat
  BY <1>2, LenProperties, AdmissionAssumption
<1>4. /\ runs' \in Seq(RunRows) /\ Len(runs') = Len(runs) + 1
      /\ \A i \in 1 .. Len(runs) : runs'[i] = runs[i]
      /\ runs'[Len(runs) + 1] = row
  BY <1>1, <1>2, AppendProperties
<1> QED BY <1>2, <1>3, <1>4 DEF RowsEvolve

\* One row changes its status, and not to QUEUED.
LEMMA SetStatusRows ==
  ASSUME AdmissionTypeOK, NEW i \in DOMAIN runs, NEW s \in TerminalRun \cup {"working"},
         SetStatus(i, s)
  PROVE  /\ RowsEvolve
         /\ Len(runs') = Len(runs)
         /\ runs'[i].status = s
         /\ \A k \in DOMAIN runs \ {i} : runs'[k] = runs[k]
<1>1. runs \in Seq(RunRows) /\ DOMAIN runs = 1 .. Len(runs) /\ Len(runs) \in Nat
  BY LenProperties DEF AdmissionTypeOK
<1>2. runs[i] \in RunRows
  BY <1>1, ElementOfSeq
<1>3. [runs[i] EXCEPT !.status = s] \in RunRows
  BY <1>2 DEF RunRows, ActiveRun, TerminalRun
<1>4. runs' = [runs EXCEPT ![i] = [runs[i] EXCEPT !.status = s]]
  BY DEF SetStatus
<1>5. runs' \in Seq(RunRows) /\ Len(runs') = Len(runs)
  BY <1>1, <1>3, <1>4, ExceptSeq
<1>6. runs'[i] = [runs[i] EXCEPT !.status = s] /\ \A k \in DOMAIN runs \ {i} : runs'[k] = runs[k]
  BY <1>1, <1>4
<1>7. /\ runs'[i].type = runs[i].type /\ runs'[i].due = runs[i].due
      /\ runs'[i].status = s
  BY <1>2, <1>6 DEF RunRows
<1>8. s # "queued"
  BY DEF TerminalRun
<1>9. ASSUME NEW k \in DOMAIN runs
      PROVE  /\ runs'[k].type = runs[k].type /\ runs'[k].due = runs[k].due
             /\ runs'[k].status = "queued" => runs[k].status = "queued"
  <2>1. CASE k = i
    BY <2>1, <1>7, <1>8
  <2>2. CASE k # i
    BY <2>2, <1>6
  <2> QED BY <2>1, <2>2
<1>10. RowsEvolve
  BY <1>1, <1>5, <1>9 DEF RowsEvolve
<1> QED BY <1>5, <1>6, <1>7, <1>10

-----------------------------------------------------------------------------
(* Types, jobs and their workers *)

\* A job that exists has a run; a worker that has work holds its job.
Assigned ==
    /\ \A k \in Keys : stage[k] # "absent" => payload[k] # 0
    /\ \A w \in Workers :
          /\ claimed[w] = None <=> handler[w] = "none"
          /\ claimed[w] # None => stage[claimed[w]] = "held" /\ holder[claimed[w]] = w

Base == AdmissionTypeOK /\ Assigned

LEMMA BaseInit == Init => Base
<1> SUFFICES ASSUME Init PROVE Base
  OBVIOUS
<1>1. now \in MinTime .. MaxTime /\ dailyTime \in Times /\ zone \in Zones /\ faults \in 0 .. MaxFaults
  BY AdmissionAssumption DEF Init
<1>2. runs \in Seq(RunRows) /\ Len(runs) = 0
  BY EmptySeq DEF Init
<1>3. Queue!TypeOK /\ payload \in [Keys -> 0 .. Len(runs)]
  BY <1>2 DEF Init, Queue!Init, Queue!TypeOK, Queue!Stages, Queue!Settled
<1>4. IdlePass \in [at : {"idle", "check", "insert", "find"}, now : 0 .. MaxTime,
                    zone : Zones, day : Days, due : Int, satisfied : BOOLEAN]
  BY DaysFacts DEF IdlePass
<1>5. request \in [Requests -> [at : {"idle", "lock", "insert", "resolve"}, now : 0 .. MaxTime]]
  BY AdmissionAssumption DEF Init, IdleRequest
<1>6. /\ handler \in [Workers -> {"none", "start", "work", "done"}]
      /\ claimed \in [Workers -> Keys \cup {None}]
      /\ Assigned
  BY DEF Init, Queue!Init, Assigned
<1> QED BY <1>1, <1>2, <1>3, <1>4, <1>5, <1>6, AdmissionAssumption DEF Init, Base, AdmissionTypeOK

\* enqueue_in_session creates the job under a free key and changes no other.
LEMMA EnqueueFacts ==
  ASSUME AdmissionTypeOK, NEW k \in Keys, NEW i \in Nat, EnqueueJob(k, i)
  PROVE  /\ Queue!TypeOK'
         /\ stage'[k] # "absent"
         /\ payload' \in [Keys -> 0 .. Len(runs) \cup {i}]
         /\ stage[k] = "absent" => stage'[k] = "queued" /\ payload'[k] = i
         /\ \A l \in Keys : l # k \/ stage[l] # "absent" =>
               stage'[l] = stage[l] /\ holder'[l] = holder[l] /\ payload'[l] = payload[l]
BY DEF AdmissionTypeOK, EnqueueJob, table, Queue!TypeOK, Queue!Enqueue, Queue!Stages, Queue!Settled

\* Enqueueing a job leaves the workers with the jobs they hold.
LEMMA EnqueueAssigned ==
  ASSUME Base, NEW k \in Keys, NEW i \in Nat \ {0}, EnqueueJob(k, i), UNCHANGED workers
  PROVE  Assigned'
<1>1. /\ stage[k] = "absent" => stage'[k] = "queued" /\ payload'[k] = i
      /\ \A l \in Keys : l # k \/ stage[l] # "absent" =>
            stage'[l] = stage[l] /\ holder'[l] = holder[l] /\ payload'[l] = payload[l]
  BY EnqueueFacts DEF Base
<1>2. claimed' = claimed /\ handler' = handler
  BY DEF workers
<1>3. ASSUME NEW l \in Keys, stage'[l] # "absent" PROVE payload'[l] # 0
  BY <1>1, <1>3 DEF Base, Assigned
<1>4. ASSUME NEW w \in Workers, claimed[w] # None
      PROVE  stage'[claimed[w]] = "held" /\ holder'[claimed[w]] = w
  <2>1. claimed[w] \in Keys /\ stage[claimed[w]] = "held" /\ holder[claimed[w]] = w
    BY <1>4 DEF Base, Assigned, AdmissionTypeOK
  <2>2. stage[claimed[w]] # "absent"
    BY <2>1
  <2> QED BY <2>1, <2>2, <1>1
<1> QED BY <1>2, <1>3, <1>4 DEF Base, Assigned

\* A pass or a request inserts a row together with its job.
LEMMA InsertBase ==
  ASSUME Base, NEW type \in {"daily", "manual"}, NEW due \in Int, NEW k \in Keys,
         InsertRun(type, due), EnqueueJob(k, Len(runs) + 1), UNCHANGED workers
  PROVE  /\ runs' \in Seq(RunRows) /\ Len(runs') <= MaxRuns
         /\ Queue!TypeOK' /\ payload' \in [Keys -> 0 .. Len(runs')]
         /\ Assigned'
<1>1. runs' \in Seq(RunRows) /\ Len(runs') = Len(runs) + 1 /\ Len(runs') <= MaxRuns
  BY InsertRunRows DEF Base, RowsEvolve
<1>2. Len(runs) \in Nat
  BY LenProperties DEF Base, AdmissionTypeOK
<1>3. /\ Queue!TypeOK'
      /\ payload' \in [Keys -> 0 .. Len(runs) \cup {Len(runs) + 1}]
      /\ stage[k] = "absent" => stage'[k] = "queued" /\ payload'[k] = Len(runs) + 1
      /\ \A l \in Keys : l # k \/ stage[l] # "absent" =>
            stage'[l] = stage[l] /\ holder'[l] = holder[l] /\ payload'[l] = payload[l]
  BY <1>2, EnqueueFacts DEF Base
<1>4. payload' \in [Keys -> 0 .. Len(runs')]
  BY <1>1, <1>2, <1>3
<1>5. Assigned'
  BY <1>2, EnqueueAssigned
<1> QED BY <1>1, <1>3, <1>4, <1>5

\* A job is enqueued for a row that is there already, or nothing happens.
LEMMA EnqueueBase ==
  ASSUME Base, NEW k \in Keys, NEW i \in DOMAIN runs, EnqueueJob(k, i),
         UNCHANGED <<runs, workers>>
  PROVE  /\ Queue!TypeOK' /\ payload' \in [Keys -> 0 .. Len(runs')]
         /\ Assigned'
<1>1. DOMAIN runs = 1 .. Len(runs) /\ Len(runs) \in Nat
  BY LenProperties DEF Base, AdmissionTypeOK
<1>2. i \in Nat /\ i # 0 /\ i \in 0 .. Len(runs)
  BY <1>1
<1>3. /\ Queue!TypeOK'
      /\ payload' \in [Keys -> 0 .. Len(runs) \cup {i}]
      /\ stage[k] = "absent" => stage'[k] = "queued" /\ payload'[k] = i
      /\ \A l \in Keys : l # k \/ stage[l] # "absent" =>
            stage'[l] = stage[l] /\ holder'[l] = holder[l] /\ payload'[l] = payload[l]
  BY <1>2, EnqueueFacts DEF Base
<1>4. payload' \in [Keys -> 0 .. Len(runs')]
  BY <1>2, <1>3
<1>5. Assigned'
  BY <1>2, EnqueueAssigned
<1> QED BY <1>3, <1>4, <1>5

LEMMA KeysOf ==
  /\ \A d \in Days : DayKey(d) \in Keys
  /\ \A i \in Nat \ {0} : i <= MaxRuns => RunKey(i) \in Keys
BY AdmissionAssumption DEF Keys, RunIds

\* What a pass in progress remembers.
PassRows == [at : {"idle", "check", "insert", "find"}, now : 0 .. MaxTime,
             zone : Zones, day : Days, due : Int, satisfied : BOOLEAN]

\* A pass keeps the types and the jobs of the workers.
LEMMA PassBase ==
  ASSUME Base, NEW s \in Passes, PassStep(s) \/ PassFails(s)
  PROVE  Base'
<1> USE DEF Base
<1>1. pass \in [Passes -> PassRows] /\ pass[s] \in PassRows
  BY DEF AdmissionTypeOK, PassRows
<1>2. \A a \in {"insert", "find"} : [pass[s] EXCEPT !.at = a] \in PassRows
  BY <1>1 DEF PassRows
<1>3. IdlePass \in PassRows
  BY DaysFacts DEF IdlePass, PassRows
<1>4. ASSUME NEW row \in PassRows, pass' = [pass EXCEPT ![s] = row]
      PROVE  pass' \in [Passes -> PassRows]
  BY <1>1, <1>4
<1>5. ASSUME pass' \in [Passes -> PassRows], UNCHANGED <<now, settings, request, handler, claimed>>,
             faults' \in 0 .. MaxFaults,
             runs' \in Seq(RunRows), Len(runs') <= MaxRuns,
             Queue!TypeOK', payload' \in [Keys -> 0 .. Len(runs')], Assigned'
      PROVE  Base'
  BY <1>5 DEF AdmissionTypeOK, PassRows, settings
<1>6. ASSUME UNCHANGED <<runs, table, workers>>
      PROVE  /\ runs' \in Seq(RunRows) /\ Len(runs') <= MaxRuns
             /\ Queue!TypeOK' /\ payload' \in [Keys -> 0 .. Len(runs')]
             /\ Assigned'
  BY <1>6 DEF AdmissionTypeOK, Assigned, table, workers, Queue!TypeOK
<1>7. faults \in 0 .. MaxFaults
  BY DEF AdmissionTypeOK
<1>8. CASE BeginPass(s)
  <2> DEFINE row == [at |-> "check", now |-> now, zone |-> zone, day |-> LocalDay(now),
                     due |-> Slot(LocalDay(now)), satisfied |-> Satisfied(LocalDay(now))]
  <2>1. row \in PassRows
    BY DayTypes DEF AdmissionTypeOK, Satisfied, PassRows
  <2>2. pass' = [pass EXCEPT ![s] = row] /\ UNCHANGED <<now, settings, runs, table, request, workers, faults>>
    BY <1>8 DEF BeginPass
  <2>3. pass' \in [Passes -> PassRows]
    BY <2>1, <2>2, <1>4
  <2> QED BY <1>5, <1>6, <1>7, <2>2, <2>3 DEF workers
<1>9. CASE CheckManual(s)
  <2>1. /\ \/ pass' = [pass EXCEPT ![s] = [pass[s] EXCEPT !.at = "insert"]]
           \/ pass' = [pass EXCEPT ![s] = IdlePass]
        /\ UNCHANGED <<now, settings, runs, table, request, workers, faults>>
    BY <1>9, <1>1 DEF CheckManual
  <2>2. pass' \in [Passes -> PassRows]
    BY <2>1, <1>2, <1>3, <1>4
  <2> QED BY <1>5, <1>6, <1>7, <2>1, <2>2 DEF workers
<1>10. CASE InsertDaily(s)
  <2>1. CASE Conflict("daily", pass[s].due)
    <3>1. /\ pass' = [pass EXCEPT ![s] = [pass[s] EXCEPT !.at = "find"]]
          /\ UNCHANGED <<now, settings, runs, table, request, workers, faults>>
      BY <1>10, <2>1 DEF InsertDaily
    <3>2. pass' \in [Passes -> PassRows]
      BY <3>1, <1>2, <1>4
    <3> QED BY <1>5, <1>6, <1>7, <3>1, <3>2 DEF workers
  <2>2. CASE ~Conflict("daily", pass[s].due)
    <3>1. pass[s].due \in Int /\ DayKey(pass[s].day) \in Keys
      BY <1>1, KeysOf DEF PassRows
    <3>2. /\ InsertRun("daily", pass[s].due)
          /\ EnqueueJob(DayKey(pass[s].day), Len(runs) + 1)
          /\ pass' = [pass EXCEPT ![s] = IdlePass]
          /\ UNCHANGED <<now, settings, request, workers, faults>>
      BY <1>10, <2>2 DEF InsertDaily
    <3>3. /\ runs' \in Seq(RunRows) /\ Len(runs') <= MaxRuns
          /\ Queue!TypeOK' /\ payload' \in [Keys -> 0 .. Len(runs')]
          /\ Assigned'
      BY <3>1, <3>2, InsertBase DEF workers
    <3>4. pass' \in [Passes -> PassRows]
      BY <3>2, <1>3, <1>4
    <3> QED BY <1>5, <1>7, <3>2, <3>3, <3>4 DEF workers
  <2> QED BY <2>1, <2>2
<1>11. CASE FindDaily(s)
  <2>1. DayKey(pass[s].day) \in Keys
    BY <1>1, KeysOf DEF PassRows
  <2>2. /\ UNCHANGED table \/ \E i \in DOMAIN runs : EnqueueJob(DayKey(pass[s].day), i)
        /\ pass' = [pass EXCEPT ![s] = IdlePass]
        /\ UNCHANGED <<now, settings, runs, request, workers, faults>>
    BY <1>11 DEF FindDaily
  <2>3. /\ runs' \in Seq(RunRows) /\ Len(runs') <= MaxRuns
        /\ Queue!TypeOK' /\ payload' \in [Keys -> 0 .. Len(runs')]
        /\ Assigned'
    <3>1. CASE UNCHANGED table
      BY <1>6, <2>2, <3>1
    <3>2. ASSUME NEW i \in DOMAIN runs, EnqueueJob(DayKey(pass[s].day), i)
          PROVE  Queue!TypeOK' /\ payload' \in [Keys -> 0 .. Len(runs')] /\ Assigned'
      BY <2>1, <2>2, <3>2, EnqueueBase
    <3>3. runs' \in Seq(RunRows) /\ Len(runs') <= MaxRuns
      BY <2>2 DEF AdmissionTypeOK
    <3> QED BY <2>2, <3>1, <3>2, <3>3
  <2>4. pass' \in [Passes -> PassRows]
    BY <2>2, <1>3, <1>4
  <2> QED BY <1>5, <1>7, <2>2, <2>3, <2>4 DEF workers
<1>12. CASE PassFails(s)
  <2>1. /\ pass' = [pass EXCEPT ![s] = IdlePass]
        /\ UNCHANGED <<now, settings, runs, table, request, workers>>
        /\ faults < MaxFaults /\ faults' = faults + 1
    BY <1>12 DEF PassFails, Fault
  <2>2. faults' \in 0 .. MaxFaults
    BY <2>1, <1>7, AdmissionAssumption
  <2>3. pass' \in [Passes -> PassRows]
    BY <2>1, <1>3, <1>4
  <2> QED BY <1>5, <1>6, <2>1, <2>2, <2>3 DEF workers
<1> QED BY <1>8, <1>9, <1>10, <1>11, <1>12 DEF PassStep

\* What a request in progress remembers.
RequestRows == [at : {"idle", "lock", "insert", "resolve"}, now : 0 .. MaxTime]

\* A request keeps the types and the jobs of the workers.
LEMMA RequestBase ==
  ASSUME Base, NEW r \in Requests, BeginRequest(r) \/ RequestStep(r)
  PROVE  Base'
<1> USE DEF Base
<1>1. request \in [Requests -> RequestRows] /\ request[r] \in RequestRows
  BY DEF AdmissionTypeOK, RequestRows
<1>2. \A a \in {"insert", "resolve"} : [request[r] EXCEPT !.at = a] \in RequestRows
  BY <1>1 DEF RequestRows
<1>3. IdleRequest \in RequestRows
  BY DaysFacts DEF IdleRequest, RequestRows
<1>4. ASSUME NEW row \in RequestRows, request' = [request EXCEPT ![r] = row]
      PROVE  request' \in [Requests -> RequestRows]
  BY <1>1, <1>4
<1>5. ASSUME request' \in [Requests -> RequestRows], UNCHANGED <<now, settings, pass, workers, faults>>,
             runs' \in Seq(RunRows), Len(runs') <= MaxRuns,
             Queue!TypeOK', payload' \in [Keys -> 0 .. Len(runs')], Assigned'
      PROVE  Base'
  BY <1>5 DEF AdmissionTypeOK, RequestRows, settings, workers
<1>6. ASSUME UNCHANGED <<runs, table, workers>>
      PROVE  /\ runs' \in Seq(RunRows) /\ Len(runs') <= MaxRuns
             /\ Queue!TypeOK' /\ payload' \in [Keys -> 0 .. Len(runs')]
             /\ Assigned'
  BY <1>6 DEF AdmissionTypeOK, Assigned, table, workers, Queue!TypeOK
<1>7. DOMAIN runs = 1 .. Len(runs) /\ Len(runs) \in Nat /\ Len(runs) <= MaxRuns
  BY LenProperties DEF AdmissionTypeOK
<1>8. ASSUME NEW i \in DOMAIN runs PROVE RunKey(i) \in Keys
  <2>1. i \in Nat \ {0} /\ i <= MaxRuns
    BY <1>7, AdmissionAssumption
  <2> QED BY <2>1, KeysOf
<1>9. ASSUME NEW i \in DOMAIN runs, EnqueueJob(RunKey(i), i), UNCHANGED <<runs, workers>>
      PROVE  /\ runs' \in Seq(RunRows) /\ Len(runs') <= MaxRuns
             /\ Queue!TypeOK' /\ payload' \in [Keys -> 0 .. Len(runs')]
             /\ Assigned'
  <2>1. Queue!TypeOK' /\ payload' \in [Keys -> 0 .. Len(runs')] /\ Assigned'
    BY <1>8, <1>9, EnqueueBase
  <2> QED BY <1>9, <2>1 DEF AdmissionTypeOK
<1>10. CASE BeginRequest(r)
  <2>1. /\ request' = [request EXCEPT ![r] = [at |-> "lock", now |-> now]]
        /\ UNCHANGED <<now, settings, runs, table, pass, workers, faults>>
    BY <1>10 DEF BeginRequest
  <2>2. [at |-> "lock", now |-> now] \in RequestRows
    BY DayTypes DEF AdmissionTypeOK, RequestRows
  <2>3. request' \in [Requests -> RequestRows]
    BY <2>1, <2>2, <1>4
  <2> QED BY <1>5, <1>6, <2>1, <2>3
<1>11. CASE LookForRun(r)
  <2>1. /\ \/ request' = [request EXCEPT ![r] = [request[r] EXCEPT !.at = "insert"]]
           \/ request' = [request EXCEPT ![r] = IdleRequest]
        /\ UNCHANGED table \/ \E i \in DOMAIN runs : EnqueueJob(RunKey(i), i)
        /\ UNCHANGED <<now, settings, runs, pass, workers, faults>>
    BY <1>11 DEF LookForRun, Active
  <2>2. request' \in [Requests -> RequestRows]
    BY <2>1, <1>2, <1>3, <1>4
  <2> QED BY <1>5, <1>6, <1>9, <2>1, <2>2
<1>12. CASE InsertManual(r)
  <2>1. CASE Conflict("manual", request[r].now)
    <3>1. /\ request' = [request EXCEPT ![r] = [request[r] EXCEPT !.at = "resolve"]]
          /\ UNCHANGED <<now, settings, runs, table, pass, workers, faults>>
      BY <1>12, <2>1 DEF InsertManual
    <3>2. request' \in [Requests -> RequestRows]
      BY <3>1, <1>2, <1>4
    <3> QED BY <1>5, <1>6, <3>1, <3>2
  <2>2. CASE ~Conflict("manual", request[r].now)
    <3>1. /\ InsertRun("manual", request[r].now)
          /\ EnqueueJob(RunKey(Len(runs) + 1), Len(runs) + 1)
          /\ request' = [request EXCEPT ![r] = IdleRequest]
          /\ UNCHANGED <<now, settings, pass, workers, faults>>
      BY <1>12, <2>2 DEF InsertManual
    <3>2. Len(runs) < MaxRuns /\ Len(runs) + 1 <= MaxRuns
      BY <3>1, <1>7, AdmissionAssumption DEF InsertRun
    <3>3. RunKey(Len(runs) + 1) \in Keys /\ request[r].now \in Int
      BY <1>1, <1>7, <3>2, KeysOf DEF RequestRows
    <3>4. /\ runs' \in Seq(RunRows) /\ Len(runs') <= MaxRuns
          /\ Queue!TypeOK' /\ payload' \in [Keys -> 0 .. Len(runs')]
          /\ Assigned'
      BY <3>1, <3>3, InsertBase
    <3>5. request' \in [Requests -> RequestRows]
      BY <3>1, <1>3, <1>4
    <3> QED BY <1>5, <3>1, <3>4, <3>5
  <2> QED BY <2>1, <2>2
<1>13. CASE ResolveConflict(r)
  <2>1. /\ request' = [request EXCEPT ![r] = IdleRequest]
        /\ UNCHANGED table \/ \E i \in DOMAIN runs : EnqueueJob(RunKey(i), i)
        /\ UNCHANGED <<now, settings, runs, pass, workers, faults>>
    BY <1>13 DEF ResolveConflict, Active
  <2>2. request' \in [Requests -> RequestRows]
    BY <2>1, <1>3, <1>4
  <2> QED BY <1>5, <1>6, <1>9, <2>1, <2>2
<1> QED BY <1>10, <1>11, <1>12, <1>13 DEF RequestStep

\* The job of a busy worker, and its run.
LEMMA BusyWorker ==
  ASSUME Base, NEW w \in Workers, handler[w] # "none"
  PROVE  /\ claimed[w] # None /\ claimed[w] \in Keys
         /\ stage[claimed[w]] = "held" /\ holder[claimed[w]] = w
         /\ payload[claimed[w]] \in DOMAIN runs
<1>1. claimed[w] # None /\ claimed[w] \in Keys
  BY DEF Base, Assigned, AdmissionTypeOK
<1>2. stage[claimed[w]] = "held" /\ holder[claimed[w]] = w /\ payload[claimed[w]] # 0
  BY <1>1 DEF Base, Assigned
<1>3. payload[claimed[w]] \in 0 .. Len(runs) /\ DOMAIN runs = 1 .. Len(runs) /\ Len(runs) \in Nat
  BY <1>1, LenProperties DEF Base, AdmissionTypeOK
<1> QED BY <1>1, <1>2, <1>3

\* A worker keeps the types and the jobs of the workers.
LEMMA WorkerBase ==
  ASSUME Base, NEW w \in Workers, WorkerStep(w) \/ FailJob(w) \/ Vanish(w)
  PROVE  Base'
<1> USE DEF Base
<1>1. ASSUME UNCHANGED <<now, settings, payload, pass, request>>, faults' \in 0 .. MaxFaults,
             runs' \in Seq(RunRows), Len(runs') = Len(runs), Queue!TypeOK',
             handler' \in [Workers -> {"none", "start", "work", "done"}],
             claimed' \in [Workers -> Keys \cup {None}], Assigned'
      PROVE  Base'
  BY <1>1 DEF AdmissionTypeOK, settings
<1>2. faults \in 0 .. MaxFaults /\ runs \in Seq(RunRows) /\ Queue!TypeOK
  BY DEF AdmissionTypeOK
<1>3. ASSUME NEW h \in {"none", "start", "work", "done"}, handler' = [handler EXCEPT ![w] = h]
      PROVE  handler' \in [Workers -> {"none", "start", "work", "done"}]
  BY <1>3 DEF AdmissionTypeOK
<1>4. ASSUME NEW k \in Keys, TakeJob(w, k) PROVE Base'
  <2>1. /\ stage' = [stage EXCEPT ![k] = "held"] /\ holder' = [holder EXCEPT ![k] = w]
        /\ stage[k] # "absent"
        /\ claimed' = [claimed EXCEPT ![w] = k] /\ handler' = [handler EXCEPT ![w] = "start"]
        /\ \A v \in Workers : claimed[v] # k
        /\ UNCHANGED <<now, settings, runs, payload, pass, request, faults>>
    BY <1>4 DEF TakeJob, Queue!Take
  <2>2. Queue!TypeOK'
    BY <1>2, <2>1 DEF Queue!TypeOK, Queue!Stages
  <2>3. claimed' \in [Workers -> Keys \cup {None}]
    BY <2>1 DEF AdmissionTypeOK
  <2>4. ASSUME NEW l \in Keys, stage'[l] # "absent" PROVE payload'[l] # 0
    <3>1. stage[l] # "absent"
      BY <1>2, <2>1, <2>4 DEF Queue!TypeOK
    <3> QED BY <3>1, <2>1 DEF Assigned
  <2>5. ASSUME NEW v \in Workers
        PROVE  /\ claimed'[v] = None <=> handler'[v] = "none"
               /\ claimed'[v] # None => stage'[claimed'[v]] = "held" /\ holder'[claimed'[v]] = v
    <3>1. CASE v = w
      <4>1. claimed'[v] = k /\ handler'[v] = "start" /\ stage'[k] = "held" /\ holder'[k] = w
        BY <1>2, <2>1, <3>1 DEF AdmissionTypeOK, Queue!TypeOK
      <4> QED BY <3>1, <4>1, NoneAssumption
    <3>2. CASE v # w
      <4>1. claimed'[v] = claimed[v] /\ handler'[v] = handler[v] /\ claimed[v] # k
        BY <2>1, <3>2 DEF AdmissionTypeOK
      <4>2. claimed[v] # None => /\ claimed[v] \in Keys
                                 /\ stage[claimed[v]] = "held" /\ holder[claimed[v]] = v
        BY DEF AdmissionTypeOK, Assigned
      <4>3. claimed[v] # None => stage'[claimed[v]] = "held" /\ holder'[claimed[v]] = v
        BY <1>2, <2>1, <4>1, <4>2 DEF Queue!TypeOK
      <4> QED BY <4>1, <4>3 DEF Assigned
    <3> QED BY <3>1, <3>2
  <2>6. Assigned'
    BY <2>4, <2>5 DEF Assigned
  <2>7. handler' \in [Workers -> {"none", "start", "work", "done"}]
    BY <1>3, <2>1
  <2> QED BY <1>1, <1>2, <2>1, <2>2, <2>3, <2>6, <2>7
<1>5. CASE StartRun(w) \/ EndRun(w)
  <2> DEFINE i == payload[claimed[w]]
  <2>1. handler[w] # "none"
    BY <1>5 DEF StartRun, EndRun
  <2>2. i \in DOMAIN runs
    BY <2>1, BusyWorker
  <2>3. /\ UNCHANGED runs \/ \E s \in TerminalRun \cup {"working"} : SetStatus(i, s)
        /\ \E h \in {"work", "done"} : handler' = [handler EXCEPT ![w] = h]
        /\ UNCHANGED <<now, settings, table, pass, request, claimed, faults>>
    BY <1>5 DEF StartRun, EndRun, TerminalRun
  <2>4. runs' \in Seq(RunRows) /\ Len(runs') = Len(runs)
    BY <1>2, <2>2, <2>3, SetStatusRows DEF RowsEvolve
  <2>5. handler' \in [Workers -> {"none", "start", "work", "done"}]
    BY <1>3, <2>3
  <2>6. Assigned'
    BY <2>1, <2>3 DEF Assigned, table, AdmissionTypeOK
  <2>7. Queue!TypeOK' /\ claimed' \in [Workers -> Keys \cup {None}]
    BY <1>2, <2>3 DEF Queue!TypeOK, table, AdmissionTypeOK
  <2>8. payload' = payload
    BY <2>3 DEF table
  <2> QED BY <1>1, <1>2, <2>3, <2>4, <2>5, <2>6, <2>7, <2>8
<1>6. CASE CompleteJob(w) \/ FailJob(w)
  <2> DEFINE k == claimed[w]
  <2>0. handler[w] # "none"
    BY <1>6 DEF CompleteJob, FailJob, Assigned
  <2>1. k # None /\ k \in Keys /\ stage[k] = "held" /\ holder[k] = w
    BY <2>0, BusyWorker
  <2>2. /\ \E s \in Queue!Settled : stage' = [stage EXCEPT ![k] = s]
        /\ holder' = [holder EXCEPT ![k] = None]
        /\ claimed' = [claimed EXCEPT ![w] = None] /\ handler' = [handler EXCEPT ![w] = "none"]
        /\ UNCHANGED <<now, settings, runs, payload, pass, request>>
    BY <1>6 DEF CompleteJob, FailJob, SettleJob, Queue!Settle, Queue!Settled
  <2>8. faults' \in 0 .. MaxFaults
    BY <1>2, <1>6, AdmissionAssumption DEF CompleteJob, FailJob, Fault
  <2>3. Queue!TypeOK' /\ claimed' \in [Workers -> Keys \cup {None}]
    BY <1>2, <2>2 DEF Queue!TypeOK, Queue!Stages, Queue!Settled, AdmissionTypeOK
  <2>4. ASSUME NEW l \in Keys, stage'[l] # "absent" PROVE payload'[l] # 0
    <3>1. stage[l] # "absent"
      BY <1>2, <2>1, <2>2, <2>4 DEF Queue!TypeOK
    <3> QED BY <3>1, <2>2 DEF Assigned
  <2>5. ASSUME NEW v \in Workers
        PROVE  /\ claimed'[v] = None <=> handler'[v] = "none"
               /\ claimed'[v] # None => stage'[claimed'[v]] = "held" /\ holder'[claimed'[v]] = v
    <3>1. CASE v = w
      BY <2>2, <3>1 DEF AdmissionTypeOK
    <3>2. CASE v # w
      <4>1. claimed'[v] = claimed[v] /\ handler'[v] = handler[v]
        BY <2>2, <3>2 DEF AdmissionTypeOK
      <4>2. claimed[v] # None => /\ claimed[v] \in Keys
                                 /\ stage[claimed[v]] = "held" /\ holder[claimed[v]] = v
        BY DEF AdmissionTypeOK, Assigned
      <4>3. claimed[v] # None => claimed[v] # k
        BY <2>1, <3>2, <4>2
      <4>4. claimed[v] # None => stage'[claimed[v]] = "held" /\ holder'[claimed[v]] = v
        BY <1>2, <2>2, <4>2, <4>3 DEF Queue!TypeOK
      <4> QED BY <4>1, <4>4 DEF Assigned
    <3> QED BY <3>1, <3>2
  <2>6. Assigned'
    BY <2>4, <2>5 DEF Assigned
  <2>7. handler' \in [Workers -> {"none", "start", "work", "done"}]
    BY <1>3, <2>2
  <2> QED BY <1>1, <1>2, <2>2, <2>3, <2>6, <2>7, <2>8
<1>7. CASE Vanish(w)
  <2>1. /\ claimed' = [claimed EXCEPT ![w] = None] /\ handler' = [handler EXCEPT ![w] = "none"]
        /\ faults < MaxFaults /\ faults' = faults + 1
        /\ UNCHANGED <<now, settings, runs, table, pass, request>>
    BY <1>7 DEF Vanish, Fault
  <2>2. faults' \in 0 .. MaxFaults
    BY <1>2, <2>1, AdmissionAssumption
  <2>3. Queue!TypeOK' /\ claimed' \in [Workers -> Keys \cup {None}]
    BY <1>2, <2>1 DEF Queue!TypeOK, table, AdmissionTypeOK
  <2>4. Assigned'
    BY <2>1 DEF Assigned, table, AdmissionTypeOK
  <2>5. handler' \in [Workers -> {"none", "start", "work", "done"}]
    BY <1>3, <2>1
  <2>6. payload' = payload
    BY <2>1 DEF table
  <2> QED BY <1>1, <1>2, <2>1, <2>2, <2>3, <2>4, <2>5, <2>6
<1> QED BY <1>4, <1>5, <1>6, <1>7 DEF WorkerStep

\* Every step keeps the types and the jobs of the workers.
LEMMA BaseStep == Base /\ [Next]_vars => Base'
<1> SUFFICES ASSUME Base, [Next]_vars PROVE Base'
  OBVIOUS
<1>1. CASE ChangeSettings
  BY <1>1 DEF ChangeSettings, Base, AdmissionTypeOK, Assigned, table, workers, Queue!TypeOK
<1>2. CASE Tick
  <2>1. now' \in MinTime .. MaxTime
    BY <1>2, AdmissionAssumption DEF Tick, Base, AdmissionTypeOK
  <2> QED BY <1>2, <2>1 DEF Tick, Base, AdmissionTypeOK, Assigned, settings, table, workers,
             Queue!TypeOK
<1>3. CASE UNCHANGED vars
  BY <1>3 DEF vars, Base, AdmissionTypeOK, Assigned, settings, table, workers, Queue!TypeOK
<1> QED BY <1>1, <1>2, <1>3, PassBase, RequestBase, WorkerBase DEF Next

\* The variables keep their types: rows are well-formed and bounded, a job
\* points to an existing row, statements in progress remember what they read.
THEOREM TypeCorrectA == Spec => []AdmissionTypeOK
<1>1. Spec => []Base
  BY BaseInit, BaseStep, PTL DEF Spec
<1>2. Base => AdmissionTypeOK
  BY DEF Base
<1> QED BY <1>1, <1>2, PTL

-----------------------------------------------------------------------------
(* Execution of a run *)

\* The run of a worker that executes one is not waiting for anybody else.
Executing ==
    /\ \A w \in Workers : handler[w] = "work" => runs[payload[claimed[w]]].status # "queued"
    /\ OneWorkerPerRun

\* Jobs are not redirected while they are held, whatever is enqueued.
LEMMA JobsKept ==
  ASSUME Base, UNCHANGED workers,
         \/ UNCHANGED table
         \/ \E k \in Keys, i \in Nat : EnqueueJob(k, i)
  PROVE  \A w \in Workers : handler[w] # "none" => payload'[claimed[w]] = payload[claimed[w]]
<1> SUFFICES ASSUME NEW w \in Workers, handler[w] # "none"
             PROVE  payload'[claimed[w]] = payload[claimed[w]]
  OBVIOUS
<1>1. claimed[w] \in Keys /\ stage[claimed[w]] # "absent"
  BY BusyWorker
<1>2. CASE UNCHANGED table
  BY <1>2 DEF table
<1>3. ASSUME NEW k \in Keys, NEW i \in Nat, EnqueueJob(k, i)
      PROVE  payload'[claimed[w]] = payload[claimed[w]]
  BY <1>1, <1>3, EnqueueFacts DEF Base
<1> QED BY <1>2, <1>3

\* A step in which nobody starts to execute keeps Executing.
LEMMA ExecutingFrame ==
  ASSUME Base, Executing,
         UNCHANGED runs \/ RowsEvolve,
         \A w \in Workers : handler'[w] = "work" =>
            /\ handler[w] = "work" /\ claimed'[w] = claimed[w]
            /\ payload'[claimed[w]] = payload[claimed[w]]
  PROVE  Executing'
<1>1. ASSUME NEW w \in Workers, handler'[w] = "work"
      PROVE  /\ handler[w] = "work" /\ payload'[claimed'[w]] = payload[claimed[w]]
             /\ runs'[payload'[claimed'[w]]].status # "queued"
  <2>1. handler[w] = "work" /\ payload'[claimed'[w]] = payload[claimed[w]]
    BY <1>1
  <2>2. payload[claimed[w]] \in DOMAIN runs /\ runs[payload[claimed[w]]].status # "queued"
    BY <2>1, BusyWorker DEF Executing
  <2>3. runs'[payload[claimed[w]]].status # "queued"
    BY <2>2 DEF RowsEvolve
  <2> QED BY <2>1, <2>3
<1> QED BY <1>1 DEF Executing, OneWorkerPerRun

\* Every step keeps Executing.
LEMMA ExecutingStep == Base /\ Executing /\ [Next]_vars => Executing'
<1> SUFFICES ASSUME Base, Executing, [Next]_vars PROVE Executing'
  OBVIOUS
<1>1. AdmissionTypeOK /\ Len(runs) \in Nat /\ DOMAIN runs = 1 .. Len(runs)
  BY LenProperties DEF Base, AdmissionTypeOK
<1>2. ASSUME UNCHANGED workers, UNCHANGED runs \/ RowsEvolve,
             \/ UNCHANGED table
             \/ \E k \in Keys, i \in Nat : EnqueueJob(k, i)
      PROVE  Executing'
  <2>1. \A w \in Workers : handler[w] # "none" => payload'[claimed[w]] = payload[claimed[w]]
    BY <1>2, JobsKept
  <2>2. handler' = handler /\ claimed' = claimed
    BY <1>2 DEF workers
  <2> QED BY <1>2, <2>1, <2>2, ExecutingFrame
<1>3. ASSUME NEW s \in Passes, PassStep(s) \/ PassFails(s) PROVE Executing'
  <2>1. CASE InsertDaily(s) /\ ~Conflict("daily", pass[s].due)
    <3>1. DayKey(pass[s].day) \in Keys /\ pass[s].due \in Int /\ Len(runs) + 1 \in Nat
      BY <1>1, KeysOf DEF AdmissionTypeOK
    <3>2. InsertRun("daily", pass[s].due) /\ EnqueueJob(DayKey(pass[s].day), Len(runs) + 1) /\ UNCHANGED workers
      BY <2>1 DEF InsertDaily
    <3>3. RowsEvolve
      BY <1>1, <3>1, <3>2, InsertRunRows
    <3> QED BY <1>2, <3>1, <3>2, <3>3
  <2>2. CASE InsertDaily(s) /\ Conflict("daily", pass[s].due)
    BY <1>2, <2>2 DEF InsertDaily
  <2>3. CASE FindDaily(s)
    <3>1. DayKey(pass[s].day) \in Keys
      BY <1>1, KeysOf DEF AdmissionTypeOK
    <3>2. UNCHANGED table \/ \E i \in DOMAIN runs : EnqueueJob(DayKey(pass[s].day), i)
      BY <2>3 DEF FindDaily
    <3>3. \A i \in DOMAIN runs : i \in Nat
      BY <1>1
    <3> QED BY <1>2, <2>3, <3>1, <3>2, <3>3 DEF FindDaily
  <2>4. CASE BeginPass(s) \/ CheckManual(s) \/ PassFails(s)
    BY <1>2, <2>4 DEF BeginPass, CheckManual, PassFails, workers
  <2> QED BY <1>3, <2>1, <2>2, <2>3, <2>4 DEF PassStep
<1>4. ASSUME NEW r \in Requests, BeginRequest(r) \/ RequestStep(r) PROVE Executing'
  <2>1. CASE InsertManual(r) /\ ~Conflict("manual", request[r].now)
    <3>1. /\ InsertRun("manual", request[r].now)
          /\ EnqueueJob(RunKey(Len(runs) + 1), Len(runs) + 1) /\ UNCHANGED workers
      BY <2>1 DEF InsertManual
    <3>2. Len(runs) + 1 \in Nat \ {0} /\ Len(runs) + 1 <= MaxRuns /\ request[r].now \in Int
      BY <1>1, <3>1, AdmissionAssumption DEF InsertRun, AdmissionTypeOK
    <3>3. RunKey(Len(runs) + 1) \in Keys
      BY <3>2, KeysOf
    <3>4. RowsEvolve
      BY <1>1, <3>1, <3>2, InsertRunRows
    <3> QED BY <1>2, <3>1, <3>2, <3>3, <3>4
  <2>2. CASE InsertManual(r) /\ Conflict("manual", request[r].now)
    BY <1>2, <2>2 DEF InsertManual
  <2>3. CASE LookForRun(r) \/ ResolveConflict(r)
    <3>1. /\ UNCHANGED table \/ \E i \in DOMAIN runs : EnqueueJob(RunKey(i), i)
          /\ UNCHANGED <<runs, workers>>
      BY <2>3 DEF LookForRun, ResolveConflict, Active
    <3>2. ASSUME NEW i \in DOMAIN runs PROVE i \in Nat /\ RunKey(i) \in Keys
      <4>1. i \in Nat \ {0} /\ i <= MaxRuns
        BY <1>1, AdmissionAssumption DEF AdmissionTypeOK
      <4> QED BY <4>1, KeysOf
    <3> QED BY <1>2, <3>1, <3>2
  <2>4. CASE BeginRequest(r)
    BY <1>2, <2>4 DEF BeginRequest
  <2> QED BY <1>4, <2>1, <2>2, <2>3, <2>4 DEF RequestStep
<1>5. ASSUME NEW w \in Workers, WorkerStep(w) \/ FailJob(w) \/ Vanish(w) PROVE Executing'
  <2>1. handler \in [Workers -> {"none", "start", "work", "done"}] /\ claimed \in [Workers -> Keys \cup {None}]
    BY <1>1 DEF AdmissionTypeOK
  <2>2. CASE \/ \E k \in Keys : TakeJob(w, k)
             \/ CompleteJob(w) \/ FailJob(w) \/ Vanish(w)
    <3>1. /\ \E h \in {"none", "start"} : handler' = [handler EXCEPT ![w] = h]
          /\ \E c \in Keys \cup {None} : claimed' = [claimed EXCEPT ![w] = c]
          /\ UNCHANGED <<runs, payload>>
      BY <2>2 DEF TakeJob, CompleteJob, FailJob, SettleJob, Vanish, table
    <3>2. \A v \in Workers : handler'[v] = "work" => handler[v] = "work" /\ claimed'[v] = claimed[v]
      BY <2>1, <3>1
    <3> QED BY <3>1, <3>2, ExecutingFrame
  <2>3. CASE StartRun(w) \/ EndRun(w)
    <3> DEFINE i == payload[claimed[w]]
    <3>1. handler[w] # "none" /\ UNCHANGED <<claimed, payload>>
      BY <2>3 DEF StartRun, EndRun, table
    <3>2. i \in DOMAIN runs
      BY <3>1, BusyWorker
    <3>3. CASE /\ runs[i].status = "queued" /\ SetStatus(i, "working")
               /\ handler' = [handler EXCEPT ![w] = "work"]
      <4>1. runs'[i].status = "working" /\ RowsEvolve
        BY <1>1, <3>2, <3>3, SetStatusRows
      <4>2. ASSUME NEW v \in Workers, handler'[v] = "work", v # w
            PROVE  /\ handler[v] = "work" /\ payload[claimed[v]] # i
                   /\ runs'[payload[claimed[v]]].status # "queued"
        <5>1. handler[v] = "work"
          BY <2>1, <3>3, <4>2
        <5>2. payload[claimed[v]] \in DOMAIN runs /\ runs[payload[claimed[v]]].status # "queued"
          BY <5>1, BusyWorker DEF Executing
        <5> QED BY <3>3, <4>1, <5>1, <5>2 DEF RowsEvolve
      <4>3. \A v \in Workers : handler'[v] = "work" => runs'[payload'[claimed'[v]]].status # "queued"
        BY <3>1, <4>1, <4>2
      <4>4. OneWorkerPerRun'
        BY <3>1, <4>2 DEF Executing, OneWorkerPerRun
      <4> QED BY <4>3, <4>4 DEF Executing
    <3>4. CASE /\ UNCHANGED runs \/ \E s \in TerminalRun : SetStatus(i, s)
               /\ handler' = [handler EXCEPT ![w] = "done"]
      <4>1. UNCHANGED runs \/ RowsEvolve
        BY <1>1, <3>2, <3>4, SetStatusRows
      <4>2. \A v \in Workers : handler'[v] = "work" => handler[v] = "work"
        BY <2>1, <3>4
      <4> QED BY <3>1, <4>1, <4>2, ExecutingFrame
    <3> QED BY <2>3, <3>3, <3>4 DEF StartRun, EndRun, TerminalRun
  <2> QED BY <1>5, <2>2, <2>3 DEF WorkerStep
<1>6. CASE ChangeSettings \/ Tick \/ UNCHANGED vars
  BY <1>2, <1>6 DEF ChangeSettings, Tick, vars, table, workers
<1> QED BY <1>3, <1>4, <1>5, <1>6 DEF Next

\* However many jobs a run gets and whoever takes over from whom, at most one
\* worker executes it (_start_run refuses a run that is not QUEUED).
THEOREM RunsExecuteOnce == Spec => []OneWorkerPerRun
<1>1. Init => Executing
  BY DEF Init, Executing, OneWorkerPerRun
<1>2. Spec => [](Base /\ Executing)
  BY <1>1, BaseInit, BaseStep, ExecutingStep, PTL DEF Spec
<1>3. Executing => OneWorkerPerRun
  BY DEF Executing
<1> QED BY <1>2, <1>3, PTL

-----------------------------------------------------------------------------
(* Manual runs and the advisory lock *)

\* The lock has one holder, and what it saw under the lock is still so when it
\* inserts: whoever could add a manual run waits for the lock.  Runs are not
\* requested in the future, and no request is under way for longer than MaxLag.
Apart ==
    /\ \A q, r \in LockHolders : q = r
    /\ \A r \in Requests : request[r].at = "insert" => Recent(r) = {}
    /\ \A i \in Manual : runs[i].due <= now
    /\ \A r \in InProgress : request[r].now <= now /\ now <= request[r].now + MaxLag
    /\ ManualRunsApart

\* Rows that evolve, and daily rows that are added, are not seen by requests.
LEMMA ManualKept ==
  ASSUME AdmissionTypeOK, RowsEvolve,
         \A i \in DOMAIN runs' \ DOMAIN runs : runs'[i].type = "daily"
  PROVE  Manual' = Manual /\ \A i \in Manual : runs'[i].due = runs[i].due
<1>1. /\ DOMAIN runs = 1 .. Len(runs) /\ Len(runs) \in Nat
      /\ DOMAIN runs' = 1 .. Len(runs') /\ Len(runs') \in Nat
      /\ Len(runs) <= Len(runs')
  BY LenProperties DEF AdmissionTypeOK, RowsEvolve
<1>2. DOMAIN runs \subseteq DOMAIN runs'
  BY <1>1
<1> QED BY <1>2 DEF Manual, RowsEvolve

\* A step that adds no manual run, and in which nobody gets the lock or begins
\* to insert, keeps Apart.
LEMMA ApartFrame ==
  ASSUME Base, Apart, UNCHANGED now,
         Manual' = Manual, \A i \in Manual : runs'[i].due = runs[i].due,
         \A q \in Requests :
            /\ request'[q].at # "idle" =>
                  request'[q].now = now \/ (request[q].at # "idle" /\ request'[q].now = request[q].now)
            /\ request'[q].at \in {"insert", "resolve"} => request[q].at \in {"insert", "resolve"}
            /\ request'[q].at = "insert" => request[q].at = "insert" /\ request'[q].now = request[q].now
  PROVE  Apart'
<1>1. \A q, r \in LockHolders' : q = r
  BY DEF Apart, LockHolders
<1>2. ASSUME NEW r \in Requests, request'[r].at = "insert" PROVE Recent(r)' = {}
  <2>1. Recent(r) = {} /\ request'[r].now = request[r].now
    BY <1>2 DEF Apart
  <2> QED BY <2>1 DEF Recent
<1>3. ManualRunsApart'
  BY DEF Apart, ManualRunsApart
<1>4. \A i \in Manual' : runs'[i].due <= now'
  BY DEF Apart
<1>5. ASSUME NEW r \in InProgress'
      PROVE  request'[r].now <= now' /\ now' <= request'[r].now + MaxLag
  <2>1. now \in Int /\ MaxLag \in Nat
    BY AdmissionAssumption DEF Base, AdmissionTypeOK
  <2>2. CASE request'[r].now = now
    BY <2>1, <2>2
  <2>3. CASE r \in InProgress /\ request'[r].now = request[r].now
    BY <2>3 DEF Apart
  <2> QED BY <1>5, <2>2, <2>3 DEF InProgress
<1> QED BY <1>1, <1>2, <1>3, <1>4, <1>5 DEF Apart

\* A request keeps Apart.
LEMMA ApartRequest ==
  ASSUME Base, Apart, NEW r \in Requests, BeginRequest(r) \/ RequestStep(r)
  PROVE  Apart'
<1>1. request \in [Requests -> RequestRows] /\ request[r] \in RequestRows
  BY DEF Base, AdmissionTypeOK, RequestRows
<1>2. AdmissionTypeOK /\ DOMAIN runs = 1 .. Len(runs) /\ Len(runs) \in Nat
  BY LenProperties DEF Base, AdmissionTypeOK
<1>3. ASSUME UNCHANGED <<now, runs>>, NEW row \in RequestRows, request' = [request EXCEPT ![r] = row],
             \/ row.at = "idle"
             \/ row.at = "lock" /\ row.now = now
             \/ row.at = "resolve" /\ request[r].at = "insert" /\ row.now = request[r].now
      PROVE  Apart'
  <2>1. Manual' = Manual /\ \A i \in Manual : runs'[i].due = runs[i].due
    BY <1>3 DEF Manual
  <2>2. \A q \in Requests :
           /\ request'[q].at # "idle" =>
                 request'[q].now = now \/ (request[q].at # "idle" /\ request'[q].now = request[q].now)
           /\ request'[q].at \in {"insert", "resolve"} => request[q].at \in {"insert", "resolve"}
           /\ request'[q].at = "insert" => request[q].at = "insert" /\ request'[q].now = request[q].now
    BY <1>1, <1>3
  <2> QED BY <1>3, <2>1, <2>2, ApartFrame
<1>4. IdleRequest \in RequestRows /\ IdleRequest.at = "idle"
  BY DaysFacts DEF IdleRequest, RequestRows
<1>5. CASE BeginRequest(r)
  <2>1. [at |-> "lock", now |-> now] \in RequestRows
    BY <1>2, DayTypes DEF AdmissionTypeOK, RequestRows
  <2> QED BY <1>3, <1>5, <2>1 DEF BeginRequest
<1>6. CASE LookForRun(r)
  <2>1. CASE /\ Active = {} /\ Recent(r) = {}
             /\ request' = [request EXCEPT ![r].at = "insert"]
    <3>1. runs' = runs /\ LockHolders = {} /\ request' = [request EXCEPT ![r] = [request[r] EXCEPT !.at = "insert"]]
      BY <1>6, <2>1 DEF LookForRun
    <3>2. request'[r].now = request[r].now /\ \A q \in Requests \ {r} : request'[q] = request[q]
      BY <1>1, <3>1 DEF RequestRows
    <3>3. LockHolders' \subseteq {r}
      BY <3>1, <3>2 DEF LockHolders
    <3>4. ASSUME NEW q \in Requests, request'[q].at = "insert" PROVE Recent(q)' = {}
      <4>1. q = r
        BY <3>3, <3>4 DEF LockHolders
      <4> QED BY <2>1, <3>1, <3>2, <4>1 DEF Recent, Manual
    <3>5. ManualRunsApart'
      BY <3>1 DEF Apart, ManualRunsApart, Manual
    <3>6. now' = now /\ r \in InProgress
      BY <1>6 DEF LookForRun, InProgress
    <3>7. \A i \in Manual' : runs'[i].due <= now'
      BY <3>1, <3>6 DEF Apart, Manual
    <3>8. \A q \in InProgress' : request'[q].now <= now' /\ now' <= request'[q].now + MaxLag
      BY <3>2, <3>6 DEF Apart, InProgress
    <3> QED BY <3>3, <3>4, <3>5, <3>7, <3>8 DEF Apart
  <2>2. CASE request' = [request EXCEPT ![r] = IdleRequest]
    BY <1>3, <1>4, <1>6, <2>2 DEF LookForRun
  <2> QED BY <1>6, <2>1, <2>2 DEF LookForRun
<1>7. CASE InsertManual(r)
  <2>1. CASE Conflict("manual", request[r].now)
    <3>1. [request[r] EXCEPT !.at = "resolve"] \in RequestRows
      BY <1>1 DEF RequestRows
    <3>2. /\ [request[r] EXCEPT !.at = "resolve"].at = "resolve"
          /\ [request[r] EXCEPT !.at = "resolve"].now = request[r].now
      BY <1>1 DEF RequestRows
    <3>3. /\ UNCHANGED <<now, runs>> /\ request[r].at = "insert"
          /\ request' = [request EXCEPT ![r] = [request[r] EXCEPT !.at = "resolve"]]
      BY <1>7, <2>1 DEF InsertManual
    <3> QED BY <1>3, <3>1, <3>2, <3>3
  <2>2. CASE ~Conflict("manual", request[r].now)
    <3> DEFINE n == Len(runs) + 1
               due == request[r].now
    <3>1. /\ InsertRun("manual", due) /\ request[r].at = "insert"
          /\ request' = [request EXCEPT ![r] = IdleRequest] /\ now' = now
      BY <1>7, <2>2 DEF InsertManual
    <3>2. due \in Int
      BY <1>1 DEF RequestRows
    <3>11. now \in Int /\ MaxLag \in Nat /\ due <= now /\ now <= due + MaxLag
      BY <3>1, AdmissionAssumption DEF Base, AdmissionTypeOK, Apart, InProgress
    <3>3. /\ RowsEvolve /\ Len(runs') = n
          /\ runs'[n] = [type |-> "manual", due |-> due, status |-> "queued"]
          /\ \A i \in DOMAIN runs : runs'[i] = runs[i]
      BY <1>2, <3>1, <3>2, InsertRunRows
    <3>4. runs'[n].due = due
      BY <3>3
    <3>5. DOMAIN runs' = 1 .. n
      BY <3>3, LenProperties DEF RowsEvolve
    <3>6. \A i \in Manual' : i \in Manual \/ i = n
      BY <1>2, <3>3, <3>5 DEF Manual
    <3>7. LockHolders' = {}
      <4>1. ASSUME NEW q \in LockHolders' PROVE FALSE
        <5>1. q # r
          BY <1>1, <1>4, <3>1, <4>1 DEF LockHolders
        <5>2. q \in LockHolders /\ r \in LockHolders
          BY <1>1, <3>1, <4>1, <5>1 DEF LockHolders
        <5> QED BY <5>1, <5>2 DEF Apart
      <4> QED BY <4>1
    <3>8. ASSUME NEW i \in Manual', NEW j \in Manual', i < j
          PROVE  \/ runs'[j].due >= runs'[i].due + Window
                 \/ runs'[j].due < runs'[i].due /\ runs'[i].due <= runs'[j].due + MaxLag
      <4>1. i \in Manual
        BY <1>2, <3>5, <3>6, <3>8 DEF Manual
      <4>2. i \in DOMAIN runs /\ runs'[i].due = runs[i].due /\ runs[i].due \in Int
        <5>1. i \in DOMAIN runs /\ runs'[i] = runs[i]
          BY <3>3, <4>1 DEF Manual
        <5>2. runs[i] \in RunRows
          BY <1>2, <5>1, ElementOfSeq DEF AdmissionTypeOK
        <5> QED BY <5>1, <5>2 DEF RunRows
      <4>3. CASE j \in Manual
        <5>1. runs'[j].due = runs[j].due
          BY <3>3, <4>3 DEF Manual
        <5> QED BY <3>8, <4>1, <4>2, <4>3, <5>1 DEF Apart, ManualRunsApart
      <4>4. CASE j = n
        <5>1. ~(runs[i].due > due - Window /\ runs[i].due <= due)
          BY <3>1, <4>1 DEF Apart, Recent
        <5>2. runs'[j].due = due
          BY <3>4, <4>4
        <5>3. runs[i].due <= now
          BY <4>1 DEF Apart
        <5> QED BY <3>2, <3>11, <4>2, <5>1, <5>2, <5>3, AdmissionAssumption
      <4> QED BY <3>6, <4>3, <4>4
    <3>9. ManualRunsApart'
      BY <3>8 DEF ManualRunsApart
    <3>10. \A q \in Requests : request'[q].at # "insert"
      BY <3>7 DEF LockHolders
    <3>12. ASSUME NEW i \in Manual' PROVE runs'[i].due <= now'
      <4>1. CASE i \in Manual
        BY <3>1, <3>3, <4>1 DEF Apart, Manual
      <4>2. CASE i = n
        BY <3>1, <3>4, <3>11, <4>2
      <4> QED BY <3>6, <4>1, <4>2
    <3>13. \A q \in InProgress' : request'[q].now <= now' /\ now' <= request'[q].now + MaxLag
      BY <1>1, <1>4, <3>1 DEF Apart, InProgress
    <3> QED BY <3>7, <3>9, <3>10, <3>12, <3>13 DEF Apart
  <2> QED BY <2>1, <2>2
<1>8. CASE ResolveConflict(r)
  BY <1>3, <1>4, <1>8 DEF ResolveConflict
<1> QED BY <1>5, <1>6, <1>7, <1>8 DEF RequestStep

\* Every step keeps Apart.
LEMMA ApartStep == Base /\ Apart /\ [Next]_vars => Apart'
<1> SUFFICES ASSUME Base, Apart, [Next]_vars PROVE Apart'
  OBVIOUS
<1>1. AdmissionTypeOK /\ DOMAIN runs = 1 .. Len(runs) /\ Len(runs) \in Nat
  BY LenProperties DEF Base, AdmissionTypeOK
<1>2. ASSUME UNCHANGED <<now, request>>,
             \/ UNCHANGED runs
             \/ RowsEvolve /\ \A i \in DOMAIN runs' \ DOMAIN runs : runs'[i].type = "daily"
      PROVE  Apart'
  <2>1. Manual' = Manual /\ \A i \in Manual : runs'[i].due = runs[i].due
    <3>1. CASE UNCHANGED runs
      BY <3>1 DEF Manual
    <3>2. CASE RowsEvolve /\ \A i \in DOMAIN runs' \ DOMAIN runs : runs'[i].type = "daily"
      BY <1>1, <3>2, ManualKept
    <3> QED BY <1>2, <3>1, <3>2
  <2> QED BY <1>2, <2>1, ApartFrame
<1>3. ASSUME NEW s \in Passes, PassStep(s) \/ PassFails(s) PROVE Apart'
  <2>1. CASE InsertDaily(s) /\ ~Conflict("daily", pass[s].due)
    <3>1. pass[s].due \in Int /\ InsertRun("daily", pass[s].due) /\ UNCHANGED <<now, request>>
      BY <1>1, <2>1 DEF InsertDaily, AdmissionTypeOK
    <3>2. /\ RowsEvolve /\ Len(runs') = Len(runs) + 1
          /\ runs'[Len(runs) + 1] = [type |-> "daily", due |-> pass[s].due, status |-> "queued"]
      BY <1>1, <3>1, InsertRunRows
    <3>3. runs'[Len(runs) + 1].type = "daily"
      BY <3>2
    <3>4. DOMAIN runs' = 1 .. Len(runs) + 1
      BY <3>2, LenProperties DEF RowsEvolve
    <3>5. \A i \in DOMAIN runs' \ DOMAIN runs : i = Len(runs) + 1
      BY <1>1, <3>4
    <3>6. \A i \in DOMAIN runs' \ DOMAIN runs : runs'[i].type = "daily"
      BY <3>3, <3>5
    <3> QED BY <1>2, <3>1, <3>2, <3>6
  <2>2. CASE UNCHANGED <<now, runs, request>>
    BY <1>2, <2>2
  <2> QED BY <1>3, <2>1, <2>2 DEF PassStep, PassFails, BeginPass, CheckManual, InsertDaily, FindDaily
<1>4. ASSUME NEW w \in Workers, WorkerStep(w) \/ FailJob(w) \/ Vanish(w) PROVE Apart'
  <2>1. CASE StartRun(w) \/ EndRun(w)
    <3>1. handler[w] # "none" /\ UNCHANGED <<now, request>>
      BY <2>1 DEF StartRun, EndRun
    <3>2. payload[claimed[w]] \in DOMAIN runs
      BY <3>1, BusyWorker
    <3>3. UNCHANGED runs \/ (RowsEvolve /\ Len(runs') = Len(runs))
      <4>1. CASE UNCHANGED runs
        BY <4>1
      <4>2. ASSUME NEW s \in TerminalRun \cup {"working"}, SetStatus(payload[claimed[w]], s)
            PROVE  RowsEvolve /\ Len(runs') = Len(runs)
        BY <1>1, <3>2, <4>2, SetStatusRows
      <4>3. UNCHANGED runs \/ \E s \in TerminalRun \cup {"working"} : SetStatus(payload[claimed[w]], s)
        BY <2>1 DEF StartRun, EndRun, TerminalRun
      <4> QED BY <4>1, <4>2, <4>3
    <3>4. RowsEvolve /\ Len(runs') = Len(runs) => DOMAIN runs' = DOMAIN runs
      BY <1>1, LenProperties DEF RowsEvolve
    <3> QED BY <1>2, <3>1, <3>3, <3>4
  <2>2. CASE UNCHANGED <<now, runs, request>>
    BY <1>2, <2>2
  <2> QED BY <1>4, <2>1, <2>2 DEF WorkerStep, TakeJob, CompleteJob, FailJob, SettleJob, Vanish
<1>5. CASE ChangeSettings \/ UNCHANGED vars
  BY <1>2, <1>5 DEF ChangeSettings, vars
<1>6. CASE Tick
  <2>1. /\ UNCHANGED <<runs, request>> /\ now' = now + 1 /\ now \in Int /\ MaxLag \in Nat
        /\ \A r \in InProgress : now < request[r].now + MaxLag
    BY <1>6, AdmissionAssumption DEF Tick, Base, AdmissionTypeOK
  <2>2. ASSUME NEW i \in Manual PROVE runs[i].due <= now + 1
    <3>1. runs[i] \in RunRows /\ runs[i].due <= now
      BY <1>1, ElementOfSeq DEF Apart, Manual, AdmissionTypeOK
    <3>2. runs[i].due \in Int
      BY <3>1 DEF RunRows
    <3> QED BY <2>1, <3>1, <3>2
  <2>3. ASSUME NEW r \in InProgress
        PROVE  request[r].now <= now + 1 /\ now + 1 <= request[r].now + MaxLag
    <3>1. request[r].now \in Int
      BY <1>1 DEF AdmissionTypeOK, InProgress
    <3>2. request[r].now <= now /\ now < request[r].now + MaxLag
      BY <2>1, <2>3 DEF Apart
    <3> QED BY <2>1, <3>1, <3>2
  <2>4. /\ LockHolders' = LockHolders /\ Manual' = Manual /\ InProgress' = InProgress
        /\ \A r : Recent(r)' = Recent(r)
    BY <2>1 DEF LockHolders, Manual, InProgress, Recent
  <2>5. ManualRunsApart'
    BY <2>1, <2>4 DEF Apart, ManualRunsApart
  <2> QED BY <2>1, <2>2, <2>3, <2>4, <2>5 DEF Apart
<1> QED BY <1>3, <1>4, <1>5, <1>6, ApartRequest DEF Next

\* Manual runs are a window apart for any number of concurrent requests, except
\* that a request overtaken by a later one may add a run of its own before that
\* one's time, by MaxLag at most (enqueue_manual_run).
THEOREM ManualRequestsIdempotent == Spec => []ManualRunsApart
<1>1. Init => Apart
  BY DEF Init, Apart, LockHolders, InProgress, IdleRequest, ManualRunsApart, Manual
<1>2. Spec => [](Base /\ Apart)
  BY <1>1, BaseInit, BaseStep, ApartStep, PTL DEF Spec
<1>3. Apart => ManualRunsApart
  BY DEF Apart
<1> QED BY <1>2, <1>3, PTL

-----------------------------------------------------------------------------
(* The job of a queued run, where nobody changes the settings *)

SettingsFixed == (\A t, u \in Times : t = u) /\ (\A y, z \in Zones : y = z)

\* A job that has not been completed.
LiveStage == {"queued", "held", "failed"}

HasJob(i) == \E k \in Keys : payload[k] = i /\ stage[k] \in LiveStage

\* The inductive invariant of QueuedRunHasJob: a key that is taken belongs to
\* a run that is there, so the job of a new run finds its key free, and the
\* worker of a job completes it only when its run has left the queue.
Jobbed ==
    /\ \A i \in DOMAIN runs : runs[i].status = "queued" => HasJob(i)
    /\ \A w \in Workers : handler[w] \in {"work", "done"} =>
          runs[payload[claimed[w]]].status # "queued"
    /\ \A d \in Days : stage[DayKey(d)] # "absent" =>
          \E i \in DOMAIN runs : runs[i].type = "daily" /\ runs[i].due = Slot(d)
    /\ \A i \in RunIds : i > Len(runs) => stage[RunKey(i)] = "absent"
    /\ \A s \in Passes : pass[s].at # "idle" => pass[s].due = Slot(pass[s].day)

\* The jobs that are there stay what they are, and the live ones stay live.
TableEvolves ==
    \A k \in Keys : stage[k] # "absent" =>
        /\ payload'[k] = payload[k]
        /\ stage'[k] # "absent"
        /\ stage[k] \in LiveStage => stage'[k] \in LiveStage

LEMMA KeysDiffer ==
  /\ \A d \in Days, i \in RunIds : DayKey(d) # RunKey(i) /\ RunKey(i) # DayKey(d)
  /\ \A d, e \in Days : DayKey(d) = DayKey(e) => d = e
  /\ \A i, j \in RunIds : RunKey(i) = RunKey(j) => i = j
BY DEF DayKey, RunKey

LEMMA EnqueueEvolves ==
  ASSUME Base, NEW k \in Keys, NEW i \in Nat, EnqueueJob(k, i)
  PROVE  /\ TableEvolves
         /\ \A l \in Keys \ {k} : stage'[l] = stage[l]
<1>1. \A l \in Keys : l # k \/ stage[l] # "absent" =>
         stage'[l] = stage[l] /\ payload'[l] = payload[l]
  BY EnqueueFacts DEF Base
<1> QED BY <1>1 DEF TableEvolves

LEMMA SlotsFixed ==
  ASSUME SettingsFixed, Base, Base'
  PROVE  dailyTime' = dailyTime /\ zone' = zone
BY DEF SettingsFixed, Base, AdmissionTypeOK

\* Runs that were there keep their jobs, whatever is enqueued.
LEMMA HasJobFrame ==
  ASSUME Base, Jobbed, TableEvolves, UNCHANGED runs \/ RowsEvolve,
         NEW i \in DOMAIN runs, runs'[i].status = "queued"
  PROVE  HasJob(i)'
<1>1. runs[i].status = "queued"
  BY DEF RowsEvolve
<1>2. PICK k \in Keys : payload[k] = i /\ stage[k] \in LiveStage
  BY <1>1 DEF Jobbed, HasJob
<1>3. stage[k] # "absent"
  BY <1>2 DEF LiveStage
<1> QED BY <1>2, <1>3 DEF TableEvolves, HasJob

\* A step of a pass or a request that adds no run.
LEMMA JobbedFrame ==
  ASSUME SettingsFixed, Base, Base', Jobbed, UNCHANGED runs, UNCHANGED workers, TableEvolves,
         \A d \in Days : stage'[DayKey(d)] # "absent" => stage[DayKey(d)] # "absent" \/
            \E i \in DOMAIN runs : runs[i].type = "daily" /\ runs[i].due = Slot(d),
         \A i \in RunIds : i > Len(runs) => stage'[RunKey(i)] = stage[RunKey(i)],
         \A s \in Passes : pass'[s].at # "idle" => pass'[s].due = Slot(pass'[s].day)
  PROVE  Jobbed'
<1>1. dailyTime' = dailyTime /\ zone' = zone
  BY SlotsFixed
<1>2. \A d : Slot(d)' = Slot(d)
  BY <1>1 DEF Slot
<1>3. \A i \in DOMAIN runs' : runs'[i].status = "queued" => HasJob(i)'
  BY HasJobFrame
<1>4. ASSUME NEW w \in Workers, handler'[w] \in {"work", "done"}
      PROVE  runs'[payload'[claimed'[w]]].status # "queued"
  <2>1. handler' = handler /\ claimed' = claimed
    BY DEF workers
  <2>2. claimed[w] \in Keys /\ stage[claimed[w]] # "absent"
    BY <1>4, <2>1, BusyWorker
  <2>3. payload'[claimed[w]] = payload[claimed[w]]
    BY <2>2 DEF TableEvolves
  <2> QED BY <1>4, <2>1, <2>3 DEF Jobbed
<1>5. ASSUME NEW d \in Days, stage'[DayKey(d)] # "absent"
      PROVE  \E i \in DOMAIN runs' : runs'[i].type = "daily" /\ runs'[i].due = Slot(d)'
  <2>1. \E i \in DOMAIN runs : runs[i].type = "daily" /\ runs[i].due = Slot(d)
    BY <1>5 DEF Jobbed
  <2> QED BY <1>2, <2>1
<1>6. \A s \in Passes : (pass[s].at # "idle" => pass[s].due = Slot(pass[s].day))'
  BY <1>1 DEF Slot
<1> QED BY <1>3, <1>4, <1>5, <1>6 DEF Jobbed

\* A step of a pass or a request that adds a run, with its job.
LEMMA JobbedInsert ==
  ASSUME SettingsFixed, Base, Base', Jobbed, UNCHANGED workers,
         NEW type \in {"daily", "manual"}, NEW due \in Int, NEW k \in Keys,
         InsertRun(type, due), EnqueueJob(k, Len(runs) + 1), stage[k] = "absent",
         \A d \in Days : k = DayKey(d) => type = "daily" /\ due = Slot(d),
         \A i \in RunIds : k = RunKey(i) => i = Len(runs) + 1,
         \A s \in Passes : pass'[s].at # "idle" => pass'[s].due = Slot(pass'[s].day)
  PROVE  Jobbed'
<1>1. dailyTime' = dailyTime /\ zone' = zone
  BY SlotsFixed
<1>2. /\ RowsEvolve /\ Len(runs') = Len(runs) + 1
      /\ runs'[Len(runs) + 1] = [type |-> type, due |-> due, status |-> "queued"]
  BY InsertRunRows DEF Base
<1>3. DOMAIN runs = 1 .. Len(runs) /\ Len(runs) \in Nat /\ DOMAIN runs' = 1 .. Len(runs) + 1
  BY <1>2, LenProperties DEF Base, AdmissionTypeOK, RowsEvolve
<1>4. TableEvolves /\ \A l \in Keys \ {k} : stage'[l] = stage[l]
  BY <1>3, EnqueueEvolves
<1>5. stage'[k] = "queued" /\ payload'[k] = Len(runs) + 1
  BY <1>3, EnqueueFacts DEF Base
<1>6. ASSUME NEW i \in DOMAIN runs', runs'[i].status = "queued" PROVE HasJob(i)'
  <2>1. CASE i \in DOMAIN runs
    BY <1>2, <1>4, <1>6, <2>1, HasJobFrame
  <2>2. CASE i = Len(runs) + 1
    BY <1>5, <2>2 DEF HasJob, LiveStage
  <2> QED BY <1>3, <2>1, <2>2
<1>7. ASSUME NEW w \in Workers, handler'[w] \in {"work", "done"}
      PROVE  runs'[payload'[claimed'[w]]].status # "queued"
  <2>1. handler' = handler /\ claimed' = claimed
    BY DEF workers
  <2>2. claimed[w] \in Keys /\ stage[claimed[w]] # "absent" /\ payload[claimed[w]] \in DOMAIN runs
    BY <1>7, <2>1, BusyWorker
  <2>3. payload'[claimed[w]] = payload[claimed[w]]
    BY <1>4, <2>2 DEF TableEvolves
  <2> QED BY <1>2, <1>7, <2>1, <2>2, <2>3 DEF Jobbed, RowsEvolve
<1>8. ASSUME NEW d \in Days, stage'[DayKey(d)] # "absent"
      PROVE  \E i \in DOMAIN runs' : runs'[i].type = "daily" /\ runs'[i].due = Slot(d)'
  <2>1. Slot(d)' = Slot(d)
    BY <1>1 DEF Slot
  <2>2. CASE k = DayKey(d)
    <3>1. runs'[Len(runs) + 1].type = "daily" /\ runs'[Len(runs) + 1].due = Slot(d)
      BY <1>2, <2>2
    <3>2. Len(runs) + 1 \in DOMAIN runs'
      BY <1>3
    <3> QED BY <2>1, <3>1, <3>2
  <2>3. CASE k # DayKey(d)
    <3>1. stage[DayKey(d)] # "absent"
      BY <1>4, <1>8, <2>3, KeysOf
    <3>2. PICK i \in DOMAIN runs : runs[i].type = "daily" /\ runs[i].due = Slot(d)
      BY <3>1 DEF Jobbed
    <3>3. i \in DOMAIN runs' /\ runs'[i].type = "daily" /\ runs'[i].due = Slot(d)
      BY <1>2, <1>3, <3>2 DEF RowsEvolve
    <3> QED BY <2>1, <3>3
  <2> QED BY <2>2, <2>3
<1>9. ASSUME NEW i \in RunIds, i > Len(runs') PROVE stage'[RunKey(i)] = "absent"
  <2>1. i > Len(runs) /\ i # Len(runs) + 1 /\ RunKey(i) \in Keys
    BY <1>2, <1>3, <1>9 DEF RunIds, Keys
  <2>2. RunKey(i) # k
    BY <2>1
  <2> QED BY <1>4, <2>1, <2>2 DEF Jobbed
<1>10. \A s \in Passes : (pass[s].at # "idle" => pass[s].due = Slot(pass[s].day))'
  BY <1>1 DEF Slot
<1> QED BY <1>6, <1>7, <1>8, <1>9, <1>10 DEF Jobbed


LEMMA JobbedPass ==
  ASSUME SettingsFixed, Base, Base', Jobbed, NEW s \in Passes, PassStep(s) \/ PassFails(s)
  PROVE  Jobbed'
<1>1. /\ pass \in [Passes -> PassRows] /\ Len(runs) \in Nat /\ DOMAIN runs = 1 .. Len(runs)
      /\ LocalDay(now) \in Days
  BY LenProperties, DayTypes DEF Base, AdmissionTypeOK, PassRows
<1>2. IdlePass.at = "idle"
  BY DEF IdlePass
<1>3. TableEvolves \/ ~UNCHANGED table
  BY DEF TableEvolves, table
<1>4. CASE BeginPass(s)
  <2> DEFINE new == [at |-> "check", now |-> now, zone |-> zone, day |-> LocalDay(now),
                     due |-> Slot(LocalDay(now)), satisfied |-> Satisfied(LocalDay(now))]
  <2>1. pass' = [pass EXCEPT ![s] = new] /\ UNCHANGED <<runs, table, workers>>
    BY <1>4 DEF BeginPass
  <2>2. new.due = Slot(new.day)
    OBVIOUS
  <2> HIDE DEF new
  <2>3. \A t \in Passes : pass'[t].at # "idle" => pass'[t].due = Slot(pass'[t].day)
    BY <1>1, <2>1, <2>2 DEF Jobbed
  <2> QED BY <1>3, <2>1, <2>3, JobbedFrame DEF table
<1>5. CASE CheckManual(s)
  <2>1. /\ \/ pass' = [pass EXCEPT ![s] = [pass[s] EXCEPT !.at = "insert"]]
           \/ pass' = [pass EXCEPT ![s] = IdlePass]
        /\ pass[s].at # "idle" /\ UNCHANGED <<runs, table, workers>>
    BY <1>5 DEF CheckManual
  <2>2. \A t \in Passes : pass'[t].at # "idle" => pass'[t].due = Slot(pass'[t].day)
    BY <1>1, <1>2, <2>1 DEF Jobbed, PassRows
  <2> QED BY <1>3, <2>1, <2>2, JobbedFrame DEF table
<1>6. CASE PassFails(s)
  <2>1. pass' = [pass EXCEPT ![s] = IdlePass] /\ UNCHANGED <<runs, table, workers>>
    BY <1>6 DEF PassFails
  <2>2. \A t \in Passes : pass'[t].at # "idle" => pass'[t].due = Slot(pass'[t].day)
    BY <1>1, <1>2, <2>1 DEF Jobbed
  <2> QED BY <1>3, <2>1, <2>2, JobbedFrame DEF table
<1>7. CASE InsertDaily(s) /\ Conflict("daily", pass[s].due)
  <2>1. /\ pass' = [pass EXCEPT ![s] = [pass[s] EXCEPT !.at = "find"]]
        /\ pass[s].at # "idle" /\ UNCHANGED <<runs, table, workers>>
    BY <1>7 DEF InsertDaily
  <2>2. \A t \in Passes : pass'[t].at # "idle" => pass'[t].due = Slot(pass'[t].day)
    BY <1>1, <2>1 DEF Jobbed, PassRows
  <2> QED BY <1>3, <2>1, <2>2, JobbedFrame DEF table
<1>8. CASE InsertDaily(s) /\ ~Conflict("daily", pass[s].due)
  <2> DEFINE day == pass[s].day
             due == pass[s].due
  <2>1. /\ pass' = [pass EXCEPT ![s] = IdlePass] /\ UNCHANGED workers
        /\ InsertRun("daily", due) /\ EnqueueJob(DayKey(day), Len(runs) + 1)
        /\ pass[s].at # "idle"
    BY <1>8 DEF InsertDaily
  <2>2. day \in Days /\ due \in Int /\ due = Slot(day)
    BY <1>1, <2>1 DEF Jobbed, PassRows
  <2>3. stage[DayKey(day)] = "absent"
    BY <1>8, <2>2 DEF Conflict, Jobbed
  <2>4. \A t \in Passes : pass'[t].at # "idle" => pass'[t].due = Slot(pass'[t].day)
    BY <1>1, <1>2, <2>1 DEF Jobbed
  <2>5. DayKey(day) \in Keys
    BY <2>2, KeysOf
  <2>6. /\ \A d \in Days : DayKey(day) = DayKey(d) => due = Slot(d)
        /\ \A i \in RunIds : DayKey(day) # RunKey(i)
    BY <2>2, KeysDiffer
  <2> HIDE DEF day, due
  <2> QED BY <2>1, <2>2, <2>3, <2>4, <2>5, <2>6, JobbedInsert
<1>9. CASE FindDaily(s)
  <2> DEFINE day == pass[s].day
             found == {i \in DOMAIN runs : runs[i].type = "daily" /\ runs[i].due = pass[s].due}
  <2>1. /\ pass' = [pass EXCEPT ![s] = IdlePass] /\ UNCHANGED <<runs, workers>>
        /\ pass[s].at # "idle"
        /\ UNCHANGED table \/ \E i \in found : EnqueueJob(DayKey(day), i)
    BY <1>9 DEF FindDaily
  <2>2. day \in Days /\ pass[s].due = Slot(day) /\ DayKey(day) \in Keys
    BY <1>1, <2>1, KeysOf DEF Jobbed, PassRows
  <2>3. \A t \in Passes : pass'[t].at # "idle" => pass'[t].due = Slot(pass'[t].day)
    BY <1>1, <1>2, <2>1 DEF Jobbed
  <2>4. CASE UNCHANGED table
    BY <1>3, <2>1, <2>3, <2>4, JobbedFrame DEF table
  <2>5. ASSUME NEW i \in found, EnqueueJob(DayKey(day), i) PROVE Jobbed'
    <3>1. TableEvolves /\ \A l \in Keys \ {DayKey(day)} : stage'[l] = stage[l]
      BY <1>1, <2>2, <2>5, EnqueueEvolves
    <3>2. ASSUME NEW d \in Days, stage'[DayKey(d)] # "absent"
          PROVE  stage[DayKey(d)] # "absent" \/
                   \E j \in DOMAIN runs : runs[j].type = "daily" /\ runs[j].due = Slot(d)
      <4>1. CASE d = day
        BY <2>2, <4>1
      <4>2. CASE d # day
        BY <2>2, <3>1, <3>2, <4>2, KeysOf, KeysDiffer
      <4> QED BY <4>1, <4>2
    <3>3. ASSUME NEW j \in RunIds PROVE stage'[RunKey(j)] = stage[RunKey(j)]
      <4>1. RunKey(j) \in Keys /\ RunKey(j) # DayKey(day)
        BY <2>2, KeysDiffer DEF Keys
      <4> QED BY <3>1, <4>1
    <3> QED BY <2>1, <2>3, <3>1, <3>2, <3>3, JobbedFrame
  <2> QED BY <2>1, <2>4, <2>5
<1> QED BY <1>4, <1>5, <1>6, <1>7, <1>8, <1>9 DEF PassStep

LEMMA JobbedRequest ==
  ASSUME SettingsFixed, Base, Base', Jobbed, NEW r \in Requests, BeginRequest(r) \/ RequestStep(r)
  PROVE  Jobbed'
<1>1. Len(runs) \in Nat /\ DOMAIN runs = 1 .. Len(runs) /\ Len(runs) <= MaxRuns
  BY LenProperties DEF Base, AdmissionTypeOK
<1>2. pass' = pass /\ UNCHANGED workers
  BY DEF BeginRequest, RequestStep, LookForRun, InsertManual, ResolveConflict
<1>3. \A t \in Passes : pass'[t].at # "idle" => pass'[t].due = Slot(pass'[t].day)
  BY <1>2 DEF Jobbed
<1>4. CASE UNCHANGED <<runs, table>>
  BY <1>2, <1>3, <1>4, JobbedFrame DEF table, TableEvolves
<1>5. CASE InsertManual(r) /\ ~Conflict("manual", request[r].now)
  <2> DEFINE i == Len(runs) + 1
             due == request[r].now
  <2>1. InsertRun("manual", due) /\ EnqueueJob(RunKey(i), Len(runs) + 1)
    BY <1>5 DEF InsertManual
  <2>2. i \in RunIds /\ i > Len(runs) /\ due \in Int
    BY <1>1, <2>1, AdmissionAssumption DEF RunIds, InsertRun, Base, AdmissionTypeOK
  <2>3. stage[RunKey(i)] = "absent" /\ RunKey(i) \in Keys
    BY <2>2 DEF Jobbed, Keys
  <2>4. /\ \A d \in Days : RunKey(i) # DayKey(d)
        /\ \A j \in RunIds : RunKey(i) = RunKey(j) => j = i
    BY <2>2, KeysDiffer
  <2>5. i = Len(runs) + 1
    OBVIOUS
  <2> HIDE DEF i, due
  <2> QED BY <1>2, <1>3, <2>1, <2>2, <2>3, <2>4, <2>5, JobbedInsert
<1>6. ASSUME NEW i \in DOMAIN runs, EnqueueJob(RunKey(i), i), UNCHANGED runs PROVE Jobbed'
  <2>1. i \in RunIds /\ i \in Nat /\ RunKey(i) \in Keys
    BY <1>1, AdmissionAssumption DEF RunIds, Keys
  <2>2. TableEvolves /\ \A l \in Keys \ {RunKey(i)} : stage'[l] = stage[l]
    BY <1>6, <2>1, EnqueueEvolves
  <2>3. ASSUME NEW d \in Days PROVE stage'[DayKey(d)] = stage[DayKey(d)]
    <3>1. DayKey(d) \in Keys /\ DayKey(d) # RunKey(i)
      BY <2>1, KeysOf, KeysDiffer
    <3> QED BY <2>2, <3>1
  <2>4. ASSUME NEW j \in RunIds, j > Len(runs) PROVE stage'[RunKey(j)] = stage[RunKey(j)]
    <3>1. j # i
      BY <1>1, <2>4
    <3>2. RunKey(j) \in Keys /\ RunKey(j) # RunKey(i)
      BY <2>1, <3>1, KeysDiffer DEF Keys
    <3> QED BY <2>2, <3>2
  <2> QED BY <1>2, <1>3, <1>6, <2>2, <2>3, <2>4, JobbedFrame
<1>7. CASE LookForRun(r) \/ ResolveConflict(r)
  <2>1. UNCHANGED runs /\ (UNCHANGED table \/ \E i \in DOMAIN runs : EnqueueJob(RunKey(i), i))
    BY <1>7 DEF LookForRun, ResolveConflict, Active
  <2> QED BY <1>4, <1>6, <2>1
<1>8. CASE BeginRequest(r) \/ (InsertManual(r) /\ Conflict("manual", request[r].now))
  BY <1>4, <1>8 DEF BeginRequest, InsertManual
<1> QED BY <1>5, <1>7, <1>8 DEF RequestStep

LEMMA JobbedWorker ==
  ASSUME SettingsFixed, Base, Base', Jobbed, NEW w \in Workers, WorkerStep(w) \/ FailJob(w) \/ Vanish(w)
  PROVE  Jobbed'
<1>1. /\ Len(runs) \in Nat /\ DOMAIN runs = 1 .. Len(runs)
      /\ handler \in [Workers -> {"none", "start", "work", "done"}]
      /\ claimed \in [Workers -> Keys \cup {None}]
      /\ stage \in [Keys -> Queue!Stages]
  BY LenProperties DEF Base, AdmissionTypeOK, Queue!TypeOK
<1>2. UNCHANGED <<settings, payload, pass>>
  BY DEF WorkerStep, TakeJob, StartRun, EndRun, CompleteJob, FailJob, SettleJob, Vanish, table
<1>3. \A d : Slot(d)' = Slot(d)
  BY <1>2 DEF Slot, settings
<1>4. \A s \in Passes : (pass[s].at # "idle" => pass[s].due = Slot(pass[s].day))'
  BY <1>2 DEF Slot, settings, Jobbed
<1>5. \A d \in Days : DayKey(d) \in Keys
  BY KeysOf
<1>6. \A i \in RunIds : RunKey(i) \in Keys
  BY DEF Keys
<1>7. ASSUME UNCHANGED runs \/ (RowsEvolve /\ Len(runs') = Len(runs)),
             \A k \in Keys : stage'[k] = "absent" <=> stage[k] = "absent",
             \A i \in DOMAIN runs : runs'[i].status = "queued" => HasJob(i)',
             \A v \in Workers : handler'[v] \in {"work", "done"} =>
                runs'[payload'[claimed'[v]]].status # "queued"
      PROVE  Jobbed'
  <2>1. Len(runs') = Len(runs) /\ DOMAIN runs' = DOMAIN runs
    BY <1>1, <1>7, LenProperties DEF RowsEvolve
  <2>2. \A i \in DOMAIN runs : runs'[i].type = runs[i].type /\ runs'[i].due = runs[i].due
    BY <1>7 DEF RowsEvolve
  <2>3. ASSUME NEW d \in Days, stage'[DayKey(d)] # "absent"
        PROVE  \E i \in DOMAIN runs' : runs'[i].type = "daily" /\ runs'[i].due = Slot(d)'
    <3>1. stage[DayKey(d)] # "absent"
      BY <1>5, <1>7, <2>3
    <3>2. PICK i \in DOMAIN runs : runs[i].type = "daily" /\ runs[i].due = Slot(d)
      BY <3>1 DEF Jobbed
    <3> QED BY <1>3, <2>1, <2>2, <3>2
  <2>4. \A i \in RunIds : i > Len(runs') => stage'[RunKey(i)] = "absent"
    BY <1>6, <1>7, <2>1 DEF Jobbed
  <2> QED BY <1>4, <1>7, <2>1, <2>3, <2>4 DEF Jobbed
<1>8. CASE (\E k \in Keys : TakeJob(w, k)) \/ FailJob(w) \/ Vanish(w)
  <2>1. /\ UNCHANGED runs
        /\ \/ UNCHANGED stage
           \/ \E k \in Keys, s \in LiveStage : stage[k] \in LiveStage /\ stage' = [stage EXCEPT ![k] = s]
        /\ \E h \in {"none", "start"} : handler' = [handler EXCEPT ![w] = h]
        /\ \E c \in Keys \cup {None} : claimed' = [claimed EXCEPT ![w] = c]
    <3>1. CASE FailJob(w)
      <4>1. claimed[w] \in Keys /\ stage[claimed[w]] = "held"
        BY <3>1, <1>1, NoneAssumption DEF FailJob, Base, Assigned
      <4> QED BY <3>1, <4>1 DEF FailJob, SettleJob, Queue!Settle, LiveStage
    <3>2. CASE (\E k \in Keys : TakeJob(w, k)) \/ Vanish(w)
      BY <3>2 DEF TakeJob, Vanish, Queue!Take, table, LiveStage
    <3> QED BY <1>8, <3>1, <3>2
  <2>2. /\ \A k \in Keys : stage'[k] = "absent" <=> stage[k] = "absent"
        /\ TableEvolves
    BY <1>1, <1>2, <2>1 DEF TableEvolves, LiveStage
  <2>3. \A i \in DOMAIN runs : runs'[i].status = "queued" => HasJob(i)'
    BY <2>1, <2>2, HasJobFrame
  <2>4. ASSUME NEW v \in Workers, handler'[v] \in {"work", "done"}
        PROVE  runs'[payload'[claimed'[v]]].status # "queued"
    <3>1. v # w /\ handler[v] \in {"work", "done"} /\ claimed'[v] = claimed[v]
      BY <1>1, <2>1, <2>4
    <3> QED BY <1>2, <2>1, <3>1 DEF Jobbed
  <2> QED BY <1>7, <2>1, <2>2, <2>3, <2>4
<1>9. CASE StartRun(w) \/ EndRun(w)
  <2> DEFINE i == payload[claimed[w]]
  <2>1. /\ handler[w] # "none" /\ UNCHANGED <<stage, claimed>>
        /\ \E h \in {"work", "done"} : handler' = [handler EXCEPT ![w] = h]
        /\ \/ UNCHANGED runs /\ runs[i].status # "queued"
           \/ \E s \in TerminalRun \cup {"working"} : SetStatus(i, s)
    <3>1. CASE StartRun(w)
      BY <3>1 DEF StartRun, table, TerminalRun
    <3>2. CASE EndRun(w)
      BY <3>2 DEF EndRun, table
    <3> QED BY <1>9, <3>1, <3>2
  <2>2. i \in DOMAIN runs
    BY <2>1, BusyWorker
  <2>3. /\ UNCHANGED runs \/ (RowsEvolve /\ Len(runs') = Len(runs))
        /\ runs'[i].status # "queued"
    <3>1. ASSUME NEW s \in TerminalRun \cup {"working"}, SetStatus(i, s)
          PROVE  RowsEvolve /\ Len(runs') = Len(runs) /\ runs'[i].status # "queued"
      BY <2>2, <3>1, SetStatusRows DEF Base, TerminalRun
    <3> QED BY <2>1, <3>1
  <2>4. TableEvolves /\ \A k \in Keys : stage'[k] = "absent" <=> stage[k] = "absent"
    BY <1>2, <2>1 DEF TableEvolves
  <2>5. \A k \in DOMAIN runs : runs'[k].status = "queued" => HasJob(k)'
    BY <2>3, <2>4, HasJobFrame
  <2>6. ASSUME NEW v \in Workers, handler'[v] \in {"work", "done"}
        PROVE  runs'[payload'[claimed'[v]]].status # "queued"
    <3>1. CASE v = w
      BY <1>2, <2>1, <2>3, <3>1
    <3>2. CASE v # w
      <4>1. handler[v] \in {"work", "done"}
        BY <1>1, <2>1, <2>6, <3>2
      <4>2. payload[claimed[v]] \in DOMAIN runs /\ runs[payload[claimed[v]]].status # "queued"
        BY <4>1, BusyWorker DEF Jobbed
      <4> QED BY <1>2, <2>1, <2>3, <4>2 DEF RowsEvolve
    <3> QED BY <3>1, <3>2
  <2> QED BY <1>7, <2>3, <2>4, <2>5, <2>6
<1>10. CASE CompleteJob(w)
  <2> DEFINE k == claimed[w]
  <2>1. /\ handler[w] = "done" /\ UNCHANGED runs
        /\ stage' = [stage EXCEPT ![k] = "completed"]
        /\ handler' = [handler EXCEPT ![w] = "none"] /\ claimed' = [claimed EXCEPT ![w] = None]
    BY <1>10 DEF CompleteJob, SettleJob, Queue!Settle
  <2>2. k \in Keys /\ stage[k] = "held" /\ runs[payload[k]].status # "queued"
    BY <2>1, BusyWorker DEF Jobbed
  <2>3. \A l \in Keys : stage'[l] = "absent" <=> stage[l] = "absent"
    BY <1>1, <2>1, <2>2
  <2>4. ASSUME NEW i \in DOMAIN runs, runs'[i].status = "queued" PROVE HasJob(i)'
    <3>1. PICK l \in Keys : payload[l] = i /\ stage[l] \in LiveStage
      BY <2>1, <2>4 DEF Jobbed, HasJob
    <3>2. l # k
      BY <2>1, <2>2, <2>4, <3>1
    <3>3. stage'[l] = stage[l]
      BY <1>1, <2>1, <3>2
    <3> QED BY <1>2, <3>1, <3>3 DEF HasJob
  <2>5. ASSUME NEW v \in Workers, handler'[v] \in {"work", "done"}
        PROVE  runs'[payload'[claimed'[v]]].status # "queued"
    <3>1. v # w /\ handler[v] \in {"work", "done"} /\ claimed'[v] = claimed[v]
      BY <1>1, <2>1, <2>5
    <3> QED BY <1>2, <2>1, <3>1 DEF Jobbed
  <2> QED BY <1>7, <2>1, <2>3, <2>4, <2>5
<1> QED BY <1>8, <1>9, <1>10 DEF WorkerStep

LEMMA JobbedStep == SettingsFixed /\ Base /\ Base' /\ Jobbed /\ [Next]_vars => Jobbed'
<1> SUFFICES ASSUME SettingsFixed, Base, Base', Jobbed, [Next]_vars PROVE Jobbed'
  OBVIOUS
<1>1. CASE ChangeSettings \/ Tick \/ UNCHANGED vars
  <2>1. UNCHANGED <<runs, table, pass, workers>>
    BY <1>1 DEF ChangeSettings, Tick, vars
  <2>2. \A t \in Passes : pass'[t].at # "idle" => pass'[t].due = Slot(pass'[t].day)
    BY <2>1 DEF Jobbed
  <2> QED BY <2>1, <2>2, JobbedFrame DEF table, TableEvolves
<1> QED BY <1>1, JobbedPass, JobbedRequest, JobbedWorker DEF Next

\* While the user keeps the settings a queued run has a job that somebody will
\* execute, unless an error has failed it, whatever passes, requests and
\* workers race or vanish: run and job are one transaction, the key of a new
\* run is free, and no job is completed before its run was started.  The run
\* that expects a violation shows why the settings must not change.
THEOREM QueuedRunsHaveJobs == ASSUME SettingsFixed PROVE Spec => []QueuedRunHasJob
<1>1. Init => Jobbed
  <2> SUFFICES ASSUME Init PROVE Jobbed
    OBVIOUS
  <2>1. DOMAIN runs = {} /\ \A k \in Keys : stage[k] = "absent"
    BY DEF Init, Queue!Init
  <2>2. \A w \in Workers : handler[w] = "none"
    BY DEF Init
  <2>3. \A s \in Passes : pass[s].at = "idle"
    BY DEF Init, IdlePass
  <2>4. \A i \in RunIds : RunKey(i) \in Keys
    BY DEF Keys
  <2> QED BY <2>1, <2>2, <2>3, <2>4, KeysOf DEF Jobbed
<1>2. SettingsFixed /\ Base /\ Base' /\ Jobbed /\ [Next]_vars => Jobbed'
  BY JobbedStep
<1>3. Jobbed => QueuedRunHasJob
  BY DEF Jobbed, QueuedRunHasJob, HasJob, LiveStage
<1>4. SettingsFixed
  OBVIOUS
<1>5. Base /\ Base' /\ Jobbed /\ [Next]_vars => Jobbed'
  BY <1>2, <1>4
<1>6. Spec => []Base
  BY BaseInit, BaseStep, PTL DEF Spec
<1> QED BY <1>1, <1>3, <1>5, <1>6, PTL DEF Spec

-----------------------------------------------------------------------------
(* The days that manual runs have satisfied *)

\* A run that was requested by hand is the work of its own key, whoever
\* enqueued it; the keys of the scheduler lead to the runs of the scheduler.
OwnKeys ==
    \A k \in Keys : payload[k] # 0 =>
        k = RunKey(payload[k]) \/ runs[payload[k]].type = "daily"

\* Nothing was requested in the future.
Dated ==
    /\ \A r \in Requests : request[r].now <= now
    /\ \A i \in Manual : runs[i].due <= now

\* Nobody but its worker moves a manual run, so the one it has finished stays
\* finished.  A daily run may have two jobs and end under its worker's hands.
AtWork ==
    \A w \in Workers : handler[w] = "work" /\ runs[payload[claimed[w]]].type = "manual" =>
        runs[payload[claimed[w]]].status = "working"

\* A pass for a satisfied day is on its way to find that out.
Decided ==
    \A s \in Passes : pass[s].at # "idle" /\ pass[s].satisfied =>
        pass[s].at = "check" /\ SatisfiedBy(s) # {}

\* The inductive invariant of SatisfiedDayIsLeftAlone.
Minded == OwnKeys /\ Dated /\ AtWork /\ Decided

\* What passes and requests do to rows and jobs: they add a row of the
\* scheduler, or one with the time at which a request in progress began, and
\* enqueue a job under the row's own key or for a row of the scheduler.
Adds ==
    /\ RowsEvolve
    /\ \A i \in DOMAIN runs : runs'[i] = runs[i]
    /\ \A n \in DOMAIN runs' \ DOMAIN runs :
          runs'[n].type = "daily" \/ \E r \in Requests : runs'[n].due = request[r].now
    /\ \/ UNCHANGED table
       \/ \E k \in Keys, i \in Nat :
             EnqueueJob(k, i) /\ (k = RunKey(i) \/ runs'[i].type = "daily")

\* A step that leaves the rows alone.
LEMMA AddsNoRow ==
  ASSUME Base, UNCHANGED runs,
         \/ UNCHANGED table
         \/ \E k \in Keys, i \in Nat :
               EnqueueJob(k, i) /\ (k = RunKey(i) \/ runs[i].type = "daily")
  PROVE  Adds
<1>1. runs \in Seq(RunRows) /\ Len(runs) <= Len(runs)
  BY LenProperties DEF Base, AdmissionTypeOK
<1> QED BY <1>1 DEF Adds, RowsEvolve

LEMMA AddsRow ==
  ASSUME Base, NEW type \in {"daily", "manual"}, NEW due \in Int, NEW k \in Keys,
         InsertRun(type, due), EnqueueJob(k, Len(runs) + 1),
         \/ type = "daily"
         \/ (\E r \in Requests : due = request[r].now) /\ k = RunKey(Len(runs) + 1)
  PROVE  Adds
<1> DEFINE n == Len(runs) + 1
<1>1. AdmissionTypeOK /\ Len(runs) \in Nat /\ DOMAIN runs = 1 .. Len(runs)
  BY LenProperties DEF Base, AdmissionTypeOK
<1>2. /\ RowsEvolve /\ Len(runs') = n
      /\ runs'[n] = [type |-> type, due |-> due, status |-> "queued"]
      /\ \A i \in DOMAIN runs : runs'[i] = runs[i]
  BY <1>1, InsertRunRows
<1>3. runs'[n].type = type /\ runs'[n].due = due
  BY <1>2
<1>4. DOMAIN runs' = 1 .. n
  BY <1>2, LenProperties DEF RowsEvolve
<1>5. \A m \in DOMAIN runs' \ DOMAIN runs : m = n
  BY <1>1, <1>4
<1>6. n \in Nat
  BY <1>1
<1> QED BY <1>2, <1>3, <1>5, <1>6 DEF Adds

LEMMA PassAdds ==
  ASSUME Base, NEW s \in Passes, PassStep(s) \/ PassFails(s)
  PROVE  Adds
<1>1. pass[s].due \in Int /\ DayKey(pass[s].day) \in Keys
  BY KeysOf DEF Base, AdmissionTypeOK
<1>2. CASE InsertDaily(s) /\ ~Conflict("daily", pass[s].due)
  <2>1. InsertRun("daily", pass[s].due) /\ EnqueueJob(DayKey(pass[s].day), Len(runs) + 1)
    BY <1>2 DEF InsertDaily
  <2> QED BY <1>1, <2>1, AddsRow
<1>3. CASE FindDaily(s)
  <2>1. \A i \in DOMAIN runs : i \in Nat
    BY LenProperties DEF Base, AdmissionTypeOK
  <2>2. /\ UNCHANGED runs
        /\ \/ UNCHANGED table
           \/ \E i \in DOMAIN runs : EnqueueJob(DayKey(pass[s].day), i) /\ runs[i].type = "daily"
    BY <1>3 DEF FindDaily
  <2> QED BY <1>1, <2>1, <2>2, AddsNoRow
<1>4. CASE UNCHANGED <<runs, table>>
  BY <1>4, AddsNoRow
<1> QED BY <1>2, <1>3, <1>4 DEF PassStep, PassFails, BeginPass, CheckManual, InsertDaily

LEMMA RequestAdds ==
  ASSUME Base, NEW r \in Requests, BeginRequest(r) \/ RequestStep(r)
  PROVE  Adds
<1>1. /\ request[r].now \in Int
      /\ Len(runs) \in Nat /\ DOMAIN runs = 1 .. Len(runs) /\ Len(runs) <= MaxRuns
  BY LenProperties DEF Base, AdmissionTypeOK
<1>2. CASE InsertManual(r) /\ ~Conflict("manual", request[r].now)
  <2>1. InsertRun("manual", request[r].now) /\ EnqueueJob(RunKey(Len(runs) + 1), Len(runs) + 1)
    BY <1>2 DEF InsertManual
  <2>2. Len(runs) + 1 \in Nat \ {0} /\ Len(runs) + 1 <= MaxRuns
    BY <1>1, <2>1, AdmissionAssumption DEF InsertRun
  <2>3. RunKey(Len(runs) + 1) \in Keys
    BY <2>2, KeysOf
  <2> QED BY <1>1, <2>1, <2>3, AddsRow
<1>3. CASE LookForRun(r) \/ ResolveConflict(r)
  <2>1. ASSUME NEW i \in DOMAIN runs PROVE i \in Nat /\ RunKey(i) \in Keys
    <3>1. i \in Nat \ {0} /\ i <= MaxRuns
      BY <1>1, AdmissionAssumption
    <3> QED BY <3>1, KeysOf
  <2>2. UNCHANGED runs /\ (UNCHANGED table \/ \E i \in DOMAIN runs : EnqueueJob(RunKey(i), i))
    BY <1>3 DEF LookForRun, ResolveConflict, Active
  <2> QED BY <2>1, <2>2, AddsNoRow
<1>4. CASE UNCHANGED <<runs, table>>
  BY <1>4, AddsNoRow
<1> QED BY <1>2, <1>3, <1>4 DEF RequestStep, BeginRequest, InsertManual

\* What a worker does to rows: at most that of its own job moves, and the
\* worker that is at work afterwards has just begun or goes on.
LEMMA WorkerMoves ==
  ASSUME Base, Minded, NEW w \in Workers, WorkerStep(w) \/ FailJob(w) \/ Vanish(w)
  PROVE  /\ RowsEvolve /\ DOMAIN runs' = DOMAIN runs /\ UNCHANGED payload
         /\ \A i \in DOMAIN runs : runs'[i] = runs[i] \/
               /\ handler[w] # "none" /\ i = payload[claimed[w]]
               /\ handler'[w] = "work" => runs'[i].status = "working"
               /\ runs[i].type = "manual" => runs[i].status # "successful"
         /\ \A v \in Workers : handler'[v] = "work" =>
               /\ claimed'[v] = claimed[v]
               /\ \/ handler[v] = "work" /\ v # w
                  \/ v = w /\ handler[w] = "start" /\ runs'[payload[claimed[w]]].status = "working"
<1>1. /\ AdmissionTypeOK /\ runs \in Seq(RunRows)
      /\ Len(runs) \in Nat /\ DOMAIN runs = 1 .. Len(runs)
      /\ handler \in [Workers -> {"none", "start", "work", "done"}]
      /\ claimed \in [Workers -> Keys \cup {None}]
  BY LenProperties DEF Base, AdmissionTypeOK
<1>2. CASE (\E k \in Keys : TakeJob(w, k)) \/ CompleteJob(w) \/ FailJob(w) \/ Vanish(w)
  <2>1. /\ UNCHANGED <<runs, payload>>
        /\ \E h \in {"none", "start"} : handler' = [handler EXCEPT ![w] = h]
        /\ \E c \in Keys \cup {None} : claimed' = [claimed EXCEPT ![w] = c]
    BY <1>2 DEF TakeJob, CompleteJob, FailJob, SettleJob, Vanish, table
  <2>2. \A v \in Workers : handler'[v] = "work" =>
           v # w /\ handler[v] = "work" /\ claimed'[v] = claimed[v]
    BY <1>1, <2>1
  <2> QED BY <1>1, <2>1, <2>2 DEF RowsEvolve
<1>3. CASE StartRun(w) \/ EndRun(w)
  <2> DEFINE i == payload[claimed[w]]
  <2>1. /\ handler[w] # "none" /\ UNCHANGED <<claimed, payload>>
        /\ handler[w] = "start" \/ handler[w] = "work"
    BY <1>3 DEF StartRun, EndRun, table
  <2>2. i \in DOMAIN runs
    BY <2>1, BusyWorker
  <2>3. \/ /\ SetStatus(i, "working") /\ runs[i].status = "queued" /\ handler[w] = "start"
           /\ handler' = [handler EXCEPT ![w] = "work"]
        \/ /\ UNCHANGED runs /\ handler' = [handler EXCEPT ![w] = "done"]
        \/ /\ \E t \in TerminalRun : SetStatus(i, t)
           /\ handler[w] = "work" \/ runs[i].status \in {"queued", "working"}
           /\ handler' = [handler EXCEPT ![w] = "done"]
    BY <1>3 DEF StartRun, EndRun, TerminalRun
  <2>4. runs[i].type = "manual" /\ handler[w] = "work" => runs[i].status = "working"
    BY DEF Minded, AtWork
  <2>5. CASE UNCHANGED runs /\ handler' = [handler EXCEPT ![w] = "done"]
    <3>1. \A v \in Workers : handler'[v] = "work" => v # w /\ handler[v] = "work"
      BY <1>1, <2>5
    <3> QED BY <1>1, <2>1, <2>5, <3>1 DEF RowsEvolve
  <2>6. ASSUME NEW t \in TerminalRun \cup {"working"}, SetStatus(i, t),
               NEW h \in {"work", "done"}, handler' = [handler EXCEPT ![w] = h],
               h = "work" => t = "working" /\ handler[w] = "start",
               handler[w] = "work" \/ runs[i].status \in {"queued", "working"}
        PROVE  /\ RowsEvolve /\ DOMAIN runs' = DOMAIN runs
               /\ \A k \in DOMAIN runs : runs'[k] = runs[k] \/
                     /\ handler[w] # "none" /\ k = i
                     /\ handler'[w] = "work" => runs'[k].status = "working"
                     /\ runs[k].type = "manual" => runs[k].status # "successful"
               /\ \A v \in Workers : handler'[v] = "work" =>
                     \/ handler[v] = "work" /\ v # w
                     \/ v = w /\ handler[w] = "start" /\ runs'[i].status = "working"
    <3>1. /\ RowsEvolve /\ Len(runs') = Len(runs) /\ runs'[i].status = t
          /\ \A k \in DOMAIN runs \ {i} : runs'[k] = runs[k]
      BY <1>1, <2>2, <2>6, SetStatusRows
    <3>2. DOMAIN runs' = DOMAIN runs
      BY <1>1, <3>1, LenProperties DEF RowsEvolve
    <3>3. handler'[w] = h /\ \A v \in Workers \ {w} : handler'[v] = handler[v]
      BY <1>1, <2>6
    <3>4. runs[i].type = "manual" => runs[i].status # "successful"
      BY <2>4, <2>6
    <3> QED BY <2>1, <2>6, <3>1, <3>2, <3>3, <3>4
  <2>7. "working" \in TerminalRun \cup {"working"} /\ TerminalRun \subseteq TerminalRun \cup {"working"}
    OBVIOUS
  <2> HIDE DEF i
  <2>8. i = payload[claimed[w]]
    BY DEF i
  <2>9. CASE ~(UNCHANGED runs /\ handler' = [handler EXCEPT ![w] = "done"])
    <3>1. /\ RowsEvolve /\ DOMAIN runs' = DOMAIN runs
          /\ \A k \in DOMAIN runs : runs'[k] = runs[k] \/
                /\ handler[w] # "none" /\ k = i
                /\ handler'[w] = "work" => runs'[k].status = "working"
                /\ runs[k].type = "manual" => runs[k].status # "successful"
          /\ \A v \in Workers : handler'[v] = "work" =>
                \/ handler[v] = "work" /\ v # w
                \/ v = w /\ handler[w] = "start" /\ runs'[i].status = "working"
      <4>1. CASE /\ SetStatus(i, "working") /\ runs[i].status = "queued" /\ handler[w] = "start"
                 /\ handler' = [handler EXCEPT ![w] = "work"]
        BY <2>6, <4>1
      <4>2. CASE /\ \E t \in TerminalRun : SetStatus(i, t)
                 /\ handler[w] = "work" \/ runs[i].status \in {"queued", "working"}
                 /\ handler' = [handler EXCEPT ![w] = "done"]
        <5>1. PICK t \in TerminalRun : SetStatus(i, t)
          BY <4>2
        <5> QED BY <2>6, <4>2, <5>1
      <4> QED BY <2>3, <2>9, <4>1, <4>2
    <3> QED BY <2>1, <2>8, <3>1
  <2> QED BY <2>5, <2>9
<1> QED BY <1>2, <1>3 DEF WorkerStep

\* Jobs keep their runs, and runs what they were requested as.
LEMMA OwnKeysKept ==
  ASSUME Base, OwnKeys, RowsEvolve,
         \/ UNCHANGED payload
         \/ \E k \in Keys, i \in Nat :
               EnqueueJob(k, i) /\ (k = RunKey(i) \/ runs'[i].type = "daily")
  PROVE  OwnKeys'
<1>1. \A k \in Keys : payload[k] # 0 => payload[k] \in DOMAIN runs
  BY LenProperties DEF Base, AdmissionTypeOK
<1>2. ASSUME NEW k \in Keys, payload'[k] = payload[k], payload[k] # 0
      PROVE  k = RunKey(payload'[k]) \/ runs'[payload'[k]].type = "daily"
  BY <1>1, <1>2 DEF OwnKeys, RowsEvolve
<1>3. CASE UNCHANGED payload
  BY <1>2, <1>3 DEF OwnKeys
<1>4. ASSUME NEW l \in Keys, NEW i \in Nat, EnqueueJob(l, i),
             l = RunKey(i) \/ runs'[i].type = "daily"
      PROVE  OwnKeys'
  <2>1. /\ stage[l] = "absent" => payload'[l] = i
        /\ \A k \in Keys : k # l \/ stage[l] # "absent" => payload'[k] = payload[k]
    BY <1>4, EnqueueFacts DEF Base, EnqueueJob, table
  <2>2. ASSUME NEW k \in Keys, payload'[k] # 0
        PROVE  k = RunKey(payload'[k]) \/ runs'[payload'[k]].type = "daily"
    <3>1. CASE k = l /\ stage[l] = "absent"
      BY <1>4, <2>1, <3>1
    <3>2. CASE k # l \/ stage[l] # "absent"
      <4>1. payload'[k] = payload[k]
        BY <2>1, <3>2
      <4> QED BY <1>2, <2>2, <4>1
    <3> QED BY <3>1, <3>2
  <2> QED BY <2>2 DEF OwnKeys
<1> QED BY <1>3, <1>4

\* A new row is as old as the request it comes from, and time goes on.
LEMMA DatedKept ==
  ASSUME Base, Base', Dated, RowsEvolve, now <= now',
         \A n \in DOMAIN runs' \ DOMAIN runs :
            runs'[n].type = "daily" \/ \E r \in Requests : runs'[n].due = request[r].now,
         \A r \in Requests : request'[r].now = request[r].now \/ request'[r].now <= now
  PROVE  Dated'
<1>1. now \in Int /\ now' \in Int
  BY DEF Base, AdmissionTypeOK
<1>2. \A r \in Requests : request[r].now \in Int /\ request'[r].now \in Int
  BY DEF Base, AdmissionTypeOK
<1>3. \A i \in DOMAIN runs : runs[i].due \in Int
  <2>1. \A i \in DOMAIN runs : runs[i] \in RunRows
    BY LenProperties, ElementOfSeq DEF Base, AdmissionTypeOK
  <2> QED BY <2>1 DEF RunRows
<1>4. \A r \in Requests : request'[r].now <= now'
  BY <1>1, <1>2 DEF Dated
<1>5. ASSUME NEW i \in Manual' PROVE runs'[i].due <= now'
  <2>1. CASE i \in DOMAIN runs
    <3>1. i \in Manual /\ runs'[i].due = runs[i].due
      BY <2>1 DEF Manual, RowsEvolve
    <3> QED BY <1>1, <1>3, <2>1, <3>1 DEF Dated
  <2>2. CASE i \notin DOMAIN runs
    <3>1. PICK r \in Requests : runs'[i].due = request[r].now
      BY <2>2 DEF Manual
    <3> QED BY <1>1, <1>2, <3>1 DEF Dated
  <2> QED BY <2>1, <2>2
<1> QED BY <1>4, <1>5 DEF Dated

\* What a pass found stays there: the runs that satisfied its day stay
\* successful.
LEMMA DecidedKept ==
  ASSUME Decided, RowsEvolve, DOMAIN runs \subseteq DOMAIN runs',
         \A i \in Manual : runs[i].status = "successful" => runs'[i].status = "successful",
         NEW s \in Passes, pass'[s] = pass[s], pass'[s].at # "idle", pass'[s].satisfied
  PROVE  pass'[s].at = "check" /\ SatisfiedBy(s)' # {}
<1>1. pass[s].at = "check" /\ SatisfiedBy(s) # {}
  BY DEF Decided
<1>2. PICK i : i \in SatisfiedBy(s)
  BY <1>1
<1>3. i \in SatisfiedBy(s)'
  BY <1>2 DEF SatisfiedBy, Manual, RowsEvolve
<1> QED BY <1>1, <1>3

\* A step that only adds rows and jobs.
LEMMA AddsMinded ==
  ASSUME Base, Base', Minded, Adds, UNCHANGED <<now, workers>>,
         \A r \in Requests : request'[r].now = request[r].now \/ request'[r].now <= now,
         \A s \in Passes : pass'[s] # pass[s] =>
            (pass'[s].at # "idle" /\ pass'[s].satisfied => pass'[s].at = "check" /\ SatisfiedBy(s)' # {})
  PROVE  Minded'
<1>1. RowsEvolve /\ \A i \in DOMAIN runs : runs'[i] = runs[i]
  BY DEF Adds
<1>2. DOMAIN runs \subseteq DOMAIN runs'
  BY <1>1, LenProperties DEF RowsEvolve, Base, AdmissionTypeOK
<1>3. OwnKeys'
  BY <1>1, OwnKeysKept DEF Adds, Minded, table
<1>4. Dated'
  <2>1. now <= now'
    BY DEF Base, AdmissionTypeOK
  <2> QED BY <1>1, <2>1, DatedKept DEF Adds, Minded
<1>5. AtWork'
  <2>1. handler' = handler /\ claimed' = claimed
    BY DEF workers
  <2>2. ASSUME NEW w \in Workers, handler[w] = "work"
        PROVE  payload'[claimed[w]] = payload[claimed[w]] /\ payload[claimed[w]] \in DOMAIN runs
    BY <2>2, BusyWorker, JobsKept DEF Adds
  <2> QED BY <1>1, <2>1, <2>2 DEF Minded, AtWork
<1>6. Decided'
  <2>1. \A i \in Manual : runs[i].status = "successful" => runs'[i].status = "successful"
    BY <1>1 DEF Manual
  <2>2. ASSUME NEW s \in Passes, pass'[s].at # "idle", pass'[s].satisfied
        PROVE  pass'[s].at = "check" /\ SatisfiedBy(s)' # {}
    BY <1>1, <1>2, <2>1, <2>2, DecidedKept DEF Minded
  <2> QED BY <2>2 DEF Decided
<1> QED BY <1>3, <1>4, <1>5, <1>6 DEF Minded

\* A pass begins with what the rows tell, and ends when they tell that its day
\* is satisfied.
LEMMA PassMinded ==
  ASSUME Base, Base', Minded, NEW s \in Passes, PassStep(s) \/ PassFails(s)
  PROVE  Minded'
<1>1. Adds
  BY PassAdds
<1>2. UNCHANGED <<now, workers, request>>
  BY DEF PassStep, PassFails, BeginPass, CheckManual, InsertDaily, FindDaily
<1>3. pass \in [Passes -> PassRows]
  BY DEF Base, AdmissionTypeOK, PassRows
<1>4. \A t \in Passes \ {s} : pass'[t] = pass[t]
  BY <1>3 DEF PassStep, PassFails, BeginPass, CheckManual, InsertDaily, FindDaily
<1>5. ASSUME pass'[s].at # "idle", pass'[s].satisfied
      PROVE  pass'[s].at = "check" /\ SatisfiedBy(s)' # {}
  <2>1. CASE BeginPass(s)
    <3> DEFINE row == [at |-> "check", now |-> now, zone |-> zone, day |-> LocalDay(now),
                       due |-> Slot(LocalDay(now)), satisfied |-> Satisfied(LocalDay(now))]
    <3>1. pass'[s] = row /\ UNCHANGED runs
      BY <1>3, <2>1 DEF BeginPass
    <3>2. Satisfied(LocalDay(now))
      BY <1>5, <3>1
    <3>3. PICK i \in Manual : LocalDay(runs[i].due) = LocalDay(now) /\ runs[i].status = "successful"
      BY <3>2 DEF Satisfied
    <3>4. runs[i].due <= now
      BY DEF Minded, Dated
    <3>5. pass'[s].zone = zone /\ pass'[s].day = LocalDay(now) /\ pass'[s].now = now /\ pass'[s].at = "check"
      BY <3>1
    <3>6. i \in SatisfiedBy(s)'
      BY <3>1, <3>3, <3>4, <3>5 DEF SatisfiedBy, Manual, LocalDay
    <3> QED BY <3>5, <3>6
  <2>2. CASE pass' = [pass EXCEPT ![s] = IdlePass]
    BY <1>3, <1>5, <2>2 DEF IdlePass
  <2>3. CASE CheckManual(s) /\ SatisfiedBy(s) = {}
    <3>1. pass'[s] = [pass[s] EXCEPT !.at = "insert"] /\ pass[s].at = "check"
      BY <1>3, <2>3 DEF CheckManual
    <3>2. pass[s].satisfied
      BY <1>3, <1>5, <3>1 DEF PassRows
    <3> QED BY <2>3, <3>1, <3>2 DEF Minded, Decided
  <2>4. CASE InsertDaily(s) /\ pass' = [pass EXCEPT ![s].at = "find"]
    <3>1. pass'[s] = [pass[s] EXCEPT !.at = "find"] /\ pass[s].at = "insert"
      BY <1>3, <2>4 DEF InsertDaily
    <3>2. pass[s].satisfied
      BY <1>3, <1>5, <3>1 DEF PassRows
    <3> QED BY <3>1, <3>2 DEF Minded, Decided
  <2> QED BY <2>1, <2>2, <2>3, <2>4 DEF PassStep, PassFails, CheckManual, InsertDaily, FindDaily
<1> QED BY <1>1, <1>2, <1>4, <1>5, AddsMinded

LEMMA RequestMinded ==
  ASSUME Base, Base', Minded, NEW r \in Requests, BeginRequest(r) \/ RequestStep(r)
  PROVE  Minded'
<1>1. Adds
  BY RequestAdds
<1>2. UNCHANGED <<now, workers, pass>>
  BY DEF RequestStep, BeginRequest, LookForRun, InsertManual, ResolveConflict
<1>3. request \in [Requests -> RequestRows] /\ request[r] \in RequestRows
  BY DEF Base, AdmissionTypeOK, RequestRows
<1>4. now \in Nat /\ 0 <= now
  BY AdmissionAssumption DEF Base, AdmissionTypeOK
<1>5. \/ request' = [request EXCEPT ![r] = [at |-> "lock", now |-> now]]
      \/ request' = [request EXCEPT ![r] = IdleRequest]
      \/ \E a \in {"insert", "resolve"} : request' = [request EXCEPT ![r] = [request[r] EXCEPT !.at = a]]
  BY DEF RequestStep, BeginRequest, LookForRun, InsertManual, ResolveConflict
<1>6. \A a \in {"insert", "resolve"} : [request[r] EXCEPT !.at = a].now = request[r].now
  BY <1>3 DEF RequestRows
<1>7. \A q \in Requests \ {r} : request'[q] = request[q]
  BY <1>3, <1>5
<1>8. request'[r].now = request[r].now \/ request'[r].now <= now
  <2>1. CASE request' = [request EXCEPT ![r] = [at |-> "lock", now |-> now]]
    BY <1>3, <1>4, <2>1
  <2>2. CASE request' = [request EXCEPT ![r] = IdleRequest]
    BY <1>3, <1>4, <2>2 DEF IdleRequest
  <2>3. CASE \E a \in {"insert", "resolve"} : request' = [request EXCEPT ![r] = [request[r] EXCEPT !.at = a]]
    BY <1>3, <1>6, <2>3
  <2> QED BY <1>5, <2>1, <2>2, <2>3
<1> QED BY <1>1, <1>2, <1>7, <1>8, AddsMinded

\* A manual run that somebody works on is nobody else's to move.
LEMMA WorkerMinded ==
  ASSUME Base, Base', Minded, NEW w \in Workers, WorkerStep(w) \/ FailJob(w) \/ Vanish(w)
  PROVE  Minded'
<1>1. /\ RowsEvolve /\ DOMAIN runs' = DOMAIN runs /\ UNCHANGED payload
      /\ \A i \in DOMAIN runs : runs'[i] = runs[i] \/
            /\ handler[w] # "none" /\ i = payload[claimed[w]]
            /\ handler'[w] = "work" => runs'[i].status = "working"
            /\ runs[i].type = "manual" => runs[i].status # "successful"
      /\ \A v \in Workers : handler'[v] = "work" =>
            /\ claimed'[v] = claimed[v]
            /\ \/ handler[v] = "work" /\ v # w
               \/ v = w /\ handler[w] = "start" /\ runs'[payload[claimed[w]]].status = "working"
  BY WorkerMoves
<1>2. UNCHANGED <<now, request, pass>>
  BY DEF WorkerStep, TakeJob, StartRun, EndRun, CompleteJob, FailJob, SettleJob, Vanish
<1>3. OwnKeys'
  BY <1>1, OwnKeysKept DEF Minded
<1>4. Dated'
  <2>1. now <= now'
    BY <1>2 DEF Base, AdmissionTypeOK
  <2> QED BY <1>1, <1>2, <2>1, DatedKept DEF Minded
<1>5. AtWork'
  <2>1. ASSUME NEW v \in Workers, handler[v] = "work", v # w,
               NEW i, i = payload[claimed[v]], runs'[i].type = "manual"
        PROVE  runs'[i].status = "working"
    <3>1. i \in DOMAIN runs /\ claimed[v] \in Keys /\ holder[claimed[v]] = v
      BY <2>1, BusyWorker
    <3>2. runs[i].type = "manual" /\ runs[i].status = "working"
      BY <1>1, <2>1, <3>1 DEF RowsEvolve, Minded, AtWork
    <3>3. ASSUME handler[w] # "none", i = payload[claimed[w]] PROVE FALSE
      <4>1. claimed[w] \in Keys /\ holder[claimed[w]] = w
        BY <3>3, BusyWorker
      <4>2. i # 0
        BY <3>1, LenProperties DEF Base, AdmissionTypeOK
      <4>3. claimed[v] = RunKey(i) /\ claimed[w] = RunKey(i)
        BY <2>1, <3>1, <3>2, <3>3, <4>1, <4>2 DEF Minded, OwnKeys
      <4> QED BY <2>1, <3>1, <4>1, <4>3
    <3>4. runs'[i] = runs[i]
      BY <1>1, <3>1, <3>3
    <3> QED BY <3>2, <3>4
  <2> QED BY <1>1, <2>1 DEF AtWork
<1>6. Decided'
  <2>1. \A i \in Manual : runs[i].status = "successful" => runs'[i].status = "successful"
    BY <1>1 DEF Manual
  <2> QED BY <1>1, <1>2, <2>1, DecidedKept DEF Minded, Decided
<1> QED BY <1>3, <1>4, <1>5, <1>6 DEF Minded

\* Every step keeps Minded.
LEMMA MindedStep == Base /\ Base' /\ Minded /\ [Next]_vars => Minded'
<1> SUFFICES ASSUME Base, Base', Minded, [Next]_vars PROVE Minded'
  OBVIOUS
<1>1. CASE ChangeSettings \/ Tick \/ UNCHANGED vars
  <2>1. /\ UNCHANGED <<runs, table, pass, request, workers>>
        /\ now <= now'
    BY <1>1 DEF ChangeSettings, Tick, vars, Base, AdmissionTypeOK
  <2>2. runs \in Seq(RunRows) /\ RowsEvolve
    BY <2>1, LenProperties DEF RowsEvolve, Base, AdmissionTypeOK
  <2>3. OwnKeys' /\ AtWork' /\ Decided'
    BY <2>1 DEF Minded, OwnKeys, AtWork, Decided, SatisfiedBy, Manual, table, workers
  <2>4. Dated'
    BY <2>1, <2>2, DatedKept DEF Minded
  <2> QED BY <2>3, <2>4 DEF Minded
<1> QED BY <1>1, PassMinded, RequestMinded, WorkerMinded DEF Next

\* No pass creates the daily run of a day that a manual run has satisfied
\* before the pass began, whatever else is requested, executed, taken over or
\* changed in the settings meanwhile (schedule_due_daily_runs).
THEOREM SatisfiedDaysLeftAlone == Spec => SatisfiedDayIsLeftAlone
<1> DEFINE LeavesAlone ==
             \A s \in Passes :
                pass[s].at = "insert" /\ pass'[s] # pass[s] /\ runs' # runs => ~pass[s].satisfied
<1>1. Init => Minded
  <2> SUFFICES ASSUME Init PROVE Minded
    OBVIOUS
  <2>1. 0 <= now
    BY AdmissionAssumption DEF Init
  <2> QED BY <2>1 DEF Init, Minded, OwnKeys, Dated, AtWork, Decided, Manual, IdlePass, IdleRequest
<1>2. Minded => LeavesAlone
  BY DEF Minded, Decided
<1>3. Spec => []Base
  BY BaseInit, BaseStep, PTL DEF Spec
<1>4. Spec => []Minded
  BY <1>1, <1>3, MindedStep, PTL DEF Spec
<1>5. Spec => [][LeavesAlone]_vars
  BY <1>2, <1>4, PTL
<1> QED BY <1>5 DEF SatisfiedDayIsLeftAlone

-----------------------------------------------------------------------------
(* The queue below the runs *)

\* The scheduler, the requests and the workers only use what the job table
\* promises: every step of theirs enqueues a new key, takes or settles a job,
\* or does not show there.  LeasesImplementQueue is the other half.
THEOREM AdmissionUsesQueue == Spec => Queue!Spec
<1>1. Init => Queue!Init
  BY DEF Init
<1>2. Base /\ [Next]_vars => [Queue!Next]_(Queue!vars)
  <2> SUFFICES ASSUME Base, [Next]_vars PROVE [Queue!Next]_(Queue!vars)
    OBVIOUS
  <2>1. CASE UNCHANGED table
    BY <2>1 DEF table, Queue!vars
  <2>2. ASSUME Adds PROVE [Queue!Next]_(Queue!vars)
    <3>1. ASSUME NEW k \in Keys, NEW i \in Nat, EnqueueJob(k, i)
          PROVE  [Queue!Next]_(Queue!vars)
      <4>1. Queue!Enqueue(k) \/ UNCHANGED table
        BY <3>1 DEF EnqueueJob
      <4> QED BY <2>1, <4>1 DEF Queue!Next
    <3> QED BY <2>1, <2>2, <3>1 DEF Adds
  <2>3. ASSUME NEW w \in Workers, WorkerStep(w) \/ FailJob(w) \/ Vanish(w)
        PROVE  [Queue!Next]_(Queue!vars)
    <3>1. ASSUME NEW k \in Keys, TakeJob(w, k) PROVE Queue!Next
      <4>1. Queue!Take(w, k)
        BY <3>1 DEF TakeJob
      <4> QED BY <4>1 DEF Queue!Next
    <3>2. CASE CompleteJob(w) \/ FailJob(w)
      <4>1. handler[w] # "none"
        BY <3>2 DEF CompleteJob, FailJob, Base, Assigned
      <4>2. claimed[w] \in Keys /\ \E s \in Queue!Settled : Queue!Settle(w, claimed[w], s)
        BY <3>2, <4>1, BusyWorker DEF CompleteJob, FailJob, SettleJob, Queue!Settled
      <4> QED BY <4>2 DEF Queue!Next
    <3>3. CASE StartRun(w) \/ EndRun(w) \/ Vanish(w)
      BY <2>1, <3>3 DEF StartRun, EndRun, Vanish
    <3> QED BY <2>3, <3>1, <3>2, <3>3 DEF WorkerStep
  <2>4. CASE ChangeSettings \/ Tick \/ UNCHANGED vars
    BY <2>1, <2>4 DEF ChangeSettings, Tick, vars
  <2> QED BY <2>2, <2>3, <2>4, PassAdds, RequestAdds DEF Next
<1>3. Spec => []Base
  BY BaseInit, BaseStep, PTL DEF Spec
<1> QED BY <1>1, <1>2, <1>3, PTL DEF Spec, Queue!Spec

=============================================================================
