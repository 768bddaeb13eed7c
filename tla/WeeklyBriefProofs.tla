-------------------------- MODULE WeeklyBriefProofs --------------------------
(***************************************************************************)
(* Theorems about WeeklyBrief, for any calendar, number of weeks, scans    *)
(* and executors, and that it only uses what JobQueue promises.            *)
(***************************************************************************)
EXTENDS WeeklyBrief, SmallestElement, TLAPS

-----------------------------------------------------------------------------
(* The calendar *)

\* The run of a week is scheduled on its Monday, at an existing local time.
LEMMA SlotDay ==
  ASSUME NEW z \in Zones, NEW w \in Jobs, HasSlot(z, w)
  PROVE  Slot(z, w) \in Int /\ LocalDay(z, Slot(z, w)) = Monday(w)
<1> DEFINE k == Min(ValidAdvances(z, Monday(w), RunAt))
           wall == Monday(w) * DayLength + RunAt + k
<1>1. k \in 0 .. MaxAdvance /\ Local(z, Instant(z, wall)) = wall
  <2>1. ValidAdvances(z, Monday(w), RunAt) \in SUBSET Nat
    BY WeeklyAssumption DEF ValidAdvances
  <2>2. k \in ValidAdvances(z, Monday(w), RunAt)
    BY <2>1, Smallest DEF HasSlot
  <2> QED BY <2>2 DEF ValidAdvances
<1>2. /\ DayLength \in Nat \ {0} /\ WeekDays \in Nat /\ RunAt \in Nat /\ w \in Nat
      /\ RunAt + MaxAdvance < DayLength /\ MaxAdvance \in Nat
      /\ z.at \in Nat /\ z.before \in Int /\ z.after \in Int
  BY WeeklyAssumption
<1>3. Monday(w) \in Nat
  BY <1>2 DEF Monday
<1>4. wall \in Int
  BY <1>1, <1>2, <1>3
<1>5. Instant(z, wall) \in Int
  BY <1>2, <1>4 DEF Instant
<1>6. wall \div DayLength = Monday(w)
  <2>1. \A m, d, x \in Nat : x < d => (m * d + x) \div d = m
    OBVIOUS
  <2>2. wall = Monday(w) * DayLength + (RunAt + k) /\ RunAt + k \in Nat /\ RunAt + k < DayLength
    BY <1>1, <1>2, <1>3
  <2> QED BY <1>2, <1>3, <2>1, <2>2
<1>7. Slot(z, w) = Instant(z, wall)
  BY DEF Slot, FirstValid
<1> QED BY <1>1, <1>5, <1>6, <1>7 DEF LocalDay

\* Local days and periods are integers.
LEMMA LocalTypes ==
  ASSUME NEW z \in Zones
  PROVE  /\ \A t \in Int : LocalDay(z, t) \in Int
         /\ \A d \in Int : Week(z, d) \in [from : Int, to : Int]
<1>1. /\ DayLength \in Nat \ {0} /\ WeekDays \in Nat
      /\ z.at \in Nat /\ z.before \in Int /\ z.after \in Int
  BY WeeklyAssumption
<1>2. \A x \in Int : Instant(z, x) \in Int /\ Local(z, x) \in Int
  BY <1>1 DEF Instant, Local
<1>3. \A d \in Int : d * DayLength \in Int /\ d \div DayLength \in Int /\ d - WeekDays \in Int
  BY <1>1
<1>4. \A d \in Int : Midnight(z, d) \in Int
  BY <1>2, <1>3 DEF Midnight
<1> QED BY <1>2, <1>3, <1>4 DEF LocalDay, Week

\* The tables; and a publication that read the clock within the period of the
\* scheduler has committed before the slot.
LEMMA CalendarFacts ==
  ASSUME NEW z \in Zones, NEW w \in Jobs, HasSlot(z, w)
  PROVE  /\ w \in DOMAIN Calendar[z] /\ Calendar[z][w].slot = Slot(z, w)
         /\ Slot(z, w) \in Int
         /\ LocalDay(z, Slot(z, w)) = Monday(w) /\ Monday(w) \in Int
         /\ ScheduledPeriod(z, w) \in [from : Int, to : Int]
         /\ ScheduledPeriod(z, w).to + CommitWithin <= Slot(z, w)
<1>1. /\ w \in DOMAIN Calendar[z]
      /\ Calendar[z][w] = [slot |-> Slot(z, w), scheduled |-> ScheduledPeriod(z, w)]
  BY DEF Calendar
<1>2. Slot(z, w) \in Int /\ LocalDay(z, Slot(z, w)) = Monday(w)
  BY SlotDay
<1>3. /\ DayLength \in Nat \ {0} /\ WeekDays \in Nat /\ RunAt \in Nat /\ w \in Nat
      /\ MaxAdvance \in Nat /\ CommitWithin \in Nat
      /\ z.at \in Nat /\ z.before \in Int /\ z.after \in Int
      /\ CommitWithin <= RunAt /\ CommitWithin + (z.after - z.before) <= RunAt
  BY WeeklyAssumption
<1>4. Monday(w) \in Int
  BY <1>3 DEF Monday
<1>5. /\ ScheduledPeriod(z, w) \in [from : Int, to : Int]
      /\ ScheduledPeriod(z, w).to = Instant(z, Monday(w) * DayLength)
  BY <1>4, LocalTypes DEF ScheduledPeriod, Week, Midnight
<1>6. PICK k \in 0 .. MaxAdvance : Slot(z, w) = Instant(z, Monday(w) * DayLength + RunAt + k)
  <2>1. ValidAdvances(z, Monday(w), RunAt) \in SUBSET Nat
    BY WeeklyAssumption DEF ValidAdvances
  <2>2. Min(ValidAdvances(z, Monday(w), RunAt)) \in ValidAdvances(z, Monday(w), RunAt)
    BY <2>1, Smallest DEF HasSlot
  <2> QED BY <2>2 DEF ValidAdvances, Slot, FirstValid
<1>7. \A m \in Int : Instant(z, m) + CommitWithin <= Instant(z, m + RunAt + k)
  BY <1>3 DEF Instant
<1>8. ScheduledPeriod(z, w).to + CommitWithin <= Slot(z, w)
  <2>1. Monday(w) * DayLength \in Int
    BY <1>3, <1>4
  <2> QED BY <1>5, <1>6, <1>7, <2>1
<1> QED BY <1>1, <1>2, <1>4, <1>5, <1>8

-----------------------------------------------------------------------------
(* Types and times *)

\* A run exists once its slot has passed, a job and a handler belong to a run,
\* and a publication commits soon after it read the clock.
Dated ==
    /\ \A w \in Jobs : stage[w] # "absent" => run[w] # "absent"
    /\ \A w \in Jobs : run[w] # "absent" =>
          origin[w] \in Zones /\ HasSlot(origin[w], w) /\ Slot(origin[w], w) <= now
    /\ \A e \in Executors : at[e] # "none" => held[e] \in Jobs /\ run[held[e]] # "absent"
    /\ \A e \in Executors : at[e] \in {"ask", "publish"} => context[e].zone \in Zones
    /\ \A s \in Scans : finding[s] # "none" => stamp[s] <= now
    /\ \A s \in Scans : finding[s] = "writing" => now <= stamp[s] + CommitWithin

Base == WeeklyTypeOK /\ Dated

LEMMA NoContextType == NoContext \in Contexts
<1>1. [s \in {} |-> "completed"] \in [{} -> EndedScan]
  OBVIOUS
<1>2. [s \in {} |-> "completed"] \in Receipts
  BY <1>1 DEF Receipts
<1> QED BY <1>2 DEF NoContext, Contexts

\* The slot of a run and the day after its period, in the zone of the moment.
LEMMA SlotOfRun ==
  ASSUME Base, NEW w \in Jobs, run[w] # "absent"
  PROVE  /\ origin[w] \in Zones /\ ScheduledFor(w) = Slot(origin[w], w)
         /\ ScheduledFor(w) \in Int /\ ScheduledFor(w) <= now
         /\ LocalDay(origin[w], ScheduledFor(w)) = Monday(w)
         /\ zone \in Zones /\ EndDay(w) \in Int /\ EndDay(w) = LocalDay(zone, ScheduledFor(w))
<1>1. origin[w] \in Zones /\ HasSlot(origin[w], w) /\ Slot(origin[w], w) <= now /\ zone \in Zones
  BY DEF Base, Dated, WeeklyTypeOK
<1>2. ScheduledFor(w) = Slot(origin[w], w) /\ Slot(origin[w], w) \in Int
      /\ LocalDay(origin[w], Slot(origin[w], w)) = Monday(w)
  BY <1>1, CalendarFacts DEF ScheduledFor
<1> QED BY <1>1, <1>2, LocalTypes DEF EndDay

\* The context a handler works from, and the row it publishes.
LEMMA ContextType ==
  ASSUME Base, NEW w \in Jobs, run[w] # "absent"
  PROVE  /\ PeriodFindings(w) \in SUBSET Scans
         /\ CoverageReceipt(w) \in Receipts
         /\ Prepared(w) \in Contexts
         /\ Prepared(w).zone \in Zones
<1>1. PeriodFindings(w) \in SUBSET Scans
  BY DEF PeriodFindings
<1>2. CoverageReceipt(w) \in Receipts
  <2> DEFINE S == {x \in Scans : scan[x] \in EndedScan /\ Within(scanAt[x], Period(w))}
  <2>1. CoverageReceipt(w) = [s \in S |-> scan[s]]
    BY DEF CoverageReceipt
  <2>2. CoverageReceipt(w) \in [S -> EndedScan] /\ S \in SUBSET Scans
    BY <2>1
  <2> QED BY <2>2 DEF Receipts
<1>3. zone \in Zones /\ EndDay(w) \in Int
  BY SlotOfRun
<1> QED BY <1>1, <1>2, <1>3 DEF Prepared, Contexts

LEMMA PublicationType ==
  ASSUME NEW c \in Contexts, c.zone \in Zones
  PROVE  Publication(c) \in Briefs /\ Publication(c) # None
BY WeeklyAssumption DEF Publication, Briefs, Contexts

LEMMA BaseInit == WeeklyInit => Base
BY WeeklyAssumption, NoContextType
   DEF WeeklyInit, Init, Base, WeeklyTypeOK, TypeOK, Stages, Dated, Points, EndedScan, EndedRun

LEMMA QueueStep ==
  ASSUME TypeOK, NEW w \in Jobs,
         \/ Enqueue(w)
         \/ \E e \in Executors : Take(e, w) \/ \E o \in Settled : Settle(e, w, o)
         \/ UNCHANGED vars
  PROVE  /\ TypeOK'
         /\ \A v \in Jobs : stage'[v] # "absent" => stage[v] # "absent" \/ (Enqueue(w) /\ v = w)
BY DEF TypeOK, Stages, Enqueue, Take, Settle, Settled, vars

\* The clock, the user and the Scout Runs.
Environment == Tick \/ DisableUser \/ ChangeZone \/ (\E s \in Scans : ScanStep(s))

LEMMA EnvironmentBase ==
  ASSUME Base, Environment
  PROVE  Base' /\ UNCHANGED <<vars, slots, records, asked, handlers>>
<1> USE WeeklyAssumption DEF Base
<1>1. UNCHANGED <<vars, slots, records, asked, handlers>>
  BY DEF Environment, Tick, DisableUser, ChangeZone, ScanStep, StartScan, BeginPublish, CommitPublish,
         EndScan, RewriteScan, environment
<1>2. ASSUME now' \in 0 .. Horizon, zone' \in Zones, active' \in BOOLEAN, now <= now', errors' = errors,
             scan' \in [Scans -> {"absent", "live"} \cup EndedScan],
             scanAt' \in [Scans -> 0 .. Horizon],
             finding' \in [Scans -> {"none", "writing", "visible"}],
             stamp' \in [Scans -> 0 .. Horizon]
      PROVE  WeeklyTypeOK' /\ now <= now'
  BY <1>1, <1>2 DEF WeeklyTypeOK, TypeOK, vars, slots, records, handlers
<1>3. now \in 0 .. Horizon /\ Horizon \in Nat
  BY DEF WeeklyTypeOK
<1>4. WeeklyTypeOK' /\ now <= now'
  <2>1. CASE Tick
    BY <1>2, <1>3, <2>1 DEF Tick, WeeklyTypeOK, environment, slots
  <2>2. CASE DisableUser
    <3>1. active' \in BOOLEAN
      BY <2>2, Zenon DEF DisableUser
    <3>2. UNCHANGED <<now, zone, errors, scan, scanAt, finding, stamp>>
      BY <2>2 DEF DisableUser
    <3> QED BY <1>2, <1>3, <3>1, <3>2 DEF WeeklyTypeOK
  <2>3. ASSUME NEW s \in Scans, StartScan(s) \/ BeginPublish(s) \/ CommitPublish(s)
        PROVE  WeeklyTypeOK' /\ now <= now'
    BY <1>2, <1>3, <2>3 DEF StartScan, BeginPublish, CommitPublish, WeeklyTypeOK
  <2>4. ASSUME NEW s \in Scans, EndScan(s) \/ RewriteScan(s) PROVE WeeklyTypeOK' /\ now <= now'
    <3>1. PICK status \in {"live"} \cup EndedScan : scan' = [scan EXCEPT ![s] = status]
      BY <2>4 DEF EndScan, RewriteScan
    <3>2. scan' \in [Scans -> {"absent", "live"} \cup EndedScan]
      BY <3>1 DEF WeeklyTypeOK
    <3>3. UNCHANGED <<now, zone, active, errors, scanAt, finding, stamp>>
      BY <2>4 DEF EndScan, RewriteScan
    <3> QED BY <1>2, <1>3, <3>2, <3>3 DEF WeeklyTypeOK
  <2>5. CASE ChangeZone
    <3>1. UNCHANGED <<now, active, errors, scan, scanAt, finding, stamp>> /\ zone' \in Zones
      BY <2>5 DEF ChangeZone
    <3> QED BY <1>2, <1>3, <3>1 DEF WeeklyTypeOK
  <2> QED BY <2>1, <2>2, <2>3, <2>4, <2>5 DEF Environment, ScanStep
<1>5. /\ \A s \in Scans : finding'[s] # "none" => stamp'[s] <= now'
      /\ \A s \in Scans : finding'[s] = "writing" => now' <= stamp'[s] + CommitWithin
  <2>1. CASE Tick
    BY <1>3, <2>1 DEF Tick, Dated, WeeklyTypeOK, environment, slots
  <2>2. ASSUME NEW x \in Scans, BeginPublish(x)
        PROVE  /\ \A s \in Scans : finding'[s] # "none" => stamp'[s] <= now'
               /\ \A s \in Scans : finding'[s] = "writing" => now' <= stamp'[s] + CommitWithin
    BY <2>2 DEF BeginPublish, Dated, WeeklyTypeOK
  <2>3. CASE \E s \in Scans : CommitPublish(s)
    BY <2>3 DEF CommitPublish, Dated, WeeklyTypeOK
  <2>4. CASE DisableUser \/ ChangeZone \/ \E s \in Scans : StartScan(s) \/ EndScan(s) \/ RewriteScan(s)
    <3>1. UNCHANGED <<now, finding, stamp>>
      BY <2>4 DEF DisableUser, ChangeZone, StartScan, EndScan, RewriteScan
    <3> QED BY <3>1 DEF Dated
  <2> QED BY <2>1, <2>2, <2>3, <2>4 DEF Environment, ScanStep
<1>6. \A w \in Jobs : run[w] # "absent" =>
         origin[w] \in Zones /\ HasSlot(origin[w], w) /\ Slot(origin[w], w) <= now'
  <2>1. ASSUME NEW w \in Jobs, run[w] # "absent" PROVE Slot(origin[w], w) <= now'
    <3>1. origin[w] \in Zones /\ HasSlot(origin[w], w) /\ Slot(origin[w], w) <= now
      BY <2>1 DEF Dated
    <3>2. Slot(origin[w], w) \in Int
      BY <3>1, CalendarFacts
    <3>3. now' \in Int
      BY <1>3, <1>4 DEF WeeklyTypeOK
    <3> QED BY <3>3, <1>3, <1>4, <3>1, <3>2
  <2> QED BY <2>1 DEF Dated
<1>7. Dated'
  BY <1>1, <1>5, <1>6 DEF Dated, vars, slots, records, handlers
<1> QED BY <1>1, <1>4, <1>7

\* A step of the scheduler or of a handler that keeps runs in being.
LEMMA DatedFrame ==
  ASSUME Base, WeeklyTypeOK', UNCHANGED <<now, environment>>,
         \A w \in Jobs : stage'[w] # "absent" => stage[w] # "absent",
         \A w \in Jobs : run[w] # "absent" <=> run'[w] # "absent",
         \A e \in Executors : at'[e] # "none" =>
            \/ at[e] # "none" /\ held'[e] = held[e]
            \/ held'[e] \in Jobs /\ stage[held'[e]] # "absent",
         \A e \in Executors : at'[e] \in {"ask", "publish"} =>
            \/ at[e] \in {"ask", "publish"} /\ context'[e] = context[e]
            \/ context'[e].zone \in Zones
  PROVE  Base'
BY DEF Base, Dated, environment, slots

LEMMA BaseStep ==
  ASSUME Base, [WeeklyNext]_allVars
  PROVE  Base'
<1> USE DEF GoTo
<1>0. WeeklyTypeOK /\ TypeOK
  BY DEF Base, WeeklyTypeOK
<1>1. CASE UNCHANGED allVars
  BY <1>1 DEF allVars, Base, WeeklyTypeOK, TypeOK, Dated, vars, environment, slots, records, handlers
<1>2. CASE Environment
  BY <1>2, EnvironmentBase
<1>3. ASSUME NEW w \in Jobs, ScheduleWeekly(w) PROVE Base'
  <2>1. zone \in Zones /\ HasSlot(zone, w) /\ Calendar[zone][w].slot = Slot(zone, w)
        /\ Slot(zone, w) \in Int /\ Slot(zone, w) <= now
    <3>1. zone \in Zones /\ w \in DOMAIN Calendar[zone] /\ Calendar[zone][w].slot <= now
      BY <1>0, <1>3 DEF ScheduleWeekly, WeeklyTypeOK
    <3>2. HasSlot(zone, w)
      BY <3>1 DEF Calendar
    <3> QED BY <3>1, <3>2, CalendarFacts
  <2>2. UNCHANGED <<now, zone, active, scan, scanAt, finding, stamp, task, usage, brief, asked, handlers, errors>>
    BY <1>3 DEF ScheduleWeekly
  <2>3. CASE run[w] # "absent"
    <3>1. spare' = [spare EXCEPT ![w] = spare[w] \cup {Slot(zone, w)}] /\ UNCHANGED <<vars, run, origin>>
      BY <1>3, <2>1, <2>3 DEF ScheduleWeekly
    <3>2. spare' \in [Jobs -> SUBSET Int]
      BY <1>0, <2>1, <3>1 DEF WeeklyTypeOK
    <3> QED BY <1>0, <2>2, <3>1, <3>2 DEF Base, Dated, WeeklyTypeOK, TypeOK, vars, handlers
  <2>4. CASE run[w] = "absent"
    <3>1. /\ run' = [run EXCEPT ![w] = "queued"] /\ origin' = [origin EXCEPT ![w] = zone]
          /\ Enqueue(w) /\ UNCHANGED spare
      BY <1>3, <2>4 DEF ScheduleWeekly
    <3>2. TypeOK' /\ \A v \in Jobs : stage'[v] # "absent" => stage[v] # "absent" \/ v = w
      BY <1>0, <3>1, QueueStep
    <3>3. /\ run' \in [Jobs -> {"absent", "queued", "synthesizing"} \cup EndedRun]
          /\ origin' \in [Jobs -> Zones \cup {None}]
      BY <1>0, <2>1, <3>1 DEF WeeklyTypeOK
    <3>4. WeeklyTypeOK'
      BY <1>0, <2>2, <3>1, <3>2, <3>3 DEF WeeklyTypeOK, handlers
    <3>5. /\ run'[w] = "queued" /\ origin'[w] = zone
          /\ \A v \in Jobs \ {w} : run'[v] = run[v] /\ origin'[v] = origin[v]
      BY <1>0, <3>1 DEF WeeklyTypeOK
    <3>6. \A v \in Jobs : run[v] # "absent" => run'[v] # "absent"
      BY <3>5
    <3>7. \A v \in Jobs : run'[v] # "absent" =>
             origin'[v] \in Zones /\ HasSlot(origin'[v], v) /\ Slot(origin'[v], v) <= now
      BY <2>1, <3>5 DEF Base, Dated
    <3>8. /\ \A v \in Jobs : stage'[v] # "absent" => run'[v] # "absent"
          /\ \A e \in Executors : at[e] # "none" => held[e] \in Jobs /\ run'[held[e]] # "absent"
      BY <3>2, <3>5, <3>6 DEF Base, Dated
    <3> QED BY <2>2, <3>4, <3>7, <3>8 DEF Base, Dated, handlers
  <2> QED BY <2>3, <2>4
<1>4. ASSUME NEW e \in Executors, NEW w \in Jobs, StartHandler(e, w) PROVE Base'
  <2>1. errors' \in 0 .. MaxErrors
    BY <1>4, WeeklyAssumption DEF StartHandler, Base, WeeklyTypeOK
  <2>2. WeeklyTypeOK'
    BY <1>0, <1>4, <2>1, QueueStep DEF StartHandler, WeeklyTypeOK, environment, slots, records, Points
  <2>3. stage[w] # "absent" /\ \A v \in Jobs : stage'[v] # "absent" => stage[v] # "absent"
    BY <1>0, <1>4 DEF StartHandler, Take, TypeOK
  <2>4. \A f \in Executors : at'[f] # "none" =>
            \/ at[f] # "none" /\ held'[f] = held[f]
            \/ held'[f] \in Jobs /\ stage[held'[f]] # "absent"
    BY <1>0, <1>4, <2>3 DEF StartHandler, WeeklyTypeOK
  <2> QED BY <1>4, <2>2, <2>3, <2>4, DatedFrame DEF StartHandler, records
<1>5. ASSUME NEW e \in Executors, at[e] # "none"
      PROVE  held[e] \in Jobs /\ run[held[e]] # "absent"
  BY <1>5 DEF Base, Dated
<1>6. ASSUME NEW e \in Executors, at[e] # "none", UNCHANGED <<vars, now, environment, held>>,
             WeeklyTypeOK', \A f \in Executors \ {e} : at'[f] = at[f] /\ context'[f] = context[f],
             at'[e] \in {"ask", "publish"} => context'[e].zone \in Zones,
             \A v \in Jobs : run[v] # "absent" <=> run'[v] # "absent"
      PROVE  Base'
  BY <1>6, DatedFrame DEF vars
<1>7. ASSUME NEW e \in Executors, NEW r \in EndedRun \cup {"synthesizing"},
             NEW t, at[e] # "none", EndWith(held[e], r, t)
      PROVE  \A v \in Jobs : run[v] # "absent" <=> run'[v] # "absent"
  BY <1>0, <1>5, <1>7 DEF EndWith, EndedRun, WeeklyTypeOK
<1>8. ASSUME NEW e \in Executors, Prepare(e) PROVE Base'
  <2> DEFINE w == held[e]
  <2>1. w \in Jobs /\ run[w] # "absent" /\ at[e] = "start"
    BY <1>5, <1>8 DEF Prepare
  <2>2. Prepared(w) \in Contexts /\ Publication(Prepared(w)) \in Briefs /\ Prepared(w).zone \in Zones
    BY <2>1, ContextType, PublicationType
  <2>3. brief' \in [Jobs -> Briefs \cup {None}]
    BY <1>0, <1>8, <2>2 DEF Prepare, PrepareQueued, WeeklyTypeOK
  <2>4. context' \in [Executors -> Contexts]
    BY <1>0, <1>8, <2>2 DEF Prepare, PrepareQueued, WeeklyTypeOK
  <2>5. task[w] \in {"absent", "running", "succeeded", "failed", "cancelled"} /\ FailedTask(w) \in {"absent", "failed"}
    BY <1>0, <2>1 DEF WeeklyTypeOK, FailedTask
  <2>6. \/ UNCHANGED <<run, task>>
        \/ \E r \in EndedRun \cup {"synthesizing"},
              t \in {"absent", "running", "succeeded", "failed", "cancelled"} : EndWith(w, r, t)
    BY <1>8, <2>5 DEF Prepare, PrepareQueued, EndedRun
  <2>7. /\ run' \in [Jobs -> {"absent", "queued", "synthesizing"} \cup EndedRun]
        /\ task' \in [Jobs -> {"absent", "running", "succeeded", "failed", "cancelled"}]
    BY <1>0, <2>6 DEF EndWith, WeeklyTypeOK
  <2>8. /\ at' \in [Executors -> Points]
        /\ \A f \in Executors \ {e} : at'[f] = at[f] /\ context'[f] = context[f]
        /\ at'[e] \in {"ask", "publish"} => context'[e] = Prepared(w)
    BY <1>0, <1>8 DEF Prepare, PrepareQueued, WeeklyTypeOK, Points
  <2>9. UNCHANGED <<vars, now, environment, usage, asked, held, errors>>
    BY <1>8 DEF Prepare
  <2>10. WeeklyTypeOK'
    BY <1>0, <2>3, <2>4, <2>7, <2>8, <2>9 DEF WeeklyTypeOK, TypeOK, vars, environment, slots
  <2>11. \A v \in Jobs : run[v] # "absent" <=> run'[v] # "absent"
    BY <1>7, <2>1, <2>6
  <2> QED BY <1>6, <2>1, <2>2, <2>8, <2>9, <2>10, <2>11
<1>9. ASSUME NEW e \in Executors, AskProvider(e) PROVE Base'
  <2>1. at[e] = "ask" /\ held[e] \in Jobs /\ UNCHANGED <<vars, now, environment, records, held, errors>>
    BY <1>5, <1>9 DEF AskProvider
  <2>2. at' \in [Executors -> Points] /\ \A f \in Executors \ {e} : at'[f] = at[f] /\ context'[f] = context[f]
    BY <1>0, <1>9 DEF AskProvider, WeeklyTypeOK, Points
  <2>3. asked' \in [Jobs -> Nat]
    BY <1>0, <1>9, <2>1 DEF AskProvider, WeeklyTypeOK
  <2>4. context' \in [Executors -> Contexts]
    <3>1. \/ UNCHANGED context
          \/ \E references \in SUBSET Scans :
                context' = [context EXCEPT ![e].references = references]
      BY <1>9 DEF AskProvider
    <3>2. ASSUME NEW references \in SUBSET Scans
          PROVE  [context[e] EXCEPT !.references = references] \in Contexts
      <4>1. PICK c \in Contexts : c = context[e]
        BY <1>0 DEF WeeklyTypeOK
      <4>2. [c EXCEPT !.references = references] \in Contexts
        BY DEF Contexts
      <4> QED BY <4>1, <4>2
    <3>3. ASSUME NEW references \in SUBSET Scans,
                 context' = [context EXCEPT ![e] = [context[e] EXCEPT !.references = references]]
          PROVE  context' \in [Executors -> Contexts]
      BY <1>0, <3>2, <3>3 DEF WeeklyTypeOK
    <3> QED BY <1>0, <3>1, <3>3 DEF WeeklyTypeOK
  <2>5. WeeklyTypeOK'
    BY <1>0, <2>1, <2>2, <2>3, <2>4 DEF WeeklyTypeOK, TypeOK, vars, environment, slots, records
  <2>6. context'[e].zone = context[e].zone /\ context[e].zone \in Zones
    BY <1>0, <1>9, <2>1 DEF AskProvider, WeeklyTypeOK, Contexts, Base, Dated
  <2> QED BY <1>6, <2>1, <2>2, <2>5, <2>6 DEF records
<1>10. ASSUME NEW e \in Executors, Done(e), at[e] \in Points \ {"none"},
              brief' \in [Jobs -> Briefs \cup {None}], usage' \in [Jobs -> Nat],
              \/ UNCHANGED <<run, task>>
              \/ \E r \in EndedRun, t \in {"succeeded", "failed", "cancelled"} : EndWith(held[e], r, t)
       PROVE  Base'
  <2>1. /\ run' \in [Jobs -> {"absent", "queued", "synthesizing"} \cup EndedRun]
        /\ task' \in [Jobs -> {"absent", "running", "succeeded", "failed", "cancelled"}]
    BY <1>0, <1>10 DEF EndWith, WeeklyTypeOK
  <2>2. /\ at' \in [Executors -> Points] /\ at'[e] = "done"
        /\ \A f \in Executors \ {e} : at'[f] = at[f] /\ context'[f] = context[f]
    BY <1>0, <1>10 DEF Done, WeeklyTypeOK, Points
  <2>3. context' \in [Executors -> Contexts]
    BY <1>0, <1>10, NoContextType DEF Done, WeeklyTypeOK
  <2>4. WeeklyTypeOK'
    BY <1>0, <1>10, <2>1, <2>2, <2>3 DEF Done, WeeklyTypeOK, TypeOK, vars, environment, slots
  <2>5. \A v \in Jobs : run[v] # "absent" <=> run'[v] # "absent"
    BY <1>7, <1>10
  <2> QED BY <1>6, <1>10, <2>2, <2>4, <2>5 DEF Done
<1>11. ASSUME NEW w \in Jobs PROVE RecordUsage(w) => usage' \in [Jobs -> Nat]
  BY <1>0 DEF RecordUsage, WeeklyTypeOK
<1>12. ASSUME NEW e \in Executors, Publish(e) PROVE Base'
  <2>1. at[e] = "publish" /\ held[e] \in Jobs
    BY <1>5, <1>12 DEF Publish
  <2>2. Publication(context[e]) \in Briefs
    BY <1>0, <2>1, PublicationType DEF WeeklyTypeOK, Base, Dated
  <2>3. brief' \in [Jobs -> Briefs \cup {None}] /\ usage' \in [Jobs -> Nat]
    BY <1>0, <1>11, <1>12, <2>1, <2>2 DEF Publish, InsertBrief, records, WeeklyTypeOK
  <2> QED BY <1>10, <1>12, <2>1, <2>3 DEF Publish, records, Points, EndedRun
<1>13. ASSUME NEW e \in Executors, Fail(e) PROVE Base'
  <2>1. at[e] \in Points \ {"none"} /\ held[e] \in Jobs
    BY <1>5, <1>13 DEF Fail, Points
  <2>2. brief' \in [Jobs -> Briefs \cup {None}] /\ usage' \in [Jobs -> Nat]
    BY <1>0, <1>11, <1>13, <2>1 DEF Fail, WeeklyTypeOK
  <2> QED BY <1>10, <1>13, <2>1, <2>2 DEF Fail, EndedRun
<1>14. ASSUME NEW e \in Executors, StopForCost(e) PROVE Base'
  <2>1. brief' \in [Jobs -> Briefs \cup {None}] /\ usage' \in [Jobs -> Nat]
    BY <1>0, <1>14 DEF StopForCost, WeeklyTypeOK
  <2> QED BY <1>10, <1>14, <2>1 DEF StopForCost, EndedRun, Points
<1>15. ASSUME NEW e \in Executors, HandlerError(e) \/ HandlerDies(e) PROVE Base'
  <2>0. errors' \in 0 .. MaxErrors
    <3>1. errors \in 0 .. MaxErrors /\ MaxErrors \in Nat /\ errors < MaxErrors /\ errors' = errors + 1
      BY <1>0, <1>15, WeeklyAssumption DEF HandlerError, HandlerDies, WeeklyTypeOK
    <3> QED BY <3>1
  <2>1. context' \in [Executors -> Contexts]
    BY <1>0, <1>15, NoContextType DEF HandlerError, HandlerDies, WeeklyTypeOK
  <2>2. WeeklyTypeOK'
    BY <1>0, <1>15, <2>0, <2>1 DEF HandlerError, HandlerDies, WeeklyTypeOK, TypeOK, vars, environment, slots, records, Points
  <2> QED BY <1>0, <1>15, <2>2, DatedFrame
          DEF HandlerError, HandlerDies, WeeklyTypeOK, vars, records
<1>16. ASSUME NEW e \in Executors, EndHandler(e) PROVE Base'
  <2>1. held[e] \in Jobs
    BY <1>5, <1>16 DEF EndHandler
  <2>2. TypeOK' /\ \A v \in Jobs : stage'[v] # "absent" => stage[v] # "absent"
    <3>1. \/ \E o \in Settled : Settle(e, held[e], o)
          \/ UNCHANGED vars
      BY <1>16 DEF EndHandler, Settled
    <3> QED BY <1>0, <2>1, <3>1 DEF TypeOK, Stages, Settle, Settled, vars
  <2>3. WeeklyTypeOK'
    BY <1>0, <1>16, <2>2 DEF EndHandler, WeeklyTypeOK, environment, slots, records, Points
  <2> QED BY <1>0, <1>16, <2>2, <2>3, DatedFrame DEF EndHandler, WeeklyTypeOK, records
<1> QED BY <1>1, <1>2, <1>3, <1>4, <1>8, <1>9, <1>12, <1>13, <1>14, <1>15, <1>16
        DEF WeeklyNext, Environment, HandlerStep

\* Every variable keeps its type, whatever handlers and crashes come in between.
THEOREM TypeCorrectW == WeeklySpec => []WeeklyTypeOK
<1>1. Base => WeeklyTypeOK
  BY DEF Base
<1> QED BY <1>1, BaseInit, BaseStep, PTL DEF WeeklySpec

-----------------------------------------------------------------------------
(* What is written to a brief and to the memory of a handler *)

LEMMA BriefsWritten ==
  ASSUME Base, [WeeklyNext]_allVars, NEW w \in Jobs, brief'[w] # brief[w]
  PROVE  \E e \in Executors :
            /\ held[e] = w
            /\ \/ at[e] = "start" /\ PeriodFindings(w) = {} /\ brief'[w] = Publication(Prepared(w))
               \/ at[e] = "publish" /\ brief'[w] = Publication(context[e])
<1>0. WeeklyTypeOK
  BY DEF Base
<1>1. ~UNCHANGED brief
  OBVIOUS
<1>2. \E e \in Executors : Prepare(e) \/ Publish(e)
  <2>1. Environment \/ UNCHANGED allVars => UNCHANGED brief
    BY DEF Environment, Tick, DisableUser, ChangeZone, ScanStep, StartScan, BeginPublish, CommitPublish,
           EndScan, RewriteScan, records, allVars
  <2>2. \A v \in Jobs : ScheduleWeekly(v) => UNCHANGED brief
    BY DEF ScheduleWeekly
  <2>3. \A e \in Executors :
           AskProvider(e) \/ Fail(e) \/ StopForCost(e) \/ EndHandler(e) \/ HandlerError(e) \/ HandlerDies(e)
           \/ (\E v \in Jobs : StartHandler(e, v)) => UNCHANGED brief
    BY DEF AskProvider, Fail, StopForCost, EndHandler, HandlerError, HandlerDies, StartHandler, records
  <2> QED BY <1>1, <2>1, <2>2, <2>3 DEF WeeklyNext, Environment, HandlerStep
<1>3. ASSUME NEW e \in Executors, Prepare(e)
      PROVE  /\ held[e] = w /\ at[e] = "start" /\ PeriodFindings(w) = {}
             /\ brief'[w] = Publication(Prepared(w))
  <2>1. PrepareQueued(e, held[e]) /\ at[e] = "start"
    BY <1>1, <1>3 DEF Prepare
  <2>2. PICK v : v = held[e]
    OBVIOUS
  <2>3. Prepared(v).findings = PeriodFindings(v)
    BY DEF Prepared
  <2>4. brief' = [brief EXCEPT ![v] = Publication(Prepared(v))] /\ PeriodFindings(v) = {}
    BY <1>1, <2>1, <2>2, <2>3 DEF PrepareQueued
  <2> QED BY <1>0, <2>1, <2>2, <2>4 DEF WeeklyTypeOK
<1>4. ASSUME NEW e \in Executors, Publish(e)
      PROVE  held[e] = w /\ at[e] = "publish" /\ brief'[w] = Publication(context[e])
  <2>1. at[e] = "publish" /\ brief' = [brief EXCEPT ![held[e]] = Publication(context[e])]
    BY <1>1, <1>4 DEF Publish, InsertBrief, records
  <2> QED BY <1>0, <2>1 DEF WeeklyTypeOK
<1> QED BY <1>2, <1>3, <1>4

LEMMA ContextsWritten ==
  ASSUME Base, [WeeklyNext]_allVars, NEW e \in Executors, at'[e] \in {"ask", "publish"}
  PROVE  /\ held'[e] = held[e] /\ held[e] \in Jobs /\ run[held[e]] # "absent"
         /\ \/ at[e] = at'[e] /\ context'[e] = context[e]
            \/ at[e] = "start" /\ at'[e] = "ask" /\ context'[e] = Prepared(held[e])
            \/ /\ at[e] = "ask" /\ at'[e] = "publish"
               /\ context'[e].findings = context[e].findings /\ context'[e].receipt = context[e].receipt
               /\ context'[e].day = context[e].day /\ context'[e].zone = context[e].zone
               /\ context'[e].references # {} /\ context'[e].references \subseteq context[e].findings
<1> USE DEF GoTo
<1>0. WeeklyTypeOK /\ \A f \in Executors : at[f] # "none" => held[f] \in Jobs /\ run[held[f]] # "absent"
  BY DEF Base, Dated
<1>1. CASE UNCHANGED handlers
  BY <1>0, <1>1 DEF handlers
<1>2. ASSUME NEW f \in Executors,
             Prepare(f) \/ AskProvider(f) \/ Publish(f) \/ Fail(f) \/ StopForCost(f) \/ EndHandler(f)
             \/ HandlerError(f) \/ HandlerDies(f) \/ (\E w \in Jobs : StartHandler(f, w)), f # e
      PROVE  at'[e] = at[e] /\ held'[e] = held[e] /\ context'[e] = context[e]
  BY <1>0, <1>2 DEF Prepare, PrepareQueued, AskProvider, Publish, Fail, StopForCost, Done, EndHandler,
     HandlerError, HandlerDies, StartHandler, WeeklyTypeOK
<1>3. ASSUME Publish(e) \/ Fail(e) \/ StopForCost(e) \/ EndHandler(e)
             \/ HandlerError(e) \/ HandlerDies(e) \/ (\E w \in Jobs : StartHandler(e, w))
      PROVE  FALSE
  BY <1>0, <1>3 DEF Publish, Fail, StopForCost, Done, EndHandler, HandlerError, HandlerDies,
     StartHandler, WeeklyTypeOK
<1>4. CASE Prepare(e)
  <2>1. at[e] = "start" /\ held' = held
    BY <1>4 DEF Prepare
  <2>2. at'[e] = "ask" /\ context'[e] = Prepared(held[e])
    BY <1>0, <1>4 DEF Prepare, PrepareQueued, WeeklyTypeOK
  <2> QED BY <1>0, <2>1, <2>2
<1>5. CASE AskProvider(e)
  <2>1. at[e] = "ask" /\ held' = held /\ at'[e] \in {"stop", "fail", "failpaid", "publish"}
    BY <1>0, <1>5 DEF AskProvider, WeeklyTypeOK
  <2>2. PICK references \in SUBSET Scans :
           /\ Grounded(references, context[e])
           /\ context' = [context EXCEPT ![e].references = references]
    BY <1>0, <1>5, <2>1 DEF AskProvider, WeeklyTypeOK
  <2>3. PICK c \in Contexts : c = context[e]
    BY <1>0 DEF WeeklyTypeOK
  <2>4. context'[e] = [c EXCEPT !.references = references]
    BY <1>0, <2>2, <2>3 DEF WeeklyTypeOK
  <2>5. /\ context'[e].findings = c.findings /\ context'[e].receipt = c.receipt
        /\ context'[e].day = c.day /\ context'[e].zone = c.zone /\ context'[e].references = references
    BY <2>4 DEF Contexts
  <2> QED BY <1>0, <2>1, <2>2, <2>3, <2>5 DEF Grounded
<1>6. Environment \/ (\E w \in Jobs : ScheduleWeekly(w)) \/ UNCHANGED allVars => UNCHANGED handlers
  BY DEF Environment, Tick, DisableUser, ChangeZone, ScanStep, StartScan, BeginPublish, CommitPublish,
         EndScan, RewriteScan, ScheduleWeekly, allVars
<1>7. CASE \E f \in Executors : f # e /\
             (Prepare(f) \/ AskProvider(f) \/ Publish(f) \/ Fail(f) \/ StopForCost(f) \/ EndHandler(f)
             \/ HandlerError(f) \/ HandlerDies(f) \/ (\E w \in Jobs : StartHandler(f, w)))
  BY <1>0, <1>2, <1>7
<1> QED BY <1>1, <1>3, <1>4, <1>5, <1>6, <1>7 DEF WeeklyNext, Environment, HandlerStep

\* The run of a week keeps its slot.
LEMMA SlotsStand ==
  ASSUME Base, [WeeklyNext]_allVars, NEW w \in Jobs, run[w] # "absent"
  PROVE  run'[w] # "absent" /\ origin'[w] = origin[w] /\ ScheduledFor(w)' = ScheduledFor(w)
<1>0. WeeklyTypeOK
  BY DEF Base
<1>1. ASSUME NEW v \in Jobs, ScheduleWeekly(v) PROVE run'[w] # "absent" /\ origin'[w] = origin[w]
  BY <1>0, <1>1 DEF ScheduleWeekly, WeeklyTypeOK
<1>2. ASSUME NEW e \in Executors, NEW r \in EndedRun \cup {"synthesizing"}, NEW t, EndWith(held[e], r, t)
      PROVE  run'[w] # "absent"
  BY <1>0, <1>2 DEF EndWith, EndedRun, WeeklyTypeOK
<1>3. ASSUME NEW e \in Executors, Prepare(e) \/ Publish(e) \/ Fail(e) \/ StopForCost(e)
      PROVE  run'[w] # "absent" /\ UNCHANGED origin
  <2>1. CASE UNCHANGED run
    BY <1>3, <2>1 DEF Prepare, Publish, Fail, StopForCost, Done, environment, slots
  <2>2. CASE \E r \in EndedRun \cup {"synthesizing"} : \E t : EndWith(held[e], r, t)
    BY <1>2, <1>3, <2>2 DEF Prepare, Publish, Fail, StopForCost, Done, environment, slots
  <2> QED BY <1>3, <2>1, <2>2 DEF Prepare, PrepareQueued, Publish, Fail, StopForCost, records, EndedRun
<1>4. \A e \in Executors :
         AskProvider(e) \/ EndHandler(e) \/ HandlerError(e) \/ HandlerDies(e)
         \/ (\E v \in Jobs : StartHandler(e, v)) => UNCHANGED <<run, origin>>
  BY DEF AskProvider, EndHandler, HandlerError, HandlerDies, StartHandler, records, environment, slots
<1>5. Environment \/ UNCHANGED allVars => UNCHANGED <<run, origin>>
  BY DEF Environment, Tick, DisableUser, ChangeZone, ScanStep, StartScan, BeginPublish, CommitPublish,
         EndScan, RewriteScan, records, environment, slots, allVars
<1>6. run'[w] # "absent" /\ origin'[w] = origin[w]
  BY <1>1, <1>3, <1>4, <1>5 DEF WeeklyNext, Environment, HandlerStep
<1> QED BY <1>6 DEF ScheduledFor

\* A brief, and the context of one, are for the local day of the slot in the zone
\* the handler found.
Placed ==
    /\ Base
    /\ \A w \in Jobs : brief[w] # None =>
          run[w] # "absent" /\ brief[w].day = LocalDay(brief[w].zone, ScheduledFor(w))
    /\ \A e \in Executors : at[e] \in {"ask", "publish"} =>
          context[e].day = LocalDay(context[e].zone, ScheduledFor(held[e]))

LEMMA PlacedInit == WeeklyInit => Placed
BY BaseInit DEF WeeklyInit, Placed

LEMMA PlacedStep ==
  ASSUME Placed, [WeeklyNext]_allVars
  PROVE  Placed'
<1>0. Base /\ Base'
  BY BaseStep DEF Placed
<1>1. \A w \in Jobs : run[w] # "absent" =>
         Prepared(w).day = LocalDay(Prepared(w).zone, ScheduledFor(w))
  BY DEF Prepared, EndDay
<1>2. ASSUME NEW w \in Jobs, brief'[w] # None
      PROVE  run'[w] # "absent" /\ brief'[w].day = LocalDay(brief'[w].zone, ScheduledFor(w)')
  <2>1. CASE brief'[w] = brief[w]
    <3>1. run[w] # "absent" /\ brief[w].day = LocalDay(brief[w].zone, ScheduledFor(w))
      BY <1>2, <2>1 DEF Placed
    <3> QED BY <1>0, <2>1, <3>1, SlotsStand
  <2>2. CASE brief'[w] # brief[w]
    <3>1. PICK e \in Executors :
            /\ held[e] = w
            /\ \/ at[e] = "start" /\ brief'[w] = Publication(Prepared(w))
               \/ at[e] = "publish" /\ brief'[w] = Publication(context[e])
      BY <1>0, <2>2, BriefsWritten
    <3>2. run[w] # "absent"
      BY <1>0, <3>1 DEF Base, Dated
    <3>3. \A c : Publication(c).day = c.day /\ Publication(c).zone = c.zone
      BY DEF Publication
    <3>4. brief'[w].day = LocalDay(brief'[w].zone, ScheduledFor(w))
      BY <1>1, <3>1, <3>2, <3>3 DEF Placed
    <3> QED BY <1>0, <3>2, <3>4, SlotsStand
  <2> QED BY <2>1, <2>2
<1>3. ASSUME NEW e \in Executors, at'[e] \in {"ask", "publish"}
      PROVE  context'[e].day = LocalDay(context'[e].zone, ScheduledFor(held[e])')
  <2>1. /\ held'[e] = held[e] /\ held[e] \in Jobs /\ run[held[e]] # "absent"
        /\ \/ at[e] \in {"ask", "publish"} /\ context'[e].day = context[e].day /\ context'[e].zone = context[e].zone
           \/ context'[e] = Prepared(held[e])
    BY <1>0, <1>3, ContextsWritten
  <2>2. PICK w \in Jobs : w = held[e] /\ w = held'[e] /\ run[w] # "absent"
    BY <2>1
  <2>3. context'[e].day = LocalDay(context'[e].zone, ScheduledFor(w))
    BY <1>1, <2>1, <2>2 DEF Placed
  <2>4. ScheduledFor(w)' = ScheduledFor(w)
    BY <1>0, <2>2, SlotsStand
  <2>5. ScheduledFor(held[e])' = ScheduledFor(w)'
    BY <2>2 DEF ScheduledFor
  <2> QED BY <2>3, <2>4, <2>5
<1> QED BY <1>0, <1>2, <1>3 DEF Placed

\* The period of a run is never the one of the brief of another week, so the
\* brief a handler finds for it can only be its own.
LEMMA OwnPeriod ==
  ASSUME Placed, NEW w \in Jobs, run[w] # "absent", NEW z \in Zones,
         Taken(LocalDay(z, ScheduledFor(w)))
  PROVE  brief[w] # None
<1>1. PICK v \in Jobs : brief[v] # None /\ brief[v].day = LocalDay(z, ScheduledFor(w))
  BY DEF Taken
<1>2. run[v] # "absent" /\ brief[v].day = LocalDay(brief[v].zone, ScheduledFor(v))
  BY <1>1 DEF Placed
<1>3. brief[v].zone \in Zones
  BY <1>1 DEF Placed, Base, WeeklyTypeOK, Briefs
<1>4. \A x \in Jobs : run[x] # "absent" => origin[x] \in Zones /\ x \in DOMAIN Calendar[origin[x]]
  BY CalendarFacts DEF Placed, Base, Dated
<1>5. v = w
  <2>1. /\ origin[v] \in Zones /\ v \in DOMAIN Calendar[origin[v]]
        /\ origin[w] \in Zones /\ w \in DOMAIN Calendar[origin[w]]
    BY <1>2, <1>4
  <2>2. LocalDay(brief[v].zone, Calendar[origin[v]][v].slot) = LocalDay(z, Calendar[origin[w]][w].slot)
    BY <1>1, <1>2 DEF ScheduledFor
  <2> HIDE DEF Calendar
  <2> QED BY <1>3, <2>1, <2>2, WeeksApart, Zenon
<1> QED BY <1>1, <1>5

-----------------------------------------------------------------------------
(* Runs, their tasks, briefs and usage *)

\* What the rows of a run and its history say together.
Consistent(r, t, u, b, a) ==
    /\ r \in {"absent", "queued"} => a = 0
    /\ r = "completed" <=> b # None
    /\ t = "succeeded" <=> r = "completed" /\ u = 1
    /\ u = 1 => r \in EndedRun
    /\ u <= a /\ a <= 1

\* A handler between the preparation and the end of its run.
Working(e) == at[e] \in {"ask", "fail", "failpaid", "stop", "publish"}

\* It is the only one that ever prepared the run, nothing has been published
\* or charged yet, and the run was failed by another handler at most.
WorksAlone(e) ==
    LET w == held[e] IN
    /\ run[w] \in {"synthesizing", "failed"} /\ usage[w] = 0
    /\ at[e] = "ask" => asked[w] = 0
    /\ at[e] \in {"failpaid", "publish"} => asked[w] = 1
    /\ \A f \in Executors : Working(f) /\ held[f] = w => f = e

Charged ==
    /\ Placed
    /\ \A w \in Jobs : Consistent(run[w], task[w], usage[w], brief[w], asked[w])
    /\ \A e \in Executors : Working(e) => WorksAlone(e)

LEMMA ChargedInit == WeeklyInit => Charged
BY PlacedInit DEF WeeklyInit, Charged, Consistent, Working

\* A step that leaves the runs alone, and in which no handler starts to work.
LEMMA ChargedFrame ==
  ASSUME Charged, Placed', UNCHANGED <<records, asked>>,
         \A e \in Executors : Working(e)' => at'[e] = at[e] /\ held'[e] = held[e]
  PROVE  Charged'
<1>1. \A e \in Executors : Working(e)' => Working(e)
  BY DEF Working
<1>2. ASSUME NEW e \in Executors, Working(e)' PROVE WorksAlone(e)'
  <2>1. at'[e] = at[e] /\ held'[e] = held[e] /\ WorksAlone(e)
    BY <1>1, <1>2 DEF Charged
  <2> QED BY <1>1, <2>1 DEF WorksAlone, records
<1> QED BY <1>2 DEF Charged, records

\* A step of handler e that writes the rows of its run, no other handler being
\* at work on it, or that stops working on it.
LEMMA ChargedWrite ==
  ASSUME Charged, Placed', NEW e \in Executors, at[e] # "none", UNCHANGED held,
         \A f \in Executors \ {e} : at'[f] = at[f],
         \A w \in Jobs \ {held[e]} :
            /\ run'[w] = run[w] /\ task'[w] = task[w] /\ usage'[w] = usage[w]
            /\ brief'[w] = brief[w] /\ asked'[w] = asked[w],
         Consistent(run'[held[e]], task'[held[e]], usage'[held[e]], brief'[held[e]], asked'[held[e]]),
         \A f \in Executors \ {e} : Working(f) /\ held[f] = held[e] => WorksAlone(f)',
         Working(e)' => WorksAlone(e)'
  PROVE  Charged'
<1>1. ASSUME NEW f \in Executors, f # e, Working(f)', held[f] # held[e] PROVE WorksAlone(f)'
  <2>1. Working(f) /\ WorksAlone(f) /\ held[f] \in Jobs
    BY <1>1 DEF Working, Charged, Placed, Base, Dated
  <2>2. \A g \in Executors : Working(g)' /\ held'[g] = held[f] => g # e /\ Working(g)
    BY <1>1 DEF Working
  <2> QED BY <1>1, <2>1, <2>2 DEF WorksAlone
<1>2. ASSUME NEW f \in Executors, f # e, Working(f)', held[f] = held[e] PROVE WorksAlone(f)'
  BY <1>2 DEF Working
<1> QED BY <1>1, <1>2 DEF Charged

LEMMA ChargedStep ==
  ASSUME Charged, [WeeklyNext]_allVars
  PROVE  Charged'
<1>0. Base /\ Placed'
  BY PlacedStep DEF Charged, Placed
<1>00. WeeklyTypeOK /\ \A e \in Executors : at[e] # "none" => held[e] \in Jobs
  BY <1>0 DEF Base, Dated
<1> USE DEF GoTo
<1>1. CASE UNCHANGED allVars
  BY <1>0, <1>1, ChargedFrame DEF allVars, records, handlers
<1>2. CASE Environment
  BY <1>0, <1>2, EnvironmentBase, ChargedFrame DEF handlers
<1>3. ASSUME NEW w \in Jobs, ScheduleWeekly(w) PROVE Charged'
  <2>1. \A v \in Jobs : Consistent(run'[v], task'[v], usage'[v], brief'[v], asked'[v])
    <3>1. \A v \in Jobs : run'[v] = run[v] \/ (run[v] = "absent" /\ run'[v] = "queued")
      <4>1. \/ UNCHANGED run
            \/ run[w] = "absent" /\ run' = [run EXCEPT ![w] = "queued"]
        BY <1>3 DEF ScheduleWeekly
      <4> QED BY <1>00, <4>1 DEF WeeklyTypeOK
    <3>2. UNCHANGED <<task, usage, brief, asked>>
      BY <1>3 DEF ScheduleWeekly
    <3> QED BY <3>1, <3>2 DEF Charged, Consistent, EndedRun
  <2>2. \A v \in Jobs : run[v] \in {"synthesizing", "failed"} => run'[v] = run[v]
    BY <1>00, <1>3 DEF ScheduleWeekly, WeeklyTypeOK
  <2>3. ASSUME NEW e \in Executors, Working(e)' PROVE WorksAlone(e)'
    <3>1. Working(e) /\ WorksAlone(e) /\ held[e] \in Jobs
      BY <1>00, <1>3, <2>3 DEF ScheduleWeekly, handlers, Working, Charged
    <3> QED BY <1>3, <2>2, <3>1 DEF ScheduleWeekly, handlers, Working, WorksAlone
  <2> QED BY <1>0, <2>1, <2>3 DEF Charged
<1>4. ASSUME NEW e \in Executors, NEW w \in Jobs, StartHandler(e, w) PROVE Charged'
  BY <1>0, <1>00, <1>4, ChargedFrame DEF StartHandler, Working, WeeklyTypeOK
<1>5. ASSUME NEW e \in Executors, HandlerError(e) \/ HandlerDies(e) \/ EndHandler(e) PROVE Charged'
  BY <1>0, <1>00, <1>5, ChargedFrame DEF HandlerError, HandlerDies, EndHandler, Working, WeeklyTypeOK
<1>6. ASSUME NEW e \in Executors, Prepare(e) PROVE Charged'
  <2> DEFINE w == held[e]
  <2>1. /\ w \in Jobs /\ at[e] = "start" /\ held' = held /\ usage' = usage /\ asked' = asked
        /\ at' \in {[at EXCEPT ![e] = "done"], [at EXCEPT ![e] = "ask"]}
        /\ \A f \in Executors \ {e} : at'[f] = at[f]
    BY <1>00, <1>6 DEF Prepare, PrepareQueued, WeeklyTypeOK
  <2>2. Consistent(run[w], task[w], usage[w], brief[w], asked[w])
    BY <2>1 DEF Charged
  <2>3. usage[w] \in Nat /\ asked[w] \in Nat /\ FailedTask(w) # "succeeded"
    BY <1>00, <2>1 DEF WeeklyTypeOK, FailedTask
  <2>4. CASE UNCHANGED <<run, task, brief>>
    <3>1. at' = [at EXCEPT ![e] = "done"]
      BY <1>00, <1>6, <2>1, <2>4 DEF Prepare, PrepareQueued, EndWith, WeeklyTypeOK, EndedRun
    <3> QED BY <1>0, <1>00, <2>1, <2>4, <3>1, ChargedFrame DEF records, Working, WeeklyTypeOK
  <2>5. ASSUME NEW r \in EndedRun, NEW t \in {task[w], FailedTask(w)},
               EndWith(w, r, t), at' = [at EXCEPT ![e] = "done"],
               run[w] \notin EndedRun,
               \/ r = "failed" /\ brief' = brief
               \/ r = "completed" /\ run[w] = "queued" /\ brief' = [brief EXCEPT ![w] = brief'[w]] /\ brief'[w] # None
        PROVE  Charged'
    <3>1. run'[w] = r /\ task'[w] = t /\ task[w] # "succeeded"
      BY <1>00, <2>1, <2>2, <2>5 DEF EndWith, Consistent, EndedRun, WeeklyTypeOK
    <3>2. \A v \in Jobs \ {w} : run'[v] = run[v] /\ task'[v] = task[v] /\ brief'[v] = brief[v]
      BY <1>00, <2>1, <2>5 DEF EndWith, WeeklyTypeOK
    <3>3. Consistent(run'[w], task'[w], usage'[w], brief'[w], asked'[w])
      BY <2>1, <2>2, <2>3, <2>5, <3>1 DEF Consistent, EndedRun
    <3>4. ASSUME NEW f \in Executors, f # e, Working(f), held[f] = w PROVE WorksAlone(f)'
      <4>1. WorksAlone(f)
        BY <3>4 DEF Charged
      <4>2. r = "failed"
        BY <2>5, <3>4, <4>1 DEF WorksAlone
      <4>3. \A g \in Executors : Working(g)' => Working(g)
        BY <1>00, <2>1, <2>5 DEF Working, WeeklyTypeOK
      <4> QED BY <2>1, <3>1, <3>4, <4>1, <4>2, <4>3 DEF WorksAlone
    <3>5. ~Working(e)'
      BY <1>00, <2>5 DEF Working, WeeklyTypeOK
    <3> QED BY <1>0, <2>1, <3>2, <3>3, <3>4, <3>5, ChargedWrite
  <2>6. CASE run[w] = "queued" /\ EndWith(w, "synthesizing", "running")
             /\ at' = [at EXCEPT ![e] = "ask"] /\ UNCHANGED brief
    <3>1. run'[w] = "synthesizing" /\ task'[w] = "running" /\ asked[w] = 0 /\ usage[w] = 0
      BY <1>00, <2>1, <2>2, <2>3, <2>6 DEF EndWith, Consistent, WeeklyTypeOK
    <3>2. \A v \in Jobs \ {w} : run'[v] = run[v] /\ task'[v] = task[v] /\ brief'[v] = brief[v]
      BY <1>00, <2>1, <2>6 DEF EndWith, WeeklyTypeOK
    <3>3. Consistent(run'[w], task'[w], usage'[w], brief'[w], asked'[w])
      BY <2>1, <2>2, <2>6, <3>1 DEF Consistent, EndedRun
    <3>4. \A f \in Executors \ {e} : ~(Working(f) /\ held[f] = w)
      BY <2>6 DEF Charged, WorksAlone
    <3>5. WorksAlone(e)'
      BY <1>00, <2>1, <2>6, <3>1, <3>4 DEF WorksAlone, Working, WeeklyTypeOK
    <3> QED BY <1>0, <2>1, <3>2, <3>3, <3>4, <3>5, ChargedWrite
  <2>7. Taken(EndDay(w)) => run[w] \in EndedRun
    <3>1. run[w] # "absent"
      BY <1>0, <2>1 DEF Base, Dated
    <3>2. zone \in Zones /\ EndDay(w) = LocalDay(zone, ScheduledFor(w))
      BY <1>0, <2>1, <3>1, SlotOfRun
    <3> QED BY <2>1, <2>2, <3>1, <3>2, OwnPeriod DEF Charged, Consistent, EndedRun
  <2>9. CASE PrepareQueued(e, w) /\ EndWith(w, "completed", task[w])
    <3>1. run[w] = "queued"
      BY <2>9 DEF PrepareQueued
    <3>2. brief' = [brief EXCEPT ![w] = Publication(Prepared(w))] /\ at' = [at EXCEPT ![e] = "done"]
      <4>1. run'[w] = "completed"
        BY <1>00, <2>1, <2>9 DEF EndWith, WeeklyTypeOK
      <4> QED BY <1>00, <2>1, <2>9, <4>1 DEF PrepareQueued, EndWith, WeeklyTypeOK
    <3>3. brief'[w] = Publication(Prepared(w)) /\ brief'[w] # None
      <4>1. Publication(Prepared(w)) # None
        BY <1>0, <2>1, <3>1, ContextType, PublicationType
      <4> QED BY <1>00, <2>1, <3>2, <4>1 DEF WeeklyTypeOK
    <3> QED BY <2>5, <2>9, <3>1, <3>2, <3>3 DEF EndedRun
  <2>10. \/ UNCHANGED <<run, task, brief>>
         \/ /\ run[w] \notin EndedRun /\ UNCHANGED brief /\ at' = [at EXCEPT ![e] = "done"]
            /\ EndWith(w, "failed", task[w]) \/ EndWith(w, "failed", FailedTask(w))
         \/ PrepareQueued(e, w) /\ EndWith(w, "completed", task[w])
         \/ /\ run[w] = "queued" /\ EndWith(w, "synthesizing", "running")
            /\ at' = [at EXCEPT ![e] = "ask"] /\ UNCHANGED brief
    BY <1>6, <2>7 DEF Prepare, PrepareQueued, EndedRun
  <2> QED BY <2>4, <2>5, <2>6, <2>9, <2>10 DEF EndedRun
<1>7. ASSUME NEW e \in Executors, AskProvider(e) PROVE Charged'
  <2> DEFINE w == held[e]
  <2>1. w \in Jobs /\ at[e] = "ask" /\ UNCHANGED <<records, held>>
    BY <1>00, <1>7 DEF AskProvider
  <2>2. WorksAlone(e) /\ asked[w] = 0 /\ run[w] \in {"synthesizing", "failed"} /\ usage[w] = 0
    BY <2>1 DEF Charged, Working, WorksAlone
  <2>3. /\ \A f \in Executors \ {e} : at'[f] = at[f]
        /\ \A v \in Jobs \ {w} : asked'[v] = asked[v]
        /\ asked'[w] \in {0, 1}
        /\ at'[e] \in {"stop", "fail", "failpaid", "publish"}
        /\ at'[e] \in {"failpaid", "publish"} => asked'[w] = 1
    BY <1>00, <1>7, <2>1, <2>2 DEF AskProvider, WeeklyTypeOK
  <2>4. Consistent(run'[w], task'[w], usage'[w], brief'[w], asked'[w])
    BY <2>1, <2>2, <2>3 DEF Charged, Consistent, records
  <2>5. \A f \in Executors \ {e} : ~(Working(f) /\ held[f] = w)
    BY <2>2 DEF WorksAlone
  <2>6. WorksAlone(e)'
    BY <2>1, <2>2, <2>3, <2>5 DEF WorksAlone, Working, records
  <2> QED BY <1>0, <2>1, <2>3, <2>4, <2>5, <2>6, ChargedWrite DEF records
<1>8. ASSUME NEW e \in Executors, Publish(e) \/ Fail(e) \/ StopForCost(e) PROVE Charged'
  <2> DEFINE w == held[e]
  <2>1. /\ w \in Jobs /\ Working(e) /\ at[e] # "none" /\ UNCHANGED <<held, asked>>
        /\ at' = [at EXCEPT ![e] = "done"]
    BY <1>00, <1>8 DEF Publish, Fail, StopForCost, Done, Working
  <2>2. WorksAlone(e) /\ Consistent(run[w], task[w], usage[w], brief[w], asked[w])
    BY <2>1 DEF Charged
  <2>3. \A f \in Executors \ {e} : ~(Working(f) /\ held[f] = w)
    BY <2>2 DEF WorksAlone
  <2>4. ~Working(e)' /\ \A f \in Executors \ {e} : at'[f] = at[f]
    BY <1>00, <2>1 DEF Working, WeeklyTypeOK
  <2>5. brief[w] = None /\ run[w] # "completed" /\ usage[w] = 0 /\ asked[w] \in {0, 1} /\ task[w] # "succeeded"
    <3>1. usage[w] = 0 /\ run[w] # "completed"
      BY <2>2 DEF WorksAlone
    <3>2. asked[w] \in Nat /\ asked[w] <= 1
      BY <1>00, <2>1, <2>2 DEF Consistent, WeeklyTypeOK
    <3> QED BY <2>2, <3>1, <3>2 DEF Consistent
  <2>6. CASE UNCHANGED records
    BY <1>0, <1>00, <2>1, <2>4, <2>6, ChargedFrame DEF Working, WeeklyTypeOK
  <2>7. ASSUME NEW r, NEW t, NEW u, EndWith(w, r, t), usage' = [usage EXCEPT ![w] = u],
               \A v \in Jobs \ {w} : brief'[v] = brief[v],
               Consistent(r, t, u, brief'[w], asked[w])
        PROVE  Charged'
    <3>1. /\ run'[w] = r /\ task'[w] = t /\ usage'[w] = u
          /\ \A v \in Jobs \ {w} : run'[v] = run[v] /\ task'[v] = task[v] /\ usage'[v] = usage[v]
      BY <1>00, <2>1, <2>7 DEF EndWith, WeeklyTypeOK
    <3> QED BY <1>0, <2>1, <2>3, <2>4, <2>7, <3>1, ChargedWrite
  <2>8. CASE Publish(e) /\ run[w] \notin EndedRun
    <3>0. at[e] = "publish" /\ run[w] # "absent" /\ context[e] \in Contexts /\ context[e].zone \in Zones
      BY <1>0, <1>00, <2>8 DEF Publish, WeeklyTypeOK, Base, Dated
    <3>00. ~Taken(context[e].day)
      BY <2>1, <2>5, <3>0, OwnPeriod DEF Charged, Placed
    <3>1. /\ EndWith(w, "completed", "succeeded") /\ usage' = [usage EXCEPT ![w] = 1]
          /\ brief' = [brief EXCEPT ![w] = Publication(context[e])]
      BY <2>5, <2>8, <3>00 DEF Publish, InsertBrief, RecordUsage
    <3>2. Publication(context[e]) # None
      BY <3>0, PublicationType
    <3>3. brief'[w] # None /\ \A v \in Jobs \ {w} : brief'[v] = brief[v]
      BY <1>00, <2>1, <3>1, <3>2 DEF WeeklyTypeOK
    <3>4. asked[w] = 1
      BY <2>2, <2>8 DEF WorksAlone, Publish
    <3>5. Consistent("completed", "succeeded", 1, brief'[w], asked[w])
      BY <3>3, <3>4 DEF Consistent, EndedRun
    <3> QED BY <2>7, <3>1, <3>3, <3>5
  <2>9. CASE Fail(e) /\ run[w] \notin EndedRun
    <3>1. CASE at[e] = "fail"
      <4>1. EndWith(w, "failed", "failed") /\ usage' = [usage EXCEPT ![w] = 0] /\ UNCHANGED brief
        BY <1>00, <2>1, <2>5, <2>9, <3>1 DEF Fail, WeeklyTypeOK
      <4>2. Consistent("failed", "failed", 0, brief'[w], asked[w])
        BY <2>5, <4>1 DEF Consistent, EndedRun
      <4> QED BY <2>7, <4>1, <4>2
    <3>2. CASE at[e] # "fail"
      <4>1. /\ EndWith(w, "failed", "failed") /\ usage' = [usage EXCEPT ![w] = 1] /\ UNCHANGED brief
            /\ asked[w] = 1
        BY <1>00, <2>1, <2>2, <2>5, <2>9, <3>2 DEF Fail, RecordUsage, WorksAlone
      <4>2. Consistent("failed", "failed", 1, brief'[w], asked[w])
        BY <2>5, <4>1 DEF Consistent, EndedRun
      <4> QED BY <2>7, <4>1, <4>2
    <3> QED BY <3>1, <3>2
  <2>10. CASE StopForCost(e)
    <3>1. EndWith(w, "partial", "cancelled") /\ usage' = [usage EXCEPT ![w] = 0] /\ UNCHANGED brief
      BY <1>00, <2>1, <2>5, <2>10 DEF StopForCost, WeeklyTypeOK
    <3>2. Consistent("partial", "cancelled", 0, brief'[w], asked[w])
      BY <2>5, <3>1 DEF Consistent, EndedRun
    <3> QED BY <2>7, <3>1, <3>2
  <2>11. (Publish(e) \/ Fail(e)) /\ run[w] \in EndedRun => UNCHANGED records
    BY DEF Publish, Fail, records
  <2> QED BY <1>8, <2>6, <2>8, <2>9, <2>10, <2>11
<1> QED BY <1>1, <1>2, <1>3, <1>4, <1>5, <1>6, <1>7, <1>8 DEF WeeklyNext, Environment, HandlerStep

LEMMA ChargedInvariant == WeeklySpec => []Charged
BY ChargedInit, ChargedStep, PTL DEF WeeklySpec

\* A brief exists exactly when its run is COMPLETED, whatever a handler that
\* lost its job still does.
THEOREM BriefAgreesWithRun == WeeklySpec => []BriefMatchesRun
<1>1. Charged => BriefMatchesRun
  BY DEF Charged, Consistent, BriefMatchesRun
<1> QED BY <1>1, ChargedInvariant, PTL

\* No request is repeated after a crash or a lost lease, and an answer is
\* charged at most once.
THEOREM RequestsPaidOnce == WeeklySpec => []PaidOnce
<1>1. Charged => PaidOnce
  BY DEF Charged, Consistent, PaidOnce
<1> QED BY <1>1, ChargedInvariant, PTL

-----------------------------------------------------------------------------
(* What a brief tells *)

\* What was published in a period, committed or not, and a receipt of it.
Published(period) == {s \in Scans : finding[s] # "none" /\ Within(stamp[s], period)}

ReceiptHolds(receipt, period) ==
    \A s \in DOMAIN receipt :
        /\ scan[s] # "absent"
        /\ scan[s] = receipt[s] \/ s \in TwoJobs
        /\ Within(scanAt[s], period)

\* What a handler holds in memory is still true of the period it is for.
ContextTells(c) ==
    /\ c.findings \subseteq Published(Week(c.zone, c.day))
    /\ \A s \in c.findings : finding[s] = "visible"
    /\ ReceiptHolds(c.receipt, Week(c.zone, c.day))

BriefTells(b) ==
    /\ b.references \subseteq Published(Week(b.zone, b.day))
    /\ ReceiptHolds(b.receipt, Week(b.zone, b.day))

\* A week without findings that was over for long enough at its slot.
QuietWeek(w) == Published(ScheduledPeriod(origin[w], w)) = {}

Told ==
    /\ Placed
    /\ \A e \in Executors : at[e] \in {"ask", "publish"} => ContextTells(context[e])
    /\ \A e \in Executors : at[e] = "publish" =>
          context[e].references # {} /\ context[e].references \subseteq context[e].findings
    /\ \A w \in Jobs : brief[w] # None => BriefTells(brief[w])
    /\ \A w \in Jobs : brief[w] # None /\ brief[w].references = {} /\ brief[w].zone = origin[w]
          => QuietWeek(w)

LEMMA ToldInit == WeeklyInit => Told
BY PlacedInit DEF WeeklyInit, Told

\* No step takes back what a period has published or how its scans ended; a
\* new finding reads the clock.
LEMMA PeriodsOnlyGrow ==
  ASSUME Base, [WeeklyNext]_allVars
  PROVE  \A s \in Scans :
            /\ finding[s] = "visible" => finding'[s] = "visible"
            /\ finding[s] # "none" => finding'[s] # "none" /\ stamp'[s] = stamp[s]
            /\ finding[s] = "none" /\ finding'[s] # "none" => stamp'[s] = now
            /\ scan[s] \in EndedScan /\ s \notin TwoJobs => scan'[s] = scan[s]
            /\ scan[s] # "absent" => scan'[s] # "absent" /\ scanAt'[s] = scanAt[s]
<1>0. WeeklyTypeOK
  BY DEF Base
<1>1. CASE UNCHANGED <<scan, scanAt, finding, stamp>>
  BY <1>1
<1>2. ASSUME NEW x \in Scans, StartScan(x) \/ EndScan(x) \/ RewriteScan(x), NEW s \in Scans
      PROVE  /\ finding'[s] = finding[s] /\ stamp'[s] = stamp[s]
             /\ scan[s] \in EndedScan /\ s \notin TwoJobs => scan'[s] = scan[s]
             /\ scan[s] # "absent" => scan'[s] # "absent" /\ scanAt'[s] = scanAt[s]
  <2>1. CASE StartScan(x)
    BY <1>0, <2>1 DEF StartScan, EndedScan, WeeklyTypeOK
  <2>2. CASE EndScan(x) \/ RewriteScan(x)
    <3>1. PICK status \in {"live"} \cup EndedScan : scan' = [scan EXCEPT ![x] = status]
      BY <2>2, WeeklyAssumption DEF EndScan, RewriteScan
    <3>2. UNCHANGED <<finding, stamp, scanAt>> /\ (scan[x] \in EndedScan => x \in TwoJobs)
      BY <2>2 DEF EndScan, RewriteScan, EndedScan
    <3> QED BY <1>0, <3>1, <3>2 DEF WeeklyTypeOK, EndedScan
  <2> QED BY <1>2, <2>1, <2>2
<1>3. ASSUME NEW x \in Scans, BeginPublish(x) \/ CommitPublish(x), NEW s \in Scans
      PROVE  /\ finding[s] = "visible" => finding'[s] = "visible"
             /\ finding[s] # "none" => finding'[s] # "none" /\ stamp'[s] = stamp[s]
             /\ finding[s] = "none" /\ finding'[s] # "none" => stamp'[s] = now
             /\ scan'[s] = scan[s] /\ scanAt'[s] = scanAt[s]
  BY <1>0, <1>3 DEF BeginPublish, CommitPublish, WeeklyTypeOK
<1>4. CASE \E s \in Scans : ScanStep(s)
  BY <1>2, <1>3, <1>4 DEF ScanStep
<1>5. WeeklyNext => UNCHANGED <<scan, scanAt, finding, stamp>> \/ \E s \in Scans : ScanStep(s)
  BY DEF WeeklyNext, HandlerStep, Tick, DisableUser, ChangeZone, ScheduleWeekly, StartHandler, Prepare,
         AskProvider, Publish, Fail, StopForCost, Done, EndHandler, HandlerError, HandlerDies, environment
<1> QED BY <1>1, <1>4, <1>5 DEF allVars, environment

\* So what is told of a period stays true.
LEMMA TellsForGood ==
  ASSUME Base, [WeeklyNext]_allVars, NEW period
  PROVE  /\ Published(period) \subseteq Published(period)'
         /\ \A receipt \in Receipts : ReceiptHolds(receipt, period) => ReceiptHolds(receipt, period)'
<1>1. Published(period) \subseteq Published(period)'
  BY PeriodsOnlyGrow DEF Published, Within
<1>2. ASSUME NEW receipt \in Receipts, ReceiptHolds(receipt, period), NEW s \in DOMAIN receipt
      PROVE  /\ scan'[s] # "absent" /\ (scan'[s] = receipt[s] \/ s \in TwoJobs)
             /\ Within(scanAt'[s], period)
  <2>1. s \in Scans /\ receipt[s] \in EndedScan
    BY <1>2 DEF Receipts
  <2>2. scan[s] # "absent" /\ (scan[s] = receipt[s] \/ s \in TwoJobs) /\ Within(scanAt[s], period)
    BY <1>2 DEF ReceiptHolds
  <2> QED BY <2>1, <2>2, PeriodsOnlyGrow
<1> QED BY <1>1, <1>2 DEF ReceiptHolds

\* A finding that reads the clock once the run is there is too late for the week.
LEMMA QuietForGood ==
  ASSUME Base, [WeeklyNext]_allVars, NEW w \in Jobs, run[w] # "absent", QuietWeek(w)
  PROVE  QuietWeek(w)'
<1>1. origin'[w] = origin[w]
  BY SlotsStand
<1>2. PICK period \in [from : Int, to : Int] :
         period = ScheduledPeriod(origin[w], w) /\ period.to + CommitWithin <= Slot(origin[w], w)
  BY CalendarFacts DEF Base, Dated
<1>3. now \in Int /\ CommitWithin \in Nat /\ Slot(origin[w], w) \in Int /\ Slot(origin[w], w) <= now
  BY SlotOfRun, WeeklyAssumption DEF Base, WeeklyTypeOK
<1>4. ~Within(now, period)
  BY <1>2, <1>3 DEF Within
<1>5. ASSUME NEW s \in Scans, finding'[s] # "none", Within(stamp'[s], period) PROVE FALSE
  <2>1. finding[s] # "none" /\ stamp'[s] = stamp[s]
    BY <1>4, <1>5, PeriodsOnlyGrow
  <2> QED BY <1>2, <1>5, <2>1 DEF QuietWeek, Published
<1>6. QuietWeek(w)' = ({s \in Scans : finding'[s] # "none" /\ Within(stamp'[s], period)} = {})
  BY <1>1, <1>2 DEF QuietWeek, Published
<1> QED BY <1>5, <1>6

\* A prepared context tells its period; without findings in the zone of the
\* scheduler the week is quiet.
LEMMA PreparedTells ==
  ASSUME Base, NEW w \in Jobs, run[w] # "absent"
  PROVE  /\ ContextTells(Prepared(w))
         /\ PeriodFindings(w) = {} /\ zone = origin[w] => QuietWeek(w)
<1>1. /\ origin[w] \in Zones /\ zone \in Zones /\ now \in Int
      /\ zone = origin[w] => EndDay(w) = Monday(w)
      /\ HasSlot(origin[w], w) /\ Slot(origin[w], w) <= now
  BY SlotOfRun DEF Base, Dated, WeeklyTypeOK
<1>2. CommitWithin \in Nat
  BY WeeklyAssumption
<1>3. PICK period \in [from : Int, to : Int] :
         /\ period = ScheduledPeriod(origin[w], w) /\ Slot(origin[w], w) \in Int
         /\ period.to + CommitWithin <= Slot(origin[w], w)
  BY <1>1, CalendarFacts
<1>4. ASSUME NEW s \in Scans, finding[s] = "writing", Within(stamp[s], period) PROVE FALSE
  <2>1. stamp[s] \in Int /\ now <= stamp[s] + CommitWithin /\ stamp[s] < period.to
    BY <1>4 DEF Base, Dated, WeeklyTypeOK, Within
  <2> QED BY <1>1, <1>2, <1>3, <2>1
<1>5. ASSUME PeriodFindings(w) = {}, zone = origin[w] PROVE QuietWeek(w)
  <2>1. Period(w) = period
    BY <1>1, <1>3, <1>5 DEF Period, ScheduledPeriod
  <2>2. \A s \in Scans : finding[s] \in {"none", "writing", "visible"}
    BY DEF Base, WeeklyTypeOK
  <2>3. \A s \in Scans : ~(finding[s] # "none" /\ Within(stamp[s], period))
    BY <1>4, <1>5, <2>1, <2>2 DEF PeriodFindings
  <2> QED BY <1>3, <2>3 DEF QuietWeek, Published
<1>6. ContextTells(Prepared(w))
  <2>1. /\ Prepared(w).findings = PeriodFindings(w) /\ Prepared(w).receipt = CoverageReceipt(w)
        /\ Week(Prepared(w).zone, Prepared(w).day) = Period(w)
    BY DEF Prepared, Period
  <2>2. /\ PeriodFindings(w) \subseteq Published(Period(w))
        /\ \A s \in PeriodFindings(w) : finding[s] = "visible"
    BY DEF PeriodFindings, Published
  <2>3. ReceiptHolds(CoverageReceipt(w), Period(w))
    BY DEF ReceiptHolds, CoverageReceipt, EndedScan
  <2> QED BY <2>1, <2>2, <2>3 DEF ContextTells
<1> QED BY <1>5, <1>6

\* Contexts and briefs that are left alone still tell.
LEMMA StillTell ==
  ASSUME Base, [WeeklyNext]_allVars
  PROVE  /\ \A c \in Contexts : ContextTells(c) => ContextTells(c)'
         /\ \A b \in Briefs : BriefTells(b) => BriefTells(b)'
<1>1. ASSUME NEW c \in Contexts, ContextTells(c) PROVE ContextTells(c)'
  <2>1. c.findings \subseteq Scans /\ c.receipt \in Receipts
    BY DEF Contexts
  <2>2. \A s \in c.findings : finding'[s] = "visible"
    BY <1>1, <2>1, PeriodsOnlyGrow DEF ContextTells
  <2>3. /\ c.findings \subseteq Published(Week(c.zone, c.day))'
        /\ ReceiptHolds(c.receipt, Week(c.zone, c.day))'
    BY <1>1, <2>1, TellsForGood DEF ContextTells
  <2> QED BY <2>2, <2>3 DEF ContextTells
<1>2. ASSUME NEW b \in Briefs, BriefTells(b) PROVE BriefTells(b)'
  <2>1. b.receipt \in Receipts
    BY DEF Briefs
  <2>2. /\ b.references \subseteq Published(Week(b.zone, b.day))'
        /\ ReceiptHolds(b.receipt, Week(b.zone, b.day))'
    BY <1>2, <2>1, TellsForGood DEF BriefTells
  <2> QED BY <2>2 DEF BriefTells
<1> QED BY <1>1, <1>2

LEMMA ToldStep ==
  ASSUME Told, [WeeklyNext]_allVars
  PROVE  Told'
<1>0. Placed /\ Placed' /\ Base /\ WeeklyTypeOK
  BY PlacedStep DEF Told, Placed, Base
<1>1. ASSUME NEW e \in Executors, at'[e] \in {"ask", "publish"}
      PROVE  /\ ContextTells(context[e])'
             /\ at'[e] = "publish" => /\ context'[e].references # {}
                                      /\ context'[e].references \subseteq context'[e].findings
  <2>1. PICK c \in Contexts, d \in Contexts : c = context[e] /\ d = context'[e]
    BY <1>0 DEF WeeklyTypeOK, Placed, Base
  <2>0. ContextTells(d)' => ContextTells(context[e])'
    BY <2>1 DEF ContextTells, ReceiptHolds, Published
  <2>2. CASE at[e] = at'[e] /\ context'[e] = context[e]
    <3>1. ContextTells(d) /\ (at[e] = "publish" => d.references # {} /\ d.references \subseteq d.findings)
      BY <1>1, <2>1, <2>2 DEF Told
    <3> QED BY <1>0, <2>0, <2>1, <2>2, <3>1, StillTell
  <2>3. CASE at[e] = "start" /\ at'[e] = "ask" /\ context'[e] = Prepared(held[e])
    <3>1. held[e] \in Jobs /\ run[held[e]] # "absent"
      BY <1>0, <2>3 DEF Base, Dated
    <3>2. ContextTells(d)
      BY <1>0, <2>1, <2>3, <3>1, PreparedTells
    <3> QED BY <1>0, <2>0, <2>3, <3>2, StillTell
  <2>4. CASE /\ at[e] = "ask" /\ at'[e] = "publish"
             /\ d.findings = c.findings /\ d.receipt = c.receipt /\ d.day = c.day /\ d.zone = c.zone
             /\ d.references # {} /\ d.references \subseteq c.findings
    <3>1. ContextTells(c)
      BY <2>1, <2>4 DEF Told
    <3>2. ContextTells(d)
      BY <2>4, <3>1 DEF ContextTells
    <3> QED BY <1>0, <2>0, <2>1, <2>4, <3>2, StillTell
  <2> QED BY <1>0, <1>1, <2>1, <2>2, <2>3, <2>4, ContextsWritten
<1>2. ASSUME NEW w \in Jobs, brief'[w] # None
      PROVE  /\ BriefTells(brief[w])'
             /\ brief'[w].references = {} /\ brief'[w].zone = origin'[w] => QuietWeek(w)'
  <2>1. PICK b \in Briefs : b = brief'[w]
    BY <1>0, <1>2 DEF WeeklyTypeOK, Placed, Base
  <2>2. SUFFICES /\ run[w] # "absent" /\ BriefTells(b)
                 /\ b.references = {} /\ b.zone = origin[w] => QuietWeek(w)
    <3>1. BriefTells(b)' => BriefTells(brief[w])'
      BY <2>1 DEF BriefTells, ReceiptHolds, Published
    <3>2. run[w] # "absent" => origin'[w] = origin[w] /\ (QuietWeek(w) => QuietWeek(w)')
      BY <1>0, QuietForGood, SlotsStand
    <3>3. BriefTells(b) => BriefTells(b)'
      BY <1>0, StillTell
    <3> QED BY <2>1, <3>1, <3>2, <3>3
  <2>3. CASE brief'[w] = brief[w]
    BY <1>2, <2>1, <2>3 DEF Told, Placed
  <2>4. CASE brief'[w] # brief[w]
    <3>1. PICK e \in Executors :
             /\ held[e] = w
             /\ \/ at[e] = "start" /\ PeriodFindings(w) = {} /\ brief'[w] = Publication(Prepared(w))
                \/ at[e] = "publish" /\ brief'[w] = Publication(context[e])
      BY <1>0, <2>4, BriefsWritten
    <3>2. run[w] # "absent"
      BY <1>0, <3>1 DEF Base, Dated
    <3>3. \A c : /\ Publication(c).references = c.references /\ Publication(c).receipt = c.receipt
                 /\ Publication(c).day = c.day /\ Publication(c).zone = c.zone
      BY DEF Publication
    <3>4. CASE PeriodFindings(w) = {} /\ b = Publication(Prepared(w))
      <4>1. Prepared(w).references = {} /\ Prepared(w).zone = zone
        BY DEF Prepared
      <4>2. ContextTells(Prepared(w)) /\ (zone = origin[w] => QuietWeek(w))
        BY <1>0, <3>2, <3>4, PreparedTells
      <4> QED BY <3>2, <3>3, <3>4, <4>1, <4>2 DEF ContextTells, BriefTells
    <3>5. CASE at[e] = "publish" /\ b = Publication(context[e])
      <4>1. /\ ContextTells(context[e]) /\ context[e].references # {}
            /\ context[e].references \subseteq context[e].findings
        BY <3>5 DEF Told
      <4> QED BY <3>2, <3>3, <3>5, <4>1 DEF ContextTells, BriefTells
    <3> QED BY <2>1, <3>1, <3>4, <3>5
  <2> QED BY <2>3, <2>4
<1> QED BY <1>0, <1>1, <1>2 DEF Told

LEMMA ToldInvariant == WeeklySpec => []Told
BY ToldInit, ToldStep, PTL DEF WeeklySpec

\* A brief refers only to findings of its period, whatever zone that was computed
\* in; in the zone the run was scheduled in it covers the week it was scheduled
\* for, and is empty only if that week never gets a finding: for every zone whose
\* clock change leaves publications the time to commit before the slot.
THEOREM BriefsTellTheirWeek == WeeklySpec => []BriefTellsItsWeek
<1>1. ASSUME Told PROVE BriefTellsItsWeek
  <2>1. ASSUME NEW w \in Jobs, brief[w] # None
        PROVE  /\ brief[w].references \subseteq Published(Week(brief[w].zone, brief[w].day))
               /\ brief[w].zone = origin[w] =>
                     /\ Week(brief[w].zone, brief[w].day) = ScheduledPeriod(origin[w], w)
                     /\ brief[w].references = {} => Published(Week(brief[w].zone, brief[w].day)) = {}
    <3>1. Base /\ run[w] # "absent" /\ brief[w].day = LocalDay(brief[w].zone, ScheduledFor(w))
      BY <1>1, <2>1 DEF Told, Placed
    <3>2. brief[w].zone = origin[w] =>
             Week(brief[w].zone, brief[w].day) = ScheduledPeriod(origin[w], w)
      BY <3>1, SlotOfRun DEF ScheduledPeriod
    <3> QED BY <1>1, <2>1, <3>2 DEF Told, BriefTells, QuietWeek
  <2> QED BY <2>1 DEF BriefTellsItsWeek, Published
<1> QED BY <1>1, ToldInvariant, PTL

\* The receipt of a brief still agrees with the statuses of its Scout Runs that
\* have one job.
THEOREM ReceiptsStand == WeeklySpec => []ReceiptStands
<1>1. ASSUME Told PROVE ReceiptStands
  BY <1>1 DEF Told, BriefTells, ReceiptHolds, ReceiptStands
<1> QED BY <1>1, ToldInvariant, PTL

-----------------------------------------------------------------------------
(* The queue below the runs *)

\* Every step of the scheduler, the handlers and the Scout Runs beside them
\* enqueues a new job, takes or settles one, or leaves the job table alone: the
\* weekly brief relies on no more of the table than JobQueue promises, which
\* LeasesImplementQueue shows the leased rows to keep.
THEOREM WeeklyUsesQueue == WeeklySpec => Spec
<1>1. WeeklyInit => Init
  BY DEF WeeklyInit
<1>2. Base /\ [WeeklyNext]_allVars => [Next]_vars
  <2> SUFFICES ASSUME Base, [WeeklyNext]_allVars PROVE [Next]_vars
    OBVIOUS
  <2>1. ASSUME NEW w \in Jobs, ScheduleWeekly(w) PROVE [Next]_vars
    BY <2>1 DEF ScheduleWeekly, Next
  <2>2. ASSUME NEW e \in Executors, NEW w \in Jobs, StartHandler(e, w) PROVE [Next]_vars
    BY <2>2 DEF StartHandler, Next
  <2>3. ASSUME NEW e \in Executors, EndHandler(e) PROVE [Next]_vars
    <3>1. at[e] # "none"
      BY <2>3 DEF EndHandler
    <3>2. held[e] \in Jobs
      BY <3>1 DEF Base, Dated
    <3>3. \/ UNCHANGED vars
          \/ \E outcome \in Settled : Settle(e, held[e], outcome)
      BY <2>3 DEF EndHandler, Settled
    <3> QED BY <3>2, <3>3 DEF Next
  <2>4. ASSUME NEW e \in Executors, Prepare(e) \/ AskProvider(e) PROVE UNCHANGED vars
    BY <2>4 DEF Prepare, AskProvider
  <2>5. ASSUME NEW e \in Executors, Publish(e) \/ Fail(e) \/ StopForCost(e) PROVE UNCHANGED vars
    BY <2>5 DEF Publish, Fail, StopForCost, Done
  <2>6. ASSUME NEW e \in Executors, HandlerError(e) \/ HandlerDies(e) PROVE UNCHANGED vars
    BY <2>6 DEF HandlerError, HandlerDies
  <2>7. ASSUME NEW s \in Scans, ScanStep(s) PROVE UNCHANGED vars
    BY <2>7 DEF ScanStep, StartScan, BeginPublish, CommitPublish, EndScan, RewriteScan
  <2>8. Tick \/ DisableUser \/ ChangeZone \/ UNCHANGED allVars => UNCHANGED vars
    BY DEF Tick, DisableUser, ChangeZone, allVars
  <2> QED BY <2>1, <2>2, <2>3, <2>4, <2>5, <2>6, <2>7, <2>8 DEF WeeklyNext, HandlerStep
<1>3. WeeklySpec => []Base
  BY BaseInit, BaseStep, PTL DEF WeeklySpec
<1> QED BY <1>1, <1>2, <1>3, PTL DEF WeeklySpec, Spec

=============================================================================
