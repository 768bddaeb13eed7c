---------------------------- MODULE RunCostsProofs ----------------------------
(***************************************************************************)
(* Theorems about RunCosts, for any plan, wave size, retries, ceilings and *)
(* amounts: types, what the rows tell, the books and the ceilings.  The    *)
(* sums over the children of a wave are those of FoldedSums.               *)
(***************************************************************************)
EXTENDS RunCosts, FoldedSums, FiniteSetTheorems, TLAPS

-----------------------------------------------------------------------------
(* Amounts *)

\* The provider tells an amount of Costs, or nobody knows the cost.
LEMMA AmountsAreCosts ==
  ASSUME NEW s \in Settlements
  PROVE  Amounts(s) \subseteq Costs
<1>1. /\ s.inline \in Costs \cup {Unknown}
      /\ s.replies \in [1 .. CostLookups -> Costs \cup {Pending, Unknown}]
  BY DEF Settlements
<1>2. ASSUME Final(s) # {} PROVE s.replies[Min(Final(s))] \in Costs \cup {Unknown}
  <2>1. Final(s) \in SUBSET Nat
    BY <1>1, CostsAssumption DEF Final
  <2>2. Min(Final(s)) \in Final(s)
    BY <1>2, <2>1, Smallest
  <2> QED BY <1>1, <2>2 DEF Final
<1> QED BY <1>1, <1>2 DEF Amounts

\* What a request adds to the bill.
LEMMA SpendFacts ==
  ASSUME paid.sum \in Nat, "sum" \in DOMAIN paid, NEW s \in Settlements,
         Spend(s) \/ SpendUnsettled
  PROVE  /\ paid'.sum \in Nat /\ "sum" \in DOMAIN paid'
         /\ \A limit \in Nat : (\A amount \in Costs : amount <= limit) =>
               paid'.sum <= paid.sum + limit
<1>1. CASE SpendUnsettled
  BY <1>1 DEF SpendUnsettled
<1>2. CASE Spend(s)
  <2>1. PICK a \in Nat : /\ paid'.sum = paid.sum + a /\ "sum" \in DOMAIN paid'
                         /\ a = 0 \/ a \in Costs
    <3>1. CASE Amounts(s) = {}
      BY <1>2, <3>1 DEF Spend
    <3>2. CASE Amounts(s) # {}
      <4>1. (CHOOSE x \in Amounts(s) : TRUE) \in Costs
        BY <3>2, AmountsAreCosts
      <4>2. (CHOOSE x \in Amounts(s) : TRUE) \in Nat
        BY <4>1, CostsAssumption
      <4> QED BY <1>2, <3>2, <4>1, <4>2 DEF Spend
    <3> QED BY <3>1, <3>2
  <2> QED BY <2>1
<1> QED BY <1>1, <1>2

-----------------------------------------------------------------------------
(* Children and their waves *)

\* What the proofs need of the records: a child is at a point, and only a
\* child of a wave that has started is not idle.
Waves ==
    /\ wave \in Nat
    /\ DOMAIN child = Children /\ DOMAIN outcome = Children /\ DOMAIN task = Children
    /\ \A c \in Children :
          /\ "point" \in DOMAIN child[c]
          /\ WaveOf(c) > wave => child[c].point = "idle"

LEMMA WaveNumbers == \A c \in Children : WaveOf(c) \in Nat
BY CostsAssumption DEF Children, WaveOf

\* The coroutine of child c moves to a point; nothing else about it matters.
MovesTo(c, point) ==
    /\ DOMAIN child' = Children
    /\ child'[c].point = point /\ "point" \in DOMAIN child'[c]
    /\ \A d \in Children \ {c} : child'[d] = child[d]

LEMMA SetChildMoves ==
  ASSUME Waves, NEW c \in Children, NEW record, "point" \in DOMAIN record, SetChild(c, record)
  PROVE  MovesTo(c, record.point)
BY DEF Waves, SetChild, MovesTo

\* What the steps of a child do to it.
LEMMA ChildMoves ==
  ASSUME Waves, NEW c \in Children
  PROVE  /\ AskChild(c) => child[c].point = "attempt" /\ \E p \in {"settled", "asked"} : MovesTo(c, p)
         /\ ChildAnswered(c) \/ ChildFails(c) =>
               child[c].point = "asked" /\ \E p \in {"attempt", "settled"} : MovesTo(c, p)
         /\ ChildReturns(c) => child[c].point = "settled" /\ MovesTo(c, "done")
         /\ ChildTimeout(c) => child[c].point \in {"attempt", "asked", "settled"} /\ MovesTo(c, "done")
<1>1. "point" \in DOMAIN child[c]
  BY DEF Waves
<1>2. ASSUME NEW record, "point" \in DOMAIN record, NEW p, SetChild(c, [record EXCEPT !.point = p])
      PROVE  MovesTo(c, p)
  BY <1>2, SetChildMoves
<1>3. ASSUME NEW record, "point" \in DOMAIN record, TryAgain(c, record) PROVE MovesTo(c, "attempt")
  <2> DEFINE next == [record EXCEPT !.point = "attempt", !.attempt = @ + 1]
  <2>1. SetChild(c, next)
    BY <1>3 DEF TryAgain
  <2>2. next.point = "attempt" /\ "point" \in DOMAIN next
    BY <1>3
  <2> HIDE DEF next
  <2> QED BY <2>1, <2>2, SetChildMoves
<1>4. ASSUME NEW record, "point" \in DOMAIN record, NEW amount, Accept(c, record, amount)
      PROVE  MovesTo(c, "settled")
  BY <1>2, <1>4 DEF Accept
<1>5. ASSUME NEW amount PROVE "point" \in DOMAIN [child[c] EXCEPT !.records = Plus(@, Cost(amount))]
  BY <1>1
<1>6. AskChild(c) => child[c].point = "attempt" /\ \E p \in {"settled", "asked"} : MovesTo(c, p)
  BY <1>1, <1>2 DEF AskChild
<1>7. ASSUME ChildAnswered(c)
      PROVE  child[c].point = "asked" /\ \E p \in {"attempt", "settled"} : MovesTo(c, p)
  <2>1. PICK s \in Settlements :
           LET r == [child[c] EXCEPT !.records = Plus(@, Cost(SettledCost(s)))] IN
           \/ TryAgain(c, [r EXCEPT !.fallback = TRUE, !.retained = TRUE, !.metadata = SettledCost(s)])
           \/ Accept(c, r, SettledCost(s))
    BY <1>7 DEF ChildAnswered
  <2> DEFINE r == [child[c] EXCEPT !.records = Plus(@, Cost(SettledCost(s)))]
  <2>2. "point" \in DOMAIN r
    BY <1>5
  <2>3. "point" \in DOMAIN [r EXCEPT !.fallback = TRUE, !.retained = TRUE, !.metadata = SettledCost(s)]
    BY <2>2
  <2> QED BY <1>3, <1>4, <1>7, <2>1, <2>2, <2>3 DEF ChildAnswered
<1>8. ASSUME ChildFails(c)
      PROVE  child[c].point = "asked" /\ \E p \in {"attempt", "settled"} : MovesTo(c, p)
  <2>1. PICK f \in Failures, s \in Settlements :
           LET amount == IF f.metadata THEN SettledCost(s) ELSE Unknown
               r == [child[c] EXCEPT !.records = Plus(@, Cost(amount))]
           IN
           \/ TryAgain(c, r)
           \/ TryAgain(c, [r EXCEPT !.fallback = TRUE])
           \/ Accept(c, r, r.metadata)
           \/ SetChild(c, [r EXCEPT !.point = "settled"])
    BY <1>8 DEF ChildFails
  <2> DEFINE amount == IF f.metadata THEN SettledCost(s) ELSE Unknown
             r == [child[c] EXCEPT !.records = Plus(@, Cost(amount))]
  <2>2. "point" \in DOMAIN r
    BY <1>5
  <2>3. "point" \in DOMAIN [r EXCEPT !.fallback = TRUE]
    BY <2>2
  <2> QED BY <1>2, <1>3, <1>4, <1>8, <2>1, <2>2, <2>3 DEF ChildFails
<1>9. ChildReturns(c) => child[c].point = "settled" /\ MovesTo(c, "done")
  BY <1>1, <1>2 DEF ChildReturns
<1>10. ChildTimeout(c) => child[c].point \in {"attempt", "asked", "settled"} /\ MovesTo(c, "done")
  BY <1>1, <1>2 DEF ChildTimeout
<1> QED BY <1>6, <1>7, <1>8, <1>9, <1>10

-----------------------------------------------------------------------------
(* Outcomes and tasks *)

\* The kind of an outcome and the status its task has by then.
Telling == {<<"accepted", "succeeded">>, <<"failed", "failed">>, <<"ceiling", "cancelled">>}

Tells(c) == <<outcome[c].kind, task[c]>> \in Telling

\* The inductive invariant of TaskTellsOutcome: the two agree from the
\* transaction that settles the task on, before the outcome is returned, and a
\* child that no wave has started is idle, which a stop may cancel.
Told ==
    /\ Waves
    /\ \A c \in Children : child[c].point \in {"settled", "done"} => Tells(c)

\* The task and the outcome of child c, and of no other, may be written.
Writes(c) ==
    /\ DOMAIN outcome' = Children /\ DOMAIN task' = Children
    /\ \A d \in Children \ {c} : outcome'[d] = outcome[d] /\ task'[d] = task[d]

LEMMA SettleTells ==
  ASSUME Waves, NEW c \in Children, NEW status, NEW amount, NEW result,
         Settle(c, status, amount, result), <<result.kind, status>> \in Telling
  PROVE  Tells(c)' /\ Writes(c)
BY DEF Waves, Settle, Tells, Writes

\* A child that settles tells, and writes its own task only.
LEMMA ChildTells ==
  ASSUME Waves, NEW c \in Children,
         AskChild(c) \/ ChildAnswered(c) \/ ChildFails(c) \/ ChildReturns(c) \/ ChildTimeout(c)
  PROVE  /\ Writes(c)
         /\ ~ChildReturns(c) /\ child'[c].point \in {"settled", "done"} => Tells(c)'
         /\ ChildReturns(c) => outcome' = outcome /\ task' = task
<1>1. DOMAIN outcome = Children /\ DOMAIN task = Children
  BY DEF Waves
<1>2. ASSUME NEW record, "point" \in DOMAIN record, TryAgain(c, record)
      PROVE  Writes(c) /\ child'[c].point = "attempt"
  <2>1. outcome' = outcome /\ task' = task
    BY <1>2 DEF TryAgain
  <2> DEFINE next == [record EXCEPT !.point = "attempt", !.attempt = @ + 1]
  <2>2. SetChild(c, next)
    BY <1>2 DEF TryAgain
  <2>3. next.point = "attempt" /\ "point" \in DOMAIN next
    BY <1>2
  <2> HIDE DEF next
  <2>4. child'[c].point = "attempt"
    BY <2>2, <2>3, SetChildMoves DEF MovesTo
  <2> QED BY <1>1, <2>1, <2>4 DEF Writes
<1>3. ASSUME NEW record, NEW amount, Accept(c, record, amount) PROVE Tells(c)' /\ Writes(c)
  <2> DEFINE result == [kind |-> "accepted", cost |-> record.records, stops |-> FALSE]
  <2>1. Settle(c, "succeeded", amount, result)
    BY <1>3 DEF Accept
  <2>2. <<result.kind, "succeeded">> \in Telling
    BY DEF Telling
  <2> HIDE DEF result
  <2> QED BY <2>1, <2>2, SettleTells
<1>4. ASSUME NEW amount PROVE "point" \in DOMAIN [child[c] EXCEPT !.records = Plus(@, Cost(amount))]
  BY DEF Waves
<1>5. CASE AskChild(c)
  <2>1. CASE WouldExceed(ChildEstimate)
    <3> DEFINE result == [kind |-> "ceiling", cost |-> NoCost, stops |-> TRUE]
    <3>1. Settle(c, "cancelled", Unknown, result)
      BY <1>5, <2>1 DEF AskChild
    <3>2. <<result.kind, "cancelled">> \in Telling
      BY DEF Telling
    <3>3. child[c].point = "attempt"
      BY <1>5 DEF AskChild
    <3>4. ~ChildReturns(c)
      BY <3>3 DEF ChildReturns
    <3> HIDE DEF result
    <3> QED BY <3>1, <3>2, <3>4, SettleTells
  <2>2. CASE ~WouldExceed(ChildEstimate)
    <3>1. Writes(c)
      BY <1>1, <1>5, <2>2 DEF AskChild, Writes
    <3> DEFINE next == [child[c] EXCEPT !.point = "asked"]
    <3>2. SetChild(c, next)
      BY <1>5, <2>2 DEF AskChild
    <3>3. next.point = "asked" /\ "point" \in DOMAIN next
      BY DEF Waves
    <3> HIDE DEF next
    <3>4. child'[c].point = "asked"
      BY <3>2, <3>3, SetChildMoves DEF MovesTo
    <3>5. ~ChildReturns(c)
      BY <1>5 DEF AskChild, ChildReturns
    <3> QED BY <3>1, <3>4, <3>5
  <2> QED BY <2>1, <2>2
<1>6. CASE ChildAnswered(c)
  <2>1. PICK s \in Settlements :
           LET r == [child[c] EXCEPT !.records = Plus(@, Cost(SettledCost(s)))] IN
           \/ TryAgain(c, [r EXCEPT !.fallback = TRUE, !.retained = TRUE, !.metadata = SettledCost(s)])
           \/ Accept(c, r, SettledCost(s))
    BY <1>6 DEF ChildAnswered
  <2> DEFINE r == [child[c] EXCEPT !.records = Plus(@, Cost(SettledCost(s)))]
  <2>2. "point" \in DOMAIN r
    BY <1>4
  <2>3. "point" \in DOMAIN [r EXCEPT !.fallback = TRUE, !.retained = TRUE, !.metadata = SettledCost(s)]
    BY <2>2
  <2>4. ~ChildReturns(c)
    BY <1>6 DEF ChildAnswered, ChildReturns
  <2> QED BY <1>2, <1>3, <2>1, <2>3, <2>4
<1>7. CASE ChildFails(c)
  <2>1. PICK f \in Failures, s \in Settlements :
           LET amount == IF f.metadata THEN SettledCost(s) ELSE Unknown
               r == [child[c] EXCEPT !.records = Plus(@, Cost(amount))]
           IN
           \/ TryAgain(c, r)
           \/ TryAgain(c, [r EXCEPT !.fallback = TRUE])
           \/ Accept(c, r, r.metadata)
           \/ Settle(c, "failed", amount, [kind |-> "failed", cost |-> r.records, stops |-> f.stops])
    BY <1>7 DEF ChildFails
  <2> DEFINE amount == IF f.metadata THEN SettledCost(s) ELSE Unknown
             r == [child[c] EXCEPT !.records = Plus(@, Cost(amount))]
             result == [kind |-> "failed", cost |-> r.records, stops |-> f.stops]
  <2>2. "point" \in DOMAIN r
    BY <1>4
  <2>3. "point" \in DOMAIN [r EXCEPT !.fallback = TRUE]
    BY <2>2
  <2>4. ~ChildReturns(c)
    BY <1>7 DEF ChildFails, ChildReturns
  <2>5. <<result.kind, "failed">> \in Telling
    BY DEF Telling
  <2>6. ASSUME Settle(c, "failed", amount, result) PROVE Tells(c)' /\ Writes(c)
    <3> HIDE DEF result
    <3> QED BY <2>5, <2>6, SettleTells
  <2> QED BY <1>2, <1>3, <2>1, <2>2, <2>3, <2>4, <2>6
<1>8. CASE ChildReturns(c)
  <2>1. outcome' = outcome /\ task' = task
    BY <1>8 DEF ChildReturns
  <2> QED BY <1>1, <1>8, <2>1 DEF Writes
<1>9. CASE ChildTimeout(c)
  <2>1. /\ task' = [task EXCEPT ![c] = "failed"]
        /\ outcome' = [outcome EXCEPT ![c] =
                         [kind |-> "failed", cost |-> Cost(Unknown), stops |-> FALSE]]
    BY <1>9 DEF ChildTimeout
  <2>2. outcome'[c].kind = "failed" /\ task'[c] = "failed"
    BY <1>1, <2>1
  <2>3. Writes(c)
    BY <1>1, <2>1 DEF Writes
  <2>4. ChildReturns(c) => outcome' = outcome /\ task' = task
    BY DEF ChildReturns
  <2> QED BY <2>2, <2>3, <2>4 DEF Tells, Telling
<1> QED BY <1>5, <1>6, <1>7, <1>8, <1>9

-----------------------------------------------------------------------------
(* TaskTellsOutcome *)

LEMMA ToldInit == CostsInit => Told
<1> SUFFICES ASSUME CostsInit PROVE Told
  OBVIOUS
<1>1. \A c \in Children : "point" \in DOMAIN child[c] /\ child[c].point = "idle"
  BY DEF CostsInit, Idle
<1>2. wave \in Nat /\ DOMAIN child = Children /\ DOMAIN outcome = Children /\ DOMAIN task = Children
  BY DEF CostsInit
<1> QED BY <1>1, <1>2 DEF Told, Waves

\* The step of a child: it had started, so idle children stay idle.
LEMMA ToldChild ==
  ASSUME Told, NEW c \in Children,
         AskChild(c) \/ ChildAnswered(c) \/ ChildFails(c) \/ ChildReturns(c) \/ ChildTimeout(c)
  PROVE  Told'
<1>1. Waves /\ child[c].point # "idle"
  BY ChildMoves DEF Told
<1>2. PICK p : MovesTo(c, p)
  BY <1>1, ChildMoves
<1>3. wave' = wave
  BY DEF AskChild, ChildAnswered, ChildFails, ChildReturns, ChildTimeout
<1>4. Writes(c)
  BY <1>1, ChildTells
<1>5. Waves'
  <2>1. \A d \in Children : "point" \in DOMAIN child'[d]
    BY <1>1, <1>2 DEF MovesTo, Waves
  <2>2. ASSUME NEW d \in Children, WaveOf(d) > wave PROVE child'[d].point = "idle"
    BY <1>1, <1>2, <2>2 DEF MovesTo, Waves
  <2>3. DOMAIN child' = Children /\ wave' \in Nat
    BY <1>1, <1>2, <1>3 DEF MovesTo, Waves
  <2> QED BY <1>3, <1>4, <2>1, <2>2, <2>3 DEF Waves, Writes, WaveOf
<1>6. ASSUME NEW d \in Children, child'[d].point \in {"settled", "done"}
      PROVE  <<outcome'[d].kind, task'[d]>> \in Telling
  <2>1. CASE d = c
    <3>1. CASE ChildReturns(c)
      <4>1. child[c].point = "settled"
        BY <3>1 DEF ChildReturns
      <4>2. outcome' = outcome /\ task' = task
        BY <1>1, <3>1, ChildTells
      <4> QED BY <2>1, <4>1, <4>2 DEF Told, Tells
    <3>2. CASE ~ChildReturns(c)
      BY <1>1, <1>6, <2>1, <3>2, ChildTells DEF Tells
    <3> QED BY <3>1, <3>2
  <2>2. CASE d # c
    BY <1>2, <1>4, <1>6, <2>2 DEF MovesTo, Writes, Told, Tells
  <2> QED BY <2>1, <2>2
<1> QED BY <1>5, <1>6 DEF Told, Tells

\* The plan: the children of the first wave start, the others are idle.
LEMMA ToldGather ==
  ASSUME Told, Gather, outcome' = outcome
  PROVE  Told'
<1>1. /\ wave' = 0 /\ DOMAIN child' = Children /\ DOMAIN task' = Children
      /\ DOMAIN outcome' = Children
  BY DEF Told, Waves, Gather
<1>2. ASSUME NEW c \in Children
      PROVE  /\ "point" \in DOMAIN child'[c]
             /\ child'[c].point \in {"idle", "attempt"}
             /\ WaveOf(c) > 0 => child'[c].point = "idle"
  <2>1. WaveOf(c) > 0 => ~InWave(c, 0)
    BY DEF InWave
  <2>2. child'[c] = Idle \/ child'[c] = Started
    BY DEF Gather
  <2>3. ~InWave(c, 0) => child'[c] = Idle
    BY DEF Gather
  <2>4. Idle.point = "idle" /\ "point" \in DOMAIN Idle
    BY DEF Idle
  <2>5. Started.point = "attempt" /\ "point" \in DOMAIN Started
    BY DEF Started, Idle
  <2> QED BY <2>1, <2>2, <2>3, <2>4, <2>5
<1> QED BY <1>1, <1>2 DEF Told, Waves, WaveOf

\* The end of a wave: the tasks a stop cancels belong to idle children, and
\* the children that start belong to the next wave.
LEMMA ToldEndWave ==
  ASSUME Told, EndWave
  PROVE  Told'
<1>1. outcome' = outcome
  BY DEF EndWave
<1>2. CASE /\ wave' = wave /\ child' = child /\ DOMAIN task' = Children
           /\ \A c \in Children : WaveOf(c) > wave \/ task'[c] = task[c]
  <2>1. ASSUME NEW c \in Children, child[c].point \in {"settled", "done"}
        PROVE  task'[c] = task[c]
    BY <1>2, <2>1 DEF Told, Waves
  <2> QED BY <1>1, <1>2, <2>1 DEF Told, Waves, Tells, WaveOf
<1>3. CASE /\ wave' = wave + 1 /\ task' = task
           /\ child' = [c \in Children |-> IF InWave(c, wave + 1) THEN Started ELSE child[c]]
  <2>1. Started.point = "attempt" /\ "point" \in DOMAIN Started
    BY DEF Started, Idle
  <2>2. wave \in Nat /\ DOMAIN task = Children /\ DOMAIN outcome = Children
    BY DEF Told, Waves
  <2>3. ASSUME NEW c \in Children
        PROVE  /\ "point" \in DOMAIN child'[c]
               /\ WaveOf(c) > wave + 1 => child'[c].point = "idle"
               /\ child'[c] = child[c] \/ child'[c].point = "attempt"
    <3>1. CASE InWave(c, wave + 1)
      <4>1. WaveOf(c) = wave + 1
        BY <3>1 DEF InWave
      <4> QED BY <1>3, <2>1, <2>2, <3>1, <4>1
    <3>2. CASE ~InWave(c, wave + 1)
      <4>1. child'[c] = child[c]
        BY <1>3, <3>2
      <4>2. WaveOf(c) > wave + 1 => WaveOf(c) > wave
        BY <2>2, WaveNumbers
      <4> QED BY <4>1, <4>2 DEF Told, Waves
    <3> QED BY <3>1, <3>2
  <2>4. Waves'
    BY <1>1, <1>3, <2>2, <2>3 DEF Waves, WaveOf
  <2> QED BY <1>1, <1>3, <2>3, <2>4 DEF Told, Tells
<1>4. \/ wave' = wave /\ child' = child /\ task' = task
      \/ /\ wave' = wave /\ child' = child
         /\ task' = [c \in Children |->
                       IF c \in {d \in Children : WaveOf(d) > wave} THEN "cancelled" ELSE task[c]]
      \/ /\ wave' = wave + 1 /\ task' = task
         /\ child' = [c \in Children |-> IF InWave(c, wave + 1) THEN Started ELSE child[c]]
  BY Zenon DEF EndWave
<1>5. DOMAIN task = Children
  BY DEF Told, Waves
<1> QED BY <1>2, <1>3, <1>4, <1>5

LEMMA ToldNext == Told /\ [CostsNext]_allVars => Told'
<1> SUFFICES ASSUME Told, [CostsNext]_allVars PROVE Told'
  OBVIOUS
<1>1. ASSUME wave' = wave, child' = child, outcome' = outcome, task' = task PROVE Told'
  BY <1>1 DEF Told, Waves, Tells, WaveOf
<1>2. CASE AskMain
  BY <1>1, <1>2 DEF AskMain
<1>3. CASE MainAnswered
  <2>1. outcome' = outcome
    BY <1>3 DEF MainAnswered
  <2>2. Gather \/ UNCHANGED <<wave, child, task>>
    BY <1>3, Zenon DEF MainAnswered
  <2> QED BY <1>1, <2>1, <2>2, ToldGather
<1>4. CASE MainFails
  BY <1>1, <1>4 DEF MainFails
<1>5. CASE EndWave
  BY <1>5, ToldEndWave
<1>6. ASSUME NEW c \in Children,
             AskChild(c) \/ ChildAnswered(c) \/ ChildFails(c) \/ ChildReturns(c) \/ ChildTimeout(c)
      PROVE  Told'
  BY <1>6, ToldChild
<1>7. CASE UNCHANGED allVars
  BY <1>1, <1>7 DEF allVars
<1> QED BY <1>2, <1>3, <1>4, <1>5, <1>6, <1>7 DEF CostsNext

LEMMA ToldTells == Told => TaskTellsOutcome
<1>1. ASSUME NEW c \in Children, Tells(c)
      PROVE  /\ outcome[c].kind = "accepted" <=> task[c] = "succeeded"
             /\ outcome[c].kind = "failed" <=> task[c] = "failed"
             /\ outcome[c].kind = "ceiling" <=> task[c] = "cancelled"
  BY <1>1 DEF Tells, Telling
<1> QED BY <1>1 DEF Told, TaskTellsOutcome

\* When a child has returned, its task and its outcome say the same, wherever
\* the deadline cut it off and whatever a later stop cancels.
THEOREM TasksTellOutcomes == CostsSpec => []TaskTellsOutcome
<1>1. CostsInit => Told
  BY ToldInit
<1>2. Told /\ [CostsNext]_allVars => Told'
  BY ToldNext
<1>3. Told => TaskTellsOutcome
  BY ToldTells
<1> QED BY <1>1, <1>2, <1>3, PTL DEF CostsSpec

-----------------------------------------------------------------------------
(* SpendsWithinCeilings *)

Asked == {c \in Children : child[c].point = "asked"}
MainAsked == phase \in {"planAsked", "synthAsked"}

\* What the run has been charged, and may be charged for the requests that wait
\* for their answers.
Exposure ==
    paid.sum + (IF MainAsked THEN MainEstimate ELSE 0) + ChildEstimate * Cardinality(Asked)

\* The inductive invariant of SpendsWithinCeilings: a reservation is made before
\* its request, is never given back, and stays below both ceilings.
Reserves ==
    /\ paid.sum \in Nat /\ "sum" \in DOMAIN paid
    /\ reserved \in Nat /\ initial \in InitialCosts
    /\ Exposure <= reserved
    /\ reserved <= RunCeiling
    /\ reserved > 0 => initial + reserved <= DailyCeiling

CostsBelowEstimates ==
    \A amount \in Costs : amount <= MainEstimate /\ amount <= ChildEstimate

LEMMA Numbers ==
    /\ {MainEstimate, ChildEstimate, RunCeiling, DailyCeiling} \subseteq Nat
    /\ InitialCosts \subseteq Nat
BY CostsAssumption

LEMMA AskedIsFinite ==
    /\ IsFiniteSet(Asked) /\ Cardinality(Asked) \in Nat
    /\ Cardinality(Asked') \in Nat
<1>1. IsFiniteSet(Children)
  BY CostsAssumption, FS_Interval DEF Children
<1>2. \A S \in SUBSET Children : IsFiniteSet(S) /\ Cardinality(S) \in Nat
  BY <1>1, FS_Subset, FS_CardinalityType
<1>3. Asked \in SUBSET Children /\ Asked' \in SUBSET Children
  BY DEF Asked, Children
<1> QED BY <1>2, <1>3

\* A child that asks, or whose request ends, is counted once.
LEMMA OneMore ==
  ASSUME Waves, NEW c \in Children, NEW p, MovesTo(c, p)
  PROVE  /\ child[c].point = "asked" /\ p # "asked" =>
               Cardinality(Asked') = Cardinality(Asked) - 1 /\ Cardinality(Asked) > 0
         /\ child[c].point # "asked" /\ p = "asked" =>
               Cardinality(Asked') = Cardinality(Asked) + 1
         /\ child[c].point # "asked" /\ p # "asked" => Asked' = Asked
<1>1. ASSUME child[c].point = "asked", p # "asked"
      PROVE  Cardinality(Asked') = Cardinality(Asked) - 1 /\ Cardinality(Asked) > 0
  <2>1. Asked' = Asked \ {c} /\ c \in Asked
    BY <1>1 DEF Asked, MovesTo, Children
  <2>2. Cardinality(Asked \ {c}) = Cardinality(Asked) - 1
    BY <2>1, AskedIsFinite, FS_RemoveElement
  <2>3. Asked # {}
    BY <2>1
  <2>4. Cardinality(Asked) # 0
    BY <2>3, AskedIsFinite, FS_EmptySet
  <2> QED BY <2>1, <2>2, <2>4, AskedIsFinite
<1>2. ASSUME child[c].point # "asked", p = "asked"
      PROVE  Cardinality(Asked') = Cardinality(Asked) + 1
  <2>1. Asked' = Asked \cup {c} /\ c \notin Asked
    BY <1>2 DEF Asked, MovesTo, Children
  <2> QED BY <2>1, AskedIsFinite, FS_AddElement
<1>3. ASSUME child[c].point # "asked", p # "asked" PROVE Asked' = Asked
  BY <1>3 DEF Asked, MovesTo, Children
<1> QED BY <1>1, <1>2, <1>3

\* The multiple of the estimate that is exposed moves by one estimate.
LEMMA OneEstimate ==
  ASSUME NEW n \in Nat, NEW e \in Nat
  PROVE  e * n \in Nat /\ e * (n + 1) = e * n + e
OBVIOUS

\* Steps that only lower the exposure.
LEMMA ReservesFrame ==
  ASSUME Reserves, reserved' = reserved, initial' = initial,
         paid'.sum \in Nat, "sum" \in DOMAIN paid', Exposure' <= Exposure
  PROVE  Reserves'
<1>1. Exposure \in Nat /\ Exposure' \in Nat
  <2>1. /\ ChildEstimate * Cardinality(Asked) \in Nat
        /\ (ChildEstimate * Cardinality(Asked))' \in Nat
    BY AskedIsFinite, OneEstimate, Numbers
  <2> QED BY <2>1, Numbers DEF Exposure, Reserves
<1> QED BY <1>1, Numbers DEF Reserves


LEMMA ReservesInit == CostsInit => Reserves
<1> SUFFICES ASSUME CostsInit PROVE Reserves
  OBVIOUS
<1>1. Asked = {}
  BY DEF CostsInit, Asked, Idle
<1>2. ChildEstimate * Cardinality(Asked) = 0
  BY <1>1, FS_EmptySet, Numbers
<1>3. ~MainAsked
  BY DEF CostsInit, MainAsked
<1>4. paid.sum = 0 /\ "sum" \in DOMAIN paid /\ reserved = 0 /\ initial \in InitialCosts
  BY DEF CostsInit
<1> QED BY <1>2, <1>3, <1>4, Numbers DEF Reserves, Exposure

\* The main model asks: its estimate is reserved before the request.
LEMMA ReservesAskMain ==
  ASSUME Reserves, AskMain
  PROVE  Reserves'
<1>1. Asked' = Asked /\ paid' = paid /\ initial' = initial
  BY DEF AskMain, Asked
<1>2. ChildEstimate * Cardinality(Asked) \in Nat
  BY AskedIsFinite, OneEstimate, Numbers
<1>3. ~MainAsked
  BY DEF AskMain, MainAsked
<1>4. CASE WouldExceed(MainEstimate)
  <2>1. reserved' = reserved /\ ~MainAsked'
    BY <1>4 DEF AskMain, EndRun, MainAsked
  <2> QED BY <1>1, <1>2, <1>3, <2>1 DEF Reserves, Exposure
<1>5. CASE ~WouldExceed(MainEstimate)
  <2>1. reserved' = reserved + MainEstimate
    BY <1>5 DEF AskMain
  <2>2. MainAsked'
    BY <1>5 DEF AskMain, MainAsked
  <2>3. Exposure' = Exposure + MainEstimate
    BY <1>1, <1>2, <1>3, <2>2, Numbers DEF Reserves, Exposure
  <2>4. initial \in Nat /\ Exposure \in Nat
    BY <1>2, <1>3, Numbers DEF Reserves, Exposure
  <2> QED BY <1>1, <1>5, <2>1, <2>3, <2>4, Numbers DEF Reserves, WouldExceed
<1> QED BY <1>4, <1>5

\* The request of the main model ends: it costs no more than its reservation.
LEMMA ReservesMain ==
  ASSUME Reserves, CostsBelowEstimates, MainAnswered \/ MainFails
  PROVE  Reserves'
<1>1. PICK s \in Settlements : Spend(s) \/ SpendUnsettled
  BY DEF MainAnswered, MainFails
<1>2. paid'.sum \in Nat /\ "sum" \in DOMAIN paid' /\ paid'.sum <= paid.sum + MainEstimate
  BY <1>1, SpendFacts, Numbers DEF Reserves, CostsBelowEstimates
<1>3. MainAsked /\ reserved' = reserved /\ initial' = initial
  BY DEF MainAnswered, MainFails, MainAsked
<1>4. ~MainAsked'
  BY DEF MainAnswered, MainFails, EndRun, Gather, MainAsked
<1>5. \/ Asked' = Asked \/ Asked' = {}
  <2>1. CASE Gather
    <3>1. \A c \in Children : child'[c] = Idle \/ child'[c] = Started
      BY <2>1 DEF Gather
    <3>2. Idle.point # "asked" /\ Started.point # "asked"
      BY DEF Started, Idle
    <3> QED BY <3>1, <3>2 DEF Asked, Children
  <2>2. CASE child' = child
    BY <2>2 DEF Asked, Children
  <2> QED BY <2>1, <2>2, Zenon DEF MainAnswered, MainFails
<1>6. /\ ChildEstimate * Cardinality(Asked) \in Nat
      /\ (ChildEstimate * Cardinality(Asked))' <= ChildEstimate * Cardinality(Asked)
  <2>1. ChildEstimate * Cardinality(Asked) \in Nat
    BY AskedIsFinite, OneEstimate, Numbers
  <2>2. CASE Asked' = {}
    <3>1. ChildEstimate * Cardinality({}) = 0
      BY FS_EmptySet, Numbers
    <3> QED BY <2>1, <2>2, <3>1
  <2>3. CASE Asked' = Asked
    BY <2>1, <2>3
  <2> QED BY <1>5, <2>1, <2>2, <2>3
<1>7. /\ (ChildEstimate * Cardinality(Asked))' \in Nat
  BY AskedIsFinite, OneEstimate, Numbers
<1>8. Exposure' <= Exposure
  BY <1>2, <1>3, <1>4, <1>6, <1>7, Numbers DEF Reserves, Exposure
<1> QED BY <1>2, <1>3, <1>8, ReservesFrame

\* A child asks.
LEMMA ReservesAskChild ==
  ASSUME Reserves, Waves, NEW c \in Children, AskChild(c)
  PROVE  Reserves'
<1>1. phase' = phase /\ paid' = paid /\ initial' = initial /\ child[c].point = "attempt"
  BY DEF AskChild
<1>2. MainAsked' = MainAsked
  BY <1>1 DEF MainAsked
<1>3. "point" \in DOMAIN child[c]
  BY DEF Waves
<1>4. ChildEstimate * Cardinality(Asked) \in Nat
  BY AskedIsFinite, OneEstimate, Numbers
<1>5. CASE WouldExceed(ChildEstimate)
  <2> DEFINE next == [child[c] EXCEPT !.point = "settled"]
  <2>1. SetChild(c, next) /\ reserved' = reserved
    BY <1>5 DEF AskChild
  <2>2. next.point = "settled" /\ "point" \in DOMAIN next
    BY <1>3
  <2> HIDE DEF next
  <2>3. Asked' = Asked
    BY <1>1, <2>1, <2>2, SetChildMoves, OneMore
  <2> QED BY <1>1, <1>2, <2>1, <2>3 DEF Reserves, Exposure
<1>6. CASE ~WouldExceed(ChildEstimate)
  <2> DEFINE next == [child[c] EXCEPT !.point = "asked"]
  <2>1. SetChild(c, next) /\ reserved' = reserved + ChildEstimate
    BY <1>6 DEF AskChild
  <2>2. next.point = "asked" /\ "point" \in DOMAIN next
    BY <1>3
  <2> HIDE DEF next
  <2>3. Cardinality(Asked') = Cardinality(Asked) + 1
    BY <1>1, <2>1, <2>2, SetChildMoves, OneMore
  <2>4. (ChildEstimate * Cardinality(Asked))' = ChildEstimate * Cardinality(Asked) + ChildEstimate
    BY <2>3, AskedIsFinite, OneEstimate, Numbers
  <2>5. Exposure \in Nat /\ Exposure' = Exposure + ChildEstimate
    BY <1>1, <1>2, <1>4, <2>4, Numbers DEF Reserves, Exposure
  <2>6. initial \in Nat
    BY Numbers DEF Reserves
  <2> QED BY <1>1, <1>6, <2>1, <2>5, <2>6, Numbers DEF Reserves, WouldExceed
<1> QED BY <1>5, <1>6

\* The request of a child ends, in an answer, an error or the deadline: it
\* costs no more than its reservation, which stays.
LEMMA ReservesChildEnds ==
  ASSUME Reserves, Waves, CostsBelowEstimates, NEW c \in Children, child[c].point = "asked",
         NEW p, p # "asked", MovesTo(c, p), NEW s \in Settlements, Spend(s) \/ SpendUnsettled,
         phase' = phase, reserved' = reserved, initial' = initial
  PROVE  Reserves'
<1>1. paid'.sum \in Nat /\ "sum" \in DOMAIN paid' /\ paid'.sum <= paid.sum + ChildEstimate
  BY SpendFacts, Numbers DEF Reserves, CostsBelowEstimates
<1>2. Cardinality(Asked') = Cardinality(Asked) - 1 /\ Cardinality(Asked) > 0
  BY OneMore
<1>3. Cardinality(Asked) = Cardinality(Asked') + 1
  BY <1>2, AskedIsFinite
<1>4. /\ (ChildEstimate * Cardinality(Asked))' \in Nat
      /\ ChildEstimate * Cardinality(Asked) = (ChildEstimate * Cardinality(Asked))' + ChildEstimate
  BY <1>3, AskedIsFinite, OneEstimate, Numbers
<1>5. MainAsked' = MainAsked
  BY DEF MainAsked
<1>6. Exposure' <= Exposure
  BY <1>1, <1>4, <1>5, Numbers DEF Reserves, Exposure
<1> QED BY <1>1, <1>6, ReservesFrame

\* A step of a child with no request under way.
LEMMA ReservesChildMoves ==
  ASSUME Reserves, Waves, NEW c \in Children, child[c].point # "asked",
         NEW p, p # "asked", MovesTo(c, p), paid' = paid,
         phase' = phase, reserved' = reserved, initial' = initial
  PROVE  Reserves'
<1>1. Asked' = Asked
  BY OneMore
<1>2. MainAsked' = MainAsked
  BY DEF MainAsked
<1> QED BY <1>1, <1>2 DEF Reserves, Exposure

LEMMA ReservesNext == Told /\ Reserves /\ CostsBelowEstimates /\ [CostsNext]_allVars => Reserves'
<1> SUFFICES ASSUME Told, Reserves, CostsBelowEstimates, [CostsNext]_allVars PROVE Reserves'
  OBVIOUS
<1>1. Waves
  BY DEF Told
<1>2. CASE AskMain
  BY <1>2, ReservesAskMain
<1>3. CASE MainAnswered \/ MainFails
  BY <1>3, ReservesMain
<1>4. ASSUME NEW c \in Children, AskChild(c) PROVE Reserves'
  BY <1>1, <1>4, ReservesAskChild
<1>5. ASSUME NEW c \in Children, ChildAnswered(c) \/ ChildFails(c) PROVE Reserves'
  <2>1. PICK p \in {"attempt", "settled"} : MovesTo(c, p)
    BY <1>1, <1>5, ChildMoves
  <2>2. PICK s \in Settlements : Spend(s) \/ SpendUnsettled
    BY <1>5 DEF ChildAnswered, ChildFails
  <2>3. /\ child[c].point = "asked" /\ p # "asked"
        /\ phase' = phase /\ reserved' = reserved /\ initial' = initial
    BY <1>5, <2>1 DEF ChildAnswered, ChildFails
  <2> QED BY <1>1, <2>1, <2>2, <2>3, ReservesChildEnds
<1>6. ASSUME NEW c \in Children, ChildReturns(c) PROVE Reserves'
  <2>1. child[c].point = "settled" /\ MovesTo(c, "done")
    BY <1>1, <1>6, ChildMoves
  <2>2. paid' = paid /\ phase' = phase /\ reserved' = reserved /\ initial' = initial
    BY <1>6 DEF ChildReturns, accounts
  <2> QED BY <1>1, <2>1, <2>2, ReservesChildMoves
<1>7. ASSUME NEW c \in Children, ChildTimeout(c) PROVE Reserves'
  <2>1. child[c].point \in {"attempt", "asked", "settled"} /\ MovesTo(c, "done")
    BY <1>1, <1>7, ChildMoves
  <2>2. phase' = phase /\ reserved' = reserved /\ initial' = initial
    BY <1>7 DEF ChildTimeout
  <2>3. CASE child[c].point = "asked"
    <3>1. SpendUnsettled
      BY <1>7, <2>3 DEF ChildTimeout
    <3>2. paid'.sum = paid.sum /\ "sum" \in DOMAIN paid'
      BY <3>1 DEF SpendUnsettled, Reserves
    <3>3. Cardinality(Asked) = Cardinality(Asked') + 1
      BY <1>1, <2>1, <2>3, OneMore, AskedIsFinite
    <3>4. /\ (ChildEstimate * Cardinality(Asked))' \in Nat
          /\ ChildEstimate * Cardinality(Asked) = (ChildEstimate * Cardinality(Asked))' + ChildEstimate
      BY <3>3, AskedIsFinite, OneEstimate, Numbers
    <3>5. MainAsked' = MainAsked
      BY <2>2 DEF MainAsked
    <3>6. Exposure' <= Exposure
      BY <3>2, <3>4, <3>5, Numbers DEF Reserves, Exposure
    <3>7. paid'.sum \in Nat
      BY <3>2 DEF Reserves
    <3> QED BY <2>2, <3>2, <3>6, <3>7, ReservesFrame
  <2>4. CASE child[c].point # "asked"
    BY <1>1, <1>7, <2>1, <2>2, <2>4, ReservesChildMoves DEF ChildTimeout
  <2> QED BY <2>3, <2>4
<1>8. CASE EndWave
  <2>1. paid' = paid /\ reserved' = reserved /\ initial' = initial
    BY <1>8 DEF EndWave
  <2>2. ~MainAsked /\ ~MainAsked'
    <3>1. phase = "gather" /\ phase' \in {"gather", "partial", "failed", "synth"}
      BY <1>8, Zenon DEF EndWave, EndRun
    <3> QED BY <3>1 DEF MainAsked
  <2>3. ASSUME NEW c \in Children PROVE child'[c] = child[c] \/ (child[c].point # "asked" /\ child'[c].point # "asked")
    <3>1. CASE child' = child
      BY <3>1
    <3>2. CASE child' = [d \in Children |-> IF InWave(d, wave + 1) THEN Started ELSE child[d]]
      <4>1. CASE InWave(c, wave + 1)
        <5>1. WaveOf(c) > wave
          BY <1>1, <4>1 DEF InWave, Waves
        <5>2. child[c].point = "idle"
          BY <1>1, <5>1 DEF Waves
        <5>3. child'[c] = Started
          BY <3>2, <4>1
        <5> QED BY <5>2, <5>3 DEF Started, Idle
      <4>2. CASE ~InWave(c, wave + 1)
        BY <3>2, <4>2
      <4> QED BY <4>1, <4>2
    <3> QED BY <1>8, <3>1, <3>2, Zenon DEF EndWave
  <2>4. Asked' = Asked
    BY <2>3 DEF Asked, Children
  <2> QED BY <2>1, <2>2, <2>4 DEF Reserves, Exposure
<1>9. CASE UNCHANGED allVars
  <2>1. /\ paid' = paid /\ reserved' = reserved /\ initial' = initial
        /\ phase' = phase /\ child' = child
    BY <1>9 DEF allVars, accounts
  <2>2. Asked' = Asked /\ MainAsked' = MainAsked
    BY <2>1 DEF Asked, MainAsked, Children
  <2> QED BY <2>1, <2>2 DEF Reserves, Exposure
<1> QED BY <1>2, <1>3, <1>4, <1>5, <1>6, <1>7, <1>8, <1>9 DEF CostsNext

\* What was paid is part of what was reserved.
LEMMA ReservesBound == Reserves => SpendsWithinCeilings
<1> SUFFICES ASSUME Reserves
             PROVE  /\ paid.sum <= RunCeiling
                    /\ paid.sum > 0 => initial + paid.sum <= DailyCeiling
  BY DEF SpendsWithinCeilings
<1>1. ChildEstimate * Cardinality(Asked) \in Nat
  BY AskedIsFinite, OneEstimate, Numbers
<1>2. paid.sum \in Nat /\ paid.sum <= reserved
  BY <1>1, Numbers DEF Reserves, Exposure
<1> QED BY <1>2, Numbers DEF Reserves

\* Where no request costs more than its estimate, the reservations keep the run
\* below its ceiling and the user's day below the daily one, for any plan, wave
\* size, retries, fallbacks and repairs.
THEOREM SpendingStaysWithinCeilings == CostsSpec => []SpendsWithinCeilings
<1>1. CASE CostsBelowEstimates
  <2>1. CostsInit => Told /\ Reserves
    BY ToldInit, ReservesInit
  <2>2. Told /\ Reserves /\ [CostsNext]_allVars => (Told /\ Reserves)'
    BY <1>1, ToldNext, ReservesNext
  <2>3. Told /\ Reserves => SpendsWithinCeilings
    BY ReservesBound
  <2> QED BY <2>1, <2>2, <2>3, PTL DEF CostsSpec
<1>2. CASE ~CostsBelowEstimates
  <2>1. SpendsWithinCeilings
    BY <1>2 DEF SpendsWithinCeilings, CostsBelowEstimates
  <2> QED BY <2>1, PTL
<1> QED BY <1>1, <1>2

-----------------------------------------------------------------------------
(* What a step of a child writes *)

Points == {"idle", "attempt", "asked", "settled", "done"}
Coroutines(c) ==
    [point : Points, attempt : 0 .. TotalAttempts(c), fallback : BOOLEAN,
     retained : BOOLEAN, metadata : Amount, records : Tally]
Outcomes ==
    [kind : {"none", "accepted", "failed", "ceiling"}, cost : Tally, stops : BOOLEAN]
Bills == [sum : Nat, whole : BOOLEAN]

Coroutine(point, attempt, fallback, retained, metadata, records) ==
    [point |-> point, attempt |-> attempt, fallback |-> fallback, retained |-> retained,
     metadata |-> metadata, records |-> records]

\* The outcome of a request, as the bill shows it.
Pays(amount) ==
    /\ paid' \in Bills
    /\ paid'.sum = paid.sum + Charged(amount)
    /\ paid'.whole <=> paid.whole /\ amount # Unknown

LEMMA AmountTypes ==
    /\ Costs \cup {Unknown} \subseteq Amount
    /\ \A amount \in Amount : Charged(amount) \in Nat
    /\ \A amount \in Amount : Cost(amount) \in Tally
    /\ \A t, u \in Tally : Plus(t, u) \in Tally
    /\ NoCost \in Tally
    /\ \A t \in Tally : Recorded(t) \in Amount
<1>1. Costs \cup {Unknown} \subseteq Amount
  BY CostsAssumption DEF Amount
<1>2. \A amount \in Amount : Charged(amount) \in Nat
  BY DEF Amount, Charged
<1>3. \A amount \in Amount : Cost(amount) \in Tally
  BY DEF Amount, Cost, Tally
<1>4. \A t, u \in Tally : Plus(t, u) \in Tally
  <2> TAKE t, u \in Tally
  <2>1. t.sum + u.sum \in Nat
    BY DEF Tally
  <2>2. (t.known /\ u.known) \in BOOLEAN /\ (t.any \/ u.any) \in BOOLEAN
    OBVIOUS
  <2> QED BY <2>1, <2>2 DEF Plus, Tally
<1>5. NoCost \in Tally
  BY DEF NoCost, Tally
<1>6. \A t \in Tally : Recorded(t) \in Amount
  BY DEF Recorded, Amount, Tally
<1> QED BY <1>1, <1>2, <1>3, <1>4, <1>5, <1>6

\* The settlement the client finds is the one the provider made.
LEMMA SettlementIsTold ==
  ASSUME NEW s \in Settlements
  PROVE  /\ SettledCost(s) \in Costs \cup {Unknown}
         /\ Amounts(s) = {SettledCost(s)} \ {Unknown}
<1>1. /\ s.inline \in Costs \cup {Unknown}
      /\ s.replies \in [1 .. CostLookups -> Costs \cup {Pending, Unknown}]
  BY DEF Settlements
<1>2. ASSUME Final(s) # {} PROVE s.replies[Min(Final(s))] \in Costs \cup {Unknown}
  <2>1. Final(s) \in SUBSET Nat
    BY <1>1, CostsAssumption DEF Final
  <2>2. Min(Final(s)) \in Final(s)
    BY <1>2, <2>1, Smallest
  <2> QED BY <1>1, <2>2 DEF Final
<1> QED BY <1>1, <1>2 DEF Amounts, SettledCost

LEMMA SpendPays ==
  ASSUME paid \in Bills
  PROVE  /\ \A s \in Settlements : Spend(s) => Pays(SettledCost(s))
         /\ SpendUnsettled => Pays(Unknown)
<1>1. ASSUME NEW s \in Settlements, Spend(s) PROVE Pays(SettledCost(s))
  <2>1. Amounts(s) = {SettledCost(s)} \ {Unknown} /\ SettledCost(s) \in Amount
    BY SettlementIsTold, AmountTypes
  <2>2. (IF Amounts(s) = {} THEN 0 ELSE CHOOSE a \in Amounts(s) : TRUE) = Charged(SettledCost(s))
    BY <2>1 DEF Charged
  <2>3. paid'.sum = paid.sum + Charged(SettledCost(s))
    BY <1>1, <2>2 DEF Spend
  <2>4. paid'.whole <=> paid.whole /\ SettledCost(s) # Unknown
    BY <1>1, <2>1 DEF Spend
  <2>5. paid'.sum \in Nat
    BY <2>1, <2>3, AmountTypes DEF Bills
  <2>6. paid' \in Bills
    BY <1>1, <2>5 DEF Spend, Bills
  <2> QED BY <2>3, <2>4, <2>6 DEF Pays
<1>2. ASSUME SpendUnsettled PROVE Pays(Unknown)
  <2>1. paid.sum + Charged(Unknown) = paid.sum
    BY DEF Charged, Bills
  <2>2. paid' \in Bills /\ paid'.sum = paid.sum
    BY <1>2 DEF SpendUnsettled, Bills
  <2>3. ~paid'.whole
    BY <1>2 DEF SpendUnsettled, Bills
  <2> QED BY <2>1, <2>2, <2>3 DEF Pays
<1> QED BY <1>1, <1>2

\* The updates in the steps of a child.
Billed(k, u) == [k EXCEPT !.records = u]
FallsBack(r) == [r EXCEPT !.fallback = TRUE]
Retains(r, m) == [r EXCEPT !.fallback = TRUE, !.retained = TRUE, !.metadata = m]
Rests(r) == [r EXCEPT !.point = "settled"]
Again(q) == [q EXCEPT !.point = "attempt", !.attempt = @ + 1]

\* What they come to.
Resting(k, u) == Coroutine("settled", k.attempt, k.fallback, k.retained, k.metadata, u)
Retrying(k, u) == Coroutine("attempt", k.attempt + 1, k.fallback, k.retained, k.metadata, u)
Falling(k, u) == Coroutine("attempt", k.attempt + 1, TRUE, k.retained, k.metadata, u)
Retaining(k, m, u) == Coroutine("attempt", k.attempt + 1, TRUE, TRUE, m, u)

\* The record has its fields and no others.
Whole(k) ==
    /\ k.attempt \in Nat
    /\ k = Coroutine(k.point, k.attempt, k.fallback, k.retained, k.metadata, k.records)

LEMMA CoroutinesAreWhole == \A c : \A k \in Coroutines(c) : Whole(k)
BY DEF Coroutines, Coroutine, Whole

LEMMA AgainIs ==
  ASSUME NEW p, NEW a \in Nat, NEW f, NEW g, NEW m, NEW u
  PROVE  Again(Coroutine(p, a, f, g, m, u)) = Coroutine("attempt", a + 1, f, g, m, u)
<1> DEFINE q == Coroutine(p, a, f, g, m, u)
<1>1. q.attempt = a /\ DOMAIN q = DOMAIN Coroutine("attempt", a + 1, f, g, m, u)
  BY DEF Coroutine
<1>2. Again(q) = [x \in DOMAIN q |-> IF x = "attempt" THEN q.attempt + 1
                                     ELSE IF x = "point" THEN "attempt" ELSE q[x]]
  BY DEF Again
<1> QED BY <1>1, <1>2 DEF Coroutine

LEMMA ChildUpdates ==
  ASSUME NEW k, Whole(k), NEW u, NEW v
  PROVE  /\ Rests(Billed(k, u)) = Resting(k, u)
         /\ Again(Billed(k, u)) = Retrying(k, u)
         /\ Again(FallsBack(Billed(k, u))) = Falling(k, u)
         /\ Again(Retains(Billed(k, u), v)) = Retaining(k, v, u)
         /\ Billed(k, u).records = u /\ Billed(k, u).fallback = k.fallback
         /\ Billed(k, u).retained = k.retained /\ Billed(k, u).metadata = k.metadata
<1> DEFINE p == k.point
           a == k.attempt
           f == k.fallback
           g == k.retained
           m == k.metadata
           r == Billed(k, u)
<1>1. a \in Nat /\ k = Coroutine(p, a, f, g, m, k.records)
  BY DEF Whole
<1> HIDE DEF p, a, f, g, m
<1>2. r = Coroutine(p, a, f, g, m, u)
  BY <1>1 DEF Coroutine, Billed
<1> HIDE DEF r
<1>3. r.records = u /\ r.fallback = f /\ r.retained = g /\ r.metadata = m
  BY <1>2 DEF Coroutine
<1>4. Rests(r) = Coroutine("settled", a, f, g, m, u)
  BY <1>2 DEF Coroutine, Rests
<1>5. Again(r) = Coroutine("attempt", a + 1, f, g, m, u)
  BY <1>1, <1>2, AgainIs
<1>6. Again(FallsBack(r)) = Coroutine("attempt", a + 1, TRUE, g, m, u)
  <2>1. ASSUME NEW yes PROVE [r EXCEPT !.fallback = yes] = Coroutine(p, a, yes, g, m, u)
    BY <1>2 DEF Coroutine
  <2>2. FallsBack(r) = Coroutine(p, a, TRUE, g, m, u)
    BY <2>1, Zenon DEF FallsBack
  <2>3. \A yes : Again(Coroutine(p, a, yes, g, m, u)) = Coroutine("attempt", a + 1, yes, g, m, u)
    BY <1>1, AgainIs
  <2> QED BY <2>2, <2>3, Zenon
<1>7. Again(Retains(r, v)) = Coroutine("attempt", a + 1, TRUE, TRUE, v, u)
  <2>1. ASSUME NEW yes
        PROVE  [r EXCEPT !.fallback = yes, !.retained = yes, !.metadata = v]
                  = Coroutine(p, a, yes, yes, v, u)
    <3>1. [r EXCEPT !.fallback = yes, !.retained = yes, !.metadata = v] =
            [x \in DOMAIN r |-> IF x = "metadata" THEN v
                                ELSE IF x = "retained" THEN yes
                                ELSE IF x = "fallback" THEN yes ELSE r[x]]
      OBVIOUS
    <3> QED BY <1>2, <3>1 DEF Coroutine
  <2>2. Retains(r, v) = Coroutine(p, a, TRUE, TRUE, v, u)
    BY <2>1, Zenon DEF Retains
  <2>3. \A yes : Again(Coroutine(p, a, yes, yes, v, u)) = Coroutine("attempt", a + 1, yes, yes, v, u)
    BY <1>1, AgainIs
  <2> QED BY <2>2, <2>3, Zenon
<1>8. /\ Resting(k, u) = Coroutine("settled", a, f, g, m, u)
      /\ Retrying(k, u) = Coroutine("attempt", a + 1, f, g, m, u)
      /\ Falling(k, u) = Coroutine("attempt", a + 1, TRUE, g, m, u)
  BY Zenon DEF Resting, Retrying, Falling, a, f, g, m
<1>9. Retaining(k, v, u) = Coroutine("attempt", a + 1, TRUE, TRUE, v, u)
  BY Zenon DEF Retaining, a
<1> QED BY <1>3, <1>4, <1>5, <1>6, <1>7, <1>8, <1>9, Zenon DEF r, f, g, m

\* What is left when a request has ended in an amount: the child asks once more,
\* with or without the fallback, or settles its task.
AsksOnceMore(c, next) ==
    /\ child' = [child EXCEPT ![c] = next]
    /\ task' = task /\ outcome' = outcome /\ ledger' = ledger

Settles(c, status, result, charge, records) ==
    /\ child' = [child EXCEPT ![c] = Resting(child[c], records)]
    /\ Settle(c, status, charge, result)

Result(kind, cost, stops) == [kind |-> kind, cost |-> cost, stops |-> stops]

Ends(c, amount) ==
    LET k == child[c]
        u == Plus(k.records, Cost(amount))
    IN  \/ k.attempt < PrimaryAttempts /\ AsksOnceMore(c, Retrying(k, u))
        \/ c \in FirstParty /\ ~k.fallback /\ AsksOnceMore(c, Falling(k, u))
        \/ c \in FirstParty /\ ~k.fallback /\ AsksOnceMore(c, Retaining(k, amount, u))
        \/ Settles(c, "succeeded", Result("accepted", u, FALSE), amount, u)
        \/ k.retained /\ Settles(c, "succeeded", Result("accepted", u, FALSE), k.metadata, u)
        \/ \E stops \in BOOLEAN : Settles(c, "failed", Result("failed", u, stops), amount, u)

LEMMA FailureTypes == \A f \in Failures : f.stops \in BOOLEAN
<1>1. \A f \in Failures :
         \E m, r, e, s \in BOOLEAN : f = Failure(m, r, e, s)
  BY Zenon DEF Failures, AnswerFailures, RequestFailures
<1> QED BY <1>1 DEF Failure

LEMMA RequestEnds ==
  ASSUME paid \in Bills, NEW c \in Children, Whole(child[c]),
         ChildAnswered(c) \/ ChildFails(c)
  PROVE  \E amount \in Costs \cup {Unknown} : Pays(amount) /\ Ends(c, amount)
<1> DEFINE k == child[c]
           u(amount) == Plus(k.records, Cost(amount))
           billed(amount) == Billed(k, u(amount))
<1>1. ASSUME NEW q, TryAgain(c, q)
      PROVE  /\ child' = [child EXCEPT ![c] = Again(q)]
             /\ task' = task /\ outcome' = outcome /\ ledger' = ledger
  BY <1>1 DEF TryAgain, SetChild, Again
<1>2. ASSUME NEW amount
      PROVE  /\ TryAgain(c, billed(amount)) =>
                   AsksOnceMore(c, Retrying(k, u(amount)))
             /\ TryAgain(c, FallsBack(billed(amount))) =>
                   AsksOnceMore(c, Falling(k, u(amount)))
             /\ TryAgain(c, Retains(billed(amount), amount)) =>
                   AsksOnceMore(c, Retaining(k, amount, u(amount)))
  <2>1. Again(billed(amount)) = Retrying(k, u(amount))
    BY ChildUpdates, Zenon
  <2>2. Again(FallsBack(billed(amount))) = Falling(k, u(amount))
    BY ChildUpdates, Zenon
  <2>3. Again(Retains(billed(amount), amount)) = Retaining(k, amount, u(amount))
    <3>1. \A j, w, v : Whole(j) => Again(Retains(Billed(j, w), v)) = Retaining(j, v, w)
      BY ChildUpdates
    <3> QED BY <3>1
  <2> HIDE DEF billed, u
  <2>4. TryAgain(c, billed(amount)) => AsksOnceMore(c, Retrying(k, u(amount)))
    BY <1>1, <2>1, Zenon DEF AsksOnceMore
  <2>5. TryAgain(c, FallsBack(billed(amount))) => AsksOnceMore(c, Falling(k, u(amount)))
    BY <1>1, <2>2, Zenon DEF AsksOnceMore
  <2>6. TryAgain(c, Retains(billed(amount), amount)) => AsksOnceMore(c, Retaining(k, amount, u(amount)))
    BY <1>1, <2>3, Zenon DEF AsksOnceMore
  <2> QED BY <2>4, <2>5, <2>6
<1>3. ASSUME NEW amount
      PROVE  /\ billed(amount).records = u(amount) /\ billed(amount).fallback = k.fallback
             /\ billed(amount).retained = k.retained /\ billed(amount).metadata = k.metadata
             /\ Rests(billed(amount)) = Resting(k, u(amount))
  BY ChildUpdates, Zenon
<1>4. ASSUME NEW amount, NEW charge, Accept(c, billed(amount), charge)
      PROVE  Settles(c, "succeeded", Result("accepted", u(amount), FALSE), charge, u(amount))
  <2>1. /\ child' = [child EXCEPT ![c] = Rests(billed(amount))]
        /\ Settle(c, "succeeded", charge, Result("accepted", billed(amount).records, FALSE))
    BY <1>4, Zenon DEF Accept, SetChild, Rests, Result
  <2> QED BY <1>3, <2>1, Zenon DEF Settles
<1>5. CASE ChildAnswered(c)
  <2>1. PICK s \in Settlements, complete \in BOOLEAN :
           LET amount == SettledCost(s)
               r == [child[c] EXCEPT !.records = Plus(@, Cost(amount))]
           IN
           /\ Spend(s)
           /\ IF c \in FirstParty /\ ~r.fallback /\ ~complete
              THEN TryAgain(c, [r EXCEPT !.fallback = TRUE, !.retained = TRUE,
                                         !.metadata = amount])
              ELSE Accept(c, r, amount)
    BY <1>5 DEF ChildAnswered
  <2> DEFINE amount == SettledCost(s)
  <2>2. amount \in Costs \cup {Unknown} /\ Pays(amount)
    BY <2>1, SettlementIsTold, SpendPays
  <2>3. \/ /\ c \in FirstParty /\ ~billed(amount).fallback
           /\ TryAgain(c, Retains(billed(amount), amount))
        \/ Accept(c, billed(amount), amount)
    BY <2>1, Zenon DEF Retains, Billed
  <2> HIDE DEF amount
  <2>4. \/ c \in FirstParty /\ ~k.fallback /\ AsksOnceMore(c, Retaining(k, amount, u(amount)))
        \/ Settles(c, "succeeded", Result("accepted", u(amount), FALSE), amount, u(amount))
    BY <1>2, <1>3, <1>4, <2>3, Zenon
  <2> QED BY <2>2, <2>4, Zenon DEF Ends
<1>6. CASE ChildFails(c)
  <2>1. PICK f \in Failures, s \in Settlements :
          LET amount == IF f.metadata THEN SettledCost(s) ELSE Unknown
              r == [child[c] EXCEPT !.records = Plus(@, Cost(amount))]
          IN
          /\ IF f.metadata THEN Spend(s) ELSE SpendUnsettled
          /\ \/ Retry(c, f) /\ TryAgain(c, r)
             \/ Fallback(c, f) /\ TryAgain(c, [r EXCEPT !.fallback = TRUE])
             \/ ~Fallback(c, f) /\ r.retained /\ Accept(c, r, r.metadata)
             \/ /\ ~Fallback(c, f) /\ ~r.retained
                /\ Settle(c, "failed", amount,
                          [kind |-> "failed", cost |-> r.records, stops |-> f.stops])
                /\ SetChild(c, [r EXCEPT !.point = "settled"])
    BY <1>6 DEF ChildFails
  <2> DEFINE amount == IF f.metadata THEN SettledCost(s) ELSE Unknown
  <2>2. amount \in Costs \cup {Unknown} /\ Pays(amount)
    BY <2>1, SettlementIsTold, SpendPays
  <2>3. \/ Retry(c, f) /\ TryAgain(c, billed(amount))
        \/ Fallback(c, f) /\ TryAgain(c, FallsBack(billed(amount)))
        \/ billed(amount).retained /\ Accept(c, billed(amount), billed(amount).metadata)
        \/ /\ Settle(c, "failed", amount, Result("failed", billed(amount).records, f.stops))
           /\ child' = [child EXCEPT ![c] = Rests(billed(amount))]
    BY <2>1, Zenon DEF FallsBack, Billed, Result, Rests, SetChild
  <2>4. Retry(c, f) => k.attempt < PrimaryAttempts
    BY DEF Retry
  <2>5. Fallback(c, f) => c \in FirstParty /\ ~k.fallback
    BY DEF Fallback
  <2>6. f.stops \in BOOLEAN
    BY FailureTypes
  <2> HIDE DEF amount
  <2>7. \/ k.attempt < PrimaryAttempts
           /\ AsksOnceMore(c, Retrying(k, u(amount)))
        \/ c \in FirstParty /\ ~k.fallback
           /\ AsksOnceMore(c, Falling(k, u(amount)))
        \/ k.retained
           /\ Settles(c, "succeeded", Result("accepted", u(amount), FALSE), k.metadata, u(amount))
        \/ Settles(c, "failed", Result("failed", u(amount), f.stops), amount, u(amount))
    BY <1>2, <1>3, <1>4, <2>3, <2>4, <2>5, Zenon DEF Settles
  <2> QED BY <2>2, <2>6, <2>7, Zenon DEF Ends
<1> QED BY <1>5, <1>6

-----------------------------------------------------------------------------
(* CostsTypeOK *)

Phases == {"plan", "planAsked", "gather", "synth", "synthAsked"} \cup Ended
Statuses == {"absent", "queued", "running", "succeeded", "failed", "cancelled"}

\* The repairs and the attempts that have been used up.
Counts ==
    /\ phase \in {"plan", "gather", "synth"} => tries <= MaxRepairs
    /\ \A c \in Children : ~child[c].fallback => child[c].attempt <= PrimaryAttempts

\* The parts of the type invariant the steps of a child write, and the others.
ChildTypes ==
    \A c \in Children :
        child[c] \in Coroutines(c) /\ outcome[c] \in Outcomes /\ task[c] \in Statuses

RunTypes ==
    /\ phase \in Phases /\ tries \in 0 .. MaxRepairs + 1
    /\ initial \in InitialCosts /\ usage \in Tally /\ wave \in Nat /\ reported \in Amount

BillTypes == reserved \in Nat /\ ledger \in Nat /\ paid \in Bills

\* The inductive invariant of CostsTypeOK.
Typed == ChildTypes /\ RunTypes /\ BillTypes /\ Counts

LEMMA TypedIsTypeOK == Typed => CostsTypeOK
BY DEF Typed, ChildTypes, RunTypes, BillTypes, CostsTypeOK, Coroutines, Outcomes, Statuses,
       Points, Phases, Bills

LEMMA AttemptNumbers ==
    /\ PrimaryAttempts \in Nat \ {0}
    /\ \A c \in Children : /\ TotalAttempts(c) \in Nat /\ PrimaryAttempts <= TotalAttempts(c)
                           /\ c \in FirstParty => TotalAttempts(c) = PrimaryAttempts + 1
    /\ MaxRepairs \in Nat
BY CostsAssumption DEF PrimaryAttempts, TotalAttempts

LEMMA FreshTypes ==
    /\ \A c \in Children : Idle \in Coroutines(c) /\ Started \in Coroutines(c)
    /\ NoOutcome \in Outcomes
    /\ Idle.attempt = 0 /\ Started.attempt = 1
<1>1. NoCost \in Tally /\ Unknown \in Amount
  BY AmountTypes
<1>2. Idle.attempt = 0 /\ Started.attempt = 1
  BY DEF Idle, Started
<1>3. ASSUME NEW c \in Children PROVE Idle \in Coroutines(c)
  BY <1>1, AttemptNumbers DEF Idle, Coroutines, Points
<1>4. ASSUME NEW c \in Children PROVE Started \in Coroutines(c)
  <2>1. 1 \in 0 .. TotalAttempts(c)
    BY AttemptNumbers
  <2> QED BY <1>1, <2>1 DEF Started, Idle, Coroutines, Points
<1>5. NoOutcome \in Outcomes
  BY <1>1 DEF NoOutcome, Outcomes
<1> QED BY <1>2, <1>3, <1>4, <1>5

LEMMA TypedInit == CostsInit => Typed
<1> SUFFICES ASSUME CostsInit PROVE Typed
  OBVIOUS
<1>1. ChildTypes
  BY FreshTypes DEF CostsInit, ChildTypes, Statuses
<1>2. RunTypes
  BY AmountTypes, AttemptNumbers DEF CostsInit, RunTypes, Phases, Amount
<1>3. BillTypes
  BY DEF CostsInit, BillTypes, Bills
<1>4. Counts
  BY FreshTypes, AttemptNumbers DEF CostsInit, Counts
<1> QED BY <1>1, <1>2, <1>3, <1>4 DEF Typed

LEMMA UpdateTypes ==
  ASSUME NEW c \in Children, NEW k \in Coroutines(c), NEW u \in Tally
  PROVE  /\ Resting(k, u) \in Coroutines(c)
         /\ Resting(k, u).attempt = k.attempt /\ Resting(k, u).fallback = k.fallback
         /\ k.attempt < PrimaryAttempts =>
               /\ Retrying(k, u) \in Coroutines(c)
               /\ Retrying(k, u).attempt <= PrimaryAttempts
         /\ c \in FirstParty /\ k.attempt <= PrimaryAttempts =>
               /\ Falling(k, u) \in Coroutines(c) /\ Falling(k, u).fallback
               /\ \A m \in Amount : /\ Retaining(k, m, u) \in Coroutines(c)
                                   /\ Retaining(k, m, u).fallback
<1>1. /\ Resting(k, u) \in Coroutines(c)
      /\ Resting(k, u).attempt = k.attempt /\ Resting(k, u).fallback = k.fallback
  BY DEF Resting, Coroutine, Coroutines, Points
<1>2. ASSUME k.attempt < PrimaryAttempts
      PROVE  Retrying(k, u) \in Coroutines(c) /\ Retrying(k, u).attempt <= PrimaryAttempts
  <2>1. k.attempt + 1 \in 0 .. TotalAttempts(c) /\ k.attempt + 1 <= PrimaryAttempts
    BY <1>2, AttemptNumbers DEF Coroutines
  <2> QED BY <2>1 DEF Retrying, Coroutine, Coroutines, Points
<1>3. ASSUME c \in FirstParty, k.attempt <= PrimaryAttempts, NEW m \in Amount
      PROVE  /\ Falling(k, u) \in Coroutines(c) /\ Falling(k, u).fallback
             /\ Retaining(k, m, u) \in Coroutines(c) /\ Retaining(k, m, u).fallback
  <2>1. k.attempt + 1 \in 0 .. TotalAttempts(c)
    BY <1>3, AttemptNumbers DEF Coroutines
  <2>2. Falling(k, u) \in Coroutines(c) /\ Falling(k, u).fallback
    BY <2>1 DEF Falling, Coroutine, Coroutines, Points
  <2>3. Retaining(k, m, u) \in Coroutines(c) /\ Retaining(k, m, u).fallback
    BY <2>1 DEF Retaining, Coroutine, Coroutines, Points
  <2> QED BY <2>2, <2>3
<1>4. Unknown \in Amount
  BY AmountTypes
<1> QED BY <1>1, <1>2, <1>3, <1>4

\* The step of a child writes its own records and its part of the accounts.
LEMMA TypedChildStep ==
  ASSUME Typed, NEW c \in Children,
         \A d \in Children \ {c} :
            child'[d] = child[d] /\ outcome'[d] = outcome[d] /\ task'[d] = task[d],
         child'[c] \in Coroutines(c), outcome'[c] \in Outcomes, task'[c] \in Statuses,
         ~child'[c].fallback => child'[c].attempt <= PrimaryAttempts,
         BillTypes', UNCHANGED <<phase, tries, initial, wave, usage, reported>>
  PROVE  Typed'
<1>1. ChildTypes'
  <2> SUFFICES ASSUME NEW d \in Children
               PROVE  /\ child'[d] \in Coroutines(d) /\ outcome'[d] \in Outcomes
                      /\ task'[d] \in Statuses
    BY DEF ChildTypes, Coroutines, TotalAttempts, PrimaryAttempts
  <2> QED BY DEF Typed, ChildTypes
<1>2. RunTypes'
  BY DEF Typed, RunTypes
<1>3. Counts'
  BY DEF Typed, Counts, PrimaryAttempts
<1> QED BY <1>1, <1>2, <1>3 DEF Typed

LEMMA SettleTypes ==
  ASSUME Waves, Typed, NEW c \in Children, NEW status \in Statuses, NEW amount \in Amount,
         NEW result \in Outcomes, Settle(c, status, amount, result)
  PROVE  /\ outcome'[c] \in Outcomes /\ task'[c] \in Statuses /\ ledger' \in Nat
         /\ \A d \in Children \ {c} : outcome'[d] = outcome[d] /\ task'[d] = task[d]
<1>1. Charged(amount) \in Nat /\ ledger \in Nat
  BY AmountTypes DEF Typed, BillTypes
<1> QED BY <1>1 DEF Settle, Waves

LEMMA ResultTypes ==
  /\ \A u \in Tally : \A stops \in BOOLEAN :
        Result("accepted", u, stops) \in Outcomes /\ Result("failed", u, stops) \in Outcomes
  /\ [kind |-> "ceiling", cost |-> NoCost, stops |-> TRUE] \in Outcomes
  /\ [kind |-> "failed", cost |-> Cost(Unknown), stops |-> FALSE] \in Outcomes
BY AmountTypes DEF Result, Outcomes

LEMMA TypedRequestEnds ==
  ASSUME Waves, Typed, NEW c \in Children, ChildAnswered(c) \/ ChildFails(c)
  PROVE  Typed'
<1> DEFINE k == child[c]
<1>1. /\ k \in Coroutines(c) /\ outcome[c] \in Outcomes /\ task[c] \in Statuses
      /\ reserved \in Nat /\ ledger \in Nat /\ paid \in Bills
      /\ ~k.fallback => k.attempt <= PrimaryAttempts
  BY DEF Typed, ChildTypes, BillTypes, Counts
<1>2. PICK amount \in Costs \cup {Unknown} : Pays(amount) /\ Ends(c, amount)
  <2>1. Whole(child[c])
    BY <1>1, CoroutinesAreWhole
  <2> QED BY <1>1, <2>1, RequestEnds
<1>3. UNCHANGED <<phase, tries, initial, wave, usage, reported>> /\ reserved' = reserved
  BY DEF ChildAnswered, ChildFails
<1> DEFINE u == Plus(k.records, Cost(amount))
<1>4. amount \in Amount /\ u \in Tally /\ k.metadata \in Amount
  <2>1. k.records \in Tally /\ k.metadata \in Amount
    BY <1>1 DEF Coroutines
  <2> QED BY <2>1, AmountTypes
<1>5. paid' \in Bills
  BY <1>2 DEF Pays
<1> HIDE DEF k, u
<1>6. ASSUME NEW next \in Coroutines(c), AsksOnceMore(c, next),
             ~next.fallback => next.attempt <= PrimaryAttempts
      PROVE  Typed'
  <2>1. /\ child'[c] = next /\ outcome' = outcome /\ task' = task /\ ledger' = ledger
        /\ \A d \in Children \ {c} : child'[d] = child[d]
    BY <1>6 DEF AsksOnceMore, Waves
  <2>2. BillTypes'
    BY <1>1, <1>3, <1>5, <2>1 DEF BillTypes
  <2> QED BY <1>1, <1>3, <1>6, <2>1, <2>2, TypedChildStep
<1>7. ASSUME NEW status \in {"succeeded", "failed"}, NEW result \in Outcomes,
             NEW charge \in Amount, Settles(c, status, result, charge, u)
      PROVE  Typed'
  <2>1. /\ child'[c] = Resting(k, u) /\ \A d \in Children \ {c} : child'[d] = child[d]
        /\ Settle(c, status, charge, result)
    BY <1>7 DEF Settles, Waves, k
  <2>2. status \in Statuses
    BY DEF Statuses
  <2>3. /\ outcome'[c] \in Outcomes /\ task'[c] \in Statuses /\ ledger' \in Nat
        /\ \A d \in Children \ {c} : outcome'[d] = outcome[d] /\ task'[d] = task[d]
    BY <2>1, <2>2, SettleTypes
  <2>4. /\ Resting(k, u) \in Coroutines(c)
        /\ ~Resting(k, u).fallback => Resting(k, u).attempt <= PrimaryAttempts
    BY <1>1, <1>4, UpdateTypes
  <2>5. BillTypes'
    BY <1>1, <1>3, <1>5, <2>3 DEF BillTypes
  <2> QED BY <1>3, <2>1, <2>3, <2>4, <2>5, TypedChildStep
<1>8. /\ k.attempt < PrimaryAttempts =>
            /\ Retrying(k, u) \in Coroutines(c)
            /\ Retrying(k, u).attempt <= PrimaryAttempts
      /\ c \in FirstParty /\ ~k.fallback =>
            /\ Falling(k, u) \in Coroutines(c) /\ Falling(k, u).fallback
            /\ Retaining(k, amount, u) \in Coroutines(c) /\ Retaining(k, amount, u).fallback
  BY <1>1, <1>4, UpdateTypes
<1>9. \A stops \in BOOLEAN :
         Result("accepted", u, stops) \in Outcomes /\ Result("failed", u, stops) \in Outcomes
  BY <1>4, ResultTypes
<1>10. \/ k.attempt < PrimaryAttempts /\ AsksOnceMore(c, Retrying(k, u))
       \/ c \in FirstParty /\ ~k.fallback /\ AsksOnceMore(c, Falling(k, u))
       \/ c \in FirstParty /\ ~k.fallback /\ AsksOnceMore(c, Retaining(k, amount, u))
       \/ Settles(c, "succeeded", Result("accepted", u, FALSE), amount, u)
       \/ Settles(c, "succeeded", Result("accepted", u, FALSE), k.metadata, u)
       \/ \E stops \in BOOLEAN : Settles(c, "failed", Result("failed", u, stops), amount, u)
  BY <1>2, Zenon DEF Ends, k, u
<1> QED BY <1>4, <1>6, <1>7, <1>8, <1>9, <1>10

LEMMA TypedChild ==
  ASSUME Waves, Typed, NEW c \in Children,
         AskChild(c) \/ ChildAnswered(c) \/ ChildFails(c) \/ ChildReturns(c) \/ ChildTimeout(c)
  PROVE  Typed'
<1> DEFINE k == child[c]
<1>1. /\ k \in Coroutines(c) /\ outcome[c] \in Outcomes /\ task[c] \in Statuses
      /\ reserved \in Nat /\ ledger \in Nat /\ paid \in Bills
      /\ ~k.fallback => k.attempt <= PrimaryAttempts
  BY DEF Typed, ChildTypes, BillTypes, Counts
<1>2. ASSUME NEW p \in Points, SetChild(c, [child[c] EXCEPT !.point = p])
      PROVE  /\ child'[c] \in Coroutines(c)
             /\ ~child'[c].fallback => child'[c].attempt <= PrimaryAttempts
             /\ \A d \in Children \ {c} : child'[d] = child[d]
  <2> DEFINE next == [child[c] EXCEPT !.point = p]
  <2>1. next \in Coroutines(c)
    BY <1>1 DEF Coroutines
  <2>2. next.attempt = k.attempt /\ next.fallback = k.fallback
    BY <1>1 DEF Coroutines
  <2>3. child' = [child EXCEPT ![c] = next]
    BY <1>2 DEF SetChild
  <2> HIDE DEF next, k
  <2>4. child'[c] = next /\ \A d \in Children \ {c} : child'[d] = child[d]
    BY <2>3 DEF Waves
  <2> QED BY <1>1, <2>1, <2>2, <2>4
<1>3. {"asked", "settled", "done"} \subseteq Points
  BY DEF Points
<1>4. {"running", "cancelled", "failed"} \subseteq Statuses
  BY DEF Statuses
<1>5. CASE AskChild(c)
  <2>1. UNCHANGED <<phase, tries, initial, wave, usage, reported>> /\ paid' = paid
    BY <1>5 DEF AskChild
  <2>2. CASE WouldExceed(ChildEstimate)
    <3> DEFINE result == [kind |-> "ceiling", cost |-> NoCost, stops |-> TRUE]
    <3>1. /\ Settle(c, "cancelled", Unknown, result) /\ reserved' = reserved
          /\ SetChild(c, [child[c] EXCEPT !.point = "settled"])
      BY <1>5, <2>2 DEF AskChild
    <3>2. result \in Outcomes /\ Unknown \in Amount
      BY ResultTypes, AmountTypes
    <3> HIDE DEF result
    <3>3. /\ outcome'[c] \in Outcomes /\ task'[c] \in Statuses /\ ledger' \in Nat
          /\ \A d \in Children \ {c} : outcome'[d] = outcome[d] /\ task'[d] = task[d]
      BY <1>4, <3>1, <3>2, SettleTypes
    <3>4. BillTypes'
      BY <1>1, <2>1, <3>1, <3>3 DEF BillTypes
    <3> QED BY <1>2, <1>3, <2>1, <3>1, <3>3, <3>4, TypedChildStep
  <2>3. CASE ~WouldExceed(ChildEstimate)
    <3>1. /\ task' = [task EXCEPT ![c] = "running"] /\ outcome' = outcome
          /\ reserved' = reserved + ChildEstimate /\ ledger' = ledger
          /\ SetChild(c, [child[c] EXCEPT !.point = "asked"])
      BY <1>5, <2>3 DEF AskChild
    <3>2. /\ task'[c] \in Statuses
          /\ \A d \in Children \ {c} : outcome'[d] = outcome[d] /\ task'[d] = task[d]
      BY <1>4, <3>1 DEF Waves
    <3>3. BillTypes'
      BY <1>1, <2>1, <3>1, Numbers DEF BillTypes
    <3> QED BY <1>1, <1>2, <1>3, <2>1, <3>1, <3>2, <3>3, TypedChildStep
  <2> QED BY <2>2, <2>3
<1>6. CASE ChildAnswered(c) \/ ChildFails(c)
  BY <1>6, TypedRequestEnds
<1>7. CASE ChildReturns(c)
  <2>1. /\ UNCHANGED <<phase, tries, initial, wave, usage, reported>>
        /\ UNCHANGED <<paid, reserved, ledger, outcome, task>>
        /\ SetChild(c, [child[c] EXCEPT !.point = "done"])
    BY <1>7 DEF ChildReturns, accounts
  <2>2. BillTypes'
    BY <1>1, <2>1 DEF BillTypes
  <2> QED BY <1>1, <1>2, <1>3, <2>1, <2>2, TypedChildStep
<1>8. CASE ChildTimeout(c)
  <2> DEFINE result == [kind |-> "failed", cost |-> Cost(Unknown), stops |-> FALSE]
  <2>1. /\ UNCHANGED <<phase, tries, initial, wave, usage, reported>>
        /\ UNCHANGED <<reserved, ledger>>
        /\ SetChild(c, [child[c] EXCEPT !.point = "done"])
        /\ task' = [task EXCEPT ![c] = "failed"] /\ outcome' = [outcome EXCEPT ![c] = result]
    BY <1>8 DEF ChildTimeout
  <2>2. result \in Outcomes
    BY ResultTypes
  <2> HIDE DEF result
  <2>3. /\ outcome'[c] \in Outcomes /\ task'[c] \in Statuses
        /\ \A d \in Children \ {c} : outcome'[d] = outcome[d] /\ task'[d] = task[d]
    BY <1>4, <2>1, <2>2 DEF Waves
  <2>4. paid' \in Bills
    <3>1. SpendUnsettled \/ paid' = paid
      BY <1>8 DEF ChildTimeout
    <3> QED BY <1>1, <3>1, SpendPays DEF Pays
  <2>5. BillTypes'
    BY <1>1, <2>1, <2>4 DEF BillTypes
  <2> QED BY <1>2, <1>3, <2>1, <2>3, <2>5, TypedChildStep
<1> QED BY <1>5, <1>6, <1>7, <1>8

LEMMA ChildrenAreFinite == \A S \in SUBSET Children : IsFiniteSet(S)
<1>1. IsFiniteSet(Children)
  BY CostsAssumption, FS_Interval DEF Children
<1> QED BY <1>1, FS_Subset

\* What a wave adds to the accumulator.
LEMMA SumTypes ==
  ASSUME ChildTypes, NEW S \in SUBSET Children
  PROVE  Sum(S) \in Tally
<1> DEFINE f == [c \in S |-> outcome[c].cost.sum]
<1>1. \A c \in S : outcome[c].cost \in Tally
  BY DEF ChildTypes, Outcomes
<1>2. \A c \in S : f[c] \in Nat
  BY <1>1 DEF Tally
<1>3. IsFiniteSet(S)
  BY ChildrenAreFinite
<1> HIDE DEF f
<1>4. SumFunctionOnSet(f, S) \in Nat
  BY <1>2, <1>3, SumIsNat
<1>5. (\A c \in S : outcome[c].cost.known) \in BOOLEAN /\ (\E c \in S : outcome[c].cost.any) \in BOOLEAN
  OBVIOUS
<1> QED BY <1>4, <1>5 DEF Sum, Tally, f

LEMMA EndRunTypes ==
  ASSUME NEW status \in Ended, NEW total \in Tally, EndRun(status, total)
  PROVE  phase' \in Ended /\ reported' \in Amount
BY AmountTypes DEF EndRun

\* The phases of the repairs, and those of the end.
LEMMA EndedPhases == Ended \subseteq Phases /\ \A p \in Ended : p \notin {"plan", "gather", "synth"}
BY DEF Ended, Phases

LEMMA TypedAskMain ==
  ASSUME Typed, AskMain
  PROVE  Typed'
<1>1. /\ UNCHANGED <<initial, wave, child, outcome, task, usage, ledger, paid>>
      /\ phase \in {"plan", "synth"}
  BY DEF AskMain
<1>2. ChildTypes'
  BY <1>1 DEF Typed, ChildTypes, Coroutines, TotalAttempts, PrimaryAttempts
<1>3. \A c \in Children : ~child'[c].fallback => child'[c].attempt <= PrimaryAttempts
  BY <1>1 DEF Typed, Counts
<1>4. usage \in Tally /\ tries \in 0 .. MaxRepairs + 1 /\ tries <= MaxRepairs /\ reserved \in Nat
  BY <1>1 DEF Typed, RunTypes, BillTypes, Counts
<1>5. CASE WouldExceed(MainEstimate)
  <2>1. EndRun("partial", usage) /\ UNCHANGED <<reserved, tries>>
    BY <1>5 DEF AskMain
  <2>2. phase' \in Ended /\ reported' \in Amount
    BY <1>4, <2>1, EndRunTypes DEF Ended
  <2> QED BY <1>1, <1>2, <1>3, <2>1, <2>2, EndedPhases
          DEF Typed, RunTypes, BillTypes, Counts, PrimaryAttempts
<1>6. CASE ~WouldExceed(MainEstimate)
  <2>1. /\ reserved' = reserved + MainEstimate /\ tries' = tries + 1
        /\ phase' \in {"planAsked", "synthAsked"} /\ reported' = reported
    BY <1>6 DEF AskMain
  <2>2. reserved' \in Nat /\ tries' \in 0 .. MaxRepairs + 1
    BY <1>4, <2>1, Numbers, AttemptNumbers
  <2> QED BY <1>1, <1>2, <1>3, <2>1, <2>2
          DEF Typed, RunTypes, BillTypes, Counts, PrimaryAttempts, Phases
<1> QED BY <1>5, <1>6

LEMMA TypedMain ==
  ASSUME Waves, Typed, MainAnswered \/ MainFails
  PROVE  Typed'
<1>1. UNCHANGED <<initial, reserved, outcome>> /\ phase \in {"planAsked", "synthAsked"}
  BY DEF MainAnswered, MainFails
<1>2. usage \in Tally /\ ledger \in Nat /\ paid \in Bills /\ tries \in 0 .. MaxRepairs + 1
      /\ reserved \in Nat
  BY DEF Typed, RunTypes, BillTypes
<1>3. ASSUME NEW amount \in Amount, Pays(amount), usage' = Plus(usage, Cost(amount)),
             ledger' = ledger \/ ledger' = ledger + Charged(amount)
      PROVE  BillTypes' /\ usage' \in Tally
  <2>1. Cost(amount) \in Tally /\ Charged(amount) \in Nat
    BY AmountTypes
  <2>2. usage' \in Tally
    BY <1>2, <1>3, <2>1, AmountTypes
  <2>3. ledger' \in Nat
    BY <1>2, <1>3, <2>1
  <2>4. paid' \in Bills
    BY <1>3 DEF Pays
  <2> QED BY <1>1, <1>2, <2>2, <2>3, <2>4 DEF BillTypes
<1>4. ASSUME UNCHANGED <<wave, child, task>>, BillTypes', usage' \in Tally, reported' \in Amount,
             phase' \in Phases, tries' \in 0 .. MaxRepairs + 1,
             phase' \in {"plan", "gather", "synth"} => tries' <= MaxRepairs
      PROVE  Typed'
  <2>1. ChildTypes'
    BY <1>1, <1>4 DEF Typed, ChildTypes, Coroutines, TotalAttempts, PrimaryAttempts
  <2> QED BY <1>1, <1>4, <2>1 DEF Typed, RunTypes, Counts, PrimaryAttempts
<1>5. 0 \in 0 .. MaxRepairs + 1 /\ 0 <= MaxRepairs
  BY AttemptNumbers
<1>6. CASE MainAnswered
  <2>1. PICK s \in Settlements :
          LET total == Plus(usage, Cost(SettledCost(s))) IN
          /\ usage' = total
          /\ Spend(s)
          /\ ledger' = ledger + Charged(SettledCost(s))
          /\ \/ \E status \in Ended : EndRun(status, total) /\ UNCHANGED <<wave, child, task>>
             \/ Gather /\ UNCHANGED reported
    BY <1>6, Zenon DEF MainAnswered, Ended
  <2>2. SettledCost(s) \in Amount /\ Pays(SettledCost(s))
    BY <1>2, <2>1, SettlementIsTold, AmountTypes, SpendPays
  <2>3. BillTypes' /\ usage' \in Tally
    BY <1>3, <2>1, <2>2
  <2>4. tries' = 0
    BY <1>6 DEF MainAnswered
  <2>5. CASE \E status \in Ended : EndRun(status, usage') /\ UNCHANGED <<wave, child, task>>
    <3>1. phase' \in Ended /\ reported' \in Amount
      BY <2>3, <2>5, EndRunTypes
    <3> QED BY <1>4, <1>5, <2>3, <2>4, <2>5, <3>1, EndedPhases
  <2>6. CASE Gather /\ UNCHANGED reported
    <3>1. phase' = "gather" /\ wave' = 0 /\ reported' \in Amount
      BY <2>6 DEF Gather, Typed, RunTypes
    <3>2. ASSUME NEW c \in Children
          PROVE  /\ child'[c] \in Coroutines(c) /\ task'[c] \in Statuses
                 /\ child'[c].attempt <= PrimaryAttempts
      <4>1. child'[c] \in {Idle, Started} /\ task'[c] = "queued"
        BY <2>6 DEF Gather
      <4> QED BY <4>1, FreshTypes, AttemptNumbers DEF Statuses
    <3>3. ChildTypes'
      BY <1>1, <3>2 DEF Typed, ChildTypes, Coroutines, TotalAttempts, PrimaryAttempts
    <3>4. RunTypes'
      BY <1>1, <1>5, <2>3, <2>4, <3>1 DEF Typed, RunTypes, Phases
    <3>5. Counts'
      BY <1>5, <2>4, <3>2 DEF Counts, PrimaryAttempts
    <3> QED BY <2>3, <3>3, <3>4, <3>5 DEF Typed
  <2> QED BY <2>1, <2>5, <2>6
<1>7. CASE MainFails
  <2>1. PICK f \in Failures, s \in Settlements :
          LET amount == IF f.metadata THEN SettledCost(s) ELSE Unknown
              total == Plus(usage, Cost(amount))
          IN
          /\ usage' = total
          /\ IF f.metadata THEN Spend(s) ELSE SpendUnsettled
          /\ IF f.retryable /\ tries <= MaxRepairs
             THEN /\ phase' = IF phase = "planAsked" THEN "plan" ELSE "synth"
                  /\ UNCHANGED <<reported, ledger, tries>>
             ELSE /\ EndRun("failed", total)
                  /\ ledger' = ledger + Charged(amount)
                  /\ tries' = 0
    BY <1>7 DEF MainFails
  <2> DEFINE amount == IF f.metadata THEN SettledCost(s) ELSE Unknown
  <2>2. amount \in Amount /\ Pays(amount)
    BY <1>2, <2>1, SettlementIsTold, AmountTypes, SpendPays
  <2>3. BillTypes' /\ usage' \in Tally
    BY <1>3, <2>1, <2>2
  <2>4. UNCHANGED <<wave, child, task>>
    BY <1>7 DEF MainFails
  <2>5. CASE /\ tries <= MaxRepairs /\ phase' \in {"plan", "synth"}
             /\ UNCHANGED <<reported, ledger, tries>>
    BY <1>2, <1>4, <2>3, <2>4, <2>5 DEF Typed, RunTypes, Phases
  <2>6. CASE EndRun("failed", usage') /\ tries' = 0
    <3>1. phase' \in Ended /\ reported' \in Amount
      BY <2>3, <2>6, EndRunTypes DEF Ended
    <3> QED BY <1>4, <1>5, <2>3, <2>4, <2>6, <3>1, EndedPhases
  <2> QED BY <2>1, <2>5, <2>6
<1> QED BY <1>6, <1>7

LEMMA TypedEndWave ==
  ASSUME Waves, Typed, EndWave
  PROVE  Typed'
<1> DEFINE current == {c \in Children : InWave(c, wave)}
           left == {c \in Children : WaveOf(c) > wave}
           total == Plus(usage, Sum(current))
<1>1. /\ UNCHANGED <<tries, initial, reserved, outcome, ledger, paid>>
      /\ phase = "gather" /\ usage' = total
  BY DEF EndWave
<1>2. usage' \in Tally
  <2>1. Sum(current) \in Tally
    BY SumTypes DEF Typed
  <2> QED BY <1>1, <2>1, AmountTypes DEF Typed, RunTypes
<1>3. tries \in 0 .. MaxRepairs + 1 /\ tries <= MaxRepairs /\ wave \in Nat /\ reported \in Amount
  BY <1>1 DEF Typed, RunTypes, Counts
<1>4. BillTypes'
  BY <1>1 DEF Typed, BillTypes
<1>5. \/ /\ EndRun("partial", total) /\ UNCHANGED <<wave, child>>
         /\ task' = [c \in Children |-> IF c \in left THEN "cancelled" ELSE task[c]]
      \/ /\ wave' = wave + 1 /\ UNCHANGED <<phase, reported, task>>
         /\ child' = [c \in Children |-> IF InWave(c, wave + 1) THEN Started ELSE child[c]]
      \/ EndRun("failed", total) /\ UNCHANGED <<wave, child, task>>
      \/ phase' = "synth" /\ UNCHANGED <<reported, wave, child, task>>
  BY Zenon DEF EndWave
<1> HIDE DEF left, total
<1>6. ASSUME NEW c \in Children
      PROVE  /\ child'[c] \in Coroutines(c) /\ task'[c] \in Statuses
             /\ ~child'[c].fallback => child'[c].attempt <= PrimaryAttempts
  <2>1. /\ child[c] \in Coroutines(c) /\ task[c] \in Statuses
        /\ ~child[c].fallback => child[c].attempt <= PrimaryAttempts
    BY DEF Typed, ChildTypes, Counts
  <2>2. child'[c] \in {child[c], Started} /\ task'[c] \in {task[c], "cancelled"}
    BY <1>5
  <2> QED BY <2>1, <2>2, FreshTypes, AttemptNumbers DEF Statuses
<1>7. ChildTypes'
  BY <1>1, <1>6 DEF Typed, ChildTypes, Coroutines, TotalAttempts, PrimaryAttempts
<1>8. /\ phase' \in Phases /\ reported' \in Amount /\ wave' \in Nat
  <2>1. \A status \in Ended : EndRun(status, total) => phase' \in Ended /\ reported' \in Amount
    BY <1>1, <1>2, EndRunTypes
  <2>2. {"partial", "failed"} \subseteq Ended /\ {"gather", "synth"} \subseteq Phases
    BY DEF Ended, Phases
  <2> QED BY <1>1, <1>3, <1>5, <2>1, <2>2, EndedPhases
<1>9. RunTypes'
  BY <1>1, <1>2, <1>3, <1>8 DEF Typed, RunTypes
<1>10. Counts'
  BY <1>1, <1>3, <1>6 DEF Counts, PrimaryAttempts
<1> QED BY <1>4, <1>7, <1>9, <1>10 DEF Typed

LEMMA TypedNext == Told /\ Typed /\ [CostsNext]_allVars => Typed'
<1> SUFFICES ASSUME Told, Typed, [CostsNext]_allVars PROVE Typed'
  OBVIOUS
<1>1. Waves
  BY DEF Told
<1>2. CASE AskMain
  BY <1>2, TypedAskMain
<1>3. CASE MainAnswered \/ MainFails
  BY <1>1, <1>3, TypedMain
<1>4. CASE EndWave
  BY <1>1, <1>4, TypedEndWave
<1>5. ASSUME NEW c \in Children,
             AskChild(c) \/ ChildAnswered(c) \/ ChildFails(c) \/ ChildReturns(c) \/ ChildTimeout(c)
      PROVE  Typed'
  BY <1>1, <1>5, TypedChild
<1>6. CASE UNCHANGED allVars
  BY <1>6 DEF allVars, accounts, Typed, ChildTypes, RunTypes, BillTypes, Counts, Coroutines,
     TotalAttempts, PrimaryAttempts
<1> QED BY <1>2, <1>3, <1>4, <1>5, <1>6 DEF CostsNext

\* The type invariant, for any plan, wave size, retries and repairs: attempts and
\* repairs stay within their limits wherever a wave, a fallback or a stop leaves them.
THEOREM CostsTyped == CostsSpec => []CostsTypeOK
<1>1. CostsInit => Told /\ Typed
  BY ToldInit, TypedInit
<1>2. Told /\ Typed /\ [CostsNext]_allVars => (Told /\ Typed)'
  BY ToldNext, TypedNext
<1>3. Told /\ Typed => CostsTypeOK
  BY TypedIsTypeOK
<1> QED BY <1>1, <1>2, <1>3, PTL DEF CostsSpec

-----------------------------------------------------------------------------
(* BooksMatchRequests *)

Current == {c \in Children : InWave(c, wave)}
Active == {"attempt", "asked", "settled"}

\* What child c of the wave that runs will add to the accumulator, and all of them.
Owes(c) == IF outcome[c].kind = "none" THEN child[c].records ELSE outcome[c].cost
Owed ==
    IF phase = "gather" THEN SumFunctionOnSet([c \in Current |-> Owes(c).sum], Current) ELSE 0

\* Only the children of the wave that runs are active; a child has no outcome
\* before it settles, and the idle ones nothing to report.
InTheWave ==
    /\ \A c \in Children :
          /\ child[c].point \in Active => phase = "gather" /\ InWave(c, wave)
          /\ child[c].point \in {"idle", "attempt", "asked"} => outcome[c].kind = "none"
          /\ child[c].point = "idle" => child[c].records = NoCost
    /\ phase \in {"plan", "planAsked"} => \A c \in Children : child[c].point = "idle"

\* No child was stopped by the ceiling, and every cost so far is known.
AllKnown ==
    /\ \A c \in Children : outcome[c].kind # "ceiling"
    /\ usage.known
    /\ phase = "gather" => \A c \in Current : Owes(c).known

\* The inductive invariant of the first half of BooksMatchRequests: what was
\* paid is in the accumulator or still with the children of the wave.
Balanced ==
    /\ AllKnown => paid.whole /\ paid.sum = usage.sum + Owed
    /\ phase \in Ended => reported = Recorded(usage)

\* What the usage events will be charged for an answer that is retained.
Kept(c) ==
    IF child[c].point \in {"attempt", "asked"} /\ child[c].retained
    THEN Charged(child[c].metadata) ELSE 0
KeptInAll == SumFunctionOnSet([c \in Children |-> Kept(c)], Children)

\* The inductive invariant of the second half.
Backed == ledger + KeptInAll <= paid.sum

LEMMA OwesTypes ==
  ASSUME ChildTypes
  PROVE  /\ \A c \in Children : Owes(c) \in Tally /\ Owes(c).sum \in Nat
         /\ \A c \in Children : Kept(c) \in Nat
         /\ KeptInAll \in Nat
<1>1. ASSUME NEW c \in Children PROVE Owes(c) \in Tally /\ Owes(c).sum \in Nat
  <2>1. child[c].records \in Tally /\ outcome[c].cost \in Tally
    BY DEF ChildTypes, Coroutines, Outcomes
  <2> QED BY <2>1 DEF Owes, Tally
<1>2. ASSUME NEW c \in Children PROVE Kept(c) \in Nat
  <2>1. child[c].metadata \in Amount
    BY DEF ChildTypes, Coroutines
  <2> QED BY <2>1, AmountTypes DEF Kept
<1> DEFINE f == [c \in Children |-> Kept(c)]
<1>3. \A c \in Children : f[c] \in Nat
  BY <1>2
<1>4. IsFiniteSet(Children)
  BY ChildrenAreFinite
<1> HIDE DEF f
<1>5. SumFunctionOnSet(f, Children) \in Nat
  BY <1>3, <1>4, SumIsNat
<1> QED BY <1>1, <1>2, <1>5 DEF KeptInAll, f

\* A step of child c changes what it owes and keeps, and no more.
LEMMA OneOwes ==
  ASSUME ChildTypes, ChildTypes', NEW c \in Current, wave' = wave, phase' = phase, phase = "gather",
         \A d \in Children \ {c} : child'[d] = child[d] /\ outcome'[d] = outcome[d]
  PROVE  /\ Owed \in Nat /\ Owed' \in Nat
         /\ Owed' + Owes(c).sum = Owed + Owes(c)'.sum
         /\ \A d \in Current \ {c} : Owes(d)' = Owes(d)
         /\ Current' = Current
<1>1. Current' = Current /\ Current \in SUBSET Children
  BY DEF Current, InWave, WaveOf, Children
<1>2. \A d \in Current \ {c} : Owes(d)' = Owes(d)
  BY <1>1 DEF Owes
<1>3. \A d \in Current : Owes(d).sum \in Nat
  BY <1>1, OwesTypes
<1>4. \A d \in Current : Owes(d)'.sum \in Nat
  <2>1. ASSUME NEW d \in Children PROVE Owes(d)'.sum \in Nat
    <3>1. child'[d].records \in Tally /\ outcome'[d].cost \in Tally
      BY DEF ChildTypes, Coroutines, Outcomes, Children
    <3> QED BY <3>1 DEF Owes, Tally
  <2> QED BY <1>1, <2>1
<1> DEFINE f == [d \in Current |-> Owes(d).sum]
           g == [d \in Current |-> Owes(d)'.sum]
<1>5. /\ \A d \in Current : f[d] \in Nat /\ g[d] \in Nat
      /\ \A d \in Current \ {c} : g[d] = f[d]
      /\ f[c] = Owes(c).sum /\ g[c] = Owes(c)'.sum
  BY <1>2, <1>3, <1>4
<1>6. IsFiniteSet(Current)
  BY <1>1, ChildrenAreFinite
<1>7. Owed = SumFunctionOnSet(f, Current)
  BY DEF Owed
<1>8. Owed' = SumFunctionOnSet(g, Current)
  BY <1>1 DEF Owed
<1> HIDE DEF f, g
<1>9. SumFunctionOnSet(f, Current) \in Nat /\ SumFunctionOnSet(g, Current) \in Nat
  BY <1>5, <1>6, SumIsNat
<1>10. SumFunctionOnSet(g, Current) + f[c] = SumFunctionOnSet(f, Current) + g[c]
  BY <1>5, <1>6, SumChangesAt
<1> QED BY <1>1, <1>2, <1>5, <1>7, <1>8, <1>9, <1>10

LEMMA OneKeeps ==
  ASSUME ChildTypes, ChildTypes', NEW c \in Children,
         \A d \in Children \ {c} : child'[d] = child[d]
  PROVE  /\ KeptInAll \in Nat /\ KeptInAll' \in Nat
         /\ Kept(c) \in Nat /\ Kept(c)' \in Nat
         /\ KeptInAll' + Kept(c) = KeptInAll + Kept(c)'
<1>1. \A d \in Children \ {c} : Kept(d)' = Kept(d)
  BY DEF Kept
<1>2. \A d \in Children : Kept(d) \in Nat
  BY OwesTypes
<1>3. ASSUME NEW d \in Children PROVE Kept(d)' \in Nat
  <2>1. child'[d].metadata \in Amount
    BY DEF ChildTypes, Coroutines, Children
  <2> QED BY <2>1, AmountTypes DEF Kept
<1> DEFINE f == [d \in Children |-> Kept(d)]
           g == [d \in Children |-> Kept(d)']
<1>4. /\ \A d \in Children : f[d] \in Nat /\ g[d] \in Nat
      /\ \A d \in Children \ {c} : g[d] = f[d]
      /\ f[c] = Kept(c) /\ g[c] = Kept(c)'
  BY <1>1, <1>2, <1>3
<1>5. IsFiniteSet(Children)
  BY ChildrenAreFinite
<1>6. KeptInAll = SumFunctionOnSet(f, Children)
  BY DEF KeptInAll
<1>7. KeptInAll' = SumFunctionOnSet(g, Children)
  BY DEF KeptInAll, Children
<1> HIDE DEF f, g
<1>8. SumFunctionOnSet(f, Children) \in Nat /\ SumFunctionOnSet(g, Children) \in Nat
  BY <1>4, <1>5, SumIsNat
<1>9. SumFunctionOnSet(g, Children) + f[c] = SumFunctionOnSet(f, Children) + g[c]
  BY <1>4, <1>5, SumChangesAt
<1> QED BY <1>2, <1>3, <1>4, <1>6, <1>7, <1>8, <1>9

\* The effect of a step of child c on the books: the amount it pays is owed or,
\* if nobody knows it, the books are open.
Accounted(c, amount) ==
    /\ paid'.sum = paid.sum + Charged(amount)
    /\ ledger' + Kept(c)' <= ledger + Kept(c) + Charged(amount)
    /\ outcome'[c].kind # "ceiling" /\ Owes(c)'.known =>
          /\ outcome[c].kind # "ceiling" /\ Owes(c).known
          /\ paid'.whole <=> paid.whole
          /\ Owes(c)'.sum = Owes(c).sum + Charged(amount)

\* Where the child is then, and that an outcome comes with its settlement.
Follows(c) ==
    /\ child'[c].point \in Active \cup {"done"}
    /\ child'[c].point \in {"attempt", "asked"} => outcome'[c].kind = "none"
    /\ \A d \in Children \ {c} : child'[d] = child[d] /\ outcome'[d] = outcome[d]

LEMMA UpdateFields ==
  ASSUME NEW k, NEW u, NEW m
  PROVE  /\ Retrying(k, u).point = "attempt" /\ Retrying(k, u).records = u
         /\ Retrying(k, u).retained = k.retained /\ Retrying(k, u).metadata = k.metadata
         /\ Falling(k, u).point = "attempt" /\ Falling(k, u).records = u
         /\ Falling(k, u).retained = k.retained /\ Falling(k, u).metadata = k.metadata
         /\ Retaining(k, m, u).point = "attempt" /\ Retaining(k, m, u).records = u
         /\ Retaining(k, m, u).metadata = m
BY DEF Retrying, Falling, Retaining, Coroutine

LEMMA PlusCost ==
  ASSUME NEW t \in Tally, NEW amount \in Amount
  PROVE  /\ Plus(t, Cost(amount)).sum = t.sum + Charged(amount)
         /\ Plus(t, Cost(amount)).known <=> t.known /\ amount # Unknown
BY DEF Plus, Cost, Charged, Tally

LEMMA RequestIsAccounted ==
  ASSUME Waves, Typed, InTheWave, NEW c \in Children, ChildAnswered(c) \/ ChildFails(c)
  PROVE  Follows(c) /\ \E amount \in Amount : Accounted(c, amount)
<1> DEFINE k == child[c]
<1>1. /\ k \in Coroutines(c) /\ ledger \in Nat /\ paid \in Bills /\ k.point = "asked"
      /\ outcome[c].kind = "none"
  BY DEF Typed, ChildTypes, BillTypes, ChildAnswered, ChildFails, InTheWave
<1>2. PICK amount \in Costs \cup {Unknown} : Pays(amount) /\ Ends(c, amount)
  <2>1. Whole(child[c])
    BY <1>1, CoroutinesAreWhole
  <2> QED BY <1>1, <2>1, RequestEnds
<1> DEFINE u == Plus(k.records, Cost(amount))
<1>3. /\ amount \in Amount /\ k.metadata \in Amount /\ Owes(c) = k.records
      /\ Charged(amount) \in Nat /\ Charged(k.metadata) \in Nat
      /\ Kept(c) = IF k.retained THEN Charged(k.metadata) ELSE 0
      /\ Kept(c) \in Nat
  <2>1. amount \in Amount /\ k.metadata \in Amount
    BY <1>1, AmountTypes DEF Coroutines
  <2>2. Owes(c) = k.records
    BY <1>1 DEF Owes
  <2>3. Kept(c) = IF k.retained THEN Charged(k.metadata) ELSE 0
    BY <1>1 DEF Kept
  <2>4. Charged(amount) \in Nat /\ Charged(k.metadata) \in Nat
    BY <2>1, AmountTypes
  <2> QED BY <2>1, <2>2, <2>3, <2>4
<1>4. u.sum = k.records.sum + Charged(amount) /\ (u.known <=> k.records.known /\ amount # Unknown)
  BY <1>1, <1>3, PlusCost DEF Coroutines
<1>5. paid'.sum = paid.sum + Charged(amount) /\ (paid'.whole <=> paid.whole /\ amount # Unknown)
  BY <1>2 DEF Pays
<1>6. ASSUME Owes(c)' = u, ledger' + Kept(c)' <= ledger + Kept(c) + Charged(amount)
      PROVE  Accounted(c, amount)
  <2>1. outcome[c].kind # "ceiling"
    BY <1>1
  <2> QED BY <1>3, <1>4, <1>5, <1>6, <2>1 DEF Accounted
<1> HIDE DEF k, u
<1>7. ASSUME NEW next, AsksOnceMore(c, next), next.point = "attempt", next.records = u,
             \/ next.retained = k.retained /\ next.metadata = k.metadata
             \/ next.metadata = amount
      PROVE  Follows(c) /\ Accounted(c, amount)
  <2>1. /\ child'[c] = next /\ outcome' = outcome /\ ledger' = ledger
        /\ \A d \in Children \ {c} : child'[d] = child[d]
    BY <1>7 DEF AsksOnceMore, Waves
  <2>2. Follows(c)
    BY <1>1, <1>7, <2>1 DEF Follows, Active
  <2>3. Owes(c)' = u
    BY <1>1, <1>7, <2>1 DEF Owes
  <2>4. Kept(c)' = IF next.retained THEN Charged(next.metadata) ELSE 0
    BY <1>7, <2>1 DEF Kept
  <2>5. ledger' + Kept(c)' <= ledger + Kept(c) + Charged(amount)
    BY <1>1, <1>3, <1>7, <2>1, <2>4
  <2> QED BY <1>6, <2>2, <2>3, <2>5
<1>8. ASSUME NEW status, NEW kind \in {"accepted", "failed"}, NEW stops, NEW charge,
             Settles(c, status, Result(kind, u, stops), charge, u),
             charge = amount \/ (k.retained /\ charge = k.metadata)
      PROVE  Follows(c) /\ Accounted(c, amount)
  <2>1. /\ child'[c] = Resting(k, u) /\ \A d \in Children \ {c} : child'[d] = child[d]
        /\ outcome'[c] = Result(kind, u, stops) /\ ledger' = ledger + Charged(charge)
        /\ \A d \in Children \ {c} : outcome'[d] = outcome[d]
    BY <1>8 DEF Settles, Settle, Waves, k
  <2>2. child'[c].point = "settled"
    BY <2>1 DEF Resting, Coroutine
  <2>3. outcome'[c].kind = kind /\ outcome'[c].cost = u
    BY <2>1 DEF Result
  <2>4. Follows(c)
    BY <2>1, <2>2 DEF Follows, Active
  <2>5. Owes(c)' = u
    BY <2>3 DEF Owes
  <2>6. Kept(c)' = 0
    BY <2>2 DEF Kept
  <2>7. ledger' + Kept(c)' <= ledger + Kept(c) + Charged(amount)
    BY <1>1, <1>3, <1>8, <2>1, <2>6
  <2> QED BY <1>6, <2>4, <2>5, <2>7
<1>9. \/ AsksOnceMore(c, Retrying(k, u))
      \/ AsksOnceMore(c, Falling(k, u))
      \/ AsksOnceMore(c, Retaining(k, amount, u))
      \/ Settles(c, "succeeded", Result("accepted", u, FALSE), amount, u)
      \/ k.retained /\ Settles(c, "succeeded", Result("accepted", u, FALSE), k.metadata, u)
      \/ \E stops \in BOOLEAN : Settles(c, "failed", Result("failed", u, stops), amount, u)
  BY <1>2, Zenon DEF Ends, k, u
<1>10. CASE AsksOnceMore(c, Retrying(k, u))
  <2> DEFINE next == Retrying(k, u)
  <2>1. /\ next.point = "attempt" /\ next.records = u
        /\ next.retained = k.retained /\ next.metadata = k.metadata
    BY UpdateFields
  <2> HIDE DEF next
  <2> QED BY <1>3, <1>7, <1>10, <2>1 DEF next
<1>11. CASE AsksOnceMore(c, Falling(k, u))
  <2> DEFINE next == Falling(k, u)
  <2>1. /\ next.point = "attempt" /\ next.records = u
        /\ next.retained = k.retained /\ next.metadata = k.metadata
    BY UpdateFields
  <2> HIDE DEF next
  <2> QED BY <1>3, <1>7, <1>11, <2>1 DEF next
<1>12. CASE AsksOnceMore(c, Retaining(k, amount, u))
  <2> DEFINE next == Retaining(k, amount, u)
  <2>1. next.point = "attempt" /\ next.records = u /\ next.metadata = amount
    BY UpdateFields
  <2> HIDE DEF next
  <2> QED BY <1>3, <1>7, <1>12, <2>1 DEF next
<1> QED BY <1>3, <1>8, <1>9, <1>10, <1>11, <1>12

LEMMA ChildIsAccounted ==
  ASSUME Waves, Typed, InTheWave, NEW c \in Children,
         AskChild(c) \/ ChildAnswered(c) \/ ChildFails(c) \/ ChildReturns(c) \/ ChildTimeout(c)
  PROVE  Follows(c) /\ \E amount \in Amount : Accounted(c, amount)
<1> DEFINE k == child[c]
<1>1. /\ k \in Coroutines(c) /\ ledger \in Nat /\ paid \in Bills
      /\ k.point \in {"attempt", "asked"} => outcome[c].kind = "none"
      /\ Kept(c) \in Nat
  BY OwesTypes DEF Typed, ChildTypes, BillTypes, InTheWave
<1>2. ASSUME NEW p \in Active \cup {"done"}, SetChild(c, [child[c] EXCEPT !.point = p])
      PROVE  /\ child'[c].point = p /\ child'[c].records = k.records
             /\ child'[c].retained = k.retained /\ child'[c].metadata = k.metadata
             /\ \A d \in Children \ {c} : child'[d] = child[d]
  <2> DEFINE next == [child[c] EXCEPT !.point = p]
  <2>1. /\ next.point = p /\ next.records = k.records
        /\ next.retained = k.retained /\ next.metadata = k.metadata
    BY <1>1 DEF Coroutines
  <2>2. child' = [child EXCEPT ![c] = next]
    BY <1>2 DEF SetChild
  <2> HIDE DEF next, k
  <2>3. child'[c] = next /\ \A d \in Children \ {c} : child'[d] = child[d]
    BY <2>2 DEF Waves
  <2> QED BY <2>1, <2>3
<1>3. Charged(Unknown) = 0 /\ Unknown \in Amount
  BY AmountTypes DEF Charged
<1>4. ASSUME paid'.sum = paid.sum, ledger' = ledger, Kept(c)' <= Kept(c), Kept(c)' \in Nat,
             outcome'[c].kind # "ceiling" /\ Owes(c)'.known =>
                paid' = paid /\ Owes(c)' = Owes(c) /\ outcome[c].kind # "ceiling"
      PROVE  Accounted(c, Unknown)
  <2>1. paid.sum \in Nat /\ Owes(c).sum \in Nat
    BY <1>1, OwesTypes DEF Bills, Typed
  <2> QED BY <1>1, <1>3, <1>4, <2>1 DEF Accounted
<1>5. CASE AskChild(c)
  <2>1. k.point = "attempt" /\ paid' = paid
    BY <1>5 DEF AskChild
  <2>2. CASE WouldExceed(ChildEstimate)
    <3>1. /\ outcome' = [outcome EXCEPT ![c] =
                           [kind |-> "ceiling", cost |-> NoCost, stops |-> TRUE]]
          /\ ledger' = ledger + Charged(Unknown)
          /\ SetChild(c, [child[c] EXCEPT !.point = "settled"])
      BY <1>5, <2>2 DEF AskChild, Settle
    <3>2. ledger' = ledger
      BY <1>1, <1>3, <3>1
    <3>3. outcome'[c].kind = "ceiling" /\ \A d \in Children \ {c} : outcome'[d] = outcome[d]
      BY <3>1 DEF Waves
    <3>4. child'[c].point = "settled" /\ \A d \in Children \ {c} : child'[d] = child[d]
      BY <1>2, <3>1 DEF Active
    <3>5. Kept(c)' = 0
      BY <3>4 DEF Kept
    <3>6. Follows(c)
      BY <3>3, <3>4 DEF Follows, Active
    <3> QED BY <1>1, <1>3, <1>4, <2>1, <3>2, <3>3, <3>5, <3>6
  <2>3. CASE ~WouldExceed(ChildEstimate)
    <3>1. /\ outcome' = outcome /\ ledger' = ledger
          /\ SetChild(c, [child[c] EXCEPT !.point = "asked"])
      BY <1>5, <2>3 DEF AskChild
    <3>2. /\ child'[c].point = "asked" /\ child'[c].records = k.records
          /\ child'[c].retained = k.retained /\ child'[c].metadata = k.metadata
          /\ \A d \in Children \ {c} : child'[d] = child[d]
      BY <1>2, <3>1 DEF Active
    <3>3. Kept(c)' = Kept(c)
      BY <2>1, <3>2 DEF Kept
    <3>4. Owes(c)' = Owes(c)
      BY <3>1, <3>2 DEF Owes
    <3>5. Follows(c)
      BY <1>1, <2>1, <3>1, <3>2 DEF Follows, Active
    <3>6. outcome[c].kind # "ceiling"
      BY <1>1, <2>1
    <3> QED BY <1>1, <1>3, <1>4, <2>1, <3>1, <3>3, <3>4, <3>5, <3>6
  <2> QED BY <2>2, <2>3
<1>6. CASE ChildAnswered(c) \/ ChildFails(c)
  BY <1>6, RequestIsAccounted
<1>7. CASE ChildReturns(c)
  <2>1. /\ UNCHANGED <<paid, ledger, outcome>> /\ k.point = "settled"
        /\ SetChild(c, [child[c] EXCEPT !.point = "done"])
    BY <1>7 DEF ChildReturns, accounts
  <2>2. /\ child'[c].point = "done" /\ child'[c].records = k.records
        /\ \A d \in Children \ {c} : child'[d] = child[d]
    BY <1>2, <2>1
  <2>3. Kept(c)' = 0
    BY <2>2 DEF Kept
  <2>4. Owes(c)' = Owes(c)
    BY <2>1, <2>2 DEF Owes
  <2>5. Follows(c)
    BY <2>1, <2>2 DEF Follows, Active
  <2> QED BY <1>1, <1>3, <1>4, <2>1, <2>3, <2>4, <2>5
<1>8. CASE ChildTimeout(c)
  <2> DEFINE result == [kind |-> "failed", cost |-> Cost(Unknown), stops |-> FALSE]
  <2>1. /\ ledger' = ledger
        /\ SetChild(c, [child[c] EXCEPT !.point = "done"])
        /\ outcome' = [outcome EXCEPT ![c] = result]
        /\ SpendUnsettled \/ paid' = paid
    BY <1>8 DEF ChildTimeout
  <2>2. result.kind = "failed" /\ result.cost = Cost(Unknown)
    OBVIOUS
  <2> HIDE DEF result
  <2>3. outcome'[c] = result /\ \A d \in Children \ {c} : outcome'[d] = outcome[d]
    BY <2>1 DEF Waves
  <2>4. child'[c].point = "done" /\ \A d \in Children \ {c} : child'[d] = child[d]
    BY <1>2, <2>1
  <2>5. Kept(c)' = 0
    BY <2>4 DEF Kept
  <2>6. ~Owes(c)'.known
    <3>1. ~Cost(Unknown).known
      BY DEF Cost
    <3>2. Owes(c)' = Cost(Unknown)
      BY <2>2, <2>3 DEF Owes
    <3> QED BY <3>1, <3>2
  <2>7. Follows(c)
    BY <2>3, <2>4 DEF Follows, Active
  <2>8. paid'.sum = paid.sum
    BY <1>1, <1>3, <2>1, SpendPays DEF Pays, Bills
  <2> QED BY <1>1, <1>3, <1>4, <2>1, <2>5, <2>6, <2>7, <2>8
<1> QED BY <1>5, <1>6, <1>7, <1>8

\* What the children that start owe, and what nobody owes outside the phase.
LEMMA NothingOwed ==
  /\ phase # "gather" => Owed = 0
  /\ phase' # "gather" => Owed' = 0
  /\ (\A c \in Current' : Owes(c)' = NoCost) => Owed' = 0
<1>1. (phase # "gather" => Owed = 0) /\ (phase' # "gather" => Owed' = 0)
  BY DEF Owed
<1>2. ASSUME \A c \in Current' : Owes(c)' = NoCost PROVE Owed' = 0
  <2> DEFINE S == Current'
             g == [d \in S |-> Owes(d)'.sum]
  <2>1. \A d \in S : g[d] = 0
    BY <1>2 DEF NoCost
  <2>2. S \in SUBSET Children
    BY DEF Current, Children
  <2>3. IsFiniteSet(S)
    BY <2>2, ChildrenAreFinite
  <2>4. phase' = "gather" => Owed' = SumFunctionOnSet(g, S)
    BY DEF Owed
  <2> HIDE DEF S, g
  <2>5. SumFunctionOnSet(g, S) = 0
    BY <2>1, <2>3, SumOfZeros
  <2> QED BY <1>1, <2>4, <2>5
<1> QED BY <1>1, <1>2

\* The inductive invariant of BooksMatchRequests.
BookKeeping == Told /\ Typed /\ InTheWave /\ Balanced /\ Backed

LEMMA BookKeepingInit == CostsInit => BookKeeping
<1> SUFFICES ASSUME CostsInit PROVE BookKeeping
  OBVIOUS
<1>1. Told /\ Typed
  BY ToldInit, TypedInit
<1>2. /\ Idle.point = "idle" /\ Idle.records = NoCost /\ ~Idle.retained
      /\ NoOutcome.kind = "none" /\ NoCost.sum = 0
  BY DEF Idle, NoOutcome, NoCost
<1>3. /\ \A c \in Children : child[c] = Idle /\ outcome[c] = NoOutcome
      /\ phase = "plan" /\ ledger = 0 /\ usage = NoCost
      /\ paid = [sum |-> 0, whole |-> TRUE]
  BY DEF CostsInit
<1>4. InTheWave
  BY <1>2, <1>3 DEF InTheWave, Active
<1>5. Balanced
  <2>1. paid.sum = 0 /\ paid.whole /\ phase \notin Ended /\ Owed = 0
    BY <1>3, NothingOwed DEF Ended
  <2> QED BY <1>2, <1>3, <2>1 DEF Balanced
<1>6. Backed
  <2> DEFINE f == [c \in Children |-> Kept(c)]
  <2>1. \A c \in Children : f[c] = 0
    BY <1>2, <1>3 DEF Kept
  <2>2. IsFiniteSet(Children)
    BY ChildrenAreFinite
  <2> HIDE DEF f
  <2>3. SumFunctionOnSet(f, Children) = 0
    BY <2>1, <2>2, SumOfZeros
  <2>4. KeptInAll = 0 /\ paid.sum = 0
    BY <1>3, <2>3 DEF KeptInAll, f
  <2> QED BY <1>3, <2>4 DEF Backed
<1> QED BY <1>1, <1>4, <1>5, <1>6 DEF BookKeeping

\* The step of a child.
LEMMA BookKeepingChild ==
  ASSUME BookKeeping, Typed', NEW c \in Children,
         AskChild(c) \/ ChildAnswered(c) \/ ChildFails(c) \/ ChildReturns(c) \/ ChildTimeout(c)
  PROVE  InTheWave' /\ Balanced' /\ Backed'
<1>1. Told /\ Waves /\ Typed /\ InTheWave /\ Balanced /\ Backed
  BY DEF BookKeeping, Told
<1>2. child[c].point \in Active
  BY DEF AskChild, ChildAnswered, ChildFails, ChildReturns, ChildTimeout, Active
<1>3. /\ phase = "gather" /\ InWave(c, wave) /\ c \in Current
      /\ phase' = phase /\ wave' = wave /\ usage' = usage /\ reported' = reported
  <2>1. phase = "gather" /\ InWave(c, wave)
    BY <1>1, <1>2 DEF InTheWave
  <2>2. phase' = phase /\ wave' = wave /\ usage' = usage /\ reported' = reported
    BY DEF AskChild, ChildAnswered, ChildFails, ChildReturns, ChildTimeout, accounts
  <2> QED BY <2>1, <2>2 DEF Current
<1>4. PICK amount \in Amount : Follows(c) /\ Accounted(c, amount)
  BY <1>1, ChildIsAccounted
<1>5. ChildTypes /\ ChildTypes' /\ ledger \in Nat /\ ledger' \in Nat
      /\ paid.sum \in Nat /\ paid'.sum \in Nat /\ usage \in Tally
  BY <1>1 DEF Typed, BillTypes, RunTypes, Bills
<1>6. InTheWave'
  <2>1. \A d \in Children : InWave(d, wave') <=> InWave(d, wave)
    BY <1>3
  <2>2. ASSUME NEW d \in Children
        PROVE  /\ child'[d].point \in Active => phase' = "gather" /\ InWave(d, wave)
               /\ child'[d].point \in {"idle", "attempt", "asked"} => outcome'[d].kind = "none"
               /\ child'[d].point = "idle" => child'[d].records = NoCost
    <3>1. CASE d = c
      BY <1>3, <1>4, <3>1 DEF Follows, Active
    <3>2. CASE d # c
      BY <1>1, <1>3, <1>4, <3>2 DEF Follows, InTheWave
    <3> QED BY <3>1, <3>2
  <2> QED BY <1>3, <2>2 DEF InTheWave, InWave, WaveOf, Children
<1>7. Balanced'
  <2>1. phase' \notin Ended
    BY <1>3 DEF Ended
  <2>2. /\ Owed \in Nat /\ Owed' \in Nat /\ Owed' + Owes(c).sum = Owed + Owes(c)'.sum
        /\ \A d \in Current \ {c} : Owes(d)' = Owes(d)
        /\ Current' = Current
    BY <1>3, <1>4, <1>5, OneOwes DEF Follows
  <2>3. ASSUME AllKnown' PROVE paid'.whole /\ paid'.sum = usage'.sum + Owed'
    <3>1. outcome'[c].kind # "ceiling" /\ Owes(c)'.known /\ usage.known
      BY <1>3, <2>2, <2>3 DEF AllKnown, Children
    <3>2. /\ outcome[c].kind # "ceiling" /\ Owes(c).known
          /\ paid'.whole <=> paid.whole
          /\ Owes(c)'.sum = Owes(c).sum + Charged(amount)
          /\ paid'.sum = paid.sum + Charged(amount)
      BY <1>4, <3>1 DEF Accounted
    <3>3. \A d \in Children : outcome[d].kind # "ceiling"
      BY <1>4, <2>3, <3>2 DEF AllKnown, Follows, Children
    <3>4. \A d \in Current : Owes(d).known
      BY <1>3, <2>2, <2>3, <3>2 DEF AllKnown
    <3>5. paid.whole /\ paid.sum = usage.sum + Owed
      BY <1>1, <3>1, <3>3, <3>4 DEF Balanced, AllKnown
    <3>6. Owes(c).sum \in Nat /\ usage.sum \in Nat /\ Charged(amount) \in Nat
      BY <1>5, OwesTypes, AmountTypes DEF Tally
    <3>7. Owed' = Owed + Charged(amount)
      BY <2>2, <3>2, <3>6
    <3> QED BY <1>3, <2>2, <3>2, <3>5, <3>6, <3>7
  <2> QED BY <2>1, <2>3 DEF Balanced
<1>8. Backed'
  <2>1. /\ KeptInAll \in Nat /\ KeptInAll' \in Nat /\ Kept(c) \in Nat /\ Kept(c)' \in Nat
        /\ KeptInAll' + Kept(c) = KeptInAll + Kept(c)'
    BY <1>4, <1>5, OneKeeps DEF Follows
  <2>2. /\ paid'.sum = paid.sum + Charged(amount) /\ Charged(amount) \in Nat
        /\ ledger' + Kept(c)' <= ledger + Kept(c) + Charged(amount)
    BY <1>4, AmountTypes DEF Accounted
  <2>3. ledger + KeptInAll <= paid.sum
    BY <1>1 DEF Backed
  <2> QED BY <1>5, <2>1, <2>2, <2>3 DEF Backed
<1> QED BY <1>6, <1>7, <1>8

LEMMA KeptFrame ==
  ASSUME ChildTypes,
         \/ child' = child
         \/ \A c \in Children : ~(child'[c].retained /\ child'[c].point \in {"attempt", "asked"})
         \/ \A c \in Children : Kept(c)' = Kept(c)
  PROVE  KeptInAll' \in Nat /\ KeptInAll' <= KeptInAll
<1> DEFINE f == [c \in Children |-> Kept(c)]
           g == [c \in Children |-> Kept(c)']
<1>1. KeptInAll = SumFunctionOnSet(f, Children) /\ KeptInAll \in Nat
  BY OwesTypes DEF KeptInAll
<1>2. KeptInAll' = SumFunctionOnSet(g, Children)
  BY DEF KeptInAll, Children
<1>3. IsFiniteSet(Children)
  BY ChildrenAreFinite
<1>4. CASE \A c \in Children : Kept(c)' = Kept(c)
  <2>1. \A c \in Children : g[c] = f[c]
    BY <1>4
  <2> HIDE DEF f, g
  <2>2. SumFunctionOnSet(g, Children) = SumFunctionOnSet(f, Children)
    BY <1>3, <2>1, SumIsExtensional
  <2> QED BY <1>1, <1>2, <2>2
<1>5. CASE \A c \in Children : ~(child'[c].retained /\ child'[c].point \in {"attempt", "asked"})
  <2>1. \A c \in Children : g[c] = 0
    BY <1>5 DEF Kept
  <2> HIDE DEF f, g
  <2>2. SumFunctionOnSet(g, Children) = 0
    BY <1>3, <2>1, SumOfZeros
  <2> QED BY <1>1, <1>2, <2>2
<1>6. child' = child => \A c \in Children : Kept(c)' = Kept(c)
  BY DEF Kept
<1> QED BY <1>4, <1>5, <1>6

\* Outside the phase nobody owes: the accumulator holds what was paid.
LEMMA BookKeepingAskMain ==
  ASSUME BookKeeping, AskMain
  PROVE  InTheWave' /\ Balanced' /\ Backed'
<1>1. Typed /\ InTheWave /\ Balanced /\ Backed
  BY DEF BookKeeping
<1>2. /\ UNCHANGED <<initial, wave, child, outcome, task, usage, ledger, paid>>
      /\ phase \in {"plan", "synth"}
      /\ phase' \in {"planAsked", "synthAsked", "partial"}
      /\ phase' = "planAsked" => phase = "plan"
      /\ phase' = "partial" => reported' = Recorded(usage)
  BY DEF AskMain, EndRun
<1>3. InTheWave'
  BY <1>1, <1>2 DEF InTheWave, InWave, WaveOf, Children
<1>4. Balanced'
  <2>1. Owed = 0 /\ Owed' = 0
    BY <1>2, NothingOwed
  <2>2. AllKnown' => AllKnown
    BY <1>2 DEF AllKnown, Children
  <2> QED BY <1>1, <1>2, <2>1, <2>2 DEF Balanced, Ended, Recorded
<1>5. Backed'
  <2>1. KeptInAll' \in Nat /\ KeptInAll' <= KeptInAll /\ KeptInAll \in Nat
    BY <1>1, <1>2, KeptFrame, OwesTypes DEF Typed
  <2> QED BY <1>1, <1>2, <2>1 DEF Backed, Typed, BillTypes, Bills
<1> QED BY <1>3, <1>4, <1>5

LEMMA BookKeepingMain ==
  ASSUME BookKeeping, MainAnswered \/ MainFails
  PROVE  InTheWave' /\ Balanced' /\ Backed'
<1>1. Told /\ Waves /\ Typed /\ InTheWave /\ Balanced /\ Backed /\ ChildTypes
  BY DEF BookKeeping, Told, Typed
<1>2. UNCHANGED <<initial, reserved, outcome>> /\ phase \in {"planAsked", "synthAsked"}
  BY DEF MainAnswered, MainFails
<1>3. /\ paid \in Bills /\ ledger \in Nat /\ usage \in Tally /\ paid.sum \in Nat
      /\ usage.sum \in Nat
  BY <1>1 DEF Typed, BillTypes, RunTypes, Bills, Tally
<1>4. PICK amount \in Amount : /\ Pays(amount) /\ usage' = Plus(usage, Cost(amount))
                               /\ ledger' = ledger \/ ledger' = ledger + Charged(amount)
  <2>1. CASE MainAnswered
    <3>1. PICK s \in Settlements : /\ usage' = Plus(usage, Cost(SettledCost(s))) /\ Spend(s)
                                   /\ ledger' = ledger + Charged(SettledCost(s))
      BY <2>1 DEF MainAnswered
    <3>2. SettledCost(s) \in Amount /\ Pays(SettledCost(s))
      BY <1>3, <3>1, SettlementIsTold, AmountTypes, SpendPays
    <3> QED BY <3>1, <3>2
  <2>2. CASE MainFails
    <3>1. PICK f \in Failures, s \in Settlements :
            LET amount == IF f.metadata THEN SettledCost(s) ELSE Unknown IN
            /\ usage' = Plus(usage, Cost(amount))
            /\ IF f.metadata THEN Spend(s) ELSE SpendUnsettled
            /\ ledger' = ledger \/ ledger' = ledger + Charged(amount)
      BY <2>2 DEF MainFails
    <3> DEFINE amount == IF f.metadata THEN SettledCost(s) ELSE Unknown
    <3>2. amount \in Amount /\ Pays(amount)
      BY <1>3, <3>1, SettlementIsTold, AmountTypes, SpendPays
    <3> QED BY <3>1, <3>2
  <2> QED BY <2>1, <2>2
<1>5. /\ usage'.sum = usage.sum + Charged(amount)
      /\ usage'.known <=> usage.known /\ amount # Unknown
      /\ paid'.sum = paid.sum + Charged(amount) /\ (paid'.whole <=> paid.whole /\ amount # Unknown)
      /\ Charged(amount) \in Nat
  BY <1>3, <1>4, PlusCost, AmountTypes DEF Pays
<1>6. phase' \in Ended => reported' = Recorded(usage')
  <2>1. CASE MainAnswered
    <3>1. PICK s \in Settlements : LET total == Plus(usage, Cost(SettledCost(s))) IN
             /\ usage' = total
             /\ \/ \E status \in Ended : EndRun(status, total)
                \/ Gather
      BY <2>1, Zenon DEF MainAnswered, Ended
    <3>2. CASE Gather
      BY <3>2 DEF Gather, Ended
    <3>3. CASE \E status \in Ended : EndRun(status, usage')
      BY <3>3 DEF EndRun
    <3> QED BY <3>1, <3>2, <3>3
  <2>2. CASE MainFails
    <3>1. PICK f \in Failures, s \in Settlements :
            LET amt == IF f.metadata THEN SettledCost(s) ELSE Unknown
                total == Plus(usage, Cost(amt)) IN
            /\ usage' = total
            /\ EndRun("failed", total) \/ phase' \in {"plan", "synth"}
      BY <2>2 DEF MainFails
    <3>2. EndRun("failed", usage') \/ phase' \in {"plan", "synth"}
      BY <3>1
    <3>3. EndRun("failed", usage') => reported' = Recorded(usage')
      BY DEF EndRun
    <3>4. phase' \in {"plan", "synth"} => phase' \notin Ended
      BY DEF Ended
    <3> QED BY <3>2, <3>3, <3>4
  <2> QED BY <2>1, <2>2
<1>7. AllKnown' => AllKnown /\ amount # Unknown
  BY <1>2, <1>5 DEF AllKnown, Children
<1>8. Owed = 0
  BY <1>2, NothingOwed
<1>9. ASSUME Owed' = 0 PROVE Balanced'
  BY <1>1, <1>3, <1>5, <1>6, <1>7, <1>8, <1>9 DEF Balanced
<1>10. ASSUME KeptInAll' \in Nat, KeptInAll' <= KeptInAll PROVE Backed'
  <2>1. KeptInAll \in Nat
    BY <1>1, OwesTypes
  <2> QED BY <1>1, <1>3, <1>4, <1>5, <1>10, <2>1 DEF Backed
<1>11. \/ /\ wave' = wave /\ child' = child /\ phase' # "gather"
          /\ phase' = "plan" => phase = "planAsked"
          /\ phase' # "planAsked"
       \/ Gather /\ phase = "planAsked"
  <2>1. CASE MainAnswered
    <3>1. \/ UNCHANGED <<wave, child, task>> /\ phase' \in {"completed", "failed"}
          \/ Gather /\ phase # "synthAsked"
      BY <2>1, Zenon DEF MainAnswered, EndRun
    <3> QED BY <1>2, <3>1
  <2>2. CASE MainFails
    <3>1. /\ UNCHANGED <<wave, child>>
          /\ \/ phase' = IF phase = "planAsked" THEN "plan" ELSE "synth"
             \/ phase' = "failed"
      BY <2>2 DEF MainFails, EndRun
    <3> QED BY <1>2, <3>1
  <2> QED BY <2>1, <2>2
<1>12. CASE /\ wave' = wave /\ child' = child /\ phase' # "gather"
            /\ phase' = "plan" => phase = "planAsked"
            /\ phase' # "planAsked"
  <2>1. InTheWave'
    BY <1>1, <1>2, <1>12 DEF InTheWave, InWave, WaveOf, Children
  <2>2. Owed' = 0
    BY <1>12, NothingOwed
  <2>3. KeptInAll' \in Nat /\ KeptInAll' <= KeptInAll
    BY <1>1, <1>12, KeptFrame
  <2> QED BY <1>9, <1>10, <2>1, <2>2, <2>3
<1>13. CASE Gather /\ phase = "planAsked"
  <2>1. /\ Idle.point = "idle" /\ Started.point = "attempt" /\ ~Idle.retained /\ ~Started.retained
        /\ Idle.records = NoCost /\ Started.records = NoCost
    BY DEF Idle, Started
  <2>2. ASSUME NEW c \in Children
        PROVE  /\ child'[c] = Idle \/ (child'[c] = Started /\ InWave(c, 0))
               /\ outcome'[c].kind = "none"
    <3>1. outcome[c].kind = "none"
      BY <1>1, <1>13 DEF InTheWave
    <3> QED BY <1>2, <1>13, <3>1 DEF Gather
  <2>3. phase' = "gather" /\ wave' = 0
    BY <1>13 DEF Gather
  <2>4. InTheWave'
    BY <2>1, <2>2, <2>3 DEF InTheWave, InWave, WaveOf, Active, Children
  <2>5. \A c \in Current' : Owes(c)' = NoCost
    <3>1. ASSUME NEW c \in Children PROVE Owes(c)' = NoCost
      BY <2>1, <2>2 DEF Owes
    <3> QED BY <3>1 DEF Current, Children
  <2>6. Owed' = 0
    BY <2>5, NothingOwed
  <2>7. KeptInAll' \in Nat /\ KeptInAll' <= KeptInAll
    <3>1. \A c \in Children : ~child'[c].retained
      BY <2>1, <2>2
    <3> QED BY <1>1, <3>1, KeptFrame
  <2> QED BY <1>9, <1>10, <2>4, <2>6, <2>7
<1> QED BY <1>11, <1>12, <1>13

\* The wave ends: what its children owe becomes part of the accumulator.
LEMMA BookKeepingEndWave ==
  ASSUME BookKeeping, EndWave
  PROVE  InTheWave' /\ Balanced' /\ Backed'
<1> DEFINE left == {c \in Children : WaveOf(c) > wave}
           total == Plus(usage, Sum(Current))
<1>1. Told /\ Waves /\ Typed /\ InTheWave /\ Balanced /\ Backed /\ ChildTypes
  BY DEF BookKeeping, Told, Typed
<1>2. /\ UNCHANGED <<tries, initial, reserved, outcome, ledger, paid>>
      /\ phase = "gather" /\ usage' = total
      /\ \A c \in Current : child[c].point = "done"
  BY DEF EndWave, Current
<1>3. \/ EndRun("partial", total) /\ UNCHANGED <<wave, child>>
      \/ /\ wave' = wave + 1 /\ UNCHANGED <<phase, reported, task>>
         /\ child' = [c \in Children |-> IF InWave(c, wave + 1) THEN Started ELSE child[c]]
      \/ EndRun("failed", total) /\ UNCHANGED <<wave, child, task>>
      \/ phase' = "synth" /\ UNCHANGED <<reported, wave, child, task>>
  BY Zenon DEF EndWave, Current
<1>4. /\ paid \in Bills /\ ledger \in Nat /\ usage \in Tally /\ paid.sum \in Nat
      /\ usage.sum \in Nat /\ wave \in Nat
  BY <1>1 DEF Typed, BillTypes, RunTypes, Bills, Tally
<1>5. Current \in SUBSET Children
  BY DEF Current
<1>6. ASSUME NEW c \in Current PROVE Owes(c) = outcome[c].cost
  <2>1. <<outcome[c].kind, task[c]>> \in Telling
    BY <1>1, <1>2, <1>5 DEF Told, Tells
  <2>2. outcome[c].kind # "none"
    BY <2>1 DEF Telling
  <2> QED BY <2>2 DEF Owes
<1>7. Sum(Current).sum = Owed /\ Owed \in Nat
  <2> DEFINE f == [c \in Current |-> outcome[c].cost.sum]
             g == [c \in Current |-> Owes(c).sum]
  <2>1. f = g
    BY <1>6
  <2>2. Owed = SumFunctionOnSet(g, Current)
    BY <1>2 DEF Owed
  <2>3. Sum(Current).sum = SumFunctionOnSet(f, Current)
    BY DEF Sum
  <2>4. IsFiniteSet(Current) /\ \A c \in Current : g[c] \in Nat
    BY <1>1, <1>5, ChildrenAreFinite, OwesTypes
  <2> HIDE DEF f, g
  <2>5. SumFunctionOnSet(g, Current) \in Nat
    BY <2>4, SumIsNat
  <2> QED BY <2>1, <2>2, <2>3, <2>5
<1>8. Sum(Current).known <=> \A c \in Current : Owes(c).known
  BY <1>6 DEF Sum
<1>9. usage'.sum = usage.sum + Owed /\ (usage'.known <=> usage.known /\ \A c \in Current : Owes(c).known)
  BY <1>2, <1>7, <1>8 DEF Plus
<1> HIDE DEF left, total
<1>10. AllKnown' => AllKnown
  BY <1>2, <1>9 DEF AllKnown, Children
<1>11. ASSUME Owed' = 0, phase' \in Ended => reported' = Recorded(usage') PROVE Balanced'
  BY <1>1, <1>2, <1>4, <1>7, <1>9, <1>10, <1>11 DEF Balanced
<1>12. ASSUME KeptInAll' \in Nat, KeptInAll' <= KeptInAll PROVE Backed'
  <2>1. KeptInAll \in Nat
    BY <1>1, OwesTypes
  <2> QED BY <1>1, <1>2, <1>4, <1>12, <2>1 DEF Backed
<1>13. CASE /\ UNCHANGED <<wave, child>> /\ phase' \in {"partial", "failed", "synth"}
            /\ phase' \in Ended => reported' = Recorded(total)
  <2>1. ASSUME NEW c \in Children PROVE child[c].point \notin Active
    BY <1>1, <1>2, <2>1 DEF InTheWave, Current, Active
  <2>2. InTheWave'
    BY <1>1, <1>2, <1>13, <2>1 DEF InTheWave, Children
  <2>3. Owed' = 0
    BY <1>13, NothingOwed
  <2>4. KeptInAll' \in Nat /\ KeptInAll' <= KeptInAll
    BY <1>1, <1>13, KeptFrame
  <2> QED BY <1>2, <1>11, <1>12, <1>13, <2>2, <2>3, <2>4
<1>14. CASE /\ wave' = wave + 1 /\ phase' = phase
            /\ child' = [c \in Children |-> IF InWave(c, wave + 1) THEN Started ELSE child[c]]
  <2>1. /\ Started.point = "attempt" /\ ~Started.retained /\ Started.records = NoCost
    BY DEF Idle, Started
  <2>2. ASSUME NEW c \in Children, InWave(c, wave + 1)
        PROVE  child'[c] = Started /\ outcome'[c].kind = "none"
    <3>1. WaveOf(c) > wave
      BY <1>4, <2>2 DEF InWave
    <3>2. outcome[c].kind = "none"
      BY <1>1, <3>1 DEF Waves, InTheWave
    <3> QED BY <1>2, <1>14, <2>2, <3>2
  <2>3. ASSUME NEW c \in Children, ~InWave(c, wave + 1)
        PROVE  child'[c] = child[c] /\ child[c].point \notin Active
    <3>1. child[c].point \notin Active
      BY <1>1, <1>2, <2>3 DEF InTheWave, Current, Active
    <3> QED BY <1>14, <2>3, <3>1
  <2>4. InTheWave'
    <3> SUFFICES ASSUME NEW c \in Children
                 PROVE  /\ child'[c].point \in Active => phase' = "gather" /\ InWave(c, wave')
                        /\ child'[c].point \in {"idle", "attempt", "asked"} => outcome'[c].kind = "none"
                        /\ child'[c].point = "idle" => child'[c].records = NoCost
      BY <1>2, <1>14 DEF InTheWave, InWave, WaveOf, Children
    <3>1. CASE InWave(c, wave + 1)
      BY <1>2, <1>14, <2>1, <2>2, <3>1
    <3>2. CASE ~InWave(c, wave + 1)
      BY <1>1, <1>2, <2>3, <3>2 DEF InTheWave
    <3> QED BY <3>1, <3>2
  <2>5. \A c \in Current' : Owes(c)' = NoCost
    <3>1. ASSUME NEW c \in Children, InWave(c, wave + 1) PROVE Owes(c)' = NoCost
      BY <2>1, <2>2, <3>1 DEF Owes
    <3> QED BY <1>14, <3>1 DEF Current, Children, InWave, WaveOf
  <2>6. Owed' = 0
    BY <2>5, NothingOwed
  <2>7. phase' \notin Ended
    BY <1>2, <1>14 DEF Ended
  <2>8. KeptInAll' \in Nat /\ KeptInAll' <= KeptInAll
    <3>1. \A c \in Children : ~(child'[c].retained /\ child'[c].point \in {"attempt", "asked"})
      BY <2>1, <2>2, <2>3 DEF Active
    <3> QED BY <1>1, <3>1, KeptFrame
  <2> QED BY <1>11, <1>12, <2>4, <2>6, <2>7, <2>8
<1>15. \A status \in {"partial", "failed"} :
         EndRun(status, total) => phase' = status /\ reported' = Recorded(total)
  BY DEF EndRun
<1>16. "synth" \notin Ended
  BY DEF Ended
<1> QED BY <1>3, <1>13, <1>14, <1>15, <1>16

LEMMA BookKeepingNext == BookKeeping /\ [CostsNext]_allVars => BookKeeping'
<1> SUFFICES ASSUME BookKeeping, [CostsNext]_allVars PROVE BookKeeping'
  OBVIOUS
<1>1. Told' /\ Typed'
  BY ToldNext, TypedNext DEF BookKeeping
<1>2. CASE AskMain
  BY <1>1, <1>2, BookKeepingAskMain DEF BookKeeping
<1>3. CASE MainAnswered \/ MainFails
  BY <1>1, <1>3, BookKeepingMain DEF BookKeeping
<1>4. CASE EndWave
  BY <1>1, <1>4, BookKeepingEndWave DEF BookKeeping
<1>5. ASSUME NEW c \in Children,
             AskChild(c) \/ ChildAnswered(c) \/ ChildFails(c) \/ ChildReturns(c) \/ ChildTimeout(c)
      PROVE  BookKeeping'
  BY <1>1, <1>5, BookKeepingChild DEF BookKeeping
<1>6. CASE UNCHANGED allVars
  <2>1. /\ child' = child /\ outcome' = outcome /\ phase' = phase /\ wave' = wave
        /\ usage' = usage /\ paid' = paid /\ ledger' = ledger /\ reported' = reported
    BY <1>6 DEF allVars, accounts
  <2>2. InTheWave' /\ AllKnown' = AllKnown /\ Owed' = Owed /\ KeptInAll' = KeptInAll
    BY <2>1 DEF BookKeeping, InTheWave, AllKnown, Owed, Owes, KeptInAll, Kept, Current, Children,
       InWave, WaveOf
  <2> QED BY <1>1, <2>1, <2>2 DEF BookKeeping, Balanced, Backed, Recorded
<1> QED BY <1>2, <1>3, <1>4, <1>5, <1>6 DEF CostsNext

LEMMA BookKeepingMatches == BookKeeping => BooksMatchRequests
<1> SUFFICES ASSUME BookKeeping PROVE BooksMatchRequests
  OBVIOUS
<1>1. Typed /\ Balanced /\ Backed
  BY DEF BookKeeping
<1>2. ASSUME \A c \in Children : outcome[c].kind # "ceiling", phase \in Ended, reported # Unknown
      PROVE  paid.whole /\ reported = paid.sum
  <2>1. reported = Recorded(usage) /\ phase # "gather" /\ usage.sum \in Nat
    BY <1>1, <1>2 DEF Balanced, Ended, Typed, RunTypes, Tally
  <2>2. usage.known /\ reported = usage.sum
    BY <1>2, <2>1 DEF Recorded
  <2>3. Owed = 0
    BY <2>1, NothingOwed
  <2> QED BY <1>1, <1>2, <2>1, <2>2, <2>3 DEF Balanced, AllKnown
<1>3. ledger <= paid.sum
  <2>1. KeptInAll \in Nat /\ ledger \in Nat /\ paid.sum \in Nat
    BY <1>1, OwesTypes DEF Typed, BillTypes, Bills
  <2> QED BY <1>1, <2>1 DEF Backed
<1> QED BY <1>2, <1>3 DEF BooksMatchRequests, ReportedCostIsWhole

\* Whatever is repaired, retried, retained or cut off by the deadline, in any wave:
\* an ended run in which no child met the ceiling reports what its requests cost or
\* nothing, and the usage events charge no more than was settled.
THEOREM BooksMatch == CostsSpec => []BooksMatchRequests
<1>1. CostsInit => BookKeeping
  BY BookKeepingInit
<1>2. BookKeeping /\ [CostsNext]_allVars => BookKeeping'
  BY BookKeepingNext
<1>3. BookKeeping => BooksMatchRequests
  BY BookKeepingMatches
<1> QED BY <1>1, <1>2, <1>3, PTL DEF CostsSpec

=============================================================================
