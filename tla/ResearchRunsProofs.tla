-------------------------- MODULE ResearchRunsProofs --------------------------
(***************************************************************************)
(* Proofs about ResearchRuns, for any runs, keys, questions and plan, and  *)
(* any number of attempts, requests and crashes.                           *)
(***************************************************************************)
EXTENDS ResearchRuns, WellFoundedInduction, FiniteSetTheorems, SequenceTheorems, TLAPS

-----------------------------------------------------------------------------
(* The records.                                                            *)

PlanStatuses == {"draft", "confirmed", "executing", "completed", "failed"}
Pcs == {"idle", "created", "confirm", "closing", "done"} \cup Executing

LEMMA ElementsAreElements ==
    ASSUME NEW S, NEW s \in Seq(S)
    PROVE  DOMAIN s = 1..Len(s) /\ \A i \in DOMAIN s : s[i] \in S
OBVIOUS

LEMMA RemovalIsSequence ==
    ASSUME NEW S, NEW s \in Seq(S), NEW i \in DOMAIN s
    PROVE  RemoveAt(s, i) \in Seq(S)
BY DEF RemoveAt

LEMMA LeastIsThere ==
    ASSUME NEW S \in SUBSET Nat, S # {}
    PROVE  \E n \in S : \A m \in S : n =< m
<1>. DEFINE Less == OpToRel(<, Nat)
<1>1. IsWellFoundedOn(Less, Nat)
  BY NatLessThanWellFounded
<1>2. \A m, n \in Nat : <<m, n>> \in Less <=> m < n
  BY DEF OpToRel
<1>. HIDE DEF Less
<1>3. PICK n \in S : \A m \in S : <<m, n>> \notin Less
  BY <1>1, WFMin
<1>4. \A m \in S : ~ (m < n)
  BY <1>2, <1>3
<1>. QED
  BY <1>4

LEMMA NewRuntimeIsOne ==
    ASSUME NEW key \in Keys \cup {NoKey}
    PROVE  NewRuntime(key) \in RuntimeRecords
BY ResearchAssumption DEF NewRuntime, RuntimeRecords, Statuses, Results

LEMMA PlannedIsOne ==
    ASSUME NEW x \in RuntimeRecords, NEW n \in Nat, NEW status \in Statuses
    PROVE  /\ [x EXCEPT !.plan = n, !.status = status] \in RuntimeRecords
           /\ [x EXCEPT !.plan = n, !.status = status].plan = n
BY DEF RuntimeRecords

LEMMA AttemptsAreOnes ==
    /\ Idle \in AttemptRecords /\ Ended \in AttemptRecords
    /\ Idle.pc = "idle" /\ Ended.pc = "done"
    /\ Ended.doomed = FALSE /\ Idle.known = {} /\ Ended.known = {}
<1>1. [q \in Questions |-> "no"] \in [Questions -> {"no", "asked", "sources", "nothing"}]
  OBVIOUS
<1>2. NewAttempt(NoRun, {}, TRUE, FALSE) \in AttemptRecords
  BY <1>1 DEF NewAttempt, AttemptRecords, Asks, Executing, Searching
<1>3. Idle \in AttemptRecords /\ Idle.pc = "idle" /\ Idle.doomed = FALSE /\ Idle.known = {}
  BY <1>1, <1>2 DEF Idle, NewAttempt, AttemptRecords
<1>. QED
  BY <1>3 DEF Ended, AttemptRecords

LEMMA NewAttemptIsOne ==
    ASSUME NEW r \in Runs, NEW known \in SUBSET Questions,
           NEW alone \in BOOLEAN, NEW doomed \in BOOLEAN
    PROVE  NewAttempt(r, known, alone, doomed) \in AttemptRecords
BY DEF NewAttempt, AttemptRecords, Asks, Executing, Searching

LEMMA DraftIsOne ==
    ASSUME NEW asks \in Asks, NEW sound \in BOOLEAN
    PROVE  Draft(asks, sound) \in PlanObjects /\ Draft(asks, sound).asks = asks
BY DEF Draft, PlanObjects

LEMMA FirstDraft ==
    Draft(Plan, TRUE) \in PlanObjects /\ Draft(Plan, TRUE).asks = Plan
<1>1. Plan \in Seq(Questions)
  BY ResearchAssumption
<1>2. Plan \in Asks
  BY <1>1 DEF Asks
<1>3. \A asks \in Asks : \A sound \in BOOLEAN :
          [status |-> "draft", asks |-> asks, sound |-> sound] \in PlanObjects
  BY DEF PlanObjects
<1>4. [status |-> "draft", asks |-> Plan, sound |-> TRUE] \in PlanObjects
  BY <1>2, <1>3
<1>. QED
  BY <1>4 DEF Draft

LEMMA FoundAreQuestions ==
    ASSUME NEW results \in Results
    PROVE  Found(results) \in SUBSET Questions
<1>1. \A i \in DOMAIN results : results[i] \in [q : Questions, got : BOOLEAN]
  BY ElementsAreElements DEF Results
<1>. QED
  BY <1>1 DEF Found

LEMMA SavedIsOne ==
    ASSUME NEW x \in RuntimeRecords, NEW objects \in Seq(PlanObjects),
           x.plan \in 0..Len(objects)
    PROVE  Saved(x, objects) \in FileRecords
<1>1. CASE x.plan = 0
  BY <1>1 DEF Saved, FileRecords, RuntimeRecords
<1>2. CASE x.plan # 0
  <2>1. objects[x.plan] \in PlanObjects
    BY <1>2
  <2>2. objects[x.plan].asks \in Asks /\ objects[x.plan].sound \in BOOLEAN
    BY <2>1 DEF PlanObjects
  <2>. QED
    BY <1>2, <2>2 DEF Saved, FileRecords, RuntimeRecords
<1>. QED
  BY <1>1, <1>2

\* A run that is requested is live, or made live again from its file.
LEMMA LiveIsOne ==
    ASSUME TypeOK, NEW r \in Runs
    PROVE  /\ Live(r) \in RuntimeRecords
           /\ LivePlans(r) \in Seq(PlanObjects)
           /\ Live(r).plan \in 0..Len(LivePlans(r))
           /\ listed[r] # "archived" => Live(r) = runtime[r] /\ LivePlans(r) = plans[r]
<1>1. CASE listed[r] # "archived"
  BY <1>1 DEF Live, LivePlans, TypeOK
<1>2. CASE listed[r] = "archived"
  <2>1. file[r] \in FileRecords /\ NewRuntime(NoKey) \in RuntimeRecords
    BY NewRuntimeIsOne DEF TypeOK
  <2>2. /\ file[r].results \in Results /\ file[r].asks \in Asks \cup {NoPlan}
        /\ file[r].sound \in BOOLEAN
    BY <2>1 DEF FileRecords
  <2>3. Rehydrated(r) \in RuntimeRecords
    BY <2>1, <2>2 DEF Rehydrated, RuntimeRecords, Statuses
  <2>4. Rehydrated(r).plan = IF file[r].asks = NoPlan THEN 0 ELSE 1
    BY DEF Rehydrated, NewRuntime
  <2>5. CASE file[r].asks = NoPlan
    BY <1>2, <2>3, <2>4, <2>5 DEF Live, LivePlans, RehydratedPlans
  <2>6. CASE file[r].asks # NoPlan
    <3>1. Draft(file[r].asks, file[r].sound) \in PlanObjects
      BY <2>2, <2>6, DraftIsOne
    <3>2. LivePlans(r) = << Draft(file[r].asks, file[r].sound) >>
      BY <1>2, <2>6 DEF LivePlans, RehydratedPlans
    <3>. QED
      BY <1>2, <2>3, <2>4, <2>6, <3>1, <3>2 DEF Live
  <2>. QED
    BY <2>5, <2>6
<1>. QED
  BY <1>1, <1>2

LEMMA EditsAreAsks ==
    ASSUME TypeOK, NEW r \in Runs, Live(r).plan # 0, NEW asks \in EditedAsks(r)
    PROVE  asks \in Asks
<1>. DEFINE old == LivePlans(r)[Live(r).plan].asks
<1>1. old \in Asks
  <2>1. Live(r).plan \in 1..Len(LivePlans(r)) /\ LivePlans(r) \in Seq(PlanObjects)
    BY LiveIsOne
  <2>2. LivePlans(r)[Live(r).plan] \in PlanObjects
    BY <2>1
  <2>. QED
    BY <2>2 DEF PlanObjects
<1>2. CASE \E i \in DOMAIN old : asks = RemoveAt(old, i)
  BY <1>1, <1>2, RemovalIsSequence DEF Asks
<1>3. CASE \E q \in Questions : asks = Append(old, q)
  BY <1>1, <1>3 DEF Asks
<1>4. CASE asks = old
  BY <1>1, <1>4
<1>. QED
  BY <1>2, <1>3, <1>4 DEF EditedAsks

\* A status written into a plan object changes nothing else of any plan.
LEMMA SetPlanKeeps ==
    ASSUME TypeOK, NEW t \in Attempts, attempt[t].run \in Runs,
           NEW i \in 1..Len(plans[attempt[t].run]), NEW st \in PlanStatuses, SetPlan(t, i, st)
    PROVE  /\ plans' \in [Runs -> Seq(PlanObjects)]
           /\ \A r \in Runs : /\ Len(plans[r]') = Len(plans[r])
                              /\ \A j \in 1..Len(plans[r]) : plans[r]'[j].asks = plans[r][j].asks
<1>. DEFINE s == attempt[t].run
            object == [plans[s][i] EXCEPT !.status = st]
            changed == [plans[s] EXCEPT ![i] = object]
<1>1. plans[s] \in Seq(PlanObjects) /\ plans[s][i] \in PlanObjects
  BY DEF TypeOK
<1>2. object \in PlanObjects /\ object.asks = plans[s][i].asks
  BY <1>1 DEF PlanObjects, PlanStatuses
<1>3. /\ changed \in Seq(PlanObjects) /\ Len(changed) = Len(plans[s])
      /\ \A j \in 1..Len(plans[s]) : changed[j] = IF j = i THEN object ELSE plans[s][j]
  BY <1>1, <1>2, ExceptSeq
<1>4. plans' = [plans EXCEPT ![s] = changed]
  BY DEF SetPlan
<1>. QED
  BY <1>2, <1>3, <1>4 DEF TypeOK

LEMMA CachedIsOne ==
    ASSUME TypeOK, NEW t \in Attempts
    PROVE  NextCached(t) \in 0..Len(attempt[t].todo) /\ attempt[t].todo \in Asks
<1>1. attempt[t].todo \in Asks
  BY DEF TypeOK, AttemptRecords
<1>. DEFINE I == {i \in 1..Len(attempt[t].todo) :
                    attempt[t].todo[i] \in search[attempt[t].run].checkpoint}
<1>2. NextCached(t) = IF I # {} THEN Min(I) ELSE 0
  BY DEF NextCached, SelectInSeq
<1>3. Len(attempt[t].todo) \in Nat
  BY <1>1 DEF Asks
<1>4. I # {} => Min(I) \in I
  <2>1. I \subseteq Nat
    BY <1>3
  <2>2. I # {} => \E x \in I : \A y \in I : x =< y
    BY <2>1, LeastIsThere
  <2>. QED
    BY <2>2 DEF Min
<1>. QED
  BY <1>1, <1>2, <1>3, <1>4

LEMMA SetToSeqIsOne ==
    ASSUME NEW S, IsFiniteSet(S)
    PROVE  SetToSeq(S) \in Seq(S)
<1>1. PICK f \in [1..Cardinality(S) -> S] : IsInjective(f)
  BY FS_CardinalityType, FS_NatBijection, FS_CountingElements
     DEF ExistsBijection, Bijection, Injection, IsInjective
<1>2. SetToSeq(S) \in [1..Cardinality(S) -> S]
  BY <1>1 DEF SetToSeq
<1>. QED
  BY <1>2, FS_CardinalityType
-----------------------------------------------------------------------------
(* The shape of the state, and what it rests on: only tasks of runs that   *)
(* are live or were deleted are alive; a run waits for its planner with no *)
(* plan; and whoever has confirmed a plan has one, as his run has.         *)

Placed ==
    /\ \A t \in Attempts : Alive(t) => listed[attempt[t].run] \in {"live", "gone"}
    /\ \A r \in planning : plans[r] = <<>> /\ listed[r] \in {"live", "gone"}
    /\ \A r \in Runs : listed[r] = "fresh" => plans[r] = <<>>
    /\ \A t \in Attempts : attempt[t].pc \in {"confirm"} \cup Executing => attempt[t].plan # 0
    /\ \A t \in Attempts : attempt[t].pc \in Executing => runtime[attempt[t].run].plan # 0

TypeInv == TypeOK /\ Placed

LEMMA TypeInit == Init => TypeInv
<1>. SUFFICES ASSUME Init PROVE TypeInv
  OBVIOUS
<1>1. NewRuntime(NoKey) \in RuntimeRecords /\ NewRuntime(NoKey).plan = 0
  BY NewRuntimeIsOne DEF NewRuntime
<1>2. NoFile \in FileRecords
  BY DEF NoFile, FileRecords, Results
<1>3. \A t \in Attempts : attempt[t] = Idle
  BY DEF Init
<1>4. \A t \in Attempts : ~Alive(t)
  BY <1>3, AttemptsAreOnes DEF Alive
<1>5. attempt \in [Attempts -> AttemptRecords]
  BY AttemptsAreOnes DEF Init
<1>6. search \in [Runs -> [results : Results, checkpoint : SUBSET Questions]]
  BY DEF Init, Results
<1>7. TypeOK
  BY <1>1, <1>2, <1>4, <1>5, <1>6, ResearchAssumption DEF Init, TypeOK
<1>8. Placed
  BY <1>3, <1>4, AttemptsAreOnes DEF Init, Placed, Executing, Searching
<1>. QED
  BY <1>7, <1>8 DEF TypeInv

\* A request of run r leaves the run, the plan and the place of each task, or
\* creates one.
Fresh(t, r) == /\ attempt[t]'.pc = "created" /\ attempt[t]'.run = r
               /\ attempt[t]'.plan = 0 /\ listed[r]' = "live"
Stays(t)    == /\ attempt[t]'.run = attempt[t].run
               /\ attempt[t]'.plan = attempt[t].plan
               /\ attempt[t]'.pc = attempt[t].pc

\* A request may put another runtime object, and no fewer plan objects, in the
\* place of those of its run.
LEMMA RunReplaced ==
    ASSUME TypeInv, NEW r \in Runs, NEW x \in RuntimeRecords, NEW objects \in Seq(PlanObjects),
           attempt' \in [Attempts -> AttemptRecords],
           \A t \in Attempts : Stays(t) \/ Fresh(t, r),
           runtime' = [runtime EXCEPT ![r] = x], plans' = [plans EXCEPT ![r] = objects],
           x.plan \in 0..Len(objects),
           listed[r] \in {"live", "gone"} =>
               /\ Len(plans[r]) =< Len(objects)
               /\ runtime[r].plan # 0 => x.plan # 0,
           file' \in [Runs -> FileRecords],
           listed' = [listed EXCEPT ![r] = "live"] \/ listed' = listed,
           listed[r]' # "fresh", planning' \subseteq planning \cup {r},
           r \in planning' => objects = <<>> /\ listed[r]' \in {"live", "gone"},
           search' = search, keyOf' \in [Keys -> Runs \cup {NoRun}], task' \in [Runs -> 0..MaxAttempts],
           cancelling' \subseteq Runs, left' \in 0..MaxEvents
    PROVE  TypeInv'
<1>1. \A t \in Attempts : Alive(t)' => Fresh(t, r) \/ (Alive(t) /\ Stays(t))
  BY DEF Stays, Alive
<1>2. \A t \in Attempts : Alive(t) =>
         /\ attempt[t].run \in Runs
         /\ attempt[t].plan \in 0..Len(plans[attempt[t].run])
         /\ listed[attempt[t].run] \in {"live", "gone"}
  BY DEF TypeInv, TypeOK, Placed
<1>3. /\ plans[r]' = objects /\ runtime[r]' = x
      /\ \A s \in Runs \ {r} : plans[s]' = plans[s] /\ runtime[s]' = runtime[s]
      /\ \A s \in Runs \ {r} : listed[s]' = listed[s]
      /\ listed[r]' \in {"live", listed[r]}
  <2>1. /\ DOMAIN plans = Runs /\ DOMAIN runtime = Runs /\ DOMAIN listed = Runs
    BY DEF TypeInv, TypeOK
  <2>. QED
    BY <2>1
<1>5. runtime' \in [Runs -> RuntimeRecords] /\ plans' \in [Runs -> Seq(PlanObjects)]
  BY DEF TypeInv, TypeOK
<1>6. \A s \in Runs : Len(plans[s]) \in Nat /\ runtime[s].plan \in 0..Len(plans[s])
  BY DEF TypeInv, TypeOK
<1>7. Len(objects) \in Nat
  OBVIOUS
<1>8. TypeOK'
  <2>1. \A s \in Runs : runtime[s]'.plan \in 0..Len(plans[s]')
    BY <1>3, <1>6
  <2>2. ASSUME NEW t \in Attempts, Alive(t)'
        PROVE  /\ attempt[t]'.run \in Runs
               /\ attempt[t]'.plan \in 0..Len(plans[attempt[t].run]')
    <3>1. CASE Fresh(t, r)
      BY <1>3, <1>7, <3>1 DEF Fresh
    <3>2. CASE ~Fresh(t, r) /\ attempt[t].run = r
      <4>1. /\ Len(plans[r]) =< Len(objects) /\ attempt[t].plan \in 0..Len(plans[r])
            /\ Stays(t)
        BY <1>1, <1>2, <2>2, <3>2
      <4>. QED
        BY <1>3, <1>6, <1>7, <3>2, <4>1 DEF Stays
    <3>3. CASE ~Fresh(t, r) /\ attempt[t].run # r
      BY <1>1, <1>2, <1>3, <2>2, <3>3 DEF Stays
    <3>. QED
      BY <3>1, <3>2, <3>3
  <2>3. listed' \in [Runs -> {"fresh", "live", "archived", "gone"}]
    BY DEF TypeInv, TypeOK
  <2>4. planning' \subseteq Runs
    BY DEF TypeInv, TypeOK
  <2>. QED
    BY <1>5, <2>1, <2>2, <2>3, <2>4 DEF TypeInv, TypeOK
<1>9. Placed'
  <2>1. ASSUME NEW t \in Attempts, Alive(t)' PROVE listed[attempt[t].run]' \in {"live", "gone"}
    <3>1. CASE Fresh(t, r)
      BY <3>1 DEF Fresh
    <3>2. CASE Alive(t) /\ Stays(t)
      <4>1. /\ attempt[t].run \in Runs /\ listed[attempt[t].run] \in {"live", "gone"}
            /\ attempt[t]'.run = attempt[t].run
        BY <1>2, <3>2 DEF Stays
      <4>2. CASE attempt[t].run = r
        BY <1>3, <4>1, <4>2
      <4>3. CASE attempt[t].run # r
        BY <1>3, <4>1, <4>3
      <4>. QED
        BY <4>2, <4>3
    <3>. QED
      BY <1>1, <2>1, <3>1, <3>2
  <2>2. \A s \in planning' : s = r \/ (s \in planning /\ s \in Runs)
    BY DEF TypeInv, TypeOK
  <2>3. \A s \in planning' : plans[s]' = <<>> /\ listed[s]' \in {"live", "gone"}
    BY <1>3, <2>2 DEF TypeInv, Placed
  <2>6. \A s \in Runs : listed[s]' = "fresh" => plans[s]' = <<>>
    BY <1>3 DEF TypeInv, Placed
  <2>4. ASSUME NEW t \in Attempts, attempt[t]'.pc \in Executing
        PROVE  runtime[attempt[t].run]'.plan # 0
    <3>1. attempt[t].pc \in Executing /\ Alive(t) /\ Stays(t)
      BY <2>4 DEF Alive, Executing, Searching, Stays, Fresh
    <3>2. runtime[attempt[t].run].plan # 0
      BY <3>1 DEF TypeInv, Placed
    <3>. QED
      BY <1>2, <1>3, <3>1, <3>2 DEF Stays
  <2>5. \A t \in Attempts : attempt[t]'.pc \in {"confirm"} \cup Executing => attempt[t]'.plan # 0
    BY DEF TypeInv, Placed, Stays, Fresh, Executing, Searching
  <2>. QED
    BY <2>1, <2>3, <2>4, <2>5, <2>6 DEF Placed
<1>. QED
  BY <1>8, <1>9 DEF TypeInv

LEMMA Stay == attempt' = attempt => \A t \in Attempts : Stays(t)
BY DEF Stays

LEMMA EndPlanningKeepsTypes ==
    ASSUME TypeInv, NEW r \in Runs, NEW x \in RuntimeRecords, NEW objects \in Seq(PlanObjects),
           x.plan \in 0..Len(objects), EndPlanning(r, x, objects)
    PROVE  TypeInv'
<1>1. /\ plans[r] = <<>> /\ listed[r] \in {"live", "gone"} /\ runtime[r].plan = 0
  BY DEF EndPlanning, TypeInv, TypeOK, Placed
<1>2. Saved(x, objects) \in FileRecords
  BY SavedIsOne
<1>3. file' \in [Runs -> FileRecords]
  BY <1>2 DEF EndPlanning, TypeInv, TypeOK
<1>4. /\ runtime' = [runtime EXCEPT ![r] = x] /\ plans' = [plans EXCEPT ![r] = objects]
      /\ listed' = listed /\ attempt' = attempt /\ planning' \subseteq planning
      /\ search' = search /\ r \notin planning' /\ listed[r]' # "fresh"
  BY <1>1 DEF EndPlanning
<1>5. /\ attempt' \in [Attempts -> AttemptRecords] /\ task' \in [Runs -> 0..MaxAttempts]
      /\ keyOf' \in [Keys -> Runs \cup {NoRun}] /\ cancelling' \subseteq Runs /\ left' \in 0..MaxEvents
  BY DEF EndPlanning, TypeInv, TypeOK
<1>6. Len(plans[r]) =< Len(objects) /\ (runtime[r].plan # 0 => x.plan # 0)
  BY <1>1
<1>7. \A t \in Attempts : Stays(t) \/ Fresh(t, r)
  BY <1>4, Stay
<1>. QED
  BY <1>3, <1>4, <1>5, <1>6, <1>7, RunReplaced

LEMMA PlanningKeepsTypes ==
    ASSUME TypeInv, NEW r \in Runs, PlanReady(r) \/ PlanFails(r)
    PROVE  TypeInv'
<1>1. /\ runtime[r] \in RuntimeRecords /\ plans[r] \in Seq(PlanObjects)
      /\ runtime[r].plan \in 0..Len(plans[r])
  BY DEF TypeInv, TypeOK
<1>2. CASE PlanReady(r)
  <2>. DEFINE x == [runtime[r] EXCEPT !.plan = 1, !.status = "plan_ready"]
              objects == << Draft(Plan, TRUE) >>
  <2>1. x \in RuntimeRecords /\ x.plan = 1
    BY <1>1 DEF RuntimeRecords, Statuses
  <2>. HIDE DEF x
  <2>2. objects \in Seq(PlanObjects) /\ Len(objects) = 1 /\ objects[1].asks = Plan
    BY FirstDraft DEF Draft
  <2>3. objects \in Seq(PlanObjects) /\ Len(objects) = 1
    BY <2>2
  <2>4. EndPlanning(r, x, objects)
    BY <1>2 DEF PlanReady, x
  <2>. HIDE DEF x, objects
  <2>5. x.plan \in 0..Len(objects)
    BY <2>1, <2>3
  <2>. QED
    BY <2>1, <2>3, <2>4, <2>5, EndPlanningKeepsTypes
<1>3. CASE PlanFails(r)
  <2>. DEFINE x == [runtime[r] EXCEPT !.status = "failed"]
  <2>1. x \in RuntimeRecords /\ x.plan = runtime[r].plan
    BY <1>1 DEF RuntimeRecords, Statuses
  <2>2. EndPlanning(r, x, plans[r])
    BY <1>3 DEF PlanFails
  <2>. HIDE DEF x
  <2>. QED
    BY <1>1, <2>1, <2>2, EndPlanningKeepsTypes
<1>. QED
  BY <1>2, <1>3

LEMMA EditKeepsTypes ==
    ASSUME TypeInv, NEW r \in Runs, Edit(r)
    PROVE  TypeInv'
<1>1. PICK asks \in EditedAsks(r), sound \in BOOLEAN :
         LET objects == Append(LivePlans(r), Draft(asks, sound))
             x == [Live(r) EXCEPT !.plan = Len(objects), !.status = "plan_ready"]
         IN /\ plans' = [plans EXCEPT ![r] = objects]
            /\ runtime' = [runtime EXCEPT ![r] = x]
            /\ file' = [file EXCEPT ![r] = Saved(x, objects)]
  BY DEF Edit
<1>. DEFINE objects == Append(LivePlans(r), Draft(asks, sound))
            x == [Live(r) EXCEPT !.plan = Len(objects), !.status = "plan_ready"]
<1>2. /\ Live(r) \in RuntimeRecords /\ LivePlans(r) \in Seq(PlanObjects)
      /\ Live(r).plan \in 0..Len(LivePlans(r)) /\ Live(r).plan # 0
      /\ listed[r] # "archived" => Live(r) = runtime[r] /\ LivePlans(r) = plans[r]
  BY LiveIsOne DEF TypeInv, Edit
<1>3. Draft(asks, sound) \in PlanObjects
  BY <1>2, EditsAreAsks, DraftIsOne DEF TypeInv
<1>4. /\ objects \in Seq(PlanObjects) /\ Len(objects) = Len(LivePlans(r)) + 1
      /\ Len(LivePlans(r)) \in Nat
      /\ Len(objects) \in Nat
  BY <1>2, <1>3
<1>6. /\ plans' = [plans EXCEPT ![r] = objects] /\ runtime' = [runtime EXCEPT ![r] = x]
      /\ file' = [file EXCEPT ![r] = Saved(x, objects)]
  BY <1>1
<1>. HIDE DEF objects
<1>5. x \in RuntimeRecords /\ x.plan = Len(objects)
  <2>1. "plan_ready" \in Statuses
    BY DEF Statuses
  <2>. QED
    BY <1>2, <1>4, <2>1, PlannedIsOne
<1>. HIDE DEF x
<1>7. x.plan \in 0..Len(objects) /\ x.plan # 0 /\ Len(LivePlans(r)) =< Len(objects)
  BY <1>4, <1>5
<1>8. file' \in [Runs -> FileRecords]
  BY <1>4, <1>5, <1>6, <1>7, SavedIsOne DEF TypeInv, TypeOK
<1>9. /\ listed' = [listed EXCEPT ![r] = "live"] /\ attempt' = attempt
      /\ planning' = planning /\ search' = search /\ listed[r]' = "live"
  BY DEF Edit, TypeInv, TypeOK
<1>10. r \notin planning
  <2>1. r \in planning => plans[r] = <<>> /\ listed[r] # "archived"
    BY DEF TypeInv, Placed
  <2>. QED
    BY <1>2, <2>1
<1>11. /\ attempt' \in [Attempts -> AttemptRecords] /\ task' \in [Runs -> 0..MaxAttempts]
       /\ keyOf' \in [Keys -> Runs \cup {NoRun}] /\ cancelling' \subseteq Runs /\ left' \in 0..MaxEvents
  BY ResearchAssumption DEF Edit, TypeInv, TypeOK
<1>12. listed[r] \in {"live", "gone"} =>
          Len(plans[r]) =< Len(objects) /\ (runtime[r].plan # 0 => x.plan # 0)
  BY <1>2, <1>7
<1>13. \A t \in Attempts : Stays(t) \/ Fresh(t, r)
  BY <1>9, Stay
<1>. QED
  BY <1>4, <1>5, <1>6, <1>7, <1>8, <1>9, <1>10, <1>11, <1>12, <1>13, RunReplaced

LEMMA EditRefusedKeepsTypes ==
    ASSUME TypeInv, NEW r \in Runs, EditRefused(r)
    PROVE  TypeInv'
<1>1. /\ Live(r) \in RuntimeRecords /\ LivePlans(r) \in Seq(PlanObjects)
      /\ Live(r).plan \in 0..Len(LivePlans(r))
  BY LiveIsOne DEF TypeInv
<1>2. /\ runtime' = [runtime EXCEPT ![r] = Live(r)]
      /\ plans' = [plans EXCEPT ![r] = LivePlans(r)]
      /\ listed' = [listed EXCEPT ![r] = "live"] /\ listed[r] = "archived"
      /\ attempt' = attempt /\ planning' = planning /\ search' = search
      /\ listed[r]' = "live"
  BY DEF EditRefused, TypeInv, TypeOK
<1>3. r \notin planning
  BY <1>2 DEF TypeInv, Placed
<1>4. /\ attempt' \in [Attempts -> AttemptRecords] /\ task' \in [Runs -> 0..MaxAttempts]
      /\ keyOf' \in [Keys -> Runs \cup {NoRun}] /\ cancelling' \subseteq Runs
      /\ left' \in 0..MaxEvents /\ file' \in [Runs -> FileRecords]
  BY DEF EditRefused, TypeInv, TypeOK
<1>5. \A t \in Attempts : Stays(t) \/ Fresh(t, r)
  BY <1>2, Stay
<1>. QED
  BY <1>1, <1>2, <1>3, <1>4, <1>5, RunReplaced

LEMMA StartKeepsTypes ==
    ASSUME TypeInv, NEW r \in Runs, NEW t \in Attempts, Start(r, t)
    PROVE  TypeInv'
<1>. DEFINE others == {u \in Attempts : Alive(u) /\ attempt[u].run = r}
            results == IF listed[r] = "archived" THEN file[r].results ELSE runtime[r].results
            new == NewAttempt(r, IF others = {} THEN Found(results) ELSE {},
                              others = {}, Live(r).cancelled)
<1>1. /\ Live(r) \in RuntimeRecords /\ LivePlans(r) \in Seq(PlanObjects)
      /\ Live(r).plan \in 0..Len(LivePlans(r))
      /\ listed[r] # "archived" => Live(r) = runtime[r] /\ LivePlans(r) = plans[r]
  BY LiveIsOne DEF TypeInv
<1>2. results \in Results
  BY DEF TypeInv, TypeOK, FileRecords, RuntimeRecords
<1>3. new \in AttemptRecords /\ new.run = r /\ new.pc = "created" /\ new.plan = 0
  <2>1. Live(r).cancelled \in BOOLEAN
    BY <1>1 DEF RuntimeRecords
  <2>2. (IF others = {} THEN Found(results) ELSE {}) \in SUBSET Questions
    BY <1>2, FoundAreQuestions
  <2>3. new \in AttemptRecords
    BY <2>1, <2>2, NewAttemptIsOne
  <2>. QED
    BY <2>3 DEF NewAttempt
<1>4. attempt' = [u \in Attempts |->
            IF u = t THEN new
            ELSE IF u \in others THEN [attempt[u] EXCEPT !.alone = FALSE, !.known = {}]
            ELSE attempt[u]]
  BY DEF Start
<1>. HIDE DEF new, results
<1>5. \A u \in Attempts : attempt[u] \in AttemptRecords
  BY DEF TypeInv, TypeOK
<1>6. \A u \in Attempts :
         LET marked == [attempt[u] EXCEPT !.alone = FALSE, !.known = {}]
         IN /\ marked \in AttemptRecords /\ marked.run = attempt[u].run
            /\ marked.plan = attempt[u].plan /\ marked.pc = attempt[u].pc
  BY <1>5 DEF AttemptRecords
<1>7. attempt' \in [Attempts -> AttemptRecords]
  BY <1>3, <1>4, <1>5, <1>6
<1>8. /\ runtime' = [runtime EXCEPT ![r] = Live(r)]
      /\ plans' = [plans EXCEPT ![r] = LivePlans(r)]
      /\ listed' = [listed EXCEPT ![r] = "live"] /\ listed[r] \in {"live", "archived"}
      /\ planning' = planning /\ search' = search /\ listed[r]' = "live"
  BY DEF Start, Listed, TypeInv, TypeOK
<1>9. \A u \in Attempts : Stays(u) \/ Fresh(u, r)
  <2>1. listed[r]' = "live"
    BY <1>8 DEF TypeInv, TypeOK
  <2>2. Fresh(t, r)
    BY <1>3, <1>4, <2>1 DEF Fresh
  <2>3. \A u \in Attempts \ {t} : Stays(u)
    BY <1>4, <1>6 DEF Stays
  <2>. QED
    BY <2>2, <2>3
<1>10. r \in planning => LivePlans(r) = <<>>
  BY <1>1 DEF TypeInv, Placed
<1>11. /\ cancelling' \subseteq Runs /\ left' \in 0..MaxEvents /\ file' \in [Runs -> FileRecords]
       /\ keyOf' \in [Keys -> Runs \cup {NoRun}] /\ task' \in [Runs -> 0..MaxAttempts]
  <2>1. t \in 0..MaxAttempts
    BY ResearchAssumption DEF Attempts
  <2>. QED
    BY <2>1 DEF Start, TypeInv, TypeOK
<1>12. listed[r] \in {"live", "gone"} =>
          Len(plans[r]) =< Len(LivePlans(r)) /\ (runtime[r].plan # 0 => Live(r).plan # 0)
  BY <1>1
<1>. QED
  BY <1>1, <1>7, <1>8, <1>9, <1>10, <1>11, <1>12, RunReplaced

LEMMA CancelKeepsTypes ==
    ASSUME TypeInv, NEW r \in Runs, Cancel(r)
    PROVE  TypeInv'
<1>. DEFINE x == [Live(r) EXCEPT !.cancelled = TRUE, !.status = "cancelled"]
<1>1. /\ Live(r) \in RuntimeRecords /\ LivePlans(r) \in Seq(PlanObjects)
      /\ Live(r).plan \in 0..Len(LivePlans(r))
      /\ listed[r] # "archived" => Live(r) = runtime[r] /\ LivePlans(r) = plans[r]
  BY LiveIsOne DEF TypeInv
<1>2. x \in RuntimeRecords /\ x.plan = Live(r).plan
  BY <1>1 DEF RuntimeRecords, Statuses
<1>3. /\ runtime' = [runtime EXCEPT ![r] = x] /\ plans' = [plans EXCEPT ![r] = LivePlans(r)]
      /\ listed' = [listed EXCEPT ![r] = "live"] /\ listed[r] \in {"live", "archived"}
      /\ planning' = planning /\ search' = search /\ listed[r]' = "live"
  BY DEF Cancel, Listed, TypeInv, TypeOK
<1>. HIDE DEF x
<1>4. \A t \in Attempts : attempt[t] \in AttemptRecords
  BY DEF TypeInv, TypeOK
<1>5. ASSUME NEW t \in Attempts
      PROVE  attempt[t]' \in AttemptRecords /\ Stays(t)
  <2>1. PICK doomed \in BOOLEAN : attempt[t]' = [attempt[t] EXCEPT !.doomed = doomed]
    BY <1>4 DEF Cancel, AttemptRecords
  <2>. QED
    BY <1>4, <2>1 DEF AttemptRecords, Stays
<1>6. attempt' \in [Attempts -> AttemptRecords]
  BY <1>5 DEF Cancel
<1>7. r \in planning => LivePlans(r) = <<>>
  BY <1>1 DEF TypeInv, Placed
<1>8. /\ cancelling' \subseteq Runs /\ left' \in 0..MaxEvents /\ file' \in [Runs -> FileRecords]
      /\ keyOf' \in [Keys -> Runs \cup {NoRun}] /\ task' \in [Runs -> 0..MaxAttempts]
  BY ResearchAssumption DEF Cancel, TypeInv, TypeOK
<1>9. listed[r] \in {"live", "gone"} =>
          Len(plans[r]) =< Len(LivePlans(r)) /\ (runtime[r].plan # 0 => x.plan # 0)
  BY <1>1, <1>2
<1>. QED
  BY <1>1, <1>2, <1>3, <1>5, <1>6, <1>7, <1>8, <1>9, RunReplaced

LEMMA CreateKeepsTypes ==
    ASSUME TypeInv, NEW r \in Runs, NEW key \in Keys \cup {NoKey}, Create(r, key)
    PROVE  TypeInv'
<1>1. listed[r] = "fresh" /\ plans[r] = <<>> /\ plans[r] \in Seq(PlanObjects)
  BY DEF Create, TypeInv, TypeOK, Placed
<1>2. NewRuntime(key) \in RuntimeRecords /\ NewRuntime(key).plan = 0
  BY NewRuntimeIsOne DEF NewRuntime
<1>3. <<>> \in Seq(PlanObjects) /\ 0 \in 0..Len(<<>>)
  OBVIOUS
<1>4. file' \in [Runs -> FileRecords]
  <2>1. Saved(NewRuntime(key), <<>>) \in FileRecords
    BY <1>2, <1>3, SavedIsOne
  <2>. QED
    BY <2>1 DEF Create, TypeInv, TypeOK
<1>5. /\ runtime' = [runtime EXCEPT ![r] = NewRuntime(key)]
      /\ plans' = [plans EXCEPT ![r] = <<>>]
      /\ listed' = [listed EXCEPT ![r] = "live"] /\ listed[r]' = "live"
      /\ attempt' = attempt /\ search' = search /\ planning' = planning \cup {r}
  BY <1>1 DEF Create, TypeInv, TypeOK
<1>6. /\ attempt' \in [Attempts -> AttemptRecords] /\ task' \in [Runs -> 0..MaxAttempts]
      /\ keyOf' \in [Keys -> Runs \cup {NoRun}] /\ cancelling' \subseteq Runs /\ left' \in 0..MaxEvents
  BY DEF Create, TypeInv, TypeOK
<1>7. \A t \in Attempts : Stays(t) \/ Fresh(t, r)
  BY <1>5, Stay
<1>8. listed[r] \notin {"live", "gone"}
  BY <1>1
<1>. QED
  BY <1>2, <1>3, <1>4, <1>5, <1>6, <1>7, <1>8, RunReplaced

LEMMA CancelTaskKeepsTypes ==
    ASSUME TypeInv, NEW r \in Runs, CancelTask(r)
    PROVE  TypeInv'
<1>1. /\ runtime[r] \in RuntimeRecords /\ plans[r] \in Seq(PlanObjects)
      /\ runtime[r].plan \in 0..Len(plans[r])
      /\ \A t \in Attempts : attempt[t] \in AttemptRecords
  BY DEF TypeInv, TypeOK
<1>2. file' \in [Runs -> FileRecords]
  BY <1>1, SavedIsOne DEF CancelTask, TypeInv, TypeOK
<1>3. ASSUME NEW t \in Attempts
      PROVE  attempt[t]' \in AttemptRecords /\ Stays(t)
  <2>1. PICK kill \in BOOLEAN : attempt[t]' = [attempt[t] EXCEPT !.kill = kill]
    BY <1>1 DEF CancelTask, AttemptRecords
  <2>. QED
    BY <1>1, <2>1 DEF AttemptRecords, Stays
<1>4. attempt' \in [Attempts -> AttemptRecords]
  BY <1>3 DEF CancelTask
<1>5. \A t \in Attempts : Alive(t)' <=> Alive(t)
  BY <1>3 DEF Stays, Alive
<1>6. /\ UNCHANGED <<listed, runtime, plans, search, keyOf, planning, left>>
      /\ task' \in [Runs -> 0..MaxAttempts] /\ cancelling' \subseteq Runs
  BY ResearchAssumption DEF CancelTask, TypeInv, TypeOK
<1>7. TypeOK'
  BY <1>2, <1>3, <1>4, <1>5, <1>6 DEF TypeInv, TypeOK, Stays
<1>8. Placed'
  BY <1>3, <1>5, <1>6 DEF TypeInv, Placed, Stays
<1>. QED
  BY <1>7, <1>8 DEF TypeInv

LEMMA DeleteKeepsTypes ==
    ASSUME TypeInv, NEW r \in Runs, Delete(r)
    PROVE  TypeInv'
<1>1. NoFile \in FileRecords
  BY DEF NoFile, FileRecords, Results
<1>2. /\ listed' \in [Runs -> {"fresh", "live", "archived", "gone"}]
      /\ file' \in [Runs -> FileRecords] /\ left' \in 0..MaxEvents
  BY <1>1, ResearchAssumption DEF Delete, TypeInv, TypeOK
<1>3. \A s \in Runs : listed[s]' = listed[s] \/ listed[s]' = "gone"
  BY DEF Delete, TypeInv, TypeOK
<1>4. UNCHANGED <<runtime, plans, search, attempt, task, keyOf, planning, cancelling>>
  BY DEF Delete
<1>5. TypeOK'
  BY <1>2, <1>4 DEF TypeInv, TypeOK, Alive
<1>6. Placed'
  <2>1. \A t \in Attempts : Alive(t)' => listed[attempt[t].run]' \in {"live", "gone"}
    BY <1>3, <1>4 DEF TypeInv, TypeOK, Placed, Alive
  <2>2. planning \subseteq Runs
    BY DEF TypeInv, TypeOK
  <2>. QED
    BY <1>3, <1>4, <2>1, <2>2 DEF TypeInv, Placed
<1>. QED
  BY <1>5, <1>6 DEF TypeInv

LEMMA CrashKeepsTypes ==
    ASSUME TypeInv, Crash
    PROVE  TypeInv'
<1>1. NewRuntime(NoKey) \in RuntimeRecords /\ NewRuntime(NoKey).plan = 0
  BY NewRuntimeIsOne DEF NewRuntime
<1>2. \A t \in Attempts : attempt[t]' \in AttemptRecords /\ attempt[t]'.pc \in {"idle", "done"}
  BY AttemptsAreOnes DEF Crash, Alive, TypeInv, TypeOK
<1>3. \A t \in Attempts : ~Alive(t)'
  BY <1>2 DEF Alive
<1>4. attempt' \in [Attempts -> AttemptRecords]
  BY <1>2 DEF Crash
<1>5. search' \in [Runs -> [results : Results, checkpoint : SUBSET Questions]]
  BY DEF Crash, Results
<1>6. /\ \A r \in Runs : runtime[r]' = NewRuntime(NoKey) /\ plans[r]' = <<>>
      /\ runtime' \in [Runs -> RuntimeRecords] /\ plans' \in [Runs -> Seq(PlanObjects)]
  BY <1>1 DEF Crash
<1>7. /\ listed' \in [Runs -> {"fresh", "live", "archived", "gone"}]
      /\ file' \in [Runs -> FileRecords] /\ left' \in 0..MaxEvents
      /\ task' \in [Runs -> 0..MaxAttempts] /\ keyOf' \in [Keys -> Runs \cup {NoRun}]
      /\ planning' = {} /\ cancelling' = {}
  BY ResearchAssumption DEF Crash, TypeInv, TypeOK
<1>8. TypeOK'
  BY <1>1, <1>3, <1>4, <1>5, <1>6, <1>7 DEF TypeOK
<1>9. Placed'
  BY <1>2, <1>3, <1>6, <1>7 DEF Placed, Executing, Searching
<1>. QED
  BY <1>8, <1>9 DEF TypeInv

\* A task takes a step: its record and the runtime of its run are others, and
\* plan objects have other statuses.
LEMMA TaskStepped ==
    ASSUME TypeInv, NEW t \in Attempts, Alive(t),
           NEW r \in Runs, r = attempt[t].run,
           NEW next \in AttemptRecords, attempt' = [attempt EXCEPT ![t] = next],
           next.pc \in {"closing", "created", "confirm"} \cup Executing =>
               next.run = r /\ next.plan \in 0..Len(plans[r]),
           next.pc \in {"confirm"} \cup Executing => next.plan # 0,
           NEW x \in RuntimeRecords, runtime' = [runtime EXCEPT ![r] = x],
           x.plan \in 0..Len(plans[r]),
           runtime[r].plan # 0 \/ next.pc \in Executing => x.plan # 0,
           plans' \in [Runs -> Seq(PlanObjects)],
           \A s \in Runs : Len(plans[s]') = Len(plans[s]),
           search' \in [Runs -> [results : Results, checkpoint : SUBSET Questions]],
           file' \in [Runs -> FileRecords], UNCHANGED Others
    PROVE  TypeInv'
<1>1. \A u \in Attempts : attempt[u]' = IF u = t THEN next ELSE attempt[u]
  BY DEF TypeInv, TypeOK
<1>2. \A s \in Runs : runtime[s]' = IF s = r THEN x ELSE runtime[s]
  BY DEF TypeInv, TypeOK
<1>3. /\ runtime' \in [Runs -> RuntimeRecords] /\ attempt' \in [Attempts -> AttemptRecords]
      /\ \A s \in Runs : runtime[s].plan \in 0..Len(plans[s])
      /\ \A u \in Attempts : Alive(u) => /\ attempt[u].run \in Runs
                                         /\ attempt[u].plan \in 0..Len(plans[attempt[u].run])
  BY DEF TypeInv, TypeOK
<1>4. next.pc \notin {"idle", "done"} => next.pc \in {"closing", "created", "confirm"} \cup Executing
  BY DEF AttemptRecords
<1>5. ASSUME NEW u \in Attempts, Alive(u)'
      PROVE  /\ attempt[u]'.run \in Runs
             /\ attempt[u]'.plan \in 0..Len(plans[attempt[u].run]')
             /\ Alive(u) /\ attempt[u]'.run = attempt[u].run
  <2>1. CASE u = t
    BY <1>1, <1>4, <1>5, <2>1 DEF Alive
  <2>2. CASE u # t
    BY <1>1, <1>3, <1>5, <2>2 DEF Alive
  <2>. QED
    BY <2>1, <2>2
<1>6. \A s \in Runs : runtime[s]'.plan \in 0..Len(plans[s]')
  BY <1>2, <1>3
<1>7. TypeOK'
  BY <1>3, <1>5, <1>6 DEF TypeInv, TypeOK, Others
<1>8. Placed'
  <2>1. listed' = listed /\ planning' = planning /\ planning \subseteq Runs
    BY DEF Others, TypeInv, TypeOK
  <2>2. \A u \in Attempts : Alive(u)' => listed[attempt[u].run]' \in {"live", "gone"}
    BY <1>5, <2>1 DEF TypeInv, Placed
  <2>3. \A s \in Runs : plans[s] = <<>> => plans[s]' = <<>>
    BY EmptySeq
  <2>4. \A u \in Attempts : attempt[u]'.pc \in {"confirm"} \cup Executing => attempt[u]'.plan # 0
    BY <1>1 DEF TypeInv, Placed
  <2>5. ASSUME NEW u \in Attempts, attempt[u]'.pc \in Executing
        PROVE  runtime[attempt[u].run]'.plan # 0
    <3>1. CASE u = t
      BY <1>1, <1>2, <2>5, <3>1
    <3>2. CASE u # t
      <4>1. attempt[u]' = attempt[u] /\ attempt[u].pc \in Executing /\ Alive(u)
        BY <1>1, <2>5, <3>2 DEF Alive, Executing, Searching
      <4>2. runtime[attempt[u].run].plan # 0 /\ attempt[u].run \in Runs
        BY <1>3, <4>1 DEF TypeInv, Placed
      <4>. QED
        BY <1>2, <4>1, <4>2
    <3>. QED
      BY <3>1, <3>2
  <2>. QED
    BY <2>1, <2>2, <2>3, <2>4, <2>5 DEF TypeInv, Placed
<1>. QED
  BY <1>7, <1>8 DEF TypeInv

\* What is known of a task that is not done.
LEMMA TaskIsOne ==
    ASSUME TypeInv, NEW t \in Attempts, Alive(t)
    PROVE  /\ attempt[t].run \in Runs /\ attempt[t] \in AttemptRecords
           /\ Runtime(t) \in RuntimeRecords /\ Runtime(t).plan \in 0..Len(plans[attempt[t].run])
           /\ attempt[t].plan \in 0..Len(plans[attempt[t].run])
           /\ plans[attempt[t].run] \in Seq(PlanObjects)
           /\ attempt[t].pc \in {"confirm"} \cup Executing => attempt[t].plan # 0
           /\ attempt[t].pc \in Executing => Runtime(t).plan # 0
           /\ search[attempt[t].run] \in [results : Results, checkpoint : SUBSET Questions]
BY DEF TypeInv, TypeOK, Placed, Runtime

LEMMA TaskIsAlive ==
    ASSUME NEW t \in Attempts,
           attempt[t].pc \in {"created", "confirm", "closing"} \cup Executing
    PROVE  Alive(t)
BY DEF Alive, Executing, Searching

\* The steps that leave runtime and plans alone: to another place in the same
\* attempt, or to its end.
LEMMA TaskMoved ==
    ASSUME TypeInv, NEW t \in Attempts, Alive(t),
           NEW next \in AttemptRecords, attempt' = [attempt EXCEPT ![t] = next],
           \/ next = Ended
           \/ /\ next.run = attempt[t].run /\ next.plan = attempt[t].plan
              /\ next.pc \in Executing => attempt[t].pc \in Executing
              /\ next.pc = "confirm" => attempt[t].pc = "confirm",
           UNCHANGED <<runtime, plans>>,
           search' \in [Runs -> [results : Results, checkpoint : SUBSET Questions]],
           file' \in [Runs -> FileRecords], UNCHANGED Others
    PROVE  TypeInv'
<1>. DEFINE r == attempt[t].run
            x == runtime[r]
<1>1. /\ r \in Runs /\ x \in RuntimeRecords /\ x.plan \in 0..Len(plans[r])
      /\ attempt[t].plan \in 0..Len(plans[r])
      /\ attempt[t].pc \in {"confirm"} \cup Executing => attempt[t].plan # 0
      /\ attempt[t].pc \in Executing => x.plan # 0
  BY TaskIsOne DEF Runtime
<1>2. Ended.pc \notin {"closing", "created", "confirm"} \cup Executing
  BY AttemptsAreOnes DEF Executing, Searching
<1>3. /\ runtime' = [runtime EXCEPT ![r] = x] /\ plans' \in [Runs -> Seq(PlanObjects)]
      /\ \A s \in Runs : Len(plans[s]') = Len(plans[s])
  BY DEF TypeInv, TypeOK
<1>4. next.pc \in {"closing", "created", "confirm"} \cup Executing =>
         next.run = r /\ next.plan \in 0..Len(plans[r])
  BY <1>1, <1>2
<1>5. next.pc \in {"confirm"} \cup Executing => next.plan # 0
  BY <1>1, <1>2
<1>6. runtime[r].plan # 0 \/ next.pc \in Executing => x.plan # 0
  BY <1>1, <1>2
<1>. QED
  BY <1>1, <1>3, <1>4, <1>5, <1>6, TaskStepped

LEMMA EndedMoves ==
    ASSUME TypeInv, NEW t \in Attempts, Alive(t), End(t), UNCHANGED <<runtime, plans, search>>,
           file' \in [Runs -> FileRecords], UNCHANGED Others
    PROVE  TypeInv'
<1>1. search' \in [Runs -> [results : Results, checkpoint : SUBSET Questions]]
  BY DEF TypeInv, TypeOK
<1>2. attempt' = [attempt EXCEPT ![t] = Ended]
  BY DEF End
<1>. QED
  BY <1>1, <1>2, AttemptsAreOnes, TaskMoved

\* Steps within the search and the report.
LEMMA BeginKeepsTypes ==
    ASSUME TypeInv, NEW t \in Attempts, Begin(t)
    PROVE  TypeInv'
<1>. DEFINE r == attempt[t].run
            x == runtime[r]
<1>0. Alive(t) /\ attempt[t].pc = "created"
  BY TaskIsAlive DEF Begin
<1>1. /\ r \in Runs /\ x \in RuntimeRecords /\ x.plan \in 0..Len(plans[r])
      /\ attempt[t] \in AttemptRecords
  BY <1>0, TaskIsOne DEF Runtime
<1>2. /\ search' \in [Runs -> [results : Results, checkpoint : SUBSET Questions]]
      /\ file' \in [Runs -> FileRecords] /\ UNCHANGED Others /\ runtime' = runtime
  BY DEF Begin, TypeInv, TypeOK
<1>3. CASE ~Ready(t)
  BY <1>0, <1>2, <1>3, EndedMoves DEF Begin
<1>4. CASE Ready(t)
  <2>. DEFINE next == [attempt[t] EXCEPT !.pc = "confirm", !.plan = x.plan]
  <2>1. x.plan # 0 /\ x.plan \in 1..Len(plans[r]) /\ x.plan \in Nat
    BY <1>1, <1>4 DEF Ready, RuntimeRecords
  <2>2. next \in AttemptRecords /\ next.pc = "confirm" /\ next.run = r /\ next.plan = x.plan
    BY <1>1, <2>1 DEF AttemptRecords
  <2>3. /\ plans' \in [Runs -> Seq(PlanObjects)]
        /\ \A s \in Runs : Len(plans[s]') = Len(plans[s])
    BY <1>1, <1>4, <2>1, SetPlanKeeps DEF Begin, Runtime, PlanStatuses, TypeInv
  <2>4. attempt' = [attempt EXCEPT ![t] = next]
    BY <1>4 DEF Begin, Runtime, TypeInv, TypeOK
  <2>5. runtime' = [runtime EXCEPT ![r] = x]
    BY <1>2 DEF TypeInv, TypeOK
  <2>. HIDE DEF next
  <2>. QED
    BY <1>0, <1>1, <1>2, <2>1, <2>2, <2>3, <2>4, <2>5, TaskStepped
<1>. QED
  BY <1>3, <1>4

LEMMA RefuseKeepsTypes ==
    ASSUME TypeInv, NEW t \in Attempts, Refuse(t)
    PROVE  TypeInv'
<1>. DEFINE r == attempt[t].run
            x == [Runtime(t) EXCEPT !.plan = attempt[t].plan, !.status = "plan_ready"]
<1>0. Alive(t) /\ attempt[t].pc = "confirm"
  BY TaskIsAlive DEF Refuse, At
<1>1. /\ r \in Runs /\ Runtime(t) \in RuntimeRecords /\ attempt[t] \in AttemptRecords
      /\ attempt[t].plan \in 0..Len(plans[r]) /\ attempt[t].plan # 0
      /\ plans[r] \in Seq(PlanObjects)
  BY <1>0, TaskIsOne
<1>2. attempt[t].plan \in Nat
  BY <1>1 DEF AttemptRecords
<1>3. x \in RuntimeRecords /\ x.plan = attempt[t].plan
  BY <1>1, <1>2, PlannedIsOne DEF Statuses
<1>4. /\ runtime' = [runtime EXCEPT ![r] = x] /\ plans' = plans
      /\ attempt' = [attempt EXCEPT ![t] = Ended] /\ UNCHANGED Others /\ search' = search
      /\ file' = [file EXCEPT ![r] = Saved(x, plans[r])]
  BY DEF Refuse, SetRuntime, End, Save
<1>. HIDE DEF x
<1>5. /\ file' \in [Runs -> FileRecords]
      /\ search' \in [Runs -> [results : Results, checkpoint : SUBSET Questions]]
      /\ plans' \in [Runs -> Seq(PlanObjects)] /\ \A s \in Runs : Len(plans[s]') = Len(plans[s])
  BY <1>1, <1>3, <1>4, SavedIsOne DEF TypeInv, TypeOK
<1>6. Ended.pc \notin {"closing", "created", "confirm"} \cup Executing
  BY AttemptsAreOnes DEF Executing, Searching
<1>. QED
  BY <1>0, <1>1, <1>3, <1>4, <1>5, <1>6, AttemptsAreOnes, TaskStepped

LEMMA ExecuteKeepsTypes ==
    ASSUME TypeInv, NEW t \in Attempts, Execute(t)
    PROVE  TypeInv'
<1>. DEFINE r == attempt[t].run
            asks == plans[r][attempt[t].plan].asks
            checkpoint == Found(runtime[r].results)
            found == [q \in Questions |-> IF q \in ToSet(asks) \ checkpoint THEN "asked" ELSE "no"]
            x == [runtime[r] EXCEPT !.plan = attempt[t].plan, !.status = "executing",
                    !.results = <<>>, !.aggregated = FALSE, !.report = 0]
            next == [attempt[t] EXCEPT !.pc = "search", !.todo = asks, !.found = found]
<1>0. Alive(t) /\ attempt[t].pc = "confirm"
  BY TaskIsAlive DEF Execute, At
<1>1. /\ r \in Runs /\ runtime[r] \in RuntimeRecords /\ attempt[t] \in AttemptRecords
      /\ attempt[t].plan \in 1..Len(plans[r]) /\ attempt[t].plan \in Nat
      /\ plans[r] \in Seq(PlanObjects) /\ attempt[t].plan # 0
      /\ attempt[t].plan \in 0..Len(plans[r]) /\ runtime[r].results \in Results
  BY <1>0, TaskIsOne DEF Runtime, AttemptRecords, RuntimeRecords
<1>2. asks \in Asks
  <2>1. plans[r][attempt[t].plan] \in PlanObjects
    BY <1>1
  <2>. QED
    BY <2>1 DEF PlanObjects
<1>3. x \in RuntimeRecords /\ x.plan = attempt[t].plan
  <2>1. <<>> \in Results /\ 0 \in 0..MaxAttempts
    BY ResearchAssumption DEF Results
  <2>. QED
    BY <1>1, <2>1 DEF RuntimeRecords, Statuses
<1>4. found \in [Questions -> {"no", "asked", "sources", "nothing"}]
  OBVIOUS
<1>5. next \in AttemptRecords /\ next.run = r /\ next.plan = attempt[t].plan /\ next.pc = "search"
  BY <1>1, <1>2, <1>4 DEF AttemptRecords, Executing, Searching
<1>6. /\ runtime' = [runtime EXCEPT ![r] = x] /\ UNCHANGED Others
      /\ SetPlan(t, attempt[t].plan, "executing")
  BY DEF Execute, SetRuntime
<1>7. attempt' = [attempt EXCEPT ![t] = next]
  BY DEF Execute, TypeInv, TypeOK
<1>8. search' \in [Runs -> [results : Results, checkpoint : SUBSET Questions]]
  <2>0. <<>> \in Results
    BY DEF Results
  <2>1. checkpoint \in SUBSET Questions
    BY <1>1, FoundAreQuestions
  <2>. HIDE DEF checkpoint
  <2>2. [results |-> <<>>, checkpoint |-> checkpoint] \in [results : Results, checkpoint : SUBSET Questions]
    BY <2>0, <2>1
  <2>. USE DEF checkpoint
  <2>3. search' = [search EXCEPT ![r] = [results |-> <<>>, checkpoint |-> checkpoint]]
    BY DEF Execute
  <2>. QED
    BY <2>2, <2>3 DEF TypeInv, TypeOK
<1>. HIDE DEF x, next
<1>9. /\ plans' \in [Runs -> Seq(PlanObjects)] /\ \A s \in Runs : Len(plans[s]') = Len(plans[s])
  BY <1>1, <1>6, SetPlanKeeps DEF PlanStatuses, TypeInv
<1>10. file' \in [Runs -> FileRecords]
  BY DEF Execute, TypeInv, TypeOK
<1>11. next.plan # 0 /\ next.plan \in 0..Len(plans[r]) /\ x.plan # 0 /\ x.plan \in 0..Len(plans[r])
  BY <1>1, <1>3, <1>5
<1>. QED
  BY <1>0, <1>1, <1>3, <1>5, <1>6, <1>7, <1>8, <1>9, <1>10, <1>11, TaskStepped

LEMMA ReuseKeepsTypes ==
    ASSUME TypeInv, NEW t \in Attempts, Reuse(t)
    PROVE  TypeInv'
<1>. DEFINE r == attempt[t].run
            i == NextCached(t)
            todo == attempt[t].todo
            next == [attempt[t] EXCEPT !.todo = SubSeq(todo, i + 1, Len(todo))]
            more == Append(search[r].results, [q |-> todo[i], got |-> TRUE])
<1>0. Alive(t) /\ attempt[t].pc = "search"
  BY TaskIsAlive DEF Reuse, At, Executing, Searching
<1>1. /\ attempt[t] \in AttemptRecords /\ r \in Runs
      /\ search[r] \in [results : Results, checkpoint : SUBSET Questions]
  BY <1>0, TaskIsOne
<1>2. i \in 1..Len(todo) /\ todo \in Seq(Questions)
  BY CachedIsOne DEF Reuse, Asks, TypeInv
<1>3. todo[i] \in Questions /\ SubSeq(todo, i + 1, Len(todo)) \in Asks
  BY <1>2 DEF Asks
<1>4. more \in Results
  <2>1. [q |-> todo[i], got |-> TRUE] \in [q : Questions, got : BOOLEAN]
    BY <1>3
  <2>. QED
    BY <1>1, <2>1 DEF Results
<1>5. /\ next \in AttemptRecords /\ next.run = attempt[t].run
      /\ next.plan = attempt[t].plan /\ next.pc = "search"
  BY <1>0, <1>1, <1>3 DEF AttemptRecords
<1>6. search' \in [Runs -> [results : Results, checkpoint : SUBSET Questions]]
  <2>1. search' = [search EXCEPT ![r].results = more]
    BY <1>1 DEF Reuse, TypeInv, TypeOK
  <2>. HIDE DEF more
  <2>. QED
    BY <1>1, <1>4, <2>1 DEF TypeInv, TypeOK
<1>7. attempt' = [attempt EXCEPT ![t] = next]
  BY DEF Reuse, TypeInv, TypeOK
<1>8. UNCHANGED <<runtime, plans>> /\ UNCHANGED Others /\ file' \in [Runs -> FileRecords]
  BY DEF Reuse, TypeInv, TypeOK
<1>. HIDE DEF next
<1>. QED
  BY <1>0, <1>5, <1>6, <1>7, <1>8, TaskMoved DEF Executing, Searching

LEMMA EndQuestionKeepsTypes ==
    ASSUME TypeInv, NEW t \in Attempts, NEW q \in Questions, EndQuestion(t, q)
    PROVE  TypeInv'
<1>0. Alive(t) /\ attempt[t].pc = "search" /\ attempt[t] \in AttemptRecords
  BY TaskIsAlive, TaskIsOne DEF EndQuestion, At, Executing, Searching
<1>1. PICK outcome \in {"sources", "nothing"} :
         attempt' = [attempt EXCEPT ![t].found[q] = outcome]
  BY DEF EndQuestion
<1>. DEFINE next == [attempt[t] EXCEPT !.found[q] = outcome]
<1>2. /\ next \in AttemptRecords /\ next.run = attempt[t].run
      /\ next.plan = attempt[t].plan /\ next.pc = "search"
  BY <1>0 DEF AttemptRecords
<1>3. attempt' = [attempt EXCEPT ![t] = next]
  BY <1>1 DEF TypeInv, TypeOK
<1>4. /\ UNCHANGED <<runtime, plans>> /\ UNCHANGED Others /\ file' \in [Runs -> FileRecords]
      /\ search' \in [Runs -> [results : Results, checkpoint : SUBSET Questions]]
  BY DEF EndQuestion, TypeInv, TypeOK
<1>. HIDE DEF next
<1>. QED
  BY <1>0, <1>2, <1>3, <1>4, TaskMoved DEF Executing, Searching

LEMMA GatherKeepsTypes ==
    ASSUME TypeInv, NEW t \in Attempts, Gather(t)
    PROVE  TypeInv'
<1>. DEFINE r == attempt[t].run
            questions == {q \in Questions : attempt[t].found[q] # "no"}
            searched == SetToSeq(questions)
            new == [i \in DOMAIN searched |->
                      [q |-> searched[i], got |-> attempt[t].found[searched[i]] = "sources"]]
            next == [attempt[t] EXCEPT !.pc = "aggregate"]
<1>0. Alive(t) /\ attempt[t].pc = "search"
  BY TaskIsAlive DEF Gather, At, Executing, Searching
<1>1. /\ attempt[t] \in AttemptRecords /\ r \in Runs
      /\ search[r] \in [results : Results, checkpoint : SUBSET Questions]
  BY <1>0, TaskIsOne
<1>2. searched \in Seq(Questions)
  <2>1. questions \subseteq Questions /\ IsFiniteSet(questions)
    BY ResearchAssumption, FS_Subset
  <2>. HIDE DEF questions
  <2>2. SetToSeq(questions) \in Seq(questions)
    BY <2>1, SetToSeqIsOne
  <2>. QED
    BY <2>1, <2>2
<1>. HIDE DEF searched
<1>3. new \in Results
  <2>1. /\ Len(searched) \in Nat /\ DOMAIN searched = 1..Len(searched)
        /\ \A i \in DOMAIN searched : searched[i] \in Questions
    BY <1>2
  <2>2. new \in [1..Len(searched) -> [q : Questions, got : BOOLEAN]]
    BY <2>1
  <2>. QED
    BY <2>1, <2>2, SeqDef DEF Results
<1>4. search' = [search EXCEPT ![r].results = search[r].results \o new]
  BY <1>1 DEF Gather, searched, TypeInv, TypeOK
<1>. HIDE DEF new
<1>5. search[r].results \o new \in Results
  BY <1>1, <1>3 DEF Results
<1>6. search' \in [Runs -> [results : Results, checkpoint : SUBSET Questions]]
  BY <1>1, <1>4, <1>5 DEF TypeInv, TypeOK
<1>7. /\ next \in AttemptRecords /\ next.run = attempt[t].run
      /\ next.plan = attempt[t].plan /\ next.pc = "aggregate"
  BY <1>1 DEF AttemptRecords, Executing, Searching
<1>8. attempt' = [attempt EXCEPT ![t] = next]
  BY DEF Gather, Goto, TypeInv, TypeOK
<1>9. UNCHANGED <<runtime, plans>> /\ UNCHANGED Others /\ file' \in [Runs -> FileRecords]
  BY DEF Gather, TypeInv, TypeOK
<1>. HIDE DEF next
<1>. QED
  BY <1>0, <1>6, <1>7, <1>8, <1>9, TaskMoved DEF Executing, Searching

LEMMA CapKeepsTypes ==
    ASSUME TypeInv, NEW t \in Attempts, Cap(t)
    PROVE  TypeInv'
<1>. DEFINE next == [attempt[t] EXCEPT !.pc = "aggregate", !.capped = TRUE]
<1>0. Alive(t) /\ attempt[t].pc = "search" /\ attempt[t] \in AttemptRecords
  BY TaskIsAlive, TaskIsOne DEF Cap, At, Executing, Searching
<1>1. /\ next \in AttemptRecords /\ next.run = attempt[t].run
      /\ next.plan = attempt[t].plan /\ next.pc = "aggregate"
  BY <1>0 DEF AttemptRecords, Executing, Searching
<1>2. attempt' = [attempt EXCEPT ![t] = next]
  BY DEF Cap, TypeInv, TypeOK
<1>3. /\ UNCHANGED <<runtime, plans>> /\ UNCHANGED Others /\ file' \in [Runs -> FileRecords]
      /\ search' \in [Runs -> [results : Results, checkpoint : SUBSET Questions]]
  BY DEF Cap, TypeInv, TypeOK
<1>. HIDE DEF next
<1>. QED
  BY <1>0, <1>1, <1>2, <1>3, TaskMoved DEF Executing, Searching

\* An attempt goes on with its report, and its run has another runtime object.
LEMMA TaskReports ==
    ASSUME TypeInv, NEW t \in Attempts, attempt[t].pc \in Executing,
           NEW next \in AttemptRecords, attempt' = [attempt EXCEPT ![t] = next],
           next.run = attempt[t].run, next.plan = attempt[t].plan \/ next.pc = "closing",
           next.pc = "closing" => next.plan = 0, next.pc \in {"closing"} \cup Executing,
           NEW x \in RuntimeRecords, SetRuntime(t, x), x.plan = Runtime(t).plan,
           plans' = plans \/ \E st \in PlanStatuses : SetPlan(t, Runtime(t).plan, st),
           UNCHANGED <<search, file>>, UNCHANGED Others
    PROVE  TypeInv'
<1>. DEFINE r == attempt[t].run
<1>0. Alive(t)
  BY TaskIsAlive
<1>1. /\ r \in Runs /\ Runtime(t).plan \in 0..Len(plans[r]) /\ Runtime(t).plan # 0
      /\ attempt[t].plan \in 0..Len(plans[r]) /\ attempt[t].plan # 0
      /\ plans[r] \in Seq(PlanObjects)
  BY <1>0, TaskIsOne
<1>2. Runtime(t).plan \in 1..Len(plans[r]) /\ 0 \in 0..Len(plans[r])
  BY <1>1
<1>3. runtime' = [runtime EXCEPT ![r] = x]
  BY DEF SetRuntime
<1>4. /\ plans' \in [Runs -> Seq(PlanObjects)] /\ \A s \in Runs : Len(plans[s]') = Len(plans[s])
  <2>1. CASE plans' = plans
    BY <2>1 DEF TypeInv, TypeOK
  <2>2. ASSUME NEW st \in PlanStatuses, SetPlan(t, Runtime(t).plan, st)
        PROVE  /\ plans' \in [Runs -> Seq(PlanObjects)]
               /\ \A s \in Runs : Len(plans[s]') = Len(plans[s])
    BY <1>1, <1>2, <2>2, SetPlanKeeps DEF TypeInv
  <2>. QED
    BY <2>1, <2>2
<1>5. /\ search' \in [Runs -> [results : Results, checkpoint : SUBSET Questions]]
      /\ file' \in [Runs -> FileRecords]
  BY DEF TypeInv, TypeOK
<1>6. /\ next.plan \in 0..Len(plans[r])
      /\ next.pc \in {"confirm"} \cup Executing => next.plan # 0
  BY <1>1, <1>2 DEF Executing, Searching
<1>7. x.plan \in 0..Len(plans[r]) /\ x.plan # 0
  BY <1>1
<1>. QED
  BY <1>0, <1>1, <1>3, <1>4, <1>5, <1>6, <1>7, TaskStepped

LEMMA WoundIsOne ==
    ASSUME TypeInv, NEW t \in Attempts, Wind(t), Alive(t)
    PROVE  \E next \in AttemptRecords :
              /\ attempt' = [attempt EXCEPT ![t] = next]
              /\ next.run = attempt[t].run /\ next.pc = "closing" /\ next.plan = 0
              /\ next.doomed = FALSE /\ next.known = {}
<1>. DEFINE next == [Ended EXCEPT !.run = attempt[t].run, !.pc = "closing"]
<1>1. attempt[t].run \in Runs
  BY TaskIsOne
<1>2. Ended.plan = 0
  BY DEF Ended, Idle, NewAttempt
<1>3. /\ next \in AttemptRecords /\ next.run = attempt[t].run /\ next.pc = "closing"
      /\ next.plan = 0 /\ next.doomed = FALSE /\ next.known = {}
  BY <1>1, <1>2, AttemptsAreOnes DEF AttemptRecords
<1>. QED
  BY <1>3 DEF Wind

LEMMA CancelledKeepsTypes ==
    ASSUME TypeInv, NEW t \in Attempts, attempt[t].pc \in Executing,
           NEW x \in RuntimeRecords, x.plan = Runtime(t).plan,
           NEW st \in {"cancelled", "failed"},
           SetPlan(t, x.plan, "failed"), SetRuntime(t, [x EXCEPT !.status = st]), Wind(t),
           UNCHANGED <<search, file>>, UNCHANGED Others
    PROVE  TypeInv'
<1>1. PICK next \in AttemptRecords :
              /\ attempt' = [attempt EXCEPT ![t] = next]
              /\ next.run = attempt[t].run /\ next.pc = "closing" /\ next.plan = 0
  BY WoundIsOne, TaskIsAlive
<1>. DEFINE y == [x EXCEPT !.status = st]
<1>2. y \in RuntimeRecords /\ y.plan = x.plan
  BY DEF RuntimeRecords, Statuses
<1>. HIDE DEF y
<1>3. SetRuntime(t, y)
  BY DEF y
<1>4. "failed" \in PlanStatuses
  BY DEF PlanStatuses
<1>. QED
  BY <1>1, <1>2, <1>3, <1>4, TaskReports

LEMMA EndSearchKeepsTypes ==
    ASSUME TypeInv, NEW t \in Attempts, EndSearch(t)
    PROVE  TypeInv'
<1>. DEFINE x == [Runtime(t) EXCEPT !.results = search[attempt[t].run].results, !.aggregated = TRUE]
<1>0. attempt[t].pc = "aggregate" /\ attempt[t].pc \in Executing
  BY DEF EndSearch, At, Executing, Searching
<1>1. /\ attempt[t] \in AttemptRecords /\ Runtime(t) \in RuntimeRecords
      /\ search[attempt[t].run] \in [results : Results, checkpoint : SUBSET Questions]
  BY <1>0, TaskIsOne, TaskIsAlive
<1>2. x \in RuntimeRecords /\ x.plan = Runtime(t).plan
  BY <1>1 DEF RuntimeRecords
<1>3. CASE x.cancelled /\ Cancelled(t, x)
  <2>1. /\ SetPlan(t, x.plan, "failed") /\ SetRuntime(t, [x EXCEPT !.status = "cancelled"])
        /\ Wind(t)
    BY <1>3 DEF Cancelled
  <2>2. UNCHANGED <<search, file>> /\ UNCHANGED Others
    BY DEF EndSearch
  <2>. HIDE DEF x
  <2>. QED
    BY <1>0, <1>2, <2>1, <2>2, CancelledKeepsTypes
<1>4. CASE ~(x.cancelled /\ Cancelled(t, x))
  <2>. DEFINE y == [x EXCEPT !.status = "generating"]
              next == [attempt[t] EXCEPT !.pc = "announce", !.known = {}, !.found = Idle.found]
  <2>1. Idle.found \in [Questions -> {"no", "asked", "sources", "nothing"}]
    BY AttemptsAreOnes DEF AttemptRecords
  <2>2. /\ next \in AttemptRecords /\ next.run = attempt[t].run
        /\ next.plan = attempt[t].plan /\ next.pc = "announce"
    BY <1>1, <2>1 DEF AttemptRecords, Executing, Searching
  <2>3. /\ SetRuntime(t, y) /\ plans' = plans
        /\ UNCHANGED <<search, file>> /\ UNCHANGED Others
    BY <1>4 DEF EndSearch
  <2>4. attempt' = [attempt EXCEPT ![t] = next]
    BY <1>4 DEF EndSearch, TypeInv, TypeOK
  <2>. HIDE DEF next, x
  <2>5. y \in RuntimeRecords /\ y.plan = x.plan
    BY <1>2 DEF RuntimeRecords, Statuses
  <2>. HIDE DEF y
  <2>6. next.pc \in Executing
    BY <2>2 DEF Executing
  <2>. QED
    BY <1>0, <1>2, <2>2, <2>3, <2>4, <2>5, <2>6, TaskReports
<1>. QED
  BY <1>3, <1>4

LEMMA ReportKeepsTypes ==
    ASSUME TypeInv, NEW t \in Attempts, BeginReport(t) \/ EndReport(t) \/ Complete(t)
    PROVE  TypeInv'
<1>0. attempt[t].pc \in Executing
  BY DEF BeginReport, EndReport, Complete, At, Executing
<1>1. attempt[t] \in AttemptRecords /\ Runtime(t) \in RuntimeRecords
  BY <1>0, TaskIsOne, TaskIsAlive
<1>2. PICK pc \in {"report", "reported", "complete"} : Goto(t, pc)
  BY DEF BeginReport, EndReport, Complete
<1>. DEFINE next == [attempt[t] EXCEPT !.pc = pc]
<1>3. /\ next \in AttemptRecords /\ next.run = attempt[t].run
      /\ next.plan = attempt[t].plan /\ next.pc \in Executing /\ next.pc # "closing"
  BY <1>1 DEF AttemptRecords, Executing, Searching
<1>4. attempt' = [attempt EXCEPT ![t] = next]
  BY <1>2 DEF Goto, TypeInv, TypeOK
<1>5. UNCHANGED <<search, file>> /\ UNCHANGED Others
  BY DEF BeginReport, EndReport, Complete
<1>. HIDE DEF next
<1>6. CASE BeginReport(t)
  <2>1. SetRuntime(t, Runtime(t)) /\ plans' = plans
    BY <1>6 DEF BeginReport, SetRuntime, Runtime, TypeInv, TypeOK
  <2>. QED
    BY <1>0, <1>1, <1>3, <1>4, <1>5, <2>1, TaskReports
<1>7. CASE EndReport(t)
  <2>. DEFINE y == [Runtime(t) EXCEPT !.report = t]
  <2>1. y \in RuntimeRecords /\ y.plan = Runtime(t).plan
    BY <1>1, ResearchAssumption DEF RuntimeRecords, Attempts
  <2>2. SetRuntime(t, y) /\ plans' = plans
    BY <1>7 DEF EndReport
  <2>. HIDE DEF y
  <2>. QED
    BY <1>0, <1>3, <1>4, <1>5, <2>1, <2>2, TaskReports
<1>8. CASE Complete(t)
  <2>. DEFINE y == [Runtime(t) EXCEPT !.status = "completed"]
  <2>1. y \in RuntimeRecords /\ y.plan = Runtime(t).plan
    BY <1>1 DEF RuntimeRecords, Statuses
  <2>2. SetRuntime(t, y) /\ SetPlan(t, Runtime(t).plan, "completed")
    BY <1>8 DEF Complete
  <2>. HIDE DEF y
  <2>3. "completed" \in PlanStatuses
    BY DEF PlanStatuses
  <2>. QED
    BY <1>0, <1>3, <1>4, <1>5, <2>1, <2>2, <2>3, TaskReports
<1>. QED
  BY <1>6, <1>7, <1>8

LEMMA EndsKeepTypes ==
    ASSUME TypeInv, NEW t \in Attempts, Stop(t) \/ Fail(t) \/ Close(t) \/ Unconfirmed(t)
    PROVE  TypeInv'
<1>1. CASE Stop(t) \/ Fail(t)
  <2>1. attempt[t].pc \in Executing
    BY <1>1 DEF Stop, Fail
  <2>2. Runtime(t) \in RuntimeRecords
    BY <2>1, TaskIsOne, TaskIsAlive
  <2>3. PICK st \in {"cancelled", "failed"} :
           /\ SetPlan(t, Runtime(t).plan, "failed")
           /\ SetRuntime(t, [Runtime(t) EXCEPT !.status = st]) /\ Wind(t)
    BY <1>1 DEF Stop, Fail, Cancelled
  <2>4. UNCHANGED <<search, file>> /\ UNCHANGED Others
    BY <1>1 DEF Stop, Fail
  <2>. QED
    BY <2>1, <2>2, <2>3, <2>4, CancelledKeepsTypes
<1>2. CASE Close(t) \/ Unconfirmed(t)
  <2>1. Alive(t)
    BY <1>2, TaskIsAlive DEF Close, Unconfirmed, At, Executing
  <2>2. /\ End(t) /\ UNCHANGED <<runtime, plans, search>> /\ UNCHANGED Others
    BY <1>2 DEF Close, Unconfirmed
  <2>3. file' \in [Runs -> FileRecords]
    <3>1. Saved(Runtime(t), plans[attempt[t].run]) \in FileRecords
      BY <2>1, TaskIsOne, SavedIsOne
    <3>2. file' = file \/ file' = [file EXCEPT ![attempt[t].run] =
                                     Saved(Runtime(t), plans[attempt[t].run])]
      BY <1>2 DEF Close, Unconfirmed, Save
    <3>. QED
      BY <3>1, <3>2 DEF TypeInv, TypeOK
  <2>. QED
    BY <2>1, <2>2, <2>3, EndedMoves
<1>. QED
  BY <1>1, <1>2

LEMMA TypeNext == TypeInv /\ [Next]_vars => TypeInv'
<1>. SUFFICES ASSUME TypeInv, [Next]_vars PROVE TypeInv'
  OBVIOUS
<1>1. ASSUME NEW r \in Runs, NEW key \in Keys \cup {NoKey}, Create(r, key) PROVE TypeInv'
  BY <1>1, CreateKeepsTypes
<1>2. ASSUME NEW r \in Runs, PlanReady(r) \/ PlanFails(r) PROVE TypeInv'
  BY <1>2, PlanningKeepsTypes
<1>3. ASSUME NEW r \in Runs, Edit(r) \/ EditRefused(r) PROVE TypeInv'
  BY <1>3, EditKeepsTypes, EditRefusedKeepsTypes
<1>4. ASSUME NEW r \in Runs, NEW t \in Attempts, Start(r, t) PROVE TypeInv'
  BY <1>4, StartKeepsTypes
<1>5. ASSUME NEW r \in Runs, Cancel(r) \/ CancelTask(r) \/ Delete(r) PROVE TypeInv'
  BY <1>5, CancelKeepsTypes, CancelTaskKeepsTypes, DeleteKeepsTypes
<1>6. ASSUME NEW t \in Attempts, Attempt(t) PROVE TypeInv'
  <2>1. ASSUME NEW q \in Questions, EndQuestion(t, q) PROVE TypeInv'
    BY <2>1, EndQuestionKeepsTypes
  <2>. QED
    BY <1>6, <2>1, BeginKeepsTypes, RefuseKeepsTypes, ExecuteKeepsTypes, ReuseKeepsTypes,
       GatherKeepsTypes, CapKeepsTypes, EndSearchKeepsTypes, ReportKeepsTypes, EndsKeepTypes
       DEF Attempt
<1>7. CASE Crash
  BY <1>7, CrashKeepsTypes
<1>8. CASE UNCHANGED vars
  BY <1>8 DEF vars, TypeInv, TypeOK, Placed, Alive
<1>. QED
  BY <1>1, <1>2, <1>3, <1>4, <1>5, <1>6, <1>7, <1>8 DEF Next

\* Whatever requests, attempts and crashes come after each other, the lists,
\* plans and records stay what the code keeps, and a current plan is there.
THEOREM TypeInvariant == Spec => []TypeOK
<1>. QED
  BY TypeInit, TypeNext, PTL DEF Spec, TypeInv

-----------------------------------------------------------------------------
(* What a step of a task may do to its run and to itself.  Before: a search  *)
(* that is cancelled in time; After: too late for it.  Works: the places an  *)
(* attempt occupies its run in.  Waits: those before its reset.              *)

Before == {"created", "confirm"} \cup Searching
After  == {"announce", "report", "reported", "complete"}
Works  == Executing \ {"complete"}
Waits  == {"created", "confirm"}
Busy   == {"executing", "generating"}

Steps(t, next, x) ==
    LET now == attempt[t]
        was == Runtime(t)
    IN /\ x.cancelled = was.cancelled /\ x.key = was.key
       /\ next.pc \notin {"idle", "done"} => next.run = now.run
       /\ next.doomed => now.doomed
       /\ next.pc \in Before => now.pc \in Before
       /\ next.pc \in After => now.pc \in After \/ (now.pc \in Before /\ ~was.cancelled)
       /\ \/ next.pc \in Works
          \/ x.status \notin Busy
          \/ x.status = was.status /\ now.pc \notin Works
       /\ next.pc \notin {"idle", "done", "closing"} =>
             now.pc \notin {"idle", "done", "closing"} /\ next.alone = now.alone
       /\ next.pc \in Waits => now.pc \in Waits /\ x.results = was.results
                                /\ next.known = now.known /\ next.found = now.found
       /\ next.known = {} \/
             /\ next.known = now.known /\ next.alone = now.alone
             /\ \A q \in Questions :
                   now.found[q] = "no" /\ (now.pc = "confirm" => q \in Found(was.results))
                     => next.found[q] = "no"

TaskStep(t) ==
    /\ Alive(t) /\ attempt[t].run \in Runs /\ UNCHANGED Others
    /\ \A u \in Attempts \ {t} : attempt'[u] = attempt[u]
    /\ \A s \in Runs \ {attempt[t].run} : runtime'[s] = runtime[s]
    /\ Steps(t, attempt'[t], runtime'[attempt[t].run])

LEMMA TaskStepMade ==
    ASSUME TypeInv, NEW t \in Attempts, Alive(t), UNCHANGED Others,
           NEW next, attempt' = [attempt EXCEPT ![t] = next],
           NEW x, runtime' = [runtime EXCEPT ![attempt[t].run] = x] \/ (runtime' = runtime /\ x = Runtime(t)),
           Steps(t, next, x)
    PROVE  TaskStep(t)
<1>1. attempt[t].run \in Runs
  BY TaskIsOne
<1>2. attempt'[t] = next /\ \A u \in Attempts \ {t} : attempt'[u] = attempt[u]
  BY DEF TypeInv, TypeOK
<1>3. runtime'[attempt[t].run] = x /\ \A s \in Runs \ {attempt[t].run} : runtime'[s] = runtime[s]
  BY <1>1 DEF TypeInv, TypeOK, Runtime
<1>. QED
  BY <1>1, <1>2, <1>3 DEF TaskStep

\* A task that only moves on, or ends.
LEMMA MovedSteps ==
    ASSUME NEW t \in Attempts, NEW next,
           \/ next.pc = attempt[t].pc
           \/ attempt[t].pc = "created" /\ next.pc = "confirm"
           \/ attempt[t].pc = "search" /\ next.pc = "aggregate"
           \/ attempt[t].pc \in After /\ next.pc \in After \ {"complete"},
           next.run = attempt[t].run, next.doomed = attempt[t].doomed, next.alone = attempt[t].alone,
           next.known = attempt[t].known, attempt[t].pc \notin {"idle", "done", "closing"},
           \A q \in Questions : attempt[t].found[q] = "no" => next.found[q] = "no",
           next.pc \in Waits => next.found = attempt[t].found
    PROVE  Steps(t, next, Runtime(t))
BY DEF Steps, Before, After, Works, Waits, Executing, Searching

LEMMA EndedSteps ==
    ASSUME NEW t \in Attempts, NEW x, attempt[t].pc \notin Works,
           x.cancelled = Runtime(t).cancelled, x.key = Runtime(t).key,
           x.status = Runtime(t).status \/ x.status \notin Busy
    PROVE  Steps(t, Ended, x)
BY AttemptsAreOnes DEF Steps, Before, After, Works, Waits, Executing, Searching

\* A task that is wound up.
LEMMA WoundSteps ==
    ASSUME NEW t \in Attempts, NEW next, next.pc = "closing", next.run = attempt[t].run,
           next.doomed = FALSE, next.known = {},
           NEW x, x.cancelled = Runtime(t).cancelled, x.key = Runtime(t).key, x.status \notin Busy
    PROVE  Steps(t, next, x)
BY DEF Steps, Before, After, Works, Waits, Executing, Searching

LEMMA SearchStepsAreSteps ==
    ASSUME TypeInv, NEW t \in Attempts,
           \/ Begin(t) \/ Unconfirmed(t) \/ Reuse(t) \/ (\E q \in Questions : EndQuestion(t, q))
           \/ Gather(t) \/ Cap(t) \/ BeginReport(t) \/ Close(t)
    PROVE  TaskStep(t)
<1>1. attempt[t].pc \in {"created", "confirm", "closing"} \cup Executing
  BY DEF Begin, Unconfirmed, Reuse, EndQuestion, Gather, Cap, BeginReport, Close, At,
         Executing, Searching
<1>2. Alive(t) /\ attempt[t] \in AttemptRecords
  BY <1>1, TaskIsAlive, TaskIsOne
<1>3. runtime' = runtime /\ UNCHANGED Others
  BY DEF Begin, Unconfirmed, Reuse, EndQuestion, Gather, Cap, BeginReport, Close
<1>4. CASE End(t) /\ attempt[t].pc \notin Works
  <2>1. attempt' = [attempt EXCEPT ![t] = Ended] /\ Steps(t, Ended, Runtime(t))
    BY <1>4, EndedSteps DEF End
  <2>. QED
    BY <1>2, <1>3, <2>1, TaskStepMade
<1>5. ASSUME NEW next, attempt' = [attempt EXCEPT ![t] = next],
             \/ next.pc = attempt[t].pc
             \/ attempt[t].pc = "created" /\ next.pc = "confirm"
             \/ attempt[t].pc = "search" /\ next.pc = "aggregate"
             \/ attempt[t].pc \in After /\ next.pc \in After \ {"complete"},
             next.run = attempt[t].run, next.doomed = attempt[t].doomed,
             next.alone = attempt[t].alone, next.known = attempt[t].known,
             attempt[t].pc # "closing",
             \A q \in Questions : attempt[t].found[q] = "no" => next.found[q] = "no",
             next.pc \in Waits => next.found = attempt[t].found
      PROVE  TaskStep(t)
  <2>1. Steps(t, next, Runtime(t))
    BY <1>1, <1>5, MovedSteps DEF Executing, Searching
  <2>. QED
    BY <1>2, <1>3, <1>5, <2>1, TaskStepMade
<1>6. attempt = [attempt EXCEPT ![t] = attempt[t]]
  BY DEF TypeInv, TypeOK
<1>7. CASE Begin(t) \/ Unconfirmed(t) \/ Close(t)
  <2>1. CASE End(t)
    BY <1>4, <1>7, <2>1 DEF Begin, Unconfirmed, Close, At, Works, Executing, Searching
  <2>2. CASE ~End(t)
    <3>. DEFINE next == [attempt[t] EXCEPT !.pc = "confirm", !.plan = Runtime(t).plan]
    <3>1. attempt[t].pc = "created" /\ attempt' = [attempt EXCEPT ![t] = next]
      BY <1>7, <2>2 DEF Begin, Unconfirmed, Close, TypeInv, TypeOK
    <3>2. /\ next.pc = "confirm" /\ next.run = attempt[t].run /\ next.doomed = attempt[t].doomed
          /\ next.alone = attempt[t].alone /\ next.known = attempt[t].known
          /\ next.found = attempt[t].found
      BY <1>2 DEF AttemptRecords
    <3>. HIDE DEF next
    <3>. QED
      BY <1>5, <3>1, <3>2
  <2>. QED
    BY <2>1, <2>2
<1>8. CASE Reuse(t)
  <2>. DEFINE r == attempt[t].run
              i == NextCached(t)
              next == [attempt[t] EXCEPT !.todo = SubSeq(@, i + 1, Len(@))]
  <2>1. attempt[t].pc = "search" /\ attempt' = [attempt EXCEPT ![t] = next]
    BY <1>8 DEF Reuse, At, TypeInv, TypeOK
  <2>2. /\ next.pc = attempt[t].pc /\ next.run = attempt[t].run /\ next.doomed = attempt[t].doomed
        /\ next.alone = attempt[t].alone /\ next.known = attempt[t].known
        /\ next.found = attempt[t].found
    BY <1>2 DEF AttemptRecords
  <2>. HIDE DEF next
  <2>. QED
    BY <1>5, <2>1, <2>2
<1>9. ASSUME NEW q \in Questions, EndQuestion(t, q) PROVE TaskStep(t)
  <2>1. PICK outcome \in {"sources", "nothing"} :
           attempt' = [attempt EXCEPT ![t].found[q] = outcome]
    BY <1>9 DEF EndQuestion
  <2>. DEFINE next == [attempt[t] EXCEPT !.found[q] = outcome]
  <2>2. attempt[t].pc = "search" /\ attempt[t].found[q] = "asked"
    BY <1>9 DEF EndQuestion, At
  <2>3. attempt' = [attempt EXCEPT ![t] = next]
    BY <2>1 DEF TypeInv, TypeOK
  <2>4. /\ next.pc = attempt[t].pc /\ next.run = attempt[t].run /\ next.doomed = attempt[t].doomed
        /\ next.alone = attempt[t].alone /\ next.known = attempt[t].known
        /\ \A p \in Questions : attempt[t].found[p] = "no" => next.found[p] = "no"
    BY <1>2, <2>2 DEF AttemptRecords
  <2>. HIDE DEF next
  <2>. QED
    BY <1>5, <2>2, <2>3, <2>4 DEF Waits
<1>10. CASE Gather(t) \/ Cap(t)
  <2>. DEFINE pick == [attempt[t] EXCEPT !.pc = "aggregate"]
              cut  == [attempt[t] EXCEPT !.pc = "aggregate", !.capped = TRUE]
  <2>1. attempt[t].pc = "search"
    BY <1>10 DEF Gather, Cap, At
  <2>2. attempt' = [attempt EXCEPT ![t] = pick] \/ attempt' = [attempt EXCEPT ![t] = cut]
    BY <1>10 DEF Gather, Goto, Cap, TypeInv, TypeOK
  <2>3. \A next \in {pick, cut} :
           /\ next.pc = "aggregate" /\ next.run = attempt[t].run /\ next.doomed = attempt[t].doomed
           /\ next.alone = attempt[t].alone /\ next.known = attempt[t].known
           /\ next.found = attempt[t].found
    BY <1>2 DEF AttemptRecords
  <2>. HIDE DEF pick, cut
  <2>. QED
    BY <1>5, <2>1, <2>2, <2>3
<1>11. CASE BeginReport(t)
  <2>. DEFINE next == [attempt[t] EXCEPT !.pc = "report"]
  <2>1. attempt[t].pc = "announce" /\ attempt' = [attempt EXCEPT ![t] = next]
    BY <1>11 DEF BeginReport, Goto, At, TypeInv, TypeOK
  <2>2. /\ next.pc = "report" /\ next.run = attempt[t].run /\ next.doomed = attempt[t].doomed
        /\ next.alone = attempt[t].alone /\ next.known = attempt[t].known
        /\ next.found = attempt[t].found
    BY <1>2 DEF AttemptRecords
  <2>. HIDE DEF next
  <2>. QED
    BY <1>5, <2>1, <2>2 DEF After
<1>. QED
  BY <1>7, <1>8, <1>9, <1>10, <1>11

LEMMA RunStepsAreSteps ==
    ASSUME TypeInv, NEW t \in Attempts,
           \/ Refuse(t) \/ Execute(t) \/ EndSearch(t) \/ EndReport(t) \/ Complete(t)
           \/ Stop(t) \/ Fail(t)
    PROVE  TaskStep(t)
<1>. DEFINE was == Runtime(t)
            now == attempt[t]
<1>1. now.pc \in {"confirm"} \cup Executing
  BY DEF Refuse, Execute, EndSearch, EndReport, Complete, Stop, Fail, At, Executing, Searching
<1>2. /\ Alive(t) /\ now \in AttemptRecords /\ was \in RuntimeRecords /\ now.run \in Runs
      /\ search[now.run].results \in Results
  BY <1>1, TaskIsAlive, TaskIsOne
<1>3. UNCHANGED Others
  BY DEF Refuse, Execute, EndSearch, EndReport, Complete, Stop, Fail
<1>4. ASSUME NEW next, attempt' = [attempt EXCEPT ![t] = next], NEW x, SetRuntime(t, x),
             Steps(t, next, x)
      PROVE  TaskStep(t)
  BY <1>2, <1>3, <1>4, TaskStepMade DEF SetRuntime
<1>5. ASSUME NEW x \in RuntimeRecords, x.cancelled = was.cancelled, x.key = was.key,
             NEW st \in {"cancelled", "failed"},
             SetRuntime(t, [x EXCEPT !.status = st]), Wind(t)
      PROVE  TaskStep(t)
  <2>. DEFINE y == [x EXCEPT !.status = st]
  <2>1. y.cancelled = was.cancelled /\ y.key = was.key /\ y.status \notin Busy
    BY <1>5 DEF RuntimeRecords, Busy
  <2>. HIDE DEF y
  <2>2. SetRuntime(t, y)
    BY <1>5 DEF y
  <2>3. PICK next \in AttemptRecords :
              /\ attempt' = [attempt EXCEPT ![t] = next]
              /\ next.run = attempt[t].run /\ next.pc = "closing" /\ next.plan = 0
              /\ next.doomed = FALSE /\ next.known = {}
    BY <1>2, <1>5, WoundIsOne
  <2>. QED
    BY <1>4, <2>1, <2>2, <2>3, WoundSteps
<1>6. CASE Refuse(t)
  <2>. DEFINE x == [was EXCEPT !.plan = now.plan, !.status = "plan_ready"]
  <2>1. /\ now.pc = "confirm" /\ attempt' = [attempt EXCEPT ![t] = Ended] /\ SetRuntime(t, x)
    BY <1>6 DEF Refuse, At, End
  <2>2. x.cancelled = was.cancelled /\ x.key = was.key /\ x.status \notin Busy
    BY <1>2 DEF RuntimeRecords, Busy
  <2>3. now.pc \notin Works
    BY <2>1 DEF Works, Executing, Searching
  <2>. HIDE DEF x
  <2>. QED
    BY <1>4, <2>1, <2>2, <2>3, EndedSteps
<1>7. CASE Execute(t)
  <2>. DEFINE checkpoint == Found(was.results)
              asks == plans[now.run][now.plan].asks
              found == [q \in Questions |-> IF q \in ToSet(asks) \ checkpoint THEN "asked" ELSE "no"]
              next == [now EXCEPT !.pc = "search", !.todo = asks, !.found = found]
              x == [was EXCEPT !.plan = now.plan, !.status = "executing",
                      !.results = <<>>, !.aggregated = FALSE, !.report = 0]
  <2>1. now.pc = "confirm" /\ SetRuntime(t, x)
    BY <1>7 DEF Execute, At, Runtime
  <2>2. attempt' = [attempt EXCEPT ![t] = next]
    BY <1>7 DEF Execute, Runtime, TypeInv, TypeOK
  <2>3. x.cancelled = was.cancelled /\ x.key = was.key
    BY <1>2 DEF RuntimeRecords
  <2>4. /\ next.pc = "search" /\ next.run = now.run /\ next.doomed = now.doomed
        /\ next.alone = now.alone /\ next.known = now.known /\ next.found = found
    BY <1>2 DEF AttemptRecords
  <2>5. \A q \in Questions : q \in Found(was.results) => found[q] = "no"
    OBVIOUS
  <2>. HIDE DEF x, next, found
  <2>6. Steps(t, next, x)
    BY <2>1, <2>3, <2>4, <2>5 DEF Steps, Before, After, Works, Waits, Executing, Searching
  <2>. QED
    BY <1>4, <2>1, <2>2, <2>6
<1>8. CASE EndSearch(t)
  <2>. DEFINE x == [was EXCEPT !.results = search[now.run].results, !.aggregated = TRUE]
  <2>1. now.pc = "aggregate"
    BY <1>8 DEF EndSearch, At
  <2>2. x \in RuntimeRecords /\ x.cancelled = was.cancelled /\ x.key = was.key
    BY <1>2 DEF RuntimeRecords
  <2>3. CASE x.cancelled /\ Cancelled(t, x)
    <3>1. SetRuntime(t, [x EXCEPT !.status = "cancelled"]) /\ Wind(t)
      BY <2>3 DEF Cancelled
    <3>. HIDE DEF x
    <3>. QED
      BY <1>5, <2>2, <3>1
  <2>4. CASE ~(x.cancelled /\ Cancelled(t, x))
    <3>. DEFINE y == [x EXCEPT !.status = "generating"]
                next == [now EXCEPT !.pc = "announce", !.known = {}, !.found = Idle.found]
    <3>1. ~was.cancelled /\ SetRuntime(t, y)
      BY <1>8, <2>2, <2>4 DEF EndSearch
    <3>2. attempt' = [attempt EXCEPT ![t] = next]
      BY <1>8, <2>4 DEF EndSearch, TypeInv, TypeOK
    <3>3. /\ next.pc = "announce" /\ next.run = now.run /\ next.doomed = now.doomed
          /\ next.alone = now.alone /\ next.known = {}
      BY <1>2 DEF AttemptRecords
    <3>. HIDE DEF next, x
    <3>4. y.cancelled = was.cancelled /\ y.key = was.key
      BY <2>2 DEF RuntimeRecords
    <3>. HIDE DEF y
    <3>5. Steps(t, next, y)
      BY <2>1, <3>1, <3>3, <3>4 DEF Steps, Before, After, Works, Waits, Executing, Searching
    <3>. QED
      BY <1>4, <3>1, <3>2, <3>5
  <2>. QED
    BY <2>3, <2>4
<1>9. CASE EndReport(t)
  <2>. DEFINE x == [was EXCEPT !.report = t]
              next == [now EXCEPT !.pc = "reported"]
  <2>1. now.pc = "report" /\ SetRuntime(t, x) /\ attempt' = [attempt EXCEPT ![t] = next]
    BY <1>9 DEF EndReport, At, Goto, TypeInv, TypeOK
  <2>2. x.cancelled = was.cancelled /\ x.key = was.key
    BY <1>2 DEF RuntimeRecords
  <2>3. /\ next.pc = "reported" /\ next.run = now.run /\ next.doomed = now.doomed
        /\ next.alone = now.alone /\ next.known = now.known /\ next.found = now.found
    BY <1>2 DEF AttemptRecords
  <2>. HIDE DEF x, next
  <2>4. Steps(t, next, x)
    BY <2>1, <2>2, <2>3 DEF Steps, Before, After, Works, Waits, Executing, Searching
  <2>. QED
    BY <1>4, <2>1, <2>4
<1>10. CASE Complete(t)
  <2>. DEFINE x == [was EXCEPT !.status = "completed"]
              next == [now EXCEPT !.pc = "complete"]
  <2>1. now.pc = "reported" /\ SetRuntime(t, x) /\ attempt' = [attempt EXCEPT ![t] = next]
    BY <1>10 DEF Complete, At, Goto, TypeInv, TypeOK
  <2>2. x.cancelled = was.cancelled /\ x.key = was.key /\ x.status \notin Busy
    BY <1>2 DEF RuntimeRecords, Busy
  <2>3. /\ next.pc = "complete" /\ next.run = now.run /\ next.doomed = now.doomed
        /\ next.alone = now.alone /\ next.known = now.known /\ next.found = now.found
    BY <1>2 DEF AttemptRecords
  <2>. HIDE DEF x, next
  <2>4. Steps(t, next, x)
    BY <2>1, <2>2, <2>3 DEF Steps, Before, After, Works, Waits, Executing, Searching
  <2>. QED
    BY <1>4, <2>1, <2>4
<1>11. CASE Stop(t) \/ Fail(t)
  <2>1. PICK st \in {"cancelled", "failed"} :
           SetRuntime(t, [was EXCEPT !.status = st]) /\ Wind(t)
    BY <1>11 DEF Stop, Fail, Cancelled
  <2>. QED
    BY <1>2, <1>5, <2>1
<1>. QED
  BY <1>6, <1>7, <1>8, <1>9, <1>10, <1>11

LEMMA AttemptStep == TypeInv => \A t \in Attempts : Attempt(t) => TaskStep(t)
BY SearchStepsAreSteps, RunStepsAreSteps DEF Attempt

-----------------------------------------------------------------------------
(* What a request of run r may do to the run and to the tasks: it keeps the  *)
(* tasks where they are, or makes one.                                       *)

Kept(t, r) ==
    LET now  == attempt[t]
        next == attempt'[t]
    IN /\ next.run = now.run /\ next.pc = now.pc /\ next.found = now.found
       /\ \/ next.known = now.known /\ next.alone = now.alone
          \/ next.known = {} /\ ~next.alone
       /\ next.doomed => \/ now.doomed
                         \/ now.run = r /\ now.pc \notin After /\ runtime'[r].cancelled

Made(t, r) ==
    LET next == attempt'[t]
    IN /\ attempt[t].pc = "idle" /\ next.pc = "created" /\ next.run = r
       /\ next.doomed = runtime'[r].cancelled
       /\ next.known \subseteq Found(runtime'[r].results)
       /\ \A q \in Questions : next.found[q] = "no"
       /\ \A u \in Attempts \ {t} : Alive(u) /\ attempt[u].run = r =>
             ~next.alone /\ ~attempt'[u].alone

RequestStep(r) ==
    /\ \A t \in Attempts : Kept(t, r) \/ Made(t, r)
    /\ \A t, u \in Attempts : Made(t, r) /\ Made(u, r) => t = u
    /\ \A s \in Runs \ {r} : runtime'[s] = runtime[s] /\ listed'[s] = listed[s]
    /\ listed[r] \in {"live", "gone"} => /\ runtime[r].cancelled => runtime'[r].cancelled
                                         /\ runtime'[r].results = runtime[r].results
    /\ listed'[r] = "live" /\ runtime'[r].status \in Busy =>
          listed[r] = "live" /\ runtime'[r].status = runtime[r].status

\* A request of a run that leaves the tasks alone.
LEMMA KeptTasks ==
    ASSUME TypeInv, NEW r \in Runs, attempt' = attempt,
           NEW x \in RuntimeRecords, runtime' = [runtime EXCEPT ![r] = x],
           NEW l, listed' = [listed EXCEPT ![r] = l],
           listed[r] \in {"live", "gone"} =>
               (runtime[r].cancelled => x.cancelled) /\ x.results = runtime[r].results,
           l = "live" /\ x.status \in Busy => listed[r] = "live" /\ x.status = runtime[r].status
    PROVE  RequestStep(r)
<1>1. runtime'[r] = x /\ listed'[r] = l
  BY DEF TypeInv, TypeOK
<1>2. \A t \in Attempts : attempt'[t] = attempt[t] /\ Kept(t, r) /\ ~Made(t, r)
  BY DEF Kept, Made
<1>3. \A s \in Runs \ {r} : runtime'[s] = runtime[s] /\ listed'[s] = listed[s]
  BY DEF TypeInv, TypeOK
<1>. QED
  BY <1>1, <1>2, <1>3 DEF RequestStep

\* What a request finds in the place of an archived run.
LEMMA LiveIsQuiet ==
    ASSUME TypeInv, NEW r \in Runs, Listed(r)
    PROVE  /\ Live(r) \in RuntimeRecords
           /\ listed[r] \in {"live", "gone"} => Live(r) = runtime[r]
           /\ Live(r).status \in Busy => listed[r] = "live" /\ Live(r) = runtime[r]
<1>1. listed[r] = "archived" => Live(r).status \notin Busy
  BY DEF Live, Rehydrated, NewRuntime, Busy
<1>. QED
  BY <1>1, LiveIsOne DEF Listed, TypeInv

LEMMA PlainRequestSteps ==
    ASSUME TypeInv, NEW r \in Runs,
           \/ \E key \in Keys \cup {NoKey} : Create(r, key)
           \/ PlanReady(r) \/ PlanFails(r) \/ Edit(r) \/ EditRefused(r) \/ Delete(r)
    PROVE  RequestStep(r)
<1>0. runtime \in [Runs -> RuntimeRecords] /\ listed \in [Runs -> {"fresh", "live", "archived", "gone"}]
  BY DEF TypeInv, TypeOK
<1>1. ASSUME NEW key \in Keys \cup {NoKey}, Create(r, key) PROVE RequestStep(r)
  <2>1. NewRuntime(key) \in RuntimeRecords /\ NewRuntime(key).status \notin Busy
    BY NewRuntimeIsOne DEF NewRuntime, Busy
  <2>2. /\ attempt' = attempt /\ runtime' = [runtime EXCEPT ![r] = NewRuntime(key)]
        /\ listed[r] = "fresh" /\ listed' = [listed EXCEPT ![r] = "live"]
    BY <1>1 DEF Create
  <2>. QED
    BY <2>1, <2>2, KeptTasks
<1>2. ASSUME NEW x \in RuntimeRecords, NEW objects, EndPlanning(r, x, objects),
             x.cancelled = runtime[r].cancelled, x.results = runtime[r].results, x.status \notin Busy
      PROVE  RequestStep(r)
  <2>1. /\ attempt' = attempt /\ runtime' = [runtime EXCEPT ![r] = x]
        /\ listed' = [listed EXCEPT ![r] = listed[r]]
    BY <1>0, <1>2 DEF EndPlanning
  <2>. QED
    BY <1>2, <2>1, KeptTasks
<1>3. CASE PlanReady(r)
  <2>. DEFINE x == [runtime[r] EXCEPT !.plan = 1, !.status = "plan_ready"]
  <2>1. /\ x \in RuntimeRecords /\ x.cancelled = runtime[r].cancelled
        /\ x.results = runtime[r].results /\ x.status \notin Busy
    BY <1>0 DEF RuntimeRecords, Statuses, Busy
  <2>2. \E objects : EndPlanning(r, x, objects)
    BY <1>3 DEF PlanReady
  <2>. HIDE DEF x
  <2>. QED
    BY <1>2, <2>1, <2>2
<1>4. CASE PlanFails(r)
  <2>. DEFINE x == [runtime[r] EXCEPT !.status = "failed"]
  <2>1. /\ x \in RuntimeRecords /\ x.cancelled = runtime[r].cancelled
        /\ x.results = runtime[r].results /\ x.status \notin Busy
    BY <1>0 DEF RuntimeRecords, Statuses, Busy
  <2>2. \E objects : EndPlanning(r, x, objects)
    BY <1>4 DEF PlanFails
  <2>. HIDE DEF x
  <2>. QED
    BY <1>2, <2>1, <2>2
<1>5. CASE Edit(r)
  <2>1. PICK n \in Nat : /\ runtime' = [runtime EXCEPT ![r] =
                              [Live(r) EXCEPT !.plan = n, !.status = "plan_ready"]]
                         /\ attempt' = attempt /\ listed' = [listed EXCEPT ![r] = "live"]
                         /\ Listed(r)
    <3>1. PICK asks \in EditedAsks(r), sound \in BOOLEAN :
             LET objects == Append(LivePlans(r), Draft(asks, sound))
             IN runtime' = [runtime EXCEPT ![r] =
                              [Live(r) EXCEPT !.plan = Len(objects), !.status = "plan_ready"]]
      BY <1>5 DEF Edit
    <3>2. Live(r).plan # 0
      BY <1>5 DEF Edit
    <3>3. asks \in Asks /\ LivePlans(r) \in Seq(PlanObjects)
      BY <3>2, EditsAreAsks, LiveIsOne DEF TypeInv
    <3>4. Draft(asks, sound) \in PlanObjects
      BY <3>3, DraftIsOne
    <3>5. Len(Append(LivePlans(r), Draft(asks, sound))) \in Nat
      BY <3>3, <3>4
    <3>. QED
      BY <1>5, <3>1, <3>5 DEF Edit
  <2>. DEFINE x == [Live(r) EXCEPT !.plan = n, !.status = "plan_ready"]
  <2>2. Live(r) \in RuntimeRecords /\ (listed[r] \in {"live", "gone"} => Live(r) = runtime[r])
    BY <2>1, LiveIsQuiet
  <2>3. /\ x \in RuntimeRecords /\ x.cancelled = Live(r).cancelled
        /\ x.results = Live(r).results /\ x.status \notin Busy
    BY <2>2 DEF RuntimeRecords, Statuses, Busy
  <2>4. runtime' = [runtime EXCEPT ![r] = x]
    BY <2>1
  <2>. HIDE DEF x
  <2>. QED
    BY <2>1, <2>2, <2>3, <2>4, KeptTasks
<1>6. CASE EditRefused(r)
  <2>1. /\ Listed(r) /\ attempt' = attempt /\ runtime' = [runtime EXCEPT ![r] = Live(r)]
        /\ listed' = [listed EXCEPT ![r] = "live"]
    BY <1>6 DEF EditRefused, Listed
  <2>. QED
    BY <2>1, LiveIsQuiet, KeptTasks
<1>7. CASE Delete(r)
  <2>1. /\ attempt' = attempt /\ runtime' = [runtime EXCEPT ![r] = runtime[r]]
        /\ listed' = [listed EXCEPT ![r] = "gone"] /\ runtime[r] \in RuntimeRecords
    BY <1>0, <1>7 DEF Delete
  <2>. QED
    BY <2>1, KeptTasks
<1>. QED
  BY <1>1, <1>3, <1>4, <1>5, <1>6, <1>7

LEMMA StartStep ==
    ASSUME TypeInv, NEW r \in Runs, NEW t \in Attempts, Start(r, t)
    PROVE  RequestStep(r)
<1>. DEFINE others == {u \in Attempts : Alive(u) /\ attempt[u].run = r}
            results == IF listed[r] = "archived" THEN file[r].results ELSE runtime[r].results
            new == NewAttempt(r, IF others = {} THEN Found(results) ELSE {},
                              others = {}, Live(r).cancelled)
            marked(u) == [attempt[u] EXCEPT !.alone = FALSE, !.known = {}]
<1>1. /\ Listed(r) /\ attempt[t].pc = "idle"
      /\ listed' = [listed EXCEPT ![r] = "live"] /\ runtime' = [runtime EXCEPT ![r] = Live(r)]
      /\ attempt' = [u \in Attempts |-> IF u = t THEN new ELSE IF u \in others THEN marked(u)
                                        ELSE attempt[u]]
  BY DEF Start
<1>2. /\ runtime'[r] = Live(r) /\ listed'[r] = "live"
      /\ \A s \in Runs \ {r} : runtime'[s] = runtime[s] /\ listed'[s] = listed[s]
  BY <1>1 DEF TypeInv, TypeOK
<1>3. results = Live(r).results
  BY DEF Live, Rehydrated, NewRuntime
<1>4. /\ new.run = r /\ new.pc = "created" /\ new.doomed = Live(r).cancelled
      /\ new.known \subseteq Found(Live(r).results) /\ new.alone = (others = {})
      /\ \A q \in Questions : new.found[q] = "no"
  BY <1>3 DEF NewAttempt
<1>. HIDE DEF new
<1>5. \A u \in Attempts :
         /\ marked(u).run = attempt[u].run /\ marked(u).pc = attempt[u].pc
         /\ marked(u).found = attempt[u].found /\ marked(u).doomed = attempt[u].doomed
         /\ marked(u).known = {} /\ marked(u).alone = FALSE
  BY DEF TypeInv, TypeOK, AttemptRecords
<1>6. \A u \in Attempts \ {t} : attempt'[u] = IF u \in others THEN marked(u) ELSE attempt[u]
  BY <1>1
<1>7. attempt'[t] = new
  BY <1>1
<1>8. \A u \in others : u # t
  BY <1>1 DEF Alive
<1>. HIDE DEF marked
<1>9. Made(t, r)
  BY <1>1, <1>2, <1>4, <1>5, <1>6, <1>7 DEF Made
<1>10. \A u \in Attempts \ {t} : Kept(u, r)
  BY <1>5, <1>6 DEF Kept
<1>11. \A u \in Attempts \ {t} : ~Made(u, r)
  BY <1>5, <1>6 DEF Made
<1>12. /\ listed[r] \in {"live", "gone"} => Live(r) = runtime[r]
       /\ Live(r).status \in Busy => listed[r] = "live" /\ Live(r) = runtime[r]
  BY <1>1, LiveIsQuiet
<1>. QED
  BY <1>2, <1>9, <1>10, <1>11, <1>12 DEF RequestStep

LEMMA CancelStep ==
    ASSUME TypeInv, NEW r \in Runs, Cancel(r)
    PROVE  RequestStep(r)
<1>. DEFINE x == [Live(r) EXCEPT !.cancelled = TRUE, !.status = "cancelled"]
            marks(t) == /\ attempt[t].run = r
                        /\ attempt[t].pc \in {"created", "confirm"} \cup Searching
            marked(t) == [attempt[t] EXCEPT !.doomed = @ \/ marks(t)]
<1>1. /\ Listed(r) /\ listed' = [listed EXCEPT ![r] = "live"]
      /\ runtime' = [runtime EXCEPT ![r] = x] /\ attempt' = [t \in Attempts |-> marked(t)]
  BY DEF Cancel
<1>2. Live(r) \in RuntimeRecords /\ (listed[r] \in {"live", "gone"} => Live(r) = runtime[r])
  BY <1>1, LiveIsQuiet
<1>3. x.cancelled = TRUE /\ x.results = Live(r).results /\ x.status \notin Busy
  BY <1>2 DEF RuntimeRecords, Busy
<1>. HIDE DEF x
<1>4. /\ runtime'[r] = x /\ listed'[r] = "live"
      /\ \A s \in Runs \ {r} : runtime'[s] = runtime[s] /\ listed'[s] = listed[s]
  BY <1>1 DEF TypeInv, TypeOK
<1>5. \A t \in Attempts :
         /\ marked(t).run = attempt[t].run /\ marked(t).pc = attempt[t].pc
         /\ marked(t).found = attempt[t].found /\ marked(t).known = attempt[t].known
         /\ marked(t).alone = attempt[t].alone
         /\ marked(t).doomed => attempt[t].doomed \/ marks(t)
  BY DEF TypeInv, TypeOK, AttemptRecords
<1>6. \A t \in Attempts : marks(t) => attempt[t].run = r /\ attempt[t].pc \notin After
  BY DEF After, Searching
<1>7. \A t \in Attempts : attempt'[t] = marked(t)
  BY <1>1
<1>. HIDE DEF marked, marks
<1>8. \A t \in Attempts : Kept(t, r) /\ ~Made(t, r)
  BY <1>3, <1>4, <1>5, <1>6, <1>7 DEF Kept, Made
<1>. QED
  BY <1>2, <1>3, <1>4, <1>8 DEF RequestStep

LEMMA CancelTaskStep ==
    ASSUME TypeInv, NEW r \in Runs, CancelTask(r)
    PROVE  RequestStep(r)
<1>. DEFINE marked(t) == [attempt[t] EXCEPT !.kill = TRUE]
<1>1. \A t \in Attempts : attempt'[t] = marked(t) \/ attempt'[t] = attempt[t]
  BY DEF CancelTask
<1>2. \A t \in Attempts :
         /\ marked(t).run = attempt[t].run /\ marked(t).pc = attempt[t].pc
         /\ marked(t).found = attempt[t].found /\ marked(t).known = attempt[t].known
         /\ marked(t).alone = attempt[t].alone /\ marked(t).doomed = attempt[t].doomed
  BY DEF TypeInv, TypeOK, AttemptRecords
<1>. HIDE DEF marked
<1>3. \A t \in Attempts : Kept(t, r) /\ ~Made(t, r)
  BY <1>1, <1>2 DEF Kept, Made
<1>. QED
  BY <1>3 DEF CancelTask, RequestStep

Requested(r) ==
    \/ \E key \in Keys \cup {NoKey} : Create(r, key)
    \/ PlanReady(r) \/ PlanFails(r) \/ Edit(r) \/ EditRefused(r)
    \/ \E t \in Attempts : Start(r, t)
    \/ Cancel(r) \/ CancelTask(r) \/ Delete(r)

LEMMA RequestedStep == TypeInv => \A r \in Runs : Requested(r) => RequestStep(r)
BY PlainRequestSteps, StartStep, CancelStep, CancelTaskStep DEF Requested

\* Every step, as the proofs below split it.
LEMMA NextSplit ==
    [Next]_vars <=> \/ \E r \in Runs : Requested(r)
                    \/ \E t \in Attempts : Attempt(t)
                    \/ Crash
                    \/ UNCHANGED vars
BY DEF Next, Requested

\* After a crash no run is live and no task alive.
LEMMA CrashStep ==
    ASSUME TypeInv, Crash
    PROVE  /\ \A r \in Runs : listed'[r] # "live" /\ runtime'[r] = NewRuntime(NoKey)
           /\ \A t \in Attempts : attempt'[t] = Ended \/ (~Alive(t) /\ attempt'[t] = attempt[t])
           /\ \A t \in Attempts : attempt'[t].pc \in {"idle", "done"}
<1>1. /\ \A r \in Runs : listed'[r] # "live" /\ runtime'[r] = NewRuntime(NoKey)
      /\ \A t \in Attempts : attempt'[t] = IF Alive(t) THEN Ended ELSE attempt[t]
  BY DEF Crash
<1>. QED
  BY <1>1, AttemptsAreOnes DEF Alive

-----------------------------------------------------------------------------
(* Cancellation: an attempt that is to stop finds its run cancelled when it  *)
(* looks, after its search.                                                  *)

CancelInv ==
    /\ CancelHonored
    /\ \A t \in Attempts : attempt[t].doomed /\ attempt[t].pc \in Before =>
          runtime[attempt[t].run].cancelled

LEMMA CancelNext == TypeInv /\ CancelInv /\ [Next]_vars => CancelInv'
<1>. SUFFICES ASSUME TypeInv, CancelInv, [Next]_vars PROVE CancelInv'
  OBVIOUS
<1>. DEFINE Fine(t) == /\ attempt'[t].doomed => attempt'[t].pc \notin After
                       /\ attempt'[t].doomed /\ attempt'[t].pc \in Before =>
                             runtime'[attempt'[t].run].cancelled
<1>0. \A t \in Attempts : /\ attempt[t].doomed => attempt[t].pc \notin After
                          /\ attempt[t].doomed /\ attempt[t].pc \in Before =>
                                runtime[attempt[t].run].cancelled
  BY DEF CancelInv, CancelHonored, After
<1>1. \A t \in Attempts : attempt[t].pc \in Before =>
         attempt[t].run \in Runs /\ listed[attempt[t].run] \in {"live", "gone"}
  BY DEF TypeInv, TypeOK, Placed, Alive, Before, Searching
<1>2. ASSUME NEW r \in Runs, RequestStep(r), NEW t \in Attempts PROVE Fine(t)
  <2>1. CASE Kept(t, r)
    <3>1. attempt[t].run \in Runs \ {r} => runtime'[attempt[t].run] = runtime[attempt[t].run]
      BY <1>2 DEF RequestStep
    <3>2. listed[r] \in {"live", "gone"} => (runtime[r].cancelled => runtime'[r].cancelled)
      BY <1>2 DEF RequestStep
    <3>. QED
      BY <1>0, <1>1, <2>1, <3>1, <3>2 DEF Kept
  <2>2. CASE Made(t, r)
    BY <2>2 DEF Made, After
  <2>. QED
    BY <1>2, <2>1, <2>2 DEF RequestStep
<1>3. ASSUME NEW u \in Attempts, TaskStep(u), NEW t \in Attempts PROVE Fine(t)
  <2>. DEFINE r == attempt[u].run
  <2>1. runtime'[r].cancelled = runtime[r].cancelled
    BY <1>3 DEF TaskStep, Steps, Runtime
  <2>2. CASE t = u
    <3>1. /\ attempt'[t].pc \notin {"idle", "done"} => attempt'[t].run = r
          /\ attempt'[t].doomed => attempt[t].doomed
          /\ attempt'[t].pc \in Before => attempt[t].pc \in Before
          /\ attempt'[t].pc \in After =>
                attempt[t].pc \in After \/ (attempt[t].pc \in Before /\ ~runtime[r].cancelled)
      BY <1>3, <2>2 DEF TaskStep, Steps, Runtime
    <3>2. \A pc \in Before : pc \notin {"idle", "done"}
      BY DEF Before, Searching
    <3>. QED
      BY <1>0, <2>1, <2>2, <3>1, <3>2
  <2>3. CASE t # u
    <3>1. attempt'[t] = attempt[t]
      BY <1>3, <2>3 DEF TaskStep
    <3>2. attempt[t].run \in Runs => runtime'[attempt[t].run].cancelled = runtime[attempt[t].run].cancelled
      BY <1>3, <2>1 DEF TaskStep
    <3>. QED
      BY <1>0, <1>1, <3>1, <3>2
  <2>. QED
    BY <2>2, <2>3
<1>4. ASSUME Crash, NEW t \in Attempts PROVE Fine(t)
  BY <1>4, CrashStep DEF Before, After, Searching
<1>5. ASSUME UNCHANGED vars, NEW t \in Attempts PROVE Fine(t)
  BY <1>0, <1>5 DEF vars
<1>6. \A t \in Attempts : Fine(t)
  BY <1>2, <1>3, <1>4, <1>5, NextSplit, RequestedStep, AttemptStep
<1>. QED
  BY <1>6 DEF CancelInv, CancelHonored, After

\* However requests and attempts of a run interleave, an attempt of a run that
\* was cancelled before its search had returned writes no report (cancel_run,
\* _check_cancelled).
THEOREM CancellationIsHonored == Spec => []CancelHonored
<1>1. Init => CancelInv
  BY AttemptsAreOnes DEF Init, CancelInv, CancelHonored, Before, Searching
<1>. QED
  BY <1>1, TypeInit, TypeNext, CancelNext, PTL DEF Spec, CancelInv

-----------------------------------------------------------------------------
(* Occupation: no end of an attempt leaves its run blocked.                  *)

LEMMA ActiveNext == TypeInv /\ ActiveHasAttempt /\ [Next]_vars => ActiveHasAttempt'
<1>. SUFFICES ASSUME TypeInv, ActiveHasAttempt, [Next]_vars,
                     NEW s \in Runs, listed'[s] = "live", runtime'[s].status \in Busy
              PROVE  \E t \in Attempts : attempt'[t].run = s /\ attempt'[t].pc \in Works
  BY DEF ActiveHasAttempt, Active, Busy, Works
<1>1. listed[s] = "live" /\ runtime[s].status \in Busy =>
         \E t \in Attempts : attempt[t].run = s /\ attempt[t].pc \in Works
  BY DEF ActiveHasAttempt, Active, Busy, Works
<1>2. ASSUME NEW r \in Runs, RequestStep(r)
      PROVE  \E t \in Attempts : attempt'[t].run = s /\ attempt'[t].pc \in Works
  <2>1. listed[s] = "live" /\ runtime[s].status \in Busy
    BY <1>2 DEF RequestStep
  <2>2. PICK t \in Attempts : attempt[t].run = s /\ attempt[t].pc \in Works
    BY <1>1, <2>1
  <2>3. ~Made(t, r)
    BY <2>2 DEF Made, Works, Executing, Searching
  <2>. QED
    BY <1>2, <2>2, <2>3 DEF RequestStep, Kept
<1>3. ASSUME NEW u \in Attempts, TaskStep(u)
      PROVE  \E t \in Attempts : attempt'[t].run = s /\ attempt'[t].pc \in Works
  <2>. DEFINE r == attempt[u].run
  <2>1. listed[s] = "live" /\ \A t \in Attempts \ {u} : attempt'[t] = attempt[t]
    BY <1>3 DEF TaskStep, Others
  <2>2. CASE s # r
    <3>1. runtime'[s] = runtime[s]
      BY <1>3, <2>2 DEF TaskStep
    <3>. QED
      BY <1>1, <2>1, <2>2, <3>1
  <2>3. CASE s = r
    <3>1. /\ \/ attempt'[u].pc \in Works
             \/ runtime'[r].status = runtime[r].status /\ attempt[u].pc \notin Works
          /\ attempt'[u].pc \notin {"idle", "done"} => attempt'[u].run = r
      BY <1>3, <2>3 DEF TaskStep, Steps, Runtime
    <3>2. "idle" \notin Works /\ "done" \notin Works
      BY DEF Works, Executing, Searching
    <3>. QED
      BY <1>1, <2>1, <2>3, <3>1, <3>2
  <2>. QED
    BY <2>2, <2>3
<1>4. CASE Crash
  BY <1>4, CrashStep
<1>5. CASE UNCHANGED vars
  BY <1>1, <1>5 DEF vars
<1>. QED
  BY <1>2, <1>3, <1>4, <1>5, NextSplit, RequestedStep, AttemptStep

\* Whichever way attempts end, a live run that shows as executing or generating
\* has one at work (execute, its except clauses, launch_run's finally).
THEOREM OccupiedRunsWork == Spec => []ActiveHasAttempt
<1>1. Init => ActiveHasAttempt
  BY DEF Init, ActiveHasAttempt, Active
<1>. QED
  BY <1>1, TypeInit, TypeNext, ActiveNext, PTL DEF Spec

-----------------------------------------------------------------------------
(* Reuse: while an attempt is alone, nobody else changes the results it will *)
(* take its checkpoint from.                                                 *)

Loose == {"idle", "done", "closing"}

ReuseInv ==
    /\ NothingSearchedTwice
    /\ \A t, u \in Attempts :
          attempt[t].pc \notin Loose /\ attempt[t].alone /\ u # t /\ Alive(u) =>
             attempt[u].run # attempt[t].run
    /\ \A t \in Attempts : attempt[t].pc \in Waits /\ attempt[t].alone =>
          attempt[t].known \subseteq Found(runtime[attempt[t].run].results)

LEMMA ReuseInit == Init => ReuseInv
<1>1. Init => \A t \in Attempts : attempt[t] = Idle
  BY DEF Init
<1>. QED
  BY <1>1, AttemptsAreOnes DEF ReuseInv, NothingSearchedTwice, Loose, Waits, Alive

LEMMA ReuseNext == TypeInv /\ ReuseInv /\ [Next]_vars => ReuseInv'
<1>. SUFFICES ASSUME TypeInv, ReuseInv, [Next]_vars PROVE ReuseInv'
  OBVIOUS
<1>. DEFINE Spared(t) == attempt'[t].alone =>
                            \A q \in attempt'[t].known : attempt'[t].found[q] = "no"
            Apart(t, u) == (/\ attempt'[t].pc \notin Loose /\ attempt'[t].alone
                            /\ attempt'[u].pc \notin {"idle", "done"})
                              => attempt'[u].run # attempt'[t].run
            Held(t) == attempt'[t].pc \in Waits /\ attempt'[t].alone =>
                          attempt'[t].known \subseteq Found(runtime'[attempt'[t].run].results)
<1>0. /\ \A t \in Attempts : attempt[t].alone =>
            \A q \in attempt[t].known : attempt[t].found[q] = "no"
      /\ \A t, u \in Attempts :
            attempt[t].pc \notin Loose /\ attempt[t].alone /\ u # t /\ Alive(u) =>
               attempt[u].run # attempt[t].run
      /\ \A t \in Attempts : attempt[t].pc \in Waits /\ attempt[t].alone =>
            attempt[t].known \subseteq Found(runtime[attempt[t].run].results)
  BY DEF ReuseInv, NothingSearchedTwice
<1>1. /\ \A pc \in Waits : pc \notin Loose
      /\ \A t \in Attempts : attempt[t].pc \notin Loose => Alive(t)
      /\ \A t \in Attempts : Alive(t) <=> attempt[t].pc \notin {"idle", "done"}
  BY DEF Waits, Loose, Alive
<1>2. \A t \in Attempts : Alive(t) => /\ attempt[t].run \in Runs
                                      /\ listed[attempt[t].run] \in {"live", "gone"}
  BY DEF TypeInv, TypeOK, Placed
<1>3. \A t \in Attempts : attempt'[t].known \subseteq Questions /\ attempt[t].known \subseteq Questions
  BY TypeNext DEF TypeInv, TypeOK, AttemptRecords
<1>4. ASSUME NEW r \in Runs, RequestStep(r)
      PROVE  /\ \A t \in Attempts : Spared(t) /\ Held(t)
             /\ \A t, u \in Attempts : t # u => Apart(t, u)
  <2>1. \A t \in Attempts : Kept(t, r) \/ Made(t, r)
    BY <1>4 DEF RequestStep
  <2>2. \A s \in Runs \ {r} : runtime'[s] = runtime[s]
    BY <1>4 DEF RequestStep
  <2>3. listed[r] \in {"live", "gone"} => runtime'[r].results = runtime[r].results
    BY <1>4 DEF RequestStep
  <2>4. ASSUME NEW t \in Attempts PROVE Spared(t) /\ Held(t)
    <3>1. CASE Kept(t, r)
      <4>1. Spared(t)
        BY <1>0, <3>1 DEF Kept
      <4>2. attempt[t].pc \in Waits => runtime'[attempt[t].run].results = runtime[attempt[t].run].results
        BY <1>1, <1>2, <2>2, <2>3
      <4>3. Held(t)
        BY <1>0, <3>1, <4>2 DEF Kept
      <4>. QED
        BY <4>1, <4>3
    <3>2. CASE Made(t, r)
      BY <1>3, <3>2 DEF Made
    <3>. QED
      BY <2>1, <3>1, <3>2
  <2>5. ASSUME NEW t \in Attempts, NEW u \in Attempts, t # u PROVE Apart(t, u)
    <3>1. CASE Kept(t, r) /\ Kept(u, r)
      BY <1>0, <1>1, <2>5, <3>1 DEF Kept
    <3>2. CASE Made(t, r) /\ ~Made(u, r)
      <4>1. Kept(u, r)
        BY <2>1, <3>2
      <4>. QED
        BY <1>1, <2>5, <3>2, <4>1 DEF Made, Kept
    <3>3. CASE Made(u, r) /\ ~Made(t, r)
      <4>1. Kept(t, r)
        BY <2>1, <3>3
      <4>. QED
        BY <1>1, <2>5, <3>3, <4>1 DEF Made, Kept
    <3>4. ~(Made(t, r) /\ Made(u, r))
      BY <1>4, <2>5 DEF RequestStep
    <3>. QED
      BY <2>1, <3>1, <3>2, <3>3, <3>4
  <2>. QED
    BY <2>4, <2>5
<1>5. ASSUME NEW v \in Attempts, TaskStep(v)
      PROVE  /\ \A t \in Attempts : Spared(t) /\ Held(t)
             /\ \A t, u \in Attempts : t # u => Apart(t, u)
  <2>. DEFINE r == attempt[v].run
              now == attempt[v]
              next == attempt'[v]
  <2>1. /\ next.pc \notin {"idle", "done"} => next.run = r
        /\ next.pc \notin {"idle", "done", "closing"} =>
             now.pc \notin {"idle", "done", "closing"} /\ next.alone = now.alone
        /\ next.pc \in Waits => now.pc \in Waits /\ runtime'[r].results = runtime[r].results
                                /\ next.known = now.known /\ next.found = now.found
        /\ next.known = {} \/
             /\ next.known = now.known /\ next.alone = now.alone
             /\ \A q \in Questions :
                   now.found[q] = "no" /\ (now.pc = "confirm" => q \in Found(runtime[r].results))
                     => next.found[q] = "no"
    BY <1>5 DEF TaskStep, Steps, Runtime
  <2>2. /\ Alive(v) /\ \A t \in Attempts \ {v} : attempt'[t] = attempt[t]
        /\ \A s \in Runs \ {r} : runtime'[s] = runtime[s]
    BY <1>5 DEF TaskStep
  <2>3. Spared(v)
    <3>1. now.pc = "confirm" => now.pc \in Waits
      BY DEF Waits
    <3>. QED
      BY <1>0, <1>3, <2>1, <3>1
  <2>4. Held(v)
    BY <1>0, <1>1, <2>1 DEF Loose
  <2>5. ASSUME NEW t \in Attempts \ {v} PROVE Spared(t) /\ Held(t)
    <3>1. attempt[t].pc \in Waits /\ attempt[t].alone => attempt[t].run \in Runs \ {r}
      BY <1>0, <1>1, <1>2, <2>2
    <3>. QED
      BY <1>0, <2>2, <3>1
  <2>6. ASSUME NEW t \in Attempts, NEW u \in Attempts, t # u PROVE Apart(t, u)
    <3>1. CASE t = v
      <4>1. /\ next.pc \notin Loose => now.pc \notin Loose /\ next.alone = now.alone
            /\ next.pc \notin Loose => next.run = r
        BY <2>1 DEF Loose
      <4>2. attempt'[u] = attempt[u]
        BY <2>2, <2>6, <3>1
      <4>. QED
        BY <1>0, <1>1, <2>6, <3>1, <4>1, <4>2
    <3>2. CASE u = v
      BY <1>0, <1>1, <2>1, <2>2, <2>6, <3>2 DEF Loose
    <3>3. CASE t # v /\ u # v
      BY <1>0, <1>1, <2>2, <2>6, <3>3
    <3>. QED
      BY <3>1, <3>2, <3>3
  <2>. QED
    BY <2>3, <2>4, <2>5, <2>6
<1>6. ASSUME Crash
      PROVE  /\ \A t \in Attempts : Spared(t) /\ Held(t)
             /\ \A t, u \in Attempts : t # u => Apart(t, u)
  <2>1. \A t \in Attempts : attempt'[t].pc \in {"idle", "done"}
    BY <1>6, CrashStep
  <2>2. \A t \in Attempts : attempt'[t] = Ended \/ attempt'[t] = attempt[t]
    BY <1>6, CrashStep
  <2>. QED
    BY <1>0, <2>1, <2>2, AttemptsAreOnes DEF Waits, Loose
<1>7. ASSUME UNCHANGED vars
      PROVE  /\ \A t \in Attempts : Spared(t) /\ Held(t)
             /\ \A t, u \in Attempts : t # u => Apart(t, u)
  BY <1>0, <1>1, <1>7 DEF vars
<1>8. /\ \A t \in Attempts : Spared(t) /\ Held(t)
      /\ \A t, u \in Attempts : t # u => Apart(t, u)
  BY <1>4, <1>5, <1>6, <1>7, NextSplit, RequestedStep, AttemptStep
<1>. QED
  BY <1>8 DEF ReuseInv, NothingSearchedTwice, Alive

\* What a run, or its file, held sources for when an attempt that stays alone
\* was started is not searched again (_rehydrate, _reset_execution_state, the
\* checkpoint of execute).
THEOREM FoundIsReused == Spec => []NothingSearchedTwice
<1>. QED
  BY ReuseInit, TypeInit, TypeNext, ReuseNext, PTL DEF Spec, ReuseInv

-----------------------------------------------------------------------------
(* Saving: what differs from its file has someone left to save it.           *)

WillSave(t) == \/ attempt[t].pc \in Executing \cup {"closing"}
               \/ attempt[t].pc = "confirm" /\ ~attempt[t].kill

Saves(t, r) == attempt[t].run = r /\ WillSave(t)

Unsaved(r) ==
    listed[r] = "live" /\ file[r] # Saved(runtime[r], plans[r]) /\ ~AsLoaded(r)

SaveInv ==
    /\ \A r \in Runs : Unsaved(r) =>
          r \in planning \cup cancelling \/ \E t \in Attempts : Saves(t, r)
    /\ \A r \in Runs, t \in Attempts : task[r] = t =>
          attempt[t].pc # "idle" /\ (Alive(t) => attempt[t].run = r)

SaveTask(t) ==
    LET r == attempt[t].run
    IN /\ attempt'[t].pc # "idle"
       /\ \A s \in Runs \ {r} : plans'[s] = plans[s] /\ file'[s] = file[s]
       /\ \/ WillSave(t)'
          \/ file'[r] = Saved(runtime'[r], plans'[r])
          \/ runtime' = runtime /\ plans' = plans /\ file' = file /\ ~WillSave(t)

\* What is unsaved of a run depends on nothing else.
LEMMA UnsavedStays ==
    ASSUME NEW s \in Runs, runtime'[s] = runtime[s], listed'[s] = listed[s],
           plans'[s] = plans[s], file'[s] = file[s]
    PROVE  Unsaved(s)' <=> Unsaved(s)
<1>1. AsLoaded(s)' <=> AsLoaded(s)
  BY DEF AsLoaded, Rehydrated, RehydratedPlans, NewRuntime, Draft, NoPlan
<1>2. Saved(runtime[s], plans[s])' = Saved(runtime[s], plans[s])
  BY DEF Saved, NoPlan
<1>. QED
  BY <1>1, <1>2 DEF Unsaved

LEMMA SearchersSave ==
    ASSUME TypeInv, NEW t \in Attempts,
           \/ Execute(t) \/ Reuse(t) \/ (\E q \in Questions : EndQuestion(t, q)) \/ Gather(t)
           \/ Cap(t) \/ EndSearch(t) \/ BeginReport(t) \/ EndReport(t) \/ Complete(t)
           \/ Stop(t) \/ Fail(t)
    PROVE  SaveTask(t)
<1>. DEFINE r == attempt[t].run
<1>1. Attempt(t)
  BY DEF Attempt
<1>2. attempt'[t].pc \notin {"idle", "done"} => attempt'[t].run = r
  BY <1>1, AttemptStep DEF TaskStep, Steps
<1>3. \A u \in Attempts : attempt[u] \in AttemptRecords
  BY DEF TypeInv, TypeOK
<1>4. attempt'[t].pc \in Executing \cup {"closing"}
  <2>1. ASSUME NEW pc, Goto(t, pc) PROVE attempt'[t].pc = pc
    BY <1>3, <2>1 DEF Goto, TypeInv, TypeOK, AttemptRecords
  <2>2. ASSUME Wind(t) PROVE attempt'[t].pc = "closing"
    BY <2>2, TaskIsAlive, WoundIsOne DEF Wind, Ended, Idle, NewAttempt, TypeInv, TypeOK
  <2>3. CASE Gather(t) \/ BeginReport(t) \/ EndReport(t) \/ Complete(t)
    BY <2>1, <2>3 DEF Gather, BeginReport, EndReport, Complete, Executing, Searching
  <2>4. CASE Stop(t) \/ Fail(t)
    BY <2>2, <2>4 DEF Stop, Fail, Cancelled
  <2>5. CASE Execute(t)
    <3>1. PICK todo, found : attempt' = [attempt EXCEPT ![t].pc = "search", ![t].todo = todo,
                                                        ![t].found = found]
      BY <2>5 DEF Execute
    <3>. QED
      BY <1>3, <3>1 DEF Executing, Searching, TypeInv, TypeOK, AttemptRecords
  <2>9. CASE Cap(t)
    BY <1>3, <2>9 DEF Cap, Executing, Searching, TypeInv, TypeOK, AttemptRecords
  <2>6. CASE Reuse(t)
    BY <1>3, <2>6 DEF Reuse, At, Executing, Searching, TypeInv, TypeOK, AttemptRecords
  <2>7. ASSUME NEW q \in Questions, EndQuestion(t, q) PROVE attempt'[t].pc \in Executing
    BY <1>3, <2>7 DEF EndQuestion, At, Executing, Searching, TypeInv, TypeOK, AttemptRecords
  <2>8. CASE EndSearch(t)
    <3>1. CASE Wind(t)
      BY <2>2, <3>1
    <3>2. CASE ~Wind(t)
      <4>1. attempt' = [attempt EXCEPT ![t].pc = "announce", ![t].known = {},
                                       ![t].found = Idle.found]
        BY <2>8, <3>2 DEF EndSearch, Cancelled
      <4>. QED
        BY <1>3, <4>1 DEF Executing, TypeInv, TypeOK, AttemptRecords
    <3>. QED
      BY <3>1, <3>2
  <2>. QED
    BY <2>3, <2>4, <2>5, <2>6, <2>7, <2>8, <2>9
<1>5. file' = file
  BY DEF Execute, Reuse, EndQuestion, Gather, Cap, EndSearch, BeginReport, EndReport, Complete,
         Stop, Fail
<1>6. plans' = plans \/ \E i, st : SetPlan(t, i, st)
  BY DEF Execute, Reuse, EndQuestion, Gather, Cap, EndSearch, BeginReport, EndReport, Complete,
         Stop, Fail, Cancelled
<1>7. \A s \in Runs \ {r} : plans'[s] = plans[s]
  BY <1>6 DEF SetPlan, TypeInv, TypeOK
<1>8. attempt'[t].pc \notin {"idle", "done"}
  BY <1>4 DEF Executing, Searching
<1>. QED
  BY <1>2, <1>4, <1>5, <1>7, <1>8 DEF SaveTask, WillSave

LEMMA OthersSave ==
    ASSUME TypeInv, NEW t \in Attempts, Begin(t) \/ Unconfirmed(t) \/ Refuse(t) \/ Close(t)
    PROVE  SaveTask(t)
<1>. DEFINE r == attempt[t].run
<1>1. End(t) => attempt'[t].pc = "done"
  BY AttemptsAreOnes DEF End, TypeInv, TypeOK
<1>2. attempt[t].pc \in {"created", "confirm", "closing"} \cup Executing
  BY DEF Begin, Unconfirmed, Refuse, Close, At, Executing, Searching
<1>3. r \in Runs
  BY <1>2, TaskIsAlive, TaskIsOne
<1>4. CASE Begin(t) /\ End(t)
  <2>1. ~Ready(t)
    <3>. SUFFICES ASSUME Ready(t) PROVE FALSE
      OBVIOUS
    <3>1. attempt' = [attempt EXCEPT ![t].pc = "confirm", ![t].plan = Runtime(t).plan]
      BY <1>4 DEF Begin
    <3>2. attempt'[t].pc = "confirm"
      BY <3>1 DEF TypeInv, TypeOK, AttemptRecords
    <3>. QED
      BY <1>1, <1>4, <3>2
  <2>2. /\ attempt[t].pc = "created" /\ attempt'[t].pc = "done"
        /\ runtime' = runtime /\ plans' = plans /\ file' = file
    BY <1>1, <1>4, <2>1 DEF Begin
  <2>3. ~WillSave(t)
    BY <2>2 DEF WillSave, Executing, Searching
  <2>. QED
    BY <2>2, <2>3 DEF SaveTask
<1>5. CASE Begin(t) /\ ~End(t)
  <2>1. /\ attempt' = [attempt EXCEPT ![t].pc = "confirm", ![t].plan = Runtime(t).plan]
        /\ ~attempt[t].kill /\ SetPlan(t, Runtime(t).plan, "confirmed") /\ file' = file
    BY <1>5 DEF Begin, Ready
  <2>2. attempt'[t].pc = "confirm" /\ attempt'[t].run = r /\ attempt'[t].kill = attempt[t].kill
    BY <2>1 DEF TypeInv, TypeOK, AttemptRecords
  <2>3. \A s \in Runs \ {r} : plans'[s] = plans[s]
    BY <2>1 DEF SetPlan, TypeInv, TypeOK
  <2>. QED
    BY <2>1, <2>2, <2>3 DEF SaveTask, WillSave
<1>6. CASE Unconfirmed(t)
  <2>1. ~WillSave(t)
    BY <1>6 DEF Unconfirmed, WillSave, Executing, Searching
  <2>. QED
    BY <1>1, <1>6, <2>1 DEF Unconfirmed, SaveTask
<1>7. CASE Refuse(t)
  <2>. DEFINE x == [Runtime(t) EXCEPT !.plan = attempt[t].plan, !.status = "plan_ready"]
  <2>1. /\ SetRuntime(t, x) /\ Save(t, x) /\ plans' = plans /\ End(t)
    BY <1>7 DEF Refuse
  <2>. HIDE DEF x
  <2>2. runtime'[r] = x
    BY <1>3, <2>1 DEF SetRuntime, TypeInv, TypeOK
  <2>3. file'[r] = Saved(x, plans[r]) /\ \A s \in Runs \ {r} : file'[s] = file[s]
    BY <1>3, <2>1 DEF Save, TypeInv, TypeOK
  <2>. QED
    BY <1>1, <2>1, <2>2, <2>3 DEF SaveTask
<1>8. CASE Close(t)
  <2>1. Save(t, Runtime(t)) /\ plans' = plans /\ runtime' = runtime /\ End(t)
    BY <1>8 DEF Close
  <2>2. file'[r] = Saved(runtime[r], plans[r]) /\ \A s \in Runs \ {r} : file'[s] = file[s]
    BY <1>3, <2>1 DEF Save, Runtime, TypeInv, TypeOK
  <2>. QED
    BY <1>1, <2>1, <2>2 DEF SaveTask
<1>. QED
  BY <1>4, <1>5, <1>6, <1>7, <1>8

\* Who is to save a run still is, and there is as much of it to save.
KeepsSavers(s) ==
    /\ plans'[s] = plans[s] /\ file'[s] = file[s]
    /\ s \in planning \cup cancelling => s \in planning' \cup cancelling'
    /\ \A t \in Attempts : Saves(t, s) => Saves(t, s)'

\* A request of a run saves it, has itself to save it, loads it, or leaves it
\* alone, and it leaves the other runs alone.
SaveRequest(r) ==
    /\ \A s \in Runs \ {r} : KeepsSavers(s)
    /\ \/ r \in planning' \cup cancelling'
       \/ file'[r] = Saved(runtime'[r], plans'[r])
       \/ listed'[r] # "live" \/ AsLoaded(r)'
       \/ KeepsSavers(r) /\ runtime'[r] = runtime[r] /\ listed'[r] = listed[r]

\* A run that a request makes live is as it is loaded, or as it was.
LEMMA LivesAsLoaded ==
    ASSUME TypeInv, NEW r \in Runs, Listed(r), file' = file,
           runtime' = [runtime EXCEPT ![r] = Live(r)],
           plans' = [plans EXCEPT ![r] = LivePlans(r)],
           listed' = [listed EXCEPT ![r] = "live"]
    PROVE  \/ AsLoaded(r)'
           \/ /\ runtime'[r] = runtime[r] /\ plans'[r] = plans[r]
              /\ listed'[r] = listed[r]
<1>1. runtime'[r] = Live(r) /\ plans'[r] = LivePlans(r) /\ listed'[r] = "live"
  BY DEF TypeInv, TypeOK
<1>2. CASE listed[r] = "archived"
  <2>1. runtime'[r] = Rehydrated(r) /\ plans'[r] = RehydratedPlans(r)
    BY <1>1, <1>2 DEF Live, LivePlans
  <2>2. Rehydrated(r)' = Rehydrated(r) /\ RehydratedPlans(r)' = RehydratedPlans(r)
    BY DEF Rehydrated, RehydratedPlans, NewRuntime, Draft, NoPlan
  <2>. QED
    BY <2>1, <2>2 DEF AsLoaded
<1>3. CASE listed[r] = "live"
  BY <1>1, <1>3 DEF Live, LivePlans
<1>. QED
  BY <1>2, <1>3 DEF Listed

LEMMA RequestsSave ==
    ASSUME TypeInv, SaveInv, NEW r \in Runs, Requested(r)
    PROVE  SaveRequest(r)
<1>. DEFINE Rest == \A s \in Runs \ {r} :
                       /\ plans'[s] = plans[s] /\ file'[s] = file[s]
                       /\ s \in planning \cup cancelling => s \in planning' \cup cancelling'
            Calm == \A s \in Runs \ {r} : \A t \in Attempts : Saves(t, s) => Saves(t, s)'
<1>0. /\ DOMAIN plans = Runs /\ DOMAIN file = Runs /\ DOMAIN runtime = Runs /\ DOMAIN listed = Runs
      /\ \A t \in Attempts : attempt[t] \in AttemptRecords
  BY DEF TypeInv, TypeOK
<1>1. attempt' = attempt => Calm
  BY DEF Saves, WillSave
<1>2. ASSUME NEW key \in Keys \cup {NoKey}, Create(r, key) PROVE SaveRequest(r)
  <2>1. r \in planning' /\ attempt' = attempt /\ Rest
    BY <1>0, <1>2 DEF Create
  <2>. QED
    BY <1>1, <2>1 DEF SaveRequest, KeepsSavers
<1>3. ASSUME NEW x, NEW objects, EndPlanning(r, x, objects) PROVE SaveRequest(r)
  <2>1. attempt' = attempt /\ Rest
    BY <1>0, <1>3 DEF EndPlanning
  <2>2. file'[r] = Saved(x, objects) /\ runtime'[r] = x /\ plans'[r] = objects
    BY <1>0, <1>3 DEF EndPlanning, TypeInv, TypeOK
  <2>. QED
    BY <1>1, <2>1, <2>2 DEF SaveRequest, KeepsSavers
<1>4. CASE PlanReady(r) \/ PlanFails(r)
  BY <1>3, <1>4 DEF PlanReady, PlanFails
<1>5. CASE Edit(r)
  <2>1. PICK x, objects : /\ plans' = [plans EXCEPT ![r] = objects]
                          /\ runtime' = [runtime EXCEPT ![r] = x]
                          /\ file' = [file EXCEPT ![r] = Saved(x, objects)]
    BY <1>5 DEF Edit
  <2>2. attempt' = attempt /\ Rest
    BY <1>0, <1>5, <2>1 DEF Edit
  <2>3. file'[r] = Saved(x, objects) /\ runtime'[r] = x /\ plans'[r] = objects
    BY <1>0, <2>1 DEF TypeInv, TypeOK
  <2>. QED
    BY <1>1, <2>2, <2>3 DEF SaveRequest, KeepsSavers
<1>6. CASE EditRefused(r)
  <2>1. /\ attempt' = attempt /\ Rest /\ Listed(r) /\ listed[r] # "live"
        /\ runtime' = [runtime EXCEPT ![r] = Live(r)] /\ file' = file
        /\ plans' = [plans EXCEPT ![r] = LivePlans(r)]
        /\ listed' = [listed EXCEPT ![r] = "live"]
    BY <1>0, <1>6 DEF EditRefused, Listed
  <2>2. AsLoaded(r)'
    BY <1>0, <2>1, LivesAsLoaded
  <2>. QED
    BY <1>1, <2>1, <2>2 DEF SaveRequest, KeepsSavers
<1>7. ASSUME NEW t \in Attempts, Start(r, t) PROVE SaveRequest(r)
  <2>. DEFINE others == {u \in Attempts : Alive(u) /\ attempt[u].run = r}
              marked(u) == [attempt[u] EXCEPT !.alone = FALSE, !.known = {}]
  <2>1. PICK known, alone, doomed :
           attempt' = [u \in Attempts |-> IF u = t THEN NewAttempt(r, known, alone, doomed)
                                          ELSE IF u \in others THEN marked(u) ELSE attempt[u]]
    BY <1>7 DEF Start
  <2>3. \A u \in Attempts : /\ marked(u).run = attempt[u].run /\ marked(u).pc = attempt[u].pc
                            /\ marked(u).kill = attempt[u].kill
    BY <1>0 DEF AttemptRecords
  <2>4. \A u \in Attempts \ {t} : attempt'[u] = marked(u) \/ attempt'[u] = attempt[u]
    BY <2>1
  <2>. HIDE DEF marked
  <2>5. \A u \in Attempts \ {t} : \A s \in Runs : Saves(u, s) => Saves(u, s)'
    BY <2>3, <2>4 DEF Saves, WillSave
  <2>6. /\ attempt[t].pc = "idle" /\ Rest /\ Listed(r) /\ file' = file
        /\ UNCHANGED <<planning, cancelling>>
        /\ runtime' = [runtime EXCEPT ![r] = Live(r)]
        /\ plans' = [plans EXCEPT ![r] = LivePlans(r)]
        /\ listed' = [listed EXCEPT ![r] = "live"]
    BY <1>0, <1>7 DEF Start
  <2>7. \A s \in Runs : ~Saves(t, s)
    BY <2>6 DEF Saves, WillSave, Executing, Searching
  <2>8. \/ AsLoaded(r)'
        \/ /\ runtime'[r] = runtime[r] /\ plans'[r] = plans[r]
           /\ listed'[r] = listed[r]
    BY <2>6, LivesAsLoaded
  <2>. QED
    BY <2>5, <2>6, <2>7, <2>8 DEF SaveRequest, KeepsSavers
<1>8. CASE Cancel(r)
  <2>1. r \in cancelling' /\ Rest
    BY <1>0, <1>8 DEF Cancel
  <2>2. \A t \in Attempts : /\ attempt'[t].run = attempt[t].run /\ attempt'[t].pc = attempt[t].pc
                            /\ attempt'[t].kill = attempt[t].kill
    BY <1>0, <1>8 DEF Cancel, AttemptRecords
  <2>3. Calm
    BY <2>2 DEF Saves, WillSave
  <2>. QED
    BY <2>1, <2>3 DEF SaveRequest, KeepsSavers
<1>9. CASE CancelTask(r)
  <2>1. Rest
    BY <1>0, <1>9 DEF CancelTask
  <2>2. file'[r] = Saved(runtime'[r], plans'[r])
    BY <1>0, <1>9 DEF CancelTask
  <2>3. \A t \in Attempts : t # task[r] => attempt'[t] = attempt[t]
    BY <1>9 DEF CancelTask
  <2>4. Calm
    BY <2>3, TaskIsAlive DEF Calm, SaveInv, Saves, WillSave
  <2>. QED
    BY <2>1, <2>2, <2>4 DEF SaveRequest, KeepsSavers
<1>10. CASE Delete(r)
  <2>1. attempt' = attempt /\ Rest /\ listed'[r] = "gone"
    BY <1>0, <1>10 DEF Delete
  <2>. QED
    BY <1>1, <2>1 DEF SaveRequest, KeepsSavers
<1>. QED
  BY <1>2, <1>4, <1>5, <1>6, <1>7, <1>8, <1>9, <1>10 DEF Requested

LEMMA SaveNext == TypeInv /\ SaveInv /\ [Next]_vars => SaveInv'
<1>. SUFFICES ASSUME TypeInv, SaveInv, [Next]_vars PROVE SaveInv'
  OBVIOUS
<1>. DEFINE Covered(s) == \/ s \in planning' \cup cancelling'
                          \/ \E t \in Attempts : Saves(t, s)'
            Owned == \A r \in Runs, t \in Attempts : task'[r] = t =>
                        /\ attempt'[t].pc # "idle"
                        /\ attempt'[t].pc # "done" => attempt'[t].run = r
<1>0. /\ \A r \in Runs : Unsaved(r) =>
            r \in planning \cup cancelling \/ \E t \in Attempts : Saves(t, r)
      /\ \A r \in Runs, t \in Attempts : task[r] = t =>
            attempt[t].pc # "idle" /\ (attempt[t].pc # "done" => attempt[t].run = r)
  BY DEF SaveInv, Alive
<1>1. ASSUME NEW r \in Runs, Requested(r) PROVE Owned
  <2>1. RequestStep(r)
    BY <1>1, RequestedStep
  <2>2. \/ \A s \in Runs : task'[s] = task[s]
        \/ /\ \A s \in Runs \ {r} : task'[s] = task[s]
           /\ task'[r] = 0 \/ \E t \in Attempts : task'[r] = t /\ Start(r, t)
    BY <1>1 DEF Requested, Create, PlanReady, PlanFails, EndPlanning, Edit, EditRefused, Start,
                Cancel, CancelTask, Delete, TypeInv, TypeOK
  <2>3. \A t \in Attempts : Made(t, r) \/ (attempt'[t].pc = attempt[t].pc /\ attempt'[t].run = attempt[t].run)
    BY <2>1 DEF RequestStep, Kept
  <2>4. \A t \in Attempts : Made(t, r) => attempt[t].pc = "idle"
    BY DEF Made
  <2>5. ASSUME NEW s \in Runs, NEW t \in Attempts, task'[s] = t, task[s] = t
        PROVE  /\ attempt'[t].pc # "idle"
               /\ attempt'[t].pc # "done" => attempt'[t].run = s
    BY <1>0, <2>3, <2>4, <2>5
  <2>6. ASSUME NEW t \in Attempts, Start(r, t)
        PROVE  attempt'[t].pc = "created" /\ attempt'[t].run = r
    BY <2>6 DEF Start, NewAttempt
  <2>7. \A t \in Attempts : t # 0
    BY ResearchAssumption DEF Attempts
  <2>. QED
    BY <2>2, <2>5, <2>6, <2>7
<1>2. ASSUME NEW r \in Runs, Requested(r), NEW s \in Runs, Unsaved(s)' PROVE Covered(s)
  <2>1. SaveRequest(r) /\ RequestStep(r)
    BY <1>2, RequestsSave, RequestedStep
  <2>2. CASE KeepsSavers(s) /\ runtime'[s] = runtime[s] /\ listed'[s] = listed[s]
    <3>1. Unsaved(s)
      BY <1>2, <2>2, UnsavedStays DEF KeepsSavers
    <3>. QED
      BY <1>0, <2>2, <3>1 DEF KeepsSavers
  <2>3. CASE s # r
    BY <2>1, <2>2, <2>3 DEF SaveRequest, RequestStep
  <2>4. CASE s = r
    BY <1>2, <2>1, <2>2, <2>4 DEF SaveRequest, Unsaved
  <2>. QED
    BY <2>3, <2>4
<1>3. ASSUME NEW t \in Attempts, Attempt(t)
      PROVE  Owned /\ \A s \in Runs : Unsaved(s)' => Covered(s)
  <2>. DEFINE r == attempt[t].run
  <2>1. TaskStep(t) /\ SaveTask(t)
    BY <1>3, AttemptStep, SearchersSave, OthersSave DEF Attempt
  <2>2. /\ UNCHANGED Others /\ Alive(t) /\ \A u \in Attempts \ {t} : attempt'[u] = attempt[u]
        /\ attempt'[t].pc # "idle"
        /\ attempt'[t].pc \notin {"idle", "done"} => attempt'[t].run = r
    BY <2>1 DEF TaskStep, SaveTask, Steps
  <2>3. Owned
    BY <1>0, <2>2 DEF Others, Alive
  <2>4. \A u \in Attempts \ {t} : \A s \in Runs : Saves(u, s) => Saves(u, s)'
    BY <2>2 DEF Saves, WillSave
  <2>5. \A s \in Runs : s \in planning \cup cancelling => Covered(s)
    BY <2>2 DEF Others
  <2>6. ASSUME NEW s \in Runs, Unsaved(s)' PROVE Covered(s)
    <3>1. CASE s # r
      <4>1. /\ runtime'[s] = runtime[s] /\ listed'[s] = listed[s]
            /\ plans'[s] = plans[s] /\ file'[s] = file[s]
        BY <2>1, <2>2, <3>1 DEF TaskStep, SaveTask, Others
      <4>2. Unsaved(s)
        BY <2>6, <4>1, UnsavedStays
      <4>3. ~Saves(t, s)
        BY <3>1 DEF Saves, WillSave
      <4>. QED
        BY <1>0, <2>4, <2>5, <4>2, <4>3
    <3>2. CASE s = r
      <4>1. file'[r] # Saved(runtime'[r], plans'[r])
        BY <2>6, <3>2 DEF Unsaved
      <4>2. CASE WillSave(t)'
        <5>1. attempt'[t].run = s
          BY <2>2, <3>2, <4>2 DEF WillSave, Executing, Searching
        <5>. QED
          BY <4>2, <5>1 DEF Saves, WillSave
      <4>3. CASE ~WillSave(t)'
        <5>1. /\ runtime' = runtime /\ plans' = plans /\ file' = file /\ listed' = listed
              /\ ~WillSave(t)
          BY <2>1, <2>2, <4>1, <4>3 DEF SaveTask, Others
        <5>2. Unsaved(r)
          BY <2>6, <3>2, <5>1, UnsavedStays
        <5>3. ~Saves(t, r)
          BY <5>1 DEF Saves
        <5>. QED
          BY <1>0, <2>4, <2>5, <3>2, <5>2, <5>3
      <4>. QED
        BY <4>2, <4>3
    <3>. QED
      BY <3>1, <3>2
  <2>. QED
    BY <2>3, <2>6
<1>4. CASE Crash
  <2>1. \A s \in Runs : listed'[s] # "live" /\ task'[s] = 0
    BY <1>4, CrashStep DEF Crash
  <2>2. \A t \in Attempts : t # 0
    BY ResearchAssumption DEF Attempts
  <2>. QED
    BY <2>1, <2>2 DEF SaveInv, Unsaved
<1>5. CASE UNCHANGED vars
  <2>1. /\ \A s \in Runs : Unsaved(s)' <=> Unsaved(s)
        /\ \A s \in Runs : \A t \in Attempts : Saves(t, s) => Saves(t, s)'
    BY <1>5, UnsavedStays DEF vars, Saves, WillSave
  <2>. QED
    BY <1>0, <1>5, <2>1 DEF vars, SaveInv, Alive
<1>6. CASE Owned /\ \A s \in Runs : Unsaved(s)' => Covered(s)
  BY <1>6 DEF SaveInv, Alive
<1>. QED
  BY <1>1, <1>2, <1>3, <1>4, <1>5, <1>6, NextSplit

\* A crash loses nothing of a run when no task or request of it is at work: its
\* file says what the runtime holds, or the runtime is what is loaded from the
\* file, whichever way attempts and requests ended (_persist_run in create_run,
\* edit_plan and cancel_run, launch_run's finally, _rehydrate).
THEOREM QuietRunsAreSaved == Spec => []QuietIsSaved
<1>1. Init => SaveInv
  <2>1. Init => \A t \in Attempts, r \in Runs : task[r] = 0 /\ t # 0
    BY ResearchAssumption DEF Init, Attempts
  <2>. QED
    BY <2>1 DEF Init, SaveInv, Unsaved
<1>2. TypeInv /\ SaveInv => QuietIsSaved
  <2>1. \A t \in Attempts, r \in Runs : Saves(t, r) => Alive(t) /\ attempt[t].run = r
    BY DEF Saves, WillSave, Alive, Executing, Searching
  <2>. QED
    BY <2>1 DEF SaveInv, QuietIsSaved, Quiet, Unsaved
<1>. QED
  BY <1>1, <1>2, TypeInit, TypeNext, SaveNext, PTL DEF Spec

-----------------------------------------------------------------------------
(* Completeness: results, and lists of questions, without repetitions.       *)

Qs(results)   == {results[i].q : i \in DOMAIN results}
Once(results) == \A i, j \in DOMAIN results : results[i].q = results[j].q => i = j

LEMMA RemovalIsInjective ==
    ASSUME NEW s \in Asks, IsInjective(s), NEW i \in DOMAIN s
    PROVE  IsInjective(RemoveAt(s, i))
<1>. DEFINE shorter == RemoveAt(s, i)
<1>1. s \in Seq(Questions) /\ Len(s) \in Nat /\ i \in 1..Len(s)
  BY DEF Asks
<1>2. /\ DOMAIN shorter = 1..(Len(s) - 1)
      /\ \A k \in 1..(Len(s) - 1) : /\ k < i => shorter[k] = s[k]
                                    /\ ~ (k < i) => shorter[k] = s[k + 1]
  <2>. DEFINE head == SubSeq(s, 1, i - 1)
              tail == SubSeq(s, i + 1, Len(s))
  <2>1. /\ head \in Seq(Questions) /\ Len(head) = i - 1
        /\ \A k \in 1..(i - 1) : head[k] = s[k]
    BY <1>1
  <2>2. /\ tail \in Seq(Questions) /\ Len(tail) = Len(s) - i
        /\ \A k \in 1..(Len(s) - i) : tail[k] = s[k + i]
    BY <1>1
  <2>. HIDE DEF head, tail
  <2>3. /\ head \o tail \in Seq(Questions) /\ Len(head \o tail) = Len(s) - 1
        /\ \A k \in 1..(Len(s) - 1) :
              (head \o tail)[k] = IF k < i THEN head[k] ELSE tail[k - (i - 1)]
    <3>1. /\ head \o tail \in Seq(Questions)
          /\ Len(head \o tail) = Len(head) + Len(tail)
          /\ \A k \in 1..(Len(head) + Len(tail)) :
                (head \o tail)[k] = IF k <= Len(head) THEN head[k] ELSE tail[k - Len(head)]
      BY <2>1, <2>2
    <3>2. Len(head) + Len(tail) = Len(s) - 1
      BY <1>1, <2>1, <2>2
    <3>3. \A k \in 1..(Len(s) - 1) : k <= Len(head) <=> k < i
      BY <1>1, <2>1
    <3>. QED
      BY <2>1, <3>1, <3>2, <3>3
  <2>4. ASSUME NEW k \in 1..(Len(s) - 1)
        PROVE  /\ k < i => (head \o tail)[k] = s[k]
               /\ ~ (k < i) => (head \o tail)[k] = s[k + 1]
    <3>1. CASE k < i
      BY <1>1, <2>1, <2>3, <3>1
    <3>2. CASE ~ (k < i)
      <4>. DEFINE j == k - (i - 1)
      <4>1. j \in 1..(Len(s) - i) /\ j + i = k + 1
        BY <1>1, <3>2
      <4>2. (head \o tail)[k] = tail[j]
        BY <2>3, <3>2
      <4>. HIDE DEF j
      <4>3. tail[j] = s[j + i]
        BY <2>2, <4>1
      <4>. QED
        BY <3>2, <4>1, <4>2, <4>3
    <3>. QED
      BY <3>1, <3>2
  <2>5. shorter = head \o tail
    BY DEF RemoveAt, head, tail
  <2>. HIDE DEF shorter
  <2>6. DOMAIN (head \o tail) = 1..(Len(s) - 1)
    BY <2>3
  <2>. QED
    BY <2>4, <2>5, <2>6
<1>. HIDE DEF shorter
<1>4. ASSUME NEW k \in 1..(Len(s) - 1), NEW l \in 1..(Len(s) - 1), shorter[k] = shorter[l]
      PROVE  k = l
  <2>1. \A m, n \in 1..Len(s) : s[m] = s[n] => m = n
    BY <1>1 DEF IsInjective
  <2>2. /\ k \in 1..Len(s) /\ k + 1 \in 1..Len(s)
        /\ l \in 1..Len(s) /\ l + 1 \in 1..Len(s)
    BY <1>1
  <2>. QED
    BY <1>1, <1>2, <1>4, <2>1, <2>2
<1>5. IsInjective(shorter)
  BY <1>2, <1>4 DEF IsInjective
<1>. QED
  BY <1>5 DEF shorter

LEMMA AppendIsInjective ==
    ASSUME NEW s \in Asks, IsInjective(s), NEW q, q \notin ToSet(s)
    PROVE  IsInjective(Append(s, q))
<1>1. s \in Seq(Questions) /\ Len(s) \in Nat /\ DOMAIN s = 1..Len(s)
  BY DEF Asks
<1>2. /\ DOMAIN Append(s, q) = 1..(Len(s) + 1)
      /\ \A k \in 1..(Len(s) + 1) : Append(s, q)[k] = IF k = Len(s) + 1 THEN q ELSE s[k]
  BY <1>1
<1>3. \A k \in 1..Len(s) : s[k] # q
  BY <1>1 DEF ToSet
<1>. QED
  BY <1>1, <1>2, <1>3 DEF IsInjective

LEMMA AnotherResult ==
    ASSUME NEW results \in Results, Once(results), NEW a \in Questions, a \notin Qs(results),
           NEW g
    PROVE  /\ Once(Append(results, [q |-> a, got |-> g]))
           /\ Qs(Append(results, [q |-> a, got |-> g])) = Qs(results) \cup {a}
<1>. DEFINE n == Len(results)
            more == Append(results, [q |-> a, got |-> g])
<1>1. n \in Nat /\ DOMAIN results = 1..n
  BY DEF Results
<1>2. /\ DOMAIN more = 1..(n + 1)
      /\ \A k \in 1..(n + 1) : more[k] = IF k = n + 1 THEN [q |-> a, got |-> g] ELSE results[k]
  BY <1>1 DEF Results
<1>. HIDE DEF n, more
<1>3. \A k \in 1..(n + 1) : more[k].q = IF k = n + 1 THEN a ELSE results[k].q
  BY <1>2
<1>4. \A k \in 1..n : results[k].q # a
  BY <1>1 DEF Qs
<1>5. Once(more)
  BY <1>1, <1>2, <1>3, <1>4 DEF Once
<1>6. Qs(more) = Qs(results) \cup {a}
  <2>1. \A x \in Qs(more) : x \in Qs(results) \cup {a}
    BY <1>1, <1>2, <1>3 DEF Qs
  <2>2. \A x \in Qs(results) : x \in Qs(more)
    BY <1>1, <1>2, <1>3 DEF Qs
  <2>3. a \in Qs(more)
    <3>1. n + 1 \in DOMAIN more /\ more[n + 1].q = a
      BY <1>1, <1>2, <1>3
    <3>. QED
      BY <3>1 DEF Qs
  <2>. QED
    BY <2>1, <2>2, <2>3
<1>. QED
  BY <1>5, <1>6 DEF more

\* A set as a list has each of its elements, once.
LEMMA SetToSeqIsWhole ==
    ASSUME NEW S, IsFiniteSet(S)
    PROVE  IsInjective(SetToSeq(S)) /\ ToSet(SetToSeq(S)) = S
<1>. DEFINE n == Cardinality(S)
            s == SetToSeq(S)
<1>1. PICK f \in [1..n -> S] : IsInjective(f)
  BY FS_CardinalityType, FS_NatBijection, FS_CountingElements
     DEF ExistsBijection, Bijection, Injection, IsInjective
<1>2. s \in [1..n -> S] /\ IsInjective(s)
  BY <1>1 DEF SetToSeq
<1>. HIDE DEF s
<1>3. s \in Injection(1..n, S)
  BY <1>2 DEF Injection, IsInjective
<1>4. n \in Nat /\ Cardinality(1..n) = n
  BY FS_CardinalityType, FS_Interval
<1>5. s \in Surjection(1..n, S)
  BY <1>3, <1>4, FS_Injection
<1>6. ToSet(s) = S
  BY <1>2, <1>5 DEF Surjection, ToSet
<1>. QED
  BY <1>2, <1>6 DEF s

LEMMA Gathered ==
    ASSUME NEW results \in Results, Once(results), NEW s \in Asks, IsInjective(s),
           ToSet(s) \cap Qs(results) = {}, NEW f
    PROVE  LET all == results \o [i \in DOMAIN s |-> [q |-> s[i], got |-> f[s[i]] = "sources"]]
           IN  Once(all) /\ Qs(all) = Qs(results) \cup ToSet(s)
<1>. DEFINE m == Len(results)
            n == Len(s)
            new == [i \in DOMAIN s |-> [q |-> s[i], got |-> f[s[i]] = "sources"]]
            all == results \o new
<1>1. m \in Nat /\ DOMAIN results = 1..m /\ n \in Nat /\ DOMAIN s = 1..n
  BY DEF Results, Asks
<1>2. \A i \in 1..n : new[i].q = s[i]
  BY <1>1
<1>3. new \in Seq([q : Questions, got : BOOLEAN]) /\ Len(new) = n
  <2>1. \A i \in 1..n : s[i] \in Questions
    BY <1>1 DEF Asks
  <2>2. new \in [1..n -> [q : Questions, got : BOOLEAN]]
    BY <1>1, <2>1
  <2>. QED
    BY <1>1, <2>2
<1>. HIDE DEF new
<1>4. /\ DOMAIN all = 1..(m + n)
      /\ \A k \in 1..(m + n) : all[k] = IF k <= m THEN results[k] ELSE new[k - m]
  BY <1>1, <1>3 DEF Results
<1>. HIDE DEF all, m, n
<1>5. \A k \in 1..(m + n) : all[k].q = IF k <= m THEN results[k].q ELSE s[k - m]
  BY <1>1, <1>2, <1>4
<1>6. \A k \in 1..m, l \in 1..n : results[k].q # s[l]
  BY <1>1 DEF Qs, ToSet
<1>7. Once(all)
  <2>. SUFFICES ASSUME NEW k \in 1..(m + n), NEW l \in 1..(m + n), all[k].q = all[l].q
                PROVE  k = l
    BY <1>4 DEF Once
  <2>1. CASE k <= m /\ l <= m
    BY <1>1, <1>5, <2>1 DEF Once
  <2>2. CASE k <= m /\ l > m
    <3>1. k \in 1..m /\ l - m \in 1..n
      BY <1>1, <2>2
    <3>. QED
      BY <1>1, <1>5, <1>6, <2>2, <3>1
  <2>3. CASE k > m /\ l <= m
    <3>1. l \in 1..m /\ k - m \in 1..n
      BY <1>1, <2>3
    <3>. QED
      BY <1>1, <1>5, <1>6, <2>3, <3>1
  <2>4. CASE k > m /\ l > m
    <3>1. k - m \in 1..n /\ l - m \in 1..n /\ s[k - m] = s[l - m]
      BY <1>1, <1>5, <2>4
    <3>2. k - m = l - m
      BY <1>1, <3>1 DEF IsInjective
    <3>. QED
      BY <1>1, <3>2
  <2>. QED
    BY <1>1, <2>1, <2>2, <2>3, <2>4
<1>8. Qs(all) = Qs(results) \cup ToSet(s)
  <2>1. ASSUME NEW x \in Qs(all) PROVE x \in Qs(results) \cup ToSet(s)
    <3>1. PICK k \in 1..(m + n) : x = all[k].q
      BY <1>4 DEF Qs
    <3>2. CASE k <= m
      <4>1. k \in DOMAIN results /\ x = results[k].q
        BY <1>1, <1>5, <3>1, <3>2
      <4>. QED
        BY <4>1 DEF Qs
    <3>3. CASE k > m
      <4>1. k - m \in DOMAIN s /\ x = s[k - m]
        BY <1>1, <1>5, <3>1, <3>3
      <4>. QED
        BY <4>1 DEF ToSet
    <3>. QED
      BY <1>1, <3>2, <3>3
  <2>2. ASSUME NEW k \in 1..m PROVE results[k].q \in Qs(all)
    <3>1. k \in DOMAIN all /\ all[k].q = results[k].q
      BY <1>1, <1>4, <1>5
    <3>. QED
      BY <3>1 DEF Qs
  <2>3. ASSUME NEW l \in 1..n PROVE s[l] \in Qs(all)
    <3>1. m + l \in DOMAIN all /\ all[m + l].q = s[l]
      BY <1>1, <1>4, <1>5
    <3>. QED
      BY <3>1 DEF Qs
  <2>4. /\ \A x \in Qs(results) : \E k \in 1..m : x = results[k].q
        /\ \A x \in ToSet(s) : \E l \in 1..n : x = s[l]
    BY <1>1 DEF Qs, ToSet
  <2>. QED
    BY <2>1, <2>2, <2>3, <2>4
<1>. QED
  BY <1>7, <1>8 DEF all, new

\* As many results as questions, when each question has one and only one.
LEMMA SameLength ==
    ASSUME NEW results \in Results, Once(results), NEW asks \in Asks, IsInjective(asks),
           Qs(results) = ToSet(asks)
    PROVE  Len(results) = Len(asks)
<1>. DEFINE m == Len(results)
            n == Len(asks)
            S == ToSet(asks)
            f == [i \in 1..m |-> results[i].q]
<1>1. m \in Nat /\ DOMAIN results = 1..m /\ n \in Nat /\ DOMAIN asks = 1..n
  BY DEF Results, Asks
<1>2. f \in Bijection(1..m, S)
  <2>1. \A i \in 1..m : results[i].q \in S
    BY <1>1 DEF Qs
  <2>2. f \in Injection(1..m, S)
    BY <1>1, <2>1 DEF Once, Injection, IsInjective
  <2>3. \A x \in S : \E i \in 1..m : f[i] = x
    BY <1>1 DEF Qs
  <2>. QED
    BY <2>1, <2>2, <2>3 DEF Bijection, Surjection
<1>3. asks \in Bijection(1..n, S)
  <2>1. asks \in [1..n -> S]
    BY <1>1 DEF ToSet, Asks
  <2>2. asks \in Injection(1..n, S)
    BY <1>1, <2>1 DEF Injection, IsInjective
  <2>3. \A x \in S : \E i \in 1..n : asks[i] = x
    BY <1>1 DEF ToSet
  <2>. QED
    BY <2>1, <2>2, <2>3 DEF Bijection, Surjection
<1>. HIDE DEF f, m, n, S
<1>4. ExistsBijection(1..m, S) /\ ExistsBijection(1..n, S)
  BY <1>2, <1>3 DEF ExistsBijection
<1>5. /\ IsFiniteSet(1..m) /\ Cardinality(1..m) = m
      /\ IsFiniteSet(1..n) /\ Cardinality(1..n) = n
  BY <1>1, FS_Interval
<1>6. Cardinality(S) = m /\ Cardinality(S) = n
  BY <1>4, <1>5, FS_Bijection
<1>. QED
  BY <1>6 DEF m, n

-----------------------------------------------------------------------------
(* No list of questions names one twice; and what an attempt that is alone   *)
(* has found, still looks up and searches are the questions of its plan,     *)
(* each of them once.                                                        *)

AsksOnce ==
    /\ \A r \in Runs : \A i \in 1..Len(plans[r]) : IsInjective(plans[r][i].asks)
    /\ \A r \in Runs : IsInjective(file[r].asks)

Own(t)     == attempt[t].alone /\ ~attempt[t].capped
AsksOf(t)  == ToSet(plans[attempt[t].run][attempt[t].plan].asks)
Listing(t) == search[attempt[t].run]
Searched(t) == {q \in Questions : attempt[t].found[q] # "no"}

LooksUp(t) ==
    /\ Once(Listing(t).results)
    /\ IsInjective(attempt[t].todo)
    /\ Qs(Listing(t).results) \cap ToSet(attempt[t].todo) = {}
    /\ Qs(Listing(t).results) \cup (ToSet(attempt[t].todo) \cap Listing(t).checkpoint)
          = AsksOf(t) \cap Listing(t).checkpoint
    /\ Searched(t) = AsksOf(t) \ Listing(t).checkpoint

HasAll(t, results) == Once(results) /\ Qs(results) = AsksOf(t)

Whole(t) ==
    /\ attempt[t].pc = "search" => LooksUp(t)
    /\ attempt[t].pc = "aggregate" => HasAll(t, Listing(t).results)
    /\ attempt[t].pc \in After => HasAll(t, Runtime(t).results)
    /\ attempt[t].pc \in {"reported", "complete"} => Runtime(t).report = t

WholeInv == AsksOnce /\ \A t \in Attempts : Own(t) => Whole(t)

\* Everything an attempt is judged by stays as it is.
LEMMA WholeStays ==
    ASSUME NEW t \in Attempts, Own(t) => Whole(t),
           attempt'[t].alone => attempt[t].alone, attempt'[t].capped = attempt[t].capped,
           attempt'[t].pc = attempt[t].pc, attempt'[t].run = attempt[t].run,
           attempt'[t].plan = attempt[t].plan, attempt'[t].todo = attempt[t].todo,
           attempt'[t].found = attempt[t].found,
           search'[attempt[t].run] = search[attempt[t].run],
           runtime'[attempt[t].run].results = runtime[attempt[t].run].results,
           runtime'[attempt[t].run].report = runtime[attempt[t].run].report,
           plans'[attempt[t].run][attempt[t].plan].asks = plans[attempt[t].run][attempt[t].plan].asks
    PROVE  Own(t)' => Whole(t)'
<1>1. AsksOf(t)' = AsksOf(t) /\ Listing(t)' = Listing(t) /\ Searched(t)' = Searched(t)
  BY DEF AsksOf, Listing, Searched
<1>2. Runtime(t)'.results = Runtime(t).results /\ Runtime(t)'.report = Runtime(t).report
  BY DEF Runtime
<1>3. Own(t)' => Own(t)
  BY DEF Own
<1>4. LooksUp(t) => LooksUp(t)'
  BY <1>1 DEF LooksUp
<1>5. HasAll(t, Listing(t).results) => HasAll(t, Listing(t).results)'
  BY <1>1 DEF HasAll
<1>6. HasAll(t, Runtime(t).results) => HasAll(t, Runtime(t).results)'
  BY <1>1, <1>2 DEF HasAll
<1>. QED
  BY <1>2, <1>3, <1>4, <1>5, <1>6 DEF Whole

\* An attempt that is not at work is not judged.
LEMMA WholeAtRest ==
    ASSUME NEW t \in Attempts, attempt'[t].pc \notin Executing
    PROVE  Whole(t)'
BY DEF Whole, After, Executing, Searching

LEMMA SavedOnce ==
    ASSUME NEW x \in RuntimeRecords, NEW objects \in Seq(PlanObjects),
           x.plan \in 0..Len(objects),
           \A i \in 1..Len(objects) : IsInjective(objects[i].asks)
    PROVE  IsInjective(Saved(x, objects).asks)
<1>1. IsInjective(NoPlan)
  BY DEF NoPlan, IsInjective
<1>2. x.plan # 0 => x.plan \in 1..Len(objects)
  OBVIOUS
<1>. QED
  BY <1>1, <1>2 DEF Saved

LEMMA LiveOnce ==
    ASSUME TypeOK, AsksOnce, NEW r \in Runs
    PROVE  \A i \in 1..Len(LivePlans(r)) : IsInjective(LivePlans(r)[i].asks)
<1>1. CASE LivePlans(r) = plans[r]
  BY <1>1 DEF AsksOnce
<1>2. CASE LivePlans(r) = << Draft(file[r].asks, file[r].sound) >>
  BY <1>2 DEF AsksOnce, Draft
<1>3. CASE LivePlans(r) = <<>>
  BY <1>3
<1>. QED
  BY <1>1, <1>2, <1>3 DEF LivePlans, RehydratedPlans

LEMMA EditedOnce ==
    ASSUME TypeOK, AsksOnce, NEW r \in Runs, Live(r).plan # 0, NEW asks \in EditedAsks(r)
    PROVE  IsInjective(asks)
<1>. DEFINE old == LivePlans(r)[Live(r).plan].asks
            known == UNION {ToSet(LivePlans(r)[i].asks) : i \in DOMAIN LivePlans(r)}
                       \cup {Live(r).results[i].q : i \in DOMAIN Live(r).results}
<1>1. Live(r).plan \in 1..Len(LivePlans(r)) /\ LivePlans(r) \in Seq(PlanObjects)
  BY LiveIsOne
<1>2. LivePlans(r)[Live(r).plan] \in PlanObjects /\ Live(r).plan \in DOMAIN LivePlans(r)
  BY <1>1
<1>3. old \in Asks /\ IsInjective(old)
  BY <1>1, <1>2, LiveOnce DEF PlanObjects
<1>4. ToSet(old) \subseteq known
  BY <1>2
<1>5. \/ \E i \in DOMAIN old : asks = RemoveAt(old, i)
      \/ \E q \in Questions \ known : asks = Append(old, q)
      \/ asks = old
  BY DEF EditedAsks
<1>. HIDE DEF old, known
<1>. QED
  BY <1>3, <1>4, <1>5, RemovalIsInjective, AppendIsInjective

\* A request puts a runtime object and plan objects in the place of those of
\* its run: of a run with tasks, with the same report and the same questions.
Framed ==
    /\ AsksOnce'
    /\ \A s \in Runs : listed[s] \in {"live", "gone"} =>
          /\ runtime'[s].report = runtime[s].report
          /\ \A i \in 1..Len(plans[s]) : plans'[s][i].asks = plans[s][i].asks

LEMMA FrameOf ==
    ASSUME TypeInv, AsksOnce, NEW r \in Runs, NEW x, NEW objects,
           runtime' = [runtime EXCEPT ![r] = x], plans' = [plans EXCEPT ![r] = objects],
           \A i \in 1..Len(objects) : IsInjective(objects[i].asks),
           listed[r] \in {"live", "gone"} =>
               /\ x.report = runtime[r].report
               /\ \A i \in 1..Len(plans[r]) : objects[i].asks = plans[r][i].asks,
           file' = file \/ \E y : file' = [file EXCEPT ![r] = y] /\ IsInjective(y.asks)
    PROVE  Framed
<1>1. /\ runtime'[r] = x /\ plans'[r] = objects
      /\ \A s \in Runs \ {r} : runtime'[s] = runtime[s] /\ plans'[s] = plans[s]
  BY DEF TypeInv, TypeOK
<1>2. \A s \in Runs : IsInjective(file'[s].asks)
  <2>1. CASE file' = file
    BY <2>1 DEF AsksOnce
  <2>2. ASSUME NEW y, file' = [file EXCEPT ![r] = y], IsInjective(y.asks)
        PROVE  \A s \in Runs : IsInjective(file'[s].asks)
    <3>1. file'[r] = y /\ \A s \in Runs \ {r} : file'[s] = file[s]
      BY <2>2 DEF TypeInv, TypeOK
    <3>. QED
      BY <2>2, <3>1 DEF AsksOnce
  <2>. QED
    BY <2>1, <2>2
<1>3. AsksOnce'
  BY <1>1, <1>2 DEF AsksOnce
<1>. QED
  BY <1>1, <1>3 DEF Framed

LEMMA RequestFrames ==
    ASSUME TypeInv, AsksOnce, NEW r \in Runs, Requested(r)
    PROVE  Framed
<1>0. /\ runtime \in [Runs -> RuntimeRecords] /\ plans \in [Runs -> Seq(PlanObjects)]
      /\ runtime[r].plan \in 0..Len(plans[r]) /\ runtime[r] \in RuntimeRecords
      /\ plans[r] \in Seq(PlanObjects)
  BY DEF TypeInv, TypeOK
<1>1. /\ Live(r) \in RuntimeRecords /\ LivePlans(r) \in Seq(PlanObjects)
      /\ Live(r).plan \in 0..Len(LivePlans(r))
      /\ listed[r] # "archived" => Live(r) = runtime[r] /\ LivePlans(r) = plans[r]
      /\ \A i \in 1..Len(LivePlans(r)) : IsInjective(LivePlans(r)[i].asks)
  BY LiveIsOne, LiveOnce DEF TypeInv
<1>2. \A i \in 1..Len(plans[r]) : IsInjective(plans[r][i].asks)
  BY DEF AsksOnce
<1>3. ASSUME NEW key \in Keys \cup {NoKey}, Create(r, key) PROVE Framed
  <2>1. IsInjective(Saved(NewRuntime(key), <<>>).asks)
    <3>1. NewRuntime(key).plan = 0 /\ NewRuntime(key) \in RuntimeRecords
      BY NewRuntimeIsOne DEF NewRuntime
    <3>2. Saved(NewRuntime(key), <<>>).asks = NoPlan
      BY <3>1 DEF Saved
    <3>. QED
      BY <3>2 DEF NoPlan, IsInjective
  <2>2. /\ runtime' = [runtime EXCEPT ![r] = NewRuntime(key)]
        /\ plans' = [plans EXCEPT ![r] = plans[r]] /\ listed[r] = "fresh"
        /\ file' = [file EXCEPT ![r] = Saved(NewRuntime(key), <<>>)]
    BY <1>0, <1>3 DEF Create
  <2>. QED
    BY <1>2, <2>1, <2>2, FrameOf
<1>4. ASSUME NEW x \in RuntimeRecords, NEW objects \in Seq(PlanObjects),
             EndPlanning(r, x, objects), x.plan \in 0..Len(objects), x.report = runtime[r].report,
             \A i \in 1..Len(objects) : IsInjective(objects[i].asks)
      PROVE  Framed
  <2>1. /\ runtime' = [runtime EXCEPT ![r] = x] /\ plans' = [plans EXCEPT ![r] = objects]
        /\ file' = [file EXCEPT ![r] = Saved(x, objects)] /\ plans[r] = <<>>
    BY <1>4 DEF EndPlanning, TypeInv, Placed
  <2>2. IsInjective(Saved(x, objects).asks)
    BY <1>4, SavedOnce
  <2>3. \A i \in 1..Len(plans[r]) : objects[i].asks = plans[r][i].asks
    BY <2>1
  <2>. QED
    BY <1>4, <2>1, <2>2, <2>3, FrameOf
<1>5. CASE PlanReady(r)
  <2>. DEFINE x == [runtime[r] EXCEPT !.plan = 1, !.status = "plan_ready"]
              objects == << Draft(Plan, TRUE) >>
  <2>1. x \in RuntimeRecords /\ x.plan = 1 /\ x.report = runtime[r].report
    BY <1>0 DEF RuntimeRecords, Statuses
  <2>. HIDE DEF x
  <2>2. objects \in Seq(PlanObjects) /\ Len(objects) = 1 /\ objects[1].asks = Plan
    BY FirstDraft DEF Draft
  <2>3. /\ objects \in Seq(PlanObjects) /\ Len(objects) = 1
        /\ \A i \in 1..Len(objects) : IsInjective(objects[i].asks)
    <3>1. \A i \in 1..1 : i = 1
      OBVIOUS
    <3>2. IsInjective(Plan)
      BY ResearchAssumption
    <3>. HIDE DEF objects
    <3>. QED
      BY <2>2, <3>1, <3>2
  <2>4. EndPlanning(r, x, objects)
    BY <1>5 DEF PlanReady, x
  <2>. HIDE DEF x, objects
  <2>5. x.plan \in 0..Len(objects)
    BY <2>1, <2>3
  <2>. QED
    BY <1>4, <2>1, <2>3, <2>4, <2>5
<1>6. CASE PlanFails(r)
  <2>. DEFINE x == [runtime[r] EXCEPT !.status = "failed"]
  <2>1. x \in RuntimeRecords /\ x.plan = runtime[r].plan /\ x.report = runtime[r].report
    BY <1>0 DEF RuntimeRecords, Statuses
  <2>2. EndPlanning(r, x, plans[r])
    BY <1>6 DEF PlanFails
  <2>. HIDE DEF x
  <2>. QED
    BY <1>0, <1>2, <1>4, <2>1, <2>2
<1>7. CASE Edit(r)
  <2>1. PICK asks \in EditedAsks(r), sound \in BOOLEAN :
           LET objects == Append(LivePlans(r), Draft(asks, sound))
               x == [Live(r) EXCEPT !.plan = Len(objects), !.status = "plan_ready"]
           IN /\ plans' = [plans EXCEPT ![r] = objects]
              /\ runtime' = [runtime EXCEPT ![r] = x]
              /\ file' = [file EXCEPT ![r] = Saved(x, objects)]
    BY <1>7 DEF Edit
  <2>. DEFINE objects == Append(LivePlans(r), Draft(asks, sound))
              x == [Live(r) EXCEPT !.plan = Len(objects), !.status = "plan_ready"]
  <2>2. asks \in Asks /\ IsInjective(asks) /\ Listed(r)
    BY <1>7, EditsAreAsks, EditedOnce DEF Edit, TypeInv
  <2>3. Draft(asks, sound) \in PlanObjects /\ Draft(asks, sound).asks = asks
    BY <2>2, DraftIsOne
  <2>4. /\ objects \in Seq(PlanObjects) /\ Len(LivePlans(r)) \in Nat
        /\ Len(objects) = Len(LivePlans(r)) + 1
        /\ \A i \in 1..Len(LivePlans(r)) : objects[i] = LivePlans(r)[i]
        /\ objects[Len(objects)] = Draft(asks, sound)
    BY <1>1, <2>3
  <2>5. /\ plans' = [plans EXCEPT ![r] = objects] /\ runtime' = [runtime EXCEPT ![r] = x]
        /\ file' = [file EXCEPT ![r] = Saved(x, objects)]
    BY <2>1
  <2>. HIDE DEF objects
  <2>6. \A i \in 1..Len(objects) : IsInjective(objects[i].asks)
    <3>1. ASSUME NEW i \in 1..Len(objects) PROVE IsInjective(objects[i].asks)
      <4>1. CASE i = Len(objects)
        BY <2>2, <2>3, <2>4, <4>1
      <4>2. CASE i # Len(objects)
        <5>1. i \in 1..Len(LivePlans(r))
          BY <2>4, <4>2
        <5>. QED
          BY <1>1, <2>4, <5>1
      <4>. QED
        BY <4>1, <4>2
    <3>. QED
      BY <3>1
  <2>7. Len(objects) \in Nat /\ "plan_ready" \in Statuses
    BY <2>4 DEF Statuses
  <2>8. x \in RuntimeRecords /\ x.plan = Len(objects) /\ x.report = Live(r).report
    BY <1>1, <2>7 DEF RuntimeRecords
  <2>. HIDE DEF x
  <2>9. IsInjective(Saved(x, objects).asks)
    BY <2>4, <2>6, <2>7, <2>8, SavedOnce
  <2>10. listed[r] \in {"live", "gone"} =>
               /\ x.report = runtime[r].report
               /\ \A i \in 1..Len(plans[r]) : objects[i].asks = plans[r][i].asks
    BY <1>1, <2>4, <2>8
  <2>. QED
    BY <2>5, <2>6, <2>9, <2>10, FrameOf
<1>8. ASSUME NEW x, x.report = Live(r).report, runtime' = [runtime EXCEPT ![r] = x],
             plans' = [plans EXCEPT ![r] = LivePlans(r)], file' = file
      PROVE  Framed
  <2>1. listed[r] \in {"live", "gone"} =>
               /\ x.report = runtime[r].report
               /\ \A i \in 1..Len(plans[r]) : LivePlans(r)[i].asks = plans[r][i].asks
    BY <1>1, <1>8
  <2>. QED
    BY <1>1, <1>8, <2>1, FrameOf
<1>9. CASE EditRefused(r) \/ \E t \in Attempts : Start(r, t)
  <2>1. /\ runtime' = [runtime EXCEPT ![r] = Live(r)] /\ file' = file
        /\ plans' = [plans EXCEPT ![r] = LivePlans(r)]
    BY <1>9 DEF EditRefused, Start
  <2>. QED
    BY <1>8, <2>1
<1>10. CASE Cancel(r)
  <2>. DEFINE x == [Live(r) EXCEPT !.cancelled = TRUE, !.status = "cancelled"]
  <2>1. /\ runtime' = [runtime EXCEPT ![r] = x] /\ file' = file
        /\ plans' = [plans EXCEPT ![r] = LivePlans(r)]
    BY <1>10 DEF Cancel
  <2>2. x.report = Live(r).report
    BY <1>1 DEF RuntimeRecords
  <2>. HIDE DEF x
  <2>. QED
    BY <1>8, <2>1, <2>2
<1>11. CASE CancelTask(r) \/ Delete(r)
  <2>1. /\ runtime' = [runtime EXCEPT ![r] = runtime[r]] /\ plans' = [plans EXCEPT ![r] = plans[r]]
        /\ \/ file' = [file EXCEPT ![r] = Saved(runtime[r], plans[r])]
           \/ file' = [file EXCEPT ![r] = NoFile]
    BY <1>0, <1>11 DEF CancelTask, Delete
  <2>2. IsInjective(Saved(runtime[r], plans[r]).asks) /\ IsInjective(NoFile.asks)
    BY <1>0, <1>2, SavedOnce DEF NoFile, NoPlan, IsInjective
  <2>. QED
    BY <1>2, <2>1, <2>2, FrameOf
<1>. QED
  BY <1>3, <1>5, <1>6, <1>7, <1>9, <1>10, <1>11 DEF Requested

\* A request leaves the lists of the searches, and what tasks at work are at.
LEMMA RequestSpares ==
    ASSUME TypeInv, NEW r \in Runs, Requested(r)
    PROVE  /\ search' = search
           /\ \A t \in Attempts : attempt[t].pc \in Executing =>
                 /\ attempt'[t].todo = attempt[t].todo /\ attempt'[t].plan = attempt[t].plan
                 /\ attempt'[t].capped = attempt[t].capped
<1>1. search' = search
  BY DEF Requested, Create, PlanReady, PlanFails, EndPlanning, Edit, EditRefused, Start, Cancel,
     CancelTask, Delete
<1>2. \A t \in Attempts : attempt[t] \in AttemptRecords
  BY DEF TypeInv, TypeOK
<1>3. CASE attempt' = attempt
  BY <1>1, <1>3
<1>4. ASSUME NEW u \in Attempts, Start(r, u), NEW t \in Attempts, attempt[t].pc \in Executing
      PROVE  /\ attempt'[t].todo = attempt[t].todo /\ attempt'[t].plan = attempt[t].plan
             /\ attempt'[t].capped = attempt[t].capped
  <2>1. t # u
    BY <1>4 DEF Start, Executing, Searching
  <2>2. attempt'[t] \in {attempt[t], [attempt[t] EXCEPT !.alone = FALSE, !.known = {}]}
    BY <1>4, <2>1 DEF Start
  <2>. QED
    BY <1>2, <2>2 DEF AttemptRecords
<1>5. ASSUME Cancel(r), NEW t \in Attempts
      PROVE  /\ attempt'[t].todo = attempt[t].todo /\ attempt'[t].plan = attempt[t].plan
             /\ attempt'[t].capped = attempt[t].capped
  <2>1. \E d : attempt'[t] = [attempt[t] EXCEPT !.doomed = d]
    BY <1>5 DEF Cancel
  <2>. QED
    BY <1>2, <2>1 DEF AttemptRecords
<1>6. ASSUME CancelTask(r), NEW t \in Attempts
      PROVE  /\ attempt'[t].todo = attempt[t].todo /\ attempt'[t].plan = attempt[t].plan
             /\ attempt'[t].capped = attempt[t].capped
  <2>1. attempt'[t] \in {attempt[t], [attempt[t] EXCEPT !.kill = TRUE]}
    BY <1>6 DEF CancelTask
  <2>. QED
    BY <1>2, <2>1 DEF AttemptRecords
<1>7. \/ attempt' = attempt \/ (\E u \in Attempts : Start(r, u)) \/ Cancel(r) \/ CancelTask(r)
  BY DEF Requested, Create, PlanReady, PlanFails, EndPlanning, Edit, EditRefused, Delete
<1>. QED
  BY <1>1, <1>3, <1>4, <1>5, <1>6, <1>7

\* A step of a task leaves the questions of every plan, and other runs' lists.
LEMMA TaskSpares ==
    ASSUME TypeInv, NEW t \in Attempts, Attempt(t)
    PROVE  /\ \A s \in Runs : /\ Len(plans'[s]) = Len(plans[s])
                             /\ \A i \in 1..Len(plans[s]) : plans'[s][i].asks = plans[s][i].asks
           /\ \A s \in Runs \ {attempt[t].run} : search'[s] = search[s]
<1>. DEFINE r == attempt[t].run
<1>1. Alive(t) /\ r \in Runs
  BY AttemptStep DEF TaskStep
<1>2. /\ Runtime(t).plan \in 0..Len(plans[r]) /\ attempt[t].plan \in 0..Len(plans[r])
      /\ attempt[t].pc \in {"confirm"} \cup Executing => attempt[t].plan # 0
      /\ attempt[t].pc \in Executing => Runtime(t).plan # 0
      /\ Runtime(t) \in RuntimeRecords /\ Len(plans[r]) \in Nat
  BY <1>1, TaskIsOne
<1>3. plans' = plans \/ \E i \in 1..Len(plans[r]), st \in PlanStatuses : SetPlan(t, i, st)
  <2>1. {"confirmed", "executing", "completed", "failed"} \subseteq PlanStatuses
    BY DEF PlanStatuses
  <2>2. CASE Begin(t)
    <3>1. Ready(t) => Runtime(t).plan \in 1..Len(plans[r])
      BY <1>2 DEF Ready, Runtime
    <3>. QED
      BY <2>1, <2>2, <3>1 DEF Begin
  <2>3. CASE Execute(t)
    <3>1. attempt[t].plan \in 1..Len(plans[r])
      BY <1>2, <2>3 DEF Execute, At
    <3>. QED
      BY <2>1, <2>3, <3>1 DEF Execute
  <2>4. CASE EndSearch(t) \/ Complete(t) \/ Stop(t) \/ Fail(t)
    <3>1. attempt[t].pc \in Executing
      BY <2>4 DEF EndSearch, Complete, Stop, Fail, At, Executing, Searching
    <3>2. Runtime(t).plan \in 1..Len(plans[r])
      BY <1>2, <3>1
    <3>3. [Runtime(t) EXCEPT !.results = search[r].results, !.aggregated = TRUE].plan = Runtime(t).plan
      BY <1>2 DEF RuntimeRecords
    <3>4. plans' = plans \/ SetPlan(t, Runtime(t).plan, "completed") \/ SetPlan(t, Runtime(t).plan, "failed")
      BY <2>4, <3>3 DEF EndSearch, Complete, Stop, Fail, Cancelled
    <3>. QED
      BY <2>1, <3>2, <3>4
  <2>5. CASE \/ Unconfirmed(t) \/ Refuse(t) \/ Reuse(t) \/ (\E q \in Questions : EndQuestion(t, q))
             \/ Gather(t) \/ Cap(t) \/ BeginReport(t) \/ EndReport(t) \/ Close(t)
    BY <2>5 DEF Unconfirmed, Refuse, Reuse, EndQuestion, Gather, Cap, BeginReport, EndReport, Close
  <2>. QED
    BY <2>2, <2>3, <2>4, <2>5 DEF Attempt
<1>4. \A s \in Runs : /\ Len(plans'[s]) = Len(plans[s])
                      /\ \A i \in 1..Len(plans[s]) : plans'[s][i].asks = plans[s][i].asks
  BY <1>1, <1>3, SetPlanKeeps DEF TypeInv
<1>5. \A s \in Runs \ {r} : search'[s] = search[s]
  <2>1. search' = search \/ \E l : search' = [search EXCEPT ![r] = l]
    <3>1. CASE Execute(t)
      BY <3>1 DEF Execute
    <3>2. CASE Reuse(t)
      <4>1. search' = [search EXCEPT ![r] = [search[r] EXCEPT !.results =
                          Append(@, [q |-> attempt[t].todo[NextCached(t)], got |-> TRUE])]]
        BY <3>2 DEF Reuse
      <4>. QED
        BY <4>1
    <3>3. CASE Gather(t)
      <4>. DEFINE searched == SetToSeq({q \in Questions : attempt[t].found[q] # "no"})
                  new == [i \in DOMAIN searched |->
                            [q |-> searched[i], got |-> attempt[t].found[searched[i]] = "sources"]]
      <4>1. search' = [search EXCEPT ![r] = [search[r] EXCEPT !.results = @ \o new]]
        BY <3>3 DEF Gather
      <4>. HIDE DEF new
      <4>. QED
        BY <4>1
    <3>. QED
      BY <3>1, <3>2, <3>3 DEF Attempt, Begin, Unconfirmed, Refuse, EndQuestion, Cap, EndSearch,
         BeginReport, EndReport, Complete, Stop, Fail, Close
  <2>. QED
    BY <1>1, <2>1 DEF TypeInv, TypeOK
<1>. QED
  BY <1>4, <1>5

LEMMA TaskAsksOnce ==
    ASSUME TypeInv, AsksOnce, NEW t \in Attempts, Attempt(t)
    PROVE  AsksOnce'
<1>. DEFINE r == attempt[t].run
<1>1. \A s \in Runs : \A i \in 1..Len(plans'[s]) : IsInjective(plans'[s][i].asks)
  BY TaskSpares DEF AsksOnce
<1>2. Alive(t) /\ r \in Runs
  BY AttemptStep DEF TaskStep
<1>3. /\ Runtime(t) \in RuntimeRecords /\ Runtime(t).plan \in 0..Len(plans[r])
      /\ attempt[t].plan \in 0..Len(plans[r]) /\ plans[r] \in Seq(PlanObjects)
      /\ attempt[t].plan \in Nat
  BY <1>2, TaskIsOne DEF AttemptRecords
<1>4. \A s \in Runs : IsInjective(file'[s].asks)
  <2>1. CASE file' = file
    BY <2>1 DEF AsksOnce
  <2>2. ASSUME NEW x \in RuntimeRecords, x.plan \in 0..Len(plans[r]), Save(t, x)
        PROVE  \A s \in Runs : IsInjective(file'[s].asks)
    <3>1. IsInjective(Saved(x, plans[r]).asks)
      BY <1>2, <1>3, <2>2, SavedOnce DEF AsksOnce
    <3>2. /\ file'[r] = Saved(x, plans[r])
          /\ \A s \in Runs \ {r} : file'[s] = file[s]
      BY <1>2, <2>2 DEF Save, TypeInv, TypeOK
    <3>. QED
      BY <3>1, <3>2 DEF AsksOnce
  <2>3. CASE Refuse(t)
    <3>. DEFINE x == [Runtime(t) EXCEPT !.plan = attempt[t].plan, !.status = "plan_ready"]
    <3>1. x \in RuntimeRecords /\ x.plan = attempt[t].plan
      BY <1>3, PlannedIsOne DEF Statuses
    <3>2. Save(t, x)
      BY <2>3 DEF Refuse
    <3>. HIDE DEF x
    <3>. QED
      BY <1>3, <2>2, <3>1, <3>2
  <2>4. CASE Close(t)
    BY <1>3, <2>2, <2>4 DEF Close
  <2>5. CASE ~Refuse(t) /\ ~Close(t)
    <3>1. file' = file
      BY <2>5 DEF Attempt, Begin, Unconfirmed, Execute, Reuse, EndQuestion, Gather, Cap, EndSearch,
         BeginReport, EndReport, Complete, Stop, Fail
    <3>. QED
      BY <2>1, <3>1
  <2>. QED
    BY <2>3, <2>4, <2>5
<1>. QED
  BY <1>1, <1>4 DEF AsksOnce

LEMMA RestOfList ==
    ASSUME NEW s \in Asks, IsInjective(s), NEW i \in 1..Len(s)
    PROVE  LET rest == SubSeq(s, i + 1, Len(s))
           IN  /\ rest \in Asks /\ IsInjective(rest) /\ s[i] \notin ToSet(rest)
               /\ ToSet(rest) \subseteq ToSet(s)
               /\ \A x \in ToSet(s) \ ToSet(rest) : \E k \in 1..i : x = s[k]
<1>. DEFINE n == Len(s)
            rest == SubSeq(s, i + 1, n)
<1>1. n \in Nat /\ DOMAIN s = 1..n /\ s \in Seq(Questions)
  BY DEF Asks
<1>2. /\ rest \in Asks /\ DOMAIN rest = 1..(n - i)
      /\ \A k \in 1..(n - i) : rest[k] = s[k + i]
  BY <1>1 DEF Asks
<1>. HIDE DEF n, rest
<1>3. \A k, l \in 1..n : s[k] = s[l] => k = l
  BY <1>1 DEF IsInjective
<1>4. \A k \in 1..(n - i) : k + i \in 1..n /\ k + i # i
  BY <1>1
<1>5. IsInjective(rest)
  <2>. SUFFICES ASSUME NEW k \in 1..(n - i), NEW l \in 1..(n - i), rest[k] = rest[l] PROVE k = l
    BY <1>2 DEF IsInjective
  <2>1. s[k + i] = s[l + i]
    BY <1>2
  <2>2. k + i = l + i
    BY <1>3, <1>4, <2>1
  <2>. QED
    BY <1>1, <2>2
<1>6. s[i] \notin ToSet(rest)
  <2>. SUFFICES ASSUME NEW k \in 1..(n - i), rest[k] = s[i] PROVE FALSE
    BY <1>2 DEF ToSet
  <2>1. s[k + i] = s[i] /\ i \in 1..n
    BY <1>2 DEF n
  <2>. QED
    BY <1>3, <1>4, <2>1
<1>7. ToSet(rest) \subseteq ToSet(s)
  BY <1>1, <1>2, <1>4 DEF ToSet
<1>8. ASSUME NEW x \in ToSet(s) \ ToSet(rest) PROVE \E k \in 1..i : x = s[k]
  <2>1. PICK k \in 1..n : x = s[k]
    BY <1>1 DEF ToSet
  <2>2. CASE k > i
    <3>1. k - i \in 1..(n - i) /\ (k - i) + i = k
      BY <1>1, <2>2
    <3>2. rest[k - i] = s[k]
      BY <1>2, <3>1
    <3>3. x \in ToSet(rest)
      BY <1>2, <2>1, <3>1, <3>2 DEF ToSet
    <3>. QED
      BY <1>8, <3>3
  <2>3. CASE ~ (k > i)
    BY <1>1, <2>1, <2>3
  <2>. QED
    BY <2>2, <2>3
<1>. QED
  BY <1>2, <1>5, <1>6, <1>7, <1>8 DEF rest, n

\* The question whose result is reused next is the first one that can be.
LEMMA CachedIsFirst ==
    ASSUME TypeOK, NEW t \in Attempts
    PROVE  /\ NextCached(t) = 0 => ToSet(attempt[t].todo) \cap Listing(t).checkpoint = {}
           /\ NextCached(t) # 0 =>
                 /\ NextCached(t) \in 1..Len(attempt[t].todo)
                 /\ attempt[t].todo[NextCached(t)] \in Listing(t).checkpoint
                 /\ \A k \in 1..Len(attempt[t].todo) :
                       attempt[t].todo[k] \in Listing(t).checkpoint => NextCached(t) <= k
<1>. DEFINE n == Len(attempt[t].todo)
            I == {i \in 1..n : attempt[t].todo[i] \in Listing(t).checkpoint}
<1>1. attempt[t].todo \in Asks
  BY DEF TypeOK, AttemptRecords
<1>2. NextCached(t) = IF I # {} THEN Min(I) ELSE 0
  BY DEF NextCached, SelectInSeq, Listing
<1>3. n \in Nat /\ DOMAIN attempt[t].todo = 1..n
  BY <1>1 DEF Asks
<1>4. I # {} => Min(I) \in I /\ \A k \in I : Min(I) <= k
  <2>1. I \subseteq Nat
    BY <1>3
  <2>2. I # {} => \E x \in I : \A y \in I : x =< y
    BY <2>1, LeastIsThere
  <2>. QED
    BY <2>2 DEF Min
<1>5. I = {} => ToSet(attempt[t].todo) \cap Listing(t).checkpoint = {}
  BY <1>3 DEF ToSet
<1>6. I # {} => Min(I) \in 1..n /\ Min(I) # 0
  BY <1>3, <1>4
<1>. QED
  BY <1>2, <1>4, <1>5, <1>6

\* What is known of the plan an attempt has confirmed, and keeps.
LEMMA PlanIsKept ==
    ASSUME TypeInv, AsksOnce, NEW t \in Attempts, Attempt(t),
           attempt[t].pc \in {"confirm"} \cup Executing
    PROVE  LET asks == plans[attempt[t].run][attempt[t].plan].asks
           IN  /\ attempt[t].run \in Runs /\ attempt[t] \in AttemptRecords
               /\ asks \in Asks /\ IsInjective(asks) /\ AsksOf(t) = ToSet(asks)
               /\ AsksOf(t) \in SUBSET Questions
               /\ attempt'[t].run = attempt[t].run /\ attempt'[t].plan = attempt[t].plan =>
                     AsksOf(t)' = AsksOf(t)
<1>. DEFINE r == attempt[t].run
            i == attempt[t].plan
            asks == plans[r][i].asks
<1>1. /\ r \in Runs /\ i \in 0..Len(plans[r]) /\ i # 0 /\ plans[r] \in Seq(PlanObjects)
      /\ attempt[t] \in AttemptRecords
  BY TaskIsAlive, TaskIsOne
<1>2. i \in 1..Len(plans[r]) /\ plans[r][i] \in PlanObjects
  BY <1>1
<1>3. asks \in Asks /\ IsInjective(asks)
  BY <1>1, <1>2 DEF PlanObjects, AsksOnce
<1>4. ToSet(asks) \subseteq Questions
  BY <1>3 DEF Asks, ToSet
<1>5. plans'[r][i].asks = asks
  BY <1>1, <1>2, TaskSpares
<1>. QED
  BY <1>1, <1>3, <1>4, <1>5 DEF AsksOf

\* A search begins with an empty list, all questions of its plan to look up,
\* and those to search that are not in its checkpoint.
LEMMA ExecuteLooksUp ==
    ASSUME TypeInv, AsksOnce, NEW t \in Attempts, Execute(t)
    PROVE  Whole(t)'
<1>. DEFINE r == attempt[t].run
            asks == plans[r][attempt[t].plan].asks
            cp == Found(runtime[r].results)
            found == [q \in Questions |-> IF q \in ToSet(asks) \ cp THEN "asked" ELSE "no"]
            next == [attempt[t] EXCEPT !.pc = "search", !.todo = asks, !.found = found]
<1>0. attempt[t].pc = "confirm" /\ Attempt(t)
  BY DEF Execute, At, Attempt
<1>1. /\ r \in Runs /\ attempt[t] \in AttemptRecords
      /\ asks \in Asks /\ IsInjective(asks) /\ AsksOf(t) = ToSet(asks)
      /\ AsksOf(t) \in SUBSET Questions
      /\ attempt'[t].run = attempt[t].run /\ attempt'[t].plan = attempt[t].plan =>
            AsksOf(t)' = AsksOf(t)
  BY <1>0, PlanIsKept
<1>2. attempt'[t] = next
  BY DEF Execute, TypeInv, TypeOK
<1>3. /\ next.pc = "search" /\ next.todo = asks /\ next.found = found
      /\ next.run = r /\ next.plan = attempt[t].plan
  BY <1>1 DEF AttemptRecords
<1>4. search'[r] = [results |-> <<>>, checkpoint |-> cp]
  <2>1. search' = [search EXCEPT ![r] = [results |-> <<>>, checkpoint |-> cp]]
    BY DEF Execute
  <2>. HIDE DEF cp
  <2>. QED
    BY <1>1, <2>1 DEF TypeInv, TypeOK
<1>5. /\ Listing(t)'.results = <<>> /\ Listing(t)'.checkpoint = cp
      /\ AsksOf(t)' = ToSet(asks) /\ attempt'[t].todo = asks
  <2>. HIDE DEF cp, asks, found, next
  <2>1. attempt'[t].run = r
    BY <1>2, <1>3
  <2>. QED
    BY <1>1, <1>2, <1>3, <1>4, <2>1 DEF Listing
<1>6. Searched(t)' = ToSet(asks) \ cp
  <2>1. \A q \in Questions : attempt'[t].found[q] # "no" <=> q \in ToSet(asks) \ cp
    BY <1>2, <1>3
  <2>. HIDE DEF cp, asks, found, next
  <2>. QED
    BY <1>1, <2>1 DEF Searched
<1>7. Once(<<>>) /\ Qs(<<>>) = {}
  BY DEF Once, Qs
<1>. HIDE DEF cp, asks, found, next
<1>8. LooksUp(t)'
  BY <1>1, <1>5, <1>6, <1>7 DEF LooksUp
<1>. QED
  BY <1>2, <1>3, <1>8 DEF Whole, After

LEMMA ReuseLooksUp ==
    ASSUME TypeInv, AsksOnce, NEW t \in Attempts, Reuse(t), LooksUp(t)
    PROVE  Whole(t)'
<1>. DEFINE r == attempt[t].run
            i == NextCached(t)
            todo == attempt[t].todo
            rest == SubSeq(todo, i + 1, Len(todo))
            a == todo[i]
            results == search[r].results
            cp == search[r].checkpoint
            next == [attempt[t] EXCEPT !.todo = rest]
            more == Append(results, [q |-> a, got |-> TRUE])
<1>0. attempt[t].pc = "search" /\ Attempt(t) /\ i # 0
  BY DEF Reuse, At, Attempt
<1>1. /\ r \in Runs /\ attempt[t] \in AttemptRecords
      /\ AsksOf(t) \in SUBSET Questions
      /\ attempt'[t].run = attempt[t].run /\ attempt'[t].plan = attempt[t].plan =>
            AsksOf(t)' = AsksOf(t)
  BY <1>0, PlanIsKept DEF Executing, Searching
<1>2. /\ Once(results) /\ IsInjective(todo) /\ Qs(results) \cap ToSet(todo) = {}
      /\ Qs(results) \cup (ToSet(todo) \cap cp) = AsksOf(t) \cap cp
      /\ Searched(t) = AsksOf(t) \ cp
  BY DEF LooksUp, Listing
<1>3. /\ i \in 1..Len(todo) /\ a \in cp
      /\ \A k \in 1..Len(todo) : todo[k] \in cp => i <= k
  BY <1>0, CachedIsFirst DEF TypeInv, Listing
<1>4. /\ todo \in Asks /\ results \in Results /\ Len(todo) \in Nat /\ a \in Questions
      /\ a \in ToSet(todo) /\ search[r] \in [results : Results, checkpoint : SUBSET Questions]
  <2>1. todo \in Asks /\ search[r] \in [results : Results, checkpoint : SUBSET Questions]
    BY <1>1 DEF AttemptRecords, TypeInv, TypeOK
  <2>2. Len(todo) \in Nat /\ DOMAIN todo = 1..Len(todo) /\ a \in Questions
    BY <1>3, <2>1 DEF Asks
  <2>. QED
    BY <1>3, <2>1, <2>2 DEF ToSet
<1>5. /\ rest \in Asks /\ IsInjective(rest) /\ a \notin ToSet(rest)
      /\ ToSet(rest) \subseteq ToSet(todo)
      /\ \A x \in ToSet(todo) \ ToSet(rest) : \E k \in 1..i : x = todo[k]
  BY <1>2, <1>3, <1>4, RestOfList
<1>6. ToSet(todo) \cap cp = (ToSet(rest) \cap cp) \cup {a}
  <2>1. ASSUME NEW x \in ToSet(todo) \cap cp, x \notin ToSet(rest) PROVE x = a
    <3>1. PICK k \in 1..i : x = todo[k]
      BY <1>5, <2>1
    <3>2. k \in 1..Len(todo) /\ i <= k
      BY <1>3, <1>4, <2>1, <3>1
    <3>3. k = i
      BY <1>3, <1>4, <3>1, <3>2
    <3>. QED
      BY <3>1, <3>3
  <2>. HIDE DEF rest, a, todo, cp
  <2>. QED
    BY <1>3, <1>4, <1>5, <2>1
<1>7. Once(more) /\ Qs(more) = Qs(results) \cup {a}
  BY <1>2, <1>4, AnotherResult
<1>8. /\ attempt'[t] = next /\ next.pc = "search" /\ next.todo = rest /\ next.run = r
      /\ next.plan = attempt[t].plan /\ next.found = attempt[t].found
  BY <1>0, <1>1 DEF AttemptRecords, Reuse, TypeInv, TypeOK
<1>9. search'[r].results = more /\ search'[r].checkpoint = cp
  <2>1. search' = [search EXCEPT ![r].results = more]
    BY <1>1 DEF Reuse, TypeInv, TypeOK
  <2>. HIDE DEF more
  <2>. QED
    BY <1>1, <1>4, <2>1 DEF TypeInv, TypeOK
<1>. HIDE DEF next, more
<1>10. /\ Listing(t)'.results = more /\ Listing(t)'.checkpoint = cp
       /\ attempt'[t].todo = rest /\ AsksOf(t)' = AsksOf(t) /\ Searched(t)' = Searched(t)
  BY <1>1, <1>8, <1>9 DEF Listing, Searched
<1>. HIDE DEF rest, a, results, cp, i
<1>11. (Qs(results) \cup {a}) \cap ToSet(rest) = {}
  BY <1>2, <1>5
<1>12. (Qs(results) \cup {a}) \cup (ToSet(rest) \cap cp) = AsksOf(t) \cap cp
  BY <1>2, <1>6
<1>13. LooksUp(t)'
  BY <1>2, <1>5, <1>7, <1>10, <1>11, <1>12 DEF LooksUp
<1>. QED
  BY <1>8, <1>13 DEF Whole, After

\* When every result is there, reused or searched, they are those of the plan.
LEMMA GatherHasAll ==
    ASSUME TypeInv, AsksOnce, NEW t \in Attempts, Gather(t), LooksUp(t)
    PROVE  Whole(t)'
<1>. DEFINE r == attempt[t].run
            searched == SetToSeq(Searched(t))
            found == attempt[t].found
            new == [i \in DOMAIN searched |->
                      [q |-> searched[i], got |-> found[searched[i]] = "sources"]]
            next == [attempt[t] EXCEPT !.pc = "aggregate"]
            results == search[r].results
            cp == search[r].checkpoint
            all == results \o new
<1>0. attempt[t].pc = "search" /\ Attempt(t) /\ NextCached(t) = 0
  BY DEF Gather, At, Attempt
<1>1. /\ r \in Runs /\ attempt[t] \in AttemptRecords
      /\ AsksOf(t) \in SUBSET Questions
      /\ attempt'[t].run = attempt[t].run /\ attempt'[t].plan = attempt[t].plan =>
            AsksOf(t)' = AsksOf(t)
  BY <1>0, PlanIsKept DEF Executing, Searching
<1>2. /\ Once(results) /\ Qs(results) \cup (ToSet(attempt[t].todo) \cap cp) = AsksOf(t) \cap cp
      /\ Searched(t) = AsksOf(t) \ cp
  BY DEF LooksUp, Listing
<1>3. ToSet(attempt[t].todo) \cap cp = {}
  BY <1>0, CachedIsFirst DEF TypeInv, Listing
<1>4. search[r] \in [results : Results, checkpoint : SUBSET Questions] /\ results \in Results
  BY <1>1 DEF TypeInv, TypeOK
<1>5. Qs(results) = AsksOf(t) \cap cp
  BY <1>2, <1>3
<1>6. Searched(t) \in SUBSET Questions /\ IsFiniteSet(Searched(t))
  BY ResearchAssumption, FS_Subset DEF Searched
<1>7. searched \in Asks /\ IsInjective(searched) /\ ToSet(searched) = Searched(t)
  <2>1. searched \in Seq(Searched(t)) /\ IsInjective(searched) /\ ToSet(searched) = Searched(t)
    BY <1>6, SetToSeqIsOne, SetToSeqIsWhole
  <2>. QED
    BY <1>6, <2>1 DEF Asks
<1>8. search' = [search EXCEPT ![r].results = results \o new]
  BY <1>4 DEF Gather, Searched, TypeInv, TypeOK
<1>. HIDE DEF searched
<1>9. ToSet(searched) \cap Qs(results) = {}
  BY <1>2, <1>5, <1>7
<1>10. Once(all) /\ Qs(all) = Qs(results) \cup ToSet(searched)
  <2>. DEFINE fn == found
  <2>. HIDE DEF results
  <2>. QED
    BY <1>2, <1>4, <1>7, <1>9, Gathered
<1>11. Qs(all) = AsksOf(t)
  BY <1>2, <1>5, <1>7, <1>10
<1>12. search'[r].results = all
  <2>. HIDE DEF new
  <2>. QED
    BY <1>1, <1>4, <1>8 DEF TypeInv, TypeOK
<1>13. /\ attempt'[t] = next /\ next.pc = "aggregate" /\ next.run = r
       /\ next.plan = attempt[t].plan
  BY <1>1 DEF AttemptRecords, Gather, Goto, TypeInv, TypeOK
<1>. HIDE DEF next, all
<1>14. Listing(t)'.results = all /\ AsksOf(t)' = AsksOf(t)
  BY <1>1, <1>12, <1>13 DEF Listing
<1>15. HasAll(t, Listing(t).results)'
  BY <1>10, <1>11, <1>14 DEF HasAll
<1>. QED
  BY <1>13, <1>15 DEF Whole, After

\* An attempt that has all its results goes on with them.
LEMMA StaysWhole ==
    ASSUME TypeInv, AsksOnce, NEW t \in Attempts, Attempt(t), attempt[t].pc \in Executing,
           NEW next, attempt' = [attempt EXCEPT ![t] = next], next.run = attempt[t].run,
           next.plan = attempt[t].plan, next.pc \in After,
           NEW x, SetRuntime(t, x), HasAll(t, x.results),
           next.pc \in {"reported", "complete"} => x.report = t
    PROVE  Whole(t)'
<1>1. /\ attempt[t].run \in Runs
      /\ attempt'[t].run = attempt[t].run /\ attempt'[t].plan = attempt[t].plan =>
            AsksOf(t)' = AsksOf(t)
  BY PlanIsKept
<1>2. attempt'[t] = next
  BY DEF TypeInv, TypeOK
<1>3. runtime'[attempt[t].run] = x
  BY <1>1 DEF SetRuntime, TypeInv, TypeOK
<1>4. Runtime(t)' = x /\ AsksOf(t)' = AsksOf(t)
  BY <1>1, <1>2, <1>3 DEF Runtime
<1>5. HasAll(t, Runtime(t).results)'
  BY <1>4 DEF HasAll
<1>. QED
  BY <1>2, <1>4, <1>5 DEF Whole, After

\* A question whose search has ended is still one that was searched.
LEMMA QuestionLooksUp ==
    ASSUME TypeInv, AsksOnce, NEW t \in Attempts, NEW q \in Questions, EndQuestion(t, q), LooksUp(t)
    PROVE  Whole(t)'
<1>0. attempt[t].pc = "search" /\ Attempt(t) /\ attempt[t].found[q] = "asked"
  BY DEF EndQuestion, At, Attempt
<1>1. /\ attempt[t].run \in Runs /\ attempt[t] \in AttemptRecords
      /\ attempt'[t].run = attempt[t].run /\ attempt'[t].plan = attempt[t].plan =>
            AsksOf(t)' = AsksOf(t)
  BY <1>0, PlanIsKept DEF Executing, Searching
<1>2. PICK outcome \in {"sources", "nothing"} : attempt' = [attempt EXCEPT ![t].found[q] = outcome]
  BY DEF EndQuestion
<1>. DEFINE found == [attempt[t].found EXCEPT ![q] = outcome]
            next == [attempt[t] EXCEPT !.found = found]
<1>3. attempt'[t] = next
  BY <1>2 DEF TypeInv, TypeOK
<1>4. /\ next.pc = "search" /\ next.run = attempt[t].run /\ next.plan = attempt[t].plan
      /\ next.todo = attempt[t].todo /\ next.found = found
  BY <1>0, <1>1 DEF AttemptRecords
<1>5. \A p \in Questions : found[p] # "no" <=> attempt[t].found[p] # "no"
  BY <1>0, <1>1 DEF AttemptRecords
<1>6. search' = search
  BY DEF EndQuestion
<1>. HIDE DEF next, found
<1>7. /\ Searched(t)' = Searched(t) /\ Listing(t)' = Listing(t) /\ AsksOf(t)' = AsksOf(t)
      /\ attempt'[t].todo = attempt[t].todo
  BY <1>1, <1>3, <1>4, <1>5, <1>6 DEF Searched, Listing
<1>8. LooksUp(t)'
  BY <1>7 DEF LooksUp
<1>. QED
  BY <1>3, <1>4, <1>8 DEF Whole, After

\* A step of an attempt, from its reset to its end.
LEMMA OwnStepIsWhole ==
    ASSUME TypeInv, AsksOnce, NEW t \in Attempts, Attempt(t), Own(t) => Whole(t)
    PROVE  Own(t)' => Whole(t)'
<1>0. /\ Alive(t) /\ attempt[t].run \in Runs
      /\ attempt'[t].pc \notin {"idle", "done", "closing"} => attempt'[t].alone = attempt[t].alone
      /\ attempt[t] \in AttemptRecords /\ Runtime(t) \in RuntimeRecords
      /\ search[attempt[t].run] \in [results : Results, checkpoint : SUBSET Questions]
  BY AttemptStep, TaskIsOne DEF TaskStep, Steps
<1>1. \A next : attempt' = [attempt EXCEPT ![t] = next] => attempt'[t] = next
  BY DEF TypeInv, TypeOK
<1>2. CASE Begin(t) \/ Unconfirmed(t) \/ Refuse(t) \/ Close(t)
  <2>1. CASE End(t)
    <3>1. attempt'[t] = Ended
      BY <1>1, <2>1 DEF End
    <3>2. attempt'[t].pc \notin Executing
      BY <3>1, AttemptsAreOnes DEF Executing, Searching
    <3>. QED
      BY <3>2, WholeAtRest
  <2>2. CASE ~End(t)
    <3>1. attempt' = [attempt EXCEPT ![t] = [attempt[t] EXCEPT !.pc = "confirm", !.plan = Runtime(t).plan]]
      BY <1>2, <2>2 DEF Begin, Unconfirmed, Refuse, Close, TypeInv, TypeOK
    <3>2. attempt'[t] = [attempt[t] EXCEPT !.pc = "confirm", !.plan = Runtime(t).plan]
      BY <1>1, <3>1
    <3>3. attempt'[t].pc = "confirm"
      BY <1>0, <3>2 DEF AttemptRecords
    <3>. QED
      BY <3>3, WholeAtRest DEF Executing, Searching
  <2>. QED
    BY <2>1, <2>2
<1>3. CASE Execute(t)
  BY <1>3, ExecuteLooksUp
<1>4. ASSUME attempt[t].pc = "search", attempt'[t].pc \in {"search", "aggregate"},
             attempt'[t].capped = attempt[t].capped, ~ (Own(t) => LooksUp(t))
      PROVE  FALSE
  BY <1>4 DEF Whole
<1>5. CASE Reuse(t) \/ (\E q \in Questions : EndQuestion(t, q)) \/ Gather(t)
  <2>1. attempt[t].pc = "search"
    BY <1>5 DEF Reuse, EndQuestion, Gather, At
  <2>2. /\ attempt'[t].pc \in {"search", "aggregate"}
        /\ attempt'[t].capped = attempt[t].capped
    <3>1. CASE Reuse(t)
      <4>. DEFINE next == [attempt[t] EXCEPT !.todo = SubSeq(@, NextCached(t) + 1, Len(@))]
      <4>1. attempt' = [attempt EXCEPT ![t] = next]
        BY <3>1 DEF Reuse, TypeInv, TypeOK
      <4>2. next.pc = attempt[t].pc /\ next.capped = attempt[t].capped
        BY <1>0 DEF AttemptRecords
      <4>. QED
        BY <1>1, <2>1, <4>1, <4>2
    <3>2. ASSUME NEW q \in Questions, EndQuestion(t, q)
          PROVE  attempt'[t].pc = attempt[t].pc /\ attempt'[t].capped = attempt[t].capped
      <4>1. \E o : attempt' = [attempt EXCEPT ![t] = [attempt[t] EXCEPT !.found[q] = o]]
        BY <3>2 DEF EndQuestion, TypeInv, TypeOK
      <4>2. \E o : attempt'[t] = [attempt[t] EXCEPT !.found[q] = o]
        BY <1>1, <4>1
      <4>. QED
        BY <1>0, <4>2 DEF AttemptRecords
    <3>3. CASE Gather(t)
      <4>1. attempt' = [attempt EXCEPT ![t] = [attempt[t] EXCEPT !.pc = "aggregate"]]
        BY <3>3 DEF Gather, Goto, TypeInv, TypeOK
      <4>2. attempt'[t] = [attempt[t] EXCEPT !.pc = "aggregate"]
        BY <1>1, <4>1
      <4>. QED
        BY <1>0, <4>2 DEF AttemptRecords
    <3>. QED
      BY <1>5, <2>1, <3>1, <3>2, <3>3
  <2>3. Own(t)' => Own(t)
    BY <1>0, <2>2 DEF Own
  <2>4. Own(t)' => LooksUp(t)
    BY <2>1, <2>3 DEF Whole
  <2>. QED
    BY <1>5, <2>4, ReuseLooksUp, QuestionLooksUp, GatherHasAll
<1>6. CASE Cap(t)
  <2>1. attempt' = [attempt EXCEPT ![t] = [attempt[t] EXCEPT !.pc = "aggregate", !.capped = TRUE]]
    BY <1>6 DEF Cap, TypeInv, TypeOK
  <2>2. attempt'[t] = [attempt[t] EXCEPT !.pc = "aggregate", !.capped = TRUE]
    BY <1>1, <2>1
  <2>3. attempt'[t].capped
    BY <1>0, <2>2 DEF AttemptRecords
  <2>. QED
    BY <2>3 DEF Own
<1>7. ASSUME Wind(t) PROVE Whole(t)'
  <2>1. PICK next \in AttemptRecords : /\ attempt' = [attempt EXCEPT ![t] = next]
                                       /\ next.pc = "closing"
    BY <1>0, <1>7, WoundIsOne
  <2>2. attempt'[t].pc = "closing"
    BY <1>1, <2>1
  <2>. QED
    BY <2>2, WholeAtRest DEF Executing, Searching
<1>8. CASE EndSearch(t)
  <2>. DEFINE x == [Runtime(t) EXCEPT !.results = search[attempt[t].run].results, !.aggregated = TRUE]
  <2>1. CASE Wind(t)
    BY <1>7, <2>1
  <2>2. CASE ~Wind(t)
    <3>. DEFINE y == [x EXCEPT !.status = "generating"]
                next == [attempt[t] EXCEPT !.pc = "announce", !.known = {}, !.found = Idle.found]
    <3>1. attempt' = [attempt EXCEPT ![t] = next]
      BY <1>8, <2>2 DEF EndSearch, Cancelled, TypeInv, TypeOK
    <3>2. SetRuntime(t, y) /\ attempt[t].pc = "aggregate"
      BY <1>8, <2>2 DEF EndSearch, Cancelled, At
    <3>3. /\ next.pc = "announce" /\ next.run = attempt[t].run /\ next.plan = attempt[t].plan
          /\ next.alone = attempt[t].alone /\ next.capped = attempt[t].capped
      BY <1>0 DEF AttemptRecords
    <3>4. y.results = Listing(t).results
      BY <1>0 DEF RuntimeRecords, Listing
    <3>. HIDE DEF next, x, y
    <3>5. Own(t)' => Own(t)
      BY <1>1, <3>1, <3>3 DEF Own
    <3>6. Own(t) => HasAll(t, y.results)
      BY <3>2, <3>4 DEF Whole
    <3>. QED
      BY <3>1, <3>2, <3>3, <3>5, <3>6, StaysWhole DEF After, Executing, Searching
  <2>. QED
    BY <2>1, <2>2
<1>9. CASE BeginReport(t) \/ EndReport(t) \/ Complete(t)
  <2>1. attempt[t].pc \in After /\ attempt[t].pc \in Executing
    BY <1>9 DEF BeginReport, EndReport, Complete, At, After, Executing
  <2>2. PICK pc \in {"report", "reported", "complete"} : Goto(t, pc)
    BY <1>9 DEF BeginReport, EndReport, Complete
  <2>. DEFINE next == [attempt[t] EXCEPT !.pc = pc]
  <2>3. attempt' = [attempt EXCEPT ![t] = next]
    BY <2>2 DEF Goto, TypeInv, TypeOK
  <2>4. /\ next.pc = pc /\ next.run = attempt[t].run /\ next.plan = attempt[t].plan
        /\ next.alone = attempt[t].alone /\ next.capped = attempt[t].capped
    BY <1>0 DEF AttemptRecords
  <2>. HIDE DEF next
  <2>5. Own(t)' => Own(t)
    BY <1>1, <2>3, <2>4 DEF Own
  <2>6. Own(t) => HasAll(t, Runtime(t).results)
    BY <2>1 DEF Whole
  <2>7. Own(t) => \E x : /\ SetRuntime(t, x) /\ x.results = Runtime(t).results
                         /\ pc \in {"reported", "complete"} => x.report = t
    <3>1. CASE BeginReport(t)
      <4>1. SetRuntime(t, Runtime(t))
        BY <3>1 DEF BeginReport, SetRuntime, Runtime, TypeInv, TypeOK
      <4>2. attempt'[t].pc = "report" /\ pc = "report"
        <5>1. attempt' = [attempt EXCEPT ![t] = [attempt[t] EXCEPT !.pc = "report"]]
          BY <3>1 DEF BeginReport, Goto, TypeInv, TypeOK
        <5>2. attempt'[t] = [attempt[t] EXCEPT !.pc = "report"] /\ attempt'[t] = next
          BY <1>1, <2>3, <5>1
        <5>. QED
          BY <1>0, <2>4, <5>2 DEF AttemptRecords
      <4>. QED
        BY <4>1, <4>2
    <3>2. CASE EndReport(t)
      <4>. DEFINE y == [Runtime(t) EXCEPT !.report = t]
      <4>1. SetRuntime(t, y)
        BY <3>2 DEF EndReport
      <4>2. y.results = Runtime(t).results /\ y.report = t
        BY <1>0 DEF RuntimeRecords
      <4>. HIDE DEF y
      <4>. QED
        BY <4>1, <4>2
    <3>3. CASE Complete(t)
      <4>. DEFINE y == [Runtime(t) EXCEPT !.status = "completed"]
      <4>1. SetRuntime(t, y) /\ attempt[t].pc = "reported"
        BY <3>3 DEF Complete, At
      <4>2. y.results = Runtime(t).results /\ y.report = Runtime(t).report
        BY <1>0 DEF RuntimeRecords
      <4>. HIDE DEF y
      <4>3. Own(t) => Runtime(t).report = t
        BY <4>1 DEF Whole
      <4>. QED
        BY <4>1, <4>2, <4>3
    <3>. QED
      BY <1>9, <3>1, <3>2, <3>3
  <2>8. next.pc \in After
    BY <2>4 DEF After
  <2>9. CASE Own(t)
    <3>1. PICK x : /\ SetRuntime(t, x) /\ x.results = Runtime(t).results
                   /\ pc \in {"reported", "complete"} => x.report = t
      BY <2>7, <2>9
    <3>2. HasAll(t, x.results)
      BY <2>6, <2>9, <3>1
    <3>. QED
      BY <2>1, <2>3, <2>4, <2>8, <3>1, <3>2, StaysWhole
  <2>. QED
    BY <2>5, <2>9
<1>10. CASE Stop(t) \/ Fail(t)
  BY <1>7, <1>10 DEF Stop, Fail, Cancelled
<1>. QED
  BY <1>2, <1>3, <1>5, <1>6, <1>8, <1>9, <1>10 DEF Attempt

LEMMA WholeInit == Init => WholeInv
<1>. SUFFICES ASSUME Init PROVE WholeInv
  OBVIOUS
<1>1. /\ \A r \in Runs : plans[r] = <<>> /\ file[r] = NoFile
      /\ \A t \in Attempts : attempt[t] = Idle
  BY DEF Init
<1>2. IsInjective(NoFile.asks)
  BY DEF NoFile, NoPlan, IsInjective
<1>3. AsksOnce
  BY <1>1, <1>2 DEF AsksOnce
<1>4. \A t \in Attempts : attempt[t].pc \notin Executing
  BY <1>1, AttemptsAreOnes DEF Executing, Searching
<1>5. \A t \in Attempts : Whole(t)
  BY <1>4 DEF Whole, After, Executing, Searching
<1>. QED
  BY <1>3, <1>5 DEF WholeInv

\* A request changes nothing an attempt at work is judged by.
LEMMA RequestLeavesWhole ==
    ASSUME TypeInv, AsksOnce, NEW r \in Runs, Requested(r), NEW t \in Attempts,
           Own(t) => Whole(t)
    PROVE  Own(t)' => Whole(t)'
<1>1. RequestStep(r)
  BY RequestedStep
<1>2. CASE attempt'[t].pc \notin Executing
  BY <1>2, WholeAtRest
<1>3. CASE attempt'[t].pc \in Executing
  <2>. DEFINE s == attempt[t].run
  <2>1. Kept(t, r)
    BY <1>1, <1>3 DEF RequestStep, Made, Executing, Searching
  <2>2. /\ attempt'[t].run = s /\ attempt'[t].pc = attempt[t].pc
        /\ attempt'[t].found = attempt[t].found
        /\ attempt'[t].alone => attempt[t].alone
    BY <2>1 DEF Kept
  <2>3. attempt[t].pc \in Executing /\ Alive(t)
    BY <1>3, <2>2 DEF Alive, Executing, Searching
  <2>4. s \in Runs /\ listed[s] \in {"live", "gone"}
    BY <2>3, TaskIsOne DEF TypeInv, Placed
  <2>5. attempt[t].plan \in 1..Len(plans[s])
    BY <2>3, TaskIsOne
  <2>6. /\ search' = search /\ attempt'[t].todo = attempt[t].todo
        /\ attempt'[t].plan = attempt[t].plan /\ attempt'[t].capped = attempt[t].capped
    BY <2>3, RequestSpares
  <2>7. runtime'[s].results = runtime[s].results
    BY <1>1, <2>4 DEF RequestStep
  <2>8. /\ runtime'[s].report = runtime[s].report
        /\ plans'[s][attempt[t].plan].asks = plans[s][attempt[t].plan].asks
    <3>1. Framed
      BY RequestFrames
    <3>. HIDE DEF s
    <3>. QED
      BY <2>4, <2>5, <3>1 DEF Framed
  <2>. QED
    BY <2>2, <2>6, <2>7, <2>8, WholeStays
<1>. QED
  BY <1>2, <1>3

\* Nor does a step of another attempt, which is one of another run.
LEMMA OthersLeaveWhole ==
    ASSUME TypeInv, AsksOnce, ReuseInv, NEW u \in Attempts, Attempt(u), NEW t \in Attempts \ {u},
           Own(t) => Whole(t)
    PROVE  Own(t)' => Whole(t)'
<1>1. TaskStep(u)
  BY AttemptStep
<1>2. attempt'[t] = attempt[t]
  BY <1>1 DEF TaskStep
<1>3. CASE attempt[t].pc \notin Executing
  BY <1>2, <1>3, WholeAtRest
<1>4. CASE attempt[t].pc \in Executing /\ attempt[t].alone
  <2>. DEFINE s == attempt[t].run
  <2>1. Alive(u) /\ Alive(t) /\ attempt[t].pc \notin Loose
    BY <1>1, <1>4 DEF TaskStep, Alive, Loose, Executing, Searching
  <2>2. s # attempt[u].run
    BY <1>4, <2>1 DEF ReuseInv
  <2>3. s \in Runs /\ attempt[t].plan \in 1..Len(plans[s])
    BY <1>4, <2>1, TaskIsOne
  <2>4. search'[s] = search[s] /\ runtime'[s] = runtime[s]
        /\ plans'[s][attempt[t].plan].asks = plans[s][attempt[t].plan].asks
    BY <1>1, <2>2, <2>3, TaskSpares DEF TaskStep
  <2>. QED
    BY <1>2, <2>4, WholeStays
<1>5. CASE ~attempt[t].alone
  BY <1>2, <1>5 DEF Own
<1>. QED
  BY <1>3, <1>4, <1>5

LEMMA WholeNext == TypeInv /\ ReuseInv /\ WholeInv /\ [Next]_vars => WholeInv'
<1>. SUFFICES ASSUME TypeInv, ReuseInv, WholeInv, [Next]_vars PROVE WholeInv'
  OBVIOUS
<1>0. AsksOnce /\ \A t \in Attempts : Own(t) => Whole(t)
  BY DEF WholeInv
<1>1. ASSUME NEW r \in Runs, Requested(r)
      PROVE  AsksOnce' /\ \A t \in Attempts : Own(t)' => Whole(t)'
  <2>1. AsksOnce'
    BY <1>0, <1>1, RequestFrames DEF Framed
  <2>2. ASSUME NEW t \in Attempts PROVE Own(t)' => Whole(t)'
    BY <1>0, <1>1, RequestLeavesWhole
  <2>. QED
    BY <2>1, <2>2
<1>2. ASSUME NEW u \in Attempts, Attempt(u)
      PROVE  AsksOnce' /\ \A t \in Attempts : Own(t)' => Whole(t)'
  <2>1. AsksOnce'
    BY <1>0, <1>2, TaskAsksOnce
  <2>2. ASSUME NEW t \in Attempts PROVE Own(t)' => Whole(t)'
    <3>1. CASE t = u
      BY <1>0, <1>2, <3>1, OwnStepIsWhole
    <3>2. CASE t # u
      <4>1. t \in Attempts \ {u}
        BY <3>2
      <4>. QED
        BY <1>0, <1>2, <4>1, OthersLeaveWhole
    <3>. QED
      BY <3>1, <3>2
  <2>. QED
    BY <2>1, <2>2
<1>3. CASE Crash
  <2>1. \A r \in Runs : plans'[r] = <<>> /\ file' = file
    BY <1>3 DEF Crash
  <2>2. AsksOnce'
    BY <1>0, <2>1 DEF AsksOnce
  <2>3. \A t \in Attempts : attempt'[t].pc \notin Executing
    BY <1>3, CrashStep DEF Executing, Searching
  <2>4. ASSUME NEW t \in Attempts PROVE Whole(t)'
    BY <2>3, WholeAtRest
  <2>. QED
    BY <2>2, <2>4 DEF WholeInv
<1>4. CASE UNCHANGED vars
  <2>1. AsksOnce'
    BY <1>0, <1>4 DEF vars, AsksOnce
  <2>2. ASSUME NEW t \in Attempts PROVE Own(t)' => Whole(t)'
    BY <1>0, <1>4, WholeStays DEF vars
  <2>. QED
    BY <2>1, <2>2 DEF WholeInv
<1>5. CASE \/ \E r \in Runs : Requested(r)
           \/ \E t \in Attempts : Attempt(t)
  <2>1. AsksOnce' /\ \A t \in Attempts : Own(t)' => Whole(t)'
    BY <1>1, <1>2, <1>5
  <2>. QED
    BY <2>1 DEF WholeInv
<1>. QED
  BY <1>3, <1>4, <1>5, NextSplit

\* An attempt that was alone and not cut by the cap completes with its own
\* report, from one result for each question of the plan it confirmed, on a
\* first try and on a retry (the checkpoint of execute, _search_all,
\* _reset_execution_state).
THEOREM CompletedRunsAreWhole == Spec => []CompletedIsWhole
<1>1. TypeInv /\ WholeInv => CompletedIsWhole
  <2>. SUFFICES ASSUME TypeInv, WholeInv, NEW t \in Attempts, attempt[t].pc = "complete", Own(t)
                PROVE  LET x == attempt[t]
                           asks == plans[x.run][x.plan].asks
                           results == runtime[x.run].results
                       IN  /\ runtime[x.run].report = t
                           /\ Len(results) = Len(asks)
                           /\ ToSet(asks) = {results[i].q : i \in DOMAIN results}
    BY DEF CompletedIsWhole, Own
  <2>. DEFINE r == attempt[t].run
              asks == plans[r][attempt[t].plan].asks
              results == runtime[r].results
  <2>1. Whole(t) /\ Alive(t) /\ attempt[t].pc \in Executing
    BY DEF WholeInv, Alive, Executing
  <2>2. /\ runtime[r].report = t /\ Once(results) /\ Qs(results) = ToSet(asks)
    BY <2>1 DEF Whole, After, HasAll, AsksOf, Runtime
  <2>3. /\ r \in Runs /\ attempt[t].plan \in 1..Len(plans[r]) /\ plans[r] \in Seq(PlanObjects)
        /\ runtime[r] \in RuntimeRecords
    BY <2>1, TaskIsOne DEF Runtime
  <2>4. plans[r][attempt[t].plan] \in PlanObjects
    BY <2>3
  <2>5. asks \in Asks /\ IsInjective(asks) /\ results \in Results
    BY <2>3, <2>4 DEF PlanObjects, RuntimeRecords, WholeInv, AsksOnce
  <2>6. Len(results) = Len(asks)
    BY <2>2, <2>5, SameLength
  <2>. QED
    BY <2>2, <2>6 DEF Qs
<1>. QED
  BY <1>1, ReuseInit, TypeInit, TypeNext, ReuseNext, WholeInit, WholeNext, PTL DEF Spec
=============================================================================
