---------------------------- MODULE ResearchRuns ----------------------------
(* Deep research runs: the service that lists, saves and starts them       *)
(* (houyi_studio/server/research), the runtime of a run                    *)
(* (application/research/runtime/engine.py) and its search phase           *)
(* (coordinator.py).                                                       *)
(*                                                                         *)
(* A run is planned, edited, started, cancelled and deleted by requests;   *)
(* every start makes a task, an attempt of the run.  Requests and tasks    *)
(* share one event loop: what happens between two awaits is one action,    *)
(* and every emit is an await.  The server may crash; the runs it has      *)
(* saved are listed again as archived ones.                                *)
EXTENDS Naturals, Sequences, FiniteSets, SequencesExt

CONSTANTS
    Runs,           \* run ids
    Keys,           \* idempotency keys
    NoKey,
    NoRun,
    Questions,      \* sub-questions
    Plan,           \* those of a first plan, in order
    MaxConcurrent,  \* MAX_CONCURRENT_RUNS
    SearchCap,      \* is there a cap on the search phase (max_search_phase_seconds > 0)?
    MaxAttempts,    \* bounds: starts; cancellations, edits, deletions and crashes
    MaxEvents

Attempts == 1..MaxAttempts

ASSUME ResearchAssumption ==
    /\ IsFiniteSet(Questions)
    /\ Plan \in Seq(Questions) \ {<<>>} /\ IsInjective(Plan)
    /\ {MaxConcurrent, MaxAttempts, MaxEvents} \subseteq Nat
    /\ SearchCap \in BOOLEAN
    /\ NoKey \notin Keys /\ NoRun \notin Runs

VARIABLES
    listed,     \* of a run: fresh (not yet made), live, archived or gone
    runtime,    \* its ResearchRuntime object; tasks keep it when it is gone
    plans,      \* the plan objects of a runtime, oldest first
    search,     \* the list and the checkpoint of its ResearchCoordinator
    file,       \* what is saved of it
    attempt,    \* the tasks
    task,       \* research_tasks: the attempt a cancellation stops, or 0
    keyOf,      \* the run made for a key
    planning,   \* the runs whose create_run waits for the planner
    cancelling, \* the runs whose cancel_run waits in its emit
    left        \* cancellations, edits, deletions and crashes to come

vars == <<listed, runtime, plans, search, file, attempt, task, keyOf,
          planning, cancelling, left>>

-----------------------------------------------------------------------------
NoPlan == <<0>>
NoFile == [status |-> "none", asks |-> NoPlan, sound |-> FALSE, results |-> <<>>,
           report |-> FALSE]

\* A plan object.  sound: no question of it is blank, or they are so few that
\* validate_research_plan says that first.  (No edit touches the outline.)
Draft(asks, sound) == [status |-> "draft", asks |-> asks, sound |-> sound]

\* validate_research_plan, as confirm takes it: of too few questions it warns.
Valid(plan) == plan.asks # <<>> /\ plan.sound

\* report: the attempt that wrote it; aggregated: are there merged sources?
NewRuntime(key) ==
    [status |-> "planning", cancelled |-> FALSE, plan |-> 0, results |-> <<>>,
     aggregated |-> FALSE, report |-> 0, key |-> key]

\* plan: the plan object it confirmed; todo: the questions whose checkpoint it
\* has not looked up; found: what it searches.  known, alone, capped and doomed
\* are history: what the run had found when it was started, whether no other
\* attempt was ever alive beside it, whether the cap cut its search, and
\* whether the run was cancelled before its search had returned.
NewAttempt(r, known, alone, doomed) ==
    [run |-> r, pc |-> "created", kill |-> FALSE, plan |-> 0, todo |-> <<>>,
     found |-> [q \in Questions |-> "no"],
     known |-> known, alone |-> alone, capped |-> FALSE, doomed |-> doomed]

Idle  == [NewAttempt(NoRun, {}, TRUE, FALSE) EXCEPT !.pc = "idle"]
Ended == [Idle EXCEPT !.pc = "done"]

Searching == {"search", "aggregate"}
Executing == Searching \cup {"announce", "report", "reported", "complete"}
Alive(t)  == attempt[t].pc \notin {"idle", "done"}

Found(results) == {results[i].q : i \in {j \in DOMAIN results : results[j].got}}

\* _persist_run
Saved(x, objects) ==
    [status  |-> x.status,
     asks    |-> IF x.plan = 0 THEN NoPlan ELSE objects[x.plan].asks,
     sound   |-> x.plan # 0 /\ objects[x.plan].sound,
     results |-> x.results,
     report  |-> x.report # 0]

\* Mutant: rehydrated from the plan alone.
RehydratedBare(r) ==
    [NewRuntime(NoKey) EXCEPT
        !.status = IF file[r].asks = NoPlan THEN "planning" ELSE "plan_ready",
        !.plan   = IF file[r].asks = NoPlan THEN 0 ELSE 1]

\* _rehydrate: the plan a draft again, the results as saved, no report.
Rehydrated(r) ==
    [NewRuntime(NoKey) EXCEPT
        !.status  = IF file[r].asks = NoPlan THEN "planning" ELSE "plan_ready",
        !.plan    = IF file[r].asks = NoPlan THEN 0 ELSE 1,
        !.results = file[r].results]

RehydratedPlans(r) ==
    IF file[r].asks = NoPlan THEN <<>> ELSE << Draft(file[r].asks, file[r].sound) >>

\* _require_live_run
Live(r)      == IF listed[r] = "archived" THEN Rehydrated(r) ELSE runtime[r]
LivePlans(r) == IF listed[r] = "archived" THEN RehydratedPlans(r) ELSE plans[r]
Listed(r)    == listed[r] \in {"live", "archived"}
Status(r)    == IF listed[r] = "archived" THEN file[r].status ELSE runtime[r].status

\* running_run_count
Running == Cardinality({r \in Runs : /\ listed[r] = "live"
                                     /\ runtime[r].status \in {"executing", "generating"}})

Init ==
    /\ listed = [r \in Runs |-> "fresh"]
    /\ runtime = [r \in Runs |-> NewRuntime(NoKey)]
    /\ plans = [r \in Runs |-> <<>>]
    /\ search = [r \in Runs |-> [results |-> <<>>, checkpoint |-> {}]]
    /\ file = [r \in Runs |-> NoFile]
    /\ attempt = [t \in Attempts |-> Idle]
    /\ task = [r \in Runs |-> 0]
    /\ keyOf = [k \in Keys |-> NoRun]
    /\ planning = {}
    /\ cancelling = {}
    /\ left = MaxEvents

-----------------------------------------------------------------------------
(* Requests.                                                               *)

\* create_run, to the await of the planner; a key that is known makes nothing.
Create(r, key) ==
    /\ listed[r] = "fresh"
    /\ key # NoKey => keyOf[key] = NoRun
    /\ listed' = [listed EXCEPT ![r] = "live"]
    /\ runtime' = [runtime EXCEPT ![r] = NewRuntime(key)]
    /\ file' = [file EXCEPT ![r] = Saved(NewRuntime(key), <<>>)]
    /\ keyOf' = [k \in Keys |-> IF k = key THEN r ELSE keyOf[k]]
    /\ planning' = planning \cup {r}
    /\ UNCHANGED <<plans, search, attempt, task, cancelling, left>>

\* create_run, from there.
EndPlanning(r, x, objects) ==
    /\ r \in planning
    /\ runtime' = [runtime EXCEPT ![r] = x]
    /\ plans' = [plans EXCEPT ![r] = objects]
    /\ file' = [file EXCEPT ![r] = Saved(x, objects)]
    /\ planning' = planning \ {r}
    /\ UNCHANGED <<listed, search, attempt, task, keyOf, cancelling, left>>

PlanReady(r) ==
    EndPlanning(r, [runtime[r] EXCEPT !.plan = 1, !.status = "plan_ready"],
                << Draft(Plan, TRUE) >>)

PlanFails(r) == EndPlanning(r, [runtime[r] EXCEPT !.status = "failed"], plans[r])

\* apply_plan_edits, as far as the search sees it: a question is taken out, one
\* that never was in the plan is added, or the questions stay.  Questions may be
\* reworded, added without words, and reworded to nothing.
EditedAsks(r) ==
    LET asks  == LivePlans(r)[Live(r).plan].asks
        known == UNION {ToSet(LivePlans(r)[i].asks) : i \in DOMAIN LivePlans(r)}
                   \cup {Live(r).results[i].q : i \in DOMAIN Live(r).results}
    IN {asks} \cup {RemoveAt(asks, i) : i \in DOMAIN asks}
         \cup {Append(asks, q) : q \in Questions \ known}

\* edit_plan: a new plan object, whatever the run is doing.
Edit(r) ==
    /\ Listed(r) /\ left > 0
    /\ Live(r).plan # 0
    /\ \E asks \in EditedAsks(r) : \E sound \in {b \in BOOLEAN : asks = <<>> => b} :
         LET objects == Append(LivePlans(r), Draft(asks, sound))
             x == [Live(r) EXCEPT !.plan = Len(objects), !.status = "plan_ready"]
         IN /\ plans' = [plans EXCEPT ![r] = objects]
            /\ runtime' = [runtime EXCEPT ![r] = x]
            /\ file' = [file EXCEPT ![r] = Saved(x, objects)]
    /\ listed' = [listed EXCEPT ![r] = "live"]
    /\ left' = left - 1
    /\ UNCHANGED <<search, attempt, task, keyOf, planning, cancelling>>

\* An edit that is refused, for there is no plan or the client has another
\* version of it, has made an archived run live.
EditRefused(r) ==
    /\ listed[r] = "archived"
    /\ listed' = [listed EXCEPT ![r] = "live"]
    /\ runtime' = [runtime EXCEPT ![r] = Live(r)]
    /\ plans' = [plans EXCEPT ![r] = LivePlans(r)]
    /\ UNCHANGED <<search, file, attempt, task, keyOf, planning, cancelling, left>>

\* start_run: only a run that is executing is refused, and a limit on those.
Start(r, t) ==
    LET others == {u \in Attempts : Alive(u) /\ attempt[u].run = r}
        known  == IF listed[r] = "archived" THEN file[r].results ELSE runtime[r].results
    IN /\ Listed(r) /\ Status(r) # "executing"
       /\ Running < MaxConcurrent
       /\ attempt[t].pc = "idle" /\ \A u \in 1..(t - 1) : attempt[u].pc # "idle"
       /\ listed' = [listed EXCEPT ![r] = "live"]
       /\ runtime' = [runtime EXCEPT ![r] = Live(r)]
       /\ plans' = [plans EXCEPT ![r] = LivePlans(r)]
       /\ attempt' = [u \in Attempts |->
            IF u = t THEN NewAttempt(r, IF others = {} THEN Found(known) ELSE {},
                                     others = {}, Live(r).cancelled)
            ELSE IF u \in others THEN [attempt[u] EXCEPT !.alone = FALSE, !.known = {}]
            ELSE attempt[u]]
       /\ task' = [task EXCEPT ![r] = t]
       /\ UNCHANGED <<search, file, keyOf, planning, cancelling, left>>

\* cancel_run, to its emit: the flag is never taken back.
Cancel(r) ==
    /\ Listed(r) /\ left > 0 /\ r \notin cancelling
    /\ listed' = [listed EXCEPT ![r] = "live"]
    /\ runtime' = [runtime EXCEPT ![r] =
                     [Live(r) EXCEPT !.cancelled = TRUE, !.status = "cancelled"]]
    /\ plans' = [plans EXCEPT ![r] = LivePlans(r)]
    /\ attempt' = [t \in Attempts |->
         [attempt[t] EXCEPT !.doomed =
            @ \/ /\ attempt[t].run = r
                 /\ attempt[t].pc \in {"created", "confirm"} \cup Searching]]
    /\ cancelling' = cancelling \cup {r}
    /\ left' = left - 1
    /\ UNCHANGED <<search, file, task, keyOf, planning>>

\* cancel_run, from there, and the cancellation of the latest task.
CancelTask(r) ==
    /\ r \in cancelling
    /\ file' = [file EXCEPT ![r] = Saved(runtime[r], plans[r])]
    /\ attempt' = [t \in Attempts |->
         IF t = task[r] /\ attempt[t].pc \notin {"closing", "done"}
         THEN [attempt[t] EXCEPT !.kill = TRUE] ELSE attempt[t]]
    /\ task' = [task EXCEPT ![r] = 0]
    /\ cancelling' = cancelling \ {r}
    /\ UNCHANGED <<listed, runtime, plans, search, keyOf, planning, left>>

\* delete_run
Delete(r) ==
    /\ Listed(r) /\ Status(r) # "executing" /\ left > 0
    /\ listed' = [listed EXCEPT ![r] = "gone"]
    /\ file' = [file EXCEPT ![r] = NoFile]
    /\ left' = left - 1
    /\ UNCHANGED <<runtime, plans, search, attempt, task, keyOf, planning, cancelling>>

-----------------------------------------------------------------------------
(* Attempts: launch_run and execute.                                       *)

Runtime(t) == runtime[attempt[t].run]
At(t, pc)  == attempt[t].pc = pc /\ ~attempt[t].kill

End(t)            == attempt' = [attempt EXCEPT ![t] = Ended]
Wind(t)           == attempt' = [attempt EXCEPT ![t] =
                                    [Ended EXCEPT !.run = attempt[t].run, !.pc = "closing"]]
Goto(t, pc)       == attempt' = [attempt EXCEPT ![t].pc = pc]
SetRuntime(t, x)  == runtime' = [runtime EXCEPT ![attempt[t].run] = x]
SetPlan(t, i, st) == plans' = [plans EXCEPT ![attempt[t].run][i].status = st]
Save(t, x)        == file' = [file EXCEPT ![attempt[t].run] =
                                    Saved(x, plans[attempt[t].run])]
Others            == <<listed, task, keyOf, planning, cancelling, left>>

\* The task's first step: it returns, is refused an invalid plan, or confirms
\* the plan and emits.
Ready(t) ==
    LET r == attempt[t].run
        x == runtime[r]
    IN /\ ~attempt[t].kill
       /\ listed[r] = "live"
       /\ x.status # "executing"
       /\ x.plan # 0 /\ Valid(plans[r][x.plan])

Begin(t) ==
    /\ attempt[t].pc = "created"
    /\ \/ /\ ~Ready(t)
          /\ End(t)
          /\ UNCHANGED plans
       \/ /\ Ready(t)
          /\ SetPlan(t, Runtime(t).plan, "confirmed")
          /\ attempt' = [attempt EXCEPT ![t].pc = "confirm", ![t].plan = Runtime(t).plan]
    /\ UNCHANGED <<runtime, search, file, Others>>

\* A task cancelled in that emit ends there, and saves nothing.
Unconfirmed(t) ==
    /\ attempt[t].pc = "confirm" /\ attempt[t].kill
    /\ End(t)
    /\ UNCHANGED <<runtime, plans, search, file, Others>>

\* The plan it confirmed, which an edit or an attempt may have replaced or
\* changed, is the runtime's again; execute refuses it unless it may be run.
MayRun(t) == plans[attempt[t].run][attempt[t].plan].status \in {"confirmed", "draft"}

Refuse(t) ==
    LET x == [Runtime(t) EXCEPT !.plan = attempt[t].plan, !.status = "plan_ready"]
    IN /\ At(t, "confirm") /\ ~MayRun(t)
       /\ SetRuntime(t, x)
       /\ Save(t, x)
       /\ End(t)
       /\ UNCHANGED <<plans, search, Others>>

\* Mutant: the coordinator's list is not cleared.
ExecuteOnTop(t) ==
    LET r == attempt[t].run
        checkpoint == Found(runtime[r].results)
        asks == plans[r][attempt[t].plan].asks
    IN /\ At(t, "confirm") /\ MayRun(t)
       /\ SetPlan(t, attempt[t].plan, "executing")
       /\ SetRuntime(t, [runtime[r] EXCEPT !.plan = attempt[t].plan, !.status = "executing",
                           !.results = <<>>, !.aggregated = FALSE, !.report = 0])
       /\ search' = [search EXCEPT ![r].checkpoint = checkpoint]
       /\ attempt' = [attempt EXCEPT ![t].pc = "search", ![t].todo = asks,
            ![t].found = [q \in Questions |->
                            IF q \in ToSet(asks) \ checkpoint THEN "asked" ELSE "no"]]
       /\ UNCHANGED <<file, Others>>

\* execute: what has sources is the checkpoint, then all results are cleared.
Execute(t) ==
    LET r == attempt[t].run
        checkpoint == Found(runtime[r].results)
        asks == plans[r][attempt[t].plan].asks
    IN /\ At(t, "confirm") /\ MayRun(t)
       /\ SetPlan(t, attempt[t].plan, "executing")
       /\ SetRuntime(t, [runtime[r] EXCEPT !.plan = attempt[t].plan, !.status = "executing",
                           !.results = <<>>, !.aggregated = FALSE, !.report = 0])
       /\ search' = [search EXCEPT ![r] = [results |-> <<>>, checkpoint |-> checkpoint]]
       /\ attempt' = [attempt EXCEPT ![t].pc = "search", ![t].todo = asks,
            ![t].found = [q \in Questions |->
                            IF q \in ToSet(asks) \ checkpoint THEN "asked" ELSE "no"]]
       /\ UNCHANGED <<file, Others>>

-----------------------------------------------------------------------------
(* The search phase.  Its list is the coordinator's, one for all attempts. *)

\* The next question whose result is reused, or 0: the emits are between them.
NextCached(t) ==
    SelectInSeq(attempt[t].todo, LAMBDA q : q \in search[attempt[t].run].checkpoint)

\* _reuse_checkpoint
Reuse(t) ==
    LET r == attempt[t].run
        i == NextCached(t)
    IN /\ At(t, "search") /\ i # 0
       /\ search' = [search EXCEPT ![r].results =
                       Append(@, [q |-> attempt[t].todo[i], got |-> TRUE])]
       /\ attempt' = [attempt EXCEPT ![t].todo = SubSeq(@, i + 1, Len(@))]
       /\ UNCHANGED <<runtime, plans, file, Others>>

\* _search_question_isolated: with sources, or without any when it fails, is
\* cancelled or runs out of time.
EndQuestion(t, q) ==
    /\ At(t, "search") /\ NextCached(t) = 0
    /\ attempt[t].found[q] = "asked"
    /\ \E outcome \in {"sources", "nothing"} :
         attempt' = [attempt EXCEPT ![t].found[q] = outcome]
    /\ UNCHANGED <<runtime, plans, search, file, Others>>

\* gather returns; only then are the results put in the list (their order among
\* each other means nothing here).
Gather(t) ==
    LET r == attempt[t].run
        searched == SetToSeq({q \in Questions : attempt[t].found[q] # "no"})
    IN /\ At(t, "search") /\ NextCached(t) = 0
       /\ \A q \in Questions : attempt[t].found[q] # "asked"
       /\ search' = [search EXCEPT ![r].results = @ \o
            [i \in DOMAIN searched |->
               [q |-> searched[i], got |-> attempt[t].found[searched[i]] = "sources"]]]
       /\ Goto(t, "aggregate")
       /\ UNCHANGED <<runtime, plans, file, Others>>

\* The cap of the search phase cancels gather, and goes on with the list.
Cap(t) ==
    /\ SearchCap /\ At(t, "search")
    /\ attempt' = [attempt EXCEPT ![t].pc = "aggregate", ![t].capped = TRUE]
    /\ UNCHANGED <<runtime, plans, search, file, Others>>

\* Mutant: the run is still executing.
CancelledBusy(t, x) ==
    /\ SetPlan(t, x.plan, "failed")
    /\ SetRuntime(t, x)
    /\ Wind(t)

\* execute's except CancelledError, to its emit: of a task cancelled, or of a
\* run found cancelled.
Cancelled(t, x) ==
    /\ SetPlan(t, x.plan, "failed")
    /\ SetRuntime(t, [x EXCEPT !.status = "cancelled"])
    /\ Wind(t)

\* Mutant: without _check_cancelled.
EndSearchUnchecked(t) ==
    LET x == [Runtime(t) EXCEPT !.results = search[attempt[t].run].results,
                                !.aggregated = TRUE]
    IN /\ At(t, "aggregate")
       /\ SetRuntime(t, [x EXCEPT !.status = "generating"])
       /\ attempt' = [attempt EXCEPT ![t].pc = "announce", ![t].known = {},
                                     ![t].found = Idle.found]
       /\ UNCHANGED <<plans, search, file, Others>>

\* _run_search returns: its results are the runtime's, and a cancelled run
\* goes no further.
EndSearch(t) ==
    LET x == [Runtime(t) EXCEPT !.results = search[attempt[t].run].results,
                                !.aggregated = TRUE]
    IN /\ At(t, "aggregate")
       /\ \/ /\ x.cancelled
             /\ Cancelled(t, x)
          \/ /\ ~x.cancelled
             /\ SetRuntime(t, [x EXCEPT !.status = "generating"])
             /\ attempt' = [attempt EXCEPT ![t].pc = "announce", ![t].known = {},
                                           ![t].found = Idle.found]
             /\ UNCHANGED plans
       /\ UNCHANGED <<search, file, Others>>

-----------------------------------------------------------------------------
(* The report, and the ends of an attempt.                                 *)

\* _run_report starts from what the runtime holds after the emit.
BeginReport(t) ==
    /\ At(t, "announce") /\ Runtime(t).aggregated
    /\ Goto(t, "report")
    /\ UNCHANGED <<runtime, plans, search, file, Others>>

EndReport(t) ==
    /\ At(t, "report")
    /\ SetRuntime(t, [Runtime(t) EXCEPT !.report = t])
    /\ Goto(t, "reported")
    /\ UNCHANGED <<plans, search, file, Others>>

Complete(t) ==
    /\ At(t, "reported")
    /\ SetPlan(t, Runtime(t).plan, "completed")
    /\ SetRuntime(t, [Runtime(t) EXCEPT !.status = "completed"])
    /\ Goto(t, "complete")
    /\ UNCHANGED <<search, file, Others>>

\* A task is cancelled wherever it waits.
Stop(t) ==
    /\ attempt[t].pc \in Executing /\ attempt[t].kill
    /\ Cancelled(t, Runtime(t))
    /\ UNCHANGED <<search, file, Others>>

\* It fails, or runs out of time, wherever it waits.
Fail(t) ==
    /\ attempt[t].pc \in Executing /\ ~attempt[t].kill
    /\ SetPlan(t, Runtime(t).plan, "failed")
    /\ SetRuntime(t, [Runtime(t) EXCEPT !.status = "failed"])
    /\ Wind(t)
    /\ UNCHANGED <<search, file, Others>>

\* Mutant: only a run that is complete is saved.
CloseComplete(t) ==
    /\ At(t, "complete") \/ attempt[t].pc = "closing"
    /\ IF attempt[t].pc = "complete" THEN Save(t, Runtime(t)) ELSE UNCHANGED file
    /\ End(t)
    /\ UNCHANGED <<runtime, plans, search, Others>>

\* launch_run's finally.
Close(t) ==
    /\ At(t, "complete") \/ attempt[t].pc = "closing"
    /\ Save(t, Runtime(t))
    /\ End(t)
    /\ UNCHANGED <<runtime, plans, search, Others>>

-----------------------------------------------------------------------------
\* The server dies and is started again: _load_persisted_runs.
Crash ==
    /\ left > 0
    /\ left' = left - 1
    /\ listed' = [r \in Runs |-> IF file[r] # NoFile THEN "archived"
                                 ELSE IF listed[r] = "fresh" THEN "fresh" ELSE "gone"]
    /\ runtime' = [r \in Runs |-> NewRuntime(NoKey)]
    /\ plans' = [r \in Runs |-> <<>>]
    /\ search' = [r \in Runs |-> [results |-> <<>>, checkpoint |-> {}]]
    /\ attempt' = [t \in Attempts |-> IF Alive(t) THEN Ended ELSE attempt[t]]
    /\ task' = [r \in Runs |-> 0]
    /\ keyOf' = [k \in Keys |-> NoRun]
    /\ planning' = {}
    /\ cancelling' = {}
    /\ UNCHANGED file

Attempt(t) ==
    \/ Begin(t) \/ Unconfirmed(t) \/ Refuse(t) \/ Execute(t)
    \/ Reuse(t) \/ (\E q \in Questions : EndQuestion(t, q)) \/ Gather(t) \/ Cap(t)
    \/ EndSearch(t) \/ BeginReport(t) \/ EndReport(t) \/ Complete(t)
    \/ Stop(t) \/ Fail(t) \/ Close(t)

Next ==
    \/ \E r \in Runs :
         \/ \E key \in Keys \cup {NoKey} : Create(r, key)
         \/ PlanReady(r) \/ PlanFails(r) \/ Edit(r) \/ EditRefused(r)
         \/ \E t \in Attempts : Start(r, t)
         \/ Cancel(r) \/ CancelTask(r) \/ Delete(r)
    \/ \E t \in Attempts : Attempt(t)
    \/ Crash

Spec == Init /\ [][Next]_vars

-----------------------------------------------------------------------------
Results  == Seq([q : Questions, got : BOOLEAN])
Asks     == Seq(Questions)
Statuses == {"planning", "plan_ready", "executing", "generating", "completed",
             "failed", "cancelled"}

RuntimeRecords ==
    [status : Statuses, cancelled : BOOLEAN, plan : Nat, results : Results,
     aggregated : BOOLEAN, report : 0..MaxAttempts, key : Keys \cup {NoKey}]
PlanObjects ==
    [status : {"draft", "confirmed", "executing", "completed", "failed"}, asks : Asks,
     sound : BOOLEAN]
FileRecords ==
    [status : Statuses \cup {"none"}, asks : Asks \cup {NoPlan}, sound : BOOLEAN,
     results : Results, report : BOOLEAN]
AttemptRecords ==
    [run : Runs \cup {NoRun},
     pc : {"idle", "created", "confirm", "closing", "done"} \cup Executing,
     kill : BOOLEAN, plan : Nat, todo : Asks,
     found : [Questions -> {"no", "asked", "sources", "nothing"}],
     known : SUBSET Questions, alone : BOOLEAN, capped : BOOLEAN, doomed : BOOLEAN]

\* Shape of the state: every list, plan and record is what the code keeps, and
\* a plan that is current or confirmed is there.
TypeOK ==
    /\ listed \in [Runs -> {"fresh", "live", "archived", "gone"}]
    /\ runtime \in [Runs -> RuntimeRecords]
    /\ plans \in [Runs -> Seq(PlanObjects)]
    /\ search \in [Runs -> [results : Results, checkpoint : SUBSET Questions]]
    /\ file \in [Runs -> FileRecords]
    /\ attempt \in [Attempts -> AttemptRecords]
    /\ task \in [Runs -> 0..MaxAttempts]
    /\ keyOf \in [Keys -> Runs \cup {NoRun}]
    /\ planning \subseteq Runs
    /\ cancelling \subseteq Runs
    /\ left \in 0..MaxEvents
    /\ \A r \in Runs : runtime[r].plan \in 0..Len(plans[r])
    /\ \A t \in Attempts : Alive(t) =>
          /\ attempt[t].run \in Runs
          /\ attempt[t].plan \in 0..Len(plans[attempt[t].run])

\* A run that was cancelled before the search of an attempt returned gets no
\* report from that attempt, whatever other attempts of the run there are and
\* whichever of their tasks the cancellation reached.
CancelHonored ==
    \A t \in Attempts :
        attempt[t].pc \in {"announce", "report", "reported", "complete"} => ~attempt[t].doomed

\* An attempt that was alone and not cut by the cap completes with its own
\* report, written from one result for each question of the plan it confirmed:
\* none is lost and none is there twice, on a first try and on a retry.
CompletedIsWhole ==
    \A t \in Attempts :
        LET x == attempt[t]
            asks == plans[x.run][x.plan].asks
            results == runtime[x.run].results
        IN x.pc = "complete" /\ x.alone /\ ~x.capped =>
             /\ runtime[x.run].report = t
             /\ Len(results) = Len(asks)
             /\ ToSet(asks) = {results[i].q : i \in DOMAIN results}

\* What the run, or its file, held sources for when an attempt was started is
\* not searched again, through rehydration, reset and checkpoint.
NothingSearchedTwice ==
    \A t \in Attempts :
        attempt[t].alone => \A q \in attempt[t].known : attempt[t].found[q] = "no"

\* A live run shows as executing or generating only while an attempt of it is
\* at work: no end of an attempt leaves it blocked for starts and deletions.
Active(r) == listed[r] = "live" /\ runtime[r].status \in {"executing", "generating"}

ActiveHasAttempt ==
    \A r \in Runs : Active(r) =>
        \E t \in Attempts : attempt[t].run = r /\ attempt[t].pc \in Executing \ {"complete"}

\* No task or request of the run is at work.
Quiet(r) ==
    /\ listed[r] = "live" /\ r \notin planning \cup cancelling
    /\ \A t \in Attempts : Alive(t) => attempt[t].run # r

\* It has been loaded from its file, by a request that was refused or a start
\* whose plan was, and nothing has been done with it since.
AsLoaded(r) == runtime[r] = Rehydrated(r) /\ plans[r] = RehydratedPlans(r)

\* A crash loses nothing of a run that is quiet: whichever way its attempts and
\* requests have ended, its file says what the runtime holds, or the runtime is
\* what is loaded from the file again.
QuietIsSaved ==
    \A r \in Runs : Quiet(r) => file[r] = Saved(runtime[r], plans[r]) \/ AsLoaded(r)

\* "Salvage: self._search_results already contains results for sub-questions
\* that finished before the deadline": a search that is cut keeps them.
SalvageKeepsFinished ==
    \A t \in Attempts :
        LET x == attempt[t]
        IN x.pc = "aggregate" /\ x.capped /\ x.alone =>
             \A q \in Questions : x.found[q] = "sources" => q \in Found(search[x.run].results)
=============================================================================
