------------------------------ MODULE AgentTeam ------------------------------
(***************************************************************************)
(* One orchestration of agents: a run of AgentOrchestrator (delegate,      *)
(* autonomous, sequential, parallel) or a direct user of AgentTeamManager, *)
(* who spawns a team, waits for single agents with a timeout, terminates   *)
(* some and joins them all. Orchestrations share nothing but dictionaries  *)
(* keyed by handle, so one is enough.                                      *)
(*                                                                         *)
(* One event loop runs everything: an action is the code between two       *)
(* awaits that may suspend. A handle is its place in the order of spawns.  *)
(* join_all runs each join as a task of its own (gather); a sequential run *)
(* joins its one agent itself, which comes to the same. Outputs are left   *)
(* out: a result is a success or a failure. The code an agent runs (LLM,   *)
(* tools, event handlers) is taken not to swallow a cancellation.          *)
(***************************************************************************)
EXTENDS Naturals, FiniteSets

CONSTANTS
    Modes,           \* what the orchestration may be
    Fallbacks,       \* ErrorPolicy.fallback_strategy
    TeamSize,        \* agents, tasks or stages it is given
    MaxRounds,       \* of an autonomous run
    MaxConcurrent,   \* of spawn_parallel
    MaxTerminations, \* bound
    MaxTimedJoins    \* bound

ASSUME TeamAssumption ==
    /\ Modes \subseteq {"delegate", "autonomous", "sequential", "parallel",
                        "direct"}
    /\ Fallbacks \subseteq {"skip", "reassign", "degrade", "abort"}
    /\ {TeamSize, MaxRounds, MaxConcurrent} \subseteq Nat \ {0}
    /\ {MaxTerminations, MaxTimedJoins} \subseteq Nat

Handles == 1..TeamSize * MaxRounds

VARIABLES
    run,        \* the orchestration
    agent,      \* the asyncio task of each spawned agent
    cancel,     \* agents with a cancellation on its way
    status,     \* TeamAgentHandle.status
    join,       \* the joins of join_all
    watch,      \* a join with a timeout, of one agent
    timedJoins, \* counts them, for the bound
    terminated  \* history: handles terminate has cancelled

vars == <<run, agent, cancel, status, join, watch, timedJoins, terminated>>

Over == {"returned", "raised", "interrupted"}
Outcomes == {"succeeded", "failed", "cancelled"}

Init ==
    /\ run = [pc |-> "idle", mode |-> "none", fallback |-> "none", round |-> 0,
              todo |-> 0, emitting |-> 0, batch |-> {}, spawned |-> 0,
              success |-> FALSE, cancelled |-> FALSE]
    /\ agent = [h \in Handles |-> "none"]
    /\ cancel = {}
    /\ status = [h \in Handles |-> "none"]
    /\ join = [h \in Handles |-> "none"]
    /\ watch = [h \in Handles |-> "none"]
    /\ timedJoins = 0
    /\ terminated = {}

Live == {h \in Handles : agent[h] = "live"}
AllSucceeded(S) == \A h \in S : agent[h] = "succeeded"

-----------------------------------------------------------------------------
(* Spawning *)

\* How many agents are spawned before they are joined: one stage, or a team.
Share(mode) == IF mode = "sequential" THEN 1 ELSE TeamSize

\* How many spawns may wait for their event at once: the semaphore of
\* spawn_parallel is held by the spawns, not by the agents.
Width == IF run.mode \in {"parallel", "direct"} THEN MaxConcurrent ELSE 1

\* run_delegate asks its main runner for a plan first; whatever it answers,
\* every agent gets a task.
StartRun(mode, fallback) ==
    /\ run.pc = "idle"
    /\ run' = [run EXCEPT !.mode = mode, !.fallback = fallback, !.round = 1,
                          !.todo = Share(mode),
                          !.pc = IF mode = "delegate" THEN "planning"
                                 ELSE "spawning"]
    /\ UNCHANGED <<agent, cancel, status, join, watch, timedJoins, terminated>>

PlanDone ==
    /\ run.pc = "planning"
    /\ run' = [run EXCEPT !.pc = "spawning"]
    /\ UNCHANGED <<agent, cancel, status, join, watch, timedJoins, terminated>>

\* spawn: the task is created before the event is emitted.
Spawn ==
    LET h == run.spawned + 1
    IN /\ run.pc = "spawning"
       /\ run.todo > 0
       /\ run.emitting < Width
       /\ agent' = [agent EXCEPT ![h] = "live"]
       /\ status' = [status EXCEPT ![h] = "running"]
       /\ run' = [run EXCEPT !.todo = @ - 1, !.emitting = @ + 1,
                             !.spawned = h, !.batch = @ \cup {h}]
       /\ UNCHANGED <<cancel, join, watch, timedJoins, terminated>>

JoinAll(S) == [h \in Handles |-> IF h \in S THEN "waiting" ELSE join[h]]

\* The event is out. After the last one the run joins its agents; a direct
\* user has their handles.
SpawnReturns ==
    LET last == run.todo = 0 /\ run.emitting = 1
        direct == run.mode = "direct"
    IN /\ run.pc = "spawning"
       /\ run.emitting > 0
       /\ run' = [run EXCEPT !.emitting = @ - 1,
                             !.pc = IF ~last THEN @
                                    ELSE IF direct THEN "using" ELSE "joining"]
       /\ join' = IF last /\ ~direct THEN JoinAll(run.batch) ELSE join
       /\ UNCHANGED <<agent, cancel, status, watch, timedJoins, terminated>>

-----------------------------------------------------------------------------
(* Agents *)

\* AgentRunner.run turns an exception into a result.
AgentFinishes(h) ==
    /\ h \in Live \ cancel
    /\ \E o \in {"succeeded", "failed"} : agent' = [agent EXCEPT ![h] = o]
    /\ UNCHANGED <<run, cancel, status, join, watch, timedJoins, terminated>>

\* CancelledError passes through it.
AgentCancelled(h) ==
    /\ h \in Live \cap cancel
    /\ agent' = [agent EXCEPT ![h] = "cancelled"]
    /\ cancel' = cancel \ {h}
    /\ UNCHANGED <<run, status, join, watch, timedJoins, terminated>>

-----------------------------------------------------------------------------
(* Joining *)

\* Mutant: a status that was decided is not decided again.
KeepDecided(h) ==
    IF status[h] # "running" THEN status[h]
    ELSE IF agent[h] = "succeeded" THEN "completed" ELSE "failed"

StatusAfterJoin(h) == IF agent[h] = "succeeded" THEN "completed" ELSE "failed"

\* Mutant: a join waits for a result, which a cancelled agent never has.
HasResult(h) == agent[h] \in {"succeeded", "failed"}

Done(h) == agent[h] \in Outcomes

\* A cancelled agent raises CancelledError, which no handler of join catches.
JoinResumes(h) ==
    /\ join[h] = "waiting"
    /\ Done(h)
    /\ IF agent[h] = "cancelled"
       THEN /\ join' = [join EXCEPT ![h] = "cancelled"]
            /\ UNCHANGED status
       ELSE /\ join' = [join EXCEPT ![h] = "notifying"]
            /\ status' = [status EXCEPT ![h] = StatusAfterJoin(h)]
    /\ UNCHANGED <<run, agent, cancel, watch, timedJoins, terminated>>

JoinReturns(h) ==
    /\ join[h] = "notifying"
    /\ join' = [join EXCEPT ![h] = "joined"]
    /\ UNCHANGED <<run, agent, cancel, status, watch, timedJoins, terminated>>

\* Mutant: the run goes on with the first result.
SomeJoined == \E h \in run.batch : join[h] = "joined"

AllJoined == \A h \in run.batch : join[h] = "joined"

\* gather raises the first CancelledError and lets the other joins go on.
GatherRaises ==
    /\ run.pc = "joining"
    /\ \E h \in run.batch : join[h] = "cancelled"
    /\ run' = [run EXCEPT !.pc = "interrupted"]
    /\ UNCHANGED <<agent, cancel, status, join, watch, timedJoins, terminated>>

-----------------------------------------------------------------------------
(* What a run does with the results *)

Return(success) == run' = [run EXCEPT !.pc = "returned", !.success = success]

NextBatch ==
    run' = [run EXCEPT !.pc = "spawning", !.round = @ + 1,
                       !.todo = Share(run.mode), !.batch = {}]

Collect(modes) ==
    /\ run.pc = "joining"
    /\ run.mode \in modes
    /\ AllJoined
    /\ UNCHANGED <<agent, cancel, status, join, watch, timedJoins, terminated>>

Aborts == run.fallback = "abort" /\ ~AllSucceeded(run.batch)

CollectDelegate ==
    /\ Collect({"delegate"})
    /\ run' = [run EXCEPT !.pc = IF Aborts THEN "raised" ELSE "concluding"]

\* _check_convergence
Converged ==
    \/ run.round >= MaxRounds
    \/ AllSucceeded(run.batch) /\ run.round >= 2

CollectAutonomous ==
    /\ Collect({"autonomous"})
    /\ IF Converged THEN run' = [run EXCEPT !.pc = "concluding"] ELSE NextBatch

\* Conflicts are resolved, by an LLM perhaps; run_delegate has its main
\* runner synthesise an answer, run_autonomous succeeds whatever came.
Conclude ==
    /\ run.pc = "concluding"
    /\ \E success \in BOOLEAN :
           /\ run.mode = "autonomous" => success
           /\ Return(success)
    /\ UNCHANGED <<agent, cancel, status, join, watch, timedJoins, terminated>>

EveryStageSucceeded == AllSucceeded(1..run.spawned)

CollectSequential ==
    /\ Collect({"sequential"})
    /\ IF Aborts \/ run.round = TeamSize
       THEN Return(EveryStageSucceeded) ELSE NextBatch

CollectParallel ==
    /\ Collect({"parallel", "direct"})
    /\ Return(\E h \in run.batch : agent[h] = "succeeded")

-----------------------------------------------------------------------------
(* Cancellation of the run, from outside *)

\* Mutant: joins shield their agents.
Shielded == {}

\* Agents a waiting join passes the cancellation on to.
Awaited == {h \in run.batch : join[h] = "waiting" /\ agent[h] = "live"}

\* What the run awaits is cancelled with it. Outside joining these are calls
\* of its own and events: the agents it has spawned run on. A join whose
\* agent is done raises at once, and gather with it.
CancelRun ==
    /\ run.pc \in {"planning", "spawning", "using", "joining", "concluding"}
    /\ ~run.cancelled
    /\ run' = [run EXCEPT !.cancelled = TRUE,
                          !.pc = IF run.pc = "joining" /\ ~AllJoined THEN @
                                 ELSE "interrupted"]
    /\ cancel' = IF run.pc = "joining" THEN cancel \cup Awaited ELSE cancel
    /\ join' = [h \in Handles |->
           IF \/ join[h] = "notifying"
              \/ join[h] = "waiting" /\ agent[h] # "live"
           THEN "cancelled" ELSE join[h]]
    /\ watch' = [h \in Handles |->
           IF watch[h] = "waiting" THEN "over" ELSE watch[h]]
    /\ UNCHANGED <<agent, status, timedJoins, terminated>>

-----------------------------------------------------------------------------
(* A direct user of the manager *)

Cancellable(h) == h \in run.batch \cap Live

Terminate(h) ==
    /\ run.mode = "direct"
    /\ run.pc \in {"using", "joining"}
    /\ Cancellable(h)
    /\ Cardinality(terminated) < MaxTerminations
    /\ cancel' = cancel \cup {h}
    /\ status' = [status EXCEPT ![h] = "cancelled"]
    /\ terminated' = terminated \cup {h}
    /\ UNCHANGED <<run, agent, join, watch, timedJoins>>

Watching == \E h \in Handles : watch[h] = "waiting"

TimedJoin(h) ==
    /\ run.pc = "using"
    /\ h \in run.batch
    /\ ~Watching
    /\ timedJoins < MaxTimedJoins
    /\ watch' = [watch EXCEPT ![h] = "waiting"]
    /\ timedJoins' = timedJoins + 1
    /\ UNCHANGED <<run, agent, cancel, status, join, terminated>>

AfterTimeout(h) == cancel

\* The agent is shielded and runs on; it may also be done by now.
TimedJoinExpires(h) ==
    /\ watch[h] = "waiting"
    /\ watch' = [watch EXCEPT ![h] = "over"]
    /\ status' = [status EXCEPT ![h] = "failed"]
    /\ cancel' = AfterTimeout(h)
    /\ UNCHANGED <<run, agent, join, timedJoins, terminated>>

\* With the agent's result, or with its CancelledError, which the user is
\* taken to handle.
TimedJoinReturns(h) ==
    /\ watch[h] = "waiting"
    /\ agent[h] \in Outcomes
    /\ watch' = [watch EXCEPT ![h] = "over"]
    /\ status' = IF agent[h] = "cancelled" THEN status
                 ELSE [status EXCEPT ![h] = StatusAfterJoin(h)]
    /\ UNCHANGED <<run, agent, cancel, join, timedJoins, terminated>>

JoinTeam ==
    /\ run.pc = "using"
    /\ ~Watching
    /\ run' = [run EXCEPT !.pc = "joining"]
    /\ join' = JoinAll(run.batch)
    /\ UNCHANGED <<agent, cancel, status, watch, timedJoins, terminated>>

-----------------------------------------------------------------------------
Begin == \E mode \in Modes, fallback \in Fallbacks : StartRun(mode, fallback)

RunStep ==
    \/ PlanDone
    \/ Spawn
    \/ SpawnReturns
    \/ GatherRaises
    \/ CollectDelegate
    \/ CollectAutonomous
    \/ CollectSequential
    \/ CollectParallel
    \/ Conclude

TaskStep(h) ==
    \/ AgentFinishes(h)
    \/ AgentCancelled(h)
    \/ JoinResumes(h)
    \/ JoinReturns(h)
    \/ TimedJoinExpires(h)
    \/ TimedJoinReturns(h)

UserStep(h) == Terminate(h) \/ TimedJoin(h)

Next ==
    \/ Begin
    \/ RunStep
    \/ \E h \in Handles : TaskStep(h) \/ UserStep(h)
    \/ CancelRun
    \/ JoinTeam

\* The event loop runs every task that is ready; an agent's turns are
\* bounded (max_turns), and its calls are taken to return. Nobody has to
\* start a run, cancel anything, or join a team spawned directly.
Fairness ==
    /\ WF_vars(RunStep)
    /\ \A h \in Handles : WF_vars(TaskStep(h))

Spec == Init /\ [][Next]_vars /\ Fairness

-----------------------------------------------------------------------------
(* Properties *)

\* Every variable keeps to the values the code gives it.
TypeOK ==
    /\ run \in [pc : {"idle", "planning", "spawning", "using", "joining",
                      "concluding"} \cup Over,
                mode : Modes \cup {"none"},
                fallback : Fallbacks \cup {"none"},
                round : 0..TeamSize + MaxRounds, todo : 0..TeamSize,
                emitting : 0..TeamSize, batch : SUBSET Handles,
                spawned : 0..TeamSize * MaxRounds,
                success : BOOLEAN, cancelled : BOOLEAN]
    /\ agent \in [Handles -> {"none", "live"} \cup Outcomes]
    /\ cancel \subseteq Live
    /\ status \in [Handles -> {"none", "running", "completed", "failed",
                               "cancelled"}]
    /\ join \in [Handles -> {"none", "waiting", "notifying", "joined",
                             "cancelled"}]
    /\ watch \in [Handles -> {"none", "waiting", "over"}]
    /\ timedJoins \in 0..MaxTimedJoins
    /\ terminated \subseteq Handles

\* An orchestration that returns or raises leaves no agent behind: each one
\* it has spawned, in every round, is done, with a result of its own.
EndsClean ==
    run.pc \in {"returned", "raised"} =>
        \A h \in 1..run.spawned : agent[h] \in {"succeeded", "failed"}

\* A cancelled run that was joining its agents takes them with it: an agent
\* still running has its cancellation on the way. (A terminated agent makes
\* gather raise without cancelling the others: that is left out here.)
CancelReachesTeam ==
    /\ run.pc = "interrupted"
    /\ terminated = {}
    /\ \A h \in run.batch : join[h] # "none"
    => Live \subseteq cancel

\* No agent is cancelled that nobody asked to be: a timed join that expires
\* and an agent that is terminated leave the others alone.
NoStrayCancel ==
    \A h \in Handles :
        h \in cancel \/ agent[h] = "cancelled" => h \in terminated \/ run.cancelled

\* Whatever a timed join or a termination has made of a handle's status, a
\* join that returns leaves what the agent's result says; and a status
\* CANCELLED belongs to an agent that is, or is being, cancelled.
StatusTells ==
    \A h \in Handles :
        /\ join[h] = "joined" =>
               status[h] = IF agent[h] = "succeeded" THEN "completed" ELSE "failed"
        /\ status[h] = "completed" => agent[h] = "succeeded"
        /\ status[h] = "cancelled" => h \in cancel \/ agent[h] = "cancelled"

\* What a run's success stands for: of a sequential run, that all its stages
\* ran and succeeded; of a parallel one, that some agent did; and a delegate
\* run under ABORT gets to its answer only when all did.
SuccessEarned ==
    run.pc = "returned" =>
        /\ run.mode = "sequential" /\ run.success =>
               run.spawned = TeamSize /\ AllSucceeded(1..TeamSize)
        /\ run.mode = "parallel" =>
               (run.success <=> \E h \in run.batch : agent[h] = "succeeded")
        /\ run.mode = "delegate" /\ run.fallback = "abort" =>
               AllSucceeded(run.batch)

\* A stage or a round starts when no agent of an earlier one runs any more.
RoundsDoNotOverlap == run.pc \notin Over => Live \subseteq run.batch

\* Every orchestration that has begun ends, whatever its agents do; so does
\* a direct user's join of a team.
Underway ==
    \/ run.pc = "joining"
    \/ run.pc \notin {"idle", "using"} \cup Over /\ run.mode # "direct"

RunEnds == Underway ~> run.pc \in Over
==============================================================================
