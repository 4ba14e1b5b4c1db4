--------------------------- MODULE AgentTeamProofs ---------------------------
(***************************************************************************)
(* Proofs about AgentTeam, for teams of any size, any number of rounds and *)
(* any width of the spawning semaphore.                                    *)
(***************************************************************************)
EXTENDS AgentTeam, TLAPS

-----------------------------------------------------------------------------
(* How many agents a run has spawned, and which of them are its batch *)

MostRounds(mode) ==
    CASE mode = "sequential" -> TeamSize
      [] mode = "autonomous" -> MaxRounds
      [] OTHER -> 1

\* The spawns done and to do fill the rounds begun; the batch are the agents
\* spawned in the last one.
Count ==
    /\ run.pc = "idle" => run.spawned = 0 /\ run.todo = 0
    /\ run.pc # "idle" => /\ run.mode \in Modes
                          /\ run.round \in 1..MostRounds(run.mode)
                          /\ run.spawned + run.todo = Share(run.mode) * run.round
    /\ run.todo + run.emitting <= Share(run.mode)
    /\ run.pc \notin {"planning", "spawning", "interrupted"} => run.todo = 0
    /\ run.pc \notin {"spawning", "interrupted"} => run.emitting = 0
    /\ run.batch = {h \in 1..run.spawned : h > run.spawned + run.todo - Share(run.mode)}

TypeInv == TypeOK /\ Count

\* What a run may be, kept in one piece.
RunRecords ==
    [pc : {"idle", "planning", "spawning", "using", "joining",
           "concluding"} \cup Over,
     mode : Modes \cup {"none"}, fallback : Fallbacks \cup {"none"},
     round : 0..TeamSize + MaxRounds, todo : 0..TeamSize,
     emitting : 0..TeamSize, batch : SUBSET Handles,
     spawned : 0..TeamSize * MaxRounds, success : BOOLEAN,
     cancelled : BOOLEAN]

LEMMA Sizes ==
    /\ TeamSize \in Nat /\ TeamSize >= 1
    /\ MaxRounds \in Nat /\ MaxRounds >= 1
    /\ TeamSize * MaxRounds \in Nat
    /\ \A mode : Share(mode) \in 1..TeamSize
    /\ \A mode : MostRounds(mode) \in 1..TeamSize + MaxRounds
<1>1. /\ TeamSize \in Nat /\ TeamSize >= 1
      /\ MaxRounds \in Nat /\ MaxRounds >= 1
  BY TeamAssumption
<1>2. TeamSize * MaxRounds \in Nat
  BY <1>1
<1>3. \A mode : Share(mode) \in 1..TeamSize
  BY <1>1 DEF Share
<1>4. \A mode : MostRounds(mode) \in 1..TeamSize + MaxRounds
  BY <1>1 DEF MostRounds
<1> QED
  BY <1>1, <1>2, <1>3, <1>4

\* Rounds that are allowed need no more agents than there are handles.
LEMMA Room ==
    ASSUME NEW mode, NEW r \in 1..MostRounds(mode)
    PROVE  Share(mode) * r \in 0..TeamSize * MaxRounds
<1> USE Sizes
<1>0. r \in Nat /\ r >= 1
  OBVIOUS
<1>1. CASE mode = "sequential"
  <2>1. Share(mode) * r = r /\ r <= TeamSize
    BY <1>0, <1>1 DEF Share, MostRounds
  <2>2. TeamSize <= TeamSize * MaxRounds
    <3>1. \A m \in Nat : TeamSize * (m + 1) = TeamSize * m + TeamSize
      OBVIOUS
    <3>2. PICK m \in Nat : MaxRounds = m + 1
      <4>1. MaxRounds - 1 \in Nat /\ MaxRounds = (MaxRounds - 1) + 1
        OBVIOUS
      <4> QED
        BY <4>1
    <3>3. TeamSize * m \in Nat
      OBVIOUS
    <3> QED
      BY <3>1, <3>2, <3>3
  <2> QED
    BY <1>0, <2>1, <2>2
<1>2. CASE mode # "sequential"
  <2>1. Share(mode) = TeamSize /\ r <= MaxRounds
    BY <1>0, <1>2 DEF Share, MostRounds
  <2>2. PICK k \in Nat : MaxRounds = r + k
    <3>1. MaxRounds - r \in Nat /\ MaxRounds = r + (MaxRounds - r)
      BY <1>0, <2>1
    <3> QED
      BY <3>1
  <2>3. TeamSize * MaxRounds = TeamSize * r + TeamSize * k
    BY <1>0, <2>2
  <2>4. TeamSize * r \in Nat /\ TeamSize * k \in Nat
    BY <1>0
  <2> QED
    BY <2>1, <2>3, <2>4
<1> QED
  BY <1>1, <1>2

LEMMA InitTypeInv == Init => TypeInv
<1> SUFFICES ASSUME Init PROVE TypeInv
  OBVIOUS
<1>1. TypeOK
  <2>1. {} \subseteq Handles /\ 0 \in 0..MaxTimedJoins
    BY TeamAssumption
  <2>2. /\ 0 \in 0..TeamSize /\ 0 \in 0..TeamSize + MaxRounds
        /\ 0 \in 0..TeamSize * MaxRounds
    BY Sizes
  <2>3. run \in RunRecords
    BY <2>1, <2>2 DEF Init, RunRecords, Over
  <2> QED
    BY <2>1, <2>3 DEF Init, TypeOK, RunRecords, Live, Outcomes
<1>2. Count
  BY Sizes DEF Init, Count, Share
<1> QED
  BY <1>1, <1>2 DEF TypeInv

\* A step that leaves the run alone leaves its count alone.
LEMMA CountStays == ASSUME Count, UNCHANGED run PROVE Count'
  BY DEF Count

\* The spawning of one more agent.
LEMMA SpawnTypeInv == ASSUME TypeInv, Spawn PROVE TypeInv'
<1> DEFINE h == run.spawned + 1
<1> USE Sizes
<1>1. /\ run \in RunRecords
      /\ run.pc = "spawning" /\ run.todo > 0
  BY DEF Spawn, TypeInv, TypeOK, RunRecords
<1>2. run.mode \in Modes /\ run.round \in 1..MostRounds(run.mode)
  BY <1>1 DEF TypeInv, Count
<1>3. Share(run.mode) * run.round \in 0..TeamSize * MaxRounds
  BY <1>2, Room
<1>4. run.spawned + run.todo = Share(run.mode) * run.round
  BY <1>1 DEF TypeInv, Count
<1>5. h \in Handles /\ h \in Nat
  BY <1>1, <1>3, <1>4 DEF Handles, RunRecords
<1>6. run' = [run EXCEPT !.todo = @ - 1, !.emitting = @ + 1,
                         !.spawned = h, !.batch = @ \cup {h}]
  BY DEF Spawn
<1>7. run.todo + run.emitting <= Share(run.mode)
  BY DEF TypeInv, Count
<1>8. run' \in RunRecords
  <2>1. /\ run.todo \in Nat /\ run.emitting \in Nat
        /\ run.batch \subseteq Handles /\ Share(run.mode) \in 1..TeamSize
    BY <1>1 DEF RunRecords
  <2>2. /\ run.todo - 1 \in 0..TeamSize /\ run.emitting + 1 \in 0..TeamSize
        /\ run.batch \cup {h} \subseteq Handles
        /\ h \in 0..TeamSize * MaxRounds
    BY <1>1, <1>5, <1>7, <2>1 DEF Handles
  <2> QED
    BY <1>1, <1>6, <2>2 DEF RunRecords
<1>9. Count'
  <2>1. run'.batch = {g \in 1..run'.spawned :
                          g > run'.spawned + run'.todo - Share(run'.mode)}
    <3>1. run.batch = {g \in 1..run.spawned :
                           g > run.spawned + run.todo - Share(run.mode)}
      BY DEF TypeInv, Count
    <3>2. /\ run'.batch = run.batch \cup {h}
          /\ run'.spawned = h /\ run'.todo = run.todo - 1
          /\ run'.mode = run.mode
      BY <1>1, <1>6 DEF RunRecords
    <3>3. /\ run.spawned \in Nat /\ run.todo \in Nat /\ run.emitting \in Nat
          /\ run.todo <= Share(run.mode)
      BY <1>1, <1>7 DEF RunRecords
    <3> QED
      BY <3>1, <3>2, <3>3
  <2>2. /\ run'.pc = "spawning" /\ run'.mode = run.mode
        /\ run'.round = run.round
        /\ run'.spawned + run'.todo = run.spawned + run.todo
        /\ run'.todo + run'.emitting = run.todo + run.emitting
    BY <1>1, <1>6 DEF RunRecords
  <2> QED
    BY <1>2, <1>4, <1>7, <2>1, <2>2 DEF Count
<1>10. /\ agent' = [agent EXCEPT ![h] = "live"]
       /\ status' = [status EXCEPT ![h] = "running"]
       /\ UNCHANGED <<cancel, join, watch, timedJoins, terminated>>
  BY DEF Spawn
<1>11. TypeOK'
  BY <1>5, <1>8, <1>10 DEF TypeInv, TypeOK, RunRecords, Live, Outcomes
<1> QED
  BY <1>9, <1>11 DEF TypeInv

\* The step that leaves planning, or the last event of a round.
LEMMA BeginTypeInv ==
    ASSUME TypeInv, NEW mode \in Modes, NEW fallback \in Fallbacks,
           StartRun(mode, fallback)
    PROVE  TypeInv'
<1> USE Sizes
<1>1. run \in RunRecords /\ run.pc = "idle"
  BY DEF TypeInv, TypeOK, RunRecords, StartRun
<1>2. /\ run.spawned = 0 /\ run.todo = 0 /\ run.emitting = 0
      /\ run.batch = {h \in 1..run.spawned :
                          h > run.spawned + run.todo - Share(run.mode)}
  BY <1>1 DEF TypeInv, Count
<1>3. run' = [run EXCEPT !.mode = mode, !.fallback = fallback, !.round = 1,
                         !.todo = Share(mode),
                         !.pc = IF mode = "delegate" THEN "planning"
                                ELSE "spawning"]
  BY DEF StartRun
<1>4. Share(mode) \in 1..TeamSize /\ 1 \in 0..TeamSize + MaxRounds
  OBVIOUS
<1>5. run' \in RunRecords
  <2>1. Share(mode) \in 0..TeamSize
    BY <1>4
  <2> QED
    BY <1>1, <1>3, <1>4, <2>1 DEF RunRecords
<1>6. Count'
  <2>1. /\ run'.pc \in {"planning", "spawning"} /\ run'.mode = mode
        /\ run'.round = 1 /\ run'.todo = Share(mode) /\ run'.emitting = 0
        /\ run'.spawned = 0 /\ run'.batch = run.batch
    BY <1>1, <1>2, <1>3 DEF RunRecords
  <2>2. run.batch = {}
    BY <1>2
  <2>3. 1 \in 1..MostRounds(mode) /\ Share(mode) = Share(mode) * 1
    <3>1. MostRounds(mode) \in 1..TeamSize + MaxRounds
      OBVIOUS
    <3> QED
      BY <3>1, <1>4
  <2>4. run'.batch = {h \in 1..run'.spawned :
                          h > run'.spawned + run'.todo - Share(run'.mode)}
    BY <2>1, <2>2
  <2> QED
    BY <1>4, <2>1, <2>3, <2>4 DEF Count
<1>7. TypeOK'
  BY <1>5 DEF StartRun, TypeInv, TypeOK, RunRecords, Live, Outcomes
<1> QED
  BY <1>6, <1>7 DEF TypeInv

LEMMA SpawnReturnsTypeInv == ASSUME TypeInv, SpawnReturns PROVE TypeInv'
<1> DEFINE last == run.todo = 0 /\ run.emitting = 1
<1>1. /\ run \in RunRecords /\ run.pc = "spawning" /\ run.emitting > 0
      /\ Count
  BY DEF TypeInv, TypeOK, RunRecords, SpawnReturns
<1>2. PICK pc \in {"spawning", "using", "joining"} :
         /\ pc # "spawning" => last
         /\ run' = [run EXCEPT !.emitting = @ - 1, !.pc = pc]
  BY <1>1 DEF SpawnReturns
<1>3. run.emitting - 1 \in 0..TeamSize /\ run.emitting \in Nat
  BY <1>1, Sizes DEF RunRecords
<1>4. run' \in RunRecords
  BY <1>1, <1>2, <1>3 DEF RunRecords
<1>5. /\ run'.pc = pc /\ run'.emitting = run.emitting - 1
      /\ run'.mode = run.mode /\ run'.round = run.round
      /\ run'.todo = run.todo /\ run'.spawned = run.spawned
      /\ run'.batch = run.batch
  BY <1>1, <1>2 DEF RunRecords
<1>6. run.todo \in Nat /\ Share(run.mode) \in Nat
  BY <1>1, Sizes DEF RunRecords
<1>7. Count'
  BY <1>1, <1>2, <1>3, <1>5, <1>6 DEF Count
<1>8. TypeOK'
  <2>1. /\ join' \in [Handles -> {"none", "waiting", "notifying", "joined",
                                  "cancelled"}]
        /\ UNCHANGED <<agent, cancel, status, watch, timedJoins, terminated>>
    BY DEF SpawnReturns, JoinAll, TypeInv, TypeOK
  <2> QED
    BY <1>4, <2>1 DEF TypeInv, TypeOK, RunRecords, Live, Outcomes
<1> QED
  BY <1>7, <1>8 DEF TypeInv

\* A step of the run that moves its pc, out of joining or towards an end.
LEMMA MoveCount ==
    ASSUME run \in RunRecords, Count, run.pc # "idle",
           NEW pc \in {"spawning", "joining", "concluding"} \cup Over,
           NEW success \in BOOLEAN, NEW cancelled \in BOOLEAN,
           \/ run.pc \notin {"planning", "spawning"}
           \/ run.pc = "planning" /\ pc = "spawning"
           \/ pc = "interrupted",
           run.pc = "interrupted" => pc = "interrupted",
           run' = [run EXCEPT !.pc = pc, !.success = success,
                              !.cancelled = cancelled]
    PROVE  run' \in RunRecords /\ Count'
<1>1. run' \in RunRecords
  BY DEF RunRecords
<1>2. /\ run'.pc = pc /\ run'.emitting = run.emitting
      /\ run'.mode = run.mode /\ run'.round = run.round
      /\ run'.todo = run.todo /\ run'.spawned = run.spawned
      /\ run'.batch = run.batch
  BY DEF RunRecords
<1>3. Count'
  BY <1>2 DEF Count, Over
<1> QED
  BY <1>1, <1>3

LEMMA NextBatchCount ==
    ASSUME run \in RunRecords, Count, run.pc = "joining", NextBatch,
           run.round + 1 <= MostRounds(run.mode)
    PROVE  run' \in RunRecords /\ Count'
<1> DEFINE m == run.mode
<1>1. /\ run.round \in 1..MostRounds(m) /\ run.todo = 0 /\ run.emitting = 0
      /\ run.spawned + run.todo = Share(m) * run.round
      /\ run.spawned \in Nat
  BY DEF Count, RunRecords
<1>2. Share(m) \in 1..TeamSize /\ MostRounds(m) \in 1..TeamSize + MaxRounds
  BY Sizes
<1>3. run.round + 1 \in 1..MostRounds(m)
  BY <1>1, <1>2, Sizes
<1>4. run' \in RunRecords
  <2>1. run.round + 1 \in 0..TeamSize + MaxRounds /\ Share(m) \in 0..TeamSize
    BY <1>2, <1>3, Sizes
  <2> QED
    BY <2>1 DEF NextBatch, RunRecords
<1>5. /\ run'.pc = "spawning" /\ run'.mode = m /\ run'.round = run.round + 1
      /\ run'.todo = Share(m) /\ run'.batch = {} /\ run'.emitting = 0
      /\ run'.spawned = run.spawned
  BY <1>1 DEF NextBatch, RunRecords
<1>6. run.spawned + Share(m) = Share(m) * (run.round + 1)
  BY <1>1, <1>2, Sizes
<1>7. {} = {h \in 1..run.spawned : h > run.spawned + Share(m) - Share(m)}
  BY <1>1, <1>2
<1>8. m \in Modes
  BY DEF Count
<1>9. Count'
  BY <1>2, <1>3, <1>5, <1>6, <1>7, <1>8 DEF Count
<1> QED
  BY <1>4, <1>9

Rest == <<agent, cancel, status, join, watch, timedJoins, terminated>>

\* What a step of the run may do besides spawning.
Moved ==
    \E pc \in {"spawning", "joining", "concluding"} \cup Over,
       success \in BOOLEAN, cancelled \in BOOLEAN :
        /\ \/ run.pc \notin {"planning", "spawning"}
           \/ run.pc = "planning" /\ pc = "spawning"
           \/ pc = "interrupted"
        /\ run' = [run EXCEPT !.pc = pc, !.success = success,
                              !.cancelled = cancelled]

Renewed == /\ run.pc = "joining"
           /\ NextBatch
           /\ run.round + 1 <= MostRounds(run.mode)

LEMMA MovedCount ==
    ASSUME run \in RunRecords, Count, run.pc \notin {"idle", "interrupted"},
           Moved \/ Renewed
    PROVE  run' \in RunRecords /\ Count'
  BY MoveCount, NextBatchCount DEF Moved, Renewed

LEMMA RunStepMoves ==
    ASSUME TypeInv, RunStep
    PROVE  \/ Spawn
           \/ SpawnReturns
           \/ /\ run.pc \notin {"idle", "interrupted"}
              /\ Moved \/ Renewed
              /\ UNCHANGED Rest
<1>0. /\ run \in RunRecords /\ run.success \in BOOLEAN
      /\ run.cancelled \in BOOLEAN
      /\ run.pc # "idle" => run.round \in 1..MostRounds(run.mode)
  BY DEF TypeInv, TypeOK, RunRecords, Count
<1>1. CASE Spawn \/ SpawnReturns
  BY <1>1
<1>2. CASE PlanDone
  <2>1. run' = [run EXCEPT !.pc = "spawning", !.success = run.success,
                           !.cancelled = run.cancelled]
    BY <1>0, <1>2 DEF PlanDone, RunRecords
  <2> QED
    BY <1>0, <1>2, <2>1 DEF PlanDone, Moved, Rest
<1>3. CASE GatherRaises
  <2>1. run' = [run EXCEPT !.pc = "interrupted", !.success = run.success,
                           !.cancelled = run.cancelled]
    BY <1>0, <1>3 DEF GatherRaises, RunRecords
  <2> QED
    BY <1>0, <1>3, <2>1 DEF GatherRaises, Moved, Rest, Over
<1>4. ASSUME NEW pc \in {"concluding"} \cup Over, run.pc = "joining",
             run' = [run EXCEPT !.pc = pc]
      PROVE  Moved
  <2>1. run' = [run EXCEPT !.pc = pc, !.success = run.success,
                           !.cancelled = run.cancelled]
    BY <1>0, <1>4 DEF RunRecords
  <2> QED
    BY <1>0, <1>4, <2>1 DEF Moved
<1>5. ASSUME NEW success \in BOOLEAN, run.pc \in {"joining", "concluding"},
             Return(success)
      PROVE  Moved
  <2>1. run' = [run EXCEPT !.pc = "returned", !.success = success,
                           !.cancelled = run.cancelled]
    BY <1>0, <1>5 DEF RunRecords, Return
  <2> QED
    BY <1>0, <1>5, <2>1 DEF Moved, Over
<1>6. CASE CollectDelegate
  BY <1>4, <1>6 DEF CollectDelegate, Collect, Over, Rest
<1>7. CASE CollectAutonomous
  <2>1. run.mode = "autonomous" /\ run.pc = "joining" /\ UNCHANGED Rest
    BY <1>7 DEF CollectAutonomous, Collect, Rest
  <2>2. CASE Converged
    BY <1>4, <1>7, <2>1, <2>2 DEF CollectAutonomous
  <2>3. CASE ~Converged
    <3>1. MostRounds(run.mode) = MaxRounds /\ ~(run.round >= MaxRounds)
      BY <2>1, <2>3 DEF MostRounds, Converged
    <3>2. run.round \in Nat /\ MaxRounds \in Nat
      BY <1>0, Sizes DEF RunRecords
    <3> QED
      BY <1>7, <2>1, <2>3, <3>1, <3>2 DEF CollectAutonomous, Renewed
  <2> QED
    BY <2>2, <2>3
<1>8. CASE CollectSequential
  <2>1. run.mode = "sequential" /\ run.pc = "joining" /\ UNCHANGED Rest
    BY <1>8 DEF CollectSequential, Collect, Rest
  <2>2. CASE Aborts \/ run.round = TeamSize
    BY <1>5, <1>8, <2>1, <2>2
       DEF CollectSequential, EveryStageSucceeded, AllSucceeded
  <2>3. CASE ~(Aborts \/ run.round = TeamSize)
    <3>1. MostRounds(run.mode) = TeamSize /\ run.round # TeamSize
      BY <2>1, <2>3 DEF MostRounds
    <3>2. run.round \in Nat /\ TeamSize \in Nat /\ run.round <= TeamSize
      BY <1>0, <2>1, <3>1, Sizes DEF RunRecords
    <3> QED
      BY <1>8, <2>1, <2>3, <3>1, <3>2 DEF CollectSequential, Renewed
  <2> QED
    BY <2>2, <2>3
<1>9. CASE CollectParallel
  BY <1>5, <1>9 DEF CollectParallel, Collect, Rest
<1>10. CASE Conclude
  BY <1>5, <1>10 DEF Conclude, Rest
<1> QED
  BY <1>1, <1>2, <1>3, <1>6, <1>7, <1>8, <1>9, <1>10 DEF RunStep

\* A step that leaves the run alone has only types to keep.
LEMMA TaskTypeInv ==
    ASSUME TypeInv, NEW h \in Handles, TaskStep(h) \/ UserStep(h)
    PROVE  TypeInv' /\ UNCHANGED run
<1> USE DEF TypeInv, TypeOK, Live, Outcomes
<1>1. CASE AgentFinishes(h)
  BY <1>1, CountStays DEF AgentFinishes
<1>2. CASE AgentCancelled(h)
  BY <1>2, CountStays DEF AgentCancelled
<1>3. CASE JoinResumes(h)
  BY <1>3, CountStays DEF JoinResumes, StatusAfterJoin
<1>4. CASE JoinReturns(h)
  BY <1>4, CountStays DEF JoinReturns
<1>5. CASE TimedJoinExpires(h)
  BY <1>5, CountStays DEF TimedJoinExpires, AfterTimeout
<1>6. CASE TimedJoinReturns(h)
  BY <1>6, CountStays DEF TimedJoinReturns, StatusAfterJoin
<1>7. CASE Terminate(h)
  BY <1>7, CountStays DEF Terminate, Cancellable
<1>8. CASE TimedJoin(h)
  BY <1>8, CountStays, TeamAssumption DEF TimedJoin
<1> QED
  BY <1>1, <1>2, <1>3, <1>4, <1>5, <1>6, <1>7, <1>8 DEF TaskStep, UserStep

LEMMA NextTypeInv == TypeInv /\ [Next]_vars => TypeInv'
<1> SUFFICES ASSUME TypeInv, [Next]_vars PROVE TypeInv'
  OBVIOUS
<1>0. run \in RunRecords /\ Count
  BY DEF TypeInv, TypeOK, RunRecords
<1>1. CASE UNCHANGED vars
  BY <1>1, CountStays DEF vars, TypeInv, TypeOK, Live
<1>2. CASE Begin
  BY <1>2, BeginTypeInv DEF Begin
<1>3. CASE RunStep
  <2>1. CASE Spawn \/ SpawnReturns
    BY <2>1, SpawnTypeInv, SpawnReturnsTypeInv
  <2>2. CASE /\ run.pc \notin {"idle", "interrupted"}
             /\ Moved \/ Renewed
             /\ UNCHANGED Rest
    <3>1. run' \in RunRecords /\ Count'
      BY <1>0, <2>2, MovedCount
    <3> QED
      BY <2>2, <3>1 DEF Rest, TypeInv, TypeOK, RunRecords, Live
  <2> QED
    BY <1>3, <2>1, <2>2, RunStepMoves
<1>4. CASE \E h \in Handles : TaskStep(h) \/ UserStep(h)
  BY <1>4, TaskTypeInv
<1>5. CASE CancelRun
  <2>1. PICK pc \in {"joining", "interrupted"} :
           run' = [run EXCEPT !.cancelled = TRUE, !.pc = pc]
                  /\ (pc = "joining" => run.pc = "joining")
    BY <1>5 DEF CancelRun
  <2>2. run' = [run EXCEPT !.pc = pc, !.success = run.success,
                           !.cancelled = TRUE]
        /\ run.success \in BOOLEAN /\ run.pc \notin {"idle", "interrupted"}
    BY <1>0, <1>5, <2>1 DEF CancelRun, RunRecords
  <2>3. run' \in RunRecords /\ Count'
    BY <1>0, <2>1, <2>2, MoveCount DEF Over
  <2>4. /\ cancel' \subseteq Live
        /\ join' \in [Handles -> {"none", "waiting", "notifying", "joined",
                                  "cancelled"}]
        /\ watch' \in [Handles -> {"none", "waiting", "over"}]
        /\ UNCHANGED <<agent, status, timedJoins, terminated>>
    <3>1. cancel \subseteq Live /\ Awaited \subseteq Live
      BY <1>0 DEF TypeInv, TypeOK, Awaited, Live, RunRecords
    <3> QED
      BY <1>5, <3>1 DEF CancelRun, TypeInv, TypeOK
  <2> QED
    BY <2>3, <2>4 DEF TypeInv, TypeOK, RunRecords, Live
<1>6. CASE JoinTeam
  <2>1. /\ run' = [run EXCEPT !.pc = "joining", !.success = run.success,
                              !.cancelled = run.cancelled]
        /\ run.success \in BOOLEAN /\ run.cancelled \in BOOLEAN
        /\ run.pc = "using"
    BY <1>0, <1>6 DEF JoinTeam, RunRecords
  <2>2. run' \in RunRecords /\ Count'
    BY <1>0, <2>1, MoveCount
  <2>3. join' \in [Handles -> {"none", "waiting", "notifying", "joined",
                              "cancelled"}]
    BY <1>6 DEF JoinTeam, JoinAll, TypeInv, TypeOK
  <2> QED
    BY <1>6, <2>2, <2>3 DEF JoinTeam, TypeInv, TypeOK, RunRecords, Live
<1> QED
  BY <1>1, <1>2, <1>3, <1>4, <1>5, <1>6 DEF Next

LEMMA TypeInvariant == Spec => []TypeInv
  BY InitTypeInv, NextTypeInv, PTL DEF Spec

\* Every variable keeps its type; in particular no run spawns more agents
\* than its rounds allow.
THEOREM TypeCorrect == Spec => []TypeOK
  BY TypeInvariant, PTL DEF TypeInv

-----------------------------------------------------------------------------
(* What is known of a handle *)

HandleOf(h) ==
    \* An agent exists once it is spawned, and is done before the next round.
    /\ agent[h] = "none" <=> h > run.spawned
    /\ h <= run.spawned /\ h \notin run.batch => HasResult(h)
    \* Where its join stands, and what the join has left in the status.
    /\ agent[h] = "none" => join[h] = "none"
    /\ join[h] \in {"notifying", "joined"} =>
           HasResult(h) /\ status[h] = StatusAfterJoin(h)
    /\ join[h] = "cancelled" => Done(h) /\ (h \in terminated \/ run.cancelled)
    /\ watch[h] = "waiting" => run.pc = "using"
    /\ run.pc = "using" => join[h] = "none"
    /\ h \in run.batch =>
           /\ run.pc \in {"planning", "spawning", "using"} => join[h] = "none"
           /\ run.pc = "joining" => join[h] # "none"
           /\ run.pc \in {"concluding", "returned", "raised"} => join[h] = "joined"
    \* What the status says of the agent.
    /\ status[h] = "completed" => agent[h] = "succeeded"
    /\ status[h] = "cancelled" => h \in cancel \/ agent[h] = "cancelled"
    \* Who has cancelled it.
    /\ h \in cancel \/ agent[h] = "cancelled" => h \in terminated \/ run.cancelled

Ledger == \A h \in Handles : HandleOf(h)

\* A join that can only end in CancelledError.
Doomed(h) ==
    \/ join[h] = "cancelled"
    \/ join[h] = "waiting" /\ (h \in cancel \/ agent[h] = "cancelled")

\* A cancelled run is on its way out of its joins, with all its agents.
Unwinding ==
    /\ run.cancelled => run.pc \in {"joining", "interrupted"}
    /\ run.cancelled /\ run.pc = "joining" =>
           (\E h \in run.batch : Doomed(h)) /\ Live \subseteq cancel
    /\ CancelReachesTeam

\* An answer under ABORT rests on results without a failure.
Earned ==
    /\ run.pc = "concluding" => run.mode \in {"delegate", "autonomous"}
    /\ run.pc = "concluding" /\ run.mode = "delegate" /\ run.fallback = "abort"
           => AllSucceeded(run.batch)
    /\ SuccessEarned

LEMMA InitLedger == Init => Ledger
<1> SUFFICES ASSUME Init, NEW h \in Handles PROVE HandleOf(h)
  BY DEF Ledger
<1>1. h \in Nat /\ h >= 1
  BY Sizes DEF Handles
<1> QED
  BY <1>1 DEF Init, HandleOf, HasResult, Done

\* Steps of agents, joins and the user: the run stays as it is.
LEMMA TaskLedger ==
    ASSUME TypeInv, Ledger, NEW k \in Handles, TaskStep(k) \/ UserStep(k)
    PROVE  Ledger'
<1> SUFFICES ASSUME NEW h \in Handles PROVE HandleOf(h)'
  BY DEF Ledger
<1>0. HandleOf(h) /\ HandleOf(k)
  BY DEF Ledger
<1>1. UNCHANGED run
  BY TaskTypeInv
<1> USE <1>0, <1>1 DEF HandleOf, HasResult, Done, Outcomes, Live, TypeInv, TypeOK,
                      StatusAfterJoin
<1>2. CASE AgentFinishes(k)
  BY <1>2 DEF AgentFinishes
<1>3. CASE AgentCancelled(k)
  BY <1>3 DEF AgentCancelled
<1>4. CASE JoinResumes(k)
  BY <1>4 DEF JoinResumes
<1>5. CASE JoinReturns(k)
  BY <1>5 DEF JoinReturns
<1>6. CASE TimedJoinExpires(k)
  BY <1>6 DEF TimedJoinExpires, AfterTimeout
<1>7. CASE TimedJoinReturns(k)
  BY <1>7 DEF TimedJoinReturns
<1>8. CASE Terminate(k)
  BY <1>8 DEF Terminate, Cancellable
<1>9. CASE TimedJoin(k)
  BY <1>9 DEF TimedJoin
<1> QED
  BY <1>2, <1>3, <1>4, <1>5, <1>6, <1>7, <1>8, <1>9 DEF TaskStep, UserStep

\* A batch that is joined has results.
LEMMA JoinedHaveResults ==
    ASSUME TypeInv, Ledger, AllJoined
    PROVE  \A h \in run.batch : h \in Handles /\ HasResult(h)
  BY DEF TypeInv, TypeOK, Ledger, HandleOf, AllJoined

LEMMA RunStepLedger ==
    ASSUME TypeInv, Ledger, RunStep
    PROVE  Ledger'
<1> SUFFICES ASSUME NEW h \in Handles PROVE HandleOf(h)'
  BY DEF Ledger
<1>0. /\ HandleOf(h) /\ run \in RunRecords /\ Count
      /\ h \in Nat /\ h >= 1 /\ run.spawned \in Nat
  BY Sizes DEF Ledger, TypeInv, TypeOK, RunRecords, Handles
<1>1. CASE Spawn
  <2>1. /\ run'.pc = "spawning" /\ run'.spawned = run.spawned + 1
        /\ run'.batch = run.batch \cup {run.spawned + 1}
        /\ run'.cancelled = run.cancelled /\ run.pc = "spawning"
    BY <1>0, <1>1 DEF Spawn, RunRecords
  <2>2. /\ agent'[h] = IF h = run.spawned + 1 THEN "live" ELSE agent[h]
        /\ status'[h] = IF h = run.spawned + 1 THEN "running" ELSE status[h]
        /\ UNCHANGED <<cancel, join, watch, timedJoins, terminated>>
    BY <1>1 DEF Spawn, TypeInv, TypeOK
  <2>3. h \in cancel => agent[h] = "live"
    BY DEF TypeInv, TypeOK, Live
  <2> QED
    BY <1>0, <2>1, <2>2, <2>3 DEF HandleOf, HasResult, Done, Outcomes, StatusAfterJoin
<1>2. CASE SpawnReturns
  <2>1. /\ run'.spawned = run.spawned /\ run'.batch = run.batch
        /\ run'.cancelled = run.cancelled /\ run.pc = "spawning"
        /\ run'.pc \in {"spawning", "using", "joining"}
        /\ UNCHANGED <<agent, cancel, status, watch, timedJoins, terminated>>
    BY <1>0, <1>2 DEF SpawnReturns, RunRecords
  <2>2. \/ run'.pc = "spawning" /\ UNCHANGED join
        \/ /\ run'.pc = "joining"
           /\ join'[h] = IF h \in run.batch THEN "waiting" ELSE join[h]
        \/ /\ run'.pc = "using" /\ UNCHANGED join
           /\ run.mode = "direct" /\ run.todo = 0
    BY <1>0, <1>2 DEF SpawnReturns, RunRecords, JoinAll
  <2>3. CASE run'.pc = "spawning" /\ UNCHANGED join
    BY <1>0, <2>1, <2>3 DEF HandleOf, HasResult, Done, StatusAfterJoin
  <2>4. CASE /\ run'.pc = "joining"
             /\ join'[h] = IF h \in run.batch THEN "waiting" ELSE join[h]
    <3>1. h \in run.batch => agent[h] # "none"
      BY <1>0 DEF HandleOf, Count
    <3> QED
      BY <1>0, <2>1, <2>4, <3>1 DEF HandleOf, HasResult, Done, StatusAfterJoin
  <2>5. CASE /\ run'.pc = "using" /\ UNCHANGED join
             /\ run.mode = "direct" /\ run.todo = 0
    <3>1. run.round = 1 /\ run.spawned = Share(run.mode) * 1
      BY <1>0, <2>1, <2>5 DEF Count, MostRounds
    <3>2. h <= run.spawned => h \in run.batch
      BY <1>0, <2>5, <3>1, Sizes DEF Count
    <3>3. join[h] = "none"
      BY <1>0, <2>1, <3>2 DEF HandleOf
    <3> QED
      BY <1>0, <2>1, <2>5, <3>3 DEF HandleOf, HasResult, Done, StatusAfterJoin
  <2> QED
    BY <2>2, <2>3, <2>4, <2>5
<1>3. ASSUME UNCHANGED Rest, NEW pc \in {"spawning", "concluding"} \cup Over,
             \/ run' = [run EXCEPT !.pc = pc]
             \/ \E b \in BOOLEAN : run' = [run EXCEPT !.pc = pc, !.success = b],
             \/ run.pc = "planning" /\ pc = "spawning"
             \/ run.pc = "joining" /\ AllJoined /\ pc # "spawning"
             \/ run.pc = "concluding" /\ pc # "spawning"
             \/ run.pc = "joining" /\ pc = "interrupted"
      PROVE  HandleOf(h)'
  <2>1. /\ run'.spawned = run.spawned /\ run'.batch = run.batch
        /\ run'.cancelled = run.cancelled /\ run'.pc = pc
    BY <1>0, <1>3 DEF RunRecords
  <2>2. UNCHANGED <<agent, cancel, status, join, watch, terminated>>
    BY <1>3 DEF Rest
  <2>3. watch[h] = "waiting" => run.pc = "using"
    BY <1>0 DEF HandleOf
  <2> QED
    BY <1>0, <1>3, <2>1, <2>2, <2>3
       DEF HandleOf, HasResult, Done, StatusAfterJoin, AllJoined, Over
<1>4. ASSUME UNCHANGED Rest, run.pc = "joining", AllJoined, NextBatch
      PROVE  HandleOf(h)'
  <2>1. /\ run'.spawned = run.spawned /\ run'.batch = {}
        /\ run'.cancelled = run.cancelled /\ run'.pc = "spawning"
    BY <1>0, <1>4 DEF RunRecords, NextBatch
  <2>2. h \in run.batch => HasResult(h)
    BY <1>4, JoinedHaveResults
  <2>3. UNCHANGED <<agent, cancel, status, join, watch, terminated>>
    BY <1>4 DEF Rest
  <2> QED
    BY <1>0, <1>4, <2>1, <2>2, <2>3 DEF HandleOf, HasResult, Done, StatusAfterJoin
<1>5. CASE PlanDone
  BY <1>3, <1>5 DEF PlanDone, Rest
<1>6. CASE GatherRaises
  BY <1>3, <1>6 DEF GatherRaises, Rest, Over
<1>7. CASE CollectDelegate
  BY <1>3, <1>7 DEF CollectDelegate, Collect, Rest, Over
<1>8. CASE CollectAutonomous
  BY <1>3, <1>4, <1>8 DEF CollectAutonomous, Collect, Rest
<1>9. CASE CollectSequential
  <2>1. EveryStageSucceeded \in BOOLEAN
    BY DEF EveryStageSucceeded, AllSucceeded
  <2> QED
    BY <1>3, <1>4, <1>9, <2>1 DEF CollectSequential, Collect, Rest, Return, Over
<1>10. CASE CollectParallel
  BY <1>3, <1>10 DEF CollectParallel, Collect, Rest, Return, Over
<1>11. CASE Conclude
  BY <1>3, <1>11 DEF Conclude, Rest, Return, Over
<1> QED
  BY <1>1, <1>2, <1>5, <1>6, <1>7, <1>8, <1>9, <1>10, <1>11 DEF RunStep

LEMMA CancelRunLedger == ASSUME TypeInv, Ledger, CancelRun PROVE Ledger'
<1> SUFFICES ASSUME NEW h \in Handles PROVE HandleOf(h)'
  BY DEF Ledger
<1>1. /\ HandleOf(h) /\ run \in RunRecords
      /\ agent[h] \in {"none", "live"} \cup Outcomes
      /\ join[h] \in {"none", "waiting", "notifying", "joined", "cancelled"}
  BY DEF Ledger, TypeInv, TypeOK, RunRecords
<1>2. /\ run'.spawned = run.spawned /\ run'.batch = run.batch
      /\ run'.cancelled /\ run'.pc \in {"joining", "interrupted"}
      /\ run'.pc = "joining" => run.pc = "joining"
  BY <1>1 DEF CancelRun, RunRecords
<1>3. /\ h \in cancel => h \in cancel'
      /\ join'[h] = IF \/ join[h] = "notifying"
                       \/ join[h] = "waiting" /\ agent[h] # "live"
                    THEN "cancelled" ELSE join[h]
      /\ watch'[h] = IF watch[h] = "waiting" THEN "over" ELSE watch[h]
      /\ UNCHANGED <<agent, status, terminated>>
  BY DEF CancelRun
<1> QED
  BY <1>1, <1>2, <1>3 DEF HandleOf, HasResult, Done, Outcomes, StatusAfterJoin

LEMMA JoinTeamLedger == ASSUME TypeInv, Ledger, JoinTeam PROVE Ledger'
<1> SUFFICES ASSUME NEW h \in Handles PROVE HandleOf(h)'
  BY DEF Ledger
<1>1. /\ HandleOf(h) /\ run \in RunRecords /\ Count
      /\ watch[h] # "waiting" /\ run.pc = "using"
      /\ UNCHANGED <<agent, cancel, status, watch, terminated>>
  BY DEF Ledger, TypeInv, TypeOK, RunRecords, JoinTeam, Watching
<1>2. /\ run'.spawned = run.spawned /\ run'.batch = run.batch
      /\ run'.cancelled = run.cancelled /\ run'.pc = "joining"
  BY <1>1 DEF JoinTeam, RunRecords
<1>3. join'[h] = IF h \in run.batch THEN "waiting" ELSE join[h]
  BY DEF JoinTeam, JoinAll
<1>4. h \in run.batch => agent[h] # "none"
  BY <1>1 DEF HandleOf, Count, RunRecords
<1> QED
  BY <1>1, <1>2, <1>3, <1>4 DEF HandleOf, HasResult, Done, StatusAfterJoin

LEMMA BeginLedger ==
    ASSUME TypeInv, Ledger, NEW mode \in Modes, NEW fallback \in Fallbacks,
           StartRun(mode, fallback)
    PROVE  Ledger'
<1> SUFFICES ASSUME NEW h \in Handles PROVE HandleOf(h)'
  BY DEF Ledger
<1>1. /\ HandleOf(h) /\ run \in RunRecords /\ Count /\ run.pc = "idle"
      /\ UNCHANGED <<agent, cancel, status, join, watch, terminated>>
  BY DEF Ledger, TypeInv, TypeOK, RunRecords, StartRun
<1>2. /\ run'.spawned = run.spawned /\ run'.batch = run.batch
      /\ run'.cancelled = run.cancelled /\ run'.pc \in {"planning", "spawning"}
  BY <1>1 DEF StartRun, RunRecords
<1>3. run.batch = {}
  BY <1>1 DEF Count
<1> QED
  BY <1>1, <1>2, <1>3 DEF HandleOf, HasResult, Done, StatusAfterJoin

LEMMA NextLedger == TypeInv /\ Ledger /\ [Next]_vars => Ledger'
<1> SUFFICES ASSUME TypeInv, Ledger, [Next]_vars PROVE Ledger'
  OBVIOUS
<1>1. CASE UNCHANGED vars
  BY <1>1 DEF vars, Ledger, HandleOf, HasResult, Done, StatusAfterJoin
<1>2. CASE Next
  BY <1>2, BeginLedger, RunStepLedger, TaskLedger, CancelRunLedger,
     JoinTeamLedger DEF Next, Begin
<1> QED
  BY <1>1, <1>2

LEMMA LedgerInvariant == Spec => [](TypeInv /\ Ledger)
<1>1. TypeInv /\ Ledger /\ [Next]_vars => (TypeInv /\ Ledger)'
  BY NextTypeInv, NextLedger
<1> QED
  BY <1>1, InitTypeInv, InitLedger, PTL DEF Spec

\* Agents of earlier rounds are done.
LEMMA OnlyBatchLive == ASSUME TypeInv, Ledger PROVE Live \subseteq run.batch
<1> SUFFICES ASSUME NEW h \in Handles, agent[h] = "live" PROVE h \in run.batch
  BY DEF Live
<1>1. HandleOf(h) /\ h \in Nat /\ run.spawned \in Nat
  BY Sizes DEF Ledger, TypeInv, TypeOK, Handles
<1> QED
  BY <1>1 DEF HandleOf, HasResult

\* No agent outlives its round or its stage.
THEOREM RoundsApart == Spec => []RoundsDoNotOverlap
<1>1. TypeInv /\ Ledger => RoundsDoNotOverlap
  BY OnlyBatchLive DEF RoundsDoNotOverlap
<1> QED
  BY <1>1, LedgerInvariant, PTL

\* Nothing is left running, or cancelled, by a run that ends by itself.
THEOREM RunsEndClean == Spec => []EndsClean
<1>1. TypeInv /\ Ledger => EndsClean
  <2> SUFFICES ASSUME TypeInv, Ledger, run.pc \in {"returned", "raised"},
                      NEW h \in 1..run.spawned
               PROVE  HasResult(h)
    BY DEF EndsClean, HasResult
  <2>1. h \in Handles /\ h \in Nat /\ run.spawned \in Nat
    BY Sizes DEF TypeInv, TypeOK, Handles
  <2>2. HandleOf(h) /\ h <= run.spawned
    BY <2>1 DEF Ledger
  <2> QED
    BY <2>2 DEF HandleOf
<1> QED
  BY <1>1, LedgerInvariant, PTL

\* A cancelled agent was terminated, or its run was cancelled.
THEOREM CancellationsAsked == Spec => []NoStrayCancel
<1>1. Ledger => NoStrayCancel
  BY DEF Ledger, HandleOf, NoStrayCancel
<1> QED
  BY <1>1, LedgerInvariant, PTL

\* The last word on a handle's status is its agent's result.
THEOREM StatusIsTrue == Spec => []StatusTells
<1>1. Ledger => StatusTells
  <2> SUFFICES ASSUME Ledger, NEW h \in Handles
               PROVE  /\ join[h] = "joined" => status[h] = StatusAfterJoin(h)
                      /\ status[h] = "completed" => agent[h] = "succeeded"
                      /\ status[h] = "cancelled" =>
                             h \in cancel \/ agent[h] = "cancelled"
    BY DEF StatusTells, StatusAfterJoin
  <2> QED
    BY DEF Ledger, HandleOf
<1> QED
  BY <1>1, LedgerInvariant, PTL

-----------------------------------------------------------------------------
(* A cancelled run *)

LEMMA TaskUnwinding ==
    ASSUME TypeInv, Ledger, Unwinding, NEW k \in Handles,
           TaskStep(k) \/ UserStep(k)
    PROVE  Unwinding'
<1>1. UNCHANGED run
  BY TaskTypeInv
<1>2. /\ terminated \subseteq terminated'
      /\ \A h \in run.batch : join'[h] # "none" => join[h] # "none"
  BY DEF TaskStep, UserStep, AgentFinishes, AgentCancelled, JoinResumes,
         JoinReturns, TimedJoinExpires, TimedJoinReturns, Terminate, TimedJoin,
         TypeInv, TypeOK
<1>3. Live \subseteq cancel => Live' \subseteq cancel'
  BY DEF TaskStep, UserStep, AgentFinishes, AgentCancelled, JoinResumes,
         JoinReturns, TimedJoinExpires, AfterTimeout, TimedJoinReturns,
         Terminate, TimedJoin, TypeInv, TypeOK, Live
<1>4. ASSUME NEW h \in run.batch, Doomed(h) PROVE Doomed(h)'
  <2>1. h \in Handles /\ (h \in cancel => agent[h] = "live")
    BY DEF TypeInv, TypeOK, Live
  <2> USE <1>4, <2>1 DEF Doomed, TypeInv, TypeOK, Live
  <2>2. CASE AgentFinishes(k)
    BY <2>2 DEF AgentFinishes
  <2>3. CASE AgentCancelled(k)
    BY <2>3 DEF AgentCancelled
  <2>4. CASE JoinResumes(k)
    BY <2>4 DEF JoinResumes, Done, Outcomes
  <2>5. CASE JoinReturns(k)
    BY <2>5 DEF JoinReturns
  <2>6. CASE TimedJoinExpires(k) \/ TimedJoinReturns(k) \/ UserStep(k)
    BY <2>6 DEF TimedJoinExpires, AfterTimeout, TimedJoinReturns, UserStep,
                Terminate, TimedJoin
  <2> QED
    BY <2>2, <2>3, <2>4, <2>5, <2>6 DEF TaskStep
<1> QED
  BY <1>1, <1>2, <1>3, <1>4 DEF Unwinding, CancelReachesTeam

LEMMA RunStepUnwinding ==
    ASSUME TypeInv, Ledger, Unwinding, RunStep
    PROVE  Unwinding'
<1>0. run \in RunRecords
  BY DEF TypeInv, TypeOK, RunRecords
<1>1. CASE GatherRaises
  <2>1. /\ run'.pc = "interrupted" /\ run'.cancelled = run.cancelled
        /\ run'.batch = run.batch /\ run.pc = "joining"
        /\ UNCHANGED <<agent, cancel, join, terminated>>
    BY <1>0, <1>1 DEF GatherRaises, RunRecords
  <2>2. PICK h \in run.batch : join[h] = "cancelled"
    BY <1>1 DEF GatherRaises
  <2>3. h \in terminated \/ run.cancelled
    BY <2>2 DEF Ledger, HandleOf, TypeInv, TypeOK
  <2> QED
    BY <2>1, <2>3 DEF Unwinding, CancelReachesTeam, Live
<1>2. CASE ~GatherRaises
  <2>1. ~run.cancelled
    <3> SUFFICES ASSUME run.cancelled PROVE FALSE
      OBVIOUS
    <3>1. run.pc = "joining" /\ AllJoined
      BY <1>2 DEF Unwinding, RunStep, PlanDone, Spawn, SpawnReturns,
         CollectDelegate, CollectAutonomous, CollectSequential,
         CollectParallel, Collect, Conclude
    <3> QED
      BY <3>1 DEF Unwinding, Doomed, AllJoined
  <2>2. ~run'.cancelled /\ run'.pc # "interrupted"
    BY <1>0, <1>2, <2>1 DEF RunStep, PlanDone, Spawn, SpawnReturns, NextBatch,
       CollectDelegate, CollectAutonomous, CollectSequential,
       CollectParallel, Collect, Conclude, Return, RunRecords
  <2> QED
    BY <2>2 DEF Unwinding, CancelReachesTeam
<1> QED
  BY <1>1, <1>2

\* An agent that runs on is one whose join waits for it.
LEMMA CancelRunUnwinding ==
    ASSUME TypeInv, Ledger, CancelRun
    PROVE  Unwinding'
<1>1. run \in RunRecords /\ Live \subseteq run.batch /\ run.batch \subseteq Handles
  BY OnlyBatchLive DEF TypeInv, TypeOK, RunRecords
<1>2. /\ run'.batch = run.batch
      /\ run.pc \in {"planning", "spawning", "using", "joining", "concluding"}
      /\ run'.pc = IF run.pc = "joining" /\ ~AllJoined THEN "joining"
                   ELSE "interrupted"
  BY <1>1 DEF CancelRun, RunRecords
<1>3. \A h \in Handles :
          join'[h] = IF \/ join[h] = "notifying"
                        \/ join[h] = "waiting" /\ agent[h] # "live"
                     THEN "cancelled" ELSE join[h]
  BY DEF CancelRun
<1>4. Live' = Live /\ UNCHANGED agent
  BY DEF CancelRun, Live
<1>5. ASSUME NEW h \in Live PROVE join[h] \in {"none", "waiting"}
  BY <1>5 DEF Live, Ledger, HandleOf, HasResult, Done, Outcomes, TypeInv, TypeOK
<1>6. CASE run.pc = "joining"
  <2>1. Live \subseteq cancel'
    <3> SUFFICES ASSUME NEW h \in Live PROVE h \in Awaited
      BY <1>6 DEF CancelRun
    <3>1. h \in run.batch /\ join[h] # "none"
      BY <1>1, <1>6 DEF Ledger, HandleOf
    <3> QED
      BY <1>5, <3>1 DEF Awaited, Live
  <2>2. ASSUME NEW h \in run.batch, join[h] # "joined" PROVE Doomed(h)'
    <3>1. /\ h \in Handles
          /\ join[h] \in {"waiting", "notifying", "cancelled"}
      BY <1>1, <1>6, <2>2 DEF Ledger, HandleOf, TypeInv, TypeOK
    <3>2. h \in Live => h \in cancel'
      BY <2>1
    <3> QED
      BY <1>3, <3>1, <3>2 DEF Doomed, Live
  <2>3. ~AllJoined => \E h \in run.batch : Doomed(h)'
    BY <2>2 DEF AllJoined
  <2> QED
    BY <1>2, <1>4, <1>6, <2>1, <2>3 DEF Unwinding, CancelReachesTeam
<1>7. CASE run.pc # "joining"
  <2>1. (\A h \in run.batch : join'[h] # "none") => Live = {}
    <3> SUFFICES ASSUME \A h \in run.batch : join'[h] # "none", NEW h \in Live
                 PROVE  FALSE
      OBVIOUS
    <3>1. h \in run.batch /\ h \in Handles /\ HandleOf(h)
      BY <1>1 DEF Ledger
    <3>2. join[h] # "none"
      BY <1>3, <3>1
    <3>3. join[h] = "joined" \/ join[h] = "none"
      BY <1>2, <1>7, <3>1 DEF HandleOf
    <3> QED
      BY <1>5, <3>2, <3>3
  <2> QED
    BY <1>2, <1>4, <1>7, <2>1 DEF Unwinding, CancelReachesTeam
<1> QED
  BY <1>6, <1>7

LEMMA NextUnwinding ==
    TypeInv /\ Ledger /\ Unwinding /\ [Next]_vars => Unwinding'
<1> SUFFICES ASSUME TypeInv, Ledger, Unwinding, [Next]_vars PROVE Unwinding'
  OBVIOUS
<1>0. run \in RunRecords
  BY DEF TypeInv, TypeOK, RunRecords
<1>1. CASE UNCHANGED vars
  BY <1>1 DEF vars, Unwinding, Doomed, CancelReachesTeam, Live
<1>2. CASE Begin \/ JoinTeam
  <2>1. /\ run.pc \in {"idle", "using"} /\ run'.cancelled = run.cancelled
        /\ run'.pc # "interrupted"
    BY <1>0, <1>2 DEF Begin, StartRun, JoinTeam, RunRecords
  <2> QED
    BY <2>1 DEF Unwinding, CancelReachesTeam
<1> QED
  BY <1>1, <1>2, RunStepUnwinding, TaskUnwinding, CancelRunUnwinding DEF Next

\* A cancelled run takes the agents it was joining with it.
THEOREM CancellationReaches == Spec => []CancelReachesTeam
<1>1. Init => Unwinding
  BY DEF Init, Unwinding, CancelReachesTeam
<1>2. TypeInv /\ Ledger /\ Unwinding /\ [Next]_vars => Unwinding'
  BY NextUnwinding
<1>3. Unwinding => CancelReachesTeam
  BY DEF Unwinding
<1> QED
  BY <1>1, <1>2, <1>3, LedgerInvariant, PTL DEF Spec

-----------------------------------------------------------------------------
(* The success of a run *)

\* Once the results are in, none of them changes.
LEMMA Settled ==
    ASSUME TypeInv, Ledger, run.pc \in {"concluding", "returned"}
    PROVE  Live = {}
<1> SUFFICES ASSUME NEW h \in Live PROVE FALSE
  OBVIOUS
<1>1. h \in run.batch /\ h \in Handles /\ HandleOf(h) /\ agent[h] = "live"
  BY OnlyBatchLive DEF Live, Ledger
<1> QED
  BY <1>1 DEF HandleOf, HasResult

LEMMA SettledStays ==
    ASSUME TypeInv, Ledger, Earned, UNCHANGED run,
           run.pc \in {"concluding", "returned"} => UNCHANGED agent
    PROVE  Earned'
  BY DEF Earned, SuccessEarned, AllSucceeded

LEMMA RunStepEarned ==
    ASSUME TypeInv, Ledger, Earned, RunStep
    PROVE  Earned'
<1>0. run \in RunRecords /\ Count
  BY DEF TypeInv, TypeOK, RunRecords
<1>1. CASE PlanDone \/ Spawn \/ SpawnReturns \/ GatherRaises
  <2>1. run'.pc \notin {"concluding", "returned"}
    BY <1>0, <1>1 DEF PlanDone, Spawn, SpawnReturns, GatherRaises, RunRecords
  <2> QED
    BY <2>1 DEF Earned, SuccessEarned
<1>2. CASE CollectDelegate
  <2>1. /\ run'.pc \in {"raised", "concluding"} /\ run'.mode = "delegate"
        /\ run'.fallback = run.fallback /\ run'.batch = run.batch
        /\ run'.pc = "concluding" => ~Aborts
        /\ UNCHANGED agent
    BY <1>0, <1>2 DEF CollectDelegate, Collect, RunRecords
  <2> QED
    BY <2>1 DEF Earned, SuccessEarned, Aborts, AllSucceeded
<1>3. CASE CollectAutonomous
  <2>1. run'.pc \in {"spawning", "concluding"} /\ run'.mode = "autonomous"
    BY <1>0, <1>3 DEF CollectAutonomous, Collect, NextBatch, RunRecords
  <2> QED
    BY <2>1 DEF Earned, SuccessEarned
<1>4. CASE CollectSequential
  <2>1. run.pc = "joining" /\ run.mode = "sequential" /\ UNCHANGED agent
    BY <1>4 DEF CollectSequential, Collect
  <2>2. CASE NextBatch
    <3>1. run'.pc = "spawning"
      BY <1>0, <2>2 DEF NextBatch, RunRecords
    <3> QED
      BY <3>1 DEF Earned, SuccessEarned
  <2>3. CASE /\ Aborts \/ run.round = TeamSize
             /\ Return(EveryStageSucceeded)
    <3>1. /\ run'.pc = "returned" /\ run'.mode = "sequential"
          /\ run'.success = EveryStageSucceeded
          /\ run'.spawned = run.spawned
      BY <1>0, <2>1, <2>3 DEF Return, RunRecords
    <3>2. ASSUME EveryStageSucceeded PROVE run.spawned = TeamSize
      <4>1. run.batch \subseteq 1..run.spawned
        BY <1>0 DEF Count
      <4>2. run.round = TeamSize
        BY <2>3, <3>2, <4>1 DEF Aborts, EveryStageSucceeded, AllSucceeded
      <4>3. run.spawned + 0 = 1 * run.round
        BY <1>0, <2>1 DEF Count, Share
      <4> QED
        BY <1>0, <4>2, <4>3, Sizes DEF RunRecords
    <3> QED
      BY <2>1, <3>1, <3>2
         DEF Earned, SuccessEarned, EveryStageSucceeded, AllSucceeded
  <2> QED
    BY <1>4, <2>2, <2>3 DEF CollectSequential
<1>5. CASE CollectParallel
  <2>1. /\ run'.pc = "returned" /\ run'.mode \in {"parallel", "direct"}
        /\ run'.success = \E h \in run.batch : agent[h] = "succeeded"
        /\ run'.batch = run.batch /\ UNCHANGED agent
    BY <1>0, <1>5 DEF CollectParallel, Collect, Return, RunRecords
  <2> QED
    BY <2>1 DEF Earned, SuccessEarned
<1>6. CASE Conclude
  <2>1. /\ run.pc = "concluding" /\ run'.pc = "returned"
        /\ run'.mode = run.mode /\ run'.fallback = run.fallback
        /\ run'.batch = run.batch /\ UNCHANGED agent
    BY <1>0, <1>6 DEF Conclude, Return, RunRecords
  <2> QED
    BY <2>1 DEF Earned, SuccessEarned, AllSucceeded
<1> QED
  BY <1>1, <1>2, <1>3, <1>4, <1>5, <1>6 DEF RunStep

LEMMA NextEarned ==
    TypeInv /\ Ledger /\ Earned /\ [Next]_vars => Earned'
<1> SUFFICES ASSUME TypeInv, Ledger, Earned, [Next]_vars PROVE Earned'
  OBVIOUS
<1>0. run \in RunRecords
  BY DEF TypeInv, TypeOK, RunRecords
<1>1. CASE UNCHANGED vars
  BY <1>1, SettledStays DEF vars
<1>2. CASE Begin \/ JoinTeam \/ CancelRun
  <2>1. run'.pc \notin {"concluding", "returned"}
    BY <1>0, <1>2 DEF Begin, StartRun, JoinTeam, CancelRun, RunRecords
  <2> QED
    BY <2>1 DEF Earned, SuccessEarned
<1>3. ASSUME NEW k \in Handles, TaskStep(k) \/ UserStep(k) PROVE Earned'
  <2>1. UNCHANGED run
    BY <1>3, TaskTypeInv
  <2>2. k \in Live \/ UNCHANGED agent
    BY <1>3 DEF TaskStep, UserStep, AgentFinishes, AgentCancelled, JoinResumes,
       JoinReturns, TimedJoinExpires, TimedJoinReturns, Terminate, TimedJoin
  <2> QED
    BY <2>1, <2>2, Settled, SettledStays
<1> QED
  BY <1>1, <1>2, <1>3, RunStepEarned DEF Next

\* The success a run reports rests on its agents' results.
THEOREM SuccessIsEarned == Spec => []SuccessEarned
<1>1. Init => Earned
  BY DEF Init, Earned, SuccessEarned
<1>2. TypeInv /\ Ledger /\ Earned /\ [Next]_vars => Earned'
  BY NextEarned
<1>3. Earned => SuccessEarned
  BY DEF Earned
<1> QED
  BY <1>1, <1>2, <1>3, LedgerInvariant, PTL DEF Spec
=============================================================================
