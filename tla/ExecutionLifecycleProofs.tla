---------------------- MODULE ExecutionLifecycleProofs ----------------------
(***************************************************************************)
(* Proofs about ExecutionLifecycle for any number of executions, nodes,    *)
(* connections, retries and edits.                                         *)
(***************************************************************************)
EXTENDS ExecutionLifecycle, WellFoundedInduction, SequenceTheorems, TLAPS

\* A node put into a sequence that has it not leaves the others in place.
LEMMA InsertKeepsOrder ==
    ASSUME NEW S, NEW s \in Seq(S), IsInjective(s),
           NEW n \in S, n \notin ToSet(s), NEW i \in 1..Len(s) + 1
    PROVE  /\ InsertAt(s, i, n) \in Seq(S)
           /\ IsInjective(InsertAt(s, i, n))
<1> DEFINE a == SubSeq(s, 1, i - 1)
           b == SubSeq(s, i, Len(s))
           c == a \o <<n>>
           r == c \o b
<1>1. /\ a \in Seq(S) /\ Len(a) = i - 1
      /\ \A k \in 1..Len(a) : a[k] = s[k]
  BY SubSeqProperties
<1>2. /\ b \in Seq(S) /\ Len(b) = Len(s) - i + 1
      /\ \A k \in 1..Len(b) : b[k] = s[i + k - 1]
  BY SubSeqProperties
<1> HIDE DEF a, b
<1>0. /\ c \in Seq(S) /\ Len(c) = i
      /\ \A k \in 1..i : c[k] = IF k < i THEN s[k] ELSE n
  BY <1>1, ConcatProperties
<1> HIDE DEF c
<1>3. /\ r \in Seq(S) /\ Len(r) = Len(s) + 1
      /\ \A k \in 1..Len(r) : r[k] = IF k < i THEN s[k]
                                     ELSE IF k = i THEN n ELSE s[k - 1]
  <2>1. /\ r \in Seq(S) /\ Len(r) = Len(c) + Len(b)
        /\ \A k \in 1..Len(c) + Len(b) :
              r[k] = IF k <= Len(c) THEN c[k] ELSE b[k - Len(c)]
    BY <1>0, <1>2, ConcatProperties
  <2> HIDE DEF r
  <2>2. Len(r) = Len(s) + 1
    BY <1>0, <1>2, <2>1
  <2>3. ASSUME NEW k \in 1..Len(r)
        PROVE  r[k] = IF k < i THEN s[k] ELSE IF k = i THEN n ELSE s[k - 1]
    <3>1. CASE k <= i
      BY <1>0, <2>1, <2>2, <3>1
    <3>2. CASE k > i
      <4>1. r[k] = b[k - i] /\ k - i \in 1..Len(b)
        BY <1>0, <1>2, <2>1, <2>2, <3>2
      <4>2. b[k - i] = s[i + (k - i) - 1]
        BY <1>2, <4>1
      <4>3. i + (k - i) - 1 = k - 1
        OBVIOUS
      <4> QED
        BY <3>2, <4>1, <4>2, <4>3
    <3> QED
      BY <3>1, <3>2
  <2> QED
    BY <2>1, <2>2, <2>3
<1>4. InsertAt(s, i, n) = r
  BY DEF InsertAt, a, b, c
<1> HIDE DEF r
<1>5. \A k \in 1..Len(s) : s[k] # n
  BY DEF ToSet
<1>6. \A j, k \in 1..Len(s) : s[j] = s[k] => j = k
  BY DEF IsInjective
<1>7. ASSUME NEW j \in 1..Len(r), NEW k \in 1..Len(r), r[j] = r[k]
      PROVE  j = k
  <2> DEFINE old(l) == IF l < i THEN l ELSE l - 1
  <2>1. \A l \in 1..Len(r) : l # i => r[l] = s[old(l)] /\ old(l) \in 1..Len(s)
    BY <1>3
  <2>2. j = i <=> k = i
    BY <1>3, <1>5, <1>7, <2>1
  <2>3. j # i /\ k # i => old(j) = old(k)
    BY <1>6, <1>7, <2>1
  <2> QED
    BY <1>3, <2>2, <2>3
<1> QED
  BY <1>3, <1>4, <1>7 DEF IsInjective

\* A sequence without one of its nodes.
LEMMA RemoveKeepsOrder ==
    ASSUME NEW S, NEW s \in Seq(S), IsInjective(s), NEW i \in 1..Len(s)
    PROVE  /\ RemoveAt(s, i) \in Seq(S)
           /\ IsInjective(RemoveAt(s, i))
<1> DEFINE a == SubSeq(s, 1, i - 1)
           b == SubSeq(s, i + 1, Len(s))
           r == a \o b
<1>1. /\ a \in Seq(S) /\ Len(a) = i - 1
      /\ \A k \in 1..Len(a) : a[k] = s[k]
  BY SubSeqProperties
<1>2. /\ b \in Seq(S) /\ Len(b) = Len(s) - i
      /\ \A k \in 1..Len(b) : b[k] = s[i + k]
  BY SubSeqProperties
<1> HIDE DEF a, b
<1>3. /\ r \in Seq(S) /\ Len(r) = Len(s) - 1
      /\ \A k \in 1..Len(r) : r[k] = IF k < i THEN s[k] ELSE s[k + 1]
  <2>1. /\ r \in Seq(S) /\ Len(r) = Len(a) + Len(b)
        /\ \A k \in 1..Len(a) + Len(b) :
              r[k] = IF k <= Len(a) THEN a[k] ELSE b[k - Len(a)]
    BY <1>1, <1>2, ConcatProperties
  <2> HIDE DEF r
  <2>2. Len(r) = Len(s) - 1
    BY <1>1, <1>2, <2>1
  <2>3. ASSUME NEW k \in 1..Len(r)
        PROVE  r[k] = IF k < i THEN s[k] ELSE s[k + 1]
    <3>1. CASE k < i
      BY <1>1, <2>1, <2>2, <3>1
    <3>2. CASE k >= i
      <4>1. r[k] = b[k - (i - 1)] /\ k - (i - 1) \in 1..Len(b)
        BY <1>1, <1>2, <2>1, <2>2, <3>2
      <4>2. b[k - (i - 1)] = s[i + (k - (i - 1))]
        BY <1>2, <4>1
      <4>3. i + (k - (i - 1)) = k + 1
        OBVIOUS
      <4> QED
        BY <3>2, <4>1, <4>2, <4>3
    <3> QED
      BY <3>1, <3>2
  <2> QED
    BY <2>1, <2>2, <2>3
<1>4. RemoveAt(s, i) = r
  BY DEF RemoveAt, a, b
<1> HIDE DEF r
<1>5. \A j, k \in 1..Len(s) : s[j] = s[k] => j = k
  BY DEF IsInjective
<1>6. ASSUME NEW j \in 1..Len(r), NEW k \in 1..Len(r), r[j] = r[k]
      PROVE  j = k
  BY <1>3, <1>5, <1>6
<1> QED
  BY <1>3, <1>4, <1>6 DEF IsInjective

\* The first of the places of the plan whose node was not executed.
LEMMA FirstUnexecuted ==
    ASSUME plan \in Seq(Nodes), NEW e \in Execs, Unexecuted(e) # {}
    PROVE  /\ NextNode(e) \in Nodes
           /\ NextNode(e) \notin task[e].executed
<1> DEFINE U == Unexecuted(e)
<1>1. U \in SUBSET Nat /\ U # {}
  BY DEF Unexecuted
<1>2. \E i \in U : \A j \in U : i <= j
  <2> HIDE DEF U
  <2> DEFINE R == OpToRel(<, Nat)
  <2>1. IsWellFoundedOn(R, Nat)
    BY NatLessThanWellFounded
  <2>2. \A x, y \in Nat : (<<y, x>> \in R) <=> y < x
    BY DEF OpToRel
  <2> HIDE DEF R
  <2>3. PICK x \in U : \A y \in U : ~ (<<y, x>> \in R)
    BY <1>1, <2>1, WFMin
  <2>4. ASSUME NEW y \in U PROVE x <= y
    <3>1. x \in Nat /\ y \in Nat
      BY <1>1
    <3>2. ~ (y < x)
      BY <2>2, <2>3, <3>1
    <3> QED
      BY <3>1, <3>2
  <2> QED
    BY <2>4
<1>3. Min(U) \in U
  BY <1>2 DEF Min
<1> QED
  BY <1>1, <1>3 DEF NextNode, Unexecuted

\* The next node, when there is one, is a node of the plan.
LEMMA NextNodeInPlan ==
    ASSUME plan \in Seq(Nodes), NEW e \in Execs, NextNode(e) # NoNode
    PROVE  NextNode(e) \in Nodes
  BY FirstUnexecuted DEF NextNode

-----------------------------------------------------------------------------
\* A task that picked a node still knows which.
Picked ==
    \A e \in Execs : task[e].pc \in {"asleep", "node", "succeeded", "erred"}
                         => task[e].next \in Nodes

TypeInv == TypeOK /\ Picked

Tasks == [Execs -> [pc : TaskPCs, executed : SUBSET Nodes,
                    next : Nodes \cup {NoNode}, cancel : BOOLEAN]]

\* A step of a task moves it and leaves the others where they are.
LEMMA TaskMoves ==
    ASSUME task \in Tasks, NEW e \in Execs, NEW p \in TaskPCs,
           \/ Goto(e, p)
           \/ \E X \in SUBSET Nodes :
                 task' = [task EXCEPT ![e].pc = p, ![e].executed = X]
           \/ task' = [task EXCEPT ![e].pc = p, ![e].cancel = FALSE]
    PROVE  /\ task' \in Tasks
           /\ task'[e].pc = p
           /\ task'[e].cancel => task[e].cancel
           /\ task'[e].next = task[e].next
           /\ \A f \in Execs \ {e} : task'[f] = task[f]
<1>1. CASE Goto(e, p)
  BY <1>1 DEF Tasks, Goto
<1>2. ASSUME NEW X \in SUBSET Nodes,
             task' = [task EXCEPT ![e].pc = p, ![e].executed = X]
      PROVE  /\ task' \in Tasks
             /\ task'[e].pc = p
             /\ task'[e].cancel = task[e].cancel
             /\ task'[e].next = task[e].next
             /\ \A f \in Execs \ {e} : task'[f] = task[f]
  BY <1>2 DEF Tasks
<1>3. CASE task' = [task EXCEPT ![e].pc = p, ![e].cancel = FALSE]
  BY <1>3 DEF Tasks
<1> QED
  BY <1>1, <1>2, <1>3

LEMMA TaskPCsAre ==
    /\ \A p \in {"new", "head", "asleep", "node", "succeeded", "erred",
                  "ending", "failing", "done", "none"} : p \in TaskPCs
    /\ \A p \in Live : p \in TaskPCs
  BY DEF TaskPCs, Live, Unwound

\* The types of everything but the tasks.
TypeRest ==
    /\ status \in [Execs -> Statuses \cup {"none"}]
    /\ node \in [Execs -> [Nodes -> NodeStatuses]]
    /\ plan \in Seq(Nodes) /\ IsInjective(plan)
    /\ checkpoints \in [Execs -> Seq(Checkpoint)]
    /\ retry \in [Connections -> [pc : {"idle", "node", "delay"},
                                  exec : Execs \cup {0},
                                  node : Nodes \cup {NoNode},
                                  left : 0..MaxRetries]]
    /\ announced \in [Execs -> Statuses \cup {"none"}]
    /\ patches \in 0..MaxPatches

LEMMA TypeParts ==
    /\ TypeOK <=> TypeRest /\ task \in Tasks
    /\ TypeOK' <=> TypeRest' /\ task' \in Tasks
  BY DEF TypeOK, TypeRest, Tasks

LEMMA InitTypeInv == Init => TypeInv
<1> SUFFICES ASSUME Init PROVE TypeInv
  OBVIOUS
<1>1. IsInjective(plan) /\ plan \in Seq(Nodes)
  BY DEF Init, IsInjective
<1>2. task \in Tasks /\ Picked
  BY DEF Init, Tasks, Picked, NoTask, TaskPCs
<1>3. retry \in [Connections -> [pc : {"idle", "node", "delay"},
                                exec : Execs \cup {0},
                                node : Nodes \cup {NoNode},
                                left : 0..MaxRetries]]
  BY ExecutionAssumption DEF Init, Idle
<1>4. TypeRest
  BY <1>1, <1>3, ExecutionAssumption
  DEF Init, TypeRest, Statuses, NodeStatuses
<1> QED
  BY <1>2, <1>4, TypeParts DEF TypeInv

LEMMA CommandTask ==
    ASSUME TypeInv, Command PROVE task' \in Tasks /\ Picked'
<1>0. task \in Tasks /\ Picked
  BY TypeParts DEF TypeInv
<1>1. NewTask \in [pc : TaskPCs, executed : SUBSET Nodes,
                  next : Nodes \cup {NoNode}, cancel : BOOLEAN]
  BY TaskPCsAre DEF NewTask, NoTask
<1>2. ASSUME NEW e \in Execs, task' = [task EXCEPT ![e] = NewTask]
      PROVE  task' \in Tasks /\ Picked'
  BY <1>0, <1>1, <1>2 DEF Tasks, Picked, NewTask, NoTask
<1>3. ASSUME NEW es, task' = Cancelling(es)
      PROVE  task' \in Tasks /\ Picked'
  <2>1. /\ task' \in Tasks
        /\ \A e \in Execs : /\ task'[e].pc = task[e].pc
                             /\ task'[e].next = task[e].next
    BY <1>0, <1>3 DEF Tasks, Cancelling, InTask
  <2> QED
    BY <1>0, <2>1 DEF Picked
<1>4. ASSUME task' = task PROVE task' \in Tasks /\ Picked'
  BY <1>0, <1>4 DEF Picked
<1>5. ASSUME NEW e \in Execs, NEW p \in StartPlans, Start(e, p)
      PROVE  task' \in Tasks /\ Picked'
  BY <1>2, <1>5 DEF Start
<1>6. ASSUME NEW e \in Execs, Resume(e) PROVE task' \in Tasks /\ Picked'
  <2>1. task' = [task EXCEPT ![e] = NewTask] \/ task' = task
    BY <1>0, <1>6 DEF Resume, TaskOnResume, Tasks
  <2> QED
    BY <2>1, <1>2, <1>4
<1>7. (\E es : task' = Cancelling(es)) \/ task' = task
      => task' \in Tasks /\ Picked'
  BY <1>3, <1>4
<1> QED
  BY <1>5, <1>6, <1>7 DEF Command, Pause, Abort, AbortSession, Patch, Restore,
                          RetryStart

LEMMA CommandRest == ASSUME TypeInv, Command PROVE TypeRest'
<1>0. TypeRest
  BY TypeParts DEF TypeInv
<1> USE ExecutionAssumption, <1>0
<1>1. ASSUME NEW e \in Execs, NEW p \in StartPlans, Start(e, p)
      PROVE  TypeRest'
  BY <1>1 DEF Start, Report, TypeRest, Statuses
<1>2. ASSUME NEW e \in Execs, Pause(e) \/ Resume(e) \/ Abort(e)
      PROVE  TypeRest'
  BY <1>2 DEF Pause, Resume, Abort, Report, TypeRest, Statuses
<1>3. ASSUME AbortSession PROVE TypeRest'
  BY <1>3 DEF AbortSession, TypeRest, Statuses
<1>4. ASSUME Patch PROVE TypeRest'
  <2>1. plan \in Seq(Nodes) /\ IsInjective(plan)
    BY DEF TypeRest
  <2>2. ASSUME NEW n \in Nodes \ ToSet(plan), NEW i \in 1..Len(plan) + 1
        PROVE  /\ InsertAt(plan, i, n) \in Seq(Nodes)
               /\ IsInjective(InsertAt(plan, i, n))
    BY <2>1, InsertKeepsOrder
  <2>3. ASSUME NEW i \in 1..Len(plan)
        PROVE  /\ RemoveAt(plan, i) \in Seq(Nodes)
               /\ IsInjective(RemoveAt(plan, i))
    BY <2>1, RemoveKeepsOrder
  <2>4. plan' \in Seq(Nodes) /\ IsInjective(plan')
    BY <1>4, <2>2, <2>3 DEF Patch
  <2>5. patches' \in 0..MaxPatches
    BY <1>4 DEF Patch, TypeRest
  <2> QED
    BY <1>4, <2>4, <2>5 DEF Patch, TypeRest
<1>5. ASSUME NEW e \in Execs, NEW f \in Execs,
             NEW i \in DOMAIN checkpoints[e], Restore(e, i, f)
      PROVE  TypeRest'
  <2> DEFINE cp == checkpoints[e][i]
  <2>1. cp \in Checkpoint
    BY DEF TypeRest
  <2>2. Restored(cp) \in [Nodes -> NodeStatuses] /\ cp.owner \in Execs
    BY <2>1 DEF Restored, Checkpoint, NodeStatuses
  <2>3. /\ node' = [node EXCEPT ![f] = Restored(cp)]
        /\ checkpoints' = [checkpoints EXCEPT ![f] = checkpoints[cp.owner]]
        /\ status' = [status EXCEPT ![f] = "PAUSED"]
        /\ announced' = [announced EXCEPT ![f] = "PAUSED"]
        /\ UNCHANGED <<plan, retry, patches>>
    BY <1>5 DEF Restore, Report
  <2> HIDE DEF cp
  <2> QED
    BY <2>2, <2>3 DEF TypeRest, Statuses
<1>6. ASSUME NEW c \in Connections, NEW e \in Execs, NEW n \in Nodes,
             RetryStart(c, e, n)
      PROVE  TypeRest'
  BY <1>6 DEF RetryStart, TypeRest, NodeStatuses
<1> QED
  BY <1>1, <1>2, <1>3, <1>4, <1>5, <1>6 DEF Command

LEMMA RetryTypeInv ==
    ASSUME TypeInv, NEW c \in Connections, RetryStep(c) PROVE TypeInv'
<1>0. TypeRest /\ task \in Tasks /\ Picked
  BY TypeParts DEF TypeInv
<1>1. PICK s \in NodeStatuses : RetryEnds(c, s)
  BY DEF RetryStep, RetrySucceeds, RetryErrs, RetryAgain, NodeStatuses
<1>2. node' \in [Execs -> [Nodes -> NodeStatuses]]
  BY <1>0, <1>1 DEF RetryEnds, TypeRest
<1>3. retry' \in [Connections -> [pc : {"idle", "node", "delay"},
                                 exec : Execs \cup {0},
                                 node : Nodes \cup {NoNode},
                                 left : 0..MaxRetries]]
  <2> USE ExecutionAssumption, <1>0 DEF TypeRest
  <2>1. CASE retry' = [retry EXCEPT ![c] = Idle]
    BY <2>1 DEF Idle
  <2>2. CASE /\ retry[c].left > 0
             /\ retry' = [retry EXCEPT ![c].pc = "delay", ![c].left = @ - 1]
    <3>1. retry[c].left - 1 \in 0..MaxRetries
      BY <2>2
    <3> QED
      BY <2>2, <3>1
  <2>3. CASE retry' = [retry EXCEPT ![c].pc = "node"]
    BY <2>3
  <2> QED
    BY <2>1, <2>2, <2>3 DEF RetryStep, RetrySucceeds, RetryErrs, RetryAgain
<1>4. UNCHANGED <<status, task, plan, checkpoints, announced, patches>>
  BY <1>1 DEF RetryEnds
<1>5. TypeRest'
  BY <1>0, <1>2, <1>3, <1>4 DEF TypeRest
<1>6. Picked'
  BY <1>0, <1>4 DEF Picked
<1> QED
  BY <1>0, <1>4, <1>5, <1>6, TypeParts DEF TypeInv

\* Where a step of a task leaves it.
LEMMA TaskStepMoves ==
    ASSUME TypeInv, NEW e \in Execs, TaskStep(e)
    PROVE  task' \in Tasks /\ Picked'
<1>0. task \in Tasks /\ Picked /\ plan \in Seq(Nodes)
  BY TypeParts DEF TypeInv, TypeRest
<1>1. ASSUME NEW p \in TaskPCs,
             p \notin {"asleep", "node"},
             p \in {"succeeded", "erred"} => task[e].next \in Nodes,
             \/ Goto(e, p)
             \/ \E X \in SUBSET Nodes :
                   task' = [task EXCEPT ![e].pc = p, ![e].executed = X]
             \/ task' = [task EXCEPT ![e].pc = p, ![e].cancel = FALSE]
      PROVE  task' \in Tasks /\ Picked'
  <2>1. /\ task' \in Tasks
        /\ task'[e].pc = p
        /\ task'[e].next = task[e].next
        /\ \A f \in Execs \ {e} : task'[f] = task[f]
    BY <1>0, <1>1, TaskMoves
  <2> QED
    BY <1>0, <1>1, <2>1 DEF Picked
<1>2. ASSUME NEW p \in TaskPCs, NEW n \in Nodes,
             task' = [task EXCEPT ![e].pc = p, ![e].next = n]
      PROVE  task' \in Tasks /\ Picked'
  <2>1. /\ task' \in Tasks
        /\ task'[e].next = n
        /\ \A f \in Execs \ {e} : task'[f] = task[f]
    BY <1>0, <1>2 DEF Tasks
  <2> QED
    BY <1>0, <2>1 DEF Picked
<1>3. CASE Begin(e)
  BY <1>1, <1>3, TaskPCsAre DEF Begin, AlreadyExecuted
<1>4. CASE Advance(e) \/ FallAsleep(e) \/ WakeUp(e)
  <2>1. /\ NextNode(e) # NoNode => NextNode(e) \in Nodes
        /\ WakeUp(e) => task[e].next \in Nodes
    BY <1>0, NextNodeInPlan DEF WakeUp, At, Picked
  <2> QED
    BY <1>2, <1>4, <2>1, TaskPCsAre DEF Advance, FallAsleep, WakeUp, RunNode
<1>5. CASE NodeReturns(e)
  <2>1. task[e].next \in Nodes
    BY <1>0, <1>5 DEF NodeReturns, At, Picked
  <2>2. Goto(e, "succeeded") \/ Goto(e, "erred")
    BY <1>5 DEF NodeReturns
  <2> QED
    BY <1>1, <2>1, <2>2, TaskPCsAre
<1>6. CASE NodeDone(e)
  <2>1. task[e].executed \cup {task[e].next} \in SUBSET Nodes
    BY <1>0, <1>6 DEF NodeDone, At, Picked, Tasks
  <2>2. \E X \in SUBSET Nodes :
           task' = [task EXCEPT ![e].pc = "head", ![e].executed = X]
    <3>1. task' = [task EXCEPT ![e].pc = "head",
                   ![e].executed = task[e].executed \cup {task[e].next}]
      BY <1>6 DEF NodeDone
    <3> QED
      BY <2>1, <3>1
  <2> QED
    BY <1>1, <2>2, TaskPCsAre
<1>7. CASE LeaveLoop(e) \/ NodeFails(e) \/ EndWell(e) \/ EndFailed(e)
  <2>1. Goto(e, "ending") \/ Goto(e, "failing") \/ Goto(e, "done")
    BY <1>7 DEF LeaveLoop, NodeFails, EndWell, EndFailed
  <2> QED
    BY <1>1, <2>1, TaskPCsAre
<1>8. CASE Interrupted(e) \/ Dropped(e)
  BY <1>1, <1>8, TaskPCsAre DEF Interrupted, Dropped
<1> QED
  BY <1>3, <1>4, <1>5, <1>6, <1>7, <1>8 DEF TaskStep

LEMMA TaskStepRest ==
    ASSUME TypeInv, NEW e \in Execs, TaskStep(e) PROVE TypeRest'
<1>0. TypeRest /\ Picked
  BY TypeParts DEF TypeInv
<1>1. CASE Begin(e) \/ FallAsleep(e) \/ Dropped(e)
  BY <1>0, <1>1 DEF Begin, FallAsleep, Dropped, TypeRest
<1>2. CASE LeaveLoop(e) \/ NodeFails(e) \/ Interrupted(e)
  BY <1>0, <1>2 DEF LeaveLoop, NodeFails, Interrupted, TypeRest, Statuses
<1>3. CASE EndWell(e) \/ EndFailed(e)
  BY <1>0, <1>3 DEF EndWell, EndFailed, Report, TypeRest, Statuses
<1>4. CASE Advance(e) \/ WakeUp(e)
  <2>1. PICK n : RunNode(e, n)
    BY <1>4 DEF Advance, WakeUp
  <2>2. "RUNNING" \in NodeStatuses
    BY DEF NodeStatuses
  <2> QED
    BY <1>0, <2>1, <2>2 DEF RunNode, TypeRest
<1>5. CASE NodeReturns(e)
  <2>1. PICK s \in NodeStatuses :
          node' = [node EXCEPT ![e][task[e].next] = s]
    BY <1>5 DEF NodeReturns, NodeStatuses
  <2> QED
    BY <1>0, <1>5, <2>1 DEF NodeReturns, TypeRest
<1>6. CASE NodeDone(e)
  <2>1. Snapshot(e) \in Checkpoint
    BY <1>0, <1>6 DEF NodeDone, At, Snapshot, Checkpoint, TypeRest, Picked
  <2>2. Append(checkpoints[e], Snapshot(e)) \in Seq(Checkpoint)
    BY <1>0, <2>1 DEF TypeRest
  <2> QED
    BY <1>0, <1>6, <2>2 DEF NodeDone, TypeRest
<1> QED
  BY <1>1, <1>2, <1>3, <1>4, <1>5, <1>6 DEF TaskStep

LEMMA NextTypeInv == TypeInv /\ [Next]_vars => TypeInv'
<1> SUFFICES ASSUME TypeInv, [Next]_vars PROVE TypeInv'
  OBVIOUS
<1>1. CASE UNCHANGED vars
  BY <1>1 DEF TypeInv, TypeOK, Picked, vars
<1>2. CASE Command
  BY <1>2, CommandTask, CommandRest, TypeParts DEF TypeInv
<1>3. ASSUME NEW e \in Execs, TaskStep(e) PROVE TypeInv'
  BY <1>3, TaskStepMoves, TaskStepRest, TypeParts DEF TypeInv
<1> QED
  BY <1>1, <1>2, <1>3, RetryTypeInv DEF Next

\* Every variable keeps its type: no task stands where the code has no
\* await, and the plan's order, whatever is patched, has a node only once.
THEOREM TypeCorrect == Spec => []TypeOK
<1>1. Init => TypeInv
  BY InitTypeInv
<1>2. TypeInv /\ [Next]_vars => TypeInv'
  BY NextTypeInv
<1>3. TypeInv => TypeOK
  BY DEF TypeInv
<1> QED
  BY <1>1, <1>2, <1>3, PTL DEF Spec

-----------------------------------------------------------------------------
(* The inductive invariant: the status of an execution, the place of its   *)
(* task and what was announced go together.                                *)

LifeOf(st, t, said) ==
    \* The statuses seen with the task at each place.
    /\ t.pc = "none" => st \in {"none", "PAUSED", "ABORTED"}
    /\ t.pc \in Unwound => st \in {"RUNNING", "PAUSED", "ABORTED"}
    /\ t.pc = "ending" => st \in {"COMPLETED", "ABORTED"}
    /\ t.pc = "failing" => st \in {"FAILED", "ABORTED"}
    /\ t.pc = "done" => st \in {"COMPLETED", "FAILED", "ABORTED"}
    \* An aborted execution's task is being cancelled, until it has unwound.
    /\ st = "ABORTED" /\ t.pc \in Live /\ t.pc # "ending" => t.cancel
    \* Only an abort cancels a task before its first step.
    /\ t.pc \in {"none", "new"} /\ t.cancel => st = "ABORTED"
    \* Success is announced as the last thing a task does.
    /\ said = "COMPLETED" => t.pc = "done" /\ st \in {"COMPLETED", "ABORTED"}

\* The owner of a checkpoint has begun: a restore cancels no task that is new.
OwnersBegan ==
    \A e, f \in Execs : \A i \in DOMAIN checkpoints[f] :
        checkpoints[f][i].owner = e => task[e].pc \notin {"none", "new"}

Life ==
    /\ \A e \in Execs : LifeOf(status[e], task[e], announced[e])
    /\ OwnersBegan

LEMMA InitLife == Init => Life
  BY DEF Init, Life, LifeOf, OwnersBegan, NoTask, Unwound, Live

\* A task that begins is past "none" and "new".
Begun(t) == t.pc \notin {"none", "new"}

LEMMA OwnersStayBegun ==
    ASSUME OwnersBegan, checkpoints' = checkpoints,
           \A e \in Execs : Begun(task[e]) => Begun(task'[e])
    PROVE  OwnersBegan'
  BY DEF OwnersBegan, Begun

LEMMA TaskStepLife ==
    ASSUME TypeInv, Life, NEW e \in Execs, TaskStep(e) PROVE Life'
<1> DEFINE t == task[e]
           u == task'[e]
<1>0. /\ status \in [Execs -> Statuses \cup {"none"}]
      /\ announced \in [Execs -> Statuses \cup {"none"}]
      /\ checkpoints \in [Execs -> Seq(Checkpoint)]
      /\ task \in Tasks
  BY TypeParts DEF TypeInv, TypeRest
<1>1. LifeOf(status[e], t, announced[e]) /\ OwnersBegan /\ Picked
  BY DEF Life, TypeInv
\* It is enough to look at e, and at where its task goes.
<1>2. ASSUME NEW p \in TaskPCs, p \notin {"none", "new"},
             \/ Goto(e, p)
             \/ \E X \in SUBSET Nodes :
                   task' = [task EXCEPT ![e].pc = p, ![e].executed = X]
             \/ task' = [task EXCEPT ![e].pc = p, ![e].cancel = FALSE]
             \/ \E n \in Nodes :
                   task' = [task EXCEPT ![e].pc = p, ![e].next = n],
             checkpoints' = checkpoints \/ OwnersBegan',
             \A f \in Execs \ {e} : /\ status'[f] = status[f]
                                    /\ announced'[f] = announced[f],
             \A r : r.pc = p /\ (r.cancel => t.cancel)
                    => LifeOf(status'[e], r, announced'[e])
      PROVE  Life'
  <2>1. /\ u.pc = p
        /\ u.cancel => t.cancel
        /\ \A f \in Execs \ {e} : task'[f] = task[f]
    <3>1. ASSUME NEW n \in Nodes,
                 task' = [task EXCEPT ![e].pc = p, ![e].next = n]
          PROVE  /\ u.pc = p
                 /\ u.cancel = t.cancel
                 /\ \A f \in Execs \ {e} : task'[f] = task[f]
      BY <1>0, <3>1 DEF Tasks
    <3> QED
      BY <1>0, <1>2, <3>1, TaskMoves
  <2>2. OwnersBegan'
    BY <1>1, <1>2, <2>1, OwnersStayBegun DEF Begun
  <2>3. LifeOf(status'[e], u, announced'[e])
    BY <1>2, <2>1
  <2>4. \A f \in Execs : LifeOf(status'[f], task'[f], announced'[f])
    BY <1>2, <2>1, <2>3 DEF Life
  <2> QED
    BY <2>2, <2>4 DEF Life
<1>3. CASE Begin(e)
  <2>1. AlreadyExecuted(e) \in SUBSET Nodes
    BY DEF AlreadyExecuted
  <2>2. \A r : r.pc = "head" /\ (r.cancel => t.cancel)
              => LifeOf(status[e], r, announced[e])
    BY <1>1, <1>3 DEF Begin, At, LifeOf, Unwound, Live
  <2> QED
    BY <1>2, <1>3, <2>1, <2>2, TaskPCsAre DEF Begin
<1>4. CASE LeaveLoop(e)
  <2>1. status[e] # "ABORTED" /\ announced[e] # "COMPLETED"
    BY <1>1, <1>4 DEF LeaveLoop, Leaves, At, LifeOf, Unwound, Live
  <2>2. status'[e] = "COMPLETED"
    BY <1>0, <1>4, <2>1 DEF LeaveLoop, Leaves, At
  <2>3. \A r : r.pc = "ending" => LifeOf("COMPLETED", r, announced[e])
    BY <2>1 DEF LifeOf, Unwound, Live
  <2>4. /\ Goto(e, "ending")
        /\ announced' = announced /\ checkpoints' = checkpoints
        /\ \A f \in Execs \ {e} : status'[f] = status[f]
    BY <1>0, <1>4 DEF LeaveLoop
  <2>5. \A r : r.pc = "ending" => LifeOf(status'[e], r, announced'[e])
    BY <2>2, <2>3, <2>4
  <2> QED
    BY <1>2, <2>4, <2>5, TaskPCsAre
<1>5. CASE Advance(e) \/ FallAsleep(e) \/ WakeUp(e)
  <2>1. PICK p \in {"asleep", "node"}, n \in Nodes :
           task' = [task EXCEPT ![e].pc = p, ![e].next = n]
    <3>1. /\ NextNode(e) # NoNode => NextNode(e) \in Nodes
          /\ WakeUp(e) => task[e].next \in Nodes
      BY <1>1, NextNodeInPlan, TypeParts
      DEF WakeUp, At, Picked, TypeInv, TypeRest
    <3> QED
      BY <1>5, <3>1 DEF Advance, FallAsleep, WakeUp, RunNode
  <2>2. t.pc \in {"head", "asleep"} /\ ~t.cancel
    BY <1>5 DEF Advance, FallAsleep, WakeUp, At
  <2>3. \A r : r.pc = p /\ (r.cancel => t.cancel)
              => LifeOf(status[e], r, announced[e])
    BY <1>1, <2>1, <2>2 DEF LifeOf, Unwound, Live
  <2>4. UNCHANGED <<status, announced, checkpoints>>
    BY <1>5 DEF Advance, FallAsleep, WakeUp, RunNode
  <2> QED
    BY <1>2, <2>1, <2>3, <2>4, TaskPCsAre
<1>6. CASE NodeReturns(e)
  <2>1. PICK p \in {"succeeded", "erred"} : Goto(e, p)
    BY <1>6 DEF NodeReturns
  <2>2. \A r : r.pc = p /\ (r.cancel => t.cancel)
              => LifeOf(status[e], r, announced[e])
    BY <1>1, <1>6, <2>1 DEF NodeReturns, At, LifeOf, Unwound, Live
  <2> QED
    BY <1>2, <1>6, <2>1, <2>2, TaskPCsAre DEF NodeReturns
<1>7. CASE NodeDone(e)
  <2>1. \E X \in SUBSET Nodes :
           task' = [task EXCEPT ![e].pc = "head", ![e].executed = X]
    <3>1. task[e].executed \cup {task[e].next} \in SUBSET Nodes
      BY <1>0, <1>1, <1>7 DEF NodeDone, At, Picked, Tasks
    <3>2. task' = [task EXCEPT ![e].pc = "head",
                   ![e].executed = task[e].executed \cup {task[e].next}]
      BY <1>7 DEF NodeDone
    <3> QED
      BY <3>1, <3>2
  <2>2. \A r : r.pc = "head" /\ (r.cancel => t.cancel)
              => LifeOf(status[e], r, announced[e])
    BY <1>1, <1>7 DEF NodeDone, At, LifeOf, Unwound, Live
  <2>3. OwnersBegan'
    <3>1. \A f \in Execs : Begun(task[f]) => Begun(task'[f])
      <4>1. PICK X \in SUBSET Nodes :
              task' = [task EXCEPT ![e].pc = "head", ![e].executed = X]
        BY <2>1
      <4>2. /\ task'[e].pc = "head"
            /\ \A f \in Execs \ {e} : task'[f] = task[f]
        BY <1>0, <4>1 DEF Tasks
      <4> QED
        BY <4>2 DEF Begun
    <3>2. Begun(task[e]) /\ Snapshot(e).owner = e
      BY <1>7 DEF NodeDone, At, Begun, Snapshot
    <3>3. ASSUME NEW f \in Execs, NEW i \in DOMAIN checkpoints'[f]
          PROVE  \/ checkpoints'[f][i].owner = e
                 \/ /\ i \in DOMAIN checkpoints[f]
                    /\ checkpoints'[f][i] = checkpoints[f][i]
      <4>1. checkpoints' = [checkpoints EXCEPT ![e] =
                                Append(checkpoints[e], Snapshot(e))]
        BY <1>7 DEF NodeDone
      <4>2. CASE f # e
        BY <1>0, <4>1, <4>2
      <4>3. CASE f = e
        BY <1>0, <3>2, <4>1, <4>3
      <4> QED
        BY <4>2, <4>3
    <3> QED
      BY <1>1, <3>1, <3>2, <3>3 DEF OwnersBegan, Begun
  <2> QED
    BY <1>2, <1>7, <2>1, <2>2, <2>3, TaskPCsAre DEF NodeDone
<1>8. CASE NodeFails(e)
  <2>1. announced[e] # "COMPLETED"
    BY <1>1, <1>8 DEF NodeFails, At, LifeOf, Unwound, Live
  <2>2. \A r : r.pc = "failing" => LifeOf("FAILED", r, announced[e])
    BY <2>1 DEF LifeOf, Unwound, Live
  <2>3. status'[e] = "FAILED"
    BY <1>0, <1>8 DEF NodeFails
  <2> QED
    BY <1>0, <1>2, <1>8, <2>2, <2>3, TaskPCsAre DEF NodeFails
<1>9. CASE Interrupted(e)
  <2>1. announced[e] # "COMPLETED"
    BY <1>1, <1>9 DEF Interrupted, LifeOf, Unwound, Live
  <2>2. \A r : r.pc = "ending" => LifeOf("ABORTED", r, announced[e])
    BY <2>1 DEF LifeOf, Unwound, Live
  <2>3. status'[e] = "ABORTED"
    BY <1>0, <1>9 DEF Interrupted
  <2> QED
    BY <1>0, <1>2, <1>9, <2>2, <2>3, TaskPCsAre DEF Interrupted
<1>10. CASE Dropped(e)
  <2>1. \A r : r.pc = "done" => LifeOf(status[e], r, announced[e])
    BY <1>1, <1>10 DEF Dropped, LifeOf, Unwound, Live
  <2> QED
    BY <1>0, <1>2, <1>10, <2>1, TaskPCsAre DEF Dropped
<1>11. CASE EndWell(e)
  <2>1. \A r : r.pc = "done" => LifeOf(status[e], r, "COMPLETED")
    BY <1>1, <1>11 DEF EndWell, At, LifeOf, Unwound, Live
  <2>2. announced'[e] = "COMPLETED"
    BY <1>0, <1>11 DEF EndWell
  <2> QED
    BY <1>0, <1>2, <1>11, <2>1, <2>2, TaskPCsAre DEF EndWell
<1>12. CASE EndFailed(e)
  <2>1. \A r : r.pc = "done" => LifeOf("FAILED", r, "FAILED")
    BY DEF LifeOf, Unwound, Live
  <2>2. status'[e] = "FAILED" /\ announced'[e] = "FAILED"
    BY <1>0, <1>12 DEF EndFailed, Report
  <2> QED
    BY <1>0, <1>2, <1>12, <2>1, <2>2, TaskPCsAre DEF EndFailed, Report
<1> QED
  BY <1>3, <1>4, <1>5, <1>6, <1>7, <1>8, <1>9, <1>10, <1>11, <1>12
  DEF TaskStep

\* Cancelling executions moves no task.
LEMMA CancellingStays ==
    ASSUME task \in Tasks, NEW es, NEW e \in Execs,
           task'[e] = Cancelling(es)[e]
    PROVE  /\ task'[e].pc = task[e].pc
           /\ e \notin es => task'[e].cancel = task[e].cancel
           /\ task'[e].cancel
                => task[e].cancel \/ (e \in es /\ task[e].pc \in Live)
           /\ e \in es /\ task[e].pc \in Live => task'[e].cancel
<1>1. task[e].cancel \in BOOLEAN
  BY DEF Tasks
<1>2. task'[e].pc = task[e].pc
  BY DEF Tasks, Cancelling
<1>3. task'[e].cancel = (task[e].cancel \/ (e \in es /\ InTask(e)))
  BY DEF Tasks, Cancelling
<1> QED
  BY <1>1, <1>2, <1>3 DEF InTask

LEMMA CommandLife == ASSUME TypeInv, Life, Command PROVE Life'
<1>0. /\ status \in [Execs -> Statuses \cup {"none"}]
      /\ announced \in [Execs -> Statuses \cup {"none"}]
      /\ checkpoints \in [Execs -> Seq(Checkpoint)]
      /\ task \in Tasks
  BY TypeParts DEF TypeInv, TypeRest
<1>1. OwnersBegan /\ \A e \in Execs : LifeOf(status[e], task[e], announced[e])
  BY DEF Life
<1>2. \A e \in Execs :
        /\ status[e] = "none" => task[e].pc = "none"
        /\ status[e] = "RUNNING" => task[e].pc \in Unwound
        /\ status[e] = "PAUSED" => task[e].pc \in Unwound \cup {"none"}
  BY <1>0, <1>1 DEF LifeOf, Tasks, TaskPCs, Live
\* A new task for an execution that had none.
<1>3. ASSUME NEW e \in Execs, task[e].pc = "none",
             task' = [task EXCEPT ![e] = NewTask], checkpoints' = checkpoints,
             Report(e, "RUNNING")
      PROVE  Life'
  <2>1. /\ \A f \in Execs \ {e} : /\ task'[f] = task[f]
                                  /\ status'[f] = status[f]
                                  /\ announced'[f] = announced[f]
        /\ task'[e] = NewTask
        /\ status'[e] = "RUNNING" /\ announced'[e] = "RUNNING"
    BY <1>0, <1>3 DEF Report, Tasks
  <2>2. LifeOf("RUNNING", NewTask, "RUNNING")
    BY DEF LifeOf, NewTask, NoTask, Unwound, Live
  <2>3. OwnersBegan'
    BY <1>1, <1>3, <2>1, OwnersStayBegun DEF Begun
  <2> QED
    BY <1>1, <2>1, <2>2, <2>3 DEF Life
\* Nothing but what one execution reports.
<1>4. ASSUME NEW e \in Execs, NEW s \in {"RUNNING", "PAUSED"},
             task[e].pc \in Unwound, status[e] \in {"RUNNING", "PAUSED"},
             Report(e, s), task' = task, checkpoints' = checkpoints
      PROVE  Life'
  <2>1. /\ \A f \in Execs \ {e} : /\ status'[f] = status[f]
                                  /\ announced'[f] = announced[f]
        /\ status'[e] = s /\ announced'[e] = s
    BY <1>0, <1>4 DEF Report
  <2>2. LifeOf(s, task[e], s)
    BY <1>1, <1>4 DEF LifeOf, Unwound, Live
  <2>3. OwnersBegan'
    BY <1>1, <1>4, OwnersStayBegun
  <2> QED
    BY <1>1, <1>4, <2>1, <2>2, <2>3 DEF Life
\* Some executions are aborted.
<1>5. ASSUME NEW es \in SUBSET Execs, task' = Cancelling(es),
             checkpoints' = checkpoints,
             \A e \in es : /\ status[e] # "none"
                           /\ status'[e] = "ABORTED"
                           /\ announced'[e] = "ABORTED",
             \A e \in Execs \ es : /\ status'[e] = status[e]
                                   /\ announced'[e] = announced[e]
      PROVE  Life'
  <2>1. ASSUME NEW e \in Execs
        PROVE  /\ task'[e].pc = task[e].pc
               /\ e \notin es => task'[e].cancel = task[e].cancel
               /\ e \in es /\ task[e].pc \in Live => task'[e].cancel
    BY <1>0, <1>5, CancellingStays
  <2>2. ASSUME NEW e \in Execs
        PROVE  LifeOf(status'[e], task'[e], announced'[e])
    <3>1. CASE e \in es
      BY <1>1, <1>2, <1>5, <2>1, <3>1 DEF LifeOf, Unwound, Live
    <3>2. CASE e \notin es
      BY <1>1, <1>5, <2>1, <3>2 DEF LifeOf
    <3> QED
      BY <3>1, <3>2
  <2>3. OwnersBegan'
    BY <1>1, <1>5, <2>1, OwnersStayBegun DEF Begun
  <2> QED
    BY <2>2, <2>3 DEF Life
<1>6. ASSUME NEW e \in Execs, NEW p \in StartPlans, Start(e, p) PROVE Life'
  BY <1>2, <1>3, <1>6 DEF Start, Fresh
<1>7. ASSUME NEW e \in Execs, Pause(e) PROVE Life'
  BY <1>2, <1>4, <1>7 DEF Pause
<1>8. ASSUME NEW e \in Execs, Resume(e) PROVE Life'
  <2>1. task[e].pc \in Unwound => task' = task
    BY <1>0, <1>8 DEF Resume, TaskOnResume, InTask, Live, Tasks
  <2>2. task[e].pc = "none" => task' = [task EXCEPT ![e] = NewTask]
    BY <1>8 DEF Resume, TaskOnResume, InTask, Live, Unwound
  <2> QED
    BY <1>2, <1>3, <1>4, <1>8, <2>1, <2>2 DEF Resume
<1>9. ASSUME NEW e \in Execs, Abort(e) PROVE Life'
  <2>1. /\ task' = Cancelling({e}) /\ checkpoints' = checkpoints
        /\ status[e] # "none" /\ status'[e] = "ABORTED"
        /\ announced'[e] = "ABORTED"
        /\ \A f \in Execs \ {e} : /\ status'[f] = status[f]
                                  /\ announced'[f] = announced[f]
    BY <1>0, <1>9 DEF Abort, Report, Created
  <2> QED
    BY <1>5, <2>1
<1>10. ASSUME AbortSession PROVE Life'
  <2>1. PICK es \in SUBSET Execs :
          /\ es = {e \in Execs : status[e] = "RUNNING"}
          /\ task' = Cancelling(es)
    BY <1>10 DEF AbortSession
  <2>2. /\ checkpoints' = checkpoints
        /\ \A e \in es : /\ status[e] # "none"
                         /\ status'[e] = "ABORTED"
                         /\ announced'[e] = "ABORTED"
        /\ \A e \in Execs \ es : /\ status'[e] = status[e]
                                 /\ announced'[e] = announced[e]
    BY <1>10, <2>1 DEF AbortSession
  <2> QED
    BY <1>5, <2>1, <2>2
<1>11. ASSUME NEW e \in Execs, NEW f \in Execs,
              NEW i \in DOMAIN checkpoints[e], Restore(e, i, f)
       PROVE  Life'
  <2> DEFINE o == checkpoints[e][i].owner
  <2>1. o \in Execs
    <3>1. checkpoints[e][i] \in Checkpoint
      BY <1>0
    <3> QED
      BY <3>1 DEF Checkpoint
  <2>2. Begun(task[o])
    BY <1>1, <2>1 DEF OwnersBegan, Begun
  <2>3. /\ task' = Cancelling({o})
        /\ checkpoints' = [checkpoints EXCEPT ![f] = checkpoints[o]]
        /\ status[f] = "none"
        /\ status'[f] = "PAUSED" /\ announced'[f] = "PAUSED"
        /\ \A g \in Execs \ {f} : /\ status'[g] = status[g]
                                  /\ announced'[g] = announced[g]
    BY <1>0, <1>11 DEF Restore, Report, Fresh
  <2> HIDE DEF o
  <2>4. task[f].pc = "none" /\ f # o
    BY <1>2, <2>2, <2>3 DEF Begun
  <2>5. ASSUME NEW g \in Execs
        PROVE  /\ task'[g].pc = task[g].pc
               /\ g # o => task'[g].cancel = task[g].cancel
               /\ g = o /\ task[o].pc \in Live => task'[o].cancel
    <3>1. task'[g] = Cancelling({o})[g]
      BY <2>3
    <3> HIDE <2>3
    <3> QED
      BY <1>0, <3>1, CancellingStays
  <2>6. ASSUME NEW g \in Execs
        PROVE  LifeOf(status'[g], task'[g], announced'[g])
    <3>1. CASE g = f
      BY <1>1, <2>3, <2>4, <2>5, <3>1 DEF LifeOf, Unwound, Live
    <3>2. CASE g = o
      BY <1>1, <2>2, <2>3, <2>4, <2>5, <3>2 DEF LifeOf, Begun
    <3>3. CASE g \notin {f, o}
      BY <1>1, <2>3, <2>5, <3>3 DEF LifeOf
    <3> QED
      BY <3>1, <3>2, <3>3
  <2>7. OwnersBegan'
    <3>1. ASSUME NEW g \in Execs, NEW j \in DOMAIN checkpoints'[g]
          PROVE  \E h \in Execs : /\ j \in DOMAIN checkpoints[h]
                                 /\ checkpoints'[g][j] = checkpoints[h][j]
      BY <1>0, <2>1, <2>3
    <3> QED
      BY <1>1, <2>5, <3>1 DEF OwnersBegan
  <2> QED
    BY <2>6, <2>7 DEF Life
<1>12. ASSUME UNCHANGED <<status, task, announced, checkpoints>>
       PROVE  Life'
  <2>1. OwnersBegan'
    BY <1>1, <1>12, OwnersStayBegun
  <2> QED
    BY <1>1, <1>12, <2>1 DEF Life
<1>13. ASSUME Patch PROVE Life'
  BY <1>12, <1>13 DEF Patch
<1>14. ASSUME NEW c \in Connections, NEW e \in Execs, NEW n \in Nodes,
              RetryStart(c, e, n)
       PROVE  Life'
  BY <1>12, <1>14 DEF RetryStart
<1> QED
  BY <1>6, <1>7, <1>8, <1>9, <1>10, <1>11, <1>13, <1>14 DEF Command

LEMMA NextLife == TypeInv /\ Life /\ [Next]_vars => Life'
<1> SUFFICES ASSUME TypeInv, Life, [Next]_vars PROVE Life'
  OBVIOUS
<1>1. ASSUME UNCHANGED <<status, task, announced, checkpoints>> PROVE Life'
  BY <1>1, OwnersStayBegun DEF Life
<1>2. CASE UNCHANGED vars
  BY <1>1, <1>2 DEF vars
<1>3. ASSUME NEW c \in Connections, RetryStep(c) PROVE Life'
  BY <1>1, <1>3
  DEF RetryStep, RetrySucceeds, RetryErrs, RetryAgain, RetryEnds
<1> QED
  BY <1>2, <1>3, CommandLife, TaskStepLife DEF Next

LEMMA LifeAlways == Spec => [](TypeInv /\ Life)
<1>1. Init => TypeInv /\ Life
  BY InitTypeInv, InitLife
<1>2. TypeInv /\ Life /\ [Next]_vars => TypeInv' /\ Life'
  BY NextTypeInv, NextLife
<1> QED
  BY <1>1, <1>2, PTL DEF Spec

-----------------------------------------------------------------------------
\* An execution that says it is running has a live task, whatever was
\* paused, resumed, restored or cancelled before.
THEOREM RunningIsRun == Spec => []RunningHasTask
<1>1. TypeInv /\ Life => RunningHasTask
  <2> SUFFICES ASSUME TypeInv, Life, NEW e \in Execs, status[e] = "RUNNING"
               PROVE  task[e].pc \in Live
    BY DEF RunningHasTask, InTask
  <2>1. task[e].pc \in TaskPCs
    BY TypeParts DEF TypeInv, Tasks
  <2>2. LifeOf(status[e], task[e], announced[e])
    BY DEF Life
  <2> QED
    BY <2>1, <2>2 DEF LifeOf, TaskPCs
<1> QED
  BY <1>1, LifeAlways, PTL

\* COMPLETED is announced of no execution that failed, or is not over.
THEOREM SuccessIsTrue == Spec => []NoFalseSuccess
<1>1. Life => NoFalseSuccess
  BY DEF Life, LifeOf, NoFalseSuccess
<1> QED
  BY <1>1, LifeAlways, PTL

\* No step of the loop, of a node that fails, or of a command replaces the
\* status ABORTED.
THEOREM AbortsStay == Spec => AbortIsFinal
<1> DEFINE Stays == \A e \in Execs : status[e] = "ABORTED" => status'[e] = "ABORTED"
<1>1. TypeInv /\ Life /\ [Next]_vars => [Stays]_vars
  <2> SUFFICES ASSUME TypeInv, Life, Next PROVE Stays
    OBVIOUS
  <2>0. /\ status \in [Execs -> Statuses \cup {"none"}]
        /\ \A e \in Execs : LifeOf(status[e], task[e], announced[e])
    BY TypeParts DEF TypeInv, TypeRest, Life
  <2>1. CASE Command
    <3>1. ASSUME NEW e \in Execs, NEW s \in {"RUNNING", "PAUSED"},
                 status[e] # "ABORTED", Report(e, s)
          PROVE  Stays
      BY <2>0, <3>1 DEF Report
    <3>2. ASSUME NEW e \in Execs, Abort(e) PROVE Stays
      BY <2>0, <3>2 DEF Abort, Report
    <3>3. ASSUME AbortSession PROVE Stays
      BY <2>0, <3>3 DEF AbortSession
    <3> QED
      BY <2>1, <3>1, <3>2, <3>3
      DEF Command, Start, Pause, Resume, Patch, Restore, Fresh, RetryStart
  <2>2. ASSUME NEW e \in Execs, TaskStep(e) PROVE Stays
    <3>1. LeaveLoop(e) \/ NodeFails(e) \/ EndFailed(e) => status[e] # "ABORTED"
      BY <2>0 DEF LeaveLoop, Leaves, NodeFails, EndFailed, At, LifeOf, Unwound,
                  Live
    <3>2. ASSUME NEW s, status' = [status EXCEPT ![e] = s],
                 status[e] # "ABORTED" \/ s = "ABORTED"
          PROVE  Stays
      BY <2>0, <3>2
    <3>3. CASE LeaveLoop(e) \/ NodeFails(e) \/ EndFailed(e) \/ Interrupted(e)
      BY <3>1, <3>2, <3>3
      DEF LeaveLoop, NodeFails, EndFailed, Interrupted, Report
    <3>4. CASE UNCHANGED status
      BY <3>4
    <3> QED
      BY <2>2, <3>3, <3>4
      DEF TaskStep, Begin, Advance, FallAsleep, WakeUp, RunNode, NodeReturns,
          NodeDone, Dropped, EndWell
  <2>3. ASSUME NEW c \in Connections, RetryStep(c) PROVE Stays
    BY <2>3 DEF RetryStep, RetrySucceeds, RetryErrs, RetryAgain, RetryEnds
  <2> QED
    BY <2>1, <2>2, <2>3 DEF Next
<1> QED
  BY <1>1, LifeAlways, PTL DEF Spec, AbortIsFinal

\* A node is begun in a running execution only: the one way into a node
\* leads through the wait for the end of the pause.
THEOREM PausesHold == Spec => PauseHolds
<1> DEFINE Holds == \A e \in Execs :
                       task[e].pc # "node" /\ task'[e].pc = "node"
                           => status[e] = "RUNNING"
<1>1. TypeInv /\ Life /\ [Next]_vars => [Holds]_vars
  <2> SUFFICES ASSUME TypeInv, Life, Next PROVE Holds
    OBVIOUS
  <2>0. /\ task \in Tasks
        /\ \A e \in Execs : LifeOf(status[e], task[e], announced[e])
    BY TypeParts DEF TypeInv, Life
  <2>1. CASE Command
    <3>1. ASSUME NEW e \in Execs, task' = [task EXCEPT ![e] = NewTask]
          PROVE  Holds
      BY <2>0, <3>1 DEF Tasks, NewTask, NoTask
    <3>2. ASSUME NEW es, task' = Cancelling(es) PROVE Holds
      <4>1. ASSUME NEW e \in Execs PROVE task'[e].pc = task[e].pc
        BY <2>0, <3>2, CancellingStays
      <4> QED
        BY <4>1
    <3>3. ASSUME task' = task PROVE Holds
      BY <3>3
    <3>4. ASSUME NEW e \in Execs, Resume(e) PROVE Holds
      <4>1. task' = [task EXCEPT ![e] = NewTask] \/ task' = task
        BY <2>0, <3>4 DEF Resume, TaskOnResume, Tasks
      <4> QED
        BY <4>1, <3>1, <3>3
    <3>5. (\E es : task' = Cancelling(es)) => Holds
      BY <3>2
    <3> QED
      BY <2>1, <3>1, <3>3, <3>4, <3>5
      DEF Command, Start, Pause, Abort, AbortSession, Patch, Restore, RetryStart
  <2>2. ASSUME NEW e \in Execs, TaskStep(e) PROVE Holds
    <3>1. ASSUME NEW p, p # "node",
                 \/ Goto(e, p)
                 \/ \E X : task' = [task EXCEPT ![e].pc = p, ![e].executed = X]
                 \/ \E n : task' = [task EXCEPT ![e].pc = p, ![e].next = n]
                 \/ task' = [task EXCEPT ![e].pc = p, ![e].cancel = FALSE]
          PROVE  Holds
      BY <2>0, <3>1 DEF Tasks, Goto
    <3>2. CASE Advance(e) \/ WakeUp(e)
      <4>1. status[e] = "RUNNING"
        BY <2>0, <3>2 DEF Advance, WakeUp, MayRun, At, LifeOf, Unwound
      <4>2. ASSUME NEW f \in Execs \ {e} PROVE task'[f] = task[f]
        BY <2>0, <3>2 DEF Advance, WakeUp, RunNode, Tasks
      <4> QED
        BY <4>1, <4>2
    <3>3. CASE Begin(e) \/ NodeDone(e)
      <4>1. PICK X : task' = [task EXCEPT ![e].pc = "head", ![e].executed = X]
        <5>1. Begin(e) => task' = [task EXCEPT ![e].pc = "head",
                                   ![e].executed = AlreadyExecuted(e)]
          BY DEF Begin
        <5>2. NodeDone(e) => task' = [task EXCEPT ![e].pc = "head",
                   ![e].executed = task[e].executed \cup {task[e].next}]
          BY DEF NodeDone
        <5> QED
          BY <3>3, <5>1, <5>2
      <4> QED
        BY <3>1, <4>1
    <3>4. CASE \/ LeaveLoop(e) \/ NodeReturns(e) \/ NodeFails(e)
               \/ EndWell(e) \/ EndFailed(e)
      <4>1. PICK p : Goto(e, p) /\ p # "node"
        BY <3>4 DEF LeaveLoop, NodeReturns, NodeFails, EndWell, EndFailed
      <4> QED
        BY <3>1, <4>1
    <3>5. CASE FallAsleep(e)
      BY <3>1, <3>5 DEF FallAsleep
    <3>6. CASE Interrupted(e) \/ Dropped(e)
      BY <3>1, <3>6 DEF Interrupted, Dropped
    <3> QED
      BY <2>2, <3>2, <3>3, <3>4, <3>5, <3>6 DEF TaskStep
  <2>3. ASSUME NEW c \in Connections, RetryStep(c) PROVE Holds
    BY <2>3 DEF RetryStep, RetrySucceeds, RetryErrs, RetryAgain, RetryEnds
  <2> QED
    BY <2>1, <2>2, <2>3 DEF Next
<1> QED
  BY <1>1, LifeAlways, PTL DEF Spec, PauseHolds

-----------------------------------------------------------------------------
(* The work that is kept: what a task counts as executed is what its       *)
(* execution has completed. That is so because no retry runs beside a      *)
(* loop, which in turn is so because a retry needs a node that has failed, *)
(* and a failed node ends the loop.                                        *)

Completed(ns) == {n \in Nodes : ns[n] = "COMPLETED"}

\* The places of a task that may still run nodes.
Looping == {"none", "new", "head", "asleep", "node", "succeeded"}

WorkOf(st, t, ns) ==
    /\ st = "none" => \A n \in Nodes : ns[n] = "PENDING"
    /\ t.pc \in Looping => \A n \in Nodes : ns[n] # "FAILED"
    /\ t.pc \in {"head", "asleep", "node"} => t.executed = Completed(ns)
    /\ t.pc = "succeeded" => t.executed \cup {t.next} = Completed(ns)
    /\ t.pc \in {"asleep", "node"} => t.next \notin Completed(ns)

RetriesApart ==
    \A c \in Connections, e \in Execs :
        retry[c].pc # "idle" /\ retry[c].exec = e => task[e].pc \notin Looping

SnapshotsClean ==
    \A e \in Execs : \A i \in DOMAIN checkpoints[e] :
        \A n \in Nodes : checkpoints[e][i].node[n] # "FAILED"

Work ==
    /\ \A e \in Execs : WorkOf(status[e], task[e], node[e])
    /\ RetriesApart
    /\ SnapshotsClean

LEMMA InitWork == Init => Work
  BY DEF Init, Work, WorkOf, Looping, RetriesApart, SnapshotsClean, NoTask, Idle

\* A step that starts no retry and lets no task begin to loop again.
LEMMA WorkStays ==
    ASSUME Work, SnapshotsClean', retry' = retry,
           \A e \in Execs : task'[e].pc \in Looping => task[e].pc \in Looping,
           \A e \in Execs : WorkOf(status'[e], task'[e], node'[e])
    PROVE  Work'
<1>1. RetriesApart'
  BY DEF Work, RetriesApart
<1> QED
  BY <1>1 DEF Work

\* A step that gives no other status to an execution than a real one, and
\* leaves its task and its nodes alone.
LEMMA StatusAlone ==
    ASSUME NEW st, NEW st2, NEW t, NEW u, NEW ns, WorkOf(st, t, ns),
           st2 = "none" => st = "none",
           u.pc = t.pc, u.executed = t.executed, u.next = t.next
    PROVE  WorkOf(st2, u, ns)
  BY DEF WorkOf

LEMMA CommandWork == ASSUME TypeInv, Life, Work, Command PROVE Work'
<1>0. /\ status \in [Execs -> Statuses \cup {"none"}]
      /\ node \in [Execs -> [Nodes -> NodeStatuses]]
      /\ checkpoints \in [Execs -> Seq(Checkpoint)]
      /\ task \in Tasks
  BY TypeParts DEF TypeInv, TypeRest
<1>1. /\ \A e \in Execs : WorkOf(status[e], task[e], node[e])
      /\ RetriesApart /\ SnapshotsClean
  BY DEF Work
<1>2. \A e \in Execs :
        /\ status[e] = "none" => task[e].pc = "none"
        /\ status[e] = "PAUSED" => task[e].pc \in Unwound \cup {"none"}
  BY <1>0 DEF Life, LifeOf, Tasks, TaskPCs, Live, Unwound
\* A new task for an execution that had none.
<1>3. ASSUME NEW e \in Execs, task[e].pc = "none", Report(e, "RUNNING"),
             task' = [task EXCEPT ![e] = NewTask],
             UNCHANGED <<node, checkpoints, retry>>
      PROVE  Work'
  <2>1. /\ \A f \in Execs \ {e} : task'[f] = task[f] /\ status'[f] = status[f]
        /\ task'[e] = NewTask /\ status'[e] = "RUNNING"
    BY <1>0, <1>3 DEF Report, Tasks
  <2>2. WorkOf("RUNNING", NewTask, node[e])
    BY <1>1, <1>3 DEF WorkOf, NewTask, NoTask, Looping
  <2>3. SnapshotsClean'
    BY <1>1, <1>3 DEF SnapshotsClean
  <2>4. \A f \in Execs : task'[f].pc \in Looping => task[f].pc \in Looping
    BY <1>3, <2>1 DEF Looping
  <2>5. \A f \in Execs : WorkOf(status'[f], task'[f], node'[f])
    BY <1>1, <1>3, <2>1, <2>2
  <2> QED
    BY <1>3, <2>3, <2>4, <2>5, WorkStays
\* Tasks that stay where they are, with the nodes of their executions.
<1>4. ASSUME UNCHANGED <<node, checkpoints, retry>>,
             \A e \in Execs :
                 /\ status'[e] = "none" => status[e] = "none"
                 /\ task'[e].pc = task[e].pc
                 /\ task'[e].executed = task[e].executed
                 /\ task'[e].next = task[e].next
      PROVE  Work'
  <2>1. SnapshotsClean'
    BY <1>1, <1>4 DEF SnapshotsClean
  <2>2. ASSUME NEW e \in Execs
        PROVE  WorkOf(status'[e], task'[e], node'[e])
    <3>1. WorkOf(status'[e], task'[e], node[e])
      BY <1>1, <1>4, StatusAlone
    <3> QED
      BY <1>4, <3>1
  <2> QED
    BY <1>4, <2>1, <2>2, WorkStays
<1>5. ASSUME NEW es, task' = Cancelling(es), NEW e \in Execs
      PROVE  /\ task'[e].pc = task[e].pc
             /\ task'[e].executed = task[e].executed
             /\ task'[e].next = task[e].next
  BY <1>0, <1>5 DEF Tasks, Cancelling
<1>6. ASSUME NEW e \in Execs, NEW p \in StartPlans, Start(e, p) PROVE Work'
  BY <1>2, <1>3, <1>6 DEF Start, Fresh
<1>7. ASSUME NEW e \in Execs, Pause(e) PROVE Work'
  BY <1>0, <1>4, <1>7 DEF Pause, Report
<1>8. ASSUME NEW e \in Execs, Resume(e) PROVE Work'
  <2>1. CASE task[e].pc = "none"
    <3>1. task' = [task EXCEPT ![e] = NewTask]
      BY <1>8, <2>1 DEF Resume, TaskOnResume, InTask, Live, Unwound
    <3> QED
      BY <1>3, <1>8, <2>1, <3>1 DEF Resume
  <2>2. CASE task[e].pc \in Unwound
    <3>1. task' = task
      BY <1>0, <1>8, <2>2 DEF Resume, TaskOnResume, InTask, Live, Tasks
    <3> QED
      BY <1>0, <1>4, <1>8, <3>1 DEF Resume, Report
  <2> QED
    BY <1>2, <1>8, <2>1, <2>2 DEF Resume
<1>9. ASSUME NEW e \in Execs, Abort(e) PROVE Work'
  <2>1. /\ task' = Cancelling({e})
        /\ UNCHANGED <<node, checkpoints, retry>>
        /\ \A f \in Execs : status'[f] = "none" => status[f] = "none"
    BY <1>0, <1>9 DEF Abort, Report
  <2> QED
    BY <1>4, <1>5, <2>1
<1>10. ASSUME AbortSession PROVE Work'
  <2>1. PICK es : task' = Cancelling(es)
    BY <1>10 DEF AbortSession
  <2>2. /\ UNCHANGED <<node, checkpoints, retry>>
        /\ \A f \in Execs : status'[f] = "none" => status[f] = "none"
    BY <1>10 DEF AbortSession
  <2> QED
    BY <1>4, <1>5, <2>1, <2>2
<1>11. ASSUME NEW e \in Execs, NEW f \in Execs,
              NEW i \in DOMAIN checkpoints[e], Restore(e, i, f)
       PROVE  Work'
  <2>1. PICK cp \in Checkpoint : cp = checkpoints[e][i]
    BY <1>0
  <2>2. /\ status[f] = "none" /\ task[f].pc = "none"
        /\ status'[f] = "PAUSED" /\ retry' = retry
        /\ \A g \in Execs \ {f} : status'[g] = status[g]
        /\ node' = [node EXCEPT ![f] = Restored(cp)]
        /\ task' = Cancelling({cp.owner})
        /\ checkpoints' = [checkpoints EXCEPT ![f] = checkpoints[cp.owner]]
    BY <1>0, <1>2, <1>11, <2>1 DEF Restore, Report, Fresh
  <2>3. \A n \in Nodes : Restored(cp)[n] # "FAILED"
    BY <1>1, <2>1 DEF SnapshotsClean, Restored
  <2>4. SnapshotsClean'
    BY <1>0, <1>1, <2>2 DEF SnapshotsClean, Checkpoint
  <2>5. ASSUME NEW g \in Execs
        PROVE  /\ task'[g].pc = task[g].pc
               /\ task'[g].executed = task[g].executed
               /\ task'[g].next = task[g].next
    BY <1>5, <2>2
  <2>6. WorkOf(status'[f], task'[f], node'[f])
    BY <1>0, <2>2, <2>3, <2>5 DEF WorkOf, Looping
  <2>7. ASSUME NEW g \in Execs \ {f}
        PROVE  WorkOf(status'[g], task'[g], node'[g])
    <3>1. WorkOf(status[g], task'[g], node[g])
      BY <1>1, <2>5, StatusAlone
    <3> QED
      BY <1>0, <2>2, <3>1
  <2> QED
    BY <2>2, <2>4, <2>5, <2>6, <2>7, WorkStays
<1>12. ASSUME Patch PROVE Work'
  BY <1>4, <1>12 DEF Patch
<1>13. ASSUME NEW c \in Connections, NEW e \in Execs, NEW n \in Nodes,
              RetryStart(c, e, n)
       PROVE  Work'
  <2>1. task[e].pc \notin Looping /\ status[e] # "none"
    BY <1>1, <1>13 DEF RetryStart, WorkOf
  <2>2. /\ node' = [node EXCEPT ![e][n] = "RUNNING"]
        /\ retry' = [retry EXCEPT ![c] =
                [pc |-> "node", exec |-> e, node |-> n, left |-> MaxRetries]]
        /\ UNCHANGED <<status, task, checkpoints>>
    BY <1>13 DEF RetryStart
  <2>3. RetriesApart'
    <3>1. retry \in [Connections -> [pc : {"idle", "node", "delay"},
                                     exec : Execs \cup {0},
                                     node : Nodes \cup {NoNode},
                                     left : 0..MaxRetries]]
      BY TypeParts DEF TypeInv, TypeRest
    <3> QED
      BY <1>1, <2>1, <2>2, <3>1 DEF RetriesApart
  <2>4. WorkOf(status[e], task[e], node'[e])
    BY <2>1 DEF WorkOf, Looping
  <2>5. \A f \in Execs \ {e} : node'[f] = node[f]
    BY <1>0, <2>2
  <2>6. SnapshotsClean'
    BY <1>1, <2>2 DEF SnapshotsClean
  <2> QED
    BY <1>1, <2>2, <2>3, <2>4, <2>5, <2>6 DEF Work
<1> QED
  BY <1>6, <1>7, <1>8, <1>9, <1>10, <1>11, <1>12, <1>13 DEF Command

LEMMA RetryWork ==
    ASSUME TypeInv, Work, Life, NEW c \in Connections, RetryStep(c) PROVE Work'
<1>0. /\ node \in [Execs -> [Nodes -> NodeStatuses]]
      /\ retry \in [Connections -> [pc : {"idle", "node", "delay"},
                                     exec : Execs \cup {0},
                                     node : Nodes \cup {NoNode},
                                     left : 0..MaxRetries]]
      /\ task \in Tasks
  BY TypeParts DEF TypeInv, TypeRest
<1>1. PICK s : RetryEnds(c, s) /\ retry[c].pc # "idle"
  BY DEF RetryStep, RetrySucceeds, RetryErrs, RetryAgain
<1>2. /\ UNCHANGED <<status, task, checkpoints>>
      /\ \A e \in Execs : e # retry[c].exec => node'[e] = node[e]
  BY <1>0, <1>1 DEF RetryEnds
<1>3. retry'[c].pc = "idle" \/ retry'[c].exec = retry[c].exec
  BY <1>0 DEF RetryStep, RetrySucceeds, RetryErrs, RetryAgain, Idle
<1>4. \A d \in Connections \ {c} : retry'[d] = retry[d]
  BY <1>0 DEF RetryStep, RetrySucceeds, RetryErrs, RetryAgain
<1>5. RetriesApart'
  BY <1>1, <1>2, <1>3, <1>4 DEF Work, RetriesApart
<1>6. SnapshotsClean'
  BY <1>2 DEF Work, SnapshotsClean
<1>7. ASSUME NEW e \in Execs
      PROVE  WorkOf(status'[e], task'[e], node'[e])
  <2>1. CASE e # retry[c].exec
    BY <1>2, <2>1 DEF Work
  <2>2. CASE e = retry[c].exec
    <3>1. task[e].pc \notin Looping
      BY <1>1, <2>2 DEF Work, RetriesApart
    <3>2. status[e] # "none"
      BY <1>0, <3>1 DEF Life, LifeOf, Looping, Tasks, TaskPCs, Live, Unwound
    <3> QED
      BY <1>2, <3>1, <3>2 DEF WorkOf, Looping
  <2> QED
    BY <2>1, <2>2
<1> QED
  BY <1>5, <1>6, <1>7 DEF Work

LEMMA TaskStepWork ==
    ASSUME TypeInv, Life, Work, NEW e \in Execs, TaskStep(e) PROVE Work'
<1> DEFINE t == task[e]
           u == task'[e]
<1>0. /\ status \in [Execs -> Statuses \cup {"none"}]
      /\ node \in [Execs -> [Nodes -> NodeStatuses]]
      /\ checkpoints \in [Execs -> Seq(Checkpoint)]
      /\ task \in Tasks /\ Picked /\ plan \in Seq(Nodes)
  BY TypeParts DEF TypeInv, TypeRest
<1>1. WorkOf(status[e], t, node[e]) /\ SnapshotsClean
  BY DEF Work
<1>2. t.pc # "none" => status[e] # "none"
  BY <1>0 DEF Life, LifeOf, Tasks, TaskPCs, Live, Unwound
\* It is enough to look at e.
<1>3. ASSUME \A f \in Execs \ {e} : /\ status'[f] = status[f]
                                     /\ task'[f] = task[f]
                                     /\ node'[f] = node[f],
             checkpoints' = checkpoints \/ SnapshotsClean', retry' = retry,
             u.pc \in Looping => t.pc \in Looping,
             WorkOf(status'[e], u, node'[e])
      PROVE  Work'
  <2>1. SnapshotsClean'
    BY <1>1, <1>3 DEF SnapshotsClean
  <2>2. \A f \in Execs : WorkOf(status'[f], task'[f], node'[f])
    BY <1>3 DEF Work
  <2>3. \A f \in Execs : task'[f].pc \in Looping => task[f].pc \in Looping
    BY <1>3
  <2> QED
    BY <1>3, <2>1, <2>2, <2>3, WorkStays
\* A task that leaves the loop.
<1>4. ASSUME NEW p \in TaskPCs, p \notin Looping, status'[e] # "none",
             \/ Goto(e, p)
             \/ task' = [task EXCEPT ![e].pc = p, ![e].cancel = FALSE],
             \A f \in Execs \ {e} : status'[f] = status[f] /\ node'[f] = node[f],
             checkpoints' = checkpoints, retry' = retry
      PROVE  Work'
  <2>1. u.pc = p /\ \A f \in Execs \ {e} : task'[f] = task[f]
    BY <1>0, <1>4, TaskMoves
  <2>2. WorkOf(status'[e], u, node'[e])
    BY <1>4, <2>1 DEF WorkOf, Looping
  <2> QED
    BY <1>3, <1>4, <2>1, <2>2
<1>5. CASE Begin(e)
  <2>1. u = [t EXCEPT !.pc = "head", !.executed = Completed(node[e])]
    BY <1>0, <1>5 DEF Begin, Tasks, AlreadyExecuted, Completed
  <2>2. WorkOf(status[e], u, node[e])
    <3>1. u.pc = "head" /\ u.executed = Completed(node[e])
      BY <1>0, <2>1 DEF Tasks
    <3> QED
      BY <1>1, <1>5, <3>1 DEF Begin, At, WorkOf, Looping
  <2>3. /\ UNCHANGED <<status, node, checkpoints, retry>>
        /\ \A f \in Execs \ {e} : task'[f] = task[f]
    BY <1>0, <1>5 DEF Begin, Tasks
  <2>4. t.pc \in Looping
    BY <1>5 DEF Begin, At, Looping
  <2> QED
    BY <1>3, <2>2, <2>3, <2>4
<1>6. CASE Advance(e) \/ WakeUp(e)
  <2>1. PICK n \in Nodes : RunNode(e, n) /\ n \notin t.executed
    <3>1. CASE Advance(e)
      BY <1>0, <3>1, FirstUnexecuted DEF Advance, NextNode
    <3>2. CASE WakeUp(e)
      BY <1>0, <1>1, <3>2 DEF WakeUp, At, Picked, WorkOf
    <3> QED
      BY <1>6, <3>1, <3>2
  <2>2. t.pc \in {"head", "asleep"} /\ status[e] # "none"
    BY <1>2, <1>6 DEF Advance, WakeUp, At
  <2>3. /\ u = [t EXCEPT !.pc = "node", !.next = n]
        /\ node'[e] = [node[e] EXCEPT ![n] = "RUNNING"]
        /\ UNCHANGED <<status, checkpoints, retry>>
        /\ \A f \in Execs \ {e} : task'[f] = task[f] /\ node'[f] = node[f]
    BY <1>0, <2>1 DEF RunNode, Tasks
  <2>4. Completed(node'[e]) = t.executed
    <3>1. t.executed = Completed(node[e])
      BY <1>1, <2>2 DEF WorkOf
    <3>2. \A m \in Nodes : node'[e][m] = "COMPLETED" <=> node[e][m] = "COMPLETED"
      BY <1>0, <2>1, <2>3, <3>1 DEF Completed
    <3> QED
      BY <3>1, <3>2 DEF Completed
  <2>5. u.pc = "node" /\ u.next = n /\ u.executed = t.executed
    BY <1>0, <2>3 DEF Tasks
  <2>6. \A m \in Nodes : node'[e][m] # "FAILED"
    BY <1>0, <1>1, <2>2, <2>3 DEF WorkOf, Looping
  <2>7. WorkOf(status'[e], u, node'[e])
    BY <2>1, <2>2, <2>3, <2>4, <2>5, <2>6 DEF WorkOf
  <2>8. t.pc \in Looping
    BY <2>2 DEF Looping
  <2> QED
    BY <1>3, <2>3, <2>7, <2>8
<1>7. CASE FallAsleep(e)
  <2>1. /\ NextNode(e) \notin t.executed /\ t.pc = "head"
        /\ u = [t EXCEPT !.pc = "asleep", !.next = NextNode(e)]
        /\ UNCHANGED <<status, node, checkpoints, retry>>
        /\ \A f \in Execs \ {e} : task'[f] = task[f]
    BY <1>0, <1>7, FirstUnexecuted DEF FallAsleep, At, NextNode, Tasks
  <2>2. u.pc = "asleep" /\ u.next = NextNode(e) /\ u.executed = t.executed
    BY <1>0, <2>1 DEF Tasks
  <2>3. WorkOf(status'[e], u, node'[e])
    BY <1>1, <2>1, <2>2 DEF WorkOf, Looping
  <2>4. t.pc \in Looping
    BY <2>1 DEF Looping
  <2> QED
    BY <1>3, <2>1, <2>3, <2>4
<1>8. CASE NodeReturns(e)
  <2>1. PICK s \in {"COMPLETED", "FAILED"} :
          /\ node' = [node EXCEPT ![e][t.next] = s]
          /\ Goto(e, IF s = "COMPLETED" THEN "succeeded" ELSE "erred")
    BY <1>8 DEF NodeReturns
  <2>2. /\ UNCHANGED <<status, checkpoints, retry>>
        /\ t.pc = "node" /\ t.next \in Nodes /\ status[e] # "none"
    BY <1>0, <1>2, <1>8 DEF NodeReturns, At, Picked
  <2>3. \A f \in Execs \ {e} : task'[f] = task[f] /\ node'[f] = node[f]
    BY <1>0, <2>1 DEF Goto
  <2>4. CASE s = "FAILED"
    <3>1. Goto(e, "erred")
      BY <2>1, <2>4
    <3> QED
      BY <1>4, <2>2, <2>3, <3>1, TaskPCsAre DEF Looping
  <2>5. CASE s = "COMPLETED"
    <3>1. node'[e] = [node[e] EXCEPT ![t.next] = "COMPLETED"]
      BY <1>0, <2>1, <2>5
    <3>2. Completed(node'[e]) = t.executed \cup {t.next}
      <4>1. t.executed = Completed(node[e])
        BY <1>1, <2>2 DEF WorkOf
      <4> QED
        BY <1>0, <2>2, <3>1, <4>1 DEF Completed
    <3>3. \A m \in Nodes : node'[e][m] # "FAILED"
      BY <1>0, <1>1, <2>2, <3>1 DEF WorkOf, Looping
    <3>4. u.pc = "succeeded" /\ u.next = t.next /\ u.executed = t.executed
      BY <1>0, <2>1, <2>5 DEF Goto, Tasks
    <3>5. WorkOf(status'[e], u, node'[e])
      BY <2>2, <3>2, <3>3, <3>4 DEF WorkOf
    <3>6. t.pc \in Looping
      BY <2>2 DEF Looping
    <3> QED
      BY <1>3, <2>2, <2>3, <3>5, <3>6
  <2> QED
    BY <2>4, <2>5
<1>9. CASE NodeDone(e)
  <2>1. /\ u = [t EXCEPT !.pc = "head", !.executed = t.executed \cup {t.next}]
        /\ UNCHANGED <<status, node, retry>>
        /\ t.pc = "succeeded"
        /\ \A f \in Execs \ {e} : task'[f] = task[f]
        /\ checkpoints' = [checkpoints EXCEPT ![e] = Append(@, Snapshot(e))]
    BY <1>0, <1>9 DEF NodeDone, At, Tasks
  <2>2. u.pc = "head" /\ u.executed = t.executed \cup {t.next}
    BY <1>0, <2>1 DEF Tasks
  <2>3. WorkOf(status'[e], u, node'[e])
    BY <1>1, <2>1, <2>2 DEF WorkOf, Looping
  <2>4. \A n \in Nodes : Snapshot(e).node[n] # "FAILED"
    BY <1>1, <2>1 DEF Snapshot, WorkOf, Looping
  <2>5. SnapshotsClean'
    <3>1. ASSUME NEW f \in Execs, NEW i \in DOMAIN checkpoints'[f]
          PROVE  \/ checkpoints'[f][i] = Snapshot(e)
                 \/ /\ i \in DOMAIN checkpoints[f]
                    /\ checkpoints'[f][i] = checkpoints[f][i]
      BY <1>0, <2>1
    <3> QED
      BY <1>1, <2>4, <3>1 DEF SnapshotsClean
  <2>6. t.pc \in Looping
    BY <2>1 DEF Looping
  <2> QED
    BY <1>3, <2>1, <2>3, <2>5, <2>6
<1>10. CASE LeaveLoop(e)
  <2>1. status'[e] # "none"
    BY <1>0, <1>2, <1>10 DEF LeaveLoop, Leaves, At
  <2>2. /\ Goto(e, "ending") /\ UNCHANGED <<node, checkpoints, retry>>
        /\ \A f \in Execs \ {e} : status'[f] = status[f]
    BY <1>0, <1>10 DEF LeaveLoop
  <2> QED
    BY <1>4, <2>1, <2>2, TaskPCsAre DEF Looping
<1>11. CASE NodeFails(e) \/ Interrupted(e) \/ EndFailed(e)
  <2>1. PICK p \in {"failing", "ending", "done"}, s \in {"FAILED", "ABORTED"} :
          /\ status' = [status EXCEPT ![e] = s]
          /\ \/ Goto(e, p)
             \/ task' = [task EXCEPT ![e].pc = p, ![e].cancel = FALSE]
    BY <1>11 DEF NodeFails, Interrupted, EndFailed, Report
  <2>2. UNCHANGED <<node, checkpoints, retry>>
    BY <1>11 DEF NodeFails, Interrupted, EndFailed
  <2>3. status'[e] # "none" /\ \A f \in Execs \ {e} : status'[f] = status[f]
    BY <1>0, <2>1
  <2>4. p \in TaskPCs /\ p \notin Looping
    BY TaskPCsAre DEF Looping
  <2> QED
    BY <1>4, <2>1, <2>2, <2>3, <2>4
<1>12. CASE EndWell(e) \/ Dropped(e)
  <2>1. /\ UNCHANGED <<status, node, checkpoints, retry>>
        /\ \/ Goto(e, "done")
           \/ task' = [task EXCEPT ![e].pc = "done", ![e].cancel = FALSE]
    BY <1>12 DEF EndWell, Dropped
  <2>2. status[e] # "none"
    BY <1>2, <1>12 DEF EndWell, Dropped, At
  <2>3. "done" \in TaskPCs /\ "done" \notin Looping
    BY TaskPCsAre DEF Looping
  <2> QED
    BY <1>4, <2>1, <2>2, <2>3
<1> QED
  BY <1>5, <1>6, <1>7, <1>8, <1>9, <1>10, <1>11, <1>12 DEF TaskStep

LEMMA WorkAlways == Spec => [](TypeInv /\ Life /\ Work)
<1>1. TypeInv /\ Life /\ Work /\ [Next]_vars => Work'
  <2> SUFFICES ASSUME TypeInv, Life, Work, [Next]_vars PROVE Work'
    OBVIOUS
  <2>1. CASE UNCHANGED vars
    BY <2>1 DEF vars, Work, WorkOf, RetriesApart, SnapshotsClean
  <2> QED
    BY <2>1, CommandWork, TaskStepWork, RetryWork DEF Next
<1> QED
  BY <1>1, InitWork, LifeAlways, PTL DEF Spec

\* COMPLETED is set when every node of the plan, as the edits have left it
\* by then, has completed in this very execution.
THEOREM CompletedAreWhole == Spec => CompletedIsWhole
<1> DEFINE Whole == \A e \in Execs :
                       status[e] # "COMPLETED" /\ status'[e] = "COMPLETED"
                           => \A n \in ToSet(plan) : node[e][n] = "COMPLETED"
<1>1. TypeInv /\ Life /\ Work /\ [Next]_vars => [Whole]_vars
  <2> SUFFICES ASSUME TypeInv, Work, Next PROVE Whole
    OBVIOUS
  <2>0. status \in [Execs -> Statuses \cup {"none"}] /\ plan \in Seq(Nodes)
    BY TypeParts DEF TypeInv, TypeRest
  <2>1. ASSUME NEW e \in Execs, NEW s, s # "COMPLETED",
               status' = [status EXCEPT ![e] = s]
        PROVE  Whole
    BY <2>0, <2>1
  <2>2. ASSUME status' = status PROVE Whole
    BY <2>2
  <2>3. CASE Command
    <3>1. AbortSession => Whole
      BY <2>0 DEF AbortSession
    <3> QED
      BY <2>1, <2>2, <2>3, <3>1
      DEF Command, Start, Pause, Resume, Abort, Patch, Restore, RetryStart, Report
  <2>4. ASSUME NEW e \in Execs, LeaveLoop(e) PROVE Whole
    <3>1. SUFFICES ASSUME status[e] # "COMPLETED", status'[e] = "COMPLETED",
                          NEW n \in ToSet(plan)
                   PROVE  node[e][n] = "COMPLETED"
      BY <2>0, <2>4 DEF LeaveLoop
    <3>2. task[e].pc = "head" /\ NextNode(e) = NoNode
      BY <2>0, <2>4, <3>1 DEF LeaveLoop
    <3>3. Unexecuted(e) = {}
      BY <2>0, <3>2, FirstUnexecuted, ExecutionAssumption
    <3>4. n \in task[e].executed
      BY <2>0, <3>3 DEF Unexecuted, ToSet
    <3>5. task[e].executed = Completed(node[e])
      BY <3>2 DEF Work, WorkOf
    <3> QED
      BY <3>4, <3>5 DEF Completed
  <2>5. ASSUME NEW e \in Execs, TaskStep(e) PROVE Whole
    BY <2>1, <2>2, <2>4, <2>5
    DEF TaskStep, Begin, Advance, FallAsleep, WakeUp, RunNode, NodeReturns,
        NodeDone, NodeFails, Interrupted, Dropped, EndWell, EndFailed, Report
  <2>6. ASSUME NEW c \in Connections, RetryStep(c) PROVE Whole
    BY <2>2, <2>6 DEF RetryStep, RetrySucceeds, RetryErrs, RetryAgain, RetryEnds
  <2> QED
    BY <2>3, <2>5, <2>6 DEF Next
<1> QED
  BY <1>1, WorkAlways, PTL DEF Spec, CompletedIsWhole

\* What a step may do to a node that has completed.
LEMMA WorkKept ==
    ASSUME TypeInv, Life, Work, [Next]_vars,
           NEW e \in Execs, NEW n \in Nodes, node[e][n] = "COMPLETED"
    PROVE  node'[e][n] = "COMPLETED" \/ Retried(e, n)
<1>0. /\ node \in [Execs -> [Nodes -> NodeStatuses]]
      /\ task \in Tasks /\ Picked /\ plan \in Seq(Nodes)
      /\ \A d \in Execs : WorkOf(status[d], task[d], node[d])
  BY TypeParts DEF TypeInv, TypeRest, Work
<1>1. ASSUME node' = node PROVE node'[e][n] = "COMPLETED"
  BY <1>1
\* Another node, or one that has not completed.
<1>2. ASSUME NEW d \in Execs, NEW m \in Nodes, node[d][m] # "COMPLETED",
             NEW s, node' = [node EXCEPT ![d][m] = s]
      PROVE  node'[e][n] = "COMPLETED"
  BY <1>0, <1>2
<1>3. CASE Command
  <2>1. ASSUME NEW d \in Execs, NEW f \in Execs,
               NEW i \in DOMAIN checkpoints[d], Restore(d, i, f)
        PROVE  node'[e][n] = "COMPLETED"
    <3>1. e # f
      BY <1>0, <2>1 DEF Restore, Fresh, WorkOf
    <3> QED
      BY <1>0, <2>1, <3>1 DEF Restore
  <2>2. ASSUME NEW c \in Connections, NEW d \in Execs, NEW m \in Nodes,
               RetryStart(c, d, m)
        PROVE  node'[e][n] = "COMPLETED"
    BY <1>2, <2>2 DEF RetryStart
  <2> QED
    BY <1>1, <1>3, <2>1, <2>2
    DEF Command, Start, Pause, Resume, Abort, AbortSession, Patch
<1>4. ASSUME NEW d \in Execs, TaskStep(d) PROVE node'[e][n] = "COMPLETED"
  <2>1. CASE Advance(d) \/ WakeUp(d)
    <3>1. PICK m \in Nodes : RunNode(d, m) /\ m \notin Completed(node[d])
      <4>1. CASE Advance(d)
        <5>1. task[d].executed = Completed(node[d])
          BY <1>0, <4>1 DEF Advance, At, WorkOf
        <5> QED
          BY <1>0, <4>1, <5>1, FirstUnexecuted DEF Advance, NextNode
      <4>2. CASE WakeUp(d)
        BY <1>0, <4>2 DEF WakeUp, At, Picked, WorkOf
      <4> QED
        BY <2>1, <4>1, <4>2
    <3> QED
      BY <1>2, <3>1 DEF RunNode, Completed
  <2>2. CASE NodeReturns(d)
    <3>1. /\ task[d].next \in Nodes
          /\ task[d].next \notin Completed(node[d])
      BY <1>0, <2>2 DEF NodeReturns, At, Picked, WorkOf
    <3> QED
      BY <1>2, <2>2, <3>1 DEF NodeReturns, Completed
  <2> QED
    BY <1>1, <1>4, <2>1, <2>2
    DEF TaskStep, Begin, LeaveLoop, FallAsleep, NodeDone, NodeFails,
        Interrupted, Dropped, EndWell, EndFailed
<1>5. ASSUME NEW c \in Connections, RetryStep(c)
      PROVE  node'[e][n] = "COMPLETED" \/ Retried(e, n)
  <2>1. PICK s : RetryEnds(c, s) /\ retry[c].pc # "idle"
    BY <1>5 DEF RetryStep, RetrySucceeds, RetryErrs, RetryAgain
  <2>2. CASE retry[c].exec = e /\ retry[c].node = n
    BY <2>1, <2>2 DEF Retried
  <2>3. CASE ~(retry[c].exec = e /\ retry[c].node = n)
    BY <1>0, <2>1, <2>3 DEF RetryEnds
  <2> QED
    BY <2>2, <2>3
<1> QED
  BY <1>1, <1>3, <1>4, <1>5 DEF Next, vars

\* However an execution is paused, resumed, restored and retried, a node of
\* it that has completed is run again by nothing but a retry of that node
\* which was under way when it completed.
THEOREM WorkIsKept == Spec => CompletedWorkIsKept
<1> DEFINE Kept == \A e \in Execs, n \in Nodes :
                      node[e][n] = "COMPLETED" =>
                          node'[e][n] = "COMPLETED" \/ Retried(e, n)
<1>1. TypeInv /\ Life /\ Work /\ [Next]_vars => [Kept]_vars
  BY WorkKept
<1> QED
  BY <1>1, WorkAlways, PTL DEF Spec, CompletedWorkIsKept

\* A session may have several connections, and a second one's retry is what
\* it takes: it may complete the node while the first one's is in its delay.
OneConnection == \A c, d \in Connections : c = d

\* What is being retried has not completed.
RetriedIsOpen ==
    \A e \in Execs, n \in Nodes : Retried(e, n) => node[e][n] # "COMPLETED"

LEMMA RetriedStaysOpen ==
    ASSUME OneConnection, TypeInv, Life, Work, RetriedIsOpen, [Next]_vars
    PROVE  RetriedIsOpen'
<1>0. /\ node \in [Execs -> [Nodes -> NodeStatuses]]
      /\ retry \in [Connections -> [pc : {"idle", "node", "delay"},
                                     exec : Execs \cup {0},
                                     node : Nodes \cup {NoNode},
                                     left : 0..MaxRetries]]
      /\ RetriesApart
  BY TypeParts DEF TypeInv, TypeRest, Work
\* Nothing is retried in an execution whose task may still run nodes.
<1>1. ASSUME retry' = retry, NEW d \in Execs,
             node' = node \/ task[d].pc \in Looping,
             \A e \in Execs \ {d} : node'[e] = node[e]
      PROVE  RetriedIsOpen'
  <2>1. ASSUME NEW e \in Execs, NEW n \in Nodes, Retried(e, n)'
        PROVE  Retried(e, n) /\ (node'[e] = node[e])
    BY <1>0, <1>1, <2>1 DEF Retried, RetriesApart
  <2> QED
    BY <2>1 DEF RetriedIsOpen
<1>2. ASSUME retry' = retry, node' = node PROVE RetriedIsOpen'
  BY <1>2 DEF RetriedIsOpen, Retried
<1>3. CASE Command
  <2>1. ASSUME NEW e \in Execs, NEW f \in Execs,
               NEW i \in DOMAIN checkpoints[e], Restore(e, i, f)
        PROVE  RetriedIsOpen'
    <3>1. task[f].pc = "none"
      <4>1. task \in Tasks /\ status[f] = "none"
        BY <2>1, TypeParts DEF TypeInv, Restore, Fresh
      <4> QED
        BY <4>1 DEF Life, LifeOf, Tasks, TaskPCs, Live, Unwound
    <3>2. retry' = retry /\ \A g \in Execs \ {f} : node'[g] = node[g]
      BY <1>0, <2>1 DEF Restore
    <3> QED
      BY <1>1, <3>1, <3>2 DEF Looping
  <2>2. ASSUME NEW c \in Connections, NEW e \in Execs, NEW n \in Nodes,
               RetryStart(c, e, n)
        PROVE  RetriedIsOpen'
    <3>1. /\ retry'[c].exec = e /\ retry'[c].node = n
          /\ node' = [node EXCEPT ![e][n] = "RUNNING"]
      BY <1>0, <2>2 DEF RetryStart
    <3>2. ASSUME NEW d \in Execs, NEW m \in Nodes, Retried(d, m)'
          PROVE  d = e /\ m = n
      BY <3>1, <3>2 DEF Retried, OneConnection
    <3>3. node'[e][n] = "RUNNING"
      BY <1>0, <3>1
    <3> QED
      BY <3>2, <3>3 DEF RetriedIsOpen
  <2> QED
    BY <1>2, <1>3, <2>1, <2>2
    DEF Command, Start, Pause, Resume, Abort, AbortSession, Patch
<1>4. ASSUME NEW e \in Execs, TaskStep(e) PROVE RetriedIsOpen'
  <2>1. retry' = retry /\ \A f \in Execs \ {e} : node'[f] = node[f]
    BY <1>0, <1>4
    DEF TaskStep, Begin, LeaveLoop, Advance, FallAsleep, WakeUp, RunNode,
        NodeReturns, NodeDone, NodeFails, Interrupted, Dropped, EndWell, EndFailed
  <2>2. node' = node \/ task[e].pc \in Looping
    BY <1>4
    DEF TaskStep, Begin, LeaveLoop, Advance, FallAsleep, WakeUp, RunNode, At,
        NodeReturns, NodeDone, NodeFails, Interrupted, Dropped, EndWell,
        EndFailed, Looping
  <2> QED
    BY <1>1, <2>1, <2>2
<1>5. ASSUME NEW c \in Connections, RetryStep(c) PROVE RetriedIsOpen'
  <2>1. CASE RetrySucceeds(c)
    <3>1. retry'[c].pc = "idle"
      BY <1>0, <2>1 DEF RetrySucceeds, Idle
    <3> QED
      BY <3>1 DEF RetriedIsOpen, Retried, OneConnection
  <2>2. CASE RetryErrs(c) \/ RetryAgain(c)
    <3>1. PICK s \in {"FAILED", "RUNNING"} : RetryEnds(c, s)
      BY <2>2 DEF RetryErrs, RetryAgain
    <3>2. \/ retry'[c].pc = "idle"
          \/ retry'[c].exec = retry[c].exec /\ retry'[c].node = retry[c].node
      BY <1>0, <2>2 DEF RetryErrs, RetryAgain, Idle
    <3>3. ASSUME NEW d \in Execs, NEW m \in Nodes, Retried(d, m)'
          PROVE  node'[d][m] # "COMPLETED"
      <4>1. d = retry[c].exec /\ m = retry[c].node
        BY <3>2, <3>3 DEF Retried, OneConnection
      <4> QED
        BY <1>0, <3>1, <4>1 DEF RetryEnds
    <3> QED
      BY <3>3 DEF RetriedIsOpen
  <2> QED
    BY <1>5, <2>1, <2>2 DEF RetryStep
<1> QED
  BY <1>2, <1>3, <1>4, <1>5 DEF Next, vars

\* In a session with a single connection, a node that has completed stays so.
THEOREM WorkIsKeptAlone ==
    ASSUME OneConnection
    PROVE  Spec => [][\A e \in Execs, n \in Nodes :
                        node[e][n] = "COMPLETED" => node'[e][n] = "COMPLETED"]_vars
<1> DEFINE Kept == \A e \in Execs, n \in Nodes :
                      node[e][n] = "COMPLETED" => node'[e][n] = "COMPLETED"
<1>1. Init => RetriedIsOpen
  BY DEF Init, RetriedIsOpen
<1>2. TypeInv /\ Life /\ Work /\ RetriedIsOpen /\ [Next]_vars => RetriedIsOpen'
  BY RetriedStaysOpen
<1>3. TypeInv /\ Life /\ Work /\ RetriedIsOpen /\ [Next]_vars => [Kept]_vars
  BY WorkKept DEF RetriedIsOpen
<1> QED
  BY <1>1, <1>2, <1>3, WorkAlways, PTL DEF Spec

=============================================================================
