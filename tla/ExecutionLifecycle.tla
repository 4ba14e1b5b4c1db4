------------------------- MODULE ExecutionLifecycle -------------------------
(***************************************************************************)
(* The life of a plan's executions in Studio: the commands of the          *)
(* WebSocket connections (start, pause, resume, abort, retry a node, patch *)
(* the plan, restore a checkpoint) against the asyncio task that runs the  *)
(* plan's nodes one after the other.                                       *)
(*                                                                         *)
(* Everything runs on one event loop, so an action is the code between two *)
(* awaits that may suspend. A command that does not wait for a node is one *)
(* action with the status event it emits. A connection handles one command *)
(* at a time and is busy for as long as a retry of a node lasts. All       *)
(* executions belong to one session and so share its plan, which is here   *)
(* the order get_execution_order gives its nodes: an edit of nodes or      *)
(* edges can put a new node at any place of it.                            *)
(***************************************************************************)
EXTENDS Naturals, Sequences, FiniteSets, SequencesExt, FiniteSetsExt

CONSTANTS
    Execs,          \* execution ids, in the order they are given out
    Nodes,
    Connections,    \* the session's WebSocket connections
    StartPlans,     \* execution orders of the plans a start brings along
    NoNode,
    MaxRetries,     \* RetryPolicy.default_retries
    MaxPatches      \* bound: edits of the plan

ASSUME ExecutionAssumption ==
    /\ Execs \subseteq Nat
    /\ NoNode \notin Nodes
    /\ \A p \in StartPlans : p \in Seq(Nodes) /\ IsInjective(p)
    /\ MaxRetries \in Nat /\ MaxPatches \in Nat

VARIABLES
    status,       \* ExecutionIR.status, or "none" before it exists
    node,         \* status of each node in node_executions
    task,         \* execution_tasks: where each plan task stands
    plan,         \* PlanStore's plan of the session
    checkpoints,  \* CheckpointStore: the list of each execution
    retry,        \* what each connection is waiting for
    announced,    \* status in the last ExecutionStatusEvent of each execution
    patches       \* number of edits, for the bound

vars == <<status, node, task, plan, checkpoints, retry, announced, patches>>

Statuses == {"RUNNING", "PAUSED", "COMPLETED", "FAILED", "ABORTED"}
NodeStatuses == {"PENDING", "RUNNING", "COMPLETED", "FAILED"}

\* Where a task can be: not begun, at an await at the head of the loop,
\* asleep while paused, in a node, at the events after one that succeeded or
\* failed, in on_execution_end after the loop ended well or with an error.
Unwound == {"new", "head", "asleep", "node", "succeeded", "erred"}
Live == Unwound \cup {"ending", "failing"}
TaskPCs == Live \cup {"none", "done"}
Checkpoint == [owner : Execs, trigger : Nodes, node : [Nodes -> NodeStatuses]]

NoTask  == [pc |-> "none", executed |-> {}, next |-> NoNode, cancel |-> FALSE]
NewTask == [NoTask EXCEPT !.pc = "new"]
Idle    == [pc |-> "idle", exec |-> 0, node |-> NoNode, left |-> 0]

Fresh(e)   == status[e] = "none" /\ \A d \in Execs : d < e => status[d] # "none"
Created    == {e \in Execs : status[e] # "none"}
InTask(e)  == task[e].pc \in Live
SomeoneIdle == \E c \in Connections : retry[c] = Idle

Init ==
    /\ status = [e \in Execs |-> "none"]
    /\ node = [e \in Execs |-> [n \in Nodes |-> "PENDING"]]
    /\ task = [e \in Execs |-> NoTask]
    /\ plan = <<>>
    /\ checkpoints = [e \in Execs |-> <<>>]
    /\ retry = [c \in Connections |-> Idle]
    /\ announced = [e \in Execs |-> "none"]
    /\ patches = 0

\* A status set together with the event that reports it.
Report(e, s) ==
    /\ status' = [status EXCEPT ![e] = s]
    /\ announced' = [announced EXCEPT ![e] = s]

\* Mutant: the task is left to notice the status by itself.
CancelNothing(es) == task

\* task.cancel() of a task that is not done: it raises CancelledError at the
\* await where the task is suspended.
Cancelling(es) ==
    [e \in Execs |-> [task[e] EXCEPT !.cancel = @ \/ (e \in es /\ InTask(e))]]

-----------------------------------------------------------------------------
(* Commands *)

Start(e, p) ==
    /\ SomeoneIdle
    /\ Fresh(e)
    /\ Report(e, "RUNNING")
    /\ plan' = p
    /\ task' = [task EXCEPT ![e] = NewTask]
    /\ UNCHANGED <<node, checkpoints, retry, patches>>

Pause(e) ==
    /\ SomeoneIdle
    /\ status[e] = "RUNNING"
    /\ Report(e, "PAUSED")
    /\ UNCHANGED <<node, task, plan, checkpoints, retry, patches>>

\* Mutant: a resume relies on the task being there.
SameTask(e) == task[e]

\* The task of a restored execution is started here.
TaskOnResume(e) == IF InTask(e) THEN task[e] ELSE NewTask

Resume(e) ==
    /\ SomeoneIdle
    /\ status[e] = "PAUSED"
    /\ Report(e, "RUNNING")
    /\ task' = [task EXCEPT ![e] = TaskOnResume(e)]
    /\ UNCHANGED <<node, plan, checkpoints, retry, patches>>

\* Whatever the status was, COMPLETED and FAILED included.
Abort(e) ==
    /\ SomeoneIdle
    /\ e \in Created
    /\ Report(e, "ABORTED")
    /\ task' = Cancelling({e})
    /\ UNCHANGED <<node, plan, checkpoints, retry, patches>>

\* The session's last connection is gone and the grace period over.
AbortSession ==
    LET running == {e \in Execs : status[e] = "RUNNING"}
        abort(s) == [e \in Execs |-> IF e \in running THEN "ABORTED" ELSE s[e]]
    IN /\ running # {}
       /\ \A c \in Connections : retry[c] = Idle
       /\ status' = abort(status)
       /\ announced' = abort(announced)
       /\ task' = Cancelling(running)
       /\ UNCHANGED <<node, plan, checkpoints, retry, patches>>

\* PatchPlanCommand with add_node, which may land anywhere in the order, or
\* delete_node.
Patch ==
    /\ SomeoneIdle
    /\ plan # <<>>
    /\ patches < MaxPatches
    /\ patches' = patches + 1
    /\ \/ \E n \in Nodes \ ToSet(plan), i \in 1..Len(plan) + 1 :
             plan' = InsertAt(plan, i, n)
       \/ \E i \in 1..Len(plan) : plan' = RemoveAt(plan, i)
    /\ UNCHANGED <<status, node, task, checkpoints, retry, announced>>

\* The nodes after the checkpoint's trigger in the plan as it is now, or all
\* of them when the trigger is the last one or not in the plan.
NodesToReset(trigger) ==
    LET after == {plan[j] : j \in {k \in 1..Len(plan) :
                      \E i \in 1..k - 1 : plan[i] = trigger}}
    IN IF after = {} THEN ToSet(plan) ELSE after

Restored(cp) ==
    [n \in Nodes |-> IF n \in NodesToReset(cp.trigger)
                     THEN "PENDING" ELSE cp.node[n]]

\* The checkpoint is looked up in e's list; the execution whose task is
\* cancelled and whose list is inherited is the one the snapshot was taken of.
Restore(e, i, f) ==
    LET cp == checkpoints[e][i]
    IN /\ SomeoneIdle
       /\ Fresh(f)
       /\ Report(f, "PAUSED")
       /\ node' = [node EXCEPT ![f] = Restored(cp)]
       /\ task' = Cancelling({cp.owner})
       /\ checkpoints' = [checkpoints EXCEPT ![f] = checkpoints[cp.owner]]
       /\ UNCHANGED <<plan, retry, patches>>

-----------------------------------------------------------------------------
(* retry_node: the connection runs the node itself, outside the plan task *)

RetryStart(c, e, n) ==
    /\ retry[c] = Idle
    /\ status[e] \notin {"none", "ABORTED", "COMPLETED"}
    /\ node[e][n] = "FAILED"
    /\ node' = [node EXCEPT ![e][n] = "RUNNING"]
    /\ retry' = [retry EXCEPT ![c] =
           [pc |-> "node", exec |-> e, node |-> n, left |-> MaxRetries]]
    /\ UNCHANGED <<status, task, plan, checkpoints, announced, patches>>

RetryEnds(c, s) ==
    /\ node' = [node EXCEPT ![retry[c].exec][retry[c].node] = s]
    /\ UNCHANGED <<status, task, plan, checkpoints, announced, patches>>

RetrySucceeds(c) ==
    /\ retry[c].pc = "node"
    /\ RetryEnds(c, "COMPLETED")
    /\ retry' = [retry EXCEPT ![c] = Idle]

\* An executor that raises leaves the node RUNNING through the delay; after
\* the last attempt retry_node marks it FAILED.
RetryErrs(c) ==
    /\ retry[c].pc = "node"
    /\ \/ /\ retry[c].left > 0
          /\ \E s \in {"FAILED", "RUNNING"} : RetryEnds(c, s)
          /\ retry' = [retry EXCEPT ![c].pc = "delay", ![c].left = @ - 1]
       \/ /\ retry[c].left = 0
          /\ RetryEnds(c, "FAILED")
          /\ retry' = [retry EXCEPT ![c] = Idle]

RetryAgain(c) ==
    /\ retry[c].pc = "delay"
    /\ RetryEnds(c, "RUNNING")
    /\ retry' = [retry EXCEPT ![c].pc = "node"]

-----------------------------------------------------------------------------
(* The plan task *)

At(e, pc) == task[e].pc = pc /\ ~task[e].cancel
Goto(e, pc) == task' = [task EXCEPT ![e].pc = pc]

\* Mutant: every task begins with the first node.
NothingExecuted(e) == {}

AlreadyExecuted(e) == {n \in Nodes : node[e][n] = "COMPLETED"}

\* execute begins; on_execution_start may wait for a hook.
Begin(e) ==
    /\ At(e, "new")
    /\ task' = [task EXCEPT ![e].pc = "head", ![e].executed = AlreadyExecuted(e)]
    /\ UNCHANGED <<status, node, plan, checkpoints, retry, announced, patches>>

\* _pick_next_node: the first node of the order that was not executed.
Unexecuted(e) == {i \in DOMAIN plan : plan[i] \notin task[e].executed}

NextNode(e) == IF Unexecuted(e) = {} THEN NoNode ELSE plan[Min(Unexecuted(e))]

RunNode(e, n) ==
    /\ task' = [task EXCEPT ![e].pc = "node", ![e].next = n]
    /\ node' = [node EXCEPT ![e][n] = "RUNNING"]
    /\ UNCHANGED <<status, plan, checkpoints, retry, announced, patches>>

\* The loop ends: no node is left, or the execution is aborted. The first is
\* looked at first, and only the second keeps the status.
Leaves(e) ==
    \/ At(e, "head") /\ (NextNode(e) = NoNode \/ status[e] = "ABORTED")
    \/ At(e, "asleep") /\ status[e] = "ABORTED"

LeaveLoop(e) ==
    /\ Leaves(e)
    /\ status' = [status EXCEPT ![e] =
           IF task[e].pc = "head" /\ NextNode(e) = NoNode THEN "COMPLETED" ELSE @]
    /\ Goto(e, "ending")
    /\ UNCHANGED <<node, plan, checkpoints, retry, announced, patches>>

\* Mutant: the pause is not waited for.
NotAborted(e) == status[e] # "ABORTED"

MayRun(e) == status[e] \notin {"ABORTED", "PAUSED"}

Advance(e) ==
    /\ At(e, "head")
    /\ NextNode(e) # NoNode
    /\ MayRun(e)
    /\ RunNode(e, NextNode(e))

FallAsleep(e) ==
    /\ At(e, "head")
    /\ NextNode(e) # NoNode
    /\ status[e] = "PAUSED"
    /\ task' = [task EXCEPT ![e].pc = "asleep", ![e].next = NextNode(e)]
    /\ UNCHANGED <<status, node, plan, checkpoints, retry, announced, patches>>

\* Mutant: a node deleted during the pause is waited for.
WakeUpWhenInPlan(e) ==
    /\ At(e, "asleep")
    /\ MayRun(e)
    /\ task[e].next \in ToSet(plan)
    /\ RunNode(e, task[e].next)

\* No longer paused: the node picked before the pause is run.
WakeUp(e) ==
    /\ At(e, "asleep")
    /\ MayRun(e)
    /\ RunNode(e, task[e].next)

\* Mutant: the error of a node is recorded and not raised.
NodeReturnsAlways(e) ==
    /\ At(e, "node")
    /\ \E s \in {"COMPLETED", "FAILED"} :
          node' = [node EXCEPT ![e][task[e].next] = s]
    /\ Goto(e, "succeeded")
    /\ UNCHANGED <<status, plan, checkpoints, retry, announced, patches>>

\* The node's executor returns: what is left are events to send.
NodeReturns(e) ==
    /\ At(e, "node")
    /\ \E s \in {"COMPLETED", "FAILED"} :
          /\ node' = [node EXCEPT ![e][task[e].next] = s]
          /\ Goto(e, IF s = "COMPLETED" THEN "succeeded" ELSE "erred")
    /\ UNCHANGED <<status, plan, checkpoints, retry, announced, patches>>

Snapshot(e) == [owner |-> e, trigger |-> task[e].next, node |-> node[e]]

\* The loop counts the node and stores a checkpoint of the execution.
NodeDone(e) ==
    /\ At(e, "succeeded")
    /\ task' = [task EXCEPT ![e].pc = "head",
                            ![e].executed = @ \cup {task[e].next}]
    /\ checkpoints' = [checkpoints EXCEPT ![e] = Append(@, Snapshot(e))]
    /\ UNCHANGED <<status, node, plan, retry, announced, patches>>

\* Mutant: the loop swallows the error it records.
NodeFailsQuietly(e) ==
    /\ At(e, "node") \/ At(e, "erred")
    /\ status' = [status EXCEPT ![e] = "FAILED"]
    /\ Goto(e, "ending")
    /\ UNCHANGED <<node, plan, checkpoints, retry, announced, patches>>

\* The executor raised, which leaves the node RUNNING, or returned an error.
NodeFails(e) ==
    /\ At(e, "node") \/ At(e, "erred")
    /\ status' = [status EXCEPT ![e] = "FAILED"]
    /\ Goto(e, "failing")
    /\ UNCHANGED <<node, plan, checkpoints, retry, announced, patches>>

\* CancelledError inside the loop: it is handled there, so the loop returns
\* like one that ended well.
Interrupted(e) ==
    /\ task[e].cancel
    /\ task[e].pc \in Unwound \ {"new"}
    /\ status' = [status EXCEPT ![e] = "ABORTED"]
    /\ task' = [task EXCEPT ![e].pc = "ending", ![e].cancel = FALSE]
    /\ UNCHANGED <<node, plan, checkpoints, retry, announced, patches>>

\* A task cancelled before its first step never runs; CancelledError in
\* on_execution_end leaves the wrapper without an event.
Dropped(e) ==
    /\ task[e].cancel
    /\ task[e].pc \in {"new", "ending", "failing"}
    /\ task' = [task EXCEPT ![e].pc = "done", ![e].cancel = FALSE]
    /\ UNCHANGED <<status, node, plan, checkpoints, retry, announced, patches>>

\* The wrapper's event, whatever made the loop return.
EndWell(e) ==
    /\ At(e, "ending")
    /\ announced' = [announced EXCEPT ![e] = "COMPLETED"]
    /\ Goto(e, "done")
    /\ UNCHANGED <<status, node, plan, checkpoints, retry, patches>>

EndFailed(e) ==
    /\ At(e, "failing")
    /\ Report(e, "FAILED")
    /\ Goto(e, "done")
    /\ UNCHANGED <<node, plan, checkpoints, retry, patches>>

TaskStep(e) ==
    \/ Begin(e) \/ LeaveLoop(e) \/ Advance(e) \/ FallAsleep(e) \/ WakeUp(e)
    \/ NodeReturns(e) \/ NodeDone(e) \/ NodeFails(e)
    \/ Interrupted(e) \/ Dropped(e) \/ EndWell(e) \/ EndFailed(e)

RetryStep(c) == RetrySucceeds(c) \/ RetryErrs(c) \/ RetryAgain(c)

Command ==
    \/ \E e \in Execs : \/ \E p \in StartPlans : Start(e, p)
                        \/ Pause(e) \/ Resume(e) \/ Abort(e)
    \/ AbortSession
    \/ Patch
    \/ \E e, f \in Execs : \E i \in DOMAIN checkpoints[e] : Restore(e, i, f)
    \/ \E c \in Connections, e \in Execs, n \in Nodes : RetryStart(c, e, n)

Next ==
    \/ Command
    \/ \E e \in Execs : TaskStep(e)
    \/ \E c \in Connections : RetryStep(c)

Spec == Init /\ [][Next]_vars

\* Node executors return (their calls have timeouts), sleeps end and the
\* event loop runs every ready task; nobody has to send a command.
Fairness ==
    /\ \A e \in Execs : WF_vars(TaskStep(e))
    /\ \A c \in Connections : WF_vars(RetryStep(c))

FairSpec == Spec /\ Fairness

-----------------------------------------------------------------------------
(* Properties *)

\* Every variable has its type, in particular no task stands where the code
\* has no await.
TypeOK ==
    /\ status \in [Execs -> Statuses \cup {"none"}]
    /\ node \in [Execs -> [Nodes -> NodeStatuses]]
    /\ task \in [Execs -> [pc : TaskPCs,
                           executed : SUBSET Nodes,
                           next : Nodes \cup {NoNode},
                           cancel : BOOLEAN]]
    /\ plan \in Seq(Nodes) /\ IsInjective(plan)
    /\ checkpoints \in [Execs -> Seq(Checkpoint)]
    /\ retry \in [Connections -> [pc : {"idle", "node", "delay"},
                                  exec : Execs \cup {0},
                                  node : Nodes \cup {NoNode},
                                  left : 0..MaxRetries]]
    /\ announced \in [Execs -> Statuses \cup {"none"}]
    /\ patches \in 0..MaxPatches

\* An execution that says it is running has a task that will do the running,
\* also after a pause, a resume, a restore or a cancelled task
\* (resume_execution starts one only when none is live).
RunningHasTask == \A e \in Execs : status[e] = "RUNNING" => InTask(e)

\* Abort is the last word: neither the loop that finds no node left, nor a
\* node that fails, nor a later command replaces ABORTED
\* (plan_execution_loop sets COMPLETED and FAILED without looking).
AbortIsFinal ==
    [][\A e \in Execs : status[e] = "ABORTED" => status'[e] = "ABORTED"]_vars

\* COMPLETED is set only when every node of the plan as it is then has
\* completed in this execution, whatever was patched, skipped or restored.
CompletedIsWhole ==
    [][\A e \in Execs : status[e] # "COMPLETED" /\ status'[e] = "COMPLETED"
          => \A n \in ToSet(plan) : node[e][n] = "COMPLETED"]_vars

\* A retry of the node is under way, from its first attempt to its last.
Retried(e, n) ==
    \E c \in Connections :
        retry[c].pc # "idle" /\ retry[c].exec = e /\ retry[c].node = n

\* A node that completed is not run a second time in the same execution, by
\* the loop after a resume or a restore, or by a new retry. (A retry in its
\* delay runs the node again although a second connection's retry of it has
\* completed it meanwhile: _retry_node_with_policy does not look again.)
CompletedWorkIsKept ==
    [][\A e \in Execs, n \in Nodes :
          node[e][n] = "COMPLETED" =>
              node'[e][n] = "COMPLETED" \/ Retried(e, n)]_vars

\* The loop begins no node of an execution that is paused or was ended.
PauseHolds ==
    [][\A e \in Execs : task[e].pc # "node" /\ task'[e].pc = "node"
          => status[e] = "RUNNING"]_vars

\* Success is announced of no execution that failed or may still run: the
\* wrapper sends COMPLETED whenever the loop returns, and only an abort makes
\* it return without completing. (The FAILED event itself can be lost: a
\* restore that cancels the task in on_execution_end leaves it unsent.)
NoFalseSuccess ==
    \A e \in Execs : announced[e] = "COMPLETED"
                         => status[e] \in {"COMPLETED", "ABORTED"}

\* An execution does not stay running for ever: it ends, or somebody pauses it.
RunEnds == \A e \in Execs : status[e] = "RUNNING" ~> status[e] # "RUNNING"

=============================================================================
