# HouYiAgent in TLA+

Formal models of the stateful core of HouYiAgent: TLA+ modules translated from
the Python source, TLC runs that check them on small instances, and theorems
that the TLAPS proof system checks for instances of every size. All paths are
relative to `src/`. `PROJECT.json` holds the machine-readable side of what
follows: components, runs, the source lines of every definition, hazards,
findings, theorems, and for each checked property a *mutant*, an alternative
definition with a plausible bug that the property catches.

## 1. The system

HouYiAgent is an agent framework (`houyi/`) with a server and web client that
run and display agents (`houyi-studio/`). Everything lives in one process:
asyncio coroutines on one event loop, plus threads (`asyncio.to_thread`) for
SQLite. There is no network protocol between replicas; what is hard is the
interleaving of coroutines and threads over shared dictionaries and tables,
crashes between two commits, and cancellation.

| Component | State | Operations | Hard behaviour | What must hold |
|---|---|---|---|---|
| Turn intake: `houyi/adapters/memory/turn_writer.py`, `triggers.py`, `backends/sqlite_raw_turn_log.py` | `raw_turn_log` rows, `turn_index` | `fast_path`, `schedule_extract`, `append_raw_turn_and_enqueue` | two tables in one commit; a check outside the lock; `MAX + 1` index | a logged turn is queued at most once; indices are unique |
| Extract queue and worker: `backends/sqlite_extract_queue.py`, `workers/extractor_worker.py` | `extract_queue` rows: `state`, `attempts`, `claimed_at`; a worker's batch | enqueue, `claim_extract_jobs`, `mark_extract_done`, `mark_extract_failed` | leases, several workers, crashes, slow LLM calls | no turn dropped, none parked early, one holder per lease, final is final |
| Fact projection: `extractor_worker.py:548`, `backends/sqlite_entity_state.py`, `fact_promoter.py`, `backends/sqlite_candidate_inbox.py` | `entity_state`, `memories`, `events`, `vague_candidates` | `_sync_project_result`, `upsert`, `promote`, `add` | commits in the middle of a transaction, the same turn twice, threads in between | what returned is stored; what is recalled has a state row |
| Entity-state upkeep: `dreamer_consolidate.py`, `sqlite_entity_state.py` | the same tables | `consolidate`, `supersede`, `invalidate` | three separate reads before one write | no value lost but one that comes between the reads, the stores agree, duplicates merged |
| Memory engine: `engine.py`, `factory.py`, `workers/` | worker tasks and their stop signals | `write_turn`, `start`, `stop`, `flush` | stop cancels after five seconds while threads go on; flush reads two backlogs one after the other | flush returns only when its turns are through |
| Embedding backfill: `workers/embedding_backfill.py` | `embedding`, `embedding_pending` columns; the batch it has listed | `list_pending_embeddings`, `embed`, `mark_embedding_filled` | outages, a locked database, expired rows, a record replaced while its text is embedded | every row gets its embedding |
| Plan execution lifecycle: `houyi/application/workflow/execution_lifecycle_service.py`, `plan_execution_loop.py`, `houyi-studio/server/houyi_studio/server/execution/` | `ExecutionStore`, `execution_tasks`, `PlanStore`, node statuses | start, pause, resume, abort, retry a node, patch the plan | commands against a running task, cancellation, polling | running has a task; aborted stays; paused runs nothing; completed is whole |
| Checkpoint and restore: `houyi/infrastructure/checkpoint/service.py` | `CheckpointStore` lists | create, restore as a fork | restore cancels a task that may be at any await | snapshots grow; completed work is kept |
| Agent teams and orchestration: `houyi/application/runtime/agent_team.py`, `orchestrator.py`, `runner.py` | handles and tasks of agents | spawn, join, timed join, terminate; delegate, autonomous, sequential, parallel | gather and cancellation, shielded joins | nothing left running, status tells the result, rounds do not overlap |
| Agent message bus: `houyi/application/runtime/message_bus.py` | agent queues, topic subscriptions | send, receive, publish, subscribe, broadcast | lazy subscription, re-subscription, unregistering | a subscriber gets every later message |
| Tool calling: `houyi/application/tool_calling/` | the list of messages, the calls of a round, consent cache, tool cache, outputs by name | run rounds of an LLM call and its tool calls; build a prompt under a budget | calls in parallel behind policy, consent and hooks; a list that an earlier run or a compaction has cut | no call without consent; a prompt shows complete tool rounds, the last one as long as it fits, and all the system says |
| Workflow and planning: `houyi/application/workflow/` | node results | build and execute a DAG | parallel branches, partial failure | a node runs after its inputs |
| Deep research: `houyi/application/research/`, `houyi-studio/server/houyi_studio/server/research/` | the listed runs, a runtime object and a coordinator's list per run, `research_tasks`, one JSON file per run | create, edit the plan, start, cancel, delete; search, report, checkpoint | requests at every await of an attempt, attempts side by side, timeouts, crashes | a cancelled run reports nothing, a complete one is whole, what was found is not searched again, what is at rest is on disk |
| Skills: `houyi/domain/skill/`, `houyi/skills/` | registries, hooks | load, register, wrap | none of its own: consent and hooks act in tool calling | |
| Studio chat: `houyi-studio/server/houyi_studio/server/chat/` | a JSON file per conversation with its messages, one streaming slot, compaction records and pins; backups | send, regenerate, edit, delete, pin, compact, restore | turns and compactions side by side, a client that leaves, failed writes, crashes | no message lost, turns in order, a slot that is cleared, tool rounds kept together, deleted stays deleted |
| Studio gateway: `houyi-studio/server/houyi_studio/server/gateway/` | a list of connections and a buffer of spans per session | connect, send to all, restore, disconnect, grace period | sends side by side over a list that changes, clients that come back while others' grace periods run | who is there has the timeline; nothing runs on unattended |
| Recall, fact extraction, RAG, context assembly, LLM/embedding/MCP adapters, observability, configuration, web client | little or none | text and scores in, text and scores out | external services | not about state |

How they interact. A conversation turn is logged and queued in one commit
(turn intake); extractor workers claim queue rows under a lease, ask an LLM for
facts and project them into the stores (a thread per projection); the dreamer's
consolidation repairs the stores in the background; recall reads them. On the
other side, Studio's gateway receives commands on WebSocket connections and
calls the execution services, which run the plan's nodes in one asyncio task
per execution, take a checkpoint after each node, and send events back. A chat
turn appends its question to the conversation's file, runs a tool loop, streams
the answer and appends it; compactions read and rewrite the same file. A
research run is listed and saved by the server's research service and executed
by a runtime object of the library. A node of a plan and `Agent.delegate` use
the agent teams.

## 2. The modules

| Module | Models | Kind |
|---|---|---|
| `ExtractQueue` | extract queue and worker | detailed |
| `JobBoard` | what the queue promises | abstract; refined by `ExtractQueue`, used by `MemoryEngine` |
| `ExtractQueueProofs` | theorems about `ExtractQueue` | TLAPS |
| `FactProjection` | fact projection and upkeep | detailed |
| `FactProjectionProofs` | theorems about `FactProjection` | TLAPS |
| `MemoryEngine` | the write pipeline as a whole: intake, `JobBoard`, backfill, `start`, `stop`, `flush` | composition |
| `MemoryEngineProofs` | theorems about `MemoryEngine` | TLAPS |
| `ExecutionLifecycle` | executions, commands, checkpoints | detailed |
| `ExecutionLifecycleProofs` | theorems about `ExecutionLifecycle` | TLAPS |
| `AgentTeam` | agent teams and orchestrations | detailed |
| `AgentTeamProofs` | theorems about `AgentTeam` | TLAPS |
| `Conversation` | one Studio conversation | detailed |
| `ToolMessages` | the prompt built from a list of messages | operators |
| `ToolLoop` | one run of the tool loop; extends `ToolMessages` | detailed |
| `ToolLoopProofs` | theorems about `ToolLoop` | TLAPS |
| `ResearchRuns` | deep research runs | detailed |
| `ResearchRunsProofs` | theorems about `ResearchRuns` | TLAPS |
| `SessionGateway` | the connections of a Studio session | detailed |
| `GatewayAndChatProofs` | theorems about `SessionGateway` and `Conversation` | TLAPS |
| `MCExtractQueue`, `MCFactProjection`, `MCMemoryEngine`, `MCExecutionLifecycle`, `MCConversation`, `MCToolLoop`, `MCResearchRuns`, `MCSessionGateway` | small instances | for TLC |

### ExtractQueue

A queue row is identified with its turn (the table is `UNIQUE(turn_id)`).
`state` and `attempts` are its columns, `enqueuedAt` the rank of `enqueued_at`,
`leaseOver` the comparison `claimed_at < now - lease_seconds`. The clock is no
variable: `LeaseExpires(t)` is the moment the comparison becomes true. A
worker's locals are `pc`, `todo` (claimed and not yet projected), `doneIds`
and `failedItems`; `writeLock` is the `asyncio.Lock` the workers may share.

| Action | Code |
|---|---|
| `WriteTurn`, `LogTurn`, `ScheduleExtract` | `append_raw_turn_and_enqueue`, `append_raw_turn`, `schedule_extract` |
| `Claim` | `claim_extract_jobs`, with the rows whose turn is gone failed on the spot |
| `ExtractDone`, `ExtractFails` | the LLM call of `process_once`, batch or single |
| `ProjectOk`, `ProjectFails` | `_project_result` of one job (its inside is `FactProjection`) |
| `MarkDone`, `MarkFailed` | the two markings, by `queue_id` whatever the row says by then |
| `Abandon` | a crash, a cancellation, or an exception `run_forever` absorbs |
| `LeaseExpires`, `LoseTurn` | time; an outside deletion of a turn |

`JobBoard` says it without queue, batch or lease: a job has one holder, only
a result its holder delivered finishes it, a finished job never comes back.
`ImplementsJobBoard` is the refinement (`INSTANCE JobBoard WITH holder <- ...`).
It holds when leases outlast extractions.

### FactProjection

What `ProjectOk` and `ProjectFails` do inside. `db` is what is committed,
`draft` what the connection that holds SQLite's write lock sees; `Keep` is a
write that stays in the open transaction, `Commit` one followed by a commit.
Each thread goes through the items of its turn; the commits on the way
(`upsert` leaves `with conn`, the inbox calls `conn.commit()`) give the lock up
in the middle and let other threads in. `Fail` is a statement that raises at
any point, or a crash. The consolidator finds conflicted triples (`Scan`), reads
their active rows (`ReadActive`), selects the rows to close (`ReadVictims`) and
closes them (`CloseVictims`): three reads and a write with other threads in
between. `Invalidate` retracts. Nothing keeps these steps apart: a pass, a
retraction and the projections interleave at every write. `owed` and `strays`
are history: the values a pass may not lose, and the facts whose two stores were
written apart (the promotion was swallowed, the row was closed before the
promotion, or a retraction closed the rows and left the memories). All facts are about one entity and attribute:
`entity_state` is keyed by it, so others do not interact.

### MemoryEngine

The composition: `JobBoard` is instantiated with the turns as jobs and the
starts of the engine as workers, since every `start` makes new tasks. So the
composition uses what `ExtractQueue` is shown to implement, and inherits its
assumption that leases outlast extractions. A turn stands for the row its fact
is promoted to (the key of a row hashes the turn's anchor), a note for a record
with a ttl that is stored past the queue. `createdAt`, `pending`, `embedded` and
`expired` are the `memories` table; `batch` is what a backfill task has listed;
`due` and `swallowed` are history.

| Action | Code |
|---|---|
| `WriteTurn`, `StoreNote`, `Expire` | `write_turn`, `approve_candidate`, the clock |
| `Claim`, `Project`, `ProjectPartly`, `MarkDone`, `MarkFailed`, `Abandon`, `LeaseExpires` | the extractor task, in the steps of the board, with the row that a projection leaves |
| `List`, `Embedded`, `EmbedFails`, `Fill`, `FillFails` | one round of the backfill task |
| `Start`, `Stop`, `Leave`, `Stopped` | `start`; `stop` to its wait, the tasks that see their signal, and the end of the wait: a task cancelled in it may leave a thread that completes one last statement (`"cut"`) |
| `Call`, `ReadExtract`, `ReadEmbedding`, `ReadFails` | `flush` and its two counts |

### ExecutionLifecycle

One event loop runs everything, so an action is the code between two awaits
that may suspend: a command and the event it sends are one action, a node's run
is two. `status`, `node`, `task`, `plan`, `checkpoints` are `ExecutionStore`,
the node executions, `execution_tasks`, `PlanStore` and `CheckpointStore`;
`announced` is the last status *sent* for an execution (its
delivery is `SessionGateway`); `retry` is what a connection is busy with, since a connection
handles one command at a time and `retry_node` runs the node in the handler.
A session's executions share its plan, which is here the order that
`get_execution_order` computes: an added node can land anywhere in it.

| Action | Code |
|---|---|
| `Start`, `Pause`, `Resume`, `Abort` | the four operations of `ExecutionLifecycleService` |
| `AbortSession` | the gateway, when the last connection stays away |
| `Patch` | `_apply_plan_patches` |
| `Restore` | `restore_checkpoint`: a fork; the *owner of the snapshot* is cancelled |
| `RetryStart` ... `RetryAgain` | `retry_node` with its policy |
| `Begin`, `LeaveLoop`, `Advance`, `FallAsleep`, `WakeUp`, `NodeReturns`, `NodeDone`, `NodeFails` | `PlanExecutionLoop.execute` |
| `Interrupted`, `Dropped` | `CancelledError` inside the loop, and outside of it |
| `EndWell`, `EndFailed` | the Studio wrapper around the loop |

`task.cancel()` is a flag the task meets at its next step: before its first step
it is dropped without having run, inside the loop it is handled there.

### AgentTeam

One orchestration, or one direct user of `AgentTeamManager`. Orchestrations
share nothing but dictionaries keyed by handle, so one is enough. `agent` is the
asyncio task of each spawned agent, `join` the joins of `join_all`, `watch` a
join with a timeout, `cancel` the agents a cancellation is on its way to.
`Spawn` creates the task before the event is emitted (`SpawnReturns`), so the
agent runs while its spawner waits. `GatherRaises` is `asyncio.gather` without
`return_exceptions`: the first `CancelledError` raises, the other joins go on.
`CancelRun` is a cancellation of the orchestration at any of its awaits: while
it joins, each waiting join passes it on to its agent; anywhere else the agents
run on. A timed join shields its agent; when it expires the handle says FAILED
while the agent runs (`TimedJoinExpires`).

### Conversation

One conversation: conversations share nothing. `file` is the JSON file (its
messages, the one streaming slot, the context units in use, the compaction
records and the pins), `backups` its copies, `turn` the calls of `send_message`
and `regenerate_message`, `comp` the compactions, of a turn, after it, or asked
for. No section under the conversation lock suspends, so the lock is no
variable. A message is known by its turn and its kind (`User`, `Carrier` of tool
calls, `Result`, `Answer`) and weighs one unit of context. `written`, `gone` and
`stale` are history: what was ever stored, what somebody took away, and whether
the slot came from a backup or from before a crash. A deletion takes the message
and the tool messages around it (`DeletedFrom` is the first it takes). The
specification is called `ChatSpec`, its parts `ChatInit` and `ChatNext`, since
one module of proofs extends this module and `SessionGateway`.

| Action | Code |
|---|---|
| `Send` | `send_message` to the end of `prepare`, or into the compaction it waits for |
| `Regenerate`, `Resend` | `regenerate_message`: cut and pop, then `send_message` again |
| `ToolLoopEnds`, `AnswersAtOnce`, `StreamEnds`, `Persist`, `Close` | the tool loop, its failure or an answer from memory, the stream, what is appended after it, the `finally` |
| `Abandon` | the client leaves or a write fails: the generator ends at an await |
| `PostTurnCompaction`, `CompactConversation`, `CompactionCommits`, `CompactionFails` | a compaction from its gate and backup to its commit, or back to the backup |
| `ClientRewrites`, `Pin` | edit, delete with the tool round, restore of a backup or a record, deletion of the conversation |
| `Crash` | every task is lost, the files stay |

### ToolMessages and ToolLoop

`ToolMessages` is `prepare_tool_loop_messages` as a function: `Sanitized`
repairs the structure of tool rounds, `CountCapped` and `TotalCapped` drop
groups of messages until number and size fit. A message is its role, the ids of
its calls, the id it answers, its size and the score of its form
(`MessageRecords`). Each loop of the code is a function on `0..Len(list)` whose
value at n is what the loop has made of the first n entries: `HeldUpTo` (the
carrier held back and its results so far), `GroupsUpTo`, `TakenUpTo` (the groups
kept and what they use of the budget), `JoinedUpTo` and `SumUpTo`. `WellPaired`
says what a provider asks of a prompt.

`ToolLoop` is one run of `ToolCallRunner`: `messages` is the caller's list,
`calls` the calls of the round, `stage` where each stands, `cache`, `outputs`
and `consent` the dictionaries they share. `config` has the switches: parallel
calls, the fast path with its placeholders, hooks that replace a tool.
`grants` is history: what the user has consented to, tool by tool. A tool comes
back with a value, with nothing (a success whose result is None) or with an
error. `Resolved` puts the named output in the place of a placeholder; when that
output is None, the call runs with the placeholder as it stands, as it does when
there is no such output.

| Action | Code |
|---|---|
| `AskForTools`, `AnswerDirectly`, `CloseRound` | `execute_rounds`: the answer of the LLM, and the results appended in the order of the calls |
| `Begin`, `Consents`, `Refuses` | a call gets its turn, has its placeholder resolved and its policy checked |
| `Hit`, `Miss`, `Return`, `Finish` | the cache, the tool, the hooks after the call |
| `Raise`, `Break` | a hook, the consent handler or the LLM raises, or the run is cancelled |

### ResearchRuns

`listed` says where a run is (not yet made, live, archived on disk, gone);
`runtime`, `plans` and `search` are its `ResearchRuntime`, the plan objects it
has had, and its coordinator's list and checkpoint; `file` is what is saved.
Every start makes an attempt, a task that keeps the runtime object of its run
even when the run is deleted; `task` is the entry of `research_tasks`, which
names the last attempt only. A plan object has its questions and whether
`validate_research_plan` accepts them (`sound`). `known`, `alone`, `capped` and `doomed` in an
attempt are history, for the properties.

| Action | Code |
|---|---|
| `Create`, `PlanReady`, `PlanFails` | `create_run` to the await of the planner, and from there |
| `Edit`, `EditRefused` | `edit_plan`; refused without a plan or with another version of it, but the run becomes live |
| `Start` | `start_run` of the API: the run becomes live, with a task for `launch_run` |
| `Cancel`, `CancelTask` | `cancel_run` to its emit; the save and `task.cancel()` after it |
| `Delete` | `delete_run` |
| `Begin`, `Unconfirmed`, `Refuse`, `Execute` | `launch_run`, `confirm_plan` with its emit, `execute` to the search |
| `Reuse`, `EndQuestion`, `Gather`, `Cap`, `EndSearch` | the search phase: questions found before, those searched, the cap of the phase, its return |
| `BeginReport`, `EndReport`, `Complete` | the report |
| `Stop`, `Fail`, `Close` | a cancellation, an error or a timeout at any await; the `finally` of `launch_run` with its save |
| `Crash` | the server dies; `_load_persisted_runs` lists what is on disk |

### SessionGateway

One session: sessions share nothing. Connections are numbered as they join, so
`members`, a set, is the list `active_connections` in order; the list is deleted
when it is left empty and made anew, and a `send_event` that iterates over a
deleted one is `cut` off. `send` has every running `send_event`, of an emitted
span or of a restore: the connection it waits for, its index, the connections
that failed. `place` is where each connection's coroutine stands, `rest` the
spans its restore has yet to send, `buffer` the ring of spans, `running` the
executions that are RUNNING (their life is `ExecutionLifecycle`, whose
`AbortSession` is here `GraceEnds`). `owed`, `jolted` and `orphaned` are history.
A send to a client the server knows to be gone fails; until then it counts as
received. Events that are not spans only find dead connections, which the sends
of a restore do as well. A send may suspend; aborting suspends nowhere, since with
nobody connected its events are dropped.

| Action | Code |
|---|---|
| `Connect`, `SendInfo`, `Bail` | `connect`; the restore to and after `server_info`, and the return when that raises |
| `Emit`, `Sent` | `ObservationService.emit`; one step of `send_event`'s loop, with the sweep at its end, the buffering after an emission, the next step of a restore |
| `Drop`, `Notice`, `GraceEnds` | a client goes away; the end of the command loop; the end of the grace period |
| `Run`, `StorePlan`, `EndExec` | commands that set an execution RUNNING or store a plan; executions that pause or end |

## 3. The runs

| Run | Module | Instance | Shows |
|---|---|---|---|
| `eq_leased` | `MCExtractQueue` | 3 turns, 2 workers, batches of 2, 2 attempts, write lock, leases outlast extractions, 1 crash | one holder per job; the refinement of `JobBoard`, and with it that a finished job never comes back |
| `eq_overrun` | `MCExtractQueue` | 2 turns in 2 namespaces, 2 workers (one pinned), single path, no lock, leases expire under running extractions (2 per job), turns vanish, 1 crash | done was projected, attempts within budget, every job settles |
| `fp_run` | `MCFactProjection` | 2 threads, a turn of 4 items (a vague one, facts of two values, an event) and one of a fact that repeats a value, the latter twice; consolidation passes and 1 retraction at any point | what a success and a memories row stand for, which values are kept, where the stores agree, duplicates merge |
| `memory_run` | `MCMemoryEngine` | 1 turn, 1 note with a ttl, 2 starts, batches of 2, 1 flush | what flush tells is true; every row gets its embedding |
| `exec_run` | `MCExecutionLifecycle` | 2 executions, 2 nodes, 1 connection, 2 start plans, 1 retry, 1 edit of the plan | the safety and liveness of the lifecycle |
| `team_run` | `AgentTeam` | every mode, 3 agents or stages, 3 rounds, 2 concurrent spawns, fallbacks skip and abort, 2 terminations, 2 timed joins, 1 cancellation | what the end of a run and a handle's status stand for; every run ends |
| `conv_turns` | `MCConversation` | a conversation with one turn behind it; 3 events among 2 turns, 1 requested compaction, rewrites, failed commits and crashes; windows of 2 | no message lost, turns in order, slots cleared, tool rounds kept, deleted stays deleted, it comes to rest |
| `conv_doc_regen` | `MCConversation` | 2 turns | *violation*: a regenerated question stands there twice |
| `tool_run` | `MCToolLoop` | 2 rounds of up to 2 calls, every mode, 3 tools (allowed, with consent, denied), fresh and cut lists, results of 2 sizes, None among them | prompts are paired, answers are shown, consent is honoured, chained calls get their input |
| `research_run` | `MCResearchRuns` | 1 run, a plan of 1 question and 1 that an edit may add, edits that make a plan invalid, 2 attempts, 2 cancellations, edits, deletions or crashes | cancellation honoured, complete is whole, nothing searched twice, never blocked, what is quiet is saved or as it was loaded |
| `research_doc_salvage` | `MCResearchRuns` | 1 attempt, no other event | *violation*: the cap salvages an empty list |
| `gateway_run` | `MCSessionGateway` | 3 connections, 2 of which go away, 2 spans, 1 execution, a buffer of 2 | nothing runs on unattended; who is there has the timeline |

Why the bounds are enough. Queue: two workers are what a lease is about, three
turns make a batch of two leave one over, two attempts separate "retry" from
"park", two expiries let a job be taken over and taken over again; nothing in
the code counts beyond that. Projection: conflicts are between two threads, or
between one and the consolidator; the replayed turn
repeats a value of the other one and its own, and the other value comes before,
between or after the reads of a pass. Open sets, which are never duplicates, are
left to the theorems. Engine: what interferes
is a row with the next one in a batch, a turn and a note, and tasks of one start
with threads left over from the one before; a turn may fail and be taken again
without end. With two turns and one start the inductive invariant of the proofs
holds as well. Executions:
a fork needs a second execution, an order needs two nodes, and one edit lets a
node disappear or appear at each await. With a second connection and no edit all
properties hold as well, and with one edit the safety properties do; both together
with liveness take longer than the run should. The theorems are for any number of
connections. Team: three agents let one end, one
fail and one be cancelled; three rounds let an autonomous run converge after
two or go on; two concurrent spawns of three make the semaphore wait.
Conversation: what interferes is a turn with a compaction, two turns with each
other, or one of them with a client's rewrite or a crash; three events allow
each of these pairs with one more thing happening to it. A window of two
messages lets a cut fall inside a tool round of two. Tool loop: a second round
sees the first one's results, cache, consents and outputs; two calls of one
tool wait for one consent at once; the limits 6, 3 and 9 (`MaxMessages` for 48,
`ContextGroups` for 8, `MaxTotal` for the budget in characters) are small enough
for each of the three caps to drop something from the cut lists, and in the last of these
the count drops a whole round between a question and an answer. Research: two
attempts of a run overlap or follow each other; two events make every pair of a
cancellation, an edit, a deletion and a crash at every await of an attempt; a
second question may be found while the first is not. Runs share nothing but the
limit on their number, which one run does not reach, and the keys, which decide
nothing as long as there is one run. Gateway: a removal in the
middle of an iteration needs one connection before and one after the place of a
send, and the third meets the grace periods of two that have left. With two spans a
restore is at the first when something happens to the second; with a buffer of 1,
where the ring drops one, both properties hold as well.
Fallback `reassign` and `degrade` take the same branch as `skip` up to the
list of outputs, which is not modelled.

Bounds are constants named `Max...`: `MaxAbandons` (crashes), `MaxLapses`
(expiries of one job), `MaxProjections`, `MaxRetractions`, `MaxPatches`,
`MaxStarts`, `MaxStores`, `MaxTerminations`, `MaxTimedJoins`, `MaxTurns`, `MaxManual`, `MaxEvents`, `MaxDrops` (clients that go away), and in
`ResearchRuns` `MaxAttempts`. `MaxRetries`, `MaxRounds`, `MaxParallel`,
`MaxMessages`, `MaxTotal`, `MaxConcurrent` and the queue's `MaxAttempts` are the
code's own parameters, as are `RecentWindow`, `Capacity`, `Pressure` and `MaxBuffer`. `CHECK_DEADLOCK FALSE` is in
every configuration because the systems may stop: a queue without work, an
execution that has ended, a run that has returned.

### Fairness

* Queue: `run_forever` loops on every worker; an LLM call returns or raises
  (its HTTP client has a timeout); `asyncio.Lock` serves waiters in order; time
  passes. Crashes are bounded: with endless crashes nothing settles.
* Projection: a thread that has begun returns or raises; the dreamer keeps
  running passes.
* Engine: `run_forever` of the backfill loops, so a poll comes whenever one is due
  (weak fairness of `List`); an outage of the provider and a locked database are
  transient, so of infinitely many calls and of infinitely many write-backs of a
  row one succeeds (strong fairness of `Embedded`, and of `Fill` row by row). Weak
  fairness would not do: each failure disables the step until the next round. The
  extractor needs none for the property. Nobody has to start, stop or flush;
  `EveryRowFilled` is about an engine that stays up, and as long as fewer rows
  have expired than a batch holds, for the code starves otherwise (see below).
* Executions: node executors return, sleeps end, the loop runs every ready
  task. No command is ever fair: nobody has to resume a paused execution, so
  `RunEnds` says only that an execution does not stay RUNNING.
* Teams: an agent's turns are bounded by `max_turns` and its calls are taken to
  return; the agent's code is taken not to swallow `CancelledError`. Nobody has
  to start, cancel or join.

* Conversation: the event loop runs what is ready, a model answers or its call
  fails, a stream ends. No client ever has to act, no write has to fail.
* Tool loop, research and gateway: only safety is checked, and no fairness is assumed.

### What the violations mean

Each is a disagreement between a sentence in the repository and what the code
does; the sentence and both lines are in `PROJECT.json`.

* `NoQuestionTwice` (`conv_doc_regen`): a regeneration pops the question when it
  is the last message left. Behind a tool round it is not, and `send_message`
  appends it again.
* `SalvageKeepsFinished` (`research_doc_salvage`): the cap of the search phase
  goes on with "results for sub-questions that finished before the deadline".
  The strategies append results only after `gather` has returned, and the cap
  cancels `gather`.

### Other disagreements

Met on the way, and not made into runs.

Memory:
* `engine.py:987` counts on done and failed being final. `lease_seconds` is 60 by
  default and an LLM call may take longer, so a second worker can take a job over
  and finish it; the first one's failure then makes it pending again, because
  the markings go by `queue_id` alone (`sqlite_extract_queue.py:215`). `FinalIsFinal`
  fails on the instance of `eq_overrun`; `eq_leased` and the theorem `SettledStaysSettled` assume leases
  that outlast extractions.
* `supersede` selects its victims anew after the check that their values are
  equal (`sqlite_entity_state.py:243-250`), and closes a different value committed in
  between, although "Distinct values are kept as a multi-valued set"
  (`dreamer_consolidate.py:95-96`). `ValueKept` is therefore about the values that
  do not come in that gap. Its UPDATE has no `valid_to IS NULL` guard of its own
  (line 253, the comment at 230).
* That "the entity_state view and the memories store never disagree"
  (`sqlite_entity_state.py:237`) has exceptions in both directions. A turn
  projected twice has two state rows that share one memories row, and closing one
  of them closes it, while the other row is active. A promotion that comes after
  its row was closed leaves an active memories row without one. `StoresAgree` is
  about the facts that neither happens to.
* `invalidate` looks for memories under `scope = namespace`
  (`sqlite_entity_state.py:177`), the promoter files them under the scope "user":
  a retracted fact stays recalled.
* A turn replayed after its fact was retracted appends an active row again
  (`extractor_worker.py:559`).

* The "atomic transaction" of a projection (`extractor_worker.py:547`) is committed
  in pieces by the calls it makes: `upsert` leaves `with conn`
  (`sqlite_entity_state.py:92`) and `CandidateInbox.add` commits
  (`sqlite_candidate_inbox.py:53`), so a failing later item leaves the first ones.
* `flush` says that it polls until its own "snapshots are fully drained"
  (`engine.py:842-844`). It waits until there is no backlog at all (line 864), so
  with steady writes it may time out, and the counts it returns are the sizes of
  the first readings. A count that raises reads as zero (lines 992, 1007), and
  flush returns on it.
* `list_pending_embeddings` drops expired rows after the LIMIT
  (`sqlite.py:435-443`). One expired row at the head makes flush, which asks for
  one row (`engine.py:1008`), see no backlog; a batch of them, still flagged for
  ever, starves the backfill. `FlushTellsTruth` and `EveryRowFilled` set these cases apart.
* The idle sleep of the backfill's `run_forever` is indented under its `except`
  (`embedding_backfill.py:144`), so an empty poll is followed by the next at once,
  while its docstring says it "Sleeps for idle_sleep_s after an empty poll".
* `mark_embedding_filled` writes by rowid, so a row replaced between listing and
  write-back keeps the vector of its old text, unflagged. `MemoryStore.put` keeps
  the embedding when it updates the content (`store.py:84-101`).
* An upsert leaves `created_at` (`sqlite.py:141-157`): a record with a ttl that is
  stored again after it has expired is expired at once.
* `append_raw_turn_and_enqueue` has no rollback
  (`sqlite_extract_queue.py:113-130`): a turn_id written twice raises with the
  transaction open, and that thread's connection keeps SQLite's write lock.
* A `start` during the wait of `stop` finds tasks and returns, and the engine ends up
  stopped.

Executions and teams:
* The loop handles the cancellation of an abort and returns,
  and its wrapper announces COMPLETED of an aborted execution (Studio's
  `plan_execution_loop.py:63`); the event is declared for "when overall execution
  status changes" with the "New execution status" (`gateway/events.py:169`, 173).
* The loop picks a node (`plan_execution_loop.py:92`), waits out the pause, and
  runs that node whatever has become of the plan; Studio's `lifecycle_service.py:99` says
  "Resume a paused execution using the latest plan."
* A FAILED node status during the delay between two attempts lets a second
  connection begin a retry of it. When that one completes the node, the first
  wakes up (`engine.py:369-370`) and runs the completed node again.
  `CompletedWorkIsKept` allows this to a retry under way; with one connection it
  cannot happen (`WorkIsKeptAlone`).
* `spawn_parallel` "respecting *max_concurrent*" (`agent_team.py:172`) bounds the
  spawning and not the agents, since the semaphore is released when the event is
  out; `_apply_error_policy` "retry or fallback" (`orchestrator.py:308`) never
  retries.
* `MessageBus.subscribe` registers when its generator is first advanced
  (`message_bus.py:132`): what is published before that is missed.

Tool calling:
* Outputs of a parallel batch are not recorded (`orchestrator.py:189-200`), so a
  later call cannot name them, in spite of `placeholder_resolver.py:3-4`.
* `should_block` of a PreToolUse hook is never read. Consent is asked for the tool
  requested, while a hook may replace it afterwards.
* `revoke_consent` does not clear the runner's `_consent_cache`
  (`preparation_policy_service.py:49`).
* The budget keeps the second-last group even when it alone is too large
  (`budget.py:317`), and the newest round is dropped for it. Such a group may be one that never was: when the
  count of messages drops a long round between a question and an assistant's text
  (`budget.py:385-394`), the two are adjacent afterwards and are grouped as a
  question with its answer (`budget.py:430-438`). `AnswersShown` is therefore about
  a round that fits beside the group before it in the list the count leaves. Two parallel calls of one tool with the same arguments both
  miss the cache, which is read before the await
  (`runner_execution_service.py:252`).

Deep research:
* A request that is refused may have loaded the run before it is: an edit of a run
  on disk with another version of the plan (`service.py:374-384`), or a start whose
  plan `validate_research_plan` does not accept (`planner.py:1182-1194`; an edit may
  have reworded a question to nothing). Nothing is saved then, and the run shows
  as ready and without its report, while the file keeps status and report, until the
  next request saves the run, and with it the loss, or the server starts anew.
  `QuietIsSaved` allows for just that runtime.
* A late save (by a cancellation, or by an attempt that ends) after a restart of
  the run, and a crash, leave an archived run that is EXECUTING on disk; start
  and delete refuse it ("Delete a terminal or archived run.", `service.py:490`)
  until it is cancelled.
* Delete accepts a run that is planning, ready or generating, although
  `RunNotTerminalError` is for "a non-terminal run"; its attempt then writes the
  file again when it ends.
* An edit or a cancellation of an archived completed run drops its report from the
  file.
* `_cancelled` is never taken back: a run once cancelled can be started again and
  searches in vain.
* A cancellation or a timeout in the middle of a retry's search loses the results
  the checkpoint had.
* An edit during the emit of `confirm_plan` is overwritten (`engine.py:249`). An
  edit that rewords a question keeps its id, so a retry reuses the old result.
* `MAX_CONCURRENT_RUNS` and the check for one execution are made before the await
  after which the status changes.
* The event id of the SSE stream is fresh in every envelope, so a client that
  reconnects with the last one gets no replay, which `sse.py:84` promises.

Gateway:
* `send_event`, "to all connections in a session", iterates over the live list
  (`websocket.py:111`). When a connection is removed meanwhile at or before the
  index it has reached, it skips one that is there; when the list is left empty and
  made anew, it does not reach the new one. A span skipped that way is in the
  buffer, but a client past its restore does not read that.
* "On disconnect, server waits 15s for reconnect before aborting executions"
  (`app.py:762`). A reconnection does not cancel the wait: when the client leaves
  again, the end of the older wait aborts what the newer one would still give time.
  A client that leaves during its restore is only disconnected (`app.py:812-816`),
  so an execution it leaves behind goes on.
* The end of a grace period clears the buffer also when a client has come back
  (`app.py:898`); its next reconnection finds the earlier timeline gone. A span
  emitted after the last clear makes a buffer that stays.
* A replay goes to every connection of the session, so the others get the spans
  again. A message that is not JSON counts as "connection closed"
  (`websocket.py:138`, 151-153).
* "Server tracks last pong; closes if 90s exceeded": pongs are read by the loop that
  handles commands (`app.py:849-856`), so a command that takes longer, such as the
  retry of a node, closes the connection of a client that answers.

## 4. The proofs

TLC checks the instances above; the theorems hold for any sets of turns,
workers, executions, nodes, plans, agents, rounds, tools, runs, questions and connections, under the named
assumptions on the constants that each module states (`ConfigAssumption`, `ProjectionAssumption`,
`EngineAssumption`, `ExecutionAssumption`, `TeamAssumption`, `LoopAssumption` with `BudgetAssumption`,
`ResearchAssumption`, `ConversationAssumption`, `GatewayAssumption`). Most of these only
say what kind of value a constant has. `ConversationAssumption` also takes the
histories a conversation may begin with to be in order and of turns that are
over; `GatewayAssumption` tells spans from connections.
A theorem that needs more says so in an `ASSUME` of its own, named below. Each
module's inductive invariant is layered: types first, then what the types rest on.
Every invariant and every action property of a run is a theorem.

**ExtractQueueProofs.**
`TypeInv` is `TypeOK` with `Shape` (where a worker stands tells which of its
lists may be filled; without it, `OldestOf` of an empty list has no type).
`Books` is the accounting: what is in `doneIds` has been projected, done rows
have been projected, failed rows are out of attempts or have lost their turn,
attempts exceed the limit only by claims taken over. It gives `NoTurnDropped`,
`NoEarlyParking` and `AttemptsBounded` with no assumption on leases. Under
`LeaseExceedsLatency`, `OneHolder` (a held job is in progress, its lease runs
and nobody else holds it) is inductive and gives `LeasesHonored` and
`SettledStaysSettled`. Without the assumption the latter is false (section 3).
Under the same assumption `QueueImplementsBoard` proves the refinement:
`HolderFacts` turns the workers' lists into the board's `holder`, and every
action of the queue is then shown to be one action of `JobBoard` or to leave the
board alone. `MemoryEngine`, which is built on the board, thereby rests on a
theorem.

**FactProjectionProofs.** `TypeInv` is `TypeOK` with `Pending`: state rows are
never pending, and without a writer nothing is. `Progress` says that a thread inside a projection
has stored every item before the one it is at, in its own transaction or, once
a commit on the way has given the lock up, for good; `PendingHasState` that a
memories row, pending ones included, has its state row. Both are needed because a
rollback takes away only what has not been committed by some call in
between. Together (`StoreInv`) they give `ReturnedIsDurable` and
`MemoryAfterState`. No theorem of this module assumes that a pass or a retraction
waits for the projections.
`KeptInv` follows a pass through its reads: between the two the row it keeps is
active and has every value owed; once the victims are chosen, each value owed has
an active row that is none of them. Rows that come later stand at another
instant (`Nudged`), so they are no victims. It gives `NoValueLost`.
`StoresStayTogether` needs two layers. `RowInv`: an active memories row that is no
stray has an active row, one that is closed has a closed row, in the committed
tables and in the open transaction. `NoteInv`: what a thread has passed in its turn has a memories
row, in its own transaction or for good, or is a stray. A fact that was
projected and has only active rows thus has a memories row, which is not closed.

**MemoryEngineProofs.** `IInv` is `TypeOK` with five conjuncts. `BoardInv` says that
a job in custody is open; `FlagTells` that an unflagged row has an embedding;
`RowsFromJobs` that a delivered or finished job has left its row or lost it;
`DueWritten` that what a flush waits for exists; `IdleSettled` that the due jobs
of a flush that has read an empty queue are settled, which stays so because the
board never reopens one. All steps are summarised once, as what happens to a job
(`JobStep`) and to the rows (`RowsStep`), and preservation is proved from these.
`OldestExists`, a well-founded induction over `created_at`, shows that a page of
one row sees any backlog. It gives `FlushIsTruthful`.

**ExecutionLifecycleProofs.**
`TypeInv` is `TypeOK` with `Picked` (a task asleep or in a node has picked one).
That the plan stays free of repetitions under edits takes two lemmas about
`InsertAt` and `RemoveAt`. `Life` ties the status of an execution to the place
of its task. Its two less obvious parts are needed for it to be inductive: an
aborted execution with a live task has the cancellation on its way (so the
task cannot go on to write COMPLETED over ABORTED), and the owner of a
checkpoint has begun (`OwnersBegan`: so a restore never cancels a task before
its first step, which would leave a RUNNING execution without a task). It gives
`RunningIsRun`, `SuccessIsTrue`, `AbortsStay` and `PausesHold`. `Work` is about
what has been done: what a task in its loop counts as executed is what its execution
has completed, no retry runs beside a loop (`RetriesApart`), and no snapshot
has a failed node (`SnapshotsClean`). The three need each other: a retry needs a
failed node, and a failed node ends the loop, but a restore brings a snapshot's
nodes back. It gives `CompletedAreWhole` and `WorkIsKept`, with any number
of connections. With one (`OneConnection`) the node that is being retried is never
completed (`RetriedIsOpen`), and `WorkIsKeptAlone` says that a completed
node stays completed without exception.

**AgentTeamProofs.**
`TypeInv` is `TypeOK` with `Count`: the spawns done and to do fill the rounds
begun, and the batch is what the last round has spawned. Without it, a run could
spawn past its handles, and `TypeOK` would not be inductive. `Ledger` says of
each handle whether its agent exists, that agents of earlier rounds have
results, where its join stands and what that join has left in the status, and
who has cancelled it. It gives `RoundsApart`, `RunsEndClean`,
`CancellationsAsked` and `StatusIsTrue`. `CancellationReaches` needs
`Unwinding` as well: as long as a cancelled run still joins, one of its joins
can only end in `CancelledError`, so the run cannot collect results and spawn
another round. `SuccessIsEarned` needs `Earned`: the results a conclusion rests
on are in, and none of them changes any more (`Settled`).

**ToolLoopProofs.** `TypeOK` is inductive by itself; it includes that the cache
holds successes only. `Consent` adds that the runner's cache of consents holds
nothing the user has not granted (`consent \subseteq grants`) and that a call
waits for consent only if its tool needs it (`Asked`); it gives
`ConsentIsHonored` for any number of calls that wait at once. Steps that let no
call through share one lemma (`NoneLetThrough`). `Chain` gives `TakesTheNamed`:
where placeholders are resolved calls take turns (`InTurn`), none has failed while
the round goes on, the outputs on record under a call's number, and under its
tool's name as long as no later call has taken it, are its result (`OutputsKnown`),
None included, which hides an older output of the same name,
and a call keeps the argument it took before it asked anybody. It assumes
`ToolsAreNoNumbers`: positions and names are keys of one dictionary
(`resolved_outputs`), where a tool called "1" would be mistaken for the first call.

**ToolLoopProofs, the prompts.** These theorems are about every list of messages,
every budget and every number of rounds. The provers cannot use the library's
induction, whose hypothesis is an operator. `UpToLength` replaces it by a set: of
the numbers in `0..N` for which a claim fails none is the least, and `WFMin` says
that every set of numbers that is not empty has one. `RecursionUpTo` builds a function along
`0..N` step by step the same way; from it each loop of `ToolMessages` gets its
recursion equation (`HeldIs`, `GroupsIs`, `TakenIs`, `JoinedIs`, `SumsUpTo`).
* `PromptsArePaired`. A `Round` is a carrier with the results of all its calls in
  their order, a list is `Clean` when every result in it is in a round, and a clean
  list is paired. `Sanitized` makes any list clean that has a carrier
  (`HeldWell`: what is written is clean and what is held back answers calls of the
  held carrier). Choosing messages keeps it clean as long as rounds are
  chosen as a whole (`PicksRun`), and `Grouped` says that a group never ends within a round,
  so whatever groups the two caps drop (`TrimmedIsClean`), the prompt is clean.
* `AnswersAreShown`. In the loop the list ends in the carrier while its calls run
  (`CarrierStands`), and once they are answered in their round (`RoundClosed`).
  `EndsIn` follows that round through the sanitizing (`SanitizedEnd`, answer by
  answer), the grouping (it is the last group, `GroupsEnd`), the cut to recent
  groups and the two walks that take groups, where it comes first or
  second (`FirstTaken`, `SecondTaken`).
* `SystemIsKept`. `Systems` of a joined list is that of its parts
  (`SystemsJoined`); what is held back, grouped or dropped is not the system's.
* `PromptFitsBudget` and `CountFitsBudget`. A weight that is additive over joined lists (size or
  length) grows with each group taken by no more than the walk accounts for
  (`OneMore`), so what is kept fits unless one group is kept alone
  (`KeptFits`). That the order of the walk names groups takes a count: by
  score, size and place no two groups are alike, so the numbers of groups above
  each are all different, and every place in the order is taken (`EveryRank`).

**ResearchRunsProofs.** `TypeInv` is `TypeOK` with `Placed` (where a run with a
living attempt, in planning or not yet made is listed, and that an attempt at
work has a plan). The twenty-odd
actions are then summarised once, as a step of one attempt (`TaskStep`) or of
one request (`RequestStep`), and the invariants are proved from these summaries:
`CancelInv` (an attempt doomed before the end of its search belongs to a run
whose flag is set) gives `CancellationIsHonored`; `ActiveHasAttempt` is inductive
by itself; `ReuseInv` (while an attempt is alone, nobody else changes the results
it is to reuse) gives `FoundIsReused`; `SaveInv` (a live run that neither is as its file says nor as it was loaded from
it has a task or a request left that will save it) gives `QuietRunsAreSaved`. A new
task is not among those that will save, since it may be refused its plan; that
costs nothing, for a start leaves the run as it was or as it is loaded.
`WholeInv` follows an attempt that is alone and was not capped from its plan to
its report: no list of questions names one twice (`AsksOnce`); while it searches,
what the list holds, what is still looked up in the checkpoint and what is
searched divide the plan's questions among them (`LooksUp`); from then on there is
one result for each (`HasAll`). `CompletedRunsAreWhole` counts them: as many
results as questions, by a bijection between positions and questions.

**GatewayAndChatProofs, the gateway.** `IInv` has the types of the variables it is about,
`MembersPresent` (whoever is in the list restores or takes commands: `disconnect`
comes before everything that ends a connection) and `Attended` (whatever runs, some
connection is present or in its grace period, or the executions are orphaned). The
former is what lets a connection that is not the last one go. It gives
`AbandonedAreAborted`. `TypeCorrect` takes lemmas on positions in the list (there
is an n-th member for every n up to its length, with n - 1 before it), by which an
iteration that goes on always stands at a connection. `TimelinesAreRecovered` needs two layers.
`Upkeep` is what the coroutines keep among each other: the list is in the order of
joining, who is present and alive is in it, only the dead have failed, the buffer
is the end of what is owed, and a restore sends what it says. `SendsReach` is the
heart: a send that carries a span which has met no removal stands at the member its
index names, and everybody before that one has what it carries or is dead; so when it
ends, everybody has it. `Timelines` says for a connection in its restore and for
one past it which buffered spans it has or has yet to be sent.

**GatewayAndChatProofs, conversations.** `ChatType` adds to the types that a
compaction under way has its backup on disk and drops something; otherwise the
units of context could exceed the capacity, and the types would not be inductive.
`NothingLost` is inductive by itself, and the same case analysis shows
`NoResurrection`, an action property (`DeletedStaysDeleted`). `SlotInv` (a deleted file has no slot, a slot
names a turn that is still to clear it) gives `SlotsAreLive`; it needs
`BackupsThere`, that a backup is of a conversation that existed. `OrderInv` gives
`TurnsStayInOrder`: the file and every backup, since any backup may be restored,
are in order, and nobody has said anything in them before its turn, nor anything but
its question before it replied (`Spoken`), so an appended message is always
behind all others of its turn. Deletions, cuts and restores keep it because what is
left of a list in order is in order (`PickedKeepsOrder`). `CutInv` says that what a compaction
drops was computed from its backup and that this passed the gate; with the lemma
`CleanCut`, that a cut at a safe place parts no result from its call, it
gives `CutsKeepRounds`.

The type invariants of all nine state machines are proved and in no run (that of
`Conversation` with what its compactions hold); so are `NoEarlyParking`,
`RoundsApart` and `CancellationsAsked`, which state more than what the runs check,
and `SettledStaysSettled`, `SuccessIsEarned` and `WorkIsKeptAlone`.

Nor is any run about `SystemIsKept`, `PromptFitsBudget` and `CountFitsBudget`, which hold for every
list of messages, those of a run among them.

Model-checked only: all liveness (`EveryJobSettles`, `DuplicatesMerge`, the two
`RunEnds`, `ComesToRest`, `EveryRowFilled`), since the prover does not do fairness.

## 5. What is not modelled, and why

* Text: prompts, parsing, ranking, merging of outputs, conflict resolution,
  summaries, argument coercion.
* Conversations: several tool rounds in one turn, the trigger for repository
  questions, seeding, import and export, bookmarks, settings and metadata.
* Tool loop: the cache of LLM answers, preprocessors, the tool router.
* Research: memories extracted after a run, the numbers of plan versions (that an
  edit may be refused for one is modelled), the emits of the autonomous mode, the
  semaphore over agents, the intermediate results, the stages inside the report
  pipeline, the wording of a question (that it may become blank is modelled).
* Engine: several extractor tasks per start (their interplay is in `ExtractQueue`),
  the dreamer task, forgetting; what a vector belongs to.
* Facts: graph edges, narrative chains, promotion of candidates.
* Gateway: parsing and routing of commands, REST routes, uploads, the clock of the
  heartbeat; what a client makes of an event.
* LLM, embedding and MCP services, which are outcomes chosen freely.
* The components marked `not_modelled` in `PROJECT.json`, each with its reason.

## 6. Plan

1. Done, each with proofs: `ExtractQueue` with `JobBoard`, `FactProjection`,
   `MemoryEngine`, `ExecutionLifecycle`, `AgentTeam`, `Conversation`,
   `ToolMessages` and `ToolLoop`, `ResearchRuns`, `SessionGateway`.
2. `TurnIntake`: turn index and enqueue check across threads (the check of
   `enqueue_extract` is outside the lock, `sqlite_extract_queue.py:22`). Property:
   one queue row and one index per turn, nothing left open by a failed INSERT.
3. Vectors in `MemoryEngine`: which text an embedding was made of, once the code
   says what it promises.
4. `MessageBus`: lazy subscription and re-subscription. Property: a message
   published after `subscribe` has taken effect reaches the subscriber.
5. The DAG executor.
6. Proofs: of the components above every safety property that a run checks is
   proved. What is left comes with new modules, and with stronger
   statements about the old ones: `Conversation` with several tool rounds in a turn,
   `ResearchRuns` for attempts side by side.
