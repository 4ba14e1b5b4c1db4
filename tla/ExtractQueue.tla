---------------------------- MODULE ExtractQueue ----------------------------
(***************************************************************************)
(* The durable hand-off of conversation turns from the raw turn log (L0)   *)
(* to the extractor workers (L1): the table extract_queue of               *)
(* backends/sqlite_extract_queue.py and the loop of                        *)
(* workers/extractor_worker.py that claims its rows under a lease,         *)
(* extracts, projects, and marks them done or failed.                      *)
(*                                                                         *)
(* A queue row is identified with its turn: the table is UNIQUE(turn_id).  *)
(* Time enters only through the lease of a claim, so the clock is not a    *)
(* variable: LeaseExpires(t) is the moment claimed_at falls before         *)
(* now - lease_seconds.                                                    *)
(***************************************************************************)
EXTENDS Naturals, FiniteSets

CONSTANTS
    Turns,                \* turn_ids
    Workers,              \* concurrent run_forever loops on one backend
    Namespaces,
    NamespaceOf,          \* the namespace column of each turn
    Pin,                  \* ExtractorWorkerConfig.namespace, NoPin for None
    NoPin,
    NoWorker,
    BatchSize,            \* ExtractorWorkerConfig.batch_size
    MaxAttempts,          \* ExtractorWorkerConfig.max_attempts
    BatchExtractor,       \* hasattr(extractor, "extract_batch")
    UseWriteLock,         \* a shared asyncio.Lock was passed as write_lock
    LeaseExceedsLatency,  \* lease_seconds outlasts every extraction
    TurnsMayVanish,       \* raw_turn_log rows may be deleted externally
    MaxAbandons,          \* bound: claims dropped by crashes, over a run
    MaxLapses             \* bound: lease expiries of one job

ASSUME ConfigAssumption ==
    /\ BatchSize \in Nat \ {0}
    /\ MaxAttempts \in Nat \ {0}
    /\ NamespaceOf \in [Turns -> Namespaces]
    /\ Pin \in [Workers -> Namespaces \cup {NoPin}]
    /\ NoPin \notin Namespaces
    /\ NoWorker \notin Workers
    /\ {BatchExtractor, UseWriteLock} \subseteq BOOLEAN
    /\ {LeaseExceedsLatency, TurnsMayVanish} \subseteq BOOLEAN
    /\ {MaxAbandons, MaxLapses} \subseteq Nat

VARIABLES
    log,          \* turns with a row in raw_turn_log
    state,        \* extract_queue.state, "absent" before the INSERT
    attempts,     \* extract_queue.attempts
    enqueuedAt,   \* extract_queue.enqueued_at, as a rank
    leaseOver,    \* claimed_at < now - lease_seconds
    pc,           \* where each worker's process_once stands
    todo,         \* its claimed turns not yet projected
    doneIds,      \* its done_ids: projected, not yet marked
    failedItems,  \* its failed_items, not yet marked
    writeLock,    \* holder of the shared asyncio.Lock
    now,          \* number of INSERTs so far
    projections,  \* history: successful projections of each turn
    lost,         \* history: claims taken over after their lease ran out
    lapsed,       \* history: claims each worker still works on past lease
    abandons      \* number of claims dropped, for the bound

store   == <<log, state, attempts, enqueuedAt, leaseOver, now>>
worker  == <<pc, todo, doneIds, failedItems, writeLock>>
history == <<projections, lost, lapsed>>
vars    == <<store, worker, history, abandons>>

JobStates == {"absent", "pending", "in_progress", "done", "failed"}
PCs == {"idle", "extract", "project", "mark_done", "mark_failed"}

(* Every turn a worker has claimed and not yet marked. *)
Held(w) == todo[w] \cup doneIds[w] \cup failedItems[w]

TypeOK ==
    /\ log \subseteq Turns
    /\ state \in [Turns -> JobStates]
    /\ attempts \in [Turns -> Nat]
    /\ enqueuedAt \in [Turns -> Nat]
    /\ leaseOver \in [Turns -> BOOLEAN]
    /\ now \in Nat
    /\ pc \in [Workers -> PCs]
    /\ todo \in [Workers -> SUBSET Turns]
    /\ doneIds \in [Workers -> SUBSET Turns]
    /\ failedItems \in [Workers -> SUBSET Turns]
    /\ writeLock \in Workers \cup {NoWorker}
    /\ projections \in [Turns -> Nat]
    /\ lost \in [Turns -> Nat]
    /\ lapsed \in [Workers -> SUBSET Turns]
    /\ abandons \in Nat

Init ==
    /\ log = {}
    /\ state = [t \in Turns |-> "absent"]
    /\ attempts = [t \in Turns |-> 0]
    /\ enqueuedAt = [t \in Turns |-> 0]
    /\ leaseOver = [t \in Turns |-> FALSE]
    /\ now = 0
    /\ pc = [w \in Workers |-> "idle"]
    /\ todo = [w \in Workers |-> {}]
    /\ doneIds = [w \in Workers |-> {}]
    /\ failedItems = [w \in Workers |-> {}]
    /\ writeLock = NoWorker
    /\ projections = [t \in Turns |-> 0]
    /\ lost = [t \in Turns |-> 0]
    /\ lapsed = [w \in Workers |-> {}]
    /\ abandons = 0

-----------------------------------------------------------------------------
(* The write side: TurnWriter.fast_path and schedule_extract. *)

(* INSERT INTO extract_queue of a turn that has no row yet. *)
InsertJob(t) ==
    /\ state' = [state EXCEPT ![t] = "pending"]
    /\ enqueuedAt' = [enqueuedAt EXCEPT ![t] = now]
    /\ now' = now + 1

(* append_raw_turn_and_enqueue: both rows in one commit. *)
WriteTurn(t) ==
    /\ t \notin log /\ state[t] = "absent"
    /\ log' = log \cup {t}
    /\ InsertJob(t)
    /\ UNCHANGED <<attempts, leaseOver, worker, history, abandons>>

(* append_raw_turn alone: schedule_extract=False, or the trigger voted no. *)
LogTurn(t) ==
    /\ t \notin log /\ state[t] = "absent"
    /\ log' = log \cup {t}
    /\ UNCHANGED <<state, attempts, enqueuedAt, leaseOver, now,
                   worker, history, abandons>>

(* schedule_extract of a logged turn; one that has a row is left alone. *)
ScheduleExtract(t) ==
    /\ t \in log /\ state[t] = "absent"
    /\ InsertJob(t)
    /\ UNCHANGED <<log, attempts, leaseOver, worker, history, abandons>>

(* Somebody deletes the raw_turn_log row behind the queue's back. *)
LoseTurn(t) ==
    /\ TurnsMayVanish /\ t \in log /\ state[t] # "absent"
    /\ log' = log \ {t}
    /\ UNCHANGED <<state, attempts, enqueuedAt, leaseOver, now,
                   worker, history, abandons>>

-----------------------------------------------------------------------------
(* claim_extract_jobs. *)

(* Mutants of Eligible: the lease test dropped; crashed claims never       *)
(* recovered.                                                              *)
EligibleIgnoringLease(w) ==
    {t \in Turns : /\ state[t] \in {"pending", "in_progress"}
                   /\ Pin[w] \in {NoPin, NamespaceOf[t]}}
EligibleWithoutRecovery(w) ==
    {t \in Turns : /\ state[t] = "pending"
                   /\ Pin[w] \in {NoPin, NamespaceOf[t]}}

(* The WHERE clause of the SELECT. *)
Eligible(w) ==
    {t \in Turns : /\ \/ state[t] = "pending"
                      \/ state[t] = "in_progress" /\ leaseOver[t]
                   /\ Pin[w] \in {NoPin, NamespaceOf[t]}}

(* The first rows of a set in ORDER BY enqueued_at, at most BatchSize. *)
IsOldest(S, T) ==
    /\ S \subseteq T
    /\ \/ Cardinality(S) = BatchSize
       \/ S = T /\ Cardinality(S) < BatchSize
    /\ \A t \in S, u \in T \ S : enqueuedAt[t] < enqueuedAt[u]

OldestOf(T) ==
    CHOOSE t \in T : \A u \in T : enqueuedAt[t] <= enqueuedAt[u]

LockFree == UseWriteLock => writeLock = NoWorker

(* One process_once begins: the rows are claimed in one transaction, and   *)
(* those whose turn is gone are failed on the spot.                        *)
Claim(w) ==
    /\ pc[w] = "idle" /\ LockFree
    /\ \E S \in SUBSET Eligible(w) :
        /\ S # {} /\ IsOldest(S, Eligible(w))
        /\ state' = [t \in Turns |->
                        IF t \notin S THEN state[t]
                        ELSE IF t \in log THEN "in_progress" ELSE "failed"]
        /\ attempts' = [t \in Turns |->
                        IF t \in S THEN attempts[t] + 1 ELSE attempts[t]]
        /\ leaseOver' = [t \in Turns |-> leaseOver[t] /\ t \notin S]
        /\ lost' = [t \in Turns |->
                        IF t \in S /\ state[t] = "in_progress"
                        THEN lost[t] + 1 ELSE lost[t]]
        /\ todo' = [todo EXCEPT ![w] = S \cap log]
        /\ pc' = [pc EXCEPT ![w] =
                        IF S \cap log = {} THEN "idle" ELSE "extract"]
    /\ UNCHANGED <<log, enqueuedAt, now, doneIds, failedItems, writeLock,
                   projections, lapsed, abandons>>

-----------------------------------------------------------------------------
(* One claimed batch on its way through a worker. *)

(* What the current extraction covers: the batch, or the next single job. *)
InHand(w) == IF BatchExtractor THEN todo[w] ELSE {OldestOf(todo[w])}

(* The LLM answered, and the write lock is ours. *)
ExtractDone(w) ==
    /\ pc[w] = "extract" /\ LockFree
    /\ pc' = [pc EXCEPT ![w] = "project"]
    /\ writeLock' = IF UseWriteLock THEN w ELSE writeLock
    /\ UNCHANGED <<store, todo, doneIds, failedItems, history, abandons>>

(* The LLM raised, or returned as many results as it should not have. *)
ExtractFails(w) ==
    /\ pc[w] = "extract"
    /\ pc' = [pc EXCEPT ![w] = "mark_failed"]
    /\ failedItems' = [failedItems EXCEPT ![w] = InHand(w)]
    /\ todo' = [todo EXCEPT ![w] = @ \ InHand(w)]
    /\ UNCHANGED <<store, doneIds, writeLock, history, abandons>>

(* Where a worker goes when the projection of its current job has ended:   *)
(* the batch path projects all its jobs before it marks any.               *)
AfterProject(w, done, failed) ==
    IF BatchExtractor /\ todo[w] # {OldestOf(todo[w])} THEN "project"
    ELSE IF done # {} THEN "mark_done" ELSE "mark_failed"

(* The batch path leaves the write lock before marking, the single path    *)
(* keeps it until the job is marked.                                       *)
LockAfter(w, next) ==
    IF writeLock = w /\ BatchExtractor /\ next # "project"
    THEN NoWorker ELSE writeLock

ProjectOk(w) ==
    LET t    == OldestOf(todo[w])
        next == AfterProject(w, doneIds[w] \cup {t}, failedItems[w])
    IN  /\ pc[w] = "project"
        /\ doneIds' = [doneIds EXCEPT ![w] = @ \cup {t}]
        /\ todo' = [todo EXCEPT ![w] = @ \ {t}]
        /\ projections' = [projections EXCEPT ![t] = @ + 1]
        /\ pc' = [pc EXCEPT ![w] = next]
        /\ writeLock' = LockAfter(w, next)
        /\ UNCHANGED <<store, failedItems, lost, lapsed, abandons>>

(* Mutant of ProjectFails: the "continue" after a failure is missing. *)
ProjectFailsFallsThrough(w) ==
    LET t    == OldestOf(todo[w])
        next == AfterProject(w, doneIds[w] \cup {t}, failedItems[w] \cup {t})
    IN  /\ pc[w] = "project"
        /\ doneIds' = [doneIds EXCEPT ![w] = @ \cup {t}]
        /\ failedItems' = [failedItems EXCEPT ![w] = @ \cup {t}]
        /\ todo' = [todo EXCEPT ![w] = @ \ {t}]
        /\ pc' = [pc EXCEPT ![w] = next]
        /\ writeLock' = LockAfter(w, next)
        /\ UNCHANGED <<store, history, abandons>>

ProjectFails(w) ==
    LET t    == OldestOf(todo[w])
        next == AfterProject(w, doneIds[w], failedItems[w] \cup {t})
    IN  /\ pc[w] = "project"
        /\ failedItems' = [failedItems EXCEPT ![w] = @ \cup {t}]
        /\ todo' = [todo EXCEPT ![w] = @ \ {t}]
        /\ pc' = [pc EXCEPT ![w] = next]
        /\ writeLock' = LockAfter(w, next)
        /\ UNCHANGED <<store, doneIds, history, abandons>>

(* After the last marking the batch is over; the single path goes on with  *)
(* the rest of its claim.                                                  *)
AfterMark(w) == IF todo[w] = {} THEN "idle" ELSE "extract"

Unlock(w) == writeLock' = IF writeLock = w THEN NoWorker ELSE writeLock

(* Mutant of StateAfterFailure: off by one.                                *)
ParkedOneLate(t) ==
    IF attempts[t] <= MaxAttempts THEN "pending" ELSE "failed"

(* The state mark_extract_failed gives a row: retry=True always. *)
StateAfterFailure(t) ==
    IF attempts[t] < MaxAttempts THEN "pending" ELSE "failed"

(* mark_extract_done[_batch]: by queue_id alone, whatever the row says. *)
MarkDone(w) ==
    /\ pc[w] = "mark_done"
    /\ state' = [t \in Turns |->
                    IF t \in doneIds[w] THEN "done" ELSE state[t]]
    /\ doneIds' = [doneIds EXCEPT ![w] = {}]
    /\ lapsed' = [lapsed EXCEPT ![w] = @ \ doneIds[w]]
    /\ pc' = [pc EXCEPT ![w] =
                  IF failedItems[w] # {} THEN "mark_failed" ELSE AfterMark(w)]
    /\ Unlock(w)
    /\ UNCHANGED <<log, attempts, enqueuedAt, leaseOver, now, todo,
                   failedItems, projections, lost, abandons>>

(* mark_extract_failed[_batch]: again by queue_id alone. *)
MarkFailed(w) ==
    /\ pc[w] = "mark_failed"
    /\ state' = [t \in Turns |-> IF t \in failedItems[w]
                                 THEN StateAfterFailure(t) ELSE state[t]]
    /\ leaseOver' = [t \in Turns |-> leaseOver[t] /\ t \notin failedItems[w]]
    /\ failedItems' = [failedItems EXCEPT ![w] = {}]
    /\ lapsed' = [lapsed EXCEPT ![w] = @ \ failedItems[w]]
    /\ pc' = [pc EXCEPT ![w] = AfterMark(w)]
    /\ Unlock(w)
    /\ UNCHANGED <<log, attempts, enqueuedAt, now, todo, doneIds,
                   projections, lost, abandons>>

(* The process dies, the task is cancelled, or a marking raises ("database *)
(* is locked", absorbed by run_forever): the claim is forgotten, its rows  *)
(* stay in_progress until their lease runs out.                            *)
Abandon(w) ==
    /\ pc[w] # "idle" /\ abandons < MaxAbandons
    /\ abandons' = abandons + 1
    /\ pc' = [pc EXCEPT ![w] = "idle"]
    /\ todo' = [todo EXCEPT ![w] = {}]
    /\ doneIds' = [doneIds EXCEPT ![w] = {}]
    /\ failedItems' = [failedItems EXCEPT ![w] = {}]
    /\ lapsed' = [lapsed EXCEPT ![w] = {}]
    /\ Unlock(w)
    /\ UNCHANGED <<store, projections, lost>>

(* The clock passes claimed_at + lease_seconds. *)
LeaseExpires(t) ==
    /\ state[t] = "in_progress" /\ ~leaseOver[t] /\ lost[t] < MaxLapses
    /\ LeaseExceedsLatency => \A w \in Workers : t \notin Held(w)
    /\ leaseOver' = [leaseOver EXCEPT ![t] = TRUE]
    /\ lapsed' = [w \in Workers |->
                     IF t \in Held(w) THEN lapsed[w] \cup {t} ELSE lapsed[w]]
    /\ UNCHANGED <<log, state, attempts, enqueuedAt, now, worker,
                   projections, lost, abandons>>

-----------------------------------------------------------------------------
Work(w) == \/ Claim(w)
           \/ ExtractDone(w) \/ ExtractFails(w)
           \/ ProjectOk(w) \/ ProjectFails(w)
           \/ MarkDone(w) \/ MarkFailed(w)

Next ==
    \/ \E t \in Turns : \/ WriteTurn(t) \/ LogTurn(t) \/ ScheduleExtract(t)
                        \/ LoseTurn(t) \/ LeaseExpires(t)
    \/ \E w \in Workers : Work(w) \/ Abandon(w)

Spec == Init /\ [][Next]_vars

(* run_forever loops on every worker and asyncio.Lock serves its waiters   *)
(* first come first served; an LLM call ends, one way or the other; time   *)
(* passes.                                                                 *)
Fairness == /\ \A w \in Workers : WF_vars(Claim(w))
            /\ \A w \in Workers : WF_vars(ExtractDone(w) \/ ExtractFails(w))
            /\ \A w \in Workers : WF_vars(ProjectOk(w) \/ ProjectFails(w))
            /\ \A w \in Workers : WF_vars(MarkDone(w) \/ MarkFailed(w))
            /\ \A t \in Turns : WF_vars(LeaseExpires(t))

FairSpec == Spec /\ Fairness

-----------------------------------------------------------------------------
(* Properties.                                                             *)

(* No turn is dropped: a row says done only if some worker has projected   *)
(* the facts of its turn (mark_extract_done after _project_result), even   *)
(* with crashes and workers that overstay their lease.                     *)
DoneWasProjected ==
    \A t \in Turns : state[t] = "done" => projections[t] > 0

(* A job is parked as failed only when it has used up its attempts, or its *)
(* turn has vanished from the log (orphan_turn_missing).                   *)
FailedIsExhausted ==
    \A t \in Turns :
        state[t] = "failed" => attempts[t] >= MaxAttempts \/ t \notin log

(* A job is claimed at most max_attempts times, not counting the claims    *)
(* that took it over from a holder whose lease had run out.                *)
AttemptsWithinBudget ==
    \A t \in Turns : attempts[t] <= MaxAttempts + lost[t]

(* While a worker's lease on a job runs, no other worker holds the job.    *)
LeaseHonored ==
    \A v, w \in Workers : v # w =>
        Held(v) \cap Held(w) \subseteq lapsed[v] \cup lapsed[w]

(* A job once done or failed stays so: flush and the queue statistics      *)
(* count on it.                                                            *)
FinalIsFinal ==
    [][\A t \in Turns :
          state[t] \in {"done", "failed"} => state'[t] = state[t]]_vars

(* Every job that enters the queue is eventually done or failed, whatever  *)
(* crashes (finitely often) on the way.                                    *)
EveryJobSettles ==
    \A t \in Turns : state[t] # "absent" ~> state[t] \in {"done", "failed"}

-----------------------------------------------------------------------------
(* The job board this queue implements when leases outlast extractions.    *)

HolderOf(t) ==
    IF \E w \in Workers : t \in Held(w)
    THEN CHOOSE w \in Workers : t \in Held(w) ELSE NoWorker

BoardStatus(t) ==
    IF state[t] \in {"pending", "in_progress"} THEN "open" ELSE state[t]

Board == INSTANCE JobBoard WITH
    Jobs      <- Turns,
    Nobody    <- NoWorker,
    status    <- [t \in Turns |-> BoardStatus(t)],
    holder    <- [t \in Turns |-> HolderOf(t)],
    delivered <- [t \in Turns |-> \E w \in Workers : t \in doneIds[w]]

(* Under leases that outlast extractions the queue is a job board: one     *)
(* holder per job, and only a result delivered by the holder finishes it.  *)
ImplementsJobBoard == Board!BoardSpec

=============================================================================
