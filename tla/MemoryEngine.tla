----------------------------- MODULE MemoryEngine -----------------------------
(***************************************************************************)
(* The write pipeline of a MemoryEngine as a whole (engine.py): turns are  *)
(* written to the extract queue, an extractor task turns them into         *)
(* memories rows, a backfill task fills in their embeddings, start and     *)
(* stop bring the tasks up and down, and flush waits until both backlogs   *)
(* are gone.                                                               *)
(*                                                                         *)
(* The queue is the job board that ExtractQueue implements. A turn stands  *)
(* for the row its fact is promoted to: fact_key hashes the turn's anchor. *)
(* Each start makes new tasks; a task is named by the number of its start. *)
(***************************************************************************)
EXTENDS Naturals, FiniteSets

CONSTANTS
    Turns,        \* turn_ids that write_turn is called with
    Notes,        \* keys of the records stored past the queue, with a ttl
    Flushes,      \* calls of flush
    Nobody,
    BatchSize,    \* EmbeddingBackfillConfig.batch_size
    MaxStarts,    \* bound: calls of start that make tasks
    MaxStores     \* bound: records stored past the queue

Starts == 1 .. MaxStarts
Records == Turns \cup Notes

ASSUME EngineAssumption ==
    /\ IsFiniteSet(Turns \cup Notes) /\ Turns \cap Notes = {}
    /\ Nobody \notin Starts
    /\ BatchSize \in Nat \ {0}
    /\ {MaxStarts, MaxStores} \subseteq Nat

VARIABLES
    status, holder, delivered,   \* the job board
    phase,      \* "stopped", "running", or "stopping" while stop waits
    start,      \* number of the last start
    worker,     \* where each extractor task stands
    filler,     \* where each backfill task stands
    batch,      \* rowids it has listed and not yet written back
    createdAt,  \* rank of created_at of a row, 0 before the INSERT
    pending,    \* rows with embedding_pending = 1
    embedded,   \* rows with an embedding
    expired,    \* rows past created_at + ttl
    flush,      \* where each flush stands
    stores,     \* number of records stored past the queue, for the bound
    swallowed,  \* history: turns that left no row, as a promotion failed
    due         \* history: the records a flush was called to wait for

board   == <<status, holder, delivered>>
rows    == <<createdAt, pending, embedded, expired>>
tasks   == <<phase, start, worker, filler, batch>>
vars    == <<board, rows, tasks, flush, stores, swallowed, due>>

INSTANCE JobBoard WITH Jobs <- Turns, Workers <- Starts

Stored == {k \in Records : createdAt[k] > 0}

TypeOK ==
    /\ BoardTypeOK
    /\ phase \in {"stopped", "running", "stopping"}
    /\ start \in 0 .. MaxStarts
    /\ worker \in [Starts -> {"off", "idle", "work", "cut"}]
    /\ filler \in [Starts -> {"off", "idle", "embed", "fill", "cut"}]
    /\ batch \in [Starts -> SUBSET Records]
    /\ createdAt \in [Records -> Nat]
    /\ {pending, embedded, expired} \subseteq SUBSET Records
    /\ flush \in [Flushes -> {"none", "extract", "idle", "busy",
                              "returned", "void"}]
    /\ stores \in Nat
    /\ swallowed \subseteq Turns
    /\ due \in [Flushes -> SUBSET Records]

Init ==
    /\ BoardInit
    /\ phase = "stopped" /\ start = 0
    /\ worker = [s \in Starts |-> "off"]
    /\ filler = [s \in Starts |-> "off"]
    /\ batch = [s \in Starts |-> {}]
    /\ createdAt = [k \in Records |-> 0]
    /\ pending = {} /\ embedded = {} /\ expired = {}
    /\ flush = [f \in Flushes |-> "none"]
    /\ stores = 0
    /\ swallowed = {}
    /\ due = [f \in Flushes |-> {}]

-----------------------------------------------------------------------------
(* The memories table.                                                     *)

(* put of a record without an embedding: ON CONFLICT DO UPDATE clears the  *)
(* embedding and sets the flag, and leaves created_at as it was.           *)
Put(k) ==
    /\ createdAt' = IF k \in Stored THEN createdAt
                    ELSE [createdAt EXCEPT ![k] = 1 + Cardinality(Stored)]
    /\ pending' = pending \cup {k}
    /\ embedded' = embedded \ {k}
    /\ UNCHANGED expired

(* ORDER BY created_at LIMIT n of the flagged rows; those that have        *)
(* expired are dropped from what the SELECT returned.                      *)
Oldest(n) ==
    {k \in pending :
        Cardinality({j \in pending : createdAt[j] < createdAt[k]}) < n}
Listed(n) == Oldest(n) \ expired

(* approve_candidate and MemoryStore.put, in the caller's thread.          *)
StoreNote(k) ==
    /\ stores < MaxStores
    /\ stores' = stores + 1
    /\ Put(k)
    /\ UNCHANGED <<board, tasks, flush, swallowed, due>>

(* The clock passes created_at + ttl.                                      *)
Expire(k) ==
    /\ k \in Stored \cap Notes /\ k \notin expired
    /\ expired' = expired \cup {k}
    /\ UNCHANGED <<board, createdAt, pending, embedded, tasks, flush,
                   stores, swallowed, due>>

-----------------------------------------------------------------------------
(* write_turn: both inserts of fast_path in one commit, engine up or down. *)
WriteTurn(t) ==
    /\ Submit(t)
    /\ UNCHANGED <<rows, tasks, flush, stores, swallowed, due>>

(* ExtractorWorker.run_forever of one task. Its signal is tested before    *)
(* each process_once.                                                      *)

Claim(s) ==
    /\ worker[s] = "idle" /\ phase = "running"
    /\ \E taken \in SUBSET Free : taken # {} /\ Take(s, taken, {})
    /\ worker' = [worker EXCEPT ![s] = "work"]
    /\ UNCHANGED <<rows, phase, start, filler, batch, flush, stores,
                   swallowed, due>>

(* A task that was cancelled while a thread worked for it ends, and the    *)
(* thread completes what it was at; any other goes on.                     *)
Onward(s) ==
    /\ worker[s] \in {"work", "cut"}
    /\ worker' = [worker EXCEPT ![s] =
                     IF @ = "cut" THEN "off"
                     ELSE IF Custody(s)' = {} THEN "idle" ELSE "work"]
    /\ UNCHANGED <<phase, start, filler, batch, flush, stores, due>>

(* The projection of a turn; a promotion that fails is swallowed, and a    *)
(* turn may hold nothing to promote.                                       *)
Project(s, t) ==
    /\ Deliver(s, t)
    /\ \/ Put(t) /\ UNCHANGED swallowed
       \/ swallowed' = swallowed \cup {t} /\ UNCHANGED rows
    /\ Onward(s)

(* A projection that commits the row and fails afterwards.                 *)
ProjectPartly(s, t) ==
    /\ holder[t] = s /\ ~delivered[t]
    /\ Put(t)
    /\ UNCHANGED <<board, swallowed>>
    /\ Onward(s)

MarkDone(s) ==
    /\ Finish(s)
    /\ Onward(s)
    /\ UNCHANGED <<rows, swallowed>>

MarkFailed(s) ==
    /\ \E reopened, givenUp \in SUBSET Custody(s) :
        /\ reopened \cap givenUp = {} /\ reopened \cup givenUp # {}
        /\ GiveBack(s, reopened, givenUp)
    /\ Onward(s)
    /\ UNCHANGED <<rows, swallowed>>

(* An exception that run_forever absorbs, as of a marking: the job is open *)
(* to others when its lease is over.                                       *)
Abandon(s) ==
    /\ Custody(s) # {}
    /\ Forget(s)
    /\ Onward(s)
    /\ UNCHANGED <<rows, swallowed>>

(* The lease of a task that is gone runs out.                              *)
LeaseExpires(s) ==
    /\ worker[s] = "off" /\ Custody(s) # {}
    /\ Forget(s)
    /\ UNCHANGED <<rows, tasks, flush, stores, swallowed, due>>

Extract(s) ==
    \/ Claim(s) \/ MarkDone(s) \/ MarkFailed(s) \/ Abandon(s)
    \/ \E t \in Turns : Project(s, t) \/ ProjectPartly(s, t)

-----------------------------------------------------------------------------
(* EmbeddingBackfillWorker.run_forever and process_once of one task.       *)

List(s) ==
    /\ filler[s] = "idle" /\ phase = "running" /\ Listed(BatchSize) # {}
    /\ batch' = [batch EXCEPT ![s] = Listed(BatchSize)]
    /\ filler' = [filler EXCEPT ![s] = "embed"]
    /\ UNCHANGED <<board, rows, phase, start, worker, flush, stores,
                   swallowed, due>>

Embedded(s) ==
    /\ filler[s] = "embed"
    /\ filler' = [filler EXCEPT ![s] = "fill"]
    /\ UNCHANGED <<board, rows, phase, start, worker, batch, flush, stores,
                   swallowed, due>>

(* Mutant of EmbedFails: the exception ends the task.                      *)
EmbedFailureEnds(s) ==
    /\ filler[s] = "embed"
    /\ filler' = [filler EXCEPT ![s] = "off"]
    /\ batch' = [batch EXCEPT ![s] = {}]
    /\ UNCHANGED <<board, rows, phase, start, worker, flush, stores,
                   swallowed, due>>

(* The provider raised, or answered with too few vectors: the rows stay    *)
(* flagged.                                                                *)
EmbedFails(s) ==
    /\ filler[s] = "embed"
    /\ filler' = [filler EXCEPT ![s] = "idle"]
    /\ batch' = [batch EXCEPT ![s] = {}]
    /\ UNCHANGED <<board, rows, phase, start, worker, flush, stores,
                   swallowed, due>>

WrittenBack(s, k) ==
    /\ filler[s] \in {"fill", "cut"} /\ k \in batch[s]
    /\ LET rest == IF filler[s] = "cut" THEN {} ELSE batch[s] \ {k}
       IN  /\ batch' = [batch EXCEPT ![s] = rest]
           /\ filler' = [filler EXCEPT ![s] =
                            CASE @ = "cut" -> "off"
                              [] rest = {} -> "idle"
                              [] OTHER -> "fill"]
    /\ UNCHANGED <<board, createdAt, expired, phase, start, worker, flush,
                   stores, swallowed, due>>

(* mark_embedding_filled: by rowid alone, whatever the row has become.     *)
Fill(s, k) ==
    /\ WrittenBack(s, k)
    /\ pending' = pending \ {k}
    /\ embedded' = embedded \cup {k}

(* It raised ("database is locked"): logged, and on to the next row.       *)
FillFails(s, k) ==
    /\ WrittenBack(s, k)
    /\ UNCHANGED <<pending, embedded>>

Backfill(s) ==
    \/ List(s) \/ Embedded(s) \/ EmbedFails(s)
    \/ \E k \in Records : Fill(s, k) \/ FillFails(s, k)

-----------------------------------------------------------------------------
(* start and stop. A start while stop still waits finds the task list not  *)
(* empty and does nothing.                                                 *)

Start ==
    /\ phase = "stopped" /\ start < MaxStarts
    /\ phase' = "running"
    /\ start' = start + 1
    /\ worker' = [worker EXCEPT ![start'] = "idle"]
    /\ filler' = [filler EXCEPT ![start'] = "idle"]
    /\ UNCHANGED <<board, rows, batch, flush, stores, swallowed, due>>

(* stop sets the signals and waits for the tasks, five seconds at most.    *)
Stop ==
    /\ phase = "running"
    /\ phase' = "stopping"
    /\ UNCHANGED <<board, rows, start, worker, filler, batch, flush, stores,
                   swallowed, due>>

(* A task sees its signal between two rounds.                              *)
Leave ==
    /\ phase = "stopping"
    /\ \/ /\ worker[start] = "idle"
          /\ worker' = [worker EXCEPT ![start] = "off"]
          /\ UNCHANGED filler
       \/ /\ filler[start] = "idle"
          /\ filler' = [filler EXCEPT ![start] = "off"]
          /\ UNCHANGED worker
    /\ UNCHANGED <<board, rows, phase, start, batch, flush, stores,
                   swallowed, due>>

(* stop returns: all tasks have left, or five seconds are over and those   *)
(* that have not are cancelled, their threads (if any) at work on a last   *)
(* statement.                                                              *)
Stopped ==
    /\ phase = "stopping"
    /\ phase' = "stopped"
    /\ \E w \in {"off", "cut"}, b \in {"off", "cut"} :
        /\ w = "cut" => worker[start] = "work"
        /\ b = "cut" => filler[start] = "fill"
        /\ worker' = [worker EXCEPT ![start] = w]
        /\ filler' = [filler EXCEPT ![start] = b]
        /\ batch' = IF b = "cut" THEN batch ELSE [batch EXCEPT ![start] = {}]
    /\ UNCHANGED <<board, rows, start, flush, stores, swallowed, due>>

-----------------------------------------------------------------------------
(* flush.                                                                  *)

Call(f) ==
    /\ flush[f] = "none"
    /\ flush' = [flush EXCEPT ![f] = "extract"]
    /\ due' = [due EXCEPT ![f] =
                  {t \in Turns : status[t] # "absent"} \cup Stored]
    /\ UNCHANGED <<board, rows, tasks, stores, swallowed>>

(* Mutant of InFlight: jobs in_progress are not counted.                   *)
Waiting == Free

(* _extract_pending_count: pending plus in_progress.                       *)
InFlight == {t \in Turns : status[t] = "open"}

ReadExtract(f) ==
    /\ flush[f] = "extract"
    /\ flush' = [flush EXCEPT ![f] = IF InFlight = {} THEN "idle" ELSE "busy"]
    /\ UNCHANGED <<board, rows, tasks, stores, swallowed, due>>

(* Void is a flush that times out, or returns on a count that failed.      *)
Ends(f, how) ==
    /\ flush' = [flush EXCEPT ![f] = how]
    /\ due' = [due EXCEPT ![f] = {}]

(* _embedding_pending_count, which asks for one row first, and the test of *)
(* both counts; another round, or the deadline.                            *)
ReadEmbedding(f) ==
    /\ flush[f] \in {"idle", "busy"}
    /\ IF flush[f] = "idle" /\ Listed(1) = {}
       THEN Ends(f, "returned")
       ELSE Ends(f, "void") \/ /\ flush' = [flush EXCEPT ![f] = "extract"]
                               /\ UNCHANGED due
    /\ UNCHANGED <<board, rows, tasks, stores, swallowed>>

(* A count raises, as when stop closes the connections, and reads as zero. *)
ReadFails(f) ==
    /\ flush[f] \in {"extract", "idle"}
    /\ Ends(f, "void")
    /\ UNCHANGED <<board, rows, tasks, stores, swallowed>>

Flush(f) == Call(f) \/ ReadExtract(f) \/ ReadEmbedding(f) \/ ReadFails(f)

-----------------------------------------------------------------------------
Next ==
    \/ \E t \in Turns : WriteTurn(t)
    \/ \E k \in Notes : StoreNote(k) \/ Expire(k)
    \/ Start \/ Stop \/ Leave \/ Stopped
    \/ \E s \in Starts : Extract(s) \/ LeaseExpires(s) \/ Backfill(s)
    \/ \E f \in Flushes : Flush(f)

Spec == Init /\ [][Next]_vars

(* run_forever loops; an outage of the provider and a locked database are  *)
(* transient.                                                              *)
Fairness ==
    /\ WF_vars(\E s \in Starts : List(s))
    /\ SF_vars(\E s \in Starts : Embedded(s))
    /\ \A k \in Records : SF_vars(\E s \in Starts : Fill(s, k))

FairSpec == Spec /\ Fairness

-----------------------------------------------------------------------------
(* Properties.                                                             *)

(* What flush tells: the fact of a due turn has been extracted (or its job *)
(* given up, or its promotion lost), and it has its embedding.             *)
Settled(k) ==
    /\ k \in Turns => status[k] \in {"done", "failed"}
    /\ \/ k \in embedded
       \/ k \in Turns /\ k \notin Stored
                      /\ (status[k] = "failed" \/ k \in swallowed)

(* "Wait until the write pipeline is idle": though flush reads the two     *)
(* backlogs one after the other, among tasks that come, go and die, all it *)
(* was called to wait for is settled when it returns, unless an expired    *)
(* row hides the backlog.                                                  *)
FlushTellsTruth ==
    [][\A f \in Flushes :
          /\ flush[f] # "returned" /\ flush'[f] = "returned"
          /\ pending \cap expired = {}
          => \A k \in due[f] : Settled(k)]_vars

(* "The embedding_pending flag stays set so the next poll picks the row    *)
(* back up": while the engine stays up and the expired rows do not fill a  *)
(* whole batch, every row gets its embedding, whatever failed and however  *)
(* the engine was stopped before.                                          *)
EveryRowFilled ==
    <>[](phase = "running" /\ Cardinality(expired) < BatchSize)
        => \A k \in Records : k \in Stored ~> k \in embedded \cup expired

=============================================================================
