-------------------------- MODULE MemoryEngineProofs --------------------------
(* Proofs about MemoryEngine: its types, and that flush tells the truth.    *)
EXTENDS MemoryEngine, TLAPS, FiniteSetTheorems, WellFoundedInduction

-----------------------------------------------------------------------------
(* The memories table.                                                     *)

LEMMA StoredIsFinite == IsFiniteSet(Stored) /\ Cardinality(Stored) \in Nat
<1>1. Stored \subseteq Turns \cup Notes
  BY DEF Stored, Records
<1>2. IsFiniteSet(Stored)
  BY <1>1, FS_Subset, EngineAssumption
<1>. QED
  BY <1>2, FS_CardinalityType

(* A backlog that is not empty has an oldest row.                          *)
LEMMA OldestExists ==
    ASSUME TypeOK, pending # {}
    PROVE  Oldest(1) # {}
<1>. DEFINE Less == OpToRel(<, Nat)
            Ranks == {createdAt[k] : k \in pending}
<1>1. IsWellFoundedOn(Less, Nat)
  BY NatLessThanWellFounded
<1>2. \A m, n \in Nat : <<m, n>> \in Less <=> m < n
  BY DEF OpToRel
<1>3. Ranks \subseteq Nat /\ Ranks # {}
  BY DEF TypeOK
<1>4. PICK n \in Ranks : \A m \in Ranks : ~(<<m, n>> \in Less)
  <2>. HIDE DEF Ranks, Less
  <2>. QED
    BY <1>1, <1>3, WFMin
<1>5. PICK k \in pending : createdAt[k] = n
  OBVIOUS
<1>6. {j \in pending : createdAt[j] < createdAt[k]} = {}
  BY <1>2, <1>3, <1>4, <1>5
<1>7. Cardinality({j \in pending : createdAt[j] < createdAt[k]}) < 1
  BY <1>6, FS_EmptySet
<1>. QED
  BY <1>7 DEF Oldest

-----------------------------------------------------------------------------
(* The invariant.                                                          *)

(* A job in somebody's custody is open, and only such a job is delivered.  *)
BoardInv ==
    \A t \in Turns : /\ holder[t] # Nobody => status[t] = "open"
                     /\ delivered[t] => holder[t] # Nobody

(* A row that is not flagged has an embedding.                             *)
FlagTells == Stored \subseteq pending \cup embedded

(* The rows of turns come from jobs: a delivered or finished job has left  *)
(* its row, or lost its promotion.                                         *)
RowsFromJobs ==
    \A t \in Turns :
        /\ t \in Stored => status[t] # "absent"
        /\ delivered[t] \/ status[t] = "done" => t \in Stored \cup swallowed

(* What a flush waits for has been written or stored.                      *)
DueWritten ==
    \A f \in Flushes :
        due[f] \subseteq {t \in Turns : status[t] # "absent"} \cup Stored

(* Once a flush has seen an idle queue, its jobs are settled.              *)
IdleSettled ==
    \A f \in Flushes : flush[f] = "idle" =>
        \A t \in due[f] \cap Turns : status[t] \in {"done", "failed"}

FlushInv == BoardInv /\ FlagTells /\ RowsFromJobs /\ DueWritten /\ IdleSettled

IInv == TypeOK /\ FlushInv

LEMMA InitInv == Init => IInv
<1>. SUFFICES ASSUME Init PROVE IInv
  OBVIOUS
<1>1. TypeOK
  BY EngineAssumption
     DEF Init, TypeOK, BoardInit, BoardTypeOK, Starts
<1>2. Stored = {}
  BY DEF Init, Stored
<1>3. FlushInv
  BY <1>2 DEF Init, BoardInit, FlushInv, BoardInv, FlagTells, RowsFromJobs,
              DueWritten, IdleSettled
<1>. QED
  BY <1>1, <1>3 DEF IInv

-----------------------------------------------------------------------------
(* Types.                                                                  *)

LEMMA PutTypes ==
    ASSUME TypeOK, NEW k \in Records, Put(k)
    PROVE  /\ createdAt' \in [Records -> Nat]
           /\ {pending', embedded', expired'} \subseteq SUBSET Records
BY StoredIsFinite DEF Put, TypeOK

LEMMA TypeStep == TypeOK /\ [Next]_vars => TypeOK'
<1>. SUFFICES ASSUME TypeOK, [Next]_vars PROVE TypeOK'
  OBVIOUS
<1>. USE DEF TypeOK, BoardTypeOK
<1>1. CASE \E t \in Turns : WriteTurn(t)
  BY <1>1 DEF WriteTurn, Submit, rows, tasks
<1>2. ASSUME NEW k \in Notes, StoreNote(k) PROVE TypeOK'
  <2>1. k \in Records
    BY DEF Records
  <2>. QED
    BY <1>2, <2>1, PutTypes DEF StoreNote, board, tasks
<1>3. CASE \E k \in Notes : Expire(k)
  BY <1>3 DEF Expire, Stored, board, tasks
<1>4. CASE Start
  <2>1. start' \in 0 .. MaxStarts
    BY <1>4, EngineAssumption DEF Start
  <2>. QED
    BY <1>4, <2>1 DEF Start, board, rows
<1>5. CASE Stop \/ Leave
  BY <1>5 DEF Stop, Leave, board, rows
<1>6. CASE Stopped
  <2>1. PICK w \in {"off", "cut"}, b \in {"off", "cut"} :
              /\ worker' = [worker EXCEPT ![start] = w]
              /\ filler' = [filler EXCEPT ![start] = b]
              /\ batch' = IF b = "cut" THEN batch
                          ELSE [batch EXCEPT ![start] = {}]
    BY <1>6 DEF Stopped
  <2>2. /\ worker' \in [Starts -> {"off", "idle", "work", "cut"}]
        /\ filler' \in [Starts -> {"off", "idle", "embed", "fill", "cut"}]
        /\ batch' \in [Starts -> SUBSET Records]
    BY <2>1
  <2>. QED
    BY <1>6, <2>2 DEF Stopped, board, rows
<1>7. ASSUME NEW s \in Starts, Extract(s) PROVE TypeOK'
  <2>1. CASE Claim(s)
    BY <1>7, <2>1 DEF Claim, Take, rows
  <2>2. CASE MarkDone(s)
    BY <1>7, <2>2 DEF MarkDone, Finish, Release, Onward, rows
  <2>3. CASE MarkFailed(s)
    BY <1>7, <2>3 DEF MarkFailed, GiveBack, Release, Onward, rows
  <2>4. ASSUME NEW t \in Turns, Project(s, t) PROVE TypeOK'
    BY <1>7, <2>4, PutTypes DEF Project, Deliver, Onward, rows, Records
  <2>5. ASSUME NEW t \in Turns, ProjectPartly(s, t) PROVE TypeOK'
    BY <1>7, <2>5, PutTypes DEF ProjectPartly, Onward, board, Records
  <2>6. CASE Abandon(s)
    BY <1>7, <2>6 DEF Abandon, Forget, Release, Onward, rows
  <2>. QED
    BY <1>7, <2>1, <2>2, <2>3, <2>4, <2>5, <2>6 DEF Extract
<1>8. ASSUME NEW s \in Starts, LeaseExpires(s) PROVE TypeOK'
  BY <1>8 DEF LeaseExpires, Forget, Release, rows, tasks
<1>9. ASSUME NEW s \in Starts, Backfill(s) PROVE TypeOK'
  <2>1. CASE List(s) \/ Embedded(s) \/ EmbedFails(s)
    BY <1>9, <2>1 DEF List, Listed, Oldest, Embedded, EmbedFails, board, rows
  <2>2. ASSUME NEW k \in Records, Fill(s, k) \/ FillFails(s, k) PROVE TypeOK'
    BY <1>9, <2>2 DEF Fill, FillFails, WrittenBack, board
  <2>. QED
    BY <1>9, <2>1, <2>2 DEF Backfill
<1>10. ASSUME NEW f \in Flushes, Flush(f) PROVE TypeOK'
  <2>1. CASE Call(f)
    BY <1>10, <2>1 DEF Call, Stored, Records, board, rows, tasks
  <2>2. CASE ReadExtract(f) \/ ReadEmbedding(f) \/ ReadFails(f)
    BY <1>10, <2>2
       DEF ReadExtract, ReadEmbedding, ReadFails, Ends, board, rows, tasks
  <2>. QED
    BY <1>10, <2>1, <2>2 DEF Flush
<1>11. CASE UNCHANGED vars
  BY <1>11 DEF vars, board, rows, tasks
<1>. QED
  BY <1>1, <1>2, <1>3, <1>4, <1>5, <1>6, <1>7, <1>8, <1>9, <1>10, <1>11
     DEF Next

(* The types of the engine's variables hold in every reachable state.      *)
THEOREM TypeCorrect == Spec => []TypeOK
<1>1. Init => TypeOK
  BY InitInv DEF IInv
<1>. QED
  BY <1>1, TypeStep, PTL DEF Spec

-----------------------------------------------------------------------------
(* Summaries of the steps: what happens to a job, and to the rows.         *)

(* A job keeps its state, is written, or is settled or given back by the   *)
(* one who has it; it is delivered with its row put or its promotion lost. *)
JobStep(t) ==
    \/ /\ status'[t] = status[t]
       /\ holder'[t] # Nobody => status[t] = "open"
       /\ delivered'[t] => /\ holder'[t] # Nobody
                           /\ delivered[t] \/ t \in Stored' \cup swallowed'
    \/ /\ status[t] = "absent" /\ status'[t] = "open"
       /\ holder'[t] = holder[t] /\ delivered'[t] = delivered[t]
    \/ /\ status[t] = "open" /\ status'[t] \in {"open", "failed"}
       /\ holder'[t] = Nobody /\ ~delivered'[t]
    \/ /\ status[t] = "open" /\ status'[t] = "done" /\ delivered[t]
       /\ holder'[t] = Nobody /\ ~delivered'[t]

(* Rows are never lost; a new one is flagged, and a turn's is put by the   *)
(* one who has its job.                                                    *)
RowsStep ==
    /\ Stored \subseteq Stored' /\ swallowed \subseteq swallowed'
    /\ pending \cup embedded \subseteq pending' \cup embedded'
    /\ \A k \in Stored' \ Stored :
          k \in pending' /\ (k \in Turns => holder[k] # Nobody)

LEMMA PutRow ==
    ASSUME TypeOK, NEW k \in Records, Put(k)
    PROVE  /\ Stored' = Stored \cup {k} /\ k \in pending'
           /\ pending \cup embedded \subseteq pending' \cup embedded'
<1>1. 1 + Cardinality(Stored) > 0
  BY StoredIsFinite
<1>. QED
  BY <1>1 DEF Put, Stored, TypeOK

LEMMA SameRows == createdAt' = createdAt => Stored' = Stored
BY DEF Stored

LEMMA SameBoard ==
    ASSUME BoardInv, UNCHANGED board
    PROVE  \A t \in Turns : JobStep(t)
BY DEF BoardInv, JobStep, board

LEMMA StepSummary ==
    IInv /\ [Next]_vars => RowsStep /\ \A t \in Turns : JobStep(t)
<1>. SUFFICES ASSUME IInv, [Next]_vars
              PROVE  RowsStep /\ \A t \in Turns : JobStep(t)
  OBVIOUS
<1>. DEFINE Goal == RowsStep /\ \A t \in Turns : JobStep(t)
<1>i. TypeOK /\ BoardInv
  BY DEF IInv, FlushInv
<1>n. Nobody \notin Starts
  BY EngineAssumption
<1>1. ASSUME NEW t \in Turns, WriteTurn(t) PROVE Goal
  <2>1. RowsStep
    BY <1>1, SameRows DEF WriteTurn, rows, RowsStep
  <2>2. \A u \in Turns : JobStep(u)
    BY <1>1, <1>i
       DEF WriteTurn, Submit, BoardInv, JobStep, TypeOK, BoardTypeOK
  <2>. QED
    BY <2>1, <2>2
<1>2. ASSUME NEW k \in Notes, StoreNote(k) PROVE Goal
  <2>1. k \in Records /\ k \notin Turns
    BY EngineAssumption DEF Records
  <2>2. RowsStep
    BY <1>2, <1>i, <2>1, PutRow DEF StoreNote, RowsStep
  <2>. QED
    BY <1>2, <1>i, <2>2, SameBoard DEF StoreNote
<1>3. CASE \E k \in Notes : Expire(k)
  BY <1>3, <1>i, SameBoard, SameRows DEF Expire, RowsStep
<1>4. CASE Start \/ Stop \/ Leave \/ Stopped
  BY <1>4, <1>i, SameBoard, SameRows
     DEF Start, Stop, Leave, Stopped, rows, RowsStep
<1>5. ASSUME NEW s \in Starts, Extract(s) PROVE Goal
  <2>1. CASE Claim(s)
    <3>1. RowsStep
      BY <2>1, SameRows DEF Claim, rows, RowsStep
    <3>2. \A t \in Turns : JobStep(t)
      BY <2>1, <1>i, <1>5, <1>n
         DEF Claim, Take, Free, BoardInv, JobStep, TypeOK, BoardTypeOK
    <3>. QED
      BY <3>1, <3>2
  <2>2. CASE MarkDone(s)
    <3>1. RowsStep
      BY <2>2, SameRows DEF MarkDone, rows, RowsStep
    <3>2. \A t \in Turns : JobStep(t)
      BY <2>2, <1>i, <1>5, <1>n
         DEF MarkDone, Finish, Release, Custody, BoardInv, JobStep, TypeOK,
             BoardTypeOK
    <3>. QED
      BY <3>1, <3>2
  <2>3. CASE MarkFailed(s)
    <3>1. RowsStep
      BY <2>3, SameRows DEF MarkFailed, rows, RowsStep
    <3>2. \A t \in Turns : JobStep(t)
      BY <2>3, <1>i, <1>5, <1>n
         DEF MarkFailed, GiveBack, Release, Custody, BoardInv, JobStep,
             TypeOK, BoardTypeOK
    <3>. QED
      BY <3>1, <3>2
  <2>4. ASSUME NEW t \in Turns, Project(s, t) PROVE Goal
    <3>1. t \in Records /\ holder[t] # Nobody
      BY <2>4, <1>5, <1>n DEF Records, Project, Deliver
    <3>2. RowsStep /\ t \in Stored' \cup swallowed'
      BY <2>4, <3>1, <1>i, PutRow, SameRows DEF Project, rows, RowsStep
    <3>3. \A u \in Turns : JobStep(u)
      BY <2>4, <3>1, <3>2, <1>i
         DEF Project, Deliver, BoardInv, JobStep, TypeOK, BoardTypeOK
    <3>. QED
      BY <3>2, <3>3
  <2>5. ASSUME NEW t \in Turns, ProjectPartly(s, t) PROVE Goal
    <3>1. t \in Records /\ holder[t] # Nobody
      BY <2>5, <1>5, <1>n DEF Records, ProjectPartly
    <3>2. RowsStep
      BY <2>5, <3>1, <1>i, PutRow DEF ProjectPartly, RowsStep
    <3>. QED
      BY <2>5, <3>2, <1>i, SameBoard DEF ProjectPartly
  <2>6. CASE Abandon(s)
    <3>1. RowsStep
      BY <2>6, SameRows DEF Abandon, rows, RowsStep
    <3>2. \A t \in Turns : JobStep(t)
      BY <2>6, <1>i
         DEF Abandon, Forget, Release, Custody, BoardInv, JobStep, TypeOK,
             BoardTypeOK
    <3>. QED
      BY <3>1, <3>2
  <2>. QED
    BY <1>5, <2>1, <2>2, <2>3, <2>4, <2>5, <2>6 DEF Extract
<1>6. ASSUME NEW s \in Starts, LeaseExpires(s) PROVE Goal
  <2>1. RowsStep
    BY <1>6, SameRows DEF LeaseExpires, rows, RowsStep
  <2>2. \A t \in Turns : JobStep(t)
    BY <1>6, <1>i
       DEF LeaseExpires, Forget, Release, Custody, BoardInv, JobStep, TypeOK,
           BoardTypeOK
  <2>. QED
    BY <2>1, <2>2
<1>7. ASSUME NEW s \in Starts, Backfill(s) PROVE Goal
  <2>1. CASE List(s) \/ Embedded(s) \/ EmbedFails(s)
    BY <2>1, <1>i, SameBoard, SameRows
       DEF List, Embedded, EmbedFails, rows, RowsStep
  <2>2. ASSUME NEW k \in Records, Fill(s, k) \/ FillFails(s, k) PROVE Goal
    BY <2>2, <1>i, SameBoard, SameRows
       DEF Fill, FillFails, WrittenBack, RowsStep
  <2>. QED
    BY <1>7, <2>1, <2>2 DEF Backfill
<1>8. ASSUME NEW f \in Flushes, Flush(f) PROVE Goal
  BY <1>8, <1>i, SameBoard, SameRows
     DEF Flush, Call, ReadExtract, ReadEmbedding, ReadFails, rows, RowsStep
<1>9. CASE UNCHANGED vars
  BY <1>9, <1>i, SameBoard, SameRows DEF vars, rows, RowsStep
<1>. QED
  BY <1>1, <1>2, <1>3, <1>4, <1>5, <1>6, <1>7, <1>8, <1>9 DEF Next

-----------------------------------------------------------------------------
(* The invariant is preserved.                                             *)

(* What a step does to a flush: nothing, a call, or one of the reads.      *)
LEMMA FlushSteps ==
    ASSUME TypeOK, [Next]_vars, NEW f \in Flushes
    PROVE  \/ flush'[f] = flush[f] /\ due'[f] = due[f]
           \/ Call(f) \/ ReadExtract(f) \/ ReadEmbedding(f) \/ ReadFails(f)
<1>1. CASE UNCHANGED <<flush, due>>
  BY <1>1
<1>2. ASSUME NEW g \in Flushes, g # f, Flush(g)
      PROVE  flush'[f] = flush[f] /\ due'[f] = due[f]
  BY <1>2 DEF Flush, Call, ReadExtract, ReadEmbedding, ReadFails, Ends, TypeOK
<1>3. \/ UNCHANGED <<flush, due>>
      \/ \E g \in Flushes : Flush(g)
  BY DEF Next, vars, WriteTurn, StoreNote, Expire, Start, Stop, Leave, Stopped,
         Extract, Claim, Project, ProjectPartly, MarkDone, MarkFailed, Abandon,
         Onward, LeaseExpires, Backfill, List, Embedded, EmbedFails, Fill, FillFails,
         WrittenBack
<1>. QED
  BY <1>1, <1>2, <1>3 DEF Flush

LEMMA InvStep == IInv /\ [Next]_vars => IInv'
<1>. SUFFICES ASSUME IInv, [Next]_vars PROVE IInv'
  OBVIOUS
<1>1. TypeOK /\ TypeOK'
  BY TypeStep DEF IInv
<1>2. RowsStep /\ \A t \in Turns : JobStep(t)
  BY StepSummary
<1>. USE DEF IInv, FlushInv
<1>3. BoardInv'
  BY <1>1, <1>2 DEF BoardInv, JobStep, TypeOK, BoardTypeOK
<1>4. FlagTells'
  BY <1>2 DEF FlagTells, RowsStep
<1>5. RowsFromJobs'
  <2>1. ASSUME NEW t \in Turns, t \in Stored' PROVE status'[t] # "absent"
    BY <1>2, <2>1 DEF RowsFromJobs, RowsStep, BoardInv, JobStep
  <2>2. ASSUME NEW t \in Turns, delivered'[t] \/ status'[t] = "done"
        PROVE  t \in Stored' \cup swallowed'
    BY <1>2, <2>2 DEF RowsFromJobs, RowsStep, JobStep
  <2>. QED
    BY <2>1, <2>2 DEF RowsFromJobs
<1>6. DueWritten'
  <2>1. \A t \in Turns : status[t] # "absent" => status'[t] # "absent"
    BY <1>2 DEF JobStep
  <2>. SUFFICES ASSUME NEW f \in Flushes
                PROVE  due'[f] \subseteq
                         {t \in Turns : status'[t] # "absent"} \cup Stored'
    BY DEF DueWritten
  <2>2. CASE due'[f] \subseteq due[f]
    BY <1>2, <2>1, <2>2 DEF DueWritten, RowsStep
  <2>3. CASE Call(f)
    BY <1>1, <1>2, <2>1, <2>3 DEF Call, RowsStep, TypeOK
  <2>4. due'[f] \subseteq due[f] \/ Call(f)
    BY <1>1, FlushSteps
       DEF ReadExtract, ReadEmbedding, ReadFails, Ends, TypeOK
  <2>. QED
    BY <2>2, <2>3, <2>4
<1>7. IdleSettled'
  <2>1. \A t \in Turns : status[t] \in {"done", "failed"}
                            => status'[t] = status[t]
    BY <1>2 DEF JobStep
  <2>. SUFFICES ASSUME NEW f \in Flushes, flush'[f] = "idle",
                       NEW t \in Turns, t \in due'[f]
                PROVE  status'[t] \in {"done", "failed"}
    BY DEF IdleSettled
  <2>2. CASE flush'[f] = flush[f] /\ due'[f] = due[f]
    BY <2>1, <2>2 DEF IdleSettled
  <2>3. CASE ReadExtract(f)
    <3>1. InFlight = {} /\ due' = due /\ status' = status
      BY <1>1, <2>3 DEF ReadExtract, board, TypeOK
    <3>2. status[t] # "absent"
      BY <3>1 DEF DueWritten, RowsFromJobs
    <3>. QED
      BY <1>1, <3>1, <3>2 DEF InFlight, TypeOK, BoardTypeOK
  <2>4. ~(Call(f) \/ ReadEmbedding(f) \/ ReadFails(f))
    BY <1>1 DEF Call, ReadEmbedding, ReadFails, Ends, TypeOK
  <2>. QED
    BY <1>1, <2>2, <2>3, <2>4, FlushSteps
<1>. QED
  BY <1>1, <1>3, <1>4, <1>5, <1>6, <1>7

-----------------------------------------------------------------------------
(* What flush was called to wait for is settled when it returns, for any   *)
(* number of turns, records and concurrent flushes.                        *)
THEOREM FlushIsTruthful == Spec => FlushTellsTruth
<1>1. Init => IInv
  BY InitInv
<1>2. IInv /\ [Next]_vars => IInv'
  BY InvStep
<1>3. ASSUME IInv, [Next]_vars, NEW f \in Flushes,
             flush[f] # "returned", flush'[f] = "returned",
             pending \cap expired = {}, NEW k \in due[f]
      PROVE  Settled(k)
  <2>. USE DEF IInv, FlushInv
  <2>1. flush[f] = "idle" /\ Listed(1) = {}
    BY <1>3, FlushSteps
       DEF Call, ReadExtract, ReadEmbedding, ReadFails, Ends, TypeOK
  <2>2. pending = {}
    BY <1>3, <2>1, OldestExists DEF Listed, Oldest
  <2>3. k \in Turns => status[k] \in {"done", "failed"}
    BY <1>3, <2>1 DEF IdleSettled
  <2>4. k \in Stored => k \in embedded
    BY <1>3, <2>2 DEF FlagTells
  <2>5. k \in Turns \/ k \in Stored
    BY <1>3 DEF DueWritten
  <2>6. k \in Turns /\ status[k] = "done" => k \in Stored \cup swallowed
    BY <1>3 DEF RowsFromJobs
  <2>. QED
    BY <2>3, <2>4, <2>5, <2>6 DEF Settled
<1>4. IInv /\ [Next]_vars =>
        [\A f \in Flushes :
            /\ flush[f] # "returned" /\ flush'[f] = "returned"
            /\ pending \cap expired = {}
            => \A k \in due[f] : Settled(k)]_vars
  BY <1>3
<1>. QED
  BY <1>1, <1>2, <1>4, PTL DEF Spec, FlushTellsTruth

=============================================================================
