------------------------- MODULE ExtractQueueProofs -------------------------
(***************************************************************************)
(* Proofs about ExtractQueue for any turns, workers, batch size, attempt   *)
(* limit and pins: type correctness, the accounting of attempts, and, when *)
(* leases outlast extractions, that a job has one holder and that a        *)
(* settled job stays settled.                                              *)
(***************************************************************************)
EXTENDS ExtractQueue, WellFoundedInduction, TLAPS

(* A nonempty set of naturals has a least element. *)
LEMMA LeastNatural ==
    ASSUME NEW T \in SUBSET Nat, T # {}
    PROVE  \E x \in T : \A y \in T : x <= y
<1> DEFINE R == OpToRel(<, Nat)
<1>1. IsWellFoundedOn(R, Nat)
  BY NatLessThanWellFounded
<1>2. \A x, y \in Nat : (<<y, x>> \in R) <=> y < x
  BY DEF OpToRel
<1> HIDE DEF R
<1>3. PICK x \in T : \A y \in T : ~ (<<y, x>> \in R)
  BY <1>1, WFMin
<1>4. ASSUME NEW y \in T PROVE x <= y
  <2>1. x \in Nat /\ y \in Nat
    OBVIOUS
  <2>2. ~ (y < x)
    BY <1>2, <1>3, <2>1
  <2> QED
    BY <2>1, <2>2
<1> QED
  BY <1>4

(* OldestOf picks a member of any nonempty set of turns. *)
LEMMA OldestIsMember ==
    ASSUME TypeOK, NEW T \in SUBSET Turns, T # {}
    PROVE  OldestOf(T) \in T
<1> DEFINE Ranks == {enqueuedAt[t] : t \in T}
<1>1. Ranks \in SUBSET Nat /\ Ranks # {}
  BY DEF TypeOK
<1> HIDE DEF Ranks
<1>2. PICK x \in Ranks : \A y \in Ranks : x <= y
  BY <1>1, LeastNatural
<1>3. PICK t \in T : \A u \in T : enqueuedAt[t] <= enqueuedAt[u]
  BY <1>2 DEF Ranks
<1> QED
  BY <1>3 DEF OldestOf

-----------------------------------------------------------------------------
(* A worker between claims holds nothing; one with an extraction to do or  *)
(* a result to project has the job of it; nothing projected is left        *)
(* unmarked when it extracts again or reports its failures.                *)
Shape ==
    \A w \in Workers :
        /\ pc[w] = "idle" => Held(w) = {}
        /\ pc[w] \in {"extract", "project"} => todo[w] # {}
        /\ pc[w] = "extract" => failedItems[w] = {}
        /\ pc[w] \in {"extract", "mark_failed"} => doneIds[w] = {}
        /\ pc[w] = "mark_done" => doneIds[w] # {}

TypeInv == TypeOK /\ Shape

LEMMA InitTypeInv == Init => TypeInv
  BY ConfigAssumption DEF Init, TypeInv, TypeOK, Shape, Held, JobStates, PCs

LEMMA ClaimTypeInv ==
    ASSUME TypeInv, NEW w \in Workers, Claim(w) PROVE TypeInv'
<1> USE DEF TypeInv
<1>1. PICK S \in SUBSET Eligible(w) :
        /\ state' = [t \in Turns |->
                        IF t \notin S THEN state[t]
                        ELSE IF t \in log THEN "in_progress" ELSE "failed"]
        /\ attempts' = [t \in Turns |->
                        IF t \in S THEN attempts[t] + 1 ELSE attempts[t]]
        /\ leaseOver' = [t \in Turns |-> leaseOver[t] /\ t \notin S]
        /\ lost' = [t \in Turns |->
                        IF t \in S /\ state[t] = "in_progress"
                        THEN lost[t] + 1 ELSE lost[t]]
        /\ todo' = [todo EXCEPT ![w] = S \cap log]
        /\ pc' = [pc EXCEPT ![w] =
                        IF S \cap log = {} THEN "idle" ELSE "extract"]
  BY DEF Claim
<1>2. S \subseteq Turns
  BY DEF Eligible
<1>3. TypeOK'
  BY <1>1, <1>2 DEF Claim, TypeOK, JobStates, PCs
<1>4. Shape'
  BY <1>1, <1>2 DEF Claim, TypeOK, Shape, Held
<1> QED
  BY <1>3, <1>4

LEMMA WorkTypeInv ==
    ASSUME TypeInv, NEW w \in Workers,
           \/ ExtractDone(w) \/ ExtractFails(w) \/ ProjectOk(w)
           \/ ProjectFails(w) \/ MarkDone(w) \/ MarkFailed(w) \/ Abandon(w)
    PROVE  TypeInv'
<1> USE ConfigAssumption DEF TypeInv
<1> DEFINE t == OldestOf(todo[w])
<1>0. pc[w] \in {"extract", "project"} => t \in todo[w] /\ t \in Turns
  BY OldestIsMember DEF TypeOK, Shape
<1>1. CASE ExtractDone(w)
  BY <1>1 DEF ExtractDone, TypeOK, Shape, Held, PCs, store, history
<1>2. CASE ExtractFails(w)
  <2>1. InHand(w) \subseteq todo[w]
    BY <1>0, <1>2 DEF InHand, ExtractFails
  <2> QED
    BY <1>2, <2>1
    DEF ExtractFails, TypeOK, Shape, Held, PCs, store, history
<1>3. CASE ProjectOk(w)
  <2> DEFINE next == AfterProject(w, doneIds[w] \cup {t}, failedItems[w])
  <2>1. /\ next \in PCs /\ next \notin {"idle", "extract", "mark_failed"}
        /\ next = "project" => todo[w] # {t}
    BY DEF AfterProject, PCs
  <2>2. TypeOK'
    BY <1>0, <1>3, <2>1 DEF ProjectOk, TypeOK, store, LockAfter
  <2>3. Shape'
    BY <1>0, <1>3, <2>1 DEF ProjectOk, TypeOK, Shape, Held, store
  <2> QED
    BY <2>2, <2>3
<1>4. CASE ProjectFails(w)
  <2> DEFINE next == AfterProject(w, doneIds[w], failedItems[w] \cup {t})
  <2>1. /\ next \in PCs /\ next \notin {"idle", "extract"}
        /\ next = "project" => todo[w] # {t}
        /\ next = "mark_failed" => doneIds[w] = {}
        /\ next = "mark_done" => doneIds[w] # {}
    BY DEF AfterProject, PCs
  <2>2. TypeOK'
    BY <1>0, <1>4, <2>1 DEF ProjectFails, TypeOK, store, history, LockAfter
  <2>3. Shape'
    BY <1>0, <1>4, <2>1 DEF ProjectFails, TypeOK, Shape, Held, store
  <2> QED
    BY <2>2, <2>3
<1>5. CASE MarkDone(w)
  <2>1. TypeOK'
    BY <1>5 DEF MarkDone, TypeOK, AfterMark, Unlock, PCs, JobStates
  <2>2. Shape'
    BY <1>5 DEF MarkDone, TypeOK, Shape, Held, AfterMark
  <2> QED
    BY <2>1, <2>2
<1>6. CASE MarkFailed(w)
  <2>1. TypeOK'
    BY <1>6 DEF MarkFailed, TypeOK, AfterMark, Unlock, PCs, JobStates,
                StateAfterFailure
  <2>2. Shape'
    BY <1>6 DEF MarkFailed, TypeOK, Shape, Held, AfterMark
  <2> QED
    BY <2>1, <2>2
<1>7. CASE Abandon(w)
  BY <1>7 DEF Abandon, TypeOK, Shape, Held, Unlock, PCs, store
<1> QED
  BY <1>1, <1>2, <1>3, <1>4, <1>5, <1>6, <1>7

LEMMA TurnTypeInv ==
    ASSUME TypeInv, NEW t \in Turns,
           \/ WriteTurn(t) \/ LogTurn(t) \/ ScheduleExtract(t)
           \/ LoseTurn(t) \/ LeaseExpires(t)
    PROVE  TypeInv'
<1> USE DEF TypeInv, TypeOK, Shape, Held, worker, history
<1>1. CASE WriteTurn(t)
  BY <1>1 DEF WriteTurn, InsertJob, JobStates
<1>2. CASE LogTurn(t)
  BY <1>2 DEF LogTurn
<1>3. CASE ScheduleExtract(t)
  BY <1>3 DEF ScheduleExtract, InsertJob, JobStates
<1>4. CASE LoseTurn(t)
  BY <1>4 DEF LoseTurn
<1>5. CASE LeaseExpires(t)
  BY <1>5 DEF LeaseExpires
<1> QED
  BY <1>1, <1>2, <1>3, <1>4, <1>5

LEMMA NextTypeInv == TypeInv /\ [Next]_vars => TypeInv'
<1> SUFFICES ASSUME TypeInv, [Next]_vars PROVE TypeInv'
  OBVIOUS
<1>1. CASE UNCHANGED vars
  BY <1>1 DEF vars, store, worker, history, TypeInv, TypeOK, Shape, Held
<1>2. CASE Next
  BY <1>2, ClaimTypeInv, WorkTypeInv, TurnTypeInv DEF Next, Work
<1> QED
  BY <1>1, <1>2

LEMMA TypeInvariant == Spec => []TypeInv
  BY InitTypeInv, NextTypeInv, PTL DEF Spec

(* Every variable keeps the shape the tables and the worker give it. *)
THEOREM TypeCorrect == Spec => []TypeOK
  BY TypeInvariant, PTL DEF TypeInv

-----------------------------------------------------------------------------
(* The books of a job: an unqueued one has no attempts, a pending one has  *)
(* some left, what a worker is about to mark done has been projected.      *)
Books ==
    /\ \A t \in Turns : state[t] = "absent" => attempts[t] = 0
    /\ \A t \in Turns : state[t] = "pending" => attempts[t] < MaxAttempts
    /\ \A w \in Workers : \A t \in doneIds[w] : projections[t] > 0
    /\ DoneWasProjected
    /\ FailedIsExhausted
    /\ AttemptsWithinBudget

LEMMA InitBooks == Init => Books
  BY ConfigAssumption DEF Init, Books, DoneWasProjected, FailedIsExhausted,
                          AttemptsWithinBudget

LEMMA ClaimBooks ==
    ASSUME TypeInv, Books, NEW w \in Workers, Claim(w) PROVE Books'
<1> USE ConfigAssumption DEF TypeInv, TypeOK
<1>1. PICK S \in SUBSET Eligible(w) :
        /\ state' = [t \in Turns |->
                        IF t \notin S THEN state[t]
                        ELSE IF t \in log THEN "in_progress" ELSE "failed"]
        /\ attempts' = [t \in Turns |->
                        IF t \in S THEN attempts[t] + 1 ELSE attempts[t]]
        /\ lost' = [t \in Turns |->
                        IF t \in S /\ state[t] = "in_progress"
                        THEN lost[t] + 1 ELSE lost[t]]
  BY DEF Claim
<1>2. UNCHANGED <<log, doneIds, projections>>
  BY DEF Claim
<1>3. \A t \in S : t \in Turns /\ state[t] \in {"pending", "in_progress"}
  BY DEF Eligible
<1>4. AttemptsWithinBudget'
  <2> SUFFICES ASSUME NEW t \in Turns
               PROVE  attempts'[t] <= MaxAttempts + lost'[t]
    BY DEF AttemptsWithinBudget
  <2>1. attempts[t] \in Nat /\ lost[t] \in Nat /\ MaxAttempts \in Nat
    OBVIOUS
  <2>2. CASE t \in S /\ state[t] = "pending"
    <3>1. attempts[t] < MaxAttempts
      BY <2>2 DEF Books
    <3> QED
      BY <1>1, <2>1, <2>2, <3>1
  <2>3. CASE t \in S /\ state[t] = "in_progress"
    <3>1. attempts[t] <= MaxAttempts + lost[t]
      BY DEF Books, AttemptsWithinBudget
    <3> QED
      BY <1>1, <2>1, <2>3, <3>1
  <2>4. CASE t \notin S
    BY <1>1, <2>4 DEF Books, AttemptsWithinBudget
  <2> QED
    BY <1>3, <2>2, <2>3, <2>4
<1>5. FailedIsExhausted'
  BY <1>1, <1>2 DEF Books, FailedIsExhausted
<1>6. DoneWasProjected'
  BY <1>1, <1>2 DEF Books, DoneWasProjected
<1> QED
  BY <1>1, <1>2, <1>3, <1>4, <1>5, <1>6 DEF Books

LEMMA WorkBooks ==
    ASSUME TypeInv, Books, NEW w \in Workers,
           \/ ExtractDone(w) \/ ExtractFails(w) \/ ProjectOk(w)
           \/ ProjectFails(w) \/ MarkDone(w) \/ MarkFailed(w) \/ Abandon(w)
    PROVE  Books'
<1> USE ConfigAssumption DEF TypeInv, TypeOK, Books, DoneWasProjected,
                             FailedIsExhausted, AttemptsWithinBudget
<1>1. CASE ExtractDone(w)
  BY <1>1 DEF ExtractDone, store, history
<1>2. CASE ExtractFails(w)
  BY <1>2 DEF ExtractFails, store, history
<1>3. CASE ProjectOk(w)
  <2> DEFINE t == OldestOf(todo[w])
  <2>1. t \in Turns
    BY <1>3, OldestIsMember DEF ProjectOk, Shape
  <2>2. \A u \in Turns : /\ projections'[u] \in Nat
                          /\ projections'[u] >= projections[u]
    BY <1>3, <2>1 DEF ProjectOk
  <2>3. projections'[t] > 0
    BY <1>3, <2>1 DEF ProjectOk
  <2>4. UNCHANGED <<log, state, attempts, lost>>
    BY <1>3 DEF ProjectOk, store
  <2>5. \A v \in Workers : doneIds'[v] \subseteq doneIds[v] \cup {t}
    BY <1>3 DEF ProjectOk
  <2>6. ASSUME NEW v \in Workers, NEW u \in doneIds'[v]
        PROVE  projections'[u] > 0
    <3>1. u \in Turns /\ (u \in doneIds[v] \/ u = t)
      BY <2>1, <2>5
    <3>2. CASE u = t
      BY <2>3, <3>2
    <3>3. CASE u \in doneIds[v]
      <4>1. projections[u] > 0 /\ projections[u] \in Nat
        BY <3>1, <3>3
      <4> QED
        BY <2>2, <3>1, <4>1
    <3> QED
      BY <3>1, <3>2, <3>3
  <2>7. DoneWasProjected'
    BY <2>2, <2>4
  <2> QED
    BY <2>4, <2>6, <2>7
<1>4. CASE ProjectFails(w)
  BY <1>4 DEF ProjectFails, store, history
<1>5. CASE MarkDone(w)
  BY <1>5 DEF MarkDone
<1>6. CASE MarkFailed(w)
  BY <1>6 DEF MarkFailed, StateAfterFailure
<1>7. CASE Abandon(w)
  BY <1>7 DEF Abandon, store
<1> QED
  BY <1>1, <1>2, <1>3, <1>4, <1>5, <1>6, <1>7

LEMMA TurnBooks ==
    ASSUME TypeInv, Books, NEW t \in Turns,
           \/ WriteTurn(t) \/ LogTurn(t) \/ ScheduleExtract(t)
           \/ LoseTurn(t) \/ LeaseExpires(t)
    PROVE  Books'
<1> USE ConfigAssumption DEF TypeInv, TypeOK, Books, DoneWasProjected,
                FailedIsExhausted, AttemptsWithinBudget, worker, history
<1>1. CASE WriteTurn(t)
  BY <1>1 DEF WriteTurn, InsertJob
<1>2. CASE LogTurn(t)
  BY <1>2 DEF LogTurn
<1>3. CASE ScheduleExtract(t)
  BY <1>3 DEF ScheduleExtract, InsertJob
<1>4. CASE LoseTurn(t)
  BY <1>4 DEF LoseTurn
<1>5. CASE LeaseExpires(t)
  BY <1>5 DEF LeaseExpires
<1> QED
  BY <1>1, <1>2, <1>3, <1>4, <1>5

LEMMA NextBooks == TypeInv /\ Books /\ [Next]_vars => Books'
<1> SUFFICES ASSUME TypeInv, Books, [Next]_vars PROVE Books'
  OBVIOUS
<1>1. CASE UNCHANGED vars
  BY <1>1 DEF vars, store, worker, history, Books, DoneWasProjected,
              FailedIsExhausted, AttemptsWithinBudget
<1>2. CASE Next
  BY <1>2, ClaimBooks, WorkBooks, TurnBooks DEF Next, Work
<1> QED
  BY <1>1, <1>2

LEMMA BooksInvariant == Spec => []Books
<1>1. Init => Books
  BY InitBooks
<1>2. TypeInv /\ Books /\ [Next]_vars => Books'
  BY NextBooks
<1> QED
  BY <1>1, <1>2, TypeInvariant, PTL DEF Spec

(* A done job was projected by some worker, whatever crashed and whoever   *)
(* overstayed a lease.                                                     *)
THEOREM NoTurnDropped == Spec => []DoneWasProjected
  BY BooksInvariant, PTL DEF Books

(* No job is given up before its attempts are used up, unless its turn has *)
(* vanished.                                                               *)
THEOREM NoEarlyParking == Spec => []FailedIsExhausted
  BY BooksInvariant, PTL DEF Books

(* The number of claims of a job is bounded by the attempt limit and the   *)
(* number of claims lost to expired leases.                                *)
THEOREM AttemptsBounded == Spec => []AttemptsWithinBudget
  BY BooksInvariant, PTL DEF Books

-----------------------------------------------------------------------------
(* The lists of a worker do not overlap. *)
Sorted ==
    \A w \in Workers : /\ todo[w] \cap doneIds[w] = {}
                       /\ todo[w] \cap failedItems[w] = {}
                       /\ doneIds[w] \cap failedItems[w] = {}

(* When leases outlast extractions, a held job is in progress under a      *)
(* running lease and has a single holder.                                  *)
OneHolder ==
    /\ \A w \in Workers : \A t \in Held(w) :
          state[t] = "in_progress" /\ ~leaseOver[t]
    /\ \A v, w \in Workers : v # w => Held(v) \cap Held(w) = {}

LEMMA InitOneHolder == Init => Sorted /\ OneHolder
  BY DEF Init, Sorted, OneHolder, Held

LEMMA ClaimOneHolder ==
    ASSUME TypeInv, OneHolder, NEW w \in Workers, Claim(w) PROVE OneHolder'
<1> USE DEF TypeInv, TypeOK
<1>1. PICK S \in SUBSET Eligible(w) :
        /\ state' = [t \in Turns |->
                        IF t \notin S THEN state[t]
                        ELSE IF t \in log THEN "in_progress" ELSE "failed"]
        /\ leaseOver' = [t \in Turns |-> leaseOver[t] /\ t \notin S]
        /\ todo' = [todo EXCEPT ![w] = S \cap log]
  BY DEF Claim
<1>2. UNCHANGED <<doneIds, failedItems>> /\ Held(w) = {}
  BY DEF Claim, Shape
<1>3. Held(w)' = S \cap log
  BY <1>1, <1>2 DEF Held
<1>4. \A v \in Workers : v # w => Held(v)' = Held(v)
  BY <1>1, <1>2 DEF Held
<1>5. \A v \in Workers : v # w => Held(v) \cap S = {}
  BY DEF OneHolder, Eligible
<1>6. \A t \in S : t \in Turns
  BY DEF Eligible
<1>7. ASSUME NEW v \in Workers, NEW t \in Held(v)'
      PROVE  state'[t] = "in_progress" /\ ~leaseOver'[t]
  <2>1. t \in Turns
    BY <1>3, <1>4, <1>6 DEF Held
  <2>2. CASE v = w
    BY <1>1, <1>3, <2>1, <2>2
  <2>3. CASE v # w
    BY <1>1, <1>4, <1>5, <2>1, <2>3 DEF OneHolder
  <2> QED
    BY <2>2, <2>3
<1>8. ASSUME NEW u \in Workers, NEW v \in Workers, u # v
      PROVE  Held(u)' \cap Held(v)' = {}
  BY <1>3, <1>4, <1>5, <1>8 DEF OneHolder
<1> QED
  BY <1>7, <1>8 DEF OneHolder

(* A worker's own steps never give it a job, and change the row of a job   *)
(* only as they let go of it.                                              *)
LEMMA WorkOneHolder ==
    ASSUME TypeInv, Sorted, OneHolder, NEW w \in Workers,
           \/ ExtractDone(w) \/ ExtractFails(w) \/ ProjectOk(w)
           \/ ProjectFails(w) \/ MarkDone(w) \/ MarkFailed(w) \/ Abandon(w)
    PROVE  /\ Sorted' /\ OneHolder'
           /\ \A t \in Turns : t \notin Held(w) => state'[t] = state[t]
<1> USE DEF TypeInv, TypeOK
<1>0. pc[w] = "project" => OldestOf(todo[w]) \in todo[w]
  BY OldestIsMember DEF Shape
<1> DEFINE SameRow(t) == /\ state'[t] = state[t]
                         /\ leaseOver'[t] => leaseOver[t]
<1>1. /\ Held(w)' \subseteq Held(w)
      /\ \A v \in Workers : v # w => Held(v)' = Held(v)
  <2>1. CASE ExtractDone(w)
    BY <2>1 DEF ExtractDone, Held
  <2>2. CASE ExtractFails(w)
    <3>1. InHand(w) \subseteq todo[w]
      BY <2>2, OldestIsMember DEF InHand, ExtractFails, Shape
    <3> QED
      BY <2>2, <3>1 DEF ExtractFails, Held
  <2>3. CASE ProjectOk(w)
    BY <1>0, <2>3 DEF ProjectOk, Held
  <2>4. CASE ProjectFails(w)
    BY <1>0, <2>4 DEF ProjectFails, Held
  <2>5. CASE MarkDone(w)
    BY <2>5 DEF MarkDone, Held
  <2>6. CASE MarkFailed(w)
    BY <2>6 DEF MarkFailed, Held
  <2>7. CASE Abandon(w)
    BY <2>7 DEF Abandon, Held
  <2> QED
    BY <2>1, <2>2, <2>3, <2>4, <2>5, <2>6, <2>7
<1>2. Sorted'
  <2>1. CASE ExtractDone(w)
    BY <2>1 DEF ExtractDone, Sorted
  <2>2. CASE ExtractFails(w)
    <3>1. InHand(w) \subseteq todo[w]
      BY <2>2, OldestIsMember DEF InHand, ExtractFails, Shape
    <3>2. doneIds[w] = {}
      BY <2>2 DEF ExtractFails, Shape
    <3> QED
      BY <2>2, <3>1, <3>2 DEF ExtractFails, Sorted
  <2>3. CASE ProjectOk(w)
    BY <1>0, <2>3 DEF ProjectOk, Sorted
  <2>4. CASE ProjectFails(w)
    BY <1>0, <2>4 DEF ProjectFails, Sorted
  <2>5. CASE MarkDone(w)
    BY <2>5 DEF MarkDone, Sorted
  <2>6. CASE MarkFailed(w)
    BY <2>6 DEF MarkFailed, Sorted
  <2>7. CASE Abandon(w)
    BY <2>7 DEF Abandon, Sorted
  <2> QED
    BY <2>1, <2>2, <2>3, <2>4, <2>5, <2>6, <2>7
<1>3. \A t \in Turns : SameRow(t) \/ (t \in Held(w) /\ t \notin Held(w)')
  <2>1. CASE MarkDone(w)
    <3>1. \A t \in doneIds[w] : t \in Held(w) /\ t \notin Held(w)'
      BY <2>1 DEF MarkDone, Sorted, Held
    <3>2. \A t \in Turns : t \notin doneIds[w] => SameRow(t)
      BY <2>1 DEF MarkDone
    <3> QED
      BY <3>1, <3>2
  <2>2. CASE MarkFailed(w)
    <3>1. \A t \in failedItems[w] : t \in Held(w) /\ t \notin Held(w)'
      BY <2>2 DEF MarkFailed, Sorted, Held
    <3>2. \A t \in Turns : t \notin failedItems[w] => SameRow(t)
      BY <2>2 DEF MarkFailed
    <3> QED
      BY <3>1, <3>2
  <2>3. CASE ~ (MarkDone(w) \/ MarkFailed(w))
    <3>1. UNCHANGED store
      BY <2>3 DEF ExtractDone, ExtractFails, ProjectOk, ProjectFails, Abandon
    <3> QED
      BY <3>1 DEF store
  <2> QED
    BY <2>1, <2>2, <2>3
<1>4. ASSUME NEW v \in Workers, NEW t \in Held(v)'
      PROVE  state'[t] = "in_progress" /\ ~leaseOver'[t]
  <2>1. t \in Held(v)
    BY <1>1
  <2>2. t \in Turns
    BY <2>1 DEF Held
  <2>3. t \in Held(w) => t \in Held(w)'
    BY <1>1, <2>1 DEF OneHolder
  <2> QED
    BY <1>3, <2>1, <2>2, <2>3 DEF OneHolder
<1>5. ASSUME NEW u \in Workers, NEW v \in Workers, u # v
      PROVE  Held(u)' \cap Held(v)' = {}
  BY <1>1, <1>5 DEF OneHolder
<1>6. OneHolder'
  BY <1>4, <1>5 DEF OneHolder
<1>7. \A t \in Turns : t \notin Held(w) => state'[t] = state[t]
  BY <1>3
<1> HIDE DEF SameRow, TypeInv, TypeOK
<1> QED
  BY <1>2, <1>6, <1>7

LEMMA TurnOneHolder ==
    ASSUME LeaseExceedsLatency, TypeInv, Sorted, OneHolder, NEW t \in Turns,
           \/ WriteTurn(t) \/ LogTurn(t) \/ ScheduleExtract(t)
           \/ LoseTurn(t) \/ LeaseExpires(t)
    PROVE  /\ Sorted' /\ OneHolder'
           /\ \A u \in Turns : state[u] # "absent" => state'[u] = state[u]
<1> USE DEF TypeInv, TypeOK
<1>1. UNCHANGED <<todo, doneIds, failedItems>>
  BY DEF WriteTurn, LogTurn, ScheduleExtract, LoseTurn, LeaseExpires, worker
<1>2. Sorted' /\ \A w \in Workers : Held(w)' = Held(w)
  BY <1>1 DEF Sorted, Held
<1>3. \A u \in Turns : state[u] # "absent" => state'[u] = state[u]
  BY DEF WriteTurn, LogTurn, ScheduleExtract, LoseTurn, LeaseExpires,
         InsertJob
<1>4. \A w \in Workers : Held(w) \subseteq Turns
  BY DEF Held
<1>5. \A w \in Workers : \A u \in Held(w) : leaseOver'[u] = leaseOver[u]
  <2>1. CASE LeaseExpires(t)
    <3>1. \A w \in Workers : t \notin Held(w)
      BY <2>1 DEF LeaseExpires
    <3> QED
      BY <1>4, <2>1, <3>1 DEF LeaseExpires
  <2>2. CASE ~ LeaseExpires(t)
    BY <2>2 DEF WriteTurn, LogTurn, ScheduleExtract, LoseTurn
  <2> QED
    BY <2>1, <2>2
<1> QED
  BY <1>2, <1>3, <1>4, <1>5 DEF OneHolder

(* A job that is done or failed is left alone by every step. *)
FinalStep ==
    \A t \in Turns : state[t] \in {"done", "failed"} => state'[t] = state[t]

LEMMA NextOneHolder ==
    ASSUME LeaseExceedsLatency, TypeInv, Sorted, OneHolder, [Next]_vars
    PROVE  Sorted' /\ OneHolder' /\ FinalStep
<1>1. CASE UNCHANGED vars
  BY <1>1 DEF vars, store, worker, Sorted, OneHolder, Held, FinalStep
<1>2. ASSUME NEW t \in Turns,
             \/ WriteTurn(t) \/ LogTurn(t) \/ ScheduleExtract(t)
             \/ LoseTurn(t) \/ LeaseExpires(t)
      PROVE  Sorted' /\ OneHolder' /\ FinalStep
  BY <1>2, TurnOneHolder DEF FinalStep
<1>3. ASSUME NEW w \in Workers, Claim(w)
      PROVE  Sorted' /\ OneHolder' /\ FinalStep
  <2>1. Sorted'
    BY <1>3 DEF Claim, Sorted, Shape, Held, TypeInv, TypeOK
  <2>2. FinalStep
    BY <1>3 DEF Claim, Eligible, FinalStep
  <2> QED
    BY <1>3, <2>1, <2>2, ClaimOneHolder
<1>4. ASSUME NEW w \in Workers,
             \/ ExtractDone(w) \/ ExtractFails(w) \/ ProjectOk(w)
             \/ ProjectFails(w) \/ MarkDone(w) \/ MarkFailed(w) \/ Abandon(w)
      PROVE  Sorted' /\ OneHolder' /\ FinalStep
  <2>1. /\ Sorted' /\ OneHolder'
        /\ \A t \in Turns : t \notin Held(w) => state'[t] = state[t]
    BY <1>4, WorkOneHolder
  <2>2. FinalStep
    BY <1>4, <2>1 DEF FinalStep, OneHolder
  <2> QED
    BY <2>1, <2>2
<1> QED
  BY <1>1, <1>2, <1>3, <1>4 DEF Next, Work

LEMMA OneHolderInvariant ==
    ASSUME LeaseExceedsLatency
    PROVE  Spec => [](Sorted /\ OneHolder)
<1>1. Init => Sorted /\ OneHolder
  BY InitOneHolder
<1>2. TypeInv /\ Sorted /\ OneHolder /\ [Next]_vars
        => (Sorted /\ OneHolder)'
  BY NextOneHolder
<1> QED
  BY <1>1, <1>2, TypeInvariant, PTL DEF Spec

(* Leases that outlast every extraction are honored: no job is in two      *)
(* workers' hands.                                                         *)
THEOREM LeasesHonored ==
    ASSUME LeaseExceedsLatency
    PROVE  Spec => []LeaseHonored
<1>1. OneHolder => LeaseHonored
  BY DEF OneHolder, LeaseHonored
<1> QED
  BY <1>1, OneHolderInvariant, PTL

(* Under the same assumption a settled job is never reopened. *)
THEOREM SettledStaysSettled ==
    ASSUME LeaseExceedsLatency
    PROVE  Spec => FinalIsFinal
<1>1. TypeInv /\ (Sorted /\ OneHolder) /\ [Next]_vars
        => [\A t \in Turns : state[t] \in {"done", "failed"}
                               => state'[t] = state[t]]_vars
  BY NextOneHolder DEF FinalStep
<1> QED
  BY <1>1, TypeInvariant, OneHolderInvariant, PTL DEF Spec, FinalIsFinal
-----------------------------------------------------------------------------
(* The job board. With single holders, the board's holder of a job is the  *)
(* worker that has it in one of its lists, and a job is delivered when it  *)
(* is among its holder's done_ids.                                         *)
HolderFacts ==
    \A t \in Turns :
        /\ HolderOf(t) \in Workers \cup {NoWorker}
        /\ \A w \in Workers : HolderOf(t) = w <=> t \in Held(w)

LEMMA HolderIs == OneHolder => HolderFacts
<1> SUFFICES ASSUME OneHolder, NEW t \in Turns
             PROVE  /\ HolderOf(t) \in Workers \cup {NoWorker}
                    /\ \A w \in Workers : HolderOf(t) = w <=> t \in Held(w)
  BY DEF HolderFacts
<1>1. CASE \E w \in Workers : t \in Held(w)
  <2>1. HolderOf(t) \in Workers /\ t \in Held(HolderOf(t))
    BY <1>1 DEF HolderOf
  <2>2. \A v, w \in Workers : t \in Held(v) /\ t \in Held(w) => v = w
    BY DEF OneHolder
  <2> QED
    BY <2>1, <2>2
<1>2. CASE \A w \in Workers : t \notin Held(w)
  <2>1. HolderOf(t) = NoWorker
    BY <1>2 DEF HolderOf
  <2> QED
    BY <1>2, <2>1, ConfigAssumption
<1> QED
  BY <1>1, <1>2

(* The invariant under which a step of the queue is a step of the board.   *)
BoardInv == TypeInv /\ Sorted /\ OneHolder /\ HolderFacts

LEMMA BoardInvariant ==
    ASSUME LeaseExceedsLatency
    PROVE  Spec => []BoardInv
  BY TypeInvariant, OneHolderInvariant, HolderIs, PTL DEF BoardInv

(* A step that moves no job in or out of a worker's hands keeps the        *)
(* holders.                                                                *)
LEMMA SameHolders ==
    ASSUME HolderFacts, HolderFacts',
           NEW t \in Turns,
           \A w \in Workers : t \in Held(w)' <=> t \in Held(w)
    PROVE  HolderOf(t)' = HolderOf(t)
<1>1. CASE HolderOf(t) \in Workers
  BY <1>1 DEF HolderFacts
<1>2. CASE HolderOf(t) = NoWorker
  <2>1. \A w \in Workers : t \notin Held(w)'
    BY <1>2, ConfigAssumption DEF HolderFacts
  <2> QED
    BY <1>2, <2>1 DEF HolderFacts
<1> QED
  BY <1>1, <1>2 DEF HolderFacts
(* A step that leaves the rows' board status and the workers' lists as     *)
(* they are is no step of the board.                                       *)
LEMMA BoardStutters ==
    ASSUME BoardInv, BoardInv', doneIds' = doneIds,
           \A w \in Workers : Held(w)' = Held(w),
           \A t \in Turns : BoardStatus(t)' = BoardStatus(t)
    PROVE  UNCHANGED Board!bvars
<1>1. \A t \in Turns : HolderOf(t)' = HolderOf(t)
  BY SameHolders DEF BoardInv
<1>2. \A t \in Turns :
        (\E w \in Workers : t \in doneIds[w])'
          = (\E w \in Workers : t \in doneIds[w])
  OBVIOUS
<1> QED
  BY <1>1, <1>2 DEF Board!bvars

LEMMA TurnBoard ==
    ASSUME BoardInv, BoardInv', NEW t \in Turns,
           \/ WriteTurn(t) \/ LogTurn(t) \/ ScheduleExtract(t)
           \/ LoseTurn(t) \/ LeaseExpires(t)
    PROVE  [Board!BoardNext]_(Board!bvars)
<1>1. UNCHANGED <<todo, doneIds, failedItems>>
  BY DEF WriteTurn, LogTurn, ScheduleExtract, LoseTurn, LeaseExpires, worker
<1>2. \A w \in Workers : Held(w)' = Held(w)
  BY <1>1 DEF Held
<1>3. CASE WriteTurn(t) \/ ScheduleExtract(t)
  <2>1. state[t] = "absent" /\ state' = [state EXCEPT ![t] = "pending"]
    BY <1>3 DEF WriteTurn, ScheduleExtract, InsertJob
  <2>2. \A u \in Turns : HolderOf(u)' = HolderOf(u)
    BY <1>2, SameHolders DEF BoardInv
  <2>3. \A u \in Turns : state[u] \in JobStates /\ state'[u] =
                           IF u = t THEN "pending" ELSE state[u]
    BY <2>1 DEF BoardInv, TypeInv, TypeOK
  <2>4. \A u \in Turns : BoardStatus(u)' =
                           IF u = t THEN "open" ELSE BoardStatus(u)
    BY <2>3 DEF BoardStatus
  <2>5. BoardStatus(t) = "absent"
    BY <2>1 DEF BoardStatus
  <2>6. Board!Submit(t)
    BY <1>1, <2>2, <2>4, <2>5 DEF Board!Submit
  <2> QED
    BY <2>6 DEF Board!BoardNext
<1>4. CASE LogTurn(t) \/ LoseTurn(t) \/ LeaseExpires(t)
  <2>1. \A u \in Turns : BoardStatus(u)' = BoardStatus(u)
    BY <1>4 DEF LogTurn, LoseTurn, LeaseExpires, BoardStatus
  <2> QED
    BY <1>1, <1>2, <2>1, BoardStutters
<1> QED
  BY <1>3, <1>4

LEMMA ClaimBoard ==
    ASSUME BoardInv, BoardInv', NEW w \in Workers, Claim(w)
    PROVE  Board!BoardNext
<1> USE DEF BoardInv, TypeInv, TypeOK
<1>1. PICK S \in SUBSET Eligible(w) :
        /\ state' = [t \in Turns |->
                        IF t \notin S THEN state[t]
                        ELSE IF t \in log THEN "in_progress" ELSE "failed"]
        /\ todo' = [todo EXCEPT ![w] = S \cap log]
  BY DEF Claim
<1>2. UNCHANGED <<doneIds, failedItems>> /\ Held(w) = {}
  BY DEF Claim, Shape
<1>3. \A t \in S : /\ t \in Turns
                   /\ state[t] \in {"pending", "in_progress"}
                   /\ \A v \in Workers : t \notin Held(v)
  BY DEF Eligible, OneHolder
<1>4. \A t \in Turns : \A v \in Workers :
        t \in Held(v)' <=> t \in Held(v) \/ (v = w /\ t \in S \cap log)
  BY <1>1, <1>2 DEF Held
<1>5. \A t \in Turns : HolderOf(t)' =
        IF t \in S \cap log THEN w ELSE HolderOf(t)
  <2> TAKE t \in Turns
  <2>1. CASE t \in S \cap log
    BY <1>4, <2>1 DEF HolderFacts
  <2>2. CASE t \notin S \cap log
    BY <1>4, <2>2, SameHolders
  <2> QED
    BY <2>1, <2>2
<1>6. \A t \in Turns : BoardStatus(t)' =
        IF t \in S \ log THEN "failed" ELSE BoardStatus(t)
  BY <1>1, <1>3 DEF BoardStatus
<1>7. S \cap log \subseteq Board!Free /\ S \ log \subseteq Board!Free
  BY <1>3, ConfigAssumption DEF Board!Free, BoardStatus, HolderFacts
<1>8. Board!Custody(w) = {}
  BY <1>2 DEF Board!Custody, HolderFacts
<1>9. Board!Take(w, S \cap log, S \ log)
  <2> HIDE DEF BoardInv, TypeInv, TypeOK
  <2> QED
    BY <1>2, <1>5, <1>6, <1>7, <1>8 DEF Board!Take
<1> QED
  BY <1>7, <1>9 DEF Board!BoardNext
(* A worker holds at most what it held, and the jobs it lets go of have no *)
(* holder.                                                                 *)
LEMMA LetGo ==
    ASSUME BoardInv, BoardInv', NEW w \in Workers, NEW R \in SUBSET Turns,
           Held(w)' = Held(w) \ R, R \subseteq Held(w),
           \A v \in Workers : v # w => Held(v)' = Held(v)
    PROVE  \A t \in Turns :
             HolderOf(t)' = IF t \in R THEN NoWorker ELSE HolderOf(t)
<1> TAKE t \in Turns
<1>1. CASE t \in R
  <2>1. \A v \in Workers : v # w => t \notin Held(v)
    BY <1>1 DEF BoardInv, OneHolder
  <2>2. \A v \in Workers : t \notin Held(v)'
    BY <1>1, <2>1
  <2> QED
    BY <1>1, <2>2 DEF BoardInv, HolderFacts
<1>2. CASE t \notin R
  <2>1. \A v \in Workers : t \in Held(v)' <=> t \in Held(v)
    BY <1>2
  <2> QED
    BY <1>2, <2>1, SameHolders DEF BoardInv
<1> QED
  BY <1>1, <1>2

LEMMA WorkBoard ==
    ASSUME BoardInv, BoardInv', NEW w \in Workers,
           \/ ExtractDone(w) \/ ExtractFails(w) \/ ProjectOk(w)
           \/ ProjectFails(w) \/ MarkDone(w) \/ MarkFailed(w) \/ Abandon(w)
    PROVE  [Board!BoardNext]_(Board!bvars)
<1> USE DEF BoardInv, TypeInv, TypeOK
<1> DEFINE t == OldestOf(todo[w])
<1>0. pc[w] = "project" => t \in todo[w] /\ t \in Turns
  BY OldestIsMember DEF Shape
<1>1. CASE ExtractDone(w)
  <2>1. /\ UNCHANGED doneIds
        /\ \A v \in Workers : Held(v)' = Held(v)
        /\ \A u \in Turns : BoardStatus(u)' = BoardStatus(u)
    BY <1>1 DEF ExtractDone, store, Held, BoardStatus
  <2> QED
    BY <2>1, BoardStutters
<1>2. CASE ExtractFails(w)
  <2>1. InHand(w) \subseteq todo[w]
    BY <1>2, OldestIsMember DEF InHand, ExtractFails, Shape
  <2>2. failedItems[w] = {}
    BY <1>2 DEF ExtractFails, Shape
  <2>3. /\ UNCHANGED doneIds
        /\ \A v \in Workers : Held(v)' = Held(v)
        /\ \A u \in Turns : BoardStatus(u)' = BoardStatus(u)
    BY <1>2, <2>1, <2>2 DEF ExtractFails, store, Held, BoardStatus
  <2> QED
    BY <2>3, BoardStutters
<1>3. CASE ProjectOk(w)
  <2>1. \A v \in Workers : Held(v)' = Held(v)
    BY <1>0, <1>3 DEF ProjectOk, Held
  <2>2. \A u \in Turns : /\ HolderOf(u)' = HolderOf(u)
                         /\ BoardStatus(u)' = BoardStatus(u)
    BY <1>3, <2>1, SameHolders DEF ProjectOk, store, BoardStatus
  <2>3. t \in Held(w) /\ t \in Turns /\ pc[w] = "project"
    BY <1>0, <1>3 DEF ProjectOk, Held
  <2>4. HolderOf(t) = w
    BY <2>3 DEF HolderFacts
  <2>5. \A v \in Workers : t \notin doneIds[v]
    BY <1>0, <2>3 DEF OneHolder, Sorted, Held
  <2>6. \A v \in Workers : \A u \in Turns :
          u \in doneIds'[v] <=> u \in doneIds[v] \/ (v = w /\ u = t)
    BY <1>3, <2>3 DEF ProjectOk
  <2>7. PICK j \in Turns : j = t
    BY <2>3
  <2> HIDE DEF BoardInv, TypeInv, TypeOK, t
  <2>8. Board!Deliver(w, j)
    BY <2>2, <2>3, <2>4, <2>5, <2>6, <2>7 DEF Board!Deliver
  <2> QED
    BY <2>8 DEF Board!BoardNext
<1>4. CASE ProjectFails(w)
  <2>1. /\ UNCHANGED doneIds
        /\ \A v \in Workers : Held(v)' = Held(v)
        /\ \A u \in Turns : BoardStatus(u)' = BoardStatus(u)
    BY <1>0, <1>4 DEF ProjectFails, store, Held, BoardStatus
  <2> QED
    BY <2>1, BoardStutters
<1>5. CASE MarkDone(w)
  <2>1. /\ doneIds[w] # {} /\ doneIds[w] \subseteq Held(w)
        /\ doneIds[w] \subseteq Turns
    BY <1>5 DEF MarkDone, Shape, Held
  <2>2. /\ Held(w)' = Held(w) \ doneIds[w]
        /\ \A v \in Workers : v # w => Held(v)' = Held(v)
    BY <1>5 DEF MarkDone, Held, Sorted
  <2>3. \A u \in Turns : HolderOf(u)' =
          IF u \in doneIds[w] THEN NoWorker ELSE HolderOf(u)
    <3> HIDE DEF BoardInv, TypeInv, TypeOK
    <3> QED
      BY <2>1, <2>2, LetGo
  <2>4. \A u \in Turns : BoardStatus(u)' =
          IF u \in doneIds[w] THEN "done" ELSE BoardStatus(u)
    BY <1>5 DEF MarkDone, BoardStatus
  <2>5. \A v \in Workers : \A u \in doneIds[v] : v # w => u \notin doneIds[w]
    BY DEF OneHolder, Held
  <2>6. \A u \in Turns :
          (\E v \in Workers : u \in doneIds'[v])
            <=> (\E v \in Workers : u \in doneIds[v]) /\ u \notin doneIds[w]
    BY <1>5, <2>5 DEF MarkDone
  <2>7. {u \in Board!Custody(w) : \E v \in Workers : u \in doneIds[v]}
          = doneIds[w]
    <3>1. Board!Custody(w) = Held(w)
      BY DEF Board!Custody, HolderFacts, Held
    <3>2. \A u \in Held(w) :
            (\E v \in Workers : u \in doneIds[v]) <=> u \in doneIds[w]
      BY DEF OneHolder, Held
    <3> QED
      BY <2>1, <3>1, <3>2
  <2>8. Board!Finish(w)
    BY <2>1, <2>3, <2>4, <2>6, <2>7 DEF Board!Finish, Board!Release
  <2> QED
    BY <2>8 DEF Board!BoardNext
<1>6. CASE MarkFailed(w)
  <2>1. /\ failedItems[w] \subseteq Held(w) /\ failedItems[w] \subseteq Turns
        /\ doneIds[w] = {}
    BY <1>6 DEF MarkFailed, Shape, Held
  <2>2. /\ Held(w)' = Held(w) \ failedItems[w]
        /\ \A v \in Workers : v # w => Held(v)' = Held(v)
    BY <1>6 DEF MarkFailed, Held, Sorted
  <2>3. \A u \in Turns : HolderOf(u)' =
          IF u \in failedItems[w] THEN NoWorker ELSE HolderOf(u)
    <3> HIDE DEF BoardInv, TypeInv, TypeOK
    <3> QED
      BY <2>1, <2>2, LetGo
  <2>4. \A u \in failedItems[w] : state[u] = "in_progress"
    BY <2>1 DEF OneHolder
  <2>5. PICK reopened \in SUBSET Turns, givenUp \in SUBSET Turns :
          /\ reopened = {u \in failedItems[w] : attempts[u] < MaxAttempts}
          /\ givenUp = failedItems[w] \ reopened
    BY <2>1
  <2>6. reopened \cup givenUp = failedItems[w]
    BY <2>5
  <2>7. \A u \in Turns : BoardStatus(u)' =
          IF u \in givenUp THEN "failed" ELSE BoardStatus(u)
    BY <1>6, <2>4, <2>5 DEF MarkFailed, BoardStatus, StateAfterFailure
  <2>8. \A v \in Workers : \A u \in doneIds[v] : u \notin failedItems[w]
    BY <2>1 DEF OneHolder, Held
  <2>9. \A u \in Turns :
          (\E v \in Workers : u \in doneIds'[v])
            <=> (\E v \in Workers : u \in doneIds[v])
                /\ u \notin failedItems[w]
    BY <1>6, <2>8 DEF MarkFailed
  <2>10. failedItems[w] \subseteq Board!Custody(w)
    BY <2>1 DEF Board!Custody, HolderFacts
  <2> HIDE DEF BoardInv, TypeInv, TypeOK
  <2>11. reopened \cup givenUp \subseteq
           {u \in Board!Custody(w) :
              ~ [j \in Turns |-> \E v \in Workers : j \in doneIds[v]][u]}
    BY <2>1, <2>6, <2>8, <2>10
  <2>12. Board!Release(reopened \cup givenUp)
    BY <2>3, <2>6, <2>9 DEF Board!Release
  <2>13. Board!GiveBack(w, reopened, givenUp)
    BY <2>7, <2>11, <2>12 DEF Board!GiveBack
  <2> QED
    BY <2>6, <2>10, <2>13 DEF Board!BoardNext
<1>7. CASE Abandon(w)
  <2>1. /\ Held(w)' = {}
        /\ \A v \in Workers : v # w => Held(v)' = Held(v)
    BY <1>7 DEF Abandon, Held
  <2>2. Board!Custody(w) = Held(w) /\ Held(w) \subseteq Turns
    BY DEF Board!Custody, HolderFacts, Held
  <2>3. \A u \in Turns : HolderOf(u)' =
          IF u \in Held(w) THEN NoWorker ELSE HolderOf(u)
    <3> HIDE DEF BoardInv, TypeInv, TypeOK
    <3> QED
      BY <2>1, <2>2, LetGo
  <2>4. \A u \in Turns : BoardStatus(u)' = BoardStatus(u)
    BY <1>7 DEF Abandon, store, BoardStatus
  <2>5. \A v \in Workers : \A u \in doneIds[v] : v # w => u \notin Held(w)
    BY DEF OneHolder, Held
  <2>6. \A u \in Turns :
          (\E v \in Workers : u \in doneIds'[v])
            <=> (\E v \in Workers : u \in doneIds[v]) /\ u \notin Held(w)
    BY <1>7, <2>5 DEF Abandon, Held
  <2>7. Board!Forget(w)
    <3> HIDE DEF BoardInv, TypeInv, TypeOK
    <3>1. UNCHANGED [u \in Turns |-> BoardStatus(u)]
      BY <2>4
    <3>2. Board!Release(Board!Custody(w))
      BY <2>2, <2>3, <2>6 DEF Board!Release
    <3> QED
      BY <3>1, <3>2 DEF Board!Forget
  <2> QED
    BY <2>7 DEF Board!BoardNext
<1> QED
  BY <1>1, <1>2, <1>3, <1>4, <1>5, <1>6, <1>7

LEMMA InitBoard == Init => Board!BoardInit
  BY DEF Init, Board!BoardInit, BoardStatus, HolderOf, Held

LEMMA NextBoard ==
    ASSUME BoardInv, BoardInv', [Next]_vars
    PROVE  [Board!BoardNext]_(Board!bvars)
<1>1. CASE UNCHANGED vars
  <2>1. /\ UNCHANGED doneIds
        /\ \A w \in Workers : Held(w)' = Held(w)
        /\ \A t \in Turns : BoardStatus(t)' = BoardStatus(t)
    BY <1>1 DEF vars, store, worker, Held, BoardStatus
  <2> QED
    BY <2>1, BoardStutters
<1>2. CASE Next
  BY <1>2, TurnBoard, ClaimBoard, WorkBoard DEF Next, Work
<1> QED
  BY <1>1, <1>2

(* When leases outlast extractions, every behaviour of the queue and its   *)
(* workers is one of the job board: a claim takes open jobs nobody holds,  *)
(* a projection delivers, only its holder finishes or gives back a job,    *)
(* and a worker that dies merely forgets what it held.                     *)
THEOREM QueueImplementsBoard ==
    ASSUME LeaseExceedsLatency
    PROVE  Spec => ImplementsJobBoard
<1>1. Init => Board!BoardInit
  BY InitBoard
<1>2. BoardInv /\ BoardInv' /\ [Next]_vars
        => [Board!BoardNext]_(Board!bvars)
  BY NextBoard
<1>3. Spec => []BoardInv
  BY BoardInvariant
<1> QED
  BY <1>1, <1>2, <1>3, PTL DEF Spec, ImplementsJobBoard, Board!BoardSpec
=============================================================================
