--------------------------- MODULE FactProjection ---------------------------
(***************************************************************************)
(* How extracted facts reach the stores, and how the stores are repaired:  *)
(* ExtractorWorker._sync_project_result writes the items of one turn into  *)
(* entity_state, memories, events and vague_candidates, item by item on    *)
(* one SQLite connection per thread, while EntityStateConsolidator closes  *)
(* duplicate entity_state rows and invalidate() retracts them.             *)
(*                                                                         *)
(* SQLite gives one connection at a time the write lock, from its first    *)
(* write to its commit; db is what the other connections read, draft what  *)
(* the lock's holder sees. All facts are about one (namespace, entity,     *)
(* attribute) triple, and a fact is identified with its value and the turn *)
(* it is anchored at: fact_record_id hashes just these.                    *)
(***************************************************************************)
EXTENDS Naturals, FiniteSets, Sequences

CONSTANTS
    Turns,
    Threads,             \* to_thread calls that project
    Consolidator,        \* the thread of a consolidation pass
    NoThread,
    ItemsOf,             \* what extraction yields for a turn, in order
    Values,              \* what the facts say
    DreamerWired,        \* background evolution is opt-in
    RetractTime,         \* valid_to of an invalidate, later than all facts
    MaxProjections,      \* bound: projections begun of each turn
    MaxRetractions       \* bound: calls of invalidate

Kinds == {"fact", "event", "vague", "sourceless"}
Item == [kind : Kinds, value : Values, at : Nat \ {0}, accumulate : BOOLEAN]

ASSUME ProjectionAssumption ==
    /\ Turns # {}
    /\ ItemsOf \in [Turns -> Seq(Item)]
    /\ Consolidator \notin Threads /\ NoThread \notin Threads \cup {Consolidator}
    /\ DreamerWired \in BOOLEAN
    /\ MaxProjections \in [Turns -> Nat] /\ MaxRetractions \in Nat
    /\ RetractTime \in Nat \ {0}

VARIABLES
    db,           \* what is committed
    draft,        \* db with the writes of the lock's holder
    writer,       \* whose connection holds SQLite's write lock
    pc,           \* where each thread's _sync_project_result stands
    turn,         \* the turn it projects
    idx,          \* the item it is at
    stamp,        \* valid_from it has settled on for the item
    pass,         \* where the consolidation pass stands
    keeper,       \* valid_from of the row it keeps
    victims,      \* rows it is about to close
    begun,        \* history: projections begun of each turn
    succeeded,    \* history: turns with a projection that returned
    retractions,  \* number of invalidate calls, for the bound
    owed,         \* history: values a pass may not lose
    strays        \* history: facts whose two stores were written apart

thread == <<pc, turn, idx, stamp, begun, succeeded>>
upkeep == <<pass, keeper, victims, retractions>>
told   == <<owed, strays>>
vars   == <<db, draft, writer, thread, upkeep, told>>

Open == 0    \* valid_to IS NULL
Facts == Values \X Turns
Slots == UNION {{t} \X (1 .. Len(ItemsOf[t])) : t \in Turns}
Row == [value : Values, anchor : Turns, from : Nat, to : Nat,
        accumulate : BOOLEAN]
DB == [rows : SUBSET Row, memories : [Facts -> {"none", "active", "closed"}],
       events : SUBSET Slots, inbox : [Slots -> Nat]]

TypeOK ==
    /\ db \in DB /\ draft \in DB
    /\ writer \in Threads \cup {Consolidator, NoThread}
    /\ pc \in [Threads -> {"idle", "item", "insert", "promote", "derive"}]
    /\ turn \in [Threads -> Turns]
    /\ idx \in [Threads -> Nat \ {0}]
    /\ stamp \in [Threads -> Nat]
    /\ pass \in {"idle", "read", "victims", "close"}
    /\ keeper \in Nat /\ victims \subseteq Nat
    /\ begun \in [Turns -> Nat] /\ succeeded \subseteq Turns
    /\ retractions \in Nat
    /\ owed \subseteq Values /\ strays \subseteq Facts

Empty == [rows |-> {}, memories |-> [f \in Facts |-> "none"],
          events |-> {}, inbox |-> [s \in Slots |-> 0]]

(* A local variable that is not in use. *)
SomeTurn == CHOOSE t \in Turns : TRUE

Init ==
    /\ db = Empty /\ draft = Empty /\ writer = NoThread
    /\ pc = [p \in Threads |-> "idle"]
    /\ turn = [p \in Threads |-> SomeTurn]
    /\ idx = [p \in Threads |-> 1]
    /\ stamp = [p \in Threads |-> 0]
    /\ pass = "idle" /\ keeper = 0 /\ victims = {}
    /\ begun = [t \in Turns |-> 0] /\ succeeded = {}
    /\ retractions = 0 /\ owed = {} /\ strays = {}

-----------------------------------------------------------------------------
(* SQLite as the code uses it.                                             *)

MayWrite(p) == writer \in {p, NoThread}
View(p) == IF writer = p THEN draft ELSE db

(* A write that stays in the open transaction. *)
Keep(p, d) == MayWrite(p) /\ writer' = p /\ draft' = d /\ UNCHANGED db

(* A write followed by commit: everything pending on the connection goes. *)
Commit(p, d) == MayWrite(p) /\ writer' = NoThread /\ draft' = d /\ db' = d

Rollback(p) ==
    /\ writer' = IF writer = p THEN NoThread ELSE writer
    /\ draft' = IF writer = p THEN db ELSE draft
    /\ UNCHANGED db

ActiveRows(d) == {r \in d.rows : r.to = Open}

(* What fact_record_id is derived from: two rows of one turn and value     *)
(* lead to one memories row.                                               *)
FactsOf(rows) == {<<r.value, r.anchor>> : r \in rows}

(* _get_reconciliation_ts: the first instant from ts on with no row. *)
Nudged(rows, ts) ==
    LET taken == {r.from : r \in rows}
    IN  CHOOSE n \in ts .. ts + Cardinality(taken) :
            n \notin taken /\ \A m \in ts .. n - 1 : m \in taken

-----------------------------------------------------------------------------
(* _sync_project_result on thread p.                                       *)

Current(p) == ItemsOf[turn[p]][idx[p]]
HasItem(p) == idx[p] <= Len(ItemsOf[turn[p]])
Fact(p) == <<Current(p).value, turn[p]>>

At(p, label, kinds) ==
    pc[p] = label /\ HasItem(p) /\ Current(p).kind \in kinds

Goto(p, label) == pc' = [pc EXCEPT ![p] = label] /\ UNCHANGED idx
Leave(p) == /\ pc' = [pc EXCEPT ![p] = "idle"]
            /\ turn' = [turn EXCEPT ![p] = SomeTurn]
            /\ idx' = [idx EXCEPT ![p] = 1]
            /\ stamp' = [stamp EXCEPT ![p] = 0]
NextItem(p) == /\ pc' = [pc EXCEPT ![p] = "item"]
               /\ idx' = [idx EXCEPT ![p] = @ + 1]

(* transaction(): BEGIN IMMEDIATE. The same turn may come again, after a   *)
(* failure, a crash or a lapsed lease.                                     *)
Begin(p, t) ==
    /\ pc[p] = "idle" /\ writer = NoThread /\ begun[t] < MaxProjections[t]
    /\ writer' = p
    /\ pc' = [pc EXCEPT ![p] = "item"]
    /\ turn' = [turn EXCEPT ![p] = t]
    /\ idx' = [idx EXCEPT ![p] = 1]
    /\ begun' = [begun EXCEPT ![t] = @ + 1]
    /\ UNCHANGED <<db, draft, stamp, succeeded, upkeep, told>>

(* CandidateInbox.add and add_sourceless commit on their own. *)
AddCandidate(p) ==
    /\ At(p, "item", {"vague", "sourceless"})
    /\ Commit(p, [draft EXCEPT !.inbox[<<turn[p], idx[p]>>] = @ + 1])
    /\ NextItem(p)
    /\ UNCHANGED <<turn, stamp, begun, succeeded, upkeep, told>>

(* EntityStateView.upsert looks for a free valid_from ... *)
UpsertRead(p) ==
    /\ At(p, "item", {"fact"})
    /\ stamp' = [stamp EXCEPT ![p] = Nudged(View(p).rows, Current(p).at)]
    /\ Goto(p, "insert")
    /\ UNCHANGED <<db, draft, writer, turn, begun, succeeded, upkeep, told>>

NewRow(p) ==
    [value |-> Current(p).value, anchor |-> turn[p], from |-> stamp[p],
     to |-> Open, accumulate |-> Current(p).accumulate]

Taken(p) == \E r \in draft.rows : r.from = stamp[p]

(* History: a pass may not lose a value stored before it reads, or after   *)
(* it has chosen its victims.                                              *)
Owes(p) ==
    owed' = IF pass = "victims" THEN owed ELSE owed \cup {Current(p).value}

(* Mutant of UpsertInsert: only a fact unknown so far is appended, with no *)
(* check of whether the known row is still active.                         *)
UpsertIfNew(p) ==
    /\ At(p, "insert", {"fact"}) /\ ~Taken(p)
    /\ IF \E r \in draft.rows : r.value = Current(p).value
       THEN MayWrite(p) /\ UNCHANGED <<db, draft, writer>>
       ELSE Commit(p, [draft EXCEPT !.rows = @ \cup {NewRow(p)}])
    /\ Owes(p)
    /\ Goto(p, "promote")
    /\ stamp' = [stamp EXCEPT ![p] = 0]
    /\ UNCHANGED <<turn, begun, succeeded, upkeep, strays>>

(* ... and appends the row there, never closing an older one; leaving      *)
(* "with conn" commits. A row that took the instant meanwhile violates     *)
(* UNIQUE, which is Fail.                                                  *)
UpsertInsert(p) ==
    /\ At(p, "insert", {"fact"}) /\ ~Taken(p)
    /\ Commit(p, [draft EXCEPT !.rows = @ \cup {NewRow(p)}])
    /\ Owes(p)
    /\ Goto(p, "promote")
    /\ stamp' = [stamp EXCEPT ![p] = 0]
    /\ UNCHANGED <<turn, begun, succeeded, upkeep, strays>>

(* MemoryRecordPromoter.promote: put inside the transaction does not       *)
(* commit, and resets valid_to of a record that is there already.          *)
Promote(p) ==
    /\ At(p, "promote", {"fact"})
    /\ Keep(p, [draft EXCEPT !.memories[Fact(p)] = "active"])
    /\ strays' = IF Fact(p) \in FactsOf(ActiveRows(draft))
                  THEN strays ELSE strays \cup {Fact(p)}
    /\ Goto(p, "derive")
    /\ UNCHANGED <<turn, stamp, begun, succeeded, upkeep, owed>>

(* A failed put is logged and swallowed. *)
PromoteSwallowed(p) ==
    /\ At(p, "promote", {"fact"})
    /\ strays' = strays \cup {Fact(p)}
    /\ Goto(p, "derive")
    /\ UNCHANGED <<db, draft, writer, turn, stamp, begun, succeeded, upkeep, owed>>

(* add_event: INSERT OR REPLACE by event_id, without a commit. *)
AddEvent(p) ==
    /\ At(p, "item", {"event"})
    /\ Keep(p, [draft EXCEPT !.events = @ \cup {<<turn[p], idx[p]>>}])
    /\ Goto(p, "derive")
    /\ UNCHANGED <<turn, stamp, begun, succeeded, upkeep, told>>

(* _auto_derive_edges and _wire_event_edges: nothing to link, an edge in   *)
(* the open transaction, or an identity anchor for the other end, whose    *)
(* upsert commits what is pending.                                         *)
Derive(p) ==
    /\ At(p, "derive", {"fact", "event"})
    /\ \/ UNCHANGED <<db, draft, writer>>
       \/ Keep(p, draft)
       \/ Commit(p, draft)
    /\ NextItem(p)
    /\ UNCHANGED <<turn, stamp, begun, succeeded, upkeep, told>>

(* Mutant of Finish: the with block ends without a commit. *)
FinishWithoutCommit(p) ==
    /\ pc[p] = "item" /\ ~HasItem(p)
    /\ Rollback(p)
    /\ Leave(p)
    /\ succeeded' = succeeded \cup {turn[p]}
    /\ UNCHANGED <<begun, upkeep, told>>

(* The end of the with block: the final commit. *)
Finish(p) ==
    /\ pc[p] = "item" /\ ~HasItem(p)
    /\ IF writer = p THEN Commit(p, draft) ELSE UNCHANGED <<db, draft, writer>>
    /\ Leave(p)
    /\ succeeded' = succeeded \cup {turn[p]}
    /\ UNCHANGED <<begun, upkeep, told>>

(* A statement raises, or the process dies: what is uncommitted is gone. *)
Fail(p) ==
    /\ pc[p] # "idle"
    /\ Rollback(p)
    /\ Leave(p)
    /\ UNCHANGED <<begun, succeeded, upkeep, told>>

-----------------------------------------------------------------------------
(* EntityStateConsolidator.consolidate, on its own connection.             *)

(* list_conflicted_triples finds two active rows. *)
Scan ==
    /\ pass = "idle" /\ DreamerWired
    /\ Cardinality(ActiveRows(db)) >= 2
    /\ pass' = "read"
    /\ UNCHANGED <<db, draft, writer, thread, keeper, victims, retractions, told>>

(* Mutants of Duplicates: distinct values are superseded too; nothing is   *)
(* ever a duplicate.                                                       *)
AnyTwoRows(rows) == Cardinality(rows) >= 2 /\ \A r \in rows : ~r.accumulate
NoDuplicates(rows) == FALSE

(* The rows are exact duplicates: one value, no open set. *)
Duplicates(rows) ==
    /\ Cardinality(rows) >= 2
    /\ \A r \in rows : ~r.accumulate
    /\ \A r, s \in rows : r.value = s.value

Newest(rows) == CHOOSE r \in rows : \A s \in rows : s.from <= r.from

(* get_active, and the choice of the row to keep. *)
ReadActive ==
    /\ pass = "read"
    /\ LET rows == ActiveRows(db)
       IN  IF Duplicates(rows)
           THEN keeper' = Newest(rows).from /\ pass' = "victims"
           ELSE UNCHANGED keeper /\ pass' = "idle"
    /\ UNCHANGED <<db, draft, writer, thread, victims, retractions, told>>

(* supersede selects the other active rows, outside any transaction ... *)
ReadVictims ==
    /\ pass = "victims"
    /\ victims' = {r.from : r \in ActiveRows(db)} \ {keeper}
    /\ pass' = "close"
    /\ UNCHANGED <<db, draft, writer, thread, keeper, retractions, told>>

RowsUntil(rows, doomed, until) ==
    {IF r.from \in doomed THEN [r EXCEPT !.to = until] ELSE r : r \in rows}

(* Mutant of Closed: the memories rows go by the prefix of their key, as   *)
(* those of a retraction do.                                               *)
ClosedByKey(d, doomed, until) ==
    [d EXCEPT
        !.rows = RowsUntil(@, doomed, until),
        !.memories = [f \in Facts |-> IF @[f] = "active" THEN "closed" ELSE @[f]]]

(* The given rows end at until, and with each the memories row that its    *)
(* value and anchor lead to, also when another row leads there too.        *)
Closed(d, doomed, until) ==
    [d EXCEPT
        !.rows = RowsUntil(@, doomed, until),
        !.memories = [f \in Facts |->
            IF @[f] = "active" /\ f \in FactsOf({r \in d.rows : r.from \in doomed})
            THEN "closed" ELSE @[f]]]

(* ... and closes them by state_id and commits. *)
CloseVictims ==
    /\ pass = "close"
    /\ Commit(Consolidator, Closed(draft, victims, keeper))
    /\ pass' = "idle" /\ keeper' = 0 /\ victims' = {}
    /\ UNCHANGED <<thread, retractions, told>>

(* EntityStateView.invalidate closes the active rows. It looks for their   *)
(* memories rows under scope = namespace, while the promoter files them    *)
(* under scope "user": none is found.                                      *)
Retracted(d) ==
    [d EXCEPT !.rows =
        {IF r.to = Open THEN [r EXCEPT !.to = RetractTime] ELSE r : r \in @}]

Invalidate ==
    /\ retractions < MaxRetractions /\ ActiveRows(db) # {}
    /\ writer = NoThread
    /\ db' = Retracted(db) /\ draft' = db'
    /\ retractions' = retractions + 1
    /\ owed' = {}
    /\ strays' = strays \cup {f \in Facts : db.memories[f] = "active"}
    /\ UNCHANGED <<writer, thread, pass, keeper, victims>>

-----------------------------------------------------------------------------
Consolidate == Scan \/ ReadActive \/ ReadVictims \/ CloseVictims

Project(p) ==
    \/ \E t \in Turns : Begin(p, t)
    \/ AddCandidate(p) \/ UpsertRead(p) \/ UpsertInsert(p)
    \/ Promote(p) \/ PromoteSwallowed(p)
    \/ AddEvent(p) \/ Derive(p) \/ Finish(p) \/ Fail(p)

Next == (\E p \in Threads : Project(p)) \/ Consolidate \/ Invalidate

Spec == Init /\ [][Next]_vars

(* A thread that has begun goes on to return or raise, and the dreamer     *)
(* keeps running passes.                                                   *)
Fairness ==
    /\ \A p \in Threads : WF_vars(pc[p] # "idle" /\ Project(p))
    /\ WF_vars(Consolidate)

FairSpec == Spec /\ Fairness

-----------------------------------------------------------------------------
(* Properties.                                                             *)

ItemStored(d, t, i) ==
    CASE ItemsOf[t][i].kind = "fact" ->
             \E r \in d.rows : r.anchor = t /\ r.value = ItemsOf[t][i].value
      [] ItemsOf[t][i].kind = "event" -> <<t, i>> \in d.events
      [] OTHER -> d.inbox[<<t, i>>] > 0

(* A projection that returned has committed every item of its turn, though *)
(* it loses the lock and other threads commit between its items: this is   *)
(* what mark_extract_done relies on.                                       *)
SuccessIsDurable ==
    \A t \in succeeded : \A i \in 1 .. Len(ItemsOf[t]) : ItemStored(db, t, i)

(* A recallable memories row always has its entity_state row, committed    *)
(* before it ("already committed to entity_state by the time this runs").  *)
MemoryHasState ==
    \A f \in Facts : db.memories[f] # "none" =>
        \E r \in db.rows : r.value = f[1] /\ r.anchor = f[2]

(* Every value stored since the last retraction keeps an active row,       *)
(* unless it came between a pass's read and its choice of victims, the one *)
(* gap in which supersede takes rows that nobody has compared ("Distinct   *)
(* values are kept as a multi-valued set").                                *)
ValueKept == \A v \in owed : \E r \in ActiveRows(db) : r.value = v

(* The two stores agree about a fact whose promotion was neither swallowed *)
(* nor overtaken by the closing of its row, and which was not retracted:   *)
(* once all its rows are closed it is not recalled ("the entity_state view *)
(* and the memories store never disagree"), and while all are active,      *)
(* whatever else of its turn was rolled back or projected again, it is     *)
(* ("a precise single-row close").                                         *)
StoresAgree ==
    \A f \in Facts \ strays :
        LET rows == {r \in db.rows : <<r.value, r.anchor>> = f}
        IN  /\ db.memories[f] = "active" => f \in FactsOf(ActiveRows(db))
            /\ f[2] \in succeeded /\ rows # {} /\ rows \subseteq ActiveRows(db)
                   => db.memories[f] = "active"

(* Single-valued attributes converge: once the writes are over, active     *)
(* rows that repeat one value have been merged into one.                   *)
DuplicatesMerge ==
    <>[](\/ Cardinality(ActiveRows(db)) <= 1
         \/ \E r \in ActiveRows(db) : r.accumulate
         \/ \E r, s \in ActiveRows(db) : r.value # s.value)

=============================================================================
