------------------------ MODULE FactProjectionProofs ------------------------
(***************************************************************************)
(* Proofs about FactProjection for any turns, threads, items and values:   *)
(* type correctness; that a projection that returned is committed and that *)
(* no memories row is without its entity_state row; that a pass loses no   *)
(* value but those that come between its two reads; and that the two       *)
(* stores agree about every fact that was not written to them apart.       *)
(***************************************************************************)
EXTENDS FactProjection, FiniteSetTheorems, WellFoundedInduction, TLAPS

(* A nonempty set of naturals has a least element. *)
LEMMA LeastInstant ==
    ASSUME NEW T \in SUBSET Nat, T # {}
    PROVE  \E x \in T : \A y \in T : x <= y
<1> DEFINE R == OpToRel(<, Nat)
<1>1. IsWellFoundedOn(R, Nat)
  BY NatLessThanWellFounded
<1>2. \A x, y \in Nat : (<<y, x>> \in R) <=> y < x
  BY DEF OpToRel
<1> HIDE DEF R
<1>3. PICK x \in T : \A y \in T : ~ (<<y, x>> \in R)
  BY <1>1, WFMin
<1>4. ASSUME NEW y \in T PROVE x <= y
  <2>1. x \in Nat /\ y \in Nat
    OBVIOUS
  <2>2. ~ (y < x)
    BY <1>2, <1>3, <2>1
  <2> QED
    BY <2>1, <2>2
<1> QED
  BY <1>4

(* A nonempty finite set of naturals has a greatest element: the smallest  *)
(* set without one would leave another, smaller one.                       *)
LEMMA GreatestInstant ==
    ASSUME NEW T \in SUBSET Nat, T # {}, IsFiniteSet(T)
    PROVE  \E x \in T : \A y \in T : y <= x
<1> DEFINE Bad(S) == /\ S # {} /\ IsFiniteSet(S)
                     /\ \A x \in S : \E y \in S : ~ (y <= x)
           Sizes == {n \in Nat : \E S \in SUBSET Nat :
                                    Bad(S) /\ Cardinality(S) = n}
<1>1. SUFFICES ASSUME Sizes # {} PROVE FALSE
  BY FS_CardinalityType
<1>2. PICK n \in Sizes : \A m \in Sizes : n <= m
  BY <1>1, LeastInstant
<1>3. PICK S \in SUBSET Nat : Bad(S) /\ Cardinality(S) = n
  OBVIOUS
<1>4. PICK x \in S : TRUE
  BY <1>3
<1>5. PICK y \in S : ~ (y <= x)
  BY <1>3
<1>6. /\ IsFiniteSet(S \ {x}) /\ S \ {x} \in SUBSET Nat
      /\ Cardinality(S \ {x}) = n - 1 /\ S \ {x} # {}
      /\ n - 1 \in Nat
  <2>1. IsFiniteSet(S) /\ Cardinality(S) = n
    BY <1>3
  <2>2. IsFiniteSet(S \ {x}) /\ Cardinality(S \ {x}) = n - 1
    BY <1>4, <2>1, FS_RemoveElement
  <2>3. Cardinality(S \ {x}) \in Nat
    BY <2>2, FS_CardinalityType
  <2>4. x \in Nat /\ y \in Nat /\ y # x
    BY <1>4, <1>5
  <2> QED
    BY <1>5, <2>2, <2>3, <2>4
<1>7. n - 1 \notin Sizes
  BY <1>2, <1>6
<1>8. PICK z \in S \ {x} : \A u \in S \ {x} : u <= z
  BY <1>6, <1>7
<1>9. CASE x <= z
  BY <1>3, <1>8, <1>9
<1>10. CASE z < x
  BY <1>3, <1>5, <1>8, <1>10
<1> QED
  BY <1>9, <1>10

Froms(rows) == {r.from : r \in rows}

(* The instant the upsert settles on is free and not before the fact's.    *)
LEMMA NudgedIsFree ==
    ASSUME NEW rows, Froms(rows) \in SUBSET Nat, IsFiniteSet(Froms(rows)),
           NEW ts \in Nat
    PROVE  /\ Nudged(rows, ts) \in Nat /\ Nudged(rows, ts) >= ts
           /\ Nudged(rows, ts) \notin Froms(rows)
<1> DEFINE taken == Froms(rows)
           c == Cardinality(taken)
           free == {n \in ts .. ts + c : n \notin taken}
<1>1. c \in Nat
  BY FS_CardinalityType
<1>2. IsFiniteSet(ts .. ts + c) /\ Cardinality(ts .. ts + c) = c + 1
  BY <1>1, FS_Interval
<1>3. free # {}
  <2>1. SUFFICES ASSUME ts .. ts + c \subseteq taken PROVE FALSE
    OBVIOUS
  <2>2. Cardinality(ts .. ts + c) <= c
    BY <2>1, FS_Subset
  <2> QED
    BY <1>1, <1>2, <2>2
<1>4. free \in SUBSET Nat
  BY <1>1
<1> HIDE DEF free
<1>5. PICK n \in free : \A m \in free : n <= m
  BY <1>3, <1>4, LeastInstant
<1>6. n \in ts .. ts + c /\ n \notin taken
  BY <1>5 DEF free
<1>7. \A m \in ts .. n - 1 : m \in taken
  BY <1>1, <1>5, <1>6 DEF free
<1> HIDE DEF c
<1>8. Nudged(rows, ts) \in ts .. ts + c /\ Nudged(rows, ts) \notin taken
  BY <1>6, <1>7 DEF Nudged, c, Froms
<1> QED
  BY <1>1, <1>8
-----------------------------------------------------------------------------
(* What the connections see. Only memories rows and events are ever        *)
(* pending in an open transaction: an entity_state row and a candidate are *)
(* committed as they are written. The lock is held by a thread inside its  *)
(* projection or by nobody.                                                *)
Pending ==
    /\ IsFiniteSet(Froms(db.rows))
    /\ draft.rows = db.rows /\ draft.inbox = db.inbox
    /\ db.events \subseteq draft.events
    /\ writer = NoThread => draft = db
    /\ writer # Consolidator
    /\ \A p \in Threads : writer = p => pc[p] # "idle"

TypeInv == TypeOK /\ Pending

LEMMA ItemType ==
    ASSUME TypeOK, NEW p \in Threads, HasItem(p)
    PROVE  /\ Current(p) \in Item
           /\ <<turn[p], idx[p]>> \in Slots
           /\ Fact(p) \in Facts
<1>1. turn[p] \in Turns /\ ItemsOf[turn[p]] \in Seq(Item)
  BY ProjectionAssumption DEF TypeOK
<1>2. idx[p] \in 1 .. Len(ItemsOf[turn[p]])
  BY <1>1 DEF TypeOK, HasItem
<1>3. Current(p) \in Item
  BY <1>1, <1>2 DEF Current
<1>4. <<turn[p], idx[p]>> \in Slots
  BY <1>1, <1>2 DEF Slots
<1> QED
  BY <1>1, <1>3, <1>4 DEF Fact, Facts, Item

(* What each kind of write leaves in the tables. *)
LEMMA CandidateAdded ==
    ASSUME NEW d \in DB, NEW s \in Slots
    PROVE  LET e == [d EXCEPT !.inbox[s] = @ + 1]
           IN  /\ e \in DB
               /\ e.rows = d.rows /\ e.memories = d.memories
               /\ e.events = d.events
               /\ e.inbox = [d.inbox EXCEPT ![s] = @ + 1]
  BY DEF DB

LEMMA RowAppended ==
    ASSUME NEW d \in DB, NEW r \in Row
    PROVE  LET e == [d EXCEPT !.rows = @ \cup {r}]
           IN  /\ e \in DB
               /\ e.rows = d.rows \cup {r} /\ e.memories = d.memories
               /\ e.events = d.events /\ e.inbox = d.inbox
  BY DEF DB

LEMMA MemoryPut ==
    ASSUME NEW d \in DB, NEW f \in Facts
    PROVE  LET e == [d EXCEPT !.memories[f] = "active"]
           IN  /\ e \in DB
               /\ e.rows = d.rows /\ e.events = d.events
               /\ e.inbox = d.inbox
               /\ e.memories = [d.memories EXCEPT ![f] = "active"]
  BY DEF DB

LEMMA EventAdded ==
    ASSUME NEW d \in DB, NEW s \in Slots
    PROVE  LET e == [d EXCEPT !.events = @ \cup {s}]
           IN  /\ e \in DB
               /\ e.rows = d.rows /\ e.memories = d.memories
               /\ e.events = d.events \cup {s} /\ e.inbox = d.inbox
  BY DEF DB

LEMMA TablesReplaced ==
    ASSUME NEW d \in DB, NEW rows \in SUBSET Row,
           NEW memories \in [Facts -> {"none", "active", "closed"}]
    PROVE  [d EXCEPT !.rows = rows, !.memories = memories] \in DB
  BY DEF DB

LEMMA RowsClosed ==
    ASSUME NEW d \in DB, NEW doomed, NEW until \in Nat
    PROVE  LET e == Closed(d, doomed, until)
           IN  /\ e \in DB
               /\ e.rows = RowsUntil(d.rows, doomed, until)
               /\ Froms(e.rows) = Froms(d.rows)
               /\ e.events = d.events /\ e.inbox = d.inbox
               /\ \A f \in Facts : e.memories[f] =
                    IF d.memories[f] = "active"
                       /\ f \in FactsOf({r \in d.rows : r.from \in doomed})
                    THEN "closed" ELSE d.memories[f]
<1> DEFINE e == Closed(d, doomed, until)
           shut(r) == IF r.from \in doomed THEN [r EXCEPT !.to = until] ELSE r
           mems == [f \in Facts |->
             IF d.memories[f] = "active"
                /\ f \in FactsOf({r \in d.rows : r.from \in doomed})
             THEN "closed" ELSE d.memories[f]]
<1>0. RowsUntil(d.rows, doomed, until) = {shut(r) : r \in d.rows}
  BY DEF RowsUntil
<1>1. e.rows = {shut(r) : r \in d.rows}
  BY <1>0 DEF Closed, DB
<1>2. e.memories = mems
  BY DEF Closed, DB
<1>3. e.events = d.events /\ e.inbox = d.inbox
  BY DEF Closed, DB
<1>4. e = [d EXCEPT !.rows = {shut(r) : r \in d.rows}, !.memories = mems]
  BY <1>0 DEF Closed
<1>5. \A r \in d.rows : shut(r) \in Row /\ shut(r).from = r.from
  <2> TAKE r \in d.rows
  <2>1. r \in Row
    BY DEF DB
  <2> QED
    BY <2>1 DEF Row
<1>6. Froms(e.rows) = Froms(d.rows)
  <2> HIDE DEF e, shut
  <2> QED
    BY <1>1, <1>5 DEF Froms
<1>7. e \in DB
  <2>1. {shut(r) : r \in d.rows} \in SUBSET Row
    BY <1>5
  <2>2. mems \in [Facts -> {"none", "active", "closed"}]
    BY DEF DB
  <2> HIDE DEF e, shut, mems
  <2> QED
    BY <1>4, <2>1, <2>2, TablesReplaced
<1> QED
  BY <1>0, <1>1, <1>2, <1>3, <1>6, <1>7

LEMMA RowsRetracted ==
    ASSUME NEW d \in DB
    PROVE  LET e == Retracted(d)
           IN  /\ e \in DB
               /\ e.rows = {IF r.to = Open
                            THEN [r EXCEPT !.to = RetractTime] ELSE r :
                              r \in d.rows}
               /\ Froms(e.rows) = Froms(d.rows)
               /\ e.events = d.events /\ e.inbox = d.inbox
               /\ e.memories = d.memories
<1> DEFINE e == Retracted(d)
           shut(r) == IF r.to = Open THEN [r EXCEPT !.to = RetractTime] ELSE r
<1>0. RetractTime \in Nat
  BY ProjectionAssumption
<1>1. /\ e.rows = {shut(r) : r \in d.rows}
      /\ e.memories = d.memories /\ e.events = d.events /\ e.inbox = d.inbox
  BY DEF Retracted, DB
<1>2. e = [d EXCEPT !.rows = {shut(r) : r \in d.rows}]
  BY DEF Retracted
<1>3. \A r \in d.rows : shut(r) \in Row /\ shut(r).from = r.from
  <2> TAKE r \in d.rows
  <2>1. r \in Row
    BY DEF DB
  <2> QED
    BY <2>1, <1>0 DEF Row
<1>4. Froms(e.rows) = Froms(d.rows)
  <2> HIDE DEF e, shut
  <2> QED
    BY <1>1, <1>3 DEF Froms
<1>5. e \in DB
  <2>1. {shut(r) : r \in d.rows} \in SUBSET Row
    BY <1>3
  <2> HIDE DEF e, shut
  <2> QED
    BY <1>2, <2>1 DEF DB
<1> QED
  BY <1>1, <1>4, <1>5
-----------------------------------------------------------------------------
(* A commit, a write kept pending, and a rollback leave the connections in *)
(* order.                                                                  *)
LEMMA CommitInOrder ==
    ASSUME TypeInv, NEW c \in Threads \cup {Consolidator}, NEW d \in DB,
           Commit(c, d), IsFiniteSet(Froms(d.rows)),
           \A q \in Threads : q # c => pc'[q] = pc[q]
    PROVE  /\ Pending' /\ db' \in DB /\ draft' \in DB
           /\ writer' \in Threads \cup {Consolidator, NoThread}
  BY ProjectionAssumption DEF TypeInv, Pending, Commit, MayWrite

LEMMA KeepInOrder ==
    ASSUME TypeInv, NEW p \in Threads, NEW d \in DB, Keep(p, d),
           d.rows = draft.rows, d.inbox = draft.inbox,
           draft.events \subseteq d.events,
           pc'[p] # "idle"
    PROVE  /\ Pending' /\ db' \in DB /\ draft' \in DB
           /\ writer' \in Threads \cup {Consolidator, NoThread}
  BY ProjectionAssumption DEF TypeInv, TypeOK, Pending, Keep, MayWrite

LEMMA RollbackInOrder ==
    ASSUME TypeInv, NEW p \in Threads, Rollback(p),
           \A q \in Threads : q # p => pc'[q] = pc[q]
    PROVE  /\ Pending' /\ db' \in DB /\ draft' \in DB
           /\ writer' \in Threads \cup {Consolidator, NoThread}
  BY ProjectionAssumption DEF TypeInv, TypeOK, Pending, Rollback

(* A step that writes nothing. *)
LEMMA ReadInOrder ==
    ASSUME TypeInv, UNCHANGED <<db, draft, writer>>,
           \A q \in Threads : writer = q => pc'[q] # "idle"
    PROVE  /\ Pending' /\ db' \in DB /\ draft' \in DB
           /\ writer' \in Threads \cup {Consolidator, NoThread}
  BY DEF TypeInv, TypeOK, Pending

(* The threads' own variables, whatever happens to the tables. *)
ThreadOK ==
    /\ pc \in [Threads -> {"idle", "item", "insert", "promote", "derive"}]
    /\ turn \in [Threads -> Turns]
    /\ idx \in [Threads -> Nat \ {0}]
    /\ stamp \in [Threads -> Nat]
    /\ begun \in [Turns -> Nat] /\ succeeded \subseteq Turns

UpkeepOK ==
    /\ pass \in {"idle", "read", "victims", "close"}
    /\ keeper \in Nat /\ victims \subseteq Nat
    /\ retractions \in Nat

ToldOK == owed \subseteq Values /\ strays \subseteq Facts

LEMMA SplitType ==
    TypeOK <=> /\ ThreadOK /\ UpkeepOK /\ ToldOK /\ db \in DB /\ draft \in DB
               /\ writer \in Threads \cup {Consolidator, NoThread}
  BY DEF TypeOK, ThreadOK, UpkeepOK, ToldOK

LEMMA SomeTurnType == SomeTurn \in Turns
  BY ProjectionAssumption DEF SomeTurn

LEMMA InitTypeInv == Init => TypeInv
<1> SUFFICES ASSUME Init PROVE TypeInv
  OBVIOUS
<1>1. Empty \in DB
  BY DEF Empty, DB
<1>2. Froms(Empty.rows) = {}
  BY DEF Empty, Froms
<1>3. SomeTurn \in Turns
  BY SomeTurnType
<1> QED
  BY <1>1, <1>2, <1>3, FS_EmptySet, ProjectionAssumption
  DEF Init, TypeInv, TypeOK, Pending

(* The row the upsert appends. *)
LEMMA NewRowType ==
    ASSUME TypeOK, NEW p \in Threads, HasItem(p)
    PROVE  NewRow(p) \in Row
  BY ItemType DEF TypeOK, NewRow, Row, Item, Open

(* What a projection tells the history is of the item it is at.            *)
LEMMA ProjectTold ==
    ASSUME TypeOK, NEW p \in Threads, Project(p)
    PROVE  ToldOK'
<1>1. CASE UpsertInsert(p)
  <2>1. Current(p).value \in Values
    BY <1>1, ItemType DEF UpsertInsert, At, Item
  <2> QED
    BY <1>1, <2>1 DEF UpsertInsert, Owes, ToldOK, TypeOK
<1>2. CASE Promote(p) \/ PromoteSwallowed(p)
  <2>1. Fact(p) \in Facts
    BY <1>2, ItemType DEF Promote, PromoteSwallowed, At
  <2>2. /\ owed' = owed
        /\ strays' = strays \/ strays' = strays \cup {Fact(p)}
    BY <1>2 DEF Promote, PromoteSwallowed
  <2> QED
    BY <2>1, <2>2 DEF ToldOK, TypeOK
<1>3. CASE UNCHANGED told
  BY <1>3 DEF told, ToldOK, TypeOK
<1> QED
  BY <1>1, <1>2, <1>3
  DEF Project, Begin, AddCandidate, UpsertRead, AddEvent, Derive, Finish, Fail

LEMMA ProjectTypeInv ==
    ASSUME TypeInv, NEW p \in Threads, Project(p) PROVE TypeInv'
<1>0. /\ TypeOK /\ Pending /\ ThreadOK /\ UpkeepOK /\ draft \in DB
      /\ p # Consolidator /\ p # NoThread /\ SomeTurn \in Turns
  BY SplitType, SomeTurnType, ProjectionAssumption DEF TypeInv
<1>01. UNCHANGED upkeep => UpkeepOK'
  BY <1>0 DEF UpkeepOK, upkeep
<1> DEFINE Stores == /\ Pending' /\ db' \in DB /\ draft' \in DB
                     /\ writer' \in Threads \cup {Consolidator, NoThread}
<1>02. ThreadOK' /\ UpkeepOK' /\ Stores => TypeInv'
  BY <1>0, ProjectTold DEF TypeInv, TypeOK, ThreadOK, UpkeepOK, ToldOK
<1> HIDE DEF Stores
<1>1. ASSUME NEW t \in Turns, Begin(p, t) PROVE TypeInv'
  <2>1. ThreadOK' /\ UNCHANGED upkeep
    BY <1>0, <1>1 DEF Begin, ThreadOK
  <2>2. Stores
    BY <1>0, <1>1 DEF Begin, Pending, Stores, TypeOK, ThreadOK
  <2> QED
    BY <1>01, <1>02, <2>1, <2>2
<1>2. CASE AddCandidate(p)
  <2>1. ThreadOK' /\ UNCHANGED upkeep
    BY <1>0, <1>2 DEF AddCandidate, ThreadOK, NextItem
  <2>2. <<turn[p], idx[p]>> \in Slots
    BY <1>0, <1>2, ItemType DEF AddCandidate, At
  <2> DEFINE d == [draft EXCEPT !.inbox[<<turn[p], idx[p]>>] = @ + 1]
  <2>3. d \in DB /\ d.rows = draft.rows
    BY <1>0, <2>2, CandidateAdded
  <2>4. Commit(p, d) /\ \A q \in Threads : q # p => pc'[q] = pc[q]
    BY <1>0, <1>2 DEF AddCandidate, NextItem, ThreadOK
  <2>5. IsFiniteSet(Froms(d.rows))
    BY <1>0, <2>3 DEF Pending
  <2> HIDE DEF d
  <2>6. Stores
    BY <2>3, <2>4, <2>5, CommitInOrder DEF Stores, Commit
  <2> QED
    BY <1>01, <1>02, <2>1, <2>6
<1>3. CASE UpsertRead(p)
  <2>1. HasItem(p) /\ Current(p).at \in Nat
    BY <1>0, <1>3, ItemType DEF UpsertRead, At, Item
  <2>2. View(p).rows = db.rows
    BY <1>0 DEF View, Pending
  <2>3. Froms(db.rows) \in SUBSET Nat
    BY <1>0 DEF TypeOK, DB, Row, Froms
  <2>4. Nudged(View(p).rows, Current(p).at) \in Nat
    BY <1>0, <2>1, <2>2, <2>3, NudgedIsFree DEF Pending
  <2>5. ThreadOK' /\ UNCHANGED upkeep
    BY <1>0, <1>3, <2>4 DEF UpsertRead, ThreadOK, Goto
  <2>6. Stores
    BY <1>0, <1>3, ReadInOrder
    DEF Stores, UpsertRead, ThreadOK, Goto, Pending
  <2> QED
    BY <1>01, <1>02, <2>5, <2>6
<1>4. CASE UpsertInsert(p)
  <2>1. ThreadOK' /\ UNCHANGED upkeep
    BY <1>0, <1>4 DEF UpsertInsert, ThreadOK, Goto
  <2>2. NewRow(p) \in Row
    BY <1>0, <1>4, NewRowType DEF UpsertInsert, At
  <2> DEFINE d == [draft EXCEPT !.rows = @ \cup {NewRow(p)}]
  <2>3. d \in DB /\ d.rows = draft.rows \cup {NewRow(p)}
    BY <1>0, <2>2, RowAppended
  <2>4. Commit(p, d) /\ \A q \in Threads : q # p => pc'[q] = pc[q]
    BY <1>0, <1>4 DEF UpsertInsert, Goto, ThreadOK
  <2>5. IsFiniteSet(Froms(d.rows))
    <3>1. Froms(d.rows) = Froms(db.rows) \cup {NewRow(p).from}
      BY <1>0, <2>3 DEF Froms, Pending
    <3> QED
      BY <1>0, <3>1, FS_AddElement DEF Pending
  <2> HIDE DEF d
  <2>6. Stores
    BY <2>3, <2>4, <2>5, CommitInOrder DEF Stores, Commit
  <2> QED
    BY <1>01, <1>02, <2>1, <2>6
<1>5. CASE Promote(p)
  <2>1. ThreadOK' /\ UNCHANGED upkeep /\ pc'[p] # "idle"
    BY <1>0, <1>5 DEF Promote, ThreadOK, Goto
  <2>2. Fact(p) \in Facts
    BY <1>0, <1>5, ItemType DEF Promote, At
  <2> DEFINE d == [draft EXCEPT !.memories[Fact(p)] = "active"]
  <2>3. /\ d \in DB /\ d.rows = draft.rows /\ d.inbox = draft.inbox
        /\ d.events = draft.events
    BY <1>0, <2>2, MemoryPut
  <2>4. Keep(p, d)
    BY <1>5 DEF Promote
  <2> HIDE DEF d
  <2>5. Stores
    BY <2>1, <2>3, <2>4, KeepInOrder DEF Stores, Keep
  <2> QED
    BY <1>01, <1>02, <2>1, <2>5
<1>6. CASE PromoteSwallowed(p)
  <2>1. ThreadOK' /\ UNCHANGED upkeep
    BY <1>0, <1>6 DEF PromoteSwallowed, ThreadOK, Goto
  <2>2. Stores
    BY <1>0, <1>6, ReadInOrder
    DEF Stores, PromoteSwallowed, ThreadOK, Goto, Pending
  <2> QED
    BY <1>01, <1>02, <2>1, <2>2
<1>7. CASE AddEvent(p)
  <2>1. ThreadOK' /\ UNCHANGED upkeep /\ pc'[p] # "idle"
    BY <1>0, <1>7 DEF AddEvent, ThreadOK, Goto
  <2>2. <<turn[p], idx[p]>> \in Slots
    BY <1>0, <1>7, ItemType DEF AddEvent, At
  <2> DEFINE d == [draft EXCEPT !.events = @ \cup {<<turn[p], idx[p]>>}]
  <2>3. /\ d \in DB /\ d.rows = draft.rows /\ d.inbox = draft.inbox
        /\ draft.events \subseteq d.events
    BY <1>0, <2>2, EventAdded
  <2>4. Keep(p, d)
    BY <1>7 DEF AddEvent
  <2> HIDE DEF d
  <2>5. Stores
    BY <2>1, <2>3, <2>4, KeepInOrder DEF Stores, Keep
  <2> QED
    BY <1>01, <1>02, <2>1, <2>5
<1>8. CASE Derive(p)
  <2>1. /\ ThreadOK' /\ UNCHANGED upkeep /\ pc'[p] # "idle"
        /\ \A q \in Threads : q # p => pc'[q] = pc[q]
    BY <1>0, <1>8 DEF Derive, ThreadOK, NextItem
  <2>2. CASE UNCHANGED <<db, draft, writer>>
    <3>1. Stores
      BY <1>0, <2>1, <2>2, ReadInOrder DEF Stores, Pending
    <3> QED
      BY <1>01, <1>02, <2>1, <3>1
  <2>3. CASE Keep(p, draft)
    <3>1. Stores
      BY <1>0, <2>1, <2>3, KeepInOrder DEF Stores, Keep
    <3> QED
      BY <1>01, <1>02, <2>1, <3>1
  <2>4. CASE Commit(p, draft)
    <3>1. Stores
      BY <1>0, <2>1, <2>4, CommitInOrder DEF Stores, Commit, Pending
    <3> QED
      BY <1>01, <1>02, <2>1, <3>1
  <2> QED
    BY <1>8, <2>2, <2>3, <2>4 DEF Derive
<1>9. CASE Finish(p)
  <2>1. /\ ThreadOK' /\ UNCHANGED upkeep
        /\ \A q \in Threads : q # p => pc'[q] = pc[q]
    BY <1>0, <1>9 DEF Finish, ThreadOK, Leave
  <2>2. CASE writer = p
    <3>1. Stores
      BY <1>0, <1>9, <2>1, <2>2, CommitInOrder
      DEF Stores, Finish, Commit, Pending
    <3> QED
      BY <1>01, <1>02, <2>1, <3>1
  <2>3. CASE writer # p
    <3>1. Stores
      BY <1>0, <1>9, <2>1, <2>3, ReadInOrder DEF Stores, Finish, Pending
    <3> QED
      BY <1>01, <1>02, <2>1, <3>1
  <2> QED
    BY <2>2, <2>3
<1>10. CASE Fail(p)
  <2>1. /\ ThreadOK' /\ UNCHANGED upkeep /\ Rollback(p)
        /\ \A q \in Threads : q # p => pc'[q] = pc[q]
    BY <1>0, <1>10 DEF Fail, ThreadOK, Leave
  <2>2. Stores
    BY <2>1, RollbackInOrder DEF Stores
  <2> QED
    BY <1>01, <1>02, <2>1, <2>2
<1> QED
  BY <1>1, <1>2, <1>3, <1>4, <1>5, <1>6, <1>7, <1>8, <1>9, <1>10 DEF Project
(* The row consolidation keeps is one of the rows it read. *)
LEMMA NewestIsRead ==
    ASSUME TypeInv, ActiveRows(db) # {}
    PROVE  Newest(ActiveRows(db)) \in ActiveRows(db)
<1> DEFINE rows == ActiveRows(db)
<1>1. /\ Froms(rows) \in SUBSET Froms(db.rows) /\ Froms(rows) # {}
      /\ Froms(rows) \in SUBSET Nat
  BY DEF TypeInv, TypeOK, DB, Row, ActiveRows, Froms
<1>2. IsFiniteSet(Froms(rows))
  BY <1>1, FS_Subset DEF TypeInv, Pending
<1>3. PICK n \in Froms(rows) : \A m \in Froms(rows) : m <= n
  BY <1>1, <1>2, GreatestInstant
<1>4. \E r \in rows : \A s \in rows : s.from <= r.from
  BY <1>3 DEF Froms
<1> HIDE DEF rows
<1> QED
  BY <1>4 DEF Newest, rows

LEMMA DuplicatesExist ==
    ASSUME NEW rows, Duplicates(rows) PROVE rows # {}
  BY FS_EmptySet DEF Duplicates

LEMMA UpkeepTypeInv ==
    ASSUME TypeInv, Consolidate \/ Invalidate PROVE TypeInv'
<1>0. /\ TypeOK /\ Pending /\ ThreadOK /\ UpkeepOK
      /\ db \in DB /\ draft \in DB
  BY SplitType DEF TypeInv
<1> DEFINE Stores == /\ Pending' /\ db' \in DB /\ draft' \in DB
                     /\ writer' \in Threads \cup {Consolidator, NoThread}
<1>00. ToldOK'
  BY <1>0 DEF TypeOK, ToldOK, told, Consolidate, Scan, ReadActive, ReadVictims,
              CloseVictims, Invalidate
<1>01. ThreadOK' /\ UpkeepOK' /\ Stores => TypeInv'
  BY <1>00 DEF TypeInv, TypeOK, ThreadOK, UpkeepOK, ToldOK
<1>02. UNCHANGED thread => ThreadOK'
  BY <1>0 DEF thread, ThreadOK
<1>03. UNCHANGED <<db, draft, writer, pc>> => Stores
  BY <1>0 DEF Stores, Pending, TypeOK
<1> HIDE DEF Stores
<1>1. CASE Scan
  <2>1. UpkeepOK'
    BY <1>0, <1>1 DEF Scan, UpkeepOK
  <2> QED
    BY <1>01, <1>02, <1>03, <1>1, <2>1 DEF Scan, thread
<1>2. CASE ReadActive
  <2>1. CASE Duplicates(ActiveRows(db))
    <3>1. Newest(ActiveRows(db)) \in db.rows
      BY <2>1, NewestIsRead, DuplicatesExist DEF ActiveRows
    <3>2. Newest(ActiveRows(db)).from \in Nat
      BY <1>0, <3>1 DEF DB, Row
    <3>3. UpkeepOK'
      BY <1>0, <1>2, <2>1, <3>2 DEF ReadActive, UpkeepOK
    <3> QED
      BY <1>01, <1>02, <1>03, <1>2, <3>3 DEF ReadActive, thread
  <2>2. CASE ~ Duplicates(ActiveRows(db))
    <3>1. UpkeepOK'
      BY <1>0, <1>2, <2>2 DEF ReadActive, UpkeepOK
    <3> QED
      BY <1>01, <1>02, <1>03, <1>2, <3>1 DEF ReadActive, thread
  <2> QED
    BY <2>1, <2>2
<1>3. CASE ReadVictims
  <2>1. UpkeepOK'
    BY <1>0, <1>3 DEF ReadVictims, UpkeepOK, ActiveRows, DB, Row
  <2> QED
    BY <1>01, <1>02, <1>03, <1>3, <2>1 DEF ReadVictims, thread
<1>4. CASE CloseVictims
  <2> DEFINE d == Closed(draft, victims, keeper)
  <2>1. d \in DB /\ Froms(d.rows) = Froms(draft.rows)
    BY <1>0, RowsClosed DEF UpkeepOK
  <2>2. /\ Commit(Consolidator, d) /\ UNCHANGED thread
        /\ \A q \in Threads : pc'[q] = pc[q]
    BY <1>4 DEF CloseVictims, thread
  <2> HIDE DEF d
  <2>3. Stores
    BY <1>0, <2>1, <2>2, CommitInOrder DEF Stores, Commit, Pending
  <2>4. UpkeepOK'
    BY <1>0, <1>4 DEF CloseVictims, UpkeepOK
  <2> QED
    BY <1>01, <1>02, <2>2, <2>3, <2>4
<1>5. CASE Invalidate
  <2> DEFINE d == Retracted(db)
  <2>1. d \in DB /\ Froms(d.rows) = Froms(db.rows)
    BY <1>0, RowsRetracted
  <2>2. /\ db' = d /\ draft' = d /\ UNCHANGED thread /\ UNCHANGED writer
        /\ writer = NoThread /\ UpkeepOK'
    BY <1>0, <1>5 DEF Invalidate, UpkeepOK
  <2> HIDE DEF d
  <2>3. Stores
    BY <1>0, <2>1, <2>2, ProjectionAssumption DEF Stores, Pending
  <2> QED
    BY <1>01, <1>02, <2>2, <2>3
<1> QED
  BY <1>1, <1>2, <1>3, <1>4, <1>5 DEF Consolidate

LEMMA NextTypeInv == TypeInv /\ [Next]_vars => TypeInv'
<1> SUFFICES ASSUME TypeInv, [Next]_vars PROVE TypeInv'
  OBVIOUS
<1>1. CASE UNCHANGED vars
  BY <1>1 DEF vars, thread, upkeep, told, TypeInv, TypeOK, Pending
<1>2. CASE Next
  BY <1>2, ProjectTypeInv, UpkeepTypeInv DEF Next
<1> QED
  BY <1>1, <1>2

LEMMA TypeInvariant == Spec => []TypeInv
  BY InitTypeInv, NextTypeInv, PTL DEF Spec

(* Every table and every thread's variables keep their shape, and the      *)
(* search for a free instant always finds one.                             *)
THEOREM TypeCorrect == Spec => []TypeOK
  BY TypeInvariant, PTL DEF TypeInv

-----------------------------------------------------------------------------
(* The tables only grow, as far as the items of a turn are concerned. *)
Grows(d, e) ==
    /\ \A r \in d.rows : \E s \in e.rows : s.value = r.value
                                          /\ s.anchor = r.anchor
    /\ d.events \subseteq e.events
    /\ \A s \in Slots : d.inbox[s] <= e.inbox[s]

LEMMA GrowsRefl ==
    ASSUME NEW d \in DB PROVE Grows(d, d)
  BY DEF DB, Grows

LEMMA GrowsTrans ==
    ASSUME NEW d \in DB, NEW e \in DB, NEW f \in DB,
           Grows(d, e), Grows(e, f)
    PROVE  Grows(d, f)
<1>1. \A s \in Slots : /\ d.inbox[s] \in Nat /\ e.inbox[s] \in Nat
                       /\ f.inbox[s] \in Nat
  BY DEF DB
<1>2. \A s \in Slots : d.inbox[s] <= f.inbox[s]
  BY <1>1 DEF Grows
<1>3. \A r \in d.rows : \E s \in f.rows : s.value = r.value
                                         /\ s.anchor = r.anchor
  BY DEF Grows
<1> QED
  BY <1>2, <1>3 DEF Grows

(* What is stored stays stored as the tables grow. *)
LEMMA StoredStays ==
    ASSUME NEW d \in DB, NEW e \in DB, Grows(d, e),
           NEW t \in Turns, NEW i \in 1 .. Len(ItemsOf[t]),
           ItemStored(d, t, i)
    PROVE  ItemStored(e, t, i)
<1>1. <<t, i>> \in Slots
  BY DEF Slots
<1>2. d.inbox[<<t, i>>] \in Nat /\ e.inbox[<<t, i>>] \in Nat
  BY <1>1 DEF DB
<1>3. CASE ItemsOf[t][i].kind = "fact"
  BY <1>3 DEF ItemStored, Grows
<1>4. CASE ItemsOf[t][i].kind = "event"
  BY <1>4 DEF ItemStored, Grows
<1>5. CASE ItemsOf[t][i].kind \notin {"fact", "event"}
  BY <1>1, <1>2, <1>5 DEF ItemStored, Grows
<1> QED
  BY <1>3, <1>4, <1>5
(* A write as the connections see it. *)
LEMMA CommitGrows ==
    ASSUME TypeInv, NEW c \in Threads \cup {Consolidator}, NEW d \in DB,
           Commit(c, d), Grows(draft, d)
    PROVE  /\ Grows(db, db') /\ db' = d
           /\ \A q \in Threads : Grows(View(q), View(q)')
           /\ c \in Threads => View(c)' = d
<1>0. /\ db \in DB /\ draft \in DB
      /\ draft.rows = db.rows /\ draft.inbox = db.inbox
      /\ db.events \subseteq draft.events
      /\ writer = NoThread => draft = db
  BY DEF TypeInv, TypeOK, Pending
<1>1. Grows(db, draft)
  BY <1>0 DEF Grows, DB
<1>2. db' = d /\ draft' = d /\ writer' = NoThread /\ writer \in {c, NoThread}
  BY DEF Commit, MayWrite
<1>3. Grows(db, d)
  BY <1>0, <1>1, GrowsTrans
<1>4. \A q \in Threads : View(q)' = d
  BY <1>2 DEF View
<1>5. \A q \in Threads : View(q) = db \/ View(q) = draft
  BY DEF View
<1> QED
  BY <1>2, <1>3, <1>4, <1>5

LEMMA KeepGrows ==
    ASSUME TypeInv, NEW p \in Threads, NEW d \in DB,
           Keep(p, d), Grows(draft, d)
    PROVE  /\ Grows(db, db')
           /\ \A q \in Threads : Grows(View(q), View(q)')
           /\ View(p)' = d
<1>0. db \in DB /\ draft \in DB /\ (writer = NoThread => draft = db)
  BY DEF TypeInv, TypeOK, Pending
<1>1. /\ db' = db /\ draft' = d /\ writer' = p
      /\ writer \in {p, NoThread}
  BY DEF Keep, MayWrite
<1>2. p # NoThread /\ \A q \in Threads : q # NoThread
  BY ProjectionAssumption
<1>3. View(p) = draft /\ View(p)' = d
  BY <1>0, <1>1 DEF View
<1>4. \A q \in Threads : q # p => View(q) = db /\ View(q)' = db
  BY <1>1, <1>2 DEF View
<1> QED
  BY <1>0, <1>1, <1>3, <1>4, GrowsRefl

LEMMA ReadGrows ==
    ASSUME TypeInv, UNCHANGED <<db, draft, writer>>
    PROVE  /\ Grows(db, db')
           /\ \A q \in Threads : View(q)' = View(q)
           /\ \A q \in Threads : Grows(View(q), View(q)')
<1>1. db \in DB /\ draft \in DB
  BY DEF TypeInv, TypeOK
<1>2. \A q \in Threads : View(q)' = View(q) /\ View(q) \in DB
  BY <1>1 DEF View
<1> QED
  BY <1>1, <1>2, GrowsRefl

(* A thread inside a projection has stored the items before the one it is  *)
(* at, and that one too when it is about to promote it or to link it: in   *)
(* its own transaction or, once it has lost the lock, for good.            *)
ProgressOf(p) ==
    pc[p] # "idle" =>
        \A i \in 1 .. Len(ItemsOf[turn[p]]) :
            (i < idx[p] \/ (i = idx[p] /\ pc[p] \in {"promote", "derive"}))
                => ItemStored(View(p), turn[p], i)

Progress == \A p \in Threads : ProgressOf(p)

(* A memories row, committed or pending, has its entity_state row. *)
PendingHasState ==
    \A f \in Facts : draft.memories[f] # "none" =>
        \E r \in db.rows : r.value = f[1] /\ r.anchor = f[2]

StoreInv == /\ Progress /\ PendingHasState
            /\ MemoryHasState /\ SuccessIsDurable

LEMMA InitStoreInv == Init => StoreInv
  BY DEF Init, StoreInv, Progress, ProgressOf, PendingHasState,
         MemoryHasState, SuccessIsDurable, Empty

LEMMA OthersProgress ==
    ASSUME TypeInv, TypeInv', NEW q \in Threads, ProgressOf(q),
           Grows(View(q), View(q)'),
           pc'[q] = pc[q], turn'[q] = turn[q], idx'[q] = idx[q]
    PROVE  ProgressOf(q)'
<1>1. View(q) \in DB /\ View(q)' \in DB
  BY DEF View, TypeInv, TypeOK
<1>2. turn[q] \in Turns
  BY DEF TypeInv, TypeOK
<1>3. SUFFICES ASSUME pc'[q] # "idle",
                      NEW i \in 1 .. Len(ItemsOf[turn'[q]]),
                      \/ i < idx'[q]
                      \/ i = idx'[q] /\ pc'[q] \in {"promote", "derive"}
               PROVE  ItemStored(View(q), turn[q], i)'
  BY DEF ProgressOf
<1>4. ItemStored(View(q), turn[q], i)
  BY <1>3 DEF ProgressOf
<1>5. ItemStored(View(q)', turn[q], i)
  BY <1>1, <1>2, <1>3, <1>4, StoredStays
<1> QED
  BY <1>5 DEF ItemStored

LEMMA DurableStays ==
    ASSUME TypeInv, TypeInv', SuccessIsDurable, Grows(db, db')
    PROVE  \A t \in succeeded : \A i \in 1 .. Len(ItemsOf[t]) :
             ItemStored(db', t, i)
<1>1. db \in DB /\ db' \in DB /\ succeeded \subseteq Turns
  BY DEF TypeInv, TypeOK
<1> QED
  BY <1>1, StoredStays DEF SuccessIsDurable
(* A thread moves on within its turn: it stays at its item, or it has      *)
(* stored it.                                                              *)
LEMMA OwnProgress ==
    ASSUME TypeInv, TypeInv', NEW p \in Threads, ProgressOf(p),
           pc[p] # "idle", Grows(View(p), View(p)'), turn'[p] = turn[p],
           \/ idx'[p] = idx[p] /\ pc'[p] \notin {"promote", "derive"}
           \/ /\ \/ idx'[p] = idx[p]
                 \/ idx'[p] = idx[p] + 1 /\ pc'[p] = "item"
              /\ HasItem(p)
              /\ ItemStored(View(p)', turn[p], idx[p])
    PROVE  ProgressOf(p)'
<1>1. View(p) \in DB /\ View(p)' \in DB
  BY DEF View, TypeInv, TypeOK
<1>2. turn[p] \in Turns /\ idx[p] \in Nat
  BY DEF TypeInv, TypeOK
<1>3. SUFFICES ASSUME pc'[p] # "idle",
                      NEW i \in 1 .. Len(ItemsOf[turn'[p]]),
                      \/ i < idx'[p]
                      \/ i = idx'[p] /\ pc'[p] \in {"promote", "derive"}
               PROVE  ItemStored(View(p), turn[p], i)'
  BY DEF ProgressOf
<1>4. CASE i < idx[p]
  <2>1. ItemStored(View(p), turn[p], i)
    BY <1>3, <1>4 DEF ProgressOf
  <2>2. ItemStored(View(p)', turn[p], i)
    BY <1>1, <1>2, <1>3, <2>1, StoredStays
  <2> QED
    BY <2>2 DEF ItemStored
<1>5. CASE i = idx[p]
  <2>1. ItemStored(View(p)', turn[p], i)
    BY <1>2, <1>3, <1>5
  <2> QED
    BY <2>1 DEF ItemStored
<1>6. i < idx[p] \/ i = idx[p]
  BY <1>2, <1>3
<1> QED
  BY <1>4, <1>5, <1>6

LEMMA StepStoreInv ==
    ASSUME TypeInv, TypeInv', StoreInv, NEW p \in Threads,
           Grows(db, db'), \A q \in Threads : Grows(View(q), View(q)'),
           \A q \in Threads : q # p => /\ pc'[q] = pc[q]
                                       /\ turn'[q] = turn[q]
                                       /\ idx'[q] = idx[q],
           ProgressOf(p)',
           \A f \in Facts :
               \/ db'.memories[f] # "none" \/ draft'.memories[f] # "none"
               => \/ db.memories[f] # "none" \/ draft.memories[f] # "none"
                  \/ \E r \in db.rows : r.value = f[1] /\ r.anchor = f[2],
           \A t \in succeeded' : t \in succeeded
               \/ \A i \in 1 .. Len(ItemsOf[t]) : ItemStored(db', t, i)
    PROVE  StoreInv'
<1>1. Progress'
  <2>1. ASSUME NEW q \in Threads, q # p PROVE ProgressOf(q)'
    BY <2>1, OthersProgress DEF StoreInv, Progress
  <2> QED
    BY <2>1 DEF Progress
<1>2. ASSUME NEW f \in Facts,
             db'.memories[f] # "none" \/ draft'.memories[f] # "none"
      PROVE  \E r \in db'.rows : r.value = f[1] /\ r.anchor = f[2]
  <2>1. \E r \in db.rows : r.value = f[1] /\ r.anchor = f[2]
    BY <1>2 DEF StoreInv, PendingHasState, MemoryHasState
  <2> QED
    BY <2>1 DEF Grows
<1>3. PendingHasState' /\ MemoryHasState'
  BY <1>2 DEF PendingHasState, MemoryHasState
<1>4. SuccessIsDurable'
  <2>1. \A t \in succeeded : \A i \in 1 .. Len(ItemsOf[t]) :
          ItemStored(db', t, i)
    BY DurableStays DEF StoreInv
  <2>2. \A t \in succeeded' : \A i \in 1 .. Len(ItemsOf[t]) :
          ItemStored(db', t, i)
    BY <2>1
  <2> QED
    BY <2>2 DEF SuccessIsDurable, ItemStored
<1> QED
  BY <1>1, <1>3, <1>4 DEF StoreInv

LEMMA ProjectStoreInv ==
    ASSUME TypeInv, TypeInv', StoreInv, NEW p \in Threads, Project(p)
    PROVE  StoreInv'
<1>0. /\ TypeOK /\ Pending /\ ProgressOf(p)
      /\ db \in DB /\ draft \in DB /\ View(p) \in DB
      /\ p \in Threads \cup {Consolidator}
  BY DEF TypeInv, TypeOK, StoreInv, Progress, View
<1> DEFINE SameOthers == \A q \in Threads : q # p => /\ pc'[q] = pc[q]
                                                     /\ turn'[q] = turn[q]
                                                     /\ idx'[q] = idx[q]
           NoNewMemory == \A f \in Facts :
               \/ db'.memories[f] # "none" \/ draft'.memories[f] # "none"
               => \/ db.memories[f] # "none" \/ draft.memories[f] # "none"
                  \/ \E r \in db.rows : r.value = f[1] /\ r.anchor = f[2]
           AllGrow == /\ Grows(db, db')
                      /\ \A q \in Threads : Grows(View(q), View(q)')
<1>01. /\ AllGrow /\ SameOthers /\ NoNewMemory
       /\ ProgressOf(p)' /\ succeeded' = succeeded
       => StoreInv'
  BY StepStoreInv
<1>02. UNCHANGED <<db, draft, writer>> => AllGrow /\ NoNewMemory
  BY ReadGrows
<1> HIDE DEF SameOthers, NoNewMemory, AllGrow
<1>1. ASSUME NEW t \in Turns, Begin(p, t) PROVE StoreInv'
  <2>1. /\ writer = NoThread /\ writer' = p /\ UNCHANGED <<db, draft>>
        /\ draft = db
    BY <1>0, <1>1 DEF Begin, Pending
  <2>2. \A q \in Threads : View(q) = db /\ View(q)' = db
    BY <2>1 DEF View
  <2>3. AllGrow /\ NoNewMemory
    BY <1>0, <2>1, <2>2, GrowsRefl DEF AllGrow, NoNewMemory
  <2>4. SameOthers /\ succeeded' = succeeded
    BY <1>0, <1>1 DEF Begin, SameOthers, TypeOK
  <2>5. pc'[p] = "item" /\ idx'[p] = 1
    BY <1>0, <1>1 DEF Begin, TypeOK
  <2>6. ProgressOf(p)'
    BY <2>5 DEF ProgressOf
  <2> QED
    BY <1>01, <2>3, <2>4, <2>6
<1>2. CASE AddCandidate(p)
  <2>1. /\ SameOthers /\ succeeded' = succeeded
        /\ pc[p] # "idle" /\ turn'[p] = turn[p]
        /\ idx'[p] = idx[p] + 1 /\ pc'[p] = "item"
        /\ HasItem(p) /\ Current(p).kind \in {"vague", "sourceless"}
    BY <1>0, <1>2 DEF AddCandidate, At, NextItem, SameOthers, TypeOK
  <2>2. <<turn[p], idx[p]>> \in Slots
    BY <1>0, <2>1, ItemType
  <2> DEFINE d == [draft EXCEPT !.inbox[<<turn[p], idx[p]>>] = @ + 1]
  <2>3. /\ d \in DB /\ d.rows = draft.rows /\ d.memories = draft.memories
        /\ d.events = draft.events
        /\ d.inbox = [draft.inbox EXCEPT ![<<turn[p], idx[p]>>] = @ + 1]
    BY <1>0, <2>2, CandidateAdded
  <2>4. Commit(p, d)
    BY <1>2 DEF AddCandidate
  <2> HIDE DEF d
  <2>5. /\ \A s \in Slots : draft.inbox[s] \in Nat
        /\ d.inbox[<<turn[p], idx[p]>>] > 0
        /\ \A s \in Slots : draft.inbox[s] <= d.inbox[s]
    BY <1>0, <2>2, <2>3 DEF DB
  <2>6. Grows(draft, d)
    BY <2>3, <2>5 DEF Grows
  <2>7. AllGrow /\ db' = d /\ draft' = d /\ View(p)' = d
    BY <1>0, <2>3, <2>4, <2>6, CommitGrows DEF AllGrow, Commit
  <2>8. NoNewMemory
    BY <2>3, <2>7 DEF NoNewMemory
  <2>9. ItemStored(View(p)', turn[p], idx[p])
    BY <2>1, <2>5, <2>7 DEF ItemStored, Current
  <2>10. ProgressOf(p)'
    BY <1>0, <2>1, <2>7, <2>9, OwnProgress DEF AllGrow
  <2> QED
    BY <1>01, <2>1, <2>7, <2>8, <2>10
<1>3. CASE UpsertRead(p)
  <2>1. /\ SameOthers /\ succeeded' = succeeded
        /\ pc[p] # "idle" /\ turn'[p] = turn[p]
        /\ idx'[p] = idx[p] /\ pc'[p] = "insert"
    BY <1>0, <1>3 DEF UpsertRead, At, Goto, SameOthers, TypeOK
  <2>2. AllGrow /\ NoNewMemory
    BY <1>02, <1>3 DEF UpsertRead
  <2>3. ProgressOf(p)'
    BY <1>0, <2>1, <2>2, OwnProgress DEF AllGrow
  <2> QED
    BY <1>01, <2>1, <2>2, <2>3
<1>4. CASE UpsertInsert(p)
  <2>1. /\ SameOthers /\ succeeded' = succeeded
        /\ pc[p] # "idle" /\ turn'[p] = turn[p]
        /\ idx'[p] = idx[p]
        /\ HasItem(p) /\ Current(p).kind = "fact"
    BY <1>0, <1>4 DEF UpsertInsert, At, Goto, SameOthers, TypeOK
  <2>2. NewRow(p) \in Row
    BY <1>0, <2>1, NewRowType
  <2> DEFINE d == [draft EXCEPT !.rows = @ \cup {NewRow(p)}]
  <2>3. /\ d \in DB /\ d.rows = draft.rows \cup {NewRow(p)}
        /\ d.memories = draft.memories
        /\ d.events = draft.events /\ d.inbox = draft.inbox
    BY <1>0, <2>2, RowAppended
  <2>4. Commit(p, d)
    BY <1>4 DEF UpsertInsert
  <2> HIDE DEF d
  <2>5. \A s \in Slots : draft.inbox[s] \in Nat
    BY <1>0 DEF DB
  <2>6. Grows(draft, d)
    BY <2>3, <2>5 DEF Grows
  <2>7. AllGrow /\ db' = d /\ draft' = d /\ View(p)' = d
    BY <1>0, <2>3, <2>4, <2>6, CommitGrows DEF AllGrow, Commit
  <2>8. NoNewMemory
    BY <2>3, <2>7 DEF NoNewMemory
  <2>9. ItemStored(View(p)', turn[p], idx[p])
    <3>1. /\ NewRow(p) \in d.rows /\ NewRow(p).anchor = turn[p]
          /\ NewRow(p).value = Current(p).value
      BY <2>3 DEF NewRow
    <3> QED
      BY <2>1, <2>7, <3>1 DEF ItemStored, Current
  <2>10. ProgressOf(p)'
    BY <1>0, <2>1, <2>7, <2>9, OwnProgress DEF AllGrow
  <2> QED
    BY <1>01, <2>1, <2>7, <2>8, <2>10
<1>5. CASE Promote(p)
  <2>1. /\ SameOthers /\ succeeded' = succeeded
        /\ pc[p] = "promote" /\ turn'[p] = turn[p]
        /\ idx'[p] = idx[p]
        /\ HasItem(p) /\ Current(p).kind = "fact"
    BY <1>0, <1>5 DEF Promote, At, Goto, SameOthers, TypeOK
  <2>2. Fact(p) \in Facts
    BY <1>0, <2>1, ItemType
  <2> DEFINE d == [draft EXCEPT !.memories[Fact(p)] = "active"]
  <2>3. /\ d \in DB /\ d.rows = draft.rows
        /\ d.memories = [draft.memories EXCEPT ![Fact(p)] = "active"]
        /\ d.events = draft.events /\ d.inbox = draft.inbox
    BY <1>0, <2>2, MemoryPut
  <2>4. Keep(p, d)
    BY <1>5 DEF Promote
  <2> HIDE DEF d
  <2>5. \A s \in Slots : draft.inbox[s] \in Nat
    BY <1>0 DEF DB
  <2>6. Grows(draft, d)
    BY <2>3, <2>5 DEF Grows
  <2>7. AllGrow /\ db' = db /\ draft' = d
    BY <1>0, <2>3, <2>4, <2>6, KeepGrows DEF AllGrow, Keep
  <2>8. turn[p] \in Turns /\ idx[p] \in 1 .. Len(ItemsOf[turn[p]])
    BY <1>0, <2>1, ProjectionAssumption DEF TypeOK, HasItem
  <2>9. ItemStored(View(p), turn[p], idx[p])
    BY <1>0, <2>1, <2>8 DEF ProgressOf
  <2>10. \E r \in db.rows : /\ r.value = Fact(p)[1]
                            /\ r.anchor = Fact(p)[2]
    <3>1. View(p).rows = db.rows
      BY <1>0 DEF View, Pending
    <3> QED
      BY <2>1, <2>9, <3>1 DEF ItemStored, Fact, Current
  <2>11. NoNewMemory
    <3>1. \A f \in Facts : f # Fact(p) => d.memories[f] = draft.memories[f]
      BY <1>0, <2>3 DEF DB
    <3> QED
      BY <2>7, <2>10, <3>1 DEF NoNewMemory
  <2>12. ItemStored(View(p)', turn[p], idx[p])
    <3>1. View(p)' \in DB
      BY DEF TypeInv, TypeOK, View
    <3> QED
      BY <1>0, <2>7, <2>8, <2>9, <3>1, StoredStays DEF AllGrow
  <2>13. ProgressOf(p)'
    BY <1>0, <2>1, <2>7, <2>12, OwnProgress DEF AllGrow
  <2> QED
    BY <1>01, <2>1, <2>7, <2>11, <2>13
<1>6. CASE PromoteSwallowed(p)
  <2>1. /\ SameOthers /\ succeeded' = succeeded
        /\ pc[p] = "promote" /\ turn'[p] = turn[p]
        /\ idx'[p] = idx[p] /\ HasItem(p)
    BY <1>0, <1>6 DEF PromoteSwallowed, At, Goto, SameOthers, TypeOK
  <2>2. AllGrow /\ NoNewMemory /\ View(p)' = View(p)
    BY <1>02, <1>6, ReadGrows DEF PromoteSwallowed
  <2>3. turn[p] \in Turns /\ idx[p] \in 1 .. Len(ItemsOf[turn[p]])
    BY <1>0, <2>1, ProjectionAssumption DEF TypeOK, HasItem
  <2>4. ItemStored(View(p)', turn[p], idx[p])
    BY <1>0, <2>1, <2>2, <2>3 DEF ProgressOf
  <2>5. ProgressOf(p)'
    BY <1>0, <2>1, <2>2, <2>4, OwnProgress DEF AllGrow
  <2> QED
    BY <1>01, <2>1, <2>2, <2>5
<1>7. CASE AddEvent(p)
  <2>1. /\ SameOthers /\ succeeded' = succeeded
        /\ pc[p] # "idle" /\ turn'[p] = turn[p]
        /\ idx'[p] = idx[p]
        /\ HasItem(p) /\ Current(p).kind = "event"
    BY <1>0, <1>7 DEF AddEvent, At, Goto, SameOthers, TypeOK
  <2>2. <<turn[p], idx[p]>> \in Slots
    BY <1>0, <2>1, ItemType
  <2> DEFINE d == [draft EXCEPT !.events = @ \cup {<<turn[p], idx[p]>>}]
  <2>3. /\ d \in DB /\ d.rows = draft.rows /\ d.memories = draft.memories
        /\ d.events = draft.events \cup {<<turn[p], idx[p]>>}
        /\ d.inbox = draft.inbox
    BY <1>0, <2>2, EventAdded
  <2>4. Keep(p, d)
    BY <1>7 DEF AddEvent
  <2> HIDE DEF d
  <2>5. \A s \in Slots : draft.inbox[s] \in Nat
    BY <1>0 DEF DB
  <2>6. Grows(draft, d)
    BY <2>3, <2>5 DEF Grows
  <2>7. AllGrow /\ db' = db /\ draft' = d /\ View(p)' = d
    BY <1>0, <2>3, <2>4, <2>6, KeepGrows DEF AllGrow, Keep
  <2>8. NoNewMemory
    BY <2>3, <2>7 DEF NoNewMemory
  <2>9. ItemStored(View(p)', turn[p], idx[p])
    BY <2>1, <2>3, <2>7 DEF ItemStored, Current
  <2>10. ProgressOf(p)'
    BY <1>0, <2>1, <2>7, <2>9, OwnProgress DEF AllGrow
  <2> QED
    BY <1>01, <2>1, <2>7, <2>8, <2>10
<1>8. CASE Derive(p)
  <2>1. /\ SameOthers /\ succeeded' = succeeded
        /\ pc[p] = "derive" /\ turn'[p] = turn[p]
        /\ idx'[p] = idx[p] + 1 /\ pc'[p] = "item" /\ HasItem(p)
    BY <1>0, <1>8 DEF Derive, At, NextItem, SameOthers, TypeOK
  <2>2. AllGrow /\ NoNewMemory
    <3>1. CASE UNCHANGED <<db, draft, writer>>
      BY <1>02, <3>1
    <3>2. CASE Keep(p, draft)
      BY <1>0, <3>2, KeepGrows, GrowsRefl DEF AllGrow, NoNewMemory, Keep
    <3>3. CASE Commit(p, draft)
      BY <1>0, <3>3, CommitGrows, GrowsRefl DEF AllGrow, NoNewMemory, Commit
    <3> QED
      BY <1>8, <3>1, <3>2, <3>3 DEF Derive
  <2>3. turn[p] \in Turns /\ idx[p] \in 1 .. Len(ItemsOf[turn[p]])
    BY <1>0, <2>1, ProjectionAssumption DEF TypeOK, HasItem
  <2>4. ItemStored(View(p)', turn[p], idx[p])
    <3>1. ItemStored(View(p), turn[p], idx[p])
      BY <1>0, <2>1, <2>3 DEF ProgressOf
    <3>2. View(p)' \in DB
      BY DEF TypeInv, TypeOK, View
    <3> QED
      BY <1>0, <2>2, <2>3, <3>1, <3>2, StoredStays DEF AllGrow
  <2>5. ProgressOf(p)'
    BY <1>0, <2>1, <2>2, <2>4, OwnProgress DEF AllGrow
  <2> QED
    BY <1>01, <2>1, <2>2, <2>5
<1>9. CASE Finish(p)
  <2>1. /\ SameOthers /\ succeeded' = succeeded \cup {turn[p]}
        /\ pc[p] # "idle" /\ pc'[p] = "idle" /\ ~HasItem(p)
    BY <1>0, <1>9 DEF Finish, Leave, SameOthers, TypeOK
  <2>2. AllGrow /\ NoNewMemory /\ db' = View(p)
    <3>1. CASE writer = p
      <4>1. Commit(p, draft) /\ View(p) = draft
        BY <1>9, <3>1 DEF Finish, View
      <4> QED
        BY <1>0, <4>1, CommitGrows, GrowsRefl DEF AllGrow, NoNewMemory, Commit
    <3>2. CASE writer # p
      BY <1>02, <1>9, <3>2 DEF Finish, View
    <3> QED
      BY <3>1, <3>2
  <2>3. \A i \in 1 .. Len(ItemsOf[turn[p]]) : ItemStored(db', turn[p], i)
    <3> TAKE i \in 1 .. Len(ItemsOf[turn[p]])
    <3>1. i < idx[p]
      BY <1>0, <2>1, ProjectionAssumption DEF HasItem, TypeOK
    <3> QED
      BY <1>0, <2>1, <2>2, <3>1 DEF ProgressOf
  <2>4. ProgressOf(p)'
    BY <2>1 DEF ProgressOf
  <2>5. \A t \in succeeded' : t \in succeeded
          \/ \A i \in 1 .. Len(ItemsOf[t]) : ItemStored(db', t, i)
    BY <2>1, <2>3
  <2> QED
    BY <2>1, <2>2, <2>4, <2>5, StepStoreInv
    DEF AllGrow, SameOthers, NoNewMemory
<1>10. CASE Fail(p)
  <2>1. /\ SameOthers /\ succeeded' = succeeded /\ Rollback(p)
        /\ pc'[p] = "idle"
    BY <1>0, <1>10 DEF Fail, Leave, SameOthers, TypeOK
  <2>2. ProgressOf(p)'
    BY <2>1 DEF ProgressOf
  <2>3. db' = db /\ NoNewMemory
    BY <2>1 DEF Rollback, NoNewMemory
  <2>4. \A q \in Threads : q # p => ProgressOf(q)'
    <3> SUFFICES ASSUME NEW q \in Threads, q # p PROVE ProgressOf(q)'
      OBVIOUS
    <3>1. View(q)' = View(q) /\ View(q) \in DB
      BY <1>0, <2>1, ProjectionAssumption DEF Rollback, View
    <3>2. /\ ProgressOf(q) /\ Grows(View(q), View(q)')
      BY <3>1, GrowsRefl DEF StoreInv, Progress
    <3> QED
      BY <2>1, <3>2, OthersProgress DEF SameOthers
  <2>5. PendingHasState' /\ MemoryHasState'
    BY <2>3 DEF NoNewMemory, StoreInv, PendingHasState, MemoryHasState
  <2>6. SuccessIsDurable'
    BY <2>1, <2>3 DEF StoreInv, SuccessIsDurable, ItemStored
  <2> QED
    BY <2>2, <2>4, <2>5, <2>6 DEF StoreInv, Progress
<1> QED
  BY <1>1, <1>2, <1>3, <1>4, <1>5, <1>6, <1>7, <1>8, <1>9, <1>10 DEF Project
(* Maintenance closes rows but takes none away. *)
LEMMA ClosedGrows ==
    ASSUME NEW d \in DB, NEW doomed, NEW until \in Nat
    PROVE  /\ Closed(d, doomed, until) \in DB
           /\ Grows(d, Closed(d, doomed, until))
           /\ \A f \in Facts : Closed(d, doomed, until).memories[f] # "none"
                                 => d.memories[f] # "none"
<1> DEFINE e == Closed(d, doomed, until)
           shut(r) == IF r.from \in doomed THEN [r EXCEPT !.to = until] ELSE r
<1>0. RowsUntil(d.rows, doomed, until) = {shut(r) : r \in d.rows}
  BY DEF RowsUntil
<1>1. /\ e \in DB /\ e.rows = {shut(r) : r \in d.rows}
      /\ e.events = d.events /\ e.inbox = d.inbox
      /\ \A f \in Facts : e.memories[f] # "none" => d.memories[f] # "none"
  <2>1. /\ e \in DB /\ e.rows = RowsUntil(d.rows, doomed, until)
        /\ e.events = d.events /\ e.inbox = d.inbox
    BY RowsClosed
  <2>2. ASSUME NEW f \in Facts, d.memories[f] = "none"
        PROVE  e.memories[f] = "none"
    BY <2>2, RowsClosed
  <2> HIDE DEF e, shut
  <2> QED
    BY <1>0, <2>1, <2>2
<1>2. \A r \in d.rows : /\ shut(r).value = r.value
                        /\ shut(r).anchor = r.anchor
  <2> TAKE r \in d.rows
  <2>1. r \in Row
    BY DEF DB
  <2> QED
    BY <2>1 DEF Row
<1> HIDE DEF e, shut
<1>3. \A r \in d.rows : \E s \in e.rows : s.value = r.value
                                         /\ s.anchor = r.anchor
  BY <1>1, <1>2
<1>4. Grows(d, e)
  BY <1>1, <1>3 DEF Grows, DB
<1> QED
  BY <1>1, <1>4 DEF e

LEMMA RetractedGrows ==
    ASSUME NEW d \in DB
    PROVE  /\ Retracted(d) \in DB /\ Grows(d, Retracted(d))
           /\ \A f \in Facts : Retracted(d).memories[f] # "none"
                                 => d.memories[f] # "none"
<1> DEFINE e == Retracted(d)
           shut(r) == IF r.to = Open THEN [r EXCEPT !.to = RetractTime] ELSE r
<1>1. /\ e \in DB /\ e.rows = {shut(r) : r \in d.rows}
      /\ e.events = d.events /\ e.inbox = d.inbox
      /\ \A f \in Facts : e.memories[f] # "none" => d.memories[f] # "none"
  BY RowsRetracted
<1>2. \A r \in d.rows : /\ shut(r).value = r.value
                        /\ shut(r).anchor = r.anchor
  <2> TAKE r \in d.rows
  <2>1. r \in Row
    BY DEF DB
  <2> QED
    BY <2>1 DEF Row
<1> HIDE DEF e, shut
<1>3. \A r \in d.rows : \E s \in e.rows : s.value = r.value
                                         /\ s.anchor = r.anchor
  BY <1>1, <1>2
<1>4. Grows(d, e)
  BY <1>1, <1>3 DEF Grows, DB
<1> QED
  BY <1>1, <1>4 DEF e

LEMMA UpkeepStoreInv ==
    ASSUME TypeInv, TypeInv', StoreInv, Consolidate \/ Invalidate
    PROVE  StoreInv'
<1>0. /\ TypeOK /\ Pending /\ db \in DB /\ draft \in DB
      /\ keeper \in Nat
  BY DEF TypeInv, TypeOK
<1>1. UNCHANGED thread
  BY DEF Consolidate, Scan, ReadActive, ReadVictims, CloseVictims, Invalidate
<1>2. /\ Grows(db, db') /\ \A q \in Threads : Grows(View(q), View(q)')
      /\ \A f \in Facts :
           db'.memories[f] # "none" \/ draft'.memories[f] # "none"
             => db.memories[f] # "none" \/ draft.memories[f] # "none"
  <2>1. CASE Scan \/ ReadActive \/ ReadVictims
    <3>1. UNCHANGED <<db, draft, writer>>
      BY <2>1 DEF Scan, ReadActive, ReadVictims
    <3> QED
      BY <3>1, ReadGrows
  <2>2. CASE CloseVictims
    <3> DEFINE d == Closed(draft, victims, keeper)
    <3>1. /\ d \in DB /\ Grows(draft, d)
          /\ \A f \in Facts : d.memories[f] # "none"
                                => draft.memories[f] # "none"
      BY <1>0, ClosedGrows
    <3>2. Commit(Consolidator, d)
      BY <2>2 DEF CloseVictims
    <3> HIDE DEF d
    <3> QED
      BY <3>1, <3>2, CommitGrows DEF Commit
  <2>3. CASE Invalidate
    <3> DEFINE d == Retracted(db)
    <3>1. /\ d \in DB /\ Grows(db, d)
          /\ \A f \in Facts : d.memories[f] # "none" => db.memories[f] # "none"
      BY <1>0, RetractedGrows
    <3>2. db' = d /\ draft' = d /\ writer = NoThread /\ writer' = NoThread
      BY <2>3 DEF Invalidate
    <3> HIDE DEF d
    <3>3. \A q \in Threads : View(q) = db /\ View(q)' = d
      BY <1>0, <3>2 DEF View, Pending
    <3> QED
      BY <3>1, <3>2, <3>3
  <2> QED
    BY <2>1, <2>2, <2>3 DEF Consolidate
<1>3. Progress'
  <2>1. ASSUME NEW q \in Threads PROVE ProgressOf(q)'
    <3>1. ProgressOf(q) /\ Grows(View(q), View(q)')
      BY <1>2 DEF StoreInv, Progress
    <3> QED
      BY <1>1, <3>1, OthersProgress DEF thread
  <2> QED
    BY <2>1 DEF Progress
<1>4. PendingHasState' /\ MemoryHasState'
  <2>1. ASSUME NEW f \in Facts,
               db'.memories[f] # "none" \/ draft'.memories[f] # "none"
        PROVE  \E r \in db'.rows : r.value = f[1] /\ r.anchor = f[2]
    <3>1. \E r \in db.rows : r.value = f[1] /\ r.anchor = f[2]
      BY <1>2, <2>1 DEF StoreInv, PendingHasState, MemoryHasState
    <3> QED
      BY <1>2, <3>1 DEF Grows
  <2> QED
    BY <2>1 DEF PendingHasState, MemoryHasState
<1>5. SuccessIsDurable'
  <2>1. \A t \in succeeded : \A i \in 1 .. Len(ItemsOf[t]) :
          ItemStored(db', t, i)
    BY <1>2, DurableStays DEF StoreInv
  <2> QED
    BY <1>1, <2>1 DEF SuccessIsDurable, ItemStored, thread
<1> QED
  BY <1>3, <1>4, <1>5 DEF StoreInv

LEMMA NextStoreInv == TypeInv /\ TypeInv' /\ StoreInv /\ [Next]_vars
                        => StoreInv'
<1> SUFFICES ASSUME TypeInv, TypeInv', StoreInv, [Next]_vars PROVE StoreInv'
  OBVIOUS
<1>1. CASE UNCHANGED vars
  BY <1>1 DEF vars, thread, StoreInv, Progress, ProgressOf, View,
              PendingHasState, MemoryHasState, SuccessIsDurable, ItemStored
<1>2. CASE Next
  BY <1>2, ProjectStoreInv, UpkeepStoreInv DEF Next
<1> QED
  BY <1>1, <1>2

LEMMA StoreInvariant == Spec => []StoreInv
  BY InitStoreInv, NextStoreInv, TypeInvariant, PTL DEF Spec

(* A projection that returned has committed every item of its turn, with   *)
(* any number of threads projecting, a consolidation or a retraction at    *)
(* any moment, and failures at any statement: what mark_extract_done       *)
(* relies on.                                                              *)
THEOREM ReturnedIsDurable == Spec => []SuccessIsDurable
  BY StoreInvariant, PTL DEF StoreInv

(* No memories row is readable before its entity_state row is committed,   *)
(* and none is left without it.                                            *)
THEOREM MemoryAfterState == Spec => []MemoryHasState
  BY StoreInvariant, PTL DEF StoreInv
-----------------------------------------------------------------------------
(* What one step of a projection does to the rows, to what they owe and to *)
(* the memories: at most one row is added, an active one at a free         *)
(* instant, just before its promotion; at most the promoted fact becomes   *)
(* an active memory, and it has an active row or is a stray.               *)
LEMMA ProjectEffect ==
    ASSUME TypeInv, NEW p \in Threads, Project(p)
    PROVE  /\ \A q \in Threads : q # p => pc'[q] = pc[q] /\ stamp'[q] = stamp[q]
           /\ UNCHANGED <<pass, keeper, victims>>
           /\ \/ /\ db'.rows = db.rows /\ owed' = owed
                 /\ pc'[p] = "insert" => stamp'[p] # 0
              \/ /\ db'.rows = db.rows \cup {NewRow(p)} /\ Owes(p)
                 /\ At(p, "insert", {"fact"}) /\ pc'[p] = "promote"
                 /\ NewRow(p).from \notin Froms(db.rows)
           /\ strays \subseteq strays'
           /\ \A f \in Facts :
                 /\ db'.memories[f] \in {db.memories[f], draft.memories[f]}
                 /\ \/ draft'.memories[f] \in {db.memories[f], draft.memories[f]}
                    \/ /\ draft'.memories[f] = "active"
                       /\ f \in strays' \/ f \in FactsOf(ActiveRows(db))
<1>0. /\ TypeOK /\ Pending /\ draft \in DB /\ db \in DB
      /\ draft.rows = db.rows
  BY DEF TypeInv, TypeOK, Pending
<1> USE DEF upkeep, told
<1>1. ASSUME NEW t \in Turns, Begin(p, t)
      PROVE  /\ UNCHANGED <<db, draft, stamp, upkeep, told>>
             /\ pc' = [pc EXCEPT ![p] = "item"]
  BY <1>1 DEF Begin
<1>2. CASE AddCandidate(p)
  <2>1. <<turn[p], idx[p]>> \in Slots
    BY <1>0, <1>2, ItemType DEF AddCandidate, At
  <2> DEFINE d == [draft EXCEPT !.inbox[<<turn[p], idx[p]>>] = @ + 1]
  <2>2. d.rows = draft.rows /\ d.memories = draft.memories
    BY <1>0, <2>1, CandidateAdded
  <2>3. db' = d /\ draft' = d
    BY <1>2 DEF AddCandidate, Commit
  <2> HIDE DEF d
  <2> QED
    BY <1>0, <1>2, <2>2, <2>3 DEF AddCandidate, At, NextItem, TypeOK
<1>3. CASE UpsertRead(p)
  <2>1. /\ UNCHANGED <<db, draft, upkeep, told>>
        /\ pc' = [pc EXCEPT ![p] = "insert"] /\ HasItem(p)
        /\ stamp' = [stamp EXCEPT ![p] = Nudged(View(p).rows, Current(p).at)]
    BY <1>3 DEF UpsertRead, At, Goto
  <2>2. Current(p).at \in Nat \ {0}
    BY <1>0, <2>1, ItemType DEF Item
  <2>3. View(p).rows = db.rows
    BY <1>0 DEF View
  <2>4. Froms(db.rows) \in SUBSET Nat /\ IsFiniteSet(Froms(db.rows))
    BY <1>0 DEF Pending, DB, Row, Froms
  <2>5. Nudged(View(p).rows, Current(p).at) # 0
    BY <2>2, <2>3, <2>4, NudgedIsFree
  <2> QED
    BY <1>0, <2>1, <2>5 DEF TypeOK
<1>4. CASE UpsertInsert(p)
  <2>1. NewRow(p) \in Row
    BY <1>0, <1>4, NewRowType DEF UpsertInsert, At
  <2> DEFINE d == [draft EXCEPT !.rows = @ \cup {NewRow(p)}]
  <2>2. d.rows = draft.rows \cup {NewRow(p)} /\ d.memories = draft.memories
    BY <1>0, <2>1, RowAppended
  <2>3. db' = d /\ draft' = d
    BY <1>4 DEF UpsertInsert, Commit
  <2>4. NewRow(p).from \notin Froms(db.rows)
    BY <1>0, <1>4 DEF UpsertInsert, Taken, NewRow, Froms
  <2>5. /\ UNCHANGED <<upkeep, strays>> /\ Owes(p) /\ At(p, "insert", {"fact"})
        /\ pc' = [pc EXCEPT ![p] = "promote"]
        /\ stamp' = [stamp EXCEPT ![p] = 0]
    BY <1>4 DEF UpsertInsert, Goto
  <2> HIDE DEF d
  <2> QED
    BY <1>0, <2>2, <2>3, <2>4, <2>5 DEF TypeOK
<1>5. CASE Promote(p)
  <2>1. Fact(p) \in Facts
    BY <1>0, <1>5, ItemType DEF Promote, At
  <2> DEFINE d == [draft EXCEPT !.memories[Fact(p)] = "active"]
  <2>2. /\ d.rows = draft.rows
        /\ d.memories = [draft.memories EXCEPT ![Fact(p)] = "active"]
    BY <1>0, <2>1, MemoryPut
  <2>3. /\ db' = db /\ draft' = d /\ UNCHANGED <<stamp, upkeep, owed>>
        /\ pc' = [pc EXCEPT ![p] = "derive"]
    BY <1>5 DEF Promote, Keep, Goto
  <2>4. \/ strays' = strays /\ Fact(p) \in FactsOf(ActiveRows(db))
        \/ strays' = strays \cup {Fact(p)}
    BY <1>0, <1>5 DEF Promote, ActiveRows
  <2> HIDE DEF d
  <2>5. ASSUME NEW f \in Facts
        PROVE  \/ draft'.memories[f] = draft.memories[f]
               \/ /\ draft'.memories[f] = "active"
                  /\ f \in strays' \/ f \in FactsOf(ActiveRows(db))
    <3>1. f # Fact(p) => d.memories[f] = draft.memories[f]
      BY <1>0, <2>2 DEF DB
    <3>2. d.memories[Fact(p)] = "active"
      BY <1>0, <2>1, <2>2 DEF DB
    <3> QED
      BY <2>3, <2>4, <3>1, <3>2
  <2> QED
    BY <1>0, <2>3, <2>4, <2>5 DEF TypeOK
<1>6. CASE PromoteSwallowed(p)
  BY <1>0, <1>6 DEF PromoteSwallowed, At, Goto, TypeOK
<1>7. CASE AddEvent(p)
  <2>1. <<turn[p], idx[p]>> \in Slots
    BY <1>0, <1>7, ItemType DEF AddEvent, At
  <2> DEFINE d == [draft EXCEPT !.events = @ \cup {<<turn[p], idx[p]>>}]
  <2>2. d.rows = draft.rows /\ d.memories = draft.memories
    BY <1>0, <2>1, EventAdded
  <2>3. db' = db /\ draft' = d
    BY <1>7 DEF AddEvent, Keep
  <2> HIDE DEF d
  <2> QED
    BY <1>0, <1>7, <2>2, <2>3 DEF AddEvent, At, Goto, TypeOK
<1>8. CASE Derive(p)
  <2>1. /\ db' = db \/ db' = draft
        /\ draft' = draft
    BY <1>8 DEF Derive, Keep, Commit
  <2> QED
    BY <1>0, <1>8, <2>1 DEF Derive, At, NextItem, TypeOK
<1>9. CASE Finish(p)
  <2>1. /\ db' = db \/ db' = draft
        /\ draft' = draft
    BY <1>9 DEF Finish, Commit
  <2> QED
    BY <1>0, <1>9, <2>1 DEF Finish, Leave, TypeOK
<1>10. CASE Fail(p)
  <2>1. /\ draft' = db \/ draft' = draft
        /\ db' = db
    BY <1>10 DEF Fail, Rollback
  <2> QED
    BY <1>0, <1>10, <2>1 DEF Fail, Leave, TypeOK
<1>11. CASE \E t \in Turns : Begin(p, t)
  BY <1>0, <1>1, <1>11 DEF TypeOK
<1> QED
  BY <1>2, <1>3, <1>4, <1>5, <1>6, <1>7, <1>8, <1>9, <1>10, <1>11 DEF Project
-----------------------------------------------------------------------------
(* What a pass may lose. Between its two reads the row it keeps is the     *)
(* active row of every value owed; once it has chosen its victims, each    *)
(* value owed has an active row that is none of them, since whatever comes *)
(* later stands at another instant.                                        *)
KeptInv ==
    /\ ValueKept
    /\ pass = "victims" => \A v \in owed :
          \E r \in ActiveRows(db) : r.from = keeper /\ r.value = v
    /\ pass = "close" =>
          /\ victims \subseteq Froms(db.rows)
          /\ \A v \in owed :
                \E r \in ActiveRows(db) : r.from \notin victims /\ r.value = v

LEMMA ProjectKept ==
    ASSUME TypeInv, KeptInv, NEW p \in Threads, Project(p)
    PROVE  KeptInv'
<1>1. UNCHANGED <<pass, keeper, victims>>
  BY ProjectEffect
<1>2. CASE db'.rows = db.rows /\ owed' = owed
  BY <1>1, <1>2 DEF KeptInv, ValueKept, ActiveRows, Froms
<1>3. CASE /\ db'.rows = db.rows \cup {NewRow(p)} /\ Owes(p)
           /\ NewRow(p).from \notin Froms(db.rows)
  <2>1. /\ ActiveRows(db)' = ActiveRows(db) \cup {NewRow(p)}
        /\ Froms(db.rows) \subseteq Froms(db'.rows)
        /\ NewRow(p).value = Current(p).value
    BY <1>3 DEF ActiveRows, NewRow, Froms
  <2>2. /\ owed' = owed \/ owed' = owed \cup {Current(p).value}
        /\ pass = "victims" => owed' = owed
    BY <1>3 DEF Owes
  <2>3. ValueKept'
    BY <2>1, <2>2 DEF KeptInv, ValueKept
  <2>4. ASSUME pass = "close", NEW v \in owed'
        PROVE  \E r \in ActiveRows(db)' : r.from \notin victims /\ r.value = v
    <3>1. NewRow(p).from \notin victims
      BY <1>3, <2>4 DEF KeptInv
    <3> QED
      BY <2>1, <2>2, <2>4, <3>1 DEF KeptInv
  <2> QED
    BY <1>1, <2>1, <2>2, <2>3, <2>4 DEF KeptInv
<1> QED
  BY <1>2, <1>3, ProjectEffect

LEMMA UpkeepKept ==
    ASSUME TypeInv, KeptInv, Consolidate \/ Invalidate
    PROVE  KeptInv'
<1>0. db \in DB /\ draft \in DB /\ keeper \in Nat /\ draft.rows = db.rows
  BY DEF TypeInv, TypeOK, Pending
<1>1. CASE Scan
  BY <1>1 DEF Scan, told, KeptInv, ValueKept, ActiveRows
<1>2. CASE ReadActive
  <2>1. UNCHANGED <<db, owed>> /\ ActiveRows(db)' = ActiveRows(db)
    BY <1>2 DEF ReadActive, told, ActiveRows
  <2>2. CASE Duplicates(ActiveRows(db))
    <3> DEFINE k == Newest(ActiveRows(db))
    <3>1. keeper' = k.from /\ pass' = "victims"
      BY <1>2, <2>2 DEF ReadActive
    <3>2. k \in ActiveRows(db)
      BY <2>2, NewestIsRead, DuplicatesExist
    <3>3. \A r \in ActiveRows(db) : r.value = k.value
      BY <2>2, <3>2 DEF Duplicates
    <3> HIDE DEF k
    <3>4. \A v \in owed : k.value = v
      BY <3>3 DEF KeptInv, ValueKept
    <3> QED
      BY <2>1, <3>1, <3>2, <3>4 DEF KeptInv, ValueKept
  <2>3. CASE ~ Duplicates(ActiveRows(db))
    BY <1>2, <2>1, <2>3 DEF ReadActive, KeptInv, ValueKept
  <2> QED
    BY <2>2, <2>3
<1>3. CASE ReadVictims
  <2>1. /\ UNCHANGED <<db, owed>> /\ ActiveRows(db)' = ActiveRows(db)
        /\ pass = "victims" /\ pass' = "close"
        /\ victims' = Froms(ActiveRows(db)) \ {keeper}
    BY <1>3 DEF ReadVictims, told, ActiveRows, Froms
  <2>2. Froms(ActiveRows(db)) \subseteq Froms(db.rows)
    BY DEF Froms, ActiveRows
  <2> QED
    BY <2>1, <2>2 DEF KeptInv, ValueKept
<1>4. CASE CloseVictims
  <2> DEFINE d == Closed(draft, victims, keeper)
  <2>1. d.rows = RowsUntil(db.rows, victims, keeper)
    BY <1>0, RowsClosed
  <2>2. db' = d /\ owed' = owed /\ pass = "close" /\ pass' = "idle"
    BY <1>4 DEF CloseVictims, Commit, told
  <2> HIDE DEF d
  <2>3. ASSUME NEW r \in ActiveRows(db), r.from \notin victims
        PROVE  r \in ActiveRows(db)'
    BY <2>1, <2>2, <2>3 DEF ActiveRows, RowsUntil
  <2> QED
    BY <2>2, <2>3 DEF KeptInv, ValueKept
<1>5. CASE Invalidate
  <2>1. Froms(Retracted(db).rows) = Froms(db.rows)
    BY <1>0, RowsRetracted
  <2>2. db' = Retracted(db) /\ owed' = {} /\ UNCHANGED <<pass, victims>>
    BY <1>5 DEF Invalidate
  <2> QED
    BY <2>1, <2>2 DEF KeptInv, ValueKept
<1> QED
  BY <1>1, <1>2, <1>3, <1>4, <1>5 DEF Consolidate

(* Whatever threads write, and whatever is retracted, between the reads    *)
(* and the write of a pass: it leaves an active row of each value but of   *)
(* those that came between its two reads.                                  *)
THEOREM NoValueLost == Spec => []ValueKept
<1>1. Init => KeptInv
  BY DEF Init, KeptInv, ValueKept
<1>2. TypeInv /\ KeptInv /\ [Next]_vars => KeptInv'
  <2> SUFFICES ASSUME TypeInv, KeptInv, [Next]_vars PROVE KeptInv'
    OBVIOUS
  <2>1. CASE UNCHANGED vars
    BY <2>1 DEF vars, upkeep, told, KeptInv, ValueKept, ActiveRows
  <2>2. CASE Next
    BY <2>2, ProjectKept, UpkeepKept DEF Next
  <2> QED
    BY <2>1, <2>2
<1>3. KeptInv => ValueKept
  BY DEF KeptInv
<1> QED
  BY <1>1, <1>2, <1>3, TypeInvariant, PTL DEF Spec
-----------------------------------------------------------------------------
(* The two stores. A memories row that is active, committed or pending,    *)
(* has an active row, and one that is closed has a closed row; rows are of *)
(* facts of their turns, and no instant is 0, which stands for "open".     *)
Backed ==
    \A f \in Facts \ strays :
        db.memories[f] = "active" \/ draft.memories[f] = "active"
            => f \in FactsOf(ActiveRows(db))

ClosedWithRow ==
    \A f \in Facts :
        db.memories[f] = "closed" \/ draft.memories[f] = "closed"
            => f \in FactsOf({r \in db.rows : r.to # Open})

Says(t, i, v) == ItemsOf[t][i].kind = "fact" /\ ItemsOf[t][i].value = v

RowsAreItems ==
    \A r \in db.rows : /\ r.from # 0
                       /\ \E i \in 1 .. Len(ItemsOf[r.anchor]) :
                             Says(r.anchor, i, r.value)

Instants ==
    /\ \A p \in Threads : pc[p] = "insert" => stamp[p] # 0
    /\ pass \in {"victims", "close"} => keeper # 0

RowInv == Backed /\ ClosedWithRow /\ RowsAreItems /\ Instants

LEMMA ProjectRows ==
    ASSUME TypeInv, RowInv, NEW p \in Threads, Project(p)
    PROVE  RowInv'
<1>0. /\ TypeOK /\ db \in DB /\ turn[p] \in Turns /\ idx[p] \in Nat \ {0}
  BY DEF TypeInv, TypeOK
<1>1. /\ db.rows \subseteq db'.rows
      /\ FactsOf(ActiveRows(db)) \subseteq FactsOf(ActiveRows(db)')
      /\ FactsOf({r \in db.rows : r.to # Open})
            \subseteq FactsOf({r \in db'.rows : r.to # Open})
  <2>1. db.rows \subseteq db'.rows
    BY ProjectEffect
  <2> QED
    BY <2>1 DEF FactsOf, ActiveRows
<1>2. Backed'
  <2>1. SUFFICES ASSUME NEW f \in Facts \ strays',
                        db'.memories[f] = "active" \/ draft'.memories[f] = "active"
                 PROVE  f \in FactsOf(ActiveRows(db))
    BY <1>1 DEF Backed
  <2>2. f \notin strays
    BY <2>1, ProjectEffect
  <2>3. \/ db.memories[f] = "active" \/ draft.memories[f] = "active"
        \/ f \in FactsOf(ActiveRows(db))
    BY <2>1, ProjectEffect
  <2> QED
    BY <2>1, <2>2, <2>3 DEF RowInv, Backed
<1>3. ClosedWithRow'
  <2>1. SUFFICES ASSUME NEW f \in Facts,
                        db'.memories[f] = "closed" \/ draft'.memories[f] = "closed"
                 PROVE  f \in FactsOf({r \in db.rows : r.to # Open})
    BY <1>1 DEF ClosedWithRow
  <2>2. db.memories[f] = "closed" \/ draft.memories[f] = "closed"
    BY <2>1, ProjectEffect
  <2> QED
    BY <2>2 DEF RowInv, ClosedWithRow
<1>4. CASE /\ db'.rows = db.rows
           /\ pc'[p] = "insert" => stamp'[p] # 0
  <2>1. Instants'
    BY <1>4, ProjectEffect DEF RowInv, Instants
  <2>2. RowsAreItems'
    BY <1>4 DEF RowInv, RowsAreItems
  <2> QED
    BY <1>2, <1>3, <2>1, <2>2 DEF RowInv
<1>5. CASE /\ db'.rows = db.rows \cup {NewRow(p)}
           /\ At(p, "insert", {"fact"}) /\ pc'[p] = "promote"
  <2>1. Instants'
    BY <1>5, ProjectEffect DEF RowInv, Instants
  <2>2. /\ pc[p] = "insert" /\ HasItem(p) /\ Current(p).kind = "fact"
    BY <1>5 DEF At
  <2>3. Len(ItemsOf[turn[p]]) \in Nat
    BY <1>0, ProjectionAssumption
  <2>4. idx[p] \in 1 .. Len(ItemsOf[turn[p]])
    BY <1>0, <2>2, <2>3 DEF HasItem
  <2>5. /\ NewRow(p).from # 0 /\ NewRow(p).anchor = turn[p]
        /\ NewRow(p).value = Current(p).value
    BY <2>2 DEF NewRow, RowInv, Instants
  <2>6. \E i \in 1 .. Len(ItemsOf[NewRow(p).anchor]) :
           Says(NewRow(p).anchor, i, NewRow(p).value)
    BY <2>2, <2>4, <2>5 DEF Says, Current
  <2>7. RowsAreItems'
    BY <1>5, <2>5, <2>6 DEF RowInv, RowsAreItems
  <2> QED
    BY <1>2, <1>3, <2>1, <2>7 DEF RowInv
<1> QED
  BY <1>4, <1>5, ProjectEffect

LEMMA UpkeepRows ==
    ASSUME TypeInv, RowInv, Consolidate \/ Invalidate
    PROVE  RowInv'
<1>0. /\ TypeOK /\ db \in DB /\ draft \in DB /\ keeper \in Nat
      /\ draft.rows = db.rows
      /\ writer = NoThread => draft = db
      /\ writer # Consolidator
  BY DEF TypeInv, TypeOK, Pending
<1>1. CASE Scan
  BY <1>1 DEF Scan, told, thread, RowInv, Backed, ClosedWithRow, RowsAreItems,
             Instants, ActiveRows
<1>2. CASE ReadActive
  <2>1. /\ UNCHANGED <<db, draft, strays, pc, stamp>>
    BY <1>2 DEF ReadActive, told, thread
  <2>2. Backed' /\ ClosedWithRow' /\ RowsAreItems'
    BY <2>1 DEF RowInv, Backed, ClosedWithRow, RowsAreItems, ActiveRows
  <2>3. CASE Duplicates(ActiveRows(db))
    <3>1. Newest(ActiveRows(db)) \in ActiveRows(db)
      BY <2>3, NewestIsRead, DuplicatesExist
    <3>2. Newest(ActiveRows(db)).from # 0
      BY <3>1 DEF RowInv, RowsAreItems, ActiveRows
    <3>3. keeper' = Newest(ActiveRows(db)).from
      BY <1>2, <2>3 DEF ReadActive
    <3> QED
      BY <2>1, <2>2, <3>2, <3>3 DEF RowInv, Instants
  <2>4. CASE ~ Duplicates(ActiveRows(db))
    <3>1. pass' = "idle"
      BY <1>2, <2>4 DEF ReadActive
    <3> QED
      BY <2>1, <2>2, <3>1 DEF RowInv, Instants
  <2> QED
    BY <2>3, <2>4
<1>3. CASE ReadVictims
  BY <1>3 DEF ReadVictims, told, thread, RowInv, Backed, ClosedWithRow,
              RowsAreItems, Instants, ActiveRows
<1>4. CASE CloseVictims
  <2> DEFINE d == Closed(draft, victims, keeper)
             doomed == {r \in db.rows : r.from \in victims}
             shut(r) == [r EXCEPT !.to = keeper]
  <2>1. /\ db' = d /\ draft' = d /\ pass = "close" /\ pass' = "idle"
        /\ UNCHANGED <<strays, pc, stamp>> /\ draft = db
    BY <1>0, <1>4 DEF CloseVictims, Commit, MayWrite, told, thread
  <2>2. d.rows = RowsUntil(db.rows, victims, keeper)
    BY <1>0, RowsClosed
  <2>3. \A f \in Facts : d.memories[f] =
           IF db.memories[f] = "active" /\ f \in FactsOf(doomed)
           THEN "closed" ELSE db.memories[f]
    BY <1>0, <2>1, RowsClosed
  <2> HIDE DEF d
  <2>4. keeper # Open
    BY <2>1 DEF RowInv, Instants, Open
  <2>5. ASSUME NEW r \in db.rows
        PROVE  /\ shut(r).to = keeper /\ shut(r).from = r.from
               /\ shut(r).value = r.value /\ shut(r).anchor = r.anchor
    BY <1>0 DEF DB, Row
  <2>6. ASSUME NEW r \in db.rows
        PROVE  /\ r.from \notin victims => r \in d.rows
               /\ r.from \in victims => shut(r) \in d.rows
    BY <2>2 DEF RowsUntil
  <2>7. ASSUME NEW s \in d.rows
        PROVE  s \in db.rows \/ \E r \in db.rows : s = shut(r)
    BY <2>2 DEF RowsUntil
  <2> HIDE DEF shut
  <2>8. ASSUME NEW f \in Facts \ strays, d.memories[f] = "active"
        PROVE  f \in FactsOf(ActiveRows(d))
    <3>1. db.memories[f] = "active" /\ f \notin FactsOf(doomed)
      BY <2>3, <2>8
    <3>2. PICK r \in ActiveRows(db) : <<r.value, r.anchor>> = f
      BY <3>1 DEF RowInv, Backed, FactsOf
    <3>3. r \in db.rows /\ r.to = Open /\ r.from \notin victims
      BY <3>1, <3>2 DEF FactsOf, ActiveRows
    <3>4. r \in ActiveRows(d)
      BY <2>6, <3>3 DEF ActiveRows
    <3> QED
      BY <3>2, <3>4 DEF FactsOf
  <2>9. ASSUME NEW f \in Facts, d.memories[f] = "closed"
        PROVE  f \in FactsOf({s \in d.rows : s.to # Open})
    <3>1. CASE db.memories[f] = "closed"
      <4>1. PICK r \in db.rows : r.to # Open /\ <<r.value, r.anchor>> = f
        BY <3>1 DEF RowInv, ClosedWithRow, FactsOf
      <4>2. CASE r.from \in victims
        <5>1. /\ shut(r) \in d.rows /\ shut(r).to # Open
              /\ <<shut(r).value, shut(r).anchor>> = f
          BY <2>4, <2>5, <2>6, <4>1, <4>2
        <5> QED
          BY <5>1 DEF FactsOf
      <4>3. CASE r.from \notin victims
        BY <2>6, <4>1, <4>3 DEF FactsOf
      <4> QED
        BY <4>2, <4>3
    <3>2. CASE f \in FactsOf(doomed)
      <4>1. PICK r \in db.rows : r.from \in victims /\ <<r.value, r.anchor>> = f
        BY <3>2 DEF FactsOf
      <4>2. /\ shut(r) \in d.rows /\ shut(r).to # Open
            /\ <<shut(r).value, shut(r).anchor>> = f
        BY <2>4, <2>5, <2>6, <4>1
      <4> QED
        BY <4>2 DEF FactsOf
    <3> QED
      BY <2>3, <2>9, <3>1, <3>2
  <2>10. ASSUME NEW s \in d.rows
         PROVE  /\ s.from # 0
                /\ \E i \in 1 .. Len(ItemsOf[s.anchor]) :
                      Says(s.anchor, i, s.value)
    <3>1. PICK r \in db.rows : /\ s.from = r.from /\ s.value = r.value
                               /\ s.anchor = r.anchor
      BY <2>5, <2>7
    <3> QED
      BY <3>1 DEF RowInv, RowsAreItems
  <2>11. Backed'
    BY <2>1, <2>8 DEF Backed, ActiveRows
  <2>12. ClosedWithRow'
    BY <2>1, <2>9 DEF ClosedWithRow
  <2>13. RowsAreItems'
    BY <2>1, <2>10 DEF RowsAreItems
  <2>14. Instants'
    BY <2>1 DEF RowInv, Instants
  <2> QED
    BY <2>11, <2>12, <2>13, <2>14 DEF RowInv
<1>5. CASE Invalidate
  <2> DEFINE d == Retracted(db)
             shut(r) == IF r.to = Open THEN [r EXCEPT !.to = RetractTime] ELSE r
  <2>1. /\ db' = d /\ draft' = d /\ draft = db
        /\ strays' = strays \cup {f \in Facts : db.memories[f] = "active"}
        /\ UNCHANGED <<pc, stamp, pass, keeper>>
    BY <1>0, <1>5 DEF Invalidate, thread
  <2>2. d.rows = {shut(r) : r \in db.rows} /\ d.memories = db.memories
    BY <1>0, RowsRetracted
  <2> HIDE DEF d
  <2>3. ASSUME NEW r \in db.rows
        PROVE  /\ shut(r).from = r.from /\ shut(r).value = r.value
               /\ shut(r).anchor = r.anchor
               /\ r.to # Open => shut(r).to # Open
    BY <1>0 DEF DB, Row
  <2> HIDE DEF shut
  <2>4. Backed'
    BY <2>1, <2>2 DEF Backed
  <2>5. ASSUME NEW f \in Facts, db.memories[f] = "closed"
        PROVE  f \in FactsOf({s \in d.rows : s.to # Open})
    <3>1. PICK r \in db.rows : r.to # Open /\ <<r.value, r.anchor>> = f
      BY <2>5 DEF RowInv, ClosedWithRow, FactsOf
    <3>2. /\ shut(r) \in d.rows /\ shut(r).to # Open
          /\ <<shut(r).value, shut(r).anchor>> = f
      BY <2>2, <2>3, <3>1
    <3> QED
      BY <3>2 DEF FactsOf
  <2>6. ClosedWithRow'
    BY <2>1, <2>2, <2>5 DEF ClosedWithRow
  <2>7. RowsAreItems'
    <3>1. ASSUME NEW s \in d.rows
          PROVE  /\ s.from # 0
                 /\ \E i \in 1 .. Len(ItemsOf[s.anchor]) :
                       Says(s.anchor, i, s.value)
      <4>1. PICK r \in db.rows : /\ s.from = r.from /\ s.value = r.value
                                 /\ s.anchor = r.anchor
        BY <2>2, <2>3
      <4> QED
        BY <4>1 DEF RowInv, RowsAreItems
    <3> QED
      BY <2>1, <3>1 DEF RowsAreItems
  <2>8. Instants'
    BY <2>1 DEF RowInv, Instants
  <2> QED
    BY <2>4, <2>6, <2>7, <2>8 DEF RowInv
<1> QED
  BY <1>1, <1>2, <1>3, <1>4, <1>5 DEF Consolidate
-----------------------------------------------------------------------------
(* A memories row once put is not taken away, so what a thread has noted   *)
(* of its items stays noted: in its own transaction or, once it has        *)
(* returned, for good. A fact noted has a memories row or is a stray.      *)
Remembers(d, e) == \A f \in Facts : d.memories[f] # "none" => e.memories[f] # "none"

Noted(d, t, i) ==
    ItemsOf[t][i].kind = "fact" =>
        \/ d.memories[<<ItemsOf[t][i].value, t>>] # "none"
        \/ <<ItemsOf[t][i].value, t>> \in strays

NotedBy(p) ==
    pc[p] # "idle" =>
        \A i \in 1 .. Len(ItemsOf[turn[p]]) :
            i < idx[p] \/ (i = idx[p] /\ pc[p] = "derive")
                => Noted(View(p), turn[p], i)

NoteInv ==
    /\ Remembers(db, draft)
    /\ \A p \in Threads : NotedBy(p)
    /\ \A t \in succeeded : \A i \in 1 .. Len(ItemsOf[t]) : Noted(db, t, i)

(* What a step of p does to the memories each connection sees.             *)
Memory(p) ==
    /\ Remembers(db', draft') /\ Remembers(db, db')
    /\ \A q \in Threads : q # p => Remembers(View(q), View(q)')
    /\ pc'[p] # "idle" => Remembers(View(p), View(p)')

LEMMA WriteRemembers ==
    ASSUME TypeInv, NoteInv, NEW p, NEW d, Remembers(draft, d),
           Commit(p, d) \/ (Keep(p, d) /\ p \in Threads)
    PROVE  /\ Memory(p)
           /\ p \in Threads => View(p)' = d
<1>0. /\ Remembers(db, draft) /\ (writer = NoThread => draft = db)
      /\ writer \in {p, NoThread}
      /\ \A q \in Threads : q # NoThread
  BY ProjectionAssumption DEF NoteInv, TypeInv, Pending, Commit, Keep, MayWrite
<1>1. Remembers(db, d)
  BY <1>0 DEF Remembers
<1>2. CASE Commit(p, d)
  <2>1. db' = d /\ draft' = d /\ writer' = NoThread
    BY <1>2 DEF Commit
  <2>2. \A q : View(q)' = d /\ View(q) \in {db, draft}
    BY <2>1 DEF View
  <2>3. \A q : Remembers(View(q), d)
    BY <1>1, <2>2
  <2>4. Remembers(d, d)
    BY DEF Remembers
  <2> QED
    BY <1>1, <2>1, <2>2, <2>3, <2>4 DEF Memory
<1>3. CASE Keep(p, d) /\ p \in Threads
  <2>1. db' = db /\ draft' = d /\ writer' = p
    BY <1>3 DEF Keep
  <2>2. View(p) = draft /\ View(p)' = d
    BY <1>0, <2>1 DEF View
  <2>3. \A q \in Threads : q # p => View(q)' = db /\ View(q) = db
    BY <1>0, <2>1 DEF View
  <2>4. Remembers(db, db)
    BY DEF Remembers
  <2> QED
    BY <1>1, <1>3, <2>1, <2>2, <2>3, <2>4 DEF Memory
<1> QED
  BY <1>2, <1>3

LEMMA ReadRemembers ==
    ASSUME TypeInv, NoteInv, UNCHANGED <<db, draft, writer>>, NEW p
    PROVE  /\ Memory(p)
           /\ \A q \in Threads : View(q)' = View(q)
<1>1. Remembers(db', draft') /\ Remembers(db, db')
  BY DEF NoteInv, Remembers
<1>2. \A q \in Threads : View(q)' = View(q)
  BY DEF View
<1>3. \A q \in Threads : Remembers(View(q), View(q)')
  BY <1>2 DEF Remembers
<1>4. pc'[p] # "idle" => Remembers(View(p), View(p)')
  BY DEF View, Remembers
<1> QED
  BY <1>1, <1>2, <1>3, <1>4 DEF Memory

(* One step of a projection: the memories it leaves, and that what it      *)
(* passes has been noted.                                                  *)
LEMMA ProjectNotes ==
    ASSUME TypeInv, NoteInv, NEW p \in Threads, Project(p)
    PROVE  /\ Memory(p) /\ strays \subseteq strays'
           /\ \A q \in Threads : q # p => /\ pc'[q] = pc[q]
                                          /\ turn'[q] = turn[q]
                                          /\ idx'[q] = idx[q]
           /\ \/ pc'[p] = "idle"
              \/ pc[p] = "idle" /\ pc'[p] = "item" /\ idx'[p] = 1
              \/ /\ pc[p] # "idle" /\ turn'[p] = turn[p] /\ idx'[p] = idx[p]
                 /\ pc'[p] = "derive" =>
                       Noted(View(p), turn[p], idx[p])'
              \/ /\ pc[p] # "idle" /\ turn'[p] = turn[p]
                 /\ idx'[p] = idx[p] + 1 /\ pc'[p] = "item"
                 /\ pc[p] = "derive" \/ ItemsOf[turn[p]][idx[p]].kind # "fact"
           /\ \/ succeeded' = succeeded
              \/ /\ succeeded' = succeeded \cup {turn[p]} /\ db' = View(p)
                 /\ pc[p] = "item" /\ ~ HasItem(p)
<1>0. /\ TypeOK /\ Pending /\ draft \in DB /\ db \in DB
      /\ draft.rows = db.rows
      /\ p # NoThread
  BY ProjectionAssumption DEF TypeInv, TypeOK, Pending
<1>01. Remembers(draft, draft)
  BY DEF Remembers
<1>1. ASSUME NEW t \in Turns, Begin(p, t)
      PROVE  /\ Memory(p) /\ UNCHANGED <<strays, succeeded>>
             /\ pc[p] = "idle" /\ pc' = [pc EXCEPT ![p] = "item"]
             /\ turn' = [turn EXCEPT ![p] = t]
             /\ idx' = [idx EXCEPT ![p] = 1]
  <2>1. /\ UNCHANGED <<db, draft, strays, succeeded>> /\ draft = db
        /\ pc[p] = "idle" /\ pc' = [pc EXCEPT ![p] = "item"]
        /\ turn' = [turn EXCEPT ![p] = t]
        /\ idx' = [idx EXCEPT ![p] = 1]
    BY <1>0, <1>1 DEF Begin, told, Pending
  <2>2. \A q \in Threads : View(q) = db /\ View(q)' = db
    BY <2>1 DEF View
  <2>3. Memory(p)
    BY <1>01, <2>1, <2>2 DEF Memory
  <2> QED
    BY <2>1, <2>3
<1>2. CASE AddCandidate(p)
  <2>1. /\ <<turn[p], idx[p]>> \in Slots /\ Current(p).kind # "fact"
        /\ pc[p] = "item" /\ pc' = [pc EXCEPT ![p] = "item"]
        /\ idx' = [idx EXCEPT ![p] = @ + 1]
        /\ UNCHANGED <<turn, strays, succeeded>>
    BY <1>0, <1>2, ItemType DEF AddCandidate, At, NextItem, told
  <2> DEFINE d == [draft EXCEPT !.inbox[<<turn[p], idx[p]>>] = @ + 1]
  <2>2. d.memories = draft.memories
    BY <1>0, <2>1, CandidateAdded
  <2>3. Commit(p, d)
    BY <1>2 DEF AddCandidate
  <2> HIDE DEF d
  <2>4. Memory(p)
    BY <2>2, <2>3, WriteRemembers DEF Remembers
  <2> QED
    BY <1>0, <2>1, <2>4 DEF TypeOK, Current
<1>3. CASE UpsertRead(p)
  <2>1. /\ UNCHANGED <<db, draft, writer, turn, idx, strays, succeeded>>
        /\ pc[p] = "item" /\ pc' = [pc EXCEPT ![p] = "insert"]
    BY <1>3 DEF UpsertRead, At, Goto, told
  <2>2. Memory(p)
    BY <2>1, ReadRemembers
  <2> QED
    BY <1>0, <2>1, <2>2 DEF TypeOK
<1>4. CASE UpsertInsert(p)
  <2>1. /\ NewRow(p) \in Row /\ pc[p] = "insert"
        /\ pc' = [pc EXCEPT ![p] = "promote"]
        /\ UNCHANGED <<turn, idx, strays, succeeded>>
    BY <1>0, <1>4, NewRowType DEF UpsertInsert, At, Goto
  <2> DEFINE d == [draft EXCEPT !.rows = @ \cup {NewRow(p)}]
  <2>2. d.memories = draft.memories
    BY <1>0, <2>1, RowAppended
  <2>3. Commit(p, d)
    BY <1>4 DEF UpsertInsert
  <2> HIDE DEF d
  <2>4. Memory(p)
    BY <2>2, <2>3, WriteRemembers DEF Remembers
  <2> QED
    BY <1>0, <2>1, <2>4 DEF TypeOK
<1>5. CASE Promote(p)
  <2>1. /\ Fact(p) \in Facts /\ pc[p] = "promote"
        /\ pc' = [pc EXCEPT ![p] = "derive"]
        /\ UNCHANGED <<turn, idx, succeeded>>
        /\ strays' = strays \/ strays' = strays \cup {Fact(p)}
    BY <1>0, <1>5, ItemType DEF Promote, At, Goto
  <2> DEFINE d == [draft EXCEPT !.memories[Fact(p)] = "active"]
  <2>2. d.memories = [draft.memories EXCEPT ![Fact(p)] = "active"]
    BY <1>0, <2>1, MemoryPut
  <2>3. Keep(p, d)
    BY <1>5 DEF Promote
  <2> HIDE DEF d
  <2>4. Remembers(draft, d) /\ d.memories[Fact(p)] = "active"
    BY <1>0, <2>1, <2>2 DEF Remembers, DB
  <2>5. Memory(p) /\ View(p)' = d
    BY <2>3, <2>4, WriteRemembers
  <2>6. Noted(View(p), turn[p], idx[p])'
    BY <2>1, <2>4, <2>5 DEF Noted, Fact, Current
  <2> QED
    BY <1>0, <2>1, <2>5, <2>6 DEF TypeOK
<1>6. CASE PromoteSwallowed(p)
  <2>1. /\ UNCHANGED <<db, draft, writer, turn, idx, succeeded>>
        /\ pc[p] = "promote" /\ pc' = [pc EXCEPT ![p] = "derive"]
        /\ strays' = strays \cup {Fact(p)}
    BY <1>6 DEF PromoteSwallowed, At, Goto
  <2>2. Memory(p)
    BY <2>1, ReadRemembers
  <2>3. Noted(View(p), turn[p], idx[p])'
    BY <2>1 DEF Noted, Fact, Current
  <2> QED
    BY <1>0, <2>1, <2>2, <2>3 DEF TypeOK
<1>7. CASE AddEvent(p)
  <2>1. /\ <<turn[p], idx[p]>> \in Slots /\ Current(p).kind # "fact"
        /\ pc[p] = "item" /\ pc' = [pc EXCEPT ![p] = "derive"]
        /\ UNCHANGED <<turn, idx, strays, succeeded>>
    BY <1>0, <1>7, ItemType DEF AddEvent, At, Goto, told
  <2> DEFINE d == [draft EXCEPT !.events = @ \cup {<<turn[p], idx[p]>>}]
  <2>2. d.memories = draft.memories
    BY <1>0, <2>1, EventAdded
  <2>3. Keep(p, d)
    BY <1>7 DEF AddEvent
  <2> HIDE DEF d
  <2>4. Memory(p)
    BY <2>2, <2>3, WriteRemembers DEF Remembers
  <2>5. Noted(View(p), turn[p], idx[p])'
    BY <2>1 DEF Noted, Current
  <2> QED
    BY <1>0, <2>1, <2>4, <2>5 DEF TypeOK
<1>8. CASE Derive(p)
  <2>1. /\ pc[p] = "derive" /\ pc' = [pc EXCEPT ![p] = "item"]
        /\ idx' = [idx EXCEPT ![p] = @ + 1]
        /\ UNCHANGED <<turn, strays, succeeded>>
        /\ \/ UNCHANGED <<db, draft, writer>>
           \/ Keep(p, draft) \/ Commit(p, draft)
    BY <1>8 DEF Derive, At, NextItem, told
  <2>2. Memory(p)
    BY <1>01, <2>1, ReadRemembers, WriteRemembers
  <2> QED
    BY <1>0, <2>1, <2>2 DEF TypeOK
<1>9. CASE Finish(p)
  <2>1. /\ pc' = [pc EXCEPT ![p] = "idle"]
        /\ turn' = [turn EXCEPT ![p] = SomeTurn]
        /\ idx' = [idx EXCEPT ![p] = 1] /\ UNCHANGED strays
        /\ succeeded' = succeeded \cup {turn[p]}
        /\ pc[p] = "item" /\ ~ HasItem(p)
    BY <1>9 DEF Finish, Leave, told
  <2>2. CASE writer = p
    <3>1. Commit(p, draft) /\ View(p) = draft /\ db' = draft
      BY <1>9, <2>2 DEF Finish, View, Commit
    <3>2. Memory(p)
      BY <1>01, <3>1, WriteRemembers
    <3> QED
      BY <1>0, <2>1, <3>1, <3>2 DEF TypeOK
  <2>3. CASE writer # p
    <3>1. UNCHANGED <<db, draft, writer>> /\ View(p) = db
      BY <1>9, <2>3 DEF Finish, View
    <3>2. Memory(p)
      BY <3>1, ReadRemembers
    <3> QED
      BY <1>0, <2>1, <3>1, <3>2 DEF TypeOK
  <2> QED
    BY <2>2, <2>3
<1>10. CASE Fail(p)
  <2>1. /\ pc' = [pc EXCEPT ![p] = "idle"]
        /\ turn' = [turn EXCEPT ![p] = SomeTurn]
        /\ idx' = [idx EXCEPT ![p] = 1] /\ UNCHANGED <<strays, succeeded>>
        /\ Rollback(p)
    BY <1>10 DEF Fail, Leave, told
  <2>2. CASE writer = p
    <3>1. db' = db /\ draft' = db /\ writer' = NoThread
      BY <2>1, <2>2 DEF Rollback
    <3>2. \A q \in Threads : q # p => View(q) = db /\ View(q)' = db
      BY <2>2, <3>1 DEF View
    <3>3. Remembers(db, db) /\ pc'[p] = "idle"
      BY <1>0, <2>1 DEF Remembers, TypeOK
    <3>4. Memory(p)
      BY <3>1, <3>2, <3>3 DEF Memory
    <3> QED
      BY <1>0, <2>1, <3>4 DEF TypeOK
  <2>3. CASE writer # p
    <3>1. UNCHANGED <<db, draft, writer>>
      BY <2>1, <2>3 DEF Rollback
    <3>2. Memory(p)
      BY <3>1, ReadRemembers
    <3> QED
      BY <1>0, <2>1, <3>2 DEF TypeOK
  <2> QED
    BY <2>2, <2>3
<1>11. CASE \E t \in Turns : Begin(p, t)
  <2>1. PICK t \in Turns : Begin(p, t)
    BY <1>11
  <2>2. /\ Memory(p) /\ UNCHANGED <<strays, succeeded>>
        /\ pc[p] = "idle" /\ pc' = [pc EXCEPT ![p] = "item"]
        /\ turn' = [turn EXCEPT ![p] = t]
        /\ idx' = [idx EXCEPT ![p] = 1]
    BY <1>1, <2>1
  <2> QED
    BY <1>0, <2>2 DEF TypeOK
<1> QED
  BY <1>2, <1>3, <1>4, <1>5, <1>6, <1>7, <1>8, <1>9, <1>10, <1>11 DEF Project

(* What is noted stays noted. *)
LEMMA NotedStays ==
    ASSUME NEW d, NEW e, Remembers(d, e), strays \subseteq strays',
           NEW t \in Turns, NEW i \in 1 .. Len(ItemsOf[t]), Noted(d, t, i)
    PROVE  ItemsOf[t][i].kind = "fact" =>
               \/ e.memories[<<ItemsOf[t][i].value, t>>] # "none"
               \/ <<ItemsOf[t][i].value, t>> \in strays'
<1>1. ItemsOf[t][i] \in Item
  BY ProjectionAssumption
<1>2. <<ItemsOf[t][i].value, t>> \in Facts
  BY <1>1 DEF Item, Facts
<1> QED
  BY <1>2 DEF Noted, Remembers

LEMMA NextNotes ==
    ASSUME TypeInv, NoteInv, NEW p, Memory(p), strays \subseteq strays',
           \A q \in Threads : q # p =>
               pc'[q] = pc[q] /\ turn'[q] = turn[q] /\ idx'[q] = idx[q],
           p \in Threads => NotedBy(p)',
           \A t \in succeeded' : t \in succeeded
               \/ \A i \in 1 .. Len(ItemsOf[t]) : Noted(db, t, i)'
    PROVE  NoteInv'
<1>1. ASSUME NEW q \in Threads, q # p PROVE NotedBy(q)'
  <2>1. SUFFICES ASSUME pc'[q] # "idle",
                        NEW i \in 1 .. Len(ItemsOf[turn'[q]]),
                        i < idx'[q] \/ (i = idx'[q] /\ pc'[q] = "derive")
                 PROVE  Noted(View(q), turn[q], i)'
    BY DEF NotedBy
  <2>2. /\ turn'[q] = turn[q] /\ turn[q] \in Turns
        /\ i \in 1 .. Len(ItemsOf[turn[q]])
    BY <1>1, <2>1 DEF TypeInv, TypeOK
  <2>3. Noted(View(q), turn[q], i)
    BY <1>1, <2>1, <2>2 DEF NoteInv, NotedBy
  <2>4. Remembers(View(q), View(q)')
    BY <1>1 DEF Memory
  <2> QED
    BY <2>2, <2>3, <2>4, NotedStays DEF Noted
<1>2. ASSUME NEW t \in succeeded', NEW i \in 1 .. Len(ItemsOf[t])
      PROVE  Noted(db, t, i)'
  <2>1. CASE t \in succeeded
    <3>1. t \in Turns /\ Noted(db, t, i) /\ Remembers(db, db')
      BY <2>1 DEF NoteInv, Memory, TypeInv, TypeOK
    <3> QED
      BY <3>1, NotedStays DEF Noted
  <2>2. CASE t \notin succeeded
    BY <2>2
  <2> QED
    BY <2>1, <2>2
<1>3. Remembers(db, draft)'
  BY DEF Memory, Remembers
<1>4. \A q \in Threads : NotedBy(q)'
  BY <1>1
<1> QED
  BY <1>2, <1>3, <1>4 DEF NoteInv

LEMMA ProjectNoteInv ==
    ASSUME TypeInv, TypeInv', NoteInv, NEW p \in Threads, Project(p)
    PROVE  NoteInv'
<1>0. /\ turn[p] \in Turns /\ turn'[p] \in Turns
      /\ idx[p] \in Nat /\ idx'[p] \in Nat
  BY DEF TypeInv, TypeOK
<1>1. Memory(p) /\ strays \subseteq strays'
  BY ProjectNotes
<1>2. NotedBy(p)'
  <2>1. SUFFICES ASSUME pc'[p] # "idle",
                        NEW i \in 1 .. Len(ItemsOf[turn'[p]]),
                        i < idx'[p] \/ (i = idx'[p] /\ pc'[p] = "derive")
                 PROVE  Noted(View(p), turn[p], i)'
    BY DEF NotedBy
  <2>2. Remembers(View(p), View(p)')
    BY <1>1, <2>1 DEF Memory
  <2>3. ASSUME turn'[p] = turn[p], Noted(View(p), turn[p], i)
        PROVE  Noted(View(p), turn[p], i)'
    BY <1>0, <1>1, <2>1, <2>2, <2>3, NotedStays DEF Noted
  <2>4. CASE pc[p] = "idle" /\ pc'[p] = "item" /\ idx'[p] = 1
    BY <2>1, <2>4
  <2>5. CASE /\ pc[p] # "idle" /\ turn'[p] = turn[p] /\ idx'[p] = idx[p]
             /\ pc'[p] = "derive" => Noted(View(p), turn[p], idx[p])'
    <3>1. CASE i < idx[p]
      BY <2>1, <2>3, <2>5, <3>1 DEF NoteInv, NotedBy
    <3>2. CASE i = idx[p] /\ pc'[p] = "derive"
      BY <2>5, <3>2 DEF Noted
    <3> QED
      BY <2>1, <2>5, <3>1, <3>2
  <2>6. CASE /\ pc[p] # "idle" /\ turn'[p] = turn[p]
             /\ idx'[p] = idx[p] + 1 /\ pc'[p] = "item"
             /\ pc[p] = "derive" \/ ItemsOf[turn[p]][idx[p]].kind # "fact"
    <3>1. i < idx[p] \/ i = idx[p]
      BY <1>0, <2>1, <2>6
    <3>2. CASE i < idx[p] \/ pc[p] = "derive"
      BY <2>1, <2>3, <2>6, <3>1, <3>2 DEF NoteInv, NotedBy
    <3>3. CASE i = idx[p] /\ ItemsOf[turn[p]][idx[p]].kind # "fact"
      BY <2>6, <3>3 DEF Noted
    <3> QED
      BY <2>6, <3>1, <3>2, <3>3
  <2> QED
    BY <2>1, <2>4, <2>5, <2>6, ProjectNotes
<1>3. ASSUME NEW t \in succeeded', t \notin succeeded,
             NEW i \in 1 .. Len(ItemsOf[t])
      PROVE  Noted(db, t, i)'
  <2>1. t = turn[p] /\ db' = View(p) /\ pc[p] = "item" /\ ~ HasItem(p)
    BY <1>3, ProjectNotes
  <2>2. i < idx[p]
    BY <1>0, <1>3, <2>1, ProjectionAssumption DEF HasItem
  <2>3. Noted(View(p), t, i)
    BY <1>3, <2>1, <2>2 DEF NoteInv, NotedBy
  <2> QED
    BY <1>1, <2>1, <2>3 DEF Noted
<1>4. \A q \in Threads : q # p =>
          pc'[q] = pc[q] /\ turn'[q] = turn[q] /\ idx'[q] = idx[q]
  BY ProjectNotes
<1> QED
  BY <1>1, <1>2, <1>3, <1>4, NextNotes

LEMMA UpkeepNoteInv ==
    ASSUME TypeInv, NoteInv, Consolidate \/ Invalidate
    PROVE  NoteInv'
<1>0. /\ db \in DB /\ draft \in DB /\ keeper \in Nat
      /\ writer = NoThread => draft = db
  BY DEF TypeInv, TypeOK, Pending
<1>1. UNCHANGED <<pc, turn, idx, succeeded>> /\ strays \subseteq strays'
  BY DEF Consolidate, Scan, ReadActive, ReadVictims, CloseVictims, Invalidate,
         thread, told
<1>2. Memory(Consolidator)
  <2>1. CASE Scan \/ ReadActive \/ ReadVictims
    <3>1. UNCHANGED <<db, draft, writer>>
      BY <2>1 DEF Scan, ReadActive, ReadVictims
    <3> QED
      BY <3>1, ReadRemembers
  <2>2. CASE CloseVictims
    <3> DEFINE d == Closed(draft, victims, keeper)
    <3>1. \A f \in Facts : d.memories[f] =
             IF draft.memories[f] = "active"
                /\ f \in FactsOf({r \in draft.rows : r.from \in victims})
             THEN "closed" ELSE draft.memories[f]
      BY <1>0, RowsClosed
    <3>2. Commit(Consolidator, d)
      BY <2>2 DEF CloseVictims
    <3> HIDE DEF d
    <3>3. Remembers(draft, d)
      BY <3>1 DEF Remembers
    <3> QED
      BY <3>2, <3>3, WriteRemembers
  <2>3. CASE Invalidate
    <3> DEFINE d == Retracted(db)
    <3>1. d.memories = db.memories
      BY <1>0, RowsRetracted
    <3>2. db' = d /\ draft' = d /\ draft = db
      BY <1>0, <2>3 DEF Invalidate
    <3> HIDE DEF d
    <3>3. \A q : View(q) = db /\ View(q)' = d
      BY <3>2 DEF View
    <3>4. Remembers(db, d) /\ Remembers(d, d)
      BY <3>1 DEF Remembers
    <3> QED
      BY <3>2, <3>3, <3>4 DEF Memory
  <2> QED
    BY <2>1, <2>2, <2>3 DEF Consolidate
<1>3. Consolidator \notin Threads
  BY ProjectionAssumption
<1> QED
  BY <1>1, <1>2, <1>3, NextNotes

(* Whatever threads write, and whatever a pass closes in between: a fact   *)
(* promoted while its row was active, and not retracted, is recalled while *)
(* all its rows are active, and not once all are closed.                   *)
THEOREM StoresStayTogether == Spec => []StoresAgree
<1> DEFINE IInv == RowInv /\ NoteInv
<1>1. Init => IInv
  <2> SUFFICES ASSUME Init PROVE IInv
    OBVIOUS
  <2>1. RowInv
    BY DEF Init, Empty, RowInv, Backed, ClosedWithRow, RowsAreItems, Instants
  <2>2. NoteInv
    BY DEF Init, Empty, NoteInv, Remembers, NotedBy
  <2> QED
    BY <2>1, <2>2
<1>2. TypeInv /\ TypeInv' /\ IInv /\ [Next]_vars => IInv'
  <2> SUFFICES ASSUME TypeInv, TypeInv', IInv, [Next]_vars PROVE IInv'
    OBVIOUS
  <2>1. CASE UNCHANGED vars
    <3>1. UNCHANGED <<db, draft, writer, pc, turn, idx, stamp, succeeded,
                      pass, keeper, owed, strays>>
      BY <2>1 DEF vars, thread, upkeep, told
    <3>2. RowInv'
      BY <3>1 DEF RowInv, Backed, ClosedWithRow, RowsAreItems, Instants, ActiveRows
    <3>3. NoteInv'
      BY <3>1 DEF NoteInv, NotedBy, Noted, Remembers, View
    <3> QED
      BY <3>2, <3>3
  <2>2. CASE Next
    <3>1. RowInv'
      BY <2>2, ProjectRows, UpkeepRows DEF Next
    <3>2. NoteInv'
      BY <2>2, ProjectNoteInv, UpkeepNoteInv DEF Next
    <3> QED
      BY <3>1, <3>2
  <2> QED
    BY <2>1, <2>2
<1>3. TypeInv /\ IInv => StoresAgree
  <2> SUFFICES ASSUME TypeInv, IInv, NEW f \in Facts \ strays,
                      NEW rows, rows = {r \in db.rows : <<r.value, r.anchor>> = f}
               PROVE  /\ db.memories[f] = "active" => f \in FactsOf(ActiveRows(db))
                      /\ f[2] \in succeeded /\ rows # {} /\ rows \subseteq ActiveRows(db)
                            => db.memories[f] = "active"
    BY DEF StoresAgree
  <2>1. db.memories[f] = "active" => f \in FactsOf(ActiveRows(db))
    BY DEF RowInv, Backed
  <2>2. ASSUME f[2] \in succeeded, rows # {}, rows \subseteq ActiveRows(db)
        PROVE  db.memories[f] = "active"
    <3>1. PICK r \in db.rows : <<r.value, r.anchor>> = f
      BY <2>2
    <3>2. PICK i \in 1 .. Len(ItemsOf[r.anchor]) : Says(r.anchor, i, r.value)
      BY DEF RowInv, RowsAreItems
    <3>3. r.anchor \in succeeded
      BY <2>2, <3>1
    <3>4. db.memories[f] # "none"
      BY <3>1, <3>2, <3>3 DEF NoteInv, Noted, Says
    <3>5. db.memories[f] # "closed"
      <4>1. SUFFICES ASSUME db.memories[f] = "closed" PROVE FALSE
        OBVIOUS
      <4>2. PICK s \in db.rows : s.to # Open /\ <<s.value, s.anchor>> = f
        BY <4>1 DEF RowInv, ClosedWithRow, FactsOf
      <4> QED
        BY <2>2, <4>2 DEF ActiveRows
    <3> QED
      BY <3>4, <3>5 DEF TypeInv, TypeOK, DB
  <2> QED
    BY <2>1, <2>2
<1> QED
  BY <1>1, <1>2, <1>3, TypeInvariant, PTL DEF Spec
=============================================================================
