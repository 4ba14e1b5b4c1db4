------------------------ MODULE GatewayAndChatProofs ------------------------
(***************************************************************************)
(* Proofs about SessionGateway, for any number of connections, spans and   *)
(* executions, and about Conversation, for any history and any number of   *)
(* turns and compactions, both for any bounds. The two components of the   *)
(* Studio's server share no state: a theorem concerns the one its          *)
(* specification names, Spec or ChatSpec.                                  *)
(***************************************************************************)
EXTENDS SessionGateway, Conversation, FiniteSetTheorems, WellFoundedInduction,
        SequenceTheorems, TLAPS

LEMMA LeastIsThere ==
    ASSUME NEW S \in SUBSET Nat, S # {}
    PROVE  \E n \in S : \A m \in S : n =< m
<1>. DEFINE Less == OpToRel(<, Nat)
<1>1. IsWellFoundedOn(Less, Nat)
  BY NatLessThanWellFounded
<1>2. \A m, n \in Nat : <<m, n>> \in Less <=> m < n
  BY DEF OpToRel
<1>. HIDE DEF Less
<1>3. PICK n \in S : \A m \in S : <<m, n>> \notin Less
  BY <1>1, WFMin
<1>4. \A m \in S : ~ (m < n)
  BY <1>2, <1>3
<1>. QED
  BY <1>4

-----------------------------------------------------------------------------
(* The gateway: who attends to a session                                     *)

Present   == Restoring \cup {"loop"}
Attending == Present \cup {"grace"}

SessionType ==
    /\ place \in [Conns -> Places]
    /\ members \subseteq Conns
    /\ orphaned \in BOOLEAN

\* A connection of the list is restoring or takes commands: disconnect comes
\* before anything that ends a connection.
MembersPresent == \A c \in members : place[c] \in Present

\* Whatever runs, somebody will see to it: a connection that will yet notice
\* that it is the last one, or one that waits for others to come back.
Attended == running # {} /\ ~orphaned => \E c \in Conns : place[c] \in Attending

IInv == SessionType /\ MembersPresent /\ Attended

LEMMA InitIInv == Init => IInv
BY DEF Init, IInv, SessionType, MembersPresent, Attended, Places

LEMMA PresentIsAttending == Present \subseteq Attending /\ Attending \subseteq Places
BY DEF Present, Attending, Places, Restoring

\* While there is a member, somebody attends.
LEMMA MemberAttends ==
    ASSUME members \subseteq Conns, MembersPresent, members # {}
    PROVE  \E c \in Conns : place[c] \in Attending
BY PresentIsAttending DEF MembersPresent

\* A send that goes on in a restore leaves its connection present.
LEMMA ContinueStays ==
    ASSUME SessionType, NEW c \in Conns, NEW m, NEW sends, Continue(c, m, sends)
    PROVE  \E p \in Present : place' = [place EXCEPT ![c] = p]
BY DEF Continue, Present, Restoring

LEMMA SentKeeps ==
    ASSUME IInv, NEW x \in Senders, Sent(x)
    PROVE  IInv'
<1>1. running' = running /\ orphaned' = orphaned
  BY DEF Sent
<1>2. /\ members' \subseteq members
      /\ \/ place' = place
         \/ \E c \in Conns, p \in Present : place' = [place EXCEPT ![c] = p]
  <2>1. CASE UNCHANGED <<place, members>>
    BY <2>1
  <2>2. CASE EndOfList(x, send[x].failed \cup ({send[x].to} \cap dead))
    <3>1. members' \subseteq members
      BY <2>2 DEF EndOfList, Disconnect
    <3>2. CASE x \in Conns
      <4>1. PICK m, sends : Continue(x, m, sends)
        BY <2>2, <3>2 DEF EndOfList
      <4>. QED
        BY <3>1, <3>2, <4>1, ContinueStays DEF IInv
    <3>3. CASE x \notin Conns
      BY <2>2, <3>1, <3>3 DEF EndOfList
    <3>. QED
      BY <3>2, <3>3
  <2>. QED
    BY <2>1, <2>2 DEF Sent
<1>3. SessionType'
  BY <1>1, <1>2, PresentIsAttending DEF IInv, SessionType
<1>4. MembersPresent'
  BY <1>2 DEF IInv, SessionType, MembersPresent
<1>5. Attended'
  BY <1>1, <1>2, PresentIsAttending DEF IInv, SessionType, Attended
<1>. QED
  BY <1>3, <1>4, <1>5 DEF IInv

LEMMA ConnectKeeps ==
    ASSUME IInv, NEW c \in Conns, Connect(c)
    PROVE  IInv'
<1>1. /\ members' = members \cup {c}
      /\ orphaned' = FALSE
      /\ \E p \in Present : place' = [place EXCEPT ![c] = p]
  BY DEF Connect, Present, Restoring
<1>2. SessionType'
  BY <1>1, PresentIsAttending DEF IInv, SessionType
<1>3. MembersPresent'
  BY <1>1 DEF IInv, SessionType, MembersPresent
<1>4. place'[c] \in Attending
  BY <1>1, PresentIsAttending DEF IInv, SessionType
<1>. QED
  BY <1>2, <1>3, <1>4 DEF IInv, Attended

LEMMA SendInfoKeeps ==
    ASSUME IInv, NEW c \in Conns, SendInfo(c)
    PROVE  IInv'
<1>1. /\ UNCHANGED <<members, running, orphaned>>
      /\ \E p \in Present : place' = [place EXCEPT ![c] = p]
  BY DEF SendInfo, Present, Restoring
<1>2. place'[c] \in Attending
  BY <1>1, PresentIsAttending DEF IInv, SessionType
<1>. QED
  BY <1>1, <1>2, PresentIsAttending DEF IInv, SessionType, MembersPresent, Attended

\* The connection has left the list; who remains there attends, and if nobody
\* else attends the executions are orphaned.
LEMMA BailKeeps ==
    ASSUME IInv, NEW c \in Conns, Bail(c)
    PROVE  IInv'
<1>1. /\ place' = [place EXCEPT ![c] = "done"]
      /\ members' = members \ {c}
      /\ running' = running
      /\ orphaned' = (running # {} /\ \A d \in Conns \ {c} : place[d] \in {"new", "done"})
  BY DEF Bail, Disconnect
<1>2. SessionType'
  BY <1>1 DEF IInv, SessionType, Places
<1>3. MembersPresent'
  BY <1>1 DEF IInv, SessionType, MembersPresent
<1>4. Attended'
  <2>1. SUFFICES ASSUME running # {}, ~orphaned'
                 PROVE  \E d \in Conns : place'[d] \in Attending
    BY <1>1 DEF Attended
  <2>2. PICK d \in Conns \ {c} : place[d] \notin {"new", "done"}
    BY <1>1, <2>1
  <2>3. place[d] \in Attending
    BY <2>2 DEF IInv, SessionType, Places, Attending, Present
  <2>4. place'[d] = place[d]
    BY <1>1, <2>2 DEF IInv, SessionType
  <2>. QED
    BY <2>3, <2>4
<1>. QED
  BY <1>2, <1>3, <1>4 DEF IInv

\* The last one to leave waits if anything runs; anybody else leaves a member
\* behind.
LEMMA NoticeKeeps ==
    ASSUME IInv, NEW c \in Conns, Notice(c)
    PROVE  IInv'
<1>1. /\ place' = [place EXCEPT ![c] =
                    IF LastOne(c) /\ running # {} THEN "grace" ELSE "done"]
      /\ members' = members \ {c}
      /\ UNCHANGED <<running, orphaned>>
  BY DEF Notice, Disconnect
<1>2. SessionType'
  BY <1>1 DEF IInv, SessionType, Places
<1>3. MembersPresent'
  BY <1>1 DEF IInv, SessionType, MembersPresent
<1>4. Attended'
  <2>1. CASE running = {}
    BY <1>1, <2>1 DEF Attended
  <2>2. CASE running # {} /\ LastOne(c)
    <3>1. place'[c] = "grace"
      BY <1>1, <2>2 DEF IInv, SessionType
    <3>. QED
      BY <3>1 DEF Attended, Attending
  <2>3. CASE ~LastOne(c)
    BY <1>1, <1>2, <1>3, <2>3, PresentIsAttending
    DEF LastOne, Attended, SessionType, MembersPresent
  <2>. QED
    BY <2>1, <2>2, <2>3
<1>. QED
  BY <1>2, <1>3, <1>4 DEF IInv

LEMMA GraceEndsKeeps ==
    ASSUME IInv, NEW c \in Conns, GraceEnds(c)
    PROVE  IInv'
<1>1. /\ place[c] = "grace"
      /\ place' = [place EXCEPT ![c] = "done"]
      /\ running' = IF members = {} THEN {} ELSE running
      /\ UNCHANGED <<members, orphaned>>
  BY DEF GraceEnds
<1>2. c \notin members
  BY <1>1 DEF IInv, MembersPresent, Present, Restoring
<1>3. SessionType'
  BY <1>1 DEF IInv, SessionType, Places
<1>4. MembersPresent'
  BY <1>1, <1>2 DEF IInv, SessionType, MembersPresent
<1>5. Attended'
  BY <1>1, <1>3, <1>4, PresentIsAttending DEF Attended, SessionType, MembersPresent
<1>. QED
  BY <1>3, <1>4, <1>5 DEF IInv

LEMMA RunKeeps ==
    ASSUME IInv, NEW c \in Conns, NEW e \in Execs, Run(c, e)
    PROVE  IInv'
<1>1. place[c] = "loop" /\ UNCHANGED <<place, members, orphaned>>
  BY DEF Run
<1>2. place[c] \in Attending
  BY <1>1 DEF Attending, Present
<1>. QED
  BY <1>1, <1>2 DEF IInv, SessionType, MembersPresent, Attended

\* Steps that touch none of it, or only end an execution.
LEMMA OtherKeeps ==
    ASSUME IInv, UNCHANGED <<place, members, orphaned>>, running' \subseteq running
    PROVE  IInv'
BY DEF IInv, SessionType, MembersPresent, Attended

LEMMA NextKeeps == IInv /\ [Next]_vars => IInv'
<1>1. SUFFICES ASSUME IInv, [Next]_vars
               PROVE  IInv'
  OBVIOUS
<1>2. ASSUME NEW c \in Conns, Connect(c) PROVE IInv'
  BY <1>1, <1>2, ConnectKeeps
<1>3. ASSUME NEW c \in Conns, SendInfo(c) PROVE IInv'
  BY <1>1, <1>3, SendInfoKeeps
<1>4. ASSUME NEW c \in Conns, Bail(c) PROVE IInv'
  BY <1>1, <1>4, BailKeeps
<1>5. ASSUME NEW c \in Conns, Notice(c) PROVE IInv'
  BY <1>1, <1>5, NoticeKeeps
<1>6. ASSUME NEW c \in Conns, GraceEnds(c) PROVE IInv'
  BY <1>1, <1>6, GraceEndsKeeps
<1>7. ASSUME NEW c \in Conns, NEW e \in Execs, Run(c, e) PROVE IInv'
  BY <1>1, <1>7, RunKeeps
<1>8. ASSUME NEW x \in Senders, Sent(x) PROVE IInv'
  BY <1>1, <1>8, SentKeeps
<1>9. ASSUME NEW c \in Conns, Drop(c) \/ StorePlan(c) PROVE IInv'
  BY <1>1, <1>9, OtherKeeps DEF Drop, StorePlan
<1>10. ASSUME NEW s \in Spans, Emit(s) PROVE IInv'
  BY <1>1, <1>10, OtherKeeps DEF Emit, session
<1>11. ASSUME NEW e \in Execs, EndExec(e) PROVE IInv'
  BY <1>1, <1>11, OtherKeeps DEF EndExec
<1>12. CASE UNCHANGED vars
  BY <1>1, <1>12, OtherKeeps DEF vars, session
<1>. QED
  BY <1>1, <1>2, <1>3, <1>4, <1>5, <1>6, <1>7, <1>8, <1>9, <1>10, <1>11, <1>12 DEF Next

\* Executions are never left running with nobody to see to them: any number of
\* clients may come, leave, be swept out and come back in each other's grace
\* period (websocket_endpoint, send_event).
THEOREM AbandonedAreAborted == Spec => []AbandonedIsAborted
<1>1. IInv => AbandonedIsAborted
  BY DEF IInv, Attended, AbandonedIsAborted, Attending, Present, Restoring
<1>. QED
  BY InitIInv, NextKeeps, <1>1, PTL DEF Spec

-----------------------------------------------------------------------------
(* Positions in the list of connections.                                     *)

LEMMA BeforeIsNumber ==
    ASSUME NEW m \in SUBSET Nat, IsFiniteSet(m), NEW c
    PROVE  Before(m, c) \in Nat
<1>1. {d \in m : d < c} \in SUBSET m
  OBVIOUS
<1>. QED
  BY <1>1, FS_Subset, FS_CardinalityType DEF Before

\* Who joined later stands further behind, and within the length of the list.
LEMMA BeforeOrders ==
    ASSUME NEW m \in SUBSET Nat, IsFiniteSet(m), NEW c \in m
    PROVE  /\ Before(m, c) \in Nat /\ Cardinality(m) \in Nat
           /\ Before(m, c) < Cardinality(m)
           /\ \A d \in m : d < c <=> Before(m, d) < Before(m, c)
           /\ \A d \in m : d = c <=> Before(m, d) = Before(m, c)
<1>. DEFINE B(e) == {d \in m : d < e}
<1>1. \A e \in m : IsFiniteSet(B(e)) /\ Before(m, e) \in Nat /\ Before(m, e) = Cardinality(B(e))
  <2>. SUFFICES ASSUME NEW e \in m
                PROVE  IsFiniteSet(B(e)) /\ Before(m, e) = Cardinality(B(e))
    BY BeforeIsNumber
  <2>1. B(e) \in SUBSET m
    OBVIOUS
  <2>. QED
    BY <2>1, FS_Subset DEF Before
<1>2. ASSUME NEW T \in SUBSET m, NEW e \in m, B(e) \cup {e} \subseteq T
      PROVE  Before(m, e) < Cardinality(T)
  <2>1. IsFiniteSet(T) /\ Cardinality(T) \in Nat
    BY FS_Subset, FS_CardinalityType
  <2>2. e \notin B(e)
    OBVIOUS
  <2>. HIDE DEF B
  <2>3. Cardinality(B(e) \cup {e}) = Before(m, e) + 1
    BY <1>1, <2>2, FS_AddElement
  <2>4. Cardinality(B(e) \cup {e}) <= Cardinality(T)
    BY <1>2, <2>1, FS_Subset
  <2>. QED
    BY <1>1, <2>1, <2>3, <2>4
<1>3. ASSUME NEW d \in m, NEW e \in m, d < e PROVE Before(m, d) < Before(m, e)
  <2>1. \A x \in m : x < d => x < e
    BY <1>3
  <2>2. B(e) \in SUBSET m /\ B(d) \cup {d} \subseteq B(e)
    BY <1>3, <2>1
  <2>. HIDE DEF B
  <2>3. Before(m, d) < Cardinality(B(e))
    BY <1>2, <2>2
  <2>. QED
    BY <1>1, <2>3
<1>4. Before(m, c) < Cardinality(m)
  <2>1. B(c) \cup {c} \subseteq m
    OBVIOUS
  <2>. HIDE DEF B
  <2>. QED
    BY <1>2, <2>1
<1>. HIDE DEF B
<1>5. ASSUME NEW d \in m PROVE /\ d < c <=> Before(m, d) < Before(m, c)
                               /\ d = c <=> Before(m, d) = Before(m, c)
  <2>1. d < c \/ d = c \/ c < d
    OBVIOUS
  <2>2. c < d => Before(m, c) < Before(m, d)
    BY <1>3
  <2>3. d < c => Before(m, d) < Before(m, c)
    BY <1>3
  <2>. QED
    BY <1>1, <2>1, <2>2, <2>3
<1>. QED
  BY <1>1, <1>4, <1>5, FS_CardinalityType

\* Every position of the list is somebody's.
LEMMA NthIsThere ==
    ASSUME NEW m \in SUBSET Nat, IsFiniteSet(m), NEW i \in Nat, i < Cardinality(m)
    PROVE  Nth(m, i) \in m /\ Before(m, Nth(m, i)) = i
<1>. DEFINE Missing == {j \in Nat : j < Cardinality(m) /\ \A c \in m : Before(m, c) # j}
<1>1. Cardinality(m) \in Nat
  BY FS_CardinalityType
<1>2. ASSUME Missing # {} PROVE FALSE
  <2>1. PICK j \in Missing : \A k \in Missing : j =< k
    BY <1>2, LeastIsThere
  <2>2. j \in Nat /\ j < Cardinality(m) /\ \A c \in m : Before(m, c) # j
    OBVIOUS
  <2>3. \A k \in Nat : k < j => \E c \in m : Before(m, c) = k
    BY <1>1, <2>1, <2>2
  <2>. DEFINE Ahead == {c \in m : Before(m, c) < j}
              Behind == m \ Ahead
  <2>4. Behind # {}
    <3>1. ASSUME Behind = {} PROVE FALSE
      <4>. DEFINE g == [c \in m |-> Before(m, c) + 1]
      <4>1. \A c \in m : Before(m, c) \in Nat /\ Before(m, c) < j
        BY <3>1, BeforeOrders
      <4>2. g \in Injection(m, 1..j)
        <5>1. \A c \in m : g[c] \in 1..j
          BY <2>2, <4>1
        <5>2. \A c, d \in m : g[c] = g[d] => c = d
          BY <4>1, BeforeOrders
        <5>. QED
          BY <5>1, <5>2 DEF Injection, IsInjective
      <4>. HIDE DEF g
      <4>3. IsFiniteSet(1..j) /\ Cardinality(1..j) = j
        BY <2>2, FS_Interval
      <4>4. Cardinality(m) <= j
        BY <4>2, <4>3, FS_Injection
      <4>. QED
        BY <1>1, <2>2, <4>4
    <3>. QED
      BY <3>1
  <2>5. PICK c \in Behind : \A d \in Behind : c =< d
    BY <2>4, LeastIsThere
  <2>6. c \in m /\ Before(m, c) \in Nat /\ j < Before(m, c)
    BY <2>2, <2>5, BeforeOrders
  <2>7. {d \in m : d < c} = Ahead
    <3>1. \A d \in m : d < c => d \in Ahead
      BY <2>5, <2>6
    <3>2. \A d \in Ahead : d < c
      <4>1. \A d \in Ahead : Before(m, d) < Before(m, c)
        BY <2>2, <2>6, BeforeOrders
      <4>. QED
        BY <2>6, <4>1, BeforeOrders
    <3>. QED
      BY <3>1, <3>2
  <2>8. Cardinality(Ahead) <= j
    <3>. DEFINE g == [d \in Ahead |-> Before(m, d) + 1]
    <3>1. \A d \in Ahead : Before(m, d) \in Nat /\ Before(m, d) < j
      BY BeforeOrders
    <3>2. g \in Injection(Ahead, 1..j)
      <4>1. \A d \in Ahead : g[d] \in 1..j
        BY <2>2, <3>1
      <4>2. \A d, e \in Ahead : g[d] = g[e] => d = e
        BY <3>1, BeforeOrders
      <4>. QED
        BY <4>1, <4>2 DEF Injection, IsInjective
    <3>. HIDE DEF g
    <3>3. IsFiniteSet(1..j) /\ Cardinality(1..j) = j
      BY <2>2, FS_Interval
    <3>. QED
      BY <3>2, <3>3, FS_Injection
  <2>9. Before(m, c) = Cardinality(Ahead)
    BY <2>7 DEF Before
  <2>. HIDE DEF Ahead
  <2>10. j \in Nat /\ Before(m, c) <= j
    BY <2>2, <2>8, <2>9
  <2>. QED
    BY <2>6, <2>10
<1>3. \E c \in m : Before(m, c) = i
  BY <1>2
<1>. QED
  BY <1>3 DEF Nth

LEMMA FirstInList ==
    ASSUME NEW m \in SUBSET Nat, IsFiniteSet(m), m # {}
    PROVE  /\ Nth(m, 0) \in m /\ Before(m, Nth(m, 0)) = 0
           /\ \A d \in m : ~(d < Nth(m, 0))
<1>1. 0 < Cardinality(m)
  BY FS_EmptySet, FS_CardinalityType
<1>2. Nth(m, 0) \in m /\ Before(m, Nth(m, 0)) = 0
  BY <1>1, NthIsThere
<1>3. ASSUME NEW d \in m, d < Nth(m, 0) PROVE FALSE
  <2>1. Before(m, d) \in Nat /\ Before(m, d) < Before(m, Nth(m, 0))
    BY <1>2, <1>3, BeforeOrders
  <2>. QED
    BY <1>2, <2>1
<1>. QED
  BY <1>2, <1>3

\* Between one position and the next stands nobody.
LEMMA NextInList ==
    ASSUME NEW m \in SUBSET Nat, IsFiniteSet(m), NEW c \in m,
           Before(m, c) + 1 < Cardinality(m)
    PROVE  LET next == Nth(m, Before(m, c) + 1)
           IN  /\ next \in m /\ Before(m, next) = Before(m, c) + 1
               /\ \A d \in m : d < next => d < c \/ d = c
<1>. DEFINE next == Nth(m, Before(m, c) + 1)
<1>1. Before(m, c) \in Nat
  BY BeforeOrders
<1>2. next \in m /\ Before(m, next) = Before(m, c) + 1
  BY <1>1, NthIsThere
<1>. HIDE DEF next
<1>3. ASSUME NEW d \in m, d < next PROVE d < c \/ d = c
  <2>1. Before(m, d) < Before(m, next) /\ Before(m, d) \in Nat
    BY <1>2, <1>3, BeforeOrders
  <2>2. Before(m, d) < Before(m, c) \/ Before(m, d) = Before(m, c)
    BY <1>1, <1>2, <2>1
  <2>. QED
    BY <2>2, BeforeOrders
<1>. QED
  BY <1>2, <1>3 DEF next

LEMMA LastInList ==
    ASSUME NEW m \in SUBSET Nat, IsFiniteSet(m), NEW c \in m,
           ~(Before(m, c) + 1 < Cardinality(m))
    PROVE  \A d \in m : d < c \/ d = c
<1>. SUFFICES ASSUME NEW d \in m PROVE d < c \/ d = c
  OBVIOUS
<1>1. /\ Before(m, c) \in Nat /\ Before(m, d) \in Nat /\ Cardinality(m) \in Nat
      /\ Before(m, d) < Cardinality(m)
  BY BeforeOrders
<1>2. Before(m, d) < Before(m, c) \/ Before(m, d) = Before(m, c)
  BY <1>1
<1>. QED
  BY <1>2, BeforeOrders

\* Who is removed from behind a position, or appended, does not move it.
LEMMA RemovedBehind ==
    ASSUME NEW m \in SUBSET Nat, IsFiniteSet(m), NEW c \in m, NEW away,
           \A d \in away \cap m : ~(Before(m, d) <= Before(m, c))
    PROVE  c \in m \ away /\ Before(m \ away, c) = Before(m, c)
<1>1. ASSUME NEW d \in away \cap m PROVE ~(d < c) /\ d # c
  <2>1. Before(m, d) \in Nat /\ Before(m, c) \in Nat
    BY BeforeOrders
  <2>2. ~(Before(m, d) < Before(m, c)) /\ Before(m, d) # Before(m, c)
    BY <2>1
  <2>. QED
    BY <2>2, BeforeOrders
<1>2. {d \in m \ away : d < c} = {d \in m : d < c}
  BY <1>1
<1>. QED
  BY <1>1, <1>2 DEF Before

LEMMA AppendedBehind ==
    ASSUME NEW m \in SUBSET Nat, NEW c \in m, NEW d \in Nat, c < d
    PROVE  Before(m \cup {d}, c) = Before(m, c)
<1>1. {e \in m \cup {d} : e < c} = {e \in m : e < c}
  OBVIOUS
<1>. QED
  BY <1>1 DEF Before

-----------------------------------------------------------------------------
(* The shape of the state.                                                   *)

SendRecords == [to : Conns \cup {0}, pos : Nat, cut : BOOLEAN, failed : SUBSET Conns]

TypeInv == TypeOK /\ IsFiniteSet(members)

LEMMA MembersAreNumbers ==
    ASSUME TypeInv
    PROVE  members \in SUBSET Nat /\ IsFiniteSet(members) /\ members \subseteq Conns
BY GatewayAssumption DEF TypeInv, TypeOK

LEMMA IdleIsOne == Idle \in SendRecords
BY DEF Idle, SendRecords

LEMMA FirstIsOne ==
    ASSUME NEW m \in SUBSET Conns, IsFiniteSet(m), m # {}
    PROVE  /\ FirstOf(m) \in SendRecords
           /\ FirstOf(m) = [to |-> Nth(m, 0), pos |-> 0, cut |-> FALSE, failed |-> {}]
<1>1. m \in SUBSET Nat
  BY GatewayAssumption
<1>2. Nth(m, 0) \in m
  BY <1>1, FirstInList
<1>. DEFINE first == Nth(m, 0)
<1>3. FirstOf(m) = [to |-> first, pos |-> 0, cut |-> FALSE, failed |-> {}]
  <2>1. FirstOf(m) = [Idle EXCEPT !.to = first]
    BY DEF FirstOf
  <2>. HIDE DEF first
  <2>. QED
    BY <2>1 DEF Idle
<1>. QED
  BY <1>2, <1>3 DEF SendRecords

LEMMA CutOffAreOnes ==
    ASSUME NEW sends \in [Senders -> SendRecords], NEW away
    PROVE  CutOff(away, sends) \in [Senders -> SendRecords]
<1>1. \A x \in Senders : [sends[x] EXCEPT !.cut = TRUE] \in SendRecords
  BY DEF SendRecords
<1>. QED
  BY <1>1 DEF CutOff

LEMMA RecentIsRecent ==
    ASSUME NEW s \in Seq(Spans)
    PROVE  Recent(s) \in Seq(Spans) /\ Len(Recent(s)) <= MaxBuffer
<1>. DEFINE n == Len(s)
<1>0. n \in Nat /\ MaxBuffer \in Nat \ {0}
  BY GatewayAssumption
<1>1. CASE n > MaxBuffer
  <2>1. Recent(s) = SubSeq(s, n - MaxBuffer + 1, n)
    BY <1>1 DEF Recent
  <2>2. n - MaxBuffer + 1 \in 1..n
    BY <1>0, <1>1
  <2>. QED
    BY <1>0, <2>1, <2>2
<1>2. CASE ~(n > MaxBuffer)
  <2>1. Recent(s) = SubSeq(s, 1, n)
    BY <1>2 DEF Recent
  <2>. QED
    BY <1>0, <1>2, <2>1
<1>. QED
  BY <1>1, <1>2

LEMMA CarriedAreSpans ==
    ASSUME TypeInv, NEW x \in Senders
    PROVE  Carried(x) \subseteq Spans
<1>1. CASE x \in Spans
  BY <1>1 DEF Carried
<1>2. CASE x \notin Spans
  <2>1. x \in Conns /\ rest[x] \in Seq(Spans)
    BY <1>2 DEF Senders, TypeInv, TypeOK
  <2>2. rest[x] # <<>> => Head(rest[x]) \in Spans
    BY <2>1
  <2>. QED
    BY <1>2, <2>2 DEF Carried
<1>. QED
  BY <1>1, <1>2

LEMMA DisconnectKeepsTypes ==
    ASSUME TypeInv, NEW away, NEW sends, Disconnect(away, sends)
    PROVE  /\ members' \subseteq members /\ IsFiniteSet(members') /\ jolted' \subseteq Spans
           /\ jolted \subseteq jolted'
<1>1. members' \in SUBSET members
  BY DEF Disconnect
<1>2. UNION {Carried(x) : x \in Jolted(away, sends)} \subseteq Spans
  BY CarriedAreSpans DEF Jolted
<1>. QED
  BY <1>1, <1>2, FS_Subset DEF Disconnect, TypeInv, TypeOK

LEMMA BufferedKeepsTypes ==
    ASSUME TypeInv, NEW s \in Spans, Buffered(s)
    PROVE  buffer' \in Seq(Spans) /\ Len(buffer') <= MaxBuffer /\ owed' \in Seq(Spans)
<1>1. Append(buffer, s) \in Seq(Spans) /\ Append(owed, s) \in Seq(Spans)
  BY DEF TypeInv, TypeOK
<1>. QED
  BY <1>1, RecentIsRecent DEF Buffered

LEMMA ClearedKeepsTypes ==
    ASSUME Cleared
    PROVE  buffer' \in Seq(Spans) /\ Len(buffer') <= MaxBuffer /\ owed' \in Seq(Spans)
BY GatewayAssumption DEF Cleared

LEMMA TypeInit == Init => TypeInv
<1>. SUFFICES ASSUME Init PROVE TypeInv
  OBVIOUS
<1>1. Idle \in [to : Conns \cup {0}, pos : Nat, cut : BOOLEAN, failed : SUBSET Conns]
  BY IdleIsOne DEF SendRecords
<1>2. Len(<<>>) <= MaxBuffer
  BY GatewayAssumption
<1>3. IsFiniteSet(members)
  BY FS_EmptySet DEF Init
<1>4. /\ send \in [Senders -> [to : Conns \cup {0}, pos : Nat, cut : BOOLEAN,
                              failed : SUBSET Conns]]
      /\ place \in [Conns -> Places] /\ rest \in [Conns -> Seq(Spans)]
      /\ received \in [Conns -> SUBSET Spans]
  BY <1>1 DEF Init, Places
<1>5. buffer = <<>> /\ owed = <<>> /\ running = {} /\ emitted = {} /\ jolted = {} /\ dead = {}
      /\ members = {} /\ planned = FALSE /\ orphaned = FALSE
  BY DEF Init
<1>6. buffer \in Seq(Spans) /\ owed \in Seq(Spans)
  BY <1>5
<1>7. Len(buffer) <= MaxBuffer
  BY <1>2, <1>5, Zenon
<1>8. running \subseteq Execs /\ planned \in BOOLEAN /\ orphaned \in BOOLEAN
  BY <1>5
<1>. QED
  BY <1>3, <1>4, <1>5, <1>6, <1>7, <1>8 DEF TypeInv, TypeOK

\* A connection's own steps.
LEMMA ConnectionKeepsTypes ==
    ASSUME TypeInv, NEW c \in Conns,
           \/ Connect(c) \/ SendInfo(c) \/ Bail(c) \/ Drop(c) \/ Notice(c) \/ GraceEnds(c)
           \/ StorePlan(c) \/ \E e \in Execs : Run(c, e)
    PROVE  TypeInv'
<1>0. /\ send \in [Senders -> SendRecords] /\ c \in Senders /\ members \in SUBSET Conns
      /\ IsFiniteSet(members)
  BY DEF TypeInv, TypeOK, SendRecords, Senders
<1>1. CASE Connect(c)
  <2>1. IsFiniteSet(members \cup {c})
    BY <1>0, FS_AddElement
  <2>2. FirstOf(members \cup {c}) \in SendRecords
    BY <1>0, <2>1, FirstIsOne
  <2>3. send' \in [Senders -> SendRecords]
    BY <1>0, <1>1, <2>2 DEF Connect
  <2>4. place' \in [Conns -> Places] /\ members' \subseteq Conns /\ orphaned' \in BOOLEAN
    BY <1>0, <1>1 DEF Connect, TypeInv, TypeOK, Places, Restoring
  <2>5. UNCHANGED <<dead, running, planned, rest, buffer, emitted, received, owed, jolted>>
    BY <1>1 DEF Connect
  <2>6. IsFiniteSet(members')
    BY <1>1, <2>1 DEF Connect
  <2>. QED
    BY <2>3, <2>4, <2>5, <2>6 DEF TypeInv, TypeOK, SendRecords
<1>2. CASE SendInfo(c)
  <2>1. members # {} => FirstOf(members) \in SendRecords
    BY <1>0, FirstIsOne
  <2>2. send' \in [Senders -> SendRecords]
    BY <1>0, <1>2, <2>1 DEF SendInfo
  <2>3. place' \in [Conns -> Places]
    BY <1>0, <1>2 DEF SendInfo, TypeInv, TypeOK, Places, Restoring
  <2>4. UNCHANGED <<dead, members, running, planned, orphaned,
                    rest, buffer, emitted, received, owed, jolted>>
    BY <1>2 DEF SendInfo
  <2>. QED
    BY <2>2, <2>3, <2>4 DEF TypeInv, TypeOK, SendRecords
<1>3. CASE Bail(c)
  <2>1. CutOff({c}, send) \in [Senders -> SendRecords]
    BY <1>0, CutOffAreOnes
  <2>2. Disconnect({c}, send) /\ send' = CutOff({c}, send)
    BY <1>3 DEF Bail
  <2>3. members' \subseteq members /\ IsFiniteSet(members') /\ jolted' \subseteq Spans
    BY <2>2, DisconnectKeepsTypes
  <2>4. place' \in [Conns -> Places] /\ orphaned' \in BOOLEAN
    BY <1>3 DEF Bail, TypeInv, TypeOK, Places
  <2>5. UNCHANGED <<dead, running, planned, rest, buffer, emitted, received, owed>>
    BY <1>3 DEF Bail
  <2>. QED
    BY <1>0, <2>1, <2>2, <2>3, <2>4, <2>5 DEF TypeInv, TypeOK, SendRecords
<1>4. CASE Drop(c)
  <2>1. dead' \subseteq Conns /\ received' \in [Conns -> SUBSET Spans]
    BY <1>4 DEF Drop, TypeInv, TypeOK
  <2>2. UNCHANGED <<place, members, running, planned, orphaned,
                    send, rest, buffer, emitted, owed, jolted>>
    BY <1>4 DEF Drop
  <2>. QED
    BY <2>1, <2>2 DEF TypeInv, TypeOK
<1>5. CASE Notice(c)
  <2>1. CutOff({c}, send) \in [Senders -> SendRecords]
    BY <1>0, CutOffAreOnes
  <2>2. Disconnect({c}, send) /\ send' = CutOff({c}, send)
    BY <1>5 DEF Notice
  <2>3. members' \subseteq members /\ IsFiniteSet(members') /\ jolted' \subseteq Spans
    BY <2>2, DisconnectKeepsTypes
  <2>4. place' \in [Conns -> Places]
    BY <1>5 DEF Notice, TypeInv, TypeOK, Places
  <2>5. UNCHANGED <<dead, running, planned, orphaned, rest, emitted, received>>
    BY <1>5 DEF Notice
  <2>6. buffer' \in Seq(Spans) /\ Len(buffer') <= MaxBuffer /\ owed' \in Seq(Spans)
    <3>1. Cleared \/ UNCHANGED <<buffer, owed>>
      BY <1>5 DEF Notice
    <3>. QED
      BY <3>1, ClearedKeepsTypes DEF TypeInv, TypeOK
  <2>. QED
    BY <1>0, <2>1, <2>2, <2>3, <2>4, <2>5, <2>6 DEF TypeInv, TypeOK, SendRecords
<1>6. CASE GraceEnds(c)
  <2>1. place' \in [Conns -> Places] /\ running' \subseteq Execs
    BY <1>6 DEF GraceEnds, TypeInv, TypeOK, Places
  <2>2. UNCHANGED <<dead, members, planned, orphaned, send, rest, emitted, received, jolted>>
    BY <1>6 DEF GraceEnds
  <2>3. buffer' \in Seq(Spans) /\ Len(buffer') <= MaxBuffer /\ owed' \in Seq(Spans)
    BY <1>6, ClearedKeepsTypes DEF GraceEnds
  <2>. QED
    BY <2>1, <2>2, <2>3 DEF TypeInv, TypeOK
<1>7. CASE StorePlan(c) \/ \E e \in Execs : Run(c, e)
  <2>1. /\ UNCHANGED <<place, dead, members, orphaned, delivery>>
        /\ running' \subseteq Execs /\ planned' \in BOOLEAN
    BY <1>7 DEF StorePlan, Run, TypeInv, TypeOK
  <2>. QED
    BY <2>1 DEF TypeInv, TypeOK, delivery
<1>. QED
  BY <1>1, <1>2, <1>3, <1>4, <1>5, <1>6, <1>7

LEMMA ContinueKeepsTypes ==
    ASSUME TypeInv, NEW c \in Conns, NEW m \in SUBSET Conns, IsFiniteSet(m),
           NEW sends \in [Senders -> SendRecords], Continue(c, m, sends)
    PROVE  /\ place' \in [Conns -> Places] /\ rest' \in [Conns -> Seq(Spans)]
           /\ send' \in [Senders -> SendRecords]
<1>. DEFINE todo == IF place[c] = "log" THEN buffer ELSE SubSeq(rest[c], 2, Len(rest[c]))
<1>1. /\ buffer \in Seq(Spans) /\ rest[c] \in Seq(Spans) /\ Len(rest[c]) \in Nat
      /\ rest \in [Conns -> Seq(Spans)] /\ <<>> \in Seq(Spans)
  BY DEF TypeInv, TypeOK
<1>2. SubSeq(rest[c], 2, Len(rest[c])) \in Seq(Spans)
  BY <1>1
<1>3. todo \in Seq(Spans)
  BY <1>1, <1>2
<1>4. m # {} => FirstOf(m) \in SendRecords
  BY FirstIsOne
<1>. HIDE DEF todo
<1>5. \/ rest' = [rest EXCEPT ![c] = todo] \/ rest' = [rest EXCEPT ![c] = <<>>]
  BY DEF Continue, todo
<1>6. send' = sends \/ (m # {} /\ send' = [sends EXCEPT ![c] = FirstOf(m)])
  BY DEF Continue
<1>7. place' \in [Conns -> Places]
  <2>1. \E p \in {"info", "replay", "loop"} : place' = [place EXCEPT ![c] = p]
    BY DEF Continue
  <2>. QED
    BY <2>1 DEF TypeInv, TypeOK, Places, Restoring
<1>8. rest' \in [Conns -> Seq(Spans)]
  BY <1>1, <1>3, <1>5
<1>. QED
  BY <1>4, <1>6, <1>7, <1>8

LEMMA SentKeepsTypes ==
    ASSUME TypeInv, NEW x \in Senders, Sent(x)
    PROVE  TypeInv'
<1>. DEFINE s == send[x]
            failed == s.failed \cup ({s.to} \cap dead)
<1>0. /\ send \in [Senders -> SendRecords] /\ members \in SUBSET Conns
      /\ IsFiniteSet(members) /\ Carried(x) \subseteq Spans
      /\ s \in SendRecords /\ failed \subseteq Conns
  <2>1. send \in [Senders -> SendRecords] /\ dead \subseteq Conns
    BY DEF TypeInv, TypeOK, SendRecords
  <2>2. s \in SendRecords
    BY <2>1
  <2>3. failed \subseteq Conns
    BY <2>1, <2>2 DEF SendRecords
  <2>. QED
    BY <2>1, <2>2, <2>3, CarriedAreSpans DEF TypeInv, TypeOK
<1>1. received' \in [Conns -> SUBSET Spans]
  <2>1. received' = [received EXCEPT ![s.to] =
                       IF s.to \in dead THEN @ ELSE @ \cup Carried(x)]
    BY DEF Sent
  <2>. HIDE DEF s
  <2>. QED
    BY <1>0, <2>1 DEF TypeInv, TypeOK
<1>2. UNCHANGED <<dead, running, planned, orphaned, emitted>>
  BY DEF Sent
<1>3. CASE ~s.cut /\ s.pos + 1 < Cardinality(members)
  <2>. DEFINE next == [to |-> Nth(members, s.pos + 1), pos |-> s.pos + 1,
                       cut |-> FALSE, failed |-> failed]
  <2>1. s.pos + 1 \in Nat
    BY <1>0 DEF SendRecords
  <2>2. Nth(members, s.pos + 1) \in members
    BY <1>3, <2>1, MembersAreNumbers, NthIsThere
  <2>. HIDE DEF failed
  <2>3. next \in SendRecords
    BY <1>0, <2>1, <2>2 DEF SendRecords
  <2>4. /\ send' = [send EXCEPT ![x] = next]
        /\ UNCHANGED <<place, members, rest, buffer, owed, jolted>>
    BY <1>3 DEF Sent, failed
  <2>. HIDE DEF next
  <2>5. send' \in [Senders -> SendRecords]
    BY <1>0, <2>3, <2>4
  <2>. QED
    BY <1>1, <1>2, <2>4, <2>5 DEF TypeInv, TypeOK, SendRecords
<1>4. CASE EndOfList(x, failed)
  <2>. DEFINE others == [send EXCEPT ![x] = Idle]
              sends == CutOff(failed, others)
  <2>1. others \in [Senders -> SendRecords]
    BY <1>0, IdleIsOne
  <2>2. sends \in [Senders -> SendRecords]
    BY <2>1, CutOffAreOnes
  <2>3. Disconnect(failed, others)
    BY <1>4 DEF EndOfList
  <2>4. members' \subseteq members /\ IsFiniteSet(members') /\ jolted' \subseteq Spans
    BY <2>3, DisconnectKeepsTypes
  <2>5. CASE x \in Conns
    <3>1. Continue(x, members \ failed, sends) /\ UNCHANGED <<buffer, owed>>
      BY <1>4, <2>5 DEF EndOfList
    <3>2. members \ failed \in SUBSET Conns /\ IsFiniteSet(members \ failed)
      BY <1>0, FS_Subset
    <3>. HIDE DEF sends, failed
    <3>3. /\ place' \in [Conns -> Places] /\ rest' \in [Conns -> Seq(Spans)]
          /\ send' \in [Senders -> SendRecords]
      BY <2>2, <2>5, <3>1, <3>2, ContinueKeepsTypes
    <3>. QED
      BY <1>1, <1>2, <2>4, <3>1, <3>3 DEF TypeInv, TypeOK, SendRecords
  <2>6. CASE x \notin Conns
    <3>1. x \in Spans /\ Buffered(x) /\ send' = sends /\ UNCHANGED <<place, rest>>
      BY <1>4, <2>6 DEF EndOfList, Senders
    <3>2. buffer' \in Seq(Spans) /\ Len(buffer') <= MaxBuffer /\ owed' \in Seq(Spans)
      BY <3>1, BufferedKeepsTypes
    <3>. HIDE DEF sends, failed
    <3>. QED
      BY <1>1, <1>2, <2>2, <2>4, <3>1, <3>2 DEF TypeInv, TypeOK, SendRecords
  <2>. QED
    BY <2>5, <2>6
<1>. QED
  BY <1>3, <1>4 DEF Sent

LEMMA EmitKeepsTypes ==
    ASSUME TypeInv, NEW s \in Spans, Emit(s)
    PROVE  TypeInv'
<1>0. send \in [Senders -> SendRecords] /\ s \in Senders
  BY DEF TypeInv, TypeOK, SendRecords, Senders
<1>1. UNCHANGED <<session, rest, received, jolted>> /\ emitted' \subseteq Spans
  BY DEF Emit, TypeInv, TypeOK
<1>2. CASE members = {}
  <2>1. Buffered(s) /\ send' = send
    BY <1>2 DEF Emit
  <2>2. buffer' \in Seq(Spans) /\ Len(buffer') <= MaxBuffer /\ owed' \in Seq(Spans)
    BY <2>1, BufferedKeepsTypes
  <2>. QED
    BY <1>1, <2>1, <2>2 DEF TypeInv, TypeOK, session
<1>3. CASE members # {}
  <2>1. FirstOf(members) \in SendRecords
    BY <1>3, FirstIsOne DEF TypeInv, TypeOK
  <2>2. send' = [send EXCEPT ![s] = FirstOf(members)] /\ UNCHANGED <<buffer, owed>>
    BY <1>3 DEF Emit
  <2>3. send' \in [Senders -> SendRecords]
    BY <1>0, <2>1, <2>2
  <2>. QED
    BY <1>1, <2>2, <2>3 DEF TypeInv, TypeOK, session, SendRecords
<1>. QED
  BY <1>2, <1>3

LEMMA TypeNext == TypeInv /\ [Next]_vars => TypeInv'
<1>. SUFFICES ASSUME TypeInv, [Next]_vars PROVE TypeInv'
  OBVIOUS
<1>1. ASSUME NEW e \in Execs, EndExec(e) PROVE TypeInv'
  <2>1. UNCHANGED <<place, dead, members, planned, orphaned, delivery>> /\ running' \subseteq Execs
    BY <1>1 DEF EndExec, TypeInv, TypeOK
  <2>. QED
    BY <2>1 DEF TypeInv, TypeOK, delivery
<1>2. CASE UNCHANGED vars
  BY <1>2 DEF TypeInv, TypeOK, vars, session, delivery
<1>. QED
  BY <1>1, <1>2, ConnectionKeepsTypes, SentKeepsTypes, EmitKeepsTypes DEF Next

\* Every variable keeps its shape, and every position a send is sent on to is
\* a connection's: an iteration over the list never leaves it (send_event).
THEOREM TypeCorrect == Spec => []TypeOK
BY TypeInit, TypeNext, PTL DEF Spec, TypeInv

-----------------------------------------------------------------------------
(* The buffer, and what is left of it to replay.                             *)

LEMMA RecentOf ==
    ASSUME NEW s \in Seq(Spans)
    PROVE  /\ Recent(s) \in Seq(Spans)
           /\ Len(s) <= MaxBuffer => Recent(s) = s
           /\ Len(s) > MaxBuffer =>
                 /\ Len(Recent(s)) = MaxBuffer
                 /\ \A i \in 1..MaxBuffer : Recent(s)[i] = s[i + (Len(s) - MaxBuffer)]
<1>. DEFINE n == Len(s)
<1>0. n \in Nat /\ MaxBuffer \in Nat \ {0}
  BY GatewayAssumption
<1>1. CASE n > MaxBuffer
  <2>1. Recent(s) = SubSeq(s, n - MaxBuffer + 1, n)
    BY <1>1 DEF Recent
  <2>2. n - MaxBuffer + 1 \in 1..n
    BY <1>0, <1>1
  <2>. DEFINE t == SubSeq(s, n - MaxBuffer + 1, n)
  <2>3. Len(t) = MaxBuffer /\ t \in Seq(Spans)
    BY <1>0, <2>2
  <2>4. \A i \in 1..MaxBuffer : t[i] = s[(n - MaxBuffer + 1) + i - 1]
    BY <1>0, <2>2
  <2>5. \A i \in 1..MaxBuffer : (n - MaxBuffer + 1) + i - 1 = i + (n - MaxBuffer)
    BY <1>0
  <2>. HIDE DEF t
  <2>6. \A i \in 1..MaxBuffer : t[i] = s[i + (n - MaxBuffer)]
    BY <2>4, <2>5
  <2>. QED
    BY <1>0, <1>1, <2>1, <2>3, <2>6 DEF t
<1>2. CASE ~(n > MaxBuffer)
  <2>1. Recent(s) = SubSeq(s, 1, n)
    BY <1>2 DEF Recent
  <2>2. SubSeq(s, 1, n) = s
    BY <1>0
  <2>. QED
    BY <1>0, <1>2, <2>1, <2>2
<1>. QED
  BY <1>1, <1>2

LEMMA RecentElements ==
    ASSUME NEW s \in Seq(Spans)
    PROVE  ToSet(Recent(s)) \subseteq ToSet(s)
<1>0. Len(s) \in Nat /\ MaxBuffer \in Nat \ {0} /\ DOMAIN s = 1..Len(s)
  BY GatewayAssumption
<1>1. CASE Len(s) > MaxBuffer
  <2>1. DOMAIN Recent(s) = 1..MaxBuffer
    BY <1>1, RecentOf
  <2>2. \A i \in 1..MaxBuffer : i + (Len(s) - MaxBuffer) \in DOMAIN s
    BY <1>0, <1>1
  <2>. QED
    BY <1>1, <2>1, <2>2, RecentOf DEF ToSet
<1>2. CASE ~(Len(s) > MaxBuffer)
  <2>1. Len(s) <= MaxBuffer
    BY <1>0, <1>2
  <2>2. Recent(s) = s
    BY <2>1, RecentOf
  <2>. QED
    BY <2>2
<1>. QED
  BY <1>1, <1>2

LEMMA AppendElements ==
    ASSUME NEW b \in Seq(Spans), NEW s
    PROVE  ToSet(Append(b, s)) \subseteq ToSet(b) \cup {s}
<1>1. /\ Len(b) \in Nat /\ DOMAIN b = 1..Len(b) /\ DOMAIN Append(b, s) = 1..(Len(b) + 1)
      /\ \A k \in 1..(Len(b) + 1) : Append(b, s)[k] = IF k = Len(b) + 1 THEN s ELSE b[k]
  OBVIOUS
<1>2. \A k \in 1..(Len(b) + 1) : k = Len(b) + 1 \/ k \in 1..Len(b)
  BY <1>1
<1>. QED
  BY <1>1, <1>2 DEF ToSet

\* The buffer need not hold more than it can for its latest spans to be right.
LEMMA RecentAgain ==
    ASSUME NEW o \in Seq(Spans), NEW s \in Spans
    PROVE  Recent(Append(Recent(o), s)) = Recent(Append(o, s))
<1>. DEFINE n == Len(o)
            B == MaxBuffer
            b == Recent(o)
            long == Append(o, s)
            short == Append(b, s)
<1>0. n \in Nat /\ B \in Nat \ {0}
  BY GatewayAssumption
<1>1. /\ b \in Seq(Spans) /\ long \in Seq(Spans) /\ Len(long) = n + 1
      /\ \A k \in 1..(n + 1) : long[k] = IF k = n + 1 THEN s ELSE o[k]
  BY RecentOf
<1>2. /\ short \in Seq(Spans) /\ Len(short) = Len(b) + 1
      /\ \A k \in 1..(Len(b) + 1) : short[k] = IF k = Len(b) + 1 THEN s ELSE b[k]
  BY <1>1
<1>3. CASE n <= B
  <2>1. b = o
    BY <1>0, <1>3, RecentOf
  <2>. QED
    BY <2>1
<1>4. CASE n > B
  <2>1. Len(b) = B /\ \A i \in 1..B : b[i] = o[i + (n - B)]
    BY <1>4, RecentOf
  <2>. HIDE DEF long, short, b
  <2>2. /\ Recent(short) \in Seq(Spans) /\ Len(Recent(short)) = B
        /\ \A i \in 1..B : Recent(short)[i] = short[i + ((B + 1) - B)]
    BY <1>0, <1>2, <2>1, RecentOf
  <2>3. /\ Recent(long) \in Seq(Spans) /\ Len(Recent(long)) = B
        /\ \A i \in 1..B : Recent(long)[i] = long[i + ((n + 1) - B)]
    <3>1. Len(long) > B
      BY <1>0, <1>1, <1>4
    <3>2. /\ Recent(long) \in Seq(Spans) /\ Len(Recent(long)) = B
          /\ \A i \in 1..B : Recent(long)[i] = long[i + (Len(long) - B)]
      BY <1>1, <3>1, RecentOf
    <3>. QED
      BY <1>1, <3>2
  <2>4. ASSUME NEW i \in 1..B
        PROVE  short[i + ((B + 1) - B)] = long[i + ((n + 1) - B)]
    <3>1. /\ i + ((B + 1) - B) = i + 1 /\ i + ((n + 1) - B) = (i + 1) + (n - B)
          /\ i + 1 \in 1..(B + 1) /\ (i + 1) + (n - B) \in 1..(n + 1)
      BY <1>0, <1>4
    <3>2. CASE i = B
      <4>1. short[i + 1] = s
        BY <1>2, <2>1, <3>1, <3>2
      <4>2. (i + 1) + (n - B) = n + 1
        BY <1>0, <3>2
      <4>. QED
        BY <1>1, <3>1, <4>1, <4>2
    <3>3. CASE i # B
      <4>1. i + 1 \in 1..B /\ (i + 1) + (n - B) # n + 1
        BY <1>0, <3>3
      <4>2. short[i + 1] = b[i + 1]
        BY <1>0, <1>2, <2>1, <3>1, <4>1
      <4>3. b[i + 1] = o[(i + 1) + (n - B)]
        BY <2>1, <4>1
      <4>4. long[(i + 1) + (n - B)] = o[(i + 1) + (n - B)]
        BY <1>1, <3>1, <4>1
      <4>. QED
        BY <3>1, <4>2, <4>3, <4>4
    <3>. QED
      BY <3>2, <3>3
  <2>5. \A i \in 1..B : Recent(short)[i] = Recent(long)[i]
    BY <2>2, <2>3, <2>4
  <2>6. Recent(short) = Recent(long)
    BY <1>0, <2>2, <2>3, <2>5
  <2>. QED
    BY <2>6 DEF long, short, b
<1>. QED
  BY <1>0, <1>3, <1>4

LEMMA RestAfterHead ==
    ASSUME NEW s \in Seq(Spans)
    PROVE  ToSet(s) \subseteq (IF s = <<>> THEN {} ELSE {Head(s)}) \cup ToSet(SubSeq(s, 2, Len(s)))
<1>. DEFINE n == Len(s)
            t == SubSeq(s, 2, n)
<1>1. n \in Nat /\ DOMAIN s = 1..n
  OBVIOUS
<1>2. CASE n = 0
  BY <1>1, <1>2 DEF ToSet
<1>3. CASE n # 0
  <2>1. s # <<>> /\ Head(s) = s[1]
    BY <1>1, <1>3
  <2>2. DOMAIN t = 1..(n - 1) /\ \A k \in 1..(n - 1) : t[k] = s[k + 1]
    BY <1>1, <1>3
  <2>. HIDE DEF t, n
  <2>3. ASSUME NEW k \in 1..n PROVE s[k] \in {s[1]} \cup ToSet(t)
    <3>1. CASE k = 1
      BY <3>1
    <3>2. CASE k # 1
      <4>1. k - 1 \in 1..(n - 1) /\ (k - 1) + 1 = k
        BY <1>1, <3>2
      <4>2. t[k - 1] = s[k] /\ k - 1 \in DOMAIN t
        BY <2>2, <4>1
      <4>. QED
        BY <4>2 DEF ToSet
    <3>. QED
      BY <3>1, <3>2
  <2>. QED
    BY <1>1, <2>1, <2>3 DEF ToSet, t, n
<1>. QED
  BY <1>2, <1>3

-----------------------------------------------------------------------------
(* What the timeline rests on: connections join in the order of their        *)
(* numbers, a client that is there stays in the list, only the dead are      *)
(* removed, a connection restores by its own sends, and the buffer holds the *)
(* latest of the spans it owes.                                              *)

InOrder        == \A c, d \in Conns : place[d] # "new" /\ c < d => place[c] # "new"
LiveAreMembers == \A c \in Conns : place[c] \in Present /\ c \notin dead => c \in members
FailedAreDead  == \A x \in Senders : send[x].failed \subseteq dead
RestoresSend   == \A c \in Conns : send[c] # Idle => place[c] \in {"plan", "log", "replay"}
NothingLeft    == \A c \in Conns : place[c] # "replay" => rest[c] = <<>>
BufferIsRecent == buffer = Recent(owed)

Upkeep == /\ InOrder /\ LiveAreMembers /\ FailedAreDead
          /\ RestoresSend /\ NothingLeft /\ BufferIsRecent

LEMMA RecentOfNothing == Recent(<<>>) = <<>>
<1>1. ASSUME NEW t \in Seq(Spans), Len(t) = 0 PROVE Recent(t) = t
  <2>1. Len(t) <= MaxBuffer
    BY <1>1, GatewayAssumption
  <2>. QED
    BY <2>1, RecentOf
<1>2. <<>> \in Seq(Spans) /\ Len(<<>>) = 0
  OBVIOUS
<1>. QED
  BY <1>1, <1>2, Zenon

LEMMA UpkeepInit == Init => Upkeep
<1>. SUFFICES ASSUME Init PROVE Upkeep
  OBVIOUS
<1>1. Idle.failed = {}
  BY DEF Idle
<1>2. Recent(<<>>) = <<>>
  BY RecentOfNothing, Zenon
<1>3. /\ \A c \in Conns : place[c] = "new" /\ c \in Senders
      /\ \A x \in Senders : send[x] = Idle
      /\ \A c \in Conns : rest[c] = <<>>
  BY DEF Init, Senders
<1>6. InOrder /\ LiveAreMembers /\ RestoresSend
  BY <1>3 DEF InOrder, LiveAreMembers, RestoresSend, Present, Restoring
<1>7. NothingLeft
  BY <1>3, Zenon DEF NothingLeft
<1>4. FailedAreDead
  BY <1>1 DEF Init, FailedAreDead
<1>5. BufferIsRecent
  BY <1>2 DEF Init, BufferIsRecent
<1>. QED
  BY <1>4, <1>5, <1>6, <1>7 DEF Upkeep

LEMMA BufferedIsRecent ==
    ASSUME TypeInv, BufferIsRecent, Cleared \/ (\E s \in Spans : Buffered(s)) \/ UNCHANGED <<buffer, owed>>
    PROVE  BufferIsRecent'
<1>1. CASE Cleared
  <2>1. Recent(<<>>) = <<>>
    BY RecentOfNothing, Zenon
  <2>. QED
    BY <1>1, <2>1 DEF Cleared, BufferIsRecent
<1>2. ASSUME NEW s \in Spans, Buffered(s) PROVE BufferIsRecent'
  <2>1. owed \in Seq(Spans) /\ buffer = Recent(owed)
    BY DEF TypeInv, TypeOK, BufferIsRecent
  <2>2. buffer' = Recent(Append(Recent(owed), s)) /\ owed' = Append(owed, s)
    BY <1>2, <2>1 DEF Buffered
  <2>3. buffer' = Recent(owed')
    BY <2>1, <2>2, RecentAgain
  <2>. QED
    BY <2>3 DEF BufferIsRecent
<1>3. CASE UNCHANGED <<buffer, owed>>
  BY <1>3 DEF BufferIsRecent
<1>. QED
  BY <1>1, <1>2, <1>3

\* Cutting a send off leaves the connections it failed for, and starts none.
LEMMA CutOffLeaves ==
    ASSUME NEW sends \in [Senders -> SendRecords], NEW away, NEW x \in Senders
    PROVE  /\ CutOff(away, sends)[x].failed = sends[x].failed
           /\ sends[x] = Idle => CutOff(away, sends)[x] = Idle
<1>1. sends[x] \in SendRecords
  OBVIOUS
<1>2. CutOff(away, sends)[x] \in {sends[x], [sends[x] EXCEPT !.cut = TRUE]}
  BY DEF CutOff
<1>3. [sends[x] EXCEPT !.cut = TRUE].failed = sends[x].failed
  BY <1>1 DEF SendRecords
<1>4. sends[x] = Idle => CutOff(away, sends)[x] = Idle
  BY DEF CutOff
<1>. QED
  BY <1>2, <1>3, <1>4

\* A connection moves on, between its restores.
LEMMA OwnStepUpkeep ==
    ASSUME TypeInv, TypeInv', Upkeep, NEW c \in Conns, NEW p \in Places,
           place[c] \notin {"plan", "log", "replay"}, place' = [place EXCEPT ![c] = p],
           p # "new" \/ place[c] = "new", p # "replay",
           place[c] = "new" => \A d \in Conns : d < c => place[d] # "new",
           rest' = rest, dead \subseteq dead',
           \A d \in members : d \in dead' \/ d \in members',
           p \in Present /\ c \notin dead' => c \in members',
           \A x \in Senders : send'[x].failed \subseteq send[x].failed,
           \A x \in Senders : send[x] = Idle =>
               send'[x] = Idle \/ (x = c /\ p \in {"plan", "log"}),
           Cleared \/ UNCHANGED <<buffer, owed>>
    PROVE  Upkeep'
<1>1. /\ place'[c] = p /\ \A d \in Conns \ {c} : place'[d] = place[d]
      /\ place \in [Conns -> Places] /\ Conns \subseteq Senders /\ Conns \subseteq Nat
  BY GatewayAssumption DEF TypeInv, TypeOK, Senders
<1>2. InOrder'
  <2>. SUFFICES ASSUME NEW d \in Conns, NEW e \in Conns, place'[e] # "new", d < e
                PROVE  place'[d] # "new"
    BY DEF InOrder
  <2>1. CASE e = c
    <3>1. d # c
      BY <1>1, <2>1
    <3>2. place[d] # "new"
      BY <2>1 DEF Upkeep, InOrder
    <3>. QED
      BY <1>1, <3>1, <3>2
  <2>2. CASE e # c
    <3>1. place[e] # "new"
      BY <1>1, <2>2
    <3>2. place[d] # "new"
      BY <3>1 DEF Upkeep, InOrder
    <3>. QED
      BY <1>1, <3>2
  <2>. QED
    BY <2>1, <2>2
<1>3. LiveAreMembers'
  BY <1>1 DEF Upkeep, LiveAreMembers
<1>4. FailedAreDead'
  BY DEF Upkeep, FailedAreDead
<1>5. RestoresSend'
  BY <1>1 DEF Upkeep, RestoresSend
<1>6. NothingLeft'
  BY <1>1 DEF Upkeep, NothingLeft
<1>7. BufferIsRecent'
  BY BufferedIsRecent DEF Upkeep
<1>. QED
  BY <1>2, <1>3, <1>4, <1>5, <1>6, <1>7 DEF Upkeep

LEMMA ConnectionUpkeep ==
    ASSUME TypeInv, TypeInv', Upkeep, NEW c \in Conns,
           \/ Connect(c) \/ SendInfo(c) \/ Bail(c) \/ Notice(c) \/ GraceEnds(c)
    PROVE  Upkeep'
<1>0. /\ send \in [Senders -> SendRecords] /\ c \in Senders
      /\ \A m : FirstOf(m).failed = {} /\ \A x \in Senders : send[x].failed \in SUBSET Conns
  <2>1. \A m : FirstOf(m).failed = {}
    BY DEF FirstOf, Idle
  <2>. QED
    BY <2>1 DEF TypeInv, TypeOK, SendRecords, Senders
<1>1. CASE Connect(c)
  <2>1. /\ place[c] = "new" /\ \A d \in Conns : d < c => place[d] # "new"
        /\ members' = members \cup {c} /\ UNCHANGED <<rest, dead, buffer, owed>>
    BY <1>1 DEF Connect
  <2>2. \E p \in {"plan", "info"} :
           /\ place' = [place EXCEPT ![c] = p]
           /\ send' = send \/ (p = "plan" /\ send' = [send EXCEPT ![c] = FirstOf(members \cup {c})])
    BY <1>1 DEF Connect
  <2>3. PICK p \in {"plan", "info"} :
           /\ place' = [place EXCEPT ![c] = p]
           /\ send' = send \/ (p = "plan" /\ send' = [send EXCEPT ![c] = FirstOf(members \cup {c})])
    BY <2>2
  <2>4. /\ p \in Places /\ p # "new" /\ p # "replay"
    BY DEF Places, Restoring
  <2>5. \A x \in Senders : send'[x].failed \subseteq send[x].failed
    BY <1>0, <2>3
  <2>6. \A x \in Senders : send[x] = Idle => send'[x] = Idle \/ (x = c /\ p \in {"plan", "log"})
    BY <1>0, <2>3
  <2>. QED
    BY <2>1, <2>3, <2>4, <2>5, <2>6, OwnStepUpkeep
<1>2. CASE SendInfo(c)
  <2>1. place[c] = "info" /\ c \notin dead /\ UNCHANGED <<rest, dead, buffer, owed, members>>
    BY <1>2 DEF SendInfo
  <2>2. PICK p \in {"log", "loop"} :
           /\ place' = [place EXCEPT ![c] = p]
           /\ send' = send \/ (p = "log" /\ send' = [send EXCEPT ![c] = FirstOf(members)])
    BY <1>2 DEF SendInfo
  <2>3. p \in Places /\ p # "new" /\ p # "replay"
    BY DEF Places, Restoring
  <2>4. c \in members
    BY <2>1 DEF Upkeep, LiveAreMembers, Present, Restoring
  <2>5. \A x \in Senders : send'[x].failed \subseteq send[x].failed
    BY <1>0, <2>2
  <2>6. \A x \in Senders : send[x] = Idle => send'[x] = Idle \/ (x = c /\ p \in {"plan", "log"})
    BY <1>0, <2>2
  <2>. QED
    BY <2>1, <2>2, <2>3, <2>4, <2>5, <2>6, OwnStepUpkeep
<1>3. CASE Bail(c) \/ Notice(c)
  <2>1. /\ place[c] \in {"info", "loop"} /\ c \in dead /\ UNCHANGED <<rest, dead>>
        /\ members' = members \ {c} /\ send' = CutOff({c}, send)
        /\ Cleared \/ UNCHANGED <<buffer, owed>>
    BY <1>3 DEF Bail, Notice, Disconnect
  <2>2. PICK p \in {"grace", "done"} : place' = [place EXCEPT ![c] = p]
    BY <1>3 DEF Bail, Notice
  <2>3. p \in Places /\ p # "new" /\ p # "replay" /\ p \notin Present
    BY DEF Places, Present, Restoring
  <2>4. \A x \in Senders : send'[x].failed \subseteq send[x].failed
    BY <1>0, <2>1, CutOffLeaves
  <2>5. \A x \in Senders : send[x] = Idle => send'[x] = Idle
    BY <1>0, <2>1, CutOffLeaves
  <2>. QED
    BY <2>1, <2>2, <2>3, <2>4, <2>5, OwnStepUpkeep
<1>4. CASE GraceEnds(c)
  <2>1. /\ place[c] = "grace" /\ place' = [place EXCEPT ![c] = "done"] /\ Cleared
        /\ UNCHANGED <<dead, members, send, rest>>
    BY <1>4 DEF GraceEnds
  <2>2. "done" \in Places /\ "done" \notin Present
    BY DEF Places, Present, Restoring
  <2>. QED
    BY <2>1, <2>2, OwnStepUpkeep
<1>. QED
  BY <1>1, <1>2, <1>3, <1>4

\* What a restore goes on to.
LEMMA ContinueUpkeep ==
    ASSUME TypeInv, Upkeep, NEW c \in Conns, place[c] \in {"plan", "log", "replay"},
           NEW m, NEW sends \in [Senders -> SendRecords], sends[c] = Idle,
           Continue(c, m, sends)
    PROVE  /\ \A d \in Conns \ {c} : place'[d] = place[d] /\ rest'[d] = rest[d]
           /\ place'[c] \in {"info", "replay", "loop"}
           /\ place'[c] # "replay" => rest'[c] = <<>> /\ send' = sends
           /\ place'[c] = "replay" => place[c] # "plan" /\ m # {}
                                       /\ send' = [sends EXCEPT ![c] = FirstOf(m)]
           /\ place[c] # "plan" => place'[c] # "info"
           /\ (place'[c] = "loop" /\ m # {}) =>
                 IF place[c] = "log" THEN buffer = <<>> ELSE SubSeq(rest[c], 2, Len(rest[c])) = <<>>
           /\ place'[c] = "replay" =>
                 rest'[c] = IF place[c] = "log" THEN buffer ELSE SubSeq(rest[c], 2, Len(rest[c]))
<1>. DEFINE todo == IF place[c] = "log" THEN buffer ELSE SubSeq(rest[c], 2, Len(rest[c]))
            more == place[c] # "plan" /\ todo # <<>> /\ m # {}
<1>1. /\ place' = [place EXCEPT ![c] = CASE place[c] = "plan" -> "info"
                                         [] more -> "replay"
                                         [] OTHER -> "loop"]
      /\ rest' = [rest EXCEPT ![c] = IF more THEN todo ELSE <<>>]
      /\ send' = IF more THEN [sends EXCEPT ![c] = FirstOf(m)] ELSE sends
  BY DEF Continue
<1>2. place \in [Conns -> Places] /\ rest \in [Conns -> Seq(Spans)]
  BY DEF TypeInv, TypeOK
<1>3. \A d \in Conns \ {c} : place'[d] = place[d] /\ rest'[d] = rest[d]
  <2>. HIDE DEF more, todo
  <2>1. \E p : place' = [place EXCEPT ![c] = p]
    BY <1>1
  <2>. QED
    BY <1>1, <1>2, <2>1
<1>4. CASE more
  <2>1. place[c] # "plan" /\ m # {}
    BY <1>4
  <2>. HIDE DEF todo
  <2>2. place' = [place EXCEPT ![c] = "replay"] /\ rest' = [rest EXCEPT ![c] = todo]
    BY <1>1, <1>4
  <2>3. place'[c] = "replay" /\ rest'[c] = todo /\ send' = [sends EXCEPT ![c] = FirstOf(m)]
    BY <1>1, <1>2, <1>4, <2>2
  <2>. QED
    BY <1>3, <2>1, <2>3 DEF todo
<1>5. CASE ~more
  <2>1. place[c] # "plan" /\ m # {} => todo = <<>>
    BY <1>5
  <2>. HIDE DEF todo
  <2>2. rest' = [rest EXCEPT ![c] = <<>>] /\ send' = sends
    BY <1>1, <1>5
  <2>3. place' = [place EXCEPT ![c] = IF place[c] = "plan" THEN "info" ELSE "loop"]
    <3>. HIDE DEF more
    <3>. QED
      BY <1>1, <1>5
  <2>4. /\ rest'[c] = <<>>
        /\ place'[c] = IF place[c] = "plan" THEN "info" ELSE "loop"
    BY <1>2, <2>2, <2>3
  <2>. QED
    BY <1>3, <2>1, <2>2, <2>4 DEF todo
<1>. QED
  BY <1>4, <1>5

LEMMA SentUpkeep ==
    ASSUME TypeInv, TypeInv', Upkeep, NEW x \in Senders, Sent(x)
    PROVE  Upkeep'
<1>. DEFINE s == send[x]
            failed == s.failed \cup ({s.to} \cap dead)
<1>0. /\ send \in [Senders -> SendRecords] /\ Conns \subseteq Senders
      /\ failed \subseteq dead /\ s # Idle /\ dead' = dead
  BY DEF TypeInv, TypeOK, SendRecords, Senders, Sent, Upkeep, FailedAreDead
<1>1. CASE ~s.cut /\ s.pos + 1 < Cardinality(members)
  <2>. DEFINE next == [to |-> Nth(members, s.pos + 1), pos |-> s.pos + 1,
                       cut |-> FALSE, failed |-> failed]
  <2>1. /\ send' = [send EXCEPT ![x] = next] /\ next.failed = failed
        /\ UNCHANGED <<place, members, rest, buffer, owed>>
    BY <1>1 DEF Sent
  <2>. HIDE DEF next, failed
  <2>2. /\ send'[x] = next /\ \A y \in Senders \ {x} : send'[y] = send[y]
    BY <1>0, <2>1
  <2>3. FailedAreDead'
    BY <1>0, <2>1, <2>2 DEF Upkeep, FailedAreDead
  <2>4. RestoresSend'
    BY <1>0, <2>1, <2>2 DEF Upkeep, RestoresSend
  <2>. QED
    BY <1>0, <2>1, <2>3, <2>4
    DEF Upkeep, InOrder, LiveAreMembers, NothingLeft, BufferIsRecent
<1>2. CASE EndOfList(x, failed)
  <2>. DEFINE others == [send EXCEPT ![x] = Idle]
              sends == CutOff(failed, others)
  <2>1. /\ others \in [Senders -> SendRecords] /\ others[x] = Idle
        /\ \A y \in Senders \ {x} : others[y] = send[y]
    BY <1>0, IdleIsOne
  <2>2. sends \in [Senders -> SendRecords] /\ sends[x] = Idle
    BY <2>1, CutOffAreOnes, CutOffLeaves
  <2>3. /\ \A y \in Senders : sends[y].failed \subseteq dead
        /\ \A y \in Senders : send[y] = Idle => sends[y] = Idle
    <3>1. Idle.failed = {}
      BY DEF Idle
    <3>2. \A y \in Senders : others[y].failed \subseteq dead
      BY <2>1, <3>1 DEF Upkeep, FailedAreDead
    <3>. QED
      BY <2>1, <3>2, CutOffLeaves
  <2>4. members' = members \ failed
    BY <1>2 DEF EndOfList, Disconnect
  <2>5. CASE x \in Conns
    <3>1. Continue(x, members \ failed, sends) /\ UNCHANGED <<buffer, owed>>
      BY <1>2, <2>5 DEF EndOfList
    <3>2. place[x] \in {"plan", "log", "replay"}
      BY <1>0, <2>5 DEF Upkeep, RestoresSend
    <3>. HIDE DEF sends, others, failed, s
    <3>. DEFINE m == members \ failed
    <3>3. Continue(x, m, sends)
      BY <3>1
    <3>. HIDE DEF m
    <3>4. /\ \A d \in Conns \ {x} : place'[d] = place[d] /\ rest'[d] = rest[d]
          /\ place'[x] \in {"info", "replay", "loop"}
          /\ place'[x] # "replay" => rest'[x] = <<>> /\ send' = sends
          /\ place'[x] = "replay" => send' = [sends EXCEPT ![x] = FirstOf(m)]
      BY <2>2, <2>5, <3>2, <3>3, ContinueUpkeep
    <3>5. InOrder'
      <4>1. \A d \in Conns : place'[d] = "new" <=> place[d] = "new"
        BY <3>2, <3>4
      <4>. QED
        BY <4>1 DEF Upkeep, InOrder
    <3>6. LiveAreMembers'
      <4>1. place[x] \in Present /\ place'[x] \in Present
        BY <3>2, <3>4 DEF Present, Restoring
      <4>. QED
        BY <1>0, <2>4, <3>4, <4>1 DEF Upkeep, LiveAreMembers
    <3>7. FailedAreDead' /\ RestoresSend'
      <4>1. FirstOf(m).failed = {}
        BY DEF FirstOf, Idle
      <4>2. \A y \in Senders \ {x} : send'[y] = sends[y]
        BY <2>2, <3>4
      <4>3. send'[x].failed \subseteq dead /\ (send'[x] # Idle => place'[x] = "replay")
        BY <2>2, <2>3, <3>4, <4>1
      <4>. QED
        BY <1>0, <2>3, <3>4, <4>2, <4>3 DEF Upkeep, FailedAreDead, RestoresSend
    <3>8. NothingLeft'
      BY <3>4 DEF Upkeep, NothingLeft
    <3>9. BufferIsRecent'
      BY <3>1 DEF Upkeep, BufferIsRecent
    <3>. QED
      BY <3>5, <3>6, <3>7, <3>8, <3>9 DEF Upkeep
  <2>6. CASE x \notin Conns
    <3>1. x \in Spans /\ Buffered(x) /\ send' = sends /\ UNCHANGED <<place, rest>>
      BY <1>2, <2>6 DEF EndOfList, Senders
    <3>2. BufferIsRecent'
      BY <3>1, BufferedIsRecent DEF Upkeep
    <3>. HIDE DEF sends, others, failed, s
    <3>3. LiveAreMembers'
      BY <1>0, <2>4, <3>1 DEF Upkeep, LiveAreMembers
    <3>4. FailedAreDead' /\ RestoresSend'
      BY <1>0, <2>3, <3>1 DEF Upkeep, FailedAreDead, RestoresSend
    <3>. QED
      BY <3>1, <3>2, <3>3, <3>4 DEF Upkeep, InOrder, NothingLeft
  <2>. QED
    BY <2>5, <2>6
<1>. QED
  BY <1>1, <1>2 DEF Sent

LEMMA UpkeepNext == TypeInv /\ Upkeep /\ [Next]_vars => Upkeep'
<1>. SUFFICES ASSUME TypeInv, Upkeep, [Next]_vars PROVE Upkeep'
  OBVIOUS
<1>0. TypeInv'
  BY TypeNext
<1>1. ASSUME UNCHANGED <<place, send, rest, members, buffer, owed>>, dead \subseteq dead'
      PROVE  Upkeep'
  BY <1>1 DEF Upkeep, InOrder, LiveAreMembers, FailedAreDead, RestoresSend, NothingLeft,
     BufferIsRecent
<1>2. ASSUME NEW c \in Conns, Drop(c) \/ StorePlan(c) \/ \E e \in Execs : Run(c, e) PROVE Upkeep'
  <2>1. UNCHANGED <<place, send, rest, members, buffer, owed>> /\ dead \subseteq dead'
    BY <1>2 DEF Drop, StorePlan, Run, delivery
  <2>. QED
    BY <1>1, <2>1
<1>3. ASSUME NEW e \in Execs, EndExec(e) PROVE Upkeep'
  <2>1. UNCHANGED <<place, send, rest, members, buffer, owed>> /\ dead \subseteq dead'
    BY <1>3 DEF EndExec, delivery
  <2>. QED
    BY <1>1, <2>1
<1>4. CASE UNCHANGED vars
  <2>1. UNCHANGED <<place, send, rest, members, buffer, owed>> /\ dead \subseteq dead'
    BY <1>4 DEF vars, session, delivery
  <2>. QED
    BY <1>1, <2>1
<1>5. ASSUME NEW s \in Spans, Emit(s) PROVE Upkeep'
  <2>1. /\ UNCHANGED <<place, dead, members, rest>> /\ s \notin Conns /\ s \in Senders
        /\ send \in [Senders -> SendRecords]
    BY <1>5, GatewayAssumption DEF Emit, session, Senders, TypeInv, TypeOK, SendRecords
  <2>2. BufferIsRecent'
    BY <1>5, BufferedIsRecent DEF Emit, Upkeep
  <2>3. send' = send \/ send' = [send EXCEPT ![s] = FirstOf(members)]
    BY <1>5 DEF Emit
  <2>4. FirstOf(members).failed = {}
    BY DEF FirstOf, Idle
  <2>5. /\ \A y \in Senders \ {s} : send'[y] = send[y]
        /\ Conns \subseteq Senders \ {s}
        /\ send'[s] = send[s] \/ send'[s].failed = {}
    BY <2>1, <2>3, <2>4 DEF Senders
  <2>6. FailedAreDead'
    BY <2>1, <2>5 DEF Upkeep, FailedAreDead
  <2>7. RestoresSend'
    BY <2>1, <2>5 DEF Upkeep, RestoresSend
  <2>. QED
    BY <2>1, <2>2, <2>6, <2>7 DEF Upkeep, InOrder, LiveAreMembers, NothingLeft
<1>. QED
  BY <1>0, <1>2, <1>3, <1>4, <1>5, ConnectionUpkeep, SentUpkeep DEF Next

-----------------------------------------------------------------------------
(* How far a send has come: it stands at a connection of the list, and who   *)
(* is before that one has got what it carries, or is dead.                   *)

ReachedAhead(m, s, away, got, spans) ==
    /\ ~s.cut /\ s.to \in m /\ Before(m, s.to) = s.pos
    /\ \A d \in m : d < s.to => d \in away \/ spans \subseteq got[d]

Reaches(x) == ReachedAhead(members, send[x], dead, received, Carried(x))

\* It need not have, once what it carries has met a removal.
SendsReach == \A x \in Senders : send[x] # Idle /\ ~(Carried(x) \subseteq jolted) => Reaches(x)

Timeline(c) ==
    /\ place[c] = "replay" => ToSet(buffer) \subseteq received[c] \cup jolted \cup ToSet(rest[c])
    /\ place[c] = "loop" => ToSet(buffer) \subseteq received[c] \cup jolted

Timelines == \A c \in Conns : c \notin dead => Timeline(c)

\* The dead stay dead, the living lose nothing, and what was jolted stays so.
Progress ==
    /\ dead \subseteq dead' /\ jolted \subseteq jolted'
    /\ \A d \in Conns : d \in dead' \/ received[d] \subseteq received'[d]

LEMMA ReachedStays ==
    ASSUME NEW m, NEW s, NEW away, NEW got, NEW spans, ReachedAhead(m, s, away, got, spans),
           NEW later, NEW more, away \subseteq later,
           \A d \in m : d \in later \/ got[d] \subseteq more[d]
    PROVE  ReachedAhead(m, s, later, more, spans)
BY DEF ReachedAhead

LEMMA ReachedAppended ==
    ASSUME NEW m \in SUBSET Nat, NEW s, NEW away, NEW got, NEW spans,
           ReachedAhead(m, s, away, got, spans),
           NEW c \in Nat, \A d \in m : d < c
    PROVE  ReachedAhead(m \cup {c}, s, away, got, spans)
<1>1. s.to \in m /\ Before(m, s.to) = s.pos /\ s.to < c /\ s.to \in Nat
  BY DEF ReachedAhead
<1>2. Before(m \cup {c}, s.to) = s.pos
  BY <1>1, AppendedBehind
<1>3. ~(c < s.to)
  BY <1>1
<1>. QED
  BY <1>1, <1>2, <1>3 DEF ReachedAhead

LEMMA ReachedCut ==
    ASSUME NEW m \in SUBSET Nat, IsFiniteSet(m), NEW s, NEW away, NEW got, NEW spans,
           ReachedAhead(m, s, away, got, spans),
           NEW out, \A d \in out \cap m : ~(Before(m, d) <= s.pos)
    PROVE  ReachedAhead(m \ out, s, away, got, spans)
<1>1. s.to \in m /\ Before(m, s.to) = s.pos
  BY DEF ReachedAhead
<1>2. ASSUME NEW c \in m, \A d \in out \cap m : ~(Before(m, d) <= Before(m, c))
      PROVE  c \in m \ out /\ Before(m \ out, c) = Before(m, c)
  BY <1>2, RemovedBehind
<1>3. \A d \in out \cap m : ~(Before(m, d) <= Before(m, s.to))
  BY <1>1
<1>4. s.to \in m \ out /\ Before(m \ out, s.to) = Before(m, s.to)
  BY <1>1, <1>2, <1>3, Zenon
<1>. QED
  BY <1>1, <1>4 DEF ReachedAhead

LEMMA ReachedFirst ==
    ASSUME NEW m \in SUBSET Conns, IsFiniteSet(m), m # {}, NEW away, NEW got, NEW spans
    PROVE  ReachedAhead(m, FirstOf(m), away, got, spans)
<1>1. m \in SUBSET Nat
  BY GatewayAssumption
<1>2. FirstOf(m).to = Nth(m, 0) /\ FirstOf(m).pos = 0 /\ ~FirstOf(m).cut
  BY FirstIsOne
<1>. QED
  BY <1>1, <1>2, FirstInList DEF ReachedAhead

LEMMA ReachedNext ==
    ASSUME NEW m \in SUBSET Nat, IsFiniteSet(m), NEW s, NEW away, NEW got, NEW spans,
           ReachedAhead(m, s, away, got, spans), s.to \in away \/ spans \subseteq got[s.to],
           s.pos + 1 < Cardinality(m),
           NEW t, t.to = Nth(m, s.pos + 1), t.pos = s.pos + 1, ~t.cut
    PROVE  ReachedAhead(m, t, away, got, spans)
<1>1. s.to \in m /\ Before(m, s.to) = s.pos
  BY DEF ReachedAhead
<1>2. ASSUME NEW c \in m, Before(m, c) + 1 < Cardinality(m), NEW n, n = Nth(m, Before(m, c) + 1)
      PROVE  /\ n \in m /\ Before(m, n) = Before(m, c) + 1
             /\ \A d \in m : d < n => d < c \/ d = c
  BY <1>2, NextInList
<1>3. /\ t.to \in m /\ Before(m, t.to) = t.pos
      /\ \A d \in m : d < t.to => d < s.to \/ d = s.to
  BY <1>1, <1>2
<1>. QED
  BY <1>3 DEF ReachedAhead

\* At the end of the list, everybody has got it.
LEMMA ReachedAll ==
    ASSUME NEW m \in SUBSET Nat, IsFiniteSet(m), NEW s, NEW away, NEW got, NEW spans,
           ReachedAhead(m, s, away, got, spans), s.to \in away \/ spans \subseteq got[s.to],
           ~(s.pos + 1 < Cardinality(m))
    PROVE  \A d \in m : d \in away \/ spans \subseteq got[d]
<1>1. s.to \in m /\ Before(m, s.to) = s.pos
  BY DEF ReachedAhead
<1>2. ASSUME NEW c \in m, ~(Before(m, c) + 1 < Cardinality(m))
      PROVE  \A d \in m : d < c \/ d = c
  BY <1>2, LastInList
<1>3. \A d \in m : d < s.to \/ d = s.to
  BY <1>1, <1>2
<1>. QED
  BY <1>3 DEF ReachedAhead

-----------------------------------------------------------------------------
(* Every step of the session keeps the sends on their way.                   *)

Timely == SendsReach /\ Timelines

LEMMA CarriedStays ==
    ASSUME NEW x \in Senders, x \in Conns => rest'[x] = rest[x]
    PROVE  Carried(x)' = Carried(x)
<1>1. x \notin Spans => rest'[x] = rest[x]
  BY DEF Senders
<1>. QED
  BY <1>1 DEF Carried

\* Two lists at once: the sends that nothing happened to, and the new one.
LEMMA SendsReachOn ==
    ASSUME TypeInv, TypeInv', SendsReach, Progress, NEW x,
           \A y \in Senders \ {x} : send'[y] = send[y] /\ (y \in Conns => rest'[y] = rest[y]),
           members' = members,
           x \in Senders /\ send'[x] # Idle /\ ~(Carried(x)' \subseteq jolted') => Reaches(x)'
    PROVE  SendsReach'
<1>. SUFFICES ASSUME NEW y \in Senders, y # x, send'[y] # Idle, ~(Carried(y)' \subseteq jolted')
              PROVE  Reaches(y)'
  BY DEF SendsReach
<1>1. Carried(y)' = Carried(y)
  BY CarriedStays
<1>2. send'[y] = send[y] /\ members' = members /\ jolted \subseteq jolted'
  BY DEF Progress
<1>3. ReachedAhead(members, send[y], dead, received, Carried(y))
  BY <1>1, <1>2 DEF SendsReach, Reaches
<1>4. dead \subseteq dead' /\ \A d \in members : d \in dead' \/ received[d] \subseteq received'[d]
  BY MembersAreNumbers DEF Progress
<1>5. ReachedAhead(members, send[y], dead', received', Carried(y))
  BY <1>3, <1>4, ReachedStays
<1>. QED
  BY <1>1, <1>2, <1>5 DEF Reaches

\* Some connections are removed while sends are on their way.
LEMMA SendsReachCut ==
    ASSUME TypeInv, TypeInv', SendsReach, Progress,
           NEW away, NEW sends \in [Senders -> SendRecords], NEW y \in Senders,
           sends[y] = send[y], y \in Conns => rest'[y] = rest[y],
           Disconnect(away, sends), send'[y] = CutOff(away, sends)[y],
           send'[y] # Idle, ~(Carried(y)' \subseteq jolted')
    PROVE  Reaches(y)'
<1>1. Carried(y)' = Carried(y)
  BY CarriedStays
<1>2. sends[y] # Idle
  BY DEF CutOff
<1>3. ~(Carried(y) \subseteq jolted)
  BY <1>1 DEF Progress
<1>4. ReachedAhead(members, send[y], dead, received, Carried(y))
  BY <1>2, <1>3 DEF SendsReach, Reaches
<1>5. y \notin Jolted(away, sends)
  BY <1>1 DEF Disconnect
<1>6. ~sends[y].cut
  BY <1>4 DEF ReachedAhead
<1>7. \A d \in away \cap members : ~(Before(members, d) <= send[y].pos)
  BY <1>2, <1>5, <1>6 DEF Jolted
<1>8. ReachedAhead(members \ away, send[y], dead, received, Carried(y))
  BY <1>4, <1>7, MembersAreNumbers, ReachedCut
<1>9. members' = members \ away
  BY DEF Disconnect
<1>10. send'[y] = send[y]
  BY <1>8 DEF ReachedAhead, CutOff
<1>11. dead \subseteq dead' /\ \A d \in members' : d \in dead' \/ received[d] \subseteq received'[d]
  BY <1>9, MembersAreNumbers DEF Progress
<1>12. ReachedAhead(members', send'[y], dead', received', Carried(y))
  BY <1>8, <1>9, <1>10, <1>11, ReachedStays
<1>. QED
  BY <1>1, <1>12 DEF Reaches

LEMMA TimelineStays ==
    ASSUME Timelines, Progress, NEW c \in Conns, c \notin dead',
           place'[c] = place[c], rest'[c] = rest[c],
           ToSet(buffer') \subseteq ToSet(buffer) \cup received'[c] \cup jolted'
    PROVE  Timeline(c)'
<1>1. Timeline(c) /\ received[c] \subseteq received'[c] /\ jolted \subseteq jolted'
  BY DEF Timelines, Progress
<1>. QED
  BY <1>1 DEF Timeline

LEMMA NothingToReplay ==
    ASSUME Cleared
    PROVE  Timelines'
<1>1. ToSet(<<>>) = {}
  BY DEF ToSet
<1>2. ToSet(buffer)' = {}
  BY <1>1 DEF Cleared
<1>. QED
  BY <1>2 DEF Timelines, Timeline

-----------------------------------------------------------------------------
(* The timeline, step by step.                                               *)

\* Nothing moves but clients that go away and executions.
LEMMA NothingSent ==
    ASSUME TypeInv, TypeInv', Timely, Progress, UNCHANGED <<place, members, send, rest>>,
           Cleared \/ buffer' = buffer
    PROVE  Timely'
<1>1. SendsReach'
  <2>1. ASSUME NEW y \in Senders, send'[y] # Idle, ~(Carried(y)' \subseteq jolted')
        PROVE  Reaches(y)'
    <3>1. Carried(y)' = Carried(y)
      BY CarriedStays
    <3>2. ReachedAhead(members, send[y], dead, received, Carried(y))
      BY <2>1, <3>1 DEF Timely, SendsReach, Reaches, Progress
    <3>3. dead \subseteq dead' /\ \A d \in members : d \in dead' \/ received[d] \subseteq received'[d]
      BY MembersAreNumbers DEF Progress
    <3>4. ReachedAhead(members, send[y], dead', received', Carried(y))
      BY <3>2, <3>3, ReachedStays
    <3>. QED
      BY <3>1, <3>4 DEF Reaches
  <2>. QED
    BY <2>1 DEF SendsReach
<1>2. CASE Cleared
  BY <1>1, <1>2, NothingToReplay DEF Timely
<1>3. CASE buffer' = buffer
  <2>1. \A c \in Conns : c \notin dead' => Timeline(c)'
    BY <1>3, TimelineStays DEF Timely
  <2>. QED
    BY <1>1, <2>1 DEF Timely, Timelines
<1>. QED
  BY <1>2, <1>3

\* A connection that joins stands behind all the others.
LEMMA JoinsLast ==
    ASSUME TypeInv, Upkeep, MembersPresent, NEW c \in Conns, place[c] = "new"
    PROVE  \A d \in members : d < c
<1>. SUFFICES ASSUME NEW d \in members PROVE d < c
  OBVIOUS
<1>1. place[d] # "new" /\ d \in Conns /\ d \in Nat /\ c \in Nat
  BY MembersAreNumbers, GatewayAssumption DEF MembersPresent, Present, Restoring
<1>2. ~(c < d)
  BY <1>1 DEF Upkeep, InOrder
<1>. QED
  BY <1>1, <1>2

LEMMA ConnectTimely ==
    ASSUME TypeInv, TypeInv', Upkeep, MembersPresent, Timely, NEW c \in Conns, Connect(c)
    PROVE  Timely'
<1>1. /\ place[c] = "new" /\ members' = members \cup {c} /\ c \in Senders
      /\ UNCHANGED <<dead, rest, buffer, received, jolted>>
  BY DEF Connect, Senders
<1>2. \E p \in {"plan", "info"} : place' = [place EXCEPT ![c] = p]
  BY DEF Connect
<1>3. \/ send' = send \/ send' = [send EXCEPT ![c] = FirstOf(members')]
  BY <1>1 DEF Connect
<1>4. /\ place \in [Conns -> Places] /\ send \in [Senders -> SendRecords]
      /\ members \in SUBSET Nat /\ c \in Nat
  BY MembersAreNumbers, GatewayAssumption DEF TypeInv, TypeOK, SendRecords
<1>5. members' \in SUBSET Conns /\ IsFiniteSet(members') /\ members' # {}
  BY <1>1 DEF TypeInv, TypeOK
<1>6. ASSUME NEW y \in Senders, send'[y] # Idle, ~(Carried(y)' \subseteq jolted')
      PROVE  Reaches(y)'
  <2>1. Carried(y)' = Carried(y)
    BY <1>1, CarriedStays
  <2>2. CASE send'[y] = send[y]
    <3>1. ReachedAhead(members, send[y], dead, received, Carried(y))
      BY <1>1, <1>6, <2>1, <2>2 DEF Timely, SendsReach, Reaches
    <3>2. \A d \in members : d < c
      BY <1>1, JoinsLast
    <3>3. ReachedAhead(members \cup {c}, send[y], dead, received, Carried(y))
      BY <1>4, <3>1, <3>2, ReachedAppended
    <3>. QED
      BY <1>1, <2>1, <2>2, <3>3 DEF Reaches
  <2>3. CASE send'[y] = FirstOf(members')
    BY <1>5, <2>3, ReachedFirst DEF Reaches
  <2>. QED
    BY <1>3, <1>4, <2>2, <2>3
<1>7. ASSUME NEW d \in Conns, d \notin dead' PROVE Timeline(d)'
  <2>1. CASE d = c
    BY <1>2, <1>4, <2>1 DEF Timeline
  <2>2. CASE d # c
    <3>1. place'[d] = place[d] /\ Progress
      BY <1>1, <1>2, <1>4, <2>2 DEF Progress
    <3>. QED
      BY <1>1, <1>7, <3>1, TimelineStays DEF Timely
  <2>. QED
    BY <2>1, <2>2
<1>. QED
  BY <1>6, <1>7 DEF Timely, SendsReach, Timelines

LEMMA SendInfoTimely ==
    ASSUME TypeInv, TypeInv', Upkeep, Timely, NEW c \in Conns, SendInfo(c)
    PROVE  Timely'
<1>1. /\ place[c] = "info" /\ c \notin dead /\ c \in Senders
      /\ UNCHANGED <<dead, members, rest, buffer, received, jolted>>
  BY DEF SendInfo, Senders
<1>2. members # {}
  BY <1>1 DEF Upkeep, LiveAreMembers, Present, Restoring
<1>3. place' = [place EXCEPT ![c] = "log"] /\ send' = [send EXCEPT ![c] = FirstOf(members)]
  BY <1>2 DEF SendInfo
<1>4. place \in [Conns -> Places] /\ send \in [Senders -> SendRecords] /\ Progress
  BY <1>1 DEF TypeInv, TypeOK, SendRecords, Progress
<1>5. SendsReach'
  <2>1. \A y \in Senders \ {c} : send'[y] = send[y] /\ rest'[y] = rest[y]
    BY <1>1, <1>3, <1>4
  <2>2. send'[c] = FirstOf(members')
    BY <1>1, <1>3, <1>4
  <2>3. Reaches(c)'
    <3>1. members' \in SUBSET Conns /\ IsFiniteSet(members') /\ members' # {}
      BY <1>1, <1>2 DEF TypeInv, TypeOK
    <3>. QED
      BY <2>2, <3>1, ReachedFirst DEF Reaches
  <2>. QED
    BY <1>1, <1>4, <2>1, <2>3, SendsReachOn DEF Timely
<1>6. ASSUME NEW d \in Conns, d \notin dead' PROVE Timeline(d)'
  <2>1. CASE d = c
    BY <1>3, <1>4, <2>1 DEF Timeline
  <2>2. CASE d # c
    <3>1. place'[d] = place[d]
      BY <1>3, <1>4, <2>2
    <3>. QED
      BY <1>1, <1>4, <1>6, <3>1, TimelineStays DEF Timely
  <2>. QED
    BY <2>1, <2>2
<1>. QED
  BY <1>5, <1>6 DEF Timely, Timelines

\* A connection leaves the list, by itself.
LEMMA LeaveTimely ==
    ASSUME TypeInv, TypeInv', Timely, NEW c \in Conns, Bail(c) \/ Notice(c)
    PROVE  Timely'
<1>1. /\ Disconnect({c}, send) /\ send' = CutOff({c}, send)
      /\ UNCHANGED <<dead, rest, received>> /\ (Cleared \/ buffer' = buffer)
      /\ \E p \in {"grace", "done"} : place' = [place EXCEPT ![c] = p]
  BY DEF Bail, Notice
<1>2. /\ place \in [Conns -> Places] /\ send \in [Senders -> SendRecords]
      /\ jolted \subseteq jolted'
  BY <1>1 DEF TypeInv, TypeOK, SendRecords, Disconnect
<1>3. Progress
  BY <1>1, <1>2 DEF Progress
<1>4. SendsReach'
  <2>1. ASSUME NEW y \in Senders, send'[y] # Idle, ~(Carried(y)' \subseteq jolted')
        PROVE  Reaches(y)'
    BY <1>1, <1>2, <1>3, <2>1, SendsReachCut DEF Timely
  <2>. QED
    BY <2>1 DEF SendsReach
<1>5. CASE Cleared
  BY <1>4, <1>5, NothingToReplay DEF Timely
<1>6. CASE buffer' = buffer
  <2>1. ASSUME NEW d \in Conns, d \notin dead' PROVE Timeline(d)'
    <3>1. CASE d = c
      BY <1>1, <1>2, <3>1 DEF Timeline
    <3>2. CASE d # c
      <4>1. place'[d] = place[d]
        BY <1>1, <1>2, <3>2
      <4>. QED
        BY <1>1, <1>3, <1>6, <2>1, <4>1, TimelineStays DEF Timely
    <3>. QED
      BY <3>1, <3>2
  <2>. QED
    BY <1>4, <2>1 DEF Timely, Timelines
<1>. QED
  BY <1>1, <1>5, <1>6

\* An event that is dropped finds nobody there who had to have it.
LEMMA EmitTimely ==
    ASSUME TypeInv, TypeInv', Upkeep, Timely, NEW s \in Spans, Emit(s)
    PROVE  Timely'
<1>1. UNCHANGED <<place, dead, members, rest, received, jolted>> /\ s \in Senders /\ s \notin Conns
  BY GatewayAssumption DEF Emit, session, Senders
<1>2. /\ place \in [Conns -> Places] /\ send \in [Senders -> SendRecords] /\ Progress
      /\ members \in SUBSET Conns /\ IsFiniteSet(members)
  BY <1>1 DEF TypeInv, TypeOK, SendRecords, Progress
<1>3. SendsReach'
  <2>1. /\ \A y \in Senders \ {s} : send'[y] = send[y] /\ rest'[y] = rest[y]
        /\ send'[s] = send[s] \/ (members # {} /\ send'[s] = FirstOf(members))
    BY <1>1, <1>2 DEF Emit
  <2>2. Carried(s)' = Carried(s)
    BY <1>1 DEF Carried
  <2>3. ASSUME send'[s] # Idle, ~(Carried(s)' \subseteq jolted') PROVE Reaches(s)'
    <3>1. CASE send'[s] = send[s]
      BY <1>1, <2>2, <2>3, <3>1 DEF Timely, SendsReach, Reaches
    <3>2. CASE members # {} /\ send'[s] = FirstOf(members)
      <4>1. ReachedAhead(members, FirstOf(members), dead, received, Carried(s))
        BY <1>2, <3>2, ReachedFirst
      <4>. QED
        BY <1>1, <2>2, <3>2, <4>1 DEF Reaches
    <3>. QED
      BY <2>1, <3>1, <3>2
  <2>. QED
    BY <1>1, <1>2, <2>1, <2>3, SendsReachOn DEF Timely
<1>4. ASSUME NEW d \in Conns, d \notin dead' PROVE Timeline(d)'
  <2>1. CASE members = {}
    <3>1. place[d] \notin Present
      BY <1>1, <1>4, <2>1 DEF Upkeep, LiveAreMembers
    <3>. QED
      BY <1>1, <3>1 DEF Timeline, Present, Restoring
  <2>2. CASE members # {}
    <3>1. buffer' = buffer
      BY <2>2 DEF Emit
    <3>. QED
      BY <1>1, <1>2, <1>4, <3>1, TimelineStays DEF Timely
  <2>. QED
    BY <2>1, <2>2
<1>. QED
  BY <1>3, <1>4 DEF Timely, Timelines

\* What one sending to one connection leaves: it is dead, or it has got it.
LEMMA SentProgress ==
    ASSUME TypeInv, NEW x \in Senders, Sent(x)
    PROVE  /\ send[x] # Idle /\ dead' = dead
           /\ \A d \in Conns : received[d] \subseteq received'[d]
           /\ send[x].to \in Conns /\ send[x].to \notin dead =>
                 Carried(x) \subseteq received'[send[x].to]
<1>. DEFINE to == send[x].to
<1>1. /\ send[x] # Idle /\ dead' = dead
      /\ received' = [received EXCEPT ![to] = IF to \in dead THEN @ ELSE @ \cup Carried(x)]
  BY DEF Sent
<1>2. received \in [Conns -> SUBSET Spans]
  BY DEF TypeInv, TypeOK
<1>. HIDE DEF to
<1>3. \A d \in Conns : received[d] \subseteq received'[d]
  BY <1>1, <1>2
<1>4. to \in Conns /\ to \notin dead => Carried(x) \subseteq received'[to]
  BY <1>1, <1>2
<1>. QED
  BY <1>1, <1>3, <1>4 DEF to

LEMMA PassesOn ==
    ASSUME TypeInv, TypeInv', Timely, NEW x \in Senders, Sent(x),
           ~send[x].cut, send[x].pos + 1 < Cardinality(members)
    PROVE  Timely'
<1>. DEFINE s == send[x]
            failed == s.failed \cup ({s.to} \cap dead)
            next == [to |-> Nth(members, s.pos + 1), pos |-> s.pos + 1,
                     cut |-> FALSE, failed |-> failed]
<1>1. /\ send' = [send EXCEPT ![x] = next]
      /\ UNCHANGED <<place, members, rest, buffer, owed, jolted, dead>>
  BY DEF Sent
<1>2. next.to = Nth(members, s.pos + 1) /\ next.pos = s.pos + 1 /\ ~next.cut
  OBVIOUS
<1>3. /\ send[x] # Idle /\ \A d \in Conns : received[d] \subseteq received'[d]
      /\ s.to \in Conns /\ s.to \notin dead => Carried(x) \subseteq received'[s.to]
  BY SentProgress
<1>4. Progress /\ members \in SUBSET Nat /\ IsFiniteSet(members) /\ members \subseteq Conns
      /\ send \in [Senders -> SendRecords]
  BY <1>1, <1>3, MembersAreNumbers DEF Progress, TypeInv, TypeOK, SendRecords
<1>. HIDE DEF next, failed
<1>5. SendsReach'
  <2>1. \A y \in Senders \ {x} : send'[y] = send[y] /\ rest'[y] = rest[y]
    BY <1>1, <1>4
  <2>2. Carried(x)' = Carried(x) /\ send'[x] = next
    BY <1>1, <1>4, CarriedStays
  <2>3. ASSUME send'[x] # Idle, ~(Carried(x)' \subseteq jolted') PROVE Reaches(x)'
    <3>1. ReachedAhead(members, s, dead, received, Carried(x))
      BY <1>1, <1>3, <2>2, <2>3 DEF Timely, SendsReach, Reaches
    <3>2. ReachedAhead(members, s, dead, received', Carried(x))
      <4>1. \A d \in members : d \in dead \/ received[d] \subseteq received'[d]
        BY <1>3, <1>4
      <4>. QED
        BY <3>1, <4>1, ReachedStays
    <3>3. s.to \in dead \/ Carried(x) \subseteq received'[s.to]
      BY <1>3, <1>4, <3>1 DEF ReachedAhead
    <3>4. ReachedAhead(members, next, dead, received', Carried(x))
      BY <1>2, <1>4, <3>2, <3>3, ReachedNext
    <3>. QED
      BY <1>1, <2>2, <3>4 DEF Reaches
  <2>. QED
    BY <1>1, <1>4, <2>1, <2>3, SendsReachOn DEF Timely
<1>6. \A c \in Conns : c \notin dead' => Timeline(c)'
  BY <1>1, <1>4, TimelineStays DEF Timely
<1>. QED
  BY <1>5, <1>6 DEF Timely, Timelines

\* Who is there at the end of a send's list, and lives, has got what it carried.
LEMMA EndReachesAll ==
    ASSUME TypeInv, TypeInv', Upkeep, Timely, NEW x \in Senders, Sent(x),
           ~(~send[x].cut /\ send[x].pos + 1 < Cardinality(members)), jolted \subseteq jolted',
           NEW c \in Conns, c \notin dead, place[c] \in Present
    PROVE  Carried(x) \subseteq received'[c] \cup jolted'
<1>1. c \in members /\ members \in SUBSET Nat /\ IsFiniteSet(members) /\ members \subseteq Conns
  BY MembersAreNumbers DEF Upkeep, LiveAreMembers
<1>2. /\ send[x] # Idle /\ \A d \in Conns : received[d] \subseteq received'[d]
      /\ send[x].to \in Conns /\ send[x].to \notin dead => Carried(x) \subseteq received'[send[x].to]
  BY SentProgress
<1>3. CASE Carried(x) \subseteq jolted
  BY <1>3
<1>4. CASE ~(Carried(x) \subseteq jolted)
  <2>1. ReachedAhead(members, send[x], dead, received, Carried(x))
    BY <1>2, <1>4 DEF Timely, SendsReach, Reaches
  <2>2. ReachedAhead(members, send[x], dead, received', Carried(x))
    <3>1. \A d \in members : d \in dead \/ received[d] \subseteq received'[d]
      BY <1>1, <1>2
    <3>. QED
      BY <2>1, <3>1, ReachedStays
  <2>3. send[x].to \in dead \/ Carried(x) \subseteq received'[send[x].to]
    BY <1>1, <1>2, <2>1 DEF ReachedAhead
  <2>4. ~(send[x].pos + 1 < Cardinality(members))
    BY <2>1 DEF ReachedAhead
  <2>5. \A d \in members : d \in dead \/ Carried(x) \subseteq received'[d]
    BY <1>1, <2>2, <2>3, <2>4, ReachedAll
  <2>. QED
    BY <1>1, <2>5
<1>. QED
  BY <1>3, <1>4

\* A restore goes on: to the next of the spans it still owes, or to the
\* commands when it owes none.
LEMMA RestoreTimely ==
    ASSUME TypeInv, TypeInv', Upkeep, Timely, Progress, NEW c \in Conns, c \notin dead,
           place[c] \in {"plan", "log", "replay"},
           Carried(c) \subseteq received'[c] \cup jolted',
           NEW m, m # {}, NEW sends \in [Senders -> SendRecords], sends[c] = Idle,
           Continue(c, m, sends), buffer' = buffer, dead' = dead
    PROVE  Timeline(c)'
<1>. DEFINE tail == SubSeq(rest[c], 2, Len(rest[c]))
<1>1. /\ place'[c] \in {"info", "replay", "loop"}
      /\ place'[c] = "replay" => place[c] # "plan"
      /\ (place'[c] = "loop" /\ m # {}) => IF place[c] = "log" THEN buffer = <<>> ELSE tail = <<>>
      /\ place'[c] = "replay" => rest'[c] = IF place[c] = "log" THEN buffer ELSE tail
      /\ place[c] # "plan" => place'[c] # "info"
      /\ place[c] = "plan" => place'[c] = "info"
  <2>1. place[c] = "plan" => place'[c] = "info"
    BY DEF Continue, TypeInv, TypeOK
  <2>. QED
    BY <2>1, ContinueUpkeep
<1>2. ToSet(<<>>) = {}
  BY DEF ToSet
<1>3. received[c] \subseteq received'[c] /\ jolted \subseteq jolted'
  BY DEF Progress
<1>4. CASE place[c] = "log"
  <2>1. place'[c] = "loop" => ToSet(buffer) = {}
    BY <1>1, <1>2, <1>4
  <2>2. place'[c] = "replay" => ToSet(rest'[c]) = ToSet(buffer)
    BY <1>1, <1>4
  <2>. QED
    BY <1>1, <2>1, <2>2 DEF Timeline
<1>5. CASE place[c] = "replay"
  <2>1. c \notin Spans /\ rest[c] \in Seq(Spans)
    BY GatewayAssumption DEF TypeInv, TypeOK
  <2>2. ToSet(rest[c]) \subseteq Carried(c) \cup ToSet(tail)
    BY <2>1, RestAfterHead DEF Carried
  <2>3. ToSet(buffer) \subseteq received[c] \cup jolted \cup ToSet(rest[c])
    BY <1>5 DEF Timely, Timelines, Timeline
  <2>4. ToSet(buffer) \subseteq received'[c] \cup jolted' \cup ToSet(tail)
    BY <1>3, <2>2, <2>3
  <2>. HIDE DEF tail
  <2>5. place'[c] = "loop" => ToSet(tail) = {}
    BY <1>1, <1>2, <1>5
  <2>6. place'[c] = "replay" => ToSet(rest'[c]) = ToSet(tail)
    BY <1>1, <1>5
  <2>. QED
    BY <2>4, <2>5, <2>6 DEF Timeline
<1>6. CASE place[c] = "plan"
  BY <1>1, <1>6 DEF Timeline
<1>. QED
  BY <1>4, <1>5, <1>6

LEMMA EndsTimely ==
    ASSUME TypeInv, TypeInv', Upkeep, Timely, NEW x \in Senders, Sent(x),
           ~(~send[x].cut /\ send[x].pos + 1 < Cardinality(members))
    PROVE  Timely'
<1>. DEFINE failed == send[x].failed \cup ({send[x].to} \cap dead)
            others == [send EXCEPT ![x] = Idle]
            sends == CutOff(failed, others)
<1>1. EndOfList(x, failed)
  BY DEF Sent
<1>2. /\ others \in [Senders -> SendRecords] /\ others[x] = Idle
      /\ \A y \in Senders \ {x} : others[y] = send[y]
      /\ send[x] \in SendRecords
  BY IdleIsOne DEF TypeInv, TypeOK, SendRecords
<1>3. sends \in [Senders -> SendRecords] /\ sends[x] = Idle
  BY <1>2, CutOffAreOnes, CutOffLeaves
<1>4. Disconnect(failed, others) /\ members' = members \ failed /\ jolted \subseteq jolted'
  BY <1>1 DEF EndOfList, Disconnect
<1>5. Progress /\ dead' = dead /\ failed \subseteq dead
  <2>1. failed \subseteq dead
    BY DEF Upkeep, FailedAreDead
  <2>. QED
    BY <1>4, <2>1, SentProgress DEF Progress
<1>6. ASSUME NEW c \in Conns, c \notin dead, place[c] \in Present
      PROVE  Carried(x) \subseteq received'[c] \cup jolted'
  BY <1>4, <1>6, EndReachesAll
<1>. HIDE DEF failed, others
<1>7. ASSUME NEW y \in Senders \ {x}, send'[y] = sends[y], y \in Conns => rest'[y] = rest[y],
             send'[y] # Idle, ~(Carried(y)' \subseteq jolted')
      PROVE  Reaches(y)'
  BY <1>2, <1>4, <1>5, <1>7, SendsReachCut DEF Timely
<1>. HIDE DEF sends
<1>8. CASE x \in Conns
  <2>1. Continue(x, members', sends) /\ buffer' = buffer
    BY <1>1, <1>4, <1>8 DEF EndOfList, sends, others
  <2>2. place[x] \in {"plan", "log", "replay"}
    BY <1>8, SentProgress DEF Upkeep, RestoresSend
  <2>. DEFINE m == members'
  <2>3. Continue(x, m, sends)
    BY <2>1
  <2>4. m \in SUBSET Conns /\ IsFiniteSet(m)
    BY DEF TypeInv, TypeOK
  <2>. HIDE DEF m
  <2>5. /\ \A d \in Conns \ {x} : place'[d] = place[d] /\ rest'[d] = rest[d]
        /\ place'[x] # "replay" => send' = sends
        /\ place'[x] = "replay" => m # {} /\ send' = [sends EXCEPT ![x] = FirstOf(m)]
    BY <1>3, <1>8, <2>2, <2>3, ContinueUpkeep
  <2>6. SendsReach'
    <3>1. \A y \in Senders \ {x} : send'[y] = sends[y] /\ (y \in Conns => rest'[y] = rest[y])
      BY <1>3, <2>5
    <3>2. send'[x] = Idle \/ (m # {} /\ send'[x] = FirstOf(m))
      BY <1>3, <2>5
    <3>3. send'[x] # Idle => Reaches(x)'
      <4>1. m # {} => ReachedAhead(m, FirstOf(m), dead', received', Carried(x)')
        BY <2>4, ReachedFirst
      <4>. QED
        BY <3>2, <4>1 DEF Reaches, m
    <3>. QED
      BY <1>7, <3>1, <3>3 DEF SendsReach
  <2>7. ASSUME NEW c \in Conns, c \notin dead' PROVE Timeline(c)'
    <3>1. CASE c # x
      <4>1. place'[c] = place[c] /\ rest'[c] = rest[c]
        BY <2>5, <3>1
      <4>. QED
        BY <1>5, <2>1, <2>7, <4>1, TimelineStays DEF Timely
    <3>2. CASE c = x
      <4>1. place[x] \in Present
        BY <2>2 DEF Present, Restoring
      <4>2. x \in members /\ x \notin dead
        BY <1>5, <1>8, <2>7, <3>2, <4>1 DEF Upkeep, LiveAreMembers
      <4>3. m # {}
        BY <1>4, <1>5, <4>2 DEF m
      <4>4. Carried(x) \subseteq received'[x] \cup jolted'
        BY <1>6, <1>8, <4>1, <4>2
      <4>. QED
        BY <1>3, <1>5, <1>8, <2>1, <2>2, <2>3, <3>2, <4>2, <4>3, <4>4, RestoreTimely
    <3>. QED
      BY <3>1, <3>2
  <2>. QED
    BY <2>6, <2>7 DEF Timely, Timelines
<1>9. CASE x \notin Conns
  <2>1. x \in Spans /\ Buffered(x) /\ send' = sends /\ UNCHANGED <<place, rest>>
    BY <1>1, <1>9 DEF EndOfList, Senders, sends, others
  <2>2. SendsReach'
    BY <1>3, <1>7, <2>1 DEF SendsReach
  <2>3. ToSet(buffer') \subseteq ToSet(buffer) \cup Carried(x)
    <3>1. buffer \in Seq(Spans) /\ Append(buffer, x) \in Seq(Spans)
      BY <2>1 DEF TypeInv, TypeOK
    <3>2. ToSet(buffer') \subseteq ToSet(Append(buffer, x))
      BY <2>1, <3>1, RecentElements DEF Buffered
    <3>3. ToSet(Append(buffer, x)) \subseteq ToSet(buffer) \cup {x}
      BY <3>1, AppendElements
    <3>. QED
      BY <2>1, <3>2, <3>3 DEF Carried
  <2>4. ASSUME NEW c \in Conns, c \notin dead' PROVE Timeline(c)'
    <3>1. CASE place[c] \in {"replay", "loop"}
      <4>1. Carried(x) \subseteq received'[c] \cup jolted'
        BY <1>5, <1>6, <2>4, <3>1 DEF Present, Restoring
      <4>2. ToSet(buffer') \subseteq ToSet(buffer) \cup received'[c] \cup jolted'
        BY <2>3, <4>1
      <4>. QED
        BY <1>5, <2>1, <2>4, <4>2, TimelineStays DEF Timely
    <3>2. CASE place[c] \notin {"replay", "loop"}
      BY <2>1, <3>2 DEF Timeline
    <3>. QED
      BY <3>1, <3>2
  <2>. QED
    BY <2>2, <2>4 DEF Timely, Timelines
<1>. QED
  BY <1>8, <1>9

LEMMA TimelyInit == Init => Timely
<1>. SUFFICES ASSUME Init PROVE Timely
  OBVIOUS
<1>1. (\A x \in Senders : send[x] = Idle) /\ (\A c \in Conns : place[c] = "new")
  BY DEF Init
<1>. QED
  BY <1>1 DEF Timely, SendsReach, Timelines, Timeline

LEMMA TimelyNext ==
    TypeInv /\ Upkeep /\ MembersPresent /\ Timely /\ [Next]_vars => Timely'
<1>. SUFFICES ASSUME TypeInv, Upkeep, MembersPresent, Timely, [Next]_vars PROVE Timely'
  OBVIOUS
<1>0. TypeInv'
  BY TypeNext
<1>1. ASSUME NEW c \in Conns, Drop(c) PROVE Timely'
  <2>1. /\ UNCHANGED <<place, members, send, rest, buffer, jolted>> /\ dead' = dead \cup {c}
        /\ \A d \in Conns \ {c} : received'[d] = received[d]
    BY <1>1 DEF Drop, TypeInv, TypeOK
  <2>2. Progress
    BY <2>1 DEF Progress
  <2>. QED
    BY <1>0, <2>1, <2>2, NothingSent
<1>2. ASSUME UNCHANGED <<place, dead, members, send, rest, received, jolted>>,
             Cleared \/ buffer' = buffer
      PROVE  Timely'
  <2>1. Progress
    BY <1>2 DEF Progress
  <2>. QED
    BY <1>0, <1>2, <2>1, NothingSent
<1>3. ASSUME NEW c \in Conns, GraceEnds(c) PROVE Timely'
  <2>1. /\ UNCHANGED <<dead, members, send, rest, received, jolted>> /\ Cleared
        /\ place' = [place EXCEPT ![c] = "done"] /\ place[c] = "grace"
    BY <1>3 DEF GraceEnds
  <2>2. SendsReach'
    <3>1. ASSUME NEW y \in Senders, send'[y] # Idle, ~(Carried(y)' \subseteq jolted')
          PROVE  Reaches(y)'
      BY <2>1, <3>1, CarriedStays DEF Timely, SendsReach, Reaches
    <3>. QED
      BY <3>1 DEF SendsReach
  <2>. QED
    BY <2>1, <2>2, NothingToReplay DEF Timely
<1>4. ASSUME NEW c \in Conns, StorePlan(c) \/ \E e \in Execs : Run(c, e) PROVE Timely'
  BY <1>2, <1>4 DEF StorePlan, Run, delivery
<1>5. ASSUME NEW e \in Execs, EndExec(e) PROVE Timely'
  BY <1>2, <1>5 DEF EndExec, delivery
<1>6. CASE UNCHANGED vars
  BY <1>2, <1>6 DEF vars, session, delivery
<1>7. ASSUME NEW c \in Conns, Connect(c) \/ SendInfo(c) \/ Bail(c) \/ Notice(c) PROVE Timely'
  BY <1>0, <1>7, ConnectTimely, SendInfoTimely, LeaveTimely
<1>8. ASSUME NEW x \in Senders, Sent(x) PROVE Timely'
  BY <1>0, <1>8, PassesOn, EndsTimely
<1>9. ASSUME NEW s \in Spans, Emit(s) PROVE Timely'
  BY <1>0, <1>9, EmitTimely
<1>. QED
  BY <1>1, <1>3, <1>4, <1>5, <1>6, <1>7, <1>8, <1>9 DEF Next

\* A client that is there and past its restore has every span emitted since
\* the last clear that the buffer can hold, unless its sending met a removal
\* (send_event, buffer_span_event, _replay_buffered_spans): for any number of
\* connections, spans and removals, and any size of the buffer.
THEOREM TimelinesAreRecovered == Spec => []TimelineRecovered
<1>1. BufferIsRecent /\ Timelines => TimelineRecovered
  BY DEF BufferIsRecent, Timelines, Timeline, TimelineRecovered
<1>2. Upkeep /\ Timely => TimelineRecovered
  BY <1>1 DEF Upkeep, Timely
<1>3. IInv => MembersPresent
  BY DEF IInv
<1>. QED
  BY <1>2, <1>3, TypeInit, TypeNext, UpkeepInit, UpkeepNext, InitIInv, NextKeeps,
     TimelyInit, TimelyNext, PTL DEF Spec

-----------------------------------------------------------------------------
(* The conversation: its file                                                *)

LEMMA LeastBounds == \A n \in Nat : Least(n, Capacity) \in 0..Capacity
BY ConversationAssumption DEF Least

LEMMA AppendedFile ==
    ASSUME NEW f \in Files, NEW new \in Seq(Messages)
    PROVE  /\ Appended(f, new) \in Files
           /\ Appended(f, new).exists = f.exists
           /\ Appended(f, new).msgs = f.msgs \o new
           /\ Appended(f, new).slot = f.slot
           /\ Appended(f, new).pins = f.pins
<1>1. f.used + Len(new) \in Nat
  BY ConversationAssumption, LenProperties DEF Files
<1>2. Least(f.used + Len(new), Capacity) \in 0..Capacity
  BY <1>1, LeastBounds
<1>3. f.msgs \o new \in Seq(Messages)
  BY ConcatProperties DEF Files
<1>. QED
  BY <1>2, <1>3 DEF Appended, Files

LEMMA RewrittenFile ==
    ASSUME NEW f \in Files, NEW s \in Seq(Messages)
    PROVE  /\ Rewritten(f, s) \in Files
           /\ Rewritten(f, s).exists = f.exists
           /\ Rewritten(f, s).msgs = s
           /\ Rewritten(f, s).slot = f.slot
<1>1. Least(Len(s), Capacity) \in 0..Capacity
  BY LeastBounds, LenProperties
<1>. QED
  BY <1>1 DEF Rewritten, Files

LEMMA ReleasedFile ==
    ASSUME NEW f \in Files, NEW n \in Nat
    PROVE  /\ Released(f, n) \in Files
           /\ Released(f, n).exists = f.exists
           /\ Released(f, n).msgs = f.msgs
           /\ Released(f, n).slot = f.slot
           /\ Released(f, n).records = f.records
<1>1. (IF n > f.used THEN 0 ELSE f.used - n) \in 0..Capacity
  BY ConversationAssumption DEF Files
<1>. QED
  BY <1>1 DEF Released, Files

LEMMA SlotSetFile ==
    ASSUME NEW f \in Files, NEW t \in Turns, NEW st \in {"streaming", "finishing"}
    PROVE  /\ SlotSet(f, t, st) \in Files
           /\ SlotSet(f, t, st).exists = f.exists
           /\ SlotSet(f, t, st).msgs = f.msgs
           /\ SlotSet(f, t, st).slot = IF f.exists THEN [turn |-> t, status |-> st]
                                       ELSE f.slot
BY DEF SlotSet, Files

LEMMA SlotClearedFile ==
    ASSUME NEW f \in Files, NEW t \in Turns
    PROVE  /\ SlotCleared(f, t) \in Files
           /\ SlotCleared(f, t).exists = f.exists
           /\ SlotCleared(f, t).msgs = f.msgs
           /\ SlotCleared(f, t).slot = IF f.exists /\ f.slot.turn = t THEN NoSlot
                                       ELSE f.slot
BY DEF SlotCleared, Files

LEMMA MembersOfConcat ==
    ASSUME NEW s \in Seq(Messages), NEW v \in Seq(Messages)
    PROVE  Members(s \o v) = Members(s) \cup Members(v)
<1>1. /\ s \o v \in Seq(Messages)
      /\ Len(s \o v) = Len(s) + Len(v)
      /\ \A i \in 1..(Len(s) + Len(v)) :
           (s \o v)[i] = IF i <= Len(s) THEN s[i] ELSE v[i - Len(s)]
  BY ConcatProperties
<1>2. /\ DOMAIN s = 1..Len(s) /\ DOMAIN v = 1..Len(v)
      /\ DOMAIN (s \o v) = 1..(Len(s) + Len(v))
      /\ Len(s) \in Nat /\ Len(v) \in Nat
  BY <1>1, LenProperties
<1>. DEFINE c == s \o v
<1>3. DOMAIN c = 1..(Len(s) + Len(v))
      /\ \A i \in 1..(Len(s) + Len(v)) :
           c[i] = IF i <= Len(s) THEN s[i] ELSE v[i - Len(s)]
  BY <1>1, <1>2
<1>. HIDE DEF c
<1>4. Members(c) \subseteq Members(s) \cup Members(v)
  BY <1>2, <1>3 DEF Members
<1>5. ASSUME NEW m \in Members(s)
      PROVE  m \in Members(c)
  <2>1. PICK i \in 1..Len(s) : m = s[i]
    BY <1>2 DEF Members
  <2>2. i \in DOMAIN c /\ c[i] = m
    BY <2>1, <1>2, <1>3
  <2>. QED
    BY <2>2 DEF Members
<1>6. ASSUME NEW m \in Members(v)
      PROVE  m \in Members(c)
  <2>1. PICK i \in 1..Len(v) : m = v[i]
    BY <1>2 DEF Members
  <2>2. i + Len(s) \in DOMAIN c /\ c[i + Len(s)] = v[i]
    BY <1>2, <1>3
  <2>. QED
    BY <2>1, <2>2 DEF Members
<1>. QED
  BY <1>4, <1>5, <1>6 DEF c

LEMMA MembersAreMessages ==
    ASSUME NEW s \in Seq(Messages)
    PROVE  Members(s) \subseteq Messages
BY ElementOfSeq, LenProperties DEF Members

LEMMA MembersAreFinite ==
    ASSUME NEW s \in Seq(Messages)
    PROVE  IsFiniteSet(Members(s))
<1>1. DOMAIN s = 1..Len(s) /\ Len(s) \in Nat
  BY LenProperties
<1>2. IsFiniteSet(1..Len(s))
  BY <1>1, FS_Interval
<1>3. s \in [DOMAIN s -> Members(s)]
  BY LenProperties, IsASeq, <1>1 DEF Members
<1>4. s \in Surjection(DOMAIN s, Members(s))
  BY <1>3 DEF Surjection, Members
<1>. QED
  BY <1>1, <1>2, <1>4, FS_Surjection

LEMMA SubSeqOfMessages ==
    ASSUME NEW s \in Seq(Messages), NEW m \in Nat, NEW n \in Nat,
           m >= 1, n <= Len(s)
    PROVE  /\ SubSeq(s, m, n) \in Seq(Messages)
           /\ DOMAIN SubSeq(s, m, n) = 1..(IF m <= n THEN n - m + 1 ELSE 0)
           /\ Len(SubSeq(s, m, n)) = IF m <= n THEN n - m + 1 ELSE 0
           /\ \A i \in 1..(n - m + 1) : SubSeq(s, m, n)[i] = s[m + i - 1]
<1>1. Len(s) \in Nat /\ DOMAIN s = 1..Len(s)
  BY LenProperties
<1>2. \A i \in m..n : s[i] \in Messages
  BY <1>1, ElementOfSeq
<1>. QED
  BY <1>1, <1>2, SubSeqProperties, LenProperties

-----------------------------------------------------------------------------
(* Types *)

TurnRecords == [pc : TurnPCs, asks : 0..MaxTurns, tools : Seq(Messages),
                path : {"none", "chat", "error", "memory"}, saved : BOOLEAN]

CompactionRecords == [pc : {"idle", "scheduled", "summarizing"},
                      backup : Nat, dropped : SUBSET Messages]

TurnType == turn \in [Turns -> TurnRecords]

\* A compaction under way has its backup, and drops something.
CompactionType ==
    /\ backups \in Seq(Files)
    /\ comp \in [Owners -> CompactionRecords]
    /\ \A o \in Owners :
         comp[o].pc = "summarizing" =>
             /\ comp[o].backup \in DOMAIN backups
             /\ comp[o].dropped # {} /\ IsFiniteSet(comp[o].dropped)

CountType == count \in [manual : 0..MaxManual, rewrites : 0..MaxEvents,
                        faults : 0..MaxEvents, crashes : 0..MaxEvents]

PastType ==
    /\ written \in SUBSET Messages
    /\ gone \in SUBSET Messages
    /\ stale \in BOOLEAN

ChatType == /\ file \in Files
            /\ TurnType
            /\ CompactionType
            /\ CountType
            /\ PastType

LEMMA ChatTypeImpliesOK == ChatType => ChatTypeOK
<1>. SUFFICES ASSUME ChatType PROVE ChatTypeOK
  OBVIOUS
<1>1. \A b \in DOMAIN backups : backups[b] \in Files
  BY ElementOfSeq, LenProperties DEF ChatType, CompactionType
<1>. QED
  BY <1>1 DEF ChatType, ChatTypeOK, TurnType, CompactionType, CountType, PastType,
     TurnRecords, CompactionRecords

LEMMA TurnsAreMessages ==
    ASSUME NEW t \in Turns
    PROVE  {User(t), Carrier(t), Result(t), Answer(t)} \subseteq Messages
BY ConversationAssumption DEF Turns, User, Carrier, Result, Answer, Messages, Kinds

LEMMA OwnersSplit == Turns \subseteq Owners /\ Manuals \subseteq Owners
BY DEF Owners

LEMMA CompactionDrops ==
    ASSUME NEW f \in Files, MayCompact(f), CompactionType
    PROVE  /\ Compacting(f) \in CompactionRecords
           /\ Compacting(f).pc = "summarizing"
           /\ Compacting(f).backup = Len(backups) + 1
           /\ Compacting(f).dropped = Dropped(f)
           /\ Dropped(f) # {} /\ IsFiniteSet(Dropped(f))
           /\ Dropped(f) \subseteq Messages
<1>. DEFINE old == SubSeq(f.msgs, 1, Len(f.msgs) - RecentWindow)
<1>1. f.msgs \in Seq(Messages) /\ Len(f.msgs) \in Nat
  BY LenProperties DEF Files
<1>2. Len(f.msgs) - RecentWindow \in Nat /\ Len(f.msgs) - RecentWindow <= Len(f.msgs)
  BY <1>1, ConversationAssumption DEF MayCompact, SafetyGate
<1>3. old \in Seq(Messages)
  BY <1>1, <1>2, SubSeqOfMessages
<1>. HIDE DEF old
<1>4. Members(old) \subseteq Messages /\ IsFiniteSet(Members(old))
  BY <1>3, MembersAreMessages, MembersAreFinite
<1>5. Dropped(f) \subseteq Members(old)
  BY DEF Dropped, old
<1>6. IsFiniteSet(Dropped(f))
  BY <1>4, <1>5, FS_Subset
<1>7. Dropped(f) # {}
  BY DEF MayCompact
<1>8. Len(backups) + 1 \in Nat
  BY LenProperties DEF CompactionType
<1>. QED
  BY <1>4, <1>5, <1>6, <1>7, <1>8 DEF Compacting, CompactionRecords

LEMMA CompactionStarts ==
    ASSUME NEW f \in Files, MayCompact(f), CompactionType, NEW o \in Owners,
           backups' = Append(backups, f),
           comp' = [comp EXCEPT ![o] = Compacting(f)]
    PROVE  CompactionType'
<1>1. /\ backups' \in Seq(Files)
      /\ Len(backups') = Len(backups) + 1
      /\ DOMAIN backups = 1..Len(backups) /\ DOMAIN backups' = 1..(Len(backups) + 1)
      /\ Len(backups) \in Nat
  BY AppendProperties, LenProperties DEF CompactionType
<1>2. comp' \in [Owners -> CompactionRecords]
  BY CompactionDrops DEF CompactionType
<1>3. ASSUME NEW p \in Owners, comp'[p].pc = "summarizing"
      PROVE  /\ comp'[p].backup \in DOMAIN backups'
             /\ comp'[p].dropped # {} /\ IsFiniteSet(comp'[p].dropped)
  <2>1. CASE p = o
    <3>1. comp'[p] = Compacting(f)
      BY <2>1 DEF CompactionType
    <3>. QED
      BY <3>1, <1>1, CompactionDrops
  <2>2. CASE p # o
    BY <2>2, <1>3, <1>1 DEF CompactionType
  <2>. QED
    BY <2>1, <2>2
<1>. QED
  BY <1>1, <1>2, <1>3 DEF CompactionType

LEMMA BackupMade ==
    ASSUME NEW f \in Files, CompactionType, backups' = Append(backups, f),
           UNCHANGED comp
    PROVE  CompactionType'
<1>1. /\ backups' \in Seq(Files)
      /\ Len(backups') = Len(backups) + 1
      /\ DOMAIN backups = 1..Len(backups) /\ DOMAIN backups' = 1..(Len(backups) + 1)
      /\ Len(backups) \in Nat
  BY AppendProperties, LenProperties DEF CompactionType
<1>. QED
  BY <1>1 DEF CompactionType

LEMMA CompactionEnds ==
    ASSUME CompactionType, NEW o \in Owners, UNCHANGED backups,
           \/ comp' = [comp EXCEPT ![o] = NoCompaction]
           \/ comp' = [comp EXCEPT ![o].pc = "scheduled"]
           \/ comp' = [comp EXCEPT ![o].pc = @]
           \/ comp' = [p \in Owners |-> NoCompaction]
           \/ comp' = comp
    PROVE  CompactionType'
<1>1. comp' \in [Owners -> CompactionRecords]
  BY DEF CompactionType, CompactionRecords, NoCompaction
<1>2. \A p \in Owners : comp'[p].pc = "summarizing" => comp'[p] = comp[p]
  BY DEF CompactionType, CompactionRecords, NoCompaction
<1>. QED
  BY <1>1, <1>2 DEF CompactionType

LEMMA RoomForEvent ==
    ASSUME CountType, MoreEvents
    PROVE  /\ count.manual + 1 \in Nat
           /\ count.rewrites + 1 \in 0..MaxEvents
           /\ count.faults + 1 \in 0..MaxEvents
           /\ count.crashes + 1 \in 0..MaxEvents
<1>1. IsFiniteSet(Turns)
  BY ConversationAssumption, FS_Interval DEF Turns
<1>2. Cardinality(Begun) \in Nat
  BY <1>1, FS_Subset, FS_CardinalityType DEF Begun
<1>3. /\ count.manual \in Nat /\ count.rewrites \in Nat
      /\ count.faults \in Nat /\ count.crashes \in Nat
  BY DEF CountType
<1>4. Cardinality(Begun) + count.manual + count.rewrites + count.faults
        + count.crashes < MaxEvents
  BY DEF MoreEvents
<1>. HIDE DEF MoreEvents
<1>5. MaxEvents \in Nat
  BY ConversationAssumption
<1>. QED
  BY <1>2, <1>3, <1>4, <1>5

LEMMA ReplyOfMessages ==
    ASSUME ChatType, NEW t \in Turns
    PROVE  Reply(t) \in Seq(Messages)
<1>1. <<Answer(t)>> \in Seq(Messages)
  BY TurnsAreMessages
<1>2. turn[t].tools \in Seq(Messages)
  BY DEF ChatType, TurnType, TurnRecords
<1>. QED
  BY <1>1, <1>2, ConcatProperties DEF Reply

LEMMA BackupIsFile ==
    ASSUME ChatType, NEW b \in DOMAIN backups
    PROVE  backups[b] \in Files
BY ElementOfSeq, LenProperties DEF ChatType, CompactionType

LEMMA ChatTypeInit == ChatInit => ChatType
<1>. SUFFICES ASSUME ChatInit PROVE ChatType
  OBVIOUS
<1>1. PICK h \in Histories :
        /\ file = [exists |-> TRUE, msgs |-> h, slot |-> NoSlot,
                   used |-> Least(Len(h), Capacity), records |-> {},
                   pins |-> {}]
        /\ written = Members(h)
  BY DEF ChatInit
<1>2. h \in Seq(Messages)
  BY ConversationAssumption
<1>3. Len(h) \in Nat /\ Members(h) \subseteq Messages
  BY <1>2, LenProperties, MembersAreMessages
<1>4. file \in Files
  BY <1>1, <1>2, <1>3, LeastBounds DEF Files
<1>5. TurnType
  BY ConversationAssumption, EmptySeq
  DEF ChatInit, TurnType, TurnRecords, NoTurn, TurnPCs
<1>6. CompactionType
  <2>1. backups \in Seq(Files)
    BY EmptySeq DEF ChatInit
  <2>. QED
    BY <2>1 DEF ChatInit, CompactionType, CompactionRecords, NoCompaction
<1>7. CountType
  BY ConversationAssumption DEF ChatInit, CountType
<1>. QED
  BY <1>1, <1>3, <1>4, <1>5, <1>6, <1>7 DEF ChatInit, ChatType, PastType

\* A step of one turn, as far as its record is concerned.
LEMMA TurnRecordSet ==
    ASSUME TurnType, NEW t \in Turns, NEW r \in TurnRecords,
           turn' = [turn EXCEPT ![t] = r]
    PROVE  TurnType'
BY DEF TurnType

LEMMA EndedIsRecord ==
    ASSUME NEW r \in TurnRecords
    PROVE  /\ Ended(r) \in TurnRecords
           /\ Ended(r).pc = "done" /\ Ended(r).tools = <<>>
           /\ [Ended(r) EXCEPT !.pc = "closing"] \in TurnRecords
           /\ \A v \in BOOLEAN : Replied(r, v) \in TurnRecords
           /\ \A v : Replied(r, v).pc = "replied" /\ Replied(r, v).tools = <<>>
<1>1. NoTurn \in TurnRecords
  BY ConversationAssumption, EmptySeq DEF NoTurn, TurnRecords, TurnPCs
<1>. QED
  BY <1>1 DEF Ended, Replied, NoTurn, TurnRecords, TurnPCs

LEMMA PrepareKeepsTypes ==
    ASSUME ChatType, NEW t \in Turns, NEW n \in 0..MaxTurns, Prepare(t, n), gone' = gone
    PROVE  ChatType'
<1>. DEFINE f == Appended(file, <<User(t)>>)
<1>1. <<User(t)>> \in Seq(Messages)
  BY TurnsAreMessages
<1>2. f \in Files
  BY <1>1, AppendedFile DEF ChatType
<1>3. /\ written' = written \cup {User(t)}
      /\ \/ /\ MayCompact(f)
            /\ file' = f
            /\ backups' = Append(backups, f)
            /\ comp' = [comp EXCEPT ![t] = Compacting(f)]
            /\ turn' = [turn EXCEPT ![t].pc = "compacting", ![t].asks = n]
            /\ UNCHANGED <<count, stale>>
         \/ /\ file' = SlotSet(f, t, "streaming")
            /\ stale' = FALSE
            /\ turn' = [turn EXCEPT ![t].pc = "thinking", ![t].asks = n]
            /\ UNCHANGED <<backups, comp, count>>
  BY DEF Prepare
<1>. HIDE DEF f
<1>4. written' \in SUBSET Messages /\ gone' \in SUBSET Messages
  BY <1>3, TurnsAreMessages DEF ChatType, PastType
<1>5. file' \in Files
  BY <1>2, <1>3, SlotSetFile
<1>6. TurnType'
  <2>1. PICK p \in {"compacting", "thinking"} :
          turn' = [turn EXCEPT ![t].pc = p, ![t].asks = n]
    BY <1>3
  <2>. QED
    BY <2>1 DEF ChatType, TurnType, TurnRecords, TurnPCs
<1>7. CompactionType'
  <2>1. CASE backups' = backups /\ comp' = comp
    BY <2>1 DEF ChatType, CompactionType
  <2>. QED
    BY <1>2, <1>3, <2>1, CompactionStarts, OwnersSplit DEF ChatType
<1>. QED
  BY <1>3, <1>4, <1>5, <1>6, <1>7 DEF ChatType, CountType, PastType

LEMMA RegenerateKeepsTypes ==
    ASSUME ChatType, NEW t \in Turns, NEW i, Regenerate(t, i)
    PROVE  ChatType'
<1>1. PICK q \in 1..(i - 1) :
        LET kept == SubSeq(file.msgs, 1, IF q = i - 1 THEN i - 2 ELSE i - 1)
            asker == file.msgs[q].turn
        IN /\ file' = Rewritten(file, kept)
           /\ gone' = gone \cup (Members(file.msgs) \ Members(kept))
           /\ turn' = [turn EXCEPT
                         ![t].pc = "resending",
                         ![t].asks = IF asker = 0 THEN 0
                                     ELSE turn[asker].asks]
  BY DEF Regenerate
<1>. DEFINE kept == SubSeq(file.msgs, 1, IF q = i - 1 THEN i - 2 ELSE i - 1)
            asker == file.msgs[q].turn
<1>2. /\ file.msgs \in Seq(Messages) /\ DOMAIN file.msgs = 1..Len(file.msgs)
      /\ Len(file.msgs) \in Nat /\ file \in Files
  BY LenProperties DEF ChatType, Files
<1>3. i \in 1..Len(file.msgs) /\ UNCHANGED <<backups, comp, count, written, stale>>
  BY <1>2 DEF Regenerate
<1>4. kept \in Seq(Messages)
  <2>1. CASE q = i - 1
    BY <2>1, <1>2, <1>3, SubSeqOfMessages
  <2>2. CASE q # i - 1
    BY <2>2, <1>2, <1>3, SubSeqOfMessages
  <2>. QED
    BY <2>1, <2>2
<1>5. asker \in 0..MaxTurns
  <2>1. file.msgs[q] \in Messages
    BY <1>2, <1>3, ElementOfSeq
  <2>. QED
    BY <2>1 DEF Messages
<1>6. TurnType'
  <2>1. (IF asker = 0 THEN 0 ELSE turn[asker].asks) \in 0..MaxTurns
    BY <1>5, ConversationAssumption DEF ChatType, TurnType, TurnRecords, Turns
  <2>. HIDE DEF asker
  <2>2. PICK n \in 0..MaxTurns :
          turn' = [turn EXCEPT ![t].pc = "resending", ![t].asks = n]
    BY <1>1, <2>1 DEF asker
  <2>. QED
    BY <2>2 DEF ChatType, TurnType, TurnRecords, TurnPCs
<1>7. file' \in Files
  BY <1>1, <1>2, <1>4, RewrittenFile
<1>8. Members(file.msgs) \subseteq Messages
  BY <1>2, MembersAreMessages
<1>9. gone' \in SUBSET Messages
  BY <1>1, <1>8 DEF ChatType, PastType
<1>10. CompactionType'
  BY <1>3 DEF ChatType, CompactionType
<1>. QED
  BY <1>3, <1>6, <1>7, <1>9, <1>10 DEF ChatType, CountType, PastType

LEMMA TurnKeepsTypes ==
    ASSUME ChatType, NEW t \in Turns, TurnSteps(t)
    PROVE  ChatType'
<1>1. turn[t] \in TurnRecords /\ file \in Files /\ turn[t].asks \in 0..MaxTurns
  BY DEF ChatType, TurnType, TurnRecords
<1>2. CASE Resend(t)
  <2>1. CASE Prepare(t, turn[t].asks)
    BY <1>1, <1>2, <2>1, PrepareKeepsTypes DEF Resend
  <2>2. CASE /\ turn' = [turn EXCEPT ![t] = Ended(@)]
             /\ UNCHANGED <<file, backups, comp, count, written, stale>>
    <3>1. TurnType'
      BY <1>1, <2>2, EndedIsRecord, TurnRecordSet DEF ChatType
    <3>. QED
      BY <1>2, <2>2, <3>1 DEF Resend, ChatType, CompactionType, CountType, PastType
  <2>. QED
    BY <1>2, <2>1, <2>2 DEF Resend
<1>3. CASE ToolLoopEnds(t)
  <2>1. PICK d \in 0..2 : turn' = [turn EXCEPT ![t].pc = "streaming",
                          ![t].tools = SubSeq(<<Carrier(t), Result(t)>>, d + 1, 2)]
    BY <1>3 DEF ToolLoopEnds, ToolsStored
  <2>2. <<Carrier(t), Result(t)>> \in Seq(Messages)
    BY TurnsAreMessages
  <2>3. Len(<<Carrier(t), Result(t)>>) = 2
    OBVIOUS
  <2>4. SubSeq(<<Carrier(t), Result(t)>>, d + 1, 2) \in Seq(Messages)
    BY <2>2, <2>3, SubSeqOfMessages
  <2>5. TurnType'
    BY <2>1, <2>4 DEF ChatType, TurnType, TurnRecords, TurnPCs
  <2>. QED
    BY <1>3, <2>5 DEF ToolLoopEnds, ChatType, CompactionType, CountType, PastType
<1>4. CASE AnswersAtOnce(t)
  <2>0. PICK w \in {"error", "memory"} :
          turn' = [turn EXCEPT ![t].pc = "finishing", ![t].path = w]
    BY <1>4 DEF AnswersAtOnce
  <2>1. TurnType'
    BY <2>0 DEF ChatType, TurnType, TurnRecords, TurnPCs
  <2>. QED
    BY <1>4, <2>1 DEF AnswersAtOnce, ChatType, CompactionType, CountType, PastType
<1>5. CASE StreamEnds(t)
  <2>1. TurnType'
    BY <1>5 DEF StreamEnds, ChatType, TurnType, TurnRecords, TurnPCs
  <2>2. file' \in Files
    BY <1>1, <1>5, SlotSetFile DEF StreamEnds
  <2>. QED
    BY <1>5, <2>1, <2>2 DEF StreamEnds, ChatType, CompactionType, CountType, PastType
<1>6. CASE Persist(t)
  <2>1. \E v \in BOOLEAN : turn' = [turn EXCEPT ![t] = Replied(@, v)]
    <3>1. (turn[t].path # "error") \in BOOLEAN
      OBVIOUS
    <3>. QED
      BY <1>6, <3>1 DEF Persist
  <2>2. TurnType'
    BY <1>1, <2>1, EndedIsRecord, TurnRecordSet DEF ChatType
  <2>3. Reply(t) \in Seq(Messages)
    BY ReplyOfMessages
  <2>4. file' \in Files
    BY <1>1, <1>6, <2>3, AppendedFile DEF Persist
  <2>5. written' \in SUBSET Messages
    BY <1>6, <2>3, MembersAreMessages DEF Persist, ChatType, PastType
  <2>. QED
    BY <1>6, <2>2, <2>4, <2>5 DEF Persist, ChatType, CompactionType, CountType, PastType
<1>7. CASE Close(t)
  <2>1. TurnType'
    BY <1>1, <1>7, EndedIsRecord, TurnRecordSet DEF Close, ChatType
  <2>2. file' \in Files
    BY <1>1, <1>7, SlotClearedFile DEF Close
  <2>3. CompactionType'
    <3>1. \/ comp' = [comp EXCEPT ![t].pc = "scheduled"]
          \/ comp' = [comp EXCEPT ![t].pc = @]
      BY <1>7 DEF Close
    <3>. QED
      BY <1>7, <3>1, CompactionEnds, OwnersSplit DEF Close, ChatType
  <2>4. stale' \in BOOLEAN
    BY <1>7 DEF Close
  <2>. QED
    BY <1>7, <2>1, <2>2, <2>3, <2>4 DEF Close, ChatType, CountType, PastType
<1>. QED
  BY <1>2, <1>3, <1>4, <1>5, <1>6, <1>7 DEF TurnSteps

\* The results that stand right before a message have a first one.
LEMMA ResultsBefore ==
    ASSUME NEW s \in Seq(Messages), NEW i \in DOMAIN s
    PROVE  \E k \in 0..(i - 1) :
             /\ \A j \in (i - k)..(i - 1) : s[j].kind = "result"
             /\ i - k = 1 \/ s[i - k - 1].kind # "result"
<1>1. i \in Nat /\ i >= 1
  BY LenProperties
<1>. DEFINE Stops == {k \in 0..(i - 1) : i - k = 1 \/ s[i - k - 1].kind # "result"}
<1>2. Stops \in SUBSET Nat /\ i - 1 \in Stops
  BY <1>1
<1>3. PICK k \in Stops : \A l \in Stops : k <= l
  BY <1>2, LeastIsThere, Zenon
<1>4. ASSUME NEW j \in (i - k)..(i - 1) PROVE s[j].kind = "result"
  <2>1. i - j - 1 \in 0..(i - 1) /\ i - j - 1 < k
    BY <1>1, <1>2, <1>3
  <2>2. i - j - 1 \notin Stops
    BY <1>2, <1>3, <2>1
  <2>3. i - (i - j - 1) - 1 = j
    BY <1>1, <1>2, <1>3
  <2>. QED
    BY <2>1, <2>2, <2>3
<1>. QED
  BY <1>3, <1>4

LEMMA DeletedBefore ==
    ASSUME file.msgs \in Seq(Messages), NEW i \in DOMAIN file.msgs
    PROVE  DeletedFrom(i) \in 1..i
<1>. DEFINE s == file.msgs
            n == CHOOSE k \in 0..(i - 1) :
                   /\ \A j \in (i - k)..(i - 1) : s[j].kind = "result"
                   /\ i - k = 1 \/ s[i - k - 1].kind # "result"
<1>1. n \in 0..(i - 1)
  BY ResultsBefore
<1>2. i \in Nat /\ i >= 1
  BY LenProperties
<1>3. DeletedFrom(i) \in {i, i - n} \cup (IF i - n - 1 >= 1 THEN {i - n - 1} ELSE {})
  BY DEF DeletedFrom
<1>. HIDE DEF n
<1>. QED
  BY <1>1, <1>2, <1>3

LEMMA CutOut ==
    ASSUME NEW s \in Seq(Messages), NEW i \in DOMAIN s, NEW d \in 1..i
    PROVE  LET k == SubSeq(s, 1, d - 1) \o SubSeq(s, i + 1, Len(s))
           IN /\ k \in Seq(Messages)
              /\ Len(k) = d - 1 + (Len(s) - i)
              /\ DOMAIN k = 1..(d - 1 + (Len(s) - i))
              /\ \A j \in DOMAIN k : k[j] = IF j < d THEN s[j] ELSE s[j + (i - d) + 1]
<1>. DEFINE a == SubSeq(s, 1, d - 1)
            c == SubSeq(s, i + 1, Len(s))
<1>1. Len(s) \in Nat /\ DOMAIN s = 1..Len(s) /\ i \in 1..Len(s) /\ d \in Nat
  BY LenProperties
<1>2. /\ a \in Seq(Messages) /\ Len(a) = d - 1
      /\ \A j \in 1..(d - 1) : a[j] = s[j]
  BY <1>1, SubSeqOfMessages
<1>3. /\ c \in Seq(Messages) /\ Len(c) = Len(s) - i
      /\ \A j \in 1..(Len(s) - i) : c[j] = s[i + j]
  BY <1>1, SubSeqOfMessages
<1>. HIDE DEF a, c
<1>4. /\ a \o c \in Seq(Messages)
      /\ Len(a \o c) = Len(a) + Len(c)
      /\ \A j \in 1..(Len(a) + Len(c)) :
           (a \o c)[j] = IF j <= Len(a) THEN a[j] ELSE c[j - Len(a)]
  BY <1>2, <1>3, ConcatProperties
<1>5. DOMAIN (a \o c) = 1..(d - 1 + (Len(s) - i))
  BY <1>2, <1>3, <1>4, LenProperties
<1>6. ASSUME NEW j \in 1..(d - 1 + (Len(s) - i))
      PROVE  (a \o c)[j] = IF j < d THEN s[j] ELSE s[j + (i - d) + 1]
  <2>1. CASE j < d
    BY <2>1, <1>1, <1>2, <1>3, <1>4
  <2>2. CASE j >= d
    <3>1. (a \o c)[j] = c[j - Len(a)] /\ j - Len(a) \in 1..(Len(s) - i)
      BY <2>2, <1>1, <1>2, <1>3, <1>4
    <3>2. i + (j - Len(a)) = j + (i - d) + 1
      BY <1>1, <1>2
    <3>3. c[j - Len(a)] = s[i + (j - Len(a))]
      BY <3>1, <1>3
    <3>4. c[j - Len(a)] = s[j + (i - d) + 1]
      BY <3>2, <3>3, Zenon
    <3>5. ~ (j < d)
      BY <2>2, <1>1
    <3>. QED
      BY <3>1, <3>4, <3>5, Zenon
  <2>3. j < d \/ j >= d
    BY <1>1
  <2>. QED
    BY <2>1, <2>2, <2>3, Zenon
<1>. QED
  BY <1>2, <1>3, <1>4, <1>5, <1>6 DEF a, c

\* What a deletion leaves.
KeptOf(i) ==
    SubSeq(file.msgs, 1, DeletedFrom(i) - 1)
      \o SubSeq(file.msgs, i + 1, Len(file.msgs))

LEMMA RewriteKeepsTypes ==
    ASSUME ChatType, NEW s \in Seq(Messages), Rewrite(s), CountType'
    PROVE  ChatType'
<1>1. file \in Files /\ file.msgs \in Seq(Messages)
  BY DEF ChatType, Files
<1>2. file' \in Files
  BY <1>1, RewrittenFile DEF Rewrite
<1>3. Members(file.msgs) \subseteq Messages
  BY <1>1, MembersAreMessages
<1>. QED
  BY <1>2, <1>3 DEF Rewrite, ChatType, TurnType, CompactionType, PastType

LEMMA ClientKeepsTypes ==
    ASSUME ChatType, ClientRewrites
    PROVE  ChatType'
<1>1. file \in Files /\ file.msgs \in Seq(Messages)
  BY DEF ChatType, Files
<1>2. CountType'
  <2>1. count.rewrites + 1 \in 0..MaxEvents
    BY RoomForEvent DEF ChatType, ClientRewrites
  <2>. QED
    BY <2>1 DEF ClientRewrites, ChatType, CountType
<1>3. ASSUME NEW i \in DOMAIN file.msgs, EditMessage(i) \/ DeleteMessage(i)
      PROVE  ChatType'
  <2>1. CASE EditMessage(i)
    BY <1>1, <1>2, <2>1, RewriteKeepsTypes DEF EditMessage
  <2>2. CASE DeleteMessage(i)
    <3>1. KeptOf(i) \in Seq(Messages)
      BY <1>1, DeletedBefore, CutOut DEF KeptOf
    <3>. QED
      BY <1>2, <2>2, <3>1, RewriteKeepsTypes DEF DeleteMessage, KeptOf
  <2>. QED
    BY <1>3, <2>1, <2>2
<1>4. ASSUME NEW b \in DOMAIN backups, NEW record \in BOOLEAN, Restore(b, record)
      PROVE  ChatType'
  <2>1. file' \in Files
    BY <1>4, BackupIsFile DEF Restore
  <2>2. CompactionType'
    <3>1. CASE record
      BY <1>1, <1>4, <3>1, BackupMade DEF Restore, ChatType
    <3>2. CASE ~record
      BY <1>4, <3>2 DEF Restore, ChatType, CompactionType
    <3>. QED
      BY <3>1, <3>2
  <2>3. PastType'
    BY <1>4 DEF Restore, ChatType, PastType
  <2>. QED
    BY <1>2, <1>4, <2>1, <2>2, <2>3 DEF Restore, ChatType, TurnType
<1>5. CASE DeleteConversation
  <2>1. <<>> \in Seq(Messages)
    BY EmptySeq
  <2>0. 0 \in 0..Capacity
    BY ConversationAssumption
  <2>2. file' \in Files
    BY <1>1, <1>5, <2>0, <2>1 DEF DeleteConversation, Files
  <2>3. CompactionType' /\ TurnType' /\ PastType'
    BY <1>5 DEF DeleteConversation, ChatType, CompactionType, TurnType, PastType
  <2>. QED
    BY <1>2, <2>2, <2>3 DEF ChatType
<1>. QED
  BY <1>3, <1>4, <1>5 DEF ClientRewrites

LEMMA ResumeKeepsTypes ==
    ASSUME ChatType, NEW o \in Owners, ResumeTurn(o)
    PROVE  TurnType'
BY DEF ResumeTurn, ChatType, TurnType, TurnRecords, TurnPCs

LEMMA ResumedFile ==
    ASSUME NEW f \in Files, NEW o \in Owners
    PROVE  /\ Resumed(f, o) \in Files
           /\ Resumed(f, o).exists = f.exists
           /\ Resumed(f, o).msgs = f.msgs
           /\ Resumed(f, o).slot =
                IF /\ o \in Turns
                   /\ turn[o].pc = "compacting"
                   /\ f.exists
                THEN [turn |-> o, status |-> "streaming"]
                ELSE f.slot
BY SlotSetFile DEF Resumed

LEMMA CommittedFile ==
    ASSUME ChatType, NEW o \in Owners, comp[o].pc = "summarizing"
    PROVE  /\ Committed(o) \in Files
           /\ Committed(o).exists = file.exists
           /\ Committed(o).msgs = file.msgs
           /\ Committed(o).slot = file.slot
<1>1. file \in Files
  BY DEF ChatType
<1>2. Saving(o) \in Nat
  <2>1. IsFiniteSet(comp[o].dropped) /\ comp[o].dropped # {}
    BY DEF ChatType, CompactionType
  <2>2. Cardinality(comp[o].dropped) \in Nat /\ Cardinality(comp[o].dropped) # 0
    BY <2>1, FS_CardinalityType, FS_EmptySet
  <2>. QED
    BY <2>2 DEF Saving
<1>. DEFINE f == Released(file, Saving(o))
<1>3. /\ f \in Files /\ f.exists = file.exists
      /\ f.msgs = file.msgs /\ f.slot = file.slot
  BY <1>1, <1>2, ReleasedFile
<1>4. comp[o].backup \in Nat
  BY DEF ChatType, CompactionType, CompactionRecords
<1>5. Committed(o) = IF file.exists
                     THEN [f EXCEPT !.records = @ \cup {comp[o].backup}]
                     ELSE file
  BY DEF Committed
<1>. HIDE DEF f
<1>. QED
  BY <1>1, <1>3, <1>4, <1>5 DEF Files

LEMMA CompactionKeepsTypes ==
    ASSUME ChatType, NEW o \in Owners, CompactionSteps(o)
    PROVE  ChatType'
<1>1. file \in Files
  BY DEF ChatType
<1>2. CASE CompactionCommits(o)
  <2>1. TurnType'
    BY <1>2, ResumeKeepsTypes DEF CompactionCommits
  <2>2. file' \in Files
    BY <1>2, CommittedFile, ResumedFile DEF CompactionCommits
  <2>3. CompactionType'
    BY <1>2, CompactionEnds DEF CompactionCommits, ChatType
  <2>4. stale' \in BOOLEAN
    BY <1>2 DEF CompactionCommits, ChatType, PastType
  <2>. QED
    BY <1>2, <2>1, <2>2, <2>3, <2>4 DEF CompactionCommits, ChatType, CountType, PastType
<1>3. CASE CompactionFails(o)
  <2>1. TurnType'
    BY <1>3, ResumeKeepsTypes DEF CompactionFails
  <2>2. file' \in Files
    <3>1. comp[o].backup \in DOMAIN backups
      BY <1>3 DEF CompactionFails, ChatType, CompactionType
    <3>. QED
      BY <1>3, <3>1, BackupIsFile, ResumedFile DEF CompactionFails
  <2>3. CompactionType'
    BY <1>3, CompactionEnds DEF CompactionFails, ChatType
  <2>4. CountType'
    <3>1. count.faults + 1 \in 0..MaxEvents
      BY <1>3, RoomForEvent DEF CompactionFails, ChatType
    <3>. QED
      BY <1>3, <3>1 DEF CompactionFails, ChatType, CountType
  <2>5. PastType'
    BY <1>3 DEF CompactionFails, ChatType, PastType
  <2>. QED
    BY <2>1, <2>2, <2>3, <2>4, <2>5 DEF ChatType
<1>4. CASE o \in Turns /\ PostTurnCompaction(o)
  <2>1. CompactionType'
    <3>1. CASE Starts(o)
      BY <1>1, <3>1, CompactionStarts DEF Starts, ChatType
    <3>2. CASE comp' = [comp EXCEPT ![o] = NoCompaction] /\ UNCHANGED backups
      BY <3>2, CompactionEnds DEF ChatType
    <3>. QED
      BY <1>4, <3>1, <3>2 DEF PostTurnCompaction
  <2>. QED
    BY <1>4, <2>1 DEF PostTurnCompaction, ChatType, TurnType, CountType, PastType
<1>. QED
  BY <1>2, <1>3, <1>4 DEF CompactionSteps

LEMMA AbandonKeepsTypes ==
    ASSUME ChatType, NEW t \in Turns, Abandon(t)
    PROVE  ChatType'
<1>1. turn[t] \in TurnRecords
  BY DEF ChatType, TurnType
<1>2. TurnType'
  <2>1. \E r \in TurnRecords : turn' = [turn EXCEPT ![t] = r]
    BY <1>1, EndedIsRecord DEF Abandon
  <2>. QED
    BY <2>1, TurnRecordSet DEF ChatType
<1>3. CompactionType'
  BY CompactionEnds, OwnersSplit DEF Abandon, ChatType
<1>. QED
  BY <1>2, <1>3 DEF Abandon, ChatType, CountType, PastType

LEMMA RestKeepsTypes ==
    ASSUME ChatType,
           \/ \E o \in Manuals : CompactConversation(o)
           \/ \E m \in Messages : Pin(m)
           \/ Crash
           \/ UNCHANGED chat
    PROVE  ChatType'
<1>1. file \in Files
  BY DEF ChatType
<1>2. ASSUME NEW o \in Manuals, CompactConversation(o) PROVE ChatType'
  <2>1. CompactionType'
    BY <1>1, <1>2, CompactionStarts, OwnersSplit DEF CompactConversation, Starts, ChatType
  <2>2. CountType'
    BY <1>2, ConversationAssumption DEF CompactConversation, ChatType, CountType
  <2>. QED
    BY <1>2, <2>1, <2>2 DEF CompactConversation, ChatType, TurnType, PastType
<1>3. ASSUME NEW m \in Messages, Pin(m) PROVE ChatType'
  <2>1. file' \in Files
    BY <1>1, <1>3 DEF Pin, Files
  <2>2. CountType'
    <3>1. count.rewrites + 1 \in 0..MaxEvents
      BY <1>3, RoomForEvent DEF Pin, ChatType
    <3>. QED
      BY <1>3, <3>1 DEF Pin, ChatType, CountType
  <2>. QED
    BY <1>3, <2>1, <2>2 DEF Pin, ChatType, TurnType, CompactionType, PastType
<1>4. CASE Crash
  <2>1. TurnType'
    BY <1>4, EndedIsRecord DEF Crash, ChatType, TurnType
  <2>2. CountType'
    <3>1. count.crashes + 1 \in 0..MaxEvents
      BY <1>4, RoomForEvent DEF Crash, ChatType
    <3>. QED
      BY <1>4, <3>1 DEF Crash, ChatType, CountType
  <2>3. CompactionType'
    BY <1>4 DEF Crash, ChatType, CompactionType, CompactionRecords, NoCompaction
  <2>4. stale' \in BOOLEAN
    BY <1>4 DEF Crash
  <2>. QED
    BY <1>4, <2>1, <2>2, <2>3, <2>4 DEF Crash, ChatType, PastType
<1>5. CASE UNCHANGED chat
  BY <1>5 DEF chat, ChatType, TurnType, CompactionType, CountType, PastType
<1>. QED
  BY <1>2, <1>3, <1>4, <1>5

LEMMA ChatTypeNext == ChatType /\ [ChatNext]_chat => ChatType'
<1>. SUFFICES ASSUME ChatType, [ChatNext]_chat PROVE ChatType'
  OBVIOUS
<1>1. ASSUME NEW t \in Turns, Send(t) PROVE ChatType'
  <2>1. t \in 0..MaxTurns
    BY ConversationAssumption DEF Turns
  <2>. QED
    BY <1>1, <2>1, PrepareKeepsTypes DEF Send
<1>2. ASSUME NEW t \in Turns, TurnSteps(t) PROVE ChatType'
  BY <1>2, TurnKeepsTypes
<1>3. ASSUME NEW t \in Turns, Abandon(t) PROVE ChatType'
  BY <1>3, AbandonKeepsTypes
<1>4. ASSUME NEW t \in Turns, NEW i \in DOMAIN file.msgs, Regenerate(t, i)
      PROVE  ChatType'
  BY <1>4, RegenerateKeepsTypes
<1>5. ASSUME NEW o \in Owners, CompactionSteps(o) PROVE ChatType'
  BY <1>5, CompactionKeepsTypes
<1>6. CASE ClientRewrites
  BY <1>6, ClientKeepsTypes
<1>. QED
  BY <1>1, <1>2, <1>3, <1>4, <1>5, <1>6, RestKeepsTypes DEF ChatNext

\* Types of the state of a conversation, its turns and its compactions.
THEOREM ConversationTypes == ChatSpec => []ChatTypeOK
BY ChatTypeInit, ChatTypeNext, ChatTypeImpliesOK, PTL DEF ChatSpec

-----------------------------------------------------------------------------
(* What is stored and not taken away stays                                   *)

LEMMA MembersOfAppended ==
    ASSUME NEW f \in Files, NEW new \in Seq(Messages)
    PROVE  Members(Appended(f, new).msgs) = Members(f.msgs) \cup Members(new)
<1>1. Appended(f, new).msgs = f.msgs \o new
  BY AppendedFile
<1>2. f.msgs \in Seq(Messages)
  BY DEF Files
<1>. QED
  BY <1>1, <1>2, MembersOfConcat

LEMMA MembersOfOne ==
    ASSUME NEW m
    PROVE  Members(<<m>>) = {m}
BY DEF Members

LEMMA PrepareLoses ==
    ASSUME ChatType, NothingLost, file.exists, NEW t \in Turns, NEW n,
           Prepare(t, n), gone' = gone
    PROVE  NothingLost' /\ file'.exists
<1>. DEFINE f == Appended(file, <<User(t)>>)
<1>1. <<User(t)>> \in Seq(Messages) /\ file \in Files
  BY TurnsAreMessages DEF ChatType
<1>2. /\ f \in Files
      /\ f.exists
      /\ Members(f.msgs) = Members(file.msgs) \cup {User(t)}
  BY <1>1, AppendedFile, MembersOfAppended, MembersOfOne
<1>3. written' = written \cup {User(t)}
  BY DEF Prepare
<1>4. file' = f \/ file' = SlotSet(f, t, "streaming")
  BY DEF Prepare
<1>. HIDE DEF f
<1>5. file'.msgs = f.msgs /\ file'.exists = f.exists
  <2>1. /\ SlotSet(f, t, "streaming").msgs = f.msgs
        /\ SlotSet(f, t, "streaming").exists = f.exists
    BY <1>2, SlotSetFile
  <2>. QED
    BY <1>4, <2>1, Zenon
<1>. QED
  BY <1>2, <1>3, <1>5 DEF NothingLost

LEMMA TurnLosesNothing ==
    ASSUME ChatType, NothingLost, NEW t \in Turns, TurnSteps(t)
    PROVE  NothingLost' /\ file'.exists = file.exists
<1>1. file \in Files
  BY DEF ChatType
<1>2. CASE Resend(t)
  <2>1. CASE file.exists /\ Prepare(t, turn[t].asks)
    <3>1. file'.exists \in BOOLEAN
      BY <1>2, ChatTypeNext DEF ChatNext, TurnSteps, ChatType, Files
    <3>. QED
      BY <1>2, <2>1, <3>1, <1>1, PrepareLoses DEF Resend, Files
  <2>2. CASE UNCHANGED <<file, written>>
    BY <1>2, <2>2 DEF Resend, NothingLost
  <2>. QED
    BY <1>2, <2>1, <2>2 DEF Resend
<1>3. CASE ToolLoopEnds(t) \/ AnswersAtOnce(t)
  BY <1>3 DEF ToolLoopEnds, AnswersAtOnce, NothingLost
<1>4. CASE StreamEnds(t)
  <2>1. file'.msgs = file.msgs /\ file'.exists = file.exists
    BY <1>1, <1>4, SlotSetFile DEF StreamEnds
  <2>. QED
    BY <1>4, <2>1 DEF StreamEnds, NothingLost
<1>5. CASE Persist(t)
  <2>1. CASE ~file.exists \/ UNCHANGED <<file, written>>
    BY <1>5, <2>1 DEF Persist, NothingLost
  <2>2. CASE /\ file.exists
             /\ file' = Appended(file, Reply(t))
             /\ written' = written \cup Members(Reply(t))
    <3>1. Reply(t) \in Seq(Messages)
      BY ReplyOfMessages
    <3>2. /\ file'.exists = file.exists
          /\ Members(file'.msgs) = Members(file.msgs) \cup Members(Reply(t))
      BY <1>1, <2>2, <3>1, AppendedFile, MembersOfAppended
    <3>. QED
      BY <1>5, <2>2, <3>2 DEF Persist, NothingLost
  <2>. QED
    BY <1>5, <2>1, <2>2 DEF Persist
<1>6. CASE Close(t)
  <2>1. file'.msgs = file.msgs /\ file'.exists = file.exists
    BY <1>1, <1>6, SlotClearedFile DEF Close
  <2>. QED
    BY <1>6, <2>1 DEF Close, NothingLost
<1>. QED
  BY <1>2, <1>3, <1>4, <1>5, <1>6 DEF TurnSteps

LEMMA CompactionLosesNothing ==
    ASSUME ChatType, NothingLost, NEW o \in Owners, CompactionSteps(o)
    PROVE  /\ NothingLost'
           /\ \/ file'.exists = file.exists
              \/ count'.faults > count.faults
<1>1. CASE CompactionCommits(o)
  <2>1. file'.msgs = file.msgs /\ file'.exists = file.exists
    BY <1>1, CommittedFile, ResumedFile DEF CompactionCommits
  <2>. QED
    BY <1>1, <2>1 DEF CompactionCommits, NothingLost
<1>2. CASE CompactionFails(o)
  <2>1. comp[o].backup \in DOMAIN backups
    BY <1>2 DEF CompactionFails, ChatType, CompactionType
  <2>2. file'.msgs = backups[comp[o].backup].msgs
    BY <1>2, <2>1, BackupIsFile, ResumedFile DEF CompactionFails
  <2>3. count'.faults = count.faults + 1 /\ count.faults \in Nat
    BY <1>2 DEF CompactionFails, ChatType, CountType
  <2>. QED
    BY <1>2, <2>2, <2>3 DEF CompactionFails, NothingLost
<1>3. CASE o \in Turns /\ PostTurnCompaction(o)
  BY <1>3 DEF PostTurnCompaction, NothingLost
<1>. QED
  BY <1>1, <1>2, <1>3 DEF CompactionSteps

LEMMA RewriteTakesAway ==
    ASSUME ChatType, NothingLost, NEW s \in Seq(Messages), Rewrite(s)
    PROVE  NothingLost'
<1>1. file'.msgs = s /\ file'.exists = file.exists
  BY RewrittenFile DEF Rewrite, ChatType
<1>. QED
  BY <1>1 DEF Rewrite, NothingLost

LEMMA NothingLostNext ==
    ASSUME ChatType, NothingLost, [ChatNext]_chat
    PROVE  /\ NothingLost'
           /\ ~file.exists /\ file'.exists => count'.faults > count.faults
<1>1. file \in Files /\ file.msgs \in Seq(Messages)
  BY DEF ChatType, Files
<1>2. ASSUME NEW t \in Turns, Send(t)
      PROVE  NothingLost' /\ file.exists
  BY <1>2, PrepareLoses DEF Send
<1>3. ASSUME NEW t \in Turns, Abandon(t)
      PROVE  NothingLost' /\ file' = file
  BY <1>3 DEF Abandon, NothingLost
<1>4. ASSUME NEW t \in Turns, NEW i \in DOMAIN file.msgs, Regenerate(t, i)
      PROVE  NothingLost' /\ file.exists
  <2>1. PICK n \in {i - 1, i - 2} :
          /\ n \in Nat /\ n <= Len(file.msgs)
          /\ file' = Rewritten(file, SubSeq(file.msgs, 1, n))
          /\ gone' = gone \cup (Members(file.msgs)
                                  \ Members(SubSeq(file.msgs, 1, n)))
    <3>1. i \in 1..Len(file.msgs) /\ Len(file.msgs) \in Nat
      BY <1>1, LenProperties
    <3>. QED
      BY <1>4, <3>1 DEF Regenerate
  <2>2. SubSeq(file.msgs, 1, n) \in Seq(Messages)
    BY <1>1, <2>1, SubSeqOfMessages
  <2>3. file'.msgs = SubSeq(file.msgs, 1, n)
    BY <1>1, <2>1, <2>2, RewrittenFile
  <2>. QED
    BY <1>4, <2>1, <2>3 DEF Regenerate, NothingLost
<1>5. ASSUME ClientRewrites
      PROVE  NothingLost' /\ file.exists
  <2>1. ASSUME NEW i \in DOMAIN file.msgs, DeleteMessage(i)
        PROVE  NothingLost'
    <3>1. KeptOf(i) \in Seq(Messages)
      BY <1>1, DeletedBefore, CutOut DEF KeptOf
    <3>. QED
      BY <2>1, <3>1, RewriteTakesAway DEF DeleteMessage, KeptOf
  <2>2. ASSUME NEW i \in DOMAIN file.msgs, EditMessage(i)
        PROVE  NothingLost'
    BY <1>1, <2>2, RewriteTakesAway DEF EditMessage
  <2>3. ASSUME NEW b \in DOMAIN backups, NEW record \in BOOLEAN, Restore(b, record)
        PROVE  NothingLost'
    BY <2>3 DEF Restore, NothingLost
  <2>4. ASSUME DeleteConversation PROVE NothingLost'
    <3>1. ~file'.exists
      BY <1>1, <2>4 DEF DeleteConversation, Files
    <3>. QED
      BY <3>1 DEF NothingLost
  <2>. QED
    BY <1>5, <2>1, <2>2, <2>3, <2>4 DEF ClientRewrites
<1>6. ASSUME NEW o \in Manuals, CompactConversation(o)
      PROVE  NothingLost' /\ file' = file
  BY <1>6 DEF CompactConversation, NothingLost
<1>7. ASSUME NEW m \in Messages, Pin(m)
      PROVE  NothingLost' /\ file.exists
  <2>1. file'.exists = file.exists /\ file'.msgs = file.msgs
    BY <1>1, <1>7 DEF Pin, Files
  <2>. QED
    BY <1>7, <2>1 DEF Pin, NothingLost
<1>8. CASE Crash \/ UNCHANGED chat
  BY <1>8 DEF Crash, chat, NothingLost
<1>9. ASSUME NEW t \in Turns, TurnSteps(t)
      PROVE  NothingLost' /\ file'.exists = file.exists
  BY <1>9, TurnLosesNothing
<1>10. ASSUME NEW o \in Owners, CompactionSteps(o)
       PROVE  /\ NothingLost'
              /\ \/ file'.exists = file.exists
                 \/ count'.faults > count.faults
  BY <1>10, CompactionLosesNothing
<1>. QED
  BY <1>2, <1>3, <1>4, <1>5, <1>6, <1>7, <1>8, <1>9, <1>10 DEF ChatNext

LEMMA NothingLostInit == ChatInit => NothingLost
BY DEF ChatInit, NothingLost

\* A message that a turn has stored stays, whatever other turns, rewrites and
\* compactions read and write around it (append_message, rewrite_messages,
\* replace_conversation in the store of the conversations).
THEOREM NothingIsLost == ChatSpec => []NothingLost
BY ChatTypeInit, ChatTypeNext, NothingLostInit, NothingLostNext, PTL DEF ChatSpec

\* A conversation once deleted is not written again, except by a commit that
\* fails and puts its backup back.
THEOREM DeletedStaysDeleted == ChatSpec => NoResurrection
<1>1. ChatType /\ NothingLost /\ [ChatNext]_chat
        => [~file.exists /\ file'.exists => count'.faults > count.faults]_chat
  BY NothingLostNext
<1>. QED
  BY <1>1, ChatTypeInit, ChatTypeNext, NothingLostInit, NothingLostNext, PTL
  DEF ChatSpec, NoResurrection

-----------------------------------------------------------------------------
(* The backups                                                               *)

BackupsThere == \A b \in DOMAIN backups : backups[b].exists

LEMMA BackupsGrow ==
    ASSUME ChatType, [ChatNext]_chat
    PROVE  \/ backups' = backups
           \/ \E f \in {file, file'} : /\ f \in Files /\ f.exists
                                      /\ backups' = Append(backups, f)
<1>1. file \in Files
  BY DEF ChatType
<1>2. ASSUME NEW t \in Turns, NEW n, file.exists, Prepare(t, n)
      PROVE  \/ backups' = backups
             \/ /\ file' \in Files /\ file'.exists
                /\ backups' = Append(backups, file')
  <2>. DEFINE g == Appended(file, <<User(t)>>)
  <2>1. <<User(t)>> \in Seq(Messages)
    BY TurnsAreMessages
  <2>2. g \in Files /\ g.exists = file.exists
    BY <1>1, <2>1, AppendedFile
  <2>3. \/ backups' = backups
        \/ file' = g /\ backups' = Append(backups, g)
    BY <1>2 DEF Prepare
  <2>. HIDE DEF g
  <2>. QED
    BY <1>2, <2>2, <2>3
<1>3. ASSUME NEW t \in Turns, Send(t) \/ Resend(t)
      PROVE  \/ backups' = backups
             \/ \E f \in {file, file'} : /\ f \in Files /\ f.exists
                                        /\ backups' = Append(backups, f)
  <2>1. CASE UNCHANGED backups
    BY <2>1
  <2>2. CASE file.exists /\ \E n : Prepare(t, n)
    BY <1>2, <2>2
  <2>. QED
    BY <1>3, <2>1, <2>2 DEF Send, Resend
<1>4. ASSUME NEW t \in Turns, TurnSteps(t), ~Resend(t)
      PROVE  backups' = backups
  BY <1>4 DEF TurnSteps, ToolLoopEnds, AnswersAtOnce, StreamEnds, Persist, Close
<1>5. ASSUME NEW t \in Turns, Abandon(t) \/ \E i \in DOMAIN file.msgs : Regenerate(t, i)
      PROVE  backups' = backups
  BY <1>5 DEF Abandon, Regenerate
<1>6. ASSUME NEW o \in Owners, \/ CompactionSteps(o) /\ ~PostTurnCompaction(o)
                              \/ \E m \in Messages : Pin(m)
                              \/ Crash
                              \/ UNCHANGED chat
      PROVE  backups' = backups
  BY <1>6, Zenon DEF CompactionSteps, CompactionCommits, CompactionFails, Pin, Crash, chat
<1>7. ASSUME NEW o \in Owners, Starts(o)
      PROVE  file.exists /\ backups' = Append(backups, file)
  BY <1>7 DEF Starts
<1>8. ASSUME NEW o \in Owners, PostTurnCompaction(o)
      PROVE  \/ backups' = backups
             \/ file.exists /\ backups' = Append(backups, file)
  BY <1>7, <1>8, Zenon DEF PostTurnCompaction
<1>9. ASSUME NEW o \in Manuals, CompactConversation(o)
      PROVE  file.exists /\ backups' = Append(backups, file)
  <2>1. o \in Owners /\ Starts(o)
    BY <1>9, OwnersSplit DEF CompactConversation
  <2>. QED
    BY <1>7, <2>1
<1>10. CASE ClientRewrites
  <2>1. file.exists
    BY <1>10 DEF ClientRewrites
  <2>2. ASSUME NEW b, NEW record \in BOOLEAN, Restore(b, record)
        PROVE  backups' = backups \/ backups' = Append(backups, file)
    BY <2>2 DEF Restore
  <2>3. ASSUME NEW s, Rewrite(s) PROVE backups' = backups
    BY <2>3 DEF Rewrite
  <2>4. backups' = backups \/ backups' = Append(backups, file)
    BY <1>10, <2>2, <2>3
    DEF ClientRewrites, EditMessage, DeleteMessage, DeleteConversation
  <2>. QED
    BY <1>1, <2>1, <2>4
<1>11. CASE UNCHANGED chat \/ Crash \/ \E m \in Messages : Pin(m)
  BY <1>11 DEF Pin, Crash, chat
<1>. QED
  BY <1>1, <1>3, <1>4, <1>5, <1>6, <1>8, <1>9, <1>10, <1>11 DEF ChatNext, TurnSteps

LEMMA BackupsThereNext ==
    ASSUME ChatType, BackupsThere, [ChatNext]_chat
    PROVE  BackupsThere'
<1>1. CASE backups' = backups
  BY <1>1 DEF BackupsThere
<1>2. ASSUME NEW f \in Files, f.exists, backups' = Append(backups, f)
      PROVE  BackupsThere'
  <2>1. /\ backups \in Seq(Files)
        /\ DOMAIN backups = 1..Len(backups) /\ Len(backups) \in Nat
    BY LenProperties DEF ChatType, CompactionType
  <2>2. /\ DOMAIN backups' = 1..(Len(backups) + 1)
        /\ \A b \in 1..Len(backups) : backups'[b] = backups[b]
        /\ backups'[Len(backups) + 1] = f
    BY <1>2, <2>1, AppendProperties, LenProperties
  <2>. QED
    BY <1>2, <2>1, <2>2 DEF BackupsThere
<1>. QED
  BY <1>1, <1>2, BackupsGrow

-----------------------------------------------------------------------------
(* Who holds the slot                                                        *)

LivePCs(status) ==
    IF status = "streaming"
    THEN {"thinking", "streaming", "finishing", "replied", "closing"}
    ELSE {"finishing", "replied", "closing"}

\* Only a conversation that is there has a slot.
SlotInv ==
    /\ ~file.exists => file.slot = NoSlot
    /\ file.slot # NoSlot /\ ~stale =>
         turn[file.slot.turn].pc \in LivePCs(file.slot.status)

LEMMA SlotInvNames == SlotInv => SlotNamesLiveTurn
BY DEF SlotInv, SlotNamesLiveTurn, LivePCs

LEMMA SlotIsTyped ==
    ASSUME ChatType
    PROVE  file.slot # NoSlot => /\ file.slot.turn \in Turns
                                 /\ file.slot.status \in {"streaming", "finishing"}
BY DEF ChatType, Files

\* A turn moves on and leaves the slot as it is.
LEMMA SlotStays ==
    ASSUME ChatType, SlotInv, NEW t \in Turns,
           file'.slot = file.slot, file'.exists = file.exists,
           stale' = stale \/ file.slot = NoSlot,
           \A u \in Turns \ {t} : turn'[u] = turn[u],
           \A status \in {"streaming", "finishing"} :
               turn[t].pc \in LivePCs(status) => turn'[t].pc \in LivePCs(status)
    PROVE  SlotInv'
BY SlotIsTyped DEF SlotInv

\* A turn takes the slot.
LEMMA SlotTaken ==
    ASSUME NEW t \in Turns, NEW status \in {"streaming", "finishing"},
           file'.exists, file'.slot = [turn |-> t, status |-> status],
           turn'[t].pc \in LivePCs(status)
    PROVE  SlotInv'
BY DEF SlotInv

\* Nobody does, or whoever did is not asked for.
LEMMA SlotUnclaimed ==
    ASSUME ~file'.exists => file'.slot = NoSlot,
           file'.slot = NoSlot \/ stale'
    PROVE  SlotInv'
BY DEF SlotInv

LEMMA PrepareTakesSlot ==
    ASSUME ChatType, SlotInv, file.exists, NEW t \in Turns, NEW n,
           turn[t].pc \in {"idle", "resending"}, Prepare(t, n)
    PROVE  SlotInv'
<1>. DEFINE f == Appended(file, <<User(t)>>)
<1>1. <<User(t)>> \in Seq(Messages) /\ file \in Files
  BY TurnsAreMessages DEF ChatType
<1>2. f \in Files /\ f.exists = file.exists /\ f.slot = file.slot
  BY <1>1, AppendedFile
<1>3. \/ /\ file' = f
         /\ turn' = [turn EXCEPT ![t].pc = "compacting", ![t].asks = n]
         /\ stale' = stale
      \/ /\ file' = SlotSet(f, t, "streaming")
         /\ turn' = [turn EXCEPT ![t].pc = "thinking", ![t].asks = n]
  BY DEF Prepare
<1>. HIDE DEF f
<1>4. CASE /\ file' = f
           /\ turn' = [turn EXCEPT ![t].pc = "compacting", ![t].asks = n]
           /\ stale' = stale
  <2>1. \A u \in Turns \ {t} : turn'[u] = turn[u]
    BY <1>4 DEF ChatType, TurnType
  <2>2. \A status : turn[t].pc \notin LivePCs(status)
    BY DEF LivePCs
  <2>. QED
    BY <1>2, <1>4, <2>1, <2>2, SlotStays
<1>5. CASE /\ file' = SlotSet(f, t, "streaming")
           /\ turn' = [turn EXCEPT ![t].pc = "thinking", ![t].asks = n]
  <2>1. turn'[t].pc \in LivePCs("streaming")
    BY <1>5 DEF ChatType, TurnType, TurnRecords, LivePCs
  <2>2. /\ SlotSet(f, t, "streaming").exists = f.exists
        /\ SlotSet(f, t, "streaming").slot =
             IF f.exists THEN [turn |-> t, status |-> "streaming"] ELSE f.slot
    BY <1>2, SlotSetFile
  <2>3. file'.exists /\ file'.slot = [turn |-> t, status |-> "streaming"]
    BY <1>2, <1>5, <2>2
  <2>. QED
    BY <2>1, <2>3, SlotTaken
<1>. QED
  BY <1>3, <1>4, <1>5

LEMMA TurnKeepsSlot ==
    ASSUME ChatType, SlotInv, NEW t \in Turns, TurnSteps(t)
    PROVE  SlotInv'
<1>1. file \in Files /\ turn \in [Turns -> TurnRecords]
  BY DEF ChatType, TurnType
<1>2. CASE Resend(t)
  <2>1. CASE file.exists /\ Prepare(t, turn[t].asks)
    BY <1>2, <2>1, PrepareTakesSlot DEF Resend
  <2>2. CASE /\ turn' = [turn EXCEPT ![t] = Ended(@)]
             /\ UNCHANGED <<file, stale>>
    <3>1. \A u \in Turns \ {t} : turn'[u] = turn[u]
      BY <1>1, <2>2
    <3>2. \A status : turn[t].pc \notin LivePCs(status)
      BY <1>2 DEF Resend, LivePCs
    <3>. QED
      BY <2>2, <3>1, <3>2, SlotStays
  <2>. QED
    BY <1>2, <2>1, <2>2 DEF Resend
<1>3. CASE ToolLoopEnds(t)
  <2>1. \A u \in Turns \ {t} : turn'[u] = turn[u]
    BY <1>1, <1>3 DEF ToolLoopEnds
  <2>2. turn[t].pc = "thinking" /\ turn'[t].pc = "streaming"
    <3>1. PICK r \in ToolsStored(t) :
            turn' = [turn EXCEPT ![t].pc = "streaming", ![t].tools = r]
      BY <1>3 DEF ToolLoopEnds
    <3>. QED
      BY <1>1, <1>3, <3>1 DEF ToolLoopEnds, TurnRecords
  <2>. QED
    BY <1>3, <2>1, <2>2, SlotStays DEF ToolLoopEnds, LivePCs
<1>4. CASE AnswersAtOnce(t)
  <2>1. \A u \in Turns \ {t} : turn'[u] = turn[u]
    BY <1>1, <1>4 DEF AnswersAtOnce
  <2>2. turn[t].pc = "thinking" /\ turn'[t].pc = "finishing"
    <3>1. PICK r : turn' = [turn EXCEPT ![t].pc = "finishing", ![t].path = r]
      BY <1>4 DEF AnswersAtOnce
    <3>. QED
      BY <1>1, <1>4, <3>1 DEF AnswersAtOnce, TurnRecords
  <2>. QED
    BY <1>4, <2>1, <2>2, SlotStays DEF AnswersAtOnce, LivePCs
<1>5. CASE StreamEnds(t)
  <2>1. turn[t].pc = "streaming" /\ turn'[t].pc = "finishing"
    BY <1>1, <1>5 DEF StreamEnds, TurnRecords
  <2>2. \A u \in Turns \ {t} : turn'[u] = turn[u]
    BY <1>1, <1>5 DEF StreamEnds
  <2>3. /\ file'.exists = file.exists
        /\ file'.slot = IF file.exists THEN [turn |-> t, status |-> "finishing"]
                        ELSE file.slot
    BY <1>1, <1>5, SlotSetFile DEF StreamEnds
  <2>4. CASE file.exists
    BY <2>1, <2>3, <2>4, SlotTaken DEF LivePCs
  <2>5. CASE ~file.exists
    BY <2>3, <2>5, SlotUnclaimed DEF SlotInv
  <2>. QED
    BY <2>4, <2>5
<1>6. CASE Persist(t)
  <2>1. \A u \in Turns \ {t} : turn'[u] = turn[u]
    BY <1>1, <1>6 DEF Persist
  <2>2. turn[t].pc = "finishing" /\ turn'[t].pc = "replied"
    <3>1. PICK r \in TurnRecords : r.pc = "replied" /\ turn' = [turn EXCEPT ![t] = r]
      <4>1. turn[t] \in TurnRecords /\ (turn[t].path # "error") \in BOOLEAN
        BY <1>1
      <4>. QED
        BY <1>6, <4>1, EndedIsRecord DEF Persist
    <3>. QED
      BY <1>1, <1>6, <3>1 DEF Persist
  <2>3. file'.slot = file.slot /\ file'.exists = file.exists
    <3>1. file' = file \/ file' = Appended(file, Reply(t))
      BY <1>6 DEF Persist
    <3>2. Reply(t) \in Seq(Messages)
      BY ReplyOfMessages
    <3>. QED
      BY <1>1, <3>1, <3>2, AppendedFile
  <2>. QED
    BY <1>6, <2>1, <2>2, <2>3, SlotStays DEF Persist, LivePCs
<1>7. CASE Close(t)
  <2>1. \A u \in Turns \ {t} : turn'[u] = turn[u]
    BY <1>1, <1>7 DEF Close
  <2>2. /\ file'.exists = file.exists
        /\ file'.slot = IF file.exists /\ file.slot.turn = t THEN NoSlot
                        ELSE file.slot
    BY <1>1, <1>7, SlotClearedFile DEF Close
  <2>3. CASE file'.slot = NoSlot
    BY <2>3, SlotUnclaimed
  <2>4. CASE file'.slot # NoSlot
    <3>1. file.slot # NoSlot /\ file.exists /\ file'.slot = file.slot /\ file.slot.turn # t
      BY <2>2, <2>4 DEF SlotInv
    <3>2. stale' = stale
      BY <1>7, <2>4 DEF Close, ChatType, PastType
    <3>. QED
      BY <2>1, <2>2, <3>1, <3>2, SlotIsTyped DEF SlotInv
  <2>. QED
    BY <2>3, <2>4
<1>. QED
  BY <1>2, <1>3, <1>4, <1>5, <1>6, <1>7 DEF TurnSteps

LEMMA CompactionKeepsSlot ==
    ASSUME ChatType, SlotInv, BackupsThere, NEW o \in Owners, CompactionSteps(o)
    PROVE  SlotInv'
<1>1. file \in Files /\ turn \in [Turns -> TurnRecords]
  BY DEF ChatType, TurnType
<1>2. CASE CompactionCommits(o)
  <2>. DEFINE f == Committed(o)
  <2>1. f \in Files /\ f.exists = file.exists /\ f.slot = file.slot
    BY <1>2, CommittedFile DEF CompactionCommits
  <2>2. /\ file' = Resumed(f, o) /\ ResumeTurn(o)
        /\ stale' = IF file'.slot = file.slot THEN stale ELSE FALSE
    BY <1>2 DEF CompactionCommits
  <2>. HIDE DEF f
  <2>3. /\ file'.exists = file.exists
        /\ file'.slot = IF /\ o \in Turns /\ turn[o].pc = "compacting"
                           /\ file.exists
                        THEN [turn |-> o, status |-> "streaming"]
                        ELSE file.slot
    BY <2>1, <2>2, ResumedFile
  <2>4. CASE o \in Turns /\ turn[o].pc = "compacting"
    <3>1. turn'[o].pc = "thinking"
      BY <1>1, <2>2, <2>4 DEF ResumeTurn, TurnRecords
    <3>2. CASE file.exists
      BY <2>3, <2>4, <3>1, <3>2, SlotTaken DEF LivePCs
    <3>3. CASE ~file.exists
      BY <2>3, <3>3, SlotUnclaimed DEF SlotInv
    <3>. QED
      BY <3>2, <3>3
  <2>5. CASE ~(o \in Turns /\ turn[o].pc = "compacting")
    <3>1. turn' = turn
      BY <2>2, <2>5 DEF ResumeTurn
    <3>. QED
      BY <2>2, <2>3, <2>5, <3>1 DEF SlotInv
  <2>. QED
    BY <2>4, <2>5
<1>3. CASE CompactionFails(o)
  <2>. DEFINE b == backups[comp[o].backup]
  <2>1. comp[o].backup \in DOMAIN backups
    BY <1>3 DEF CompactionFails, ChatType, CompactionType
  <2>2. b \in Files
    BY <2>1, BackupIsFile
  <2>3. /\ file' = Resumed(b, o) /\ ResumeTurn(o)
        /\ stale' = (file'.slot = b.slot /\ b.slot # NoSlot)
    BY <1>3 DEF CompactionFails
  <2>4. b.exists
    BY <2>1 DEF BackupsThere
  <2>. HIDE DEF b
  <2>5. /\ file'.exists = b.exists
        /\ file'.slot = IF o \in Turns /\ turn[o].pc = "compacting" /\ b.exists
                        THEN [turn |-> o, status |-> "streaming"]
                        ELSE b.slot
    BY <2>2, <2>3, ResumedFile
  <2>6. file'.exists
    BY <2>4, <2>5
  <2>7. CASE o \in Turns /\ turn[o].pc = "compacting"
    <3>1. turn'[o].pc = "thinking"
      BY <1>1, <2>3, <2>7 DEF ResumeTurn, TurnRecords
    <3>. QED
      BY <2>4, <2>5, <2>6, <2>7, <3>1, SlotTaken DEF LivePCs
  <2>8. CASE ~(o \in Turns /\ turn[o].pc = "compacting")
    <3>1. file'.slot = b.slot
      BY <2>5, <2>8
    <3>2. file'.slot = NoSlot \/ stale'
      BY <2>3, <3>1
    <3>. QED
      BY <2>6, <3>2, SlotUnclaimed
  <2>. QED
    BY <2>7, <2>8
<1>4. CASE o \in Turns /\ PostTurnCompaction(o)
  BY <1>4 DEF PostTurnCompaction, SlotInv
<1>. QED
  BY <1>2, <1>3, <1>4 DEF CompactionSteps

LEMMA SlotInvNext ==
    ASSUME ChatType, SlotInv, BackupsThere, [ChatNext]_chat
    PROVE  SlotInv'
<1>1. file \in Files /\ turn \in [Turns -> TurnRecords]
  BY DEF ChatType, TurnType
<1>2. ASSUME NEW t \in Turns, Send(t) PROVE SlotInv'
  BY <1>2, PrepareTakesSlot DEF Send, IsNext
<1>3. ASSUME NEW t \in Turns, TurnSteps(t) PROVE SlotInv'
  BY <1>3, TurnKeepsSlot
<1>4. ASSUME NEW t \in Turns, Abandon(t) PROVE SlotInv'
  <2>1. \A u \in Turns \ {t} : turn'[u] = turn[u]
    BY <1>1, <1>4 DEF Abandon
  <2>2. CASE turn[t].pc \in {"resending", "compacting"}
    <3>1. \A status : turn[t].pc \notin LivePCs(status)
      BY <2>2 DEF LivePCs
    <3>. QED
      BY <1>4, <2>1, <3>1, SlotStays DEF Abandon
  <2>3. CASE turn[t].pc \in {"thinking", "streaming", "finishing"}
    <3>1. turn'[t] = [Ended(turn[t]) EXCEPT !.pc = "closing"]
      BY <1>1, <1>4, <2>3 DEF Abandon
    <3>2. turn'[t].pc = "closing"
      BY <3>1 DEF Ended, NoTurn
    <3>. QED
      BY <1>4, <2>1, <3>2, SlotStays DEF Abandon, LivePCs
  <2>. QED
    BY <1>4, <2>2, <2>3 DEF Abandon
<1>5. ASSUME NEW t \in Turns, NEW i \in DOMAIN file.msgs, Regenerate(t, i)
      PROVE  SlotInv'
  <2>1. file'.slot = file.slot /\ file'.exists = file.exists
    <3>1. PICK kept : file' = Rewritten(file, kept)
      BY <1>5 DEF Regenerate
    <3>. QED
      BY <1>1, <3>1 DEF Rewritten, Files
  <2>2. \A u \in Turns \ {t} : turn'[u] = turn[u]
    BY <1>1, <1>5 DEF Regenerate
  <2>3. \A status : turn[t].pc \notin LivePCs(status)
    BY <1>5 DEF Regenerate, IsNext, LivePCs
  <2>. QED
    BY <1>5, <2>1, <2>2, <2>3, SlotStays DEF Regenerate
<1>6. ASSUME NEW o \in Owners, CompactionSteps(o) PROVE SlotInv'
  BY <1>6, CompactionKeepsSlot
<1>7. ASSUME NEW o \in Manuals, CompactConversation(o) PROVE SlotInv'
  BY <1>7 DEF CompactConversation, SlotInv
<1>8. CASE ClientRewrites
  <2>1. ASSUME NEW s, Rewrite(s) PROVE SlotInv'
    <3>1. file'.slot = file.slot /\ file'.exists = file.exists
      BY <1>1, <2>1 DEF Rewrite, Rewritten, Files
    <3>. QED
      BY <2>1, <3>1 DEF Rewrite, SlotInv
  <2>2. ASSUME NEW b \in DOMAIN backups, NEW record \in BOOLEAN, Restore(b, record)
        PROVE  SlotInv'
    <3>1. file'.exists
      BY <2>2 DEF Restore, BackupsThere
    <3>2. file'.slot = NoSlot \/ stale'
      BY <2>2 DEF Restore
    <3>. QED
      BY <3>1, <3>2, SlotUnclaimed
  <2>3. CASE DeleteConversation
    <3>1. file'.slot = NoSlot
      <4>1. PICK e : file' = [file EXCEPT !.exists = FALSE, !.msgs = e,
                               !.slot = NoSlot, !.used = 0, !.records = {},
                               !.pins = {}]
        BY <2>3, Zenon DEF DeleteConversation
      <4>. QED
        BY <1>1, <4>1 DEF Files
    <3>. QED
      BY <3>1, SlotUnclaimed
  <2>. QED
    BY <1>8, <2>1, <2>2, <2>3 DEF ClientRewrites, EditMessage, DeleteMessage
<1>9. ASSUME NEW m \in Messages, Pin(m) PROVE SlotInv'
  <2>1. file'.slot = file.slot /\ file'.exists = file.exists
    BY <1>1, <1>9 DEF Pin, Files
  <2>. QED
    BY <1>9, <2>1 DEF Pin, SlotInv
<1>10. CASE Crash
  BY <1>10, SlotUnclaimed DEF Crash, SlotInv
<1>11. CASE UNCHANGED chat
  BY <1>11 DEF chat, SlotInv
<1>. QED
  BY <1>2, <1>3, <1>4, <1>5, <1>6, <1>7, <1>8, <1>9, <1>10, <1>11 DEF ChatNext

LEMMA SlotInit == ChatInit => SlotInv /\ BackupsThere
BY DEF ChatInit, SlotInv, BackupsThere, NoSlot

\* The streaming slot on disk names a turn that will clear it, unless it came
\* back with a backup or outlived a crash (update_streaming_state, the finally
\* of send_message), however turns, compactions and rewrites overlap.
THEOREM SlotsAreLive == ChatSpec => []SlotNamesLiveTurn
BY ChatTypeInit, ChatTypeNext, SlotInit, BackupsThereNext, SlotInvNext,
   SlotInvNames, PTL DEF ChatSpec

-----------------------------------------------------------------------------
(* The order within a turn                                                   *)

LEMMA RankBounds ==
    /\ Rank["user"] = 1 /\ Rank["carrier"] = 2
    /\ Rank["result"] = 3 /\ Rank["answer"] = 4
    /\ \A k \in Kinds : Rank[k] \in 1..4
BY DEF Rank, Kinds

\* What is put behind an ordered list keeps it ordered if no turn of both says
\* in it what it had to say before.
LEMMA AppendKeepsOrder ==
    ASSUME NEW s \in Seq(Messages), NEW v \in Seq(Messages), Ordered(s), Ordered(v),
           \A i \in DOMAIN s, j \in DOMAIN v :
               s[i].turn = v[j].turn =>
                   /\ Rank[s[i].kind] < Rank[v[j].kind]
                   /\ s[i].kind # "carrier" \/ v[j].kind # "result"
    PROVE  Ordered(s \o v)
<1>. DEFINE c == s \o v
            n == Len(s)
<1>1. /\ c \in Seq(Messages) /\ n \in Nat /\ Len(v) \in Nat
      /\ DOMAIN s = 1..n /\ DOMAIN v = 1..Len(v) /\ DOMAIN c = 1..(n + Len(v))
      /\ \A i \in 1..(n + Len(v)) : c[i] = IF i <= n THEN s[i] ELSE v[i - n]
  BY ConcatProperties, LenProperties
<1>. HIDE DEF c, n
<1>. SUFFICES ASSUME NEW i \in DOMAIN c, NEW j \in DOMAIN c, c[i].turn = c[j].turn
              PROVE  /\ i < j <=> Rank[c[i].kind] < Rank[c[j].kind]
                     /\ c[i].kind = "carrier" /\ c[j].kind = "result" => j = i + 1
  BY DEF Ordered, c
<1>2. /\ i \in Nat /\ j \in Nat
      /\ i <= n => i \in DOMAIN s /\ c[i] = s[i]
      /\ j <= n => j \in DOMAIN s /\ c[j] = s[j]
      /\ i > n => i - n \in DOMAIN v /\ c[i] = v[i - n]
      /\ j > n => j - n \in DOMAIN v /\ c[j] = v[j - n]
  BY <1>1
<1>3. CASE i <= n /\ j <= n
  BY <1>2, <1>3 DEF Ordered
<1>4. CASE i > n /\ j > n
  <2>1. /\ i - n < j - n <=> Rank[c[i].kind] < Rank[c[j].kind]
        /\ c[i].kind = "carrier" /\ c[j].kind = "result" => j - n = (i - n) + 1
    BY <1>2, <1>4 DEF Ordered
  <2>. QED
    BY <1>1, <1>2, <2>1
<1>5. CASE i <= n /\ j > n
  <2>1. /\ Rank[c[i].kind] < Rank[c[j].kind]
        /\ c[i].kind # "carrier" \/ c[j].kind # "result"
    BY <1>2, <1>5
  <2>. QED
    BY <1>1, <1>2, <1>5, <2>1
<1>6. CASE i > n /\ j <= n
  <2>1. /\ Rank[c[j].kind] < Rank[c[i].kind]
    BY <1>2, <1>6
  <2>2. Rank[c[i].kind] \in 1..4 /\ Rank[c[j].kind] \in 1..4
    <3>1. c[i] \in Messages /\ c[j] \in Messages
      BY <1>1, ElementOfSeq
    <3>. QED
      BY <3>1, RankBounds DEF Messages
  <2>3. ~ (c[i].kind = "carrier" /\ c[j].kind = "result")
    BY <2>1, RankBounds
  <2>. QED
    BY <1>1, <1>2, <1>6, <2>1, <2>2, <2>3
<1>. QED
  BY <1>1, <1>2, <1>3, <1>4, <1>5, <1>6

\* A list read through a map of positions that keeps their order, and keeps
\* neighbours next to each other, is ordered as well.
Picks(p, v, s) ==
    \A i \in DOMAIN v :
        /\ p[i] \in DOMAIN s /\ v[i] = s[p[i]]
        /\ \A j \in DOMAIN v :
             /\ i < j <=> p[i] < p[j]
             /\ p[j] = p[i] + 1 => j = i + 1

LEMMA PickedKeepsOrder ==
    ASSUME NEW s \in Seq(Messages), NEW v \in Seq(Messages), Ordered(s), NEW p,
           Picks(p, v, s)
    PROVE  Ordered(v)
<1>. SUFFICES ASSUME NEW i \in DOMAIN v, NEW j \in DOMAIN v, v[i].turn = v[j].turn
              PROVE  /\ i < j <=> Rank[v[i].kind] < Rank[v[j].kind]
                     /\ v[i].kind = "carrier" /\ v[j].kind = "result" => j = i + 1
  BY DEF Ordered
<1>1. /\ p[i] \in DOMAIN s /\ v[i] = s[p[i]]
      /\ p[j] \in DOMAIN s /\ v[j] = s[p[j]]
      /\ i < j <=> p[i] < p[j]
      /\ p[j] = p[i] + 1 => j = i + 1
  BY DEF Picks
<1>2. /\ p[i] < p[j] <=> Rank[s[p[i]].kind] < Rank[s[p[j]].kind]
      /\ s[p[i]].kind = "carrier" /\ s[p[j]].kind = "result" => p[j] = p[i] + 1
  BY <1>1, Zenon DEF Ordered
<1>. QED
  BY <1>1, <1>2

LEMMA SubSeqKeepsOrder ==
    ASSUME NEW s \in Seq(Messages), Ordered(s), NEW m \in Nat, NEW n \in Nat,
           m >= 1, n <= Len(s)
    PROVE  Ordered(SubSeq(s, m, n))
<1>. DEFINE v == SubSeq(s, m, n)
            p == [i \in DOMAIN v |-> m + i - 1]
<1>1. /\ v \in Seq(Messages)
      /\ DOMAIN v = 1..(IF m <= n THEN n - m + 1 ELSE 0)
      /\ \A i \in 1..(n - m + 1) : v[i] = s[m + i - 1]
  BY SubSeqOfMessages
<1>2. DOMAIN s = 1..Len(s) /\ Len(s) \in Nat
  BY LenProperties
<1>. HIDE DEF v
<1>3. \A i \in DOMAIN v : p[i] \in DOMAIN s /\ v[i] = s[p[i]]
  BY <1>1, <1>2
<1>4. \A i, j \in DOMAIN v : /\ i < j <=> p[i] < p[j]
                             /\ p[j] = p[i] + 1 => j = i + 1
  BY <1>1
<1>. HIDE DEF p
<1>5. Picks(p, v, s)
  BY <1>3, <1>4 DEF Picks
<1>6. Ordered(v)
  BY <1>1, <1>5, PickedKeepsOrder
<1>. QED
  BY <1>6 DEF v

LEMMA CutOutKeepsOrder ==
    ASSUME NEW s \in Seq(Messages), Ordered(s), NEW i \in DOMAIN s, NEW d \in 1..i
    PROVE  Ordered(SubSeq(s, 1, d - 1) \o SubSeq(s, i + 1, Len(s)))
<1>. DEFINE v == SubSeq(s, 1, d - 1) \o SubSeq(s, i + 1, Len(s))
            p == [j \in DOMAIN v |-> IF j < d THEN j ELSE j + (i - d) + 1]
<1>1. /\ v \in Seq(Messages)
      /\ DOMAIN v = 1..(d - 1 + (Len(s) - i))
      /\ \A j \in DOMAIN v : v[j] = IF j < d THEN s[j] ELSE s[j + (i - d) + 1]
  BY CutOut
<1>2. DOMAIN s = 1..Len(s) /\ Len(s) \in Nat /\ i \in 1..Len(s) /\ d \in Nat
  BY LenProperties
<1>. HIDE DEF v
<1>3. ASSUME NEW j \in DOMAIN v PROVE p[j] \in DOMAIN s /\ v[j] = s[p[j]]
  <2>1. p[j] = IF j < d THEN j ELSE j + (i - d) + 1
    OBVIOUS
  <2>2. v[j] = s[p[j]]
    BY <1>1, <2>1, Zenon
  <2>. QED
    BY <1>1, <1>2, <2>1, <2>2
<1>4. \A j, k \in DOMAIN v : /\ j < k <=> p[j] < p[k]
                             /\ p[k] = p[j] + 1 => k = j + 1
  BY <1>1, <1>2
<1>. HIDE DEF p
<1>5. Picks(p, v, s)
  BY <1>3, <1>4 DEF Picks
<1>6. Ordered(v)
  BY <1>1, <1>5, PickedKeepsOrder
<1>. QED
  BY <1>6 DEF v

\* Nobody has said anything before its turn, and nothing but the question
\* before it has replied.
Spoken(s, tn) ==
    \A i \in DOMAIN s :
        s[i].turn \in Turns =>
            /\ tn[s[i].turn].pc \notin {"idle", "resending"}
            /\ s[i].kind # "user" => tn[s[i].turn].pc \in {"replied", "done"}

Sound(s, tn) == Ordered(s) /\ Spoken(s, tn)

\* The messages of tools that a turn holds are of its own round.
OfRound(s, t) ==
    /\ Ordered(s)
    /\ \A i \in DOMAIN s : s[i].turn = t /\ s[i].kind \in {"carrier", "result"}

OrderInv ==
    /\ Sound(file.msgs, turn)
    /\ \A b \in DOMAIN backups : Sound(backups[b].msgs, turn)
    /\ \A t \in Turns : OfRound(turn[t].tools, t)

\* A turn that has begun has, one that has replied has.
Advances ==
    \A t \in Turns :
        /\ turn[t].pc \notin {"idle", "resending"}
             => turn'[t].pc \notin {"idle", "resending"}
        /\ turn[t].pc \in {"replied", "done"}
             => turn'[t].pc \in {"replied", "done"}

LEMMA SoundStays ==
    ASSUME Advances, NEW s \in Seq(Messages), Sound(s, turn)
    PROVE  Sound(s, turn')
BY DEF Sound, Spoken, Advances

LEMMA NothingIsOrdered == Ordered(<<>>) /\ \A tn : Spoken(<<>>, tn)
BY DEF Ordered, Spoken

LEMMA OneIsOrdered ==
    ASSUME NEW m \in Messages
    PROVE  Ordered(<<m>>)
<1>1. Rank[m.kind] \in 1..4
  BY RankBounds DEF Messages
<1>. QED
  BY <1>1 DEF Ordered

LEMMA ElementOfConcat ==
    ASSUME NEW s \in Seq(Messages), NEW v \in Seq(Messages), NEW i \in DOMAIN (s \o v)
    PROVE  \/ i \in DOMAIN s /\ (s \o v)[i] = s[i]
           \/ \E j \in DOMAIN v : (s \o v)[i] = v[j]
<1>1. /\ Len(s \o v) = Len(s) + Len(v)
      /\ (s \o v) \in Seq(Messages)
      /\ \A j \in 1..(Len(s) + Len(v)) :
           (s \o v)[j] = IF j <= Len(s) THEN s[j] ELSE v[j - Len(s)]
  BY ConcatProperties
<1>2. /\ DOMAIN s = 1..Len(s) /\ DOMAIN v = 1..Len(v)
      /\ Len(s) \in Nat /\ Len(v) \in Nat
      /\ i \in 1..(Len(s) + Len(v))
  BY <1>1, LenProperties
<1>3. CASE i <= Len(s)
  BY <1>1, <1>2, <1>3
<1>4. CASE i > Len(s)
  <2>1. i - Len(s) \in DOMAIN v /\ (s \o v)[i] = v[i - Len(s)]
    BY <1>1, <1>2, <1>4
  <2>. QED
    BY <2>1
<1>. QED
  BY <1>2, <1>3, <1>4

LEMMA QuestionIsSound ==
    ASSUME NEW s \in Seq(Messages), Sound(s, turn), NEW t \in Turns,
           turn[t].pc \in {"idle", "resending"}, Advances,
           turn'[t].pc \notin {"idle", "resending"}
    PROVE  Sound(s \o <<User(t)>>, turn')
<1>. DEFINE v == <<User(t)>>
<1>1. /\ v \in Seq(Messages) /\ DOMAIN v = {1} /\ v[1] = User(t) /\ Len(v) = 1
      /\ Ordered(v)
  BY TurnsAreMessages, OneIsOrdered
<1>. HIDE DEF v
<1>2. \A i \in DOMAIN s : s[i].turn # t
  BY DEF Sound, Spoken
<1>3. Ordered(s \o v)
  BY <1>1, <1>2, AppendKeepsOrder DEF Sound, User
<1>4. Spoken(s, turn')
  BY SoundStays DEF Sound
<1>5. ASSUME NEW i \in DOMAIN (s \o v), (s \o v)[i].turn \in Turns
      PROVE  /\ turn'[(s \o v)[i].turn].pc \notin {"idle", "resending"}
             /\ (s \o v)[i].kind # "user"
                  => turn'[(s \o v)[i].turn].pc \in {"replied", "done"}
  <2>1. \/ (s \o v)[i] = User(t)
        \/ i \in DOMAIN s /\ (s \o v)[i] = s[i]
    BY <1>1, ElementOfConcat
  <2>. QED
    BY <1>4, <1>5, <2>1 DEF Spoken, User
<1>. QED
  BY <1>3, <1>5 DEF Sound, Spoken, v

LEMMA ReplyIsOrdered ==
    ASSUME NEW v \in Seq(Messages), NEW t \in Turns, OfRound(v, t)
    PROVE  /\ Ordered(v \o <<Answer(t)>>)
           /\ \A i \in DOMAIN (v \o <<Answer(t)>>) :
                /\ (v \o <<Answer(t)>>)[i].turn = t
                /\ (v \o <<Answer(t)>>)[i].kind \in {"carrier", "result", "answer"}
<1>. DEFINE a == <<Answer(t)>>
<1>1. /\ a \in Seq(Messages) /\ DOMAIN a = {1} /\ a[1] = Answer(t) /\ Len(a) = 1
      /\ Ordered(a)
  BY TurnsAreMessages, OneIsOrdered
<1>. HIDE DEF a
<1>2. Ordered(v \o a)
  BY <1>1, AppendKeepsOrder, RankBounds DEF OfRound, Answer
<1>3. \A i \in DOMAIN (v \o a) :
        \/ (v \o a)[i] = Answer(t)
        \/ i \in DOMAIN v /\ (v \o a)[i] = v[i]
  BY <1>1, ElementOfConcat
<1>4. \A i \in DOMAIN (v \o a) : /\ (v \o a)[i].turn = t
                                 /\ (v \o a)[i].kind \in {"carrier", "result", "answer"}
  BY <1>3 DEF OfRound, Answer
<1>. QED
  BY <1>2, <1>4 DEF a

LEMMA ReplyIsSound ==
    ASSUME NEW s \in Seq(Messages), Sound(s, turn), NEW t \in Turns,
           NEW v \in Seq(Messages), OfRound(v, t),
           turn[t].pc = "finishing", Advances, turn'[t].pc = "replied"
    PROVE  Sound(s \o (v \o <<Answer(t)>>), turn')
<1>. DEFINE r == v \o <<Answer(t)>>
<1>1. <<Answer(t)>> \in Seq(Messages)
  BY TurnsAreMessages
<1>2. /\ r \in Seq(Messages) /\ Ordered(r)
      /\ \A i \in DOMAIN r : /\ r[i].turn = t
                             /\ r[i].kind \in {"carrier", "result", "answer"}
  BY <1>1, ReplyIsOrdered, ConcatProperties
<1>. HIDE DEF r
<1>3. \A i \in DOMAIN s : s[i].turn = t => s[i].kind = "user"
  BY DEF Sound, Spoken
<1>4. Ordered(s \o r)
  BY <1>2, <1>3, AppendKeepsOrder, RankBounds DEF Sound
<1>5. Spoken(s, turn')
  BY SoundStays DEF Sound
<1>6. \A i \in DOMAIN (s \o r) :
        \/ i \in DOMAIN s /\ (s \o r)[i] = s[i]
        \/ \E j \in DOMAIN r : (s \o r)[i] = r[j]
  BY <1>2, ElementOfConcat
<1>7. Spoken(s \o r, turn')
  BY <1>2, <1>5, <1>6 DEF Spoken
<1>. QED
  BY <1>4, <1>7 DEF Sound, r

LEMMA PartIsSound ==
    ASSUME NEW s \in Seq(Messages), Sound(s, turn'),
           NEW v, Ordered(v), Members(v) \subseteq Members(s)
    PROVE  Sound(v, turn')
BY DEF Sound, Spoken, Members

LEMMA OneAdvances ==
    ASSUME TurnType, NEW t \in Turns, \A u \in Turns \ {t} : turn'[u] = turn[u],
           turn'[t].pc \notin {"idle", "resending"}
             \/ turn[t].pc \in {"idle", "resending"},
           turn'[t].pc \in {"replied", "done"}
             \/ turn[t].pc \notin {"replied", "done"}
    PROVE  Advances
BY DEF Advances

\* No step takes a turn back, and what it holds of its round stays of its round.
LEMMA TurnAdvances ==
    ASSUME ChatType, NEW t \in Turns, TurnSteps(t) \/ Abandon(t),
           OfRound(turn[t].tools, t)
    PROVE  /\ Advances /\ \A u \in Turns \ {t} : turn'[u] = turn[u]
           /\ OfRound(turn'[t].tools, t)
<1>1. turn \in [Turns -> TurnRecords] /\ turn[t] \in TurnRecords
  BY DEF ChatType, TurnType
<1>2. OfRound(<<>>, t)
  BY NothingIsOrdered DEF OfRound
<1>3. ASSUME NEW p, NEW n, turn' = [turn EXCEPT ![t].pc = p, ![t].asks = n]
      PROVE  /\ \A u \in Turns \ {t} : turn'[u] = turn[u]
             /\ turn'[t].pc = p /\ turn'[t].tools = turn[t].tools
  BY <1>1, <1>3 DEF TurnRecords
<1>4. ASSUME turn' = [turn EXCEPT ![t] = Ended(@)]
      PROVE  /\ \A u \in Turns \ {t} : turn'[u] = turn[u]
             /\ turn'[t].pc = "done" /\ turn'[t].tools = <<>>
  BY <1>1, <1>4, EndedIsRecord
<1>5. CASE Resend(t)
  <2>1. CASE \E p \in {"compacting", "thinking"} : \E n :
               turn' = [turn EXCEPT ![t].pc = p, ![t].asks = n]
    BY <1>3, <1>5, <2>1, OneAdvances DEF Resend, ChatType
  <2>2. CASE turn' = [turn EXCEPT ![t] = Ended(@)]
    BY <1>2, <1>4, <1>5, <2>2, OneAdvances DEF Resend, ChatType
  <2>. QED
    BY <1>5, <2>1, <2>2 DEF Resend, Prepare
<1>6. CASE ToolLoopEnds(t)
  <2>. DEFINE round == <<Carrier(t), Result(t)>>
  <2>1. PICK d \in 0..2 : turn' = [turn EXCEPT ![t].pc = "streaming",
                                     ![t].tools = SubSeq(round, d + 1, 2)]
    BY <1>6 DEF ToolLoopEnds, ToolsStored
  <2>2. /\ round \in Seq(Messages) /\ Len(round) = 2 /\ DOMAIN round = 1..2
        /\ round[1] = Carrier(t) /\ round[2] = Result(t)
    BY TurnsAreMessages
  <2>. HIDE DEF round
  <2>3. Ordered(round)
    <3>. SUFFICES ASSUME NEW i \in 1..2, NEW j \in 1..2
                  PROVE  /\ i < j <=> Rank[round[i].kind] < Rank[round[j].kind]
                         /\ round[i].kind = "carrier" /\ round[j].kind = "result"
                              => j = i + 1
      BY <2>2 DEF Ordered
    <3>1. /\ round[1].kind = "carrier" /\ round[2].kind = "result"
          /\ Rank["carrier"] = 2 /\ Rank["result"] = 3
      BY <2>2, RankBounds DEF Carrier, Result
    <3>2. (i = 1 \/ i = 2) /\ (j = 1 \/ j = 2)
      OBVIOUS
    <3>. QED
      BY <3>1, <3>2
  <2>4. \A i \in 1..2 : round[i].turn = t /\ round[i].kind \in {"carrier", "result"}
    BY <2>2 DEF Carrier, Result
  <2>. DEFINE part == SubSeq(round, d + 1, 2)
  <2>5. /\ Ordered(part)
        /\ \A i \in DOMAIN part : part[i] = round[d + i] /\ d + i \in 1..2
    <3>1. d + 1 \in Nat /\ 2 \in Nat /\ d + 1 >= 1 /\ 2 <= Len(round)
      BY <2>2
    <3>2. Ordered(part)
      BY <2>2, <2>3, <3>1, SubSeqKeepsOrder
    <3>3. /\ DOMAIN part = 1..(IF d + 1 <= 2 THEN 2 - (d + 1) + 1 ELSE 0)
          /\ \A i \in 1..(2 - (d + 1) + 1) : part[i] = round[(d + 1) + i - 1]
      BY <2>2, <3>1, SubSeqOfMessages
    <3>4. ASSUME NEW i \in DOMAIN part
          PROVE  part[i] = round[d + i] /\ d + i \in 1..2
      <4>1. i \in 1..(2 - (d + 1) + 1) /\ (d + 1) + i - 1 = d + i /\ d + i \in 1..2
        BY <3>3
      <4>. QED
        BY <3>3, <4>1
    <3>. QED
      BY <3>2, <3>4
  <2>6. OfRound(part, t)
    BY <2>4, <2>5 DEF OfRound
  <2>7. turn' = [turn EXCEPT ![t].pc = "streaming", ![t].tools = part]
    BY <2>1
  <2>. HIDE DEF part
  <2>8. /\ \A u \in Turns \ {t} : turn'[u] = turn[u]
        /\ turn'[t].pc = "streaming" /\ turn'[t].tools = part
    BY <1>1, <2>7 DEF TurnRecords
  <2>. QED
    BY <1>6, <2>6, <2>8, OneAdvances DEF ToolLoopEnds, ChatType
<1>7. CASE AnswersAtOnce(t) \/ StreamEnds(t)
  <2>1. PICK p : turn' = [turn EXCEPT ![t].pc = "finishing", ![t].path = p]
    BY <1>7 DEF AnswersAtOnce, StreamEnds
  <2>2. /\ \A u \in Turns \ {t} : turn'[u] = turn[u]
        /\ turn'[t].pc = "finishing" /\ turn'[t].tools = turn[t].tools
    BY <1>1, <2>1 DEF TurnRecords
  <2>. QED
    BY <1>7, <2>2, OneAdvances DEF AnswersAtOnce, StreamEnds, ChatType
<1>8. CASE Persist(t)
  <2>1. /\ \A u \in Turns \ {t} : turn'[u] = turn[u]
        /\ turn'[t].pc = "replied" /\ turn'[t].tools = <<>>
    <3>1. PICK r : /\ turn' = [turn EXCEPT ![t] = r]
                   /\ r.pc = "replied" /\ r.tools = <<>>
      <4>1. PICK v : turn' = [turn EXCEPT ![t] = Replied(turn[t], v)]
        BY <1>8 DEF Persist
      <4>2. Replied(turn[t], v).pc = "replied" /\ Replied(turn[t], v).tools = <<>>
        BY <1>1, EndedIsRecord
      <4>. QED
        BY <4>1, <4>2
    <3>. QED
      BY <1>1, <3>1
  <2>. QED
    BY <1>2, <2>1, OneAdvances DEF ChatType
<1>9. CASE Close(t)
  <2>1. turn' = [turn EXCEPT ![t] = Ended(@)]
    BY <1>9 DEF Close
  <2>. QED
    BY <1>2, <1>4, <2>1, OneAdvances DEF ChatType
<1>10. CASE Abandon(t)
  <2>1. /\ \A u \in Turns \ {t} : turn'[u] = turn[u]
        /\ turn'[t].pc \in {"done", "closing"} /\ turn'[t].tools = <<>>
    <3>1. PICK r : /\ turn' = [turn EXCEPT ![t] = r]
                   /\ r.pc \in {"done", "closing"} /\ r.tools = <<>>
      <4>1. \/ turn' = [turn EXCEPT ![t] = Ended(@)]
            \/ turn' = [turn EXCEPT ![t] = [Ended(@) EXCEPT !.pc = "closing"]]
        BY <1>10 DEF Abandon
      <4>2. LET r == [Ended(turn[t]) EXCEPT !.pc = "closing"]
            IN r.pc = "closing" /\ r.tools = <<>>
        BY DEF Ended, NoTurn
      <4>. QED
        BY <1>1, <4>1, <4>2, EndedIsRecord
    <3>. QED
      BY <1>1, <3>1
  <2>. QED
    BY <1>2, <1>10, <2>1, OneAdvances DEF Abandon, ChatType
<1>. QED
  BY <1>5, <1>6, <1>7, <1>8, <1>9, <1>10 DEF TurnSteps

LEMMA NextAdvances ==
    ASSUME ChatType, \A t \in Turns : OfRound(turn[t].tools, t), [ChatNext]_chat
    PROVE  Advances /\ \A t \in Turns : OfRound(turn'[t].tools, t)
<1>1. turn \in [Turns -> TurnRecords]
  BY DEF ChatType, TurnType
<1>2. CASE turn' = turn
  BY <1>2 DEF Advances
<1>3. ASSUME NEW t \in Turns, TurnSteps(t) \/ Abandon(t)
      PROVE  Advances /\ \A u \in Turns : OfRound(turn'[u].tools, u)
  BY <1>3, TurnAdvances
<1>4. ASSUME NEW t \in Turns, NEW p, NEW n, turn[t].pc = "idle",
             turn' = [turn EXCEPT ![t].pc = p, ![t].asks = n]
      PROVE  Advances /\ \A u \in Turns : OfRound(turn'[u].tools, u)
  <2>1. /\ \A u \in Turns \ {t} : turn'[u] = turn[u]
        /\ turn'[t].tools = turn[t].tools
    BY <1>1, <1>4 DEF TurnRecords
  <2>. QED
    BY <1>4, <2>1, OneAdvances DEF ChatType
<1>5. ASSUME NEW t \in Turns, Send(t)
      PROVE  Advances /\ \A u \in Turns : OfRound(turn'[u].tools, u)
  BY <1>4, <1>5 DEF Send, IsNext, Prepare
<1>6. ASSUME NEW t \in Turns, NEW i \in DOMAIN file.msgs, Regenerate(t, i)
      PROVE  Advances /\ \A u \in Turns : OfRound(turn'[u].tools, u)
  <2>1. \E n : turn' = [turn EXCEPT ![t].pc = "resending", ![t].asks = n]
    BY <1>6 DEF Regenerate
  <2>2. turn[t].pc = "idle"
    BY <1>6 DEF Regenerate, IsNext
  <2>. QED
    BY <1>4, <2>1, <2>2
<1>7. ASSUME NEW o \in Owners, ResumeTurn(o)
      PROVE  Advances /\ \A u \in Turns : OfRound(turn'[u].tools, u)
  <2>1. CASE /\ o \in Turns /\ turn[o].pc = "compacting"
             /\ turn' = [turn EXCEPT ![o].pc = "thinking"]
    <3>1. /\ \A u \in Turns \ {o} : turn'[u] = turn[u]
          /\ turn'[o].tools = turn[o].tools /\ turn'[o].pc = "thinking"
      BY <1>1, <2>1 DEF TurnRecords
    <3>. QED
      BY <2>1, <3>1, OneAdvances DEF ChatType
  <2>. QED
    BY <1>2, <1>7, <2>1 DEF ResumeTurn
<1>8. ASSUME NEW o \in Owners, CompactionSteps(o)
      PROVE  Advances /\ \A u \in Turns : OfRound(turn'[u].tools, u)
  BY <1>2, <1>7, <1>8
  DEF CompactionSteps, CompactionCommits, CompactionFails, PostTurnCompaction
<1>9. CASE Crash
  <2>1. \A u \in Turns : \/ turn'[u] = turn[u]
                         \/ /\ turn[u].pc # "idle"
                            /\ turn'[u].pc = "done" /\ turn'[u].tools = <<>>
    BY <1>1, <1>9, EndedIsRecord DEF Crash
  <2>2. \A u \in Turns : OfRound(<<>>, u)
    BY NothingIsOrdered DEF OfRound
  <2>. QED
    BY <2>1, <2>2 DEF Advances
<1>10. ASSUME \/ ClientRewrites
              \/ \E o \in Manuals : CompactConversation(o)
              \/ \E m \in Messages : Pin(m)
              \/ UNCHANGED chat
       PROVE  turn' = turn
  <2>1. CASE ClientRewrites
    BY <2>1 DEF ClientRewrites, EditMessage, DeleteMessage, Rewrite, Restore,
       DeleteConversation
  <2>. QED
    BY <1>10, <2>1 DEF CompactConversation, Pin, chat
<1>. QED
  BY <1>2, <1>3, <1>5, <1>6, <1>8, <1>9, <1>10 DEF ChatNext

LEMMA OrderInit == ChatInit => OrderInv
<1>. SUFFICES ASSUME ChatInit PROVE OrderInv
  OBVIOUS
<1>1. PICK h \in Histories : file.msgs = h
  BY DEF ChatInit
<1>2. Ordered(h) /\ \A i \in DOMAIN h : h[i].turn = 0
  BY ConversationAssumption
<1>3. Sound(file.msgs, turn)
  BY <1>1, <1>2 DEF Sound, Spoken, Turns
<1>4. \A b \in DOMAIN backups : Sound(backups[b].msgs, turn)
  BY DEF ChatInit
<1>5. ASSUME NEW t \in Turns PROVE OfRound(turn[t].tools, t)
  <2>1. turn[t].tools = <<>>
    BY DEF ChatInit, NoTurn
  <2>2. OfRound(<<>>, t)
    BY NothingIsOrdered DEF OfRound
  <2>. QED
    BY <2>1, <2>2
<1>. QED
  BY <1>3, <1>4, <1>5 DEF OrderInv

LEMMA MembersOfPart ==
    ASSUME NEW s \in Seq(Messages), NEW n \in Nat, n <= Len(s)
    PROVE  Members(SubSeq(s, 1, n)) \subseteq Members(s)
<1>1. /\ DOMAIN SubSeq(s, 1, n) = 1..(IF 1 <= n THEN n - 1 + 1 ELSE 0)
      /\ \A i \in 1..(n - 1 + 1) : SubSeq(s, 1, n)[i] = s[1 + i - 1]
  BY SubSeqOfMessages
<1>2. DOMAIN s = 1..Len(s) /\ Len(s) \in Nat
  BY LenProperties
<1>3. ASSUME NEW i \in DOMAIN SubSeq(s, 1, n)
      PROVE  i \in DOMAIN s /\ SubSeq(s, 1, n)[i] = s[i]
  <2>1. i \in 1..(n - 1 + 1) /\ 1 + i - 1 = i /\ i \in DOMAIN s
    BY <1>1, <1>2
  <2>. QED
    BY <1>1, <2>1
<1>. QED
  BY <1>3 DEF Members

LEMMA MembersOfCutOut ==
    ASSUME NEW s \in Seq(Messages), NEW i \in DOMAIN s, NEW d \in 1..i
    PROVE  Members(SubSeq(s, 1, d - 1) \o SubSeq(s, i + 1, Len(s))) \subseteq Members(s)
<1>. DEFINE v == SubSeq(s, 1, d - 1) \o SubSeq(s, i + 1, Len(s))
<1>1. /\ DOMAIN v = 1..(d - 1 + (Len(s) - i))
      /\ \A j \in DOMAIN v : v[j] = IF j < d THEN s[j] ELSE s[j + (i - d) + 1]
  BY CutOut
<1>2. DOMAIN s = 1..Len(s) /\ Len(s) \in Nat /\ i \in 1..Len(s) /\ d \in Nat
  BY LenProperties
<1>. HIDE DEF v
<1>3. ASSUME NEW j \in DOMAIN v PROVE \E k \in DOMAIN s : v[j] = s[k]
  <2>1. CASE j < d
    BY <1>1, <1>2, <2>1
  <2>2. CASE ~ (j < d)
    <3>1. v[j] = s[j + (i - d) + 1]
      BY <1>1, <2>2, Zenon
    <3>2. j + (i - d) + 1 \in DOMAIN s
      BY <1>1, <1>2, <2>2
    <3>. QED
      BY <3>1, <3>2
  <2>. QED
    BY <2>1, <2>2
<1>. QED
  BY <1>3 DEF Members, v

LEMMA PrepareKeepsOrder ==
    ASSUME ChatType, OrderInv, Advances, file.exists, NEW t \in Turns, NEW n,
           turn[t].pc \in {"idle", "resending"}, Prepare(t, n)
    PROVE  Sound(file'.msgs, turn')
<1>. DEFINE f == Appended(file, <<User(t)>>)
<1>1. <<User(t)>> \in Seq(Messages) /\ file \in Files /\ file.msgs \in Seq(Messages)
  BY TurnsAreMessages DEF ChatType, Files
<1>2. f \in Files /\ f.msgs = file.msgs \o <<User(t)>>
  BY <1>1, AppendedFile
<1>3. file' = f \/ file' = SlotSet(f, t, "streaming")
  BY DEF Prepare
<1>4. turn'[t].pc \in {"compacting", "thinking"}
  <2>1. PICK p \in {"compacting", "thinking"} :
          turn' = [turn EXCEPT ![t].pc = p, ![t].asks = n]
    BY DEF Prepare
  <2>. QED
    BY <2>1 DEF ChatType, TurnType, TurnRecords
<1>. HIDE DEF f
<1>5. file'.msgs = file.msgs \o <<User(t)>>
  <2>1. SlotSet(f, t, "streaming").msgs = f.msgs
    <3>1. f \in Files
      BY <1>2
    <3>. QED
      BY <3>1, SlotSetFile
  <2>. QED
    BY <1>2, <1>3, <2>1, Zenon
<1>6. Sound(file.msgs \o <<User(t)>>, turn')
  BY <1>1, <1>4, QuestionIsSound DEF OrderInv
<1>. QED
  BY <1>5, <1>6

\* Whatever a step puts in the file, the messages of each turn are in order.
LEMMA FileStaysInOrder ==
    ASSUME ChatType, OrderInv, Advances, [ChatNext]_chat
    PROVE  Sound(file'.msgs, turn')
<1>1. file \in Files /\ file.msgs \in Seq(Messages)
  BY DEF ChatType, Files
<1>2. Sound(file.msgs, turn') /\ \A b \in DOMAIN backups : Sound(backups[b].msgs, turn')
  <2>1. \A b \in DOMAIN backups : backups[b].msgs \in Seq(Messages)
    BY BackupIsFile DEF Files
  <2>. QED
    BY <1>1, <2>1, SoundStays DEF OrderInv
<1>3. CASE file'.msgs = file.msgs
  BY <1>2, <1>3
<1>4. ASSUME NEW t \in Turns, Send(t) PROVE Sound(file'.msgs, turn')
  BY <1>4, PrepareKeepsOrder DEF Send, IsNext
<1>5. ASSUME NEW t \in Turns, Resend(t) PROVE Sound(file'.msgs, turn')
  BY <1>3, <1>5, PrepareKeepsOrder DEF Resend
<1>6. ASSUME NEW t \in Turns, Persist(t) PROVE Sound(file'.msgs, turn')
  <2>1. CASE file' = file
    BY <1>3, <2>1
  <2>2. CASE file' = Appended(file, Reply(t))
    <3>1. turn[t].tools \in Seq(Messages) /\ OfRound(turn[t].tools, t)
      BY DEF ChatType, TurnType, TurnRecords, OrderInv
    <3>2. Reply(t) \in Seq(Messages)
      BY ReplyOfMessages
    <3>3. turn[t].pc = "finishing" /\ turn'[t].pc = "replied"
      <4>1. PICK v : turn' = [turn EXCEPT ![t] = Replied(turn[t], v)]
        BY <1>6 DEF Persist
      <4>2. Replied(turn[t], v).pc = "replied"
        BY EndedIsRecord DEF ChatType, TurnType
      <4>. QED
        BY <1>6, <4>1, <4>2 DEF Persist, ChatType, TurnType
    <3>4. Sound(file.msgs \o Reply(t), turn')
      BY <1>1, <3>1, <3>3, ReplyIsSound DEF OrderInv, Reply
    <3>5. file'.msgs = file.msgs \o Reply(t)
      BY <1>1, <2>2, <3>2, AppendedFile
    <3>. QED
      BY <3>4, <3>5
  <2>. QED
    BY <1>6, <2>1, <2>2 DEF Persist
<1>7. ASSUME NEW t \in Turns, StreamEnds(t) \/ Close(t) PROVE file'.msgs = file.msgs
  <2>1. CASE StreamEnds(t)
    BY <1>1, <2>1, SlotSetFile DEF StreamEnds
  <2>2. CASE Close(t)
    BY <1>1, <2>2, SlotClearedFile DEF Close
  <2>. QED
    BY <1>7, <2>1, <2>2
<1>8. ASSUME NEW t \in Turns, ToolLoopEnds(t) \/ AnswersAtOnce(t) \/ Abandon(t)
      PROVE  file'.msgs = file.msgs
  BY <1>8 DEF ToolLoopEnds, AnswersAtOnce, Abandon
<1>9. ASSUME NEW t \in Turns, NEW i \in DOMAIN file.msgs, Regenerate(t, i)
      PROVE  Sound(file'.msgs, turn')
  <2>1. PICK n \in {i - 1, i - 2} :
          /\ n \in Nat /\ n <= Len(file.msgs)
          /\ file' = Rewritten(file, SubSeq(file.msgs, 1, n))
    <3>1. i \in 1..Len(file.msgs) /\ Len(file.msgs) \in Nat
      BY <1>1, LenProperties
    <3>. QED
      BY <1>9, <3>1 DEF Regenerate
  <2>. DEFINE s == SubSeq(file.msgs, 1, n)
  <2>2. s \in Seq(Messages) /\ Ordered(s) /\ Members(s) \subseteq Members(file.msgs)
    <3>1. 1 \in Nat /\ 1 >= 1 /\ Ordered(file.msgs)
      BY DEF OrderInv, Sound
    <3>. QED
      BY <1>1, <2>1, <3>1, SubSeqOfMessages, SubSeqKeepsOrder, MembersOfPart
  <2>3. file'.msgs = s
    BY <1>1, <2>1, <2>2, RewrittenFile
  <2>. HIDE DEF s
  <2>. QED
    BY <1>1, <1>2, <2>2, <2>3, PartIsSound
<1>10. ASSUME NEW o \in Owners, CompactionCommits(o) PROVE file'.msgs = file.msgs
  BY <1>10, CommittedFile, ResumedFile DEF CompactionCommits
<1>11. ASSUME NEW o \in Owners, CompactionFails(o) PROVE Sound(file'.msgs, turn')
  <2>1. comp[o].backup \in DOMAIN backups
    BY <1>11 DEF CompactionFails, ChatType, CompactionType
  <2>2. file'.msgs = backups[comp[o].backup].msgs
    BY <1>11, <2>1, BackupIsFile, ResumedFile DEF CompactionFails
  <2>. QED
    BY <1>2, <2>1, <2>2
<1>12. CASE ClientRewrites
  <2>1. ASSUME NEW i \in DOMAIN file.msgs, EditMessage(i)
        PROVE  file'.msgs = file.msgs
    BY <1>1, <2>1, RewrittenFile DEF EditMessage, Rewrite
  <2>2. ASSUME NEW i \in DOMAIN file.msgs, DeleteMessage(i)
        PROVE  Sound(file'.msgs, turn')
    <3>. DEFINE s == KeptOf(i)
    <3>1. DeletedFrom(i) \in 1..i /\ Ordered(file.msgs)
      BY <1>1, DeletedBefore DEF OrderInv, Sound
    <3>2. s \in Seq(Messages) /\ Ordered(s) /\ Members(s) \subseteq Members(file.msgs)
      BY <1>1, <3>1, CutOut, CutOutKeepsOrder, MembersOfCutOut DEF KeptOf
    <3>3. file'.msgs = s
      BY <1>1, <2>2, <3>2, RewrittenFile DEF DeleteMessage, Rewrite, KeptOf
    <3>. HIDE DEF s
    <3>. QED
      BY <1>1, <1>2, <3>2, <3>3, PartIsSound
  <2>3. ASSUME NEW b \in DOMAIN backups, NEW record \in BOOLEAN, Restore(b, record)
        PROVE  Sound(file'.msgs, turn')
    BY <1>2, <2>3 DEF Restore
  <2>4. CASE DeleteConversation
    <3>1. PICK e \in {<<>>} : file' = [file EXCEPT !.exists = FALSE, !.msgs = e,
                                !.slot = NoSlot, !.used = 0, !.records = {},
                                !.pins = {}]
      BY <2>4, Zenon DEF DeleteConversation
    <3>2. file'.msgs = e
      BY <1>1, <3>1 DEF Files
    <3>. QED
      BY <3>2, NothingIsOrdered DEF Sound
  <2>. QED
    BY <1>3, <1>12, <2>1, <2>2, <2>3, <2>4 DEF ClientRewrites
<1>13. ASSUME NEW m \in Messages, Pin(m) PROVE file'.msgs = file.msgs
  BY <1>1, <1>13 DEF Pin, Files
<1>14. ASSUME \/ \E o \in Owners : o \in Turns /\ PostTurnCompaction(o)
              \/ \E o \in Manuals : CompactConversation(o)
              \/ Crash \/ UNCHANGED chat
       PROVE  file'.msgs = file.msgs
  BY <1>14 DEF PostTurnCompaction, CompactConversation, Crash, chat
<1>. QED
  BY <1>3, <1>4, <1>5, <1>6, <1>7, <1>8, <1>9, <1>10, <1>11, <1>12, <1>13, <1>14
  DEF ChatNext, TurnSteps, CompactionSteps

LEMMA OrderNext ==
    ASSUME ChatType, OrderInv, [ChatNext]_chat
    PROVE  OrderInv'
<1>1. Advances /\ \A t \in Turns : OfRound(turn'[t].tools, t)
  BY NextAdvances DEF OrderInv
<1>2. Sound(file'.msgs, turn')
  BY <1>1, FileStaysInOrder
<1>3. Sound(file.msgs, turn')
  BY <1>1, SoundStays DEF OrderInv, ChatType, Files
<1>4. ASSUME NEW b \in DOMAIN backups PROVE Sound(backups[b].msgs, turn')
  <2>1. backups[b].msgs \in Seq(Messages)
    BY BackupIsFile DEF Files
  <2>. QED
    BY <1>1, <2>1, SoundStays DEF OrderInv
<1>5. ASSUME NEW f \in {file, file'}, f \in Files, backups' = Append(backups, f)
      PROVE  \A b \in DOMAIN backups' : Sound(backups'[b].msgs, turn')
  <2>1. /\ backups \in Seq(Files)
        /\ DOMAIN backups = 1..Len(backups) /\ Len(backups) \in Nat
    BY LenProperties DEF ChatType, CompactionType
  <2>2. /\ DOMAIN backups' = 1..(Len(backups) + 1)
        /\ \A b \in 1..Len(backups) : backups'[b] = backups[b]
        /\ backups'[Len(backups) + 1] = f
    BY <1>5, <2>1, AppendProperties, LenProperties
  <2>3. Sound(f.msgs, turn')
    BY <1>2, <1>3
  <2>4. \A b \in DOMAIN backups' : b \in DOMAIN backups \/ b = Len(backups) + 1
    BY <2>1, <2>2
  <2>. QED
    BY <1>4, <2>1, <2>2, <2>3, <2>4
<1>6. \A b \in DOMAIN backups' : Sound(backups'[b].msgs, turn')
  BY <1>4, <1>5, BackupsGrow
<1>. QED
  BY <1>1, <1>2, <1>6 DEF OrderInv

\* The messages of one turn stand in the file in the order in which the turn
\* came to them, results right behind their calls, whatever overlaps it, and
\* whatever a client deletes, regenerates or restores (send_message,
\* delete_message, prepare_regeneration).
THEOREM TurnsStayInOrder == ChatSpec => []TurnsInOrder
<1>1. OrderInv => TurnsInOrder
  BY DEF OrderInv, Sound, TurnsInOrder
<1>. QED
  BY <1>1, ChatTypeInit, ChatTypeNext, OrderInit, OrderNext, PTL DEF ChatSpec

-----------------------------------------------------------------------------
(* Where a compaction cuts                                                   *)

\* What a compaction under way drops is what its backup may lose.
CutInv ==
    \A o \in Owners :
        comp[o].pc = "summarizing" =>
            LET b == backups[comp[o].backup]
            IN SafetyGate(b) /\ comp[o].dropped = Dropped(b)

\* A compaction under way was under way before, or begins with its backup.
LEMMA CompactionsBegin ==
    ASSUME ChatType, [ChatNext]_chat, NEW o \in Owners,
           comp'[o].pc = "summarizing"
    PROVE  \/ comp'[o] = comp[o]
           \/ \E f \in {file, file'} : /\ f \in Files /\ MayCompact(f)
                                       /\ backups' = Append(backups, f)
                                       /\ comp'[o] = Compacting(f)
<1>1. file \in Files /\ comp \in [Owners -> CompactionRecords]
  BY DEF ChatType, CompactionType
<1>2. file' \in Files
  BY ChatTypeNext DEF ChatType
<1>3. ASSUME NEW p \in Owners, NEW f \in {file, file'}, MayCompact(f),
             backups' = Append(backups, f),
             comp' = [comp EXCEPT ![p] = Compacting(f)]
      PROVE  \/ comp'[o] = comp[o]
             \/ /\ f \in Files /\ MayCompact(f)
                /\ backups' = Append(backups, f)
                /\ comp'[o] = Compacting(f)
  BY <1>1, <1>2, <1>3
<1>4. ASSUME NEW p \in Owners,
             \/ comp' = [comp EXCEPT ![p] = NoCompaction]
             \/ comp' = [comp EXCEPT ![p].pc = "scheduled"]
             \/ comp' = [comp EXCEPT ![p].pc = @]
             \/ comp' = [q \in Owners |-> NoCompaction]
             \/ comp' = comp
      PROVE  comp'[o] = comp[o]
  BY <1>1, <1>4 DEF NoCompaction, CompactionRecords
<1>5. ASSUME NEW p \in Owners, Starts(p)
      PROVE  \/ comp'[o] = comp[o]
             \/ \E f \in {file, file'} : /\ f \in Files /\ MayCompact(f)
                                         /\ backups' = Append(backups, f)
                                         /\ comp'[o] = Compacting(f)
  <2>1. /\ MayCompact(file) /\ backups' = Append(backups, file)
        /\ comp' = [comp EXCEPT ![p] = Compacting(file)]
    BY <1>5 DEF Starts
  <2>. QED
    BY <1>3, <2>1
<1>6. ASSUME NEW t \in Turns, NEW n, Prepare(t, n)
      PROVE  \/ comp'[o] = comp[o]
             \/ \E f \in {file, file'} : /\ f \in Files /\ MayCompact(f)
                                         /\ backups' = Append(backups, f)
                                         /\ comp'[o] = Compacting(f)
  <2>1. \/ comp' = comp
        \/ /\ MayCompact(file') /\ backups' = Append(backups, file')
           /\ comp' = [comp EXCEPT ![t] = Compacting(file')]
    BY <1>6 DEF Prepare
  <2>. QED
    BY <1>3, <2>1, OwnersSplit
<1>7. ASSUME NEW t \in Turns, Send(t) \/ Resend(t)
      PROVE  \/ comp'[o] = comp[o]
             \/ \E f \in {file, file'} : /\ f \in Files /\ MayCompact(f)
                                         /\ backups' = Append(backups, f)
                                         /\ comp'[o] = Compacting(f)
  BY <1>6, <1>7 DEF Send, Resend
<1>8. ASSUME NEW t \in Turns, \/ ToolLoopEnds(t) \/ AnswersAtOnce(t)
                              \/ StreamEnds(t) \/ Persist(t)
      PROVE  comp' = comp
  BY <1>8 DEF ToolLoopEnds, AnswersAtOnce, StreamEnds, Persist
<1>9. ASSUME NEW t \in Turns, Close(t) \/ Abandon(t) PROVE comp'[o] = comp[o]
  <2>1. \/ comp' = [comp EXCEPT ![t] = NoCompaction]
        \/ comp' = [comp EXCEPT ![t].pc = "scheduled"]
        \/ comp' = [comp EXCEPT ![t].pc = @]
    BY <1>9 DEF Close, Abandon
  <2>. QED
    BY <1>4, <2>1, OwnersSplit
<1>10. ASSUME NEW p \in Owners, CompactionSteps(p)
       PROVE  \/ comp'[o] = comp[o]
              \/ \E f \in {file, file'} : /\ f \in Files /\ MayCompact(f)
                                          /\ backups' = Append(backups, f)
                                          /\ comp'[o] = Compacting(f)
  <2>1. Starts(p) \/ comp' = [comp EXCEPT ![p] = NoCompaction]
    BY <1>10 DEF CompactionSteps, CompactionCommits, CompactionFails,
       PostTurnCompaction
  <2>. QED
    BY <1>4, <1>5, <2>1
<1>11. ASSUME NEW p \in Manuals, CompactConversation(p)
       PROVE  \/ comp'[o] = comp[o]
              \/ \E f \in {file, file'} : /\ f \in Files /\ MayCompact(f)
                                          /\ backups' = Append(backups, f)
                                          /\ comp'[o] = Compacting(f)
  <2>1. p \in Owners /\ Starts(p)
    BY <1>11, OwnersSplit DEF CompactConversation
  <2>. QED
    BY <1>5, <2>1
<1>12. ASSUME ClientRewrites PROVE comp' = comp
  BY <1>12 DEF ClientRewrites, EditMessage, DeleteMessage, Rewrite, Restore,
     DeleteConversation
<1>13. ASSUME \/ \E t \in Turns : \E i \in DOMAIN file.msgs : Regenerate(t, i)
              \/ \E m \in Messages : Pin(m)
              \/ UNCHANGED chat
       PROVE  comp' = comp
  BY <1>13 DEF Regenerate, Pin, chat
<1>14. ASSUME Crash PROVE comp'[o] = comp[o]
  BY <1>4, <1>14 DEF Crash
<1>. QED
  BY <1>7, <1>8, <1>9, <1>10, <1>11, <1>12, <1>13, <1>14 DEF ChatNext, TurnSteps

LEMMA CutNext ==
    ASSUME ChatType, CutInv, [ChatNext]_chat
    PROVE  CutInv'
<1>. SUFFICES ASSUME NEW o \in Owners, comp'[o].pc = "summarizing"
              PROVE  /\ SafetyGate(backups'[comp'[o].backup])
                     /\ comp'[o].dropped = Dropped(backups'[comp'[o].backup])
  BY DEF CutInv, SafetyGate, RecentMessages, Dropped, Complete
<1>1. /\ backups \in Seq(Files)
      /\ DOMAIN backups = 1..Len(backups) /\ Len(backups) \in Nat
  BY LenProperties DEF ChatType, CompactionType
<1>2. ASSUME NEW f \in Files, backups' = Append(backups, f)
      PROVE  /\ \A b \in 1..Len(backups) : backups'[b] = backups[b]
             /\ backups'[Len(backups) + 1] = f
  BY <1>1, <1>2, AppendProperties
<1>3. CASE comp'[o] = comp[o]
  <2>1. comp[o].backup \in DOMAIN backups
    BY <1>3 DEF ChatType, CompactionType
  <2>2. backups'[comp[o].backup] = backups[comp[o].backup]
    BY <1>1, <1>2, <2>1, BackupsGrow
  <2>3. /\ SafetyGate(backups[comp[o].backup])
        /\ comp[o].dropped = Dropped(backups[comp[o].backup])
    BY <1>3 DEF CutInv
  <2>. QED
    BY <1>3, <2>2, <2>3
<1>4. ASSUME NEW f \in Files, MayCompact(f), backups' = Append(backups, f),
             comp'[o] = Compacting(f)
      PROVE  /\ SafetyGate(backups'[comp'[o].backup])
             /\ comp'[o].dropped = Dropped(backups'[comp'[o].backup])
  <2>1. comp'[o].backup = Len(backups) + 1 /\ comp'[o].dropped = Dropped(f)
    BY <1>4, CompactionDrops DEF ChatType
  <2>2. backups'[comp'[o].backup] = f
    BY <1>2, <1>4, <2>1
  <2>. QED
    BY <1>4, <2>1, <2>2 DEF MayCompact
<1>. QED
  BY <1>3, <1>4, CompactionsBegin

\* The cut of a list that is ordered and whose end is complete is clean.
LEMMA CleanCut ==
    ASSUME NEW f \in Files, Ordered(f.msgs), SafetyGate(f),
           NEW m \in Members(f.msgs) \ (Dropped(f) \cup f.pins),
           m.kind = "result"
    PROVE  Carrier(m.turn) \notin Dropped(f)
<1>. DEFINE s == f.msgs
            n == Len(s) - RecentWindow
            w == SubSeq(s, n + 1, Len(s))
            old == SubSeq(s, 1, n)
<1>1. /\ s \in Seq(Messages) /\ Len(s) \in Nat /\ DOMAIN s = 1..Len(s)
      /\ n \in Nat /\ n <= Len(s)
  BY ConversationAssumption, LenProperties DEF Files, SafetyGate
<1>2. /\ DOMAIN w = 1..(Len(s) - n)
      /\ \A i \in 1..(Len(s) - n) : w[i] = s[n + i]
  <2>1. /\ DOMAIN w = 1..(IF n + 1 <= Len(s) THEN Len(s) - (n + 1) + 1 ELSE 0)
        /\ \A i \in 1..(Len(s) - (n + 1) + 1) : w[i] = s[(n + 1) + i - 1]
    BY <1>1, SubSeqOfMessages
  <2>2. (IF n + 1 <= Len(s) THEN Len(s) - (n + 1) + 1 ELSE 0) = Len(s) - n
    BY <1>1
  <2>3. Len(s) - (n + 1) + 1 = Len(s) - n /\ \A i \in Nat : (n + 1) + i - 1 = n + i
    BY <1>1
  <2>4. ASSUME NEW i \in 1..(Len(s) - n) PROVE w[i] = s[n + i]
    <3>1. i \in 1..(Len(s) - (n + 1) + 1) /\ (n + 1) + i - 1 = n + i
      BY <2>3
    <3>2. w[i] = s[(n + 1) + i - 1]
      BY <2>1, <3>1
    <3>. QED
      BY <3>1, <3>2, Zenon
  <2>. QED
    BY <2>1, <2>2, <2>4, Zenon
<1>3. /\ DOMAIN old = 1..n
      /\ \A i \in 1..n : old[i] = s[i]
  <2>1. /\ DOMAIN old = 1..(IF 1 <= n THEN n - 1 + 1 ELSE 0)
        /\ \A i \in 1..(n - 1 + 1) : old[i] = s[1 + i - 1]
    BY <1>1, SubSeqOfMessages
  <2>2. (IF 1 <= n THEN n - 1 + 1 ELSE 0) = n /\ n - 1 + 1 = n
    BY <1>1
  <2>3. \A i \in 1..n : 1 + i - 1 = i
    OBVIOUS
  <2>. QED
    BY <2>1, <2>2, <2>3
<1>4. Complete(w) /\ Dropped(f) = Members(old) \ f.pins
  BY DEF SafetyGate, RecentMessages, Dropped
<1>. HIDE DEF w, old, n
<1>5. PICK k \in 1..Len(s) : m = s[k]
  BY <1>1 DEF Members
<1>6. k > n
  <2>1. CASE k <= n
    <3>1. m \in Members(old)
      BY <1>1, <1>3, <1>5, <2>1 DEF Members
    <3>. QED
      BY <1>4, <3>1
  <2>. QED
    BY <1>1, <2>1
<1>7. k - n \in DOMAIN w /\ w[k - n] = m
  BY <1>1, <1>2, <1>5, <1>6
<1>8. (k - n) - 1 \in DOMAIN w /\ w[(k - n) - 1] = Carrier(m.turn)
  BY <1>4, <1>7 DEF Complete
<1>9. k - 1 \in DOMAIN s /\ k - 1 > n /\ s[k - 1] = Carrier(m.turn)
  <2>1. n + ((k - n) - 1) = k - 1 /\ (k - n) - 1 >= 1
    BY <1>1, <1>2, <1>8
  <2>. QED
    BY <1>1, <1>2, <1>8, <2>1
<1>. SUFFICES ASSUME Carrier(m.turn) \in Dropped(f) PROVE FALSE
  OBVIOUS
<1>10. PICK j \in 1..n : s[j] = Carrier(m.turn)
  BY <1>3, <1>4 DEF Members
<1>11. j \in DOMAIN s /\ j < k - 1
  BY <1>1, <1>9, <1>10
<1>12. Rank[s[j].kind] < Rank[s[k - 1].kind]
  BY <1>9, <1>10, <1>11 DEF Ordered, Carrier
<1>13. s[j].kind = "carrier" /\ s[k - 1].kind = "carrier"
  BY <1>9, <1>10 DEF Carrier
<1>. QED
  BY <1>12, <1>13, RankBounds

LEMMA CutInit == ChatInit => CutInv
BY DEF ChatInit, CutInv, NoCompaction

\* No compaction cuts between a call and its result: what it keeps of a round
\* of tools has its call kept, unless the client pinned the one without the
\* other (compression_safety_gate, _select_messages_to_compress).
THEOREM CutsKeepRounds == ChatSpec => []CutKeepsRounds
<1>1. ChatType /\ OrderInv /\ CutInv => CutKeepsRounds
  <2>. SUFFICES ASSUME ChatType, OrderInv, CutInv,
                       NEW o \in Owners, comp[o].pc = "summarizing",
                       NEW m \in Members(backups[comp[o].backup].msgs)
                                  \ (comp[o].dropped \cup backups[comp[o].backup].pins),
                       m.kind = "result"
                PROVE  Carrier(m.turn) \notin comp[o].dropped
    BY DEF CutKeepsRounds
  <2>. DEFINE b == backups[comp[o].backup]
  <2>1. comp[o].backup \in DOMAIN backups
    BY DEF ChatType, CompactionType
  <2>2. b \in Files /\ Ordered(b.msgs)
    BY <2>1, BackupIsFile DEF OrderInv, Sound
  <2>3. SafetyGate(b) /\ comp[o].dropped = Dropped(b)
    BY DEF CutInv
  <2>. QED
    BY <2>2, <2>3, CleanCut
<1>. QED
  BY <1>1, ChatTypeInit, ChatTypeNext, OrderInit, OrderNext, CutInit, CutNext, PTL
  DEF ChatSpec

=============================================================================
