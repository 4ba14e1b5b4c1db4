--------------------------- MODULE SessionGateway ---------------------------
(***************************************************************************)
(* Studio's gateway, for one session: its WebSocket connections, the       *)
(* events sent to all of them, the buffer that gives a client that comes   *)
(* back its timeline, and what is done when the last client is gone.       *)
(*                                                                         *)
(* Everything runs on one event loop, and what may suspend is the sending  *)
(* to one connection, the wait for a command, and the grace period. Sends  *)
(* overlap: send_event iterates over the live list of connections, which   *)
(* other coroutines append to and remove from while it waits.              *)
(*                                                                         *)
(* Connections are numbered as they join and are appended to the list, so  *)
(* the list is the set of its members in order. A list that is left empty  *)
(* is deleted, and the next connection makes a new one: whoever iterates   *)
(* over the old one is cut off from it.                                    *)
(***************************************************************************)
EXTENDS Naturals, Sequences, FiniteSets, SequencesExt

CONSTANTS
    Conns,      \* numbers of the connections, in the order they join
    Spans,      \* SpanUpdateEvents
    Execs,      \* the session's executions
    MaxBuffer,  \* _MAX_SPAN_BUFFER_PER_SESSION
    MaxDrops    \* bound: clients that go away

ASSUME GatewayAssumption ==
    /\ Conns \subseteq Nat \ {0}
    /\ Conns \cap Spans = {}
    /\ MaxBuffer \in Nat \ {0}

Senders == Spans \cup Conns

VARIABLES
    place,      \* where each connection's coroutine stands
    dead,       \* connections whose client is gone, noticed or not
    members,    \* active_connections of the session
    send,       \* each running send_event, of an event or of a restore
    rest,       \* spans a restore has yet to send
    buffer,     \* _span_buffers of the session
    running,    \* the executions whose status is RUNNING
    planned,    \* PlanStore has a plan of the session
    emitted,    \* spans emitted so far
    received,   \* spans each client has got
    owed,       \* history: spans emitted since the last clear, in order
    jolted,     \* history: spans some sending of which met a removal
    orphaned    \* history: the last one to leave did so during its restore

session == <<place, dead, members, running, planned, orphaned>>
delivery == <<send, rest, buffer, emitted, received, owed, jolted>>
vars == <<session, delivery>>

Restoring == {"plan", "info", "log", "replay"}
Places == Restoring \cup {"new", "loop", "grace", "done"}
Idle == [to |-> 0, pos |-> 0, cut |-> FALSE, failed |-> {}]

TypeOK ==
    /\ place \in [Conns -> Places]
    /\ dead \subseteq Conns
    /\ members \subseteq Conns
    /\ send \in [Senders -> [to : Conns \cup {0}, pos : Nat, cut : BOOLEAN,
                             failed : SUBSET Conns]]
    /\ rest \in [Conns -> Seq(Spans)]
    /\ buffer \in Seq(Spans) /\ Len(buffer) <= MaxBuffer
    /\ running \subseteq Execs
    /\ planned \in BOOLEAN
    /\ emitted \subseteq Spans
    /\ received \in [Conns -> SUBSET Spans]
    /\ owed \in Seq(Spans)
    /\ jolted \subseteq Spans
    /\ orphaned \in BOOLEAN

Init ==
    /\ place = [c \in Conns |-> "new"]
    /\ dead = {}
    /\ members = {}
    /\ send = [x \in Senders |-> Idle]
    /\ rest = [c \in Conns |-> <<>>]
    /\ buffer = <<>>
    /\ running = {}
    /\ planned = FALSE
    /\ emitted = {}
    /\ received = [c \in Conns |-> {}]
    /\ owed = <<>>
    /\ jolted = {}
    /\ orphaned = FALSE

-----------------------------------------------------------------------------
(* The list of connections and the sends that iterate over it *)

Before(m, c) == Cardinality({d \in m : d < c})
Nth(m, i) == CHOOSE c \in m : Before(m, c) = i
Recent(s) == SubSeq(s, IF Len(s) > MaxBuffer THEN Len(s) - MaxBuffer + 1 ELSE 1, Len(s))

\* A send_event that has just reached its first connection.
FirstOf(m) == [Idle EXCEPT !.to = Nth(m, 0)]

\* The span that a send carries, if it carries one.
Carried(x) ==
    IF x \in Spans THEN {x}
    ELSE IF rest[x] = <<>> THEN {} ELSE {Head(rest[x])}

\* The sends whose next connection slides out of reach when some are removed.
Jolted(gone, sends) ==
    {x \in Senders : /\ sends[x] # Idle /\ ~sends[x].cut
                     /\ \E d \in gone \cap members : Before(members, d) <= sends[x].pos}

\* disconnect of some connections, with these sends in progress.
Disconnect(gone, sends) ==
    /\ members' = members \ gone
    /\ jolted' = jolted \cup UNION {Carried(x) : x \in Jolted(gone, sends)}

\* What those sends are afterwards.
CutOff(gone, sends) ==
    [x \in Senders |-> IF sends[x] # Idle /\ members \ gone = {}
                       THEN [sends[x] EXCEPT !.cut = TRUE] ELSE sends[x]]

\* A span is buffered when it has been sent, or dropped for want of a client.
Buffered(s) ==
    /\ buffer' = Recent(Append(buffer, s))
    /\ owed' = Append(owed, s)

Cleared == buffer' = <<>> /\ owed' = <<>>

-----------------------------------------------------------------------------
(* A connection: accept, restore, commands *)

\* The plan is restored first, if the session has one.
Connect(c) ==
    /\ place[c] = "new"
    /\ \A d \in Conns : d < c => place[d] # "new"
    /\ members' = members \cup {c}
    /\ orphaned' = FALSE
    /\ IF planned
       THEN /\ place' = [place EXCEPT ![c] = "plan"]
            /\ send' = [send EXCEPT ![c] = FirstOf(members \cup {c})]
       ELSE place' = [place EXCEPT ![c] = "info"] /\ UNCHANGED send
    /\ UNCHANGED <<dead, running, planned, rest, buffer, emitted, received, owed, jolted>>

\* server_info goes to this connection alone; then the log level to all.
SendInfo(c) ==
    /\ place[c] = "info"
    /\ c \notin dead
    /\ IF members = {}
       THEN place' = [place EXCEPT ![c] = "loop"] /\ UNCHANGED send
       ELSE /\ place' = [place EXCEPT ![c] = "log"]
            /\ send' = [send EXCEPT ![c] = FirstOf(members)]
    /\ UNCHANGED <<dead, members, running, planned, orphaned,
                   rest, buffer, emitted, received, owed, jolted>>

\* Its sending raises: the coroutine returns from the restore.
Bail(c) ==
    /\ place[c] = "info"
    /\ c \in dead
    /\ place' = [place EXCEPT ![c] = "done"]
    /\ Disconnect({c}, send)
    /\ send' = CutOff({c}, send)
    /\ orphaned' = /\ running # {}
                   /\ \A d \in Conns \ {c} : place[d] \in {"new", "done"}
    /\ UNCHANGED <<dead, running, planned, rest, buffer, emitted, received, owed>>

\* After the plan comes server_info, after the log level the buffer as it is
\* then, one span after the other. With no member left the others are dropped.
Continue(c, m, sends) ==
    LET todo == IF place[c] = "log" THEN buffer ELSE SubSeq(rest[c], 2, Len(rest[c]))
        more == place[c] # "plan" /\ todo # <<>> /\ m # {}
    IN /\ place' = [place EXCEPT ![c] = CASE place[c] = "plan" -> "info"
                                          [] more -> "replay"
                                          [] OTHER -> "loop"]
       /\ rest' = [rest EXCEPT ![c] = IF more THEN todo ELSE <<>>]
       /\ send' = IF more THEN [sends EXCEPT ![c] = FirstOf(m)] ELSE sends

\* The iteration has come to the end of its list; the connections that failed
\* are removed.
EndOfList(x, failed) ==
    LET others == [send EXCEPT ![x] = Idle]
        sends == CutOff(failed, others)
    IN /\ Disconnect(failed, others)
       /\ IF x \in Conns
          THEN Continue(x, members \ failed, sends) /\ UNCHANGED <<buffer, owed>>
          ELSE Buffered(x) /\ send' = sends /\ UNCHANGED <<place, rest>>

\* A sending to one connection is over. The next connection is the one at the
\* next index of the list as it is now.
Sent(x) ==
    LET s == send[x]
        failed == s.failed \cup ({s.to} \cap dead)
    IN /\ s # Idle
       /\ received' = [received EXCEPT ![s.to] =
                         IF s.to \in dead THEN @ ELSE @ \cup Carried(x)]
       /\ IF ~s.cut /\ s.pos + 1 < Cardinality(members)
          THEN /\ send' = [send EXCEPT ![x] =
                             [to |-> Nth(members, s.pos + 1), pos |-> s.pos + 1,
                              cut |-> FALSE, failed |-> failed]]
               /\ UNCHANGED <<place, members, rest, buffer, owed, jolted>>
          ELSE EndOfList(x, failed)
       /\ UNCHANGED <<dead, running, planned, orphaned, emitted>>

\* Mutant: an event that nobody is there for is dropped altogether.
EmitToSomebody(s) ==
    /\ s \notin emitted
    /\ emitted' = emitted \cup {s}
    /\ IF members = {}
       THEN owed' = Append(owed, s) /\ UNCHANGED <<buffer, send>>
       ELSE send' = [send EXCEPT ![s] = FirstOf(members)] /\ UNCHANGED <<buffer, owed>>
    /\ UNCHANGED <<session, rest, received, jolted>>

Emit(s) ==
    /\ s \notin emitted
    /\ emitted' = emitted \cup {s}
    /\ IF members = {}
       THEN Buffered(s) /\ UNCHANGED send
       ELSE send' = [send EXCEPT ![s] = FirstOf(members)] /\ UNCHANGED <<buffer, owed>>
    /\ UNCHANGED <<session, rest, received, jolted>>

\* The client closes, its network fails, or it stays silent for too long.
Drop(c) ==
    /\ place[c] \in Restoring \cup {"loop"} /\ c \notin dead
    /\ Cardinality(dead) < MaxDrops
    /\ dead' = dead \cup {c}
    /\ received' = [received EXCEPT ![c] = {}]
    /\ UNCHANGED <<place, members, running, planned, orphaned,
                   send, rest, buffer, emitted, owed, jolted>>

-----------------------------------------------------------------------------
(* Executions, and the end of a connection *)

\* A command sets an execution RUNNING, one it starts with its plan; the command
\* may have been waiting in a connection that is dead.
Run(c, e) ==
    /\ place[c] = "loop"
    /\ e \notin running
    /\ running' = running \cup {e}
    /\ planned' = TRUE
    /\ UNCHANGED <<place, dead, members, orphaned, delivery>>

\* A workflow is loaded, or the first patch makes a plan.
StorePlan(c) ==
    /\ place[c] = "loop"
    /\ ~planned
    /\ planned' = TRUE
    /\ UNCHANGED <<place, dead, members, running, orphaned, delivery>>

\* It is paused, or ends by itself.
EndExec(e) ==
    /\ e \in running
    /\ running' = running \ {e}
    /\ UNCHANGED <<place, dead, members, planned, orphaned, delivery>>

\* Mutant: the connection counts itself.
NobodyLeft(c) == members = {}

\* get_session_count(session_id) == 0, once the connection has left.
LastOne(c) == members \ {c} = {}

\* The command loop has ended.
Notice(c) ==
    /\ place[c] = "loop"
    /\ c \in dead
    /\ Disconnect({c}, send)
    /\ send' = CutOff({c}, send)
    /\ place' = [place EXCEPT ![c] =
                   IF LastOne(c) /\ running # {} THEN "grace" ELSE "done"]
    /\ IF LastOne(c) /\ running = {} THEN Cleared ELSE UNCHANGED <<buffer, owed>>
    /\ UNCHANGED <<dead, running, planned, orphaned, rest, emitted, received>>

\* abort_session_executions suspends nowhere when nobody is connected.
GraceEnds(c) ==
    /\ place[c] = "grace"
    /\ place' = [place EXCEPT ![c] = "done"]
    /\ running' = IF members = {} THEN {} ELSE running
    /\ Cleared
    /\ UNCHANGED <<dead, members, planned, orphaned, send, rest, emitted, received, jolted>>

Next ==
    \/ \E c \in Conns : \/ Connect(c) \/ SendInfo(c) \/ Bail(c) \/ Drop(c)
                        \/ Notice(c) \/ GraceEnds(c) \/ StorePlan(c)
                        \/ \E e \in Execs : Run(c, e)
    \/ \E x \in Senders : Sent(x)
    \/ \E s \in Spans : Emit(s)
    \/ \E e \in Execs : EndExec(e)

Spec == Init /\ [][Next]_vars

-----------------------------------------------------------------------------
(* Properties *)

\* Step 4 of websocket_endpoint's docstring: on disconnect the executions are
\* aborted unless somebody comes back. Once nobody is connected and no grace
\* period runs, no execution does, in whatever order clients came, left, were
\* swept out by a failed send and came back during each other's grace period;
\* unless the last to leave did so while its state was being restored, which
\* the code answers with a mere disconnect.
AbandonedIsAborted ==
    (\A c \in Conns : place[c] \in {"new", "done"}) /\ ~orphaned => running = {}

\* "Replay buffered span events so reconnecting clients recover timeline data":
\* a client that is there and past its restore has every span emitted since
\* the last clear that the buffer can hold, whether sent to it live, dropped
\* while nobody was there, in flight while it connected, or buffered and
\* cleared while it was being restored. Left out are spans whose sending met
\* the removal of a connection, which can make it skip the next one.
TimelineRecovered ==
    \A c \in Conns :
        place[c] = "loop" /\ c \notin dead =>
            ToSet(Recent(owed)) \ jolted \subseteq received[c]
=============================================================================
