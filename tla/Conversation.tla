----------------------------- MODULE Conversation -----------------------------
(***************************************************************************)
(* One Studio conversation: its JSON file, the turns that append to it,    *)
(* the compactions that run beside them, and what a client may do to it    *)
(* meanwhile: edit and delete messages, regenerate an answer, pin, restore *)
(* a backup, delete the conversation. Conversations share nothing.         *)
(*                                                                         *)
(* One event loop runs everything, and no section under the conversation   *)
(* lock suspends: an action is the code between two awaits that may        *)
(* suspend or two chunks of the stream. A turn has at most one round with  *)
(* one tool call; a message is one unit of context, a summary one as well. *)
(* Texts are left out: a message is known by the turn that wrote it and by *)
(* its kind, and turn 0 is the history the conversation begins with.       *)
(*                                                                         *)
(* ChatSpec and its parts are named for the chat, as a module that extends *)
(* this one and SessionGateway has to tell the two apart.                  *)
(***************************************************************************)
EXTENDS Naturals, Sequences, FiniteSets

CONSTANTS
    Histories,    \* what turn 0 may have left
    MaxTurns,     \* bound: turns, regenerations included
    MaxManual,    \* bound: compactions the client asks for
    MaxEvents,    \* bound: calls of the client, writes that fail in a
                  \* compaction, and crashes, together
    RecentWindow, \* repo_recent_window, or the keep_n of the profile
    Capacity,     \* units of the rolling context
    Pressure      \* units at which a turn compacts

Turns == 1..MaxTurns
Manuals == (MaxTurns + 1)..(MaxTurns + MaxManual)
Owners == Turns \cup Manuals   \* of compactions

Kinds == {"user", "carrier", "result", "answer"}
Messages == [turn : 0..MaxTurns, kind : Kinds]
User(t) == [turn |-> t, kind |-> "user"]
Carrier(t) == [turn |-> t, kind |-> "carrier"] \* the assistant's tool calls
Result(t) == [turn |-> t, kind |-> "result"]
Answer(t) == [turn |-> t, kind |-> "answer"]

\* The messages of one turn stand in the order question, calls, results,
\* answer, and results follow their calls with nothing in between.
Rank == [user |-> 1, carrier |-> 2, result |-> 3, answer |-> 4]

Ordered(s) ==
    \A i, j \in DOMAIN s :
        s[i].turn = s[j].turn =>
          /\ i < j <=> Rank[s[i].kind] < Rank[s[j].kind]
          /\ s[i].kind = "carrier" /\ s[j].kind = "result" => j = i + 1

ASSUME ConversationAssumption ==
    /\ {MaxTurns, MaxManual, MaxEvents} \subseteq Nat
    /\ RecentWindow \in Nat /\ RecentWindow >= 2
    /\ {Capacity, Pressure} \subseteq Nat \ {0}
    /\ \A h \in Histories :
         h \in Seq(Messages) /\ Ordered(h) /\ \A i \in DOMAIN h : h[i].turn = 0

VARIABLES
    file,    \* the conversation on disk
    backups, \* copies of it on disk
    turn,    \* send_message and regenerate_message calls
    comp,    \* compactions: of a turn, after it, or asked for
    count,   \* counters for the bounds
    written, \* history: every message a turn has stored
    gone,    \* history: those a client, or a failed commit, has taken away
    stale    \* history: the slot came from a backup or from before a crash

chat == <<file, backups, turn, comp, count, written, gone, stale>>

NoSlot == [turn |-> 0, status |-> "none"]
NoCompaction == [pc |-> "idle", backup |-> 0, dropped |-> {}]
NoTurn == [pc |-> "idle", asks |-> 0, tools |-> <<>>, path |-> "none",
           saved |-> FALSE]
Ended(r) == [NoTurn EXCEPT !.pc = "done", !.asks = r.asks]
Members(s) == {s[i] : i \in DOMAIN s}
Least(m, n) == IF m < n THEN m ELSE n

ChatInit ==
    /\ \E h \in Histories :
         /\ file = [exists |-> TRUE, msgs |-> h, slot |-> NoSlot,
                    used |-> Least(Len(h), Capacity), records |-> {},
                    pins |-> {}]
         /\ written = Members(h)
    /\ backups = <<>>
    /\ turn = [t \in Turns |-> NoTurn]
    /\ comp = [o \in Owners |-> NoCompaction]
    /\ count = [manual |-> 0, rewrites |-> 0, faults |-> 0, crashes |-> 0]
    /\ gone = {}
    /\ stale = FALSE

Begun == {t \in Turns : turn[t].pc # "idle"}
MoreEvents ==
    Cardinality(Begun) + count.manual + count.rewrites + count.faults
      + count.crashes < MaxEvents

-----------------------------------------------------------------------------
(* The file *)

Appended(f, new) ==
    [f EXCEPT !.msgs = @ \o new, !.used = Least(@ + Len(new), Capacity)]

\* A rewrite counts every message anew, those compacted before included.
Rewritten(f, msgs) ==
    [f EXCEPT !.msgs = msgs, !.used = Least(Len(msgs), Capacity)]

Released(f, units) ==
    [f EXCEPT !.used = IF units > @ THEN 0 ELSE @ - units]

\* The one slot is overwritten, whoever holds it.
SlotSet(f, t, status) ==
    IF f.exists THEN [f EXCEPT !.slot = [turn |-> t, status |-> status]] ELSE f

\* Mutants: a turn that failed leaves its slot; no turn clears it.
ClearedIfFinishing(f, t) ==
    IF f.exists /\ f.slot = [turn |-> t, status |-> "finishing"]
    THEN [f EXCEPT !.slot = NoSlot] ELSE f

NotCleared(f, t) == f

\* Cleared only by the turn it names.
SlotCleared(f, t) ==
    IF f.exists /\ f.slot.turn = t THEN [f EXCEPT !.slot = NoSlot] ELSE f

-----------------------------------------------------------------------------
(* When a compaction may start, and what it drops *)

\* Mutant: only calls without results are looked for.
NoOpenCall(w) ==
    \A i \in DOMAIN w :
        w[i].kind = "carrier" => /\ i + 1 \in DOMAIN w
                                 /\ w[i + 1] = Result(w[i].turn)

\* The scan of tool calls that wait for a result: no call without its result
\* next to it, no result without its call.
Complete(w) ==
    \A i \in DOMAIN w :
        /\ w[i].kind = "carrier" => /\ i + 1 \in DOMAIN w
                                    /\ w[i + 1] = Result(w[i].turn)
        /\ w[i].kind = "result" => /\ i - 1 \in DOMAIN w
                                   /\ w[i - 1] = Carrier(w[i].turn)

RecentMessages(f) ==
    SubSeq(f.msgs, Len(f.msgs) - RecentWindow + 1, Len(f.msgs))

\* The pause of some seconds after a compaction is left to the caller.
SafetyGate(f) ==
    /\ Len(f.msgs) > RecentWindow
    /\ f.slot.status # "streaming"
    /\ Complete(RecentMessages(f))

Dropped(f) ==
    Members(SubSeq(f.msgs, 1, Len(f.msgs) - RecentWindow)) \ f.pins

MayCompact(f) == Len(f.msgs) >= 3 /\ SafetyGate(f) /\ Dropped(f) # {}

\* The snapshot is the file: nothing suspends between the two.
Compacting(f) ==
    [pc |-> "summarizing", backup |-> Len(backups) + 1, dropped |-> Dropped(f)]

\* What a summary of the dropped messages saves.
Saving(o) == Cardinality(comp[o].dropped) - 1

-----------------------------------------------------------------------------
(* A turn *)

\* prepare appends the question and, under pressure, goes on to compact; the
\* slot is set when it returns. A backup that fails ends the compaction, not
\* the turn: it may go on at once in any case.
Prepare(t, asks) ==
    LET f == Appended(file, <<User(t)>>)
    IN /\ written' = written \cup {User(t)}
       /\ \/ /\ f.used >= Pressure /\ MayCompact(f)
             /\ file' = f
             /\ backups' = Append(backups, f)
             /\ comp' = [comp EXCEPT ![t] = Compacting(f)]
             /\ turn' = [turn EXCEPT ![t].pc = "compacting", ![t].asks = asks]
             /\ UNCHANGED <<count, stale>>
          \/ /\ file' = SlotSet(f, t, "streaming")
             /\ stale' = FALSE
             /\ turn' = [turn EXCEPT ![t].pc = "thinking", ![t].asks = asks]
             /\ UNCHANGED <<backups, comp, count>>

\* Turns are numbered in the order in which they begin.
IsNext(t) ==
    /\ turn[t].pc = "idle"
    /\ \A u \in Turns : u < t => turn[u].pc # "idle"
    /\ MoreEvents

Send(t) ==
    /\ IsNext(t)
    /\ file.exists
    /\ Prepare(t, t)
    /\ UNCHANGED gone

\* prepare_regeneration: the target and all after it go, and the message
\* before it when it is the question. A client told of the new units asks for
\* the rest.
Regenerate(t, i) ==
    /\ IsNext(t)
    /\ file.exists
    /\ i \in DOMAIN file.msgs
    /\ file.msgs[i].kind \in {"carrier", "answer"}
    /\ \E q \in 1..(i - 1) :
         /\ file.msgs[q].kind = "user"
         /\ \A j \in (q + 1)..(i - 1) : file.msgs[j].kind # "user"
         /\ LET kept == SubSeq(file.msgs, 1, IF q = i - 1 THEN i - 2 ELSE i - 1)
                asker == file.msgs[q].turn
            IN /\ file' = Rewritten(file, kept)
               /\ gone' = gone \cup (Members(file.msgs) \ Members(kept))
               /\ turn' = [turn EXCEPT
                             ![t].pc = "resending",
                             ![t].asks = IF asker = 0 THEN 0
                                         ELSE turn[asker].asks]
    /\ UNCHANGED <<backups, comp, count, written, stale>>

Resend(t) ==
    /\ turn[t].pc = "resending"
    /\ \/ file.exists /\ Prepare(t, turn[t].asks)
       \/ /\ ~file.exists
          /\ turn' = [turn EXCEPT ![t] = Ended(@)]
          /\ UNCHANGED <<file, backups, comp, count, written, stale>>
    /\ UNCHANGED gone

\* What is stored of a tool round: what lies beyond the length of the prompt
\* in a list from which an oversized prompt has lost its oldest messages.
ToolsStored(t) == {SubSeq(<<Carrier(t), Result(t)>>, d + 1, 2) : d \in 0..2}

ToolLoopEnds(t) ==
    /\ turn[t].pc = "thinking"
    /\ \E tools \in ToolsStored(t) :
         turn' = [turn EXCEPT ![t].pc = "streaming", ![t].tools = tools]
    /\ UNCHANGED <<file, backups, comp, count, written, gone, stale>>

\* Neither a failed tool loop nor an answer from memory marks the slot.
AnswersAtOnce(t) ==
    /\ turn[t].pc = "thinking"
    /\ \E path \in {"error", "memory"} :
         turn' = [turn EXCEPT ![t].pc = "finishing", ![t].path = path]
    /\ UNCHANGED <<file, backups, comp, count, written, gone, stale>>

StreamEnds(t) ==
    /\ turn[t].pc = "streaming"
    /\ turn' = [turn EXCEPT ![t].pc = "finishing", ![t].path = "chat"]
    /\ file' = SlotSet(file, t, "finishing")
    /\ stale' = FALSE
    /\ UNCHANGED <<backups, comp, count, written, gone>>

Replied(r, saved) == [Ended(r) EXCEPT !.pc = "replied", !.saved = saved]

\* Mutant: the tool messages after the answer.
AnswerFirst(t) == <<Answer(t)>> \o turn[t].tools

Reply(t) == turn[t].tools \o <<Answer(t)>>

\* After message.complete. An error or an answer from memory may be empty.
Persist(t) ==
    /\ turn[t].pc = "finishing"
    /\ \/ /\ file' = IF file.exists THEN Appended(file, Reply(t)) ELSE file
          /\ written' = IF file.exists THEN written \cup Members(Reply(t))
                        ELSE written
          /\ turn' = [turn EXCEPT ![t] = Replied(@, @.path # "error")]
       \/ /\ turn[t].path # "chat"
          /\ turn' = [turn EXCEPT ![t] = Replied(@, FALSE)]
          /\ UNCHANGED <<file, written>>
    /\ UNCHANGED <<backups, comp, count, gone, stale>>

\* The finally of send_message.
Close(t) ==
    /\ turn[t].pc \in {"replied", "closing"}
    /\ turn' = [turn EXCEPT ![t] = Ended(@)]
    /\ file' = SlotCleared(file, t)
    /\ stale' = (stale /\ file'.slot # NoSlot)
    /\ comp' = [comp EXCEPT ![t].pc = IF turn[t].saved THEN "scheduled" ELSE @]
    /\ UNCHANGED <<backups, count, written, gone>>

\* The client goes away, or a write of the turn fails: its generator is
\* cancelled at an await, or closed at a chunk, now or when it is collected.
Abandon(t) ==
    /\ turn[t].pc \in {"resending", "compacting", "thinking", "streaming",
                       "finishing"}
    /\ turn' = [turn EXCEPT ![t] = IF @.pc \in {"resending", "compacting"}
                                   THEN Ended(@)
                                   ELSE [Ended(@) EXCEPT !.pc = "closing"]]
    /\ comp' = [comp EXCEPT ![t] = NoCompaction]
    /\ UNCHANGED <<file, backups, count, written, gone, stale>>

-----------------------------------------------------------------------------
(* Compactions *)

\* A compaction nobody waits for.
Starts(o) ==
    /\ file.exists
    /\ MayCompact(file)
    /\ backups' = Append(backups, file)
    /\ comp' = [comp EXCEPT ![o] = Compacting(file)]

\* Even under pressure none is made if the backup fails or the last one is
\* too recent.
PostTurnCompaction(t) ==
    /\ comp[t].pc = "scheduled"
    /\ \/ file.used >= Pressure /\ Starts(t)
       \/ comp' = [comp EXCEPT ![t] = NoCompaction] /\ UNCHANGED backups
    /\ UNCHANGED <<file, turn, count, written, gone, stale>>

CompactConversation(o) ==
    /\ o = MaxTurns + count.manual + 1
    /\ count.manual < MaxManual
    /\ MoreEvents
    /\ Starts(o)
    /\ count' = [count EXCEPT !.manual = @ + 1]
    /\ UNCHANGED <<file, turn, written, gone, stale>>

\* The turn that waited for its compaction goes on.
Resumed(f, o) == IF o \in Turns /\ turn[o].pc = "compacting"
                 THEN SlotSet(f, o, "streaming") ELSE f

ResumeTurn(o) ==
    turn' = IF o \in Turns /\ turn[o].pc = "compacting"
            THEN [turn EXCEPT ![o].pc = "thinking"] ELSE turn

\* Mutants: the commit writes the snapshot it has summarized, and nothing
\* else, or writes it when the file is not there.
SnapshotCommitted(o) ==
    IF file.exists
    THEN [Released(backups[comp[o].backup], Saving(o))
            EXCEPT !.records = @ \cup {comp[o].backup}]
    ELSE file

Recreated(o) ==
    LET f == IF file.exists THEN file ELSE backups[comp[o].backup]
    IN [Released(f, Saving(o)) EXCEPT !.records = @ \cup {comp[o].backup}]

\* The file is read again; its messages stay.
Committed(o) ==
    IF file.exists
    THEN [Released(file, Saving(o)) EXCEPT !.records = @ \cup {comp[o].backup}]
    ELSE file

CompactionCommits(o) ==
    /\ comp[o].pc = "summarizing"
    /\ file' = Resumed(Committed(o), o)
    /\ stale' = IF file'.slot = file.slot THEN stale ELSE FALSE
    /\ comp' = [comp EXCEPT ![o] = NoCompaction]
    /\ ResumeTurn(o)
    /\ UNCHANGED <<backups, count, written, gone>>

\* Back to the backup, whatever was written, or deleted, since it was made.
CompactionFails(o) ==
    /\ comp[o].pc = "summarizing"
    /\ MoreEvents
    /\ LET b == backups[comp[o].backup]
       IN /\ file' = Resumed(b, o)
          /\ stale' = (file'.slot = b.slot /\ b.slot # NoSlot)
          /\ gone' = written \ Members(b.msgs)
    /\ comp' = [comp EXCEPT ![o] = NoCompaction]
    /\ count' = [count EXCEPT !.faults = @ + 1]
    /\ ResumeTurn(o)
    /\ UNCHANGED <<backups, written>>

-----------------------------------------------------------------------------
(* The client and the process *)

Rewrite(msgs) ==
    /\ file' = Rewritten(file, msgs)
    /\ gone' = gone \cup (Members(file.msgs) \ Members(msgs))
    /\ UNCHANGED <<backups, turn, comp, written, stale>>

EditMessage(i) == file.msgs[i].kind = "user" /\ Rewrite(file.msgs)

\* An answer takes the results right before it along, and their calls when
\* they match: a carrier that no result follows goes with its answer too.
\* What goes are neighbours: this is the first of them.
DeletedFrom(i) ==
    LET s == file.msgs
        n == CHOOSE k \in 0..(i - 1) :
               /\ \A j \in (i - k)..(i - 1) : s[j].kind = "result"
               /\ i - k = 1 \/ s[i - k - 1].kind # "result"
        c == i - n - 1
        calls == /\ c >= 1
                 /\ s[c].kind = "carrier"
                 /\ n = 0 \/ \E j \in (i - n)..(i - 1) : s[j] = Result(s[c].turn)
    IN IF s[i].kind \notin {"answer", "carrier"} THEN i
       ELSE IF calls THEN c ELSE i - n

DeleteMessage(i) ==
    Rewrite(SubSeq(file.msgs, 1, DeletedFrom(i) - 1)
              \o SubSeq(file.msgs, i + 1, Len(file.msgs)))

\* No lock, and no look at what runs: the file is the backup again, its slot
\* included. Restoring a compaction makes a backup first.
Restore(b, record) ==
    /\ record => b \in file.records
    /\ file' = backups[b]
    /\ backups' = IF record THEN Append(backups, file) ELSE backups
    /\ gone' = written \ Members(backups[b].msgs)
    /\ stale' = (backups[b].slot # NoSlot)
    /\ UNCHANGED <<turn, comp, written>>

DeleteConversation ==
    /\ file' = [file EXCEPT !.exists = FALSE, !.msgs = <<>>, !.slot = NoSlot,
                            !.used = 0, !.records = {}, !.pins = {}]
    /\ stale' = FALSE
    /\ gone' = written
    /\ UNCHANGED <<backups, turn, comp, written>>

ClientRewrites ==
    /\ file.exists
    /\ MoreEvents
    /\ count' = [count EXCEPT !.rewrites = @ + 1]
    /\ \/ \E i \in DOMAIN file.msgs : EditMessage(i) \/ DeleteMessage(i)
       \/ \E b \in DOMAIN backups, record \in BOOLEAN : Restore(b, record)
       \/ DeleteConversation

Pin(m) ==
    /\ file.exists
    /\ MoreEvents
    /\ m \in Members(file.msgs) \ file.pins
    /\ file' = [file EXCEPT !.pins = @ \cup {m}]
    /\ count' = [count EXCEPT !.rewrites = @ + 1]
    /\ UNCHANGED <<backups, turn, comp, written, gone, stale>>

\* Every task is lost; what is on disk stays, the slot as well.
Crash ==
    /\ MoreEvents
    /\ count' = [count EXCEPT !.crashes = @ + 1]
    /\ turn' = [t \in Turns |-> IF turn[t].pc = "idle" THEN turn[t]
                                ELSE Ended(turn[t])]
    /\ comp' = [o \in Owners |-> NoCompaction]
    /\ stale' = (file.slot # NoSlot)
    /\ UNCHANGED <<file, backups, written, gone>>

-----------------------------------------------------------------------------

TurnSteps(t) ==
    \/ Resend(t) \/ ToolLoopEnds(t) \/ AnswersAtOnce(t) \/ StreamEnds(t)
    \/ Persist(t) \/ Close(t)

CompactionSteps(o) ==
    \/ CompactionCommits(o)
    \/ CompactionFails(o)
    \/ o \in Turns /\ PostTurnCompaction(o)

ChatNext ==
    \/ \E t \in Turns : Send(t) \/ TurnSteps(t) \/ Abandon(t)
    \/ \E t \in Turns : \E i \in DOMAIN file.msgs : Regenerate(t, i)
    \/ \E o \in Owners : CompactionSteps(o)
    \/ \E o \in Manuals : CompactConversation(o)
    \/ ClientRewrites
    \/ \E m \in Messages : Pin(m)
    \/ Crash

\* The event loop runs what is ready, and a model answers or its call fails.
\* Nothing makes a client act or a write fail.
Fairness ==
    /\ \A t \in Turns : WF_chat(TurnSteps(t))
    /\ \A o \in Owners : WF_chat(CompactionSteps(o))

ChatSpec == ChatInit /\ [][ChatNext]_chat /\ Fairness

-----------------------------------------------------------------------------
(* Properties *)

TurnPCs == {"idle", "resending", "compacting", "thinking", "streaming",
            "finishing", "replied", "closing", "done"}

Files == [exists : BOOLEAN, msgs : Seq(Messages),
          slot : {NoSlot} \cup [turn : Turns, status : {"streaming",
                                                        "finishing"}],
          used : 0..Capacity, records : SUBSET Nat, pins : SUBSET Messages]

\* Types of the state of a conversation, its turns and its compactions.
ChatTypeOK ==
    /\ file \in Files
    /\ \A b \in DOMAIN backups : backups[b] \in Files
    /\ turn \in [Turns -> [pc : TurnPCs, asks : 0..MaxTurns,
                           tools : Seq(Messages),
                           path : {"none", "chat", "error", "memory"},
                           saved : BOOLEAN]]
    /\ comp \in [Owners -> [pc : {"idle", "scheduled", "summarizing"},
                            backup : Nat, dropped : SUBSET Messages]]
    /\ \A o \in Owners :
         comp[o].pc = "summarizing" => comp[o].backup \in DOMAIN backups
    /\ count \in [manual : 0..MaxManual, rewrites : 0..MaxEvents,
                  faults : 0..MaxEvents, crashes : 0..MaxEvents]
    /\ {written, gone} \subseteq SUBSET Messages
    /\ stale \in BOOLEAN

\* A message stored by one turn stays while other turns, rewrites and
\* compactions read the file, wait and write it again: only a client, or a
\* commit that fails and puts an older file back, takes a message away.
NothingLost == file.exists => written \ gone \subseteq Members(file.msgs)

\* However turns overlap, the messages of one turn stand in the file in the
\* order question, calls, results, answer, and results follow their calls
\* with nothing of another turn between them.
TurnsInOrder == Ordered(file.msgs)

\* The streaming slot on disk names a turn that still runs and will clear it,
\* except one that came back with a backup or outlived a crash.
SlotNamesLiveTurn ==
    file.slot # NoSlot /\ ~stale =>
        LET pc == turn[file.slot.turn].pc
        IN IF file.slot.status = "streaming"
           THEN pc \in {"thinking", "streaming", "finishing", "replied",
                        "closing"}
           ELSE pc \in {"finishing", "replied", "closing"}

\* The gate on the recent window keeps the cut of a compaction out of a tool
\* round: a kept result has its call kept as well, or never had it, or was
\* pinned without it.
CutKeepsRounds ==
    \A o \in Owners :
        comp[o].pc = "summarizing" =>
            LET b == backups[comp[o].backup]
            IN \A m \in Members(b.msgs) \ (comp[o].dropped \cup b.pins) :
                 m.kind = "result" => Carrier(m.turn) \notin comp[o].dropped

\* A conversation once deleted is not written again by the turns and the
\* compactions still running, except by a commit that fails.
NoResurrection ==
    [][~file.exists /\ file'.exists => count'.faults > count.faults]_chat

\* Whatever happens to it, a conversation comes to rest: every call has ended,
\* no compaction is under way, and no turn has kept the slot, unless the slot
\* came back with a backup or outlived a crash.
Quiet ==
    /\ \A t \in Turns : turn[t].pc \in {"idle", "done"}
    /\ \A o \in Owners : comp[o].pc = "idle"
    /\ file.slot = NoSlot \/ stale

ComesToRest == []<>Quiet

\* chat_service.py: regenerating "re-sends the last user message", which the
\* test of it has popped first: the conversation does not ask it twice.
NoQuestionTwice ==
    \A i, j \in DOMAIN file.msgs :
        file.msgs[i].kind = "user" /\ file.msgs[j].kind = "user" /\ i # j =>
            LET Asks(m) == IF m.turn = 0 THEN 0 ELSE turn[m.turn].asks
            IN Asks(file.msgs[i]) # Asks(file.msgs[j])
===============================================================================
