------------------------------ MODULE ToolLoop ------------------------------
(***************************************************************************)
(* One run of ToolCallRunner: rounds of an LLM call and the tool calls it  *)
(* asks for, executed one by one or in parallel under a semaphore, behind  *)
(* policy, consent and hooks, with a cache of results and the placeholders *)
(* by which a call takes the output of an earlier one                      *)
(* (houyi/application/tool_calling/).                                      *)
(*                                                                         *)
(* Everything runs on one event loop; an action is what a call does        *)
(* between two awaits. LLM, tools, hooks and the user's consent are        *)
(* outcomes. Arguments are the placeholder a call was given, or nothing.   *)
(***************************************************************************)
EXTENDS ToolMessages

CONSTANTS
    Tools,       \* the registered tools
    Policy,      \* [Tools -> {"allow", "consent", "deny"}]
    Responses,   \* what the LLM may ask for: sequences of calls
    Histories,   \* the lists of messages a run may begin with
    Sizes,       \* the sizes of a result
    MaxRounds,   \* max_rounds
    MaxParallel, \* max_parallel_calls
    NoRef        \* a call without placeholder

\* What a placeholder may name: a tool, or a call by its position.
Keys == Tools \cup (Nat \ {0})

ASSUME LoopAssumption ==
    /\ Policy \in [Tools -> {"allow", "consent", "deny"}]
    /\ Responses \subseteq Seq([tool : Tools, ref : Keys \cup {NoRef}]) \ {<<>>}
    /\ Histories \subseteq Seq(MessageRecords)
    /\ Sizes \subseteq Nat
    /\ MaxRounds \in Nat \ {0}
    /\ MaxParallel \in Nat \ {0}
    /\ NoRef \notin Keys

VARIABLES
    config,    \* the switches of the run
    pc,        \* where execute_rounds stands: "llm", "tools", "returned", "raised"
    round,     \* the round it is in
    messages,  \* tool_loop_messages, the caller's list
    calls,     \* the calls of the round
    stage,     \* where each of them stands
    args,      \* its arguments, once its placeholder is resolved
    runs,      \* the tool it executes, which a hook may have replaced
    result,    \* its result
    ended,     \* the calls of the round in the order they have ended
    cache,     \* tool_cache: results by tool and arguments
    outputs,   \* resolved_outputs: results by tool and by position
    invoked,   \* tool_loop_invoked_tool_names
    consent,   \* _consent_cache
    grants     \* history: the tools the user has consented to

batch == <<calls, stage, args, runs, result, ended>>
vars  == <<config, pc, round, messages, batch, cache, outputs, invoked, consent, grants>>

Configs == {c \in [parallel : BOOLEAN, fast : BOOLEAN, replace : BOOLEAN] :
               ~(c.parallel /\ c.replace)}
Stages  == {"queued", "asking", "ready", "executing", "delivered",
            "ended", "blocked", "failed"}

\* What a tool comes back with: something, the None that a success may be too,
\* or an error.
Outcomes == {"value", "nothing", "error"}

\* A result is known by the round and the position of the call that made it.
Value(i, out, size) == [at |-> <<round, i>>, out |-> out, size |-> size]
None == [at |-> <<0, 0>>, out |-> "error", size |-> 1]  \* no result, or a refusal

Init ==
    /\ config \in Configs
    /\ messages \in Histories
    /\ pc = "llm" /\ round = 1
    /\ calls = <<>> /\ stage = <<>> /\ args = <<>> /\ runs = <<>> /\ result = <<>>
    /\ ended = <<>>
    /\ cache = {} /\ outputs = {}
    /\ invoked = {} /\ consent = {} /\ grants = {}

-----------------------------------------------------------------------------
(* The placeholders. *)
HasPlaceholders == config.fast /\ \E i \in DOMAIN calls : calls[i].ref # NoRef

\* Mutant: calls that wait for each other's outputs are run in parallel too.
ParallelAnyway == config.parallel /\ Len(calls) > 1

IsParallel == config.parallel /\ ~HasPlaceholders /\ Len(calls) > 1

Arg(ref, value) == [ref |-> ref, value |-> value]

\* What is on record under a key. A None is there too, and hides what was there
\* before it, but is not told from a key that is not there.
OnRecord(outs, key) == {o.value : o \in {p \in outs : p.key = key}}
Output(key) == {v \in OnRecord(outputs, key) : v.out # "nothing"}

\* With the fast path, a call that is not one of a parallel batch takes what
\* its placeholder names; otherwise, or when there is no such output, it is
\* given the placeholder as it stands.
Resolved(ref) ==
    IF config.fast /\ ~IsParallel /\ Output(ref) # {}
    THEN Arg(NoRef, CHOOSE v \in Output(ref) : TRUE) ELSE Arg(ref, None)

\* _update_resolved_outputs.
Recorded(i, tool, v) ==
    IF ~config.fast \/ IsParallel THEN outputs
    ELSE {o \in outputs : o.key \notin {tool, i}}
           \cup {[key |-> tool, value |-> v], [key |-> i, value |-> v]}

-----------------------------------------------------------------------------
(* A call, from the semaphore to its result. *)
Active == {i \in DOMAIN calls : stage[i] \in {"asking", "ready", "executing", "delivered"}}
Over   == {i \in DOMAIN calls : stage[i] \in {"ended", "blocked", "failed"}}

\* The semaphore is fair, and outlives a run that has raised; without it one
\* call follows the other.
MayBegin(i) ==
    /\ stage[i] = "queued"
    /\ \A j \in 1..(i - 1) : stage[j] # "queued"
    /\ IF IsParallel THEN Cardinality(Active) < MaxParallel
       ELSE pc = "tools" /\ Active = {}

\* Mutant: a tool the user is being asked about is not asked about again.
VerdictWithoutAsking(tool) ==
    CASE Policy[tool] = "deny" -> "blocked"
      [] /\ Policy[tool] = "consent" /\ tool \notin consent
         /\ ~\E j \in Active : calls[j].tool = tool -> "asking"
      [] OTHER -> "ready"

\* check_invocation.
Verdict(tool) ==
    CASE Policy[tool] = "deny" -> "blocked"
      [] Policy[tool] = "consent" /\ tool \notin consent -> "asking"
      [] OTHER -> "ready"

Begin(i) ==
    /\ MayBegin(i)
    /\ args' = [args EXCEPT ![i] = Resolved(calls[i].ref)]
    /\ stage' = [stage EXCEPT ![i] = Verdict(calls[i].tool)]
    /\ ended' = IF stage'[i] = "blocked" THEN Append(ended, i) ELSE ended
    /\ UNCHANGED <<config, pc, round, messages, calls, runs, result, cache,
                   outputs, invoked, consent, grants>>

Consents(i) ==
    /\ stage[i] = "asking"
    /\ stage' = [stage EXCEPT ![i] = "ready"]
    /\ consent' = consent \cup {calls[i].tool}
    /\ grants' = grants \cup {calls[i].tool}
    /\ UNCHANGED <<config, pc, round, messages, calls, args, runs, result, ended,
                   cache, outputs, invoked>>

\* The user says no; so does a runner without a consent manager.
Refuses(i) ==
    /\ stage[i] = "asking"
    /\ stage' = [stage EXCEPT ![i] = "blocked"]
    /\ ended' = Append(ended, i)
    /\ UNCHANGED <<config, pc, round, messages, calls, args, runs, result, cache,
                   outputs, invoked, consent, grants>>

\* The call has a result, its own or a cached one.
Deliver(i, tool, v) ==
    /\ stage' = [stage EXCEPT ![i] = "delivered"]
    /\ runs' = [runs EXCEPT ![i] = tool]
    /\ result' = [result EXCEPT ![i] = v]
    /\ outputs' = Recorded(i, tool, v)
    /\ invoked' = invoked \cup {tool}
    /\ UNCHANGED <<config, pc, round, messages, calls, args, ended, consent, grants>>

Cached(tool, arg) == {e \in cache : e.tool = tool /\ e.arg = arg}

\* The hooks before the call are through, and may have replaced its tool.
Replaced(i) == IF config.replace THEN Tools ELSE {calls[i].tool}

Hit(i) ==
    /\ stage[i] = "ready"
    /\ \E tool \in Replaced(i) : \E e \in Cached(tool, args[i]) :
          Deliver(i, tool, e.value)
    /\ UNCHANGED cache

Miss(i) ==
    /\ stage[i] = "ready"
    /\ \E tool \in Replaced(i) :
          /\ Cached(tool, args[i]) = {}
          /\ runs' = [runs EXCEPT ![i] = tool]
    /\ stage' = [stage EXCEPT ![i] = "executing"]
    /\ UNCHANGED <<config, pc, round, messages, calls, args, result, ended, cache,
                   outputs, invoked, consent, grants>>

\* Only a success is cached.
Stored(i, v) ==
    IF v.out # "error"
    THEN (cache \ Cached(runs[i], args[i]))
           \cup {[tool |-> runs[i], arg |-> args[i], value |-> v]}
    ELSE cache

\* Whatever a tool raises is a result too.
Return(i) ==
    /\ stage[i] = "executing"
    /\ \E out \in Outcomes, size \in Sizes :
          /\ Deliver(i, runs[i], Value(i, out, size))
          /\ cache' = Stored(i, Value(i, out, size))

\* The hooks after the call are through.
Finish(i) ==
    /\ stage[i] = "delivered"
    /\ stage' = [stage EXCEPT ![i] = "ended"]
    /\ ended' = Append(ended, i)
    /\ UNCHANGED <<config, pc, round, messages, calls, args, runs, result, cache,
                   outputs, invoked, consent, grants>>

\* A hook or the consent handler raises. The run ends with it; the other calls
\* of a parallel batch go on.
Raise(i) ==
    /\ stage[i] \in {"asking", "ready", "delivered"}
    /\ stage' = [stage EXCEPT ![i] = "failed"]
    /\ pc' = "raised"
    /\ UNCHANGED <<config, round, messages, calls, args, runs, result, ended, cache,
                   outputs, invoked, consent, grants>>

-----------------------------------------------------------------------------
(* The rounds. *)
Carrier(response) ==
    [role |-> "assistant", calls |-> [i \in DOMAIN response |-> <<round, i>>],
     id |-> <<0, 0>>, size |-> 1, form |-> 0]

AskForTools(response) ==
    /\ pc = "llm"
    /\ pc' = "tools"
    /\ messages' = Append(messages, Carrier(response))
    /\ calls' = response
    /\ stage' = [i \in DOMAIN response |-> "queued"]
    /\ args' = [i \in DOMAIN response |-> Arg(NoRef, None)]
    /\ runs' = [i \in DOMAIN response |-> response[i].tool]
    /\ result' = [i \in DOMAIN response |-> None]
    /\ ended' = <<>>
    /\ UNCHANGED <<config, round, cache, outputs, invoked, consent, grants>>

AnswerDirectly ==
    /\ pc = "llm" /\ pc' = "returned"
    /\ UNCHANGED <<config, round, messages, batch, cache, outputs, invoked, consent, grants>>

\* The LLM call raises, or the run is cancelled: gather cancels its calls.
Break ==
    /\ pc \in {"llm", "tools"} /\ pc' = "raised"
    /\ stage' = [i \in DOMAIN stage |-> IF i \in Over THEN stage[i] ELSE "failed"]
    /\ UNCHANGED <<config, round, messages, calls, args, runs, result, ended, cache,
                   outputs, invoked, consent, grants>>

Answered(i) ==
    [role |-> "tool", calls |-> <<>>, id |-> <<round, i>>, size |-> result[i].size, form |-> 0]

\* Mutant: the results as they have come in.
AsEnded == ended

InOrder == [i \in DOMAIN calls |-> i]

\* _should_exit_fast_path.
EndsEarly == config.fast /\ (HasPlaceholders \/ Tools \subseteq invoked)

CloseRound ==
    /\ pc = "tools" /\ Over = DOMAIN calls
    /\ messages' = messages \o [k \in DOMAIN InOrder |-> Answered(InOrder[k])]
    /\ IF EndsEarly \/ round = MaxRounds
       THEN pc' = "returned" /\ UNCHANGED round
       ELSE pc' = "llm" /\ round' = round + 1
    /\ UNCHANGED <<config, batch, cache, outputs, invoked, consent, grants>>

Call(i) ==
    \/ Begin(i) \/ Consents(i) \/ Refuses(i) \/ Hit(i) \/ Miss(i)
    \/ Return(i) \/ Finish(i) \/ Raise(i)

Next ==
    \/ \E response \in Responses : AskForTools(response)
    \/ AnswerDirectly \/ CloseRound \/ Break
    \/ \E i \in DOMAIN calls : Call(i)

Spec == Init /\ [][Next]_vars

-----------------------------------------------------------------------------
Values ==
    [at : (0..MaxRounds) \X Nat, out : Outcomes, size : Sizes \cup {1}]

TypeOK ==
    /\ config \in Configs
    /\ pc \in {"llm", "tools", "returned", "raised"}
    /\ round \in 1..MaxRounds
    /\ messages \in Seq(MessageRecords)
    /\ calls \in Responses \cup {<<>>}
    /\ stage \in [DOMAIN calls -> Stages]
    /\ args \in [DOMAIN calls -> [ref : Keys \cup {NoRef}, value : Values]]
    /\ runs \in [DOMAIN calls -> Tools]
    /\ result \in [DOMAIN calls -> Values]
    /\ ended \in Seq(DOMAIN calls)
    /\ \A e \in cache : e.tool \in Tools /\ e.value \in Values /\ e.value.out # "error"
    /\ \A o \in outputs : o.key \in Keys /\ o.value \in Values
    /\ invoked \subseteq Tools /\ consent \subseteq Tools /\ grants \subseteq Tools

\* The prompt of the LLM call that is due.
Prompt == Prepared(messages)

\* However the list was cut before the run, by compaction or by a run that
\* raised, and whatever the budget has dropped from it, a prompt shows tool
\* results only as the complete and ordered answer to a carrier's calls. (A
\* list without any carrier is not looked at.)
PromptPaired == pc = "llm" /\ HasCarrier(messages) => WellPaired(Prompt)

\* The round that has been closed: its carrier and the results.
LastRound == SubSeq(messages, Len(messages) - Len(calls), Len(messages))

\* It fits the budget beside the group before it, which may be one that the
\* count of messages has put together: a question and an answer that stood
\* apart.
Capped == CountCapped(Sanitized(messages))
Fits ==
    LET groups == Groups(Others(Capped))
        n == Len(groups)
        beside == IF n > 1 THEN Size(groups[n - 1]) ELSE 0
    IN Size(Systems(Capped)) + beside + Size(LastRound) <= MaxTotal

\* The results of a round reach the LLM in the next one, with all of the
\* round's calls answered, in whatever order they have come in, as long as the
\* round fits: blocked calls, errors, duplicates and cached results are answers
\* like the others.
AnswersShown ==
    pc = "llm" /\ round > 1 /\ Fits =>
        /\ Len(Prompt) >= Len(LastRound)
        /\ SubSeq(Prompt, Len(Prompt) - Len(calls), Len(Prompt)) = LastRound
        /\ IdsOf(Tail(LastRound)) = LastRound[1].calls

\* The call has been let through.
Passed(i) == stage[i] \in {"ready", "executing", "delivered", "ended"}

\* No call passes the policy that the user has not consented to, or that the
\* policy lets through: also when several calls of one tool wait for an answer
\* at once. (It is the tool asked for that is judged; a hook may replace it
\* afterwards.)
ConsentHonored ==
    \A i \in DOMAIN calls :
        Passed(i) =>
            \/ Policy[calls[i].tool] = "allow"
            \/ Policy[calls[i].tool] = "consent" /\ calls[i].tool \in grants

\* The call whose output a placeholder of call i names, among those before it.
Names(i, j) ==
    /\ stage[j] = "ended"
    /\ \/ calls[i].ref = j
       \/ /\ calls[i].ref = runs[j]
          /\ \A k \in (j + 1)..(i - 1) : stage[k] = "ended" => runs[k] # runs[j]

\* What call i runs with when its placeholder names call j.
Chained(i, j) ==
    args[i] = IF result[j].out = "nothing" THEN Arg(calls[i].ref, None) ELSE Arg(NoRef, result[j])

\* A call that takes the output of an earlier one of its round takes that
\* result. It never takes an older one of the same name, not even when the one
\* it names is None; only then does it run with the placeholder as it stands.
ChainedInRound ==
    config.fast =>
        \A i \in DOMAIN calls : Passed(i) =>
            \A j \in 1..(i - 1) : Names(i, j) => Chained(i, j)
=============================================================================
