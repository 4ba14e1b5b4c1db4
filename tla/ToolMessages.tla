---------------------------- MODULE ToolMessages ----------------------------
(***************************************************************************)
(* The prompt a tool loop builds from its list of messages before every    *)
(* LLM call: the structure of the tool rounds is repaired, then groups of  *)
(* messages are dropped until their number and their size fit the budget   *)
(* (houyi/application/tool_calling/budget.py).                             *)
(*                                                                         *)
(* A message is its role, the ids of the calls it carries, the id of the   *)
(* call it answers, its size in characters, which is the one left by       *)
(* _truncate_message_for_budget, and the score of its form. Its text is    *)
(* left out.                                                               *)
(***************************************************************************)
EXTENDS Naturals, Sequences, SequencesExt, FiniteSets

CONSTANTS
    MaxMessages,    \* _DEFAULT_TOOL_LOOP_MAX_MESSAGES (48)
    ContextGroups,  \* _DEFAULT_TOOL_LOOP_CONTEXT_GROUPS_WITH_TOOLS (8)
    MaxTotal        \* the budget of a prompt, in characters

ASSUME BudgetAssumption ==
    /\ MaxMessages \in Nat \ {0}
    /\ ContextGroups \in Nat \ {0}
    /\ MaxTotal \in Nat

IsCarrier(m) == m.calls # <<>>
IsSystem(m)  == m.role = "system"
HasCarrier(msgs) == \E i \in DOMAIN msgs : IsCarrier(msgs[i])
IdsOf(results) == [i \in DOMAIN results |-> results[i].id]

Ids == Nat \X Nat
MessageRecords ==
    {m \in [role : {"system", "user", "assistant", "tool"}, calls : Seq(Ids), id : Ids,
            size : Nat, form : Nat] : IsCarrier(m) => m.role = "assistant"}

\* The chosen ones of some lists of messages, one behind the other.
JoinedUpTo(lists, chosen) ==
    LET upTo[n \in 0..Len(lists)] ==
          IF n = 0 THEN <<>>
          ELSE IF n \in chosen THEN upTo[n - 1] \o lists[n] ELSE upTo[n - 1]
    IN upTo

AllOf(lists, chosen) == JoinedUpTo(lists, chosen)[Len(lists)]

Only(msgs, chosen) == AllOf([i \in DOMAIN msgs |-> <<msgs[i]>>], chosen)
Systems(msgs) == Only(msgs, {i \in DOMAIN msgs : IsSystem(msgs[i])})
Others(msgs)  == Only(msgs, {i \in DOMAIN msgs : ~IsSystem(msgs[i])})

-----------------------------------------------------------------------------
(* _sanitize_tool_message_structure: a carrier is held back until its      *)
(* results are complete; it goes with all of them, alone, or not at all.   *)

\* Mutant: the results that have come are kept, however many they are.
FlushedPartly(held) ==
    IF held.carrier = <<>> THEN held.out ELSE held.out \o held.carrier \o held.results

Flushed(held) ==
    IF held.carrier = <<>> THEN held.out
    ELSE IF held.results = <<>> THEN held.out \o held.carrier
    ELSE IF IdsOf(held.results) = held.carrier[1].calls
         THEN held.out \o held.carrier \o held.results
    ELSE held.out

Awaited(held, m) ==
    /\ held.carrier # <<>>
    /\ m.id \in ToSet(held.carrier[1].calls) \ ToSet(IdsOf(held.results))

Sanitizing(held, m) ==
    CASE IsCarrier(m) ->
           [out |-> Flushed(held), carrier |-> <<m>>, results |-> <<>>]
      [] m.role = "tool" ->
           IF Awaited(held, m) THEN [held EXCEPT !.results = Append(@, m)] ELSE held
      [] OTHER ->
           [out |-> Append(Flushed(held), m), carrier |-> <<>>, results |-> <<>>]

\* What is written and what is held back after each message.
HeldUpTo(msgs) ==
    LET held[n \in 0..Len(msgs)] ==
          IF n = 0 THEN [out |-> <<>>, carrier |-> <<>>, results |-> <<>>]
          ELSE Sanitizing(held[n - 1], msgs[n])
    IN held

Sanitized(msgs) ==
    IF HasCarrier(msgs) THEN Flushed(HeldUpTo(msgs)[Len(msgs)]) ELSE msgs

-----------------------------------------------------------------------------
(* _group_messages_for_budget: a carrier with its results, a question with *)
(* its answer, anything else alone.                                        *)

Joins(group, m) ==
    \/ /\ IsCarrier(group[1]) /\ m.role = "tool"
       /\ m.id \in ToSet(group[1].calls) \ ToSet(IdsOf(Tail(group)))
    \/ /\ Len(group) = 1 /\ group[1].role = "user"
       /\ m.role = "assistant" /\ ~IsCarrier(m)

Grouping(groups, m) ==
    IF groups # <<>> /\ Joins(Last(groups), m)
    THEN [groups EXCEPT ![Len(groups)] = Append(@, m)]
    ELSE Append(groups, <<m>>)

GroupsUpTo(msgs) ==
    LET groups[n \in 0..Len(msgs)] ==
          IF n = 0 THEN <<>> ELSE Grouping(groups[n - 1], msgs[n])
    IN groups

Groups(msgs) == GroupsUpTo(msgs)[Len(msgs)]

SumUpTo(values) ==
    LET sum[n \in 0..Len(values)] == IF n = 0 THEN 0 ELSE sum[n - 1] + values[n]
    IN sum

Total(values) == SumUpTo(values)[Len(values)]

Size(msgs) == Total([i \in DOMAIN msgs |-> msgs[i].size])

\* Groups are taken in this order as long as they fit, the first in any case.
Taking(taken, g, weight, limit) ==
    IF taken.set # {} /\ taken.used + weight > limit THEN taken
    ELSE [set |-> taken.set \cup {g}, used |-> taken.used + weight]

TakenUpTo(order, weights, limit) ==
    LET taken[n \in 0..Len(order)] ==
          IF n = 0 THEN [set |-> {}, used |-> 0]
          ELSE Taking(taken[n - 1], order[n], weights[order[n]], limit)
    IN taken

Kept(order, weights, limit) == TakenUpTo(order, weights, limit)[Len(order)].set

\* The system's messages come first, then the groups kept, in their order.
Trimmed(msgs, groups, kept) == Systems(msgs) \o AllOf(groups, kept)

-----------------------------------------------------------------------------
(* _prioritize_recent_tool_groups: of the groups before the last one with  *)
(* a tool, only the newest.                                                *)
ToolGroup(group) == \E i \in DOMAIN group : IsCarrier(group[i]) \/ group[i].role = "tool"

Recent(groups) ==
    LET last == SelectLastInSeq(groups, ToolGroup)
    IN IF last <= ContextGroups THEN groups
       ELSE SubSeq(groups, last - ContextGroups, Len(groups))

(* _cap_message_count_for_budget: from the newest group back. *)
CountCapped(msgs) ==
    LET groups == Recent(Groups(Others(msgs)))
    IN IF Len(Others(msgs)) <= MaxMessages THEN msgs
       ELSE Trimmed(msgs, groups,
                    Kept([i \in DOMAIN groups |-> Len(groups) + 1 - i],
                         [i \in DOMAIN groups |-> Len(groups[i])], MaxMessages))

(* _score_group_for_budget, without its last part: of groups with one      *)
(* score the smaller is above, and of those the later.                     *)
Score(group) ==
    << Total([i \in DOMAIN group |->
                IF IsCarrier(group[i]) \/ group[i].role = "tool" THEN 3 ELSE 0]),
       Total([i \in DOMAIN group |-> group[i].form]),
       Total([i \in DOMAIN group |->
                IF group[i].role \in {"assistant", "tool"} THEN 1 ELSE 0]) >>

Above(groups, g, h) ==
    LET a == Score(groups[g]) \o <<Size(groups[h]), g>>
        b == Score(groups[h]) \o <<Size(groups[g]), h>>
    IN \E k \in DOMAIN a : a[k] > b[k] /\ \A j \in 1..(k - 1) : a[j] = b[j]

(* _cap_total_payload_for_budget: the last two groups, the earlier of them *)
(* first, then the others by score.                                        *)
TakingOrder(groups) ==
    LET n == Len(groups)
        others == {g \in 1..n : g + 2 <= n}
    IN [k \in 1..n |->
          IF n = 1 THEN 1
          ELSE IF k <= 2 THEN n - 2 + k
          ELSE CHOOSE g \in others :
                 Cardinality({h \in others : Above(groups, h, g)}) = k - 3]

TotalCapped(msgs) ==
    LET groups == Groups(Others(msgs))
        system == Size(Systems(msgs))
    IN IF Size(msgs) <= MaxTotal THEN msgs
       ELSE IF system >= MaxTotal THEN Systems(msgs)
       ELSE Trimmed(msgs, groups,
                    Kept(TakingOrder(groups), [i \in DOMAIN groups |-> Size(groups[i])],
                         MaxTotal - system))

(* prepare_tool_loop_messages. *)
Prepared(msgs) == TotalCapped(CountCapped(Sanitized(msgs)))

-----------------------------------------------------------------------------
(* What a provider asks of a prompt: a result only in the run of results   *)
(* that answers all calls of a carrier, in their order.                    *)
WellPaired(msgs) ==
    \A i \in DOMAIN msgs : msgs[i].role = "tool" =>
        \E c \in 1..(i - 1) :
            /\ i <= c + Len(msgs[c].calls)
            /\ c + Len(msgs[c].calls) <= Len(msgs)
            /\ IdsOf(SubSeq(msgs, c + 1, c + Len(msgs[c].calls))) = msgs[c].calls
=============================================================================
