---------------------------- MODULE ToolLoopProofs ----------------------------
(***************************************************************************)
(* Proofs about ToolLoop, for any tools and policy, any responses of the   *)
(* LLM, any number of rounds and any width of the parallel batch, and      *)
(* about the prompts of ToolMessages, for any list of messages and any     *)
(* budgets.                                                                *)
(*                                                                         *)
(* What walks over a list is a function on 0..Len(list); the value it has  *)
(* at n is what the code has computed after n turns of its loop. A claim   *)
(* about such a value holds for every n because there is no least number   *)
(* for which it fails (UpToLength).                                        *)
(***************************************************************************)
EXTENDS ToolLoop, WellFoundedInduction, FiniteSetTheorems, SequenceTheorems, TLAPS

CallRecords == [tool : Tools, ref : Keys \cup {NoRef}]
ArgRecords  == [ref : Keys \cup {NoRef}, value : Values]

LEMMA CallsAreCalls ==
    ASSUME calls \in Responses \cup {<<>>}
    PROVE  /\ DOMAIN calls \subseteq Nat \ {0}
           /\ \A i \in DOMAIN calls : calls[i] \in CallRecords
<1>1. CASE calls = <<>>
  BY <1>1
<1>2. CASE calls \in Responses
  <2>1. calls \in Seq(CallRecords)
    BY <1>2, LoopAssumption DEF CallRecords
  <2>. QED
    BY <2>1
<1>. QED
  BY <1>1, <1>2

LEMMA CallIsCall ==
    ASSUME TypeOK, NEW i \in DOMAIN calls
    PROVE  i \in Nat \ {0} /\ calls[i].tool \in Tools /\ calls[i].ref \in Keys \cup {NoRef}
<1>1. calls \in Responses \cup {<<>>}
  BY DEF TypeOK
<1>2. i \in Nat \ {0} /\ calls[i] \in CallRecords
  BY <1>1, CallsAreCalls
<1>. QED
  BY <1>2 DEF CallRecords

\* The results a call may end with are values, and so is none at all.
LEMMA NoneIsValue == None \in Values
BY LoopAssumption DEF None, Values, Outcomes

LEMMA ValueIsValue ==
    ASSUME round \in 1..MaxRounds, NEW i \in Nat, NEW out \in Outcomes, NEW size \in Sizes
    PROVE  Value(i, out, size) \in Values /\ Value(i, out, size).out = out
BY LoopAssumption DEF Value, Values

\* What a placeholder becomes is an argument.
LEMMA ResolvedIsArg ==
    ASSUME TypeOK, NEW ref \in Keys \cup {NoRef}
    PROVE  Resolved(ref) \in ArgRecords
<1>1. CASE config.fast /\ ~IsParallel /\ Output(ref) # {}
  <2>1. PICK v \in Output(ref) : v = CHOOSE w \in Output(ref) : TRUE
    BY <1>1
  <2>2. v \in Values
    BY DEF Output, OnRecord, TypeOK
  <2>. QED
    BY <1>1, <2>1, <2>2 DEF Resolved, Arg, ArgRecords
<1>2. CASE ~(config.fast /\ ~IsParallel /\ Output(ref) # {})
  BY <1>2, NoneIsValue DEF Resolved, Arg, ArgRecords
<1>. QED
  BY <1>1, <1>2

LEMMA RecordedKeepsTypes ==
    ASSUME TypeOK, NEW i \in Nat \ {0}, NEW tool \in Tools, NEW v \in Values
    PROVE  \A o \in Recorded(i, tool, v) : o.key \in Keys /\ o.value \in Values
BY DEF Recorded, TypeOK, Keys

\* The three verdicts, and what is known when a call is asked about or ready.
LEMMA Verdicts ==
    ASSUME NEW tool \in Tools
    PROVE  /\ Verdict(tool) \in {"blocked", "asking", "ready"}
           /\ Verdict(tool) = "asking" => Policy[tool] = "consent"
           /\ Verdict(tool) = "ready" =>
                 Policy[tool] = "allow" \/ (Policy[tool] = "consent" /\ tool \in consent)
<1>0. Policy[tool] \in {"allow", "consent", "deny"}
  BY LoopAssumption
<1>1. CASE Policy[tool] = "deny"
  BY <1>1 DEF Verdict
<1>2. CASE Policy[tool] = "consent" /\ tool \notin consent
  BY <1>2 DEF Verdict
<1>3. CASE Policy[tool] = "allow" \/ (Policy[tool] = "consent" /\ tool \in consent)
  BY <1>3 DEF Verdict
<1>. QED
  BY <1>0, <1>1, <1>2, <1>3

LEMMA AppendKeepsSeq ==
    ASSUME NEW S, NEW s \in Seq(S), NEW x \in S PROVE Append(s, x) \in Seq(S)
OBVIOUS

LEMMA CallsAreSeq ==
    ASSUME TypeOK PROVE calls \in Seq(CallRecords)
<1>1. \A response \in Responses : response \in Seq(CallRecords)
  BY LoopAssumption DEF CallRecords
<1>2. <<>> \in Seq(CallRecords)
  OBVIOUS
<1>. QED
  BY <1>1, <1>2 DEF TypeOK

\* What a run adds to the list are messages: a carrier with the calls of its
\* round, and the results as the answers to them.
LEMMA CarrierIsMessage ==
    ASSUME round \in 1..MaxRounds, NEW response \in Seq(CallRecords)
    PROVE  Carrier(response) \in MessageRecords
<1>1. round \in Nat
  BY LoopAssumption
<1>2. [i \in DOMAIN response |-> <<round, i>>] \in Seq(Ids)
  <2>1. PICK n \in Nat : DOMAIN response = 1..n
    OBVIOUS
  <2>2. \A i \in 1..n : <<round, i>> \in Ids
    BY <1>1 DEF Ids
  <2>. QED
    BY <2>1, <2>2
<1>3. <<0, 0>> \in Ids
  BY DEF Ids
<1>. QED
  BY <1>2, <1>3 DEF Carrier, MessageRecords

LEMMA AnswersAreMessages ==
    ASSUME TypeOK
    PROVE  /\ [k \in DOMAIN InOrder |-> Answered(InOrder[k])] \in Seq(MessageRecords)
           /\ Len([k \in DOMAIN InOrder |-> Answered(InOrder[k])]) = Len(calls)
           /\ \A k \in 1..Len(calls) :
                 [k1 \in DOMAIN InOrder |-> Answered(InOrder[k1])][k] = Answered(k)
<1>1. PICK n \in Nat : n = Len(calls) /\ DOMAIN calls = 1..n
  <2>1. calls \in Seq(CallRecords)
    BY CallsAreSeq
  <2>. QED
    BY <2>1
<1>2. \A k \in 1..n : Answered(k) \in MessageRecords
  <2>1. ASSUME NEW k \in 1..n PROVE Answered(k) \in MessageRecords
    <3>1. result[k] \in Values
      BY <1>1 DEF TypeOK
    <3>2. result[k].size \in Nat
      <4>1. result[k].size \in Sizes \cup {1}
        BY <3>1 DEF Values
      <4>2. Sizes \cup {1} \subseteq Nat
        BY LoopAssumption
      <4>. QED
        BY <4>1, <4>2
    <3>3. <<round, k>> \in Ids
      BY LoopAssumption DEF TypeOK, Ids
    <3>. QED
      BY <3>2, <3>3 DEF Answered, MessageRecords, IsCarrier
  <2>. QED
    BY <2>1
<1>3. /\ DOMAIN InOrder = 1..n
      /\ [k \in DOMAIN InOrder |-> Answered(InOrder[k])] = [k \in 1..n |-> Answered(k)]
  BY <1>1 DEF InOrder
<1>4. /\ [k \in 1..n |-> Answered(k)] \in Seq(MessageRecords)
      /\ Len([k \in 1..n |-> Answered(k)]) = n
  BY <1>2
<1>. QED
  BY <1>1, <1>3, <1>4

-----------------------------------------------------------------------------
(* Type correctness, action by action. *)

LEMMA DeliverKeepsTypes ==
    ASSUME TypeOK, NEW i \in DOMAIN calls, NEW tool \in Tools, NEW v \in Values,
           Deliver(i, tool, v),
           \A e \in cache' : e.tool \in Tools /\ e.value \in Values /\ e.value.out # "error"
    PROVE  TypeOK'
<1>1. i \in Nat \ {0}
  BY CallIsCall DEF TypeOK
<1>2. outputs' = Recorded(i, tool, v)
  BY DEF Deliver
<1>3. \A o \in outputs' : o.key \in Keys /\ o.value \in Values
  BY <1>1, <1>2, RecordedKeepsTypes
<1>4. stage' \in [DOMAIN calls -> Stages]
  BY DEF Deliver, TypeOK, Stages
<1>5. runs' \in [DOMAIN calls -> Tools] /\ result' \in [DOMAIN calls -> Values]
  BY DEF Deliver, TypeOK
<1>6. invoked' \subseteq Tools
  BY DEF Deliver, TypeOK
<1>. QED
  BY <1>3, <1>4, <1>5, <1>6 DEF Deliver, TypeOK, Values

LEMMA TypeInit == Init => TypeOK
<1>. SUFFICES ASSUME Init PROVE TypeOK
  OBVIOUS
<1>1. stage \in [DOMAIN calls -> Stages] /\ runs \in [DOMAIN calls -> Tools]
  BY DEF Init
<1>2. /\ args \in [DOMAIN calls -> [ref : Keys \cup {NoRef}, value : Values]]
      /\ result \in [DOMAIN calls -> Values]
  BY DEF Init
<1>3. /\ round \in 1..MaxRounds /\ ended \in Seq(DOMAIN calls)
      /\ messages \in Seq(MessageRecords)
  BY LoopAssumption DEF Init
<1>4. /\ config \in Configs /\ pc \in {"llm", "tools", "returned", "raised"}
      /\ calls \in Responses \cup {<<>>}
      /\ cache = {} /\ outputs = {} /\ invoked = {} /\ consent = {} /\ grants = {}
  BY DEF Init
<1>. QED
  BY <1>1, <1>2, <1>3, <1>4 DEF TypeOK

LEMMA TypeNext == TypeOK /\ [Next]_vars => TypeOK'
<1>. SUFFICES ASSUME TypeOK, [Next]_vars PROVE TypeOK'
  OBVIOUS
<1>1. ASSUME NEW response \in Responses, AskForTools(response) PROVE TypeOK'
  <2>1. /\ response \in Seq(CallRecords)
        /\ \A i \in DOMAIN response : response[i].tool \in Tools
    <3>1. response \in Seq(CallRecords)
      BY LoopAssumption DEF CallRecords
    <3>2. \A j \in DOMAIN response : response[j] \in CallRecords
      BY <3>1
    <3>. QED
      BY <3>1, <3>2 DEF CallRecords
  <2>2. calls' = response /\ ended' = <<>>
    BY <1>1 DEF AskForTools
  <2>3. stage' \in [DOMAIN response -> Stages]
    BY <1>1 DEF AskForTools, Stages
  <2>4. args' \in [DOMAIN response -> [ref : Keys \cup {NoRef}, value : Values]]
    BY <1>1, NoneIsValue DEF AskForTools, Arg
  <2>5. runs' \in [DOMAIN response -> Tools]
    BY <1>1, <2>1 DEF AskForTools
  <2>6. result' \in [DOMAIN response -> Values]
    BY <1>1, NoneIsValue DEF AskForTools
  <2>7. /\ pc' = "tools"
        /\ UNCHANGED <<config, round, cache, outputs, invoked, consent, grants>>
    BY <1>1 DEF AskForTools
  <2>8. messages' \in Seq(MessageRecords)
    BY <1>1, <2>1, CarrierIsMessage, AppendKeepsSeq DEF AskForTools, TypeOK
  <2>. QED
    BY <2>2, <2>3, <2>4, <2>5, <2>6, <2>7, <2>8 DEF TypeOK, Values
<1>2. CASE AnswerDirectly
  BY <1>2 DEF AnswerDirectly, batch, TypeOK, Values
<1>3. CASE CloseRound
  <2>1. pc' \in {"returned", "llm"} /\ round' \in 1..MaxRounds
    BY <1>3, LoopAssumption DEF CloseRound, TypeOK
  <2>2. UNCHANGED <<config, batch, cache, outputs, invoked, consent, grants>>
    BY <1>3 DEF CloseRound
  <2>3. messages' \in Seq(MessageRecords)
    BY <1>3, AnswersAreMessages DEF CloseRound, TypeOK
  <2>. QED
    BY <2>1, <2>2, <2>3 DEF batch, TypeOK, Values
<1>4. CASE Break
  <2>1. stage' \in [DOMAIN calls -> Stages]
    BY <1>4 DEF Break, TypeOK, Stages
  <2>. QED
    BY <1>4, <2>1 DEF Break, TypeOK, Values
<1>5. ASSUME NEW i \in DOMAIN calls, Begin(i) PROVE TypeOK'
  <2>1. calls[i].ref \in Keys \cup {NoRef}
    BY CallIsCall
  <2>2. Resolved(calls[i].ref) \in [ref : Keys \cup {NoRef}, value : Values]
    BY <2>1, ResolvedIsArg DEF ArgRecords
  <2>3. args' \in [DOMAIN calls -> [ref : Keys \cup {NoRef}, value : Values]]
    BY <1>5, <2>2 DEF Begin, TypeOK
  <2>4. stage' \in [DOMAIN calls -> Stages]
    BY <1>5, Verdicts, CallIsCall DEF Begin, TypeOK, Stages
  <2>5. ended' \in Seq(DOMAIN calls)
    BY <1>5, AppendKeepsSeq DEF Begin, TypeOK
  <2>. QED
    BY <1>5, <2>3, <2>4, <2>5 DEF Begin, TypeOK, Values
<1>6. ASSUME NEW i \in DOMAIN calls, Consents(i) PROVE TypeOK'
  <2>1. calls[i].tool \in Tools
    BY CallIsCall
  <2>2. stage' \in [DOMAIN calls -> Stages]
    BY <1>6 DEF Consents, TypeOK, Stages
  <2>. QED
    BY <1>6, <2>1, <2>2 DEF Consents, TypeOK, Values
<1>7. ASSUME NEW i \in DOMAIN calls, Refuses(i) \/ Finish(i) PROVE TypeOK'
  <2>1. stage' \in [DOMAIN calls -> Stages]
    BY <1>7 DEF Refuses, Finish, TypeOK, Stages
  <2>2. ended' = Append(ended, i) /\ ended \in Seq(DOMAIN calls)
    BY <1>7 DEF Refuses, Finish, TypeOK
  <2>3. ended' \in Seq(DOMAIN calls)
    BY <2>2, AppendKeepsSeq
  <2>. QED
    BY <1>7, <2>1, <2>3 DEF Refuses, Finish, TypeOK, Values
<1>8. ASSUME NEW i \in DOMAIN calls, Hit(i) PROVE TypeOK'
  <2>0. PICK tool \in Replaced(i) : \E e \in Cached(tool, args[i]) : Deliver(i, tool, e.value)
    BY <1>8 DEF Hit
  <2>1. PICK e \in Cached(tool, args[i]) : Deliver(i, tool, e.value)
    BY <2>0
  <2>2. tool \in Tools
    BY CallIsCall DEF Replaced
  <2>3. e.value \in Values /\ cache' = cache
    BY <1>8 DEF Hit, Cached, TypeOK
  <2>. QED
    BY <2>1, <2>2, <2>3, DeliverKeepsTypes DEF TypeOK
<1>9. ASSUME NEW i \in DOMAIN calls, Miss(i) PROVE TypeOK'
  <2>1. PICK tool \in Replaced(i) : runs' = [runs EXCEPT ![i] = tool]
    BY <1>9 DEF Miss
  <2>2. tool \in Tools
    BY CallIsCall DEF Replaced
  <2>3. runs' \in [DOMAIN calls -> Tools]
    BY <2>1, <2>2 DEF TypeOK
  <2>4. stage' \in [DOMAIN calls -> Stages]
    BY <1>9 DEF Miss, TypeOK, Stages
  <2>. QED
    BY <1>9, <2>3, <2>4 DEF Miss, TypeOK, Values
<1>10. ASSUME NEW i \in DOMAIN calls, Return(i) PROVE TypeOK'
  <2>1. PICK out \in Outcomes, size \in Sizes :
           /\ Deliver(i, runs[i], Value(i, out, size))
           /\ cache' = Stored(i, Value(i, out, size))
    BY <1>10 DEF Return
  <2>2. i \in Nat /\ runs[i] \in Tools
    BY CallIsCall DEF TypeOK
  <2>3. PICK v \in Values : v = Value(i, out, size)
    BY <2>2, ValueIsValue DEF TypeOK
  <2>4. \A e \in Stored(i, v) : e.tool \in Tools /\ e.value \in Values /\ e.value.out # "error"
    BY <2>2 DEF Stored, TypeOK
  <2>. QED
    BY <2>1, <2>2, <2>3, <2>4, DeliverKeepsTypes
<1>11. ASSUME NEW i \in DOMAIN calls, Raise(i) PROVE TypeOK'
  <2>1. stage' \in [DOMAIN calls -> Stages]
    BY <1>11 DEF Raise, TypeOK, Stages
  <2>. QED
    BY <1>11, <2>1 DEF Raise, TypeOK, Values
<1>12. CASE UNCHANGED vars
  BY <1>12 DEF vars, batch, TypeOK, Values
<1>. QED
  BY <1>1, <1>2, <1>3, <1>4, <1>5, <1>6, <1>7, <1>8, <1>9, <1>10, <1>11, <1>12
  DEF Next, Call

\* The state of a run stays well typed, and its cache holds only successes.
THEOREM TypeInvariant == Spec => []TypeOK
BY TypeInit, TypeNext, PTL DEF Spec

-----------------------------------------------------------------------------
(* Consent. What lets a call through without a question is the runner's    *)
(* cache of consents, which holds nothing the user has not given.          *)

Asked == \A i \in DOMAIN calls : stage[i] = "asking" => Policy[calls[i].tool] = "consent"

Consent == TypeOK /\ consent \subseteq grants /\ Asked /\ ConsentHonored

NoFurther(S) ==
    \A i \in S : (Passed(i)' => Passed(i)) /\ (stage[i]' = "asking" => stage[i] = "asking")

\* A step that lets no further call through keeps the consents honored.
LEMMA NoneLetThrough ==
    ASSUME ConsentHonored, calls' = calls, grants \subseteq grants',
           Asked, NoFurther(DOMAIN calls)
    PROVE  ConsentHonored' /\ Asked'
BY DEF ConsentHonored, Asked, NoFurther

LEMMA ConsentNext == Consent /\ [Next]_vars => Consent'
<1>. SUFFICES ASSUME Consent, [Next]_vars PROVE Consent'
  OBVIOUS
<1>. USE DEF Consent
<1>1. TypeOK /\ TypeOK'
  BY TypeNext
<1>2. ASSUME NEW response \in Responses, AskForTools(response) PROVE Consent'
  BY <1>1, <1>2 DEF AskForTools, ConsentHonored, Asked, Passed
<1>3. CASE AnswerDirectly \/ CloseRound \/ UNCHANGED vars
  BY <1>1, <1>3 DEF AnswerDirectly, CloseRound, vars, batch, ConsentHonored, Asked, Passed
<1>4. CASE Break
  <2>1. NoFurther(DOMAIN calls)
    BY <1>1, <1>4 DEF Break, NoFurther, Passed, TypeOK
  <2>. QED
    BY <1>1, <1>4, <2>1, NoneLetThrough DEF Break
<1>5. ASSUME NEW i \in DOMAIN calls, Begin(i) PROVE Consent'
  <2>1. calls[i].tool \in Tools
    BY <1>1, CallIsCall
  <2>2. /\ stage' = [stage EXCEPT ![i] = Verdict(calls[i].tool)]
        /\ calls' = calls /\ consent' = consent /\ grants' = grants
    BY <1>5 DEF Begin
  <2>3. Passed(i)' => Verdict(calls[i].tool) = "ready"
    BY <1>1, <2>1, <2>2, Verdicts DEF NoFurther, Passed, TypeOK
  <2>4. /\ NoFurther(DOMAIN calls \ {i})
        /\ stage[i]' = "asking" => Policy[calls[i].tool] = "consent"
    BY <1>1, <2>1, <2>2, Verdicts DEF NoFurther, Passed, TypeOK
  <2>. QED
    BY <1>1, <2>1, <2>2, <2>3, <2>4, Verdicts DEF ConsentHonored, Asked, NoFurther
<1>6. ASSUME NEW i \in DOMAIN calls, Consents(i) PROVE Consent'
  <2>1. calls[i].tool \in Tools
    BY <1>1, CallIsCall
  <2>2. /\ stage[i] = "asking" /\ stage' = [stage EXCEPT ![i] = "ready"]
        /\ calls' = calls
        /\ consent' = consent \cup {calls[i].tool} /\ grants' = grants \cup {calls[i].tool}
    BY <1>6 DEF Consents
  <2>3. /\ NoFurther(DOMAIN calls \ {i})
        /\ stage[i]' = "ready"
    BY <1>1, <2>2 DEF NoFurther, Passed, TypeOK
  <2>. QED
    BY <1>1, <2>1, <2>2, <2>3 DEF ConsentHonored, Asked, NoFurther
<1>7. ASSUME NEW i \in DOMAIN calls, Refuses(i) \/ Finish(i) \/ Miss(i) \/ Raise(i)
      PROVE  Consent'
  <2>1. /\ calls' = calls /\ consent' = consent /\ grants' = grants
        /\ NoFurther(DOMAIN calls)
    BY <1>1, <1>7 DEF Refuses, Finish, Miss, Raise, NoFurther, Passed, TypeOK
  <2>. QED
    BY <1>1, <2>1, NoneLetThrough
<1>8. ASSUME NEW i \in DOMAIN calls, Hit(i) \/ Return(i) PROVE Consent'
  <2>1. /\ stage[i] \in {"ready", "executing"}
        /\ stage' = [stage EXCEPT ![i] = "delivered"]
        /\ calls' = calls /\ consent' = consent /\ grants' = grants
    BY <1>8 DEF Hit, Return, Deliver
  <2>2. NoFurther(DOMAIN calls)
    BY <1>1, <2>1 DEF NoFurther, Passed, TypeOK
  <2>. QED
    BY <1>1, <2>1, <2>2, NoneLetThrough
<1>. QED
  BY <1>2, <1>3, <1>4, <1>5, <1>6, <1>7, <1>8 DEF Next, Call

\* Whatever calls overlap, and however the user answers them, a call passes
\* only a policy that allows its tool or one the user has consented to.
THEOREM ConsentIsHonored == Spec => []ConsentHonored
<1>1. Init => Consent
  BY TypeInit DEF Init, Consent, ConsentHonored, Asked
<1>. QED
  BY <1>1, ConsentNext, PTL DEF Spec, Consent
-----------------------------------------------------------------------------
(* The placeholders. Where a call names the output of another one, the     *)
(* calls of the round run in turn, and what is on record under a name is   *)
(* the result of the last call of that name.                               *)

\* No tool is called by a number: a placeholder that names a call by its
\* position names no tool.
ToolsAreNoNumbers == Tools \cap Nat = {}

Entered(i) == stage[i] \notin {"queued", "failed"}
HasResult(i) == stage[i] \in {"delivered", "ended"}

InTurn ==
    HasPlaceholders =>
        \A i \in DOMAIN calls : Entered(i) => \A k \in 1..(i - 1) : k \in Over

NoneFailed == pc = "tools" => \A i \in DOMAIN calls : stage[i] # "failed"

\* No later call has taken the name of this one's tool.
Latest(j) == \A k \in DOMAIN calls : k > j /\ HasResult(k) => runs[k] # runs[j]

OutputsKnown ==
    HasPlaceholders /\ pc = "tools" =>
        \A j \in DOMAIN calls : HasResult(j) =>
            /\ OnRecord(outputs, j) = {result[j]}
            /\ Latest(j) => OnRecord(outputs, runs[j]) = {result[j]}

\* The arguments are taken when a call begins, before anybody is asked.
Taken(i) == stage[i] \in {"asking", "ready", "executing", "delivered", "ended"}

ChainedOnceTaken ==
    config.fast =>
        \A i \in DOMAIN calls : Taken(i) =>
            \A j \in 1..(i - 1) : Names(i, j) => Chained(i, j)

Chain == InTurn /\ NoneFailed /\ OutputsKnown /\ ChainedOnceTaken

LEMMA CallsAreNumbered ==
    ASSUME TypeOK
    PROVE  /\ DOMAIN calls \subseteq Nat \ {0}
           /\ \A i \in DOMAIN calls : 1..(i - 1) \subseteq DOMAIN calls
<1>1. \E S : calls \in Seq(S)
  <2>1. calls \in Responses \cup {<<>>}
    BY DEF TypeOK
  <2>2. CASE calls = <<>>
    BY <2>2
  <2>3. CASE calls \in Responses
    BY <2>3, LoopAssumption
  <2>. QED
    BY <2>1, <2>2, <2>3
<1>. QED
  BY <1>1

Added(outs, outs2, i, tool, v) ==
    outs2 = {o \in outs : o.key \notin {tool, i}}
              \cup {[key |-> tool, value |-> v], [key |-> i, value |-> v]}

\* What is on record after a call has delivered.
LEMMA RecordAdded ==
    ASSUME NEW outs, NEW outs2, NEW i, NEW tool, NEW v, NEW key,
           Added(outs, outs2, i, tool, v)
    PROVE  OnRecord(outs2, key) = IF key \in {tool, i} THEN {v} ELSE OnRecord(outs, key)
<1>. DEFINE a == [key |-> tool, value |-> v]
            b == [key |-> i, value |-> v]
<1>1. a.key = tool /\ a.value = v /\ b.key = i /\ b.value = v
  OBVIOUS
<1>2. \A p : p \in outs2 <=> (p \in outs /\ p.key \notin {tool, i}) \/ p = a \/ p = b
  BY DEF Added
<1>. HIDE DEF a, b
<1>3. CASE key \in {tool, i}
  <2>1. \A p \in outs2 : p.key = key => p.value = v
    BY <1>1, <1>2, <1>3
  <2>2. PICK p \in outs2 : p.key = key
    BY <1>1, <1>2, <1>3
  <2>. QED
    BY <1>3, <2>1, <2>2 DEF OnRecord
<1>4. CASE key \notin {tool, i}
  <2>1. \A p : p \in outs2 /\ p.key = key <=> p \in outs /\ p.key = key
    BY <1>1, <1>2, <1>4
  <2>. QED
    BY <1>4, <2>1 DEF OnRecord
<1>. QED
  BY <1>3, <1>4

\* A step of call i: the rows of the other calls stay as they are.
Row(i) ==
    /\ UNCHANGED <<config, calls>>
    /\ \A k \in DOMAIN calls \ {i} : /\ stage'[k] = stage[k] /\ args'[k] = args[k]
                                     /\ runs'[k] = runs[k] /\ result'[k] = result[k]
    /\ i \notin Over

BeforeIsOver(i) == \A k \in 1..(i - 1) : k \in Over

LEMMA RowKeepsTurn ==
    ASSUME TypeOK, InTurn, NEW i \in DOMAIN calls, Row(i),
           HasPlaceholders /\ stage'[i] \notin {"queued", "failed"}
               => Entered(i) \/ BeforeIsOver(i)
    PROVE  InTurn'
<1>1. SUFFICES ASSUME HasPlaceholders,
                      NEW m \in DOMAIN calls, stage'[m] \notin {"queued", "failed"},
                      NEW k \in 1..(m - 1)
               PROVE  k \in DOMAIN calls /\ stage'[k] \in {"ended", "blocked", "failed"}
  BY DEF InTurn, Entered, Over, HasPlaceholders, Row
<1>2. k \in DOMAIN calls
  BY CallsAreNumbered
<1>3. k \in Over
  BY <1>1 DEF Row, Entered, InTurn, BeforeIsOver
<1>4. k # i
  BY <1>3 DEF Row
<1>. QED
  BY <1>2, <1>3, <1>4 DEF Over, Row

\* What a call has taken is not changed by the step of another one.
LEMMA RowKeepsChained ==
    ASSUME TypeOK, TypeOK', InTurn, ChainedOnceTaken, NEW i \in DOMAIN calls, Row(i),
           config.fast /\ HasPlaceholders /\ Taken(i)' =>
               /\ Entered(i) \/ BeforeIsOver(i)
               /\ \A j \in 1..(i - 1) : Names(i, j) => Chained(i, j)'
    PROVE  ChainedOnceTaken'
<1>1. SUFFICES ASSUME config.fast, NEW m \in DOMAIN calls, Taken(m)',
                      NEW j \in 1..(m - 1), Names(m, j)'
               PROVE  Chained(m, j)'
  BY DEF ChainedOnceTaken, Row
<1>2. /\ j \in DOMAIN calls /\ j \in Nat \ {0} /\ m \in Nat \ {0}
      /\ \A k \in 1..(m - 1) : k \in DOMAIN calls
  BY CallsAreNumbered
<1>3. HasPlaceholders
  <2>1. SUFFICES ASSUME ~HasPlaceholders PROVE FALSE
    OBVIOUS
  <2>2. calls[m].ref = NoRef
    BY <1>1, <2>1 DEF HasPlaceholders
  <2>3. runs'[j] \in Tools
    BY <1>2 DEF TypeOK, Row
  <2>. QED
    BY <1>1, <1>2, <2>2, <2>3, LoopAssumption DEF Names, Keys, Row
<1>4. \A k \in 1..(m - 1) : k \in Over
  <2>1. CASE m = i
    BY <1>1, <1>3, <2>1 DEF InTurn, BeforeIsOver
  <2>2. CASE m # i
    BY <1>1, <1>3, <2>2 DEF InTurn, Entered, Taken, Row
  <2>. QED
    BY <2>1, <2>2
<1>5. \A k \in 1..(m - 1) : /\ stage'[k] = stage[k] /\ runs'[k] = runs[k]
                             /\ result'[k] = result[k]
  BY <1>2, <1>4 DEF Row
<1>6. Names(m, j)
  <2>1. \A k \in (j + 1)..(m - 1) : stage'[k] = stage[k] /\ runs'[k] = runs[k]
    BY <1>2, <1>5
  <2>. QED
    BY <1>1, <1>5, <2>1 DEF Names, Row
<1>7. CASE m = i
  BY <1>1, <1>3, <1>5, <1>6, <1>7
<1>8. CASE m # i
  <2>1. Taken(m) /\ args'[m] = args[m]
    BY <1>1, <1>8 DEF Taken, Row
  <2>. QED
    BY <1>1, <1>5, <1>6, <2>1 DEF ChainedOnceTaken, Chained, Arg, None, Row
<1>. QED
  BY <1>7, <1>8

\* A step after which the same calls have results, and the same ones.
LEMMA RowKeepsOutputs ==
    ASSUME TypeOK, OutputsKnown, NEW i \in DOMAIN calls, Row(i),
           outputs' = outputs, pc' = "tools" => pc = "tools",
           pc' = "tools" /\ HasResult(i)' =>
               HasResult(i) /\ runs'[i] = runs[i] /\ result'[i] = result[i],
           pc' = "tools" /\ HasResult(i) => HasResult(i)'
    PROVE  OutputsKnown'
<1>1. SUFFICES ASSUME HasPlaceholders, pc = "tools", pc' = "tools",
                      NEW j \in DOMAIN calls, HasResult(j)'
               PROVE  /\ OnRecord(outputs, j) = {result'[j]}
                      /\ Latest(j)' => OnRecord(outputs, runs'[j]) = {result'[j]}
  BY DEF OutputsKnown, HasPlaceholders, Row
<1>2. HasResult(j) /\ runs'[j] = runs[j] /\ result'[j] = result[j]
  BY <1>1 DEF Row, HasResult
<1>3. \A k \in DOMAIN calls : HasResult(k) => HasResult(k)' /\ runs'[k] = runs[k]
  BY <1>1 DEF Row, HasResult
<1>4. Latest(j)' => Latest(j)
  BY <1>2, <1>3 DEF Latest, Row
<1>. QED
  BY <1>1, <1>2, <1>4 DEF OutputsKnown

LEMMA DeliverKeepsOutputs ==
    ASSUME ToolsAreNoNumbers, TypeOK, TypeOK', InTurn, OutputsKnown,
           NEW i \in DOMAIN calls, NEW tool \in Tools, NEW v,
           Row(i), Entered(i), ~HasResult(i), Deliver(i, tool, v)
    PROVE  OutputsKnown'
<1>1. SUFFICES ASSUME HasPlaceholders, pc = "tools", NEW j \in DOMAIN calls, HasResult(j)'
               PROVE  /\ OnRecord(outputs', j) = {result'[j]}
                      /\ Latest(j)' => OnRecord(outputs', runs'[j]) = {result'[j]}
  BY DEF OutputsKnown, HasPlaceholders, Row, Deliver
<1>2. ASSUME NEW key
      PROVE  OnRecord(outputs', key) = IF key \in {tool, i} THEN {v} ELSE OnRecord(outputs, key)
  <2>1. outputs' = {o \in outputs : o.key \notin {tool, i}}
                     \cup {[key |-> tool, value |-> v], [key |-> i, value |-> v]}
    BY <1>1 DEF Deliver, HasPlaceholders, IsParallel, Recorded
  <2>2. PICK outs, outs2 : outs = outputs /\ outs2 = outputs'
    OBVIOUS
  <2>3. Added(outs, outs2, i, tool, v)
    BY <2>1, <2>2 DEF Added
  <2>4. OnRecord(outs2, key) = IF key \in {tool, i} THEN {v} ELSE OnRecord(outs, key)
    BY <2>3, RecordAdded
  <2>. QED
    BY <2>2, <2>4 DEF OnRecord
<1>3. runs'[i] = tool /\ result'[i] = v /\ stage'[i] = "delivered"
  BY DEF Deliver, TypeOK
<1>4. CASE j = i
  BY <1>2, <1>3, <1>4
<1>5. CASE j # i
  <2>1. HasResult(j) /\ runs'[j] = runs[j] /\ result'[j] = result[j]
    BY <1>1, <1>5 DEF Row, HasResult
  <2>2. i \in Nat \ {0} /\ j \in Nat \ {0} /\ runs[j] \in Tools
    BY CallsAreNumbered DEF TypeOK
  <2>3. j < i
    <3>1. Entered(j)
      BY <2>1 DEF HasResult, Entered
    <3>2. i \notin 1..(j - 1)
      BY <1>1, <3>1 DEF InTurn, Row
    <3>. QED
      BY <1>5, <2>2, <3>2
  <2>4. j \notin {tool, i} /\ runs[j] # i
    BY <1>5, <2>2 DEF ToolsAreNoNumbers
  <2>5. OnRecord(outputs', j) = {result'[j]}
    BY <1>1, <1>2, <2>1, <2>4 DEF OutputsKnown
  <2>6. ASSUME Latest(j)' PROVE OnRecord(outputs', runs[j]) = {result[j]}
    <3>1. \A k \in DOMAIN calls : k > j /\ HasResult(k)' => runs'[k] # runs'[j]
      BY <2>6 DEF Latest, Row
    <3>2. i > j /\ HasResult(i)'
      BY <1>3, <2>2, <2>3 DEF HasResult
    <3>3. runs[j] # tool
      BY <1>3, <2>1, <3>1, <3>2
    <3>4. \A k \in DOMAIN calls \ {i} : HasResult(k) => HasResult(k)' /\ runs'[k] = runs[k]
      BY DEF HasResult, Row
    <3>5. Latest(j)
      BY <2>1, <3>1, <3>4 DEF Latest
    <3>. QED
      BY <1>1, <1>2, <2>1, <2>4, <3>3, <3>5 DEF OutputsKnown
  <2>. QED
    BY <2>1, <2>5, <2>6
<1>. QED
  BY <1>4, <1>5

\* The outputs a call finds when it begins are those its placeholder names.
LEMMA BeginTakesNamed ==
    ASSUME TypeOK, Chain, NEW i \in DOMAIN calls, Begin(i), HasPlaceholders
    PROVE  /\ BeforeIsOver(i)
           /\ \A j \in 1..(i - 1) : Names(i, j) => Chained(i, j)'
<1>1. /\ config.fast /\ ~IsParallel
      /\ stage[i] = "queued" /\ pc = "tools" /\ Active = {}
      /\ \A j \in 1..(i - 1) : stage[j] # "queued"
  BY DEF HasPlaceholders, IsParallel, Begin, MayBegin
<1>2. /\ i \in Nat \ {0} /\ DOMAIN calls \subseteq Nat \ {0}
      /\ \A k \in 1..(i - 1) : k \in DOMAIN calls
  BY CallsAreNumbered
<1>3. BeforeIsOver(i)
  BY <1>1, <1>2 DEF BeforeIsOver, Over, Active, TypeOK, Stages
<1>4. ASSUME NEW j \in 1..(i - 1), Names(i, j)
      PROVE  Chained(i, j)'
  <2>1. j \in DOMAIN calls /\ HasResult(j)
    BY <1>2, <1>4 DEF Names, HasResult
  <2>2. Latest(j) \/ calls[i].ref = j
    <3>1. SUFFICES ASSUME calls[i].ref = runs[j],
                          \A k \in (j + 1)..(i - 1) : stage[k] = "ended" => runs[k] # runs[j]
                   PROVE  Latest(j)
      BY <1>4 DEF Names
    <3>2. ASSUME NEW k \in DOMAIN calls, k > j, HasResult(k) PROVE runs[k] # runs[j]
      <4>1. k < i
        <5>1. k # i
          BY <1>1, <3>2 DEF HasResult
        <5>2. Entered(k)
          BY <3>2 DEF HasResult, Entered
        <5>3. i \notin 1..(k - 1)
          BY <1>1, <5>2 DEF Chain, InTurn, Over
        <5>. QED
          BY <1>2, <5>1, <5>3
      <4>2. k \in 1..(i - 1) /\ k \in (j + 1)..(i - 1)
        BY <1>2, <3>2, <4>1
      <4>3. stage[k] = "ended"
        BY <1>3, <3>2, <4>2 DEF BeforeIsOver, Over, HasResult
      <4>. QED
        BY <3>1, <4>2, <4>3
    <3>. QED
      BY <3>2 DEF Latest
  <2>3. OnRecord(outputs, calls[i].ref) = {result[j]}
    <3>1. /\ OnRecord(outputs, j) = {result[j]}
          /\ Latest(j) => OnRecord(outputs, runs[j]) = {result[j]}
      BY <1>1, <2>1 DEF Chain, OutputsKnown
    <3>2. calls[i].ref = j \/ (Latest(j) /\ calls[i].ref = runs[j])
      BY <1>4, <2>2 DEF Names
    <3>. QED
      BY <3>1, <3>2
  <2>4. args'[i] = Resolved(calls[i].ref) /\ UNCHANGED <<calls, result>>
    BY DEF Begin, TypeOK
  <2>5. CASE result[j].out = "nothing"
    <3>1. Output(calls[i].ref) = {}
      BY <2>3, <2>5 DEF Output
    <3>2. Resolved(calls[i].ref) = Arg(calls[i].ref, None)
      BY <3>1 DEF Resolved
    <3>. QED
      BY <2>4, <2>5, <3>2 DEF Chained, Arg, None
  <2>6. CASE result[j].out # "nothing"
    <3>1. Output(calls[i].ref) = {result[j]}
      BY <2>3, <2>6 DEF Output
    <3>2. (CHOOSE v \in {result[j]} : TRUE) = result[j]
      OBVIOUS
    <3>3. Resolved(calls[i].ref) = Arg(NoRef, CHOOSE v \in {result[j]} : TRUE)
      BY <1>1, <3>1 DEF Resolved
    <3>4. Resolved(calls[i].ref) = Arg(NoRef, result[j])
      BY <3>2, <3>3
    <3>. QED
      BY <2>4, <2>6, <3>4 DEF Chained, Arg
  <2>. QED
    BY <2>5, <2>6
<1>. QED
  BY <1>3, <1>4

LEMMA ChainNext ==
    ASSUME ToolsAreNoNumbers, TypeOK, Chain, [Next]_vars PROVE Chain'
<1>1. TypeOK'
  BY TypeNext
<1>2. ASSUME NEW response \in Responses, AskForTools(response) PROVE Chain'
  <2>1. \A i \in DOMAIN calls' : stage'[i] = "queued"
    BY <1>2 DEF AskForTools
  <2>. QED
    BY <2>1 DEF Chain, InTurn, NoneFailed, OutputsKnown, ChainedOnceTaken,
                Entered, HasResult, Taken
\* What a step does that leaves the batch and the switches alone.
<1>3. ASSUME UNCHANGED <<config, batch, outputs>>, pc' = "tools" => pc = "tools"
      PROVE  Chain'
  <2>1. /\ UNCHANGED <<config, outputs, calls, stage, args, runs, result>>
        /\ HasPlaceholders' <=> HasPlaceholders
    BY <1>3 DEF batch, HasPlaceholders
  <2>2. InTurn'
    BY <1>3, <2>1 DEF Chain, InTurn, Entered, Over
  <2>3. NoneFailed'
    BY <1>3, <2>1 DEF Chain, NoneFailed
  <2>4. OutputsKnown'
    <3>1. \A j \in DOMAIN calls : (HasResult(j)' <=> HasResult(j)) /\ (Latest(j)' <=> Latest(j))
      BY <2>1 DEF HasResult, Latest
    <3>. QED
      BY <1>3, <2>1, <3>1 DEF Chain, OutputsKnown, OnRecord
  <2>5. ChainedOnceTaken'
    <3>1. \A i \in DOMAIN calls : \A j \in 1..(i - 1) :
              (Names(i, j)' <=> Names(i, j)) /\ (Chained(i, j)' <=> Chained(i, j))
      BY <2>1 DEF Names, Chained, Arg, None
    <3>2. \A i \in DOMAIN calls : Taken(i)' <=> Taken(i)
      BY <2>1 DEF Taken
    <3>. QED
      BY <2>1, <3>1, <3>2 DEF Chain, ChainedOnceTaken
  <2>. QED
    BY <2>2, <2>3, <2>4, <2>5 DEF Chain
<1>4. CASE AnswerDirectly \/ CloseRound \/ UNCHANGED vars
  BY <1>3, <1>4 DEF AnswerDirectly, CloseRound, vars
<1>5. CASE Break
  <2>1. /\ pc' = "raised" /\ UNCHANGED <<config, calls, args, runs, result>>
        /\ \A k \in DOMAIN calls :
              stage'[k] = IF k \in Over THEN stage[k] ELSE "failed"
    BY <1>5 DEF Break, TypeOK
  <2>2. \A i \in DOMAIN calls : \A k \in 1..(i - 1) : k \in DOMAIN calls
    BY CallsAreNumbered
  <2>3. InTurn'
    BY <2>1, <2>2 DEF Chain, InTurn, Entered, Over, HasPlaceholders
  <2>4. ChainedOnceTaken'
    <3>1. SUFFICES ASSUME config.fast, NEW m \in DOMAIN calls, Taken(m)',
                          NEW j \in 1..(m - 1), Names(m, j)'
                   PROVE  Chained(m, j)
      BY <2>1 DEF ChainedOnceTaken, Chained, Arg, None
    <3>2. Taken(m)
      BY <2>1, <3>1 DEF Taken
    <3>3. CASE ~HasPlaceholders
      <4>1. calls[m].ref = NoRef
        BY <3>1, <3>3 DEF HasPlaceholders
      <4>2. j \in DOMAIN calls /\ j \in Nat \ {0}
        BY CallsAreNumbered
      <4>3. runs[j] \in Tools
        BY <4>2 DEF TypeOK
      <4>. QED
        BY <2>1, <3>1, <4>1, <4>2, <4>3, LoopAssumption DEF Names, Keys
    <3>4. CASE HasPlaceholders
      <4>1. \A k \in 1..(m - 1) : k \in Over /\ stage'[k] = stage[k]
        BY <2>1, <2>2, <3>2, <3>4 DEF Chain, InTurn, Entered, Taken
      <4>2. \A k \in (j + 1)..(m - 1) : stage'[k] = stage[k]
        <5>1. j \in Nat \ {0} /\ m \in Nat \ {0}
          BY CallsAreNumbered
        <5>. QED
          BY <4>1, <5>1
      <4>3. Names(m, j)
        BY <2>1, <3>1, <4>1, <4>2 DEF Names
      <4>. QED
        BY <3>1, <3>2, <4>3 DEF Chain, ChainedOnceTaken
    <3>. QED
      BY <3>3, <3>4
  <2>. QED
    BY <2>1, <2>3, <2>4 DEF Chain, NoneFailed, OutputsKnown
<1>6. ASSUME NEW i \in DOMAIN calls, Begin(i) PROVE Chain'
  <2>1. /\ Row(i) /\ stage[i] = "queued" /\ stage'[i] \in {"blocked", "asking", "ready"}
        /\ UNCHANGED <<pc, runs, result, outputs>>
    BY <1>6, CallIsCall, Verdicts DEF Begin, MayBegin, Row, Over, TypeOK
  <2>2. InTurn'
    BY <1>6, <2>1, BeginTakesNamed, RowKeepsTurn DEF Chain
  <2>3. ChainedOnceTaken'
    BY <1>1, <1>6, <2>1, BeginTakesNamed, RowKeepsChained DEF Chain
  <2>4. OutputsKnown'
    BY <2>1, RowKeepsOutputs DEF Chain, HasResult
  <2>5. NoneFailed'
    BY <2>1 DEF Chain, NoneFailed, Row
  <2>. QED
    BY <2>2, <2>3, <2>4, <2>5 DEF Chain
\* A call that has begun goes on, or is over.
<1>7. ASSUME NEW i \in DOMAIN calls, Row(i), Entered(i), Taken(i), args'[i] = args[i],
             stage'[i] # "queued",
             pc' = "tools" => pc = "tools" /\ stage'[i] # "failed",
             OutputsKnown'
      PROVE  Chain'
  <2>1. InTurn'
    BY <1>7, RowKeepsTurn DEF Chain
  <2>2. ChainedOnceTaken'
    <3>1. ASSUME config.fast, NEW j \in 1..(i - 1), Names(i, j)
          PROVE  Chained(i, j)'
      <4>1. j \in DOMAIN calls \ {i}
        BY CallsAreNumbered
      <4>2. result'[j] = result[j] /\ calls' = calls
        BY <1>7, <4>1 DEF Row
      <4>3. Chained(i, j)
        BY <1>7, <3>1 DEF Chain, ChainedOnceTaken
      <4>. QED
        BY <1>7, <4>2, <4>3 DEF Chained, Arg, None
    <3>. QED
      BY <1>1, <1>7, <3>1, RowKeepsChained DEF Chain
  <2>3. NoneFailed'
    BY <1>7 DEF Chain, NoneFailed, Row
  <2>. QED
    BY <1>7, <2>1, <2>2, <2>3 DEF Chain
<1>8. ASSUME NEW i \in DOMAIN calls,
             Consents(i) \/ Refuses(i) \/ Miss(i) \/ Finish(i) \/ Raise(i)
      PROVE  Chain'
  <2>1. /\ Row(i) /\ Entered(i) /\ Taken(i) /\ args'[i] = args[i]
        /\ stage'[i] # "queued" /\ outputs' = outputs
        /\ pc' = "tools" => pc = "tools" /\ stage'[i] # "failed"
    BY <1>8 DEF Consents, Refuses, Miss, Finish, Raise, Row, Over, Entered, Taken, TypeOK
  <2>2. /\ pc' = "tools" /\ HasResult(i)' =>
              HasResult(i) /\ runs'[i] = runs[i] /\ result'[i] = result[i]
        /\ pc' = "tools" /\ HasResult(i) => HasResult(i)'
    BY <1>8 DEF Consents, Refuses, Miss, Finish, Raise, HasResult, TypeOK
  <2>3. OutputsKnown'
    BY <2>1, <2>2, RowKeepsOutputs DEF Chain
  <2>. QED
    BY <1>7, <2>1, <2>3
<1>9. ASSUME NEW i \in DOMAIN calls, Hit(i) \/ Return(i) PROVE Chain'
  <2>1. PICK tool \in Tools : \E v : Deliver(i, tool, v)
    <3>1. CASE Hit(i)
      <4>1. PICK tool \in Replaced(i) : \E e \in Cached(tool, args[i]) : Deliver(i, tool, e.value)
        BY <3>1 DEF Hit
      <4>2. tool \in Tools
        BY CallIsCall DEF Replaced
      <4>. QED
        BY <4>1, <4>2
    <3>2. CASE Return(i)
      BY <3>2 DEF Return, TypeOK
    <3>. QED
      BY <1>9, <3>1, <3>2
  <2>2. PICK v : Deliver(i, tool, v)
    BY <2>1
  <2>3. stage[i] \in {"ready", "executing"}
    BY <1>9 DEF Hit, Return
  <2>4. /\ Row(i) /\ Entered(i) /\ Taken(i) /\ args'[i] = args[i] /\ ~HasResult(i)
        /\ stage'[i] = "delivered" /\ pc' = pc
    BY <2>2, <2>3 DEF Deliver, Row, Over, Entered, Taken, HasResult, TypeOK
  <2>5. OutputsKnown'
    BY <1>1, <2>2, <2>4, DeliverKeepsOutputs DEF Chain
  <2>. QED
    BY <1>7, <2>4, <2>5
<1>. QED
  BY <1>2, <1>4, <1>5, <1>6, <1>8, <1>9 DEF Next, Call

\* Whatever overlaps and whatever has been on record from earlier rounds, a
\* call that names the output of an earlier call of its round takes it.
THEOREM TakesTheNamed == ASSUME ToolsAreNoNumbers PROVE Spec => []ChainedInRound
<1>1. Init => Chain
  BY DEF Init, Chain, InTurn, NoneFailed, OutputsKnown, ChainedOnceTaken
<1>2. TypeOK /\ Chain /\ [Next]_vars => Chain'
  BY ChainNext
<1>3. Chain => ChainedInRound
  BY DEF Chain, ChainedOnceTaken, ChainedInRound, Taken, Passed
<1>. QED
  BY <1>1, <1>2, <1>3, TypeInvariant, PTL DEF Spec

-----------------------------------------------------------------------------
(* Functions defined along 0..N, and sums. *)

LEMMA UpToLength ==
    ASSUME NEW N \in Nat, NEW P, 0 \in P, \A n \in 1..N : n - 1 \in P => n \in P
    PROVE  0..N \subseteq P
<1>. SUFFICES ASSUME (0..N) \ P # {} PROVE FALSE
  OBVIOUS
<1>. DEFINE T == (0..N) \ P
            R == OpToRel(<, Nat)
<1>1. IsWellFoundedOn(R, Nat)
  BY NatLessThanWellFounded
<1>2. T \subseteq Nat /\ T # {}
  OBVIOUS
<1>3. \A x, y \in Nat : <<y, x>> \in R <=> y < x
  BY DEF OpToRel
<1>. HIDE DEF R
<1>4. PICK x \in T : \A y \in T : ~(<<y, x>> \in R)
  BY <1>1, <1>2, WFMin
<1>5. x \in 1..N /\ x - 1 \in 0..N /\ x \notin P
  BY <1>4
<1>6. x - 1 \in P
  <2>1. x - 1 \in Nat /\ x \in Nat /\ x - 1 < x
    BY <1>5
  <2>2. <<x - 1, x>> \in R
    BY <1>3, <2>1
  <2>3. x - 1 \notin T
    BY <1>4, <2>2
  <2>. QED
    BY <1>5, <2>3
<1>. QED
  BY <1>5, <1>6

\* f begins with base and goes on by the steps of step.
Follows(f, N, base, step) == f[0] = base /\ \A n \in 1..N : f[n] = step[n][f[n - 1]]

Steps(N, S) == [1..N -> [S -> S]]
Courses(N, S) == [0..N -> S]

LEMMA RecursionUpTo ==
    ASSUME NEW N \in Nat, NEW S, NEW base \in S, NEW step \in Steps(N, S)
    PROVE  \E f \in Courses(N, S) : Follows(f, N, base, step)
<1>. USE DEF Steps, Courses, Follows
<1>. DEFINE Good(n, f) == f[0] = base /\ \A k \in 1..n : f[k] = step[k][f[k - 1]]
            P == {n \in 0..N : \E f \in [0..n -> S] : Good(n, f)}
<1>1. 0 \in P
  <2>. DEFINE h == [k \in 0..0 |-> base]
  <2>1. h \in [0..0 -> S] /\ h[0] = base /\ 1..0 = {}
    OBVIOUS
  <2>2. Good(0, h)
    <3>. HIDE DEF h
    <3>. QED
      BY <2>1
  <2>. HIDE DEF Good, h
  <2>. QED
    BY <2>1, <2>2
<1>2. ASSUME NEW n \in 1..N, n - 1 \in P PROVE n \in P
  <2>1. PICK f \in [0..(n - 1) -> S] : Good(n - 1, f)
    BY <1>2
  <2>. DEFINE g == [k \in 0..n |-> IF k = n THEN step[n][f[n - 1]] ELSE f[k]]
  <2>2. f[n - 1] \in S /\ step[n] \in [S -> S]
    OBVIOUS
  <2>3. step[n][f[n - 1]] \in S
    BY <2>2
  <2>4. g \in [0..n -> S]
    BY <2>3
  <2>5. g[n] = step[n][f[n - 1]] /\ \A k \in 0..(n - 1) : g[k] = f[k]
    OBVIOUS
  <2>6. Good(n, g)
    <3>. HIDE DEF g
    <3>1. g[0] = base
      BY <2>1, <2>5
    <3>2. ASSUME NEW k \in 1..n PROVE g[k] = step[k][g[k - 1]]
      <4>1. CASE k = n
        BY <2>5, <4>1
      <4>2. CASE k # n
        <5>1. k \in 1..(n - 1) /\ k \in 0..(n - 1) /\ k - 1 \in 0..(n - 1)
          BY <4>2
        <5>. QED
          BY <2>1, <2>5, <5>1
      <4>. QED
        BY <4>1, <4>2
    <3>. QED
      BY <3>1, <3>2
  <2>. HIDE DEF g, Good
  <2>. QED
    BY <2>4, <2>6
<1>3. 0..N \subseteq P
  <2>. HIDE DEF P
  <2>. QED
    BY <1>1, <1>2, UpToLength
<1>4. N \in P
  BY <1>3
<1>. QED
  BY <1>4

\* What two lists are, one behind the other.
LEMMA JoinedEntries ==
    ASSUME NEW S, NEW s \in Seq(S), NEW t \in Seq(S)
    PROVE  /\ s \o t \in Seq(S) /\ Len(s \o t) = Len(s) + Len(t)
           /\ Len(s) \in Nat /\ Len(t) \in Nat
           /\ \A i \in 1..Len(s) : (s \o t)[i] = s[i]
           /\ \A i \in 1..Len(t) : (s \o t)[Len(s) + i] = t[i]
OBVIOUS

\* What sums of values are.
LEMMA SumsUpTo ==
    ASSUME NEW s \in Seq(Nat)
    PROVE  /\ SumUpTo(s) \in [0..Len(s) -> Nat]
           /\ SumUpTo(s)[0] = 0
           /\ \A n \in 1..Len(s) : SumUpTo(s)[n] = SumUpTo(s)[n - 1] + s[n]
<1>. DEFINE step == [n \in 1..Len(s) |-> [z \in Nat |-> z + s[n]]]
            Is(f) == f = [n \in 0..Len(s) |-> IF n = 0 THEN 0 ELSE f[n - 1] + s[n]]
<1>0. Len(s) \in Nat /\ 0 \in Nat
  OBVIOUS
<1>1. \A n \in 1..Len(s) : s[n] \in Nat
  OBVIOUS
<1>2. /\ step \in [1..Len(s) -> [Nat -> Nat]]
      /\ \A n \in 1..Len(s) : \A z \in Nat : step[n][z] = z + s[n]
  <2>1. ASSUME NEW n \in 1..Len(s) PROVE [z \in Nat |-> z + s[n]] \in [Nat -> Nat]
    BY <1>1
  <2>. QED
    BY <2>1
<1>3. PICK f \in [0..Len(s) -> Nat] : /\ f[0] = 0
                                      /\ \A n \in 1..Len(s) : f[n] = step[n][f[n - 1]]
  <2>1. step \in Steps(Len(s), Nat)
    BY <1>2 DEF Steps
  <2>. HIDE DEF step
  <2>2. \E f \in Courses(Len(s), Nat) : Follows(f, Len(s), 0, step)
    BY <1>0, <2>1, RecursionUpTo
  <2>. QED
    BY <2>2 DEF Courses, Follows
<1>4. \A n \in 1..Len(s) : f[n] = f[n - 1] + s[n]
  <2>1. ASSUME NEW n \in 1..Len(s) PROVE f[n - 1] \in Nat
    OBVIOUS
  <2>. HIDE DEF step
  <2>. QED
    BY <1>2, <1>3, <2>1
<1>5. Is(f)
  BY <1>3, <1>4
<1>6. Is(SumUpTo(s))
  <2>1. SumUpTo(s) = CHOOSE g : Is(g)
    BY DEF SumUpTo
  <2>. HIDE DEF Is
  <2>. QED
    BY <1>5, <2>1
<1>. DEFINE g == SumUpTo(s)
<1>7. g[0] = 0 /\ \A n \in 1..Len(s) : g[n] = g[n - 1] + s[n]
  <2>. HIDE DEF g
  <2>1. Is(g)
    BY <1>6 DEF g
  <2>. QED
    BY <2>1
<1>8. 0..Len(s) \subseteq {n \in 0..Len(s) : g[n] \in Nat}
  <2>. DEFINE P == {n \in 0..Len(s) : g[n] \in Nat}
  <2>. HIDE DEF g
  <2>1. 0 \in P
    BY <1>7
  <2>2. ASSUME NEW n \in 1..Len(s), n - 1 \in P PROVE n \in P
    BY <1>1, <1>7, <2>2
  <2>. HIDE DEF P
  <2>3. 0..Len(s) \subseteq P
    BY <1>0, <2>1, <2>2, UpToLength
  <2>. QED
    BY <2>3 DEF P
<1>. QED
  <2>. HIDE DEF g
  <2>1. Is(g)
    BY <1>6 DEF g
  <2>2. g \in [0..Len(s) -> Nat]
    BY <1>8, <2>1
  <2>. QED
    BY <1>7, <2>2 DEF g

LEMMA TotalIsNat ==
    ASSUME NEW s \in Seq(Nat) PROVE Total(s) \in Nat
<1>1. SumUpTo(s) \in [0..Len(s) -> Nat] /\ Len(s) \in 0..Len(s)
  BY SumsUpTo
<1>. QED
  BY <1>1 DEF Total

\* The first n values of two lists that begin with the same have the same sum.
LEMMA SumsAgree ==
    ASSUME NEW s \in Seq(Nat), NEW t \in Seq(Nat), NEW N \in Nat,
           N <= Len(s), N <= Len(t), \A i \in 1..N : s[i] = t[i]
    PROVE  SumUpTo(s)[N] = SumUpTo(t)[N]
<1>. DEFINE f == SumUpTo(s)
            g == SumUpTo(t)
            P == {n \in 0..N : f[n] = g[n]}
<1>1. f[0] = 0 /\ \A n \in 1..N : f[n] = f[n - 1] + s[n]
  <2>1. \A n \in 1..N : n \in 1..Len(s)
    OBVIOUS
  <2>. QED
    BY <2>1, SumsUpTo
<1>2. g[0] = 0 /\ \A n \in 1..N : g[n] = g[n - 1] + t[n]
  <2>1. \A n \in 1..N : n \in 1..Len(t)
    OBVIOUS
  <2>. QED
    BY <2>1, SumsUpTo
<1>. HIDE DEF f, g
<1>3. 0 \in P
  BY <1>1, <1>2
<1>4. ASSUME NEW n \in 1..N, n - 1 \in P PROVE n \in P
  BY <1>1, <1>2, <1>4
<1>5. 0..N \subseteq P
  <2>. HIDE DEF P
  <2>. QED
    BY <1>3, <1>4, UpToLength
<1>. QED
  BY <1>5 DEF f, g

LEMMA TotalJoined ==
    ASSUME NEW s \in Seq(Nat), NEW t \in Seq(Nat)
    PROVE  Total(s \o t) = Total(s) + Total(t)
<1>1. PICK u \in Seq(Nat) :
         /\ u = s \o t /\ Len(u) = Len(s) + Len(t)
         /\ \A i \in 1..Len(s) : u[i] = s[i]
         /\ \A i \in 1..Len(t) : u[Len(s) + i] = t[i]
  <2>1. PICK x : x = s \o t
    OBVIOUS
  <2>2. /\ x \in Seq(Nat) /\ Len(x) = Len(s) + Len(t)
        /\ \A i \in 1..Len(s) : x[i] = s[i]
        /\ \A i \in 1..Len(t) : x[Len(s) + i] = t[i]
    BY <2>1, JoinedEntries
  <2>. QED
    BY <2>1, <2>2
<1>2. PICK k \in Nat, m \in Nat : k = Len(s) /\ m = Len(t)
  OBVIOUS
<1>. DEFINE f == SumUpTo(u)
            g == SumUpTo(t)
            P == {n \in 0..m : f[k + n] = Total(s) + g[n]}
<1>3. /\ f \in [0..(k + m) -> Nat]
      /\ \A n \in 1..(k + m) : f[n] = f[n - 1] + u[n]
  BY <1>1, <1>2, SumsUpTo
<1>4. /\ g \in [0..m -> Nat] /\ g[0] = 0
      /\ \A n \in 1..m : g[n] = g[n - 1] + t[n]
  BY <1>2, SumsUpTo
<1>5. f[k] = Total(s) /\ Total(s) \in Nat
  <2>1. k <= Len(u) /\ k <= Len(s)
    BY <1>1, <1>2
  <2>2. f[k] = SumUpTo(s)[k]
    BY <1>1, <1>2, <2>1, SumsAgree
  <2>. QED
    BY <1>2, <2>2, TotalIsNat DEF Total
<1>. HIDE DEF f, g
<1>6. 0 \in P
  BY <1>4, <1>5
<1>7. ASSUME NEW n \in 1..m, n - 1 \in P PROVE n \in P
  <2>1. k + n \in 1..(k + m) /\ k + n - 1 = k + (n - 1)
    OBVIOUS
  <2>2. f[k + n] = f[k + (n - 1)] + t[n]
    BY <1>1, <1>2, <1>3, <2>1
  <2>3. g[n] = g[n - 1] + t[n] /\ g[n - 1] \in Nat
    <3>1. n - 1 \in 0..m
      OBVIOUS
    <3>. QED
      BY <1>4, <3>1
  <2>4. t[n] \in Nat /\ f[k + (n - 1)] = Total(s) + g[n - 1]
    <3>1. n \in 1..Len(t)
      BY <1>2
    <3>. QED
      BY <1>7, <3>1
  <2>. QED
    BY <1>5, <2>2, <2>3, <2>4
<1>8. 0..m \subseteq P
  <2>. HIDE DEF P
  <2>. QED
    BY <1>6, <1>7, UpToLength
<1>9. f[k + m] = Total(s) + g[m]
  BY <1>8
<1>. QED
  BY <1>1, <1>2, <1>9 DEF Total, f, g

LEMMA TotalOfFirst ==
    ASSUME NEW s \in Seq(Nat), s # <<>> PROVE Total(s) >= s[1]
<1>1. PICK a \in Seq(Nat), b \in Seq(Nat) : a = <<s[1]>> /\ b = Tail(s) /\ s = a \o b
  <2>1. s[1] \in Nat /\ Tail(s) \in Seq(Nat) /\ <<s[1]>> \in Seq(Nat)
    OBVIOUS
  <2>2. s = <<s[1]>> \o Tail(s)
    OBVIOUS
  <2>. QED
    BY <2>1, <2>2
<1>2. Total(a) = s[1]
  <2>1. Len(a) = 1 /\ a[1] = s[1] /\ 1 \in 1..1 /\ 1 - 1 = 0 /\ s[1] \in Nat
    BY <1>1
  <2>2. SumUpTo(a)[0] = 0 /\ SumUpTo(a)[1] = SumUpTo(a)[1 - 1] + a[1]
    BY <2>1, SumsUpTo
  <2>. QED
    BY <2>1, <2>2 DEF Total
<1>3. Total(s) = Total(a) + Total(b)
  BY <1>1, TotalJoined
<1>4. Total(b) \in Nat /\ s[1] \in Nat
  BY TotalIsNat
<1>. QED
  BY <1>2, <1>3, <1>4

\* The size of a list of messages.
LEMMA SizeFacts ==
    ASSUME NEW s \in Seq(MessageRecords)
    PROVE  /\ [i \in DOMAIN s |-> s[i].size] \in Seq(Nat)
           /\ Len([i \in DOMAIN s |-> s[i].size]) = Len(s)
<1>1. PICK n \in Nat : n = Len(s) /\ DOMAIN s = 1..n
  OBVIOUS
<1>2. \A i \in 1..n : s[i].size \in Nat
  BY <1>1 DEF MessageRecords
<1>3. [i \in 1..n |-> s[i].size] \in Seq(Nat) /\ Len([i \in 1..n |-> s[i].size]) = n
  BY <1>2
<1>. QED
  BY <1>1, <1>3

LEMMA SizeIsNat ==
    ASSUME NEW s \in Seq(MessageRecords) PROVE Size(s) \in Nat
BY SizeFacts, TotalIsNat DEF Size

LEMMA SizeOfFirst ==
    ASSUME NEW s \in Seq(MessageRecords), s # <<>>
    PROVE  Size(s) >= s[1].size
<1>1. PICK t \in Seq(Nat) : t = [i \in DOMAIN s |-> s[i].size] /\ Len(t) = Len(s)
  BY SizeFacts
<1>2. 1 \in DOMAIN s /\ t # <<>>
  BY <1>1
<1>3. t[1] = s[1].size
  BY <1>1, <1>2
<1>. QED
  BY <1>1, <1>2, <1>3, TotalOfFirst DEF Size

LEMMA SizeJoined ==
    ASSUME NEW s \in Seq(MessageRecords), NEW t \in Seq(MessageRecords)
    PROVE  Size(s \o t) = Size(s) + Size(t)
<1>1. PICK u \in Seq(MessageRecords) :
         /\ u = s \o t /\ Len(u) = Len(s) + Len(t)
         /\ \A i \in 1..Len(s) : u[i] = s[i]
         /\ \A i \in 1..Len(t) : u[Len(s) + i] = t[i]
  <2>1. PICK x : x = s \o t
    OBVIOUS
  <2>2. /\ x \in Seq(MessageRecords) /\ Len(x) = Len(s) + Len(t)
        /\ \A i \in 1..Len(s) : x[i] = s[i]
        /\ \A i \in 1..Len(t) : x[Len(s) + i] = t[i]
    BY <2>1, JoinedEntries
  <2>. QED
    BY <2>1, <2>2
<1>2. PICK a \in Seq(Nat) : a = [i \in DOMAIN s |-> s[i].size] /\ Len(a) = Len(s)
  BY SizeFacts
<1>3. PICK b \in Seq(Nat) : b = [i \in DOMAIN t |-> t[i].size] /\ Len(b) = Len(t)
  BY SizeFacts
<1>4. PICK c \in Seq(Nat) : c = [i \in DOMAIN u |-> u[i].size] /\ Len(c) = Len(u)
  BY SizeFacts
<1>5. PICK d \in Seq(Nat) :
         /\ d = a \o b /\ Len(d) = Len(a) + Len(b)
         /\ \A i \in 1..Len(a) : d[i] = a[i]
         /\ \A i \in 1..Len(b) : d[Len(a) + i] = b[i]
  <2>1. PICK x : x = a \o b
    OBVIOUS
  <2>2. /\ x \in Seq(Nat) /\ Len(x) = Len(a) + Len(b)
        /\ \A i \in 1..Len(a) : x[i] = a[i]
        /\ \A i \in 1..Len(b) : x[Len(a) + i] = b[i]
    BY <2>1, JoinedEntries
  <2>. QED
    BY <2>1, <2>2
<1>6. PICK k \in Nat, m \in Nat : k = Len(s) /\ m = Len(t)
  OBVIOUS
<1>7. \A i \in 1..k : c[i] = d[i]
  <2>1. ASSUME NEW i \in 1..k PROVE c[i] = d[i]
    <3>1. i \in DOMAIN s /\ i \in DOMAIN u
      BY <1>1, <1>6
    <3>. QED
      BY <1>1, <1>2, <1>4, <1>5, <1>6, <3>1
  <2>. QED
    BY <2>1
<1>8. \A i \in 1..m : c[k + i] = d[k + i]
  <2>1. ASSUME NEW i \in 1..m PROVE c[k + i] = d[k + i]
    <3>1. i \in DOMAIN t /\ k + i \in DOMAIN u
      BY <1>1, <1>6
    <3>2. c[k + i] = u[k + i].size /\ u[k + i] = t[i]
      BY <1>1, <1>4, <1>6, <3>1
    <3>3. d[k + i] = t[i].size
      BY <1>2, <1>3, <1>5, <1>6, <3>1
    <3>. QED
      BY <3>2, <3>3
  <2>. QED
    BY <2>1
<1>9. c = d
  <2>1. Len(c) = k + m /\ Len(d) = k + m
    BY <1>1, <1>2, <1>3, <1>4, <1>5, <1>6
  <2>2. ASSUME NEW i \in 1..(k + m) PROVE c[i] = d[i]
    <3>1. i \in 1..k \/ (i - k \in 1..m /\ k + (i - k) = i)
      OBVIOUS
    <3>. QED
      BY <1>7, <1>8, <3>1
  <2>. QED
    BY <2>1, <2>2, SeqEqual
<1>10. Total(d) = Total(a) + Total(b)
  BY <1>5, TotalJoined
<1>11. Size(u) = Total(c) /\ Size(s) = Total(a) /\ Size(t) = Total(b)
  BY <1>2, <1>3, <1>4 DEF Size
<1>. QED
  BY <1>1, <1>9, <1>10, <1>11

-----------------------------------------------------------------------------
(* What the walks over a list of messages compute. *)

\* What a list of lists is joined to.
LEMMA JoinedIs ==
    ASSUME NEW E, NEW lists \in Seq(Seq(E)), NEW chosen
    PROVE  /\ JoinedUpTo(lists, chosen) \in [0..Len(lists) -> Seq(E)]
           /\ JoinedUpTo(lists, chosen)[0] = <<>>
           /\ \A n \in 1..Len(lists) :
                 JoinedUpTo(lists, chosen)[n] =
                   (IF n \in chosen THEN JoinedUpTo(lists, chosen)[n - 1] \o lists[n]
                    ELSE JoinedUpTo(lists, chosen)[n - 1])
<1>. DEFINE S == Seq(E)
            Step(n, z) == (IF n \in chosen THEN z \o lists[n] ELSE z)
            step == [n \in 1..Len(lists) |-> [z \in S |-> Step(n, z)]]
            Is(f) == f = [n \in 0..Len(lists) |-> IF n = 0 THEN <<>> ELSE Step(n, f[n - 1])]
            g == JoinedUpTo(lists, chosen)
<1>0. Len(lists) \in Nat /\ 0 \in Nat
  OBVIOUS
<1>1. <<>> \in S
  OBVIOUS
<1>2. ASSUME NEW n \in 1..Len(lists), NEW z \in S PROVE Step(n, z) \in S
  OBVIOUS
<1>. HIDE DEF S, Step
<1>3. /\ step \in Steps(Len(lists), S)
      /\ \A n \in 1..Len(lists) : \A z \in S : step[n][z] = Step(n, z)
  <2>1. ASSUME NEW n \in 1..Len(lists) PROVE [z \in S |-> Step(n, z)] \in [S -> S]
    BY <1>2
  <2>. QED
    BY <2>1 DEF Steps
<1>4. PICK f \in [0..Len(lists) -> S] : /\ f[0] = <<>>
                                      /\ \A n \in 1..Len(lists) : f[n] = step[n][f[n - 1]]
  <2>. HIDE DEF step
  <2>1. \E f \in Courses(Len(lists), S) : Follows(f, Len(lists), <<>>, step)
    BY <1>0, <1>1, <1>3, RecursionUpTo
  <2>. QED
    BY <2>1 DEF Courses, Follows
<1>5. \A n \in 1..Len(lists) : f[n] = Step(n, f[n - 1])
  <2>1. ASSUME NEW n \in 1..Len(lists) PROVE f[n - 1] \in S
    OBVIOUS
  <2>. HIDE DEF step
  <2>. QED
    BY <1>3, <1>4, <2>1
<1>6. Is(f)
  BY <1>4, <1>5
<1>7. Is(g)
  <2>1. g = CHOOSE h : Is(h)
    BY DEF JoinedUpTo, Step
  <2>. HIDE DEF Is, g
  <2>. QED
    BY <1>6, <2>1
<1>. HIDE DEF g
<1>8. g[0] = <<>> /\ \A n \in 1..Len(lists) : g[n] = Step(n, g[n - 1])
  <2>. HIDE DEF Step
  <2>1. 0 \in 0..Len(lists) /\ \A n \in 1..Len(lists) : n \in 0..Len(lists) /\ n # 0
    BY <1>0
  <2>. QED
    BY <1>7, <2>1
<1>9. \A n \in 0..Len(lists) : g[n] \in S
  <2>. DEFINE P == {n \in 0..Len(lists) : g[n] \in S}
  <2>1. 0 \in P
    BY <1>1, <1>8
  <2>2. ASSUME NEW n \in 1..Len(lists), n - 1 \in P PROVE n \in P
    BY <1>2, <1>8, <2>2
  <2>. HIDE DEF P
  <2>3. 0..Len(lists) \subseteq P
    BY <1>0, <2>1, <2>2, UpToLength
  <2>. QED
    BY <2>3 DEF P
<1>10. g \in [0..Len(lists) -> S]
  BY <1>7, <1>9
<1>. QED
  BY <1>8, <1>10 DEF g, S, Step

HeldRecords == [out : Seq(MessageRecords), carrier : Seq(MessageRecords),
                results : Seq(MessageRecords)]

LEMMA FlushedIsSeq ==
    ASSUME NEW held \in HeldRecords PROVE Flushed(held) \in Seq(MessageRecords)
BY DEF HeldRecords, Flushed

LEMMA SanitizingIsHeld ==
    ASSUME NEW held \in HeldRecords, NEW m \in MessageRecords
    PROVE  Sanitizing(held, m) \in HeldRecords
<1>1. Flushed(held) \in Seq(MessageRecords)
  BY FlushedIsSeq
<1>2. <<m>> \in Seq(MessageRecords) /\ <<>> \in Seq(MessageRecords)
  OBVIOUS
<1>3. CASE IsCarrier(m)
  <2>1. Sanitizing(held, m) = [out |-> Flushed(held), carrier |-> <<m>>, results |-> <<>>]
    BY <1>3 DEF Sanitizing, MessageRecords
  <2>. QED
    BY <1>1, <1>2, <2>1 DEF HeldRecords
<1>4. CASE ~IsCarrier(m) /\ m.role = "tool"
  <2>1. Append(held.results, m) \in Seq(MessageRecords)
    BY DEF HeldRecords
  <2>. QED
    BY <1>4, <2>1 DEF Sanitizing, HeldRecords
<1>5. CASE ~IsCarrier(m) /\ m.role # "tool"
  <2>1. Append(Flushed(held), m) \in Seq(MessageRecords)
    BY <1>1
  <2>. QED
    BY <1>2, <1>5, <2>1 DEF Sanitizing, HeldRecords
<1>. QED
  BY <1>3, <1>4, <1>5

\* What is held back.
LEMMA HeldIs ==
    ASSUME NEW s \in Seq(MessageRecords)
    PROVE  /\ HeldUpTo(s) \in [0..Len(s) -> HeldRecords]
           /\ HeldUpTo(s)[0] = [out |-> <<>>, carrier |-> <<>>, results |-> <<>>]
           /\ \A n \in 1..Len(s) : HeldUpTo(s)[n] = Sanitizing(HeldUpTo(s)[n - 1], s[n])
<1>. DEFINE S == HeldRecords
            Step(n, z) == Sanitizing(z, s[n])
            step == [n \in 1..Len(s) |-> [z \in S |-> Step(n, z)]]
            Is(f) == f = [n \in 0..Len(s) |->
                            IF n = 0 THEN [out |-> <<>>, carrier |-> <<>>, results |-> <<>>]
                            ELSE Step(n, f[n - 1])]
            g == HeldUpTo(s)
<1>0. Len(s) \in Nat /\ 0 \in Nat
  OBVIOUS
<1>1. [out |-> <<>>, carrier |-> <<>>, results |-> <<>>] \in S
  BY DEF HeldRecords
<1>2. ASSUME NEW n \in 1..Len(s), NEW z \in S PROVE Step(n, z) \in S
  BY SanitizingIsHeld
<1>. HIDE DEF S, Step
<1>3. /\ step \in Steps(Len(s), S)
      /\ \A n \in 1..Len(s) : \A z \in S : step[n][z] = Step(n, z)
  <2>1. ASSUME NEW n \in 1..Len(s) PROVE [z \in S |-> Step(n, z)] \in [S -> S]
    BY <1>2
  <2>. QED
    BY <2>1 DEF Steps
<1>4. PICK f \in [0..Len(s) -> S] : /\ f[0] = [out |-> <<>>, carrier |-> <<>>, results |-> <<>>]
                                      /\ \A n \in 1..Len(s) : f[n] = step[n][f[n - 1]]
  <2>. HIDE DEF step
  <2>1. \E f \in Courses(Len(s), S) :
           Follows(f, Len(s), [out |-> <<>>, carrier |-> <<>>, results |-> <<>>], step)
    BY <1>0, <1>1, <1>3, RecursionUpTo
  <2>. QED
    BY <2>1 DEF Courses, Follows
<1>5. \A n \in 1..Len(s) : f[n] = Step(n, f[n - 1])
  <2>1. ASSUME NEW n \in 1..Len(s) PROVE f[n - 1] \in S
    OBVIOUS
  <2>. HIDE DEF step
  <2>. QED
    BY <1>3, <1>4, <2>1
<1>6. Is(f)
  BY <1>4, <1>5
<1>7. Is(g)
  <2>1. g = CHOOSE h : Is(h)
    BY DEF HeldUpTo, Step
  <2>. HIDE DEF Is, g
  <2>. QED
    BY <1>6, <2>1
<1>. HIDE DEF g
<1>8. /\ g[0] = [out |-> <<>>, carrier |-> <<>>, results |-> <<>>]
      /\ \A n \in 1..Len(s) : g[n] = Step(n, g[n - 1])
  <2>. HIDE DEF Step
  <2>1. 0 \in 0..Len(s) /\ \A n \in 1..Len(s) : n \in 0..Len(s) /\ n # 0
    BY <1>0
  <2>. QED
    BY <1>7, <2>1
<1>9. \A n \in 0..Len(s) : g[n] \in S
  <2>. DEFINE P == {n \in 0..Len(s) : g[n] \in S}
  <2>1. 0 \in P
    BY <1>1, <1>8
  <2>2. ASSUME NEW n \in 1..Len(s), n - 1 \in P PROVE n \in P
    BY <1>2, <1>8, <2>2
  <2>. HIDE DEF P
  <2>3. 0..Len(s) \subseteq P
    BY <1>0, <2>1, <2>2, UpToLength
  <2>. QED
    BY <2>3 DEF P
<1>10. g \in [0..Len(s) -> S]
  BY <1>7, <1>9
<1>. QED
  BY <1>8, <1>10 DEF g, S, Step

LEMMA GroupingIsGroups ==
    ASSUME NEW groups \in Seq(Seq(MessageRecords)), NEW m \in MessageRecords
    PROVE  Grouping(groups, m) \in Seq(Seq(MessageRecords))
<1>1. Append(groups, <<m>>) \in Seq(Seq(MessageRecords))
  OBVIOUS
<1>2. ASSUME groups # <<>>
      PROVE  [groups EXCEPT ![Len(groups)] = Append(@, m)] \in Seq(Seq(MessageRecords))
  <2>1. Len(groups) \in DOMAIN groups
    BY <1>2
  <2>. QED
    BY <2>1
<1>. QED
  BY <1>1, <1>2 DEF Grouping

\* What the groups are.
LEMMA GroupsIs ==
    ASSUME NEW s \in Seq(MessageRecords)
    PROVE  /\ GroupsUpTo(s) \in [0..Len(s) -> Seq(Seq(MessageRecords))]
           /\ GroupsUpTo(s)[0] = <<>>
           /\ \A n \in 1..Len(s) : GroupsUpTo(s)[n] = Grouping(GroupsUpTo(s)[n - 1], s[n])
<1>. DEFINE S == Seq(Seq(MessageRecords))
            Step(n, z) == Grouping(z, s[n])
            step == [n \in 1..Len(s) |-> [z \in S |-> Step(n, z)]]
            Is(f) == f = [n \in 0..Len(s) |-> IF n = 0 THEN <<>> ELSE Step(n, f[n - 1])]
            g == GroupsUpTo(s)
<1>0. Len(s) \in Nat /\ 0 \in Nat
  OBVIOUS
<1>1. <<>> \in S
  OBVIOUS
<1>2. ASSUME NEW n \in 1..Len(s), NEW z \in S PROVE Step(n, z) \in S
  BY GroupingIsGroups
<1>. HIDE DEF S, Step
<1>3. /\ step \in Steps(Len(s), S)
      /\ \A n \in 1..Len(s) : \A z \in S : step[n][z] = Step(n, z)
  <2>1. ASSUME NEW n \in 1..Len(s) PROVE [z \in S |-> Step(n, z)] \in [S -> S]
    BY <1>2
  <2>. QED
    BY <2>1 DEF Steps
<1>4. PICK f \in [0..Len(s) -> S] : /\ f[0] = <<>>
                                      /\ \A n \in 1..Len(s) : f[n] = step[n][f[n - 1]]
  <2>. HIDE DEF step
  <2>1. \E f \in Courses(Len(s), S) : Follows(f, Len(s), <<>>, step)
    BY <1>0, <1>1, <1>3, RecursionUpTo
  <2>. QED
    BY <2>1 DEF Courses, Follows
<1>5. \A n \in 1..Len(s) : f[n] = Step(n, f[n - 1])
  <2>1. ASSUME NEW n \in 1..Len(s) PROVE f[n - 1] \in S
    OBVIOUS
  <2>. HIDE DEF step
  <2>. QED
    BY <1>3, <1>4, <2>1
<1>6. Is(f)
  BY <1>4, <1>5
<1>7. Is(g)
  <2>1. g = CHOOSE h : Is(h)
    BY DEF GroupsUpTo, Step
  <2>. HIDE DEF Is, g
  <2>. QED
    BY <1>6, <2>1
<1>. HIDE DEF g
<1>8. g[0] = <<>> /\ \A n \in 1..Len(s) : g[n] = Step(n, g[n - 1])
  <2>. HIDE DEF Step
  <2>1. 0 \in 0..Len(s) /\ \A n \in 1..Len(s) : n \in 0..Len(s) /\ n # 0
    BY <1>0
  <2>. QED
    BY <1>7, <2>1
<1>9. \A n \in 0..Len(s) : g[n] \in S
  <2>. DEFINE P == {n \in 0..Len(s) : g[n] \in S}
  <2>1. 0 \in P
    BY <1>1, <1>8
  <2>2. ASSUME NEW n \in 1..Len(s), n - 1 \in P PROVE n \in P
    BY <1>2, <1>8, <2>2
  <2>. HIDE DEF P
  <2>3. 0..Len(s) \subseteq P
    BY <1>0, <2>1, <2>2, UpToLength
  <2>. QED
    BY <2>3 DEF P
<1>10. g \in [0..Len(s) -> S]
  BY <1>7, <1>9
<1>. QED
  BY <1>8, <1>10 DEF g, S, Step

-----------------------------------------------------------------------------
(* Rounds: a carrier and the answers to its calls. A list is clean when every
   result in it belongs to one. *)

\* The carrier at c is followed by the answers to all its calls.
Round(s, c) ==
    /\ c \in DOMAIN s /\ IsCarrier(s[c]) /\ c + Len(s[c].calls) <= Len(s)
    /\ \A j \in 1..Len(s[c].calls) :
          s[c + j].role = "tool" /\ s[c + j].id = s[c].calls[j]
    /\ \A i, j \in 1..Len(s[c].calls) : s[c].calls[i] = s[c].calls[j] => i = j

\* Every result belongs to such a round.
Clean(s) ==
    \A i \in DOMAIN s : s[i].role = "tool" =>
        \E c \in 1..(i - 1) : i <= c + Len(s[c].calls) /\ Round(s, c)

LEMMA MessageFacts ==
    ASSUME NEW m \in MessageRecords
    PROVE  /\ m.calls \in Seq(Ids) /\ Len(m.calls) \in Nat
           /\ IsCarrier(m) => Len(m.calls) >= 1 /\ m.role = "assistant"
           /\ m.size \in Nat
BY DEF MessageRecords, IsCarrier

LEMMA PartOf ==
    ASSUME NEW S, NEW s \in Seq(S), NEW a \in Nat, NEW k \in Nat, a + k <= Len(s)
    PROVE  /\ SubSeq(s, a + 1, a + k) \in Seq(S)
           /\ Len(SubSeq(s, a + 1, a + k)) = k
           /\ \A j \in 1..k : SubSeq(s, a + 1, a + k)[j] = s[a + j]
<1>1. SubSeq(s, a + 1, a + k) = [i \in 1..k |-> s[a + i]]
  <2>1. SubSeq(s, a + 1, a + k) = [i \in 1..((a + k) - (a + 1) + 1) |-> s[(a + 1) + i - 1]]
    OBVIOUS
  <2>2. (a + k) - (a + 1) + 1 = k /\ \A i \in 1..k : (a + 1) + i - 1 = a + i
    OBVIOUS
  <2>. QED
    BY <2>1, <2>2
<1>2. ASSUME NEW i \in 1..k PROVE s[a + i] \in S
  <2>1. a + i \in 1..Len(s)
    OBVIOUS
  <2>. QED
    BY <2>1
<1>3. PICK t : t = [i \in 1..k |-> s[a + i]]
  OBVIOUS
<1>4. /\ t \in Seq(S) /\ Len(t) = k
      /\ \A j \in 1..k : t[j] = s[a + j]
  BY <1>2, <1>3
<1>. QED
  BY <1>1, <1>3, <1>4

LEMMA CleanIsPaired ==
    ASSUME NEW s \in Seq(MessageRecords), Clean(s) PROVE WellPaired(s)
<1>. SUFFICES ASSUME NEW i \in DOMAIN s, s[i].role = "tool"
              PROVE  \E c \in 1..(i - 1) :
                        /\ i <= c + Len(s[c].calls)
                        /\ c + Len(s[c].calls) <= Len(s)
                        /\ IdsOf(SubSeq(s, c + 1, c + Len(s[c].calls))) = s[c].calls
  BY DEF WellPaired
<1>1. PICK c \in 1..(i - 1) : i <= c + Len(s[c].calls) /\ Round(s, c)
  BY DEF Clean
<1>. DEFINE k == Len(s[c].calls)
            answers == SubSeq(s, c + 1, c + k)
<1>2. c \in 1..Len(s) /\ k \in Nat /\ s[c].calls \in Seq(Ids) /\ c + k <= Len(s)
  BY <1>1, MessageFacts DEF Round
<1>3. Len(answers) = k /\ \A j \in 1..k : answers[j] = s[c + j]
  <2>. HIDE DEF k
  <2>. QED
    BY <1>2, PartOf
<1>4. DOMAIN answers = 1..k /\ DOMAIN s[c].calls = 1..k
  <2>1. answers \in Seq(MessageRecords)
    <3>. HIDE DEF k
    <3>. QED
      BY <1>2, PartOf
  <2>2. DOMAIN s[c].calls = 1..Len(s[c].calls)
    BY <1>2
  <2>3. DOMAIN answers = 1..Len(answers)
    BY <2>1
  <2>. QED
    BY <1>3, <2>2, <2>3
<1>5. \A j \in 1..k : answers[j].id = s[c].calls[j]
  BY <1>1, <1>3 DEF Round
<1>6. IdsOf(answers) = [j \in 1..k |-> s[c].calls[j]]
  <2>. HIDE DEF answers, k
  <2>. QED
    BY <1>4, <1>5 DEF IdsOf
<1>7. IdsOf(answers) = s[c].calls
  BY <1>2, <1>4, <1>6
<1>. QED
  BY <1>1, <1>2, <1>7

\* A round stays one behind and before other messages.
LEMMA RoundJoined ==
    ASSUME NEW s \in Seq(MessageRecords), NEW t \in Seq(MessageRecords), NEW c \in Nat
    PROVE  /\ Round(s, c) => Round(s \o t, c) /\ (s \o t)[c] = s[c]
           /\ Round(t, c) => Round(s \o t, Len(s) + c) /\ (s \o t)[Len(s) + c] = t[c]
<1>. DEFINE u == s \o t
<1>1. /\ Len(s) \in Nat /\ Len(t) \in Nat
      /\ Len(u) = Len(s) + Len(t) /\ DOMAIN u = 1..(Len(s) + Len(t))
      /\ DOMAIN s = 1..Len(s) /\ DOMAIN t = 1..Len(t)
      /\ \A i \in 1..Len(s) : u[i] = s[i]
      /\ \A i \in 1..Len(t) : u[Len(s) + i] = t[i]
  OBVIOUS
<1>. HIDE DEF u
<1>2. ASSUME Round(s, c) PROVE Round(u, c) /\ u[c] = s[c]
  <2>. DEFINE k == Len(s[c].calls)
  <2>1. c \in 1..Len(s) /\ k \in Nat /\ c + k <= Len(s) /\ u[c] = s[c]
    BY <1>1, <1>2, MessageFacts DEF Round
  <2>2. \A j \in 1..k : c + j \in 1..Len(s) /\ u[c + j] = s[c + j]
    BY <1>1, <2>1
  <2>. QED
    BY <1>1, <1>2, <2>1, <2>2 DEF Round
<1>3. ASSUME Round(t, c) PROVE Round(u, Len(s) + c) /\ u[Len(s) + c] = t[c]
  <2>. DEFINE k == Len(t[c].calls)
              d == Len(s) + c
  <2>1. c \in 1..Len(t) /\ k \in Nat /\ c + k <= Len(t) /\ u[d] = t[c]
    BY <1>1, <1>3, MessageFacts DEF Round
  <2>2. \A j \in 1..k : c + j \in 1..Len(t) /\ u[d + j] = t[c + j]
    <3>1. ASSUME NEW j \in 1..k PROVE c + j \in 1..Len(t) /\ d + j = Len(s) + (c + j)
      BY <1>1, <2>1
    <3>2. ASSUME NEW j \in 1..k PROVE u[d + j] = t[c + j]
      <4>1. u[Len(s) + (c + j)] = t[c + j]
        BY <1>1, <3>1
      <4>. QED
        BY <3>1, <4>1
    <3>. HIDE DEF d
    <3>. QED
      BY <3>1, <3>2
  <2>3. d \in DOMAIN u /\ d + k <= Len(u)
    <3>1. PICK a, b \in Nat : /\ a = Len(s) /\ b = Len(t)
                              /\ Len(u) = a + b /\ DOMAIN u = 1..(a + b)
      BY <1>1
    <3>2. c \in 1..b /\ k \in Nat /\ c + k <= b /\ d = a + c
      BY <2>1, <3>1
    <3>. HIDE DEF k, d
    <3>3. d \in 1..(a + b) /\ d + k <= a + b
      BY <3>1, <3>2
    <3>. QED
      BY <3>1, <3>3
  <2>4. \A j \in 1..k : u[d + j].role = "tool" /\ u[d + j].id = t[c].calls[j]
    BY <1>3, <2>2 DEF Round
  <2>. QED
    <3>. HIDE DEF d
    <3>. QED
      BY <1>3, <2>1, <2>3, <2>4 DEF Round, d
<1>. QED
  BY <1>2, <1>3 DEF u

LEMMA Shifted ==
    ASSUME NEW a \in Nat, NEW k \in Nat, NEW c \in Nat, NEW j \in Nat,
           1 <= c, c <= j - 1, j <= c + k
    PROVE  a + c \in 1..(a + j - 1) /\ a + j <= a + c + k
OBVIOUS

LEMMA CleanJoined ==
    ASSUME NEW s \in Seq(MessageRecords), NEW t \in Seq(MessageRecords), Clean(s), Clean(t)
    PROVE  Clean(s \o t)
<1>. DEFINE u == s \o t
<1>1. /\ Len(s) \in Nat /\ Len(t) \in Nat
      /\ DOMAIN u = 1..(Len(s) + Len(t))
      /\ DOMAIN s = 1..Len(s) /\ DOMAIN t = 1..Len(t)
      /\ \A i \in 1..Len(s) : u[i] = s[i]
      /\ \A i \in 1..Len(t) : u[Len(s) + i] = t[i]
  OBVIOUS
<1>2. \A c \in Nat : /\ Round(s, c) => Round(u, c) /\ u[c] = s[c]
                     /\ Round(t, c) => Round(u, Len(s) + c) /\ u[Len(s) + c] = t[c]
  BY RoundJoined
<1>. HIDE DEF u
<1>3. ASSUME NEW i \in DOMAIN u, u[i].role = "tool"
      PROVE  \E c \in 1..(i - 1) : i <= c + Len(u[c].calls) /\ Round(u, c)
  <2>1. CASE i <= Len(s)
    <3>1. i \in DOMAIN s /\ s[i].role = "tool"
      BY <1>1, <1>3, <2>1
    <3>2. PICK c \in 1..(i - 1) : i <= c + Len(s[c].calls) /\ Round(s, c)
      BY <3>1 DEF Clean
    <3>3. c \in Nat
      OBVIOUS
    <3>. QED
      BY <1>2, <3>2, <3>3
  <2>2. CASE i > Len(s)
    <3>. DEFINE j == i - Len(s)
    <3>1. j \in 1..Len(t) /\ i = Len(s) + j
      BY <1>1, <2>2
    <3>2. t[j].role = "tool"
      BY <1>1, <1>3, <3>1
    <3>3. PICK c \in 1..(j - 1) : j <= c + Len(t[c].calls) /\ Round(t, c)
      BY <1>1, <3>1, <3>2 DEF Clean
    <3>. DEFINE d == Len(s) + c
    <3>4. c \in Nat /\ c \in 1..Len(t) /\ Len(t[c].calls) \in Nat
      <4>1. c \in 1..Len(t)
        BY <1>1, <3>1, <3>3
      <4>2. t[c] \in MessageRecords
        BY <4>1
      <4>3. Len(t[c].calls) \in Nat
        BY <4>2, MessageFacts
      <4>4. c \in Nat
        OBVIOUS
      <4>. QED
        BY <4>1, <4>3, <4>4
    <3>5. d \in 1..(i - 1) /\ i <= d + Len(t[c].calls)
      <4>1. PICK a, k \in Nat : a = Len(s) /\ k = Len(t[c].calls)
        BY <1>1, <3>4
      <4>2. j \in Nat /\ i = a + j /\ d = a + c /\ j <= c + k
        BY <3>1, <3>3, <4>1
      <4>3. c \in Nat /\ 1 <= c /\ c <= j - 1 /\ i \in Nat /\ d \in Nat
        BY <4>2
      <4>4. a + c \in 1..(a + j - 1) /\ a + j <= a + c + k
        <5>. HIDE DEF j, d
        <5>. QED
          BY <4>1, <4>2, <4>3, Shifted
      <4>. QED
        <5>. HIDE DEF j, d
        <5>1. d \in 1..(i - 1) /\ i <= d + k
          BY <4>2, <4>3, <4>4
        <5>. QED
          BY <4>1, <5>1
    <3>6. Round(u, d) /\ u[d] = t[c]
      BY <1>2, <3>3, <3>4
    <3>. QED
      BY <3>5, <3>6
  <2>. QED
    BY <1>1, <1>3, <2>1, <2>2
<1>. QED
  BY <1>3 DEF Clean, u

\* A message that is no result, alone.
LEMMA CleanAlone ==
    ASSUME NEW m \in MessageRecords, m.role # "tool" PROVE Clean(<<m>>)
BY DEF Clean

\* A carrier and its answers.
LEMMA CleanRound ==
    ASSUME NEW s \in Seq(MessageRecords), Round(s, 1), Len(s) = 1 + Len(s[1].calls)
    PROVE  Clean(s)
<1>1. 1 \in DOMAIN s /\ Len(s[1].calls) \in Nat /\ s[1].role = "assistant"
  BY MessageFacts DEF Round
<1>2. ASSUME NEW i \in DOMAIN s, s[i].role = "tool"
      PROVE  1 \in 1..(i - 1) /\ i <= 1 + Len(s[1].calls)
  BY <1>1, <1>2
<1>. QED
  BY <1>2 DEF Clean

-----------------------------------------------------------------------------
(* _sanitize_tool_message_structure leaves a clean list. *)

HeldWell(held) ==
    /\ held \in HeldRecords /\ Clean(held.out)
    /\ held.carrier = <<>> => held.results = <<>>
    /\ held.carrier # <<>> => Len(held.carrier) = 1 /\ IsCarrier(held.carrier[1])
    /\ \A j \in DOMAIN held.results : held.results[j].role = "tool"
    /\ \A i, j \in DOMAIN held.results : held.results[i].id = held.results[j].id => i = j

LEMMA CompleteIsClean ==
    ASSUME NEW c \in MessageRecords, IsCarrier(c), NEW r \in Seq(MessageRecords),
           \A j \in DOMAIN r : r[j].role = "tool",
           \A i, j \in DOMAIN r : r[i].id = r[j].id => i = j,
           IdsOf(r) = c.calls
    PROVE  Clean(<<c>> \o r)
<1>. DEFINE u == <<c>> \o r
<1>1. /\ u \in Seq(MessageRecords) /\ Len(u) = 1 + Len(r) /\ u[1] = c
      /\ \A j \in 1..Len(r) : u[1 + j] = r[j]
  OBVIOUS
<1>2. Len(c.calls) = Len(r) /\ \A j \in 1..Len(r) : r[j].id = c.calls[j]
  BY MessageFacts DEF IdsOf
<1>. HIDE DEF u
<1>3. Round(u, 1)
  BY <1>1, <1>2 DEF Round
<1>4. Clean(u)
  BY <1>1, <1>2, <1>3, CleanRound
<1>. QED
  BY <1>4 DEF u

LEMMA FlushedIsClean ==
    ASSUME NEW held, HeldWell(held)
    PROVE  Clean(Flushed(held)) /\ Flushed(held) \in Seq(MessageRecords)
<1>1. /\ held.out \in Seq(MessageRecords) /\ held.carrier \in Seq(MessageRecords)
      /\ held.results \in Seq(MessageRecords)
  BY DEF HeldWell, HeldRecords
<1>2. Flushed(held) \in Seq(MessageRecords)
  BY FlushedIsSeq DEF HeldWell
<1>3. CASE held.carrier = <<>>
  BY <1>2, <1>3 DEF Flushed, HeldWell
<1>4. CASE held.carrier # <<>>
  <2>. DEFINE c == held.carrier[1]
  <2>1. c \in MessageRecords /\ IsCarrier(c) /\ held.carrier = <<c>>
    BY <1>1, <1>4 DEF HeldWell
  <2>2. Clean(<<c>>)
    BY <2>1, CleanAlone, MessageFacts
  <2>. HIDE DEF c
  <2>3. CASE held.results = <<>>
    <3>1. Flushed(held) = held.out \o <<c>>
      BY <1>4, <2>1, <2>3 DEF Flushed
    <3>. QED
      BY <1>1, <1>2, <2>1, <2>2, <3>1, CleanJoined DEF HeldWell
  <2>4. CASE held.results # <<>> /\ IdsOf(held.results) = c.calls
    <3>1. Flushed(held) = held.out \o <<c>> \o held.results
      BY <1>4, <2>1, <2>4 DEF Flushed, c
    <3>2. Flushed(held) = held.out \o (<<c>> \o held.results)
      <4>1. PICK a, b, r \in Seq(MessageRecords) :
               a = held.out /\ b = <<c>> /\ r = held.results
        BY <1>1, <2>1
      <4>2. (a \o b) \o r = a \o (b \o r)
        BY ConcatAssociative
      <4>. QED
        BY <3>1, <4>1, <4>2
    <3>3. Clean(<<c>> \o held.results) /\ <<c>> \o held.results \in Seq(MessageRecords)
      BY <1>1, <2>1, <2>4, CompleteIsClean DEF HeldWell
    <3>. QED
      BY <1>1, <1>2, <3>2, <3>3, CleanJoined DEF HeldWell
  <2>5. CASE held.results # <<>> /\ IdsOf(held.results) # c.calls
    BY <1>2, <1>4, <2>5 DEF Flushed, HeldWell, c
  <2>. QED
    BY <2>3, <2>4, <2>5
<1>. QED
  BY <1>3, <1>4

LEMMA SanitizingKeepsWell ==
    ASSUME NEW held, HeldWell(held), NEW m \in MessageRecords
    PROVE  HeldWell(Sanitizing(held, m))
<1>. DEFINE next == Sanitizing(held, m)
<1>1. next \in HeldRecords
  BY SanitizingIsHeld DEF HeldWell
<1>2. Clean(Flushed(held)) /\ Flushed(held) \in Seq(MessageRecords)
  BY FlushedIsClean
<1>. HIDE DEF Flushed
<1>3. CASE IsCarrier(m)
  <2>1. next = [out |-> Flushed(held), carrier |-> <<m>>, results |-> <<>>]
    BY <1>3 DEF Sanitizing, MessageRecords
  <2>. QED
    BY <1>1, <1>2, <1>3, <2>1 DEF HeldWell
<1>4. CASE ~IsCarrier(m) /\ m.role = "tool"
  <2>1. next = IF Awaited(held, m) THEN [held EXCEPT !.results = Append(@, m)] ELSE held
    BY <1>4 DEF Sanitizing
  <2>2. ASSUME Awaited(held, m) PROVE HeldWell(next)
    <3>. DEFINE r == held.results
                r2 == Append(r, m)
    <3>1. r \in Seq(MessageRecords) /\ held.carrier # <<>>
      BY <2>2 DEF HeldWell, HeldRecords, Awaited
    <3>2. \A j \in DOMAIN r : r[j].id # m.id
      BY <2>2 DEF Awaited, ToSet, IdsOf
    <3>3. next.out = held.out /\ next.carrier = held.carrier /\ next.results = r2
      BY <2>1, <2>2 DEF HeldWell, HeldRecords
    <3>4. /\ \A j \in DOMAIN r : r[j].role = "tool"
          /\ \A i, j \in DOMAIN r : r[i].id = r[j].id => i = j
      BY DEF HeldWell
    <3>5. /\ \A j \in DOMAIN r2 : j \in DOMAIN r \/ j = Len(r) + 1
          /\ \A j \in DOMAIN r : r2[j] = r[j]
          /\ r2[Len(r) + 1] = m
      BY <3>1
    <3>. HIDE DEF r, r2
    <3>6. /\ \A j \in DOMAIN r2 : r2[j].role = "tool"
          /\ \A i, j \in DOMAIN r2 : r2[i].id = r2[j].id => i = j
      BY <1>4, <3>2, <3>4, <3>5
    <3>. HIDE DEF next
    <3>. QED
      BY <1>1, <3>1, <3>3, <3>6 DEF HeldWell
  <2>. QED
    BY <2>1, <2>2
<1>5. CASE ~IsCarrier(m) /\ m.role # "tool"
  <2>1. next = [out |-> Append(Flushed(held), m), carrier |-> <<>>, results |-> <<>>]
    BY <1>5 DEF Sanitizing
  <2>2. Append(Flushed(held), m) = Flushed(held) \o <<m>>
    BY <1>2
  <2>3. Clean(<<m>>) /\ <<m>> \in Seq(MessageRecords)
    BY <1>5, CleanAlone
  <2>4. Clean(Flushed(held) \o <<m>>)
    BY <1>2, <2>3, CleanJoined
  <2>. QED
    BY <1>1, <2>1, <2>2, <2>4 DEF HeldWell
<1>. QED
  BY <1>3, <1>4, <1>5

LEMMA HeldStaysWell ==
    ASSUME NEW s \in Seq(MessageRecords), NEW n \in 0..Len(s)
    PROVE  HeldWell(HeldUpTo(s)[n])
<1>. DEFINE P == {k \in 0..Len(s) : HeldWell(HeldUpTo(s)[k])}
<1>1. 0 \in P
  <2>1. HeldWell([out |-> <<>>, carrier |-> <<>>, results |-> <<>>])
    BY DEF HeldWell, HeldRecords, Clean
  <2>. QED
    BY <2>1, HeldIs
<1>2. ASSUME NEW k \in 1..Len(s), k - 1 \in P PROVE k \in P
  BY <1>2, HeldIs, SanitizingKeepsWell
<1>3. 0..Len(s) \subseteq P
  <2>. HIDE DEF P
  <2>1. Len(s) \in Nat
    OBVIOUS
  <2>. QED
    BY <1>1, <1>2, <2>1, UpToLength
<1>. QED
  BY <1>3

LEMMA SanitizedIsClean ==
    ASSUME NEW s \in Seq(MessageRecords)
    PROVE  Sanitized(s) \in Seq(MessageRecords) /\ (HasCarrier(s) => Clean(Sanitized(s)))
BY HeldStaysWell, FlushedIsClean DEF Sanitized

-----------------------------------------------------------------------------
(* What is chosen from a list keeps its order. *)

Covers(p, k, chosen, n) == \A x \in 1..n : x \in chosen => \E i \in 1..k : p[i] = x

\* out is what remains of s at the positions of chosen up to n: p says where
\* each of its messages has been.
Picks(p, out, s, chosen, n) ==
    /\ out \in Seq(MessageRecords)
    /\ \A i \in 1..Len(out) : p[i] \in 1..n /\ p[i] \in chosen /\ out[i] = s[p[i]]
    /\ \A i, j \in 1..Len(out) : i < j => p[i] < p[j]
    /\ Covers(p, Len(out), chosen, n)

LEMMA OnlyPicks ==
    ASSUME NEW s \in Seq(MessageRecords), NEW chosen
    PROVE  \E p : Picks(p, Only(s, chosen), s, chosen, Len(s))
<1>. DEFINE lists == [i \in DOMAIN s |-> <<s[i]>>]
            upTo == JoinedUpTo(lists, chosen)
            P == {n \in 0..Len(s) : \E p : Picks(p, upTo[n], s, chosen, n)}
<1>1. /\ lists \in Seq(Seq(MessageRecords)) /\ Len(lists) = Len(s) /\ Len(s) \in Nat
      /\ \A n \in 1..Len(s) : lists[n] = <<s[n]>> /\ s[n] \in MessageRecords
  <2>1. DOMAIN s = 1..Len(s) /\ Len(s) \in Nat
        /\ \A n \in 1..Len(s) : s[n] \in MessageRecords
    OBVIOUS
  <2>2. \A n \in 1..Len(s) : <<s[n]>> \in Seq(MessageRecords)
    BY <2>1
  <2>3. lists \in [1..Len(s) -> Seq(MessageRecords)]
    BY <2>1, <2>2
  <2>4. lists \in Seq(Seq(MessageRecords)) /\ Len(lists) = Len(s)
    <3>. HIDE DEF lists
    <3>. QED
      BY <2>1, <2>3
  <2>. QED
    BY <2>1, <2>4
<1>2. /\ upTo[0] = <<>>
      /\ \A n \in 0..Len(s) : upTo[n] \in Seq(MessageRecords)
      /\ \A n \in 1..Len(s) :
            upTo[n] = IF n \in chosen THEN upTo[n - 1] \o <<s[n]>> ELSE upTo[n - 1]
  <2>. HIDE DEF lists
  <2>1. /\ upTo \in [0..Len(lists) -> Seq(MessageRecords)]
        /\ upTo[0] = <<>>
        /\ \A n \in 1..Len(lists) :
              upTo[n] = IF n \in chosen THEN upTo[n - 1] \o lists[n] ELSE upTo[n - 1]
    BY <1>1, JoinedIs
  <2>. HIDE DEF upTo
  <2>. QED
    BY <1>1, <2>1
<1>. HIDE DEF lists, upTo
<1>3. 0 \in P
  <2>1. Picks(<<>>, <<>>, s, chosen, 0)
    BY DEF Picks, Covers
  <2>. QED
    BY <1>1, <1>2, <2>1
<1>4. ASSUME NEW n \in 1..Len(s), n - 1 \in P PROVE n \in P
  <2>1. PICK p : Picks(p, upTo[n - 1], s, chosen, n - 1)
    BY <1>4
  <2>2. PICK out : out = upTo[n - 1]
    OBVIOUS
  <2>3. CASE n \notin chosen
    <3>1. \A x \in 1..n : x \in chosen => x \in 1..(n - 1)
      BY <2>3
    <3>2. Picks(p, out, s, chosen, n)
      <4>1. Picks(p, out, s, chosen, n - 1)
        BY <2>1, <2>2
      <4>2. 1..(n - 1) \subseteq 1..n
        OBVIOUS
      <4>3. Covers(p, Len(out), chosen, n)
        BY <3>1, <4>1 DEF Picks, Covers
      <4>4. \A i \in 1..Len(out) : p[i] \in 1..n
        BY <4>1, <4>2 DEF Picks
      <4>. QED
        BY <4>1, <4>3, <4>4 DEF Picks
    <3>3. upTo[n] = out /\ n \in 0..Len(s)
      <4>1. upTo[n] = upTo[n - 1]
        BY <1>2, <2>3
      <4>. QED
        BY <1>1, <2>2, <4>1
    <3>. QED
      BY <3>2, <3>3
  <2>4. CASE n \in chosen
    <3>. DEFINE out2 == out \o <<s[n]>>
                q == [i \in 1..(Len(out) + 1) |-> IF i = Len(out) + 1 THEN n ELSE p[i]]
    <3>1. /\ out \in Seq(MessageRecords) /\ Len(out) \in Nat
          /\ out2 \in Seq(MessageRecords) /\ Len(out2) = Len(out) + 1
          /\ out2[Len(out) + 1] = s[n]
          /\ \A i \in 1..Len(out) : out2[i] = out[i]
      BY <1>1, <2>1, <2>2 DEF Picks
    <3>2. /\ q[Len(out) + 1] = n
          /\ \A i \in 1..Len(out) : q[i] = p[i]
      BY <3>1
    <3>3. \A i \in 1..Len(out) : p[i] \in 1..(n - 1) /\ p[i] \in chosen /\ out[i] = s[p[i]]
      BY <2>1, <2>2 DEF Picks
    <3>. HIDE DEF out2, q
    <3>4. ASSUME NEW i \in 1..Len(out2)
          PROVE  q[i] \in 1..n /\ q[i] \in chosen /\ out2[i] = s[q[i]]
      <4>1. CASE i = Len(out) + 1
        BY <2>4, <3>1, <3>2, <4>1
      <4>2. CASE i \in 1..Len(out)
        BY <3>1, <3>2, <3>3, <4>2
      <4>. QED
        BY <3>1, <4>1, <4>2
    <3>5. ASSUME NEW i \in 1..Len(out2), NEW j \in 1..Len(out2), i < j PROVE q[i] < q[j]
      <4>1. i \in 1..Len(out) /\ (j \in 1..Len(out) \/ j = Len(out) + 1)
        BY <3>1, <3>5
      <4>2. \A a, b \in 1..Len(out) : a < b => p[a] < p[b]
        BY <2>1, <2>2 DEF Picks
      <4>. QED
        BY <3>2, <3>3, <3>5, <4>1, <4>2
    <3>6. ASSUME NEW x \in 1..n, x \in chosen PROVE \E i \in 1..Len(out2) : q[i] = x
      <4>1. CASE x = n
        BY <3>1, <3>2, <4>1
      <4>2. CASE x # n
        <5>1. PICK i \in 1..Len(out) : p[i] = x
          BY <2>1, <2>2, <3>6, <4>2 DEF Picks, Covers
        <5>. QED
          BY <3>1, <3>2, <5>1
      <4>. QED
        BY <4>1, <4>2
    <3>7. Picks(q, out2, s, chosen, n)
      <4>1. Covers(q, Len(out2), chosen, n)
        BY <3>6 DEF Covers
      <4>. QED
        BY <3>1, <3>4, <3>5, <4>1 DEF Picks
    <3>. QED
      BY <1>2, <2>2, <2>4, <3>7 DEF out2
  <2>. QED
    BY <2>3, <2>4
<1>5. 0..Len(s) \subseteq P
  <2>. HIDE DEF P
  <2>. QED
    BY <1>1, <1>3, <1>4, UpToLength
<1>6. Only(s, chosen) = upTo[Len(s)]
  BY <1>1 DEF Only, AllOf, upTo, lists
<1>. QED
  BY <1>1, <1>5, <1>6

-----------------------------------------------------------------------------
(* Neither the system's messages nor the others split a round. *)

AllIn(chosen, a, k) == \A x \in a..(a + k) : x \in chosen

RunKept(p, out, s, a, k, d) ==
    /\ d + k <= Len(out)
    /\ \A j \in 0..k : p[d + j] = a + j /\ out[d + j] = s[a + j]
    /\ a + k = Len(s) => d + k = Len(out)

\* A run of chosen messages stays one.
LEMMA PicksRun ==
    ASSUME NEW s \in Seq(MessageRecords), NEW chosen, NEW p, NEW out,
           Picks(p, out, s, chosen, Len(s)),
           NEW a \in Nat, NEW k \in Nat, 1 <= a, a + k <= Len(s),
           AllIn(chosen, a, k), NEW d \in 1..Len(out), p[d] = a
    PROVE  RunKept(p, out, s, a, k, d)
<1>. DEFINE P == {j \in 0..k : d + j <= Len(out) /\ p[d + j] = a + j}
<1>1. /\ out \in Seq(MessageRecords) /\ Len(out) \in Nat /\ Len(s) \in Nat
      /\ \A i \in 1..Len(out) : p[i] \in 1..Len(s) /\ out[i] = s[p[i]]
  BY DEF Picks
<1>2. \A i, j \in 1..Len(out) : i < j => p[i] < p[j]
  BY DEF Picks
<1>3. \A x \in 1..Len(s) : x \in chosen => \E i \in 1..Len(out) : p[i] = x
  BY DEF Picks, Covers
<1>4. 0 \in P
  BY <1>1
<1>5. ASSUME NEW j \in 1..k, j - 1 \in P PROVE j \in P
  <2>1. d + j - 1 \in 1..Len(out) /\ p[d + j - 1] = a + j - 1
    BY <1>1, <1>5
  <2>2. a + j \in chosen /\ a + j \in 1..Len(s)
    BY <1>1 DEF AllIn
  <2>3. PICK i \in 1..Len(out) : p[i] = a + j
    BY <1>3, <2>2
  <2>4. i > d + j - 1
    <3>1. SUFFICES ASSUME i <= d + j - 1 PROVE FALSE
      BY <1>1, <2>1
    <3>2. i = d + j - 1 \/ i < d + j - 1
      BY <1>1, <2>1, <3>1
    <3>. QED
      BY <1>2, <2>1, <2>3, <3>2
  <2>5. d + j \in 1..Len(out)
    BY <1>1, <2>1, <2>4
  <2>6. p[d + j - 1] < p[d + j] /\ p[d + j] \in Nat
    BY <1>1, <1>2, <2>1, <2>5
  <2>7. i = d + j
    <3>1. SUFFICES ASSUME d + j < i PROVE FALSE
      BY <1>1, <2>4, <2>5
    <3>2. p[d + j] < p[i]
      BY <1>2, <2>5, <3>1
    <3>. QED
      BY <2>1, <2>3, <2>6, <3>2
  <2>. QED
    BY <2>3, <2>5, <2>7
<1>6. 0..k \subseteq P
  <2>. HIDE DEF P
  <2>. QED
    BY <1>4, <1>5, UpToLength
<1>7. \A j \in 0..k : d + j \in 1..Len(out) /\ p[d + j] = a + j
  BY <1>1, <1>6
<1>8. \A j \in 0..k : out[d + j] = s[a + j]
  BY <1>1, <1>7
<1>9. ASSUME a + k = Len(s) PROVE d + k = Len(out)
  <2>1. d + k \in 1..Len(out) /\ p[d + k] = Len(s)
    BY <1>7, <1>9
  <2>2. SUFFICES ASSUME d + k < Len(out) PROVE FALSE
    BY <1>1, <2>1
  <2>3. Len(out) \in 1..Len(out)
    BY <1>1, <2>1
  <2>4. p[d + k] < p[Len(out)] /\ p[Len(out)] \in 1..Len(s)
    BY <1>1, <1>2, <2>1, <2>2, <2>3
  <2>. QED
    BY <1>1, <2>1, <2>4
<1>10. d + k <= Len(out)
  <2>1. d + k \in 1..Len(out)
    BY <1>7
  <2>. QED
    BY <1>1, <2>1
<1>. QED
  BY <1>7, <1>8, <1>9, <1>10 DEF RunKept

\* The positions of a round are those of messages that are not the system's.
LEMMA RoundIsOthers ==
    ASSUME NEW s \in Seq(MessageRecords), NEW c \in Nat, Round(s, c)
    PROVE  /\ c \in 1..Len(s) /\ Len(s[c].calls) \in Nat /\ c + Len(s[c].calls) <= Len(s)
           /\ \A x \in c..(c + Len(s[c].calls)) :
                 x \in 1..Len(s) /\ ~IsSystem(s[x]) /\ (x # c => s[x].role = "tool")
<1>1. c \in 1..Len(s) /\ c + Len(s[c].calls) <= Len(s) /\ s[c] \in MessageRecords
  BY DEF Round
<1>2. Len(s[c].calls) \in Nat /\ s[c].role = "assistant"
  BY <1>1, MessageFacts DEF Round
<1>3. PICK k \in Nat : k = Len(s[c].calls)
  BY <1>2
<1>4. \A j \in 1..k : s[c + j].role = "tool"
  BY <1>3 DEF Round
<1>5. ASSUME NEW x \in c..(c + k), x # c PROVE x \in 1..Len(s) /\ s[x].role = "tool"
  <2>1. x - c \in 1..k /\ c + (x - c) = x
    BY <1>5
  <2>2. x \in 1..Len(s)
    BY <1>1, <1>3
  <2>. QED
    BY <1>4, <2>1, <2>2
<1>. QED
  BY <1>1, <1>2, <1>3, <1>5 DEF IsSystem

LEMMA OthersIsClean ==
    ASSUME NEW s \in Seq(MessageRecords)
    PROVE  Others(s) \in Seq(MessageRecords) /\ (Clean(s) => Clean(Others(s)))
<1>. DEFINE chosen == {i \in DOMAIN s : ~IsSystem(s[i])}
<1>1. PICK p : Picks(p, Others(s), s, chosen, Len(s))
  BY OnlyPicks DEF Others
<1>2. PICK out : out = Others(s)
  OBVIOUS
<1>3. /\ out \in Seq(MessageRecords) /\ Len(out) \in Nat /\ Len(s) \in Nat
      /\ \A i \in 1..Len(out) : p[i] \in 1..Len(s) /\ out[i] = s[p[i]]
  BY <1>1, <1>2 DEF Picks
<1>4. \A i, j \in 1..Len(out) : i < j => p[i] < p[j]
  BY <1>1, <1>2 DEF Picks
<1>5. \A x \in 1..Len(s) : x \in chosen => \E i \in 1..Len(out) : p[i] = x
  BY <1>1, <1>2 DEF Picks, Covers
<1>6. ASSUME Clean(s), NEW i \in 1..Len(out), out[i].role = "tool"
      PROVE  \E c \in 1..(i - 1) : i <= c + Len(out[c].calls) /\ Round(out, c)
  <2>. DEFINE x == p[i]
  <2>1. x \in 1..Len(s) /\ s[x].role = "tool"
    BY <1>3, <1>6
  <2>2. PICK c \in 1..(x - 1) : x <= c + Len(s[c].calls) /\ Round(s, c)
    BY <1>6, <2>1 DEF Clean
  <2>3. PICK k \in Nat : k = Len(s[c].calls)
    BY <2>2, RoundIsOthers
  <2>4. /\ c \in 1..Len(s) /\ c \in Nat /\ 1 <= c /\ c + k <= Len(s)
        /\ \A y \in c..(c + k) : y \in chosen
    BY <2>2, <2>3, RoundIsOthers
  <2>5. PICK d \in 1..Len(out) : p[d] = c
    BY <1>5, <2>3, <2>4
  <2>. HIDE DEF chosen
  <2>6. /\ d + k <= Len(out)
        /\ \A j \in 0..k : p[d + j] = c + j /\ out[d + j] = s[c + j]
    <3>1. Picks(p, out, s, chosen, Len(s))
      BY <1>1, <1>2
    <3>. QED
      <4>1. AllIn(chosen, c, k) /\ c \in Nat /\ k \in Nat /\ 1 <= c /\ c + k <= Len(s)
        BY <2>4 DEF AllIn
      <4>2. RunKept(p, out, s, c, k, d)
        BY <2>5, <3>1, <4>1, PicksRun
      <4>. QED
        BY <4>2 DEF RunKept
  <2>7. out[d] = s[c]
    BY <1>3, <2>5
  <2>8. Round(out, d)
    <3>1. \A j \in 1..k : out[d + j] = s[c + j]
      BY <2>6
    <3>2. /\ d \in DOMAIN out /\ IsCarrier(out[d]) /\ out[d].calls = s[c].calls
          /\ d + k <= Len(out)
      BY <1>3, <2>2, <2>5, <2>6, <2>7 DEF Round
    <3>3. /\ \A j \in 1..k : s[c + j].role = "tool" /\ s[c + j].id = s[c].calls[j]
          /\ \A a, b \in 1..k : s[c].calls[a] = s[c].calls[b] => a = b
      BY <2>2, <2>3 DEF Round
    <3>. QED
      BY <2>3, <3>1, <3>2, <3>3 DEF Round
  <2>9. d < i
    <3>1. SUFFICES ASSUME i <= d PROVE FALSE
      BY <1>3
    <3>2. p[i] <= p[d]
      BY <1>3, <1>4, <2>5, <3>1
    <3>. QED
      BY <2>1, <2>5, <3>2
  <2>10. i <= d + k
    <3>1. SUFFICES ASSUME d + k < i PROVE FALSE
      BY <1>3
    <3>2. d + k \in 1..Len(out) /\ p[d + k] = c + k
      BY <1>3, <2>6
    <3>3. c + k < p[i]
      BY <1>4, <3>1, <3>2
    <3>. QED
      BY <2>1, <2>2, <2>3, <2>4, <3>3
  <2>. QED
    BY <1>3, <2>3, <2>7, <2>8, <2>9, <2>10
<1>7. DOMAIN out = 1..Len(out)
  BY <1>3
<1>8. Clean(s) => Clean(out)
  BY <1>6, <1>7 DEF Clean
<1>. QED
  BY <1>2, <1>3, <1>8

LEMMA SystemsIsClean ==
    ASSUME NEW s \in Seq(MessageRecords)
    PROVE  Systems(s) \in Seq(MessageRecords) /\ Clean(Systems(s))
<1>. DEFINE chosen == {i \in DOMAIN s : IsSystem(s[i])}
<1>1. PICK p : Picks(p, Systems(s), s, chosen, Len(s))
  BY OnlyPicks DEF Systems
<1>2. \A i \in 1..Len(Systems(s)) : p[i] \in chosen /\ Systems(s)[i] = s[p[i]]
  BY <1>1 DEF Picks
<1>3. \A i \in 1..Len(Systems(s)) : Systems(s)[i].role = "system"
  BY <1>2 DEF IsSystem
<1>4. Systems(s) \in Seq(MessageRecords)
  BY <1>1 DEF Picks
<1>. QED
  BY <1>3, <1>4 DEF Clean

-----------------------------------------------------------------------------
(* Lists that end in a round, and what is chosen from them. *)

\* s ends in L, behind its first d messages.
EndsBehind(d, s, L) == Len(s) = d + Len(L) /\ \A j \in 1..Len(L) : s[d + j] = L[j]

EndsIn(s, L) == \E d \in Nat : EndsBehind(d, s, L)

\* L is one round.
OneRound(L) == L \in Seq(MessageRecords) /\ Round(L, 1) /\ Len(L) = 1 + Len(L[1].calls)

LEMMA EndsJoined ==
    ASSUME NEW s \in Seq(MessageRecords), NEW t \in Seq(MessageRecords),
           NEW L \in Seq(MessageRecords), EndsIn(t, L)
    PROVE  EndsIn(s \o t, L)
<1>1. PICK d \in Nat : EndsBehind(d, t, L)
  BY DEF EndsIn
<1>. DEFINE u == s \o t
            e == Len(s) + d
<1>2. /\ Len(s) \in Nat /\ Len(t) \in Nat /\ Len(L) \in Nat /\ Len(u) = Len(s) + Len(t)
      /\ \A i \in 1..Len(t) : u[Len(s) + i] = t[i]
  OBVIOUS
<1>. HIDE DEF u
<1>3. Len(t) = d + Len(L) /\ \A j \in 1..Len(L) : t[d + j] = L[j]
  BY <1>1 DEF EndsBehind
<1>4. e \in Nat /\ Len(u) = e + Len(L)
  BY <1>2, <1>3
<1>5. ASSUME NEW j \in 1..Len(L) PROVE u[e + j] = L[j]
  <2>1. d + j \in 1..Len(t) /\ e + j = Len(s) + (d + j)
    BY <1>2, <1>3
  <2>2. u[Len(s) + (d + j)] = t[d + j]
    BY <1>2, <2>1
  <2>. QED
    BY <1>3, <2>1, <2>2
<1>6. EndsBehind(e, u, L)
  <2>. HIDE DEF e
  <2>. QED
    BY <1>4, <1>5 DEF EndsBehind
<1>. QED
  BY <1>4, <1>6 DEF EndsIn, u

LEMMA EndIsRound ==
    ASSUME NEW s \in Seq(MessageRecords), NEW L \in Seq(MessageRecords), OneRound(L),
           NEW d \in Nat, EndsBehind(d, s, L)
    PROVE  /\ Round(s, d + 1) /\ s[d + 1] = L[1]
           /\ d + 1 + Len(L[1].calls) = Len(s) /\ Len(L[1].calls) \in Nat
<1>1. /\ L \in Seq(MessageRecords) /\ 1 \in DOMAIN L /\ Len(L) = 1 + Len(L[1].calls)
      /\ L[1] \in MessageRecords /\ IsCarrier(L[1])
  BY DEF OneRound, Round
<1>2. PICK k \in Nat : k = Len(L[1].calls)
  BY <1>1, MessageFacts
<1>3. Len(s) = d + 1 + k /\ s[d + 1] = L[1]
  <2>1. 1 \in 1..Len(L)
    BY <1>1, <1>2
  <2>2. Len(s) = d + Len(L) /\ s[d + 1] = L[1]
    BY <2>1 DEF EndsBehind
  <2>3. Len(L) = 1 + k
    BY <1>1, <1>2
  <2>4. Len(s) = d + (1 + k)
    BY <2>2, <2>3
  <2>5. Len(s) = d + 1 + k
    BY <2>4
  <2>. QED
    BY <2>2, <2>5
<1>4. ASSUME NEW j \in 1..k PROVE s[(d + 1) + j] = L[1 + j]
  <2>1. 1 + j \in 1..Len(L) /\ d + (1 + j) = (d + 1) + j
    BY <1>1, <1>2
  <2>2. s[d + (1 + j)] = L[1 + j]
    BY <2>1 DEF EndsBehind
  <2>. QED
    BY <2>1, <2>2
<1>5. /\ \A j \in 1..k : L[1 + j].role = "tool" /\ L[1 + j].id = L[1].calls[j]
      /\ \A a, b \in 1..k : L[1].calls[a] = L[1].calls[b] => a = b
  BY <1>2 DEF OneRound, Round
<1>6. d + 1 \in DOMAIN s
  <2>1. Len(s) = d + 1 + k
    BY <1>3
  <2>2. DOMAIN s = 1..Len(s) /\ Len(s) \in Nat
    OBVIOUS
  <2>3. d + 1 \in 1..(d + 1 + k)
    OBVIOUS
  <2>. QED
    BY <2>1, <2>2, <2>3
<1>7. Round(s, d + 1)
  <2>1. PICK c : c = d + 1
    OBVIOUS
  <2>2. /\ c \in DOMAIN s /\ s[c] = L[1] /\ c + k <= Len(s)
        /\ \A j \in 1..k : s[c + j] = L[1 + j]
    <3>1. c \in DOMAIN s /\ s[c] = L[1]
      BY <1>3, <1>6, <2>1
    <3>2. c + k <= Len(s)
      <4>1. Len(s) = c + k
        BY <1>3, <2>1
      <4>2. c \in Nat /\ c + k \in Nat
        BY <2>1
      <4>. QED
        BY <4>1, <4>2
    <3>. QED
      BY <1>4, <2>1, <3>1, <3>2
  <2>3. Round(s, c)
    BY <1>1, <1>2, <1>5, <2>2 DEF Round
  <2>. QED
    BY <2>1, <2>3
<1>. QED
  BY <1>2, <1>3, <1>7

LEMMA OthersEnd ==
    ASSUME NEW s \in Seq(MessageRecords), NEW L \in Seq(MessageRecords), OneRound(L), EndsIn(s, L)
    PROVE  EndsIn(Others(s), L)
<1>. DEFINE chosen == {i \in DOMAIN s : ~IsSystem(s[i])}
<1>1. PICK p : Picks(p, Others(s), s, chosen, Len(s))
  BY OnlyPicks DEF Others
<1>2. PICK out : out = Others(s)
  OBVIOUS
<1>3. PICK b \in Nat : EndsBehind(b, s, L)
  BY DEF EndsIn
<1>4. PICK c \in Nat, k \in Nat :
         /\ c = b + 1 /\ k = Len(L[1].calls) /\ Round(s, c) /\ s[c] = L[1]
         /\ c + k = Len(s) /\ Len(L) = 1 + k
  <2>1. /\ Round(s, b + 1) /\ s[b + 1] = L[1]
        /\ b + 1 + Len(L[1].calls) = Len(s) /\ Len(L[1].calls) \in Nat
    BY <1>3, EndIsRound
  <2>2. Len(L) = 1 + Len(L[1].calls)
    BY DEF OneRound
  <2>3. PICK k \in Nat : k = Len(L[1].calls)
    BY <2>1
  <2>4. b + 1 + k = Len(s) /\ Len(L) = 1 + k
    BY <2>1, <2>2, <2>3
  <2>5. PICK c \in Nat : c = b + 1
    OBVIOUS
  <2>. QED
    BY <2>1, <2>3, <2>4, <2>5
<1>5. 1 <= c /\ c \in 1..Len(s) /\ AllIn(chosen, c, k) /\ c \in chosen
  <2>1. /\ c \in 1..Len(s)
        /\ \A x \in c..(c + k) : x \in 1..Len(s) /\ ~IsSystem(s[x])
    BY <1>4, RoundIsOthers
  <2>2. AllIn(chosen, c, k)
    <3>1. ASSUME NEW x \in c..(c + k) PROVE x \in chosen
      BY <2>1
    <3>. HIDE DEF chosen
    <3>. QED
      BY <3>1 DEF AllIn
  <2>3. c \in c..(c + k)
    OBVIOUS
  <2>. QED
    BY <2>1, <2>2, <2>3
<1>6. PICK d \in 1..Len(out) : p[d] = c
  <2>. HIDE DEF chosen
  <2>. QED
    BY <1>1, <1>2, <1>5 DEF Picks, Covers
<1>7. RunKept(p, out, s, c, k, d)
  <2>1. Picks(p, out, s, chosen, Len(s)) /\ c + k <= Len(s)
    <3>1. Picks(p, out, s, chosen, Len(s))
      BY <1>1, <1>2
    <3>2. c + k = Len(s)
      BY <1>4
    <3>3. c + k <= Len(s)
      <4>1. c + k <= c + k
        OBVIOUS
      <4>. QED
        BY <3>2, <4>1
    <3>. QED
      BY <3>1, <3>3
  <2>. HIDE DEF chosen
  <2>. QED
    BY <1>5, <1>6, <2>1, PicksRun
<1>8. out \in Seq(MessageRecords) /\ Len(out) \in Nat /\ d \in Nat /\ 1 <= d
  BY <1>1, <1>2 DEF Picks
<1>9. Len(out) = (d - 1) + Len(L) /\ d - 1 \in Nat
  <2>1. d + k = Len(out)
    BY <1>4, <1>7 DEF RunKept
  <2>2. d \in Nat /\ d - 1 \in Nat /\ d + k = (d - 1) + (1 + k)
    BY <1>8
  <2>3. Len(L) = 1 + k
    BY <1>4
  <2>. QED
    BY <2>1, <2>2, <2>3
<1>10. ASSUME NEW j \in 1..Len(L) PROVE out[(d - 1) + j] = L[j]
  <2>1. j - 1 \in 0..k /\ d + (j - 1) = (d - 1) + j /\ c + (j - 1) = b + j
    BY <1>4, <1>8
  <2>2. out[d + (j - 1)] = s[c + (j - 1)]
    BY <1>7, <2>1 DEF RunKept
  <2>3. s[b + j] = L[j]
    BY <1>3 DEF EndsBehind
  <2>. QED
    BY <2>1, <2>2, <2>3
<1>11. EndsBehind(d - 1, out, L)
  BY <1>9, <1>10 DEF EndsBehind
<1>. QED
  BY <1>2, <1>9, <1>11 DEF EndsIn

LEMMA AllOfIsClean ==
    ASSUME NEW lists \in Seq(Seq(MessageRecords)), NEW chosen,
           \A i \in 1..Len(lists) : Clean(lists[i])
    PROVE  AllOf(lists, chosen) \in Seq(MessageRecords) /\ Clean(AllOf(lists, chosen))
<1>. DEFINE upTo == JoinedUpTo(lists, chosen)
            P == {n \in 0..Len(lists) : Clean(upTo[n])}
<1>0. Len(lists) \in Nat /\ \A n \in 1..Len(lists) : lists[n] \in Seq(MessageRecords)
  OBVIOUS
<1>1. /\ upTo \in [0..Len(lists) -> Seq(MessageRecords)] /\ upTo[0] = <<>>
      /\ \A n \in 1..Len(lists) :
            upTo[n] = IF n \in chosen THEN upTo[n - 1] \o lists[n] ELSE upTo[n - 1]
  BY JoinedIs
<1>. HIDE DEF upTo
<1>2. 0 \in P
  BY <1>0, <1>1 DEF Clean
<1>3. ASSUME NEW n \in 1..Len(lists), n - 1 \in P PROVE n \in P
  <2>1. upTo[n - 1] \in Seq(MessageRecords) /\ Clean(upTo[n - 1])
    BY <1>0, <1>1, <1>3
  <2>2. Clean(upTo[n - 1] \o lists[n])
    BY <1>0, <2>1, CleanJoined
  <2>3. CASE n \in chosen
    BY <1>0, <1>1, <2>2, <2>3
  <2>4. CASE n \notin chosen
    BY <1>0, <1>1, <2>1, <2>4
  <2>. QED
    BY <2>3, <2>4
<1>4. 0..Len(lists) \subseteq P
  <2>. HIDE DEF P
  <2>. QED
    BY <1>0, <1>2, <1>3, UpToLength
<1>. QED
  BY <1>0, <1>1, <1>4 DEF AllOf, upTo

LEMMA AllOfEnd ==
    ASSUME NEW lists \in Seq(Seq(MessageRecords)), NEW chosen, lists # <<>>,
           Len(lists) \in chosen,
           NEW L \in Seq(MessageRecords), EndsIn(lists[Len(lists)], L)
    PROVE  EndsIn(AllOf(lists, chosen), L)
<1>. DEFINE upTo == JoinedUpTo(lists, chosen)
            n == Len(lists)
<1>1. n \in 1..Len(lists) /\ n - 1 \in 0..Len(lists) /\ lists[n] \in Seq(MessageRecords)
  OBVIOUS
<1>2. /\ upTo \in [0..Len(lists) -> Seq(MessageRecords)]
      /\ \A i \in 1..Len(lists) :
            upTo[i] = IF i \in chosen THEN upTo[i - 1] \o lists[i] ELSE upTo[i - 1]
  BY JoinedIs
<1>. HIDE DEF upTo
<1>3. upTo[n] = upTo[n - 1] \o lists[n] /\ upTo[n - 1] \in Seq(MessageRecords)
  BY <1>1, <1>2
<1>. QED
  BY <1>1, <1>3, EndsJoined DEF AllOf, upTo

-----------------------------------------------------------------------------
(* _sanitize_tool_message_structure keeps the round a list ends in. *)

\* What is held back once a round has been read up to its answer j.
HeldAt(held, out, carrier, j, answers) ==
    /\ held.out = out /\ held.carrier = <<carrier>>
    /\ held.results \in Seq(MessageRecords) /\ Len(held.results) = j
    /\ \A i \in 1..j : held.results[i] = answers[i]

\* The answers are those to the calls of the carrier, which are k.
AnswersOf(answers, carrier, k) ==
    /\ k = Len(carrier.calls)
    /\ \A i \in 1..k : answers[i].id = carrier.calls[i]
    /\ \A a, b \in 1..k : carrier.calls[a] = carrier.calls[b] => a = b

LEMMA AnswerIsHeld ==
    ASSUME NEW held \in HeldRecords, NEW out, NEW carrier \in MessageRecords,
           NEW k \in Nat, NEW answers, AnswersOf(answers, carrier, k),
           NEW j \in 1..k, HeldAt(held, out, carrier, j - 1, answers),
           NEW m \in MessageRecords, m.role = "tool", m = answers[j]
    PROVE  HeldAt(Sanitizing(held, m), out, carrier, j, answers)
<1>. USE DEF AnswersOf
<1>1. ~IsCarrier(m) /\ carrier.calls \in Seq(Ids)
  BY MessageFacts
<1>. DEFINE r == held.results
<1>2. /\ r \in Seq(MessageRecords) /\ Len(r) = j - 1
      /\ \A i \in 1..(j - 1) : r[i].id = carrier.calls[i]
  BY DEF HeldAt
<1>3. Awaited(held, m)
  <2>1. m.id = carrier.calls[j] /\ j \in DOMAIN carrier.calls
    BY <1>1
  <2>2. m.id \in ToSet(carrier.calls)
    BY <2>1 DEF ToSet
  <2>3. ASSUME NEW i \in DOMAIN r PROVE r[i].id # m.id
    <3>1. i \in 1..(j - 1) /\ i \in 1..k /\ i # j
      BY <1>2
    <3>. QED
      BY <1>2, <2>1, <3>1
  <2>4. m.id \notin ToSet(IdsOf(r))
    BY <2>3 DEF ToSet, IdsOf
  <2>5. held.carrier # <<>> /\ held.carrier[1] = carrier
    BY DEF HeldAt
  <2>. QED
    BY <2>2, <2>4, <2>5 DEF Awaited
<1>4. Sanitizing(held, m) = [held EXCEPT !.results = Append(@, m)]
  BY <1>1, <1>3 DEF Sanitizing
<1>5. /\ Append(r, m) \in Seq(MessageRecords) /\ Len(Append(r, m)) = j
      /\ Append(r, m)[j] = m /\ \A i \in 1..(j - 1) : Append(r, m)[i] = r[i]
  BY <1>2
<1>6. \A i \in 1..j : Append(r, m)[i] = answers[i]
  <2>1. ASSUME NEW i \in 1..j, i # j PROVE Append(r, m)[i] = answers[i]
    <3>1. i \in 1..(j - 1)
      BY <2>1
    <3>. QED
      BY <1>5, <3>1 DEF HeldAt
  <2>. QED
    BY <1>5, <2>1
<1>7. /\ Sanitizing(held, m).out = out /\ Sanitizing(held, m).carrier = <<carrier>>
      /\ Sanitizing(held, m).results = Append(r, m)
  BY <1>4 DEF HeldRecords, HeldAt
<1>. QED
  BY <1>5, <1>6, <1>7 DEF HeldAt

LEMMA SanitizedEnd ==
    ASSUME NEW s \in Seq(MessageRecords), NEW L \in Seq(MessageRecords),
           OneRound(L), EndsIn(s, L)
    PROVE  HasCarrier(s) /\ EndsIn(Sanitized(s), L)
<1>1. PICK b \in Nat : EndsBehind(b, s, L)
  BY DEF EndsIn
<1>2. PICK k \in Nat : k = Len(L[1].calls)
  BY <1>1, EndIsRound
<1>3. PICK c \in Nat : c = b + 1
  OBVIOUS
<1>4. Round(s, c) /\ s[c] = L[1] /\ c + k = Len(s) /\ Len(L) = 1 + k
  <2>1. Round(s, b + 1) /\ s[b + 1] = L[1] /\ b + 1 + Len(L[1].calls) = Len(s)
    BY <1>1, EndIsRound
  <2>2. Len(L) = 1 + Len(L[1].calls)
    BY DEF OneRound
  <2>. QED
    BY <1>2, <1>3, <2>1, <2>2
<1>5. PICK carrier \in MessageRecords : carrier = s[c]
  BY <1>4 DEF Round
<1>6. /\ IsCarrier(carrier) /\ k = Len(carrier.calls) /\ c \in 1..Len(s) /\ k >= 1
      /\ \A j \in 1..k : s[c + j].role = "tool" /\ s[c + j].id = carrier.calls[j]
      /\ \A x, y \in 1..k : carrier.calls[x] = carrier.calls[y] => x = y
  BY <1>2, <1>4, <1>5, MessageFacts DEF Round
<1>. DEFINE H == HeldUpTo(s)
            answers == [j \in 1..k |-> s[c + j]]
<1>7. /\ \A n \in 0..Len(s) : H[n] \in HeldRecords
      /\ \A n \in 1..Len(s) : H[n] = Sanitizing(H[n - 1], s[n])
  BY HeldIs
<1>. HIDE DEF H
<1>8. PICK out : out = Flushed(H[c - 1])
  OBVIOUS
<1>. DEFINE P == {j \in 0..k : HeldAt(H[c + j], out, carrier, j, answers)}
<1>9. 0 \in P
  <2>1. H[c] = [out |-> out, carrier |-> <<carrier>>, results |-> <<>>]
    BY <1>5, <1>6, <1>7, <1>8 DEF Sanitizing, MessageRecords
  <2>2. HeldAt(H[c], out, carrier, 0, answers)
    BY <2>1 DEF HeldAt
  <2>3. c + 0 = c
    OBVIOUS
  <2>. QED
    BY <2>2, <2>3
<1>10. ASSUME NEW j \in 1..k, j - 1 \in P PROVE j \in P
  <2>1. PICK n \in 1..Len(s) : n = c + j /\ n - 1 = c + (j - 1)
    <3>1. c + k = Len(s) /\ c >= 1
      BY <1>4, <1>6
    <3>2. c + j <= c + k /\ (c >= 1 => c + j >= 1) /\ c + j \in Nat
          /\ c + j - 1 = c + (j - 1)
      OBVIOUS
    <3>3. c + j \in 1..Len(s)
      BY <3>1, <3>2
    <3>. QED
      BY <3>2, <3>3
  <2>2. /\ H[n - 1] \in HeldRecords /\ s[n] \in MessageRecords
        /\ s[n].role = "tool" /\ s[n] = answers[j]
        /\ H[n] = Sanitizing(H[n - 1], s[n])
    <3>1. n - 1 \in 0..Len(s)
      OBVIOUS
    <3>. QED
      BY <1>6, <1>7, <2>1, <3>1
  <2>3. HeldAt(H[n - 1], out, carrier, j - 1, answers)
    BY <1>10, <2>1
  <2>4. AnswersOf(answers, carrier, k)
    BY <1>6 DEF AnswersOf
  <2>. HIDE DEF answers
  <2>5. HeldAt(H[n], out, carrier, j, answers)
    BY <2>2, <2>3, <2>4, AnswerIsHeld
  <2>. QED
    BY <2>1, <2>5
<1>11. 0..k \subseteq P
  <2>. HIDE DEF P
  <2>. QED
    BY <1>9, <1>10, UpToLength
<1>12. PICK held : held = H[Len(s)] /\ HeldAt(held, out, carrier, k, answers)
  <2>1. k \in 0..k
    OBVIOUS
  <2>2. HeldAt(H[c + k], out, carrier, k, answers)
    BY <1>11, <2>1
  <2>. QED
    BY <1>4, <2>2
<1>13. /\ held.results \in Seq(MessageRecords) /\ Len(held.results) = k
       /\ held.carrier = <<carrier>> /\ held.out = out
       /\ \A i \in 1..k : held.results[i] = s[c + i]
  BY <1>12 DEF HeldAt
<1>14. IdsOf(held.results) = carrier.calls
  <2>1. carrier.calls \in Seq(Ids)
    BY MessageFacts
  <2>2. DOMAIN held.results = 1..k /\ DOMAIN carrier.calls = 1..k
    BY <1>6, <1>13, <2>1
  <2>3. \A i \in 1..k : held.results[i].id = carrier.calls[i]
    BY <1>6, <1>13
  <2>4. IdsOf(held.results) = [i \in 1..k |-> carrier.calls[i]]
    BY <2>2, <2>3 DEF IdsOf
  <2>. QED
    BY <2>1, <2>2, <2>4
<1>15. HasCarrier(s)
  BY <1>5, <1>6 DEF HasCarrier
<1>16. Sanitized(s) = out \o <<carrier>> \o held.results
  <2>1. Sanitized(s) = Flushed(held)
    BY <1>12, <1>15 DEF Sanitized, H
  <2>2. held.results # <<>> /\ held.carrier # <<>> /\ held.carrier[1] = carrier
    BY <1>6, <1>13
  <2>3. Flushed(held) = held.out \o held.carrier \o held.results
    BY <1>14, <2>2 DEF Flushed
  <2>. QED
    BY <1>13, <2>1, <2>3
<1>17. PICK o \in Seq(MessageRecords) : o = out
  BY <1>6, <1>7, <1>8, FlushedIsSeq
<1>18. PICK r \in Seq(MessageRecords), cc \in Seq(MessageRecords) :
          r = held.results /\ cc = <<carrier>>
  <2>1. <<carrier>> \in Seq(MessageRecords)
    OBVIOUS
  <2>. QED
    BY <1>13, <2>1
<1>19. Sanitized(s) = o \o (cc \o r)
  <2>1. (o \o cc) \o r = o \o (cc \o r)
    BY ConcatAssociative
  <2>. QED
    BY <1>16, <1>17, <1>18, <2>1
<1>20. EndsIn(cc \o r, L)
  <2>1. Len(cc \o r) = 1 + k /\ (cc \o r)[1] = carrier
        /\ \A i \in 1..k : (cc \o r)[1 + i] = s[c + i]
    BY <1>13, <1>18
  <2>2. ASSUME NEW j \in 1..Len(L) PROVE (cc \o r)[j] = L[j]
    <3>1. CASE j = 1
      BY <1>4, <1>5, <2>1, <3>1
    <3>2. CASE j # 1
      <4>1. PICK i \in 1..k : j = 1 + i
        <5>1. j - 1 \in 1..k /\ j = 1 + (j - 1)
          BY <1>4, <3>2
        <5>. QED
          BY <5>1
      <4>2. c + i = b + j
        BY <1>3, <4>1
      <4>3. s[b + j] = L[j]
        BY <1>1 DEF EndsBehind
      <4>. QED
        BY <2>1, <4>1, <4>2, <4>3
    <3>. QED
      BY <3>1, <3>2
  <2>3. EndsBehind(0, cc \o r, L)
    <3>1. \A j \in 1..Len(L) : 0 + j = j
      OBVIOUS
    <3>2. Len(cc \o r) = 0 + Len(L)
      BY <1>4, <2>1
    <3>. QED
      BY <2>2, <3>1, <3>2 DEF EndsBehind
  <2>. QED
    BY <2>3 DEF EndsIn
<1>21. cc \o r \in Seq(MessageRecords)
  OBVIOUS
<1>. QED
  BY <1>15, <1>19, <1>20, <1>21, EndsJoined

-----------------------------------------------------------------------------
(* How a round is read, message by message. *)

\* Position n of s is in the round that begins at c.
RoundAt(s, c, n) == c \in 1..n /\ Round(s, c) /\ n <= c + Len(s[c].calls)

\* t is the part of s from c to n.
IsPart(t, s, c, n) == Len(t) = n - c + 1 /\ \A j \in 0..(n - c) : t[1 + j] = s[c + j]

LEMMA RoundAtFacts ==
    ASSUME NEW s \in Seq(MessageRecords), NEW c, NEW n \in 1..Len(s), RoundAt(s, c, n)
    PROVE  /\ c \in 1..n /\ c \in Nat /\ Round(s, c) /\ s[c] \in MessageRecords
           /\ IsCarrier(s[c]) /\ s[c].role = "assistant"
           /\ Len(s[c].calls) \in Nat
           /\ n <= c + Len(s[c].calls) /\ c + Len(s[c].calls) <= Len(s)
           /\ \A x \in c..(c + Len(s[c].calls)) : x # c => s[x].role = "tool"
<1>1. c \in Nat /\ c \in 1..n /\ Round(s, c)
  BY DEF RoundAt
<1>2. s[c] \in MessageRecords /\ IsCarrier(s[c])
  BY <1>1 DEF Round
<1>. QED
  BY <1>1, <1>2, MessageFacts, RoundIsOthers DEF RoundAt

LEMMA OneRoundAt ==
    ASSUME NEW s \in Seq(MessageRecords), NEW n \in 1..Len(s),
           NEW c, RoundAt(s, c, n), NEW d, RoundAt(s, d, n), c < d
    PROVE  FALSE
<1>1. c \in 1..n /\ d \in 1..n /\ IsCarrier(s[d]) /\ s[d].role = "assistant"
  BY RoundAtFacts
<1>2. PICK k \in Nat : k = Len(s[c].calls) /\ n <= c + k
  BY RoundAtFacts
<1>3. d \in c..(c + k) /\ d # c
  BY <1>1, <1>2
<1>4. s[d].role = "tool"
  BY <1>2, <1>3, RoundAtFacts
<1>. QED
  BY <1>1, <1>4

LEMMA RoundAtIsOne ==
    ASSUME NEW s \in Seq(MessageRecords), NEW n \in 1..Len(s),
           NEW c, RoundAt(s, c, n), NEW d, RoundAt(s, d, n)
    PROVE  c = d
<1>1. c \in Nat /\ d \in Nat
  BY RoundAtFacts
<1>2. ~(c < d) /\ ~(d < c)
  BY OneRoundAt
<1>. QED
  BY <1>1, <1>2

\* A result is in the round the message before it is in.
LEMMA ToolIsInRound ==
    ASSUME NEW s \in Seq(MessageRecords), Clean(s), NEW n \in 1..Len(s), s[n].role = "tool"
    PROVE  \E c : RoundAt(s, c, n) /\ RoundAt(s, c, n - 1) /\ n - 1 \in 1..Len(s)
<1>1. PICK c \in 1..(n - 1) : n <= c + Len(s[c].calls) /\ Round(s, c)
  BY DEF Clean
<1>2. RoundAt(s, c, n)
  BY <1>1 DEF RoundAt
<1>3. PICK k \in Nat : k = Len(s[c].calls)
  BY <1>2, RoundAtFacts
<1>4. n - 1 <= c + k /\ n - 1 \in 1..Len(s)
  BY <1>1, <1>3
<1>5. RoundAt(s, c, n - 1)
  BY <1>1, <1>3, <1>4 DEF RoundAt
<1>. QED
  BY <1>2, <1>4, <1>5

\* What follows in a round that goes on is a result.
LEMMA RoundGoesOn ==
    ASSUME NEW s \in Seq(MessageRecords), NEW n \in 1..Len(s), n - 1 \in 1..Len(s),
           NEW c, RoundAt(s, c, n - 1), n <= c + Len(s[c].calls)
    PROVE  s[n].role = "tool"
<1>1. PICK k \in Nat : k = Len(s[c].calls)
  BY RoundAtFacts
<1>2. c \in 1..(n - 1)
  BY RoundAtFacts
<1>3. n \in c..(c + k) /\ n # c
  BY <1>1, <1>2
<1>. QED
  BY <1>1, <1>3, RoundAtFacts

LEMMA WholePartIsRound ==
    ASSUME NEW s \in Seq(MessageRecords), NEW n \in 1..Len(s), NEW c, RoundAt(s, c, n),
           n = c + Len(s[c].calls), NEW t \in Seq(MessageRecords), IsPart(t, s, c, n)
    PROVE  OneRound(t) /\ Clean(t)
<1>1. PICK k \in Nat : k = Len(s[c].calls)
  BY RoundAtFacts
<1>2. c \in Nat /\ n = c + k /\ IsCarrier(s[c]) /\ Round(s, c)
  BY <1>1, RoundAtFacts
<1>3. Len(t) = 1 + k
  <2>1. n - c + 1 = 1 + k
    BY <1>2
  <2>. QED
    BY <2>1 DEF IsPart
<1>4. \A j \in 0..k : t[1 + j] = s[c + j]
  <2>1. n - c = k
    BY <1>2
  <2>. QED
    BY <2>1 DEF IsPart
<1>5. t[1] = s[c]
  <2>1. 0 \in 0..k /\ 1 + 0 = 1 /\ c + 0 = c
    BY <1>2
  <2>. QED
    BY <1>4, <2>1
<1>6. \A j \in 1..k : t[1 + j] = s[c + j]
  BY <1>4
<1>7. /\ \A j \in 1..k : s[c + j].role = "tool" /\ s[c + j].id = s[c].calls[j]
      /\ \A a, b \in 1..k : s[c].calls[a] = s[c].calls[b] => a = b
  BY <1>1, <1>2 DEF Round
<1>8. 1 \in DOMAIN t
  BY <1>3
<1>9. Round(t, 1)
  <2>1. Len(t[1].calls) = k /\ IsCarrier(t[1]) /\ 1 + k <= Len(t)
    BY <1>1, <1>2, <1>3, <1>5
  <2>2. \A j \in 1..k : t[1 + j].role = "tool" /\ t[1 + j].id = t[1].calls[j]
    BY <1>5, <1>6, <1>7
  <2>3. \A a, b \in 1..k : t[1].calls[a] = t[1].calls[b] => a = b
    BY <1>5, <1>7
  <2>. QED
    BY <1>8, <2>1, <2>2, <2>3 DEF Round
<1>10. Len(t) = 1 + Len(t[1].calls)
  BY <1>1, <1>3, <1>5
<1>. QED
  BY <1>9, <1>10, CleanRound DEF OneRound

\* The next answer of a round joins those before it.
LEMMA AnswerJoins ==
    ASSUME NEW s \in Seq(MessageRecords), NEW n \in 1..Len(s), n - 1 \in 1..Len(s),
           NEW c, RoundAt(s, c, n - 1), n <= c + Len(s[c].calls),
           NEW t \in Seq(MessageRecords), IsPart(t, s, c, n - 1)
    PROVE  Joins(t, s[n]) /\ IsPart(Append(t, s[n]), s, c, n)
<1>1. PICK k \in Nat : k = Len(s[c].calls) /\ n <= c + k
  BY RoundAtFacts
<1>2. /\ c \in 1..(n - 1) /\ c \in Nat /\ IsCarrier(s[c]) /\ Round(s, c)
      /\ s[c].calls \in Seq(Ids)
  BY RoundAtFacts, MessageFacts
<1>3. PICK q \in Nat : q = n - c /\ q \in 1..k
  BY <1>1, <1>2
<1>4. Len(t) = q /\ \A j \in 0..(q - 1) : t[1 + j] = s[c + j]
  <2>1. n - 1 - c + 1 = q /\ n - 1 - c = q - 1
    BY <1>2, <1>3
  <2>. QED
    BY <2>1 DEF IsPart
<1>5. t # <<>> /\ t[1] = s[c]
  <2>1. 0 \in 0..(q - 1) /\ 1 + 0 = 1 /\ c + 0 = c
    BY <1>2, <1>3
  <2>2. t[1] = s[c]
    BY <1>4, <2>1
  <2>. QED
    BY <1>3, <1>4, <2>2
<1>6. /\ \A j \in 1..k : s[c + j].role = "tool" /\ s[c + j].id = s[c].calls[j]
      /\ \A a, b \in 1..k : s[c].calls[a] = s[c].calls[b] => a = b
  BY <1>1, <1>2 DEF Round
<1>7. c + q = n /\ s[n].role = "tool" /\ s[n].id = s[c].calls[q]
  <2>1. c + q = n
    BY <1>2, <1>3
  <2>. QED
    BY <1>3, <1>6, <2>1
<1>8. s[n].id \in ToSet(s[c].calls)
  <2>1. q \in DOMAIN s[c].calls
    BY <1>1, <1>2, <1>3
  <2>. QED
    BY <1>7, <2>1 DEF ToSet
<1>9. s[n].id \notin ToSet(IdsOf(Tail(t)))
  <2>1. /\ DOMAIN Tail(t) = 1..(q - 1)
        /\ \A i \in 1..(q - 1) : Tail(t)[i] = t[1 + i]
    BY <1>4, <1>5
  <2>2. ASSUME NEW i \in 1..(q - 1) PROVE Tail(t)[i].id # s[n].id
    <3>1. i \in 0..(q - 1) /\ i \in 1..k /\ i # q
      BY <1>3
    <3>2. Tail(t)[i] = s[c + i]
      BY <1>4, <2>1, <3>1
    <3>. QED
      BY <1>3, <1>6, <1>7, <3>1, <3>2
  <2>. QED
    BY <2>1, <2>2 DEF ToSet, IdsOf
<1>10. Joins(t, s[n])
  BY <1>2, <1>5, <1>7, <1>8, <1>9 DEF Joins
<1>11. IsPart(Append(t, s[n]), s, c, n)
  <2>. DEFINE u == Append(t, s[n])
  <2>1. Len(u) = q + 1 /\ u[q + 1] = s[n] /\ \A i \in 1..q : u[i] = t[i]
    BY <1>4
  <2>. HIDE DEF u
  <2>2. ASSUME NEW j \in 0..q PROVE u[1 + j] = s[c + j]
    <3>1. CASE j = q
      BY <1>7, <2>1, <3>1
    <3>2. CASE j # q
      <4>1. j \in 0..(q - 1) /\ 1 + j \in 1..q
        BY <3>2
      <4>. QED
        BY <1>4, <2>1, <4>1
    <3>. QED
      BY <3>1, <3>2
  <2>3. n - c = q /\ n - c + 1 = q + 1
    BY <1>2, <1>3
  <2>4. IsPart(u, s, c, n)
    BY <2>1, <2>2, <2>3 DEF IsPart
  <2>. QED
    BY <2>4 DEF u
<1>. QED
  BY <1>10, <1>11

-----------------------------------------------------------------------------
(* _group_messages_for_budget never splits a round. *)

\* What the groups of the first n messages are: whole, but for the last one
\* while a round goes on.
Grouped(groups, s, n) ==
    /\ groups \in Seq(Seq(MessageRecords)) /\ groups # <<>>
    /\ \A g \in 1..(Len(groups) - 1) : Clean(groups[g])
    /\ \A c : RoundAt(s, c, n) => IsPart(Last(groups), s, c, n)
    /\ (~\E c : RoundAt(s, c, n)) => Clean(Last(groups))

LEMMA LastFacts ==
    ASSUME NEW S, NEW g \in Seq(S), g # <<>>
    PROVE  Last(g) = g[Len(g)] /\ Last(g) \in S /\ Len(g) \in 1..Len(g)
BY DEF Last

LEMMA AloneIsPart ==
    ASSUME NEW s \in Seq(MessageRecords), NEW n \in 1..Len(s), NEW c, RoundAt(s, c, n), c = n
    PROVE  IsPart(<<s[n]>>, s, c, n)
<1>1. n - c = 0 /\ n - c + 1 = 1
  OBVIOUS
<1>2. \A j \in 0..0 : <<s[n]>>[1 + j] = s[c + j]
  OBVIOUS
<1>. QED
  BY <1>1, <1>2 DEF IsPart

\* A message that is no result is in a round only as its carrier.
LEMMA NoToolBegins ==
    ASSUME NEW s \in Seq(MessageRecords), NEW n \in 1..Len(s), s[n].role # "tool",
           NEW c, RoundAt(s, c, n)
    PROVE  c = n /\ IsCarrier(s[n])
<1>1. PICK k \in Nat : k = Len(s[c].calls) /\ n <= c + k
  BY RoundAtFacts
<1>2. c \in 1..n
  BY RoundAtFacts
<1>3. n \in c..(c + k)
  BY <1>1, <1>2
<1>4. c = n
  BY <1>1, <1>3, RoundAtFacts
<1>. QED
  BY <1>4, RoundAtFacts

\* The first group is the first message.
LEMMA GroupedFirst ==
    ASSUME NEW s \in Seq(MessageRecords), Clean(s), 1 \in 1..Len(s)
    PROVE  Grouped(Grouping(<<>>, s[1]), s, 1)
<1>1. s[1].role # "tool"
  BY ToolIsInRound
<1>. DEFINE groups == <<<<s[1]>>>>
<1>2. Grouping(<<>>, s[1]) = groups
  BY DEF Grouping
<1>3. s[1] \in MessageRecords /\ groups \in Seq(Seq(MessageRecords)) /\ Len(groups) = 1
      /\ groups[1] = <<s[1]>> /\ groups # <<>>
  OBVIOUS
<1>4. Last(groups) = <<s[1]>>
  BY <1>3 DEF Last
<1>5. Clean(<<s[1]>>)
  BY <1>1, <1>3, CleanAlone
<1>6. ASSUME NEW c, RoundAt(s, c, 1) PROVE IsPart(<<s[1]>>, s, c, 1)
  BY <1>1, <1>6, NoToolBegins, AloneIsPart
<1>. HIDE DEF groups
<1>7. Grouped(groups, s, 1)
  BY <1>3, <1>4, <1>5, <1>6 DEF Grouped
<1>. QED
  BY <1>2, <1>7

LEMMA GroupingGoesOn ==
    ASSUME NEW s \in Seq(MessageRecords), Clean(s), NEW n \in 1..Len(s), n - 1 \in 1..Len(s),
           NEW groups, Grouped(groups, s, n - 1)
    PROVE  Grouped(Grouping(groups, s[n]), s, n)
<1>. DEFINE m == s[n]
            l == Last(groups)
            next == Grouping(groups, m)
<1>. SUFFICES Grouped(next, s, n)
  OBVIOUS
<1>1. /\ m \in MessageRecords /\ groups \in Seq(Seq(MessageRecords)) /\ groups # <<>>
      /\ l \in Seq(MessageRecords) /\ l = groups[Len(groups)] /\ Len(groups) \in Nat
      /\ Len(groups) \in 1..Len(groups)
  BY LastFacts DEF Grouped
<1>2. next \in Seq(Seq(MessageRecords))
  BY <1>1, GroupingIsGroups
\* The message joins the last group.
<1>3. ASSUME Joins(l, m)
      PROVE  /\ next # <<>> /\ Len(next) = Len(groups) /\ Last(next) = Append(l, m)
             /\ \A g \in 1..(Len(next) - 1) : Clean(next[g])
  <2>1. next = [groups EXCEPT ![Len(groups)] = Append(@, m)]
    BY <1>1, <1>3 DEF Grouping
  <2>2. /\ Len(next) = Len(groups) /\ next # <<>>
        /\ next[Len(groups)] = Append(l, m)
        /\ \A g \in 1..(Len(groups) - 1) : next[g] = groups[g]
    BY <1>1, <2>1
  <2>. HIDE DEF next, l
  <2>. QED
    BY <1>2, <2>2 DEF Grouped, Last
\* It begins one.
<1>4. ASSUME ~Joins(l, m), Clean(l)
      PROVE  /\ next # <<>> /\ Last(next) = <<m>>
             /\ \A g \in 1..(Len(next) - 1) : Clean(next[g])
  <2>1. next = Append(groups, <<m>>)
    BY <1>1, <1>4 DEF Grouping
  <2>2. /\ Len(next) = Len(groups) + 1 /\ next # <<>>
        /\ next[Len(groups) + 1] = <<m>>
        /\ \A g \in 1..Len(groups) : next[g] = groups[g]
    <3>1. PICK x \in Seq(MessageRecords) : x = <<m>>
      <4>1. <<m>> \in Seq(MessageRecords)
        BY <1>1
      <4>. QED
        BY <4>1
    <3>2. next = Append(groups, x)
      BY <2>1, <3>1
    <3>. HIDE DEF next
    <3>3. /\ Len(next) = Len(groups) + 1 /\ next # <<>>
          /\ next[Len(groups) + 1] = x
          /\ \A g \in 1..Len(groups) : next[g] = groups[g]
      BY <1>1, <3>2
    <3>. QED
      BY <3>1, <3>3
  <2>3. \A g \in 1..Len(groups) : Clean(groups[g])
    <3>1. ASSUME NEW g \in 1..Len(groups), g # Len(groups) PROVE Clean(groups[g])
      <4>1. g \in 1..(Len(groups) - 1)
        BY <1>1, <3>1
      <4>. QED
        BY <4>1 DEF Grouped
    <3>. QED
      BY <1>1, <1>4, <3>1
  <2>. HIDE DEF next, l
  <2>. QED
    BY <1>1, <1>2, <2>2, <2>3 DEF Last
<1>5. CASE m.role = "tool"
  <2>1. PICK c : RoundAt(s, c, n) /\ RoundAt(s, c, n - 1)
    BY <1>5, ToolIsInRound
  <2>2. IsPart(l, s, c, n - 1)
    BY <2>1 DEF Grouped
  <2>3. n <= c + Len(s[c].calls)
    BY <2>1 DEF RoundAt
  <2>4. Joins(l, m) /\ IsPart(Append(l, m), s, c, n)
    <3>1. PICK t \in Seq(MessageRecords) : t = l
      BY <1>1
    <3>2. Joins(t, s[n]) /\ IsPart(Append(t, s[n]), s, c, n)
      BY <2>1, <2>2, <2>3, <3>1, AnswerJoins
    <3>. QED
      BY <3>1, <3>2
  <2>5. \A d : RoundAt(s, d, n) => d = c
    BY <2>1, RoundAtIsOne
  <2>. HIDE DEF next, l, m
  <2>. QED
    BY <1>2, <1>3, <2>1, <2>4, <2>5 DEF Grouped
<1>6. CASE m.role # "tool"
  <2>1. Clean(l)
    <3>1. CASE \E c : RoundAt(s, c, n - 1)
      <4>1. PICK c : RoundAt(s, c, n - 1)
        BY <3>1
      <4>2. PICK k \in Nat : /\ k = Len(s[c].calls) /\ n - 1 <= c + k
                             /\ c \in 1..(n - 1)
        BY <4>1, RoundAtFacts
      <4>3. ~(n <= c + k)
        BY <1>6, <4>1, <4>2, RoundGoesOn
      <4>4. n - 1 = c + Len(s[c].calls)
        BY <4>2, <4>3
      <4>5. PICK t \in Seq(MessageRecords) : t = l
        BY <1>1
      <4>6. IsPart(t, s, c, n - 1)
        BY <4>1, <4>5 DEF Grouped
      <4>7. Clean(t)
        BY <4>1, <4>4, <4>6, WholePartIsRound
      <4>. QED
        BY <4>5, <4>7
    <3>2. CASE ~\E c : RoundAt(s, c, n - 1)
      BY <3>2 DEF Grouped
    <3>. QED
      BY <3>1, <3>2
  <2>2. CASE Joins(l, m)
    <3>1. Len(l) = 1 /\ l[1].role = "user" /\ ~IsCarrier(m)
      BY <1>6, <2>2 DEF Joins
    <3>2. ~\E c : RoundAt(s, c, n)
      BY <1>6, <3>1, NoToolBegins
    <3>3. Clean(Append(l, m))
      <4>1. DOMAIN Append(l, m) = 1..2 /\ Append(l, m)[1] = l[1] /\ Append(l, m)[2] = m
        BY <1>1, <3>1
      <4>. QED
        BY <1>6, <3>1, <4>1 DEF Clean
    <3>. HIDE DEF next, l, m
    <3>. QED
      BY <1>2, <1>3, <2>2, <3>2, <3>3 DEF Grouped
  <2>3. CASE ~Joins(l, m)
    <3>1. Clean(<<m>>)
      BY <1>1, <1>6, CleanAlone
    <3>2. ASSUME NEW c, RoundAt(s, c, n) PROVE IsPart(<<m>>, s, c, n)
      BY <1>6, <3>2, NoToolBegins, AloneIsPart
    <3>. HIDE DEF next, l, m
    <3>. QED
      BY <1>2, <1>4, <2>1, <2>3, <3>1, <3>2 DEF Grouped
  <2>. QED
    BY <2>2, <2>3
<1>. QED
  BY <1>5, <1>6

-----------------------------------------------------------------------------
(* The walk that takes groups while they fit, and the groups not too old. *)

LEMMA TakenIs ==
    ASSUME NEW order, Len(order) \in Nat, NEW weights, NEW limit
    PROVE  LET g == TakenUpTo(order, weights, limit)
           IN /\ g[0] = [set |-> {}, used |-> 0]
              /\ \A n \in 1..Len(order) :
                    g[n] = Taking(g[n - 1], order[n], weights[order[n]], limit)
<1>. DEFINE N == Len(order)
            base == [set |-> {}, used |-> 0]
            Step(n, z) == Taking(z, order[n], weights[order[n]], limit)
            Good(f, n) == f = [k \in 0..n |-> IF k = 0 THEN base ELSE Step(k, f[k - 1])]
            g == TakenUpTo(order, weights, limit)
            P == {n \in 0..N : \E f : Good(f, n)}
<1>1. g = CHOOSE f : Good(f, N)
  BY DEF TakenUpTo
<1>. HIDE DEF Step, base, N, g
<1>2. N \in Nat
  BY DEF N
<1>3. 0 \in P
  <2>. DEFINE h == [k \in 0..0 |-> base]
  <2>1. Good(h, 0)
    OBVIOUS
  <2>. HIDE DEF Good, h
  <2>. QED
    BY <1>2, <2>1
<1>4. ASSUME NEW n \in 1..N, n - 1 \in P PROVE n \in P
  <2>1. PICK f : Good(f, n - 1)
    BY <1>4
  <2>. DEFINE h == [k \in 0..n |-> IF k = n THEN Step(n, f[n - 1]) ELSE f[k]]
  <2>2. /\ f[0] = base
        /\ \A k \in 1..(n - 1) : f[k] = Step(k, f[k - 1])
    <3>1. 0 \in 0..(n - 1) /\ \A k \in 1..(n - 1) : k \in 0..(n - 1) /\ k # 0
      BY <1>2
    <3>. QED
      BY <2>1, <3>1
  <2>3. h = [k \in 0..n |-> h[k]] /\ h[n] = Step(n, f[n - 1]) /\ \A k \in 0..(n - 1) : h[k] = f[k]
    OBVIOUS
  <2>. HIDE DEF h
  <2>4. ASSUME NEW k \in 0..n PROVE h[k] = IF k = 0 THEN base ELSE Step(k, h[k - 1])
    <3>1. CASE k = 0
      <4>1. 0 \in 0..(n - 1) /\ 0 # n
        OBVIOUS
      <4>. QED
        BY <2>2, <2>3, <3>1, <4>1
    <3>2. CASE k # 0 /\ k = n
      <4>1. n - 1 \in 0..(n - 1)
        OBVIOUS
      <4>. QED
        BY <2>3, <3>2, <4>1
    <3>3. CASE k # 0 /\ k # n
      <4>1. k \in 1..(n - 1) /\ k \in 0..(n - 1) /\ k - 1 \in 0..(n - 1)
        BY <3>3
      <4>. QED
        BY <2>2, <2>3, <3>3, <4>1
    <3>. QED
      BY <3>1, <3>2, <3>3
  <2>5. Good(h, n)
    BY <2>3, <2>4
  <2>. HIDE DEF Good
  <2>. QED
    BY <1>2, <2>5
<1>5. 0..N \subseteq P
  <2>. HIDE DEF P
  <2>. QED
    BY <1>2, <1>3, <1>4, UpToLength
<1>6. Good(g, N)
  <2>1. \E f : Good(f, N)
    BY <1>2, <1>5
  <2>. HIDE DEF Good
  <2>. QED
    BY <1>1, <2>1
<1>7. g[0] = base /\ \A n \in 1..N : g[n] = Step(n, g[n - 1])
  <2>1. 0 \in 0..N /\ \A n \in 1..N : n \in 0..N /\ n # 0
    BY <1>2
  <2>. QED
    BY <1>6, <2>1
<1>. QED
  BY <1>7 DEF g, base, Step, N

\* What is taken stays taken.
LEMMA TakenStays ==
    ASSUME NEW order, Len(order) \in Nat, NEW weights, NEW limit, NEW a \in 0..Len(order)
    PROVE  TakenUpTo(order, weights, limit)[a].set \subseteq Kept(order, weights, limit)
<1>. DEFINE g == TakenUpTo(order, weights, limit)
            P == {n \in 0..Len(order) : a <= n => g[a].set \subseteq g[n].set}
<1>1. \A n \in 1..Len(order) : g[n] = Taking(g[n - 1], order[n], weights[order[n]], limit)
  BY TakenIs
<1>. HIDE DEF g
<1>2. 0 \in P
  <2>1. a <= 0 => a = 0
    OBVIOUS
  <2>. QED
    BY <2>1
<1>3. ASSUME NEW n \in 1..Len(order), n - 1 \in P PROVE n \in P
  <2>1. g[n - 1].set \subseteq g[n].set
    <3>1. PICK t : t = g[n - 1]
      OBVIOUS
    <3>2. g[n] = Taking(t, order[n], weights[order[n]], limit)
      BY <1>1, <3>1
    <3>3. t.set \subseteq Taking(t, order[n], weights[order[n]], limit).set
      BY Zenon DEF Taking
    <3>. QED
      BY <3>1, <3>2, <3>3
  <2>2. CASE a <= n - 1
    BY <1>3, <2>1, <2>2
  <2>3. CASE ~(a <= n - 1)
    <3>1. a <= n => a = n
      BY <2>3
    <3>. QED
      BY <3>1
  <2>. QED
    BY <2>2, <2>3
<1>4. 0..Len(order) \subseteq P
  <2>. HIDE DEF P
  <2>. QED
    BY <1>2, <1>3, UpToLength
<1>. QED
  BY <1>4 DEF Kept, g

LEMMA LargestOf ==
    ASSUME NEW N \in Nat, NEW I \in SUBSET (1..N), I # {}
    PROVE  \E x \in I : \A y \in I : x >= y
<1>. DEFINE Below(n) == {i \in I : i <= n}
            P == {n \in 0..N : Below(n) # {} => \E x \in Below(n) : \A y \in Below(n) : x >= y}
<1>0. \A i \in I : i \in Nat /\ i >= 1 /\ i <= N
  OBVIOUS
<1>1. 0 \in P
  <2>1. \A i \in I : ~(i <= 0)
    BY <1>0
  <2>2. Below(0) = {}
    BY <2>1
  <2>. HIDE DEF Below
  <2>. QED
    BY <2>2
<1>2. ASSUME NEW n \in 1..N, n - 1 \in P PROVE n \in P
  <2>1. CASE n \in I
    <3>1. n \in Below(n) /\ \A y \in Below(n) : n >= y
      BY <2>1
    <3>. QED
      BY <3>1
  <2>2. CASE n \notin I
    <3>1. Below(n) = Below(n - 1)
      <4>1. ASSUME NEW i \in I PROVE i <= n <=> i <= n - 1
        BY <2>2
      <4>. QED
        BY <4>1
    <3>. HIDE DEF Below
    <3>. QED
      BY <1>2, <3>1
  <2>. QED
    BY <2>1, <2>2
<1>3. 0..N \subseteq P
  <2>. HIDE DEF P
  <2>. QED
    BY <1>1, <1>2, UpToLength
<1>4. Below(N) = I
  BY <1>0
<1>. HIDE DEF Below
<1>5. N \in 0..N
  OBVIOUS
<1>. QED
  BY <1>3, <1>4, <1>5

\* The groups that are not too old end like all of them.
LEMMA RecentIsEnd ==
    ASSUME NEW G, NEW groups \in Seq(G)
    PROVE  /\ Recent(groups) \in Seq(G)
           /\ groups # <<>> => /\ Recent(groups) # <<>>
                               /\ Last(Recent(groups)) = Last(groups)
<1>. DEFINE last == SelectLastInSeq(groups, ToolGroup)
            I == {i \in 1..Len(groups) : ToolGroup(groups[i])}
<1>1. last \in 0..Len(groups)
  <2>1. last = IF I # {} THEN Max(I) ELSE 0
    BY DEF SelectLastInSeq
  <2>2. ASSUME I # {} PROVE Max(I) \in I
    <3>1. \E x \in I : \A y \in I : x >= y
      <4>1. Len(groups) \in Nat /\ I \in SUBSET (1..Len(groups))
        OBVIOUS
      <4>. HIDE DEF I
      <4>. QED
        BY <2>2, <4>1, LargestOf
    <3>. HIDE DEF I
    <3>. QED
      BY <3>1 DEF Max
  <2>. QED
    BY <2>1, <2>2
<1>. HIDE DEF last
<1>2. CASE last <= ContextGroups
  BY <1>2 DEF Recent, last
<1>3. CASE ~(last <= ContextGroups)
  <2>. DEFINE r == SubSeq(groups, last - ContextGroups, Len(groups))
  <2>1. PICK a \in Nat, k \in Nat : /\ a = last - ContextGroups - 1
                                    /\ a + k = Len(groups) /\ k >= 1
    <3>1. ContextGroups \in Nat /\ Len(groups) \in Nat /\ ContextGroups >= 1
      BY BudgetAssumption
    <3>2. last - ContextGroups - 1 \in Nat
      BY <1>1, <1>3, <3>1
    <3>3. Len(groups) - (last - ContextGroups - 1) \in Nat
          /\ Len(groups) - (last - ContextGroups - 1) >= 1
      BY <1>1, <1>3, <3>1
    <3>4. (last - ContextGroups - 1) + (Len(groups) - (last - ContextGroups - 1)) = Len(groups)
      BY <1>1, <3>1, <3>2
    <3>. QED
      BY <3>2, <3>3, <3>4
  <2>2. r = SubSeq(groups, a + 1, a + k)
    <3>1. last - ContextGroups = a + 1
      BY <1>1, <2>1, BudgetAssumption
    <3>. QED
      BY <2>1, <3>1
  <2>3. Recent(groups) = r
    BY <1>3 DEF Recent, last
  <2>. HIDE DEF r
  <2>4. /\ r \in Seq(G) /\ Len(r) = k
        /\ \A j \in 1..k : r[j] = groups[a + j]
    <3>1. a + k <= Len(groups)
      BY <2>1
    <3>. HIDE <2>1
    <3>. QED
      BY <2>2, <3>1, PartOf
  <2>5. r # <<>> /\ Last(r) = Last(groups)
    BY <2>1, <2>4 DEF Last
  <2>. QED
    BY <2>3, <2>4, <2>5
<1>. QED
  BY <1>2, <1>3

LEMMA RecentIs ==
    ASSUME NEW groups \in Seq(Seq(MessageRecords)),
           \A g \in 1..Len(groups) : Clean(groups[g])
    PROVE  /\ Recent(groups) \in Seq(Seq(MessageRecords))
           /\ \A g \in 1..Len(Recent(groups)) : Clean(Recent(groups)[g])
           /\ groups # <<>> => /\ Recent(groups) # <<>>
                               /\ Last(Recent(groups)) = Last(groups)
<1>1. PICK G : G = {l \in Seq(MessageRecords) : Clean(l)}
  OBVIOUS
<1>2. groups \in Seq(G)
  <2>1. PICK n \in Nat : n = Len(groups) /\ DOMAIN groups = 1..n
    OBVIOUS
  <2>2. \A g \in 1..n : groups[g] \in G
    BY <1>1, <2>1
  <2>3. groups = [g \in 1..n |-> groups[g]]
    BY <2>1
  <2>4. groups \in [1..n -> G]
    BY <2>2, <2>3
  <2>. QED
    BY <2>4, SeqDef
<1>3. PICK r \in Seq(G) : r = Recent(groups)
  BY <1>2, RecentIsEnd
<1>4. r \in Seq(Seq(MessageRecords)) /\ \A g \in 1..Len(r) : Clean(r[g])
  BY <1>1
<1>5. groups # <<>> => Recent(groups) # <<>> /\ Last(Recent(groups)) = Last(groups)
  BY <1>2, RecentIsEnd
<1>. QED
  BY <1>3, <1>4, <1>5

-----------------------------------------------------------------------------
(* The groups of a clean list, and what is left when some are dropped. *)

LEMMA GroupsGrouped ==
    ASSUME NEW s \in Seq(MessageRecords), Clean(s), s # <<>>
    PROVE  Grouped(Groups(s), s, Len(s))
<1>. DEFINE g == GroupsUpTo(s)
            P == {n \in 0..Len(s) : n # 0 => Grouped(g[n], s, n)}
<1>0. Len(s) \in Nat /\ Len(s) # 0 /\ Len(s) \in 0..Len(s)
  OBVIOUS
<1>1. g[0] = <<>> /\ \A n \in 1..Len(s) : g[n] = Grouping(g[n - 1], s[n])
  BY GroupsIs
<1>. HIDE DEF g
<1>2. 0 \in P
  BY <1>0
<1>3. ASSUME NEW n \in 1..Len(s), n - 1 \in P PROVE n \in P
  <2>1. CASE n = 1
    <3>1. 1 \in 1..Len(s) /\ g[1] = Grouping(<<>>, s[1])
      <4>1. 1 - 1 = 0
        OBVIOUS
      <4>. QED
        BY <1>1, <2>1, <4>1
    <3>2. Grouped(g[1], s, 1)
      BY <3>1, GroupedFirst
    <3>. QED
      BY <2>1, <3>2
  <2>2. CASE n # 1
    <3>1. n - 1 \in 1..Len(s) /\ n - 1 # 0
      BY <2>2
    <3>2. Grouped(g[n - 1], s, n - 1)
      BY <1>3, <3>1
    <3>3. Grouped(Grouping(g[n - 1], s[n]), s, n)
      BY <3>1, <3>2, GroupingGoesOn
    <3>4. Grouped(g[n], s, n)
      BY <1>1, <3>3
    <3>. QED
      BY <3>4
  <2>. QED
    BY <2>1, <2>2
<1>4. 0..Len(s) \subseteq P
  <2>. HIDE DEF P
  <2>. QED
    BY <1>0, <1>2, <1>3, UpToLength
<1>. QED
  BY <1>0, <1>4 DEF Groups, g

LEMMA NoGroups ==
    ASSUME NEW s \in Seq(MessageRecords), s = <<>>
    PROVE  Groups(s) = <<>>
<1>1. GroupsUpTo(s)[0] = <<>>
  BY GroupsIs
<1>2. Len(s) = 0
  OBVIOUS
<1>. QED
  BY <1>1, <1>2 DEF Groups

\* Every group of a well-formed list is one.
LEMMA GroupsAreClean ==
    ASSUME NEW s \in Seq(MessageRecords), Clean(s)
    PROVE  /\ Groups(s) \in Seq(Seq(MessageRecords))
           /\ \A g \in 1..Len(Groups(s)) : Clean(Groups(s)[g])
<1>1. CASE s = <<>>
  <2>1. Groups(s) = <<>>
    BY <1>1, NoGroups
  <2>2. <<>> \in Seq(Seq(MessageRecords)) /\ 1..Len(<<>>) = {}
    OBVIOUS
  <2>. QED
    BY <2>1, <2>2
<1>2. CASE s # <<>>
  <2>. DEFINE groups == Groups(s)
              l == Last(groups)
              n == Len(s)
  <2>1. Grouped(groups, s, n)
    BY <1>2, GroupsGrouped
  <2>2. n \in 1..Len(s) /\ n \in Nat
    BY <1>2
  <2>. HIDE DEF groups
  <2>3. /\ groups \in Seq(Seq(MessageRecords)) /\ groups # <<>>
        /\ l \in Seq(MessageRecords) /\ l = groups[Len(groups)] /\ Len(groups) \in Nat
    BY <2>1, LastFacts DEF Grouped
  <2>4. Clean(l)
    <3>1. CASE \E c : RoundAt(s, c, n)
      <4>1. PICK c : RoundAt(s, c, n)
        BY <3>1
      <4>2. PICK t \in Seq(MessageRecords) : t = l
        BY <2>3
      <4>3. IsPart(t, s, c, n)
        BY <2>1, <4>1, <4>2 DEF Grouped
      <4>4. PICK k \in Nat : /\ k = Len(s[c].calls) /\ n <= c + k /\ c + k <= Len(s)
                             /\ c \in Nat
        BY <2>2, <4>1, RoundAtFacts
      <4>5. n = c + Len(s[c].calls)
        BY <2>2, <4>4
      <4>6. Clean(t)
        BY <2>2, <4>1, <4>3, <4>5, WholePartIsRound
      <4>. QED
        BY <4>2, <4>6
    <3>2. CASE ~\E c : RoundAt(s, c, n)
      BY <2>1, <3>2 DEF Grouped
    <3>. QED
      BY <3>1, <3>2
  <2>5. ASSUME NEW g \in 1..Len(groups) PROVE Clean(groups[g])
    <3>1. CASE g = Len(groups)
      BY <2>3, <2>4, <3>1
    <3>2. CASE g # Len(groups)
      <4>1. g \in 1..(Len(groups) - 1)
        BY <2>3, <3>2
      <4>. QED
        BY <2>1, <4>1 DEF Grouped
    <3>. QED
      BY <3>1, <3>2
  <2>. QED
    BY <2>3, <2>5 DEF groups
<1>. QED
  BY <1>1, <1>2

\* The last group of a list that ends in a round is that round.
LEMMA GroupsEnd ==
    ASSUME NEW s \in Seq(MessageRecords), Clean(s),
           NEW L \in Seq(MessageRecords), OneRound(L), EndsIn(s, L)
    PROVE  Groups(s) # <<>> /\ Last(Groups(s)) = L
<1>1. PICK b \in Nat : EndsBehind(b, s, L)
  BY DEF EndsIn
<1>2. PICK c \in Nat, k \in Nat :
         /\ c = b + 1 /\ k = Len(L[1].calls) /\ Round(s, c) /\ s[c] = L[1]
         /\ c + k = Len(s) /\ Len(L) = 1 + k
  <2>1. /\ Round(s, b + 1) /\ s[b + 1] = L[1]
        /\ b + 1 + Len(L[1].calls) = Len(s) /\ Len(L[1].calls) \in Nat
    BY <1>1, EndIsRound
  <2>2. Len(L) = 1 + Len(L[1].calls)
    BY DEF OneRound
  <2>3. PICK k \in Nat : k = Len(L[1].calls)
    BY <2>1
  <2>4. b + 1 + k = Len(s) /\ Len(L) = 1 + k
    BY <2>1, <2>2, <2>3
  <2>5. PICK c \in Nat : c = b + 1
    OBVIOUS
  <2>. QED
    BY <2>1, <2>3, <2>4, <2>5
<1>3. PICK n \in Nat : n = Len(s)
  OBVIOUS
<1>4. n = c + k /\ n \in 1..Len(s) /\ c \in 1..n
  <2>1. c = b + 1
    BY <1>2
  <2>2. c >= 1
    BY <2>1
  <2>3. n = c + k
    BY <1>2, <1>3
  <2>4. n >= 1 /\ c <= n
    BY <2>2, <2>3
  <2>. QED
    BY <1>3, <2>2, <2>3, <2>4
<1>5. RoundAt(s, c, n)
  <2>1. Len(s[c].calls) = k /\ n <= c + k
    BY <1>2, <1>4
  <2>. QED
    BY <1>2, <1>4, <2>1 DEF RoundAt
<1>6. s # <<>>
  BY <1>4
<1>7. Grouped(Groups(s), s, n)
  BY <1>3, <1>6, GroupsGrouped
<1>8. PICK groups \in Seq(Seq(MessageRecords)) : groups = Groups(s)
  BY <1>7 DEF Grouped
<1>9. groups # <<>> /\ IsPart(Last(groups), s, c, n)
  BY <1>5, <1>7, <1>8 DEF Grouped
<1>10. PICK t \in Seq(MessageRecords) : t = Last(groups)
  BY <1>9, LastFacts
<1>11. Len(t) = 1 + k /\ \A j \in 0..k : t[1 + j] = s[c + j]
  <2>1. n - c = k /\ n - c + 1 = 1 + k
    BY <1>4
  <2>. QED
    BY <1>9, <1>10, <2>1 DEF IsPart
<1>12. ASSUME NEW i \in 1..(1 + k) PROVE t[i] = L[i]
  <2>1. i - 1 \in 0..k /\ 1 + (i - 1) = i /\ c + (i - 1) = b + i /\ i \in 1..Len(L)
    BY <1>2
  <2>2. t[i] = s[c + (i - 1)]
    BY <1>11, <2>1
  <2>3. s[b + i] = L[i]
    BY <1>1, <2>1 DEF EndsBehind
  <2>. QED
    BY <2>1, <2>2, <2>3
<1>13. t = L
  <2>1. Len(t) = Len(L) /\ \A i \in 1..Len(t) : t[i] = L[i]
    BY <1>2, <1>11, <1>12
  <2>. QED
    BY <2>1, SeqEqual
<1>. QED
  BY <1>8, <1>9, <1>10, <1>13

-----------------------------------------------------------------------------
LEMMA TrimmedIsClean ==
    ASSUME NEW s \in Seq(MessageRecords), Clean(s), NEW kept,
           NEW groups \in Seq(Seq(MessageRecords)),
           \A g \in 1..Len(groups) : Clean(groups[g])
    PROVE  Trimmed(s, groups, kept) \in Seq(MessageRecords) /\ Clean(Trimmed(s, groups, kept))
<1>1. PICK a \in Seq(MessageRecords) : a = Systems(s) /\ Clean(a)
  BY SystemsIsClean
<1>2. PICK b \in Seq(MessageRecords) : b = AllOf(groups, kept) /\ Clean(b)
  BY AllOfIsClean
<1>3. a \o b \in Seq(MessageRecords) /\ Clean(a \o b)
  BY <1>1, <1>2, CleanJoined
<1>. QED
  BY <1>1, <1>2, <1>3 DEF Trimmed

LEMMA TrimmedEnd ==
    ASSUME NEW s \in Seq(MessageRecords), Clean(s), NEW kept,
           NEW groups \in Seq(Seq(MessageRecords)), groups # <<>>, Len(groups) \in kept,
           NEW L \in Seq(MessageRecords), Last(groups) = L,
           \A g \in 1..Len(groups) : Clean(groups[g])
    PROVE  EndsIn(Trimmed(s, groups, kept), L)
<1>1. PICK a \in Seq(MessageRecords) : a = Systems(s)
  BY SystemsIsClean
<1>2. PICK b \in Seq(MessageRecords) : b = AllOf(groups, kept)
  BY AllOfIsClean
<1>3. EndsIn(groups[Len(groups)], L)
  <2>1. EndsBehind(0, L, L)
    <3>1. Len(L) \in Nat
      OBVIOUS
    <3>2. Len(L) = 0 + Len(L) /\ \A j \in 1..Len(L) : 0 + j = j
      BY <3>1
    <3>. QED
      BY <3>2 DEF EndsBehind
  <2>. QED
    BY <2>1 DEF EndsIn, Last
<1>4. EndsIn(b, L)
  BY <1>2, <1>3, AllOfEnd
<1>. QED
  BY <1>1, <1>2, <1>4, EndsJoined DEF Trimmed

-----------------------------------------------------------------------------
(* The two caps leave a clean list, and the newest round where it fits. *)

LEMMA LenOfFunction ==
    ASSUME NEW n \in Nat, NEW f, f = [i \in 1..n |-> f[i]]
    PROVE  Len(f) = n
<1>. DEFINE S == {f[i] : i \in 1..n}
<1>1. f \in [1..n -> S]
  OBVIOUS
<1>2. f \in Seq(S) /\ DOMAIN f = 1..n
  BY <1>1
<1>. HIDE DEF S
<1>. QED
  BY <1>2

\* The first group is taken whatever it weighs.
LEMMA FirstTaken ==
    ASSUME NEW order, Len(order) \in Nat \ {0}, NEW weights, NEW limit
    PROVE  /\ order[1] \in Kept(order, weights, limit)
           /\ TakenUpTo(order, weights, limit)[1] =
                 [set |-> {order[1]}, used |-> 0 + weights[order[1]]]
<1>. DEFINE g == TakenUpTo(order, weights, limit)
<1>1. /\ g[0] = [set |-> {}, used |-> 0]
      /\ \A n \in 1..Len(order) : g[n] = Taking(g[n - 1], order[n], weights[order[n]], limit)
  BY TakenIs
<1>. HIDE DEF g
<1>2. 1 \in 1..Len(order) /\ 1 - 1 = 0 /\ 1 \in 0..Len(order)
  OBVIOUS
<1>3. g[1] = Taking([set |-> {}, used |-> 0], order[1], weights[order[1]], limit)
  BY <1>1, <1>2
<1>4. g[1] = [set |-> {order[1]}, used |-> 0 + weights[order[1]]]
  BY <1>3, Zenon DEF Taking
<1>5. g[1].set \subseteq Kept(order, weights, limit)
  BY <1>2, TakenStays DEF g
<1>. QED
  BY <1>4, <1>5 DEF g

\* The second is taken when it fits beside the first.
LEMMA SecondTaken ==
    ASSUME NEW order, Len(order) \in Nat, Len(order) >= 2, NEW weights, NEW limit \in Nat,
           weights[order[1]] \in Nat, weights[order[2]] \in Nat,
           weights[order[1]] + weights[order[2]] <= limit
    PROVE  order[2] \in Kept(order, weights, limit)
<1>. DEFINE g == TakenUpTo(order, weights, limit)
            a == weights[order[1]]
            b == weights[order[2]]
<1>1. \A n \in 1..Len(order) : g[n] = Taking(g[n - 1], order[n], weights[order[n]], limit)
  BY TakenIs
<1>2. g[1] = [set |-> {order[1]}, used |-> 0 + a]
  BY FirstTaken
<1>. HIDE DEF g
<1>3. 2 \in 1..Len(order) /\ 2 - 1 = 1 /\ 2 \in 0..Len(order)
  OBVIOUS
<1>4. g[2] = Taking(g[1], order[2], b, limit)
  BY <1>1, <1>3
<1>5. ~(g[1].used + b > limit)
  <2>1. g[1].used = a
    BY <1>2
  <2>. QED
    BY <2>1
<1>6. order[2] \in g[2].set
  <2>. HIDE DEF b
  <2>1. PICK t : t = g[1]
    OBVIOUS
  <2>2. order[2] \in Taking(t, order[2], b, limit).set
    BY <1>5, <2>1 DEF Taking
  <2>. QED
    BY <1>4, <2>1, <2>2
<1>7. g[2].set \subseteq Kept(order, weights, limit)
  BY <1>3, TakenStays DEF g
<1>. QED
  BY <1>6, <1>7

-----------------------------------------------------------------------------
LEMMA CountCappedIsClean ==
    ASSUME NEW s \in Seq(MessageRecords), Clean(s)
    PROVE  CountCapped(s) \in Seq(MessageRecords) /\ Clean(CountCapped(s))
<1>1. PICK others \in Seq(MessageRecords) : others = Others(s) /\ Clean(others)
  BY OthersIsClean
<1>2. PICK all \in Seq(Seq(MessageRecords)) :
         all = Groups(others) /\ \A g \in 1..Len(all) : Clean(all[g])
  BY <1>1, GroupsAreClean
<1>3. PICK groups \in Seq(Seq(MessageRecords)) :
         groups = Recent(all) /\ \A g \in 1..Len(groups) : Clean(groups[g])
  BY <1>2, RecentIs
<1>4. PICK kept :
         kept = Kept([i \in DOMAIN groups |-> Len(groups) + 1 - i],
                     [i \in DOMAIN groups |-> Len(groups[i])], MaxMessages)
  OBVIOUS
<1>5. CountCapped(s) = IF Len(others) <= MaxMessages THEN s ELSE Trimmed(s, groups, kept)
  BY <1>1, <1>2, <1>3, <1>4 DEF CountCapped
<1>6. Trimmed(s, groups, kept) \in Seq(MessageRecords) /\ Clean(Trimmed(s, groups, kept))
  BY <1>3, TrimmedIsClean
<1>. QED
  BY <1>5, <1>6

\* The newest group is kept, however many messages it has.
LEMMA CountCappedEnd ==
    ASSUME NEW s \in Seq(MessageRecords), Clean(s),
           NEW L \in Seq(MessageRecords), OneRound(L), EndsIn(s, L)
    PROVE  EndsIn(CountCapped(s), L)
<1>1. PICK others \in Seq(MessageRecords) :
         others = Others(s) /\ Clean(others) /\ EndsIn(others, L)
  BY OthersIsClean, OthersEnd
<1>2. PICK all \in Seq(Seq(MessageRecords)) :
         /\ all = Groups(others) /\ \A g \in 1..Len(all) : Clean(all[g])
         /\ all # <<>> /\ Last(all) = L
  BY <1>1, GroupsAreClean, GroupsEnd
<1>3. PICK groups \in Seq(Seq(MessageRecords)) :
         /\ groups = Recent(all) /\ \A g \in 1..Len(groups) : Clean(groups[g])
         /\ groups # <<>> /\ Last(groups) = L
  BY <1>2, RecentIs
<1>4. PICK order : order = [i \in DOMAIN groups |-> Len(groups) + 1 - i]
  OBVIOUS
<1>5. PICK weights : weights = [i \in DOMAIN groups |-> Len(groups[i])]
  OBVIOUS
<1>6. PICK n \in Nat : n = Len(groups) /\ n # 0 /\ DOMAIN groups = 1..n
  BY <1>3
<1>7. Len(order) = n /\ order[1] = n
  <2>1. order = [i \in 1..n |-> n + 1 - i]
    BY <1>4, <1>6
  <2>2. order = [i \in 1..n |-> order[i]] /\ order[1] = n + 1 - 1
    BY <1>6, <2>1
  <2>. QED
    BY <1>6, <2>2, LenOfFunction
<1>8. Len(groups) \in Kept(order, weights, MaxMessages)
  BY <1>6, <1>7, FirstTaken
<1>9. PICK kept : kept = Kept(order, weights, MaxMessages)
  OBVIOUS
<1>10. CountCapped(s) = IF Len(others) <= MaxMessages THEN s ELSE Trimmed(s, groups, kept)
  BY <1>1, <1>2, <1>3, <1>4, <1>5, <1>9 DEF CountCapped
<1>11. EndsIn(Trimmed(s, groups, kept), L)
  BY <1>3, <1>8, <1>9, TrimmedEnd
<1>. QED
  BY <1>10, <1>11

LEMMA TotalCappedIsClean ==
    ASSUME NEW s \in Seq(MessageRecords), Clean(s)
    PROVE  TotalCapped(s) \in Seq(MessageRecords) /\ Clean(TotalCapped(s))
<1>1. PICK others \in Seq(MessageRecords) : others = Others(s) /\ Clean(others)
  BY OthersIsClean
<1>2. PICK groups \in Seq(Seq(MessageRecords)) :
         groups = Groups(others) /\ \A g \in 1..Len(groups) : Clean(groups[g])
  BY <1>1, GroupsAreClean
<1>3. PICK kept :
         kept = Kept(TakingOrder(groups), [i \in DOMAIN groups |-> Size(groups[i])],
                     MaxTotal - Size(Systems(s)))
  OBVIOUS
<1>4. TotalCapped(s) \in {s, Systems(s), Trimmed(s, groups, kept)}
  BY <1>1, <1>2, <1>3 DEF TotalCapped
<1>5. Trimmed(s, groups, kept) \in Seq(MessageRecords) /\ Clean(Trimmed(s, groups, kept))
  BY <1>2, TrimmedIsClean
<1>6. Systems(s) \in Seq(MessageRecords) /\ Clean(Systems(s))
  BY SystemsIsClean
<1>. QED
  BY <1>4, <1>5, <1>6

\* The round that ends s fits the budget beside the group before it.
RoundFits(s, L) ==
    LET groups == Groups(Others(s))
        n == Len(groups)
        beside == IF n > 1 THEN Size(groups[n - 1]) ELSE 0
    IN Size(Systems(s)) + beside + Size(L) <= MaxTotal

LEMMA TotalCappedEnd ==
    ASSUME NEW s \in Seq(MessageRecords), Clean(s),
           NEW L \in Seq(MessageRecords), OneRound(L), EndsIn(s, L),
           Size(L) # 0, RoundFits(s, L)
    PROVE  EndsIn(TotalCapped(s), L)
<1>1. PICK others \in Seq(MessageRecords) :
         others = Others(s) /\ Clean(others) /\ EndsIn(others, L)
  BY OthersIsClean, OthersEnd
<1>2. PICK groups \in Seq(Seq(MessageRecords)) :
         /\ groups = Groups(others) /\ \A g \in 1..Len(groups) : Clean(groups[g])
         /\ groups # <<>> /\ Last(groups) = L
  BY <1>1, GroupsAreClean, GroupsEnd
<1>3. PICK order : order = TakingOrder(groups)
  OBVIOUS
<1>4. PICK weights : weights = [i \in DOMAIN groups |-> Size(groups[i])]
  OBVIOUS
<1>5. PICK n \in Nat : n = Len(groups)
  BY <1>2
<1>6. n # 0 /\ DOMAIN groups = 1..n /\ groups[n] = L
  BY <1>2, <1>5 DEF Last
<1>7. PICK system \in Nat : system = Size(Systems(s))
  BY SystemsIsClean, SizeIsNat
<1>8. PICK size \in Nat : size = Size(L) /\ size # 0
  BY SizeIsNat
<1>9. PICK limit : limit = MaxTotal - system
  OBVIOUS
<1>10. PICK kept : kept = Kept(order, weights, limit)
  OBVIOUS
<1>11. /\ \A i \in 1..n : weights[i] = Size(groups[i]) /\ weights[i] \in Nat
       /\ weights[n] = size
  <2>1. \A i \in 1..n : Size(groups[i]) \in Nat
    BY <1>6, SizeIsNat
  <2>. QED
    BY <1>4, <1>6, <1>8, <2>1
<1>12. system + (IF n > 1 THEN weights[n - 1] ELSE 0) + size <= MaxTotal
  <2>1. n > 1 => n - 1 \in 1..n
    OBVIOUS
  <2>. QED
    BY <1>1, <1>2, <1>5, <1>7, <1>8, <1>11, <2>1 DEF RoundFits
<1>13. system < MaxTotal /\ limit \in Nat
  <2>1. PICK beside \in Nat : beside = IF n > 1 THEN weights[n - 1] ELSE 0
    <3>1. n > 1 => n - 1 \in 1..n
      OBVIOUS
    <3>. QED
      BY <1>11, <3>1
  <2>2. system + beside + size <= MaxTotal
    BY <1>12, <2>1
  <2>. QED
    BY <1>8, <1>9, <2>2, BudgetAssumption
<1>14. /\ Len(order) = n
       /\ n = 1 => order[1] = 1
       /\ n > 1 => order[1] = n - 1 /\ order[2] = n
  <2>. DEFINE o(k) == CHOOSE g \in {g \in 1..n : g + 2 <= n} :
                 Cardinality({h \in {g1 \in 1..n : g1 + 2 <= n} : Above(groups, h, g)}) = k - 3
  <2>1. order = [k \in 1..n |-> IF n = 1 THEN 1 ELSE IF k <= 2 THEN n - 2 + k ELSE o(k)]
    BY <1>3, <1>5 DEF TakingOrder
  <2>. HIDE DEF o
  <2>2. order = [k \in 1..n |-> order[k]]
    BY <2>1
  <2>3. n = 1 => order[1] = 1
    BY <2>1
  <2>4. n > 1 => order[1] = n - 2 + 1 /\ order[2] = n - 2 + 2
    BY <2>1
  <2>5. Len(order) = n
    BY <2>2, LenOfFunction
  <2>. QED
    BY <2>3, <2>4, <2>5
<1>15. n \in kept
  <2>1. CASE n = 1
    <3>1. order[1] = n /\ Len(order) \in Nat \ {0}
      BY <1>14, <2>1
    <3>2. order[1] \in Kept(order, weights, limit)
      BY <3>1, FirstTaken
    <3>. QED
      BY <1>10, <3>1, <3>2
  <2>2. CASE n # 1
    <3>1. n > 1 /\ n - 1 \in 1..n /\ n \in 1..n
      BY <1>6, <2>2
    <3>2. PICK a \in Nat : a = weights[n - 1]
      BY <1>11, <3>1
    <3>3. a + size <= limit
      <4>1. system + a + size <= MaxTotal
        BY <1>12, <3>1, <3>2
      <4>. QED
        BY <1>9, <4>1, BudgetAssumption
    <3>4. weights[order[1]] = a /\ weights[order[2]] = size
      BY <1>11, <1>14, <3>1, <3>2
    <3>5. order[2] \in Kept(order, weights, limit)
      <4>1. /\ weights[order[1]] \in Nat /\ weights[order[2]] \in Nat
            /\ weights[order[1]] + weights[order[2]] <= limit
        BY <3>2, <3>3, <3>4
      <4>2. Len(order) \in Nat /\ Len(order) >= 2
        BY <1>14, <3>1
      <4>. QED
        BY <1>13, <4>1, <4>2, SecondTaken
    <3>. QED
      BY <1>10, <1>14, <3>1, <3>5
  <2>. QED
    BY <2>1, <2>2
<1>16. ~(system >= MaxTotal)
  BY <1>13, BudgetAssumption
<1>17. TotalCapped(s) = IF Size(s) <= MaxTotal THEN s ELSE Trimmed(s, groups, kept)
  BY <1>1, <1>2, <1>3, <1>4, <1>7, <1>9, <1>10, <1>16 DEF TotalCapped
<1>18. EndsIn(Trimmed(s, groups, kept), L)
  BY <1>2, <1>5, <1>15, TrimmedEnd
<1>. QED
  BY <1>17, <1>18

-----------------------------------------------------------------------------
LEMMA PreparedIsClean ==
    ASSUME NEW s \in Seq(MessageRecords), HasCarrier(s)
    PROVE  Prepared(s) \in Seq(MessageRecords) /\ Clean(Prepared(s))
<1>1. PICK a \in Seq(MessageRecords) : a = Sanitized(s) /\ Clean(a)
  BY SanitizedIsClean
<1>2. PICK b \in Seq(MessageRecords) : b = CountCapped(a) /\ Clean(b)
  BY <1>1, CountCappedIsClean
<1>3. TotalCapped(b) \in Seq(MessageRecords) /\ Clean(TotalCapped(b))
  BY <1>2, TotalCappedIsClean
<1>. QED
  BY <1>1, <1>2, <1>3 DEF Prepared

LEMMA PreparedEnd ==
    ASSUME NEW s \in Seq(MessageRecords), NEW L \in Seq(MessageRecords),
           OneRound(L), EndsIn(s, L), Size(L) # 0, RoundFits(CountCapped(Sanitized(s)), L)
    PROVE  Prepared(s) \in Seq(MessageRecords) /\ EndsIn(Prepared(s), L)
<1>0. HasCarrier(s)
  BY SanitizedEnd
<1>1. PICK a \in Seq(MessageRecords) : a = Sanitized(s) /\ Clean(a) /\ EndsIn(a, L)
  BY <1>0, SanitizedIsClean, SanitizedEnd
<1>2. PICK b \in Seq(MessageRecords) : b = CountCapped(a) /\ Clean(b) /\ EndsIn(b, L)
  BY <1>1, CountCappedIsClean, CountCappedEnd
<1>3. EndsIn(TotalCapped(b), L)
  BY <1>1, <1>2, TotalCappedEnd
<1>. QED
  BY <1>0, <1>1, <1>2, <1>3, PreparedIsClean DEF Prepared

-----------------------------------------------------------------------------
(* The order in which _cap_total_payload_for_budget takes the groups names
   groups, and each place of it is somebody's. *)

\* Which of two keys comes first.
Keyed == [1..5 -> Int]
Lex(a, b) == \E k \in 1..5 : a[k] > b[k] /\ \A j \in 1..(k - 1) : a[j] = b[j]

LEMMA LexIsTransitive ==
    ASSUME NEW a \in Keyed, NEW b \in Keyed, NEW c \in Keyed, Lex(a, b), Lex(b, c)
    PROVE  Lex(a, c)
<1>1. PICK k \in 1..5 : a[k] > b[k] /\ \A j \in 1..(k - 1) : a[j] = b[j]
  BY DEF Lex
<1>2. PICK m \in 1..5 : b[m] > c[m] /\ \A j \in 1..(m - 1) : b[j] = c[j]
  BY DEF Lex
<1>3. \A i \in 1..5 : a[i] \in Int /\ b[i] \in Int /\ c[i] \in Int
  BY DEF Keyed
<1>4. CASE k < m
  <2>1. k \in 1..(m - 1) /\ \A j \in 1..(k - 1) : j \in 1..(m - 1)
    BY <1>4
  <2>2. a[k] > c[k] /\ \A j \in 1..(k - 1) : a[j] = c[j]
    BY <1>1, <1>2, <2>1
  <2>. QED
    BY <2>2 DEF Lex
<1>5. CASE k = m
  <2>1. a[k] > c[k] /\ \A j \in 1..(k - 1) : a[j] = c[j]
    BY <1>1, <1>2, <1>3, <1>5
  <2>. QED
    BY <2>1 DEF Lex
<1>6. CASE m < k
  <2>1. m \in 1..(k - 1) /\ \A j \in 1..(m - 1) : j \in 1..(k - 1)
    BY <1>6
  <2>2. a[m] > c[m] /\ \A j \in 1..(m - 1) : a[j] = c[j]
    BY <1>1, <1>2, <2>1
  <2>. QED
    BY <2>2 DEF Lex
<1>. QED
  BY <1>4, <1>5, <1>6

LEMMA LexIsStrict ==
    ASSUME NEW a \in Keyed PROVE ~Lex(a, a)
<1>1. \A k \in 1..5 : ~(a[k] > a[k])
  BY DEF Keyed
<1>. QED
  BY <1>1 DEF Lex

LEMMA LexIsTotal ==
    ASSUME NEW a \in Keyed, NEW b \in Keyed, a[5] # b[5]
    PROVE  Lex(a, b) \/ Lex(b, a)
<1>. DEFINE First(k) == a[k] # b[k] /\ \A j \in 1..(k - 1) : a[j] = b[j]
<1>1. \E k \in 1..5 : First(k)
  <2>1. CASE a[1] # b[1]
    <3>1. 1 \in 1..5 /\ \A j \in 1..(1 - 1) : FALSE
      OBVIOUS
    <3>. QED
      BY <2>1, <3>1
  <2>2. CASE a[1] = b[1] /\ a[2] # b[2]
    <3>1. 2 \in 1..5 /\ \A j \in 1..(2 - 1) : j = 1
      OBVIOUS
    <3>. QED
      BY <2>2, <3>1
  <2>3. CASE a[1] = b[1] /\ a[2] = b[2] /\ a[3] # b[3]
    <3>1. 3 \in 1..5 /\ \A j \in 1..(3 - 1) : j = 1 \/ j = 2
      OBVIOUS
    <3>. QED
      BY <2>3, <3>1
  <2>4. CASE a[1] = b[1] /\ a[2] = b[2] /\ a[3] = b[3] /\ a[4] # b[4]
    <3>1. 4 \in 1..5 /\ \A j \in 1..(4 - 1) : j = 1 \/ j = 2 \/ j = 3
      OBVIOUS
    <3>. QED
      BY <2>4, <3>1
  <2>5. CASE a[1] = b[1] /\ a[2] = b[2] /\ a[3] = b[3] /\ a[4] = b[4]
    <3>1. 5 \in 1..5 /\ \A j \in 1..(5 - 1) : j = 1 \/ j = 2 \/ j = 3 \/ j = 4
      OBVIOUS
    <3>. QED
      BY <2>5, <3>1
  <2>. HIDE DEF First
  <2>. QED
    BY <2>1, <2>2, <2>3, <2>4, <2>5
<1>2. PICK k \in 1..5 : First(k)
  BY <1>1
<1>3. a[k] \in Int /\ b[k] \in Int
  BY DEF Keyed
<1>4. a[k] > b[k] \/ b[k] > a[k]
  BY <1>2, <1>3
<1>. QED
  BY <1>2, <1>4 DEF Lex

\* By what a group is judged.
KeyOf(groups, g) ==
    [k \in 1..5 |-> IF k <= 3 THEN Score(groups[g])[k]
                    ELSE IF k = 4 THEN 0 - Size(groups[g]) ELSE g]

LEMMA ScoreFacts ==
    ASSUME NEW s \in Seq(MessageRecords)
    PROVE  Score(s) \in Seq(Nat) /\ Len(Score(s)) = 3
<1>1. PICK n \in Nat : DOMAIN s = 1..n
  OBVIOUS
<1>2. \A i \in 1..n : s[i].form \in Nat
  BY <1>1 DEF MessageRecords
<1>3. PICK a : a = [i \in 1..n |->
                IF IsCarrier(s[i]) \/ s[i].role = "tool" THEN 3 ELSE 0]
  OBVIOUS
<1>4. PICK b : b = [i \in 1..n |-> s[i].form]
  OBVIOUS
<1>5. PICK c : c = [i \in 1..n |->
                IF s[i].role \in {"assistant", "tool"} THEN 1 ELSE 0]
  OBVIOUS
<1>6. a \in Seq(Nat) /\ b \in Seq(Nat) /\ c \in Seq(Nat)
  BY <1>2, <1>3, <1>4, <1>5
<1>7. Total(a) \in Nat /\ Total(b) \in Nat /\ Total(c) \in Nat
  BY <1>6, TotalIsNat
<1>8. Score(s) = <<Total(a), Total(b), Total(c)>>
  BY <1>1, <1>3, <1>4, <1>5 DEF Score
<1>9. PICK x \in Nat, y \in Nat, z \in Nat : x = Total(a) /\ y = Total(b) /\ z = Total(c)
  BY <1>7
<1>10. <<x, y, z>> \in Seq(Nat) /\ Len(<<x, y, z>>) = 3
  OBVIOUS
<1>. QED
  BY <1>8, <1>9, <1>10

LEMMA AboveIsLex ==
    ASSUME NEW groups \in Seq(Seq(MessageRecords)), NEW g \in 1..Len(groups),
           NEW h \in 1..Len(groups)
    PROVE  /\ KeyOf(groups, g) \in Keyed /\ KeyOf(groups, g)[5] = g
           /\ Above(groups, g, h) <=> Lex(KeyOf(groups, g), KeyOf(groups, h))
<1>1. /\ groups[g] \in Seq(MessageRecords) /\ groups[h] \in Seq(MessageRecords)
      /\ g \in Nat /\ h \in Nat
  OBVIOUS
<1>2. PICK x \in Seq(Nat) : x = Score(groups[g]) /\ Len(x) = 3
  BY <1>1, ScoreFacts
<1>3. PICK y \in Seq(Nat) : y = Score(groups[h]) /\ Len(y) = 3
  BY <1>1, ScoreFacts
<1>4. PICK u \in Nat, v \in Nat : u = Size(groups[g]) /\ v = Size(groups[h])
  BY <1>1, SizeIsNat
<1>. DEFINE a == x \o <<v, g>>
            b == y \o <<u, h>>
            p == KeyOf(groups, g)
            q == KeyOf(groups, h)
<1>5. /\ DOMAIN a = 1..5 /\ a[1] = x[1] /\ a[2] = x[2] /\ a[3] = x[3] /\ a[4] = v /\ a[5] = g
  <2>1. PICK w \in Seq(Nat) : w = <<v, g>> /\ Len(w) = 2 /\ w[1] = v /\ w[2] = g
    <3>1. <<v, g>> \in Seq(Nat) /\ Len(<<v, g>>) = 2 /\ <<v, g>>[1] = v /\ <<v, g>>[2] = g
      BY <1>1
    <3>. QED
      BY <3>1
  <2>0. PICK z : z = x \o w
    OBVIOUS
  <2>2. z = x \o w
    BY <2>0
  <2>3. /\ Len(z) = 3 + 2 /\ \A i \in 1..3 : z[i] = x[i]
        /\ \A i \in 1..2 : z[3 + i] = w[i]
    <3>1. PICK m \in Nat, n \in Nat : m = 3 /\ n = 2 /\ Len(x) = m /\ Len(w) = n
      BY <1>2, <2>1
    <3>2. x \in Seq(Nat) /\ w \in Seq(Nat)
      BY <1>2, <2>1
    <3>3. /\ Len(x \o w) = Len(x) + Len(w)
          /\ \A i \in 1..Len(x) : (x \o w)[i] = x[i]
          /\ \A i \in 1..Len(w) : (x \o w)[Len(x) + i] = w[i]
      BY <3>2, JoinedEntries
    <3>. QED
      BY <2>2, <3>1, <3>3
  <2>4. Len(z) = 5 /\ z[4] = w[1] /\ z[5] = w[2]
    BY <2>3
  <2>5. z = a
    BY <2>1, <2>2
  <2>. HIDE DEF a
  <2>. QED
    BY <2>1, <2>3, <2>4, <2>5
<1>6. /\ DOMAIN b = 1..5 /\ b[1] = y[1] /\ b[2] = y[2] /\ b[3] = y[3] /\ b[4] = u /\ b[5] = h
  <2>1. PICK w \in Seq(Nat) : w = <<u, h>> /\ Len(w) = 2 /\ w[1] = u /\ w[2] = h
    <3>1. <<u, h>> \in Seq(Nat) /\ Len(<<u, h>>) = 2 /\ <<u, h>>[1] = u /\ <<u, h>>[2] = h
      BY <1>1
    <3>. QED
      BY <3>1
  <2>0. PICK z : z = y \o w
    OBVIOUS
  <2>2. z = y \o w
    BY <2>0
  <2>3. /\ Len(z) = 3 + 2 /\ \A i \in 1..3 : z[i] = y[i]
        /\ \A i \in 1..2 : z[3 + i] = w[i]
    <3>1. PICK m \in Nat, n \in Nat : m = 3 /\ n = 2 /\ Len(y) = m /\ Len(w) = n
      BY <1>3, <2>1
    <3>2. y \in Seq(Nat) /\ w \in Seq(Nat)
      BY <1>3, <2>1
    <3>3. /\ Len(y \o w) = Len(y) + Len(w)
          /\ \A i \in 1..Len(y) : (y \o w)[i] = y[i]
          /\ \A i \in 1..Len(w) : (y \o w)[Len(y) + i] = w[i]
      BY <3>2, JoinedEntries
    <3>. QED
      BY <2>2, <3>1, <3>3
  <2>4. Len(z) = 5 /\ z[4] = w[1] /\ z[5] = w[2]
    BY <2>3
  <2>5. z = b
    BY <2>1, <2>2
  <2>. HIDE DEF b
  <2>. QED
    BY <2>1, <2>3, <2>4, <2>5
<1>7. Above(groups, g, h) <=>
         \E k \in DOMAIN a : a[k] > b[k] /\ \A j \in 1..(k - 1) : a[j] = b[j]
  BY <1>2, <1>3, <1>4 DEF Above
<1>. HIDE DEF a, b
<1>8. /\ p \in Keyed /\ p[1] = x[1] /\ p[2] = x[2] /\ p[3] = x[3] /\ p[4] = 0 - u /\ p[5] = g
  <2>1. x[1] \in Nat /\ x[2] \in Nat /\ x[3] \in Nat
    BY <1>2
  <2>2. p = [k \in 1..5 |-> IF k <= 3 THEN x[k] ELSE IF k = 4 THEN 0 - u ELSE g]
    BY <1>2, <1>4 DEF KeyOf
  <2>. HIDE DEF p
  <2>3. ASSUME NEW k \in 1..5
        PROVE  (IF k <= 3 THEN x[k] ELSE IF k = 4 THEN 0 - u ELSE g) \in Int
    BY <1>1, <2>1
  <2>. QED
    BY <2>2, <2>3 DEF Keyed
<1>9. /\ q[1] = y[1] /\ q[2] = y[2] /\ q[3] = y[3] /\ q[4] = 0 - v /\ q[5] = h
  <2>1. q = [k \in 1..5 |-> IF k <= 3 THEN y[k] ELSE IF k = 4 THEN 0 - v ELSE h]
    BY <1>3, <1>4 DEF KeyOf
  <2>. HIDE DEF q
  <2>. QED
    BY <2>1
<1>. HIDE DEF p, q
<1>10. ASSUME NEW k \in 1..5 PROVE (a[k] > b[k] <=> p[k] > q[k]) /\ (a[k] = b[k] <=> p[k] = q[k])
  <2>1. k = 1 \/ k = 2 \/ k = 3 \/ k = 4 \/ k = 5
    OBVIOUS
  <2>2. (v > u <=> 0 - u > 0 - v) /\ (v = u <=> 0 - u = 0 - v)
    OBVIOUS
  <2>. QED
    BY <1>5, <1>6, <1>8, <1>9, <2>1, <2>2
<1>11. \A k \in 1..5 : \A j \in 1..(k - 1) : j \in 1..5
  OBVIOUS
<1>12. Above(groups, g, h) <=> Lex(p, q)
  BY <1>5, <1>7, <1>10, <1>11 DEF Lex
<1>. QED
  BY <1>8, <1>12 DEF p, q

-----------------------------------------------------------------------------
Higher(groups, others, g) == {h \in others : Above(groups, h, g)}

LEMMA HigherFacts ==
    ASSUME NEW groups \in Seq(Seq(MessageRecords)), NEW n \in Nat, n <= Len(groups),
           NEW g \in 1..n
    PROVE  /\ IsFiniteSet(Higher(groups, 1..n, g))
           /\ Cardinality(Higher(groups, 1..n, g)) \in 0..(n - 1)
           /\ g \notin Higher(groups, 1..n, g)
<1>. DEFINE H == Higher(groups, 1..n, g)
<1>1. g \in 1..Len(groups)
  OBVIOUS
<1>2. ~Above(groups, g, g)
  BY <1>1, AboveIsLex, LexIsStrict
<1>3. g \notin H /\ H \subseteq (1..n) \ {g}
  BY <1>2 DEF Higher
<1>. HIDE DEF H
<1>4. /\ IsFiniteSet((1..n) \ {g}) /\ Cardinality((1..n) \ {g}) = n - 1
  <2>1. 1 \in Int /\ n \in Int /\ ~(1 > n) /\ n - 1 + 1 = n
    OBVIOUS
  <2>2. IsFiniteSet(1..n) /\ Cardinality(1..n) = n
    BY <2>1, FS_Interval
  <2>3. g \in 1..n
    OBVIOUS
  <2>4. PICK D : D = (1..n) \ {g}
    OBVIOUS
  <2>5. IsFiniteSet(D) /\ Cardinality(D) = n - 1
    <3>1. /\ IsFiniteSet((1..n) \ {g})
          /\ Cardinality((1..n) \ {g}) = IF g \in 1..n THEN Cardinality(1..n) - 1
                                          ELSE Cardinality(1..n)
      BY <2>2, FS_RemoveElement
    <3>. QED
      BY <2>2, <2>3, <2>4, <3>1
  <2>. QED
    BY <2>4, <2>5
<1>5. IsFiniteSet(H) /\ Cardinality(H) <= n - 1
  <2>1. PICK D : D = (1..n) \ {g}
    OBVIOUS
  <2>2. IsFiniteSet(D) /\ Cardinality(D) = n - 1 /\ H \in SUBSET D
    BY <1>3, <1>4, <2>1
  <2>3. IsFiniteSet(H) /\ Cardinality(H) <= Cardinality(D)
    BY <2>2, FS_Subset
  <2>. QED
    BY <2>2, <2>3
<1>6. Cardinality(H) \in Nat
  BY <1>5, FS_CardinalityType
<1>7. Cardinality(H) \in 0..(n - 1)
  BY <1>5, <1>6
<1>. QED
  BY <1>3, <1>5, <1>7 DEF H

LEMMA HigherIsMore ==
    ASSUME NEW groups \in Seq(Seq(MessageRecords)), NEW n \in Nat, n <= Len(groups),
           NEW g \in 1..n, NEW h \in 1..n, Above(groups, g, h)
    PROVE  Cardinality(Higher(groups, 1..n, g)) # Cardinality(Higher(groups, 1..n, h))
<1>. DEFINE G == Higher(groups, 1..n, g)
            H == Higher(groups, 1..n, h)
<1>1. g \in 1..Len(groups) /\ h \in 1..Len(groups)
  OBVIOUS
<1>2. G \subseteq H
  <2>1. ASSUME NEW i \in 1..n, Above(groups, i, g) PROVE Above(groups, i, h)
    <3>1. i \in 1..Len(groups)
      OBVIOUS
    <3>2. /\ KeyOf(groups, i) \in Keyed /\ KeyOf(groups, g) \in Keyed
          /\ KeyOf(groups, h) \in Keyed
          /\ Lex(KeyOf(groups, i), KeyOf(groups, g))
          /\ Lex(KeyOf(groups, g), KeyOf(groups, h))
      BY <1>1, <2>1, <3>1, AboveIsLex
    <3>3. Lex(KeyOf(groups, i), KeyOf(groups, h))
      BY <3>2, LexIsTransitive
    <3>. QED
      BY <1>1, <3>1, <3>3, AboveIsLex
  <2>. QED
    BY <2>1 DEF Higher
<1>3. g \in H
  BY DEF Higher
<1>4. g \notin G /\ IsFiniteSet(H)
  BY HigherFacts
<1>. HIDE DEF G, H
<1>5. Cardinality(G) # Cardinality(H)
  BY <1>2, <1>3, <1>4, FS_Subset
<1>. QED
  BY <1>5 DEF G, H

\* Every place in the order is somebody's.
LEMMA EveryRank ==
    ASSUME NEW groups \in Seq(Seq(MessageRecords)), NEW n \in Nat, n <= Len(groups),
           NEW r \in 0..(n - 1)
    PROVE  \E g \in 1..n : Cardinality(Higher(groups, 1..n, g)) = r
<1>. DEFINE f == [g \in 1..n |-> Cardinality(Higher(groups, 1..n, g))]
<1>1. f \in [1..n -> 0..(n - 1)]
  BY HigherFacts
<1>2. ASSUME NEW g \in 1..n, NEW h \in 1..n, f[g] = f[h] PROVE g = h
  <2>1. SUFFICES ASSUME g # h PROVE FALSE
    OBVIOUS
  <2>2. g \in 1..Len(groups) /\ h \in 1..Len(groups)
    OBVIOUS
  <2>3. Above(groups, g, h) \/ Above(groups, h, g)
    <3>1. /\ KeyOf(groups, g) \in Keyed /\ KeyOf(groups, g)[5] = g
          /\ KeyOf(groups, h) \in Keyed /\ KeyOf(groups, h)[5] = h
      BY <2>2, AboveIsLex
    <3>2. Lex(KeyOf(groups, g), KeyOf(groups, h)) \/ Lex(KeyOf(groups, h), KeyOf(groups, g))
      BY <2>1, <3>1, LexIsTotal
    <3>. QED
      BY <2>2, <3>2, AboveIsLex
  <2>4. Cardinality(Higher(groups, 1..n, g)) = Cardinality(Higher(groups, 1..n, h))
    BY <1>2
  <2>. QED
    BY <2>3, <2>4, HigherIsMore
<1>. HIDE DEF f
<1>3. f \in Injection(1..n, 0..(n - 1))
  BY <1>1, <1>2 DEF Injection, IsInjective
<1>4. /\ IsFiniteSet(1..n) /\ IsFiniteSet(0..(n - 1))
      /\ Cardinality(1..n) = n /\ Cardinality(0..(n - 1)) = n
  <2>1. n \in Int /\ n - 1 \in Int /\ 1 \in Int /\ 0 \in Int
    OBVIOUS
  <2>2. /\ IsFiniteSet(1..n) /\ Cardinality(1..n) = IF 1 > n THEN 0 ELSE n - 1 + 1
        /\ IsFiniteSet(0..(n - 1))
        /\ Cardinality(0..(n - 1)) = IF 0 > n - 1 THEN 0 ELSE (n - 1) - 0 + 1
    BY <2>1, FS_Interval
  <2>. QED
    BY <2>2
<1>5. f \in Surjection(1..n, 0..(n - 1))
  BY <1>3, <1>4, FS_Injection
<1>6. \E g \in 1..n : f[g] = r
  BY <1>5 DEF Surjection
<1>. QED
  BY <1>6 DEF f

\* The groups are taken in an order of their own.
LEMMA OrderIsOfGroups ==
    ASSUME NEW groups \in Seq(Seq(MessageRecords))
    PROVE  /\ Len(TakingOrder(groups)) = Len(groups)
           /\ \A k \in 1..Len(groups) : TakingOrder(groups)[k] \in 1..Len(groups)
<1>1. PICK n \in Nat : n = Len(groups)
  OBVIOUS
<1>2. PICK order : order = TakingOrder(groups)
  OBVIOUS
<1>. DEFINE others == {g \in 1..n : g + 2 <= n}
            o(k) == CHOOSE g \in others :
                 Cardinality({h \in others : Above(groups, h, g)}) = k - 3
<1>3. order = [k \in 1..n |-> IF n = 1 THEN 1 ELSE IF k <= 2 THEN n - 2 + k ELSE o(k)]
  BY <1>1, <1>2 DEF TakingOrder
<1>4. ASSUME NEW k \in 1..n, k > 2 PROVE o(k) \in 1..n
  <2>1. PICK m \in Nat : m = n - 2
    BY <1>4
  <2>2. others = 1..m /\ m <= Len(groups) /\ k - 3 \in 0..(m - 1)
    BY <1>1, <1>4, <2>1
  <2>3. PICK g \in 1..m : Cardinality(Higher(groups, 1..m, g)) = k - 3
    BY <2>2, EveryRank
  <2>4. g \in others /\ Cardinality({h \in others : Above(groups, h, g)}) = k - 3
    BY <2>2, <2>3 DEF Higher
  <2>5. o(k) \in others
    <3>. DEFINE Q(x) == Cardinality({h \in others : Above(groups, h, x)}) = k - 3
    <3>1. \E x \in others : Q(x)
      BY <2>4
    <3>2. o(k) = CHOOSE x \in others : Q(x)
      OBVIOUS
    <3>. HIDE DEF Q, o, others
    <3>. QED
      BY <3>1, <3>2
  <2>. HIDE DEF o
  <2>. QED
    BY <2>5
<1>. HIDE DEF o
<1>5. \A k \in 1..n : order[k] \in 1..n
  <2>1. ASSUME NEW k \in 1..n PROVE order[k] \in 1..n
    <3>1. order[k] = IF n = 1 THEN 1 ELSE IF k <= 2 THEN n - 2 + k ELSE o(k)
      BY <1>3
    <3>2. CASE n = 1 \/ k > 2
      BY <1>4, <3>1, <3>2
    <3>3. CASE n # 1 /\ k <= 2
      BY <3>1, <3>3
    <3>. QED
      BY <3>2, <3>3
  <2>. QED
    BY <2>1
<1>6. Len(order) = n
  <2>1. order = [k \in 1..n |-> order[k]]
    BY <1>3
  <2>. QED
    BY <2>1, LenOfFunction
<1>. QED
  BY <1>1, <1>2, <1>5, <1>6

-----------------------------------------------------------------------------
(* What a joined list weighs, in characters or in messages. *)

\* A weight of a list of messages is the sum of the weights of its parts: its
\* size in characters, or its length.
Weighings == [Seq(MessageRecords) -> Nat]
Additive(F) ==
    /\ F[<<>>] = 0
    /\ \A s \in Seq(MessageRecords), t \in Seq(MessageRecords) : F[s \o t] = F[s] + F[t]

LEMMA SizeIsAdditive ==
    ASSUME NEW F, F = [s \in Seq(MessageRecords) |-> Size(s)]
    PROVE  F \in Weighings /\ Additive(F)
<1>1. F \in Weighings
  BY SizeIsNat DEF Weighings
<1>2. F[<<>>] = 0
  <2>1. <<>> \in Seq(MessageRecords)
    OBVIOUS
  <2>2. PICK v : v = [i \in DOMAIN <<>> |-> <<>>[i].size]
    OBVIOUS
  <2>3. v \in Seq(Nat) /\ Len(v) = 0
    BY <2>2
  <2>4. Total(v) = 0
    BY <2>3, SumsUpTo DEF Total
  <2>5. Size(<<>>) = 0
    BY <2>2, <2>4 DEF Size
  <2>. QED
    BY <2>1, <2>5
<1>3. ASSUME NEW s \in Seq(MessageRecords), NEW t \in Seq(MessageRecords)
      PROVE  F[s \o t] = F[s] + F[t]
  <2>1. s \o t \in Seq(MessageRecords)
    BY JoinedEntries
  <2>2. F[s \o t] = Size(s \o t) /\ F[s] = Size(s) /\ F[t] = Size(t)
    BY <2>1
  <2>. QED
    BY <2>2, SizeJoined
<1>. QED
  BY <1>1, <1>2, <1>3 DEF Additive

LEMMA LengthIsAdditive ==
    ASSUME NEW F, F = [s \in Seq(MessageRecords) |-> Len(s)]
    PROVE  F \in Weighings /\ Additive(F)
<1>1. F \in Weighings
  <2>1. \A s \in Seq(MessageRecords) : Len(s) \in Nat
    OBVIOUS
  <2>. QED
    BY <2>1 DEF Weighings
<1>2. F[<<>>] = 0
  <2>1. <<>> \in Seq(MessageRecords) /\ Len(<<>>) = 0
    OBVIOUS
  <2>. QED
    BY <2>1
<1>3. ASSUME NEW s \in Seq(MessageRecords), NEW t \in Seq(MessageRecords)
      PROVE  F[s \o t] = F[s] + F[t]
  <2>1. s \o t \in Seq(MessageRecords) /\ Len(s \o t) = Len(s) + Len(t)
    BY JoinedEntries
  <2>. QED
    BY <2>1
<1>. QED
  BY <1>1, <1>2, <1>3 DEF Additive

-----------------------------------------------------------------------------
\* The groups chosen, when there is none, one, and one more.
LEMMA NoneChosen ==
    ASSUME NEW groups \in Seq(Seq(MessageRecords)) PROVE AllOf(groups, {}) = <<>>
<1>. DEFINE a == JoinedUpTo(groups, {})
            P == {n \in 0..Len(groups) : a[n] = <<>>}
<1>1. a[0] = <<>> /\ \A n \in 1..Len(groups) : a[n] = a[n - 1]
  BY JoinedIs
<1>. HIDE DEF a
<1>2. 0 \in P
  BY <1>1
<1>3. ASSUME NEW n \in 1..Len(groups), n - 1 \in P PROVE n \in P
  BY <1>1, <1>3
<1>. HIDE DEF P
<1>4. 0..Len(groups) \subseteq P
  <2>1. Len(groups) \in Nat
    OBVIOUS
  <2>. QED
    BY <1>2, <1>3, <2>1, UpToLength
<1>5. Len(groups) \in 0..Len(groups)
  OBVIOUS
<1>6. a[Len(groups)] = <<>>
  BY <1>4, <1>5 DEF P
<1>. QED
  BY <1>6 DEF AllOf, a

LEMMA OneChosen ==
    ASSUME NEW groups \in Seq(Seq(MessageRecords)), NEW g \in 1..Len(groups)
    PROVE  AllOf(groups, {g}) = groups[g]
<1>. DEFINE a == JoinedUpTo(groups, {g})
            P == {n \in 0..Len(groups) : a[n] = IF n >= g THEN groups[g] ELSE <<>>}
<1>1. a[0] = <<>> /\ \A n \in 1..Len(groups) : a[n] = IF n = g THEN a[n - 1] \o groups[n]
                                                       ELSE a[n - 1]
  <2>1. \A n \in 1..Len(groups) : n \in {g} <=> n = g
    OBVIOUS
  <2>. QED
    BY <2>1, JoinedIs
<1>. HIDE DEF a
<1>2. 0 \in P
  BY <1>1
<1>3. ASSUME NEW n \in 1..Len(groups), n - 1 \in P PROVE n \in P
  <2>1. a[n - 1] = IF n - 1 >= g THEN groups[g] ELSE <<>>
    BY <1>3
  <2>2. CASE n = g
    <3>0. ~(n - 1 >= g)
      BY <2>2
    <3>1. a[n - 1] = <<>> /\ a[n] = a[n - 1] \o groups[n]
      BY <1>1, <2>1, <2>2, <3>0
    <3>2. <<>> \o groups[n] = groups[n]
      OBVIOUS
    <3>3. a[n] = groups[g] /\ n >= g
      BY <2>2, <3>1, <3>2
    <3>. QED
      BY <3>3
  <2>3. CASE n # g
    <3>1. a[n] = a[n - 1]
      BY <1>1, <2>3
    <3>2. n >= g <=> n - 1 >= g
      BY <2>3
    <3>. QED
      BY <2>1, <3>1, <3>2
  <2>. QED
    BY <2>2, <2>3
<1>. HIDE DEF P
<1>4. 0..Len(groups) \subseteq P
  <2>1. Len(groups) \in Nat
    OBVIOUS
  <2>. QED
    BY <1>2, <1>3, <2>1, UpToLength
<1>5. Len(groups) \in 0..Len(groups) /\ Len(groups) >= g
  OBVIOUS
<1>6. a[Len(groups)] = groups[g]
  BY <1>4, <1>5 DEF P
<1>. QED
  BY <1>6 DEF AllOf, a

LEMMA OneMore ==
    ASSUME NEW groups \in Seq(Seq(MessageRecords)), NEW g \in 1..Len(groups), NEW chosen,
           NEW F \in Weighings, Additive(F)
    PROVE  F[AllOf(groups, chosen \cup {g})] <= F[AllOf(groups, chosen)] + F[groups[g]]
<1>1. PICK w \in Nat : w = F[groups[g]]
  BY DEF Weighings
<1>2. PICK more : more = chosen \cup {g}
  OBVIOUS
<1>. DEFINE a == JoinedUpTo(groups, chosen)
            b == JoinedUpTo(groups, more)
            P == {n \in 0..Len(groups) : F[b[n]] <= F[a[n]] + (IF n >= g THEN w ELSE 0)}
<1>3. /\ a \in [0..Len(groups) -> Seq(MessageRecords)] /\ a[0] = <<>>
      /\ \A n \in 1..Len(groups) : a[n] = IF n \in chosen THEN a[n - 1] \o groups[n]
                                         ELSE a[n - 1]
  BY JoinedIs
<1>4. /\ b \in [0..Len(groups) -> Seq(MessageRecords)] /\ b[0] = <<>>
      /\ \A n \in 1..Len(groups) : b[n] = IF n \in more THEN b[n - 1] \o groups[n]
                                         ELSE b[n - 1]
  BY JoinedIs
<1>. HIDE DEF a, b
<1>5. 0 \in P
  <2>1. F[<<>>] = 0 /\ ~(0 >= g)
    BY DEF Additive
  <2>. QED
    BY <1>3, <1>4, <2>1
<1>6. ASSUME NEW n \in 1..Len(groups), n - 1 \in P PROVE n \in P
  <2>0. n - 1 \in 0..Len(groups)
    OBVIOUS
  <2>1. PICK x \in Seq(MessageRecords), y \in Seq(MessageRecords) : x = a[n - 1] /\ y = b[n - 1]
    BY <1>3, <1>4, <2>0
  <2>2. PICK l \in Seq(MessageRecords) : l = groups[n]
    OBVIOUS
  <2>3. PICK p \in Nat, q \in Nat, v \in Nat : p = F[x] /\ q = F[y] /\ v = F[l]
    BY DEF Weighings
  <2>4. q <= p + (IF n - 1 >= g THEN w ELSE 0)
    BY <1>6, <2>1, <2>3
  <2>5. F[x \o l] = p + v /\ F[y \o l] = q + v
    BY <2>3 DEF Additive
  <2>6. CASE n = g
    <3>1. F[b[n]] = q + v /\ v = w
      BY <1>1, <1>2, <1>4, <2>1, <2>2, <2>3, <2>5, <2>6
    <3>2. F[a[n]] = p + v \/ F[a[n]] = p
      BY <1>3, <2>1, <2>2, <2>3, <2>5
    <3>3. q <= p
      BY <2>4, <2>6
    <3>4. F[b[n]] <= F[a[n]] + w
      BY <3>1, <3>2, <3>3
    <3>. QED
      BY <2>6, <3>4
  <2>7. CASE n # g
    <3>1. n \in more <=> n \in chosen
      BY <1>2, <2>7
    <3>2. n >= g <=> n - 1 >= g
      BY <2>7
    <3>3. \/ F[b[n]] = q + v /\ F[a[n]] = p + v
          \/ F[b[n]] = q /\ F[a[n]] = p
      BY <1>3, <1>4, <2>1, <2>2, <2>3, <2>5, <3>1
    <3>4. PICK d \in Nat : d = (IF n >= g THEN w ELSE 0)
      OBVIOUS
    <3>5. q <= p + d
      BY <2>4, <3>2, <3>4
    <3>6. F[b[n]] <= F[a[n]] + d
      BY <3>3, <3>5
    <3>. QED
      BY <3>4, <3>6
  <2>. QED
    BY <2>6, <2>7
<1>. HIDE DEF P
<1>7. 0..Len(groups) \subseteq P
  <2>1. Len(groups) \in Nat
    OBVIOUS
  <2>. QED
    BY <1>5, <1>6, <2>1, UpToLength
<1>8. Len(groups) \in 0..Len(groups) /\ Len(groups) >= g
  OBVIOUS
<1>9. F[b[Len(groups)]] <= F[a[Len(groups)]] + w
  BY <1>7, <1>8 DEF P
<1>. QED
  BY <1>1, <1>2, <1>9 DEF AllOf, a, b

-----------------------------------------------------------------------------
(* What is taken fits its budget, but for a group that is taken alone. *)

LEMMA AllOfIsSeq ==
    ASSUME NEW groups \in Seq(Seq(MessageRecords)), NEW chosen
    PROVE  AllOf(groups, chosen) \in Seq(MessageRecords)
<1>1. JoinedUpTo(groups, chosen) \in [0..Len(groups) -> Seq(MessageRecords)]
  BY JoinedIs
<1>2. Len(groups) \in 0..Len(groups)
  OBVIOUS
<1>. QED
  BY <1>1, <1>2 DEF AllOf

\* An order of groups, and what the groups weigh.
OrderOf(order, groups) ==
    /\ Len(order) \in Nat
    /\ \A k \in 1..Len(order) : order[k] \in 1..Len(groups)
WeightsOf(weights, groups, F) == \A g \in 1..Len(groups) : weights[g] = F[groups[g]]

\* What is taken fits, but for a group that is taken alone.
LEMMA KeptFits ==
    ASSUME NEW groups \in Seq(Seq(MessageRecords)), NEW order, OrderOf(order, groups),
           NEW F \in Weighings, Additive(F), NEW limit \in Nat,
           NEW weights, WeightsOf(weights, groups, F)
    PROVE  \/ F[AllOf(groups, Kept(order, weights, limit))] <= limit
           \/ \E g \in 1..Len(groups) : AllOf(groups, Kept(order, weights, limit)) = groups[g]
<1>. DEFINE t == TakenUpTo(order, weights, limit)
            Alone(chosen) == \E g \in 1..Len(groups) : chosen = {g}
            Good(z) == /\ z.used \in Nat
                       /\ F[AllOf(groups, z.set)] <= z.used
                       /\ z.used <= limit \/ Alone(z.set)
            P == {n \in 0..Len(order) : Good(t[n])}
<1>0. Len(order) \in Nat /\ \A k \in 1..Len(order) : order[k] \in 1..Len(groups)
  BY DEF OrderOf
<1>1. /\ t[0] = [set |-> {}, used |-> 0]
      /\ \A n \in 1..Len(order) : t[n] = Taking(t[n - 1], order[n], weights[order[n]], limit)
  BY <1>0, TakenIs
<1>. HIDE DEF t
<1>2. 0 \in P
  <2>1. AllOf(groups, {}) = <<>> /\ F[<<>>] = 0
    BY NoneChosen DEF Additive
  <2>2. t[0].set = {} /\ t[0].used = 0
    BY <1>1
  <2>3. Good(t[0])
    BY <2>1, <2>2
  <2>. HIDE DEF Good
  <2>. QED
    BY <2>3
<1>3. ASSUME NEW n \in 1..Len(order), n - 1 \in P PROVE n \in P
  <2>1. PICK z : z = t[n - 1]
    OBVIOUS
  <2>2. Good(z)
    BY <1>3, <2>1
  <2>3. PICK g \in 1..Len(groups) : g = order[n]
    BY <1>0
  <2>4. PICK w \in Nat : w = F[groups[g]]
    <3>1. groups[g] \in Seq(MessageRecords)
      OBVIOUS
    <3>. QED
      BY <3>1 DEF Weighings
  <2>5. weights[order[n]] = w
    BY <2>3, <2>4 DEF WeightsOf
  <2>6. t[n] = Taking(z, g, w, limit)
    BY <1>1, <2>1, <2>3, <2>5
  <2>7. PICK chosen : chosen = z.set
    OBVIOUS
  <2>8. PICK u \in Nat : u = z.used
    BY <2>2
  <2>9. PICK x \in Nat : x = F[AllOf(groups, chosen)]
    <3>1. AllOf(groups, chosen) \in Seq(MessageRecords)
      BY AllOfIsSeq
    <3>. QED
      BY <3>1 DEF Weighings
  <2>10. x <= u
    BY <2>2, <2>7, <2>8, <2>9
  <2>11. CASE chosen # {} /\ u + w > limit
    <3>1. t[n] = z
      BY <2>6, <2>7, <2>8, <2>11 DEF Taking
    <3>. HIDE DEF Good
    <3>2. Good(t[n])
      BY <2>2, <3>1
    <3>. QED
      BY <3>2
  <2>12. CASE ~(chosen # {} /\ u + w > limit)
    <3>1. t[n] = [set |-> chosen \cup {g}, used |-> u + w]
      BY <2>6, <2>7, <2>8, <2>12 DEF Taking
    <3>2. t[n].set = chosen \cup {g} /\ t[n].used = u + w
      BY <3>1
    <3>3. PICK more : more = chosen \cup {g}
      OBVIOUS
    <3>4. F[AllOf(groups, more)] <= x + w
      BY <2>4, <2>9, <3>3, OneMore
    <3>5. PICK y \in Nat : y = F[AllOf(groups, more)]
      <4>1. AllOf(groups, more) \in Seq(MessageRecords)
        BY AllOfIsSeq
      <4>. QED
        BY <4>1 DEF Weighings
    <3>6. y <= u + w
      BY <2>10, <3>4, <3>5
    <3>7. u + w <= limit \/ Alone(more)
      <4>1. CASE chosen = {}
        <5>1. more = {g}
          BY <3>3, <4>1
        <5>. QED
          BY <5>1
      <4>2. CASE chosen # {}
        BY <2>12, <4>2
      <4>. QED
        BY <4>1, <4>2
    <3>8. Good(t[n])
      <4>. HIDE DEF Alone
      <4>. QED
        BY <3>2, <3>3, <3>5, <3>6, <3>7
    <3>. HIDE DEF Good
    <3>. QED
      BY <3>8
  <2>. QED
    BY <2>11, <2>12
<1>. HIDE DEF P
<1>4. 0..Len(order) \subseteq P
  BY <1>0, <1>2, <1>3, UpToLength
<1>5. Good(t[Len(order)])
  <2>1. Len(order) \in 0..Len(order)
    BY <1>0
  <2>. HIDE DEF Good
  <2>. QED
    BY <1>4, <2>1 DEF P
<1>6. PICK chosen : chosen = Kept(order, weights, limit) /\ chosen = t[Len(order)].set
  BY DEF Kept, t
<1>7. CASE Alone(chosen)
  <2>1. PICK g \in 1..Len(groups) : chosen = {g}
    BY <1>7
  <2>2. AllOf(groups, chosen) = groups[g]
    BY <2>1, OneChosen
  <2>. QED
    BY <1>6, <2>2
<1>8. CASE ~Alone(chosen)
  <2>. HIDE DEF Alone
  <2>1. PICK u \in Nat : u <= limit /\ F[AllOf(groups, chosen)] <= u
    BY <1>5, <1>6, <1>8
  <2>2. PICK x \in Nat : x = F[AllOf(groups, chosen)]
    <3>1. AllOf(groups, chosen) \in Seq(MessageRecords)
      BY AllOfIsSeq
    <3>. QED
      BY <3>1 DEF Weighings
  <2>3. x <= limit
    BY <2>1, <2>2
  <2>. QED
    BY <1>6, <2>2, <2>3
<1>. QED
  BY <1>7, <1>8

-----------------------------------------------------------------------------
LEMMA GroupsAreLists ==
    ASSUME NEW s \in Seq(MessageRecords) PROVE Groups(s) \in Seq(Seq(MessageRecords))
<1>1. GroupsUpTo(s) \in [0..Len(s) -> Seq(Seq(MessageRecords))] /\ Len(s) \in 0..Len(s)
  BY GroupsIs
<1>. QED
  BY <1>1 DEF Groups

LEMMA CountCappedFits ==
    ASSUME NEW s \in Seq(MessageRecords)
    PROVE  /\ CountCapped(s) \in Seq(MessageRecords)
           /\ \/ CountCapped(s) = s /\ Len(Others(s)) <= MaxMessages
              \/ \E rest \in Seq(MessageRecords) :
                    CountCapped(s) = Systems(s) \o rest /\ Len(rest) <= MaxMessages
              \/ \E group \in Seq(MessageRecords) :
                    /\ CountCapped(s) = Systems(s) \o group
                    /\ \E g \in 1..Len(Groups(Others(s))) : group = Groups(Others(s))[g]
<1>1. PICK others \in Seq(MessageRecords) : others = Others(s)
  BY OthersIsClean
<1>2. PICK system \in Seq(MessageRecords) : system = Systems(s)
  BY SystemsIsClean
<1>3. PICK all \in Seq(Seq(MessageRecords)) : all = Groups(others)
  BY GroupsAreLists
<1>4. PICK G : G = {all[g] : g \in 1..Len(all)}
  OBVIOUS
<1>5. all \in Seq(G)
  <2>1. PICK n \in Nat : n = Len(all) /\ DOMAIN all = 1..n
    OBVIOUS
  <2>2. all = [g \in 1..n |-> all[g]] /\ \A g \in 1..n : all[g] \in G
    BY <1>4, <2>1
  <2>3. all \in [1..n -> G]
    BY <2>2
  <2>. QED
    BY <2>3, SeqDef
<1>6. PICK groups \in Seq(G) : groups = Recent(all)
  BY <1>5, RecentIsEnd
<1>7. groups \in Seq(Seq(MessageRecords)) /\ \A g \in 1..Len(groups) : groups[g] \in G
  <2>1. G \subseteq Seq(MessageRecords)
    BY <1>4
  <2>. QED
    BY <2>1
<1>8. PICK n \in Nat : n = Len(groups) /\ DOMAIN groups = 1..n
  BY <1>7
<1>9. PICK order : order = [i \in DOMAIN groups |-> Len(groups) + 1 - i]
  OBVIOUS
<1>10. Len(order) = n /\ \A k \in 1..n : order[k] \in 1..n
  <2>1. order = [k \in 1..n |-> n + 1 - k]
    BY <1>8, <1>9
  <2>2. \A k \in 1..n : order[k] \in 1..n
    BY <2>1
  <2>3. order = [k \in 1..n |-> order[k]]
    BY <2>1
  <2>. QED
    BY <2>2, <2>3, LenOfFunction
<1>11. PICK weights : weights = [i \in DOMAIN groups |-> Len(groups[i])]
  OBVIOUS
<1>12. PICK F : F = [l \in Seq(MessageRecords) |-> Len(l)]
  OBVIOUS
<1>13. F \in Weighings /\ Additive(F)
  BY <1>12, LengthIsAdditive
<1>14. WeightsOf(weights, groups, F)
  <2>1. \A g \in 1..n : groups[g] \in Seq(MessageRecords)
    BY <1>7, <1>8
  <2>. QED
    BY <1>8, <1>11, <1>12, <2>1 DEF WeightsOf
<1>15. MaxMessages \in Nat
  BY BudgetAssumption
<1>16. PICK rest \in Seq(MessageRecords) : rest = AllOf(groups, Kept(order, weights, MaxMessages))
  BY <1>7, AllOfIsSeq
<1>17. F[rest] <= MaxMessages \/ \E g \in 1..Len(groups) : rest = groups[g]
  <2>1. OrderOf(order, groups)
    BY <1>8, <1>10 DEF OrderOf
  <2>2. groups \in Seq(Seq(MessageRecords))
    BY <1>7
  <2>3. PICK limit \in Nat : limit = MaxMessages
    BY <1>15
  <2>4. \/ F[AllOf(groups, Kept(order, weights, limit))] <= limit
        \/ \E g \in 1..Len(groups) : AllOf(groups, Kept(order, weights, limit)) = groups[g]
    BY <1>13, <1>14, <2>1, <2>2, KeptFits
  <2>. QED
    BY <1>16, <2>3, <2>4
<1>18. Len(rest) <= MaxMessages \/ \E g \in 1..Len(all) : rest = all[g]
  <2>1. F[rest] = Len(rest)
    BY <1>12
  <2>. QED
    BY <1>4, <1>7, <1>17, <2>1
<1>19. CountCapped(s) = IF Len(others) <= MaxMessages THEN s ELSE system \o rest
  BY <1>1, <1>2, <1>3, <1>6, <1>9, <1>11, <1>16 DEF CountCapped, Trimmed
<1>20. system \o rest \in Seq(MessageRecords)
  BY JoinedEntries
<1>. QED
  BY <1>1, <1>2, <1>3, <1>18, <1>19, <1>20

LEMMA TotalCappedFits ==
    ASSUME NEW s \in Seq(MessageRecords)
    PROVE  /\ TotalCapped(s) \in Seq(MessageRecords)
           /\ \/ Size(TotalCapped(s)) <= MaxTotal
              \/ TotalCapped(s) = Systems(s)
              \/ \E g \in 1..Len(Groups(Others(s))) :
                    TotalCapped(s) = Systems(s) \o Groups(Others(s))[g]
<1>1. PICK others \in Seq(MessageRecords) : others = Others(s)
  BY OthersIsClean
<1>2. PICK system \in Seq(MessageRecords) : system = Systems(s)
  BY SystemsIsClean
<1>3. PICK groups \in Seq(Seq(MessageRecords)) : groups = Groups(others)
  BY GroupsAreLists
<1>4. PICK order : order = TakingOrder(groups)
  OBVIOUS
<1>5. OrderOf(order, groups)
  <2>1. Len(groups) \in Nat
    OBVIOUS
  <2>. QED
    BY <1>4, <2>1, OrderIsOfGroups DEF OrderOf
<1>6. PICK weights : weights = [i \in DOMAIN groups |-> Size(groups[i])]
  OBVIOUS
<1>7. PICK F : F = [l \in Seq(MessageRecords) |-> Size(l)]
  OBVIOUS
<1>8. F \in Weighings /\ Additive(F)
  BY <1>7, SizeIsAdditive
<1>9. WeightsOf(weights, groups, F)
  <2>1. \A g \in 1..Len(groups) : g \in DOMAIN groups /\ groups[g] \in Seq(MessageRecords)
    OBVIOUS
  <2>. QED
    BY <1>6, <1>7, <2>1 DEF WeightsOf
<1>10. PICK size \in Nat, all \in Nat, total \in Nat :
          size = Size(system) /\ all = Size(s) /\ total = MaxTotal
  BY SizeIsNat, BudgetAssumption
<1>11. CASE all <= total
  <2>1. TotalCapped(s) = s
    BY <1>10, <1>11 DEF TotalCapped
  <2>. QED
    BY <1>10, <1>11, <2>1
<1>12. CASE ~(all <= total) /\ size >= total
  <2>1. TotalCapped(s) = system
    BY <1>2, <1>10, <1>12 DEF TotalCapped
  <2>. QED
    BY <1>2, <2>1
<1>13. CASE ~(all <= total) /\ ~(size >= total)
  <2>1. PICK limit \in Nat : limit = total - size
    BY <1>13
  <2>2. PICK rest \in Seq(MessageRecords) : rest = AllOf(groups, Kept(order, weights, limit))
    BY AllOfIsSeq
  <2>3. F[rest] <= limit \/ \E g \in 1..Len(groups) : rest = groups[g]
    <3>1. \/ F[AllOf(groups, Kept(order, weights, limit))] <= limit
          \/ \E g \in 1..Len(groups) : AllOf(groups, Kept(order, weights, limit)) = groups[g]
      BY <1>5, <1>8, <1>9, KeptFits
    <3>. QED
      BY <2>2, <3>1
  <2>4. TotalCapped(s) = system \o rest
    BY <1>1, <1>2, <1>3, <1>4, <1>6, <1>10, <1>13, <2>1, <2>2 DEF TotalCapped, Trimmed
  <2>5. system \o rest \in Seq(MessageRecords)
    BY JoinedEntries
  <2>6. Size(system \o rest) = size + Size(rest) /\ Size(rest) \in Nat
    BY <1>10, SizeJoined, SizeIsNat
  <2>7. CASE F[rest] <= limit
    <3>1. Size(rest) <= limit
      BY <1>7, <2>7
    <3>2. Size(system \o rest) <= MaxTotal
      BY <1>10, <2>1, <2>6, <3>1
    <3>. QED
      BY <2>4, <2>5, <3>2
  <2>8. CASE \E g \in 1..Len(groups) : rest = groups[g]
    BY <1>1, <1>2, <1>3, <2>4, <2>5, <2>8
  <2>. QED
    BY <2>3, <2>7, <2>8
<1>. QED
  BY <1>11, <1>12, <1>13

-----------------------------------------------------------------------------
(* The system's messages of a list. *)

\* The messages of the system, one after the other.
SystemUpTo(s) == JoinedUpTo([i \in DOMAIN s |-> <<s[i]>>], {i \in DOMAIN s : IsSystem(s[i])})

LEMMA SystemsStep ==
    ASSUME NEW s \in Seq(MessageRecords)
    PROVE  /\ SystemUpTo(s) \in [0..Len(s) -> Seq(MessageRecords)]
           /\ SystemUpTo(s)[0] = <<>>
           /\ \A n \in 1..Len(s) :
                 SystemUpTo(s)[n] = IF IsSystem(s[n]) THEN SystemUpTo(s)[n - 1] \o <<s[n]>>
                                    ELSE SystemUpTo(s)[n - 1]
           /\ Systems(s) = SystemUpTo(s)[Len(s)]
<1>1. PICK m \in Nat : m = Len(s) /\ DOMAIN s = 1..m
  OBVIOUS
<1>2. PICK lists : lists = [i \in DOMAIN s |-> <<s[i]>>]
  OBVIOUS
<1>3. PICK chosen : chosen = {i \in DOMAIN s : IsSystem(s[i])}
  OBVIOUS
<1>4. lists \in Seq(Seq(MessageRecords)) /\ Len(lists) = m
  <2>1. \A i \in 1..m : <<s[i]>> \in Seq(MessageRecords)
    BY <1>1
  <2>2. lists = [i \in 1..m |-> <<s[i]>>]
    BY <1>1, <1>2
  <2>3. lists \in [1..m -> Seq(MessageRecords)]
    BY <2>1, <2>2
  <2>4. lists \in Seq(Seq(MessageRecords))
    BY <2>3, SeqDef
  <2>5. lists = [i \in 1..m |-> lists[i]]
    BY <2>2
  <2>. QED
    BY <2>4, <2>5, LenOfFunction
<1>5. \A n \in 1..m : lists[n] = <<s[n]>> /\ (n \in chosen <=> IsSystem(s[n]))
  BY <1>1, <1>2, <1>3
<1>6. SystemUpTo(s) = JoinedUpTo(lists, chosen)
  BY <1>2, <1>3 DEF SystemUpTo
<1>7. /\ JoinedUpTo(lists, chosen) \in [0..m -> Seq(MessageRecords)]
      /\ JoinedUpTo(lists, chosen)[0] = <<>>
      /\ \A n \in 1..m :
            JoinedUpTo(lists, chosen)[n] =
              (IF n \in chosen THEN JoinedUpTo(lists, chosen)[n - 1] \o lists[n]
               ELSE JoinedUpTo(lists, chosen)[n - 1])
  <2>1. lists \in Seq(Seq(MessageRecords))
    BY <1>4
  <2>2. /\ JoinedUpTo(lists, chosen) \in [0..Len(lists) -> Seq(MessageRecords)]
        /\ JoinedUpTo(lists, chosen)[0] = <<>>
        /\ \A n \in 1..Len(lists) :
              JoinedUpTo(lists, chosen)[n] =
                (IF n \in chosen THEN JoinedUpTo(lists, chosen)[n - 1] \o lists[n]
                 ELSE JoinedUpTo(lists, chosen)[n - 1])
    BY <2>1, JoinedIs
  <2>. QED
    BY <1>4, <2>2
<1>8. Systems(s) = JoinedUpTo(lists, chosen)[m]
  BY <1>2, <1>3, <1>4 DEF Systems, Only, AllOf
<1>. QED
  BY <1>1, <1>5, <1>6, <1>7, <1>8

LEMMA SystemsJoined ==
    ASSUME NEW s \in Seq(MessageRecords), NEW t \in Seq(MessageRecords)
    PROVE  Systems(s \o t) = Systems(s) \o Systems(t)
<1>1. PICK a \in Nat, b \in Nat : a = Len(s) /\ b = Len(t)
  OBVIOUS
<1>2. PICK u \in Seq(MessageRecords) : u = s \o t
  BY JoinedEntries
<1>3. /\ Len(u) = a + b
      /\ \A i \in 1..a : u[i] = s[i]
      /\ \A i \in 1..b : u[a + i] = t[i]
  BY <1>1, <1>2, JoinedEntries
<1>. DEFINE f == SystemUpTo(s)
            g == SystemUpTo(t)
            h == SystemUpTo(u)
<1>4. /\ f \in [0..a -> Seq(MessageRecords)] /\ f[0] = <<>> /\ Systems(s) = f[a]
      /\ \A n \in 1..a : f[n] = IF IsSystem(s[n]) THEN f[n - 1] \o <<s[n]>> ELSE f[n - 1]
  BY <1>1, SystemsStep
<1>5. /\ g \in [0..b -> Seq(MessageRecords)] /\ g[0] = <<>> /\ Systems(t) = g[b]
      /\ \A n \in 1..b : g[n] = IF IsSystem(t[n]) THEN g[n - 1] \o <<t[n]>> ELSE g[n - 1]
  BY <1>1, SystemsStep
<1>6. /\ h \in [0..(a + b) -> Seq(MessageRecords)] /\ h[0] = <<>> /\ Systems(u) = h[a + b]
      /\ \A n \in 1..(a + b) : h[n] = IF IsSystem(u[n]) THEN h[n - 1] \o <<u[n]>> ELSE h[n - 1]
  BY <1>3, SystemsStep
<1>. HIDE DEF f, g, h
<1>7. h[a] = f[a]
  <2>. DEFINE P == {n \in 0..a : h[n] = f[n]}
  <2>1. 0 \in P
    BY <1>4, <1>6
  <2>2. ASSUME NEW n \in 1..a, n - 1 \in P PROVE n \in P
    <3>1. n \in 1..(a + b) /\ u[n] = s[n] /\ h[n - 1] = f[n - 1]
      BY <1>3, <2>2
    <3>2. h[n] = IF IsSystem(u[n]) THEN h[n - 1] \o <<u[n]>> ELSE h[n - 1]
      BY <1>6, <3>1
    <3>3. f[n] = IF IsSystem(s[n]) THEN f[n - 1] \o <<s[n]>> ELSE f[n - 1]
      BY <1>4
    <3>4. h[n] = f[n]
      BY <3>1, <3>2, <3>3
    <3>. QED
      BY <3>4
  <2>. HIDE DEF P
  <2>3. 0..a \subseteq P
    BY <2>1, <2>2, UpToLength
  <2>4. a \in P
    BY <2>3
  <2>. QED
    BY <2>4 DEF P
<1>8. h[a + b] = f[a] \o g[b]
  <2>. DEFINE P == {n \in 0..b : h[a + n] = f[a] \o g[n]}
  <2>0. PICK x \in Seq(MessageRecords) : x = f[a]
    BY <1>4
  <2>1. 0 \in P
    <3>1. x \o <<>> = x
      OBVIOUS
    <3>2. a + 0 = a
      OBVIOUS
    <3>3. h[a + 0] = f[a] \o g[0]
      BY <1>5, <1>7, <2>0, <3>1, <3>2
    <3>4. 0 \in 0..b
      OBVIOUS
    <3>. QED
      BY <3>3, <3>4, Zenon
  <2>2. ASSUME NEW n \in 1..b, n - 1 \in P PROVE n \in P
    <3>1. /\ a + n \in 1..(a + b) /\ (a + n) - 1 = a + (n - 1) /\ n - 1 \in 0..b
          /\ u[a + n] = t[n]
      BY <1>3
    <3>2. h[a + (n - 1)] = f[a] \o g[n - 1]
      BY <2>2
    <3>3. PICK y \in Seq(MessageRecords) : y = g[n - 1]
      BY <1>5, <3>1
    <3>4. PICK m \in MessageRecords : m = t[n]
      BY <1>1
    <3>5. h[a + n] = IF IsSystem(m) THEN h[a + (n - 1)] \o <<m>> ELSE h[a + (n - 1)]
      BY <1>6, <3>1, <3>4
    <3>6. g[n] = IF IsSystem(m) THEN y \o <<m>> ELSE y
      BY <1>5, <3>3, <3>4
    <3>7. (x \o y) \o <<m>> = x \o (y \o <<m>>)
      <4>1. <<m>> \in Seq(MessageRecords)
        OBVIOUS
      <4>. QED
        BY <4>1, ConcatAssociative
    <3>8. h[a + n] = f[a] \o g[n]
      <4>1. h[a + (n - 1)] = x \o y
        BY <2>0, <3>2, <3>3
      <4>2. CASE IsSystem(m)
        <5>1. h[a + n] = (x \o y) \o <<m>>
          BY <3>5, <4>1, <4>2
        <5>2. g[n] = y \o <<m>>
          BY <3>6, <4>2
        <5>. QED
          BY <2>0, <3>7, <5>1, <5>2
      <4>3. CASE ~IsSystem(m)
        <5>1. h[a + n] = x \o y
          BY <3>5, <4>1, <4>3
        <5>2. g[n] = y
          BY <3>6, <4>3
        <5>. QED
          BY <2>0, <5>1, <5>2
      <4>. QED
        BY <4>2, <4>3
    <3>9. n \in 0..b
      OBVIOUS
    <3>. QED
      BY <3>8, <3>9, Zenon
  <2>. HIDE DEF P
  <2>3. 0..b \subseteq P
    BY <2>1, <2>2, UpToLength
  <2>4. b \in P
    BY <2>3
  <2>. QED
    BY <2>4 DEF P
<1>. QED
  BY <1>2, <1>4, <1>5, <1>6, <1>8

\* Among other messages there is none of them, and they are all of themselves.
NoSystem(s) == \A i \in 1..Len(s) : ~IsSystem(s[i])

LEMMA SystemsOfNone ==
    ASSUME NEW s \in Seq(MessageRecords), NoSystem(s) PROVE Systems(s) = <<>>
<1>. DEFINE f == SystemUpTo(s)
            P == {n \in 0..Len(s) : f[n] = <<>>}
<1>1. /\ f[0] = <<>> /\ Systems(s) = f[Len(s)]
      /\ \A n \in 1..Len(s) : f[n] = f[n - 1]
  BY SystemsStep DEF NoSystem
<1>. HIDE DEF f
<1>2. 0 \in P /\ \A n \in 1..Len(s) : n - 1 \in P => n \in P
  BY <1>1
<1>. HIDE DEF P
<1>3. Len(s) \in Nat /\ Len(s) \in 0..Len(s)
  OBVIOUS
<1>4. 0..Len(s) \subseteq P
  BY <1>2, <1>3, UpToLength
<1>5. f[Len(s)] = <<>>
  BY <1>3, <1>4 DEF P
<1>. QED
  BY <1>1, <1>5

LEMMA SystemsOfOne ==
    ASSUME NEW m \in MessageRecords
    PROVE  Systems(<<m>>) = IF IsSystem(m) THEN <<m>> ELSE <<>>
<1>1. PICK one \in Seq(MessageRecords) : one = <<m>> /\ Len(one) = 1 /\ one[1] = m
  <2>1. <<m>> \in Seq(MessageRecords) /\ Len(<<m>>) = 1 /\ <<m>>[1] = m
    OBVIOUS
  <2>. QED
    BY <2>1
<1>2. SystemUpTo(one)[0] = <<>> /\ Systems(one) = SystemUpTo(one)[1]
  BY <1>1, SystemsStep
<1>3. 1 \in 1..Len(one) /\ 1 - 1 = 0
  BY <1>1
<1>4. SystemUpTo(one)[1] = IF IsSystem(one[1]) THEN SystemUpTo(one)[1 - 1] \o <<one[1]>>
                           ELSE SystemUpTo(one)[1 - 1]
  BY <1>3, SystemsStep
<1>5. <<>> \o <<m>> = <<m>>
  OBVIOUS
<1>. QED
  BY <1>1, <1>2, <1>3, <1>4, <1>5

LEMMA SystemsOfSystems ==
    ASSUME NEW s \in Seq(MessageRecords) PROVE Systems(Systems(s)) = Systems(s)
<1>. DEFINE f == SystemUpTo(s)
            P == {n \in 0..Len(s) : Systems(f[n]) = f[n]}
<1>1. /\ f \in [0..Len(s) -> Seq(MessageRecords)]
      /\ f[0] = <<>> /\ Systems(s) = f[Len(s)]
      /\ \A n \in 1..Len(s) : f[n] = IF IsSystem(s[n]) THEN f[n - 1] \o <<s[n]>> ELSE f[n - 1]
  BY SystemsStep
<1>. HIDE DEF f
<1>2. 0 \in P
  <2>1. <<>> \in Seq(MessageRecords) /\ NoSystem(<<>>)
    BY DEF NoSystem
  <2>. QED
    BY <1>1, <2>1, SystemsOfNone
<1>3. ASSUME NEW n \in 1..Len(s), n - 1 \in P PROVE n \in P
  <2>1. PICK x \in Seq(MessageRecords) : x = f[n - 1] /\ Systems(x) = x
    <3>1. n - 1 \in 0..Len(s)
      OBVIOUS
    <3>. QED
      BY <1>1, <1>3, <3>1
  <2>2. PICK m \in MessageRecords : m = s[n]
    OBVIOUS
  <2>3. CASE ~IsSystem(m)
    <3>1. f[n] = x
      BY <1>1, <2>1, <2>2, <2>3
    <3>. QED
      BY <2>1, <3>1
  <2>4. CASE IsSystem(m)
    <3>1. f[n] = x \o <<m>>
      BY <1>1, <2>1, <2>2, <2>4
    <3>2. PICK one \in Seq(MessageRecords) : one = <<m>> /\ Len(one) = 1 /\ one[1] = m
      <4>1. <<m>> \in Seq(MessageRecords) /\ Len(<<m>>) = 1 /\ <<m>>[1] = m
        OBVIOUS
      <4>. QED
        BY <4>1
    <3>3. Systems(one) = <<m>>
      BY <2>4, <3>2, SystemsOfOne
    <3>4. Systems(x \o one) = Systems(x) \o Systems(one)
      BY SystemsJoined
    <3>5. Systems(f[n]) = f[n]
      BY <2>1, <3>1, <3>2, <3>3, <3>4
    <3>. QED
      BY <3>5
  <2>. QED
    BY <2>3, <2>4
<1>. HIDE DEF P
<1>4. Len(s) \in Nat /\ Len(s) \in 0..Len(s)
  OBVIOUS
<1>5. 0..Len(s) \subseteq P
  BY <1>2, <1>3, <1>4, UpToLength
<1>6. Systems(f[Len(s)]) = f[Len(s)]
  BY <1>4, <1>5 DEF P
<1>. QED
  BY <1>1, <1>6

-----------------------------------------------------------------------------
(* _sanitize_tool_message_structure loses none of them. *)

LEMMA NoSystemJoined ==
    ASSUME NEW s \in Seq(MessageRecords), NEW t \in Seq(MessageRecords),
           NoSystem(s), NoSystem(t)
    PROVE  NoSystem(s \o t)
<1>1. PICK a \in Nat, b \in Nat : a = Len(s) /\ b = Len(t)
  OBVIOUS
<1>2. PICK u \in Seq(MessageRecords) : u = s \o t
  BY JoinedEntries
<1>3. /\ Len(u) = a + b
      /\ \A i \in 1..a : u[i] = s[i]
      /\ \A i \in 1..b : u[a + i] = t[i]
  BY <1>1, <1>2, JoinedEntries
<1>4. ASSUME NEW i \in 1..(a + b) PROVE ~IsSystem(u[i])
  <2>1. CASE i <= a
    <3>1. i \in 1..a
      BY <2>1
    <3>. QED
      BY <1>1, <1>3, <3>1 DEF NoSystem
  <2>2. CASE ~(i <= a)
    <3>1. PICK k \in 1..b : a + k = i
      <4>1. i - a \in 1..b /\ a + (i - a) = i
        BY <2>2
      <4>. QED
        BY <4>1
    <3>. QED
      BY <1>1, <1>3, <3>1 DEF NoSystem
  <2>. QED
    BY <2>1, <2>2
<1>5. NoSystem(u)
  BY <1>3, <1>4 DEF NoSystem
<1>. QED
  BY <1>2, <1>5

LEMMA NoSystemOfOne ==
    ASSUME NEW m \in MessageRecords, ~IsSystem(m)
    PROVE  <<m>> \in Seq(MessageRecords) /\ NoSystem(<<m>>)
BY DEF NoSystem

-----------------------------------------------------------------------------
\* What a held carrier and its results may lose is none of the system's.
HeldApart(held) == NoSystem(held.carrier) /\ NoSystem(held.results)

LEMMA FlushedKeepsSystems ==
    ASSUME NEW held \in HeldRecords, HeldApart(held)
    PROVE  Systems(Flushed(held)) = Systems(held.out)
<1>1. PICK o \in Seq(MessageRecords), c \in Seq(MessageRecords), r \in Seq(MessageRecords) :
         o = held.out /\ c = held.carrier /\ r = held.results
  BY DEF HeldRecords
<1>2. NoSystem(c) /\ NoSystem(r)
  BY <1>1 DEF HeldApart
<1>3. Systems(c) = <<>> /\ Systems(r) = <<>>
  BY <1>2, SystemsOfNone
<1>4. PICK oc \in Seq(MessageRecords) : oc = o \o c
  BY JoinedEntries
<1>5. PICK x \in Seq(MessageRecords) : x = Systems(o)
  BY SystemsIsClean
<1>6. x \o <<>> = x
  OBVIOUS
<1>7. Systems(oc) = x
  BY <1>3, <1>4, <1>5, <1>6, SystemsJoined
<1>8. Systems(oc \o r) = x
  BY <1>3, <1>6, <1>7, SystemsJoined
<1>9. Flushed(held) \in {o, oc, oc \o r}
  BY <1>1, <1>4 DEF Flushed
<1>. QED
  BY <1>1, <1>5, <1>7, <1>8, <1>9

LEMMA SanitizingKeepsSystems ==
    ASSUME NEW held \in HeldRecords, HeldApart(held), NEW m \in MessageRecords
    PROVE  /\ HeldApart(Sanitizing(held, m))
           /\ Systems(Sanitizing(held, m).out) =
                 IF IsSystem(m) THEN Systems(held.out) \o <<m>> ELSE Systems(held.out)
<1>1. PICK new : new = Sanitizing(held, m)
  OBVIOUS
<1>2. PICK f \in Seq(MessageRecords) : f = Flushed(held) /\ Systems(f) = Systems(held.out)
  BY FlushedIsSeq, FlushedKeepsSystems
<1>3. NoSystem(<<>>)
  BY DEF NoSystem
<1>4. CASE IsCarrier(m)
  <2>0. m.role = "assistant"
    BY <1>4 DEF MessageRecords
  <2>1. ~IsSystem(m) /\ m.role # "tool"
    BY <2>0 DEF IsSystem
  <2>2. new = [out |-> f, carrier |-> <<m>>, results |-> <<>>]
    BY <1>1, <1>2, <1>4, <2>1 DEF Sanitizing
  <2>3. new.out = f /\ new.carrier = <<m>> /\ new.results = <<>>
    BY <2>2
  <2>4. NoSystem(<<m>>)
    BY <2>1, NoSystemOfOne
  <2>5. HeldApart(new)
    BY <1>3, <2>3, <2>4 DEF HeldApart
  <2>. QED
    BY <1>1, <1>2, <2>1, <2>3, <2>5
<1>5. CASE ~IsCarrier(m) /\ m.role = "tool"
  <2>1. ~IsSystem(m)
    BY <1>5 DEF IsSystem
  <2>2. PICK r \in Seq(MessageRecords) : r = held.results
    BY DEF HeldRecords
  <2>3. /\ new.out = held.out /\ new.carrier = held.carrier
        /\ new.results \in {r, Append(r, m)}
    <3>1. new = IF Awaited(held, m) THEN [held EXCEPT !.results = Append(@, m)] ELSE held
      BY <1>1, <1>5 DEF Sanitizing
    <3>. QED
      BY <2>2, <3>1 DEF HeldRecords
  <2>4. NoSystem(r) /\ NoSystem(Append(r, m))
    <3>1. NoSystem(r)
      BY <2>2 DEF HeldApart
    <3>2. <<m>> \in Seq(MessageRecords) /\ NoSystem(<<m>>)
      BY <2>1, NoSystemOfOne
    <3>3. Append(r, m) = r \o <<m>>
      OBVIOUS
    <3>4. NoSystem(r \o <<m>>)
      BY <3>1, <3>2, NoSystemJoined
    <3>. QED
      BY <3>1, <3>3, <3>4
  <2>5. HeldApart(new)
    BY <2>3, <2>4 DEF HeldApart
  <2>. QED
    BY <1>1, <2>1, <2>3, <2>5
<1>6. CASE ~IsCarrier(m) /\ m.role # "tool"
  <2>1. new = [out |-> Append(f, m), carrier |-> <<>>, results |-> <<>>]
    BY <1>1, <1>2, <1>6 DEF Sanitizing
  <2>2. new.out = Append(f, m) /\ HeldApart(new)
    BY <1>3, <2>1 DEF HeldApart
  <2>3. PICK one \in Seq(MessageRecords) : one = <<m>>
    <3>1. <<m>> \in Seq(MessageRecords)
      OBVIOUS
    <3>. QED
      BY <3>1
  <2>4. Append(f, m) = f \o one
    BY <2>3
  <2>5. Systems(f \o one) = Systems(f) \o Systems(one)
    BY SystemsJoined
  <2>6. Systems(one) = IF IsSystem(m) THEN <<m>> ELSE <<>>
    BY <2>3, SystemsOfOne
  <2>7. PICK x \in Seq(MessageRecords) : x = Systems(f)
    BY SystemsIsClean
  <2>8. x \o <<>> = x
    OBVIOUS
  <2>9. Systems(new.out) = IF IsSystem(m) THEN x \o <<m>> ELSE x
    BY <2>2, <2>4, <2>5, <2>6, <2>7, <2>8
  <2>. QED
    BY <1>1, <1>2, <2>2, <2>7, <2>9
<1>. QED
  BY <1>4, <1>5, <1>6

LEMMA SanitizedKeepsSystems ==
    ASSUME NEW s \in Seq(MessageRecords) PROVE Systems(Sanitized(s)) = Systems(s)
<1>. DEFINE f == SystemUpTo(s)
            held == HeldUpTo(s)
            P == {n \in 0..Len(s) : HeldApart(held[n]) /\ Systems(held[n].out) = f[n]}
<1>1. /\ f[0] = <<>> /\ Systems(s) = f[Len(s)]
      /\ \A n \in 1..Len(s) : f[n] = IF IsSystem(s[n]) THEN f[n - 1] \o <<s[n]>> ELSE f[n - 1]
  BY SystemsStep
<1>2. /\ held \in [0..Len(s) -> HeldRecords]
      /\ held[0] = [out |-> <<>>, carrier |-> <<>>, results |-> <<>>]
      /\ \A n \in 1..Len(s) : held[n] = Sanitizing(held[n - 1], s[n])
  BY HeldIs
<1>. HIDE DEF f, held
<1>3. 0 \in P
  <2>1. held[0].out = <<>> /\ held[0].carrier = <<>> /\ held[0].results = <<>>
    BY <1>2
  <2>2. <<>> \in Seq(MessageRecords) /\ NoSystem(<<>>)
    BY DEF NoSystem
  <2>3. Systems(<<>>) = <<>>
    BY <2>2, SystemsOfNone
  <2>4. HeldApart(held[0]) /\ Systems(held[0].out) = f[0]
    BY <1>1, <2>1, <2>2, <2>3 DEF HeldApart
  <2>. QED
    BY <2>4
<1>4. ASSUME NEW n \in 1..Len(s), n - 1 \in P PROVE n \in P
  <2>1. PICK z \in HeldRecords : z = held[n - 1]
    <3>1. n - 1 \in 0..Len(s)
      OBVIOUS
    <3>. QED
      BY <1>2, <3>1
  <2>2. PICK m \in MessageRecords : m = s[n]
    OBVIOUS
  <2>3. HeldApart(z) /\ Systems(z.out) = f[n - 1]
    BY <1>4, <2>1
  <2>4. held[n] = Sanitizing(z, m)
    BY <1>2, <2>1, <2>2
  <2>5. /\ HeldApart(held[n])
        /\ Systems(held[n].out) = IF IsSystem(m) THEN Systems(z.out) \o <<m>> ELSE Systems(z.out)
    BY <2>3, <2>4, SanitizingKeepsSystems
  <2>6. Systems(held[n].out) = f[n]
    BY <1>1, <2>2, <2>3, <2>5
  <2>7. n \in 0..Len(s)
    OBVIOUS
  <2>. QED
    BY <2>5, <2>6, <2>7, Zenon
<1>. HIDE DEF P
<1>5. Len(s) \in Nat /\ Len(s) \in 0..Len(s)
  OBVIOUS
<1>6. 0..Len(s) \subseteq P
  BY <1>3, <1>4, <1>5, UpToLength
<1>7. HeldApart(held[Len(s)]) /\ Systems(held[Len(s)].out) = f[Len(s)]
  BY <1>5, <1>6 DEF P
<1>8. held[Len(s)] \in HeldRecords
  BY <1>2, <1>5
<1>9. Systems(Flushed(held[Len(s)])) = Systems(s)
  BY <1>1, <1>7, <1>8, FlushedKeepsSystems
<1>10. Sanitized(s) \in {s, Flushed(held[Len(s)])}
  BY DEF Sanitized, held
<1>. QED
  BY <1>9, <1>10

-----------------------------------------------------------------------------
(* Neither do the two caps. *)

\* The messages that are not the system's.
Apart == {m \in MessageRecords : ~IsSystem(m)}

LEMMA ApartHasNone ==
    ASSUME NEW s \in Seq(Apart)
    PROVE  s \in Seq(MessageRecords) /\ NoSystem(s) /\ Systems(s) = <<>>
<1>1. s \in Seq(MessageRecords) /\ \A i \in 1..Len(s) : s[i] \in Apart
  BY DEF Apart
<1>2. NoSystem(s)
  BY <1>1 DEF NoSystem, Apart
<1>. QED
  BY <1>1, <1>2, SystemsOfNone

LEMMA OthersAreApart ==
    ASSUME NEW s \in Seq(MessageRecords) PROVE Others(s) \in Seq(Apart)
<1>. DEFINE chosen == {i \in DOMAIN s : ~IsSystem(s[i])}
<1>1. PICK p : Picks(p, Others(s), s, chosen, Len(s))
  BY OnlyPicks DEF Others
<1>2. PICK out \in Seq(MessageRecords) : out = Others(s)
  BY <1>1 DEF Picks
<1>3. \A i \in 1..Len(out) : p[i] \in chosen /\ out[i] = s[p[i]]
  BY <1>1, <1>2 DEF Picks
<1>4. \A i \in 1..Len(out) : out[i] \in Apart
  BY <1>3 DEF Apart
<1>5. out \in [1..Len(out) -> Apart] /\ Len(out) \in Nat
  BY <1>4
<1>. QED
  BY <1>2, <1>5, SeqDef

LEMMA GroupingStaysApart ==
    ASSUME NEW groups \in Seq(Seq(Apart)), NEW m \in Apart
    PROVE  Grouping(groups, m) \in Seq(Seq(Apart))
<1>1. Append(groups, <<m>>) \in Seq(Seq(Apart))
  OBVIOUS
<1>2. ASSUME groups # <<>>
      PROVE  [groups EXCEPT ![Len(groups)] = Append(@, m)] \in Seq(Seq(Apart))
  <2>1. Len(groups) \in DOMAIN groups
    BY <1>2
  <2>. QED
    BY <2>1
<1>. QED
  BY <1>1, <1>2 DEF Grouping

LEMMA GroupsStayApart ==
    ASSUME NEW s \in Seq(Apart) PROVE Groups(s) \in Seq(Seq(Apart))
<1>. DEFINE g == GroupsUpTo(s)
            P == {n \in 0..Len(s) : g[n] \in Seq(Seq(Apart))}
<1>1. s \in Seq(MessageRecords)
  BY ApartHasNone
<1>2. g[0] = <<>> /\ \A n \in 1..Len(s) : g[n] = Grouping(g[n - 1], s[n])
  BY <1>1, GroupsIs
<1>. HIDE DEF g
<1>3. 0 \in P
  <2>1. 0 \in 0..Len(s) /\ <<>> \in Seq(Seq(Apart))
    OBVIOUS
  <2>. QED
    BY <1>2, <2>1
<1>4. ASSUME NEW n \in 1..Len(s), n - 1 \in P PROVE n \in P
  <2>1. PICK z \in Seq(Seq(Apart)) : z = g[n - 1]
    BY <1>4
  <2>2. PICK m \in Apart : m = s[n]
    OBVIOUS
  <2>3. g[n] = Grouping(z, m)
    BY <1>2, <2>1, <2>2
  <2>4. g[n] \in Seq(Seq(Apart))
    BY <2>3, GroupingStaysApart
  <2>5. n \in 0..Len(s)
    OBVIOUS
  <2>. QED
    BY <2>4, <2>5, Zenon
<1>. HIDE DEF P
<1>5. Len(s) \in Nat /\ Len(s) \in 0..Len(s)
  OBVIOUS
<1>6. 0..Len(s) \subseteq P
  BY <1>3, <1>4, <1>5, UpToLength
<1>7. g[Len(s)] \in Seq(Seq(Apart))
  BY <1>5, <1>6 DEF P
<1>. QED
  BY <1>7 DEF Groups, g

LEMMA TrimmedKeepsSystems ==
    ASSUME NEW s \in Seq(MessageRecords), NEW groups \in Seq(Seq(Apart)), NEW kept
    PROVE  Systems(Trimmed(s, groups, kept)) = Systems(s)
<1>1. PICK rest \in Seq(Apart) : rest = AllOf(groups, kept)
  <2>1. JoinedUpTo(groups, kept) \in [0..Len(groups) -> Seq(Apart)]
    BY JoinedIs
  <2>2. Len(groups) \in 0..Len(groups)
    OBVIOUS
  <2>. QED
    BY <2>1, <2>2 DEF AllOf
<1>2. PICK system \in Seq(MessageRecords) : system = Systems(s) /\ Systems(system) = system
  BY SystemsIsClean, SystemsOfSystems
<1>3. rest \in Seq(MessageRecords) /\ Systems(rest) = <<>>
  BY ApartHasNone
<1>4. Systems(system \o rest) = Systems(system) \o Systems(rest)
  BY <1>3, SystemsJoined
<1>5. system \o <<>> = system
  OBVIOUS
<1>6. Trimmed(s, groups, kept) = system \o rest
  BY <1>1, <1>2 DEF Trimmed
<1>. QED
  BY <1>2, <1>3, <1>4, <1>5, <1>6

LEMMA CountCappedKeepsSystems ==
    ASSUME NEW s \in Seq(MessageRecords) PROVE Systems(CountCapped(s)) = Systems(s)
<1>1. PICK all \in Seq(Seq(Apart)) : all = Groups(Others(s))
  BY OthersAreApart, GroupsStayApart
<1>2. PICK groups \in Seq(Seq(Apart)) : groups = Recent(all)
  <2>1. PICK G : G = Seq(Apart)
    OBVIOUS
  <2>2. Recent(all) \in Seq(G)
    BY <2>1, RecentIsEnd
  <2>. QED
    BY <2>1, <2>2
<1>3. PICK kept :
         kept = Kept([i \in DOMAIN groups |-> Len(groups) + 1 - i],
                     [i \in DOMAIN groups |-> Len(groups[i])], MaxMessages)
  OBVIOUS
<1>4. CountCapped(s) \in {s, Trimmed(s, groups, kept)}
  BY <1>1, <1>2, <1>3 DEF CountCapped
<1>. QED
  BY <1>4, TrimmedKeepsSystems

LEMMA TotalCappedKeepsSystems ==
    ASSUME NEW s \in Seq(MessageRecords) PROVE Systems(TotalCapped(s)) = Systems(s)
<1>1. PICK groups \in Seq(Seq(Apart)) : groups = Groups(Others(s))
  BY OthersAreApart, GroupsStayApart
<1>2. PICK kept :
         kept = Kept(TakingOrder(groups), [i \in DOMAIN groups |-> Size(groups[i])],
                     MaxTotal - Size(Systems(s)))
  OBVIOUS
<1>3. TotalCapped(s) \in {s, Systems(s), Trimmed(s, groups, kept)}
  BY <1>1, <1>2 DEF TotalCapped
<1>. QED
  BY <1>3, TrimmedKeepsSystems, SystemsOfSystems

-----------------------------------------------------------------------------
\* However much is dropped from a list, its prompt has every message of the
\* system, in its order, and none that the list has not
\* (prepare_tool_loop_messages and the three steps it makes).
THEOREM SystemIsKept ==
    \A s \in Seq(MessageRecords) : Systems(Prepared(s)) = Systems(s)
<1>. SUFFICES ASSUME NEW s \in Seq(MessageRecords)
              PROVE  Systems(Prepared(s)) = Systems(s)
  OBVIOUS
<1>1. PICK a \in Seq(MessageRecords) : a = Sanitized(s) /\ Systems(a) = Systems(s)
  BY SanitizedIsClean, SanitizedKeepsSystems
<1>2. PICK b \in Seq(MessageRecords) : b = CountCapped(a) /\ Systems(b) = Systems(a)
  BY CountCappedFits, CountCappedKeepsSystems
<1>3. Systems(TotalCapped(b)) = Systems(b)
  BY TotalCappedKeepsSystems
<1>. QED
  BY <1>1, <1>2, <1>3 DEF Prepared

\* A prompt is over the budget of characters only where the code lets it be:
\* when the system's messages alone fill the budget, or when one group is kept
\* beside them, which is taken in any case (_cap_total_payload_for_budget).
THEOREM PromptFitsBudget ==
    \A s \in Seq(MessageRecords) :
      LET groups == Groups(Others(CountCapped(Sanitized(s))))
      IN \/ Size(Prepared(s)) <= MaxTotal
         \/ Prepared(s) = Systems(s)
         \/ \E g \in DOMAIN groups : Prepared(s) = Systems(s) \o groups[g]
<1>. SUFFICES ASSUME NEW s \in Seq(MessageRecords), NEW groups,
                     groups = Groups(Others(CountCapped(Sanitized(s))))
              PROVE  \/ Size(Prepared(s)) <= MaxTotal
                     \/ Prepared(s) = Systems(s)
                     \/ \E g \in DOMAIN groups : Prepared(s) = Systems(s) \o groups[g]
  OBVIOUS
<1>1. PICK a \in Seq(MessageRecords) : a = Sanitized(s) /\ Systems(a) = Systems(s)
  BY SanitizedIsClean, SanitizedKeepsSystems
<1>2. PICK b \in Seq(MessageRecords) : b = CountCapped(a) /\ Systems(b) = Systems(a)
  BY CountCappedFits, CountCappedKeepsSystems
<1>3. groups = Groups(Others(b)) /\ DOMAIN groups = 1..Len(groups)
  <2>1. Groups(Others(b)) \in Seq(Seq(Apart))
    BY OthersAreApart, GroupsStayApart
  <2>. QED
    BY <1>1, <1>2, <2>1
<1>4. \/ Size(TotalCapped(b)) <= MaxTotal
      \/ TotalCapped(b) = Systems(b)
      \/ \E g \in 1..Len(groups) : TotalCapped(b) = Systems(b) \o groups[g]
  BY <1>3, TotalCappedFits
<1>5. Prepared(s) = TotalCapped(b)
  BY <1>1, <1>2 DEF Prepared
<1>. QED
  BY <1>1, <1>2, <1>3, <1>4, <1>5

\* Beside the system's messages no more are kept than MaxMessages, unless one
\* group alone has more (_cap_message_count_for_budget).
THEOREM CountFitsBudget ==
    \A s \in Seq(MessageRecords) :
      LET clean == Sanitized(s)
          groups == Groups(Others(clean))
      IN \/ CountCapped(clean) = clean /\ Len(Others(clean)) <= MaxMessages
         \/ \E rest \in Seq(MessageRecords) :
               CountCapped(clean) = Systems(s) \o rest /\ Len(rest) <= MaxMessages
         \/ \E g \in DOMAIN groups : CountCapped(clean) = Systems(s) \o groups[g]
<1>. SUFFICES ASSUME NEW s \in Seq(MessageRecords), NEW clean, clean = Sanitized(s),
                     NEW groups, groups = Groups(Others(clean))
              PROVE  \/ CountCapped(clean) = clean /\ Len(Others(clean)) <= MaxMessages
                     \/ \E rest \in Seq(MessageRecords) :
                           /\ CountCapped(clean) = Systems(s) \o rest
                           /\ Len(rest) <= MaxMessages
                     \/ \E g \in DOMAIN groups : CountCapped(clean) = Systems(s) \o groups[g]
  OBVIOUS
<1>1. clean \in Seq(MessageRecords) /\ Systems(clean) = Systems(s)
  BY SanitizedIsClean, SanitizedKeepsSystems
<1>2. DOMAIN groups = 1..Len(groups)
  <2>1. Groups(Others(clean)) \in Seq(Seq(Apart))
    BY <1>1, OthersAreApart, GroupsStayApart
  <2>. QED
    BY <2>1
<1>. QED
  BY <1>1, <1>2, CountCappedFits

-----------------------------------------------------------------------------
(* The prompts of a run. *)

\* Whatever list a run begins with and whatever it adds to it, a prompt shows
\* tool results only as the complete and ordered answer to a carrier's calls.
THEOREM PromptsArePaired == Spec => []PromptPaired
<1>1. TypeOK => PromptPaired
  <2>. SUFFICES ASSUME TypeOK, HasCarrier(messages) PROVE WellPaired(Prepared(messages))
    BY DEF PromptPaired, Prompt
  <2>1. messages \in Seq(MessageRecords)
    BY DEF TypeOK
  <2>. QED
    BY <2>1, PreparedIsClean, CleanIsPaired
<1>. QED
  BY <1>1, TypeInvariant, PTL

\* While calls are running, the list ends in their carrier.
CarrierStands ==
    pc = "tools" =>
        /\ calls # <<>> /\ messages # <<>>
        /\ messages[Len(messages)] = Carrier(calls)

\* Once they are answered, it ends in their round.
RoundClosed ==
    pc = "llm" /\ round > 1 =>
        \E L \in Seq(MessageRecords) :
            OneRound(L) /\ Size(L) # 0 /\ Len(L) = Len(calls) + 1 /\ EndsIn(messages, L)

LEMMA MessagesJoined ==
    ASSUME NEW s \in Seq(MessageRecords), NEW t \in Seq(MessageRecords)
    PROVE  /\ s \o t \in Seq(MessageRecords) /\ Len(s \o t) = Len(s) + Len(t)
           /\ Len(s) \in Nat /\ Len(t) \in Nat
           /\ \A i \in 1..Len(s) : (s \o t)[i] = s[i]
           /\ \A i \in 1..Len(t) : (s \o t)[Len(s) + i] = t[i]
BY JoinedEntries

LEMMA CarrierFacts ==
    ASSUME TypeOK, pc = "tools", CarrierStands
    PROVE  /\ Len(calls) \in Nat /\ Len(calls) # 0
           /\ Carrier(calls) \in MessageRecords /\ IsCarrier(Carrier(calls))
           /\ Len(Carrier(calls).calls) = Len(calls)
           /\ \A i \in 1..Len(calls) : Carrier(calls).calls[i] = <<round, i>>
           /\ Carrier(calls).size = 1
<1>1. calls \in Seq(CallRecords) /\ calls # <<>> /\ round \in 1..MaxRounds
  BY CallsAreSeq DEF TypeOK, CarrierStands
<1>2. PICK n \in Nat : n = Len(calls) /\ DOMAIN calls = 1..n /\ n # 0
  BY <1>1
<1>3. Carrier(calls) \in MessageRecords
  BY <1>1, CarrierIsMessage
<1>4. Carrier(calls).calls = [i \in 1..n |-> <<round, i>>] /\ Carrier(calls).size = 1
  BY <1>2 DEF Carrier
<1>5. /\ Len([i \in 1..n |-> <<round, i>>]) = n
      /\ [i \in 1..n |-> <<round, i>>] # <<>>
  BY <1>2, LenOfFunction
<1>. QED
  BY <1>2, <1>3, <1>4, <1>5 DEF IsCarrier

\* A carrier with the results of its calls in their order is a round.
LEMMA ClosingMakesRound ==
    ASSUME TypeOK, CarrierStands, pc = "tools",
           NEW answers \in Seq(MessageRecords), Len(answers) = Len(calls),
           \A k \in 1..Len(calls) : answers[k] = Answered(k)
    PROVE  \E L \in Seq(MessageRecords) :
              /\ OneRound(L) /\ Size(L) # 0 /\ Len(L) = Len(calls) + 1
              /\ EndsIn(messages \o answers, L)
<1>1. PICK n \in Nat : n = Len(calls) /\ n # 0
  BY CarrierFacts
<1>2. PICK carrier \in MessageRecords :
         /\ carrier = Carrier(calls) /\ IsCarrier(carrier) /\ carrier.size = 1
         /\ Len(carrier.calls) = n /\ \A i \in 1..n : carrier.calls[i] = <<round, i>>
  BY <1>1, CarrierFacts
<1>. DEFINE alone == <<carrier>>
<1>3. alone \in Seq(MessageRecords) /\ Len(alone) = 1 /\ alone[1] = carrier
  OBVIOUS
<1>. HIDE DEF alone
<1>4. PICK L \in Seq(MessageRecords) : L = alone \o answers
  BY <1>3, MessagesJoined
<1>5. /\ Len(L) = 1 + n /\ L[1] = carrier /\ L # <<>>
      /\ \A j \in 1..n : L[1 + j] = Answered(j)
  <2>1. Len(answers) = n /\ \A j \in 1..n : answers[j] = Answered(j)
    BY <1>1
  <2>2. Len(L) = 1 + n /\ L[1] = carrier /\ \A j \in 1..n : L[1 + j] = answers[j]
    <3>1. /\ Len(L) = Len(alone) + Len(answers)
          /\ \A i \in 1..Len(alone) : L[i] = alone[i]
          /\ \A i \in 1..Len(answers) : L[Len(alone) + i] = answers[i]
      BY <1>3, <1>4, MessagesJoined
    <3>2. 1 \in 1..1
      OBVIOUS
    <3>. QED
      BY <1>3, <2>1, <3>1, <3>2
  <2>. QED
    BY <2>1, <2>2
<1>6. \A j \in 1..n : Answered(j).role = "tool" /\ Answered(j).id = <<round, j>>
  BY DEF Answered
<1>7. Round(L, 1)
  <2>1. 1 \in DOMAIN L
    BY <1>5
  <2>2. \A i, j \in 1..n : carrier.calls[i] = carrier.calls[j] => i = j
    BY <1>2
  <2>3. \A j \in 1..n : L[1 + j].role = "tool" /\ L[1 + j].id = carrier.calls[j]
    BY <1>2, <1>5, <1>6
  <2>4. 1 + n <= Len(L)
    BY <1>5
  <2>. QED
    BY <1>2, <1>5, <2>1, <2>2, <2>3, <2>4 DEF Round
<1>8. OneRound(L)
  BY <1>2, <1>5, <1>7 DEF OneRound
<1>9. Size(L) # 0
  <2>1. Size(L) \in Nat /\ Size(L) >= L[1].size
    BY <1>5, SizeIsNat, SizeOfFirst
  <2>. QED
    BY <1>2, <1>5, <2>1
<1>10. EndsIn(messages \o answers, L)
  <2>1. PICK s \in Seq(MessageRecords), m \in Nat :
           s = messages /\ m = Len(s) /\ m # 0 /\ s[m] = carrier
    BY <1>2 DEF TypeOK, CarrierStands
  <2>2. PICK u \in Seq(MessageRecords) : u = s \o answers
    BY MessagesJoined
  <2>3. /\ Len(u) = m + n
        /\ u[m] = carrier /\ \A j \in 1..n : u[m + j] = Answered(j)
    <3>1. /\ Len(u) = Len(s) + Len(answers) /\ \A i \in 1..Len(s) : u[i] = s[i]
          /\ \A i \in 1..Len(answers) : u[Len(s) + i] = answers[i]
      BY <2>2, MessagesJoined
    <3>2. Len(answers) = n /\ m \in 1..m /\ \A j \in 1..n : answers[j] = Answered(j)
      BY <1>1, <2>1
    <3>. QED
      BY <2>1, <3>1, <3>2
  <2>4. ASSUME NEW i \in 1..Len(L) PROVE u[(m - 1) + i] = L[i]
    <3>1. CASE i = 1
      <4>1. (m - 1) + 1 = m
        BY <2>1
      <4>. QED
        BY <1>5, <2>3, <3>1, <4>1
    <3>2. CASE i # 1
      <4>1. i - 1 \in 1..n /\ (m - 1) + i = m + (i - 1) /\ 1 + (i - 1) = i
        BY <1>5, <2>1, <3>2
      <4>. QED
        BY <1>5, <2>3, <4>1
    <3>. QED
      BY <3>1, <3>2
  <2>5. m - 1 \in Nat /\ Len(u) = (m - 1) + Len(L)
    BY <1>5, <2>1, <2>3
  <2>6. EndsBehind(m - 1, u, L)
    BY <2>4, <2>5 DEF EndsBehind
  <2>. QED
    BY <2>1, <2>2, <2>5, <2>6 DEF EndsIn
<1>. QED
  BY <1>1, <1>5, <1>8, <1>9, <1>10

LEMMA RoundClosedNext ==
    ASSUME TypeOK, CarrierStands, RoundClosed, [Next]_vars
    PROVE  CarrierStands' /\ RoundClosed'
<1>1. ASSUME NEW response \in Responses, AskForTools(response)
      PROVE  CarrierStands' /\ RoundClosed'
  <2>1. /\ pc' = "tools" /\ calls' = response /\ round' = round
        /\ messages' = Append(messages, Carrier(response))
    BY <1>1 DEF AskForTools
  <2>2. response \in Seq(CallRecords) /\ response # <<>>
    BY LoopAssumption DEF CallRecords
  <2>3. Carrier(calls)' = Carrier(response)
    BY <2>1 DEF Carrier
  <2>4. Carrier(response) \in MessageRecords /\ messages \in Seq(MessageRecords)
    BY <2>2, CarrierIsMessage DEF TypeOK
  <2>5. messages' # <<>> /\ messages'[Len(messages')] = Carrier(response)
    BY <2>1, <2>4
  <2>. QED
    BY <2>1, <2>2, <2>3, <2>5 DEF CarrierStands, RoundClosed
<1>2. CASE CloseRound
  <2>1. PICK answers \in Seq(MessageRecords) :
           /\ answers = [k \in DOMAIN InOrder |-> Answered(InOrder[k])]
           /\ Len(answers) = Len(calls) /\ \A k \in 1..Len(calls) : answers[k] = Answered(k)
    BY AnswersAreMessages
  <2>2. /\ pc = "tools" /\ pc' \in {"returned", "llm"} /\ calls' = calls
        /\ messages' = messages \o answers
    BY <1>2, <2>1 DEF CloseRound, batch
  <2>3. \E L \in Seq(MessageRecords) :
           /\ OneRound(L) /\ Size(L) # 0 /\ Len(L) = Len(calls) + 1
           /\ EndsIn(messages \o answers, L)
    BY <2>1, <2>2, ClosingMakesRound
  <2>. QED
    BY <2>2, <2>3 DEF CarrierStands, RoundClosed
<1>3. ASSUME pc' \in {pc, "returned", "raised"}, UNCHANGED <<round, messages, calls>>
      PROVE  CarrierStands' /\ RoundClosed'
  BY <1>3 DEF CarrierStands, RoundClosed, Carrier
<1>4. CASE AnswerDirectly \/ Break \/ UNCHANGED vars
  BY <1>3, <1>4 DEF AnswerDirectly, Break, vars, batch
<1>5. ASSUME NEW i \in DOMAIN calls, Call(i) PROVE CarrierStands' /\ RoundClosed'
  BY <1>3, <1>5 DEF Call, Begin, Consents, Refuses, Hit, Miss, Return, Finish, Raise, Deliver
<1>. QED
  BY <1>1, <1>2, <1>4, <1>5 DEF Next

\* What a list of messages ends in is its part of that length.
LEMMA EndIsPart ==
    ASSUME NEW s \in Seq(MessageRecords), NEW L \in Seq(MessageRecords), NEW k \in Nat,
           Len(L) = k + 1, EndsIn(s, L)
    PROVE  Len(s) >= Len(L) /\ SubSeq(s, Len(s) - k, Len(s)) = L
<1>1. PICK d \in Nat : EndsBehind(d, s, L)
  BY DEF EndsIn
<1>2. Len(s) = d + (k + 1) /\ \A j \in 1..(k + 1) : s[d + j] = L[j]
  BY <1>1 DEF EndsBehind
<1>3. Len(s) - k = d + 1 /\ k + 1 \in Nat /\ Len(s) >= Len(L) /\ d + (k + 1) <= Len(s)
  BY <1>2
<1>4. PICK t : t = SubSeq(s, d + 1, d + (k + 1))
  OBVIOUS
<1>5. /\ t \in Seq(MessageRecords) /\ Len(t) = k + 1
      /\ \A j \in 1..(k + 1) : t[j] = s[d + j]
  <2>1. PICK n \in Nat : n = k + 1
    OBVIOUS
  <2>2. d + n <= Len(s) /\ t = SubSeq(s, d + 1, d + n)
    BY <1>3, <1>4, <2>1
  <2>3. /\ t \in Seq(MessageRecords) /\ Len(t) = n
        /\ \A j \in 1..n : t[j] = s[d + j]
    BY <2>2, PartOf
  <2>. QED
    BY <2>1, <2>3
<1>6. t = L
  BY <1>2, <1>5, SeqEqual
<1>. QED
  BY <1>2, <1>3, <1>4, <1>6

\* The results of a round reach the LLM in the next one, complete and in the
\* order of the calls, whenever the round fits the budget beside the group
\* before it.
THEOREM AnswersAreShown == Spec => []AnswersShown
<1>1. Init => CarrierStands /\ RoundClosed
  BY DEF Init, CarrierStands, RoundClosed
<1>2. TypeOK /\ RoundClosed => AnswersShown
  <2>. SUFFICES ASSUME TypeOK, RoundClosed, pc = "llm", round > 1, Fits
                PROVE  /\ Len(Prompt) >= Len(LastRound)
                       /\ SubSeq(Prompt, Len(Prompt) - Len(calls), Len(Prompt)) = LastRound
                       /\ IdsOf(Tail(LastRound)) = LastRound[1].calls
    BY DEF AnswersShown
  <2>1. PICK L \in Seq(MessageRecords) :
           OneRound(L) /\ Size(L) # 0 /\ Len(L) = Len(calls) + 1 /\ EndsIn(messages, L)
    BY DEF RoundClosed
  <2>2. PICK k \in Nat : k = Len(calls)
    <3>1. calls \in Seq(CallRecords)
      BY CallsAreSeq
    <3>. QED
      BY <3>1
  <2>3. PICK s \in Seq(MessageRecords) : s = messages
    BY DEF TypeOK
  <2>4. LastRound = L
    <3>1. SubSeq(s, Len(s) - k, Len(s)) = L
      BY <2>1, <2>2, <2>3, EndIsPart
    <3>. QED
      BY <2>2, <2>3, <3>1 DEF LastRound
  <2>5. RoundFits(CountCapped(Sanitized(s)), L)
    BY <2>3, <2>4 DEF Fits, Capped, RoundFits
  <2>6. PICK p \in Seq(MessageRecords) : p = Prompt /\ EndsIn(p, L)
    BY <2>1, <2>3, <2>5, PreparedEnd DEF Prompt
  <2>7. Len(p) >= Len(L) /\ SubSeq(p, Len(p) - k, Len(p)) = L
    BY <2>1, <2>2, <2>6, EndIsPart
  <2>8. IdsOf(Tail(L)) = L[1].calls
    <3>1. /\ L[1] \in MessageRecords /\ Len(L) = 1 + k /\ Len(L[1].calls) = k
          /\ \A j \in 1..k : L[1 + j].id = L[1].calls[j]
      BY <2>1, <2>2, MessageFacts DEF OneRound, Round
    <3>2. L[1].calls \in Seq(Ids)
      BY <3>1, MessageFacts
    <3>3. /\ DOMAIN Tail(L) = 1..k /\ \A j \in 1..k : Tail(L)[j] = L[1 + j]
      BY <3>1
    <3>4. IdsOf(Tail(L)) = [j \in 1..k |-> L[1].calls[j]]
      BY <3>1, <3>3 DEF IdsOf
    <3>. QED
      BY <3>1, <3>2, <3>4
  <2>. QED
    BY <2>2, <2>4, <2>6, <2>7, <2>8
<1>3. TypeOK /\ CarrierStands /\ RoundClosed /\ [Next]_vars => CarrierStands' /\ RoundClosed'
  BY RoundClosedNext
<1>. QED
  BY <1>1, <1>2, <1>3, TypeInvariant, PTL DEF Spec

=============================================================================
