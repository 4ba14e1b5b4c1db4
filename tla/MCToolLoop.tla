----------------------------- MODULE MCToolLoop -----------------------------
(* Small instances of ToolLoop: lookup may be called, write needs the    *)
(* user's consent, wipe is denied.                                         *)
EXTENDS ToolLoop

CONSTANTS lookup, write, wipe

ThePolicy == [t \in Tools |-> CASE t = lookup -> "allow" [] t = write -> "consent" [] OTHER -> "deny"]

Plain(t)    == [tool |-> t, ref |-> NoRef]
Chaining(t, ref) == [tool |-> t, ref |-> ref]

\* Two calls of one tool, two of different ones, and calls chained within
\* the round and across rounds, by name and by position.
SomeResponses ==
    { <<Plain(write), Plain(write)>>, <<Plain(wipe), Plain(lookup)>>,
      <<Plain(lookup), Chaining(lookup, lookup)>>, <<Plain(write), Chaining(lookup, 1)>>, <<Chaining(write, lookup)>> }

Message(role, ids, id, size) ==
    [role |-> role, calls |-> ids, id |-> id, size |-> size, form |-> 0]
System      == Message("system", <<>>, <<0, 0>>, 1)
User(size)  == Message("user", <<>>, <<0, 0>>, size)
Text(size)  == Message("assistant", <<>>, <<0, 0>>, size)
CarrierOf(ids) == Message("assistant", ids, <<0, 0>>, 1)
Tool(id)    == Message("tool", <<>>, id, 1)

\* A fresh conversation; one that was cut inside a tool round; one whose last
\* run has raised after a long exchange.
SomeHistories ==
    { <<System, User(1)>>,
      <<System, Tool(<<0, 1>>), Text(1), CarrierOf(<<<<0, 2>>, <<0, 3>>>>), Tool(<<0, 2>>), User(2)>>,
      <<System, User(1), Text(1), CarrierOf(<<<<0, 1>>>>), Tool(<<0, 1>>), User(3), CarrierOf(<<<<0, 2>>>>), User(1)>>,
      <<System, User(4), CarrierOf(<<<<0, 1>>, <<0, 2>>, <<0, 3>>>>),
        Tool(<<0, 1>>), Tool(<<0, 2>>), Tool(<<0, 3>>), Text(4)>> }

=============================================================================
