---------------------------- MODULE MCConversation ----------------------------
(***************************************************************************)
(* A conversation for TLC: with one turn behind it.                        *)
(***************************************************************************)
EXTENDS Conversation

OneTurn == {<<User(0), Answer(0)>>}
===============================================================================
