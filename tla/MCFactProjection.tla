-------------------------- MODULE MCFactProjection --------------------------
(* A small instance of FactProjection: two turns that share a value, one of  *)
(* which says something else, too, and may be projected twice, and an item   *)
(* of each kind.                                                             *)
EXTENDS FactProjection, TLC

CONSTANTS t1, t2, v, w

FactItem(value, at) ==
    [kind |-> "fact", value |-> value, at |-> at, accumulate |-> FALSE]
OtherItem(kind) ==
    [kind |-> kind, value |-> v, at |-> 1, accumulate |-> FALSE]
OpenSet(value, at) == [FactItem(value, at) EXCEPT !.accumulate = TRUE]

Mixed == [t \in Turns |->
    IF t = t1 THEN <<OtherItem("vague"), FactItem(w, 9), FactItem(v, 10),
                     OtherItem("event")>>
              ELSE <<FactItem(v, 10)>>]
SecondTwice == [t \in Turns |-> IF t = t2 THEN 2 ELSE 1]
=============================================================================
