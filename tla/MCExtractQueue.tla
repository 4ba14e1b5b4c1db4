--------------------------- MODULE MCExtractQueue ---------------------------
(* Small instances of ExtractQueue: the turns alternate between two        *)
(* namespaces, and the workers are pinned or not.                          *)
EXTENDS ExtractQueue, TLC

CONSTANTS t1, t2, t3, ns1, ns2, w1, w2

OneNamespace == {ns1}
TwoNamespaces == {ns1, ns2}

AllInOne == [t \in Turns |-> ns1]
Alternating == [t \in Turns |-> IF t = t2 THEN ns2 ELSE ns1]

Unpinned == [w \in Workers |-> NoPin]
OnePinned == [w \in Workers |-> IF w = w1 THEN ns1 ELSE NoPin]

WorkerSymmetry == Permutations(Workers)
=============================================================================
