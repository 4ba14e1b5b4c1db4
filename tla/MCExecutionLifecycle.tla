------------------------ MODULE MCExecutionLifecycle ------------------------
(***************************************************************************)
(* Small instances of ExecutionLifecycle.                                  *)
(***************************************************************************)
EXTENDS ExecutionLifecycle

CONSTANTS n1, n2, n3

\* A plan of two nodes; the third can only be patched in.
Chain == {<<n1, n2>>}

\* A start may also bring the second node alone, to which the first can be
\* patched before or after.
TwoPlans == {<<n1, n2>>, <<n2>>}

=============================================================================
