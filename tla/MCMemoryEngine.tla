--------------------------- MODULE MCMemoryEngine ---------------------------
(* Small instances of MemoryEngine.                                         *)
EXTENDS MemoryEngine, TLC

CONSTANTS t1, n1
=============================================================================
