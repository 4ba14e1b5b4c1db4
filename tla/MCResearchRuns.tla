--------------------------- MODULE MCResearchRuns ---------------------------
(* A small instance of ResearchRuns: a plan of one question, and a second  *)
(* one that an edit may add.                                               *)
EXTENDS ResearchRuns

CONSTANTS q1, q2

OneQuestion == <<q1>>
=============================================================================
