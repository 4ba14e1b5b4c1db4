-------------------------- MODULE MCSessionGateway --------------------------
(* A small instance of SessionGateway: the spans are interchangeable.        *)
EXTENDS SessionGateway, TLC

SpanSymmetry == Permutations(Spans)
=============================================================================
