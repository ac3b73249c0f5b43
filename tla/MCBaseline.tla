----------------------------- MODULE MCBaseline -----------------------------
(* A small instance of Baseline for TLC.                                   *)
EXTENDS Baseline

CONSTANTS p1, p2, absent, text

MCBegin == [p \in Tracked |-> IF p = p1 THEN text ELSE absent]
=============================================================================
