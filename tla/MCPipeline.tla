----------------------------- MODULE MCPipeline -----------------------------
(* Small instances of Pipeline for TLC.                                    *)
EXTENDS Pipeline, TLC

CONSTANTS p1, p2, absent, text

MCBegin == [p \in Tracked |-> IF p = p1 THEN text ELSE absent]

(* A write to one path, a rename (both ends), and an operation whose       *)
(* effect is not bounded by its path.                                      *)
MCOps == {[paths |-> {p1},     opaque |-> FALSE],
          [paths |-> {p1, p2}, opaque |-> FALSE],
          [paths |-> {p2},     opaque |-> TRUE]}

MCWrite == {[paths |-> {p1}, opaque |-> FALSE]}

(* A write, or a call that changes nothing (a read-only open, a path       *)
(* outside the roots).                                                     *)
MCWriteOrNone == MCWrite \cup {[paths |-> {}, opaque |-> FALSE]}

Symmetry == Permutations(Reqs) \cup Permutations(Workers)
=============================================================================
