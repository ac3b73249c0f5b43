-------------------------- MODULE MCCaptureHelper --------------------------
(* Small instances of CaptureHelper for TLC.                               *)
EXTENDS CaptureHelper, TLC

CONSTANTS p1, p2

(* Chunks are 0 and 1; two files of two chunks, one within both limits.    *)
MCContents == {<<0>>, <<0, 0>>, <<1, 1>>}
MCBegin == [p \in Paths |-> IF p = p1 THEN <<0>> ELSE <<1, 1>>]

Symmetry == Permutations(Pids)
=============================================================================
