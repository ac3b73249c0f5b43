----------------------------- MODULE MCSession -----------------------------
(* A small instance of Session for TLC.                                    *)
EXTENDS Session

CONSTANTS k1, k2

MCKeys == <<k1, k2>>
=============================================================================
