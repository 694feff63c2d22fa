----------------------------- MODULE MCRingQueue -----------------------------
(* Instance of RingQueue for TLC.                                           *)
EXTENDS RingQueue
CONSTANTS v1, v2

TwoValues == {v1, v2}
=============================================================================
