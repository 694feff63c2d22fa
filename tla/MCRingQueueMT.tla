---------------------------- MODULE MCRingQueueMT ----------------------------
(* Instance of RingQueueMT for TLC.                                         *)
EXTENDS RingQueueMT
CONSTANTS v1, v2, p1, p2, k1, k2

TwoValues == {v1, v2}
TwoProducers == {p1, p2}
TwoConsumers == {k1, k2}
=============================================================================
