---------------------------- MODULE MCBlockQueue ----------------------------
(* Instances of BlockQueue for TLC.                                         *)
EXTENDS BlockQueue
CONSTANTS v1, v2, p1, p2, k1, k2

TwoValues == {v1, v2}
TwoProducers == {p1, p2}
TwoConsumers == {k1, k2}
OneToFive == 1..5

\* CpTest.cc, whose queue has capacity 5, also with smaller queues.
CpTest == [producers |-> {p1}, consumers |-> {k1}, cap |-> 5, spurious |-> FALSE]
CpTests == {[CpTest EXCEPT !.cap = k] : k \in OneToFive}

\* The same program where a wait may end without a signal, and one with two
\* consumers.
CpTestSpurious == [CpTest EXCEPT !.spurious = TRUE]
ManyConsumers == [CpTest EXCEPT !.consumers = {k1, k2}]

\* Two threads on each side of the smallest queue whose two wake-ups both work.
ManyThreads == [ManyConsumers EXCEPT !.producers = {p1, p2}, !.cap = 2]

AllUses == CpTests \cup {CpTestSpurious, ManyConsumers, ManyThreads}
=============================================================================
