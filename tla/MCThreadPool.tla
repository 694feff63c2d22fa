---------------------------- MODULE MCThreadPool ----------------------------
(* Instances of ThreadPool for TLC.                                        *)
EXTENDS ThreadPool
CONSTANTS c1, c2, w1, w2, t1, t2, t3

TwoClients == {c1, c2}
TwoWorkers == {w1, w2}
TwoTasks == {t1, t2}
ThreeTasks == {t1, t2, t3}
=============================================================================
