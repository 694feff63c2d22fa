----------------------------- MODULE MCReactor -----------------------------
(* Instances of Reactor for TLC: the values the configurations choose.     *)
EXTENDS Reactor
CONSTANTS c1, c2

TwoClients == {c1, c2}
OneClient == {c1}
Second == {c2}
Nobody == {}
TwoFds == {4, 5}
OneFd == {4}
AllValid == {}
SecondMalformed == {2}

TwoEach == [c \in {c1, c2} |-> 2]
TwoAndOne == [c \in {c1, c2} |-> IF c = c1 THEN 2 ELSE 1]
Two == [c \in {c1} |-> 2]
ThreeAndOne == [c \in {c1, c2} |-> IF c = c1 THEN 3 ELSE 1]
=============================================================================
