----------------------------- MODULE BoundedFifo -----------------------------
(***************************************************************************)
(* What the queues of pthread/ promise their callers: a first-in first-out *)
(* buffer of at most Cap values.  Put and Take are atomic, a Put into a    *)
(* full buffer and a Take from an empty one wait.                          *)
(***************************************************************************)
EXTENDS Naturals, Sequences

CONSTANTS Cap, Values, Takers, None

VARIABLES
  q,    \* the values put and not taken yet, oldest first
  got   \* the value each taker received last

vars == <<q, got>>

Init == q = <<>> /\ got = [t \in Takers |-> None]

Put(v) ==
  /\ Len(q) < Cap
  /\ q' = Append(q, v)
  /\ UNCHANGED got

Take(t) ==
  /\ q # <<>>
  /\ q' = Tail(q)
  /\ got' = [got EXCEPT ![t] = Head(q)]

Next == (\E v \in Values : Put(v)) \/ (\E t \in Takers : Take(t))

Spec == Init /\ [][Next]_vars
=============================================================================
