------------------------------ MODULE CondDemo ------------------------------
(***************************************************************************)
(* pthread/thread_cond.c: a boss that signals one condition variable for   *)
(* ever, and workers that wait on it for ever.  The workers never lock the *)
(* mutex they hand to pthread_cond_wait: they come back from a wait with   *)
(* it, keep it while they work, and give it up in their next wait.  Only   *)
(* the first wait of a worker releases a mutex that is not its own, which  *)
(* a normal mutex does not notice: it is free then, whoever held it.       *)
(***************************************************************************)
EXTENDS Naturals, FiniteSets

CONSTANT Workers    \* worker[NUM]

VARIABLES
  wpc,      \* "first": before its first wait; "waiting"; "relock": on its way
            \* out of the wait; "working"
  lock,     \* the lock word of mtx: 1 if it is locked, whoever locked it
  strays    \* history: number of first waits that found mtx locked

vars == <<wpc, lock, strays>>

Init ==
  /\ wpc = [w \in Workers |-> "first"]
  /\ lock = 0
  /\ strays = 0

Goto(w, step) == wpc' = [wpc EXCEPT ![w] = step]

\* pthread_cond_wait of a new worker.
FirstWait(w) ==
  /\ wpc[w] = "first"
  /\ strays' = strays + lock
  /\ lock' = 0
  /\ Goto(w, "waiting")

\* Mutation: the wait keeps the mutex.
WaitHolding(w) ==
  /\ wpc[w] = "working"
  /\ Goto(w, "waiting")
  /\ UNCHANGED <<lock, strays>>

\* pthread_cond_wait of a worker that comes from its work.
Wait(w) ==
  /\ wpc[w] = "working"
  /\ lock' = 0
  /\ Goto(w, "waiting")
  /\ UNCHANGED strays

\* pthread_cond_signal by the boss; with nobody waiting it is lost.
SignalOne(w) ==
  /\ wpc[w] = "waiting"
  /\ Goto(w, "relock")
  /\ UNCHANGED <<lock, strays>>

\* pthread_cond_wait may also return without a signal.
Spurious(w) ==
  /\ wpc[w] = "waiting"
  /\ Goto(w, "relock")
  /\ UNCHANGED <<lock, strays>>

\* Mutation: the worker comes back without the mutex.
RelockNot(w) ==
  /\ wpc[w] = "relock"
  /\ lock' = 1
  /\ Goto(w, "working")
  /\ UNCHANGED strays

\* The end of pthread_cond_wait: the mutex is taken, the worker works.
Relock(w) ==
  /\ wpc[w] = "relock"
  /\ lock = 0
  /\ lock' = 1
  /\ Goto(w, "working")
  /\ UNCHANGED strays

Work(w) == FirstWait(w) \/ Wait(w) \/ Relock(w)
Ctrl == \E w \in Workers : SignalOne(w)

Next == Ctrl \/ \E w \in Workers : Work(w) \/ Spurious(w)

Spec == Init /\ [][Next]_vars

\* The boss signals once a second, every worker is scheduled.
Fairness == WF_vars(Ctrl) /\ \A w \in Workers : WF_vars(Work(w))

FairSpec == Spec /\ Fairness
-----------------------------------------------------------------------------
(***************************************************************************)
(* Properties.                                                             *)
(***************************************************************************)
Working == {w \in Workers : wpc[w] = "working"}

\* thread_cond.c:33 does without the mutex.  Workers print at the same time
\* only as far as first waits have taken the mutex from a worker: each of them
\* lets one more in, later waits let in nobody, and without one the workers
\* exclude each other.
OverlapBounded == Cardinality(Working) <= strays + lock

\* The mutex is never left locked by a worker that waits, so the boss always
\* gets somebody to work.
WorkGoesOn == []<><<\E w \in Workers : Relock(w)>>_vars
=============================================================================
