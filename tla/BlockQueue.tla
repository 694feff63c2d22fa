------------------------------ MODULE BlockQueue ------------------------------
(***************************************************************************)
(* The blocking queue of pthread/生产者消费者模型/BlockQueue.hpp: a queue    *)
(* under one mutex and two condition variables.  The test before a wait is *)
(* an `if`, so a thread that comes back from pthread_cond_wait goes on     *)
(* without looking again, and a wake-up is sent only above (below) half of *)
(* the capacity.  CpTest.cc runs one producer and one consumer, each in an *)
(* endless loop.                                                           *)
(*                                                                         *)
(* A step is one operation on the mutex or a condition variable with the   *)
(* code of the critical section next to it.                                *)
(***************************************************************************)
EXTENDS Integers, Sequences, FiniteSets

CONSTANTS
  Producers, Consumers,   \* threads that call Push, threads that call Pop
  Values,                 \* what the producers push
  None,
  Caps,                   \* capacities
  Uses,                   \* the programs to check: which threads use the queue,
                          \* its capacity, and may pthread_cond_wait return
                          \* without a signal?
  MaxOver                 \* bound: no Push begins while the queue is this much
                          \* longer than its capacity

ASSUME CapAssumption == Caps \subseteq Nat \ {0}
ASSUME NoneAssumption == None \notin Values \cup Producers \cup Consumers
ASSUME ThreadAssumption == Producers \cap Consumers = {}
ASSUME UsesAssumption ==
  Uses \subseteq [producers : SUBSET Producers, consumers : SUBSET Consumers,
                  cap : Caps, spurious : BOOLEAN]
ASSUME BoundAssumption == MaxOver \in Nat

VARIABLES
  use,        \* the program that runs; it does not change
  bq,         \* bq_
  mtx,        \* thread that holds mtx_
  ppc, cpc,   \* next step of each thread; "waiting" is inside pthread_cond_wait
  in,         \* argument of each producer's current Push
  out         \* *out of each consumer's current or last Pop

\* cap_
Cap == use.cap

vars == <<use, bq, mtx, ppc, cpc, in, out>>

Init ==
  /\ use \in Uses
  /\ bq = <<>>
  /\ mtx = None
  /\ ppc = [p \in Producers |-> "idle"]
  /\ cpc = [c \in Consumers |-> "idle"]
  /\ in = [p \in Producers |-> None]
  /\ out = [c \in Consumers |-> None]

\* Mutation: off by one.
IsFullLate == Len(bq) > Cap

\* An equality: a queue that is longer than Cap does not count as full.
IsFull == Len(bq) = Cap

IsEmpty == Len(bq) = 0

\* Mutation: the consumer is called when the queue is full and more.
EnoughToCallConsumerNever(size) == size > Cap

\* The conditions under which Push and Pop signal the other side.
EnoughToCallConsumer(size) == size > Cap \div 2

\* Mutation: the producer is called only when the queue is more than empty.
EnoughToCallProducerNever(size) == size < 0

EnoughToCallProducer(size) == size < Cap \div 2

\* pthread_cond_signal: one of the waiting threads, if any, has to get the
\* mutex back next.
Signal(pc) ==
  LET waiting == {t \in DOMAIN pc : pc[t] = "waiting"}
  IN  IF waiting = {} THEN {pc}
      ELSE {[pc EXCEPT ![t] = "relock"] : t \in waiting}
-----------------------------------------------------------------------------
(***************************************************************************)
(* Push.                                                                   *)
(***************************************************************************)
PGoto(p, step) == ppc' = [ppc EXCEPT ![p] = step]

PushCall(p, v) ==
  /\ ppc[p] = "idle"
  /\ Len(bq) < Cap + MaxOver
  /\ in' = [in EXCEPT ![p] = v]
  /\ PGoto(p, "lock")
  /\ UNCHANGED <<use, bq, mtx, cpc, out>>

PushLock(p) ==
  /\ ppc[p] = "lock"
  /\ mtx = None
  /\ mtx' = p
  /\ PGoto(p, "test")
  /\ UNCHANGED <<use, bq, cpc, in, out>>

PushTest(p) ==
  /\ ppc[p] = "test"
  /\ ~ IsFull
  /\ PGoto(p, "put")
  /\ UNCHANGED <<use, bq, mtx, cpc, in, out>>

\* ProducterWait: the mutex is released while the thread waits.
PushSleep(p) ==
  /\ ppc[p] = "test"
  /\ IsFull
  /\ mtx' = None
  /\ PGoto(p, "waiting")
  /\ UNCHANGED <<use, bq, cpc, in, out>>

PushSpurious(p) ==
  /\ use.spurious
  /\ ppc[p] = "waiting"
  /\ PGoto(p, "relock")
  /\ UNCHANGED <<use, bq, mtx, cpc, in, out>>

PushRelock(p) ==
  /\ ppc[p] = "relock"
  /\ mtx = None
  /\ mtx' = p
  /\ PGoto(p, "put")
  /\ UNCHANGED <<use, bq, cpc, in, out>>

PushPut(p) ==
  /\ ppc[p] = "put"
  /\ bq' = Append(bq, in[p])
  /\ IF EnoughToCallConsumer(Len(bq'))
     THEN cpc' \in Signal(cpc) ELSE UNCHANGED cpc
  /\ PGoto(p, "unlock")
  /\ UNCHANGED <<use, mtx, in, out>>

PushUnlock(p) ==
  /\ ppc[p] = "unlock"
  /\ mtx' = None
  /\ PGoto(p, "idle")
  /\ UNCHANGED <<use, bq, cpc, in, out>>
-----------------------------------------------------------------------------
(***************************************************************************)
(* Pop.                                                                    *)
(***************************************************************************)
CGoto(c, step) == cpc' = [cpc EXCEPT ![c] = step]

PopCall(c) ==
  /\ cpc[c] = "idle"
  /\ CGoto(c, "lock")
  /\ UNCHANGED <<use, bq, mtx, ppc, in, out>>

PopLock(c) ==
  /\ cpc[c] = "lock"
  /\ mtx = None
  /\ mtx' = c
  /\ CGoto(c, "test")
  /\ UNCHANGED <<use, bq, ppc, in, out>>

PopTest(c) ==
  /\ cpc[c] = "test"
  /\ ~ IsEmpty
  /\ CGoto(c, "take")
  /\ UNCHANGED <<use, bq, mtx, ppc, in, out>>

PopSleep(c) ==
  /\ cpc[c] = "test"
  /\ IsEmpty
  /\ mtx' = None
  /\ CGoto(c, "waiting")
  /\ UNCHANGED <<use, bq, ppc, in, out>>

PopSpurious(c) ==
  /\ use.spurious
  /\ cpc[c] = "waiting"
  /\ CGoto(c, "relock")
  /\ UNCHANGED <<use, bq, mtx, ppc, in, out>>

PopRelock(c) ==
  /\ cpc[c] = "relock"
  /\ mtx = None
  /\ mtx' = c
  /\ CGoto(c, "take")
  /\ UNCHANGED <<use, bq, ppc, in, out>>

\* Mutation: the producer is called before the value is taken.
PopTakeAfterCall(c) ==
  /\ cpc[c] = "take"
  /\ bq # <<>>
  /\ out' = [out EXCEPT ![c] = Head(bq)]
  /\ bq' = Tail(bq)
  /\ IF EnoughToCallProducer(Len(bq))
     THEN ppc' \in Signal(ppc) ELSE UNCHANGED ppc
  /\ CGoto(c, "unlock")
  /\ UNCHANGED <<use, mtx, in>>

PopTake(c) ==
  /\ cpc[c] = "take"
  /\ bq # <<>>
  /\ out' = [out EXCEPT ![c] = Head(bq)]
  /\ bq' = Tail(bq)
  /\ IF EnoughToCallProducer(Len(bq'))
     THEN ppc' \in Signal(ppc) ELSE UNCHANGED ppc
  /\ CGoto(c, "unlock")
  /\ UNCHANGED <<use, mtx, in>>

\* front() and pop() of an empty queue: undefined behaviour, where the model
\* ends.
PopUndefined(c) ==
  /\ cpc[c] = "take"
  /\ bq = <<>>
  /\ CGoto(c, "undefined")
  /\ UNCHANGED <<use, bq, mtx, ppc, in, out>>

PopUnlock(c) ==
  /\ cpc[c] = "unlock"
  /\ mtx' = None
  /\ CGoto(c, "idle")
  /\ UNCHANGED <<use, bq, ppc, in, out>>
-----------------------------------------------------------------------------
Push(p) ==
  \/ \E v \in Values : PushCall(p, v)
  \/ PushLock(p) \/ PushTest(p) \/ PushSleep(p) \/ PushRelock(p)
  \/ PushPut(p) \/ PushUnlock(p)

Pop(c) ==
  \/ PopCall(c)
  \/ PopLock(c) \/ PopTest(c) \/ PopSleep(c) \/ PopRelock(c)
  \/ PopTake(c) \/ PopUndefined(c) \/ PopUnlock(c)

Next ==
  \/ \E p \in use.producers : Push(p) \/ PushSpurious(p)
  \/ \E c \in use.consumers : Pop(c) \/ PopSpurious(c)

Spec == Init /\ [][Next]_vars

\* The loops of CpTest.cc never end and every thread is scheduled.
Fairness ==
  /\ \A p \in Producers : WF_vars(p \in use.producers /\ Push(p))
  /\ \A c \in Consumers : WF_vars(c \in use.consumers /\ Pop(c))

FairSpec == Spec /\ Fairness
-----------------------------------------------------------------------------
(***************************************************************************)
(* Properties.                                                             *)
(***************************************************************************)
ProducerSteps == {"idle", "lock", "test", "waiting", "relock", "put", "unlock"}
ConsumerSteps ==
  {"idle", "lock", "test", "waiting", "relock", "take", "unlock", "undefined"}

\* Types of all variables.
TypeOK ==
  /\ use \in Uses
  /\ bq \in Seq(Values)
  /\ mtx \in Producers \cup Consumers \cup {None}
  /\ ppc \in [Producers -> ProducerSteps]
  /\ cpc \in [Consumers -> ConsumerSteps]
  /\ in \in [Producers -> Values \cup {None}]
  /\ out \in [Consumers -> Values \cup {None}]

\* The critical sections exclude each other, also around a wait.
MutualExclusion ==
  /\ \A p \in Producers : ppc[p] \in {"test", "put", "unlock"} <=> mtx = p
  /\ \A c \in Consumers : cpc[c] \in {"test", "take", "unlock", "undefined"} <=> mtx = c

\* BlockQueue.hpp:15 and :17: cap_ bounds the queue, when it is full nobody
\* produces.
NeverOverfull == Len(bq) <= Cap

\* BlockQueue.hpp:18: when it is empty, nobody consumes; front() and pop()
\* are never called on an empty queue.
NeverPopsEmpty == \A c \in Consumers : cpc[c] # "undefined"

\* The program of CpTest.cc: one producer and one consumer, on a system that
\* wakes nobody without a signal.
OneEach ==
  /\ \A p, q \in use.producers : p = q
  /\ \A c, d \in use.consumers : c = d
  /\ ~ use.spurious

\* For that program the `if` is enough: the thread that comes back from a wait
\* finds what it waited for, although it does not look.
IfIsEnough == OneEach => NeverOverfull /\ NeverPopsEmpty

Fifo(K) == INSTANCE BoundedFifo WITH Cap <- K, q <- bq, got <- out, Takers <- Consumers

\* And to its callers the queue is then a bounded first-in first-out buffer of
\* the capacity it was built with.
BoundedFifoSteps ==
  [][OneEach => \E k \in Caps : k = Cap /\ (Fifo(k)!Next \/ UNCHANGED Fifo(k)!vars)]_vars

\* What the thresholds of BlockQueue.hpp:85 and :102 cost: a consumer that
\* still waits has been left with at most half of the capacity, however many
\* values came since it fell asleep, and a producer that still waits has been
\* left with at least half of it.
FewLeftOver ==
  OneEach =>
    /\ \A c \in Consumers : cpc[c] = "waiting" => Len(bq) <= Cap \div 2
    /\ \A p \in Producers : ppc[p] = "waiting" => Len(bq) >= Cap \div 2

\* BlockQueue.hpp:85 and :102: however many threads use the queue and whatever
\* wakes them, with room for two values they are never all asleep in their
\* waits, where nobody would be left to signal: whoever falls asleep last
\* leaves a queue for which somebody on the other side was woken.
NeverAllAsleep ==
  Cap > 1 /\ use.producers # {} /\ use.consumers # {} =>
    \/ \E p \in use.producers : ppc[p] # "waiting"
    \/ \E c \in use.consumers : cpc[c] # "waiting"

\* With room for two values every call returns: a producer that found the queue
\* full is woken after the consumer has made room, a consumer that found it
\* empty is woken by the producer, although each wakes the other only past
\* half of the capacity.  (With room for one the condition of
\* BlockQueue.hpp:102 is 0 < 0 and nobody ever wakes the producer.)
EveryCallReturns ==
  /\ \A p \in Producers :
       (OneEach /\ Cap > 1 /\ ppc[p] = "lock") ~> (ppc[p] = "idle")
  /\ \A c \in Consumers :
       (OneEach /\ Cap > 1 /\ cpc[c] = "lock") ~> (cpc[c] = "idle")
=============================================================================
