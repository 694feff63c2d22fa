----------------------------- MODULE RingQueueMT -----------------------------
(***************************************************************************)
(* The ring buffer for many producers and many consumers of                *)
(* pthread/生产者消费者模型/MultiThreadVersion.cc: two semaphores count the  *)
(* slots, p_mtx_ serialises the producers, c_mtx_ the consumers, and       *)
(* nothing excludes a producer from a consumer.  A step is one semaphore   *)
(* or mutex operation, one access to a slot or one update of an index.     *)
(***************************************************************************)
EXTENDS Integers, Sequences, FiniteSets

CONSTANTS
  Producers, Consumers,   \* threads that call Push, threads that call Pop
  Cap,                    \* cap_
  Values,                 \* what the producers push
  None

ASSUME CapAssumption == Cap \in Nat \ {0}
ASSUME NoneAssumption == None \notin Values \cup Producers \cup Consumers
ASSUME FiniteAssumption == IsFiniteSet(Producers) /\ IsFiniteSet(Consumers)

VARIABLES
  ring,            \* ring_queue_
  blank, data,     \* values of blank_sem_ and data_sem_
  p_step, c_step,
  p_mtx, c_mtx,    \* thread that holds the mutex
  ppc, cpc,        \* next step of each thread
  in,              \* argument of each producer's current Push
  out              \* *out of each consumer's current or last Pop

pvars == <<p_step, p_mtx, ppc, in>>
cvars == <<c_step, c_mtx, cpc, out>>
vars == <<ring, blank, data, pvars, cvars>>

Init ==
  /\ ring = [i \in 0 .. Cap-1 |-> None]
  /\ blank = Cap
  /\ data = 0
  /\ p_step = 0 /\ c_step = 0
  /\ p_mtx = None /\ c_mtx = None
  /\ ppc = [p \in Producers |-> "idle"]
  /\ cpc = [c \in Consumers |-> "idle"]
  /\ in = [p \in Producers |-> None]
  /\ out = [c \in Consumers |-> None]

Advance(step) == (step + 1) % Cap
-----------------------------------------------------------------------------
(***************************************************************************)
(* Push.                                                                   *)
(***************************************************************************)
PGoto(p, step) == ppc' = [ppc EXCEPT ![p] = step]

PushCall(p, v) ==
  /\ ppc[p] = "idle"
  /\ in' = [in EXCEPT ![p] = v]
  /\ PGoto(p, "wait")
  /\ UNCHANGED <<ring, blank, data, p_step, p_mtx, cvars>>

PushWait(p) ==
  /\ ppc[p] = "wait"
  /\ blank > 0
  /\ blank' = blank - 1
  /\ PGoto(p, "lock")
  /\ UNCHANGED <<ring, data, p_step, p_mtx, in, cvars>>

\* Mutation: the mutex of the producers is not taken.
PushLockNot(p) ==
  /\ ppc[p] = "lock"
  /\ PGoto(p, "write")
  /\ UNCHANGED <<ring, blank, data, p_step, p_mtx, in, cvars>>

PushLock(p) ==
  /\ ppc[p] = "lock"
  /\ p_mtx = None
  /\ p_mtx' = p
  /\ PGoto(p, "write")
  /\ UNCHANGED <<ring, blank, data, p_step, in, cvars>>

PushWrite(p) ==
  /\ ppc[p] = "write"
  /\ ring' = [ring EXCEPT ![p_step] = in[p]]
  /\ PGoto(p, "step")
  /\ UNCHANGED <<blank, data, p_step, p_mtx, in, cvars>>

PushStep(p) ==
  /\ ppc[p] = "step"
  /\ p_step' = Advance(p_step)
  /\ PGoto(p, "unlock")
  /\ UNCHANGED <<ring, blank, data, p_mtx, in, cvars>>

PushUnlock(p) ==
  /\ ppc[p] = "unlock"
  /\ p_mtx' = None
  /\ PGoto(p, "post")
  /\ UNCHANGED <<ring, blank, data, p_step, in, cvars>>

\* Mutation: the value is not announced.
PushPostNot(p) ==
  /\ ppc[p] = "post"
  /\ PGoto(p, "idle")
  /\ UNCHANGED <<ring, blank, data, p_step, p_mtx, in, cvars>>

PushPost(p) ==
  /\ ppc[p] = "post"
  /\ data' = data + 1
  /\ PGoto(p, "idle")
  /\ UNCHANGED <<ring, blank, p_step, p_mtx, in, cvars>>
-----------------------------------------------------------------------------
(***************************************************************************)
(* Pop.                                                                    *)
(***************************************************************************)
CGoto(c, step) == cpc' = [cpc EXCEPT ![c] = step]

PopCall(c) ==
  /\ cpc[c] = "idle"
  /\ CGoto(c, "wait")
  /\ UNCHANGED <<ring, blank, data, pvars, c_step, c_mtx, out>>

\* Mutation: the slot is posted as blank before it is read.
PopWaitPost(c) ==
  /\ cpc[c] = "wait"
  /\ data > 0
  /\ data' = data - 1
  /\ blank' = blank + 1
  /\ CGoto(c, "lock")
  /\ UNCHANGED <<ring, pvars, c_step, c_mtx, out>>

PopWait(c) ==
  /\ cpc[c] = "wait"
  /\ data > 0
  /\ data' = data - 1
  /\ CGoto(c, "lock")
  /\ UNCHANGED <<ring, blank, pvars, c_step, c_mtx, out>>

PopLock(c) ==
  /\ cpc[c] = "lock"
  /\ c_mtx = None
  /\ c_mtx' = c
  /\ CGoto(c, "read")
  /\ UNCHANGED <<ring, blank, data, pvars, c_step, out>>

PopRead(c) ==
  /\ cpc[c] = "read"
  /\ out' = [out EXCEPT ![c] = ring[c_step]]
  /\ CGoto(c, "step")
  /\ UNCHANGED <<ring, blank, data, pvars, c_step, c_mtx>>

PopStep(c) ==
  /\ cpc[c] = "step"
  /\ c_step' = Advance(c_step)
  /\ CGoto(c, "unlock")
  /\ UNCHANGED <<ring, blank, data, pvars, c_mtx, out>>

\* Mutation: the mutex is kept.
PopUnlockNot(c) ==
  /\ cpc[c] = "unlock"
  /\ CGoto(c, "post")
  /\ UNCHANGED <<ring, blank, data, pvars, c_step, c_mtx, out>>

PopUnlock(c) ==
  /\ cpc[c] = "unlock"
  /\ c_mtx' = None
  /\ CGoto(c, "post")
  /\ UNCHANGED <<ring, blank, data, pvars, c_step, out>>

PopPost(c) ==
  /\ cpc[c] = "post"
  /\ blank' = blank + 1
  /\ CGoto(c, "idle")
  /\ UNCHANGED <<ring, data, pvars, c_step, c_mtx, out>>
-----------------------------------------------------------------------------
Push(p) ==
  PushWait(p) \/ PushLock(p) \/ PushWrite(p) \/ PushStep(p) \/ PushUnlock(p) \/ PushPost(p)

Pop(c) ==
  PopWait(c) \/ PopLock(c) \/ PopRead(c) \/ PopStep(c) \/ PopUnlock(c) \/ PopPost(c)

Next ==
  \/ \E p \in Producers : Push(p) \/ \E v \in Values : PushCall(p, v)
  \/ \E c \in Consumers : Pop(c) \/ PopCall(c)

Spec == Init /\ [][Next]_vars

\* The producers together and the consumers together make progress (the
\* scheduler may prefer one thread of each kind for ever: neither sem_wait
\* nor the mutex is fair), and some consumer keeps calling Pop, an assumption
\* about whoever uses the class: the repository has no program that does.
Fairness ==
  /\ WF_vars(\E p \in Producers : Push(p))
  /\ WF_vars(\E c \in Consumers : Pop(c) \/ PopCall(c))

FairSpec == Spec /\ Fairness
-----------------------------------------------------------------------------
(***************************************************************************)
(* Properties.                                                             *)
(***************************************************************************)
\* Types of all variables; the indices stay inside the vector although they
\* are shared.
TypeOK ==
  /\ ring \in [0 .. Cap-1 -> Values \cup {None}]
  /\ blank \in 0 .. Cap
  /\ data \in 0 .. Cap
  /\ p_step \in 0 .. Cap-1
  /\ c_step \in 0 .. Cap-1
  /\ p_mtx \in Producers \cup {None}
  /\ c_mtx \in Consumers \cup {None}
  /\ ppc \in [Producers -> {"idle", "wait", "lock", "write", "step", "unlock", "post"}]
  /\ cpc \in [Consumers -> {"idle", "wait", "lock", "read", "step", "unlock", "post"}]
  /\ in \in [Producers -> Values \cup {None}]
  /\ out \in [Consumers -> Values \cup {None}]

\* The threads that are at some of the steps.
PAt(steps) == {p \in Producers : ppc[p] \in steps}
CAt(steps) == {c \in Consumers : cpc[c] \in steps}

\* The number of slots that hold a value: written, and not read yet.
Count ==
  data + Cardinality(PAt({"step", "unlock", "post"})) + Cardinality(CAt({"lock", "read"}))

\* Every slot is blank, or claimed by a Push that has not written, or holds a
\* value, or was read by a Pop that has not posted.
SlotsAccountedFor ==
  blank + Cardinality(PAt({"lock", "write"})) + Count
        + Cardinality(CAt({"step", "unlock", "post"})) = Cap

\* No mutex keeps producers and consumers apart, yet no slot is written while
\* it is read: the semaphores suffice, in whatever order they are posted.
SlotExclusive ==
  \A p \in PAt({"write"}), c \in CAt({"read"}) : p_step # c_step

\* A thread inside sem_wait or pthread_mutex_lock that cannot return from it now.
PBlocked(p) == (ppc[p] = "wait" /\ blank = 0) \/ (ppc[p] = "lock" /\ p_mtx # None)
CBlocked(c) == (cpc[c] = "wait" /\ data = 0) \/ (cpc[c] = "lock" /\ c_mtx # None)

\* MultiThreadVersion.cc:54 and :69: each thread takes a semaphore and then a mutex, and
\* gives them back in the order mutex, semaphore of the other side; for all
\* that, they never all wait for each other.
NeverAllBlocked ==
  Producers # {} /\ Consumers # {} =>
    (\E p \in Producers : ~ PBlocked(p)) \/ (\E c \in Consumers : ~ CBlocked(c))

\* The index of the oldest value: c_step_ lags behind once it was read.
Oldest == IF CAt({"step"}) # {} THEN Advance(c_step) ELSE c_step

\* The values in the ring, oldest first.
Contents == [i \in 1 .. Count |-> ring[(Oldest + i - 1) % Cap]]

Fifo == INSTANCE BoundedFifo WITH q <- Contents, got <- out, Takers <- Consumers

\* The ring buffer is a bounded queue for any number of threads: the values
\* come out once each, in the order in which the producers had the mutex.
IsBoundedFifo == Fifo!Spec

\* Whatever is pushed does not stay: while there is a value, some consumer
\* eventually posts a slot.
SlotsRecycled == (Count > 0) ~> (CAt({"post"}) # {})
=============================================================================
