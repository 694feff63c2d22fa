------------------------------ MODULE RingQueue ------------------------------
(***************************************************************************)
(* The ring buffer on two semaphores of                                    *)
(* pthread/生产者消费者模型/ring_queue(基于信号量).cc, used by one producer   *)
(* and one consumer thread.  There is no lock: a step is one semaphore     *)
(* operation, one access to a slot or one update of an index, and the two  *)
(* threads interleave between any two of them.  p_step_ and c_step_ are    *)
(* each used by one thread only.                                           *)
(***************************************************************************)
EXTENDS Integers, Sequences

CONSTANTS
  Cap,      \* cap_
  Values,   \* what the producer pushes
  None      \* content of a slot, or of *out, before the first assignment

ASSUME CapAssumption == Cap \in Nat \ {0}
ASSUME NoneAssumption == None \notin Values

VARIABLES
  ring,      \* ring_queue_
  blank,     \* value of blank_sem_
  data,      \* value of data_sem_
  p_step, c_step,
  ppc, cpc,  \* next step of the producer and of the consumer
  in,        \* argument of the current Push
  out        \* *out of the current or last Pop

producer == <<p_step, ppc, in>>
consumer == <<c_step, cpc, out>>
vars == <<ring, blank, data, producer, consumer>>

Init ==
  /\ ring = [i \in 0 .. Cap-1 |-> None]
  /\ blank = Cap
  /\ data = 0
  /\ p_step = 0 /\ c_step = 0
  /\ ppc = "idle" /\ cpc = "idle"
  /\ in = None /\ out = None

Advance(step) == (step + 1) % Cap
-----------------------------------------------------------------------------
(***************************************************************************)
(* Push.                                                                   *)
(***************************************************************************)
PushCall(v) ==
  /\ ppc = "idle"
  /\ ppc' = "wait"
  /\ in' = v
  /\ UNCHANGED <<ring, blank, data, p_step, consumer>>

\* Mutation: the wait for a blank slot is missing.
PushWaitNot ==
  /\ ppc = "wait"
  /\ ppc' = "write"
  /\ UNCHANGED <<ring, blank, data, p_step, in, consumer>>

PushWait ==
  /\ ppc = "wait"
  /\ blank > 0
  /\ blank' = blank - 1
  /\ ppc' = "write"
  /\ UNCHANGED <<ring, data, p_step, in, consumer>>

PushWrite ==
  /\ ppc = "write"
  /\ ring' = [ring EXCEPT ![p_step] = in]
  /\ ppc' = "post"
  /\ UNCHANGED <<blank, data, p_step, in, consumer>>

PushPost ==
  /\ ppc = "post"
  /\ data' = data + 1
  /\ ppc' = "step"
  /\ UNCHANGED <<ring, blank, p_step, in, consumer>>

PushStep ==
  /\ ppc = "step"
  /\ p_step' = Advance(p_step)
  /\ ppc' = "idle"
  /\ UNCHANGED <<ring, blank, data, in, consumer>>
-----------------------------------------------------------------------------
(***************************************************************************)
(* Pop.                                                                    *)
(***************************************************************************)
PopCall ==
  /\ cpc = "idle"
  /\ cpc' = "wait"
  /\ UNCHANGED <<ring, blank, data, producer, c_step, out>>

\* Mutation: the blank slot is posted before the value is copied.
PopWaitPost ==
  /\ cpc = "wait"
  /\ data > 0
  /\ data' = data - 1
  /\ blank' = blank + 1
  /\ cpc' = "read"
  /\ UNCHANGED <<ring, producer, c_step, out>>

PopWait ==
  /\ cpc = "wait"
  /\ data > 0
  /\ data' = data - 1
  /\ cpc' = "read"
  /\ UNCHANGED <<ring, blank, producer, c_step, out>>

PopRead ==
  /\ cpc = "read"
  /\ out' = ring[c_step]
  /\ cpc' = "post"
  /\ UNCHANGED <<ring, blank, data, producer, c_step>>

\* Mutation: the blank slot is not posted.
PopPostNot ==
  /\ cpc = "post"
  /\ cpc' = "step"
  /\ UNCHANGED <<ring, blank, data, producer, c_step, out>>

PopPost ==
  /\ cpc = "post"
  /\ blank' = blank + 1
  /\ cpc' = "step"
  /\ UNCHANGED <<ring, data, producer, c_step, out>>

PopStep ==
  /\ cpc = "step"
  /\ c_step' = Advance(c_step)
  /\ cpc' = "idle"
  /\ UNCHANGED <<ring, blank, data, producer, out>>
-----------------------------------------------------------------------------
Push == PushWait \/ PushWrite \/ PushPost \/ PushStep

Pop == PopWait \/ PopRead \/ PopPost \/ PopStep

Next == (\E v \in Values : PushCall(v)) \/ Push \/ PopCall \/ Pop

Spec == Init /\ [][Next]_vars

\* Both threads run, and the consumer keeps calling Pop, which is an assumption
\* about whoever uses the class: the repository has no program that does.  The
\* producer may stop calling Push.
Fairness == WF_vars(Push) /\ WF_vars(PopCall \/ Pop)

FairSpec == Spec /\ Fairness
-----------------------------------------------------------------------------
(***************************************************************************)
(* Properties.                                                             *)
(***************************************************************************)
\* Types of all variables; both indices are always inside the vector and no
\* semaphore exceeds the number of slots.
TypeOK ==
  /\ ring \in [0 .. Cap-1 -> Values \cup {None}]
  /\ blank \in 0 .. Cap
  /\ data \in 0 .. Cap
  /\ p_step \in 0 .. Cap-1
  /\ c_step \in 0 .. Cap-1
  /\ ppc \in {"idle", "wait", "write", "post", "step"}
  /\ cpc \in {"idle", "wait", "read", "post", "step"}
  /\ in \in Values \cup {None}
  /\ out \in Values \cup {None}

\* The number of slots that hold a value: written, and not read yet.
Count ==
  data + (IF ppc = "post" THEN 1 ELSE 0) + (IF cpc = "read" THEN 1 ELSE 0)

\* Every slot is blank, or claimed by Push, or holds a value, or was read and
\* not posted yet; the two semaphores never give a slot away twice.
SlotsAccountedFor ==
  blank + (IF ppc = "write" THEN 1 ELSE 0) + Count + (IF cpc = "post" THEN 1 ELSE 0)
    = Cap

\* The producer never writes the slot the consumer is reading.
SlotExclusive == ~ (ppc = "write" /\ cpc = "read" /\ p_step = c_step)

\* The index of the oldest value: c_step_ lags behind once it was read.
Oldest == IF cpc \in {"post", "step"} THEN Advance(c_step) ELSE c_step

\* The values in the ring, oldest first.
Contents == [i \in 1 .. Count |-> ring[(Oldest + i - 1) % Cap]]

Fifo == INSTANCE BoundedFifo
  WITH q <- Contents, got <- [t \in {"consumer"} |-> out], Takers <- {"consumer"}

\* The ring buffer is a bounded queue: every value pushed comes out of Pop
\* once and in order, and at most Cap values wait.
IsBoundedFifo == Fifo!Spec

\* The semaphores block nobody for ever: a Push that waits for a slot returns
\* when the consumer keeps popping, and a value that was pushed is fetched.
NobodyStarves ==
  /\ (ppc = "wait") ~> (ppc = "idle")
  /\ (Count > 0) ~> (cpc = "post")
=============================================================================
