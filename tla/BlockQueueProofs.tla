--------------------------- MODULE BlockQueueProofs ---------------------------
(***************************************************************************)
(* Proofs about BlockQueue, for any sets of threads and values and any     *)
(* capacities.                                                             *)
(***************************************************************************)
EXTENDS BlockQueue, TLAPS, SequenceTheorems

\* A thread that is not idle is one that the program uses, and brings a value.
InUse ==
  /\ \A p \in Producers : ppc[p] # "idle" => p \in use.producers /\ in[p] \in Values
  /\ \A c \in Consumers : cpc[c] # "idle" => c \in use.consumers

\* With one thread on each side nobody but the thread itself can undo what it
\* found, or what it was woken for.
Found ==
  OneEach =>
    /\ \A p \in Producers : ppc[p] \in {"put", "relock"} => Len(bq) < Cap
    /\ \A c \in Consumers : cpc[c] \in {"take", "relock"} => bq # <<>>

\* The inductive invariant.
IInv == TypeOK /\ MutualExclusion /\ InUse /\ Found /\ IfIsEnough /\ FewLeftOver

\* The capacity of the program that runs.
LEMMA CapFacts ==
  ASSUME TypeOK
  PROVE  /\ Cap \in Caps /\ Cap \in Nat /\ Cap > 0
         /\ Cap \div 2 \in Nat /\ Cap \div 2 < Cap
         /\ use.producers \subseteq Producers /\ use.consumers \subseteq Consumers
<1>1. /\ Cap \in Caps
      /\ use.producers \subseteq Producers /\ use.consumers \subseteq Consumers
  BY UsesAssumption DEF TypeOK, Cap
<1>2. Cap \in Nat /\ Cap > 0
  BY <1>1, CapAssumption
<1>3. Cap \div 2 \in Nat /\ Cap \div 2 < Cap
  BY <1>2
<1> QED BY <1>1, <1>2, <1>3

\* pthread_cond_signal moves at most one thread, from its wait to the mutex, and
\* moves it for certain if it is the only one that can wait.
LEMMA PushWakes ==
  ASSUME TypeOK, NEW p \in Producers, PushPut(p)
  PROVE  /\ cpc' \in [Consumers -> ConsumerSteps]
         /\ \A t \in Consumers : cpc'[t] = cpc[t] \/ (cpc[t] = "waiting" /\ cpc'[t] = "relock")
         /\ EnoughToCallConsumer(Len(bq')) =>
              \A t \in Consumers : (\A u \in Consumers : cpc[u] = "waiting" => u = t) => cpc'[t] # "waiting"
<1> DEFINE W == {t \in Consumers : cpc[t] = "waiting"}
<1>0. cpc \in [Consumers -> ConsumerSteps] /\ "relock" \in ConsumerSteps
  BY DEF TypeOK, ConsumerSteps
<1>1. CASE cpc' = cpc /\ ~ EnoughToCallConsumer(Len(bq'))
  BY <1>0, <1>1
<1>2. CASE EnoughToCallConsumer(Len(bq')) /\ cpc' \in Signal(cpc)
  <2>1. Signal(cpc) = IF W = {} THEN {cpc} ELSE {[cpc EXCEPT ![t] = "relock"] : t \in W}
    BY <1>0 DEF Signal
  <2>2. CASE W = {}
    BY <1>0, <1>2, <2>1, <2>2
  <2>3. CASE W # {}
    <3>1. PICK t \in W : cpc' = [cpc EXCEPT ![t] = "relock"]
      BY <1>2, <2>1, <2>3
    <3> QED BY <1>0, <3>1
  <2> QED BY <2>2, <2>3
<1> QED BY <1>1, <1>2 DEF PushPut

LEMMA PopWakes ==
  ASSUME TypeOK, NEW c \in Consumers, PopTake(c)
  PROVE  /\ ppc' \in [Producers -> ProducerSteps]
         /\ \A t \in Producers : ppc'[t] = ppc[t] \/ (ppc[t] = "waiting" /\ ppc'[t] = "relock")
         /\ EnoughToCallProducer(Len(bq')) =>
              \A t \in Producers : (\A u \in Producers : ppc[u] = "waiting" => u = t) => ppc'[t] # "waiting"
<1> DEFINE W == {t \in Producers : ppc[t] = "waiting"}
<1>0. ppc \in [Producers -> ProducerSteps] /\ "relock" \in ProducerSteps
  BY DEF TypeOK, ProducerSteps
<1>1. CASE ppc' = ppc /\ ~ EnoughToCallProducer(Len(bq'))
  BY <1>0, <1>1
<1>2. CASE EnoughToCallProducer(Len(bq')) /\ ppc' \in Signal(ppc)
  <2>1. Signal(ppc) = IF W = {} THEN {ppc} ELSE {[ppc EXCEPT ![t] = "relock"] : t \in W}
    BY <1>0 DEF Signal
  <2>2. CASE W = {}
    BY <1>0, <1>2, <2>1, <2>2
  <2>3. CASE W # {}
    <3>1. PICK t \in W : ppc' = [ppc EXCEPT ![t] = "relock"]
      BY <1>2, <2>1, <2>3
    <3> QED BY <1>0, <3>1
  <2> QED BY <2>2, <2>3
<1> QED BY <1>1, <1>2 DEF PopTake

LEMMA InitIInv == Init => IInv
<1> SUFFICES ASSUME Init PROVE IInv
  OBVIOUS
<1>1. TypeOK
  BY DEF Init, TypeOK, ProducerSteps, ConsumerSteps
<1>2. MutualExclusion /\ InUse /\ Found /\ FewLeftOver
  BY NoneAssumption DEF Init, MutualExclusion, InUse, Found, FewLeftOver
<1>3. IfIsEnough
  BY <1>1, CapFacts DEF Init, IfIsEnough, NeverOverfull, NeverPopsEmpty
<1> QED BY <1>1, <1>2, <1>3 DEF IInv

LEMMA StepTypes == IInv /\ [Next]_vars => TypeOK'
<1> SUFFICES ASSUME IInv, [Next]_vars PROVE TypeOK'
  OBVIOUS
<1> USE DEF IInv, TypeOK, ProducerSteps, ConsumerSteps, PGoto, CGoto
<1>0. use.producers \subseteq Producers /\ use.consumers \subseteq Consumers
  BY CapFacts
<1>1. ASSUME NEW p \in Producers, PushPut(p) PROVE TypeOK'
  <2>1. cpc' \in [Consumers -> ConsumerSteps]
    BY <1>1, PushWakes
  <2>2. in[p] \in Values
    BY <1>1 DEF PushPut, InUse
  <2>3. bq' \in Seq(Values)
    BY <1>1, <2>2, AppendProperties DEF PushPut
  <2> QED BY <1>1, <2>1, <2>3 DEF PushPut
<1>2. ASSUME NEW c \in Consumers, PopTake(c) PROVE TypeOK'
  <2>1. ppc' \in [Producers -> ProducerSteps]
    BY <1>2, PopWakes
  <2>2. Head(bq) \in Values /\ Tail(bq) \in Seq(Values)
    BY <1>2, HeadTailProperties DEF PopTake
  <2> QED BY <1>2, <2>1, <2>2 DEF PopTake
<1>3. ASSUME NEW p \in Producers, Push(p) \/ PushSpurious(p), ~ PushPut(p) PROVE TypeOK'
  BY <1>3 DEF Push, PushCall, PushLock, PushTest, PushSleep, PushSpurious, PushRelock, PushUnlock
<1>4. ASSUME NEW c \in Consumers, Pop(c) \/ PopSpurious(c), ~ PopTake(c) PROVE TypeOK'
  BY <1>4 DEF Pop, PopCall, PopLock, PopTest, PopSleep, PopSpurious, PopRelock, PopUndefined, PopUnlock
<1>5. CASE UNCHANGED vars
  BY <1>5 DEF vars
<1> QED BY <1>0, <1>1, <1>2, <1>3, <1>4, <1>5 DEF Next, Push, Pop

\* The mutex is free whenever a thread goes on behind it.
LEMMA StepExclusion == IInv /\ [Next]_vars => MutualExclusion'
<1> SUFFICES ASSUME IInv, [Next]_vars PROVE MutualExclusion'
  OBVIOUS
<1> USE NoneAssumption, ThreadAssumption DEF MutualExclusion, PGoto, CGoto
<1>0. /\ TypeOK /\ MutualExclusion
      /\ ppc \in [Producers -> ProducerSteps] /\ cpc \in [Consumers -> ConsumerSteps]
      /\ "relock" \in ProducerSteps \cap ConsumerSteps
      /\ use.producers \subseteq Producers /\ use.consumers \subseteq Consumers
  BY CapFacts DEF IInv, TypeOK, ProducerSteps, ConsumerSteps
<1>1. ASSUME NEW p \in Producers, PushPut(p) PROVE MutualExclusion'
  <2>1. \A c \in Consumers : cpc'[c] = cpc[c] \/ (cpc[c] = "waiting" /\ cpc'[c] = "relock")
    BY <1>0, <1>1, PushWakes
  <2> QED BY <1>0, <1>1, <2>1 DEF PushPut
<1>2. ASSUME NEW c \in Consumers, PopTake(c) PROVE MutualExclusion'
  <2>1. \A p \in Producers : ppc'[p] = ppc[p] \/ (ppc[p] = "waiting" /\ ppc'[p] = "relock")
    BY <1>0, <1>2, PopWakes
  <2> QED BY <1>0, <1>2, <2>1 DEF PopTake
<1>3. ASSUME NEW p \in Producers, Push(p) \/ PushSpurious(p), ~ PushPut(p) PROVE MutualExclusion'
  <2>1. CASE PushLock(p) \/ PushRelock(p)
    BY <1>0, <2>1 DEF PushLock, PushRelock
  <2>2. CASE PushSleep(p) \/ PushUnlock(p)
    BY <1>0, <2>2 DEF PushSleep, PushUnlock
  <2>3. CASE PushTest(p) \/ PushSpurious(p) \/ \E v \in Values : PushCall(p, v)
    BY <1>0, <2>3 DEF PushTest, PushSpurious, PushCall
  <2> QED BY <1>3, <2>1, <2>2, <2>3 DEF Push
<1>4. ASSUME NEW c \in Consumers, Pop(c) \/ PopSpurious(c), ~ PopTake(c) PROVE MutualExclusion'
  <2>1. CASE PopLock(c) \/ PopRelock(c)
    BY <1>0, <2>1 DEF PopLock, PopRelock
  <2>2. CASE PopSleep(c) \/ PopUnlock(c)
    BY <1>0, <2>2 DEF PopSleep, PopUnlock
  <2>3. CASE PopTest(c) \/ PopSpurious(c) \/ PopCall(c) \/ PopUndefined(c)
    BY <1>0, <2>3 DEF PopTest, PopSpurious, PopCall, PopUndefined
  <2> QED BY <1>4, <2>1, <2>2, <2>3 DEF Pop
<1>5. CASE UNCHANGED vars
  BY <1>0, <1>5 DEF vars
<1> QED BY <1>0, <1>1, <1>2, <1>3, <1>4, <1>5 DEF Next, Push, Pop

LEMMA StepInUse == IInv /\ [Next]_vars => InUse'
<1> SUFFICES ASSUME IInv, [Next]_vars PROVE InUse'
  OBVIOUS
<1> USE DEF InUse, PGoto, CGoto
<1>0. /\ TypeOK /\ InUse
      /\ ppc \in [Producers -> ProducerSteps] /\ cpc \in [Consumers -> ConsumerSteps]
      /\ in \in [Producers -> Values \cup {None}]
      /\ "relock" \in ProducerSteps \cap ConsumerSteps
      /\ use.producers \subseteq Producers /\ use.consumers \subseteq Consumers
  BY CapFacts DEF IInv, TypeOK, ProducerSteps, ConsumerSteps
<1>1. ASSUME NEW p \in use.producers, PushPut(p) PROVE InUse'
  <2>1. \A c \in Consumers : cpc'[c] = cpc[c] \/ (cpc[c] = "waiting" /\ cpc'[c] = "relock")
    BY <1>0, <1>1, PushWakes
  <2> QED BY <1>0, <1>1, <2>1 DEF PushPut
<1>2. ASSUME NEW c \in use.consumers, PopTake(c) PROVE InUse'
  <2>1. \A p \in Producers : ppc'[p] = ppc[p] \/ (ppc[p] = "waiting" /\ ppc'[p] = "relock")
    BY <1>0, <1>2, PopWakes
  <2> QED BY <1>0, <1>2, <2>1 DEF PopTake
<1>3. ASSUME NEW p \in use.producers, Push(p) \/ PushSpurious(p), ~ PushPut(p) PROVE InUse'
  <2>1. CASE \E v \in Values : PushCall(p, v)
    BY <1>0, <2>1 DEF PushCall
  <2>2. CASE ~ \E v \in Values : PushCall(p, v)
    BY <1>0, <1>3, <2>2
       DEF Push, PushLock, PushTest, PushSleep, PushSpurious, PushRelock, PushUnlock
  <2> QED BY <2>1, <2>2
<1>4. ASSUME NEW c \in use.consumers, Pop(c) \/ PopSpurious(c), ~ PopTake(c) PROVE InUse'
  BY <1>0, <1>4
     DEF Pop, PopCall, PopLock, PopTest, PopSleep, PopSpurious, PopRelock, PopUndefined, PopUnlock
<1>5. CASE UNCHANGED vars
  BY <1>0, <1>5 DEF vars
<1> QED BY <1>1, <1>2, <1>3, <1>4, <1>5 DEF Next, Push, Pop

\* Whether the program is that of CpTest.cc does not change.
LEMMA UseSteps == [Next]_vars => use' = use
BY DEF Next, vars, Push, PushCall, PushLock, PushTest, PushSleep, PushSpurious, PushRelock,
       PushPut, PushUnlock, Pop, PopCall, PopLock, PopTest, PopSleep, PopSpurious, PopRelock,
       PopTake, PopUndefined, PopUnlock

\* The program of CpTest.cc: nothing that was found, or promised by a signal, is
\* lost before the thread goes on.
LEMMA StepEnough == IInv /\ [Next]_vars => Found' /\ IfIsEnough' /\ FewLeftOver'
<1> DEFINE Goal ==
      /\ \A p \in Producers : ppc[p] \in {"put", "relock"} => Len(bq) < Cap
      /\ \A c \in Consumers : cpc[c] \in {"take", "relock"} => bq # <<>>
      /\ Len(bq) <= Cap
      /\ \A c \in Consumers : cpc[c] # "undefined"
      /\ \A c \in Consumers : cpc[c] = "waiting" => Len(bq) <= Cap \div 2
      /\ \A p \in Producers : ppc[p] = "waiting" => Len(bq) >= Cap \div 2
<1> SUFFICES ASSUME IInv, [Next]_vars, OneEach' PROVE Goal'
  BY DEF Found, IfIsEnough, NeverOverfull, NeverPopsEmpty, FewLeftOver
<1>0. /\ OneEach /\ Cap' = Cap /\ TypeOK /\ InUse /\ Goal
      /\ ppc \in [Producers -> ProducerSteps] /\ cpc \in [Consumers -> ConsumerSteps]
      /\ bq \in Seq(Values) /\ Len(bq) \in Nat
  BY UseSteps DEF OneEach, Cap, IInv, TypeOK, Found, IfIsEnough, NeverOverfull, NeverPopsEmpty,
                  FewLeftOver
<1>1. /\ Cap \in Nat /\ Cap > 0 /\ Cap \div 2 \in Nat /\ Cap \div 2 < Cap
      /\ use.producers \subseteq Producers /\ use.consumers \subseteq Consumers
  BY <1>0, CapFacts
<1>2. /\ ~ use.spurious
      /\ \A p, q \in Producers : ppc[p] # "idle" /\ ppc[q] # "idle" => p = q
      /\ \A c, d \in Consumers : cpc[c] # "idle" /\ cpc[d] # "idle" => c = d
  BY <1>0 DEF OneEach, InUse
<1> HIDE DEF Goal
<1> USE DEF PGoto, CGoto
<1>3. ASSUME NEW p \in use.producers, PushPut(p) PROVE Goal'
  <2>1. bq' # <<>> /\ Len(bq') = Len(bq) + 1 /\ Len(bq) < Cap
    <3>1. in[p] \in Values
      BY <1>0, <1>1, <1>3 DEF PushPut, InUse
    <3> QED BY <1>0, <1>1, <1>3, <3>1, AppendProperties DEF PushPut, Goal
  <2>2. \A c \in Consumers : cpc'[c] = "waiting" => Len(bq') <= Cap \div 2
    <3> SUFFICES ASSUME NEW c \in Consumers, cpc'[c] = "waiting", ~ (Len(bq') <= Cap \div 2)
                 PROVE FALSE
      OBVIOUS
    <3>1. cpc[c] = "waiting" /\ \A d \in Consumers : cpc[d] = "waiting" => d = c
      BY <1>0, <1>1, <1>2, <1>3, PushWakes
    <3>2. EnoughToCallConsumer(Len(bq'))
      BY <1>0, <1>1, <2>1 DEF EnoughToCallConsumer, Cap
    <3> QED BY <1>0, <1>1, <1>3, <3>1, <3>2, PushWakes
  <2>3. \A c \in Consumers : cpc'[c] # "undefined"
    BY <1>0, <1>1, <1>3, PushWakes DEF Goal
  <2>4. \A q \in Producers : q # p => ppc'[q] = ppc[q] /\ ppc[q] = "idle"
    BY <1>0, <1>1, <1>2, <1>3 DEF PushPut
  <2>5. ppc'[p] = "unlock"
    BY <1>0, <1>1, <1>3 DEF PushPut
  <2> QED BY <1>0, <1>1, <2>1, <2>2, <2>3, <2>4, <2>5 DEF Goal
<1>4. ASSUME NEW c \in use.consumers, PopTake(c) PROVE Goal'
  <2>1. Len(bq') = Len(bq) - 1 /\ Len(bq) <= Cap
    BY <1>0, <1>1, <1>4, HeadTailProperties DEF PopTake, Goal
  <2>2. \A p \in Producers : ppc'[p] = "waiting" => Len(bq') >= Cap \div 2
    <3> SUFFICES ASSUME NEW p \in Producers, ppc'[p] = "waiting", ~ (Len(bq') >= Cap \div 2)
                 PROVE FALSE
      OBVIOUS
    <3>1. ppc[p] = "waiting" /\ \A q \in Producers : ppc[q] = "waiting" => q = p
      BY <1>0, <1>1, <1>2, <1>4, PopWakes
    <3>2. EnoughToCallProducer(Len(bq'))
      BY <1>0, <1>1, <2>1 DEF EnoughToCallProducer, Cap
    <3> QED BY <1>0, <1>1, <1>4, <3>1, <3>2, PopWakes
  <2>3. \A d \in Consumers : d # c => cpc'[d] = cpc[d] /\ cpc[d] = "idle"
    BY <1>0, <1>1, <1>2, <1>4 DEF PopTake
  <2>4. cpc'[c] = "unlock"
    BY <1>0, <1>1, <1>4 DEF PopTake
  <2> QED BY <1>0, <1>1, <2>1, <2>2, <2>3, <2>4 DEF Goal
<1>5. ASSUME NEW p \in use.producers, Push(p) \/ PushSpurious(p), ~ PushPut(p) PROVE Goal'
  <2>1. bq' = bq /\ cpc' = cpc /\ \A q \in Producers : q # p => ppc'[q] = ppc[q]
    BY <1>0, <1>1, <1>2, <1>5
       DEF Push, PushCall, PushLock, PushTest, PushSleep, PushSpurious, PushRelock, PushUnlock
  <2>2. /\ ppc'[p] \in {"put", "relock"} => Len(bq) < Cap
        /\ ppc'[p] = "waiting" => Len(bq) >= Cap \div 2
    BY <1>0, <1>1, <1>2, <1>5
       DEF Push, PushCall, PushLock, PushTest, PushSleep, PushSpurious, PushRelock, PushUnlock,
           IsFull, Goal
  <2> QED BY <1>0, <1>1, <2>1, <2>2 DEF Goal
<1>6. ASSUME NEW c \in use.consumers, Pop(c) \/ PopSpurious(c), ~ PopTake(c) PROVE Goal'
  <2>1. bq' = bq /\ ppc' = ppc /\ \A d \in Consumers : d # c => cpc'[d] = cpc[d]
    BY <1>0, <1>1, <1>2, <1>6
       DEF Pop, PopCall, PopLock, PopTest, PopSleep, PopSpurious, PopRelock, PopUndefined, PopUnlock
  <2>2. /\ cpc'[c] \in {"take", "relock"} => bq # <<>>
        /\ cpc'[c] = "waiting" => Len(bq) <= Cap \div 2
        /\ cpc'[c] # "undefined"
    BY <1>0, <1>1, <1>2, <1>6
       DEF Pop, PopCall, PopLock, PopTest, PopSleep, PopSpurious, PopRelock, PopUndefined, PopUnlock,
           IsEmpty, Goal
  <2> QED BY <1>0, <1>1, <2>1, <2>2 DEF Goal
<1>7. CASE UNCHANGED vars
  BY <1>0, <1>7 DEF vars, Goal
<1> QED BY <1>3, <1>4, <1>5, <1>6, <1>7 DEF Next

LEMMA IInvAlways == Spec => []IInv
<1>1. IInv /\ [Next]_vars => IInv'
  BY StepTypes, StepExclusion, StepInUse, StepEnough DEF IInv
<1> QED BY <1>1, InitIInv, PTL DEF Spec

\* Every variable of the blocking queue keeps its type.
THEOREM TypeCorrect == Spec => []TypeOK
<1>1. IInv => TypeOK
  BY DEF IInv
<1> QED BY <1>1, IInvAlways, PTL

\* However many threads use the queue and whatever wakes them, only one is
\* between its lock and its unlock; a wait is no exception.
THEOREM OneInside == Spec => []MutualExclusion
<1>1. IInv => MutualExclusion
  BY DEF IInv
<1> QED BY <1>1, IInvAlways, PTL

\* The `if` before the wait is enough for one producer and one consumer whom
\* nobody wakes without a signal, for every capacity.
THEOREM TheIfIsEnough == Spec => []IfIsEnough
<1>1. IInv => IfIsEnough
  BY DEF IInv
<1> QED BY <1>1, IInvAlways, PTL

\* A thread of that program that is left waiting is left with at most (at
\* least) half of the capacity.
THEOREM HalfIsLeftOver == Spec => []FewLeftOver
<1>1. IInv => FewLeftOver
  BY DEF IInv
<1> QED BY <1>1, IInvAlways, PTL
-----------------------------------------------------------------------------
(***************************************************************************)
(* For that program the queue is a bounded first-in first-out buffer.      *)
(***************************************************************************)
\* The append of Push is the Put of the buffer.
LEMMA PushPutIsPut ==
  ASSUME IInv, OneEach, NEW k, k = Cap, NEW p \in use.producers, PushPut(p)
  PROVE  Fifo(k)!Put(in[p]) /\ in[p] \in Values
<1>1. p \in Producers
  BY CapFacts DEF IInv
<1>2. Len(bq) < Cap
  BY <1>1 DEF IInv, Found, PushPut
<1>3. in[p] \in Values
  BY <1>1 DEF IInv, InUse, PushPut
<1> QED BY <1>2, <1>3 DEF Fifo!Put, PushPut

\* The front and pop of Pop are the Take of the buffer.
LEMMA PopTakeIsTake ==
  ASSUME NEW k, NEW c \in Consumers, PopTake(c)
  PROVE  Fifo(k)!Take(c)
BY DEF Fifo!Take, PopTake

\* Every other step leaves the buffer alone.
LEMMA OtherStepsStutter ==
  ASSUME NEW k,
         \/ \E p \in use.producers : (Push(p) \/ PushSpurious(p)) /\ ~ PushPut(p)
         \/ \E c \in use.consumers : (Pop(c) \/ PopSpurious(c)) /\ ~ PopTake(c)
         \/ UNCHANGED vars
  PROVE  UNCHANGED Fifo(k)!vars
<1>1. bq' = bq /\ out' = out
  BY DEF vars, Push, PushCall, PushLock, PushTest, PushSleep, PushSpurious, PushRelock,
         PushUnlock, Pop, PopCall, PopLock, PopTest, PopSleep, PopSpurious, PopRelock,
         PopUndefined, PopUnlock
<1> QED BY <1>1 DEF Fifo!vars

\* For the callers of the program with one producer and one consumer the queue
\* is a bounded first-in first-out buffer of its capacity.
THEOREM QueueIsBoundedFifo == Spec => BoundedFifoSteps
<1>1. IInv /\ [Next]_vars =>
        (OneEach => \E k \in Caps : k = Cap /\ (Fifo(k)!Next \/ UNCHANGED Fifo(k)!vars))
  <2> SUFFICES ASSUME IInv, [Next]_vars, OneEach
               PROVE  \E k \in Caps : k = Cap /\ (Fifo(k)!Next \/ UNCHANGED Fifo(k)!vars)
    OBVIOUS
  <2>0. PICK k \in Caps : k = Cap
    BY CapFacts DEF IInv
  <2>1. ASSUME NEW p \in use.producers, PushPut(p) PROVE Fifo(k)!Next
    BY <2>0, <2>1, PushPutIsPut DEF Fifo!Next
  <2>2. ASSUME NEW c \in use.consumers, PopTake(c) PROVE Fifo(k)!Next
    <3>1. c \in Consumers
      BY CapFacts DEF IInv
    <3> QED BY <2>2, <3>1, PopTakeIsTake DEF Fifo!Next
  <2> QED BY <2>0, <2>1, <2>2, OtherStepsStutter DEF Next
<1> QED BY <1>1, IInvAlways, PTL DEF Spec, BoundedFifoSteps
-----------------------------------------------------------------------------
(***************************************************************************)
(* Whatever the number of threads, they are never all asleep.              *)
(***************************************************************************)
\* In a queue that is more than half full some consumer is awake, in one that
\* is less than half full some producer is.
SomebodyAwake ==
  use.producers # {} /\ use.consumers # {} =>
    /\ Len(bq) > Cap \div 2 => \E c \in use.consumers : cpc[c] # "waiting"
    /\ Len(bq) < Cap \div 2 => \E p \in use.producers : ppc[p] # "waiting"

\* A signal leaves somebody awake: the thread it chose, or everybody if none
\* was waiting.
LEMMA SignalWakes ==
  ASSUME NEW T, NEW S, "relock" \in S, NEW U
  PROVE  \A pc, new :
           /\ pc \in [T -> S] /\ new \in Signal(pc)
           /\ U \subseteq T /\ U # {} /\ \A t \in T : pc[t] # "idle" => t \in U
           => \E t \in U : new[t] # "waiting"
<1> SUFFICES ASSUME NEW pc \in [T -> S], NEW new \in Signal(pc),
                    U \subseteq T, U # {}, \A t \in T : pc[t] # "idle" => t \in U
             PROVE  \E t \in U : new[t] # "waiting"
  OBVIOUS
<1> DEFINE W == {t \in T : pc[t] = "waiting"}
<1>1. Signal(pc) = IF W = {} THEN {pc} ELSE {[pc EXCEPT ![t] = "relock"] : t \in W}
  BY DEF Signal
<1>2. CASE W = {}
  BY <1>1, <1>2
<1>3. CASE W # {}
  <2>1. PICK t \in W : new = [pc EXCEPT ![t] = "relock"]
    BY <1>1, <1>3
  <2>2. t \in U /\ new[t] = "relock"
    BY <2>1
  <2> QED BY <2>2
<1> QED BY <1>2, <1>3

\* What was put was put by a producer that is awake, and above half of the
\* capacity a consumer was called.
LEMMA PushKeepsAwake ==
  ASSUME IInv, SomebodyAwake, NEW p \in use.producers, PushPut(p)
  PROVE  SomebodyAwake' /\ NeverAllAsleep'
<1>1. /\ ppc \in [Producers -> ProducerSteps] /\ cpc \in [Consumers -> ConsumerSteps]
      /\ "relock" \in ConsumerSteps
      /\ use.producers \subseteq Producers /\ use.consumers \subseteq Consumers
      /\ Cap \div 2 \in Nat /\ Len(bq) \in Nat
  BY CapFacts DEF IInv, TypeOK, ProducerSteps, ConsumerSteps
<1>2. use' = use /\ Cap' = Cap /\ ppc'[p] # "waiting"
  BY <1>1 DEF PushPut, PGoto, Cap
<1>3. ASSUME use.consumers # {}, Len(bq') > Cap \div 2
      PROVE  \E c \in use.consumers : cpc'[c] # "waiting"
  <2>1. EnoughToCallConsumer(Len(bq'))
    BY <1>3 DEF EnoughToCallConsumer
  <2>2. cpc' \in Signal(cpc)
    BY <2>1 DEF PushPut
  <2>3. \A c \in Consumers : cpc[c] # "idle" => c \in use.consumers
    BY DEF IInv, InUse
  <2>4. /\ cpc \in [Consumers -> ConsumerSteps] /\ "relock" \in ConsumerSteps
        /\ use.consumers \subseteq Consumers /\ use.consumers # {}
    BY <1>1, <1>3
  <2> QED BY ONLY <2>2, <2>3, <2>4, SignalWakes
<1> QED BY <1>2, <1>3 DEF SomebodyAwake, NeverAllAsleep

\* What was taken was taken by a consumer that is awake, and below half of the
\* capacity a producer was called.
LEMMA PopKeepsAwake ==
  ASSUME IInv, SomebodyAwake, NEW c \in use.consumers, PopTake(c)
  PROVE  SomebodyAwake' /\ NeverAllAsleep'
<1>1. /\ ppc \in [Producers -> ProducerSteps] /\ cpc \in [Consumers -> ConsumerSteps]
      /\ "relock" \in ProducerSteps
      /\ use.producers \subseteq Producers /\ use.consumers \subseteq Consumers
      /\ Cap \div 2 \in Nat /\ Len(bq) \in Nat
  BY CapFacts DEF IInv, TypeOK, ProducerSteps, ConsumerSteps
<1>2. use' = use /\ Cap' = Cap /\ cpc'[c] # "waiting"
  BY <1>1 DEF PopTake, CGoto, Cap
<1>3. ASSUME use.producers # {}, Len(bq') < Cap \div 2
      PROVE  \E p \in use.producers : ppc'[p] # "waiting"
  <2>1. EnoughToCallProducer(Len(bq'))
    BY <1>3 DEF EnoughToCallProducer
  <2>2. ppc' \in Signal(ppc)
    BY <2>1 DEF PopTake
  <2>3. \A p \in Producers : ppc[p] # "idle" => p \in use.producers
    BY DEF IInv, InUse
  <2>4. /\ ppc \in [Producers -> ProducerSteps] /\ "relock" \in ProducerSteps
        /\ use.producers \subseteq Producers /\ use.producers # {}
    BY <1>1, <1>3
  <2> QED BY ONLY <2>2, <2>3, <2>4, SignalWakes
<1> QED BY <1>2, <1>3 DEF SomebodyAwake, NeverAllAsleep

\* A producer that falls asleep has seen the queue full, a consumer has seen it
\* empty: the other side is awake.
LEMMA SleepKeepsAwake ==
  ASSUME IInv, SomebodyAwake, NeverAllAsleep,
         \/ \E p \in use.producers : PushSleep(p)
         \/ \E c \in use.consumers : PopSleep(c)
  PROVE  SomebodyAwake' /\ NeverAllAsleep'
<1>1. /\ ppc \in [Producers -> ProducerSteps] /\ cpc \in [Consumers -> ConsumerSteps]
      /\ use.producers \subseteq Producers /\ use.consumers \subseteq Consumers
      /\ Cap \in Nat /\ Cap > 0 /\ Cap \div 2 \in Nat /\ Cap \div 2 < Cap /\ Len(bq) \in Nat
  BY CapFacts DEF IInv, TypeOK
<1>2. CASE \E p \in use.producers : PushSleep(p)
  <2>1. /\ Len(bq) = Cap /\ UNCHANGED <<use, bq, cpc>> /\ Cap' = Cap
    BY <1>2 DEF PushSleep, IsFull, Cap
  <2>2. ~ (Len(bq) < Cap \div 2) /\ Len(bq) > Cap \div 2
    BY <1>1, <2>1
  <2> QED BY <2>1, <2>2 DEF SomebodyAwake, NeverAllAsleep
<1>3. CASE \E c \in use.consumers : PopSleep(c)
  <2>1. /\ Len(bq) = 0 /\ UNCHANGED <<use, bq, ppc>> /\ Cap' = Cap
    BY <1>3 DEF PopSleep, IsEmpty, Cap
  <2>2. ~ (Len(bq) > Cap \div 2) /\ (Cap > 1 => Len(bq) < Cap \div 2)
    BY <1>1, <2>1
  <2> QED BY <2>1, <2>2 DEF SomebodyAwake, NeverAllAsleep
<1> QED BY <1>2, <1>3

\* No other step puts a thread to sleep or changes the queue.
LEMMA OthersKeepAwake ==
  ASSUME IInv, SomebodyAwake, NeverAllAsleep,
         \/ \E p \in use.producers :
              (Push(p) \/ PushSpurious(p)) /\ ~ PushPut(p) /\ ~ PushSleep(p)
         \/ \E c \in use.consumers :
              (Pop(c) \/ PopSpurious(c)) /\ ~ PopTake(c) /\ ~ PopSleep(c)
         \/ UNCHANGED vars
  PROVE  SomebodyAwake' /\ NeverAllAsleep'
<1>1. /\ ppc \in [Producers -> ProducerSteps] /\ cpc \in [Consumers -> ConsumerSteps]
      /\ use.producers \subseteq Producers /\ use.consumers \subseteq Consumers
  BY CapFacts DEF IInv, TypeOK
<1>2. /\ use' = use /\ bq' = bq /\ Cap' = Cap
      /\ \A p \in use.producers : ppc'[p] = "waiting" => ppc[p] = "waiting"
      /\ \A c \in use.consumers : cpc'[c] = "waiting" => cpc[c] = "waiting"
  BY <1>1 DEF vars, Cap, PGoto, CGoto, Push, PushCall, PushLock, PushTest, PushSpurious,
              PushRelock, PushUnlock, Pop, PopCall, PopLock, PopTest, PopSpurious, PopRelock,
              PopUndefined, PopUnlock
<1> QED BY <1>2 DEF SomebodyAwake, NeverAllAsleep

\* BlockQueue.hpp:85 and :102: any number of producers and consumers on a queue
\* with room for two values, woken by signals or without, never all sleep.
THEOREM NotAllAsleep == Spec => []NeverAllAsleep
<1>1. Init => SomebodyAwake /\ NeverAllAsleep
  BY CapFacts, InitIInv DEF Init, IInv, SomebodyAwake, NeverAllAsleep
<1>2. IInv /\ SomebodyAwake /\ NeverAllAsleep /\ [Next]_vars
        => SomebodyAwake' /\ NeverAllAsleep'
  BY PushKeepsAwake, PopKeepsAwake, SleepKeepsAwake, OthersKeepAwake DEF Next
<1> QED BY <1>1, <1>2, IInvAlways, PTL DEF Spec
=============================================================================
