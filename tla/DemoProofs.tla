----------------------------- MODULE DemoProofs -----------------------------
(***************************************************************************)
(* Proofs about the small programs: Tickets, CondDemo, UdpEcho, Signals    *)
(* and Readers, for all values of their constants.  A result holds for the *)
(* program alone, and for MCSpec, where it is one of several.              *)
(***************************************************************************)
EXTENDS MCDemos, TLAPS, FiniteSetTheorems, SequenceTheorems
-----------------------------------------------------------------------------
\* The part of GetTicket that runs under the mutex.
Inside == {"test", "print", "load", "store", "unlock", "leave"}

\* With the mutex it is held around GetTicket, without it nobody touches it.
Exclusion ==
  /\ locked => \A t \in Threads : pc[t] \in Inside <=> mtx = t
  /\ ~ locked => \A t \in Threads : pc[t] \notin {"lock", "unlock", "leave"}

\* A store that is still to come, whatever was stored since the load, leaves
\* no more tickets announced than it takes.
StoresCovered ==
  \A t \in Threads :
    pc[t] = "store" => Initial - (reg[t] - 1) <= sales - Cardinality(InSale) + 1

\* With the mutex what a thread has read is what it will find.
ReadsCurrent ==
  locked =>
    \A t \in Threads :
      /\ pc[t] \in {"print", "load", "store"} => tickets > 0
      /\ pc[t] = "store" => reg[t] = tickets

\* The inductive invariant.
IInv ==
  /\ TypeOK
  /\ Exclusion
  /\ NothingSoldSilently
  /\ StoresCovered
  /\ SalesInOrder
  /\ ReadsCurrent

\* Each program of the composition behaves as if it were alone.
LEMMA EachProgramAlone ==
  MCSpec => Spec /\ Cond!Spec /\ Udp!Spec /\ Signal!Spec /\ Read!Spec
<1>1. MCInit => Init /\ Cond!Init /\ Udp!Init /\ Signal!Init /\ Read!Init
  BY DEF MCInit
<1>2. [MCNext]_allVars => /\ [Next]_vars
                          /\ [Cond!Next]_Cond!vars
                          /\ [Udp!Next]_Udp!vars
                          /\ [Signal!Next]_Signal!vars
                          /\ [Read!Next]_Read!vars
  BY DEF MCNext, allVars, condVars, udpVars, signalVars, readVars,
         Cond!vars, Udp!vars, Udp!client, Udp!network, Udp!server, Signal!vars,
         Read!vars, Read!setup, Read!user, Read!output
<1> QED
  BY <1>1, <1>2, PTL DEF MCSpec, Spec, Cond!Spec, Udp!Spec, Signal!Spec, Read!Spec

\* The threads in the middle of a sale are finitely many.
LEMMA InSaleFinite == IsFiniteSet(InSale) /\ Cardinality(InSale) \in Nat
BY ThreadsAssumption, FS_Subset, FS_CardinalityType DEF InSale

LEMMA InitIInv == Init => IInv
<1> SUFFICES ASSUME Init PROVE IInv
  OBVIOUS
<1>1. InSale = {}
  BY DEF Init, InSale, Start
<1>2. Cardinality(InSale) = 0
  BY <1>1, FS_EmptySet
<1>3. TypeOK
  BY InitialAssumption DEF Init, TypeOK, Start
<1>4. Exclusion
  BY ThreadsAssumption DEF Init, Exclusion, Start, Inside
<1>5. NothingSoldSilently
  BY <1>2, InitialAssumption DEF Init, NothingSoldSilently
<1>6. StoresCovered
  BY DEF Init, StoresCovered, Start
<1>7. SalesInOrder
  <2>1. (Initial + 1 - 0)..Initial = {}
    BY InitialAssumption
  <2> QED BY <1>2, <2>1, InitialAssumption DEF Init, SalesInOrder
<1>8. ReadsCurrent
  BY DEF Init, ReadsCurrent, Start
<1> QED BY <1>3, <1>4, <1>5, <1>6, <1>7, <1>8 DEF IInv

\* How the steps change the set of threads in the middle of a sale.
LEMMA SaleSteps ==
  ASSUME TypeOK, NEW t \in Threads
  PROVE  /\ PrintTicket(t) =>
              InSale' = InSale \cup {t} /\ Cardinality(InSale') = Cardinality(InSale) + 1
         /\ Store(t) =>
              InSale' = InSale \ {t} /\ Cardinality(InSale') = Cardinality(InSale) - 1
         /\ (Lock(t) \/ Test(t) \/ SoldOut(t) \/ Load(t) \/ Unlock(t) \/ Leave(t)) =>
              InSale' = InSale
<1>1. ASSUME PrintTicket(t)
      PROVE InSale' = InSale \cup {t} /\ Cardinality(InSale') = Cardinality(InSale) + 1
  <2>1. InSale' = InSale \cup {t} /\ t \notin InSale
    BY <1>1 DEF PrintTicket, Goto, InSale, TypeOK
  <2> QED BY <2>1, InSaleFinite, FS_AddElement
<1>2. ASSUME Store(t)
      PROVE InSale' = InSale \ {t} /\ Cardinality(InSale') = Cardinality(InSale) - 1
  <2>1. InSale' = InSale \ {t} /\ t \in InSale
    BY <1>2 DEF Store, Goto, InSale, TypeOK
  <2> QED BY <2>1, InSaleFinite, FS_RemoveElement
<1>3. ASSUME Lock(t) \/ Test(t) \/ SoldOut(t) \/ Load(t) \/ Unlock(t) \/ Leave(t)
      PROVE InSale' = InSale
  BY <1>3 DEF Lock, Test, SoldOut, Load, Unlock, Leave, Goto, InSale, TypeOK
<1> QED BY <1>1, <1>2, <1>3

\* With the mutex a thread inside GetTicket is the only one in a sale.
LEMMA SaleOfHolder ==
  ASSUME IInv, locked, NEW t \in Threads, pc[t] \in Inside
  PROVE  Cardinality(InSale) = IF t \in InSale THEN 1 ELSE 0
<1>1. \A u \in Threads : u \in InSale => u = t
  BY DEF IInv, Exclusion, Inside, InSale
<1>2. CASE t \in InSale
  <2>1. InSale = {t}
    BY <1>1, <1>2 DEF InSale
  <2> QED BY <1>2, <2>1, FS_Singleton
<1>3. CASE t \notin InSale
  <2>1. InSale = {}
    BY <1>1, <1>3 DEF InSale
  <2> QED BY <1>3, <2>1, FS_EmptySet
<1> QED BY <1>2, <1>3

LEMMA StepTypes == IInv /\ [Next]_vars => TypeOK'
<1> SUFFICES ASSUME IInv, [Next]_vars PROVE TypeOK'
  OBVIOUS
<1> USE DEF IInv, TypeOK, Goto
<1>1. ASSUME NEW t \in Threads, ThreadRun(t) PROVE TypeOK'
  <2>1. CASE Lock(t) \/ Unlock(t) \/ Leave(t)
    BY <2>1 DEF Lock, Unlock, Leave
  <2>2. CASE Test(t) \/ SoldOut(t)
    BY <2>2 DEF Test, SoldOut
  <2>3. CASE PrintTicket(t)
    BY <2>3 DEF PrintTicket
  <2>4. CASE Load(t)
    BY <2>4 DEF Load
  <2>5. CASE Store(t)
    BY <2>5 DEF Store
  <2> QED BY <1>1, <2>1, <2>2, <2>3, <2>4, <2>5 DEF ThreadRun
<1>2. CASE UNCHANGED vars
  BY <1>2 DEF vars
<1> QED BY <1>1, <1>2 DEF Next

LEMMA StepExclusion == IInv /\ [Next]_vars => Exclusion'
<1> SUFFICES ASSUME IInv, [Next]_vars PROVE Exclusion'
  OBVIOUS
<1> USE ThreadsAssumption DEF IInv, TypeOK, Exclusion, Goto, Inside
<1>1. ASSUME NEW t \in Threads, ThreadRun(t) PROVE Exclusion'
  <2>1. CASE Lock(t)
    BY <2>1 DEF Lock
  <2>2. CASE Unlock(t) \/ Leave(t)
    BY <2>2 DEF Unlock, Leave
  <2>3. CASE Test(t) \/ SoldOut(t)
    BY <2>3 DEF Test, SoldOut
  <2>4. CASE PrintTicket(t) \/ Load(t) \/ Store(t)
    BY <2>4 DEF PrintTicket, Load, Store
  <2> QED BY <1>1, <2>1, <2>2, <2>3, <2>4 DEF ThreadRun
<1>2. CASE UNCHANGED vars
  BY <1>2 DEF vars
<1> QED BY <1>1, <1>2 DEF Next

\* Both programs: the arithmetic of a late store.
LEMMA StepCovered == IInv /\ [Next]_vars => NothingSoldSilently' /\ StoresCovered'
<1> SUFFICES ASSUME IInv, [Next]_vars PROVE NothingSoldSilently' /\ StoresCovered'
  OBVIOUS
<1> USE InitialAssumption DEF IInv, NothingSoldSilently, StoresCovered
<1>1. ASSUME NEW t \in Threads, ThreadRun(t) PROVE NothingSoldSilently' /\ StoresCovered'
  <2> DEFINE n == Cardinality(InSale)
  <2>0. TypeOK /\ n \in Nat
    BY InSaleFinite
  <2>1. CASE Lock(t) \/ Test(t) \/ SoldOut(t) \/ Unlock(t) \/ Leave(t)
    <3>1. n' = n
      BY <2>0, <2>1, SaleSteps
    <3> HIDE DEF n
    <3> QED BY <2>0, <2>1, <3>1 DEF n, TypeOK, Goto, Lock, Test, SoldOut, Unlock, Leave
  <2>2. CASE PrintTicket(t)
    <3>1. n' = n + 1
      BY <2>0, <2>2, SaleSteps
    <3> QED BY <2>0, <2>2, <3>1 DEF TypeOK, Goto, PrintTicket
  <2>3. CASE Load(t)
    <3>1. n' = n
      BY <2>0, <2>3, SaleSteps
    <3> QED BY <2>0, <2>3, <3>1 DEF TypeOK, Goto, Load
  <2>4. CASE Store(t)
    <3>1. n' = n - 1
      BY <2>0, <2>4, SaleSteps
    <3> QED BY <2>0, <2>4, <3>1 DEF TypeOK, Goto, Store
  <2> QED BY <1>1, <2>1, <2>2, <2>3, <2>4 DEF ThreadRun
<1>2. CASE UNCHANGED vars
  BY <1>2 DEF vars, InSale
<1> QED BY <1>1, <1>2 DEF Next

\* The program with the mutex.
LEMMA StepInOrder == IInv /\ [Next]_vars => SalesInOrder' /\ ReadsCurrent'
<1> SUFFICES ASSUME IInv, [Next]_vars PROVE SalesInOrder' /\ ReadsCurrent'
  OBVIOUS
<1>1. ASSUME NEW t \in Threads, ThreadRun(t) PROVE SalesInOrder' /\ ReadsCurrent'
  <2>0. CASE ~ locked
    <3>1. ~ locked'
      BY <1>1, <2>0 DEF ThreadRun, Lock, Test, SoldOut, PrintTicket, Load, Store, Unlock, Leave
    <3> QED BY <3>1 DEF SalesInOrder, ReadsCurrent
  <2> SUFFICES ASSUME locked PROVE SalesInOrder' /\ ReadsCurrent'
    BY <2>0
  <2>a. pc[t] \in Inside => Cardinality(InSale) = IF t \in InSale THEN 1 ELSE 0
    BY <1>1, SaleOfHolder
  <2>b. /\ PrintTicket(t) => Cardinality(InSale') = Cardinality(InSale) + 1
        /\ Store(t) => Cardinality(InSale') = Cardinality(InSale) - 1
    BY <1>1, SaleSteps DEF IInv
  <2> USE InitialAssumption, InSaleFinite DEF IInv, TypeOK, Goto
  <2>1. CASE Lock(t) \/ SoldOut(t) \/ Unlock(t) \/ Leave(t)
    <3>1. InSale' = InSale
      BY <2>1, SaleSteps
    <3> QED BY <2>1, <3>1 DEF Lock, SoldOut, Unlock, Leave, SalesInOrder, ReadsCurrent
  <2>2. CASE Test(t)
    <3>1. InSale' = InSale
      BY <2>2, SaleSteps
    <3> QED BY <2>2, <3>1 DEF Test, SalesInOrder, ReadsCurrent
  <2>3. CASE PrintTicket(t)
    <3>1. Cardinality(InSale) = 0 /\ Cardinality(InSale') = 1
      BY <1>1, <2>3, <2>a, <2>b DEF PrintTicket, Inside, InSale
    <3>2. tickets > 0 /\ tickets <= Initial
      BY <2>3, <3>1 DEF PrintTicket, SalesInOrder, ReadsCurrent
    <3>3. sold' = (tickets' + 1 - 1)..Initial
      BY <2>3, <3>1, <3>2 DEF PrintTicket, SalesInOrder
    <3> QED BY <2>3, <3>1, <3>2, <3>3 DEF PrintTicket, SalesInOrder, ReadsCurrent
  <2>4. CASE Load(t)
    BY <2>4, SaleSteps DEF Load, SalesInOrder, ReadsCurrent
  <2>5. CASE Store(t)
    <3>1. Cardinality(InSale) = 1 /\ Cardinality(InSale') = 0
      BY <1>1, <2>5, <2>a, <2>b DEF Store, Inside, InSale
    <3>2. tickets' = tickets - 1 /\ tickets' >= 0
      BY <2>5 DEF Store, ReadsCurrent
    <3>3. SalesInOrder'
      BY <2>5, <3>1, <3>2 DEF Store, SalesInOrder
    <3>4. \A u \in Threads : pc'[u] \notin {"print", "load", "store"}
      BY <2>5 DEF Store, Exclusion, Inside
    <3> QED BY <3>3, <3>4 DEF ReadsCurrent
  <2> QED BY <1>1, <2>1, <2>2, <2>3, <2>4, <2>5 DEF ThreadRun
<1>2. CASE UNCHANGED vars
  BY <1>2 DEF vars, IInv, SalesInOrder, ReadsCurrent, InSale
<1> QED BY <1>1, <1>2 DEF Next

LEMMA IInvAlways == Spec => []IInv
<1>1. IInv /\ [Next]_vars => IInv'
  BY StepTypes, StepExclusion, StepCovered, StepInOrder DEF IInv
<1> QED BY <1>1, InitIInv, PTL DEF Spec

\* Every variable of the ticket sellers keeps its type.
THEOREM TypeCorrect == Spec => []TypeOK
<1>1. IInv => TypeOK
  BY DEF IInv
<1> QED BY <1>1, IInvAlways, PTL

\* The sales add up: without the mutex no ticket disappears that no line
\* announced, with it the lines are Initial, Initial - 1, ... down to 1.
THEOREM TheSalesAddUp == Spec => []SalesAddUp
<1>1. IInv => SalesAddUp
  BY DEF IInv, SalesAddUp
<1> QED BY <1>1, IInvAlways, PTL
-----------------------------------------------------------------------------
(***************************************************************************)
(* The workers of thread_cond.c.                                           *)
(***************************************************************************)
CondTypes ==
  /\ wpc \in [Workers -> {"first", "waiting", "relock", "working"}]
  /\ lock \in {0, 1}
  /\ strays \in Nat

\* CondDemo counts with the same operator.
LEMMA SameCount == \A S : Cond!Cardinality(S) = Cardinality(S)
BY DEF Cond!Cardinality, Cardinality

\* How the steps change the number of workers that work.
LEMMA WorkingSteps ==
  ASSUME IsFiniteSet(Workers), CondTypes, NEW w \in Workers
  PROVE  /\ Cardinality(Cond!Working) \in Nat
         /\ Cond!Relock(w) => Cardinality(Cond!Working') = Cardinality(Cond!Working) + 1
         /\ Cond!Wait(w) => Cardinality(Cond!Working') = Cardinality(Cond!Working) - 1
         /\ (Cond!FirstWait(w) \/ Cond!SignalOne(w) \/ Cond!Spurious(w)) =>
              Cond!Working' = Cond!Working
<1>1. IsFiniteSet(Cond!Working) /\ Cardinality(Cond!Working) \in Nat
  BY FS_Subset, FS_CardinalityType DEF Cond!Working
<1>2. ASSUME Cond!Relock(w)
      PROVE Cardinality(Cond!Working') = Cardinality(Cond!Working) + 1
  <2>1. Cond!Working' = Cond!Working \cup {w} /\ w \notin Cond!Working
    BY <1>2 DEF Cond!Relock, Cond!Goto, Cond!Working, CondTypes
  <2> QED BY <1>1, <2>1, FS_AddElement
<1>3. ASSUME Cond!Wait(w)
      PROVE Cardinality(Cond!Working') = Cardinality(Cond!Working) - 1
  <2>1. Cond!Working' = Cond!Working \ {w} /\ w \in Cond!Working
    BY <1>3 DEF Cond!Wait, Cond!Goto, Cond!Working, CondTypes
  <2> QED BY <1>1, <2>1, FS_RemoveElement
<1>4. ASSUME Cond!FirstWait(w) \/ Cond!SignalOne(w) \/ Cond!Spurious(w)
      PROVE Cond!Working' = Cond!Working
  BY <1>4 DEF Cond!FirstWait, Cond!SignalOne, Cond!Spurious, Cond!Goto, Cond!Working, CondTypes
<1> QED BY <1>1, <1>2, <1>3, <1>4

\* The workers of thread_cond.c, which wait without having locked the mutex,
\* overlap only as far as first waits have taken it from one of them.
THEOREM OverlapIsBounded ==
  ASSUME IsFiniteSet(Workers)
  PROVE  (Cond!Spec => []Cond!OverlapBounded) /\ (MCSpec => []OverlapBounded)
<1> DEFINE CInv == CondTypes /\ Cond!OverlapBounded
<1>1. Cond!Init => CInv
  <2> SUFFICES ASSUME Cond!Init PROVE CInv
    OBVIOUS
  <2>1. Cond!Working = {}
    BY DEF Cond!Init, Cond!Working
  <2> QED BY <2>1, FS_EmptySet, SameCount DEF Cond!Init, CondTypes, Cond!OverlapBounded
<1>2. CInv /\ [Cond!Next]_Cond!vars => CInv'
  <2> SUFFICES ASSUME CInv, [Cond!Next]_Cond!vars PROVE CInv'
    OBVIOUS
  <2> DEFINE n == Cardinality(Cond!Working)
  <2>0. /\ CondTypes /\ n <= strays + lock
        /\ CondTypes' /\ n' <= strays' + lock' => CInv'
    BY SameCount DEF Cond!OverlapBounded
  <2>1. ASSUME NEW w \in Workers, Cond!Relock(w) PROVE CInv'
    <3>1. n \in Nat /\ n' = n + 1
      BY <2>0, <2>1, WorkingSteps
    <3>2. strays' = strays /\ lock = 0 /\ lock' = 1 /\ CondTypes'
      BY <2>0, <2>1 DEF Cond!Relock, Cond!Goto, CondTypes
    <3> HIDE DEF n
    <3> QED BY <2>0, <3>1, <3>2 DEF CondTypes
  <2>2. ASSUME NEW w \in Workers, Cond!Wait(w) PROVE CInv'
    <3>1. n \in Nat /\ n' = n - 1
      BY <2>0, <2>2, WorkingSteps
    <3>2. strays' = strays /\ lock' = 0 /\ CondTypes'
      BY <2>0, <2>2 DEF Cond!Wait, Cond!Goto, CondTypes
    <3> HIDE DEF n
    <3> QED BY <2>0, <3>1, <3>2 DEF CondTypes
  <2>3. ASSUME NEW w \in Workers, Cond!FirstWait(w) PROVE CInv'
    <3>1. n \in Nat /\ n' = n
      BY <2>0, <2>3, WorkingSteps
    <3>2. strays' = strays + lock /\ lock' = 0 /\ CondTypes'
      BY <2>0, <2>3 DEF Cond!FirstWait, Cond!Goto, CondTypes
    <3> HIDE DEF n
    <3> QED BY <2>0, <3>1, <3>2 DEF CondTypes
  <2>4. ASSUME NEW w \in Workers, Cond!SignalOne(w) \/ Cond!Spurious(w) PROVE CInv'
    <3>1. n \in Nat /\ n' = n
      BY <2>0, <2>4, WorkingSteps
    <3>2. strays' = strays /\ lock' = lock /\ CondTypes'
      BY <2>0, <2>4 DEF Cond!SignalOne, Cond!Spurious, Cond!Goto, CondTypes
    <3> HIDE DEF n
    <3> QED BY <2>0, <3>1, <3>2 DEF CondTypes
  <2>5. CASE UNCHANGED Cond!vars
    BY <2>0, <2>5 DEF CondTypes, Cond!Working, Cond!vars
  <2> QED BY <2>1, <2>2, <2>3, <2>4, <2>5 DEF Cond!Next, Cond!Ctrl, Cond!Work
<1>3. CInv => Cond!OverlapBounded
  OBVIOUS
<1>4. Cond!Spec => []Cond!OverlapBounded
  BY <1>1, <1>2, <1>3, PTL DEF Cond!Spec
<1>5. Cond!OverlapBounded <=> OverlapBounded
  BY DEF OverlapBounded
<1> QED BY <1>4, <1>5, EachProgramAlone, PTL
-----------------------------------------------------------------------------
(***************************************************************************)
(* The flag and the mask.                                                  *)
(***************************************************************************)
\* Signal 2 can only be pending where it is blocked, in the program with the
\* mask.  One that came then stays pending until it kills the process, and the
\* mask is put back only in round Rounds.
MaskInv ==
  /\ count \in Nat
  /\ step = "start" => count = 0
  /\ blocked => prog = "mask" /\ step \in {"round", "restore"}
  /\ blocked /\ step = "round" => count < Rounds
  /\ missed => step = "killed" \/ (blocked /\ pending)

\* Who reads the line that the block is lifted reads that no signal came while
\* it was in force, however many rounds it takes.
THEOREM LiftedMeansQuiet ==
  ASSUME Rounds \in Nat \ {0}
  PROVE  (Signal!Spec => []Signal!ReportedOnlyIfQuiet) /\ (MCSpec => []ReportedOnlyIfQuiet)
<1>1. Signal!Init => MaskInv
  BY DEF Signal!Init, MaskInv
<1>2. MaskInv /\ [Signal!Next]_Signal!vars => MaskInv'
  <2> SUFFICES ASSUME MaskInv, [Signal!Next]_Signal!vars PROVE MaskInv'
    OBVIOUS
  <2>1. CASE Signal!Interrupt
    BY <2>1 DEF MaskInv, Signal!Interrupt, Signal!Alive, Signal!Caught
  <2>2. CASE Signal!InterruptBlocked
    BY <2>2 DEF MaskInv, Signal!InterruptBlocked
  <2>3. CASE Signal!Block
    BY <2>3 DEF MaskInv, Signal!Block
  <2>4. CASE Signal!Round
    BY <2>4 DEF MaskInv, Signal!Round
  <2>5. CASE Signal!Restore
    BY <2>5 DEF MaskInv, Signal!Restore
  <2>6. CASE Signal!Report
    BY <2>6 DEF MaskInv, Signal!Report
  <2>7. CASE Signal!Install \/ Signal!Look \/ UNCHANGED Signal!vars
    BY <2>7 DEF MaskInv, Signal!Install, Signal!Look, Signal!vars
  <2> QED BY <2>1, <2>2, <2>3, <2>4, <2>5, <2>6, <2>7 DEF Signal!Next, Signal!Main
<1>3. MaskInv => Signal!ReportedOnlyIfQuiet
  BY DEF MaskInv, Signal!ReportedOnlyIfQuiet
<1>4. Signal!Spec => []Signal!ReportedOnlyIfQuiet
  BY <1>1, <1>2, <1>3, PTL DEF Signal!Spec
<1>5. Signal!ReportedOnlyIfQuiet <=> ReportedOnlyIfQuiet
  BY DEF ReportedOnlyIfQuiet
<1> QED BY <1>4, <1>5, EachProgramAlone, PTL
-----------------------------------------------------------------------------
(***************************************************************************)
(* The readers.                                                            *)
(***************************************************************************)
\* errno says EAGAIN only if a call has failed with it; it does say so until the
\* line about a read that found nothing is printed, and does not until the line
\* about a read that failed in another way is.
ErrnoInv ==
  /\ found \in {"data", "end", "nothing", "error"}
  /\ errno = "again" => refused
  /\ rpc = "echo" => found = "data" /\ said = ""
  /\ rpc = "report" /\ found = "nothing" => errno = "again"
  /\ rpc = "report" /\ found = "error" => errno = "other"
  /\ Read!LinesJustified

\* fcntl.cc says "read fail" only of a read that found the end or failed with an
\* errno other than EAGAIN, and "not ready" only of one that found nothing or,
\* after a call that did fail with EAGAIN, of one that found the end.
THEOREM TheLinesAreJustified ==
  (Read!Spec => []Read!LinesJustified) /\ (MCSpec => []LinesJustified)
<1>1. Read!Init => ErrnoInv
  BY DEF Read!Init, ErrnoInv, Read!LinesJustified
<1>2. ErrnoInv /\ [Read!Next]_Read!vars => ErrnoInv'
  <2> SUFFICES ASSUME ErrnoInv, [Read!Next]_Read!vars PROVE ErrnoInv'
    OBVIOUS
  <2>1. CASE Read!Type \/ Read!EndInput \/ Read!Show \/ UNCHANGED Read!vars
    BY <2>1 DEF ErrnoInv, Read!LinesJustified, Read!Type, Read!EndInput, Read!Show,
                Read!vars, Read!setup, Read!user, Read!output
  <2>2. CASE Read!ReadData
    BY <2>2 DEF ErrnoInv, Read!LinesJustified, Read!ReadData, Read!setup
  <2>3. CASE Read!ReadEnd
    BY <2>3 DEF ErrnoInv, Read!LinesJustified, Read!ReadEnd, Read!setup
  <2>4. CASE Read!ReadNothing
    BY <2>4 DEF ErrnoInv, Read!LinesJustified, Read!ReadNothing, Read!setup
  <2>5. CASE Read!Echo
    <3>1. /\ rpc = "echo" /\ rpc' = "report" /\ UNCHANGED <<reader, found, said>>
          /\ errno' = "again" => errno = "again" \/ refused'
          /\ refused => refused'
      BY <2>5 DEF Read!Echo, Read!setup
    <3> QED BY <3>1 DEF ErrnoInv, Read!LinesJustified
  <2>6. CASE Read!Report
    BY <2>6 DEF ErrnoInv, Read!LinesJustified, Read!Report, Read!Says,
                Read!CheckingSays, Read!setup
  <2>7. CASE Read!ReadFails
    BY <2>7 DEF ErrnoInv, Read!LinesJustified, Read!ReadFails, Read!setup
  <2> QED BY <2>1, <2>2, <2>3, <2>4, <2>5, <2>6, <2>7 DEF Read!Next, Read!Main
<1>3. ErrnoInv => Read!LinesJustified
  BY DEF ErrnoInv
<1>4. Read!Spec => []Read!LinesJustified
  BY <1>1, <1>2, <1>3, PTL DEF Read!Spec
<1>5. Read!LinesJustified <=> LinesJustified
  BY DEF LinesJustified
<1> QED BY <1>4, <1>5, EachProgramAlone, PTL

\* Each element is below those after it.
Increasing(s) == \A i, j \in DOMAIN s : i < j => s[i] < s[j]

\* Every element of one set is below every element of the other.
Below(A, B) == \A x \in A, y \in B : x < y

\* The elements of a concatenation.
LEMMA ToSetConcat ==
  ASSUME NEW S, NEW s \in Seq(S), NEW t \in Seq(S)
  PROVE  Read!ToSet(s \o t) = Read!ToSet(s) \cup Read!ToSet(t) /\ s \o t \in Seq(S)
<1>1. \A u : Read!ToSet(u) = Range(u)
  BY DEF Read!ToSet, Range
<1>2. Range(s \o t) = Range(s) \cup Range(t)
  BY RangeConcatenation
<1> QED BY <1>1, <1>2

\* A concatenation increases if its parts do and the first is below the second.
LEMMA IncreasingConcat ==
  ASSUME NEW s \in Seq(Nat), NEW t \in Seq(Nat)
  PROVE  Increasing(s \o t) <=>
           Increasing(s) /\ Increasing(t) /\ Below(Read!ToSet(s), Read!ToSet(t))
<1> DEFINE u == s \o t
<1>1. /\ Len(s) \in Nat /\ Len(t) \in Nat
      /\ DOMAIN s = 1..Len(s) /\ DOMAIN t = 1..Len(t)
      /\ DOMAIN u = 1..(Len(s) + Len(t))
      /\ \A i \in 1..Len(s) : u[i] = s[i]
      /\ \A i \in 1..Len(t) : u[Len(s) + i] = t[i]
  OBVIOUS
<1> HIDE DEF u
<1>2. ASSUME Increasing(u)
      PROVE  Increasing(s) /\ Increasing(t) /\ Below(Read!ToSet(s), Read!ToSet(t))
  <2>1. Increasing(s)
    BY <1>1, <1>2 DEF Increasing
  <2>2. ASSUME NEW i \in 1..Len(t), NEW j \in 1..Len(t), i < j PROVE t[i] < t[j]
    <3>1. /\ Len(s) + i \in DOMAIN u /\ Len(s) + j \in DOMAIN u
          /\ Len(s) + i < Len(s) + j
      BY <1>1, <2>2
    <3>2. u[Len(s) + i] < u[Len(s) + j]
      BY <3>1, <1>2 DEF Increasing
    <3> QED BY <3>2, <1>1
  <2>3. ASSUME NEW i \in 1..Len(s), NEW j \in 1..Len(t) PROVE s[i] < t[j]
    <3>1. i \in DOMAIN u /\ Len(s) + j \in DOMAIN u /\ i < Len(s) + j
      BY <1>1
    <3>2. u[i] < u[Len(s) + j]
      BY <3>1, <1>2 DEF Increasing
    <3> QED BY <3>2, <1>1
  <2> QED BY <2>1, <2>2, <2>3, <1>1 DEF Increasing, Below, Read!ToSet
<1>3. ASSUME Increasing(s), Increasing(t), Below(Read!ToSet(s), Read!ToSet(t)),
             NEW i \in DOMAIN u, NEW j \in DOMAIN u, i < j
      PROVE  u[i] < u[j]
  <2>0. i \in 1..(Len(s) + Len(t)) /\ j \in 1..(Len(s) + Len(t)) /\ i < j
    BY <1>1, <1>3
  <2>1. CASE j <= Len(s)
    <3>1. i \in DOMAIN s /\ j \in DOMAIN s
      BY <2>1, <2>0, <1>1
    <3> QED BY <3>1, <1>1, <1>3 DEF Increasing
  <2>2. CASE i > Len(s)
    <3>0. i \in Nat /\ j \in Nat /\ Len(s) \in Nat /\ Len(t) \in Nat
      BY <2>0, <1>1
    <3>1. /\ i - Len(s) \in DOMAIN t /\ j - Len(s) \in DOMAIN t
          /\ i - Len(s) < j - Len(s)
      BY <3>0, <2>2, <2>0, <1>1
    <3>4. Len(s) + (i - Len(s)) = i /\ Len(s) + (j - Len(s)) = j
      BY ONLY <3>0
    <3>2. t[i - Len(s)] < t[j - Len(s)]
      BY <3>1, <1>3 DEF Increasing
    <3>3. u[i] = t[i - Len(s)] /\ u[j] = t[j - Len(s)]
      BY <3>1, <3>4, <1>1
    <3> QED BY <3>2, <3>3
  <2>3. CASE i <= Len(s) /\ j > Len(s)
    <3>1. i \in DOMAIN s /\ j - Len(s) \in DOMAIN t /\ Len(s) + (j - Len(s)) = j
      BY <2>3, <2>0, <1>1
    <3>2. u[i] = s[i] /\ u[j] = t[j - Len(s)]
      BY <3>1, <1>1
    <3>3. s[i] < t[j - Len(s)]
      BY <3>1, <1>3 DEF Below, Read!ToSet
    <3> QED BY <3>2, <3>3
  <2> QED BY <2>0, <2>1, <2>2, <2>3, <1>1
<1> QED BY <1>2, <1>3 DEF u, Increasing

\* The same for three parts.
LEMMA IncreasingParts ==
  ASSUME NEW a \in Seq(Nat), NEW b \in Seq(Nat), NEW c \in Seq(Nat)
  PROVE  /\ a \o b \o c \in Seq(Nat)
         /\ Read!ToSet(a \o b \o c) = Read!ToSet(a) \cup Read!ToSet(b) \cup Read!ToSet(c)
         /\ Increasing(a \o b \o c) <=>
              /\ Increasing(a) /\ Increasing(b) /\ Increasing(c)
              /\ Below(Read!ToSet(a), Read!ToSet(b)) /\ Below(Read!ToSet(a), Read!ToSet(c))
              /\ Below(Read!ToSet(b), Read!ToSet(c))
<1> DEFINE d == a \o b
<1>1. d \in Seq(Nat) /\ Read!ToSet(d) = Read!ToSet(a) \cup Read!ToSet(b)
  BY ToSetConcat
<1>3. Increasing(d) <=>
        Increasing(a) /\ Increasing(b) /\ Below(Read!ToSet(a), Read!ToSet(b))
  BY IncreasingConcat
<1> HIDE DEF d
<1>2. /\ d \o c \in Seq(Nat)
      /\ Read!ToSet(d \o c) = Read!ToSet(d) \cup Read!ToSet(c)
  BY <1>1, ToSetConcat
<1>4. Increasing(d \o c) <=>
        Increasing(d) /\ Increasing(c) /\ Below(Read!ToSet(d), Read!ToSet(c))
  BY <1>1, IncreasingConcat
<1>5. Below(Read!ToSet(d), Read!ToSet(c)) <=>
        Below(Read!ToSet(a), Read!ToSet(c)) /\ Below(Read!ToSet(b), Read!ToSet(c))
  BY <1>1 DEF Below
<1> QED BY <1>1, <1>2, <1>3, <1>4, <1>5 DEF d

\* A sequence is its first elements and the others.
LEMMA CutInTwo ==
  ASSUME NEW S, NEW s \in Seq(S), NEW n \in 0..Len(s)
  PROVE  /\ SubSeq(s, 1, n) \in Seq(S) /\ SubSeq(s, n + 1, Len(s)) \in Seq(S)
         /\ SubSeq(s, 1, n) \o SubSeq(s, n + 1, Len(s)) = s
         /\ n = Len(s) => SubSeq(s, n + 1, Len(s)) = <<>>
<1>1. /\ 1 \in 1..(Len(s) + 1) /\ n \in 0..Len(s) /\ Len(s) \in n..Len(s)
      /\ 1 - 1 = 0 /\ Len(s) \in Nat /\ n \in Nat
  OBVIOUS
<1>2. SubSeq(s, 1, n) \in Seq(S) /\ SubSeq(s, n + 1, Len(s)) \in Seq(S)
  BY <1>1
<1>3. SubSeq(s, 1, n) \o SubSeq(s, n + 1, Len(s)) = SubSeq(s, 1, Len(s))
  BY <1>1, ConcatAdjacentSubSeq
<1>4. SubSeq(s, 1, Len(s)) = s
  BY SubSeqFull
<1>5. n = Len(s) => SubSeq(s, n + 1, Len(s)) = <<>>
  BY <1>1, SubSeqEmpty
<1> QED BY <1>2, <1>3, <1>4, <1>5

\* The parts of the echo follow each other and make up what was typed, but for
\* what was lost.
InParts(a, b, c, n, gone) ==
  /\ Increasing(a) /\ Increasing(b) /\ Increasing(c)
  /\ Below(Read!ToSet(a), Read!ToSet(b))
  /\ Below(Read!ToSet(a), Read!ToSet(c))
  /\ Below(Read!ToSet(b), Read!ToSet(c))
  /\ Read!ToSet(a) \cup Read!ToSet(b) \cup Read!ToSet(c) = (1..n) \ gone

\* What was read and not yet echoed, and then what waits to be read, follow
\* what is on the screen; all of it was typed.
EchoInv ==
  /\ typed \in Nat /\ queued \in Nat /\ queued <= Room
  /\ screen \in Seq(Nat) /\ text \in Seq(Nat) /\ input \in Seq(Nat)
  /\ cut \subseteq 1..typed
  /\ rpc # "echo" => text = <<>>
  /\ InParts(screen, text, input, typed, cut)
  /\ cut # {} => terminal /\ reader # "blocking"

\* The empty sequence, and one element.
LEMMA ShortSequences ==
  /\ <<>> \in Seq(Nat) /\ Increasing(<<>>) /\ Read!ToSet(<<>>) = {}
  /\ \A n \in Nat : <<n>> \in Seq(Nat) /\ Increasing(<<n>>) /\ Read!ToSet(<<n>>) = {n}
<1>1. <<>> \in Seq(Nat) /\ DOMAIN <<>> = {}
  OBVIOUS
<1>2. ASSUME NEW n \in Nat PROVE <<n>> \in Seq(Nat) /\ DOMAIN <<n>> = {1} /\ <<n>>[1] = n
  OBVIOUS
<1> QED BY <1>1, <1>2 DEF Increasing, Read!ToSet

\* What a sequence of numbers that increases loses when it is cut in two.
LEMMA TwoParts ==
  ASSUME NEW s \in Seq(Nat), NEW n \in 0..Len(s)
  PROVE  LET p == SubSeq(s, 1, n)
             q == SubSeq(s, n + 1, Len(s))
         IN  /\ p \in Seq(Nat) /\ q \in Seq(Nat)
             /\ Read!ToSet(s) = Read!ToSet(p) \cup Read!ToSet(q)
             /\ Increasing(s) <=>
                  Increasing(p) /\ Increasing(q) /\ Below(Read!ToSet(p), Read!ToSet(q))
<1> DEFINE p == SubSeq(s, 1, n)
           q == SubSeq(s, n + 1, Len(s))
<1>1. p \in Seq(Nat) /\ q \in Seq(Nat) /\ p \o q = s
  BY CutInTwo
<1> HIDE DEF p, q
<1>2. Read!ToSet(p \o q) = Read!ToSet(p) \cup Read!ToSet(q)
  BY <1>1, ToSetConcat
<1>3. Increasing(p \o q) <=>
        Increasing(p) /\ Increasing(q) /\ Below(Read!ToSet(p), Read!ToSet(q))
  BY <1>1, IncreasingConcat
<1> QED BY <1>1, <1>2, <1>3 DEF p, q

\* Something is typed.
LEMMA EchoType ==
  ASSUME EchoInv, Read!Type PROVE EchoInv'
<1>1. /\ typed' = typed + 1 /\ input' = Append(input, typed + 1)
      /\ UNCHANGED <<reader, terminal, rpc, text, screen, queued, cut>>
  BY DEF Read!Type, Read!setup, Read!output
<1>2. /\ typed \in Nat /\ typed + 1 \in Nat /\ queued \in Nat /\ queued <= Room
      /\ screen \in Seq(Nat) /\ text \in Seq(Nat) /\ input \in Seq(Nat)
      /\ cut \subseteq 1..typed /\ (rpc # "echo" => text = <<>>)
  BY DEF EchoInv
<1>3. /\ Increasing(screen) /\ Increasing(text) /\ Increasing(input)
      /\ Below(Read!ToSet(screen), Read!ToSet(text))
      /\ Below(Read!ToSet(screen), Read!ToSet(input))
      /\ Below(Read!ToSet(text), Read!ToSet(input))
      /\ Read!ToSet(screen) \cup Read!ToSet(text) \cup Read!ToSet(input)
           = (1..typed) \ cut
      /\ cut # {} => terminal /\ reader # "blocking"
  BY DEF EchoInv, InParts
<1> DEFINE m == typed + 1
           new == <<m>>
<1>4. new \in Seq(Nat) /\ Increasing(new) /\ Read!ToSet(new) = {m}
  BY <1>2, ShortSequences
<1>5. input' = input \o new
  BY <1>1, <1>2, AppendIsConcat
<1>6. m \in Nat /\ 1..m = (1..typed) \cup {m} /\ m \notin 1..typed
      /\ \A x \in 1..typed : x < m
  BY <1>2
<1> HIDE DEF m, new
<1>7. /\ input \o new \in Seq(Nat)
      /\ Read!ToSet(input \o new) = Read!ToSet(input) \cup {m}
  BY <1>2, <1>4, ToSetConcat
<1>8. Below(1..typed, {m})
  BY <1>6 DEF Below
<1>9. Below(Read!ToSet(screen), {m}) /\ Below(Read!ToSet(text), {m})
      /\ Below(Read!ToSet(input), {m})
  BY <1>3, <1>8 DEF Below
<1>10. Increasing(input \o new)
  BY <1>2, <1>3, <1>4, <1>9, IncreasingConcat
<1>11. typed' = m
  BY <1>1 DEF m
<1>12. /\ typed' \in Nat /\ queued' \in Nat /\ queued' <= Room
       /\ screen' \in Seq(Nat) /\ text' \in Seq(Nat) /\ input' \in Seq(Nat)
       /\ cut' \subseteq 1..typed' /\ (rpc' # "echo" => text' = <<>>)
  BY <1>1, <1>2, <1>5, <1>6, <1>7, <1>11
<1>13. /\ Increasing(screen') /\ Increasing(text') /\ Increasing(input')
       /\ Below(Read!ToSet(screen'), Read!ToSet(text'))
       /\ Below(Read!ToSet(screen'), Read!ToSet(input'))
       /\ Below(Read!ToSet(text'), Read!ToSet(input'))
  BY <1>1, <1>3, <1>5, <1>7, <1>9, <1>10 DEF Below
<1>14. Read!ToSet(screen') \cup Read!ToSet(text') \cup Read!ToSet(input')
         = (1..typed') \ cut'
  BY <1>1, <1>2, <1>3, <1>5, <1>6, <1>7, <1>11
<1>15. cut' # {} => terminal' /\ reader' # "blocking"
  BY <1>1, <1>3
<1> QED BY <1>12, <1>13, <1>14, <1>15 DEF EchoInv, InParts

\* A read moves the first bytes that wait to the buffer.
LEMMA EchoReadData ==
  ASSUME EchoInv, Read!ReadData PROVE EchoInv'
<1>1. PICK n \in 1..Chunk : /\ n <= Len(input)
                           /\ text' = SubSeq(input, 1, n)
                           /\ input' = SubSeq(input, n + 1, Len(input))
  BY DEF Read!ReadData
<1>2. rpc = "read" /\ rpc' = "echo"
      /\ UNCHANGED <<reader, terminal, typed, screen, queued, cut>>
  BY DEF Read!ReadData, Read!setup, Read!user, Read!output
<1>3. /\ typed \in Nat /\ queued \in Nat /\ queued <= Room
      /\ screen \in Seq(Nat) /\ input \in Seq(Nat)
      /\ cut \subseteq 1..typed /\ text = <<>>
  BY <1>2 DEF EchoInv
<1>4. /\ Increasing(screen) /\ Increasing(input)
      /\ Below(Read!ToSet(screen), Read!ToSet(input))
      /\ Read!ToSet(screen) \cup Read!ToSet(input) = (1..typed) \ cut
      /\ cut # {} => terminal /\ reader # "blocking"
  BY <1>3, ShortSequences DEF EchoInv, InParts
<1>5. n \in 0..Len(input)
  BY <1>1, <1>3
<1>6. /\ text' \in Seq(Nat) /\ input' \in Seq(Nat)
      /\ Read!ToSet(input) = Read!ToSet(text') \cup Read!ToSet(input')
      /\ Increasing(text') /\ Increasing(input')
      /\ Below(Read!ToSet(text'), Read!ToSet(input'))
  BY <1>1, <1>3, <1>4, <1>5, TwoParts
<1>7. /\ Below(Read!ToSet(screen), Read!ToSet(text'))
      /\ Below(Read!ToSet(screen), Read!ToSet(input'))
  BY <1>4, <1>6 DEF Below
<1>8. InParts(screen, text', input', typed, cut)
  BY <1>4, <1>6, <1>7 DEF InParts
<1> QED BY <1>2, <1>3, <1>4, <1>6, <1>8 DEF EchoInv, InParts

\* What a write takes moves to the screen; what it does not take is lost, and
\* it takes everything where it waits.
LEMMA EchoEcho ==
  ASSUME Room \in Nat, EchoInv, Read!Echo PROVE EchoInv'
<1> DEFINE n == Read!Fitting
           p == SubSeq(text, 1, n)
           q == SubSeq(text, n + 1, Len(text))
<1>1. /\ screen' = screen \o p /\ cut' = cut \cup Read!ToSet(q)
      /\ queued' = queued + n /\ text' = <<>> /\ rpc' = "report"
      /\ UNCHANGED <<reader, terminal, typed, input>>
  BY DEF Read!Echo, Read!setup, Read!user
<1>2. /\ typed \in Nat /\ queued \in Nat /\ queued <= Room
      /\ screen \in Seq(Nat) /\ text \in Seq(Nat) /\ input \in Seq(Nat)
      /\ cut \subseteq 1..typed
  BY DEF EchoInv
<1>3. /\ Increasing(screen) /\ Increasing(text) /\ Increasing(input)
      /\ Below(Read!ToSet(screen), Read!ToSet(text))
      /\ Below(Read!ToSet(screen), Read!ToSet(input))
      /\ Below(Read!ToSet(text), Read!ToSet(input))
      /\ Read!ToSet(screen) \cup Read!ToSet(text) \cup Read!ToSet(input)
           = (1..typed) \ cut
      /\ cut # {} => terminal /\ reader # "blocking"
  BY DEF EchoInv, InParts
<1>4. Len(text) \in Nat
  BY <1>2
<1>5. n \in 0..Len(text) /\ queued + n \in Nat /\ queued + n <= Room
  BY <1>2, <1>4 DEF Read!Fitting
<1>6. Read!WriteWaits => n = Len(text)
  BY DEF Read!Echo, Read!Fitting
<1> HIDE DEF n
<1>7. Read!WriteWaits => q = <<>>
  BY <1>2, <1>5, <1>6, CutInTwo
<1>8. /\ p \in Seq(Nat) /\ q \in Seq(Nat)
      /\ Read!ToSet(text) = Read!ToSet(p) \cup Read!ToSet(q)
      /\ Increasing(p) /\ Below(Read!ToSet(p), Read!ToSet(q))
  BY <1>2, <1>3, <1>5, TwoParts
<1> HIDE DEF p, q
<1>9. /\ Below(Read!ToSet(screen), Read!ToSet(p))
      /\ Below(Read!ToSet(screen), Read!ToSet(q))
      /\ Below(Read!ToSet(p), Read!ToSet(input))
      /\ Below(Read!ToSet(q), Read!ToSet(input))
  BY <1>3, <1>8 DEF Below
<1>10. /\ screen' \in Seq(Nat)
       /\ Read!ToSet(screen') = Read!ToSet(screen) \cup Read!ToSet(p)
  BY <1>1, <1>2, <1>8, ToSetConcat
<1>11. Increasing(screen')
  BY <1>1, <1>2, <1>3, <1>8, <1>9, IncreasingConcat
<1>12. /\ text' \in Seq(Nat) /\ Increasing(text') /\ Read!ToSet(text') = {}
  BY <1>1, ShortSequences
<1>13. Below(Read!ToSet(screen'), Read!ToSet(input))
  BY <1>3, <1>9, <1>10 DEF Below
<1>14. /\ Read!ToSet(q) \subseteq 1..typed
       /\ \A x \in Read!ToSet(q) : /\ x \notin Read!ToSet(screen)
                                 /\ x \notin Read!ToSet(p)
                                 /\ x \notin Read!ToSet(input)
  <2>1. Read!ToSet(q) \subseteq 1..typed
    BY <1>3, <1>8
  <2>2. \A x \in 1..typed : ~ (x < x)
    OBVIOUS
  <2> QED BY <2>1, <2>2, <1>8, <1>9 DEF Below
<1>15. Read!ToSet(screen') \cup Read!ToSet(input) = (1..typed) \ cut'
  BY <1>1, <1>3, <1>8, <1>10, <1>14
<1>16. cut' # {} => terminal /\ reader # "blocking"
  <2>1. CASE Read!WriteWaits
    BY <2>1, <1>1, <1>3, <1>7, ShortSequences
  <2>2. CASE ~ Read!WriteWaits
    BY <2>2 DEF Read!WriteWaits, Read!ReadWaits
  <2> QED BY <2>1, <2>2
<1>17. Below(Read!ToSet(screen'), {}) /\ Below({}, Read!ToSet(input))
  BY DEF Below
<1>18. cut' \subseteq 1..typed
  BY <1>1, <1>2, <1>14
<1>19. InParts(screen', text', input', typed', cut')
  BY <1>1, <1>3, <1>11, <1>12, <1>13, <1>15, <1>17 DEF InParts
<1>20. /\ typed' \in Nat /\ queued' \in Nat /\ queued' <= Room
       /\ screen' \in Seq(Nat) /\ text' \in Seq(Nat) /\ input' \in Seq(Nat)
       /\ cut' \subseteq 1..typed' /\ text' = <<>>
       /\ cut' # {} => terminal' /\ reader' # "blocking"
  BY <1>1, <1>2, <1>5, <1>10, <1>12, <1>16, <1>18
<1> QED BY <1>19, <1>20 DEF EchoInv, InParts

\* fcntl.cc:30, 阻塞IO.c:15: however the input is cut into reads and writes, what
\* is on the screen is what was typed, in its order; a byte is missing only
\* where the input and the output are one terminal and the program made the
\* first, and with it the second, non-blocking.
THEOREM TheEchoIsInOrder ==
  ASSUME Room \in Nat
  PROVE  (Read!Spec => []Read!EchoInOrder) /\ (MCSpec => []EchoInOrder)
<1>1. Read!Init => EchoInv
  <2> SUFFICES ASSUME Read!Init PROVE EchoInv
    OBVIOUS
  <2>1. /\ typed = 0 /\ queued = 0 /\ cut = {}
        /\ screen = <<>> /\ text = <<>> /\ input = <<>>
    BY DEF Read!Init
  <2>2. InParts(<<>>, <<>>, <<>>, 0, {})
    BY ShortSequences DEF InParts, Below
  <2> QED BY <2>1, <2>2, ShortSequences DEF EchoInv
<1>2. EchoInv /\ [Read!Next]_Read!vars => EchoInv'
  <2> SUFFICES ASSUME EchoInv, [Read!Next]_Read!vars PROVE EchoInv'
    OBVIOUS
  <2>1. ASSUME UNCHANGED <<reader, terminal, typed, input, text, screen, cut>>,
               rpc = "echo" => rpc' = "echo",
               queued' = queued \/ queued' = 0
        PROVE  EchoInv'
    BY <2>1 DEF EchoInv, InParts
  <2>2. CASE Read!EndInput \/ Read!Show \/ UNCHANGED Read!vars
    BY <2>1, <2>2 DEF Read!EndInput, Read!Show, Read!vars, Read!setup, Read!user,
                      Read!output
  <2>3. CASE Read!ReadEnd \/ Read!ReadNothing \/ Read!ReadFails
    BY <2>1, <2>3 DEF Read!ReadEnd, Read!ReadNothing, Read!ReadFails, Read!setup,
                      Read!user, Read!output
  <2>4. CASE Read!Report
    BY <2>1, <2>4 DEF EchoInv, Read!Report, Read!setup, Read!user, Read!output
  <2> QED BY <2>2, <2>3, <2>4, EchoType, EchoReadData, EchoEcho DEF Read!Next, Read!Main
<1>3. EchoInv => Read!EchoInOrder
  <2> SUFFICES ASSUME EchoInv PROVE Read!EchoInOrder
    OBVIOUS
  <2>1. screen \in Seq(Nat) /\ text \in Seq(Nat) /\ input \in Seq(Nat)
    BY DEF EchoInv
  <2>2. /\ Increasing(screen \o text \o input)
        /\ Read!ToSet(screen \o text \o input) = (1..typed) \ cut
    BY <2>1, IncreasingParts DEF EchoInv, InParts
  <2>3. cut # {} => terminal /\ reader # "blocking"
    BY DEF EchoInv
  <2> QED BY <2>2, <2>3 DEF Read!EchoInOrder, Increasing
<1>4. Read!Spec => []Read!EchoInOrder
  BY <1>1, <1>2, <1>3, PTL DEF Read!Spec
<1>5. Read!EchoInOrder <=> EchoInOrder
  BY DEF EchoInOrder
<1> QED BY <1>4, <1>5, EachProgramAlone, PTL
-----------------------------------------------------------------------------
(***************************************************************************)
(* The UDP client and server.                                              *)
(***************************************************************************)
\* The requests of client c on their way, one by one: the messages are any
\* set, so their number is the cardinality of this one.
OnTheWay(c) == {r \in Messages \X Nat : 1 <= r[2] /\ r[2] <= requests[c][r[1]]}

UdpTypes ==
  /\ waiting \subseteq Clients
  /\ requests \in [Clients -> [Messages -> Nat]]
  /\ answers \in [Clients -> Nat]
  /\ sent \in [Clients -> Nat]
  /\ printed \in [Clients -> Nat]
  /\ dupRequests \in [Clients -> Nat]
  /\ dupAnswers \in [Clients -> Nat]
  /\ peer \in Clients \cup {Nobody}

\* What was printed, what the server is about to print and what is on its way
\* to it was sent or made up by the network.
RequestsCounted(c) ==
  /\ IsFiniteSet(OnTheWay(c))
  /\ Cardinality(OnTheWay(c)) + printed[c] <= sent[c] + dupRequests[c]
  /\ peer = c /\ c # Nobody =>
       Cardinality(OnTheWay(c)) + printed[c] < sent[c] + dupRequests[c]

\* Of the requests sent all but the one the client waits on were answered, and
\* the answers taken and those on their way were printed for or made up.
AnswersCounted(c) ==
  /\ c \notin waiting => sent[c] + answers[c] <= printed[c] + dupAnswers[c]
  /\ c \in waiting => sent[c] + answers[c] <= printed[c] + dupAnswers[c] + 1

Counted(c) == RequestsCounted(c) /\ AnswersCounted(c)

\* One request more, or one less, on its way from client c.
LEMMA OnTheWaySteps ==
  ASSUME UdpTypes, NEW c \in Clients, NEW m \in Messages, IsFiniteSet(OnTheWay(c))
  PROVE  /\ Cardinality(OnTheWay(c)) \in Nat
         /\ requests' = [requests EXCEPT ![c][m] = @ + 1] =>
              /\ IsFiniteSet(OnTheWay(c)')
              /\ Cardinality(OnTheWay(c)') = Cardinality(OnTheWay(c)) + 1
         /\ requests[c][m] > 0 /\ requests' = [requests EXCEPT ![c][m] = @ - 1] =>
              /\ IsFiniteSet(OnTheWay(c)')
              /\ Cardinality(OnTheWay(c)') = Cardinality(OnTheWay(c)) - 1
<1> DEFINE n == requests[c][m]
<1>0. n \in Nat /\ \A k \in Messages : requests[c][k] \in Nat
  BY DEF UdpTypes
<1>1. Cardinality(OnTheWay(c)) \in Nat
  BY FS_CardinalityType
<1>2. ASSUME requests' = [requests EXCEPT ![c][m] = @ + 1]
      PROVE  /\ IsFiniteSet(OnTheWay(c)')
             /\ Cardinality(OnTheWay(c)') = Cardinality(OnTheWay(c)) + 1
  <2>1. requests'[c][m] = n + 1 /\ \A k \in Messages : k # m => requests'[c][k] = requests[c][k]
    BY <1>2 DEF UdpTypes
  <2>2. <<m, n + 1>> \notin OnTheWay(c)
    BY <1>0 DEF OnTheWay
  <2>3. OnTheWay(c)' = OnTheWay(c) \cup {<<m, n + 1>>}
    <3> HIDE DEF n
    <3>1. \A k \in Messages, i \in Nat :
            1 <= i /\ i <= requests'[c][k] <=>
              (1 <= i /\ i <= requests[c][k]) \/ (k = m /\ i = n + 1)
      BY <1>0, <2>1 DEF n
    <3>2. n + 1 \in Nat
      BY <1>0
    <3> QED BY <3>1, <3>2 DEF OnTheWay
  <2> QED BY <2>2, <2>3, FS_AddElement
<1>3. ASSUME n > 0, requests' = [requests EXCEPT ![c][m] = @ - 1]
      PROVE  /\ IsFiniteSet(OnTheWay(c)')
             /\ Cardinality(OnTheWay(c)') = Cardinality(OnTheWay(c)) - 1
  <2>1. requests'[c][m] = n - 1 /\ \A k \in Messages : k # m => requests'[c][k] = requests[c][k]
    BY <1>3 DEF UdpTypes
  <2>2. <<m, n>> \in OnTheWay(c)
    BY <1>0, <1>3 DEF OnTheWay
  <2>3. OnTheWay(c)' = OnTheWay(c) \ {<<m, n>>}
    <3> HIDE DEF n
    <3>1. \A k \in Messages, i \in Nat :
            1 <= i /\ i <= requests'[c][k] <=>
              (1 <= i /\ i <= requests[c][k]) /\ ~ (k = m /\ i = n)
      <4> TAKE k \in Messages, i \in Nat
      <4>1. i <= n - 1 <=> i <= n /\ i # n
        BY <1>0
      <4>2. CASE k = m
        BY <2>1, <4>1, <4>2 DEF n
      <4> QED BY <2>1, <4>2
    <3> QED BY <3>1 DEF OnTheWay
  <2>4. /\ IsFiniteSet(OnTheWay(c) \ {<<m, n>>})
        /\ Cardinality(OnTheWay(c) \ {<<m, n>>}) = Cardinality(OnTheWay(c)) - 1
    BY <2>2, FS_RemoveElement
  <2> QED BY <2>3, <2>4
<1> QED BY <1>1, <1>2, <1>3

LEMMA UdpTypesStep == UdpTypes /\ [Udp!Next]_Udp!vars => UdpTypes'
<1> SUFFICES ASSUME UdpTypes, [Udp!Next]_Udp!vars PROVE UdpTypes'
  OBVIOUS
<1>m. \A f \in [Clients -> Nat], c \in Clients :
        /\ Udp!More(f, c) \in [Clients -> Nat]
        /\ f[c] > 0 => Udp!Fewer(f, c) \in [Clients -> Nat]
  <2> TAKE f \in [Clients -> Nat], c \in Clients
  <2>1. f[c] + 1 \in Nat /\ (f[c] > 0 => f[c] - 1 \in Nat)
    OBVIOUS
  <2>2. \A v \in Nat : [f EXCEPT ![c] = v] \in [Clients -> Nat]
    OBVIOUS
  <2> QED BY <2>1, <2>2 DEF Udp!More, Udp!Fewer
<1>r. \A c \in Clients, m \in Messages :
        /\ [requests EXCEPT ![c][m] = @ + 1] \in [Clients -> [Messages -> Nat]]
        /\ requests[c][m] > 0 =>
             [requests EXCEPT ![c][m] = @ - 1] \in [Clients -> [Messages -> Nat]]
  <2> TAKE c \in Clients, m \in Messages
  <2>1. requests[c][m] + 1 \in Nat /\ (requests[c][m] > 0 => requests[c][m] - 1 \in Nat)
    BY DEF UdpTypes
  <2>2. \A v \in Nat : [requests EXCEPT ![c][m] = v] \in [Clients -> [Messages -> Nat]]
    BY DEF UdpTypes
  <2> QED BY <2>1, <2>2
<1>1. ASSUME NEW c \in Clients, Udp!ReceiveAnswer(c) PROVE UdpTypes'
  <2>1. answers' \in [Clients -> Nat] /\ waiting' \subseteq Clients
    BY <1>1, <1>m DEF UdpTypes, Udp!ReceiveAnswer
  <2> QED BY <1>1, <2>1 DEF UdpTypes, Udp!ReceiveAnswer, Udp!server
<1>2. ASSUME NEW c \in Clients, Udp!LoseAnswer(c) PROVE UdpTypes'
  <2>1. answers' \in [Clients -> Nat]
    BY <1>2, <1>m DEF UdpTypes, Udp!LoseAnswer
  <2> QED BY <1>2, <2>1 DEF UdpTypes, Udp!LoseAnswer, Udp!client, Udp!server
<1>3. ASSUME NEW c \in Clients, Udp!DuplicateAnswer(c) PROVE UdpTypes'
  <2>1. answers' \in [Clients -> Nat] /\ dupAnswers' \in [Clients -> Nat]
    BY <1>3, <1>m DEF UdpTypes, Udp!DuplicateAnswer
  <2> QED BY <1>3, <2>1 DEF UdpTypes, Udp!DuplicateAnswer, Udp!client, Udp!server
<1>4. ASSUME NEW c \in Clients, NEW m \in Messages, Udp!Send(c, m) PROVE UdpTypes'
  <2>1. requests' \in [Clients -> [Messages -> Nat]] /\ sent' \in [Clients -> Nat]
    BY <1>4, <1>m, <1>r DEF UdpTypes, Udp!Send
  <2> QED BY <1>4, <2>1 DEF UdpTypes, Udp!Send, Udp!server
<1>5. ASSUME NEW c \in Clients, NEW m \in Messages, Udp!DuplicateRequest(c, m) PROVE UdpTypes'
  <2>1. requests' \in [Clients -> [Messages -> Nat]] /\ dupRequests' \in [Clients -> Nat]
    BY <1>5, <1>m, <1>r DEF UdpTypes, Udp!DuplicateRequest
  <2> QED BY <1>5, <2>1 DEF UdpTypes, Udp!DuplicateRequest, Udp!client, Udp!server
<1>6. ASSUME NEW c \in Clients, NEW m \in Messages, Udp!Receive(c, m) PROVE UdpTypes'
  <2>1. requests' \in [Clients -> [Messages -> Nat]]
    BY <1>6, <1>r DEF UdpTypes, Udp!Receive
  <2> QED BY <1>6, <2>1 DEF UdpTypes, Udp!Receive, Udp!client
<1>7. ASSUME NEW c \in Clients, NEW m \in Messages, Udp!LoseRequest(c, m) PROVE UdpTypes'
  <2>1. requests' \in [Clients -> [Messages -> Nat]]
    BY <1>7, <1>r DEF UdpTypes, Udp!LoseRequest
  <2> QED BY <1>7, <2>1 DEF UdpTypes, Udp!LoseRequest, Udp!client, Udp!server
<1>8. CASE Udp!Reply
  BY <1>8, <1>m DEF UdpTypes, Udp!Reply, Udp!client
<1>9. CASE UNCHANGED Udp!vars
  BY <1>9 DEF UdpTypes, Udp!vars, Udp!client, Udp!network, Udp!server
<1> QED BY <1>1, <1>2, <1>3, <1>4, <1>5, <1>6, <1>7, <1>8, <1>9 DEF Udp!Next

LEMMA CountedStep ==
  UdpTypes /\ (\A c \in Clients : Counted(c)) /\ [Udp!Next]_Udp!vars =>
    \A c \in Clients : Counted(c)'
<1> SUFFICES ASSUME UdpTypes, \A d \in Clients : Counted(d), [Udp!Next]_Udp!vars,
                    NEW c \in Clients
             PROVE  Counted(c)'
  OBVIOUS
<1> DEFINE n == Cardinality(OnTheWay(c))
           s == sent[c]
           p == printed[c]
           a == answers[c]
           dq == dupRequests[c]
           da == dupAnswers[c]
<1>0. /\ n \in Nat /\ s \in Nat /\ p \in Nat /\ a \in Nat /\ dq \in Nat /\ da \in Nat
      /\ IsFiniteSet(OnTheWay(c))
      /\ n + p <= s + dq
      /\ peer = c /\ c # Nobody => n + p < s + dq
      /\ c \notin waiting => s + a <= p + da
      /\ c \in waiting => s + a <= p + da + 1
  BY FS_CardinalityType DEF UdpTypes, Counted, RequestsCounted, AnswersCounted
\* What the goal says of the values after the step.
<1>1. ASSUME NEW n1 \in Nat, NEW s1 \in Nat, NEW p1 \in Nat, NEW a1 \in Nat,
             NEW dq1 \in Nat, NEW da1 \in Nat,
             n1 = n', s1 = s', p1 = p', a1 = a', dq1 = dq', da1 = da',
             IsFiniteSet(OnTheWay(c)'),
             n1 + p1 <= s1 + dq1,
             peer' = c /\ c # Nobody => n1 + p1 < s1 + dq1,
             c \notin waiting' => s1 + a1 <= p1 + da1,
             c \in waiting' => s1 + a1 <= p1 + da1 + 1
      PROVE  Counted(c)'
  BY <1>1 DEF Counted, RequestsCounted, AnswersCounted
<1>2. requests'[c] = requests[c] => OnTheWay(c)' = OnTheWay(c)
  BY DEF OnTheWay
\* A step that changes nothing of this client's.
<1>3. ASSUME requests'[c] = requests[c], s' = s, p' = p, a' = a, dq' = dq, da' = da,
             c \in waiting' <=> c \in waiting, peer' = c /\ c # Nobody => peer = c
      PROVE  Counted(c)'
  <2>1. n' = n /\ IsFiniteSet(OnTheWay(c)')
    BY <1>0, <1>2, <1>3
  <2> HIDE DEF n, s, p, a, dq, da
  <2> QED BY <1>0, <1>1, <1>3, <2>1
<1>4. ASSUME NEW d \in Clients, Udp!ReceiveAnswer(d) PROVE Counted(c)'
  <2>1. /\ UNCHANGED <<requests, sent, printed, dupRequests, dupAnswers, peer>>
        /\ d \in waiting /\ waiting' = waiting \ {d}
        /\ answers[d] > 0 /\ answers' = [answers EXCEPT ![d] = @ - 1]
    BY <1>4 DEF Udp!ReceiveAnswer, Udp!Fewer, Udp!server
  <2>2. CASE c = d
    <3>1. a > 0 /\ a - 1 = a' /\ n' = n /\ s' = s /\ p' = p /\ dq' = dq /\ da' = da
      BY <1>2, <2>1, <2>2 DEF UdpTypes
    <3>2. IsFiniteSet(OnTheWay(c)')
      BY <1>0, <1>2, <2>1
    <3> HIDE DEF n, s, p, a, dq, da
    <3>3. a - 1 \in Nat /\ s + (a - 1) <= p + da
      BY <1>0, <2>1, <2>2, <3>1
    <3> QED BY <1>0, <1>1, <2>1, <2>2, <3>1, <3>2, <3>3
  <2>3. CASE c # d
    <3>1. a' = a /\ (c \in waiting' <=> c \in waiting)
      BY <2>1, <2>3 DEF UdpTypes
    <3> QED BY <1>3, <2>1, <3>1
  <2> QED BY <2>2, <2>3
<1>5. ASSUME NEW d \in Clients, Udp!LoseAnswer(d) PROVE Counted(c)'
  <2>1. /\ UNCHANGED <<waiting, requests, sent, printed, dupRequests, dupAnswers, peer>>
        /\ answers[d] > 0 /\ answers' = [answers EXCEPT ![d] = @ - 1]
    BY <1>5 DEF Udp!LoseAnswer, Udp!Fewer, Udp!server, Udp!client
  <2>2. CASE c = d
    <3>1. a > 0 /\ a - 1 = a' /\ n' = n /\ s' = s /\ p' = p /\ dq' = dq /\ da' = da
      BY <1>2, <2>1, <2>2 DEF UdpTypes
    <3>2. IsFiniteSet(OnTheWay(c)')
      BY <1>0, <1>2, <2>1
    <3> HIDE DEF n, s, p, a, dq, da
    <3>3. /\ a - 1 \in Nat
          /\ c \notin waiting => s + (a - 1) <= p + da
          /\ c \in waiting => s + (a - 1) <= p + da + 1
      BY <1>0, <3>1
    <3> QED BY <1>0, <1>1, <2>1, <3>1, <3>2, <3>3
  <2>3. CASE c # d
    BY <1>3, <2>1, <2>3 DEF UdpTypes
  <2> QED BY <2>2, <2>3
<1>6. ASSUME NEW d \in Clients, Udp!DuplicateAnswer(d) PROVE Counted(c)'
  <2>1. /\ UNCHANGED <<waiting, requests, sent, printed, dupRequests, peer>>
        /\ answers' = [answers EXCEPT ![d] = @ + 1]
        /\ dupAnswers' = [dupAnswers EXCEPT ![d] = @ + 1]
    BY <1>6 DEF Udp!DuplicateAnswer, Udp!More, Udp!server, Udp!client
  <2>2. CASE c = d
    <3>1. a + 1 = a' /\ n' = n /\ s' = s /\ p' = p /\ dq' = dq /\ da + 1 = da'
      BY <1>2, <2>1, <2>2 DEF UdpTypes
    <3>2. IsFiniteSet(OnTheWay(c)')
      BY <1>0, <1>2, <2>1
    <3> HIDE DEF n, s, p, a, dq, da
    <3>3. /\ a + 1 \in Nat /\ da + 1 \in Nat
          /\ c \notin waiting => s + (a + 1) <= p + (da + 1)
          /\ c \in waiting => s + (a + 1) <= p + (da + 1) + 1
      BY <1>0
    <3> QED BY <1>0, <1>1, <2>1, <3>1, <3>2, <3>3
  <2>3. CASE c # d
    BY <1>3, <2>1, <2>3 DEF UdpTypes
  <2> QED BY <2>2, <2>3
<1>7. ASSUME NEW d \in Clients, NEW m \in Messages, Udp!Send(d, m) PROVE Counted(c)'
  <2>1. /\ UNCHANGED <<answers, printed, dupRequests, dupAnswers, peer>>
        /\ d \notin waiting /\ waiting' = waiting \cup {d}
        /\ requests' = [requests EXCEPT ![d][m] = @ + 1]
        /\ sent' = [sent EXCEPT ![d] = @ + 1]
    BY <1>7 DEF Udp!Send, Udp!More, Udp!server
  <2>2. CASE c = d
    <3>1. n + 1 = n' /\ IsFiniteSet(OnTheWay(c)')
      BY <1>0, <2>1, <2>2, OnTheWaySteps
    <3>2. a' = a /\ s + 1 = s' /\ p' = p /\ dq' = dq /\ da' = da
      BY <2>1, <2>2 DEF UdpTypes
    <3> HIDE DEF n, s, p, a, dq, da
    <3>3. /\ n + 1 \in Nat /\ s + 1 \in Nat
          /\ (n + 1) + p <= (s + 1) + dq
          /\ peer = c /\ c # Nobody => (n + 1) + p < (s + 1) + dq
          /\ (s + 1) + a <= p + da + 1
      BY <1>0, <2>1, <2>2
    <3> QED BY <1>0, <1>1, <2>1, <2>2, <3>1, <3>2, <3>3
  <2>3. CASE c # d
    BY <1>3, <2>1, <2>3 DEF UdpTypes
  <2> QED BY <2>2, <2>3
<1>8. ASSUME NEW d \in Clients, NEW m \in Messages, Udp!DuplicateRequest(d, m)
      PROVE  Counted(c)'
  <2>1. /\ UNCHANGED <<waiting, sent, answers, printed, dupAnswers, peer>>
        /\ requests' = [requests EXCEPT ![d][m] = @ + 1]
        /\ dupRequests' = [dupRequests EXCEPT ![d] = @ + 1]
    BY <1>8 DEF Udp!DuplicateRequest, Udp!More, Udp!server, Udp!client
  <2>2. CASE c = d
    <3>1. n + 1 = n' /\ IsFiniteSet(OnTheWay(c)')
      BY <1>0, <2>1, <2>2, OnTheWaySteps
    <3>2. a' = a /\ s' = s /\ p' = p /\ dq + 1 = dq' /\ da' = da
      BY <2>1, <2>2 DEF UdpTypes
    <3> HIDE DEF n, s, p, a, dq, da
    <3>3. /\ n + 1 \in Nat /\ dq + 1 \in Nat
          /\ (n + 1) + p <= s + (dq + 1)
          /\ peer = c /\ c # Nobody => (n + 1) + p < s + (dq + 1)
      BY <1>0
    <3> QED BY <1>0, <1>1, <2>1, <2>2, <3>1, <3>2, <3>3
  <2>3. CASE c # d
    BY <1>3, <2>1, <2>3 DEF UdpTypes
  <2> QED BY <2>2, <2>3
\* A request leaves the network and is served, or is lost.
<1>9. ASSUME NEW d \in Clients, NEW m \in Messages,
             Udp!Receive(d, m) \/ Udp!LoseRequest(d, m)
      PROVE  Counted(c)'
  <2>1. /\ UNCHANGED <<waiting, sent, answers, printed, dupRequests, dupAnswers>>
        /\ requests[d][m] > 0
        /\ requests' = [requests EXCEPT ![d][m] = @ - 1]
        /\ peer' = peer \/ peer' = d
    BY <1>9 DEF Udp!Receive, Udp!LoseRequest, Udp!server, Udp!client
  <2>2. CASE c = d
    <3>1. n - 1 = n' /\ IsFiniteSet(OnTheWay(c)')
      BY <1>0, <2>1, <2>2, OnTheWaySteps
    <3>2. a' = a /\ s' = s /\ p' = p /\ dq' = dq /\ da' = da
      BY <2>1
    <3>4. n - 1 \in Nat
      BY <3>1, FS_CardinalityType
    <3> HIDE DEF n, s, p, a, dq, da
    <3>3. (n - 1) + p < s + dq /\ (n - 1) + p <= s + dq
      BY <1>0
    <3> QED BY <1>0, <1>1, <2>1, <2>2, <3>1, <3>2, <3>3, <3>4
  <2>3. CASE c # d
    BY <1>3, <2>1, <2>3 DEF UdpTypes
  <2> QED BY <2>2, <2>3
<1>10. CASE Udp!Reply
  <2>1. /\ UNCHANGED <<waiting, requests, sent, dupRequests, dupAnswers>>
        /\ peer # Nobody /\ peer' = Nobody /\ peer \in Clients
        /\ printed' = [printed EXCEPT ![peer] = @ + 1]
        /\ answers' = [answers EXCEPT ![peer] = @ + 1]
    BY <1>10 DEF Udp!Reply, Udp!More, Udp!client, UdpTypes
  <2>2. CASE c = peer
    <3>1. a + 1 = a' /\ n' = n /\ s' = s /\ p + 1 = p' /\ dq' = dq /\ da' = da
      BY <1>2, <2>1, <2>2 DEF UdpTypes
    <3>2. IsFiniteSet(OnTheWay(c)')
      BY <1>0, <1>2, <2>1
    <3> HIDE DEF n, s, p, a, dq, da
    <3>3. /\ a + 1 \in Nat /\ p + 1 \in Nat
          /\ n + (p + 1) <= s + dq
          /\ c \notin waiting => s + (a + 1) <= (p + 1) + da
          /\ c \in waiting => s + (a + 1) <= (p + 1) + da + 1
      BY <1>0, <2>1, <2>2
    <3> QED BY <1>0, <1>1, <2>1, <3>1, <3>2, <3>3
  <2>3. CASE c # peer
    BY <1>3, <2>1, <2>3 DEF UdpTypes
  <2> QED BY <2>2, <2>3
<1>11. CASE UNCHANGED Udp!vars
  BY <1>3, <1>11 DEF Udp!vars, Udp!client, Udp!network, Udp!server
<1> QED BY <1>4, <1>5, <1>6, <1>7, <1>8, <1>9, <1>10, <1>11 DEF Udp!Next

\* A client at its prompt has had printed all it sent, but for as many
\* datagrams as the network made up; and the server prints nothing of its own.
THEOREM ThePromptMeansPrinted ==
  (Udp!Spec => []Udp!PromptMeansPrinted) /\ (MCSpec => []PromptMeansPrinted)
<1> DEFINE Inv == UdpTypes /\ \A c \in Clients : Counted(c)
<1>1. Udp!Init => Inv
  <2> SUFFICES ASSUME Udp!Init PROVE Inv
    OBVIOUS
  <2>1. UdpTypes
    BY DEF Udp!Init, UdpTypes, Udp!Zero
  <2>2. ASSUME NEW c \in Clients PROVE Counted(c)
    <3>1. OnTheWay(c) = {}
      BY DEF OnTheWay, Udp!Init
    <3>2. IsFiniteSet(OnTheWay(c)) /\ Cardinality(OnTheWay(c)) = 0
      BY <3>1, FS_EmptySet
    <3>3. /\ sent[c] = 0 /\ printed[c] = 0 /\ answers[c] = 0
          /\ dupRequests[c] = 0 /\ dupAnswers[c] = 0
          /\ c \notin waiting /\ (peer = c => c = Nobody)
      BY DEF Udp!Init, Udp!Zero
    <3> QED BY <3>2, <3>3 DEF Counted, RequestsCounted, AnswersCounted
  <2> QED BY <2>1, <2>2
<1>2. Inv /\ [Udp!Next]_Udp!vars => Inv'
  BY UdpTypesStep, CountedStep
<1>3. Inv => Udp!PromptMeansPrinted
  <2> SUFFICES ASSUME Inv, NEW c \in Clients
               PROVE  /\ c \notin waiting => sent[c] <= printed[c] + dupAnswers[c]
                      /\ printed[c] <= sent[c] + dupRequests[c]
    BY DEF Udp!PromptMeansPrinted
  <2>1. Cardinality(OnTheWay(c)) \in Nat
    BY FS_CardinalityType DEF Counted, RequestsCounted
  <2> QED BY <2>1 DEF UdpTypes, Counted, RequestsCounted, AnswersCounted
<1>4. Udp!Spec => []Udp!PromptMeansPrinted
  BY <1>1, <1>2, <1>3, PTL DEF Udp!Spec
<1>5. Udp!PromptMeansPrinted <=> PromptMeansPrinted
  BY DEF PromptMeansPrinted
<1> QED BY <1>4, <1>5, EachProgramAlone, PTL
=============================================================================
