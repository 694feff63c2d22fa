------------------------------ MODULE Tickets ------------------------------
(***************************************************************************)
(* The ticket sellers of pthread/: threads that all run                    *)
(*     if (tickets > 0) { print tickets; tickets--; } else leave           *)
(* In 抢票问题(问题代码).c nothing keeps them apart, in 抢票问题互斥锁.c      *)
(* GetTicket runs under a mutex.  A step is one access to tickets or one   *)
(* operation on the mutex; tickets-- is a load and a store.                *)
(***************************************************************************)
EXTENDS Integers, FiniteSets

CONSTANTS
  Threads,    \* tid[5]
  Initial,    \* tickets at the start
  None

ASSUME ThreadsAssumption == IsFiniteSet(Threads) /\ None \notin Threads
ASSUME InitialAssumption == Initial \in Nat

VARIABLES
  locked,     \* is it the program with the mutex?  It does not change
  tickets,
  mtx,        \* thread that holds mtx
  pc,         \* next step of each thread
  reg,        \* what the thread loaded for its tickets--
  sales,      \* history: number of "my ticket is" lines printed
  sold        \* history: the numbers in those lines

vars == <<locked, tickets, mtx, pc, reg, sales, sold>>

Start == IF locked THEN "lock" ELSE "test"

Init ==
  /\ locked \in BOOLEAN
  /\ tickets = Initial
  /\ mtx = None
  /\ pc = [t \in Threads |-> Start]
  /\ reg = [t \in Threads |-> 0]
  /\ sales = 0
  /\ sold = {}

Goto(t, step) == pc' = [pc EXCEPT ![t] = step]

\* Mutation: the mutex is taken from whoever holds it.
LockNot(t) ==
  /\ pc[t] = "lock"
  /\ mtx' = t
  /\ Goto(t, "test")
  /\ UNCHANGED <<locked, tickets, reg, sales, sold>>

Lock(t) ==
  /\ pc[t] = "lock"
  /\ mtx = None
  /\ mtx' = t
  /\ Goto(t, "test")
  /\ UNCHANGED <<locked, tickets, reg, sales, sold>>

Test(t) ==
  /\ pc[t] = "test"
  /\ tickets > 0
  /\ Goto(t, "print")
  /\ UNCHANGED <<locked, tickets, mtx, reg, sales, sold>>

SoldOut(t) ==
  /\ pc[t] = "test"
  /\ tickets <= 0
  /\ Goto(t, IF locked THEN "leave" ELSE "done")
  /\ UNCHANGED <<locked, tickets, mtx, reg, sales, sold>>

\* What is printed was read anew, after the sleep.
PrintTicket(t) ==
  /\ pc[t] = "print"
  /\ sales' = sales + 1
  /\ sold' = sold \cup {tickets}
  /\ Goto(t, "load")
  /\ UNCHANGED <<locked, tickets, mtx, reg>>

Load(t) ==
  /\ pc[t] = "load"
  /\ reg' = [reg EXCEPT ![t] = tickets]
  /\ Goto(t, "store")
  /\ UNCHANGED <<locked, tickets, mtx, sales, sold>>

Store(t) ==
  /\ pc[t] = "store"
  /\ tickets' = reg[t] - 1
  /\ Goto(t, IF locked THEN "unlock" ELSE "test")
  /\ UNCHANGED <<locked, mtx, reg, sales, sold>>

Unlock(t) ==
  /\ pc[t] = "unlock"
  /\ mtx' = None
  /\ Goto(t, "lock")
  /\ UNCHANGED <<locked, tickets, reg, sales, sold>>

\* Mutation: a thread that finds no ticket returns without the unlock.
LeaveLocked(t) ==
  /\ pc[t] = "leave"
  /\ Goto(t, "done")
  /\ UNCHANGED <<locked, tickets, mtx, reg, sales, sold>>

\* The unlock after `res = false`, and the end of the thread.
Leave(t) ==
  /\ pc[t] = "leave"
  /\ mtx' = None
  /\ Goto(t, "done")
  /\ UNCHANGED <<locked, tickets, reg, sales, sold>>

ThreadRun(t) ==
  \/ Lock(t) \/ Test(t) \/ SoldOut(t) \/ PrintTicket(t)
  \/ Load(t) \/ Store(t) \/ Unlock(t) \/ Leave(t)

Next == \E t \in Threads : ThreadRun(t)

Spec == Init /\ [][Next]_vars

\* Every thread is scheduled, and main joins them all.
Fairness == \A t \in Threads : WF_vars(ThreadRun(t))

FairSpec == Spec /\ Fairness
-----------------------------------------------------------------------------
(***************************************************************************)
(* Properties.                                                             *)
(***************************************************************************)
\* Types of all variables.
TypeOK ==
  /\ locked \in BOOLEAN
  /\ tickets \in Int
  /\ mtx \in Threads \cup {None}
  /\ pc \in [Threads -> {"lock", "test", "print", "load", "store",
                         "unlock", "leave", "done"}]
  /\ reg \in [Threads -> Int]
  /\ sales \in Nat
  /\ sold \subseteq Int

\* The threads between their printed line and the store that goes with it.
InSale == {t \in Threads : pc[t] \in {"load", "store"}}

\* Both programs: tickets falls by at most one for each line printed.  A store
\* that overwrites other threads' stores gives tickets back, it never takes
\* one that nobody announced.
NothingSoldSilently == Initial - tickets <= sales - Cardinality(InSale)

\* With the mutex the numbers printed are Initial, Initial - 1, ..., each once
\* and none below 1; the one in the middle of a sale is the current one.
SalesInOrder ==
  locked =>
    /\ tickets >= 0
    /\ sales = Initial - tickets + Cardinality(InSale)
    /\ sold = (tickets + 1 - Cardinality(InSale))..Initial

\* What the printed lines say against what became of tickets.
SalesAddUp == NothingSoldSilently /\ SalesInOrder

\* All threads end, at a moment when no ticket is left: also without the mutex
\* no thread leaves while a late store brings tickets back that nobody sells.
ThreadsEnd == <>[]((\A t \in Threads : pc[t] = "done") /\ tickets <= 0)
=============================================================================
