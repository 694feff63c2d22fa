------------------------------ MODULE ThreadPool ------------------------------
(***************************************************************************)
(* The singleton thread pool of pthread/线程池/单例模式线程池: any number    *)
(* of client threads call GetInstance()->PushTask(t); the first call       *)
(* builds the pool and starts its workers.                                 *)
(*                                                                         *)
(* A step is one operation on a mutex or on the condition variable, one    *)
(* access to the shared pointer `ins`, or one pthread_create.  The pointer *)
(* is read without the lock (a data race): the model lets the reader see   *)
(* its current value.  It is stored after the constructor, whose calls     *)
(* into libpthread the compiler cannot move past the store, and before     *)
(* InitThreadPool.                                                         *)
(***************************************************************************)
EXTENDS Integers, Sequences, FiniteSets

CONSTANTS
  Clients,    \* threads that use the pool
  Workers,    \* the num_ threads of the pool
  Tasks,      \* the tasks, each pushed by one call
  None,
  MaxSpurious \* bound: returns of pthread_cond_wait without a signal

ASSUME FiniteAssumption ==
  IsFiniteSet(Clients) /\ IsFiniteSet(Workers) /\ IsFiniteSet(Tasks)
ASSUME NoneAssumption ==
  None \notin Clients \cup Workers \cup Tasks /\ Clients \cap Workers = {}
ASSUME BoundAssumption == MaxSpurious \in Nat

VARIABLES
  ins,      \* has ThreadPool::ins been set?
  built,    \* number of pools constructed
  lock,     \* client that holds the static mutex of GetInstance
  mtx,      \* thread that holds mtx_
  queue,    \* task_queue_
  cpc,      \* next step of each client
  arg,      \* task of each client's current call, None outside a call
  wpc,      \* next step of each worker; "none" before its pthread_create
  task,     \* the local variable t of each worker, None while it has no task
  ran,      \* number of times each task was run
  spurious  \* waits that ended without a signal so far

instance == <<ins, built, lock>>
work == <<arg, task, ran>>
vars == <<instance, mtx, queue, cpc, wpc, work, spurious>>

Init ==
  /\ ins = FALSE
  /\ built = 0
  /\ lock = None
  /\ mtx = None
  /\ queue = <<>>
  /\ cpc = [c \in Clients |-> "idle"]
  /\ arg = [c \in Clients |-> None]
  /\ wpc = [w \in Workers |-> "none"]
  /\ task = [w \in Workers |-> None]
  /\ ran = [t \in Tasks |-> 0]
  /\ spurious = 0

CGoto(c, step) == cpc' = [cpc EXCEPT ![c] = step]
WGoto(w, step) == wpc' = [wpc EXCEPT ![w] = step]

WAt(steps) == {w \in Workers : wpc[w] \in steps}
InQueue == {queue[i] : i \in DOMAIN queue}
-----------------------------------------------------------------------------
(***************************************************************************)
(* GetInstance.                                                            *)
(***************************************************************************)
\* A client calls GetInstance()->PushTask(t) with a task of its own.
Call(c, t) ==
  /\ cpc[c] = "idle"
  /\ t \notin InQueue /\ ran[t] = 0
  /\ \A other \in Clients : arg[other] # t
  /\ \A w \in Workers : task[w] # t
  /\ arg' = [arg EXCEPT ![c] = t]
  /\ CGoto(c, "get")
  /\ UNCHANGED <<instance, mtx, queue, wpc, task, ran, spurious>>

\* The first test of the double check, without the lock.
Get(c) ==
  /\ cpc[c] = "get"
  /\ CGoto(c, IF ins THEN "lock" ELSE "getlock")
  /\ UNCHANGED <<instance, mtx, queue, wpc, work, spurious>>

GetLock(c) ==
  /\ cpc[c] = "getlock"
  /\ lock = None
  /\ lock' = c
  /\ CGoto(c, "recheck")
  /\ UNCHANGED <<ins, built, mtx, queue, wpc, work, spurious>>

\* Mutation: the second test is missing.
RecheckNot(c) ==
  /\ cpc[c] = "recheck"
  /\ ins' = TRUE /\ built' = built + 1
  /\ CGoto(c, "create")
  /\ UNCHANGED <<lock, mtx, queue, wpc, work, spurious>>

\* The second test; the pool is constructed and published.
Recheck(c) ==
  /\ cpc[c] = "recheck"
  /\ IF ins
     THEN CGoto(c, "getunlock") /\ UNCHANGED <<ins, built>>
     ELSE CGoto(c, "create") /\ ins' = TRUE /\ built' = built + 1
  /\ UNCHANGED <<lock, mtx, queue, wpc, work, spurious>>

\* InitThreadPool: one pthread_create.
Create(c) ==
  /\ cpc[c] = "create"
  /\ \E w \in WAt({"none"}) : WGoto(w, "lock")
  /\ UNCHANGED <<instance, mtx, queue, cpc, work, spurious>>

Created(c) ==
  /\ cpc[c] = "create"
  /\ WAt({"none"}) = {}
  /\ CGoto(c, "getunlock")
  /\ UNCHANGED <<instance, mtx, queue, wpc, work, spurious>>

GetUnlock(c) ==
  /\ cpc[c] = "getunlock"
  /\ lock' = None
  /\ CGoto(c, "lock")
  /\ UNCHANGED <<ins, built, mtx, queue, wpc, work, spurious>>
-----------------------------------------------------------------------------
(***************************************************************************)
(* PushTask.                                                               *)
(***************************************************************************)
PushLock(c) ==
  /\ cpc[c] = "lock"
  /\ mtx = None
  /\ mtx' = c
  /\ CGoto(c, "push")
  /\ UNCHANGED <<instance, queue, wpc, work, spurious>>

PushQueue(c) ==
  /\ cpc[c] = "push"
  /\ queue' = Append(queue, arg[c])
  /\ arg' = [arg EXCEPT ![c] = None]
  /\ CGoto(c, "unlock")
  /\ UNCHANGED <<instance, mtx, wpc, task, ran, spurious>>

PushUnlock(c) ==
  /\ cpc[c] = "unlock"
  /\ mtx' = None
  /\ CGoto(c, "wakeup")
  /\ UNCHANGED <<instance, queue, wpc, work, spurious>>

\* Mutation: no signal.
WakeupNot(c) ==
  /\ cpc[c] = "wakeup"
  /\ CGoto(c, "idle")
  /\ UNCHANGED <<instance, mtx, queue, wpc, work, spurious>>

\* pthread_cond_signal, after the mutex was released: one waiting worker, if
\* there is any, has to get the mutex back next.
Wakeup(c) ==
  /\ cpc[c] = "wakeup"
  /\ \/ \E w \in WAt({"waiting"}) : WGoto(w, "relock")
     \/ WAt({"waiting"}) = {} /\ UNCHANGED wpc
  /\ CGoto(c, "idle")
  /\ UNCHANGED <<instance, mtx, queue, work, spurious>>
-----------------------------------------------------------------------------
(***************************************************************************)
(* Rountine, the loop of a worker.                                         *)
(***************************************************************************)
WLock(w) ==
  /\ wpc[w] \in {"lock", "relock"}
  /\ mtx = None
  /\ mtx' = w
  /\ WGoto(w, "check")
  /\ UNCHANGED <<instance, queue, cpc, work, spurious>>

\* Mutation: the mutex is released and taken for the wait in two steps, with
\* the test before the release.
WWaitLate(w) ==
  /\ \/ wpc[w] = "check" /\ queue = <<>> /\ mtx' = None /\ WGoto(w, "late")
     \/ wpc[w] = "late" /\ UNCHANGED mtx /\ WGoto(w, "waiting")
  /\ UNCHANGED <<instance, queue, cpc, work, spurious>>

WWait(w) ==
  /\ wpc[w] = "check"
  /\ queue = <<>>
  /\ mtx' = None
  /\ WGoto(w, "waiting")
  /\ UNCHANGED <<instance, queue, cpc, work, spurious>>

WSpurious(w) ==
  /\ spurious < MaxSpurious
  /\ spurious' = spurious + 1
  /\ wpc[w] = "waiting"
  /\ WGoto(w, "relock")
  /\ UNCHANGED <<instance, mtx, queue, cpc, work>>

\* Mutation: front() without pop().
PopTaskKeep(w) ==
  /\ wpc[w] = "check"
  /\ queue # <<>>
  /\ task' = [task EXCEPT ![w] = Head(queue)]
  /\ WGoto(w, "unlock")
  /\ UNCHANGED <<instance, mtx, queue, cpc, arg, ran, spurious>>

PopTask(w) ==
  /\ wpc[w] = "check"
  /\ queue # <<>>
  /\ task' = [task EXCEPT ![w] = Head(queue)]
  /\ queue' = Tail(queue)
  /\ WGoto(w, "unlock")
  /\ UNCHANGED <<instance, mtx, cpc, arg, ran, spurious>>

WUnlock(w) ==
  /\ wpc[w] = "unlock"
  /\ mtx' = None
  /\ WGoto(w, "run")
  /\ UNCHANGED <<instance, queue, cpc, work, spurious>>

Run(w) ==
  /\ wpc[w] = "run"
  /\ ran' = [ran EXCEPT ![task[w]] = @ + 1]
  /\ task' = [task EXCEPT ![w] = None]
  /\ WGoto(w, "lock")
  /\ UNCHANGED <<instance, mtx, queue, cpc, arg, spurious>>
-----------------------------------------------------------------------------
GetInstance(c) ==
  Get(c) \/ GetLock(c) \/ Recheck(c) \/ Create(c) \/ Created(c) \/ GetUnlock(c)

PushTask(c) == PushLock(c) \/ PushQueue(c) \/ PushUnlock(c) \/ Wakeup(c)

Rountine(w) == WLock(w) \/ WWait(w) \/ PopTask(w) \/ WUnlock(w) \/ Run(w)

Next ==
  \/ \E c \in Clients : GetInstance(c) \/ PushTask(c) \/ \E t \in Tasks : Call(c, t)
  \/ \E w \in Workers : Rountine(w) \/ WSpurious(w)

Spec == Init /\ [][Next]_vars

\* Every thread is scheduled; a client need not call.
Fairness ==
  /\ \A c \in Clients : WF_vars(GetInstance(c) \/ PushTask(c))
  /\ \A w \in Workers : WF_vars(Rountine(w))

FairSpec == Spec /\ Fairness
-----------------------------------------------------------------------------
(***************************************************************************)
(* Properties.                                                             *)
(***************************************************************************)
\* Types of all variables.
TypeOK ==
  /\ ins \in BOOLEAN
  /\ built \in Nat
  /\ lock \in Clients \cup {None}
  /\ mtx \in Clients \cup Workers \cup {None}
  /\ queue \in Seq(Tasks)
  /\ cpc \in [Clients -> {"idle", "get", "getlock", "recheck", "create", "getunlock",
                          "lock", "push", "unlock", "wakeup"}]
  /\ arg \in [Clients -> Tasks \cup {None}]
  /\ wpc \in [Workers -> {"none", "lock", "relock", "check", "waiting", "unlock", "run"}]
  /\ task \in [Workers -> Tasks \cup {None}]
  /\ ran \in [Tasks -> Nat]
  /\ spurious \in 0 .. MaxSpurious

\* One thread at a time between Lock and Unlock, one between the lock and
\* unlock of GetInstance.
MutualExclusion ==
  /\ \A c \in Clients :
       /\ cpc[c] \in {"recheck", "create", "getunlock"} <=> lock = c
       /\ cpc[c] \in {"push", "unlock"} <=> mtx = c
  /\ \A w \in Workers : wpc[w] \in {"check", "unlock"} <=> mtx = w

CAt(steps) == {c \in Clients : cpc[c] \in steps}

\* However many clients race through GetInstance, one pool is built, and
\* nobody uses it before.
OnePool ==
  /\ built <= 1
  /\ (queue # <<>> \/ CAt({"lock", "push", "unlock", "wakeup"}) # {}) => built = 1

\* A task is in one place: in a call, in the queue, with a worker, or run.
TaskInOnePlace ==
  \A t \in Tasks :
    Cardinality({c \in Clients : arg[c] = t})
      + Cardinality({i \in DOMAIN queue : queue[i] = t})
      + Cardinality({w \in Workers : task[w] = t}) + ran[t] <= 1

\* The signals are sent outside the mutex and may find nobody waiting, yet no
\* worker sleeps while there is work for it: when a worker waits, for each
\* queued task a signal is on its way or a worker is awake to look.
NoIdleWorkerWhileTasksWait ==
  WAt({"waiting"}) # {} =>
    Len(queue) <= Cardinality(CAt({"unlock", "wakeup"}))
                    + Cardinality(WAt({"lock", "relock", "check"}))

\* A task that was pushed is run, also one that was pushed before the first
\* worker was started.
EveryTaskRuns == \A t \in Tasks : (t \in InQueue) ~> (ran[t] = 1)
=============================================================================
