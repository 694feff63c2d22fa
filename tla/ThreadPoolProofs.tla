---------------------------- MODULE ThreadPoolProofs ----------------------------
(***************************************************************************)
(* Proofs about ThreadPool, for any finite sets of clients, workers and    *)
(* tasks.                                                                  *)
(***************************************************************************)
EXTENDS ThreadPool, TLAPS, SequenceTheorems, FiniteSetTheorems

\* A client inside GetInstance or before its push has a task to push.
ArgGiven ==
  \A c \in Clients :
    cpc[c] \in {"get", "getlock", "recheck", "create", "getunlock", "lock", "push"} =>
      arg[c] \in Tasks

\* The pool exists when ins is set, and is used only then.
PoolBuilt ==
  /\ built = IF ins THEN 1 ELSE 0
  /\ \A c \in Clients :
       cpc[c] \in {"create", "getunlock", "lock", "push", "unlock", "wakeup"} => ins
  /\ queue # <<>> => ins

\* TaskInOnePlace without counting: no two places hold the same task.
OnePlace ==
  \A t \in Tasks :
    /\ \A c, d \in Clients : arg[c] = t /\ arg[d] = t => c = d
    /\ \A i, j \in 1 .. Len(queue) : queue[i] = t /\ queue[j] = t => i = j
    /\ \A w, x \in Workers : task[w] = t /\ task[x] = t => w = x
    /\ \A c \in Clients, i \in 1 .. Len(queue) : ~ (arg[c] = t /\ queue[i] = t)
    /\ \A c \in Clients, w \in Workers : ~ (arg[c] = t /\ task[w] = t)
    /\ \A i \in 1 .. Len(queue), w \in Workers : ~ (queue[i] = t /\ task[w] = t)
    /\ ran[t] \in {0, 1}
    /\ ran[t] = 1 => /\ \A c \in Clients : arg[c] # t
                     /\ \A i \in 1 .. Len(queue) : queue[i] # t
                     /\ \A w \in Workers : task[w] # t

\* The inductive invariant.
IInv ==
  /\ TypeOK /\ MutualExclusion
  /\ ArgGiven /\ PoolBuilt /\ OnePlace
  /\ NoIdleWorkerWhileTasksWait

\* The queue after a push and after a pop.
LEMMA PushedQueue ==
  ASSUME queue \in Seq(Tasks), NEW t \in Tasks, queue' = Append(queue, t)
  PROVE  /\ queue' \in Seq(Tasks) /\ queue' # <<>>
         /\ Len(queue) \in Nat /\ Len(queue') = Len(queue) + 1
         /\ \A i \in 1 .. Len(queue') : queue'[i] = IF i = Len(queue) + 1 THEN t ELSE queue[i]
         /\ \A i \in 1 .. Len(queue') : i = Len(queue) + 1 \/ i \in 1 .. Len(queue)
<1>1. queue' \in Seq(Tasks) /\ Len(queue) \in Nat /\ Len(queue') = Len(queue) + 1
  BY AppendProperties, LenProperties
<1>2. queue' # <<>>
  BY <1>1, EmptySeq
<1>3. \A i \in 1 .. Len(queue) : queue'[i] = queue[i]
  BY AppendProperties
<1>4. queue'[Len(queue) + 1] = t
  BY AppendProperties
<1>5. \A i \in 1 .. Len(queue') : i = Len(queue) + 1 \/ i \in 1 .. Len(queue)
  BY <1>1
<1> QED BY <1>1, <1>2, <1>3, <1>4, <1>5

LEMMA PoppedQueue ==
  ASSUME queue \in Seq(Tasks), queue # <<>>, queue' = Tail(queue)
  PROVE  /\ queue' \in Seq(Tasks)
         /\ Head(queue) = queue[1] /\ queue[1] \in Tasks
         /\ Len(queue) \in Nat \ {0} /\ Len(queue') = Len(queue) - 1
         /\ 1 \in 1 .. Len(queue)
         /\ \A i \in 1 .. Len(queue') : queue'[i] = queue[i+1] /\ i+1 \in 1 .. Len(queue) /\ i+1 # 1
<1>1. Len(queue) \in Nat /\ Len(queue) # 0
  BY EmptySeq, LenProperties
<1>2. /\ Tail(queue) \in Seq(Tasks) /\ Head(queue) = queue[1]
      /\ Len(Tail(queue)) = Len(queue) - 1
      /\ \A i \in 1 .. Len(Tail(queue)) : Tail(queue)[i] = queue[i+1]
  BY HeadTailProperties
<1>3. queue[1] \in Tasks
  BY <1>1, ElementOfSeq
<1>4. \A i \in 1 .. Len(queue') : i+1 \in 1 .. Len(queue) /\ i+1 # 1
  BY <1>1, <1>2
<1> QED BY <1>1, <1>2, <1>3, <1>4
-----------------------------------------------------------------------------
\* The empty pool.
LEMMA InitIInv == Init => IInv
<1> SUFFICES ASSUME Init PROVE IInv
  OBVIOUS
<1>1. TypeOK
  <2>1. queue \in Seq(Tasks) /\ spurious \in 0 .. MaxSpurious
    BY BoundAssumption DEF Init
  <2> QED BY <2>1 DEF Init, TypeOK
<1>2. MutualExclusion
  BY NoneAssumption DEF Init, MutualExclusion
<1>3. ArgGiven
  BY DEF Init, ArgGiven
<1>4. PoolBuilt
  BY DEF Init, PoolBuilt
<1>5. OnePlace
  <2>1. Len(queue) = 0
    BY EmptySeq DEF Init
  <2>2. 1 .. Len(queue) = {}
    BY <2>1
  <2> QED BY <2>2, NoneAssumption DEF Init, OnePlace
<1>6. NoIdleWorkerWhileTasksWait
  BY DEF Init, NoIdleWorkerWhileTasksWait, WAt
<1> QED BY <1>1, <1>2, <1>3, <1>4, <1>5, <1>6 DEF IInv

\* A call of pthread or of the queue keeps the types.
LEMMA TypeStep == TypeOK /\ ArgGiven /\ [Next]_vars => TypeOK'
<1> SUFFICES ASSUME TypeOK, ArgGiven, [Next]_vars PROVE TypeOK'
  OBVIOUS
<1>1. ASSUME NEW c \in Clients, NEW t \in Tasks, Call(c, t) PROVE TypeOK'
  BY <1>1 DEF Call, CGoto, instance, TypeOK
<1>2. ASSUME NEW c \in Clients, GetInstance(c) PROVE TypeOK'
  <2>1. CASE Get(c)
    BY <2>1 DEF Get, CGoto, instance, work, TypeOK
  <2>2. CASE GetLock(c)
    BY <2>2 DEF GetLock, CGoto, work, TypeOK
  <2>3. CASE Recheck(c)
    <3>1. built' \in Nat /\ ins' \in BOOLEAN
      <4>1. built \in Nat /\ built + 1 \in Nat /\ ins \in BOOLEAN
        BY DEF TypeOK
      <4>2. CASE ins
        BY <2>3, <4>1, <4>2 DEF Recheck
      <4>3. CASE ~ ins
        BY <2>3, <4>1, <4>3 DEF Recheck
      <4> QED BY <4>2, <4>3
    <3>2. cpc' \in [Clients -> {"idle", "get", "getlock", "recheck", "create", "getunlock",
                               "lock", "push", "unlock", "wakeup"}]
      BY <2>3 DEF Recheck, CGoto, TypeOK
    <3> QED BY <2>3, <3>1, <3>2 DEF Recheck, work, TypeOK
  <2>4. CASE Create(c)
    BY <2>4 DEF Create, WGoto, WAt, instance, work, TypeOK
  <2>5. CASE Created(c)
    BY <2>5 DEF Created, CGoto, instance, work, TypeOK
  <2>6. CASE GetUnlock(c)
    BY <2>6 DEF GetUnlock, CGoto, work, TypeOK
  <2> QED BY <1>2, <2>1, <2>2, <2>3, <2>4, <2>5, <2>6 DEF GetInstance
<1>3. ASSUME NEW c \in Clients, PushTask(c) PROVE TypeOK'
  <2>1. CASE PushLock(c)
    BY <2>1 DEF PushLock, CGoto, instance, work, TypeOK
  <2>2. CASE PushQueue(c)
    <3>1. queue' \in Seq(Tasks)
      <4>1. arg[c] \in Tasks /\ queue \in Seq(Tasks) /\ queue' = Append(queue, arg[c])
        BY <2>2 DEF PushQueue, ArgGiven, TypeOK
      <4> QED BY <4>1, PushedQueue
    <3> QED BY <2>2, <3>1 DEF PushQueue, CGoto, instance, TypeOK
  <2>3. CASE PushUnlock(c)
    BY <2>3 DEF PushUnlock, CGoto, instance, work, TypeOK
  <2>4. CASE Wakeup(c)
    BY <2>4 DEF Wakeup, CGoto, WGoto, WAt, instance, work, TypeOK
  <2> QED BY <1>3, <2>1, <2>2, <2>3, <2>4 DEF PushTask
<1>4. ASSUME NEW w \in Workers, Rountine(w) PROVE TypeOK'
  <2>1. CASE WLock(w)
    BY <2>1 DEF WLock, WGoto, instance, work, TypeOK
  <2>2. CASE WWait(w)
    BY <2>2 DEF WWait, WGoto, instance, work, TypeOK
  <2>3. CASE PopTask(w)
    <3>1. queue' \in Seq(Tasks) /\ Head(queue) \in Tasks
      BY <2>3, PoppedQueue DEF PopTask, TypeOK
    <3> QED BY <2>3, <3>1 DEF PopTask, WGoto, instance, TypeOK
  <2>4. CASE WUnlock(w)
    BY <2>4 DEF WUnlock, WGoto, instance, work, TypeOK
  <2>5. CASE Run(w)
    <3>1. ran' \in [Tasks -> Nat]
      <4>1. ran \in [Tasks -> Nat] /\ ran' = [ran EXCEPT ![task[w]] = ran[task[w]] + 1]
        BY <2>5 DEF Run, TypeOK
      <4>2. ASSUME NEW t \in Tasks PROVE ran[t] \in Nat /\ ran[t] + 1 \in Nat
        BY <4>1
      <4> QED BY <4>1, <4>2
    <3> QED BY <2>5, <3>1 DEF Run, WGoto, instance, TypeOK
  <2> QED BY <1>4, <2>1, <2>2, <2>3, <2>4, <2>5 DEF Rountine
<1>5. ASSUME NEW w \in Workers, WSpurious(w) PROVE TypeOK'
  BY <1>5, BoundAssumption DEF WSpurious, WGoto, instance, work, TypeOK
<1>6. CASE UNCHANGED vars
  BY <1>6 DEF vars, instance, work, TypeOK
<1> QED BY <1>1, <1>2, <1>3, <1>4, <1>5, <1>6 DEF Next

\* The owner of a mutex is the thread between its lock and its unlock.
LEMMA MutexStep == TypeOK /\ MutualExclusion /\ [Next]_vars => MutualExclusion'
<1> SUFFICES ASSUME TypeOK, MutualExclusion, [Next]_vars PROVE MutualExclusion'
  OBVIOUS
<1>0. /\ \A c \in Clients : c # None /\ c \notin Workers
      /\ \A w \in Workers : w # None /\ w \notin Clients
      /\ cpc \in [Clients -> {"idle", "get", "getlock", "recheck", "create", "getunlock",
                              "lock", "push", "unlock", "wakeup"}]
      /\ wpc \in [Workers -> {"none", "lock", "relock", "check", "waiting", "unlock", "run"}]
  BY NoneAssumption DEF TypeOK
<1>1. ASSUME NEW c \in Clients, NEW t \in Tasks, Call(c, t) PROVE MutualExclusion'
  BY <1>0, <1>1 DEF Call, CGoto, instance, MutualExclusion
<1>2. ASSUME NEW c \in Clients, GetInstance(c) PROVE MutualExclusion'
  <2>1. CASE Get(c) \/ GetLock(c) \/ Created(c) \/ GetUnlock(c)
    BY <1>0, <2>1 DEF Get, GetLock, Created, GetUnlock, CGoto, instance, MutualExclusion
  <2>2. CASE Recheck(c)
    BY <1>0, <2>2 DEF Recheck, CGoto, MutualExclusion
  <2>3. CASE Create(c)
    BY <1>0, <2>3 DEF Create, WGoto, WAt, instance, MutualExclusion
  <2> QED BY <1>2, <2>1, <2>2, <2>3 DEF GetInstance
<1>3. ASSUME NEW c \in Clients, PushTask(c) PROVE MutualExclusion'
  <2>1. CASE PushLock(c) \/ PushQueue(c) \/ PushUnlock(c)
    BY <1>0, <2>1 DEF PushLock, PushQueue, PushUnlock, CGoto, instance, MutualExclusion
  <2>2. CASE Wakeup(c)
    BY <1>0, <2>2 DEF Wakeup, CGoto, WGoto, WAt, instance, MutualExclusion
  <2> QED BY <1>3, <2>1, <2>2 DEF PushTask
<1>4. ASSUME NEW w \in Workers, Rountine(w) \/ WSpurious(w) PROVE MutualExclusion'
  BY <1>0, <1>4 DEF Rountine, WLock, WWait, PopTask, WUnlock, Run, WSpurious, WGoto,
                    instance, MutualExclusion
<1>5. CASE UNCHANGED vars
  BY <1>5 DEF vars, instance, MutualExclusion
<1> QED BY <1>1, <1>2, <1>3, <1>4, <1>5 DEF Next

\* The argument of a call stays until it is in the queue.
LEMMA ArgStep == TypeOK /\ ArgGiven /\ [Next]_vars => ArgGiven'
<1> SUFFICES ASSUME TypeOK, ArgGiven, [Next]_vars PROVE ArgGiven'
  OBVIOUS
<1>0. /\ cpc \in [Clients -> {"idle", "get", "getlock", "recheck", "create", "getunlock",
                              "lock", "push", "unlock", "wakeup"}]
      /\ arg \in [Clients -> Tasks \cup {None}]
  BY DEF TypeOK
<1>1. ASSUME NEW c \in Clients, NEW t \in Tasks, Call(c, t) PROVE ArgGiven'
  BY <1>0, <1>1 DEF Call, CGoto, ArgGiven
<1>2. ASSUME NEW c \in Clients, GetInstance(c) PROVE ArgGiven'
  <2>1. arg' = arg
    BY <1>2 DEF GetInstance, Get, GetLock, Recheck, Create, Created, GetUnlock, work
  <2>2. /\ \A d \in Clients : d # c => cpc'[d] = cpc[d]
        /\ cpc'[c] = cpc[c] \/ cpc[c] \in {"get", "getlock", "recheck", "create", "getunlock"}
    BY <1>0, <1>2 DEF GetInstance, Get, GetLock, Recheck, Create, Created, GetUnlock, CGoto
  <2> QED BY <2>1, <2>2 DEF ArgGiven
<1>3. ASSUME NEW c \in Clients, PushTask(c) PROVE ArgGiven'
  BY <1>0, <1>3 DEF PushTask, PushLock, PushQueue, PushUnlock, Wakeup, CGoto, work, ArgGiven
<1>4. ASSUME NEW w \in Workers, Rountine(w) \/ WSpurious(w) PROVE ArgGiven'
  BY <1>4 DEF Rountine, WLock, WWait, PopTask, WUnlock, Run, WSpurious, work, ArgGiven
<1>5. CASE UNCHANGED vars
  BY <1>5 DEF vars, work, ArgGiven
<1> QED BY <1>1, <1>2, <1>3, <1>4, <1>5 DEF Next

\* The pool is built once and before it is used: the second test of the
\* pointer is made under the lock that the first builder held.
LEMMA PoolStep == TypeOK /\ MutualExclusion /\ PoolBuilt /\ [Next]_vars => PoolBuilt'
<1> SUFFICES ASSUME TypeOK, MutualExclusion, PoolBuilt, [Next]_vars PROVE PoolBuilt'
  OBVIOUS
<1>0. /\ cpc \in [Clients -> {"idle", "get", "getlock", "recheck", "create", "getunlock",
                              "lock", "push", "unlock", "wakeup"}]
      /\ ins \in BOOLEAN /\ queue \in Seq(Tasks)
  BY DEF TypeOK
<1>1. ASSUME NEW c \in Clients, NEW t \in Tasks, Call(c, t) PROVE PoolBuilt'
  BY <1>0, <1>1 DEF Call, CGoto, instance, PoolBuilt
<1>2. ASSUME NEW c \in Clients, GetInstance(c) PROVE PoolBuilt'
  <2>1. CASE Get(c) \/ GetLock(c) \/ Create(c) \/ Created(c) \/ GetUnlock(c)
    BY <1>0, <2>1 DEF Get, GetLock, Create, Created, GetUnlock, CGoto, instance, PoolBuilt
  <2>2. CASE Recheck(c) /\ ins
    BY <1>0, <2>2 DEF Recheck, CGoto, PoolBuilt
  <2>3. CASE Recheck(c) /\ ~ ins
    <3>1. built = 0 /\ built' = built + 1 /\ ins' = TRUE
      BY <2>3 DEF Recheck, PoolBuilt
    <3>2. built' = IF ins' THEN 1 ELSE 0
      BY <3>1
    <3> QED BY <3>1, <3>2 DEF PoolBuilt
  <2> QED BY <1>0, <1>2, <2>1, <2>2, <2>3 DEF GetInstance
<1>3. ASSUME NEW c \in Clients, PushTask(c) PROVE PoolBuilt'
  BY <1>0, <1>3 DEF PushTask, PushLock, PushQueue, PushUnlock, Wakeup, CGoto, instance, PoolBuilt
<1>4. ASSUME NEW w \in Workers, Rountine(w) \/ WSpurious(w) PROVE PoolBuilt'
  BY <1>0, <1>4 DEF Rountine, WLock, WWait, PopTask, WUnlock, Run, WSpurious, instance, PoolBuilt
<1>5. CASE UNCHANGED vars
  BY <1>5 DEF vars, instance, PoolBuilt
<1> QED BY <1>1, <1>2, <1>3, <1>4, <1>5 DEF Next
-----------------------------------------------------------------------------
\* A step moves a task from one place to the next.
LEMMA PlaceStep == TypeOK /\ ArgGiven /\ OnePlace /\ [Next]_vars => OnePlace'
<1> SUFFICES ASSUME TypeOK, ArgGiven, OnePlace, [Next]_vars PROVE OnePlace'
  OBVIOUS
<1>0. /\ arg \in [Clients -> Tasks \cup {None}] /\ task \in [Workers -> Tasks \cup {None}]
      /\ ran \in [Tasks -> Nat] /\ queue \in Seq(Tasks) /\ None \notin Tasks
  BY NoneAssumption DEF TypeOK
<1>1. ASSUME NEW c \in Clients, NEW t \in Tasks, Call(c, t) PROVE OnePlace'
  <2>1. /\ \A i \in 1 .. Len(queue) : queue[i] # t
        /\ \A d \in Clients : arg[d] # t
        /\ \A w \in Workers : task[w] # t
        /\ ran[t] = 0
    <3>1. \A i \in DOMAIN queue : queue[i] # t
      BY <1>1 DEF Call, InQueue
    <3>2. DOMAIN queue = 1 .. Len(queue)
      BY <1>0, LenProperties
    <3> QED BY <1>1, <3>1, <3>2 DEF Call
  <2>2. /\ arg' = [arg EXCEPT ![c] = t] /\ queue' = queue /\ task' = task /\ ran' = ran
    BY <1>1 DEF Call
  <2> QED BY <1>0, <2>1, <2>2 DEF OnePlace
<1>2. ASSUME NEW c \in Clients, PushQueue(c) PROVE OnePlace'
  <2> DEFINE n == Len(queue)
             a == arg[c]
  <2>1. a \in Tasks /\ queue' = Append(queue, a)
    BY <1>2 DEF PushQueue, ArgGiven
  <2>2. /\ \A i \in 1 .. Len(queue') : queue'[i] = IF i = n + 1 THEN a ELSE queue[i]
        /\ \A i \in 1 .. Len(queue') : i = n + 1 \/ i \in 1 .. n
    BY <1>0, <2>1, PushedQueue
  <2>3. /\ arg' = [arg EXCEPT ![c] = None] /\ task' = task /\ ran' = ran
    BY <1>2 DEF PushQueue
  <2>4. /\ \A i \in 1 .. n : queue[i] # a
        /\ \A w \in Workers : task[w] # a
        /\ \A d \in Clients : arg[d] = a => d = c
        /\ ran[a] # 1
    BY <2>1 DEF OnePlace
  <2>5. \A d \in Clients : arg'[d] = IF d = c THEN None ELSE arg[d]
    BY <1>0, <2>3
  <2> HIDE DEF n, a
  <2>6. ASSUME NEW t \in Tasks, NEW i \in 1 .. Len(queue'), queue'[i] = t
        PROVE  (t = a /\ i = n + 1) \/ (t # a /\ i \in 1 .. n /\ queue[i] = t)
    BY <2>2, <2>4, <2>6
  <2>7. ASSUME NEW t \in Tasks, NEW d \in Clients, arg'[d] = t PROVE arg[d] = t /\ t # a
    BY <1>0, <2>4, <2>5, <2>7
  <2>8. ASSUME NEW t \in Tasks
        PROVE  /\ \A d, e \in Clients : arg'[d] = t /\ arg'[e] = t => d = e
               /\ \A i, j \in 1 .. Len(queue') : queue'[i] = t /\ queue'[j] = t => i = j
               /\ \A w, x \in Workers : task'[w] = t /\ task'[x] = t => w = x
               /\ \A d \in Clients, i \in 1 .. Len(queue') : ~ (arg'[d] = t /\ queue'[i] = t)
               /\ \A d \in Clients, w \in Workers : ~ (arg'[d] = t /\ task'[w] = t)
               /\ \A i \in 1 .. Len(queue'), w \in Workers : ~ (queue'[i] = t /\ task'[w] = t)
               /\ ran'[t] \in {0, 1}
               /\ ran'[t] = 1 => /\ \A d \in Clients : arg'[d] # t
                                 /\ \A i \in 1 .. Len(queue') : queue'[i] # t
                                 /\ \A w \in Workers : task'[w] # t
    BY <2>3, <2>4, <2>6, <2>7 DEF OnePlace, n
  <2> QED BY <2>8 DEF OnePlace
<1>3. ASSUME NEW w \in Workers, PopTask(w) PROVE OnePlace'
  <2> DEFINE h == queue[1]
  <2>1. /\ h \in Tasks /\ 1 \in 1 .. Len(queue)
        /\ \A i \in 1 .. Len(queue') : queue'[i] = queue[i+1] /\ i+1 \in 1 .. Len(queue) /\ i+1 # 1
        /\ \A i, j \in 1 .. Len(queue') : i+1 = j+1 => i = j
        /\ task' = [task EXCEPT ![w] = h] /\ arg' = arg /\ ran' = ran
    BY <1>0, <1>3, PoppedQueue DEF PopTask
  <2>2. /\ \A i \in 1 .. Len(queue) : queue[i] = h => i = 1
        /\ \A x \in Workers : task[x] # h
        /\ \A d \in Clients : arg[d] # h
        /\ ran[h] # 1
    BY <2>1 DEF OnePlace
  <2>3. \A x \in Workers : task'[x] = IF x = w THEN h ELSE task[x]
    BY <1>0, <2>1
  <2> HIDE DEF h
  <2>4. ASSUME NEW t \in Tasks, NEW i \in 1 .. Len(queue'), queue'[i] = t
        PROVE  t # h /\ i+1 \in 1 .. Len(queue) /\ queue[i+1] = t
    BY <2>1, <2>2, <2>4
  <2>5. ASSUME NEW t \in Tasks
        PROVE  /\ \A d, e \in Clients : arg'[d] = t /\ arg'[e] = t => d = e
               /\ \A i, j \in 1 .. Len(queue') : queue'[i] = t /\ queue'[j] = t => i = j
               /\ \A v, x \in Workers : task'[v] = t /\ task'[x] = t => v = x
               /\ \A d \in Clients, i \in 1 .. Len(queue') : ~ (arg'[d] = t /\ queue'[i] = t)
               /\ \A d \in Clients, x \in Workers : ~ (arg'[d] = t /\ task'[x] = t)
               /\ \A i \in 1 .. Len(queue'), x \in Workers : ~ (queue'[i] = t /\ task'[x] = t)
               /\ ran'[t] \in {0, 1}
               /\ ran'[t] = 1 => /\ \A d \in Clients : arg'[d] # t
                                 /\ \A i \in 1 .. Len(queue') : queue'[i] # t
                                 /\ \A x \in Workers : task'[x] # t
    <3>1. \A i, j \in 1 .. Len(queue') : queue'[i] = t /\ queue'[j] = t => i = j
      <4> SUFFICES ASSUME NEW i \in 1 .. Len(queue'), NEW j \in 1 .. Len(queue'),
                          queue'[i] = t, queue'[j] = t
                   PROVE  i = j
        OBVIOUS
      <4>1. \A k, l \in 1 .. Len(queue) : queue[k] = t /\ queue[l] = t => k = l
        BY DEF OnePlace
      <4>2. i+1 = j+1
        BY <2>4, <4>1
      <4> QED BY <2>1, <4>2
    <3> QED BY <2>1, <2>2, <2>3, <2>4, <3>1 DEF OnePlace
  <2> QED BY <2>5 DEF OnePlace
<1>4. ASSUME NEW w \in Workers, Run(w) PROVE OnePlace'
  <2>1. /\ task' = [task EXCEPT ![w] = None] /\ ran' = [ran EXCEPT ![task[w]] = @ + 1]
        /\ arg' = arg /\ queue' = queue
    BY <1>4 DEF Run
  <2>2. \A x \in Workers : task'[x] = IF x = w THEN None ELSE task[x]
    BY <1>0, <2>1
  <2>3. \A t \in Tasks : t # task[w] => ran'[t] = ran[t]
    BY <1>0, <2>1
  <2>4. CASE task[w] \in Tasks
    <3>1. ran'[task[w]] = 1
      <4>1. ran[task[w]] = 0
        BY <2>4 DEF OnePlace
      <4> QED BY <1>0, <2>1, <2>4, <4>1
    <3>2. /\ \A x \in Workers : task[x] = task[w] => x = w
          /\ \A d \in Clients : arg[d] # task[w]
          /\ \A i \in 1 .. Len(queue) : queue[i] # task[w]
      BY <2>4 DEF OnePlace
    <3> QED BY <1>0, <2>1, <2>2, <2>3, <2>4, <3>1, <3>2 DEF OnePlace
  <2>5. CASE task[w] \notin Tasks
    BY <1>0, <2>1, <2>2, <2>3, <2>5 DEF OnePlace
  <2> QED BY <2>4, <2>5
<1>5. CASE UNCHANGED <<arg, queue, task, ran>>
  BY <1>5 DEF OnePlace
<1>6. \/ \E c \in Clients, t \in Tasks : Call(c, t)
      \/ \E c \in Clients : PushQueue(c)
      \/ \E w \in Workers : PopTask(w) \/ Run(w)
      \/ UNCHANGED <<arg, queue, task, ran>>
  BY DEF Next, GetInstance, Get, GetLock, Recheck, Create, Created, GetUnlock,
         PushTask, PushLock, PushUnlock, Wakeup, Rountine, WLock, WWait, WUnlock, WSpurious,
         work, vars
<1> QED BY <1>1, <1>2, <1>3, <1>4, <1>5, <1>6

\* Counted, the places are at most one.
LEMMA OnePlaceCounted == TypeOK /\ OnePlace => TaskInOnePlace
<1> SUFFICES ASSUME TypeOK, OnePlace, NEW t \in Tasks
             PROVE  Cardinality({c \in Clients : arg[c] = t})
                      + Cardinality({i \in DOMAIN queue : queue[i] = t})
                      + Cardinality({w \in Workers : task[w] = t}) + ran[t] <= 1
  BY DEF TaskInOnePlace
<1> DEFINE A == {c \in Clients : arg[c] = t}
           Q == {i \in DOMAIN queue : queue[i] = t}
           W == {w \in Workers : task[w] = t}
<1>1. DOMAIN queue = 1 .. Len(queue) /\ ran[t] \in {0, 1}
  BY LenProperties DEF TypeOK, OnePlace
<1>2. /\ \A x, y \in A : x = y
      /\ \A x, y \in Q : x = y
      /\ \A x, y \in W : x = y
      /\ A = {} \/ Q = {}
      /\ A = {} \/ W = {}
      /\ Q = {} \/ W = {}
      /\ ran[t] = 1 => A = {} /\ Q = {} /\ W = {}
  BY <1>1 DEF OnePlace
<1>3. ASSUME NEW S, \A x, y \in S : x = y PROVE (S # {} => Cardinality(S) = 1) /\ (S = {} => Cardinality(S) = 0)
  <2>1. CASE S = {}
    BY <2>1, FS_EmptySet
  <2>2. CASE S # {}
    <3>1. PICK x \in S : TRUE
      BY <2>2
    <3>2. S = {x}
      BY <1>3, <3>1
    <3> QED BY <3>2, FS_Singleton
  <2> QED BY <2>1, <2>2
<1> DEFINE a == Cardinality(A)
           q == Cardinality(Q)
           w == Cardinality(W)
<1>4. /\ A # {} => a = 1
      /\ A = {} => a = 0
      /\ Q # {} => q = 1
      /\ Q = {} => q = 0
      /\ W # {} => w = 1
      /\ W = {} => w = 0
  BY <1>2, <1>3
<1> HIDE DEF A, Q, W, a, q, w
<1>5. a + q + w + ran[t] <= 1
  BY <1>1, <1>2, <1>4
<1> QED BY <1>5 DEF A, Q, W, a, q, w
-----------------------------------------------------------------------------
\* Signals on their way, and workers that are going to look at the queue.
Coming == Cardinality(CAt({"unlock", "wakeup"}))
Awake  == Cardinality(WAt({"lock", "relock", "check"}))

LEMMA CountTypes == Coming \in Nat /\ Awake \in Nat /\ Coming' \in Nat /\ Awake' \in Nat
<1>1. ASSUME NEW f, NEW S
      PROVE  /\ Cardinality({c \in Clients : f[c] \in S}) \in Nat
             /\ Cardinality({w \in Workers : f[w] \in S}) \in Nat
  BY FiniteAssumption, FS_Subset, FS_CardinalityType
<1> QED BY <1>1 DEF Coming, Awake, CAt, WAt

\* How a step of a client changes the number of signals on their way.
LEMMA ComingMoves ==
  ASSUME TypeOK, NEW c \in Clients, NEW to, CGoto(c, to)
  PROVE  Coming' = Coming + (IF to \in {"unlock", "wakeup"} THEN 1 ELSE 0)
                          - (IF cpc[c] \in {"unlock", "wakeup"} THEN 1 ELSE 0)
<1> DEFINE S == {"unlock", "wakeup"}
<1>1. IsFiniteSet(CAt(S)) /\ Cardinality(CAt(S)) \in Nat
  BY FiniteAssumption, FS_Subset, FS_CardinalityType DEF CAt
<1>2. \A d \in Clients : cpc'[d] = IF d = c THEN to ELSE cpc[d]
  BY DEF CGoto, TypeOK
<1>3. Coming = Cardinality(CAt(S)) /\ Coming' = Cardinality(CAt(S)')
  BY DEF Coming
<1> HIDE DEF S
<1>4. CASE to \in S /\ cpc[c] \notin S
  <2>1. CAt(S)' = CAt(S) \cup {c} /\ c \notin CAt(S)
    BY <1>2, <1>4 DEF CAt, S
  <2>2. Cardinality(CAt(S)') = Cardinality(CAt(S)) + 1
    BY <1>1, <2>1, FS_AddElement
  <2> QED BY <1>1, <1>3, <1>4, <2>2 DEF S
<1>5. CASE to \notin S /\ cpc[c] \in S
  <2>1. CAt(S)' = CAt(S) \ {c} /\ c \in CAt(S)
    BY <1>2, <1>5 DEF CAt, S
  <2>2. Cardinality(CAt(S)') = Cardinality(CAt(S)) - 1
    BY <1>1, <2>1, FS_RemoveElement
  <2> QED BY <1>1, <1>3, <1>5, <2>2 DEF S
<1>6. CASE (to \in S <=> cpc[c] \in S)
  <2>1. CAt(S)' = CAt(S)
    BY <1>2, <1>6 DEF CAt, S
  <2> QED BY <1>1, <1>3, <1>6, <2>1 DEF S
<1> QED BY <1>4, <1>5, <1>6

\* How a step of a worker changes the number of workers awake.
LEMMA AwakeMoves ==
  ASSUME TypeOK, NEW w \in Workers, NEW to, WGoto(w, to)
  PROVE  Awake' = Awake + (IF to \in {"lock", "relock", "check"} THEN 1 ELSE 0)
                        - (IF wpc[w] \in {"lock", "relock", "check"} THEN 1 ELSE 0)
<1> DEFINE S == {"lock", "relock", "check"}
<1>1. IsFiniteSet(WAt(S)) /\ Cardinality(WAt(S)) \in Nat
  BY FiniteAssumption, FS_Subset, FS_CardinalityType DEF WAt
<1>2. \A d \in Workers : wpc'[d] = IF d = w THEN to ELSE wpc[d]
  BY DEF WGoto, TypeOK
<1>3. Awake = Cardinality(WAt(S)) /\ Awake' = Cardinality(WAt(S)')
  BY DEF Awake
<1> HIDE DEF S
<1>4. CASE to \in S /\ wpc[w] \notin S
  <2>1. WAt(S)' = WAt(S) \cup {w} /\ w \notin WAt(S)
    BY <1>2, <1>4 DEF WAt, S
  <2>2. Cardinality(WAt(S)') = Cardinality(WAt(S)) + 1
    BY <1>1, <2>1, FS_AddElement
  <2> QED BY <1>1, <1>3, <1>4, <2>2 DEF S
<1>5. CASE to \notin S /\ wpc[w] \in S
  <2>1. WAt(S)' = WAt(S) \ {w} /\ w \in WAt(S)
    BY <1>2, <1>5 DEF WAt, S
  <2>2. Cardinality(WAt(S)') = Cardinality(WAt(S)) - 1
    BY <1>1, <2>1, FS_RemoveElement
  <2> QED BY <1>1, <1>3, <1>5, <2>2 DEF S
<1>6. CASE (to \in S <=> wpc[w] \in S)
  <2>1. WAt(S)' = WAt(S)
    BY <1>2, <1>6 DEF WAt, S
  <2> QED BY <1>1, <1>3, <1>6, <2>1 DEF S
<1> QED BY <1>4, <1>5, <1>6

\* What each step does to the two numbers and to the queue: nobody leaves a
\* task behind without a signal or a look at the queue.
LEMMA SupplyStep ==
  ASSUME TypeOK, ArgGiven, Next
  PROVE  \/ queue' = <<>>
         \/ WAt({"waiting"}) = {} /\ WAt({"waiting"})' = {}
         \/ /\ WAt({"waiting"})' # {} => WAt({"waiting"}) # {}
            /\ \/ Len(queue') = Len(queue) /\ Coming' = Coming /\ Awake' = Awake
               \/ Len(queue') = Len(queue) /\ Coming' = Coming /\ Awake' = Awake + 1
               \/ Len(queue') = Len(queue) /\ Coming' = Coming - 1 /\ Awake' = Awake + 1
               \/ Len(queue') = Len(queue) + 1 /\ Coming' = Coming + 1 /\ Awake' = Awake
               \/ Len(queue') = Len(queue) - 1 /\ Coming' = Coming /\ Awake' = Awake - 1
<1>0. Coming \in Nat /\ Awake \in Nat
  BY CountTypes
<1>c. ASSUME cpc' = cpc PROVE Coming' = Coming
  BY <1>c DEF Coming, CAt
<1>w. ASSUME wpc' = wpc PROVE Awake' = Awake /\ WAt({"waiting"})' = WAt({"waiting"})
  BY <1>w DEF Awake, WAt
<1>s. ASSUME NEW w \in Workers, NEW to, WGoto(w, to), to # "waiting", WAt({"waiting"})' # {}
      PROVE  WAt({"waiting"}) # {}
  <2>1. \A x \in Workers : wpc'[x] = IF x = w THEN to ELSE wpc[x]
    BY <1>s DEF WGoto, TypeOK
  <2>2. PICK x \in Workers : wpc'[x] = "waiting"
    BY <1>s DEF WAt
  <2>3. wpc[x] = "waiting"
    BY <1>s, <2>1, <2>2
  <2> QED BY <2>3 DEF WAt
<1>1. ASSUME NEW c \in Clients, NEW to, CGoto(c, to),
             to \in {"unlock", "wakeup"} <=> cpc[c] \in {"unlock", "wakeup"}
      PROVE  Coming' = Coming
  BY <1>0, <1>1, ComingMoves
<1>2. ASSUME NEW c \in Clients, (\E t \in Tasks : Call(c, t)) \/ PushLock(c) \/ PushUnlock(c)
      PROVE  queue' = queue /\ Coming' = Coming /\ wpc' = wpc
  <2>1. PICK to : /\ queue' = queue /\ wpc' = wpc /\ CGoto(c, to)
                  /\ to \in {"unlock", "wakeup"} <=> cpc[c] \in {"unlock", "wakeup"}
    BY <1>2 DEF Call, PushLock, PushUnlock
  <2> QED BY <1>1, <2>1
<1>3. ASSUME NEW c \in Clients, Get(c) \/ GetLock(c) \/ Recheck(c) \/ Created(c) \/ GetUnlock(c)
      PROVE  queue' = queue /\ Coming' = Coming /\ wpc' = wpc
  <2>1. PICK to : /\ queue' = queue /\ wpc' = wpc /\ CGoto(c, to)
                  /\ to \notin {"unlock", "wakeup"} /\ cpc[c] \notin {"unlock", "wakeup"}
    BY <1>3 DEF Get, GetLock, Recheck, Created, GetUnlock
  <2> QED BY <1>1, <2>1
<1>4. ASSUME NEW c \in Clients, Create(c)
      PROVE  /\ queue' = queue /\ Coming' = Coming /\ Awake' = Awake + 1
             /\ WAt({"waiting"})' # {} => WAt({"waiting"}) # {}
  <2>1. PICK w \in WAt({"none"}) : WGoto(w, "lock")
    BY <1>4 DEF Create
  <2>2. w \in Workers /\ wpc[w] = "none"
    BY <2>1 DEF WAt
  <2>3. Awake' = Awake + 1
    BY <1>0, <2>1, <2>2, AwakeMoves
  <2> QED BY <1>4, <1>c, <1>s, <2>1, <2>2, <2>3 DEF Create
<1>5. ASSUME NEW c \in Clients, PushQueue(c)
      PROVE  Len(queue') = Len(queue) + 1 /\ Coming' = Coming + 1 /\ wpc' = wpc
  <2>1. Coming' = Coming + 1
    BY <1>0, <1>5, ComingMoves DEF PushQueue
  <2>2. arg[c] \in Tasks /\ queue \in Seq(Tasks) /\ queue' = Append(queue, arg[c]) /\ wpc' = wpc
    BY <1>5 DEF PushQueue, ArgGiven, TypeOK
  <2> QED BY <2>1, <2>2, PushedQueue
<1>6. ASSUME NEW c \in Clients, Wakeup(c)
      PROVE  \/ WAt({"waiting"}) = {} /\ WAt({"waiting"})' = {}
             \/ /\ queue' = queue /\ Coming' = Coming - 1 /\ Awake' = Awake + 1
                /\ WAt({"waiting"}) # {}
  <2>1. Coming' = Coming - 1 /\ queue' = queue
    BY <1>0, <1>6, ComingMoves DEF Wakeup
  <2>2. CASE WAt({"waiting"}) = {} /\ wpc' = wpc
    BY <1>w, <2>2
  <2>3. ASSUME NEW w \in WAt({"waiting"}), WGoto(w, "relock") PROVE Awake' = Awake + 1
    <3>1. w \in Workers /\ wpc[w] = "waiting"
      BY <2>3 DEF WAt
    <3> QED BY <1>0, <2>3, <3>1, AwakeMoves
  <2> QED BY <1>6, <2>1, <2>2, <2>3 DEF Wakeup
<1>7. ASSUME NEW w \in Workers, WLock(w) \/ WUnlock(w)
      PROVE  /\ queue' = queue /\ Coming' = Coming /\ Awake' = Awake
             /\ WAt({"waiting"})' # {} => WAt({"waiting"}) # {}
  <2>1. CASE WLock(w)
    <3>1. Awake' = Awake
      BY <1>0, <2>1, AwakeMoves DEF WLock
    <3> QED BY <1>c, <1>s, <2>1, <3>1 DEF WLock
  <2>2. CASE WUnlock(w)
    <3>1. Awake' = Awake
      BY <1>0, <2>2, AwakeMoves DEF WUnlock
    <3> QED BY <1>c, <1>s, <2>2, <3>1 DEF WUnlock
  <2> QED BY <1>7, <2>1, <2>2
<1>8. ASSUME NEW w \in Workers, WWait(w) PROVE queue' = <<>>
  BY <1>8 DEF WWait
<1>9. ASSUME NEW w \in Workers, WSpurious(w) \/ Run(w)
      PROVE  /\ queue' = queue /\ Coming' = Coming /\ Awake' = Awake + 1
             /\ WAt({"waiting"})' # {} => WAt({"waiting"}) # {}
  <2>1. CASE WSpurious(w)
    <3>1. Awake' = Awake + 1
      BY <1>0, <2>1, AwakeMoves DEF WSpurious
    <3> QED BY <1>c, <1>s, <2>1, <3>1 DEF WSpurious
  <2>2. CASE Run(w)
    <3>1. Awake' = Awake + 1
      BY <1>0, <2>2, AwakeMoves DEF Run
    <3> QED BY <1>c, <1>s, <2>2, <3>1 DEF Run
  <2> QED BY <1>9, <2>1, <2>2
<1>10. ASSUME NEW w \in Workers, PopTask(w)
       PROVE  /\ Len(queue') = Len(queue) - 1 /\ Coming' = Coming /\ Awake' = Awake - 1
              /\ WAt({"waiting"})' # {} => WAt({"waiting"}) # {}
  <2>1. Awake' = Awake - 1
    BY <1>0, <1>10, AwakeMoves DEF PopTask
  <2>2. Len(queue') = Len(queue) - 1
    BY <1>10, PoppedQueue DEF PopTask, TypeOK
  <2> QED BY <1>10, <1>c, <1>s, <2>1, <2>2 DEF PopTask
<1>11. ASSUME NEW c \in Clients, GetInstance(c) \/ PushTask(c) \/ \E t \in Tasks : Call(c, t)
       PROVE  \/ WAt({"waiting"}) = {} /\ WAt({"waiting"})' = {}
              \/ /\ WAt({"waiting"})' # {} => WAt({"waiting"}) # {}
                 /\ \/ Len(queue') = Len(queue) /\ Coming' = Coming /\ Awake' = Awake
                    \/ Len(queue') = Len(queue) /\ Coming' = Coming /\ Awake' = Awake + 1
                    \/ Len(queue') = Len(queue) /\ Coming' = Coming - 1 /\ Awake' = Awake + 1
                    \/ Len(queue') = Len(queue) + 1 /\ Coming' = Coming + 1 /\ Awake' = Awake
  <2>1. CASE PushQueue(c)
    BY <1>5, <1>w, <2>1
  <2>2. CASE Wakeup(c)
    BY <1>6, <2>2
  <2>3. CASE Create(c)
    BY <1>4, <2>3
  <2>4. CASE ~ PushQueue(c) /\ ~ Wakeup(c) /\ ~ Create(c)
    <3>1. queue' = queue /\ Coming' = Coming /\ wpc' = wpc
      BY <1>2, <1>3, <1>11, <2>4 DEF GetInstance, PushTask
    <3> QED BY <1>w, <3>1
  <2> QED BY <2>1, <2>2, <2>3, <2>4
<1>12. ASSUME NEW w \in Workers, Rountine(w) \/ WSpurious(w)
       PROVE  \/ queue' = <<>>
              \/ /\ WAt({"waiting"})' # {} => WAt({"waiting"}) # {}
                 /\ \/ Len(queue') = Len(queue) /\ Coming' = Coming /\ Awake' = Awake
                    \/ Len(queue') = Len(queue) /\ Coming' = Coming /\ Awake' = Awake + 1
                    \/ Len(queue') = Len(queue) - 1 /\ Coming' = Coming /\ Awake' = Awake - 1
  <2>1. CASE WLock(w) \/ WUnlock(w)
    BY <1>7, <2>1
  <2>2. CASE WWait(w)
    BY <1>8, <2>2
  <2>3. CASE WSpurious(w) \/ Run(w)
    BY <1>9, <2>3
  <2>4. CASE PopTask(w)
    BY <1>10, <2>4
  <2> QED BY <1>12, <2>1, <2>2, <2>3, <2>4 DEF Rountine
<1> QED BY <1>11, <1>12 DEF Next

\* When a worker sleeps there are signals or workers awake for all tasks.
LEMMA SupplyInv ==
  TypeOK /\ ArgGiven /\ NoIdleWorkerWhileTasksWait /\ [Next]_vars => NoIdleWorkerWhileTasksWait'
<1> SUFFICES ASSUME TypeOK, ArgGiven, NoIdleWorkerWhileTasksWait, [Next]_vars,
                    WAt({"waiting"})' # {}
             PROVE  Len(queue') <= Coming' + Awake'
  BY DEF NoIdleWorkerWhileTasksWait, Coming, Awake
<1>1. CASE UNCHANGED vars
  <2>1. /\ queue' = queue /\ WAt({"waiting"})' = WAt({"waiting"})
        /\ Coming' = Coming /\ Awake' = Awake
    BY <1>1 DEF vars, WAt, CAt, Coming, Awake
  <2>2. Len(queue) <= Coming + Awake
    BY <2>1 DEF NoIdleWorkerWhileTasksWait, Coming, Awake
  <2> QED BY <2>1, <2>2
<1>2. CASE Next
  <2> DEFINE l == Len(queue')
             k == Coming'
             a == Awake'
  <2>1. k \in Nat /\ a \in Nat /\ Coming \in Nat /\ Awake \in Nat /\ Len(queue) \in Nat
    BY CountTypes, LenProperties DEF TypeOK
  <2>2. \/ queue' = <<>>
        \/ /\ WAt({"waiting"}) # {}
           /\ \/ l = Len(queue) /\ k = Coming /\ a = Awake
              \/ l = Len(queue) /\ k = Coming /\ a = Awake + 1
              \/ l = Len(queue) /\ k = Coming - 1 /\ a = Awake + 1
              \/ l = Len(queue) + 1 /\ k = Coming + 1 /\ a = Awake
              \/ l = Len(queue) - 1 /\ k = Coming /\ a = Awake - 1
    BY <1>2, SupplyStep
  <2>3. WAt({"waiting"}) # {} => Len(queue) <= Coming + Awake
    BY DEF NoIdleWorkerWhileTasksWait, Coming, Awake
  <2>4. queue' = <<>> => l = 0
    BY EmptySeq
  <2> HIDE DEF l, k, a
  <2>5. l <= k + a
    BY <2>1, <2>2, <2>3, <2>4
  <2> QED BY <2>5 DEF l, k, a
<1> QED BY <1>1, <1>2
-----------------------------------------------------------------------------
\* The inductive invariant holds in every reachable state.
LEMMA IInvAlways == Spec => []IInv
<1>1. IInv /\ [Next]_vars => IInv'
  BY TypeStep, MutexStep, ArgStep, PoolStep, PlaceStep, SupplyInv DEF IInv
<1> QED BY <1>1, InitIInv, PTL DEF Spec

\* Types of all variables, for any number of clients, workers and tasks.
THEOREM TypeCorrect == Spec => []TypeOK
BY IInvAlways, PTL DEF IInv

\* The mutex of the queue and the one of GetInstance each admit one thread.
THEOREM OneInside == Spec => []MutualExclusion
BY IInvAlways, PTL DEF IInv

\* The double check of GetInstance, unlocked first test and all, builds one
\* pool, and nobody reaches PushTask before it is built.
THEOREM OnePoolBuilt == Spec => []OnePool
<1>1. IInv => OnePool
  <2> SUFFICES ASSUME IInv PROVE OnePool
    OBVIOUS
  <2>1. ins => built = 1
    BY DEF IInv, PoolBuilt
  <2>2. built <= 1
    BY DEF IInv, PoolBuilt
  <2>3. queue # <<>> \/ CAt({"lock", "push", "unlock", "wakeup"}) # {} => ins
    BY DEF IInv, PoolBuilt, CAt
  <2> QED BY <2>1, <2>2, <2>3 DEF OnePool
<1> QED BY <1>1, IInvAlways, PTL

\* No task is run twice or lost between the places it passes through: it is in
\* at most one call, queue place or worker, or it was run, once.
THEOREM TaskHeldOnce == Spec => []TaskInOnePlace
<1>1. IInv => TaskInOnePlace
  BY OnePlaceCounted DEF IInv
<1> QED BY <1>1, IInvAlways, PTL

\* Signals sent after the unlock and lost when nobody waits never leave a
\* worker asleep while a task waits that nobody is on the way to.
THEOREM NoWorkerOverslept == Spec => []NoIdleWorkerWhileTasksWait
BY IInvAlways, PTL DEF IInv
=============================================================================
