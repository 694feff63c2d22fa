-------------------------- MODULE RingQueueMTProofs --------------------------
(***************************************************************************)
(* Proofs about RingQueueMT, for any finite sets of producers and          *)
(* consumers, every capacity and every set of values.                      *)
(***************************************************************************)
EXTENDS RingQueueMT, TLAPS, SequenceTheorems, FiniteSetTheorems

\* A position less than two rounds ahead of the start of the vector.
LEMMA ModCap ==
  ASSUME NEW x \in 0 .. 2*Cap-1
  PROVE  x % Cap = IF x < Cap THEN x ELSE x - Cap
<1>1. Cap \in Nat /\ Cap > 0
  BY CapAssumption
<1>2. CASE x < Cap
  BY <1>1, <1>2
<1>3. CASE x >= Cap
  <2> DEFINE k == x \div Cap
             r == x % Cap
  <2>1. k \in Int /\ r \in 0 .. Cap-1 /\ x = Cap*k + r
    BY <1>1
  <2> HIDE DEF k, r
  <2>2. k >= 1
    <3>1. k <= 0 => Cap*k <= 0
      BY <1>1, <2>1
    <3> QED BY <1>1, <1>3, <2>1, <3>1
  <2>3. k <= 1
    <3>1. k >= 2 => Cap*k >= Cap*2
      BY <1>1, <2>1
    <3> QED BY <1>1, <1>3, <2>1, <3>1
  <2>4. k = 1 /\ r = x - Cap
    BY <1>1, <2>1, <2>2, <2>3
  <2> QED BY <1>1, <1>3, <2>1, <2>4 DEF r
<1> QED BY <1>1, <1>2, <1>3

\* The index of the next slot, and that it is inside the vector.
LEMMA AdvanceStep ==
  ASSUME NEW s \in 0 .. Cap-1
  PROVE  /\ Advance(s) = (IF s = Cap-1 THEN 0 ELSE s + 1)
         /\ Advance(s) \in 0 .. Cap-1
<1>1. s + 1 \in 0 .. 2*Cap-1 /\ Cap \in Nat /\ Cap > 0
  BY CapAssumption
<1> QED BY <1>1, ModCap DEF Advance
-----------------------------------------------------------------------------
\* How many slots are claimed by a Push and not written, written and not
\* posted, granted to a Pop and not read, read and not posted.
Claimed == Cardinality(PAt({"lock", "write"}))
Filled  == Cardinality(PAt({"step", "unlock", "post"}))
Granted == Cardinality(CAt({"lock", "read"}))
Emptied == Cardinality(CAt({"step", "unlock", "post"}))

\* Each mutex is held between its lock and its unlock, by one thread.
MutexHeld ==
  /\ \A p \in Producers : ppc[p] \in {"write", "step", "unlock"} <=> p_mtx = p
  /\ \A c \in Consumers : cpc[c] \in {"read", "step", "unlock"} <=> c_mtx = c

\* Inside Push there is a value to push.
InputGiven == \A p \in Producers : ppc[p] # "idle" => in[p] \in Values

\* The values lie between the two indices: their distance is the number of
\* values, up to the rounds of the ring.
Written == IF PAt({"step"}) # {} THEN p_step + 1 ELSE p_step
Fetched == IF CAt({"step"}) # {} THEN c_step + 1 ELSE c_step
Distance == Written - Fetched - Count \in {0 - 2*Cap, 0 - Cap, 0, Cap}

\* The inductive invariant.
IInv == TypeOK /\ MutexHeld /\ InputGiven /\ SlotsAccountedFor /\ Distance

\* The four numbers are numbers, before and after a step.
LEMMA CountTypes ==
  /\ Claimed \in Nat /\ Filled \in Nat /\ Granted \in Nat /\ Emptied \in Nat
  /\ Claimed' \in Nat /\ Filled' \in Nat /\ Granted' \in Nat /\ Emptied' \in Nat
<1>1. ASSUME NEW f, NEW S
      PROVE  /\ Cardinality({t \in Producers : f[t] \in S}) \in Nat
             /\ Cardinality({t \in Consumers : f[t] \in S}) \in Nat
  BY FiniteAssumption, FS_Subset, FS_CardinalityType
<1> QED BY <1>1 DEF Claimed, Filled, Granted, Emptied, PAt, CAt

LEMMA CountNat == (data \in Nat => Count \in Nat) /\ (data' \in Nat => Count' \in Nat)
BY CountTypes DEF Count, Filled, Granted

\* The invariant in terms of the four numbers, before and after a step.
LEMMA Numbers ==
  /\ Count = data + Filled + Granted
  /\ SlotsAccountedFor <=> blank + Claimed + Count + Emptied = Cap
  /\ Count' = data' + Filled' + Granted'
  /\ SlotsAccountedFor' <=> blank' + Claimed' + Count' + Emptied' = Cap
BY DEF Count, SlotsAccountedFor, Claimed, Filled, Granted, Emptied

\* How a step of a producer changes the sets of threads at some steps.
LEMMA PMoves ==
  ASSUME TypeOK, NEW p \in Producers, NEW to, PGoto(p, to), NEW S
  PROVE  Cardinality(PAt(S)') =
           Cardinality(PAt(S)) + (IF to \in S THEN 1 ELSE 0) - (IF ppc[p] \in S THEN 1 ELSE 0)
<1>1. IsFiniteSet(PAt(S)) /\ Cardinality(PAt(S)) \in Nat
  BY FiniteAssumption, FS_Subset, FS_CardinalityType DEF PAt
<1>2. \A t \in Producers : ppc'[t] = IF t = p THEN to ELSE ppc[t]
  BY DEF PGoto, TypeOK
<1>3. CASE to \in S /\ ppc[p] \notin S
  <2>1. PAt(S)' = PAt(S) \cup {p} /\ p \notin PAt(S)
    BY <1>2, <1>3 DEF PAt
  <2> QED BY <1>1, <1>3, <2>1, FS_AddElement
<1>4. CASE to \notin S /\ ppc[p] \in S
  <2>1. PAt(S)' = PAt(S) \ {p} /\ p \in PAt(S)
    BY <1>2, <1>4 DEF PAt
  <2>2. Cardinality(PAt(S)') = Cardinality(PAt(S)) - 1
    BY <1>1, <2>1, FS_RemoveElement
  <2> QED BY <1>1, <1>4, <2>2
<1>5. CASE (to \in S <=> ppc[p] \in S)
  <2>1. PAt(S)' = PAt(S)
    BY <1>2, <1>5 DEF PAt
  <2> QED BY <1>1, <1>5, <2>1
<1> QED BY <1>3, <1>4, <1>5

LEMMA PCounts ==
  ASSUME TypeOK, NEW p \in Producers, NEW to, PGoto(p, to)
  PROVE  /\ Claimed' = Claimed + (IF to \in {"lock", "write"} THEN 1 ELSE 0)
                              - (IF ppc[p] \in {"lock", "write"} THEN 1 ELSE 0)
         /\ Filled' = Filled + (IF to \in {"step", "unlock", "post"} THEN 1 ELSE 0)
                            - (IF ppc[p] \in {"step", "unlock", "post"} THEN 1 ELSE 0)
BY PMoves DEF Claimed, Filled

\* How a step of a consumer changes the sets of threads at some steps.
LEMMA CMoves ==
  ASSUME TypeOK, NEW c \in Consumers, NEW to, CGoto(c, to), NEW S
  PROVE  Cardinality(CAt(S)') =
           Cardinality(CAt(S)) + (IF to \in S THEN 1 ELSE 0) - (IF cpc[c] \in S THEN 1 ELSE 0)
<1>1. IsFiniteSet(CAt(S)) /\ Cardinality(CAt(S)) \in Nat
  BY FiniteAssumption, FS_Subset, FS_CardinalityType DEF CAt
<1>2. \A t \in Consumers : cpc'[t] = IF t = c THEN to ELSE cpc[t]
  BY DEF CGoto, TypeOK
<1>3. CASE to \in S /\ cpc[c] \notin S
  <2>1. CAt(S)' = CAt(S) \cup {c} /\ c \notin CAt(S)
    BY <1>2, <1>3 DEF CAt
  <2> QED BY <1>1, <1>3, <2>1, FS_AddElement
<1>4. CASE to \notin S /\ cpc[c] \in S
  <2>1. CAt(S)' = CAt(S) \ {c} /\ c \in CAt(S)
    BY <1>2, <1>4 DEF CAt
  <2>2. Cardinality(CAt(S)') = Cardinality(CAt(S)) - 1
    BY <1>1, <2>1, FS_RemoveElement
  <2> QED BY <1>1, <1>4, <2>2
<1>5. CASE (to \in S <=> cpc[c] \in S)
  <2>1. CAt(S)' = CAt(S)
    BY <1>2, <1>5 DEF CAt
  <2> QED BY <1>1, <1>5, <2>1
<1> QED BY <1>3, <1>4, <1>5

LEMMA CCounts ==
  ASSUME TypeOK, NEW c \in Consumers, NEW to, CGoto(c, to)
  PROVE  /\ Granted' = Granted + (IF to \in {"lock", "read"} THEN 1 ELSE 0)
                              - (IF cpc[c] \in {"lock", "read"} THEN 1 ELSE 0)
         /\ Emptied' = Emptied + (IF to \in {"step", "unlock", "post"} THEN 1 ELSE 0)
                            - (IF cpc[c] \in {"step", "unlock", "post"} THEN 1 ELSE 0)
BY CMoves DEF Granted, Emptied
-----------------------------------------------------------------------------
\* What the steps of Push do to the numbers: only the semaphore operations and
\* the write move a slot from one to another.
LEMMA PushNumbers ==
  ASSUME TypeOK, NEW p \in Producers
  PROVE  /\ (\E v \in Values : PushCall(p, v)) \/ PushLock(p) \/ PushStep(p) \/ PushUnlock(p) =>
              blank' = blank /\ data' = data /\ Claimed' = Claimed /\ Filled' = Filled
         /\ PushWait(p) =>
              blank' = blank - 1 /\ data' = data /\ Claimed' = Claimed + 1 /\ Filled' = Filled
         /\ PushWrite(p) =>
              blank' = blank /\ data' = data /\ Claimed' = Claimed - 1 /\ Filled' = Filled + 1
         /\ PushPost(p) =>
              blank' = blank /\ data' = data + 1 /\ Claimed' = Claimed /\ Filled' = Filled - 1
<1>0. TypeOK /\ Claimed \in Nat /\ Filled \in Nat
  BY CountTypes
<1>1. ASSUME NEW v \in Values, PushCall(p, v)
      PROVE  blank' = blank /\ data' = data /\ Claimed' = Claimed /\ Filled' = Filled
  BY <1>0, <1>1, PCounts DEF PushCall
<1>2. ASSUME PushLock(p)
      PROVE  blank' = blank /\ data' = data /\ Claimed' = Claimed /\ Filled' = Filled
  BY <1>0, <1>2, PCounts DEF PushLock
<1>3. ASSUME PushStep(p)
      PROVE  blank' = blank /\ data' = data /\ Claimed' = Claimed /\ Filled' = Filled
  BY <1>0, <1>3, PCounts DEF PushStep
<1>4. ASSUME PushUnlock(p)
      PROVE  blank' = blank /\ data' = data /\ Claimed' = Claimed /\ Filled' = Filled
  BY <1>0, <1>4, PCounts DEF PushUnlock
<1>5. ASSUME PushWait(p)
      PROVE  blank' = blank - 1 /\ data' = data /\ Claimed' = Claimed + 1 /\ Filled' = Filled
  BY <1>0, <1>5, PCounts DEF PushWait
<1>6. ASSUME PushWrite(p)
      PROVE  blank' = blank /\ data' = data /\ Claimed' = Claimed - 1 /\ Filled' = Filled + 1
  BY <1>0, <1>6, PCounts DEF PushWrite
<1>7. ASSUME PushPost(p)
      PROVE  blank' = blank /\ data' = data + 1 /\ Claimed' = Claimed /\ Filled' = Filled - 1
  BY <1>0, <1>7, PCounts DEF PushPost
<1> QED BY <1>1, <1>2, <1>3, <1>4, <1>5, <1>6, <1>7

\* What the steps of Pop do to the numbers.
LEMMA PopNumbers ==
  ASSUME TypeOK, NEW c \in Consumers
  PROVE  /\ PopCall(c) \/ PopLock(c) \/ PopStep(c) \/ PopUnlock(c) =>
              blank' = blank /\ data' = data /\ Granted' = Granted /\ Emptied' = Emptied
         /\ PopWait(c) =>
              blank' = blank /\ data' = data - 1 /\ Granted' = Granted + 1 /\ Emptied' = Emptied
         /\ PopRead(c) =>
              blank' = blank /\ data' = data /\ Granted' = Granted - 1 /\ Emptied' = Emptied + 1
         /\ PopPost(c) =>
              blank' = blank + 1 /\ data' = data /\ Granted' = Granted /\ Emptied' = Emptied - 1
<1>0. TypeOK /\ Granted \in Nat /\ Emptied \in Nat
  BY CountTypes
<1>1. ASSUME PopCall(c)
      PROVE  blank' = blank /\ data' = data /\ Granted' = Granted /\ Emptied' = Emptied
  BY <1>0, <1>1, CCounts DEF PopCall
<1>2. ASSUME PopLock(c)
      PROVE  blank' = blank /\ data' = data /\ Granted' = Granted /\ Emptied' = Emptied
  BY <1>0, <1>2, CCounts DEF PopLock
<1>3. ASSUME PopStep(c)
      PROVE  blank' = blank /\ data' = data /\ Granted' = Granted /\ Emptied' = Emptied
  BY <1>0, <1>3, CCounts DEF PopStep
<1>4. ASSUME PopUnlock(c)
      PROVE  blank' = blank /\ data' = data /\ Granted' = Granted /\ Emptied' = Emptied
  BY <1>0, <1>4, CCounts DEF PopUnlock
<1>5. ASSUME PopWait(c)
      PROVE  blank' = blank /\ data' = data - 1 /\ Granted' = Granted + 1 /\ Emptied' = Emptied
  BY <1>0, <1>5, CCounts DEF PopWait
<1>6. ASSUME PopRead(c)
      PROVE  blank' = blank /\ data' = data /\ Granted' = Granted - 1 /\ Emptied' = Emptied + 1
  BY <1>0, <1>6, CCounts DEF PopRead
<1>7. ASSUME PopPost(c)
      PROVE  blank' = blank + 1 /\ data' = data /\ Granted' = Granted /\ Emptied' = Emptied - 1
  BY <1>0, <1>7, CCounts DEF PopPost
<1> QED BY <1>1, <1>2, <1>3, <1>4, <1>5, <1>6, <1>7

\* Push leaves everything of the consumers alone, and Pop everything of the
\* producers.
LEMMA PushKeeps ==
  ASSUME NEW p \in Producers, Push(p) \/ \E v \in Values : PushCall(p, v)
  PROVE  /\ c_step' = c_step /\ c_mtx' = c_mtx /\ cpc' = cpc /\ out' = out
         /\ Granted' = Granted /\ Emptied' = Emptied /\ Fetched' = Fetched
         /\ CAt({"step"})' = CAt({"step"})
<1>1. c_step' = c_step /\ c_mtx' = c_mtx /\ cpc' = cpc /\ out' = out
  BY DEF Push, PushCall, PushWait, PushLock, PushWrite, PushStep, PushUnlock, PushPost, cvars
<1> QED BY <1>1 DEF Granted, Emptied, Fetched, CAt

LEMMA PopKeeps ==
  ASSUME NEW c \in Consumers, Pop(c) \/ PopCall(c)
  PROVE  /\ p_step' = p_step /\ p_mtx' = p_mtx /\ ppc' = ppc /\ in' = in /\ ring' = ring
         /\ Claimed' = Claimed /\ Filled' = Filled /\ Written' = Written
<1>1. p_step' = p_step /\ p_mtx' = p_mtx /\ ppc' = ppc /\ in' = in /\ ring' = ring
  BY DEF Pop, PopCall, PopWait, PopLock, PopRead, PopStep, PopUnlock, PopPost, pvars
<1> QED BY <1>1 DEF Claimed, Filled, Written, PAt

\* Where the indices are: the write and the update of p_step_ belong together.
LEMMA PushIndex ==
  ASSUME TypeOK, MutexHeld, NEW p \in Producers, Push(p) \/ \E v \in Values : PushCall(p, v)
  PROVE  /\ PushWrite(p) => Written = p_step /\ Written' = p_step + 1
         /\ PushStep(p) => /\ Written = p_step + 1 /\ Written' = p_step'
                           /\ p_step' = IF p_step = Cap-1 THEN 0 ELSE p_step + 1
         /\ ~ PushWrite(p) /\ ~ PushStep(p) => Written' = Written
         /\ p_step' \in 0 .. Cap-1
<1>1. \A t \in Producers : t # p => ppc'[t] = ppc[t]
  BY DEF Push, PushCall, PushWait, PushLock, PushWrite, PushStep, PushUnlock, PushPost, PGoto, TypeOK
<1>2. ASSUME PushWrite(p)
      PROVE  Written = p_step /\ Written' = p_step + 1 /\ p_step' = p_step
  <2>1. PAt({"step"}) = {}
    BY <1>2 DEF PushWrite, MutexHeld, PAt
  <2>2. p \in PAt({"step"})'
    BY <1>2 DEF PushWrite, PGoto, PAt, TypeOK
  <2> QED BY <1>2, <2>1, <2>2 DEF Written, PushWrite
<1>3. ASSUME PushStep(p)
      PROVE  /\ Written = p_step + 1 /\ Written' = p_step'
             /\ p_step' = IF p_step = Cap-1 THEN 0 ELSE p_step + 1
             /\ p_step' \in 0 .. Cap-1
  <2>1. p \in PAt({"step"})
    BY <1>3 DEF PushStep, PAt
  <2>2. \A t \in Producers : ppc'[t] # "step"
    BY <1>1, <1>3 DEF PushStep, PGoto, MutexHeld, TypeOK
  <2>3. PAt({"step"})' = {}
    BY <2>2 DEF PAt
  <2>4. p_step \in 0 .. Cap-1 /\ p_step' = Advance(p_step)
    BY <1>3 DEF PushStep, TypeOK
  <2> QED BY <2>1, <2>3, <2>4, AdvanceStep DEF Written
<1>4. ASSUME ~ PushWrite(p), ~ PushStep(p) PROVE Written' = Written /\ p_step' = p_step
  <2>1. p_step' = p_step /\ \A t \in Producers : ppc'[t] = "step" <=> ppc[t] = "step"
    BY <1>1, <1>4 DEF Push, PushCall, PushWait, PushLock, PushUnlock, PushPost, PGoto, TypeOK
  <2> QED BY <2>1 DEF Written, PAt
<1> QED BY <1>2, <1>3, <1>4 DEF TypeOK

LEMMA PopIndex ==
  ASSUME TypeOK, MutexHeld, NEW c \in Consumers, Pop(c) \/ PopCall(c)
  PROVE  /\ PopRead(c) => /\ Fetched = c_step /\ Fetched' = c_step + 1 /\ c_step' = c_step
                          /\ CAt({"step"}) = {} /\ CAt({"step"})' # {}
         /\ PopStep(c) => /\ Fetched = c_step + 1 /\ Fetched' = c_step'
                          /\ c_step' = (IF c_step = Cap-1 THEN 0 ELSE c_step + 1)
                          /\ CAt({"step"}) # {} /\ CAt({"step"})' = {}
         /\ ~ PopRead(c) /\ ~ PopStep(c) =>
              Fetched' = Fetched /\ c_step' = c_step /\ CAt({"step"})' = CAt({"step"})
         /\ c_step' \in 0 .. Cap-1
<1>1. \A t \in Consumers : t # c => cpc'[t] = cpc[t]
  BY DEF Pop, PopCall, PopWait, PopLock, PopRead, PopStep, PopUnlock, PopPost, CGoto, TypeOK
<1>2. ASSUME PopRead(c)
      PROVE  /\ Fetched = c_step /\ Fetched' = c_step + 1 /\ c_step' = c_step
             /\ CAt({"step"}) = {} /\ CAt({"step"})' # {}
  <2>1. CAt({"step"}) = {}
    BY <1>2 DEF PopRead, MutexHeld, CAt
  <2>2. c \in CAt({"step"})'
    BY <1>2 DEF PopRead, CGoto, CAt, TypeOK
  <2> QED BY <1>2, <2>1, <2>2 DEF Fetched, PopRead
<1>3. ASSUME PopStep(c)
      PROVE  /\ Fetched = c_step + 1 /\ Fetched' = c_step'
             /\ c_step' = (IF c_step = Cap-1 THEN 0 ELSE c_step + 1)
             /\ CAt({"step"}) # {} /\ CAt({"step"})' = {}
             /\ c_step' \in 0 .. Cap-1
  <2>1. c \in CAt({"step"})
    BY <1>3 DEF PopStep, CAt
  <2>2. \A t \in Consumers : cpc'[t] # "step"
    BY <1>1, <1>3 DEF PopStep, CGoto, MutexHeld, TypeOK
  <2>3. CAt({"step"})' = {}
    BY <2>2 DEF CAt
  <2>4. c_step \in 0 .. Cap-1 /\ c_step' = Advance(c_step)
    BY <1>3 DEF PopStep, TypeOK
  <2> QED BY <2>1, <2>3, <2>4, AdvanceStep DEF Fetched
<1>4. ASSUME ~ PopRead(c), ~ PopStep(c)
      PROVE  Fetched' = Fetched /\ c_step' = c_step /\ CAt({"step"})' = CAt({"step"})
  <2>1. c_step' = c_step /\ \A t \in Consumers : cpc'[t] = "step" <=> cpc[t] = "step"
    BY <1>1, <1>4 DEF Pop, PopCall, PopWait, PopLock, PopUnlock, PopPost, CGoto, TypeOK
  <2> QED BY <2>1 DEF Fetched, CAt
<1> QED BY <1>2, <1>3, <1>4 DEF TypeOK
-----------------------------------------------------------------------------
\* The start satisfies the inductive invariant.
LEMMA InitIInv == Init => IInv
<1> SUFFICES ASSUME Init PROVE IInv
  OBVIOUS
<1>1. Cap \in Nat /\ Cap > 0
  BY CapAssumption
<1>2. \A S : "idle" \notin S => PAt(S) = {} /\ CAt(S) = {}
  BY DEF Init, PAt, CAt
<1>3. Claimed = 0 /\ Filled = 0 /\ Granted = 0 /\ Emptied = 0
  BY <1>2, FS_EmptySet DEF Claimed, Filled, Granted, Emptied
<1>4. Count = 0
  BY <1>3, Numbers DEF Init
<1>5. Written = 0 /\ Fetched = 0
  BY <1>2 DEF Init, Written, Fetched
<1>6. TypeOK
  BY <1>1 DEF Init, TypeOK
<1>7. MutexHeld
  BY NoneAssumption DEF Init, MutexHeld
<1>8. InputGiven
  BY DEF Init, InputGiven
<1>9. SlotsAccountedFor
  BY <1>1, <1>3, <1>4, Numbers DEF Init
<1>10. Distance
  BY <1>1, <1>4, <1>5 DEF Distance
<1> QED BY <1>6, <1>7, <1>8, <1>9, <1>10 DEF IInv

\* How a step of Push changes the number of values; every slot stays counted
\* once.
LEMMA PushSlots ==
  ASSUME IInv, NEW p \in Producers, Push(p) \/ \E v \in Values : PushCall(p, v)
  PROVE  /\ SlotsAccountedFor' /\ blank' \in 0 .. Cap /\ data' \in 0 .. Cap
         /\ Count \in 0 .. Cap /\ Count' \in 0 .. Cap
         /\ PushWrite(p) => Count' = Count + 1
         /\ ~ PushWrite(p) => Count' = Count
<1>0. /\ TypeOK /\ MutexHeld /\ InputGiven /\ SlotsAccountedFor /\ Distance
      /\ Cap \in Nat /\ Cap > 0 /\ blank \in Nat /\ data \in Nat
      /\ Claimed \in Nat /\ Filled \in Nat /\ Granted \in Nat /\ Emptied \in Nat
      /\ Claimed' \in Nat /\ Filled' \in Nat /\ Granted' \in Nat /\ Emptied' \in Nat
      /\ p_step \in 0 .. Cap-1 /\ c_step \in 0 .. Cap-1 /\ Fetched \in 0 .. Cap /\ Written \in 0 .. Cap
  BY CapAssumption, CountTypes DEF IInv, TypeOK, Fetched, Written
<1>1. /\ c_step' = c_step /\ c_mtx' = c_mtx /\ cpc' = cpc /\ out' = out
      /\ Granted' = Granted /\ Emptied' = Emptied /\ Fetched' = Fetched
  BY PushKeeps
<1>2. /\ blank' \in Nat /\ data' \in Nat
      /\ blank' + Claimed' + data' + Filled' = blank + Claimed + data + Filled
      /\ PushWrite(p) => data' + Filled' = data + Filled + 1
      /\ ~ PushWrite(p) => data' + Filled' = data + Filled
  <2>1. PushWait(p) => blank > 0
    BY DEF PushWait
  <2> QED BY <1>0, <2>1, PushNumbers DEF Push
<1> DEFINE b == blank'
           d == data'
           j == Claimed'
           k == Filled'
           n == Count'
<1>3. Count = data + Filled + Granted /\ n = d + k + Granted
  BY <1>1, Numbers
<1>4. blank + Claimed + Count + Emptied = Cap
  BY <1>0, Numbers
<1>5. SlotsAccountedFor' <=> b + j + n + Emptied = Cap
  BY <1>1, Numbers
<1>6. /\ b \in Nat /\ d \in Nat /\ j \in Nat /\ k \in Nat
      /\ b + j + d + k = blank + Claimed + data + Filled
      /\ PushWrite(p) => d + k = data + Filled + 1
      /\ ~ PushWrite(p) => d + k = data + Filled
  BY <1>0, <1>2
<1>7. Count \in Nat /\ n \in Nat
  BY <1>0, <1>2, CountNat
<1> HIDE DEF b, d, j, k, n
<1>8. /\ PushWrite(p) => n = Count + 1
      /\ ~ PushWrite(p) => n = Count
      /\ b + j + n + Emptied = Cap
  BY <1>0, <1>3, <1>4, <1>6, <1>7
<1>9. b \in 0 .. Cap /\ d \in 0 .. Cap /\ Count \in 0 .. Cap /\ n \in 0 .. Cap
  BY <1>0, <1>3, <1>4, <1>6, <1>7, <1>8
<1> QED BY <1>5, <1>8, <1>9 DEF b, d, n

\* A step of Push preserves the inductive invariant.
LEMMA PushStepIInv ==
  ASSUME IInv, NEW p \in Producers, Push(p) \/ \E v \in Values : PushCall(p, v)
  PROVE  IInv'
<1>0. /\ TypeOK /\ MutexHeld /\ InputGiven /\ SlotsAccountedFor /\ Distance
      /\ Cap \in Nat /\ Cap > 0 /\ blank \in Nat /\ data \in Nat
      /\ Claimed \in Nat /\ Filled \in Nat /\ Granted \in Nat /\ Emptied \in Nat
      /\ Claimed' \in Nat /\ Filled' \in Nat /\ Granted' \in Nat /\ Emptied' \in Nat
      /\ p_step \in 0 .. Cap-1 /\ c_step \in 0 .. Cap-1 /\ Fetched \in 0 .. Cap /\ Written \in 0 .. Cap
  BY CapAssumption, CountTypes DEF IInv, TypeOK, Fetched, Written
<1>1. /\ c_step' = c_step /\ c_mtx' = c_mtx /\ cpc' = cpc /\ out' = out
      /\ Granted' = Granted /\ Emptied' = Emptied /\ Fetched' = Fetched
  BY PushKeeps
<1>3. /\ SlotsAccountedFor' /\ blank' \in 0 .. Cap /\ data' \in 0 .. Cap
      /\ Count \in 0 .. Cap /\ Count' \in 0 .. Cap
      /\ PushWrite(p) => Count' = Count + 1
      /\ ~ PushWrite(p) => Count' = Count
  BY PushSlots
<1>4. Distance'
  <2>1. p_step' \in 0 .. Cap-1
    BY <1>0, PushIndex
  <2>2. CASE PushWrite(p)
    BY <1>0, <1>1, <1>3, <2>2, PushIndex DEF Distance
  <2>3. CASE PushStep(p)
    <3>1. ~ PushWrite(p)
      BY <2>3 DEF PushStep, PushWrite
    <3>2. /\ Written = p_step + 1 /\ Written' = p_step'
          /\ p_step' = IF p_step = Cap-1 THEN 0 ELSE p_step + 1
      BY <1>0, <2>3, PushIndex
    <3> QED BY <1>0, <1>1, <1>3, <3>1, <3>2 DEF Distance
  <2>4. CASE ~ PushWrite(p) /\ ~ PushStep(p)
    BY <1>0, <1>1, <1>3, <2>4, PushIndex DEF Distance
  <2> QED BY <2>2, <2>3, <2>4
<1>5. MutexHeld'
  <2>1. /\ ppc \in [Producers -> {"idle", "wait", "lock", "write", "step", "unlock", "post"}]
        /\ \A t \in Producers : t # None
        /\ \A t \in Producers : ppc[t] \in {"write", "step", "unlock"} <=> p_mtx = t
    BY <1>0, NoneAssumption DEF TypeOK, MutexHeld
  <2>2. \A t \in Producers : ppc'[t] \in {"write", "step", "unlock"} <=> p_mtx' = t
    BY <2>1 DEF Push, PushCall, PushWait, PushLock, PushWrite, PushStep, PushUnlock, PushPost, PGoto
  <2> QED BY <1>0, <1>1, <2>2 DEF MutexHeld
<1>6. InputGiven'
  BY <1>0 DEF InputGiven, TypeOK, Push, PushCall, PushWait, PushLock, PushWrite, PushStep,
              PushUnlock, PushPost, PGoto
<1>7. TypeOK'
  <2>1. ring' \in [0 .. Cap-1 -> Values \cup {None}]
    BY <1>0 DEF TypeOK, Push, PushCall, PushWait, PushLock, PushWrite, PushStep, PushUnlock, PushPost
  <2>2. ppc' \in [Producers -> {"idle", "wait", "lock", "write", "step", "unlock", "post"}]
    BY <1>0 DEF TypeOK, Push, PushCall, PushWait, PushLock, PushWrite, PushStep, PushUnlock, PushPost, PGoto
  <2>3. p_mtx' \in Producers \cup {None} /\ in' \in [Producers -> Values \cup {None}]
    BY <1>0 DEF TypeOK, Push, PushCall, PushWait, PushLock, PushWrite, PushStep, PushUnlock, PushPost
  <2>4. p_step' \in 0 .. Cap-1
    BY <1>0, PushIndex
  <2> QED BY <1>0, <1>1, <1>3, <2>1, <2>2, <2>3, <2>4 DEF TypeOK
<1> QED BY <1>3, <1>4, <1>5, <1>6, <1>7 DEF IInv

\* How a step of Pop changes the number of values; every slot stays counted
\* once.
LEMMA PopSlots ==
  ASSUME IInv, NEW c \in Consumers, Pop(c) \/ PopCall(c)
  PROVE  /\ SlotsAccountedFor' /\ blank' \in 0 .. Cap /\ data' \in 0 .. Cap
         /\ Count \in 0 .. Cap /\ Count' \in 0 .. Cap
         /\ PopRead(c) => Count' = Count - 1
         /\ ~ PopRead(c) => Count' = Count
<1>0. /\ TypeOK /\ MutexHeld /\ InputGiven /\ SlotsAccountedFor /\ Distance
      /\ Cap \in Nat /\ Cap > 0 /\ blank \in Nat /\ data \in Nat
      /\ Claimed \in Nat /\ Filled \in Nat /\ Granted \in Nat /\ Emptied \in Nat
      /\ Claimed' \in Nat /\ Filled' \in Nat /\ Granted' \in Nat /\ Emptied' \in Nat
      /\ p_step \in 0 .. Cap-1 /\ c_step \in 0 .. Cap-1 /\ Fetched \in 0 .. Cap /\ Written \in 0 .. Cap
  BY CapAssumption, CountTypes DEF IInv, TypeOK, Fetched, Written
<1>1. /\ p_step' = p_step /\ p_mtx' = p_mtx /\ ppc' = ppc /\ in' = in /\ ring' = ring
      /\ Claimed' = Claimed /\ Filled' = Filled /\ Written' = Written
  BY PopKeeps
<1>2. /\ blank' \in Nat /\ data' \in Nat
      /\ blank' + data' + Granted' + Emptied' = blank + data + Granted + Emptied
      /\ PopRead(c) => data' + Granted' = data + Granted - 1
      /\ ~ PopRead(c) => data' + Granted' = data + Granted
  <2>1. PopWait(c) => data > 0
    BY DEF PopWait
  <2> QED BY <1>0, <2>1, PopNumbers DEF Pop
<1> DEFINE b == blank'
           d == data'
           j == Granted'
           k == Emptied'
           n == Count'
<1>3. Count = data + Filled + Granted /\ n = d + Filled + j
  BY <1>1, Numbers
<1>4. blank + Claimed + Count + Emptied = Cap
  BY <1>0, Numbers
<1>5. SlotsAccountedFor' <=> b + Claimed + n + k = Cap
  BY <1>1, Numbers
<1>6. /\ b \in Nat /\ d \in Nat /\ j \in Nat /\ k \in Nat
      /\ b + d + j + k = blank + data + Granted + Emptied
      /\ PopRead(c) => d + j = data + Granted - 1
      /\ ~ PopRead(c) => d + j = data + Granted
  BY <1>0, <1>2
<1>7. Count \in Nat /\ n \in Nat
  BY <1>0, <1>2, CountNat
<1> HIDE DEF b, d, j, k, n
<1>8. /\ PopRead(c) => n = Count - 1
      /\ ~ PopRead(c) => n = Count
      /\ b + Claimed + n + k = Cap
  BY <1>0, <1>3, <1>4, <1>6, <1>7
<1>9. b \in 0 .. Cap /\ d \in 0 .. Cap /\ Count \in 0 .. Cap /\ n \in 0 .. Cap
  BY <1>0, <1>3, <1>4, <1>6, <1>7, <1>8
<1> QED BY <1>5, <1>8, <1>9 DEF b, d, n

\* A step of Pop preserves the inductive invariant.
LEMMA PopStepIInv ==
  ASSUME IInv, NEW c \in Consumers, Pop(c) \/ PopCall(c)
  PROVE  IInv'
<1>0. /\ TypeOK /\ MutexHeld /\ InputGiven /\ SlotsAccountedFor /\ Distance
      /\ Cap \in Nat /\ Cap > 0 /\ blank \in Nat /\ data \in Nat
      /\ Claimed \in Nat /\ Filled \in Nat /\ Granted \in Nat /\ Emptied \in Nat
      /\ Claimed' \in Nat /\ Filled' \in Nat /\ Granted' \in Nat /\ Emptied' \in Nat
      /\ p_step \in 0 .. Cap-1 /\ c_step \in 0 .. Cap-1 /\ Fetched \in 0 .. Cap /\ Written \in 0 .. Cap
  BY CapAssumption, CountTypes DEF IInv, TypeOK, Fetched, Written
<1>1. /\ p_step' = p_step /\ p_mtx' = p_mtx /\ ppc' = ppc /\ in' = in /\ ring' = ring
      /\ Claimed' = Claimed /\ Filled' = Filled /\ Written' = Written
  BY PopKeeps
<1>3. /\ SlotsAccountedFor' /\ blank' \in 0 .. Cap /\ data' \in 0 .. Cap
      /\ Count \in 0 .. Cap /\ Count' \in 0 .. Cap
      /\ PopRead(c) => Count' = Count - 1
      /\ ~ PopRead(c) => Count' = Count
  BY PopSlots
<1>4. Distance'
  <2>1. c_step' \in 0 .. Cap-1
    BY <1>0, PopIndex
  <2>2. CASE PopRead(c)
    BY <1>0, <1>1, <1>3, <2>2, PopIndex DEF Distance
  <2>3. CASE PopStep(c)
    <3>1. ~ PopRead(c)
      BY <2>3 DEF PopStep, PopRead
    <3>2. /\ Fetched = c_step + 1 /\ Fetched' = c_step'
          /\ c_step' = IF c_step = Cap-1 THEN 0 ELSE c_step + 1
      BY <1>0, <2>3, PopIndex
    <3> QED BY <1>0, <1>1, <1>3, <3>1, <3>2 DEF Distance
  <2>4. CASE ~ PopRead(c) /\ ~ PopStep(c)
    BY <1>0, <1>1, <1>3, <2>4, PopIndex DEF Distance
  <2> QED BY <2>2, <2>3, <2>4
<1>5. MutexHeld'
  <2>1. /\ cpc \in [Consumers -> {"idle", "wait", "lock", "read", "step", "unlock", "post"}]
        /\ \A t \in Consumers : t # None
        /\ \A t \in Consumers : cpc[t] \in {"read", "step", "unlock"} <=> c_mtx = t
    BY <1>0, NoneAssumption DEF TypeOK, MutexHeld
  <2>2. \A t \in Consumers : cpc'[t] \in {"read", "step", "unlock"} <=> c_mtx' = t
    BY <2>1 DEF Pop, PopCall, PopWait, PopLock, PopRead, PopStep, PopUnlock, PopPost, CGoto
  <2> QED BY <1>0, <1>1, <2>2 DEF MutexHeld
<1>6. InputGiven'
  BY <1>0, <1>1 DEF InputGiven
<1>7. TypeOK'
  <2>1. cpc' \in [Consumers -> {"idle", "wait", "lock", "read", "step", "unlock", "post"}]
    BY <1>0 DEF TypeOK, Pop, PopCall, PopWait, PopLock, PopRead, PopStep, PopUnlock, PopPost, CGoto
  <2>2. c_mtx' \in Consumers \cup {None} /\ out' \in [Consumers -> Values \cup {None}]
    BY <1>0 DEF TypeOK, Pop, PopCall, PopWait, PopLock, PopRead, PopStep, PopUnlock, PopPost
  <2>3. c_step' \in 0 .. Cap-1
    BY <1>0, PopIndex
  <2> QED BY <1>0, <1>1, <1>3, <2>1, <2>2, <2>3 DEF TypeOK
<1> QED BY <1>3, <1>4, <1>5, <1>6, <1>7 DEF IInv

\* The inductive invariant holds in every reachable state.
LEMMA IInvAlways == Spec => []IInv
<1>1. ASSUME IInv, UNCHANGED vars PROVE IInv'
  <2>1. ASSUME NEW S PROVE PAt(S)' = PAt(S) /\ CAt(S)' = CAt(S)
    BY <1>1 DEF vars, pvars, cvars, PAt, CAt
  <2>2. SlotsAccountedFor' /\ Distance'
    BY <1>1, <2>1 DEF IInv, vars, pvars, cvars, SlotsAccountedFor, Distance, Count, Written, Fetched
  <2> QED BY <1>1, <2>2 DEF IInv, vars, pvars, cvars, TypeOK, MutexHeld, InputGiven
<1>2. IInv /\ [Next]_vars => IInv'
  BY <1>1, PushStepIInv, PopStepIInv DEF Next
<1> QED BY <1>2, InitIInv, PTL DEF Spec

\* Types: whatever the number of threads, no index leaves the vector and no
\* semaphore exceeds Cap.
THEOREM TypeCorrect == Spec => []TypeOK
BY IInvAlways, PTL DEF IInv

\* Every slot is counted once: blank, claimed, filled, or read and not posted.
THEOREM NoSlotGivenTwice == Spec => []SlotsAccountedFor
BY IInvAlways, PTL DEF IInv

\* Between the semaphores no slot is written while it is read, although the
\* producers and the consumers hold different mutexes.
THEOREM NoSlotShared == Spec => []SlotExclusive
<1>1. IInv => SlotExclusive
  <2> SUFFICES ASSUME IInv, NEW p \in Producers, ppc[p] = "write",
                      NEW c \in Consumers, cpc[c] = "read", p_step = c_step
               PROVE  FALSE
    BY DEF SlotExclusive, PAt, CAt
  <2>1. ASSUME NEW S PROVE IsFiniteSet(PAt(S)) /\ IsFiniteSet(CAt(S))
    BY FiniteAssumption, FS_Subset DEF PAt, CAt
  <2>2. p \in PAt({"lock", "write"}) /\ c \in CAt({"lock", "read"})
    BY DEF PAt, CAt
  <2>3. Claimed > 0 /\ Granted > 0
    BY <2>1, <2>2, FS_EmptySet, CountTypes DEF Claimed, Granted
  <2>4. Count \in 1 .. Cap-1
    BY <2>3, CapAssumption, CountTypes, Numbers DEF IInv, TypeOK
  <2>5. Written = p_step /\ Fetched = c_step
    BY DEF IInv, MutexHeld, Written, Fetched, PAt, CAt
  <2>6. 0 - Count \in {0 - 2*Cap, 0 - Cap, 0, Cap}
    BY <2>4, <2>5, CapAssumption DEF IInv, TypeOK, Distance
  <2> QED BY <2>4, <2>6, CapAssumption
<1>2. QED BY <1>1, IInvAlways, PTL

\* MultiThreadVersion.cc:54 and :69: the threads never all wait for each other.
\* Whoever waits for a mutex waits for a thread that does not wait; if all wait
\* for semaphores, both of which are 0, no slot is anywhere.
THEOREM NotAllBlocked == Spec => []NeverAllBlocked
<1>1. IInv => NeverAllBlocked
  <2> SUFFICES ASSUME IInv, Producers # {}, Consumers # {},
                      \A p \in Producers : PBlocked(p), \A c \in Consumers : CBlocked(c)
               PROVE  FALSE
    BY DEF NeverAllBlocked
  <2>1. \A p \in Producers : ppc[p] = "wait" /\ blank = 0
    <3> SUFFICES ASSUME NEW p \in Producers, ppc[p] = "lock", p_mtx # None PROVE FALSE
      BY DEF PBlocked
    <3>1. p_mtx \in Producers /\ ppc[p_mtx] \in {"write", "step", "unlock"}
      BY DEF IInv, TypeOK, MutexHeld
    <3> QED BY <3>1 DEF PBlocked
  <2>2. \A c \in Consumers : cpc[c] = "wait" /\ data = 0
    <3> SUFFICES ASSUME NEW c \in Consumers, cpc[c] = "lock", c_mtx # None PROVE FALSE
      BY DEF CBlocked
    <3>1. c_mtx \in Consumers /\ cpc[c_mtx] \in {"read", "step", "unlock"}
      BY DEF IInv, TypeOK, MutexHeld
    <3> QED BY <3>1 DEF CBlocked
  <2>3. blank = 0 /\ data = 0
    BY <2>1, <2>2
  <2>4. /\ PAt({"lock", "write"}) = {} /\ PAt({"step", "unlock", "post"}) = {}
        /\ CAt({"lock", "read"}) = {} /\ CAt({"step", "unlock", "post"}) = {}
    BY <2>1, <2>2 DEF PAt, CAt
  <2>5. Claimed = 0 /\ Filled = 0 /\ Granted = 0 /\ Emptied = 0
    BY <2>4, FS_EmptySet DEF Claimed, Filled, Granted, Emptied
  <2>6. blank + Claimed + Count + Emptied = Cap /\ Count = data + Filled + Granted
    BY Numbers DEF IInv
  <2> QED BY <2>3, <2>5, <2>6, CapAssumption
<1>2. QED BY <1>1, IInvAlways, PTL
-----------------------------------------------------------------------------
(***************************************************************************)
(* The ring implements the bounded queue.                                  *)
(***************************************************************************)
Content == Values \cup {None}
Place(i) == (Oldest + i - 1) % Cap

\* At most Cap slots hold a value.
LEMMA CountRange == IInv => Count \in 0 .. Cap
<1> SUFFICES ASSUME IInv PROVE Count \in 0 .. Cap
  OBVIOUS
<1>1. /\ Cap \in Nat /\ blank \in Nat /\ data \in Nat /\ Count \in Nat
      /\ Claimed \in Nat /\ Emptied \in Nat
  BY CapAssumption, CountTypes, CountNat DEF IInv, TypeOK
<1>2. blank + Claimed + Count + Emptied = Cap
  BY Numbers DEF IInv
<1> QED BY <1>1, <1>2

\* Where the values are.
LEMMA PlaceFacts ==
  ASSUME IInv
  PROVE  /\ Oldest \in 0 .. Cap-1
         /\ Count \in 0 .. Cap
         /\ \A i \in 1 .. Cap+1 :
              Place(i) = IF Oldest + i - 1 < Cap THEN Oldest + i - 1 ELSE Oldest + i - 1 - Cap
<1>1. Cap \in Nat /\ Cap > 0 /\ c_step \in 0 .. Cap-1
  BY CapAssumption DEF IInv, TypeOK
<1>2. Oldest \in 0 .. Cap-1
  BY <1>1, AdvanceStep DEF Oldest
<1>3. ASSUME NEW i \in 1 .. Cap+1
      PROVE  Place(i) = IF Oldest + i - 1 < Cap THEN Oldest + i - 1 ELSE Oldest + i - 1 - Cap
  <2>1. Oldest + i - 1 \in 0 .. 2*Cap-1
    BY <1>1, <1>2
  <2> QED BY <1>1, <1>2, <2>1, ModCap DEF Place
<1> QED BY <1>2, <1>3, CountRange

\* Contents is a sequence of Count values.
LEMMA ContentsFacts ==
  ASSUME IInv
  PROVE  /\ Contents \in Seq(Content)
         /\ Len(Contents) = Count
         /\ \A i \in 1 .. Count : Contents[i] = ring[Place(i)]
<1>1. Count \in Nat /\ Cap \in Nat
  BY PlaceFacts, CapAssumption
<1>2. \A i \in 1 .. Count : ring[Place(i)] \in Content
  <2>1. ASSUME NEW i \in 1 .. Count PROVE Place(i) \in 0 .. Cap-1
    <3>1. i \in 1 .. Cap+1 /\ i <= Cap
      BY PlaceFacts, <1>1
    <3> QED BY <1>1, <3>1, PlaceFacts
  <2> QED BY <2>1 DEF IInv, TypeOK, Content
<1>3. Contents = [i \in 1 .. Count |-> ring[Place(i)]]
  BY DEF Contents, Place
<1>4. Contents \in [1 .. Count -> Content]
  BY <1>2, <1>3
<1>5. Contents \in Seq(Content)
  BY <1>1, <1>4, SeqDef
<1>6. Len(Contents) = Count
  <2>1. DOMAIN Contents = 1 .. Count /\ DOMAIN Contents = 1 .. Len(Contents) /\ Len(Contents) \in Nat
    BY <1>4, <1>5, LenProperties
  <2> QED BY <1>1, <2>1
<1> QED BY <1>3, <1>5, <1>6

\* The producers' next slot is the one after the values, and holds none.
LEMMA WritePlace ==
  ASSUME IInv, NEW p \in Producers, ppc[p] = "write"
  PROVE  /\ Count < Cap
         /\ p_step = Place(Count + 1)
         /\ \A i \in 1 .. Count : Place(i) # p_step
<1>1. Cap \in Nat /\ Cap > 0 /\ p_step \in 0 .. Cap-1 /\ c_step \in 0 .. Cap-1
  BY CapAssumption DEF IInv, TypeOK
<1>2. Count \in 0 .. Cap-1
  <2>1. Claimed > 0
    <3>1. IsFiniteSet(PAt({"lock", "write"})) /\ p \in PAt({"lock", "write"})
      BY FiniteAssumption, FS_Subset DEF PAt
    <3> QED BY <3>1, FS_EmptySet, CountTypes DEF Claimed
  <2>2. blank + Claimed + Count + Emptied = Cap
    BY Numbers DEF IInv
  <2>3. blank \in Nat /\ Claimed \in Nat /\ Emptied \in Nat /\ Count \in 0 .. Cap
    BY <1>1, CountTypes, CountRange DEF IInv, TypeOK
  <2> QED BY <1>1, <2>1, <2>2, <2>3
<1>3. Fetched \in 0 .. Cap /\ Oldest = IF Fetched = Cap THEN 0 ELSE Fetched
  BY <1>1, AdvanceStep DEF Fetched, Oldest
<1>4. p_step - Fetched - Count \in {0 - 2*Cap, 0 - Cap, 0, Cap}
  <2>1. Written = p_step
    BY DEF IInv, MutexHeld, Written, PAt
  <2> QED BY <2>1 DEF IInv, Distance
<1>5. p_step = IF Oldest + Count < Cap THEN Oldest + Count ELSE Oldest + Count - Cap
  <2> QED BY <1>1, <1>2, <1>3, <1>4
<1>6. p_step = Place(Count + 1)
  <2>1. Count + 1 \in 1 .. Cap+1 /\ Oldest + (Count + 1) - 1 = Oldest + Count
    BY <1>1, <1>2, PlaceFacts
  <2> QED BY <1>5, <2>1, PlaceFacts
<1>7. ASSUME NEW i \in 1 .. Count PROVE Place(i) # p_step
  <2>1. Place(i) = IF Oldest + i - 1 < Cap THEN Oldest + i - 1 ELSE Oldest + i - 1 - Cap
    BY <1>1, <1>2, PlaceFacts
  <2>2. Oldest \in 0 .. Cap-1
    BY PlaceFacts
  <2>3. i \in Int /\ 1 <= i /\ i <= Count /\ Count < Cap
    BY <1>1, <1>2, <1>7
  <2> QED BY <1>1, <1>2, <1>5, <2>1, <2>2, <2>3
<1> QED BY <1>1, <1>2, <1>6, <1>7

\* A step that leaves the values, their number and their places alone.
LEMMA SameContents ==
  ASSUME ring' = ring, Count' = Count, Oldest' = Oldest
  PROVE  Contents' = Contents
BY DEF Contents

\* The write of Push is the Put of the bounded queue.
LEMMA PushWriteIsPut ==
  ASSUME IInv, NEW p \in Producers, PushWrite(p)
  PROVE  Fifo!Put(in[p])
<1>1. Cap \in Nat /\ Cap > 0 /\ in[p] \in Content /\ Count \in 0 .. Cap-1
  BY CapAssumption, PlaceFacts, WritePlace DEF IInv, TypeOK, PushWrite, Content
<1>2. Count' = Count + 1 /\ Oldest' = Oldest
  BY PushKeeps, PushSlots DEF Push, Oldest, Advance
<1>3. ring' = [ring EXCEPT ![p_step] = in[p]] /\ ring \in [0 .. Cap-1 -> Content] /\ p_step \in 0 .. Cap-1
  BY DEF PushWrite, IInv, TypeOK, Content
<1>4. Contents \in Seq(Content) /\ Len(Contents) = Count
  BY ContentsFacts
<1>5. /\ Append(Contents, in[p]) \in Seq(Content)
      /\ Len(Append(Contents, in[p])) = Count + 1
      /\ \A i \in 1 .. Count : Append(Contents, in[p])[i] = Contents[i]
      /\ Append(Contents, in[p])[Count + 1] = in[p]
  BY <1>1, <1>4, AppendProperties
<1>6. Contents' = [i \in 1 .. Count + 1 |-> ring'[Place(i)]]
  BY <1>2 DEF Contents, Place
<1>7. ASSUME NEW i \in 1 .. Count + 1 PROVE Contents'[i] = Append(Contents, in[p])[i]
  <2>1. CASE i = Count + 1
    BY <1>3, <1>5, <1>6, <1>7, <2>1, WritePlace DEF PushWrite
  <2>2. CASE i # Count + 1
    <3>1. i \in 1 .. Count
      BY <1>1, <1>7, <2>2
    <3>2. Contents[i] = ring[Place(i)] /\ Place(i) # p_step /\ Place(i) \in 0 .. Cap-1
      <4>1. i \in 1 .. Cap+1 /\ i <= Cap
        BY <1>1, <3>1
      <4>2. Place(i) \in 0 .. Cap-1
        <5>1. Place(i) = IF Oldest + i - 1 < Cap THEN Oldest + i - 1 ELSE Oldest + i - 1 - Cap
          BY <4>1, PlaceFacts
        <5>2. Oldest \in 0 .. Cap-1
          BY PlaceFacts
        <5> QED BY <1>1, <3>1, <4>1, <5>1, <5>2
      <4>3. Place(i) # p_step
        BY <3>1, WritePlace DEF PushWrite
      <4> QED BY <3>1, <4>2, <4>3, ContentsFacts
    <3> QED BY <1>3, <1>5, <1>6, <1>7, <3>1, <3>2
  <2> QED BY <2>1, <2>2
<1>8. Contents' \in [1 .. Count + 1 -> Content]
  <2>1. \A i \in 1 .. Count + 1 : Append(Contents, in[p])[i] \in Content
    BY <1>5, ElementOfSeq
  <2> QED BY <1>6, <1>7, <2>1
<1>9. Contents' = Append(Contents, in[p])
  <2>1. Append(Contents, in[p]) \in [1 .. Count + 1 -> Content]
    BY <1>5, LenProperties
  <2> DEFINE D == 1 .. Count + 1
  <2>2. /\ Contents' \in [D -> Content] /\ Append(Contents, in[p]) \in [D -> Content]
        /\ \A i \in D : Contents'[i] = Append(Contents, in[p])[i]
    BY <1>7, <1>8, <2>1
  <2> HIDE DEF D
  <2> QED BY <2>2
<1> QED BY <1>1, <1>4, <1>9 DEF Fifo!Put, PushWrite, cvars

\* The read of Pop is the Take of the bounded queue.
LEMMA PopReadIsTake ==
  ASSUME IInv, NEW c \in Consumers, PopRead(c)
  PROVE  Fifo!Take(c)
<1>1. Cap \in Nat /\ Cap > 0 /\ c_step \in 0 .. Cap-1 /\ Count \in 1 .. Cap
  <2>1. IsFiniteSet(CAt({"lock", "read"})) /\ c \in CAt({"lock", "read"})
    BY FiniteAssumption, FS_Subset DEF CAt, PopRead
  <2>2. Granted > 0
    BY <2>1, FS_EmptySet, CountTypes DEF Granted
  <2>3. Count = data + Filled + Granted /\ Count \in 0 .. Cap
    BY Numbers, CountRange
  <2>4. data \in Nat /\ Filled \in Nat /\ Granted \in Nat /\ Cap \in Nat /\ Cap > 0 /\ c_step \in 0 .. Cap-1
    BY CapAssumption, CountTypes DEF IInv, TypeOK
  <2> QED BY <2>2, <2>3, <2>4
<1>2. Count' = Count - 1 /\ Oldest = c_step /\ Oldest' = Advance(c_step)
  BY PopIndex, PopSlots DEF Pop, Oldest, Advance, IInv
<1>3. Contents \in Seq(Content) /\ Len(Contents) = Count
  BY ContentsFacts
<1>4. Contents # <<>>
  BY <1>1, <1>3, EmptySeq
<1>5. Head(Contents) = Contents[1] /\ Tail(Contents) \in Seq(Content)
      /\ Len(Tail(Contents)) = Count - 1
      /\ \A i \in 1 .. Count - 1 : Tail(Contents)[i] = Contents[i+1]
  BY <1>3, <1>4, HeadTailProperties
<1>6. Contents[1] = ring[c_step]
  <2>1. Place(1) = c_step
    BY <1>1, <1>2, PlaceFacts
  <2> QED BY <1>1, <2>1, ContentsFacts
<1>7. Contents' = [i \in 1 .. Count - 1 |-> ring[(Advance(c_step) + i - 1) % Cap]]
  BY <1>2 DEF Contents, PopRead
<1>8. ASSUME NEW i \in 1 .. Count - 1
      PROVE  Contents'[i] = Tail(Contents)[i]
  <2>1. i \in Int /\ 1 <= i /\ i <= Cap - 1 /\ i + 1 \in 1 .. Count
    BY <1>1, <1>8
  <2>2. Advance(c_step) = (IF c_step = Cap-1 THEN 0 ELSE c_step + 1)
    BY <1>1, AdvanceStep
  <2>3. (Advance(c_step) + i - 1) % Cap =
          IF c_step + i < Cap THEN c_step + i ELSE c_step + i - Cap
    <3>1. CASE c_step = Cap - 1
      <4>1. Advance(c_step) + i - 1 = i - 1 /\ i - 1 \in 0 .. 2*Cap-1 /\ i - 1 < Cap
        BY <1>1, <2>1, <2>2, <3>1
      <4>2. (i - 1) % Cap = i - 1
        BY <4>1, ModCap
      <4>3. i - 1 = c_step + i - Cap /\ ~ (c_step + i < Cap)
        BY <1>1, <2>1, <3>1
      <4> QED BY <4>1, <4>2, <4>3
    <3>2. CASE c_step # Cap - 1
      <4> DEFINE x == c_step + i
      <4>1. Advance(c_step) + i - 1 = x /\ x \in 0 .. 2*Cap-1 /\ x \in Int
        BY <1>1, <2>1, <2>2, <3>2
      <4> HIDE DEF x
      <4>2. x % Cap = IF x < Cap THEN x ELSE x - Cap
        BY <1>1, <4>1, ModCap
      <4>3. (Advance(c_step) + i - 1) % Cap = IF x < Cap THEN x ELSE x - Cap
        BY <4>1, <4>2
      <4>4. x = c_step + i
        BY DEF x
      <4> QED BY <1>1, <2>1, <4>1, <4>3, <4>4
    <3> QED BY <3>1, <3>2
  <2>4. Place(i+1) = IF c_step + i < Cap THEN c_step + i ELSE c_step + i - Cap
    <3>1. i + 1 \in 1 .. Cap+1 /\ Oldest + (i + 1) - 1 = c_step + i
      BY <1>1, <1>2, <2>1
    <3>2. Place(i+1) = IF Oldest + (i+1) - 1 < Cap THEN Oldest + (i+1) - 1 ELSE Oldest + (i+1) - 1 - Cap
      BY <3>1, PlaceFacts
    <3> QED BY <1>1, <1>2, <2>1, <3>1, <3>2
  <2>5. Contents'[i] = ring[Place(i+1)]
    BY <1>7, <1>8, <2>3, <2>4
  <2>6. Contents[i+1] = ring[Place(i+1)]
    BY <2>1, ContentsFacts
  <2> QED BY <1>5, <1>8, <2>5, <2>6
<1>9. Contents' = Tail(Contents)
  <2>1. Tail(Contents) \in [1 .. Count - 1 -> Content]
    BY <1>5, LenProperties
  <2>2. Contents' = [i \in 1 .. Count - 1 |-> Tail(Contents)[i]]
    BY <1>7, <1>8
  <2> QED BY <2>1, <2>2
<1>10. out' = [out EXCEPT ![c] = Head(Contents)]
  BY <1>5, <1>6 DEF PopRead
<1> QED BY <1>4, <1>9, <1>10 DEF Fifo!Take

\* Every other step is a stuttering step of the bounded queue.
LEMMA PushStutters ==
  ASSUME IInv, NEW p \in Producers, Push(p) \/ \E v \in Values : PushCall(p, v), ~ PushWrite(p)
  PROVE  UNCHANGED Fifo!vars
<1>1. ring' = ring /\ out' = out
  BY DEF Push, PushCall, PushWait, PushLock, PushStep, PushUnlock, PushPost, cvars
<1>2. Count' = Count /\ Oldest' = Oldest
  BY PushSlots, PushKeeps DEF Oldest, Advance
<1> QED BY <1>1, <1>2, SameContents DEF Fifo!vars

LEMMA PopStutters ==
  ASSUME IInv, NEW c \in Consumers, Pop(c) \/ PopCall(c), ~ PopRead(c)
  PROVE  UNCHANGED Fifo!vars
<1>1. ring' = ring /\ out' = out
  BY DEF Pop, PopCall, PopWait, PopLock, PopStep, PopUnlock, PopPost, pvars
<1>2. Count' = Count
  BY PopSlots
<1>3. Oldest' = Oldest
  <2>1. CASE PopStep(c)
    <3>1. CAt({"step"}) # {} /\ CAt({"step"})' = {} /\ c_step' = Advance(c_step)
      BY <2>1, PopIndex DEF IInv, PopStep
    <3> QED BY <3>1 DEF Oldest
  <2>2. CASE ~ PopStep(c)
    BY <2>2, PopIndex DEF IInv, Oldest, Advance
  <2> QED BY <2>1, <2>2
<1> QED BY <1>1, <1>2, <1>3, SameContents DEF Fifo!vars

\* The ring buffer is a bounded first-in first-out queue for any number of
\* threads: every value pushed comes out of one Pop, in the order of the
\* writes, and at most Cap values wait.
THEOREM RingIsBoundedFifo == Spec => IsBoundedFifo
<1>1. Init => Fifo!Init
  <2> SUFFICES ASSUME Init PROVE Fifo!Init
    OBVIOUS
  <2>1. IInv
    BY InitIInv
  <2>2. Count = 0
    <3>1. PAt({"step", "unlock", "post"}) = {} /\ CAt({"lock", "read"}) = {}
      BY DEF Init, PAt, CAt
    <3>2. data = 0 /\ Filled = 0 /\ Granted = 0
      BY <3>1, FS_EmptySet DEF Init, Filled, Granted
    <3> QED BY <3>2, Numbers
  <2>3. Contents = <<>>
    BY <2>1, <2>2, ContentsFacts, EmptySeq
  <2> QED BY <2>3 DEF Fifo!Init, Init
<1>2. IInv /\ [Next]_vars => [Fifo!Next]_Fifo!vars
  <2> SUFFICES ASSUME IInv, [Next]_vars PROVE [Fifo!Next]_Fifo!vars
    OBVIOUS
  <2>1. ASSUME NEW p \in Producers, PushWrite(p) PROVE Fifo!Next
    <3>1. in[p] \in Values
      BY <2>1 DEF PushWrite, IInv, InputGiven
    <3> QED BY <2>1, <3>1, PushWriteIsPut DEF Fifo!Next
  <2>2. ASSUME NEW c \in Consumers, PopRead(c) PROVE Fifo!Next
    BY <2>2, PopReadIsTake DEF Fifo!Next
  <2>3. CASE UNCHANGED vars
    <3>1. ASSUME NEW S PROVE PAt(S)' = PAt(S) /\ CAt(S)' = CAt(S)
      BY <2>3 DEF vars, pvars, cvars, PAt, CAt
    <3>2. Count' = Count /\ Oldest' = Oldest /\ ring' = ring /\ out' = out
      BY <2>3, <3>1 DEF vars, pvars, cvars, Count, Oldest, Advance
    <3> QED BY <3>2, SameContents DEF Fifo!vars
  <2>4. ASSUME NEW p \in Producers, Push(p) \/ \E v \in Values : PushCall(p, v)
        PROVE  Fifo!Next \/ UNCHANGED Fifo!vars
    BY <2>1, <2>4, PushStutters
  <2>5. ASSUME NEW c \in Consumers, Pop(c) \/ PopCall(c)
        PROVE  Fifo!Next \/ UNCHANGED Fifo!vars
    BY <2>2, <2>5, PopStutters
  <2> QED BY <2>3, <2>4, <2>5 DEF Next
<1>3. QED BY <1>1, <1>2, IInvAlways, PTL DEF Spec, IsBoundedFifo, Fifo!Spec
=============================================================================
