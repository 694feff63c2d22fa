--------------------------- MODULE RingQueueProofs ---------------------------
(***************************************************************************)
(* Proofs about RingQueue, for every capacity and every set of values.     *)
(***************************************************************************)
EXTENDS RingQueue, TLAPS, SequenceTheorems

\* A position less than two rounds ahead of the start of the vector.
LEMMA ModCap ==
  ASSUME NEW x \in 0 .. 2*Cap-1
  PROVE  /\ x < Cap => x % Cap = x
         /\ x >= Cap => x % Cap = x - Cap
         /\ x % Cap \in 0 .. Cap-1
<1>1. Cap \in Nat /\ Cap > 0
  BY CapAssumption
<1>2. CASE x < Cap
  BY <1>1, <1>2
<1>3. CASE x >= Cap
  <2> DEFINE q == x \div Cap
             r == x % Cap
  <2>1. q \in Int /\ r \in 0 .. Cap-1 /\ x = Cap*q + r
    BY <1>1
  <2> HIDE DEF q, r
  <2>2. q >= 1
    <3>1. q <= 0 => Cap*q <= 0
      BY <1>1, <2>1
    <3> QED BY <1>1, <1>3, <2>1, <3>1
  <2>3. q <= 1
    <3>1. q >= 2 => Cap*q >= Cap*2
      BY <1>1, <2>1
    <3> QED BY <1>1, <1>3, <2>1, <3>1
  <2>4. q = 1 /\ r = x - Cap
    BY <1>1, <2>1, <2>2, <2>3
  <2> QED BY <1>1, <1>3, <2>1, <2>4 DEF r
<1> QED BY <1>1, <1>2, <1>3

\* The index of the next slot, and that it is inside the vector.
LEMMA AdvanceStep ==
  ASSUME NEW s \in 0 .. Cap-1
  PROVE  /\ Advance(s) = (IF s = Cap-1 THEN 0 ELSE s + 1)
         /\ Advance(s) \in 0 .. Cap-1
<1>1. s + 1 \in 0 .. 2*Cap-1 /\ Cap \in Nat /\ Cap > 0
  BY CapAssumption
<1> QED BY <1>1, ModCap DEF Advance
-----------------------------------------------------------------------------
\* The slots before Written and after Oldest hold the values: the distance of
\* the two indices is their number, up to the rounds of the ring.
Written == IF ppc \in {"post", "step"} THEN p_step + 1 ELSE p_step
Fetched == IF cpc \in {"post", "step"} THEN c_step + 1 ELSE c_step
Distance == Written - Fetched - Count \in {0 - 2*Cap, 0 - Cap, 0, Cap}

\* Inside Push there is a value to push.
InputGiven == ppc # "idle" => in \in Values

\* The inductive invariant: the semaphores count the slots, and the indices
\* are where the semaphores say.
IInv == TypeOK /\ SlotsAccountedFor /\ Distance /\ InputGiven

\* At most Cap slots hold a value.
LEMMA CountRange == IInv => Count \in 0 .. Cap
BY CapAssumption DEF IInv, TypeOK, SlotsAccountedFor, Count

\* The empty ring satisfies the inductive invariant.
LEMMA InitIInv == Init => IInv
<1> SUFFICES ASSUME Init PROVE IInv
  OBVIOUS
<1>1. TypeOK
  BY CapAssumption DEF Init, TypeOK
<1>2. Count = 0
  BY DEF Init, Count
<1>3. SlotsAccountedFor
  BY <1>2, CapAssumption DEF Init, SlotsAccountedFor
<1>4. Distance
  BY <1>2, CapAssumption DEF Init, Distance, Written, Fetched
<1>5. InputGiven
  BY DEF Init, InputGiven
<1> QED BY <1>1, <1>3, <1>4, <1>5 DEF IInv

\* Every step of the two threads preserves the inductive invariant.
LEMMA IInvStep == IInv /\ [Next]_vars => IInv'
<1> SUFFICES ASSUME IInv, [Next]_vars PROVE IInv'
  OBVIOUS
<1> USE CapAssumption
<1>t. TypeOK /\ SlotsAccountedFor /\ Distance /\ InputGiven /\ Count \in 0 .. Cap
  BY CountRange DEF IInv
<1>1. CASE \E v \in Values : PushCall(v)
  BY <1>1, <1>t DEF PushCall, consumer, TypeOK, SlotsAccountedFor, Distance, Written, Fetched, Count, InputGiven, IInv
<1>2. CASE PushWait
  BY <1>2, <1>t DEF PushWait, consumer, TypeOK, SlotsAccountedFor, Distance, Written, Fetched, Count, InputGiven, IInv
<1>3. CASE PushWrite
  BY <1>3, <1>t DEF PushWrite, consumer, TypeOK, SlotsAccountedFor, Distance, Written, Fetched, Count, InputGiven, IInv
<1>4. CASE PushPost
  BY <1>4, <1>t DEF PushPost, consumer, TypeOK, SlotsAccountedFor, Distance, Written, Fetched, Count, InputGiven, IInv
<1>5. CASE PushStep
  <2>1. /\ p_step \in 0 .. Cap-1
        /\ p_step' = IF p_step = Cap-1 THEN 0 ELSE p_step + 1
        /\ p_step' \in 0 .. Cap-1
    BY <1>5, <1>t, AdvanceStep DEF PushStep, TypeOK
  <2>2. TypeOK'
    BY <1>5, <1>t, <2>1 DEF PushStep, consumer, TypeOK
  <2>3. Count' = Count /\ SlotsAccountedFor'
    BY <1>5, <1>t DEF PushStep, consumer, SlotsAccountedFor, Count
  <2>4. Distance'
    <3>1. Written = p_step + 1 /\ Written' = p_step' /\ Fetched' = Fetched
      BY <1>5 DEF PushStep, consumer, Written, Fetched
    <3>2. Fetched \in 0 .. Cap
      BY <1>t DEF Fetched, TypeOK
    <3> QED BY <1>t, <2>1, <2>3, <3>1, <3>2 DEF Distance
  <2>5. InputGiven'
    BY <1>5, <1>t DEF PushStep, InputGiven
  <2> QED BY <2>2, <2>3, <2>4, <2>5 DEF IInv
<1>6. CASE PopCall
  BY <1>6, <1>t DEF PopCall, producer, TypeOK, SlotsAccountedFor, Distance, Written, Fetched, Count, InputGiven, IInv
<1>7. CASE PopWait
  BY <1>7, <1>t DEF PopWait, producer, TypeOK, SlotsAccountedFor, Distance, Written, Fetched, Count, InputGiven, IInv
<1>8. CASE PopRead
  BY <1>8, <1>t DEF PopRead, producer, TypeOK, SlotsAccountedFor, Distance, Written, Fetched, Count, InputGiven, IInv
<1>9. CASE PopPost
  BY <1>9, <1>t DEF PopPost, producer, TypeOK, SlotsAccountedFor, Distance, Written, Fetched, Count, InputGiven, IInv
<1>10. CASE PopStep
  <2>1. /\ c_step \in 0 .. Cap-1
        /\ c_step' = IF c_step = Cap-1 THEN 0 ELSE c_step + 1
        /\ c_step' \in 0 .. Cap-1
    BY <1>10, <1>t, AdvanceStep DEF PopStep, TypeOK
  <2>2. TypeOK'
    BY <1>10, <1>t, <2>1 DEF PopStep, producer, TypeOK
  <2>3. Count' = Count /\ SlotsAccountedFor'
    BY <1>10, <1>t DEF PopStep, producer, SlotsAccountedFor, Count
  <2>4. Distance'
    <3>1. Fetched = c_step + 1 /\ Fetched' = c_step' /\ Written' = Written
      BY <1>10 DEF PopStep, producer, Written, Fetched
    <3>2. Written \in 0 .. Cap
      BY <1>t DEF Written, TypeOK
    <3> QED BY <1>t, <2>1, <2>3, <3>1, <3>2 DEF Distance
  <2>5. InputGiven'
    BY <1>10, <1>t DEF PopStep, producer, InputGiven
  <2> QED BY <2>2, <2>3, <2>4, <2>5 DEF IInv
<1>11. CASE UNCHANGED vars
  BY <1>11, <1>t DEF vars, producer, consumer, TypeOK, SlotsAccountedFor, Distance, Written, Fetched, Count, InputGiven, IInv
<1> QED BY <1>1, <1>2, <1>3, <1>4, <1>5, <1>6, <1>7, <1>8, <1>9, <1>10, <1>11 DEF Next, Push, Pop

\* The inductive invariant holds in every reachable state.
LEMMA IInvAlways == Spec => []IInv
<1>1. QED BY InitIInv, IInvStep, PTL DEF Spec

\* Types; in particular no index leaves the vector, no semaphore exceeds Cap.
THEOREM TypeCorrect == Spec => []TypeOK
BY IInvAlways, PTL DEF IInv

\* Every slot is counted once.
THEOREM NoSlotGivenTwice == Spec => []SlotsAccountedFor
BY IInvAlways, PTL DEF IInv

\* Without any lock the two threads never touch the same slot.
THEOREM NoSlotShared == Spec => []SlotExclusive
<1>1. IInv => SlotExclusive
  <2> SUFFICES ASSUME IInv, ppc = "write", cpc = "read", p_step = c_step PROVE FALSE
    BY DEF SlotExclusive
  <2>1. Count \in 1 .. Cap-1
    BY CapAssumption DEF IInv, TypeOK, SlotsAccountedFor, Count
  <2>2. 0 - Count \in {0 - 2*Cap, 0 - Cap, 0, Cap}
    BY <2>1, CapAssumption DEF IInv, TypeOK, Distance, Written, Fetched
  <2> QED BY <2>1, <2>2, CapAssumption
<1>2. QED BY <1>1, IInvAlways, PTL
-----------------------------------------------------------------------------
(***************************************************************************)
(* The ring implements the bounded queue.                                  *)
(***************************************************************************)
Content == Values \cup {None}
Place(i) == (Oldest + i - 1) % Cap

\* Where the values are.
LEMMA PlaceFacts ==
  ASSUME IInv
  PROVE  /\ Oldest \in 0 .. Cap-1
         /\ Count \in 0 .. Cap
         /\ \A i \in 1 .. Cap+1 :
              Place(i) = IF Oldest + i - 1 < Cap THEN Oldest + i - 1 ELSE Oldest + i - 1 - Cap
<1>1. Cap \in Nat /\ Cap > 0 /\ c_step \in 0 .. Cap-1
  BY CapAssumption DEF IInv, TypeOK
<1>2. Oldest \in 0 .. Cap-1
  BY <1>1, AdvanceStep DEF Oldest
<1>3. ASSUME NEW i \in 1 .. Cap+1
      PROVE  Place(i) = IF Oldest + i - 1 < Cap THEN Oldest + i - 1 ELSE Oldest + i - 1 - Cap
  <2>1. Oldest + i - 1 \in 0 .. 2*Cap-1
    BY <1>1, <1>2
  <2> QED BY <1>1, <1>2, <2>1, ModCap DEF Place
<1> QED BY <1>2, <1>3, CountRange

\* Contents is a sequence of Count values.
LEMMA ContentsFacts ==
  ASSUME IInv
  PROVE  /\ Contents \in Seq(Content)
         /\ Len(Contents) = Count
         /\ \A i \in 1 .. Count : Contents[i] = ring[Place(i)]
<1>1. Count \in Nat /\ Cap \in Nat
  BY PlaceFacts, CapAssumption
<1>2. \A i \in 1 .. Count : ring[Place(i)] \in Content
  <2>1. ASSUME NEW i \in 1 .. Count PROVE Place(i) \in 0 .. Cap-1
    <3>1. i \in 1 .. Cap+1 /\ i <= Cap
      BY PlaceFacts, <1>1
    <3> QED BY <1>1, <3>1, PlaceFacts
  <2> QED BY <2>1 DEF IInv, TypeOK, Content
<1>3. Contents = [i \in 1 .. Count |-> ring[Place(i)]]
  BY DEF Contents, Place
<1>4. Contents \in [1 .. Count -> Content]
  BY <1>2, <1>3
<1>5. Contents \in Seq(Content)
  BY <1>1, <1>4, SeqDef
<1>6. Len(Contents) = Count
  <2>1. DOMAIN Contents = 1 .. Count /\ DOMAIN Contents = 1 .. Len(Contents) /\ Len(Contents) \in Nat
    BY <1>4, <1>5, LenProperties
  <2> QED BY <1>1, <2>1
<1> QED BY <1>3, <1>5, <1>6

\* The producer's next slot is the one after the values, and holds none.
LEMMA WritePlace ==
  ASSUME IInv, ppc = "write"
  PROVE  /\ Count < Cap
         /\ p_step = Place(Count + 1)
         /\ \A i \in 1 .. Count : Place(i) # p_step
<1>1. Cap \in Nat /\ Cap > 0 /\ p_step \in 0 .. Cap-1 /\ c_step \in 0 .. Cap-1
  BY CapAssumption DEF IInv, TypeOK
<1>2. Count \in 0 .. Cap-1
  BY <1>1, CountRange DEF IInv, TypeOK, SlotsAccountedFor
<1>3. Fetched \in 0 .. Cap /\ Oldest = IF Fetched = Cap THEN 0 ELSE Fetched
  BY <1>1, AdvanceStep DEF Fetched, Oldest
<1>4. p_step - Fetched - Count \in {0 - 2*Cap, 0 - Cap, 0, Cap}
  BY DEF IInv, Distance, Written
<1>5. p_step = IF Oldest + Count < Cap THEN Oldest + Count ELSE Oldest + Count - Cap
  <2> QED BY <1>1, <1>2, <1>3, <1>4
<1>6. p_step = Place(Count + 1)
  <2>1. Count + 1 \in 1 .. Cap+1 /\ Oldest + (Count + 1) - 1 = Oldest + Count
    BY <1>1, <1>2, PlaceFacts
  <2> QED BY <1>5, <2>1, PlaceFacts
<1>7. ASSUME NEW i \in 1 .. Count PROVE Place(i) # p_step
  <2>1. Place(i) = IF Oldest + i - 1 < Cap THEN Oldest + i - 1 ELSE Oldest + i - 1 - Cap
    BY <1>1, <1>2, PlaceFacts
  <2>2. Oldest \in 0 .. Cap-1
    BY PlaceFacts
  <2>3. i \in Int /\ 1 <= i /\ i <= Count /\ Count < Cap
    BY <1>1, <1>2, <1>7
  <2> QED BY <1>1, <1>2, <1>5, <2>1, <2>2, <2>3
<1> QED BY <1>1, <1>2, <1>6, <1>7

\* A step that leaves the values, their number and their places alone.
LEMMA SameContents ==
  ASSUME ring' = ring, Count' = Count, Oldest' = Oldest
  PROVE  Contents' = Contents
BY DEF Contents

\* The write of Push is the Put of the bounded queue.
LEMMA PushWriteIsPut ==
  ASSUME IInv, IInv', PushWrite
  PROVE  Fifo!Put(in)
<1>1. Cap \in Nat /\ Cap > 0 /\ in \in Content /\ Count \in 0 .. Cap-1
  BY CapAssumption, PlaceFacts, WritePlace DEF IInv, TypeOK, PushWrite, Content
<1>2. Count' = Count + 1 /\ Oldest' = Oldest
  BY <1>1 DEF PushWrite, consumer, Count, Oldest, IInv, TypeOK
<1>3. ring' = [ring EXCEPT ![p_step] = in] /\ ring \in [0 .. Cap-1 -> Content] /\ p_step \in 0 .. Cap-1
  BY DEF PushWrite, IInv, TypeOK, Content
<1>4. Contents \in Seq(Content) /\ Len(Contents) = Count
  BY ContentsFacts
<1>5. /\ Append(Contents, in) \in Seq(Content)
      /\ Len(Append(Contents, in)) = Count + 1
      /\ \A i \in 1 .. Count : Append(Contents, in)[i] = Contents[i]
      /\ Append(Contents, in)[Count + 1] = in
  BY <1>1, <1>4, AppendProperties
<1>6. Contents' = [i \in 1 .. Count + 1 |-> ring'[Place(i)]]
  BY <1>2 DEF Contents, Place
<1>7. ASSUME NEW i \in 1 .. Count + 1 PROVE Contents'[i] = Append(Contents, in)[i]
  <2>1. CASE i = Count + 1
    BY <1>3, <1>5, <1>6, <1>7, <2>1, WritePlace DEF PushWrite
  <2>2. CASE i # Count + 1
    <3>1. i \in 1 .. Count
      BY <1>1, <1>7, <2>2
    <3>2. Contents[i] = ring[Place(i)] /\ Place(i) # p_step /\ Place(i) \in 0 .. Cap-1
      <4>1. i \in 1 .. Cap+1 /\ i <= Cap
        BY <1>1, <3>1
      <4>2. Place(i) \in 0 .. Cap-1
        <5>1. Place(i) = IF Oldest + i - 1 < Cap THEN Oldest + i - 1 ELSE Oldest + i - 1 - Cap
          BY <4>1, PlaceFacts
        <5>2. Oldest \in 0 .. Cap-1
          BY PlaceFacts
        <5> QED BY <1>1, <3>1, <4>1, <5>1, <5>2
      <4>3. Place(i) # p_step
        BY <3>1, WritePlace DEF PushWrite
      <4> QED BY <3>1, <4>2, <4>3, ContentsFacts
    <3> QED BY <1>3, <1>5, <1>6, <1>7, <3>1, <3>2
  <2> QED BY <2>1, <2>2
<1>8. Contents' \in [1 .. Count + 1 -> Content]
  <2>1. \A i \in 1 .. Count + 1 : Append(Contents, in)[i] \in Content
    BY <1>5, ElementOfSeq
  <2> QED BY <1>6, <1>7, <2>1
<1>9. Contents' = Append(Contents, in)
  <2>1. Append(Contents, in) \in [1 .. Count + 1 -> Content]
    BY <1>5, LenProperties
  <2> DEFINE D == 1 .. Count + 1
  <2>2. /\ Contents' \in [D -> Content] /\ Append(Contents, in) \in [D -> Content]
        /\ \A i \in D : Contents'[i] = Append(Contents, in)[i]
    BY <1>7, <1>8, <2>1
  <2> HIDE DEF D
  <2> QED BY <2>2
<1> QED BY <1>1, <1>4, <1>9 DEF Fifo!Put, PushWrite, consumer

\* The read of Pop is the Take of the bounded queue.
LEMMA PopReadIsTake ==
  ASSUME IInv, IInv', PopRead
  PROVE  Fifo!Take("consumer")
<1>1. Cap \in Nat /\ Cap > 0 /\ c_step \in 0 .. Cap-1 /\ Count \in 1 .. Cap
  BY CapAssumption, CountRange DEF IInv, TypeOK, PopRead, Count
<1>2. Count' = Count - 1 /\ Oldest = c_step /\ Oldest' = Advance(c_step)
  BY <1>1 DEF PopRead, producer, Count, Oldest, IInv, TypeOK
<1>3. Contents \in Seq(Content) /\ Len(Contents) = Count
  BY ContentsFacts
<1>4. Contents # <<>>
  BY <1>1, <1>3, EmptySeq
<1>5. Head(Contents) = Contents[1] /\ Tail(Contents) \in Seq(Content)
      /\ Len(Tail(Contents)) = Count - 1
      /\ \A i \in 1 .. Count - 1 : Tail(Contents)[i] = Contents[i+1]
  BY <1>3, <1>4, HeadTailProperties
<1>6. Contents[1] = ring[c_step]
  <2>1. Place(1) = c_step
    BY <1>1, <1>2, PlaceFacts
  <2> QED BY <1>1, <2>1, ContentsFacts
<1>7. Contents' = [i \in 1 .. Count - 1 |-> ring[(Advance(c_step) + i - 1) % Cap]]
  BY <1>2 DEF Contents, PopRead
<1>8. ASSUME NEW i \in 1 .. Count - 1
      PROVE  Contents'[i] = Tail(Contents)[i]
  <2>1. i \in Int /\ 1 <= i /\ i <= Cap - 1 /\ i + 1 \in 1 .. Count
    BY <1>1, <1>8
  <2>2. Advance(c_step) = (IF c_step = Cap-1 THEN 0 ELSE c_step + 1)
    BY <1>1, AdvanceStep
  <2>3. (Advance(c_step) + i - 1) % Cap =
          IF c_step + i < Cap THEN c_step + i ELSE c_step + i - Cap
    <3>1. CASE c_step = Cap - 1
      <4>1. Advance(c_step) + i - 1 = i - 1 /\ i - 1 \in 0 .. 2*Cap-1 /\ i - 1 < Cap
        BY <1>1, <2>1, <2>2, <3>1
      <4>2. (i - 1) % Cap = i - 1
        BY <4>1, ModCap
      <4>3. i - 1 = c_step + i - Cap /\ ~ (c_step + i < Cap)
        BY <1>1, <2>1, <3>1
      <4> QED BY <4>1, <4>2, <4>3
    <3>2. CASE c_step # Cap - 1
      <4> DEFINE x == c_step + i
      <4>1. Advance(c_step) + i - 1 = x /\ x \in 0 .. 2*Cap-1 /\ x \in Int
        BY <1>1, <2>1, <2>2, <3>2
      <4> HIDE DEF x
      <4>2. x % Cap = IF x < Cap THEN x ELSE x - Cap
        BY <1>1, <4>1, ModCap
      <4>3. (Advance(c_step) + i - 1) % Cap = IF x < Cap THEN x ELSE x - Cap
        BY <4>1, <4>2
      <4>4. x = c_step + i
        BY DEF x
      <4> QED BY <1>1, <2>1, <4>1, <4>3, <4>4
    <3> QED BY <3>1, <3>2
  <2>4. Place(i+1) = IF c_step + i < Cap THEN c_step + i ELSE c_step + i - Cap
    <3>1. i + 1 \in 1 .. Cap+1 /\ Oldest + (i + 1) - 1 = c_step + i
      BY <1>1, <1>2, <2>1
    <3>2. Place(i+1) = IF Oldest + (i+1) - 1 < Cap THEN Oldest + (i+1) - 1 ELSE Oldest + (i+1) - 1 - Cap
      BY <3>1, PlaceFacts
    <3> QED BY <1>1, <1>2, <2>1, <3>1, <3>2
  <2>5. Contents'[i] = ring[Place(i+1)]
    BY <1>7, <1>8, <2>3, <2>4
  <2>6. Contents[i+1] = ring[Place(i+1)]
    BY <2>1, ContentsFacts
  <2> QED BY <1>5, <1>8, <2>5, <2>6
<1>9. Contents' = Tail(Contents)
  <2>1. Tail(Contents) \in [1 .. Count - 1 -> Content]
    BY <1>5, LenProperties
  <2>2. Contents' = [i \in 1 .. Count - 1 |-> Tail(Contents)[i]]
    BY <1>7, <1>8
  <2> QED BY <2>1, <2>2
<1>10. [t \in {"consumer"} |-> out'] =
         [[t \in {"consumer"} |-> out] EXCEPT !["consumer"] = Head(Contents)]
  BY <1>5, <1>6 DEF PopRead
<1> QED BY <1>4, <1>9, <1>10 DEF Fifo!Take

\* Every other step is a stuttering step of the bounded queue.
LEMMA OtherStepsStutter ==
  ASSUME IInv,
         \/ \E v \in Values : PushCall(v)
         \/ PushWait \/ PushPost \/ PushStep
         \/ PopCall \/ PopWait \/ PopPost \/ PopStep
         \/ UNCHANGED vars
  PROVE  UNCHANGED Fifo!vars
<1>1. ring' = ring /\ out' = out
  BY DEF PushCall, PushWait, PushPost, PushStep, PopCall, PopWait, PopPost, PopStep,
         vars, producer, consumer
<1>2. Count' = Count
  BY CapAssumption DEF IInv, TypeOK, Count, PushCall, PushWait, PushPost, PushStep,
         PopCall, PopWait, PopPost, PopStep, vars, producer, consumer
<1>3. Oldest' = Oldest
  BY DEF Oldest, PushCall, PushWait, PushPost, PushStep,
         PopCall, PopWait, PopPost, PopStep, vars, producer, consumer
<1> QED BY <1>1, <1>2, <1>3, SameContents DEF Fifo!vars

\* The unlocked ring is a bounded first-in first-out queue: every value pushed
\* comes out of Pop once and in order, and at most Cap values wait.
THEOREM RingIsBoundedFifo == Spec => IsBoundedFifo
<1>1. Init => Fifo!Init
  <2> SUFFICES ASSUME Init PROVE Fifo!Init
    OBVIOUS
  <2>1. IInv /\ Count = 0
    BY InitIInv DEF Init, Count
  <2>2. Contents = <<>>
    BY <2>1, ContentsFacts, EmptySeq
  <2> QED BY <2>2 DEF Fifo!Init, Init
<1>2. IInv /\ IInv' /\ [Next]_vars => [Fifo!Next]_Fifo!vars
  <2> SUFFICES ASSUME IInv, IInv', [Next]_vars PROVE [Fifo!Next]_Fifo!vars
    OBVIOUS
  <2>1. CASE PushWrite
    <3>1. in \in Values
      BY <2>1 DEF PushWrite, IInv, InputGiven
    <3> QED BY <2>1, <3>1, PushWriteIsPut DEF Fifo!Next
  <2>2. CASE PopRead
    BY <2>2, PopReadIsTake DEF Fifo!Next
  <2>3. CASE ~ PushWrite /\ ~ PopRead
    BY <2>3, OtherStepsStutter DEF Next, Push, Pop
  <2> QED BY <2>1, <2>2, <2>3
<1>3. QED BY <1>1, <1>2, IInvAlways, PTL DEF Spec, IsBoundedFifo, Fifo!Spec
=============================================================================
