---------------------------- MODULE ReactorProofs ----------------------------
(***************************************************************************)
(* Types and safety of Reactor for any number of clients, descriptors,     *)
(* requests and buffer sizes.  First induction on the natural numbers over *)
(* a set, then what SplitSegment and the loop over the requests return and *)
(* what they make of a stream that is cut anywhere, the type half of the   *)
(* inductive invariant, and the invariants Core adds.                      *)
(***************************************************************************)
EXTENDS Reactor, SequenceTheorems, FiniteSetTheorems, NaturalsInduction,
        WellFoundedInduction, TLAPS

\* A nonempty set of natural numbers has a least element.
LEMMA LeastNat ==
  ASSUME NEW T, T \subseteq Nat, T # {}
  PROVE  \E n \in T : \A m \in T : n <= m
<1> DEFINE R == {ss \in Nat \X Nat : ss[1] < ss[2]}
<1>1. IsWellFoundedOn(R, Nat)
  BY NatLessThanWellFounded, Zenon DEF OpToRel
<1>2. \E x \in T : \A y \in T : ~ (<<y, x>> \in R)
  <2> HIDE DEF R
  <2> QED BY <1>1, WFMin
<1>3. PICK x \in T : \A y \in T : ~ (<<y, x>> \in R)
  BY <1>2
<1>4. ASSUME NEW m \in T PROVE x <= m
  <2>1. m \in Nat /\ x \in Nat
    OBVIOUS
  <2>2. m < x => <<m, x>> \in R
    BY <2>1
  <2>3. ~ (m < x)
    BY <1>3, <2>2
  <2>4. QED BY <2>1, <2>3
<1>5. QED BY <1>3, <1>4

\* A set that contains 0 and the successor of each of its elements contains
\* every natural number.
LEMMA NatInductionSet ==
  ASSUME NEW S, 0 \in S, \A n \in Nat : n \in S => n + 1 \in S
  PROVE  \A n \in Nat : n \in S
<1>1. SUFFICES ASSUME Nat \ S # {} PROVE FALSE
  OBVIOUS
<1>2. PICK n \in Nat \ S : \A m \in Nat \ S : n <= m
  BY <1>1, LeastNat
<1>3. n # 0
  BY <1>2
<1>4. n - 1 \in Nat /\ n - 1 \in S
  BY <1>2, <1>3
<1>5. (n - 1) + 1 = n
  BY <1>2
<1>6. QED BY <1>2, <1>4, <1>5

-----------------------------------------------------------------------------
\* The two bytes of an answer.
LEMMA ReplyType ==
  ASSUME NEW b \in Byte, IsSep(b)
  PROVE  /\ Reply(b) \in Seq(Answer) /\ Len(Reply(b)) = 2
         /\ Reply(b)[1] = b - 1 /\ Reply(b)[2] = b
<1>1. Requests \in Nat
  BY ConstantsAssumption
<1>2. b \in 1..2*Requests /\ b % 2 = 0
  BY DEF Byte, IsSep
<1>3. b - 1 \in 1..2*Requests
  BY ONLY <1>1, <1>2
<1>4. b - 1 \in Answer /\ b \in Answer
  BY <1>2, <1>3 DEF Answer, Byte
<1> QED BY <1>4 DEF Reply

\* What the recursion in Answers computes, one byte after the other.
LEMMA AnswersByByte ==
  ASSUME NEW s \in Seq(Byte)
  PROVE  \E f \in [0..Len(s) -> Seq(Answer)] :
           /\ f[0] = <<>>
           /\ \A n \in 1..Len(s) :
                f[n] = IF IsValidEnd(s, n) THEN f[n-1] \o Reply(s[n]) ELSE f[n-1]
           /\ Answers(s) = f[Len(s)]
<1> DEFINE Body(f, n) ==
      IF n = 0 THEN <<>>
      ELSE IF IsValidEnd(s, n) THEN f[n-1] \o Reply(s[n])
      ELSE f[n-1]
<1> DEFINE N == Len(s)
<1> DEFINE upTo == CHOOSE f : f = [n \in 0..N |-> Body(f, n)]
<1>1. N \in Nat /\ \A i \in 1..N : s[i] \in Byte
  BY LenProperties, ElementOfSeq
<1>2. \A n \in 1..N : IsValidEnd(s, n) => Reply(s[n]) \in Seq(Answer)
  BY <1>1, ReplyType DEF IsValidEnd
<1>3. ASSUME NEW n \in 0..N, NEW f, n # 0 => f[n-1] \in Seq(Answer)
      PROVE  Body(f, n) \in Seq(Answer)
  BY <1>1, <1>2, <1>3, EmptySeq, ConcatProperties
<1>4. \E f : f = [n \in 0..N |-> Body(f, n)]
  <2> DEFINE Good(f, n) == f \in [0..n -> Seq(Answer)] /\ \A i \in 0..n : f[i] = Body(f, i)
  <2> DEFINE S == {n \in Nat : n <= N => \E f : Good(f, n)}
  <2>1. 0 \in S
    <3> DEFINE f == [i \in 0..0 |-> <<>>]
    <3>1. Good(f, 0)
      BY EmptySeq
    <3> QED BY <3>1
  <2>2. ASSUME NEW n \in Nat, n \in S PROVE n + 1 \in S
    <3>1. SUFFICES ASSUME n + 1 <= N PROVE \E f : Good(f, n + 1)
      <4> HIDE DEF Good
      <4> QED OBVIOUS
    <3>2. PICK f : Good(f, n)
      <4> HIDE DEF Good
      <4> QED BY <1>1, <2>2, <3>1
    <3> DEFINE g == [i \in 0..(n+1) |-> IF i <= n THEN f[i] ELSE Body(f, n+1)]
    <3>3. Body(f, n+1) \in Seq(Answer)
      <4>1. n + 1 \in 0..N /\ (n+1)-1 = n /\ f[n] \in Seq(Answer)
        BY <1>1, <3>1, <3>2
      <4> HIDE DEF Body
      <4> QED BY <1>3, <4>1
    <3>4. g \in [0..(n+1) -> Seq(Answer)]
      <4> HIDE DEF Body
      <4> QED BY <3>2, <3>3
    <3>5. \A i \in 0..(n+1) : g[i] = Body(g, i)
      <4>1. \A i \in 0..n : g[i] = f[i]
        <5> HIDE DEF Body
        <5> QED OBVIOUS
      <4>2. g[n+1] = Body(f, n+1)
        <5> HIDE DEF Body
        <5> QED OBVIOUS
      <4>3. \A i \in 0..(n+1) : i # 0 => i - 1 \in 0..n
        OBVIOUS
      <4>4. \A i \in 0..(n+1) : Body(g, i) = Body(f, i)
        <5> HIDE DEF g
        <5> QED BY <4>1, <4>3
      <4> HIDE DEF Body, g
      <4> QED BY <3>2, <4>1, <4>2, <4>4
    <3> QED BY <3>4, <3>5
  <2>3. N \in S
    <3> HIDE DEF S
    <3> QED BY <1>1, <2>1, <2>2, NatInductionSet
  <2>4. PICK f : Good(f, N)
    BY <1>1, <2>3
  <2>5. f = [n \in 0..N |-> Body(f, n)]
    <3> HIDE DEF Body
    <3> QED BY <2>4
  <2> QED BY <2>5
<1>5. upTo = [n \in 0..N |-> Body(upTo, n)]
  <2> HIDE DEF Body
  <2> QED BY <1>4
<1>6. Answers(s) = upTo[N]
  BY DEF Answers
<1>7. \A n \in 0..N : upTo[n] \in Seq(Answer)
  <2> DEFINE S == {n \in Nat : n <= N => upTo[n] \in Seq(Answer)}
  <2> HIDE DEF upTo
  <2>1. 0 \in S
    BY <1>1, <1>5, EmptySeq
  <2>2. ASSUME NEW n \in Nat, n \in S PROVE n + 1 \in S
    <3>1. SUFFICES ASSUME n + 1 <= N PROVE upTo[n+1] \in Seq(Answer)
      OBVIOUS
    <3>2. n + 1 \in 0..N /\ (n+1)-1 = n /\ upTo[n] \in Seq(Answer)
      BY <1>1, <2>2, <3>1
    <3>3. upTo[n+1] = Body(upTo, n+1)
      <4> HIDE DEF Body
      <4> QED BY <1>5, <3>2
    <3>4. Body(upTo, n+1) \in Seq(Answer)
      <4> HIDE DEF Body
      <4> QED BY <1>3, <3>2
    <3> QED BY <3>3, <3>4
  <2>3. \A n \in Nat : n \in S
    <3> HIDE DEF S
    <3> QED BY <2>1, <2>2, NatInductionSet
  <2> QED BY <1>1, <2>3
<1>8. upTo[0] = <<>> /\ \A n \in 1..N :
        upTo[n] = IF IsValidEnd(s, n) THEN upTo[n-1] \o Reply(s[n]) ELSE upTo[n-1]
  <2> HIDE DEF upTo
  <2>1. \A n \in 0..N : upTo[n] = Body(upTo, n)
    <3> HIDE DEF Body
    <3> QED BY <1>5
  <2>2. 0 \in 0..N /\ \A n \in 1..N : n \in 0..N /\ n # 0
    BY <1>1
  <2> QED BY <2>1, <2>2
<1>9. upTo \in [0..N -> Seq(Answer)]
  <2> HIDE DEF upTo, Body
  <2> QED BY <1>5, <1>7
<1> HIDE DEF upTo
<1> QED BY <1>6, <1>8, <1>9

LEMMA AnswersType ==
  ASSUME NEW s \in Seq(Byte)
  PROVE  Answers(s) \in Seq(Answer)
<1>1. Len(s) \in 0..Len(s)
  BY LenProperties
<1> QED BY <1>1, AnswersByByte
-----------------------------------------------------------------------------
\* What the steps keep besides the properties: the listening descriptor stays
\* registered while the process lives, the thread's position fits the data it works on, a batch names
\* every descriptor once, and read events are never switched off.
Shape ==
  /\ pc # "killed" => Listen \in events
  /\ pc \notin {"loop", "killed"} => cur \in Entry /\ \A e \in batch : e.fd # cur.fd
  /\ pc = "insert" =>
       newfd \in Fds /\ newfd \notin events /\ owner[newfd] # None /\ outbuf[newfd] = <<>>
  /\ pc \in {"recv", "process", "send"} => cur.fd \in Fds
  /\ pc \in {"accept", "insert"} => cur.fd = Listen
  /\ pc = "write" /\ cur.fd \in Fds \cap events => owner[cur.fd] = cur.conn
  /\ \A e, f \in batch : e.fd = f.fd => e = f
  /\ \A fd \in Fds \cap events : "IN" \in epoll[fd]

Safe == TypeOK /\ MapMatchesEpoll /\ HandlerEventLive /\ BatchFresh /\ Shape

\* The kernel reports what a mask can hold.
LEMMA LevelType ==
  ASSUME NEW fd
  PROVE  Level(fd) \in Mask /\ Reported(fd) \in Mask /\ Promote(Reported(fd)) \in Mask
<1>1. Level(fd) \in Mask
  BY DEF Level, SockLevel, Mask
<1>2. Reported(fd) \in Mask
  BY <1>1 DEF Reported, Mask
<1>3. QED BY <1>1, <1>2 DEF Promote, Mask

LEMMA SeqFacts ==
  ASSUME NEW S, NEW s \in Seq(S)
  PROVE  /\ Len(s) \in Nat
         /\ \A x \in S : Append(s, x) \in Seq(S)
         /\ \A t \in Seq(S) : s \o t \in Seq(S)
         /\ \A m, n \in Nat : m >= 1 /\ n <= Len(s) => SubSeq(s, m, n) \in Seq(S)
         /\ s # <<>> => Head(s) \in S /\ Tail(s) \in Seq(S) /\ Len(s) > 0
<1>1. Len(s) \in Nat
  BY LenProperties
<1>2. \A x \in S : Append(s, x) \in Seq(S)
  BY AppendProperties
<1>3. \A t \in Seq(S) : s \o t \in Seq(S)
  BY ConcatProperties
<1>4. \A m, n \in Nat : m >= 1 /\ n <= Len(s) => SubSeq(s, m, n) \in Seq(S)
  <2>1. ASSUME NEW m \in Nat, NEW n \in Nat, m >= 1, n <= Len(s)
        PROVE  SubSeq(s, m, n) \in Seq(S)
    <3>1. \A i \in m..n : s[i] \in S
      BY <1>1, <2>1, ElementOfSeq
    <3>2. SubSeq(s, m, n) = [i \in 1..(n-m+1) |-> s[i+m-1]]
      BY <2>1
    <3>3. \A i \in 1..(n-m+1) : s[i+m-1] \in S
      BY <3>1, <2>1
    <3>4. QED BY <3>2, <3>3
  <2>2. QED BY <2>1
<1>5. s # <<>> => Head(s) \in S /\ Tail(s) \in Seq(S) /\ Len(s) > 0
  BY HeadTailProperties, EmptySeq, LenProperties
<1>6. QED BY <1>1, <1>2, <1>3, <1>4, <1>5

\* What SplitSegment leaves: the bytes after position k, where k is 0 or the
\* position of a separator, and no separator comes after it.
LEMMA RestShape ==
  ASSUME NEW s \in Seq(Byte)
  PROVE  \E k \in 0..Len(s) :
           /\ Rest(s) = SubSeq(s, k + 1, Len(s))
           /\ k = 0 \/ IsSep(s[k])
           /\ \A i \in (k + 1)..Len(s) : ~ IsSep(s[i])
<1> DEFINE seps == {i \in DOMAIN s : IsSep(s[i])}
<1> DEFINE last == CHOOSE i \in seps : \A j \in seps : j <= i
<1>1. Len(s) \in Nat /\ seps \subseteq 1..Len(s) /\ \A i \in 1..Len(s) : IsSep(s[i]) => i \in seps
  BY LenProperties
<1>2. CASE seps = {}
  <2>1. Rest(s) = s /\ \A i \in 1..Len(s) : ~ IsSep(s[i])
    BY <1>1, <1>2 DEF Rest
  <2>2. 0 \in 0..Len(s) /\ Rest(s) = SubSeq(s, 0 + 1, Len(s))
    BY <1>1, <2>1, SubSeqFull
  <2> QED BY <2>1, <2>2
<1>3. CASE seps # {}
  <2> HIDE DEF seps
  <2> DEFINE T == {n \in Nat : \E i \in seps : n = Len(s) - i}
  <2>1. T \subseteq Nat /\ T # {}
    <3>1. PICK i \in seps : TRUE
      BY <1>3
    <3>2. Len(s) - i \in T
      BY <1>1, <3>1
    <3> QED BY <3>2
  <2>2. PICK n \in T : \A m \in T : n <= m
    BY <2>1, LeastNat
  <2>3. PICK i \in seps : n = Len(s) - i
    BY <2>2
  <2>4. \A j \in seps : j <= i
    <3>1. \A j \in seps : Len(s) - j \in T
      BY <1>1
    <3>2. \A j \in seps : Len(s) - i <= Len(s) - j
      BY <3>1, <2>2, <2>3
    <3> QED BY <3>2, <1>1, <2>3
  <2>5. last \in seps /\ \A j \in seps : j <= last
    BY <2>4
  <2>6. Rest(s) = SubSeq(s, last + 1, Len(s))
    BY <1>3 DEF Rest, seps
  <2> HIDE DEF last
  <2>7. last \in 0..Len(s) /\ IsSep(s[last])
    BY <1>1, <2>5 DEF seps
  <2>8. \A i1 \in (last + 1)..Len(s) : ~ IsSep(s[i1])
    BY <1>1, <2>5, <2>7
  <2> QED BY <2>6, <2>7, <2>8
<1> QED BY <1>2, <1>3

\* It is made of bytes.
LEMMA RestType ==
  ASSUME NEW s \in Seq(Byte)
  PROVE  Rest(s) \in Seq(Byte)
<1>1. PICK k \in 0..Len(s) : Rest(s) = SubSeq(s, k + 1, Len(s))
  BY RestShape
<1>2. k + 1 \in Nat /\ k + 1 >= 1 /\ Len(s) \in Nat
  BY LenProperties
<1> QED BY <1>1, <1>2, SeqFacts
-----------------------------------------------------------------------------
\* A set of sequences that contains the empty one and every extension of an
\* element by one more element contains every sequence.
LEMMA SeqInductionSet ==
  ASSUME NEW S, NEW T, <<>> \in T, \A s \in Seq(S), e \in S : s \in T => Append(s, e) \in T
  PROVE  \A s \in Seq(S) : s \in T
<1> DEFINE L == {n \in Nat : \A s \in Seq(S) : Len(s) = n => s \in T}
<1>1. 0 \in L
  BY EmptySeq
<1>2. ASSUME NEW n \in Nat, n \in L PROVE n + 1 \in L
  <2>1. SUFFICES ASSUME NEW s \in Seq(S), Len(s) = n + 1 PROVE s \in T
    OBVIOUS
  <2>2. s # <<>>
    BY <2>1, EmptySeq
  <2>3. PICK t \in Seq(S), e \in S : s = Append(t, e)
    BY <2>2, SequenceEmptyOrAppend
  <2>4. Len(t) = n
    BY <2>1, <2>3, AppendProperties, LenProperties
  <2> QED BY <1>2, <2>3, <2>4
<1>3. \A n \in Nat : n \in L
  <2> HIDE DEF L
  <2> QED BY <1>1, <1>2, NatInductionSet
<1> QED BY <1>3, LenProperties

\* Does byte b, coming after s, end a request that Deserialize accepts?
Completes(s, b) ==
  IsSep(b) /\ s # <<>> /\ s[Len(s)] = b - 1 /\ (b \div 2) \notin Malformed

LEMMA AnswersEmpty == Answers(<<>>) = <<>>
<1>1. <<>> \in Seq(Byte) /\ Len(<<>>) = 0
  BY EmptySeq
<1> QED BY <1>1, AnswersByByte

\* One byte more gives one answer more, or nothing.
LEMMA AnswersAppend ==
  ASSUME NEW s \in Seq(Byte), NEW b \in Byte
  PROVE  Answers(Append(s, b)) =
           IF Completes(s, b) THEN Answers(s) \o Reply(b) ELSE Answers(s)
<1> DEFINE t == Append(s, b)
           N == Len(s)
<1>1. /\ t \in Seq(Byte) /\ Len(t) = N + 1 /\ N \in Nat
      /\ \A i \in 1..N : t[i] = s[i]
      /\ t[N + 1] = b
      /\ N = 0 <=> s = <<>>
  BY AppendProperties, LenProperties, EmptySeq
<1> HIDE DEF t
<1>2. PICK f \in [0..N -> Seq(Answer)] :
        /\ f[0] = <<>>
        /\ \A n \in 1..N :
             f[n] = IF IsValidEnd(s, n) THEN f[n-1] \o Reply(s[n]) ELSE f[n-1]
        /\ Answers(s) = f[N]
  BY AnswersByByte
<1>3. PICK g \in [0..(N + 1) -> Seq(Answer)] :
        /\ g[0] = <<>>
        /\ \A n \in 1..(N + 1) :
             g[n] = IF IsValidEnd(t, n) THEN g[n-1] \o Reply(t[n]) ELSE g[n-1]
        /\ Answers(t) = g[N + 1]
  <2>1. \E g \in [0..Len(t) -> Seq(Answer)] :
          /\ g[0] = <<>>
          /\ \A n \in 1..Len(t) :
               g[n] = IF IsValidEnd(t, n) THEN g[n-1] \o Reply(t[n]) ELSE g[n-1]
          /\ Answers(t) = g[Len(t)]
    BY <1>1, AnswersByByte
  <2>2. Len(t) = N + 1
    BY <1>1
  <2> HIDE DEF N
  <2> QED BY ONLY <2>1, <2>2
<1> HIDE DEF N
<1>4. \A n \in 1..N : IsValidEnd(t, n) <=> IsValidEnd(s, n)
  <2> SUFFICES ASSUME NEW n \in 1..N PROVE IsValidEnd(t, n) <=> IsValidEnd(s, n)
    OBVIOUS
  <2>1. t[n] = s[n] /\ (n > 1 => t[n - 1] = s[n - 1])
    BY <1>1
  <2> QED BY <2>1 DEF IsValidEnd
<1>5. IsValidEnd(t, N + 1) <=> Completes(s, b)
  <2>1. (N + 1) - 1 = N /\ (N + 1 > 1 <=> N # 0) /\ (N # 0 => N \in 1..N)
    BY <1>1
  <2> QED BY <1>1, <2>1 DEF IsValidEnd, Completes, N
<1>6. \A n \in Nat : n \in {m \in Nat : m <= N => g[m] = f[m]}
  <2> DEFINE S == {m \in Nat : m <= N => g[m] = f[m]}
  <2>1. 0 \in S
    BY <1>2, <1>3
  <2>2. ASSUME NEW n \in Nat, n \in S PROVE n + 1 \in S
    <3>1. SUFFICES ASSUME n + 1 <= N PROVE g[n + 1] = f[n + 1]
      OBVIOUS
    <3>2. n + 1 \in 1..N /\ n + 1 \in 1..(N + 1) /\ (n + 1) - 1 = n /\ n <= N
      BY <1>1, <3>1
    <3>3. g[n] = f[n]
      BY <2>2, <3>2
    <3> QED BY <1>1, <1>2, <1>3, <1>4, <3>2, <3>3
  <2> HIDE DEF S
  <2>3. \A n \in Nat : n \in S
    BY <2>1, <2>2, NatInductionSet
  <2> QED BY <2>3 DEF S
<1>7. g[N] = f[N] /\ N + 1 \in 1..(N + 1) /\ (N + 1) - 1 = N
  BY <1>1, <1>6
<1>8. Answers(t) = IF IsValidEnd(t, N + 1) THEN g[N] \o Reply(t[N + 1]) ELSE g[N]
  BY <1>3, <1>7
<1> QED BY <1>1, <1>2, <1>5, <1>7, <1>8 DEF t

\* What SplitSegment leaves completes the same requests as the whole buffer.
LEMMA CompletesRest ==
  ASSUME NEW s \in Seq(Byte), NEW t \in Seq(Byte), NEW b \in Byte
  PROVE  Completes(Rest(s) \o t, b) <=> Completes(s \o t, b)
<1> USE ConstantsAssumption
<1> DEFINE r == Rest(s)
           n == Len(s)
           m == Len(t)
<1>1. PICK k \in 0..n :
        /\ r = SubSeq(s, k + 1, n)
        /\ k = 0 \/ IsSep(s[k])
        /\ \A i \in (k + 1)..n : ~ IsSep(s[i])
  BY RestShape
<1>2. /\ n \in Nat /\ m \in Nat /\ r \in Seq(Byte)
      /\ \A i \in 1..n : s[i] \in Byte
      /\ \A i \in 1..m : t[i] \in Byte
  BY RestType, LenProperties, ElementOfSeq
<1>3. Len(r) = n - k /\ \A i \in 1..(n - k) : r[i] = s[k + i]
  <2>1. k + 1 \in Int /\ n \in Int /\ \A i \in (k + 1)..n : s[i] \in Byte
    BY <1>2
  <2>2. /\ Len(SubSeq(s, k + 1, n)) = IF k + 1 <= n THEN n - (k + 1) + 1 ELSE 0
        /\ \A i \in 1..(n - (k + 1) + 1) : SubSeq(s, k + 1, n)[i] = s[(k + 1) + i - 1]
    BY <2>1, SubSeqProperties
  <2> HIDE DEF r, n
  <2>3. n - (k + 1) + 1 = n - k /\ (~ (k + 1 <= n) => n - k = 0)
    BY <1>2
  <2>4. \A i \in 1..(n - k) : (k + 1) + i - 1 = k + i
    BY <1>2
  <2> QED BY <1>1, <2>2, <2>3, <2>4
<1>4. /\ s \o t \in Seq(Byte) /\ Len(s \o t) = n + m
      /\ \A i \in 1..(n + m) : (s \o t)[i] = IF i <= n THEN s[i] ELSE t[i - n]
  BY ConcatProperties
<1>5. /\ r \o t \in Seq(Byte) /\ Len(r \o t) = (n - k) + m
      /\ \A i \in 1..((n - k) + m) : (r \o t)[i] = IF i <= n - k THEN r[i] ELSE t[i - (n - k)]
  <2>1. r \o t \in Seq(Byte) /\ Len(r \o t) = Len(r) + m
        /\ \A i \in 1..(Len(r) + m) : (r \o t)[i] = IF i <= Len(r) THEN r[i] ELSE t[i - Len(r)]
    BY <1>2, ConcatProperties
  <2> HIDE DEF r, n, m
  <2> QED BY <1>3, <2>1
<1>6. (s \o t = <<>> <=> n + m = 0) /\ (r \o t = <<>> <=> (n - k) + m = 0)
  BY <1>4, <1>5, EmptySeq
<1> HIDE DEF r, n, m
<1>7. CASE m > 0
  <2>1. (s \o t)[n + m] = t[m]
    <3>1. n + m \in 1..(n + m) /\ ~ (n + m <= n) /\ (n + m) - n = m
      BY <1>2, <1>7
    <3> QED BY <1>4, <3>1
  <2>2. (r \o t)[(n - k) + m] = t[m]
    <3>1. (n - k) + m \in 1..((n - k) + m) /\ ~ ((n - k) + m <= n - k) /\ ((n - k) + m) - (n - k) = m
      BY <1>2, <1>7
    <3> QED BY <1>5, <3>1
  <2>3. n + m # 0 /\ (n - k) + m # 0
    BY <1>2, <1>7
  <2> QED BY <1>4, <1>5, <1>6, <2>1, <2>2, <2>3 DEF Completes, r
<1>8. CASE m = 0 /\ n - k > 0
  <2>1. (s \o t)[n + m] = s[n]
    <3>1. n + m \in 1..(n + m) /\ n + m = n /\ n <= n
      BY <1>2, <1>8
    <3> QED BY <1>4, <3>1
  <2>2. (r \o t)[(n - k) + m] = s[n]
    <3>1. (n - k) + m = n - k /\ n - k \in 1..(n - k) /\ k + (n - k) = n
      <4>1. n \in Int /\ k \in Int /\ m = 0 /\ n - k > 0
        BY <1>2, <1>8
      <4> QED BY ONLY <4>1
    <3>2. (r \o t)[n - k] = r[n - k]
      BY <1>5, <3>1
    <3> QED BY <1>3, <3>1, <3>2
  <2>3. n + m # 0 /\ (n - k) + m # 0
    BY <1>2, <1>8
  <2> QED BY <1>4, <1>5, <1>6, <2>1, <2>2, <2>3 DEF Completes, r
<1>9. CASE m = 0 /\ n - k = 0
  <2>1. ~ Completes(r \o t, b)
    BY <1>6, <1>9 DEF Completes
  <2>2. ASSUME Completes(s \o t, b) PROVE FALSE
    <3>1. n + m # 0 /\ IsSep(b) /\ (s \o t)[n + m] = b - 1
      BY <1>4, <1>6, <2>2 DEF Completes
    <3>2. n \in 1..n /\ n + m = n /\ n + m \in 1..(n + m) /\ n = k /\ k # 0
      BY <1>2, <1>9, <3>1
    <3>3. s[n] = b - 1 /\ s[n] \in Byte /\ IsSep(s[n])
      BY <1>1, <1>2, <1>4, <3>1, <3>2
    <3>4. \A x \in 1..2*Requests : ~ (x % 2 = 0 /\ (x - 1) % 2 = 0)
      BY SMT
    <3>5. b \in 1..2*Requests
      BY DEF Byte
    <3> QED BY <3>1, <3>3, <3>4, <3>5 DEF IsSep
  <2> QED BY <2>1, <2>2 DEF r
<1> QED BY <1>2, <1>7, <1>8, <1>9

\* A buffer without a separator holds no complete request.
LEMMA NoAnswer ==
  ASSUME NEW s \in Seq(Byte), \A i \in 1..Len(s) : ~ IsSep(s[i])
  PROVE  Answers(s) = <<>>
<1> DEFINE N == Len(s)
<1>1. PICK f \in [0..N -> Seq(Answer)] :
        /\ f[0] = <<>>
        /\ \A n \in 1..N :
             f[n] = IF IsValidEnd(s, n) THEN f[n-1] \o Reply(s[n]) ELSE f[n-1]
        /\ Answers(s) = f[N]
  BY AnswersByByte
<1>2. N \in Nat /\ \A n \in 1..N : ~ IsValidEnd(s, n)
  BY LenProperties DEF IsValidEnd
<1> HIDE DEF N
<1> DEFINE S == {m \in Nat : m <= N => f[m] = <<>>}
<1>3. 0 \in S
  BY <1>1
<1>4. ASSUME NEW n \in Nat, n \in S PROVE n + 1 \in S
  <2>1. SUFFICES ASSUME n + 1 <= N PROVE f[n + 1] = <<>>
    OBVIOUS
  <2>2. n + 1 \in 1..N /\ (n + 1) - 1 = n /\ n <= N
    BY <1>2, <2>1
  <2> QED BY <1>1, <1>2, <1>4, <2>2
<1> HIDE DEF S
<1>5. \A n \in Nat : n \in S
  BY <1>3, <1>4, NatInductionSet
<1> QED BY <1>1, <1>2, <1>5 DEF S

LEMMA RestHasNoAnswer ==
  ASSUME NEW s \in Seq(Byte)
  PROVE  Answers(Rest(s)) = <<>>
<1> DEFINE n == Len(s)
<1>1. PICK k \in 0..n :
        Rest(s) = SubSeq(s, k + 1, n) /\ \A i \in (k + 1)..n : ~ IsSep(s[i])
  BY RestShape
<1>2. n \in Nat /\ \A i \in 1..n : s[i] \in Byte
  BY LenProperties, ElementOfSeq
<1> HIDE DEF n
<1>3. k + 1 \in Int /\ n \in Int /\ \A i \in (k + 1)..n : s[i] \in Byte
  BY <1>2
<1>4. /\ Len(Rest(s)) = IF k + 1 <= n THEN n - (k + 1) + 1 ELSE 0
      /\ \A i \in 1..(n - (k + 1) + 1) : Rest(s)[i] = s[(k + 1) + i - 1]
  BY <1>1, <1>3, SubSeqProperties
<1>5. \A i \in 1..Len(Rest(s)) :
        i \in 1..(n - (k + 1) + 1) /\ (k + 1) + i - 1 \in (k + 1)..n
  BY <1>3, <1>4
<1>6. \A i \in 1..Len(Rest(s)) : ~ IsSep(Rest(s)[i])
  BY <1>1, <1>4, <1>5
<1> QED BY <1>6, RestType, NoAnswer

LEMMA ConcatAppend ==
  ASSUME NEW S, NEW s \in Seq(S), NEW t \in Seq(S), NEW b \in S
  PROVE  s \o Append(t, b) = Append(s \o t, b)
<1>1. <<b>> \in Seq(S) /\ s \o t \in Seq(S)
  BY ConcatProperties
<1>2. Append(t, b) = t \o <<b>> /\ Append(s \o t, b) = (s \o t) \o <<b>>
  BY <1>1, AppendIsConcat
<1> QED BY <1>1, <1>2, ConcatAssociative

\* The requests of a stream cut anywhere: those complete in the first part,
\* then those complete in what SplitSegment leaves of it and the second part.
LEMMA AnswersConcat ==
  ASSUME NEW s \in Seq(Byte), NEW t \in Seq(Byte)
  PROVE  Answers(s \o t) = Answers(s) \o Answers(Rest(s) \o t)
<1> DEFINE r == Rest(s)
           T == {u \in Seq(Byte) : Answers(s \o u) = Answers(s) \o Answers(r \o u)}
<1>1. r \in Seq(Byte) /\ Answers(s) \in Seq(Answer)
  BY RestType, AnswersType
<1>2. <<>> \in T
  <2>1. s \o <<>> = s /\ r \o <<>> = r /\ Answers(s) \o <<>> = Answers(s) /\ <<>> \in Seq(Byte)
    BY <1>1, ConcatEmptySeq, EmptySeq
  <2>2. Answers(r) = <<>>
    BY RestHasNoAnswer
  <2> HIDE DEF r
  <2> QED BY <2>1, <2>2
<1>3. ASSUME NEW u \in Seq(Byte), NEW b \in Byte, u \in T PROVE Append(u, b) \in T
  <2>1. Append(u, b) \in Seq(Byte) /\ s \o u \in Seq(Byte) /\ r \o u \in Seq(Byte)
    BY <1>1, AppendProperties, ConcatProperties
  <2>2. s \o Append(u, b) = Append(s \o u, b) /\ r \o Append(u, b) = Append(r \o u, b)
    BY <1>1, ConcatAppend
  <2>3. Completes(r \o u, b) <=> Completes(s \o u, b)
    BY CompletesRest
  <2>4. Answers(s \o u) = Answers(s) \o Answers(r \o u)
    BY <1>3
  <2> HIDE DEF r
  <2>5. /\ Answers(Append(s \o u, b)) =
             IF Completes(s \o u, b) THEN Answers(s \o u) \o Reply(b) ELSE Answers(s \o u)
        /\ Answers(Append(r \o u, b)) =
             IF Completes(r \o u, b) THEN Answers(r \o u) \o Reply(b) ELSE Answers(r \o u)
    BY <2>1, AnswersAppend
  <2>6. CASE Completes(s \o u, b)
    <3> DEFINE v == Reply(b)
               w == Answers(s)
               x == Answers(r \o u)
    <3>1. v \in Seq(Answer) /\ w \in Seq(Answer) /\ x \in Seq(Answer)
      BY <1>1, <2>1, <2>6, AnswersType, ReplyType DEF Completes
    <3> HIDE DEF v, w, x
    <3>2. (w \o x) \o v = w \o (x \o v)
      BY ONLY <3>1, ConcatAssociative
    <3>3. Answers(s) \o (Answers(r \o u) \o Reply(b)) = (Answers(s) \o Answers(r \o u)) \o Reply(b)
      BY <3>2 DEF v, w, x
    <3> QED BY <2>1, <2>2, <2>3, <2>4, <2>5, <2>6, <3>3
  <2>7. CASE ~ Completes(s \o u, b)
    BY <2>1, <2>2, <2>3, <2>4, <2>5, <2>7
  <2> QED BY <2>6, <2>7
<1>4. \A u \in Seq(Byte) : u \in T
  <2> HIDE DEF T
  <2> QED BY <1>2, <1>3, SeqInductionSet
<1> QED BY <1>4

\* The bytes k+1 .. n of what a client writes.
Segment(k, n) == [i \in 1..(n - k) |-> k + i]

LEMMA SegmentFacts ==
  ASSUME NEW n \in 0..2*Requests, NEW k \in 0..n
  PROVE  /\ Segment(k, n) \in Seq(Byte)
         /\ Len(Segment(k, n)) = n - k
         /\ \A i \in 1..(n - k) : Segment(k, n)[i] = k + i
<1>1. n \in Nat /\ k \in Nat /\ k <= n /\ n <= 2*Requests /\ n - k \in Nat
  BY ConstantsAssumption
<1>2. \A i \in 1..(n - k) : k + i \in Byte
  <2> DEFINE N == 2*Requests
  <2>1. N \in Nat
    BY ConstantsAssumption
  <2> HIDE DEF N
  <2>2. \A i \in 1..(n - k) : k + i \in 1..N
    BY ONLY <1>1, <2>1 DEF N
  <2> QED BY <2>2 DEF Byte, N
<1> QED BY <1>1, <1>2 DEF Segment

LEMMA SegmentAppend ==
  ASSUME NEW n \in 0..2*Requests, NEW k \in 0..n, n < 2*Requests
  PROVE  Append(Segment(k, n), n + 1) = Segment(k, n + 1)
<1> DEFINE s == Append(Segment(k, n), n + 1)
           t == Segment(k, n + 1)
           m == n - k
<1>1. n \in Nat /\ k \in Nat /\ k <= n /\ Requests \in Nat
      /\ n + 1 \in 0..2*Requests /\ k \in 0..(n + 1) /\ n + 1 \in Byte
  BY ConstantsAssumption DEF Byte
<1>2. m \in Nat /\ (n + 1) - k = m + 1 /\ k + (m + 1) = n + 1
  BY <1>1
<1>3. /\ s \in Seq(Byte) /\ Len(s) = m + 1
      /\ \A i \in 1..m : s[i] = k + i
      /\ s[m + 1] = n + 1
  <2> DEFINE u == Segment(k, n)
  <2>1. u \in Seq(Byte) /\ Len(u) = m /\ \A i \in 1..m : u[i] = k + i
    BY SegmentFacts
  <2>2. /\ s \in Seq(Byte) /\ Len(s) = Len(u) + 1
        /\ \A i \in 1..Len(u) : s[i] = u[i]
        /\ s[Len(u) + 1] = n + 1
    BY <1>1, <2>1, AppendProperties
  <2> HIDE DEF s, u, m
  <2> QED BY <2>1, <2>2
<1>4. t \in Seq(Byte) /\ Len(t) = m + 1 /\ \A i \in 1..(m + 1) : t[i] = k + i
  <2>1. t \in Seq(Byte) /\ Len(t) = (n + 1) - k /\ \A i \in 1..((n + 1) - k) : t[i] = k + i
    BY <1>1, SegmentFacts
  <2> HIDE DEF t, m
  <2> QED BY <1>2, <2>1
<1> HIDE DEF s, t, m
<1>5. \A i \in 1..(m + 1) : s[i] = t[i]
  <2>1. \A i \in 1..(m + 1) : i \in 1..m \/ i = m + 1
    BY <1>2
  <2> QED BY <1>2, <1>3, <1>4, <2>1
<1>6. s = t
  BY <1>3, <1>4, <1>5, SeqEqual
<1> QED BY <1>6 DEF s, t

\* Whether the next byte completes a request does not depend on how many of
\* the earlier ones are already gone.
LEMMA CompletesSegment ==
  ASSUME NEW n \in 0..2*Requests, NEW k \in 0..n, k % 2 = 0
  PROVE  Completes(Segment(k, n), n + 1) <=> Completes(Segment(0, n), n + 1)
<1>1. n \in Nat /\ k \in Nat /\ k <= n /\ 0 \in 0..n
  BY ConstantsAssumption
<1>2. CASE ~ IsSep(n + 1)
  BY <1>2 DEF Completes
<1>3. CASE IsSep(n + 1)
  <2>1. n # k /\ n # 0
    <3>1. (n + 1) % 2 = 0
      BY <1>3 DEF IsSep
    <3> QED BY ONLY <1>1, <3>1, k % 2 = 0
  <2>2. n - k \in 1..(n - k) /\ k + (n - k) = n /\ n - 0 \in 1..(n - 0) /\ n - 0 = n
    BY ONLY <1>1, <2>1
  <2>3. Len(Segment(k, n)) = n - k /\ Segment(k, n)[n - k] = n
    BY <2>2, SegmentFacts
  <2>4. Len(Segment(0, n)) = n - 0 /\ Segment(0, n)[n - 0] = 0 + (n - 0)
    BY <1>1, <2>2, SegmentFacts
  <2>5. Segment(k, n) # <<>> /\ Segment(0, n) # <<>>
    BY <1>1, <2>1, <2>3, <2>4, EmptySeq
  <2> QED BY <1>1, <2>3, <2>4, <2>5 DEF Completes
<1> QED BY <1>2, <1>3

\* What SplitSegment leaves is again a segment that starts after a request.
LEMMA SegmentRest ==
  ASSUME NEW n \in 0..2*Requests, NEW k \in 0..n, k % 2 = 0,
         NEW s \in Seq(Byte), NEW t \in Seq(Byte), s \o t = Segment(k, n)
  PROVE  \E j \in 0..n : j % 2 = 0 /\ Rest(s) \o t = Segment(j, n)
<1> DEFINE p == Len(s)
           m == Len(t)
           r == Rest(s)
<1>1. n \in Nat /\ k \in Nat /\ k <= n /\ p \in Nat /\ m \in Nat /\ r \in Seq(Byte)
      /\ \A i \in 1..p : s[i] \in Byte
  BY ConstantsAssumption, LenProperties, ElementOfSeq, RestType
<1>2. PICK q \in 0..p : r = SubSeq(s, q + 1, p) /\ (q = 0 \/ IsSep(s[q]))
  BY RestShape
<1>3. /\ Len(s \o t) = p + m
      /\ \A i \in 1..(p + m) : (s \o t)[i] = IF i <= p THEN s[i] ELSE t[i - p]
  BY ConcatProperties
<1>4. Len(s \o t) = n - k /\ \A i \in 1..(n - k) : (s \o t)[i] = k + i
  BY SegmentFacts
<1>5. Len(r) = p - q /\ \A i \in 1..(p - q) : r[i] = s[q + i]
  <2>1. q + 1 \in Int /\ p \in Int /\ \A i \in (q + 1)..p : s[i] \in Byte
    BY <1>1
  <2>2. /\ Len(SubSeq(s, q + 1, p)) = IF q + 1 <= p THEN p - (q + 1) + 1 ELSE 0
        /\ \A i \in 1..(p - (q + 1) + 1) : SubSeq(s, q + 1, p)[i] = s[(q + 1) + i - 1]
    BY <2>1, SubSeqProperties
  <2> HIDE DEF r, p
  <2>3. p - (q + 1) + 1 = p - q /\ (~ (q + 1 <= p) => p - q = 0)
    BY <1>1
  <2>4. \A i \in 1..(p - q) : (q + 1) + i - 1 = q + i
    BY <1>1
  <2> QED BY <1>2, <2>2, <2>3, <2>4
<1>6. /\ r \o t \in Seq(Byte) /\ Len(r \o t) = (p - q) + m
      /\ \A i \in 1..((p - q) + m) : (r \o t)[i] = IF i <= p - q THEN r[i] ELSE t[i - (p - q)]
  <2>1. r \o t \in Seq(Byte) /\ Len(r \o t) = Len(r) + m
        /\ \A i \in 1..(Len(r) + m) : (r \o t)[i] = IF i <= Len(r) THEN r[i] ELSE t[i - Len(r)]
    BY <1>1, ConcatProperties
  <2> HIDE DEF r, p, m
  <2> QED BY <1>5, <2>1
<1> HIDE DEF p, m, r
<1> DEFINE j == k + q
<1>7. q \in Nat /\ q <= p /\ p + m = n - k
  BY <1>1, <1>3, <1>4
<1>8. j \in 0..n /\ (p - q) + m = n - j
  BY ONLY <1>1, <1>7
<1>9. \A i \in 1..p : s[i] = k + i
  <2>1. \A i \in 1..p : i \in 1..(p + m) /\ i \in 1..(n - k) /\ i <= p
    BY ONLY <1>1, <1>7
  <2> QED BY <1>3, <1>4, <2>1
<1>10. \A i \in 1..m : t[i] = k + (p + i)
  <2>1. \A i \in 1..m : p + i \in 1..(p + m) /\ p + i \in 1..(n - k) /\ ~ (p + i <= p) /\ (p + i) - p = i
    BY ONLY <1>1, <1>7
  <2> QED BY <1>3, <1>4, <2>1
<1>11. j % 2 = 0
  <2>1. CASE q = 0
    BY <1>1, <2>1
  <2>2. CASE q # 0
    <3>1. q \in 1..p
      BY ONLY <1>1, <1>7, <2>2
    <3>2. (k + q) % 2 = 0
      BY <1>2, <1>9, <2>2, <3>1 DEF IsSep
    <3> QED BY <3>2
  <2> QED BY <2>1, <2>2
<1>12. \A i \in 1..(n - j) : (r \o t)[i] = j + i
  <2> SUFFICES ASSUME NEW i \in 1..(n - j) PROVE (r \o t)[i] = j + i
    OBVIOUS
  <2>1. i \in 1..((p - q) + m) /\ i \in Nat /\ i >= 1
    BY <1>8
  <2>2. CASE i <= p - q
    <3>1. i \in 1..(p - q) /\ q + i \in 1..p /\ k + (q + i) = j + i
      BY ONLY <1>1, <1>7, <2>1, <2>2
    <3> QED BY <1>5, <1>6, <1>9, <2>1, <2>2, <3>1
  <2>3. CASE ~ (i <= p - q)
    <3>1. i - (p - q) \in 1..m /\ k + (p + (i - (p - q))) = j + i
      BY ONLY <1>1, <1>7, <2>1, <2>3
    <3>2. (r \o t)[i] = t[i - (p - q)]
      BY <1>6, <2>1, <2>3
    <3> HIDE DEF j
    <3> QED BY <1>10, <3>1, <3>2
  <2> QED BY <2>2, <2>3
<1>13. r \o t = Segment(j, n)
  <2> HIDE DEF j
  <2>1. Segment(j, n) \in Seq(Byte) /\ Len(Segment(j, n)) = n - j
        /\ \A i \in 1..(n - j) : Segment(j, n)[i] = j + i
    BY <1>8, SegmentFacts
  <2>2. Len(r \o t) = n - j
    BY <1>6, <1>8
  <2> QED BY <1>6, <1>12, <2>1, <2>2, SeqEqual
<1> HIDE DEF j
<1> QED BY <1>8, <1>11, <1>13 DEF r

-----------------------------------------------------------------------------
\* One connection: p the answers that have been sent and left the output
\* buffer, o the output buffer, i the input buffer, r the receive queue and n
\* the bytes written.  The answers on the way are those to all that was
\* written, and the bytes on the way are the last ones written, starting
\* after a request.
Stream(p, o, i, r, n) ==
  /\ (p \o o) \o Answers(i \o r) = Answers(Segment(0, n))
  /\ \E k \in 0..n : k % 2 = 0 /\ i \o r = Segment(k, n)

\* Answers written after s.
StartsWith(t, s) == \E u \in Seq(Answer) : t = s \o u

LEMMA StartsWithTrans ==
  ASSUME NEW s \in Seq(Answer), NEW t \in Seq(Answer), NEW v \in Seq(Answer),
         StartsWith(t, s), StartsWith(v, t)
  PROVE  StartsWith(v, s)
<1>1. PICK u \in Seq(Answer) : t = s \o u
  BY DEF StartsWith
<1>2. PICK w \in Seq(Answer) : v = t \o w
  BY DEF StartsWith
<1>3. v = s \o (u \o w) /\ u \o w \in Seq(Answer)
  BY <1>1, <1>2, ConcatAssociative, ConcatProperties
<1> QED BY <1>3 DEF StartsWith

LEMMA StartsWithItself ==
  ASSUME NEW s \in Seq(Answer)
  PROVE  StartsWith(s, s)
<1>1. s = s \o <<>> /\ <<>> \in Seq(Answer)
  BY ConcatEmptySeq, EmptySeq
<1> QED BY <1>1 DEF StartsWith

\* A longer sequence starts with a shorter one: the form AnswersInOrder uses.
LEMMA StartsWithSubSeq ==
  ASSUME NEW s \in Seq(Answer), NEW t \in Seq(Answer), StartsWith(t, s)
  PROVE  Len(s) <= Len(t) /\ s = SubSeq(t, 1, Len(s))
<1>1. PICK u \in Seq(Answer) : t = s \o u
  BY DEF StartsWith
<1> DEFINE n == Len(s)
           m == Len(u)
<1>2. /\ n \in Nat /\ m \in Nat /\ Len(t) = n + m
      /\ \A i \in 1..(n + m) : t[i] = IF i <= n THEN s[i] ELSE u[i - n]
      /\ \A i \in 1..Len(t) : t[i] \in Answer
  BY <1>1, ConcatProperties, LenProperties, ElementOfSeq
<1> HIDE DEF m
<1>3. \A i \in 1..n : i \in 1..(n + m) /\ i <= n
  BY <1>2
<1>4. \A i \in 1..n : t[i] = s[i] /\ t[i] \in Answer
  BY <1>2, <1>3
<1>5. /\ SubSeq(t, 1, n) \in Seq(Answer)
      /\ Len(SubSeq(t, 1, n)) = IF 1 <= n THEN n - 1 + 1 ELSE 0
      /\ \A i \in 1..(n - 1 + 1) : SubSeq(t, 1, n)[i] = t[1 + i - 1]
  BY <1>2, <1>4, SubSeqProperties
<1>6. Len(SubSeq(t, 1, n)) = n /\ \A i \in 1..n : SubSeq(t, 1, n)[i] = t[i]
  <2> DEFINE v == SubSeq(t, 1, n)
  <2>1. v = SubSeq(t, 1, n)
    OBVIOUS
  <2> HIDE DEF v, n
  <2> QED BY <1>2, <1>5, <2>1
<1>7. s = SubSeq(t, 1, n)
  BY <1>4, <1>5, <1>6, SeqEqual
<1>8. n <= Len(t)
  BY <1>2
<1> QED BY <1>7, <1>8

LEMMA WrittenAnswers ==
  ASSUME NEW n \in 0..2*Requests
  PROVE  Answers(Segment(0, n)) \in Seq(Answer) /\ Segment(0, n) \in Seq(Byte)
<1>1. 0 \in 0..n
  BY ConstantsAssumption
<1> QED BY <1>1, SegmentFacts, AnswersType

\* What a client has written asks for the earlier answers first.
LEMMA WrittenGrows ==
  ASSUME NEW n \in 0..2*Requests, n < 2*Requests
  PROVE  StartsWith(Answers(Segment(0, n + 1)), Answers(Segment(0, n)))
<1> DEFINE s == Segment(0, n)
           b == n + 1
<1>1. 0 \in 0..n /\ b \in Byte
  BY ConstantsAssumption DEF Byte
<1>2. s \in Seq(Byte) /\ Answers(s) \in Seq(Answer) /\ Segment(0, n + 1) = Append(s, b)
  BY <1>1, WrittenAnswers, SegmentAppend
<1>3. Answers(Append(s, b)) = IF Completes(s, b) THEN Answers(s) \o Reply(b) ELSE Answers(s)
  BY <1>1, <1>2, AnswersAppend
<1>4. CASE Completes(s, b)
  <2>1. Reply(b) \in Seq(Answer)
    BY <1>1, <1>4, ReplyType DEF Completes
  <2> QED BY <1>2, <1>3, <1>4, <2>1 DEF StartsWith
<1>5. CASE ~ Completes(s, b)
  BY <1>2, <1>3, <1>5, StartsWithItself
<1> QED BY <1>4, <1>5

\* Never more answers than what the client writes in the end asks for.
LEMMA WrittenBound ==
  ASSUME NEW m \in 0..2*Requests, NEW n \in 0..m
  PROVE  Len(Answers(Segment(0, n))) <= Len(Answers(Segment(0, m)))
<1> DEFINE L(x) == Len(Answers(Segment(0, x)))
           S == {x \in Nat : n <= x /\ x <= m => L(n) <= L(x)}
<1>1. /\ n \in Nat /\ m \in Nat /\ n <= m
      /\ \A x \in 0..m : x \in 0..2*Requests /\ (x < m => x < 2*Requests)
  BY ConstantsAssumption
<1>2. \A x \in 0..m : L(x) \in Nat
  BY <1>1, WrittenAnswers, LenProperties
<1>3. \A x \in 0..m : x < m => L(x) <= L(x + 1)
  <2> SUFFICES ASSUME NEW x \in 0..m, x < m PROVE L(x) <= L(x + 1)
    OBVIOUS
  <2>1. x + 1 \in 0..m
    BY <1>1
  <2>2. Answers(Segment(0, x)) \in Seq(Answer) /\ Answers(Segment(0, x + 1)) \in Seq(Answer)
    BY <1>1, <2>1, WrittenAnswers
  <2>3. StartsWith(Answers(Segment(0, x + 1)), Answers(Segment(0, x)))
    BY <1>1, WrittenGrows
  <2> QED BY <2>2, <2>3, StartsWithSubSeq
<1> HIDE DEF L
<1>4. 0 \in S
  BY <1>1, <1>2
<1>5. ASSUME NEW x \in Nat, x \in S PROVE x + 1 \in S
  <2>1. SUFFICES ASSUME n <= x + 1, x + 1 <= m PROVE L(n) <= L(x + 1)
    OBVIOUS
  <2>2. x \in 0..m /\ x < m /\ n \in 0..m /\ (n <= x \/ n = x + 1) /\ x <= m
    BY <1>1, <2>1
  <2>3. n <= x => L(n) <= L(x)
    BY <1>5, <2>2
  <2>4. L(x) <= L(x + 1) /\ L(x) \in Nat /\ L(n) \in Nat /\ L(x + 1) \in Nat
    <3>1. x + 1 \in 0..m
      BY <2>1
    <3> QED BY <1>2, <1>3, <2>2, <3>1
  <2> QED BY <2>2, <2>3, <2>4
<1>6. m \in S
  <2> HIDE DEF S
  <2> QED BY <1>1, <1>4, <1>5, NatInductionSet
<1> QED BY <1>1, <1>6 DEF L

\* What a connection is made of.
Channel(p, o, i, r, n) ==
  /\ p \in Seq(Answer) /\ o \in Seq(Answer)
  /\ i \in Seq(Byte) /\ r \in Seq(Byte)
  /\ n \in 0..2*Requests

\* PeerSend.
LEMMA StreamWrite ==
  ASSUME NEW p, NEW o, NEW i, NEW r, NEW n, Channel(p, o, i, r, n),
         Stream(p, o, i, r, n), n < 2*Requests
  PROVE  Stream(p, o, i, Append(r, n + 1), n + 1)
<1> USE DEF Channel
<1> DEFINE b == n + 1
           x == i \o r
           w == Segment(0, n)
           a == p \o o
<1>1. PICK k \in 0..n : k % 2 = 0 /\ x = Segment(k, n)
  BY DEF Stream
<1>2. /\ b \in Byte /\ b \in 0..2*Requests /\ 0 \in 0..n /\ k \in 0..b
      /\ x \in Seq(Byte) /\ w \in Seq(Byte) /\ a \in Seq(Answer)
  <2>1. b \in Byte /\ b \in 0..2*Requests /\ 0 \in 0..n /\ k \in 0..b
    BY ConstantsAssumption DEF Byte
  <2>2. x \in Seq(Byte) /\ w \in Seq(Byte) /\ a \in Seq(Answer)
    BY ConcatProperties, WrittenAnswers
  <2> QED BY <2>1, <2>2
<1>3. i \o Append(r, b) = Append(x, b)
  BY <1>2, ConcatAppend
<1>4. Append(x, b) = Segment(k, b) /\ Append(w, b) = Segment(0, b)
  BY <1>1, <1>2, SegmentAppend
<1>5. Completes(x, b) <=> Completes(w, b)
  BY <1>1, CompletesSegment
<1>6. a \o Answers(x) = Answers(w)
  BY DEF Stream
<1> HIDE DEF x, w, a, b
<1>7. /\ Answers(Append(x, b)) = IF Completes(x, b) THEN Answers(x) \o Reply(b) ELSE Answers(x)
      /\ Answers(Append(w, b)) = IF Completes(w, b) THEN Answers(w) \o Reply(b) ELSE Answers(w)
  BY <1>2, AnswersAppend
<1>8. a \o Answers(Append(x, b)) = Answers(Append(w, b))
  <2>1. CASE Completes(x, b)
    <3> DEFINE v == Reply(b)
               y == Answers(x)
    <3>1. a \in Seq(Answer) /\ v \in Seq(Answer) /\ y \in Seq(Answer)
      BY <1>2, <2>1, AnswersType, ReplyType DEF Completes
    <3> HIDE DEF v, y
    <3>2. a \o (y \o v) = (a \o y) \o v
      BY ONLY <3>1, ConcatAssociative
    <3>3. a \o (Answers(x) \o Reply(b)) = (a \o Answers(x)) \o Reply(b)
      BY <3>2 DEF v, y
    <3> QED BY <1>5, <1>6, <1>7, <2>1, <3>3
  <2>2. CASE ~ Completes(x, b)
    BY <1>5, <1>6, <1>7, <2>2
  <2> QED BY <2>1, <2>2
<1>9. (p \o o) \o Answers(i \o Append(r, b)) = Answers(Segment(0, b))
  BY <1>3, <1>4, <1>8 DEF a
<1>10. i \o Append(r, b) = Segment(k, b)
  BY <1>3, <1>4
<1> QED BY <1>1, <1>2, <1>9, <1>10 DEF Stream, b

\* PeerRead.
LEMMA HeadMoves ==
  ASSUME NEW g \in Seq(Answer), NEW s \in Seq(Answer), s # <<>>
  PROVE  Append(g, Head(s)) \o Tail(s) = g \o s
<1>1. Head(s) \in Answer /\ Tail(s) \in Seq(Answer) /\ <<Head(s)>> \in Seq(Answer)
  BY HeadTailProperties
<1>2. Append(g, Head(s)) = g \o <<Head(s)>>
  BY <1>1, AppendIsConcat
<1>3. <<Head(s)>> \o Tail(s) = s
  <2>1. Len(s) \in Nat /\ Len(s) > 0
    BY SeqFacts
  <2>2. 1 \in 1..Len(s) /\ Len(s) \in 1..Len(s)
    BY <2>1
  <2>3. SubSeq(s, 1, Len(s)) = <<s[1]>> \o SubSeq(s, 1 + 1, Len(s))
    BY <2>2, SubSeqRecursiveFirst
  <2>4. SubSeq(s, 1, Len(s)) = s /\ Tail(s) = SubSeq(s, 2, Len(s)) /\ Head(s) = s[1]
    BY SubSeqFull, TailIsSubSeq
  <2> QED BY <2>3, <2>4
<1> QED BY <1>1, <1>2, <1>3, ConcatAssociative

\* RecvChunk.
LEMMA StreamReceive ==
  ASSUME NEW p, NEW o, NEW i, NEW r, NEW n, Channel(p, o, i, r, n),
         Stream(p, o, i, r, n), NEW m \in 0..Len(r)
  PROVE  Stream(p, o, i \o SubSeq(r, 1, m), SubSeq(r, m + 1, Len(r)), n)
<1> DEFINE x == SubSeq(r, 1, m)
           y == SubSeq(r, m + 1, Len(r))
<1>1. Len(r) \in Nat /\ r \in Seq(Byte) /\ i \in Seq(Byte)
  BY LenProperties DEF Channel
<1>2. x \in Seq(Byte) /\ y \in Seq(Byte)
  BY <1>1, SeqFacts
<1>3. x \o y = r
  <2>1. 1 \in 1..Len(r) + 1 /\ m \in 1 - 1 .. Len(r) /\ Len(r) \in m .. Len(r)
    BY <1>1
  <2>2. x \o y = SubSeq(r, 1, Len(r))
    BY <1>1, <2>1, ConcatAdjacentSubSeq
  <2> QED BY <1>1, <2>2, SubSeqFull
<1> HIDE DEF x, y
<1>4. (i \o x) \o y = i \o r
  <2>1. (i \o x) \o y = i \o (x \o y)
    BY ONLY <1>1, <1>2, ConcatAssociative
  <2> QED BY <1>3, <2>1
<1> QED BY <1>4 DEF Stream, x, y

\* Process.
LEMMA StreamProcess ==
  ASSUME NEW p, NEW o, NEW i, NEW r, NEW n, Channel(p, o, i, r, n),
         Stream(p, o, i, r, n)
  PROVE  Stream(p, o \o Answers(i), Rest(i), r, n)
<1> USE DEF Channel
<1> DEFINE a == Answers(i)
           b == Answers(Rest(i) \o r)
<1>1. p \in Seq(Answer) /\ o \in Seq(Answer) /\ a \in Seq(Answer) /\ b \in Seq(Answer)
      /\ p \o o \in Seq(Answer)
  BY ConcatProperties, AnswersType, RestType
<1>2. Answers(i \o r) = a \o b
  BY AnswersConcat
<1> HIDE DEF a, b
<1>3. (p \o o) \o (a \o b) = ((p \o o) \o a) \o b
  <2> DEFINE q == p \o o
  <2>1. q \in Seq(Answer) /\ a \in Seq(Answer) /\ b \in Seq(Answer)
    BY <1>1
  <2> HIDE DEF q
  <2>2. (q \o a) \o b = q \o (a \o b)
    BY ONLY <2>1, ConcatAssociative
  <2> QED BY <2>2 DEF q
<1>4. (p \o o) \o a = p \o (o \o a)
  BY ONLY <1>1, ConcatAssociative
<1>5. (p \o (o \o a)) \o b = Answers(Segment(0, n))
  BY <1>2, <1>3, <1>4 DEF Stream
<1>6. PICK k \in 0..n : k % 2 = 0 /\ i \o r = Segment(k, n)
  BY DEF Stream
<1>7. \E j \in 0..n : j % 2 = 0 /\ Rest(i) \o r = Segment(j, n)
  BY <1>6, SegmentRest
<1> QED BY <1>5, <1>7 DEF Stream, a, b

\* SendAll.
LEMMA StreamSend ==
  ASSUME NEW p, NEW o, NEW i, NEW r, NEW n, Channel(p, o, i, r, n),
         Stream(p, o, i, r, n)
  PROVE  Stream(p \o o, <<>>, i, r, n)
<1> USE DEF Channel
<1>1. p \o o \in Seq(Answer) /\ (p \o o) \o <<>> = p \o o
  BY ConcatProperties, ConcatEmptySeq
<1> QED BY <1>1 DEF Stream

\* What was sent and what is in the buffer belongs to the answers asked for.
LEMMA StreamBounds ==
  ASSUME NEW p, NEW o, NEW i, NEW r, NEW n, Channel(p, o, i, r, n),
         Stream(p, o, i, r, n)
  PROVE  /\ Len(p) + Len(o) <= Len(Answers(Segment(0, n)))
         /\ StartsWith(Answers(Segment(0, n)), p \o o)
<1> USE DEF Channel
<1> DEFINE a == Answers(i \o r)
<1>1. a \in Seq(Answer)
  BY ConcatProperties, AnswersType
<1>2. p \o o \in Seq(Answer) /\ Len(p \o o) = Len(p) + Len(o)
  BY ConcatProperties
<1>3. (p \o o) \o a = Answers(Segment(0, n))
  BY DEF Stream
<1>4. Len((p \o o) \o a) = Len(p \o o) + Len(a)
  BY <1>1, <1>2, ConcatProperties
<1>5. Len(p) \in Nat /\ Len(o) \in Nat /\ Len(a) \in Nat
  BY <1>1, LenProperties
<1>6. Len(p) + Len(o) <= Len(Answers(Segment(0, n)))
  BY <1>2, <1>3, <1>4, <1>5
<1>7. StartsWith(Answers(Segment(0, n)), p \o o)
  BY <1>1, <1>3 DEF StartsWith
<1> QED BY <1>6, <1>7
-----------------------------------------------------------------------------
LEMMA InitSafe == Init => Safe
<1> SUFFICES ASSUME Init PROVE Safe
  OBVIOUS
<1>1. TypeOK
  <2>1. /\ <<>> \in Seq(Byte) /\ <<>> \in Seq(Answer) /\ <<>> \in Seq(Clients)
        /\ {} \in Mask /\ {"IN", "ET"} \in Mask /\ 0 \in 0..2*Requests /\ 0 \in 0..AddFaults
    BY ConstantsAssumption, EmptySeq DEF Mask
  <2> QED BY <2>1 DEF Init, TypeOK, AllFds
<1>2. MapMatchesEpoll /\ HandlerEventLive /\ BatchFresh /\ Shape
  BY ConstantsAssumption DEF Init, MapMatchesEpoll, HandlerEventLive, BatchFresh, Shape, AllFds
<1> QED BY <1>1, <1>2 DEF Safe

\* Every step keeps the types.
LEMMA TypeStep == Safe /\ [Next]_vars => TypeOK'
<1> SUFFICES ASSUME Safe, [Next]_vars PROVE TypeOK'
  OBVIOUS
<1> USE ConstantsAssumption
<1>t. TypeOK
  BY DEF Safe
<1>s. Shape
  BY DEF Safe
<1>d. ASSUME NEW fd \in Fds, DeleteEvent(fd)
      PROVE  /\ owner' \in [Fds -> Clients \cup {None}]
             /\ epoll' \in [AllFds -> Mask]
             /\ ready' \subseteq AllFds /\ events' \subseteq AllFds
             /\ inbuf' \in [Fds -> Seq(Byte)]
             /\ outbuf' \in [Fds -> Seq(Answer)]
  <2>1. {} \in Mask /\ fd \in AllFds
    BY DEF Mask, AllFds
  <2>2. CASE fd \in events
    <3>1. <<>> \in Seq(Byte) /\ <<>> \in Seq(Answer)
      BY EmptySeq
    <3>2. /\ epoll' = [epoll EXCEPT ![fd] = {}]
          /\ ready' = ready \ {fd} /\ events' = events \ {fd}
          /\ owner' = [owner EXCEPT ![fd] = None]
          /\ inbuf' = [inbuf EXCEPT ![fd] = <<>>]
          /\ outbuf' = [outbuf EXCEPT ![fd] = <<>>]
      BY <1>d, <2>2 DEF DeleteEvent
    <3>3. /\ owner \in [Fds -> Clients \cup {None}] /\ epoll \in [AllFds -> Mask]
          /\ ready \subseteq AllFds /\ events \subseteq AllFds
          /\ inbuf \in [Fds -> Seq(Byte)] /\ outbuf \in [Fds -> Seq(Answer)]
      BY <1>t DEF TypeOK
    <3> QED BY <2>1, <3>1, <3>2, <3>3
  <2>3. CASE fd \notin events
    BY <1>t, <1>d, <2>3 DEF TypeOK, DeleteEvent, kernel, heap
  <2> QED BY <2>2, <2>3
<1>e. ASSUME NEW fd \in AllFds, NEW mask \in Mask, NEW level, EpollCtl(fd, mask, level)
      PROVE  epoll' \in [AllFds -> Mask] /\ ready' \subseteq AllFds
  BY <1>t, <1>e DEF TypeOK, EpollCtl
<1>m. /\ {"IN", "ET"} \in Mask
      /\ \A r, w \in BOOLEAN :
           {"ET"} \cup (IF r THEN {"IN"} ELSE {}) \cup (IF w THEN {"OUT"} ELSE {}) \in Mask
  BY DEF Mask
<1>r. ASSUME NEW fd \in Fds, NEW r \in BOOLEAN, NEW w \in BOOLEAN, NEW level,
             EnableRW(fd, r, w, level)
      PROVE  epoll' \in [AllFds -> Mask] /\ ready' \subseteq AllFds
  BY <1>e, <1>m, <1>r DEF EnableRW, AllFds
<1>c. pc \in {"recv", "process", "send"} => cur.fd \in Fds /\ cur.fd \in AllFds
  BY <1>s DEF Shape, AllFds
<1>h. pc \in {"recv", "process", "send"} => Conn \in Clients
  BY <1>t, <1>c DEF Safe, TypeOK, MapMatchesEpoll, HandlerEventLive, Conn
<1>1. CASE \E c \in Clients : Peer(c)
  <2>1. PICK c \in Clients : Peer(c)
    BY <1>1
  <2>w. \A evs : Wake(c, evs) => ready' \subseteq AllFds
    BY <1>t DEF Wake, TypeOK, AllFds
  <2>2. CASE Connect(c)
    BY <1>t, <2>2, SeqFacts DEF TypeOK, Connect, heap, thread, AllFds
  <2>3. CASE PeerSend(c)
    <3>1. rcv' \in [Clients -> Seq(Byte)]
      <4>1. sent[c] \in 0 .. 2*Requests /\ sent[c] < 2*Requests /\ rcv[c] \in Seq(Byte)
        BY <1>t, <2>3 DEF TypeOK, PeerSend
      <4>2. sent[c] + 1 \in Byte
        BY <4>1 DEF Byte
      <4>3. Append(rcv[c], sent[c] + 1) \in Seq(Byte)
        BY <4>1, <4>2, SeqFacts
      <4> QED BY <1>t, <2>3, <4>3 DEF TypeOK, PeerSend
    <3>2. sent' \in [Clients -> 0 .. 2*Requests]
      <4>1. sent[c] < 2*Requests
        <5>1. Quota[c] \in 0..Requests /\ sent[c] < 2*Quota[c] /\ sent[c] \in 0..2*Requests
          BY <1>t, <2>3 DEF TypeOK, PeerSend
        <5> QED BY <5>1
      <4>2. sent[c] + 1 \in 0..2*Requests
        <5>1. Requests \in Nat /\ sent[c] \in 0..2*Requests
          BY <1>t DEF TypeOK
        <5> HIDE ConstantsAssumption
        <5> QED BY <4>1, <5>1
      <4>3. sent \in [Clients -> 0..2*Requests] /\ sent' = [sent EXCEPT ![c] = sent[c] + 1]
        BY <1>t, <2>3 DEF TypeOK, PeerSend
      <4> QED BY <4>2, <4>3
    <3>3. QED BY <1>t, <2>3, <2>w, <3>1, <3>2 DEF TypeOK, PeerSend, heap, thread
  <2>4. CASE PeerShutdown(c)
    BY <1>t, <2>4, <2>w DEF TypeOK, PeerShutdown, heap, thread
  <2>5. CASE PeerReset(c)
    BY <1>t, <2>5, <2>w, EmptySeq DEF TypeOK, PeerReset, heap, thread, Aborted
  <2>6. CASE PeerRead(c)
    <3>1. got' \in [Clients -> Seq(Answer)] /\ snd' \in [Clients -> Seq(Answer)]
      BY <1>t, <2>6, SeqFacts DEF TypeOK, PeerRead
    <3>2. QED BY <1>t, <2>6, <2>w, <3>1 DEF TypeOK, PeerRead, heap, thread
  <2> QED BY <2>1, <2>2, <2>3, <2>4, <2>5, <2>6 DEF Peer
<1>2. CASE EpollWait
  <2>1. batch' \subseteq Entry
    BY <1>t, <1>2, LevelType DEF EpollWait, EntryOf, Entry, TypeOK, AllFds
  <2> QED BY <1>t, <1>2, <2>1 DEF TypeOK, EpollWait, peers, heap
<1>3. CASE DispatchRead
  BY <1>t, <1>3 DEF TypeOK, DispatchRead, peers, kernel, heap
<1>4. CASE DispatchWrite
  BY <1>t, <1>4 DEF TypeOK, DispatchWrite, peers, kernel, heap
<1>5. CASE AcceptOne
  <2>1. PICK fd \in Free :
          /\ owner' = [owner EXCEPT ![fd] = Head(backlog)]
          /\ newfd' = fd
          /\ inbuf' = [inbuf EXCEPT ![fd] = <<>>]
          /\ outbuf' = [outbuf EXCEPT ![fd] = <<>>]
    BY <1>5 DEF AcceptOne
  <2>2. Head(backlog) \in Clients /\ Tail(backlog) \in Seq(Clients)
    BY <1>t, <1>5, SeqFacts DEF AcceptOne, TypeOK
  <2> QED BY <1>t, <1>5, <2>1, <2>2, EmptySeq DEF TypeOK, AcceptOne, Free
<1>6. CASE AcceptDone
  BY <1>t, <1>6 DEF TypeOK, AcceptDone, peers, kernel, heap
<1>18. CASE AcceptError
  BY <1>t, <1>18 DEF TypeOK, AcceptError, kernel, heap
<1>7. CASE InsertEvent
  <2>1. newfd \in AllFds
    BY <1>s, <1>7 DEF Shape, InsertEvent, AllFds
  <2>2. epoll' \in [AllFds -> Mask] /\ ready' \subseteq AllFds
    BY <1>t, <1>7, <1>e, <1>m, <2>1 DEF TypeOK, InsertEvent
  <2>3. faults' \in 0..AddFaults /\ events' \subseteq AllFds
    <3>1. faults \in 0..AddFaults /\ events \subseteq AllFds /\ AddFaults \in Nat
      BY <1>t DEF TypeOK
    <3>2. \/ events' = events \cup {newfd} /\ faults' = faults
          \/ events' = events /\ faults < AddFaults /\ faults' = faults + 1
      BY <1>7 DEF InsertEvent
    <3> QED BY <2>1, <3>1, <3>2
  <2> QED BY <1>t, <1>7, <2>2, <2>3 DEF TypeOK, InsertEvent, peers
<1>8. CASE RecvChunk
  <2> DEFINE n == IF Len(rcv[Conn]) <= OnceSize THEN Len(rcv[Conn]) ELSE OnceSize
  <2>1. PICK c : c = Conn
    OBVIOUS
  <2>2. inbuf' = [inbuf EXCEPT ![cur.fd] = @ \o SubSeq(rcv[c], 1, n)]
        /\ rcv' = [rcv EXCEPT ![c] = SubSeq(@, n + 1, Len(@))]
    BY <1>8, <2>1 DEF RecvChunk
  <2>3. CASE c \in Clients
    <3>1. rcv[c] \in Seq(Byte) /\ inbuf[cur.fd] \in Seq(Byte)
      BY <1>t, <1>8, <1>c, <2>3 DEF TypeOK, RecvChunk
    <3>2. n \in Nat /\ n <= Len(rcv[c])
      BY <2>1, <3>1, SeqFacts
    <3>3. SubSeq(rcv[c], 1, n) \in Seq(Byte) /\ SubSeq(rcv[c], n+1, Len(rcv[c])) \in Seq(Byte)
      <4> HIDE DEF n
      <4> QED BY <3>1, <3>2, SeqFacts
    <3>4. inbuf[cur.fd] \o SubSeq(rcv[c], 1, n) \in Seq(Byte)
      <4> HIDE DEF n
      <4> QED BY <3>1, <3>3, SeqFacts
    <3>5. UNCHANGED <<peers, snd, kernel, events, outbuf, thread>>
      BY <1>8 DEF RecvChunk
    <3>6. inbuf' \in [Fds -> Seq(Byte)]
      <4> HIDE DEF n
      <4> QED BY <1>t, <2>2, <3>4 DEF TypeOK
    <3>7. rcv' \in [Clients -> Seq(Byte)]
      <4> HIDE DEF n
      <4> QED BY <1>t, <2>2, <3>3 DEF TypeOK
    <3> HIDE DEF n
    <3> QED BY <1>t, <3>5, <3>6, <3>7 DEF TypeOK, peers, kernel, thread
  <2>4. c \in Clients
    BY <1>h, <1>8, <2>1 DEF RecvChunk
  <2> QED BY <2>3, <2>4
<1>9. CASE RecvDrained
  BY <1>t, <1>9 DEF TypeOK, RecvDrained, peers, kernel, heap
<1>10. CASE RecvEnd
  <2>1. DeleteEvent(cur.fd) /\ cur.fd \in Fds
    BY <1>c, <1>10 DEF RecvEnd
  <2> QED BY <1>t, <1>10, <1>d, <2>1 DEF TypeOK, RecvEnd, peers
<1>11. CASE Process
  <2> DEFINE out == outbuf[cur.fd] \o Answers(inbuf[cur.fd])
  <2>1. cur.fd \in Fds /\ inbuf[cur.fd] \in Seq(Byte) /\ outbuf[cur.fd] \in Seq(Answer)
    BY <1>t, <1>11, <1>c DEF TypeOK, Process
  <2>2. out \in Seq(Answer) /\ Rest(inbuf[cur.fd]) \in Seq(Byte)
    BY <2>1, AnswersType, RestType, SeqFacts
  <2>3. /\ inbuf' = [inbuf EXCEPT ![cur.fd] = Rest(inbuf[cur.fd])]
        /\ outbuf' = [outbuf EXCEPT ![cur.fd] = out]
        /\ EnableRW(cur.fd, TRUE, TRUE, Level(cur.fd)) \/ UNCHANGED <<epoll, ready>>
    BY <1>11 DEF Process
  <2>4. epoll' \in [AllFds -> Mask] /\ ready' \subseteq AllFds
    BY <1>t, <1>r, <2>1, <2>3 DEF TypeOK
  <2>5. /\ pc' = "write"
        /\ UNCHANGED <<peers, rcv, snd, owner, events, batch, cur, newfd, faults>>
    BY <1>11 DEF Process
  <2>6. inbuf' \in [Fds -> Seq(Byte)] /\ outbuf' \in [Fds -> Seq(Answer)]
    <3> HIDE DEF out
    <3> QED BY <1>t, <2>2, <2>3 DEF TypeOK
  <2> HIDE DEF out
  <2> QED BY <1>t, <2>4, <2>5, <2>6 DEF TypeOK, peers
<1>12. CASE SendAll
  <2>1. cur.fd \in Fds /\ Conn \in Clients
    BY <1>c, <1>h, <1>12 DEF SendAll
  <2>2. snd[Conn] \o outbuf[cur.fd] \in Seq(Answer)
    BY <1>t, <2>1, SeqFacts DEF TypeOK
  <2>3. epoll' \in [AllFds -> Mask] /\ ready' \subseteq AllFds
    BY <1>r, <1>12, <2>1 DEF SendAll
  <2> QED BY <1>t, <1>12, <2>1, <2>2, <2>3, EmptySeq DEF TypeOK, SendAll, peers
<1>13. CASE SendShort
  <2>1. cur.fd \in Fds /\ Conn \in Clients
    BY <1>c, <1>h, <1>13 DEF SendShort
  <2>2. snd[Conn] \in Seq(Answer) /\ outbuf[cur.fd] \in Seq(Answer)
    BY <1>t, <2>1 DEF TypeOK
  <2>3. Room \in Nat /\ Room <= Len(outbuf[cur.fd])
    <3>1. Len(snd[Conn]) \in Nat /\ Len(outbuf[cur.fd]) \in Nat
      BY <2>2, SeqFacts
    <3>2. SndBuf - Len(snd[Conn]) > 0 /\ SndBuf - Len(snd[Conn]) < Len(outbuf[cur.fd])
      BY <1>13 DEF SendShort, Room
    <3>3. \A a, b, k \in Nat : a - b > 0 /\ a - b < k => a - b \in Nat /\ a - b <= k
      OBVIOUS
    <3>4. SndBuf \in Nat
      OBVIOUS
    <3> HIDE ConstantsAssumption
    <3> QED BY <3>1, <3>2, <3>3, <3>4 DEF Room
  <2>4. SubSeq(outbuf[cur.fd], 1, Room) \in Seq(Answer)
    BY <2>2, <2>3, SeqFacts
  <2>5. snd[Conn] \o SubSeq(outbuf[cur.fd], 1, Room) \in Seq(Answer)
    BY <2>2, <2>4, SeqFacts
  <2> QED BY <1>t, <1>13, <2>5 DEF TypeOK, SendShort, peers, kernel, heap, thread
<1>14. CASE SendFull
  <2>1. epoll' \in [AllFds -> Mask] /\ ready' \subseteq AllFds
    BY <1>r, <1>c, <1>14 DEF SendFull
  <2> QED BY <1>t, <1>14, <2>1 DEF TypeOK, SendFull, peers, heap
<1>15. CASE SendError
  <2>1. DeleteEvent(cur.fd) /\ cur.fd \in Fds
    BY <1>c, <1>15 DEF SendError
  <2> QED BY <1>t, <1>15, <1>d, <2>1 DEF TypeOK, SendError, peers
<1>16. CASE SendKilled
  <2>1. {} \in Mask /\ <<>> \in Seq(Byte) /\ <<>> \in Seq(Answer) /\ <<>> \in Seq(Clients)
    BY EmptySeq DEF Mask
  <2> QED BY <1>t, <1>16, <2>1 DEF TypeOK, SendKilled
<1>17. CASE EpollTimeout \/ UNCHANGED vars
  BY <1>t, <1>17 DEF TypeOK, EpollTimeout, vars, peers, kernel, heap, thread
<1> QED
  BY <1>1, <1>2, <1>3, <1>4, <1>5, <1>6, <1>7, <1>8, <1>9, <1>10, <1>11, <1>12,
     <1>13, <1>14, <1>15, <1>16, <1>17, <1>18 DEF Next, Server, Handler

-----------------------------------------------------------------------------
Core == MapMatchesEpoll /\ HandlerEventLive /\ BatchFresh /\ Shape

\* What no step of a peer and no step that only computes changes.
LEMMA CoreFrame ==
  ASSUME Core, UNCHANGED <<epoll, owner, events, outbuf, pc, cur, batch, newfd>>,
         ready' \subseteq events
  PROVE  Core'
BY DEF Core, MapMatchesEpoll, HandlerEventLive, BatchFresh, Shape

\* EPOLL_CTL_ADD or MOD with a mask that asks for read events.
LEMMA EpollCtlFacts ==
  ASSUME TypeOK, NEW fd \in AllFds, NEW mask \in Mask, "IN" \in mask, NEW level,
         EpollCtl(fd, mask, level)
  PROVE  /\ epoll'[fd] = mask /\ epoll'[fd] # {} /\ "IN" \in epoll'[fd]
         /\ \A other \in AllFds : other # fd => epoll'[other] = epoll[other]
         /\ ready \subseteq ready' /\ ready' \subseteq ready \cup {fd}
         /\ level \cap (mask \cup {"ERR"}) # {} => fd \in ready'
BY DEF TypeOK, EpollCtl

LEMMA EnableRWFacts ==
  ASSUME TypeOK, NEW fd \in Fds, NEW w \in BOOLEAN, NEW level,
         EnableRW(fd, TRUE, w, level)
  PROVE  /\ "IN" \in epoll'[fd] /\ ("OUT" \in epoll'[fd] <=> w)
         /\ \A other \in AllFds : other # fd => epoll'[other] = epoll[other]
         /\ ready \subseteq ready' /\ ready' \subseteq ready \cup {fd}
         /\ "IN" \in level \/ "ERR" \in level \/ (w /\ "OUT" \in level) => fd \in ready'
<1> DEFINE mask == {"ET"} \cup {"IN"} \cup (IF w THEN {"OUT"} ELSE {})
<1>1. mask \in Mask /\ "IN" \in mask /\ ("OUT" \in mask <=> w)
  BY DEF Mask
<1>2. EpollCtl(fd, mask, level)
  BY DEF EnableRW
<1>3. fd \in AllFds
  BY DEF AllFds
<1> HIDE DEF mask
<1>4. QED BY <1>1, <1>2, <1>3, EpollCtlFacts

LEMMA DeleteFacts ==
  ASSUME TypeOK, NEW fd \in Fds \cap events, DeleteEvent(fd)
  PROVE  /\ epoll'[fd] = {} /\ owner'[fd] = None
         /\ \A other \in AllFds : other # fd => epoll'[other] = epoll[other]
         /\ \A other \in Fds : other # fd =>
              /\ owner'[other] = owner[other]
              /\ outbuf'[other] = outbuf[other] /\ inbuf'[other] = inbuf[other]
         /\ ready' = ready \ {fd} /\ events' = events \ {fd}
BY DEF TypeOK, DeleteEvent, AllFds

\* Every step of a safe state leads to a safe state.
LEMMA CoreStep == Safe /\ [Next]_vars => Core'
<1> SUFFICES ASSUME Safe, [Next]_vars PROVE Core'
  OBVIOUS
<1> USE ConstantsAssumption
<1>t. TypeOK /\ Core
  BY DEF Safe, Core
<1>m. ready \subseteq events /\ (pc # "killed" => Listen \in events)
  BY <1>t DEF Core, MapMatchesEpoll, Shape
<1>c. pc \in {"recv", "process", "send"} =>
        cur.fd \in Fds \cap events /\ owner[cur.fd] = cur.conn /\ cur.fd \in AllFds
  BY <1>t DEF Core, Shape, HandlerEventLive, AllFds
<1>1. CASE \E c \in Clients : Peer(c)
  <2>1. PICK c \in Clients : Peer(c)
    BY <1>1
  <2>2. UNCHANGED <<epoll, owner, events, outbuf, pc, cur, batch, newfd>>
    BY <2>1 DEF Peer, Connect, PeerSend, PeerShutdown, PeerReset, PeerRead, heap, thread
  <2>w. \A evs : Wake(c, evs) => ready' \subseteq events
    BY <1>t, <1>m DEF Wake, Core, MapMatchesEpoll, AllFds
  <2>3. ready' \subseteq events
    <3>1. Connect(c) => ready' \subseteq events
      BY <1>m DEF Connect
    <3>2. PeerSend(c) \/ PeerShutdown(c) \/ PeerReset(c) => ready' \subseteq events
      BY <2>w DEF PeerSend, PeerShutdown, PeerReset
    <3>3. PeerRead(c) => ready' \subseteq events
      BY <1>m, <2>w DEF PeerRead
    <3> QED BY <2>1, <3>1, <3>2, <3>3 DEF Peer
  <2> QED BY <1>t, <2>2, <2>3, CoreFrame
<1>2. CASE EpollWait
  <2>1. PICK taken \in SUBSET ready :
          /\ batch' = {EntryOf(fd) : fd \in {f \in taken : Reported(f) # {}}}
          /\ ready' = ready \ taken
    BY <1>2 DEF EpollWait
  <2>2. UNCHANGED <<epoll, owner, events, outbuf, pc, cur, newfd>> /\ pc = "loop"
    BY <1>2 DEF EpollWait, heap
  <2>3. \A e \in batch' : e.fd \in events /\ e = EntryOf(e.fd)
    BY <1>m, <2>1 DEF EntryOf
  <2>4. BatchFresh'
    BY <2>2, <2>3 DEF BatchFresh, EntryOf
  <2>5. MapMatchesEpoll'
    BY <1>t, <2>1, <2>2 DEF MapMatchesEpoll, Core
  <2>6. Shape'
    BY <1>t, <2>2, <2>3 DEF Shape, Core
  <2> QED BY <2>2, <2>4, <2>5, <2>6 DEF Core, HandlerEventLive
<1>3. CASE DispatchRead
  <2>1. PICK e \in batch :
          /\ cur' = e /\ batch' = batch \ {e}
          /\ pc' = IF "IN" \in e.ev /\ IsSockOk(e.fd)
                   THEN IF e.fd = Listen THEN "accept" ELSE "recv"
                   ELSE "write"
    BY <1>3 DEF DispatchRead
  <2>2. UNCHANGED <<epoll, ready, owner, events, outbuf, newfd>>
    BY <1>3 DEF DispatchRead, kernel, heap
  <2>3. /\ e \in Entry /\ e.fd \in AllFds /\ e.fd \in events
        /\ e.fd # Listen => owner[e.fd] = e.conn
        /\ \A f \in batch' : f.fd # e.fd
    BY <1>t, <2>1 DEF TypeOK, Core, BatchFresh, Shape, Entry
  <2>4. MapMatchesEpoll' /\ BatchFresh'
    BY <1>t, <2>1, <2>2 DEF Core, MapMatchesEpoll, BatchFresh
  <2>5. HandlerEventLive'
    BY <2>1, <2>2, <2>3 DEF HandlerEventLive, IsSockOk
  <2>6. Shape'
    <3>1. pc = "loop" /\ pc' \in {"accept", "recv", "write"}
      BY <1>3, <2>1 DEF DispatchRead
    <3>2. \A d, f \in batch' : d.fd = f.fd => d = f
      BY <1>t, <2>1 DEF Core, Shape
    <3>3. /\ pc' = "accept" => e.fd = Listen
          /\ pc' = "recv" => e.fd \in Fds
      BY <2>1, <2>3 DEF AllFds
    <3> QED BY <1>t, <2>1, <2>2, <2>3, <3>1, <3>2, <3>3 DEF Core, Shape
  <2> QED BY <2>4, <2>5, <2>6 DEF Core
<1>4. CASE DispatchWrite
  <2>1. UNCHANGED <<epoll, ready, owner, events, outbuf, batch, newfd>> /\ pc = "write"
    BY <1>4 DEF DispatchWrite, kernel, heap
  <2>2. CASE "OUT" \in cur.ev /\ IsSockOk(cur.fd) /\ cur.fd # Listen
    <3>1. pc' = "send" /\ cur' = cur
      BY <1>4, <2>2 DEF DispatchWrite
    <3>2. cur.fd \in Fds \cap events /\ owner[cur.fd] = cur.conn
      BY <1>t, <2>1, <2>2 DEF Core, Shape, IsSockOk, Entry, AllFds
    <3> QED BY <1>t, <2>1, <3>1, <3>2
            DEF Core, MapMatchesEpoll, HandlerEventLive, BatchFresh, Shape
  <2>3. CASE ~ ("OUT" \in cur.ev /\ IsSockOk(cur.fd) /\ cur.fd # Listen)
    <3>1. pc' = "loop"
      BY <1>4, <2>3 DEF DispatchWrite
    <3> QED BY <1>t, <2>1, <3>1
            DEF Core, MapMatchesEpoll, HandlerEventLive, BatchFresh, Shape
  <2> QED BY <2>2, <2>3
<1>5. CASE AcceptOne
  <2>1. PICK fd \in Free :
          /\ owner' = [owner EXCEPT ![fd] = Head(backlog)]
          /\ newfd' = fd
          /\ outbuf' = [outbuf EXCEPT ![fd] = <<>>]
    BY <1>5 DEF AcceptOne
  <2>2. /\ pc = "accept" /\ pc' = "insert"
        /\ UNCHANGED <<epoll, ready, events, batch, cur>>
    BY <1>5 DEF AcceptOne
  <2>3. fd \in Fds /\ fd \in AllFds /\ fd # Listen /\ fd \notin events
    BY <1>t, <2>1 DEF Free, Core, MapMatchesEpoll, AllFds
  <2>4. Head(backlog) # None
    BY <1>t, <1>5, SeqFacts DEF AcceptOne, TypeOK
  <2>5. /\ owner'[fd] # None /\ outbuf'[fd] = <<>>
        /\ \A other \in Fds : other # fd => owner'[other] = owner[other]
    BY <1>t, <2>1, <2>3, <2>4 DEF TypeOK
  <2>6. MapMatchesEpoll'
    BY <1>t, <2>2, <2>3, <2>5 DEF Core, MapMatchesEpoll
  <2>7. BatchFresh'
    <3>1. \A e \in batch : e.fd \in AllFds /\ e.fd \in events
      BY <1>t DEF TypeOK, Entry, Core, BatchFresh
    <3> QED BY <1>t, <2>2, <2>3, <2>5, <3>1 DEF Core, BatchFresh, AllFds
  <2>8. Shape'
    BY <1>t, <2>1, <2>2, <2>3, <2>5 DEF Core, Shape
  <2> QED BY <2>2, <2>6, <2>7, <2>8 DEF Core, HandlerEventLive
<1>6. CASE AcceptDone
  BY <1>t, <1>6
     DEF AcceptDone, kernel, heap, Core, MapMatchesEpoll, HandlerEventLive, BatchFresh, Shape
<1>18. CASE AcceptError
  BY <1>t, <1>18
     DEF AcceptError, kernel, heap, Core, MapMatchesEpoll, HandlerEventLive, BatchFresh, Shape
<1>7. CASE InsertEvent
  <2>1. /\ pc = "insert" /\ pc' = "accept"
        /\ UNCHANGED <<owner, outbuf, batch, cur>>
    BY <1>7 DEF InsertEvent
  <2>2. newfd \in Fds /\ newfd \in AllFds /\ newfd \notin events /\ owner[newfd] # None
    BY <1>t, <2>1 DEF Core, Shape, AllFds
  <2>3. CASE EpollCtl(newfd, {"IN", "ET"}, Level(newfd)) /\ events' = events \cup {newfd}
    <3>1. {"IN", "ET"} \in Mask /\ "IN" \in {"IN", "ET"}
      BY DEF Mask
    <3>2. /\ epoll'[newfd] # {} /\ "IN" \in epoll'[newfd]
          /\ \A other \in AllFds : other # newfd => epoll'[other] = epoll[other]
          /\ ready' \subseteq ready \cup {newfd}
      BY <1>t, <2>2, <2>3, <3>1, EpollCtlFacts
    <3>3. MapMatchesEpoll'
      BY <1>t, <1>m, <2>1, <2>2, <2>3, <3>2 DEF Core, MapMatchesEpoll
    <3>4. Shape'
      <4>1. \A fd \in Fds : fd \in AllFds
        BY DEF AllFds
      <4> QED BY <1>t, <2>1, <2>2, <2>3, <3>2, <4>1 DEF Core, Shape
    <3> QED BY <1>t, <2>1, <2>3, <3>3, <3>4 DEF Core, HandlerEventLive, BatchFresh
  <2>4. CASE UNCHANGED <<epoll, ready, events>>
    BY <1>t, <2>1, <2>4
       DEF Core, MapMatchesEpoll, HandlerEventLive, BatchFresh, Shape
  <2> QED BY <1>7, <2>3, <2>4 DEF InsertEvent
<1>8. CASE RecvChunk
  <2>1. UNCHANGED <<epoll, owner, events, outbuf, pc, cur, batch, newfd>> /\ ready' = ready
    BY <1>8 DEF RecvChunk, kernel, thread
  <2> QED BY <1>t, <1>m, <2>1, CoreFrame
<1>9. CASE RecvDrained
  BY <1>t, <1>9
     DEF RecvDrained, kernel, heap, Core, MapMatchesEpoll, HandlerEventLive, BatchFresh, Shape
<1>del. ASSUME pc \in {"recv", "send"}, DeleteEvent(cur.fd), pc' \in {"write", "loop"},
               pc' = "write" => cur' = cur, UNCHANGED <<batch, newfd>>
        PROVE  Core'
  <2>1. cur.fd \in Fds \cap events
    BY <1>c, <1>del
  <2>2. /\ epoll'[cur.fd] = {} /\ owner'[cur.fd] = None
        /\ \A other \in AllFds : other # cur.fd => epoll'[other] = epoll[other]
        /\ \A other \in Fds : other # cur.fd => owner'[other] = owner[other]
        /\ ready' = ready \ {cur.fd} /\ events' = events \ {cur.fd}
    BY ONLY <1>t, <1>del, <2>1, DeleteFacts
  <2>3. \A e \in batch : e.fd # cur.fd /\ e.fd \in AllFds
    BY <1>t, <1>del DEF Core, Shape, TypeOK, Entry
  <2>4. MapMatchesEpoll'
    BY <1>t, <2>2 DEF Core, MapMatchesEpoll
  <2>5. BatchFresh'
    BY <1>t, <1>del, <2>2, <2>3 DEF Core, BatchFresh, AllFds
  <2>6. Shape'
    <3>1. \A fd \in Fds : fd \in AllFds
      BY DEF AllFds
    <3> QED BY <1>t, <1>del, <2>1, <2>2, <3>1 DEF Core, Shape
  <2> QED BY <1>del, <2>4, <2>5, <2>6 DEF Core, HandlerEventLive
<1>10. CASE RecvEnd
  BY <1>10, <1>del DEF RecvEnd
<1>15. CASE SendError
  BY <1>15, <1>del DEF SendError
<1>en. ASSUME pc \in {"process", "send"}, NEW w \in BOOLEAN, NEW level,
              EnableRW(cur.fd, TRUE, w, level) \/ UNCHANGED <<epoll, ready>>,
              pc' \in {"write", "loop"}, pc' = "write" => cur' = cur,
              UNCHANGED <<owner, events, batch, newfd>>
       PROVE  Core'
  <2>1. cur.fd \in Fds \cap events /\ cur.fd \in AllFds /\ owner[cur.fd] = cur.conn
    BY <1>c, <1>en
  <2>2. /\ epoll'[cur.fd] # {} /\ "IN" \in epoll'[cur.fd]
        /\ \A other \in AllFds : other # cur.fd => epoll'[other] = epoll[other]
        /\ ready' \subseteq ready \cup {cur.fd}
    <3>1. CASE EnableRW(cur.fd, TRUE, w, level)
      <4>1. cur.fd \in Fds
        BY <2>1
      <4>2. "IN" \in epoll'[cur.fd]
        BY <1>t, <3>1, <4>1, EnableRWFacts
      <4>3. /\ \A other \in AllFds : other # cur.fd => epoll'[other] = epoll[other]
            /\ ready' \subseteq ready \cup {cur.fd}
        BY <1>t, <3>1, <4>1, EnableRWFacts
      <4> QED BY <4>2, <4>3
    <3>2. CASE UNCHANGED <<epoll, ready>>
      BY <1>t, <2>1, <3>2 DEF Core, Shape
    <3> QED BY <1>en, <3>1, <3>2
  <2>3. MapMatchesEpoll'
    BY <1>t, <1>m, <1>en, <2>1, <2>2 DEF Core, MapMatchesEpoll
  <2>4. Shape'
    <3>1. \A fd \in Fds : fd \in AllFds
      BY DEF AllFds
    <3> QED BY <1>t, <1>en, <2>1, <2>2, <3>1 DEF Core, Shape
  <2> QED BY <1>t, <1>en, <2>3, <2>4 DEF Core, HandlerEventLive, BatchFresh
<1>11. CASE Process
  <2>1. EnableRW(cur.fd, TRUE, TRUE, Level(cur.fd)) \/ UNCHANGED <<epoll, ready>>
    BY <1>11 DEF Process
  <2> QED BY <1>11, <1>en, <2>1 DEF Process
<1>12. CASE SendAll
  <2>1. PICK level : EnableRW(cur.fd, TRUE, FALSE, level)
    BY <1>12 DEF SendAll
  <2> QED BY <1>12, <1>en, <2>1 DEF SendAll
<1>13. CASE SendShort
  <2>1. UNCHANGED <<epoll, owner, events, outbuf, pc, cur, batch, newfd>> /\ ready' = ready
    BY <1>13 DEF SendShort, kernel, heap, thread
  <2> QED BY <1>t, <1>m, <2>1, CoreFrame
<1>14. CASE SendFull
  <2>1. EnableRW(cur.fd, TRUE, TRUE, Level(cur.fd)) /\ UNCHANGED <<events, outbuf>>
    BY <1>14 DEF SendFull, heap
  <2> QED BY <1>14, <1>en, <2>1 DEF SendFull
<1>16. CASE SendKilled
  <2>1. \A fd \in AllFds : epoll'[fd] = {}
    BY <1>16 DEF SendKilled
  <2> QED BY <1>16, <2>1
          DEF SendKilled, Core, MapMatchesEpoll, HandlerEventLive, BatchFresh, Shape
<1>17. CASE EpollTimeout \/ UNCHANGED vars
  <2>1. UNCHANGED <<epoll, owner, events, outbuf, pc, cur, batch, newfd>> /\ ready' = ready
    BY <1>17 DEF EpollTimeout, vars, kernel, heap, thread
  <2> QED BY <1>t, <1>m, <2>1, CoreFrame
<1> QED
  BY <1>1, <1>2, <1>3, <1>4, <1>5, <1>6, <1>7, <1>8, <1>9, <1>10, <1>11, <1>12,
     <1>13, <1>14, <1>15, <1>16, <1>17, <1>18 DEF Next, Server, Handler

LEMMA SafeAlways == Spec => []Safe
<1>1. Safe /\ [Next]_vars => Safe'
  BY TypeStep, CoreStep DEF Safe, Core
<1>2. QED BY InitSafe, <1>1, PTL DEF Spec

\* Type correctness.
THEOREM TypeCorrect == Spec => []TypeOK
BY SafeAlways, PTL DEF Safe

\* The map Reactor::events and the epoll instance always agree.
THEOREM MapAndEpollAgree == Spec => []MapMatchesEpoll
BY SafeAlways, PTL DEF Safe

\* No callback works on a deleted Event or on a descriptor that now belongs to
\* another connection, and no entry of the batch epoll_wait returned goes stale
\* before it is dispatched.
THEOREM EventsNeverStale == Spec => []NoStaleEvent
<1>1. Safe => NoStaleEvent
  BY DEF Safe, NoStaleEvent
<1> QED BY <1>1, SafeAlways, PTL
-----------------------------------------------------------------------------
\* The open descriptors that no Event manages and that are not being inserted.
Leaked == {fd \in Fds : owner[fd] # None /\ fd \notin events /\ fd # newfd}

\* Only while it is being inserted is a descriptor in newfd.
LeakInv ==
  /\ pc = "insert" \/ newfd = None
  /\ pc # "killed" => IsFiniteSet(Leaked) /\ Cardinality(Leaked) = faults

LEMMA LeakStep == Safe /\ LeakInv /\ [Next]_vars => LeakInv'
<1> SUFFICES ASSUME Safe, LeakInv, [Next]_vars PROVE LeakInv'
  OBVIOUS
<1> USE ConstantsAssumption
<1>t. TypeOK /\ Core
  BY DEF Safe, Core
<1>1. CASE AcceptOne
  <2>1. PICK fd \in Free :
          owner' = [owner EXCEPT ![fd] = Head(backlog)] /\ newfd' = fd
    BY <1>1 DEF AcceptOne
  <2>2. /\ pc = "accept" /\ pc' = "insert" /\ UNCHANGED <<events, faults>>
        /\ newfd = None /\ fd \in Fds /\ owner[fd] = None
    BY <1>1, <2>1 DEF AcceptOne, LeakInv, Free
  <2>3. Leaked' = Leaked
    BY <1>t, <2>1, <2>2 DEF Leaked, TypeOK
  <2> QED BY <2>2, <2>3 DEF LeakInv
<1>2. CASE InsertEvent
  <2>1. /\ pc = "insert" /\ newfd' = None /\ UNCHANGED owner
        /\ newfd \in Fds /\ newfd \notin events /\ owner[newfd] # None /\ newfd \notin Leaked
    BY <1>t, <1>2 DEF InsertEvent, Core, Shape, Leaked
  <2>2. CASE events' = events \cup {newfd} /\ UNCHANGED faults
    <3>1. Leaked' = Leaked
      BY <2>1, <2>2 DEF Leaked
    <3> QED BY <2>1, <2>2, <3>1 DEF LeakInv
  \* EPOLL_CTL_ADD fails.
  <2>3. CASE UNCHANGED events /\ faults' = faults + 1
    <3>1. Leaked' = Leaked \cup {newfd}
      BY <2>1, <2>3 DEF Leaked
    <3>2. /\ IsFiniteSet(Leaked \cup {newfd})
          /\ Cardinality(Leaked \cup {newfd}) = Cardinality(Leaked) + 1
      BY <2>1, FS_AddElement DEF LeakInv
    <3> QED BY <2>1, <2>3, <3>1, <3>2 DEF LeakInv
  <2> QED BY <1>2, <2>2, <2>3 DEF InsertEvent
\* A descriptor that leaves the map is closed.
<1>3. CASE RecvEnd \/ SendError
  <2>1. /\ cur.fd \in Fds \cap events /\ DeleteEvent(cur.fd)
        /\ UNCHANGED <<newfd, faults>> /\ newfd = None /\ pc # "killed"
    BY <1>t, <1>3 DEF RecvEnd, SendError, Core, Shape, HandlerEventLive, LeakInv
  <2>2. /\ owner'[cur.fd] = None /\ events' = events \ {cur.fd}
        /\ \A other \in Fds : other # cur.fd => owner'[other] = owner[other]
    BY ONLY <1>t, <2>1, DeleteFacts
  <2>3. Leaked' = Leaked
    BY <2>1, <2>2 DEF Leaked
  <2> QED BY <2>1, <2>3 DEF LeakInv
<1>4. CASE /\ UNCHANGED <<owner, events, newfd, faults>>
           /\ pc = "insert" => pc' = "insert"
           /\ pc = "killed" => pc' = "killed"
  BY <1>4 DEF LeakInv, Leaked
<1>5. CASE SendKilled
  BY <1>5 DEF SendKilled, LeakInv
<1> QED
  BY <1>1, <1>2, <1>3, <1>4, <1>5
     DEF Next, Server, Handler, Peer, Connect, PeerSend, PeerShutdown, PeerReset, PeerRead,
         EpollWait, EpollTimeout, DispatchRead, DispatchWrite, AcceptDone, RecvChunk,
         RecvDrained, Process, SendAll, SendShort, SendFull, AcceptError,
         vars, kernel, heap, thread

\* A descriptor stays open with no Event only where an EPOLL_CTL_ADD failed and
\* Accepter did not look: one for each such failure, and never otherwise.
THEOREM LeaksAreFailedAdds == Spec => []LeakedOnlyByFailedAdd
<1>1. Init => LeakInv
  <2> SUFFICES ASSUME Init PROVE LeakInv
    OBVIOUS
  <2>1. Leaked = {}
    BY DEF Init, Leaked
  <2> QED BY <2>1, FS_EmptySet DEF Init, LeakInv
<1>2. LeakInv => LeakedOnlyByFailedAdd
  BY DEF LeakInv, LeakedOnlyByFailedAdd, Leaked
<1> QED BY <1>1, <1>2, LeakStep, SafeAlways, PTL DEF Spec
=============================================================================
