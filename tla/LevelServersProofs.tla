--------------------------- MODULE LevelServersProofs ---------------------------
(***************************************************************************)
(* Proofs about LevelServers: the four servers, for any clients, any       *)
(* descriptors, any length of the array and any backlog.                   *)
(***************************************************************************)
EXTENDS LevelServers, TLAPS, SequenceTheorems, FiniteSetTheorems

\* The clients whose connections wait for accept.
Waiting == {backlog[n] : n \in 1 .. Len(backlog)}

\* A connection is in one place: not made yet, waiting once, or behind one
\* descriptor.
Connections ==
  /\ \A c \in Clients : rcv[c] <= sent[c]
  /\ \A c \in Clients : peer[c] = "idle" => c \notin Waiting /\ \A fd \in Fds : owner[fd] # c
  /\ \A c \in Waiting : \A fd \in Fds : owner[fd] # c
  /\ \A m, n \in 1 .. Len(backlog) : backlog[m] = backlog[n] => m = n
  /\ \A fd, other \in Fds : owner[fd] = owner[other] /\ owner[fd] # None => fd = other

\* The listening descriptor has the first place of the array, the others hold
\* open descriptors, each once; the epoll server does not use the array, the
\* others do not use the epoll instance.
Places ==
  /\ slot[0] = Listen
  /\ \A i, j \in DOMAIN slot : slot[i] = slot[j] /\ slot[i] # None => i = j
  /\ \A i \in DOMAIN slot : slot[i] \in Fds => owner[slot[i]] # None
  /\ program = "epoll" => \A i \in DOMAIN slot : slot[i] \in {Listen, None}
  /\ program # "epoll" => interest = {Listen}
  /\ Listen \in interest
  /\ \A fd \in interest \ {Listen} : owner[fd] # None

\* The open descriptors nobody watches are those the poll server lost.
Lost == {fd \in Fds \ Watched : owner[fd] # None}
LostCounted == IsFiniteSet(Lost) /\ Cardinality(Lost) = leaked

\* What the waiting call reported was watched, and before the first call of
\* the round, the only one that may be an accept, it still is.
Reported ==
  /\ program = "epoll" => found \subseteq interest
  /\ program \in {"select", "select_io"} =>
       /\ found \subseteq Fds \cup {Listen}
       /\ pc = "scan" /\ at = 0 => \A fd \in found \ {Listen} : owner[fd] # None
  /\ program = "poll" /\ pc = "scan" /\ at = 0 => \A i \in DOMAIN slot : i \in found => slot[i] # None

\* The inductive invariant.
IInv == TypeOK /\ Connections /\ Places /\ LostCounted /\ Reported /\ RecvNeverBlocks
-----------------------------------------------------------------------------
\* The constants and the array.
LEMMA Basics ==
  ASSUME TypeOK
  PROVE  /\ Listen \notin Fds /\ None \notin Fds /\ None # Listen /\ None \notin Clients
         /\ Fds \subseteq Nat
         /\ slot \in [DOMAIN slot -> Fds \cup {Listen, None}]
         /\ DOMAIN slot \subseteq Nat /\ 0 \in DOMAIN slot
BY ConstantsAssumption DEF TypeOK

\* The queue of connections after a connect and after an accept.
LEMMA BacklogPushed ==
  ASSUME backlog \in Seq(Clients), NEW c \in Clients, backlog' = Append(backlog, c),
         c \notin Waiting,
         \A m, n \in 1 .. Len(backlog) : backlog[m] = backlog[n] => m = n
  PROVE  /\ backlog' \in Seq(Clients) /\ backlog' # <<>>
         /\ Waiting' = Waiting \cup {c}
         /\ \A m, n \in 1 .. Len(backlog') : backlog'[m] = backlog'[n] => m = n
<1>1. backlog' \in Seq(Clients) /\ Len(backlog) \in Nat /\ Len(backlog') = Len(backlog) + 1
  BY AppendProperties, LenProperties
<1>2. backlog' # <<>>
  BY <1>1, EmptySeq
<1>3. /\ \A n \in 1 .. Len(backlog) : backlog'[n] = backlog[n] /\ n \in 1 .. Len(backlog')
      /\ backlog'[Len(backlog) + 1] = c /\ Len(backlog) + 1 \in 1 .. Len(backlog')
      /\ \A n \in 1 .. Len(backlog') : n = Len(backlog) + 1 \/ n \in 1 .. Len(backlog)
  BY <1>1, AppendProperties
<1>4. Waiting' = Waiting \cup {c}
  BY <1>3 DEF Waiting
<1>5. \A m, n \in 1 .. Len(backlog') : backlog'[m] = backlog'[n] => m = n
  BY <1>3 DEF Waiting
<1> QED BY <1>1, <1>2, <1>4, <1>5

LEMMA BacklogPopped ==
  ASSUME backlog \in Seq(Clients), backlog # <<>>, backlog' = Tail(backlog),
         \A m, n \in 1 .. Len(backlog) : backlog[m] = backlog[n] => m = n
  PROVE  /\ backlog' \in Seq(Clients)
         /\ Head(backlog) \in Waiting /\ Head(backlog) \in Clients
         /\ Waiting' = Waiting \ {Head(backlog)}
         /\ \A m, n \in 1 .. Len(backlog') : backlog'[m] = backlog'[n] => m = n
<1>1. Len(backlog) \in Nat /\ Len(backlog) # 0
  BY EmptySeq, LenProperties
<1>2. /\ Tail(backlog) \in Seq(Clients) /\ Head(backlog) = backlog[1]
      /\ Len(Tail(backlog)) = Len(backlog) - 1
      /\ \A n \in 1 .. Len(Tail(backlog)) : Tail(backlog)[n] = backlog[n+1]
  BY HeadTailProperties
<1>3. /\ 1 \in 1 .. Len(backlog)
      /\ \A n \in 1 .. Len(backlog') : n+1 \in 1 .. Len(backlog) /\ n+1 # 1
      /\ \A n \in 1 .. Len(backlog) : n # 1 => n-1 \in 1 .. Len(backlog') /\ (n-1)+1 = n
      /\ \A m, n \in 1 .. Len(backlog') : m+1 = n+1 => m = n
  BY <1>1, <1>2
<1>4. backlog[1] \in Clients
  BY <1>1, ElementOfSeq
<1>5. \A n \in 1 .. Len(backlog') : backlog'[n] = backlog[n+1]
  BY <1>2
<1>6. Waiting' = Waiting \ {backlog[1]}
  <2>1. ASSUME NEW x \in Waiting' PROVE x \in Waiting /\ x # backlog[1]
    <3>1. PICK n \in 1 .. Len(backlog') : x = backlog'[n]
      BY <2>1 DEF Waiting
    <3> QED BY <1>3, <1>5, <3>1 DEF Waiting
  <2>2. ASSUME NEW x \in Waiting, x # backlog[1] PROVE x \in Waiting'
    <3>1. PICK n \in 1 .. Len(backlog) : x = backlog[n]
      BY <2>2 DEF Waiting
    <3>2. n # 1 /\ n-1 \in 1 .. Len(backlog') /\ backlog'[n-1] = x
      BY <1>3, <1>5, <2>2, <3>1
    <3> QED BY <3>2 DEF Waiting
  <2> QED BY <2>1, <2>2
<1>7. \A m, n \in 1 .. Len(backlog') : backlog'[m] = backlog'[n] => m = n
  BY <1>3, <1>5
<1> QED BY <1>2, <1>3, <1>4, <1>6, <1>7 DEF Waiting
-----------------------------------------------------------------------------
(***************************************************************************)
(* What a call of the scan does, by its result.                            *)
(***************************************************************************)
Accepts(i, fd, c) == Visit(i) /\ slot[i] = Listen /\ Accepted(fd, c)

Inserts(i, fd, c) == Accepts(i, fd, c) /\ Insert(fd, c)

Refuses(i, fd, c) ==
  /\ Accepts(i, fd, c) /\ program # "poll"
  /\ peer' = [peer EXCEPT ![c] = "refused"] /\ backlog' = Tail(backlog)
  /\ UNCHANGED <<rcv, owner, slot, leaked>>

Loses(i, fd, c) ==
  /\ Accepts(i, fd, c) /\ program = "poll"
  /\ owner' = [owner EXCEPT ![fd] = c] /\ backlog' = Tail(backlog)
  /\ leaked' = leaked + 1
  /\ UNCHANGED <<peer, rcv, slot>>

Closes(i) ==
  /\ Visit(i) /\ slot[i] \in Fds
  /\ Close(i)
  /\ UNCHANGED <<peer, rcv, backlog, leaked>>

Reads(i) == slot[i] \in Fds /\ (ReadData(i) \/ ReadErrorIgnored(i))

ArrayStep ==
  \E i \in DOMAIN slot :
    \/ AcceptFails(i) \/ Closes(i) \/ Reads(i)
    \/ \E fd \in Fds, c \in Clients : Inserts(i, fd, c) \/ Refuses(i, fd, c) \/ Loses(i, fd, c)

WaitStep ==
  \/ program \in {"select", "select_io"} /\ Select
  \/ program = "poll" /\ Poll
  \/ program = "epoll" /\ EpollWait

EpollStep ==
  EpollAccept \/ EpollAcceptFails \/ \E fd \in Fds : EpollReadData(fd) \/ EpollReadEnd(fd)

\* Every step is one of these.
LEMMA Cases ==
  ASSUME TypeOK, Next
  PROVE  \/ \E c \in Clients : Connect(c) \/ PeerSend(c) \/ PeerEnd(c)
         \/ WaitStep \/ ScanDone
         \/ program # "epoll" /\ ArrayStep
         \/ program = "epoll" /\ EpollStep
<1>1. ASSUME NEW i \in DOMAIN slot, Visit(i), slot[i] # Listen PROVE slot[i] \in Fds
  BY <1>1, Basics DEF Visit, ToVisit, Isset
<1>2. ASSUME NEW i \in DOMAIN slot, SelectAccept(i), program # "poll"
      PROVE  \E fd \in Fds, c \in Clients : Inserts(i, fd, c) \/ Refuses(i, fd, c)
  BY <1>2 DEF SelectAccept, Inserts, Refuses, Accepts
<1>3. ASSUME NEW i \in DOMAIN slot, PollAccept(i), program = "poll"
      PROVE  \E fd \in Fds, c \in Clients : Inserts(i, fd, c) \/ Loses(i, fd, c)
  BY <1>3 DEF PollAccept, Inserts, Loses, Accepts
<1>4. ASSUME NEW i \in DOMAIN slot, ReadEof(i) \/ ReadError(i) PROVE Closes(i)
  BY <1>1, <1>4 DEF ReadEof, ReadError, Closes
<1>5. ASSUME NEW i \in DOMAIN slot, ReadData(i) \/ ReadErrorIgnored(i) PROVE Reads(i)
  BY <1>1, <1>5 DEF ReadData, ReadErrorIgnored, Reads
<1>6. CASE SelectServer
  BY <1>2, <1>4, <1>5, <1>6 DEF SelectServer, WaitStep, ArrayStep
<1>7. CASE SelectIOServer
  BY <1>2, <1>4, <1>5, <1>7 DEF SelectIOServer, WaitStep, ArrayStep
<1>8. CASE PollServer
  BY <1>3, <1>4, <1>5, <1>8 DEF PollServer, WaitStep, ArrayStep
<1>9. CASE EpollServer
  BY <1>9 DEF EpollServer, WaitStep, EpollStep
<1> QED BY <1>6, <1>7, <1>8, <1>9 DEF Next, Server, Peer
-----------------------------------------------------------------------------
\* The initial states: nothing connected, only the listening descriptor in the
\* array.
LEMMA InitIInv == Init => IInv
<1> SUFFICES ASSUME Init PROVE IInv
  OBVIOUS
<1>1. PICK n \in Sizes : slot = [i \in 0 .. n-1 |-> IF i = 0 THEN Listen ELSE None]
  BY DEF Init
<1>2. n \in Nat \ {0} /\ 0 \in 0 .. n-1 /\ DOMAIN slot = 0 .. n-1
  BY <1>1, ConstantsAssumption
<1>3. TypeOK
  <2>1. slot \in [0 .. n-1 -> Fds \cup {Listen, None}]
    BY <1>1
  <2>2. backlog \in Seq(Clients) /\ 0 \in 0 .. MaxSends
    BY ConstantsAssumption DEF Init
  <2> QED BY <2>1, <2>2 DEF Init, TypeOK
<1>4. Len(backlog) = 0 /\ 1 .. Len(backlog) = {} /\ Waiting = {}
  <2>1. Len(backlog) = 0
    BY EmptySeq DEF Init
  <2> QED BY <2>1 DEF Waiting
<1>5. Connections
  BY <1>4, ConstantsAssumption DEF Init, Connections
<1>6. Places
  BY <1>1, <1>2, ConstantsAssumption DEF Init, Places
<1>7. LostCounted
  <2>1. Lost = {}
    BY DEF Init, Lost
  <2> QED BY <2>1, FS_EmptySet DEF Init, LostCounted
<1>8. Reported /\ RecvNeverBlocks
  BY DEF Init, Reported, RecvNeverBlocks
<1> QED BY <1>3, <1>5, <1>6, <1>7, <1>8 DEF IInv

\* Types.
LEMMA TypeStep == TypeOK /\ Connections /\ [Next]_vars => TypeOK'
<1> SUFFICES ASSUME TypeOK, Connections, [Next]_vars PROVE TypeOK'
  OBVIOUS
<1>0. PICK n \in Sizes : slot \in [0 .. n-1 -> Fds \cup {Listen, None}]
  BY DEF TypeOK
<1>1. /\ DOMAIN slot = 0 .. n-1 /\ DOMAIN slot \subseteq Nat /\ Fds \subseteq Nat
      /\ backlog \in Seq(Clients)
      /\ \A m, k \in 1 .. Len(backlog) : backlog[m] = backlog[k] => m = k
      /\ \A c \in Clients : rcv[c] \in 0 .. MaxSends /\ sent[c] \in 0 .. MaxSends /\ rcv[c] <= sent[c]
      /\ MaxSends \in Nat /\ None \notin Fds
  BY <1>0, Basics, ConstantsAssumption DEF TypeOK, Connections
<1>2. ASSUME NEW c \in Clients, Connect(c) PROVE TypeOK'
  <2>1. backlog' \in Seq(Clients)
    BY <1>1, <1>2, AppendProperties DEF Connect
  <2> QED BY <1>0, <1>2, <2>1 DEF Connect, TypeOK
<1>3. ASSUME NEW c \in Clients, PeerSend(c) PROVE TypeOK'
  <2>1. sent[c] + 1 \in 0 .. MaxSends /\ rcv[c] + 1 \in 0 .. MaxSends
    BY <1>1, <1>3 DEF PeerSend
  <2>2. sent' \in [Clients -> 0 .. MaxSends] /\ rcv' \in [Clients -> 0 .. MaxSends]
    BY <1>3, <2>1 DEF PeerSend, TypeOK
  <2> QED BY <1>0, <1>3, <2>2 DEF PeerSend, TypeOK
<1>4. ASSUME NEW c \in Clients, PeerEnd(c) PROVE TypeOK'
  BY <1>0, <1>4 DEF PeerEnd, TypeOK, Ended
<1>5. CASE WaitStep
  <2>1. ASSUME NEW R \in SUBSET (Nat \cup {Listen}), Wait(R) PROVE TypeOK'
    BY <1>0, <2>1 DEF Wait, clients, TypeOK
  <2>2. CASE Select
    <3>1. {fd \in {slot[i] : i \in DOMAIN slot} \ {None} : Readable(fd)} \in SUBSET (Nat \cup {Listen})
      <4>1. \A i \in DOMAIN slot : slot[i] # None => slot[i] \in Nat \cup {Listen}
        BY <1>0, <1>1
      <4> QED BY <4>1
    <3> QED BY <2>1, <2>2, <3>1 DEF Select
  <2>3. CASE Poll
    <3>1. {i \in DOMAIN slot : slot[i] # None /\ Readable(slot[i])} \in SUBSET (Nat \cup {Listen})
      BY <1>1
    <3> QED BY <2>1, <2>3, <3>1 DEF Poll
  <2>4. CASE EpollWait
    <3>1. {fd \in interest : Readable(fd)} \in SUBSET (Nat \cup {Listen})
      BY <1>1 DEF TypeOK
    <3> QED BY <2>1, <2>4, <3>1 DEF EpollWait
  <2> QED BY <1>5, <2>2, <2>3, <2>4 DEF WaitStep
<1>6. CASE ScanDone
  BY <1>0, <1>6 DEF ScanDone, clients, TypeOK
<1>7. ASSUME NEW i \in DOMAIN slot, Visit(i)
      PROVE  /\ program' = program /\ sent' = sent /\ interest' = interest
             /\ pc' = pc /\ found' = found /\ at' \in Nat
  BY <1>1, <1>7 DEF Visit
<1>8. CASE ArrayStep
  <2>1. ASSUME NEW i \in DOMAIN slot, AcceptFails(i) PROVE TypeOK'
    BY <1>0, <1>7, <2>1 DEF AcceptFails, TypeOK
  <2>2. ASSUME NEW i \in DOMAIN slot, Closes(i) PROVE TypeOK'
    <3>1. slot' \in [0 .. n-1 -> Fds \cup {Listen, None}]
      BY <1>0, <2>2 DEF Closes, Close
    <3>2. owner' \in [Fds -> Clients \cup {None}]
      BY <2>2 DEF Closes, Close, TypeOK
    <3> QED BY <1>7, <2>2, <3>1, <3>2 DEF Closes, TypeOK
  <2>3. ASSUME NEW i \in DOMAIN slot, Reads(i) PROVE TypeOK'
    <3>1. CASE ReadData(i)
      <4> DEFINE c == owner[slot[i]]
      <4>1. rcv' = [rcv EXCEPT ![c] = rcv[c] - 1] /\ rcv[c] > 0
        BY <3>1 DEF ReadData
      <4>2. c \in Clients => rcv[c] - 1 \in 0 .. MaxSends
        BY <1>1, <4>1
      <4>3. rcv' \in [Clients -> 0 .. MaxSends]
        BY <4>1, <4>2 DEF TypeOK
      <4> QED BY <1>0, <1>7, <3>1, <4>3 DEF ReadData, TypeOK
    <3>2. CASE ReadErrorIgnored(i)
      BY <1>0, <1>7, <3>2 DEF ReadErrorIgnored, TypeOK, Ended
    <3> QED BY <2>3, <3>1, <3>2 DEF Reads
  <2>4. ASSUME NEW i \in DOMAIN slot, NEW fd \in Fds, NEW c \in Clients, Inserts(i, fd, c) PROVE TypeOK'
    <3>1. backlog' \in Seq(Clients)
      BY <1>1, <2>4, BacklogPopped DEF Inserts, Accepts, Accepted, Insert
    <3>2. slot' \in [0 .. n-1 -> Fds \cup {Listen, None}]
      BY <1>0, <2>4 DEF Inserts, Insert
    <3>3. owner' \in [Fds -> Clients \cup {None}]
      BY <2>4 DEF Inserts, Insert, TypeOK
    <3> QED BY <1>7, <2>4, <3>1, <3>2, <3>3 DEF Inserts, Insert, Accepts, TypeOK
  <2>5. ASSUME NEW i \in DOMAIN slot, NEW fd \in Fds, NEW c \in Clients, Refuses(i, fd, c) PROVE TypeOK'
    <3>1. backlog' \in Seq(Clients)
      BY <1>1, <2>5, BacklogPopped DEF Refuses, Accepts, Accepted
    <3> QED BY <1>0, <1>7, <2>5, <3>1 DEF Refuses, Accepts, TypeOK
  <2>6. ASSUME NEW i \in DOMAIN slot, NEW fd \in Fds, NEW c \in Clients, Loses(i, fd, c) PROVE TypeOK'
    <3>1. backlog' \in Seq(Clients)
      BY <1>1, <2>6, BacklogPopped DEF Loses, Accepts, Accepted
    <3>2. owner' \in [Fds -> Clients \cup {None}] /\ leaked' \in Nat
      BY <2>6 DEF Loses, TypeOK
    <3> QED BY <1>0, <1>7, <2>6, <3>1, <3>2 DEF Loses, Accepts, TypeOK
  <2> QED BY <1>8, <2>1, <2>2, <2>3, <2>4, <2>5, <2>6 DEF ArrayStep
<1>9. CASE EpollStep
  <2>0. ASSUME NEW fd, TakeEvent(fd)
        PROVE  /\ program' = program /\ peer' = peer /\ sent' = sent /\ slot' = slot
               /\ pc' = pc /\ at' = at /\ leaked' = leaked /\ found' \subseteq Nat \cup {Listen}
    BY <2>0 DEF TakeEvent, clients, TypeOK
  <2>1. CASE EpollAcceptFails
    BY <1>0, <2>0, <2>1 DEF EpollAcceptFails, TypeOK
  <2>2. CASE EpollAccept
    <3>1. PICK fd \in Fds, c \in Clients :
             /\ Accepted(fd, c) /\ owner' = [owner EXCEPT ![fd] = c]
             /\ interest' = interest \cup {fd} /\ backlog' = Tail(backlog)
      BY <2>2 DEF EpollAccept
    <3>2. backlog' \in Seq(Clients)
      BY <1>1, <3>1, BacklogPopped DEF Accepted
    <3>3. owner' \in [Fds -> Clients \cup {None}] /\ interest' \subseteq Fds \cup {Listen}
      BY <3>1 DEF TypeOK
    <3> QED BY <1>0, <2>0, <2>2, <3>2, <3>3 DEF EpollAccept, TypeOK
  <2>3. ASSUME NEW fd \in Fds, EpollReadData(fd) PROVE TypeOK'
    <3> DEFINE c == owner[fd]
    <3>1. rcv' = [rcv EXCEPT ![c] = rcv[c] - 1] /\ rcv[c] > 0
      BY <2>3 DEF EpollReadData
    <3>2. c \in Clients => rcv[c] - 1 \in 0 .. MaxSends
      BY <1>1, <3>1
    <3>3. rcv' \in [Clients -> 0 .. MaxSends]
      BY <3>1, <3>2 DEF TypeOK
    <3> QED BY <1>0, <2>0, <2>3, <3>3 DEF EpollReadData, TypeOK
  <2>4. ASSUME NEW fd \in Fds, EpollReadEnd(fd) PROVE TypeOK'
    <3>1. owner' \in [Fds -> Clients \cup {None}] /\ interest' \subseteq Fds \cup {Listen}
      BY <2>4 DEF EpollReadEnd, TypeOK
    <3> QED BY <1>0, <2>0, <2>4, <3>1 DEF EpollReadEnd, TypeOK
  <2> QED BY <1>9, <2>1, <2>2, <2>3, <2>4 DEF EpollStep
<1>10. CASE UNCHANGED vars
  BY <1>10 DEF vars, clients, TypeOK
<1> QED BY <1>2, <1>3, <1>4, <1>5, <1>6, <1>8, <1>9, <1>10, Cases
-----------------------------------------------------------------------------
\* What an accept does to the connections: the oldest one waiting is behind a
\* descriptor that was free, or nowhere.
LEMMA AcceptedFacts ==
  ASSUME TypeOK, Connections, NEW fd \in Fds, NEW c \in Clients,
         Accepted(fd, c), backlog' = Tail(backlog)
  PROVE  /\ owner[fd] = None /\ c \in Waiting /\ Waiting' = Waiting \ {c}
         /\ \A other \in Fds : owner[other] # c
         /\ peer[c] # "idle"
         /\ \A m, n \in 1 .. Len(backlog') : backlog'[m] = backlog'[n] => m = n
<1>1. backlog # <<>> /\ c = Head(backlog) /\ owner[fd] = None /\ backlog \in Seq(Clients)
  BY DEF Accepted, Free, TypeOK
<1>2. c \in Waiting /\ Waiting' = Waiting \ {c}
      /\ \A m, n \in 1 .. Len(backlog') : backlog'[m] = backlog'[n] => m = n
  BY <1>1, BacklogPopped DEF Connections
<1> QED BY <1>1, <1>2 DEF Connections

\* An accepted connection leaves the queue for one descriptor.
LEMMA AcceptKeepsConnections ==
  ASSUME TypeOK, Connections, NEW fd \in Fds, NEW c \in Clients,
         Accepted(fd, c), backlog' = Tail(backlog), owner' = [owner EXCEPT ![fd] = c],
         peer' = peer, rcv' = rcv, sent' = sent
  PROVE  Connections'
<1>1. /\ owner[fd] = None /\ c \in Waiting /\ Waiting' = Waiting \ {c}
      /\ \A other \in Fds : owner[other] # c
      /\ peer[c] # "idle" /\ c # None
      /\ \A m, n \in 1 .. Len(backlog') : backlog'[m] = backlog'[n] => m = n
  BY AcceptedFacts, Basics
<1>2. \A other \in Fds : owner'[other] = IF other = fd THEN c ELSE owner[other]
  BY DEF TypeOK
<1> QED BY <1>1, <1>2 DEF Connections

\* A closed descriptor has no connection behind it.
LEMMA CloseKeepsConnections ==
  ASSUME TypeOK, Connections, NEW fd \in Fds,
         backlog' = backlog, owner' = [owner EXCEPT ![fd] = None],
         peer' = peer, rcv' = rcv, sent' = sent
  PROVE  Connections'
<1>1. \A other \in Fds : owner'[other] = IF other = fd THEN None ELSE owner[other]
  BY DEF TypeOK
<1>2. Waiting' = Waiting /\ None \notin Clients /\ Waiting \subseteq Clients
  <2>1. \A n \in 1 .. Len(backlog) : backlog[n] \in Clients
    BY ElementOfSeq DEF TypeOK
  <2> QED BY <2>1, Basics DEF Waiting
<1> QED BY <1>1, <1>2 DEF Connections

\* A recv takes data away and changes nothing else.
LEMMA ReadKeepsConnections ==
  ASSUME TypeOK, Connections, NEW x,
         rcv' = [rcv EXCEPT ![x] = rcv[x] - 1], sent' = sent, peer' = peer,
         backlog' = backlog, owner' = owner
  PROVE  Connections'
<1>1. \A c \in Clients : rcv[c] \in Int /\ sent[c] \in Int /\ rcv[c] <= sent[c]
  BY ConstantsAssumption DEF TypeOK, Connections
<1>2. ASSUME NEW c \in Clients PROVE rcv'[c] <= sent'[c]
  <2>1. CASE c = x
    <3>1. rcv'[c] = rcv[c] - 1
      BY <2>1 DEF TypeOK
    <3> QED BY <1>1, <3>1
  <2>2. CASE c # x
    BY <1>1, <2>2 DEF TypeOK
  <2> QED BY <2>1, <2>2
<1>3. Waiting' = Waiting
  BY DEF Waiting
<1> QED BY <1>2, <1>3 DEF Connections

\* The clients: a connection is made once, data and its end come after.
LEMMA PeerKeepsConnections ==
  ASSUME TypeOK, Connections, NEW c \in Clients, Connect(c) \/ PeerSend(c) \/ PeerEnd(c)
  PROVE  Connections'
<1>1. CASE Connect(c)
  <2>1. /\ c \notin Waiting /\ \A fd \in Fds : owner[fd] # c
        /\ peer' = [peer EXCEPT ![c] = "open"] /\ backlog' = Append(backlog, c)
        /\ sent' = sent /\ rcv' = rcv /\ owner' = owner
    BY <1>1 DEF Connect, Connections
  <2>2. /\ Waiting' = Waiting \cup {c}
        /\ \A m, n \in 1 .. Len(backlog') : backlog'[m] = backlog'[n] => m = n
    BY <2>1, BacklogPushed DEF TypeOK, Connections
  <2>3. \A d \in Clients : peer'[d] = "idle" => peer[d] = "idle" /\ d # c
    BY <2>1 DEF TypeOK
  <2> QED BY <2>1, <2>2, <2>3 DEF Connections
<1>2. CASE PeerSend(c)
  <2>1. /\ Waiting' = Waiting /\ peer' = peer /\ backlog' = backlog /\ owner' = owner
    BY <1>2 DEF PeerSend, Waiting
  <2>2. \A d \in Clients : rcv[d] \in Int /\ sent[d] \in Int /\ rcv[d] <= sent[d]
    BY ConstantsAssumption DEF TypeOK, Connections
  <2>3. ASSUME NEW d \in Clients PROVE rcv'[d] <= sent'[d]
    <3>1. CASE d = c
      <4>1. rcv'[d] = rcv[d] + 1 /\ sent'[d] = sent[d] + 1
        BY <1>2, <3>1 DEF PeerSend, TypeOK
      <4> QED BY <2>2, <4>1
    <3>2. CASE d # c
      BY <1>2, <2>2, <3>2 DEF PeerSend, TypeOK
    <3> QED BY <3>1, <3>2
  <2> QED BY <2>1, <2>3 DEF Connections
<1>3. CASE PeerEnd(c)
  <2>1. /\ Waiting' = Waiting /\ backlog' = backlog /\ owner' = owner /\ rcv' = rcv /\ sent' = sent
        /\ \A d \in Clients : peer'[d] = "idle" => peer[d] = "idle"
    BY <1>3 DEF PeerEnd, Waiting, TypeOK
  <2> QED BY <2>1 DEF Connections
<1> QED BY <1>1, <1>2, <1>3

\* Every step keeps each connection in one place.
LEMMA ConnectionsStep == TypeOK /\ Connections /\ [Next]_vars => Connections'
<1> SUFFICES ASSUME TypeOK, Connections, [Next]_vars PROVE Connections'
  OBVIOUS
<1>1. ASSUME backlog' = backlog, owner' = owner, peer' = peer, rcv' = rcv, sent' = sent
      PROVE  Connections'
  BY <1>1 DEF Connections, Waiting
<1>2. CASE WaitStep \/ ScanDone \/ UNCHANGED vars
  BY <1>1, <1>2 DEF WaitStep, Select, Poll, EpollWait, Wait, ScanDone, clients, vars
<1>3. ASSUME NEW i \in DOMAIN slot, Visit(i) PROVE sent' = sent
  BY <1>3 DEF Visit
<1>4. CASE ArrayStep
  <2>1. ASSUME NEW i \in DOMAIN slot, AcceptFails(i) PROVE Connections'
    BY <1>1, <1>3, <2>1 DEF AcceptFails
  <2>2. ASSUME NEW i \in DOMAIN slot, Closes(i) PROVE Connections'
    BY <1>3, <2>2, CloseKeepsConnections DEF Closes, Close
  <2>3. ASSUME NEW i \in DOMAIN slot, Reads(i) PROVE Connections'
    <3>1. CASE ReadData(i)
      BY <1>3, <3>1, ReadKeepsConnections DEF ReadData
    <3>2. CASE ReadErrorIgnored(i)
      <4>1. /\ Waiting' = Waiting /\ backlog' = backlog /\ owner' = owner /\ rcv' = rcv /\ sent' = sent
            /\ \A d \in Clients : peer'[d] = "idle" => peer[d] = "idle"
        BY <1>3, <3>2 DEF ReadErrorIgnored, Waiting, TypeOK
      <4> QED BY <4>1 DEF Connections
    <3> QED BY <2>3, <3>1, <3>2 DEF Reads
  <2>4. ASSUME NEW i \in DOMAIN slot, NEW fd \in Fds, NEW c \in Clients, Inserts(i, fd, c)
        PROVE  Connections'
    BY <1>3, <2>4, AcceptKeepsConnections DEF Inserts, Accepts, Insert
  <2>5. ASSUME NEW i \in DOMAIN slot, NEW fd \in Fds, NEW c \in Clients, Refuses(i, fd, c)
        PROVE  Connections'
    <3>1. /\ Waiting' = Waiting \ {c} /\ owner' = owner /\ rcv' = rcv /\ sent' = sent
          /\ \A m, n \in 1 .. Len(backlog') : backlog'[m] = backlog'[n] => m = n
      BY <1>3, <2>5, AcceptedFacts DEF Refuses, Accepts
    <3>2. \A d \in Clients : peer'[d] = "idle" => peer[d] = "idle"
      BY <2>5 DEF Refuses, TypeOK
    <3> QED BY <3>1, <3>2 DEF Connections
  <2>6. ASSUME NEW i \in DOMAIN slot, NEW fd \in Fds, NEW c \in Clients, Loses(i, fd, c)
        PROVE  Connections'
    BY <1>3, <2>6, AcceptKeepsConnections DEF Loses, Accepts
  <2> QED BY <1>4, <2>1, <2>2, <2>3, <2>4, <2>5, <2>6 DEF ArrayStep
<1>5. CASE EpollStep
  <2>0. ASSUME NEW fd, TakeEvent(fd) PROVE peer' = peer /\ sent' = sent
    BY <2>0 DEF TakeEvent, clients
  <2>1. CASE EpollAcceptFails
    BY <1>1, <2>0, <2>1 DEF EpollAcceptFails
  <2>2. CASE EpollAccept
    BY <2>0, <2>2, AcceptKeepsConnections DEF EpollAccept
  <2>3. ASSUME NEW fd \in Fds, EpollReadData(fd) PROVE Connections'
    BY <2>0, <2>3, ReadKeepsConnections DEF EpollReadData
  <2>4. ASSUME NEW fd \in Fds, EpollReadEnd(fd) PROVE Connections'
    BY <2>0, <2>4, CloseKeepsConnections DEF EpollReadEnd
  <2> QED BY <1>5, <2>1, <2>2, <2>3, <2>4 DEF EpollStep
<1> QED BY <1>2, <1>4, <1>5, PeerKeepsConnections, Cases
-----------------------------------------------------------------------------
\* An insertion takes an unused place for a descriptor that was closed.
LEMMA InsertFacts ==
  ASSUME TypeOK, Places, NEW i \in DOMAIN slot, NEW fd \in Fds, NEW c \in Clients,
         Inserts(i, fd, c)
  PROVE  /\ owner[fd] = None /\ owner' = [owner EXCEPT ![fd] = c] /\ backlog' = Tail(backlog)
         /\ \A j \in DOMAIN slot : slot[j] # fd
         /\ \E k \in DOMAIN slot : slot[k] = None /\ k # 0 /\ slot' = [slot EXCEPT ![k] = fd]
<1>1. owner[fd] = None
  BY DEF Inserts, Accepts, Accepted, Free
<1>2. PICK k \in Unused : slot' = [slot EXCEPT ![k] = fd]
  BY DEF Inserts, Insert
<1>3. k \in DOMAIN slot /\ slot[k] = None /\ k # 0
  BY <1>2, Basics DEF Unused, Places
<1> QED BY <1>1, <1>2, <1>3 DEF Inserts, Insert, Places

\* Every step keeps the array in order.
LEMMA PlacesStep == TypeOK /\ Connections /\ Places /\ [Next]_vars => Places'
<1> SUFFICES ASSUME TypeOK, Connections, Places, [Next]_vars PROVE Places'
  OBVIOUS
<1>0. /\ slot \in [DOMAIN slot -> Fds \cup {Listen, None}] /\ 0 \in DOMAIN slot
      /\ owner \in [Fds -> Clients \cup {None}] /\ interest \subseteq Fds \cup {Listen}
      /\ Listen \notin Fds /\ None \notin Fds /\ None # Listen /\ None \notin Clients
  BY Basics DEF TypeOK
<1>1. ASSUME slot' = slot, owner' = owner, interest' = interest, program' = program
      PROVE  Places'
  BY <1>1 DEF Places
<1>2. ASSUME NEW c \in Clients, Connect(c) \/ PeerSend(c) \/ PeerEnd(c) PROVE Places'
  BY <1>1, <1>2 DEF Connect, PeerSend, PeerEnd
<1>3. CASE WaitStep \/ ScanDone \/ UNCHANGED vars
  BY <1>1, <1>3 DEF WaitStep, Select, Poll, EpollWait, Wait, ScanDone, clients, vars
<1>4. ASSUME NEW i \in DOMAIN slot, Visit(i) PROVE program' = program /\ interest' = interest
  BY <1>4 DEF Visit
<1>5. CASE program # "epoll" /\ ArrayStep
  <2>1. ASSUME NEW i \in DOMAIN slot, AcceptFails(i) \/ Reads(i) PROVE Places'
    BY <1>1, <1>4, <2>1 DEF AcceptFails, Reads, ReadData, ReadErrorIgnored
  <2>2. ASSUME NEW i \in DOMAIN slot, Closes(i) PROVE Places'
    <3>1. /\ slot[i] \in Fds /\ slot' = [slot EXCEPT ![i] = None]
          /\ owner' = [owner EXCEPT ![slot[i]] = None]
          /\ program' = program /\ interest' = interest
      BY <1>4, <2>2 DEF Closes, Close
    <3>2. \A j \in DOMAIN slot : slot'[j] = IF j = i THEN None ELSE slot[j]
      BY <1>0, <3>1
    <3>3. DOMAIN slot' = DOMAIN slot
      BY <1>0, <3>1
    <3>4. \A fd \in Fds : fd # slot[i] => owner'[fd] = owner[fd]
      BY <1>0, <3>1
    <3>5. \A j \in DOMAIN slot' : slot'[j] \in Fds => slot'[j] # slot[i] /\ slot'[j] = slot[j]
      BY <1>0, <3>1, <3>2, <3>3 DEF Places
    <3>6. i # 0
      BY <1>0, <3>1 DEF Places
    <3> QED BY <1>0, <1>5, <3>1, <3>2, <3>3, <3>4, <3>5, <3>6 DEF Places
  <2>3. ASSUME NEW i \in DOMAIN slot, NEW fd \in Fds, NEW c \in Clients, Inserts(i, fd, c)
        PROVE  Places'
    <3>1. /\ owner[fd] = None /\ owner' = [owner EXCEPT ![fd] = c]
          /\ \A j \in DOMAIN slot : slot[j] # fd
          /\ program' = program /\ interest' = interest
      BY <1>4, <2>3, InsertFacts DEF Inserts, Accepts
    <3>2. PICK k \in DOMAIN slot : slot[k] = None /\ k # 0 /\ slot' = [slot EXCEPT ![k] = fd]
      BY <2>3, InsertFacts
    <3>3. /\ DOMAIN slot' = DOMAIN slot
          /\ \A j \in DOMAIN slot : slot'[j] = IF j = k THEN fd ELSE slot[j]
      BY <1>0, <3>2
    <3>4. \A other \in Fds : owner'[other] = IF other = fd THEN c ELSE owner[other]
      BY <1>0, <3>1
    <3> QED BY <1>0, <1>5, <3>1, <3>2, <3>3, <3>4 DEF Places
  <2>4. ASSUME NEW i \in DOMAIN slot, NEW fd \in Fds, NEW c \in Clients, Refuses(i, fd, c)
        PROVE  Places'
    BY <1>1, <1>4, <2>4 DEF Refuses, Accepts
  <2>5. ASSUME NEW i \in DOMAIN slot, NEW fd \in Fds, NEW c \in Clients, Loses(i, fd, c)
        PROVE  Places'
    <3>1. /\ slot' = slot /\ program' = program /\ interest' = interest
          /\ \A other \in Fds : owner'[other] = IF other = fd THEN c ELSE owner[other]
      BY <1>0, <1>4, <2>5 DEF Loses, Accepts
    <3> QED BY <1>0, <1>5, <3>1 DEF Places
  <2> QED BY <1>5, <2>1, <2>2, <2>3, <2>4, <2>5 DEF ArrayStep
<1>6. CASE program = "epoll" /\ EpollStep
  <2>0. ASSUME NEW fd, TakeEvent(fd) PROVE program' = program /\ slot' = slot
    BY <2>0 DEF TakeEvent
  <2>1. ASSUME EpollAcceptFails \/ \E fd \in Fds : EpollReadData(fd) PROVE Places'
    BY <1>1, <2>0, <2>1 DEF EpollAcceptFails, EpollReadData
  <2>2. CASE EpollAccept
    <3>1. PICK fd \in Fds, c \in Clients :
             owner' = [owner EXCEPT ![fd] = c] /\ interest' = interest \cup {fd}
      BY <2>2 DEF EpollAccept
    <3>2. \A other \in Fds : owner'[other] = IF other = fd THEN c ELSE owner[other]
      BY <1>0, <3>1
    <3>3. slot' = slot /\ program' = program
      BY <2>0, <2>2 DEF EpollAccept
    <3> QED BY <1>0, <1>6, <3>1, <3>2, <3>3 DEF Places
  <2>3. ASSUME NEW fd \in Fds, EpollReadEnd(fd) PROVE Places'
    <3>1. /\ interest' = interest \ {fd} /\ slot' = slot /\ program' = program
          /\ \A other \in Fds : other # fd => owner'[other] = owner[other]
      BY <1>0, <2>0, <2>3 DEF EpollReadEnd
    <3> QED BY <1>0, <1>6, <3>1 DEF Places
  <2> QED BY <1>6, <2>1, <2>2, <2>3 DEF EpollStep
<1> QED BY <1>2, <1>3, <1>5, <1>6, Cases

\* Only the poll server loses a descriptor, and counts it.
LEMMA LostStep == TypeOK /\ Places /\ LostCounted /\ Reported /\ [Next]_vars => LostCounted'
<1> SUFFICES ASSUME TypeOK, Places, LostCounted, Reported, [Next]_vars PROVE LostCounted'
  OBVIOUS
<1>0. /\ slot \in [DOMAIN slot -> Fds \cup {Listen, None}] /\ 0 \in DOMAIN slot
      /\ owner \in [Fds -> Clients \cup {None}] /\ interest \subseteq Fds \cup {Listen}
      /\ Listen \notin Fds /\ None \notin Fds /\ None # Listen /\ None \notin Clients
  BY Basics DEF TypeOK
<1>1. ASSUME Lost' = Lost, leaked' = leaked PROVE LostCounted'
  BY <1>1 DEF LostCounted
<1>2. ASSUME slot' = slot, owner' = owner, interest' = interest, program' = program, leaked' = leaked
      PROVE  LostCounted'
  BY <1>1, <1>2 DEF Lost, Watched
<1>3. ASSUME NEW c \in Clients, Connect(c) \/ PeerSend(c) \/ PeerEnd(c) PROVE LostCounted'
  BY <1>2, <1>3 DEF Connect, PeerSend, PeerEnd
<1>4. CASE WaitStep \/ ScanDone \/ UNCHANGED vars
  BY <1>2, <1>4 DEF WaitStep, Select, Poll, EpollWait, Wait, ScanDone, clients, vars
<1>5. ASSUME NEW i \in DOMAIN slot, Visit(i) PROVE program' = program /\ interest' = interest
  BY <1>5 DEF Visit
<1>6. CASE program # "epoll" /\ ArrayStep
  <2>0. Watched = {slot[j] : j \in DOMAIN slot} \ {Listen, None}
    BY <1>6 DEF Watched
  <2>1. ASSUME NEW i \in DOMAIN slot, AcceptFails(i) \/ Reads(i) PROVE LostCounted'
    BY <1>2, <1>5, <2>1 DEF AcceptFails, Reads, ReadData, ReadErrorIgnored
  <2>2. ASSUME NEW i \in DOMAIN slot, Closes(i) PROVE LostCounted'
    <3>1. /\ slot[i] \in Fds /\ slot' = [slot EXCEPT ![i] = None]
          /\ owner' = [owner EXCEPT ![slot[i]] = None]
          /\ program' = program /\ leaked' = leaked
      BY <1>5, <2>2 DEF Closes, Close
    <3>2. /\ \A j \in DOMAIN slot : slot'[j] = IF j = i THEN None ELSE slot[j]
          /\ DOMAIN slot' = DOMAIN slot
      BY <1>0, <3>1
    <3>3. Watched' = {slot'[j] : j \in DOMAIN slot} \ {Listen, None}
      BY <1>6, <3>1, <3>2 DEF Watched
    <3>4. Watched' = Watched \ {slot[i]}
      <4>1. \A j \in DOMAIN slot : slot[j] = slot[i] => j = i
        BY <1>0, <3>1 DEF Places
      <4> QED BY <2>0, <3>2, <3>3, <4>1
    <3>5. /\ slot[i] \in Watched
          /\ \A fd \in Fds : owner'[fd] = IF fd = slot[i] THEN None ELSE owner[fd]
      BY <1>0, <2>0, <3>1
    <3> QED BY <1>1, <3>1, <3>4, <3>5 DEF Lost
  <2>3. ASSUME NEW i \in DOMAIN slot, NEW fd \in Fds, NEW c \in Clients, Inserts(i, fd, c)
        PROVE  LostCounted'
    <3>1. /\ owner[fd] = None /\ owner' = [owner EXCEPT ![fd] = c]
          /\ program' = program /\ leaked' = leaked
      BY <1>5, <2>3, InsertFacts DEF Inserts, Insert, Accepts
    <3>2. PICK k \in DOMAIN slot : slot[k] = None /\ k # 0 /\ slot' = [slot EXCEPT ![k] = fd]
      BY <2>3, InsertFacts
    <3>3. /\ \A j \in DOMAIN slot : slot'[j] = IF j = k THEN fd ELSE slot[j]
          /\ DOMAIN slot' = DOMAIN slot
      BY <1>0, <3>2
    <3>4. Watched' = {slot'[j] : j \in DOMAIN slot} \ {Listen, None}
      BY <1>6, <3>1, <3>3 DEF Watched
    <3>5. Watched' = Watched \cup {fd}
      BY <1>0, <2>0, <3>2, <3>3, <3>4
    <3>6. \A other \in Fds : owner'[other] = IF other = fd THEN c ELSE owner[other]
      BY <1>0, <3>1
    <3> QED BY <1>0, <1>1, <3>1, <3>5, <3>6 DEF Lost
  <2>4. ASSUME NEW i \in DOMAIN slot, NEW fd \in Fds, NEW c \in Clients, Refuses(i, fd, c)
        PROVE  LostCounted'
    BY <1>2, <1>5, <2>4 DEF Refuses, Accepts
  <2>5. ASSUME NEW i \in DOMAIN slot, NEW fd \in Fds, NEW c \in Clients, Loses(i, fd, c)
        PROVE  LostCounted'
    <3>1. /\ slot' = slot /\ program' = program /\ leaked' = leaked + 1 /\ owner[fd] = None
          /\ \A other \in Fds : owner'[other] = IF other = fd THEN c ELSE owner[other]
      BY <1>0, <1>5, <2>5 DEF Loses, Accepts, Accepted, Free
    <3>2. Watched' = Watched
      BY <1>6, <3>1 DEF Watched
    <3>3. fd \notin Watched
      BY <1>0, <2>0, <3>1 DEF Places
    <3>4. Lost' = Lost \cup {fd} /\ fd \notin Lost
      BY <1>0, <3>1, <3>2, <3>3 DEF Lost
    <3>5. IsFiniteSet(Lost') /\ Cardinality(Lost') = Cardinality(Lost) + 1
      BY <3>4, FS_AddElement DEF LostCounted
    <3> QED BY <3>1, <3>5 DEF LostCounted
  <2> QED BY <1>6, <2>1, <2>2, <2>3, <2>4, <2>5 DEF ArrayStep
<1>7. CASE program = "epoll" /\ EpollStep
  <2>0. ASSUME NEW fd, TakeEvent(fd) PROVE program' = program /\ slot' = slot /\ leaked' = leaked
    BY <2>0 DEF TakeEvent
  <2>1. ASSUME EpollAcceptFails \/ \E fd \in Fds : EpollReadData(fd) PROVE LostCounted'
    BY <1>2, <2>0, <2>1 DEF EpollAcceptFails, EpollReadData
  <2>2. CASE EpollAccept
    <3>1. PICK fd \in Fds, c \in Clients :
             /\ Accepted(fd, c)
             /\ owner' = [owner EXCEPT ![fd] = c] /\ interest' = interest \cup {fd}
      BY <2>2 DEF EpollAccept
    <3>2. \A other \in Fds : owner'[other] = IF other = fd THEN c ELSE owner[other]
      BY <1>0, <3>1
    <3>3. program' = program /\ leaked' = leaked
      BY <2>0, <2>2 DEF EpollAccept
    <3>4. Watched' = Watched \cup {fd} /\ owner[fd] = None
      BY <1>0, <1>7, <3>1, <3>3 DEF Watched, Accepted, Free
    <3> QED BY <1>0, <1>1, <3>2, <3>3, <3>4 DEF Lost
  <2>3. ASSUME NEW fd \in Fds, EpollReadEnd(fd) PROVE LostCounted'
    <3>1. /\ interest' = interest \ {fd} /\ program' = program /\ leaked' = leaked
          /\ \A other \in Fds : owner'[other] = IF other = fd THEN None ELSE owner[other]
      BY <1>0, <2>0, <2>3 DEF EpollReadEnd
    <3>2. Watched' = Watched \ {fd}
      BY <1>7, <3>1 DEF Watched
    <3>3. fd \in Watched
      BY <1>0, <1>7, <2>3 DEF EpollReadEnd, TakeEvent, Reported, Watched
    <3> QED BY <1>1, <3>1, <3>2, <3>3 DEF Lost
  <2> QED BY <1>7, <2>1, <2>2, <2>3 DEF EpollStep
<1> QED BY <1>3, <1>4, <1>6, <1>7, Cases
-----------------------------------------------------------------------------
\* What was reported stays watched until it is served: an accept comes before
\* every close of a round, a close takes its descriptor out of the round.
LEMMA ReportedStep == TypeOK /\ Places /\ Reported /\ [Next]_vars => Reported'
<1> SUFFICES ASSUME TypeOK, Places, Reported, [Next]_vars PROVE Reported'
  OBVIOUS
<1>0. /\ slot \in [DOMAIN slot -> Fds \cup {Listen, None}] /\ DOMAIN slot \subseteq Nat
      /\ owner \in [Fds -> Clients \cup {None}] /\ interest \subseteq Fds \cup {Listen}
      /\ Listen \notin Fds /\ None \notin Fds /\ None # Listen /\ None \notin Clients
  BY Basics DEF TypeOK
<1>1. ASSUME slot' = slot, owner' = owner, interest' = interest, program' = program,
             found' = found, pc' = pc, at' = at
      PROVE  Reported'
  BY <1>1 DEF Reported
<1>2. ASSUME NEW c \in Clients, Connect(c) \/ PeerSend(c) \/ PeerEnd(c) PROVE Reported'
  BY <1>1, <1>2 DEF Connect, PeerSend, PeerEnd
<1>3. CASE UNCHANGED vars
  BY <1>1, <1>3 DEF clients, vars
<1>4. CASE ScanDone
  <2>1. program' = program /\ found' = {} /\ pc' = "wait"
    BY <1>4 DEF ScanDone
  <2> QED BY <2>1 DEF Reported
<1>5. CASE WaitStep
  <2>1. CASE program \in {"select", "select_io"} /\ Select
    <3>1. /\ program' = program /\ slot' = slot /\ owner' = owner
          /\ found' \subseteq {slot[i] : i \in DOMAIN slot} \ {None}
      BY <2>1 DEF Select, Wait
    <3>2. found' \subseteq Fds \cup {Listen}
      BY <1>0, <3>1
    <3>3. \A fd \in found' \ {Listen} : owner[fd] # None
      BY <1>0, <3>1 DEF Places
    <3> QED BY <2>1, <3>1, <3>2, <3>3 DEF Reported
  <2>2. CASE program = "poll" /\ Poll
    <3>1. program' = program /\ slot' = slot /\ \A i \in found' : slot[i] # None
      BY <2>2 DEF Poll, Wait
    <3> QED BY <2>2, <3>1 DEF Reported
  <2>3. CASE program = "epoll" /\ EpollWait
    <3>1. program' = program /\ interest' = interest /\ found' \subseteq interest
      BY <2>3 DEF EpollWait, Wait
    <3> QED BY <2>3, <3>1 DEF Reported
  <2> QED BY <1>5, <2>1, <2>2, <2>3 DEF WaitStep
<1>6. CASE program # "epoll" /\ ArrayStep
  <2>1. PICK i \in DOMAIN slot : Visit(i)
    BY <1>6 DEF ArrayStep, AcceptFails, Closes, Reads, ReadData, ReadErrorIgnored,
                Inserts, Refuses, Loses, Accepts
  <2>2. program' = program /\ found' = found /\ at' = i + 1 /\ i \in Nat
    BY <1>0, <2>1 DEF Visit
  <2>3. at' # 0
    BY <2>2
  <2> QED BY <1>6, <2>2, <2>3 DEF Reported
<1>7. CASE program = "epoll" /\ EpollStep
  <2>0. ASSUME NEW fd, TakeEvent(fd) PROVE program' = program /\ found' = found \ {fd}
    BY <2>0 DEF TakeEvent
  <2>1. CASE EpollAcceptFails
    BY <1>7, <2>0, <2>1 DEF EpollAcceptFails, Reported
  <2>2. CASE EpollAccept
    BY <1>7, <2>0, <2>2 DEF EpollAccept, Reported
  <2>3. ASSUME NEW fd \in Fds, EpollReadData(fd) PROVE Reported'
    BY <1>7, <2>0, <2>3 DEF EpollReadData, Reported
  <2>4. ASSUME NEW fd \in Fds, EpollReadEnd(fd) PROVE Reported'
    BY <1>7, <2>0, <2>4 DEF EpollReadEnd, Reported
  <2> QED BY <1>7, <2>1, <2>2, <2>3, <2>4 DEF EpollStep
<1> QED BY <1>2, <1>3, <1>4, <1>5, <1>6, <1>7, Cases

\* A descriptor can be served without blocking.
Servable(fd) == (fd # Listen => owner[fd] # None) /\ Readable(fd)

\* After a visit the rest of the array is to be visited as before.
LEMMA RestOfScan ==
  ASSUME TypeOK, Places, Reported, program # "epoll", NEW i \in DOMAIN slot, Visit(i),
         \/ slot' = slot
         \/ slot' = [slot EXCEPT ![i] = None]
         \/ \E fd \in Fds, k \in DOMAIN slot :
              /\ i = 0 /\ owner[fd] = None /\ (\A j \in DOMAIN slot : slot[j] # fd)
              /\ slot[k] = None /\ k # 0 /\ slot' = [slot EXCEPT ![k] = fd]
  PROVE  \A fd \in Pending' : fd \in Pending /\ fd # slot[i] /\ fd \in Fds
<1>0. /\ slot \in [DOMAIN slot -> Fds \cup {Listen, None}] /\ DOMAIN slot \subseteq Nat
      /\ 0 \in DOMAIN slot /\ Listen \notin Fds /\ None \notin Fds /\ None # Listen
  BY Basics
<1>1. /\ program' = program /\ found' = found /\ at' = i + 1 /\ pc = "scan"
      /\ i \in ToVisit /\ i >= at /\ at \in Nat /\ i \in Nat
  BY <1>0 DEF Visit, ToVisit, TypeOK
<1>2. DOMAIN slot' = DOMAIN slot
  BY <1>0
<1> SUFFICES ASSUME NEW fd \in Pending' PROVE fd \in Pending /\ fd # slot[i] /\ fd \in Fds
  OBVIOUS
<1>3. PICK j \in ToVisit' : fd = slot'[j]
  BY <1>1 DEF Pending
<1>4. /\ j \in DOMAIN slot /\ j >= i + 1 /\ slot'[j] # None
      /\ IF program = "poll" THEN j \in found ELSE slot'[j] \in found
  BY <1>1, <1>2, <1>3 DEF ToVisit, Isset
<1>5. j \in Nat /\ j # i /\ j # 0 /\ j >= at
  BY <1>0, <1>1, <1>4
<1>6. slot'[j] = slot[j]
  <2>1. CASE slot' = slot
    BY <2>1
  <2>2. CASE slot' = [slot EXCEPT ![i] = None]
    BY <1>0, <1>4, <1>5, <2>2
  <2>3. ASSUME NEW g \in Fds, NEW k \in DOMAIN slot,
               i = 0, owner[g] = None, \A m \in DOMAIN slot : slot[m] # g,
               slot[k] = None, k # 0, slot' = [slot EXCEPT ![k] = g]
        PROVE  slot'[j] = slot[j]
    <3>1. at = 0
      BY <1>1, <2>3
    <3>2. CASE j = k
      <4>1. slot'[j] = g /\ slot[j] = None
        BY <1>0, <2>3, <3>2
      <4>2. CASE program = "poll"
        BY <1>1, <1>4, <3>1, <4>1, <4>2 DEF Reported
      <4>3. CASE program # "poll"
        <5>1. g \in found /\ program \in {"select", "select_io"}
          BY <1>4, <4>1, <4>3, ConstantsAssumption DEF TypeOK
        <5>2. owner[g] # None
          BY <1>0, <1>1, <3>1, <5>1 DEF Reported
        <5> QED BY <2>3, <5>2
      <4> QED BY <4>2, <4>3
    <3>3. CASE j # k
      BY <1>0, <1>4, <2>3, <3>3
    <3> QED BY <3>2, <3>3
  <2> QED BY <2>1, <2>2, <2>3
<1>7. j \in ToVisit
  BY <1>4, <1>5, <1>6 DEF ToVisit, Isset
<1>8. slot[j] # slot[i] /\ slot[j] # Listen
  BY <1>0, <1>4, <1>5, <1>6 DEF Places
<1>9. fd = slot[j] /\ fd \in Fds /\ fd # slot[i]
  BY <1>0, <1>3, <1>4, <1>6, <1>8
<1> QED BY <1>7, <1>9 DEF Pending

\* The descriptors of a round.
LEMMA PendingType ==
  ASSUME TypeOK, Places, Reported
  PROVE  Pending \subseteq Fds \cup {Listen}
<1>1. CASE program = "epoll"
  BY <1>1 DEF Pending, Reported, TypeOK
<1>2. CASE program # "epoll"
  BY <1>2, Basics DEF Pending, ToVisit, Isset
<1> QED BY <1>1, <1>2

\* A descriptor stays servable while nothing is done to its connection.
LEMMA StaysServable ==
  ASSUME TypeOK, NEW fd \in Fds, Servable(fd), owner'[fd] = owner[fd],
         \A c \in Clients : c = owner[fd] =>
            /\ rcv[c] > 0 => rcv'[c] > 0
            /\ peer[c] \in Ended => peer'[c] \in Ended
  PROVE  Servable(fd)' /\ owner[fd] \in Clients
<1>1. fd # Listen /\ owner[fd] \in Clients
  BY Basics DEF Servable, TypeOK
<1> QED BY <1>1 DEF Servable, Readable

\* The clients only add to what can be served.
LEMMA PeerKeepsServable ==
  ASSUME TypeOK, NEW c \in Clients, Connect(c) \/ PeerSend(c) \/ PeerEnd(c),
         NEW fd \in Fds \cup {Listen}, Servable(fd)
  PROVE  Servable(fd)'
<1>0. Listen \notin Fds
  BY Basics
<1>1. CASE fd = Listen
  <2>1. backlog' = backlog \/ backlog' = Append(backlog, c)
    BY DEF Connect, PeerSend, PeerEnd
  <2>2. backlog' # <<>>
    <3>1. backlog \in Seq(Clients) /\ backlog # <<>>
      BY <1>1 DEF Servable, Readable, TypeOK
    <3>2. Append(backlog, c) # <<>>
      <4>1. Len(Append(backlog, c)) = Len(backlog) + 1 /\ Len(backlog) \in Nat
            /\ Append(backlog, c) \in Seq(Clients)
        BY <3>1, AppendProperties, LenProperties
      <4> QED BY <4>1, EmptySeq
    <3> QED BY <2>1, <3>1, <3>2
  <2> QED BY <1>1, <2>2 DEF Servable, Readable
<1>2. CASE fd \in Fds
  <2>1. owner' = owner
    BY DEF Connect, PeerSend, PeerEnd
  <2>2. \A d \in Clients : rcv[d] > 0 => rcv'[d] > 0
    <3>1. CASE PeerSend(c)
      <4> SUFFICES ASSUME NEW d \in Clients, rcv[d] > 0 PROVE rcv'[d] > 0
        OBVIOUS
      <4>1. rcv[d] \in Int /\ rcv[d] + 1 > 0
        BY ConstantsAssumption DEF TypeOK
      <4>2. rcv'[d] = IF d = c THEN rcv[d] + 1 ELSE rcv[d]
        BY <3>1 DEF PeerSend, TypeOK
      <4>3. CASE d = c
        BY <4>1, <4>2, <4>3
      <4>4. CASE d # c
        BY <4>2, <4>4
      <4> QED BY <4>3, <4>4
    <3>2. CASE Connect(c) \/ PeerEnd(c)
      BY <3>2 DEF Connect, PeerEnd
    <3> QED BY <3>1, <3>2
  <2>3. \A d \in Clients : peer[d] \in Ended => peer'[d] \in Ended
    BY DEF Connect, PeerSend, PeerEnd, TypeOK, Ended
  <2> QED BY <1>2, <2>1, <2>2, <2>3, StaysServable
<1> QED BY <1>1, <1>2

\* A recv takes from its own connection only.
LEMMA OthersKeepData ==
  ASSUME TypeOK, Connections, NEW fd \in Fds, NEW x \in Fds, fd # x, owner[fd] # None,
         rcv' = [rcv EXCEPT ![owner[x]] = rcv[owner[x]] - 1]
  PROVE  rcv'[owner[fd]] = rcv[owner[fd]]
<1>1. owner[fd] # owner[x] /\ owner[fd] \in Clients
  BY DEF Connections, TypeOK
<1> QED BY <1>1 DEF TypeOK

\* Every step leaves what remains to be served servable.
LEMMA RecvStep ==
  TypeOK /\ Connections /\ Places /\ Reported /\ RecvNeverBlocks /\ [Next]_vars => RecvNeverBlocks'
<1> SUFFICES ASSUME TypeOK, Connections, Places, Reported, RecvNeverBlocks, [Next]_vars, pc' = "scan"
             PROVE  \A fd \in Pending' : Servable(fd)'
  BY DEF RecvNeverBlocks, Servable
<1>0. /\ pc = "scan" => \A fd \in Pending : Servable(fd)
      /\ Pending \subseteq Fds \cup {Listen} /\ Listen \notin Fds
      /\ \A fd \in Fds : Servable(fd) => owner[fd] # None
  BY PendingType, Basics DEF RecvNeverBlocks, Servable
<1>1. ASSUME NEW c \in Clients, Connect(c) \/ PeerSend(c) \/ PeerEnd(c)
      PROVE  \A fd \in Pending' : Servable(fd)'
  <2>1. Pending' = Pending /\ pc' = pc
    BY <1>1 DEF Connect, PeerSend, PeerEnd, Pending, ToVisit, Isset
  <2> QED BY <1>0, <1>1, <2>1, PeerKeepsServable
<1>2. CASE UNCHANGED vars
  <2>1. Pending' = Pending /\ pc' = pc /\ \A fd : Servable(fd)' <=> Servable(fd)
    BY <1>2 DEF vars, clients, Pending, ToVisit, Isset, Servable, Readable
  <2> QED BY <1>0, <2>1
<1>3. CASE ScanDone
  BY <1>3 DEF ScanDone
<1>4. CASE WaitStep
  <2>1. /\ program' = program /\ slot' = slot /\ at' = 0 /\ pc' = "scan"
        /\ \A fd : Readable(fd)' <=> Readable(fd)
        /\ owner' = owner
    BY <1>4 DEF WaitStep, Select, Poll, EpollWait, Wait, clients, Readable
  <2>2. SUFFICES ASSUME NEW fd \in Pending' PROVE Readable(fd) /\ (fd # Listen => owner[fd] # None)
    BY <2>1 DEF Servable
  <2>3. CASE program \in {"select", "select_io"} /\ Select
    <3>1. PICK i \in DOMAIN slot : fd = slot[i] /\ slot[i] \in found' /\ slot[i] # None
      BY <2>1, <2>3 DEF Pending, ToVisit, Isset
    <3>2. Readable(fd)
      BY <2>3, <3>1 DEF Select, Wait
    <3> QED BY <3>1, <3>2, Basics DEF Places
  <2>4. CASE program = "poll" /\ Poll
    <3>1. PICK i \in DOMAIN slot : fd = slot[i] /\ i \in found' /\ slot[i] # None
      BY <2>1, <2>4 DEF Pending, ToVisit, Isset
    <3>2. Readable(fd)
      BY <2>4, <3>1 DEF Poll, Wait
    <3> QED BY <3>1, <3>2, Basics DEF Places
  <2>5. CASE program = "epoll" /\ EpollWait
    <3>1. fd \in interest /\ Readable(fd)
      BY <2>1, <2>5 DEF EpollWait, Wait, Pending
    <3> QED BY <3>1 DEF Places
  <2> QED BY <1>4, <2>3, <2>4, <2>5 DEF WaitStep
<1>5. CASE program # "epoll" /\ ArrayStep
  <2>0. ASSUME NEW i \in DOMAIN slot, Visit(i) PROVE pc = "scan"
    BY <2>0 DEF Visit
  <2>1. ASSUME NEW i \in DOMAIN slot, Visit(i),
               \A fd \in Pending' : fd \in Pending /\ fd # slot[i] /\ fd \in Fds,
               \A fd \in Fds : fd # slot[i] /\ Servable(fd) => Servable(fd)'
        PROVE  \A fd \in Pending' : Servable(fd)'
    BY <1>0, <2>0, <2>1
  <2>2. ASSUME NEW i \in DOMAIN slot, AcceptFails(i) PROVE \A fd \in Pending' : Servable(fd)'
    <3>1. Visit(i) /\ slot' = slot /\ owner' = owner /\ rcv' = rcv /\ peer' = peer
      BY <2>2 DEF AcceptFails
    <3> QED BY <1>5, <2>1, <3>1, RestOfScan, StaysServable
  <2>3. ASSUME NEW i \in DOMAIN slot, Closes(i) PROVE \A fd \in Pending' : Servable(fd)'
    <3>1. /\ Visit(i) /\ slot' = [slot EXCEPT ![i] = None] /\ rcv' = rcv /\ peer' = peer
          /\ owner' = [owner EXCEPT ![slot[i]] = None]
      BY <2>3 DEF Closes, Close
    <3>2. \A fd \in Fds : fd # slot[i] => owner'[fd] = owner[fd]
      BY <3>1 DEF TypeOK
    <3> QED BY <1>5, <2>1, <3>1, <3>2, RestOfScan, StaysServable
  <2>4. ASSUME NEW i \in DOMAIN slot, Reads(i) PROVE \A fd \in Pending' : Servable(fd)'
    <3>1. /\ Visit(i) /\ slot' = slot /\ owner' = owner /\ slot[i] \in Fds
      BY <2>4 DEF Reads, ReadData, ReadErrorIgnored
    <3>2. ASSUME NEW fd \in Fds, fd # slot[i], Servable(fd) PROVE Servable(fd)'
      <4>1. owner[fd] # None
        BY <1>0, <3>2
      <4>2. CASE ReadData(i)
        <5>1. rcv'[owner[fd]] = rcv[owner[fd]] /\ peer' = peer
          BY <3>1, <3>2, <4>1, <4>2, OthersKeepData DEF ReadData
        <5> QED BY <3>1, <3>2, <5>1, StaysServable
      <4>3. CASE ReadErrorIgnored(i)
        <5>1. rcv' = rcv /\ \A d \in Clients : peer[d] \in Ended => peer'[d] \in Ended
          BY <4>3 DEF ReadErrorIgnored, TypeOK, Ended
        <5> QED BY <3>1, <3>2, <5>1, StaysServable
      <4> QED BY <2>4, <4>2, <4>3 DEF Reads
    <3> QED BY <1>5, <2>1, <3>1, <3>2, RestOfScan
  <2>5. ASSUME NEW i \in DOMAIN slot, NEW g \in Fds, NEW c \in Clients, Inserts(i, g, c)
        PROVE  \A fd \in Pending' : Servable(fd)'
    <3>1. /\ Visit(i) /\ rcv' = rcv /\ peer' = peer /\ slot[i] = Listen
          /\ owner[g] = None /\ owner' = [owner EXCEPT ![g] = c]
          /\ \A j \in DOMAIN slot : slot[j] # g
      BY <2>5, InsertFacts DEF Inserts, Insert, Accepts
    <3>2. PICK k \in DOMAIN slot : slot[k] = None /\ k # 0 /\ slot' = [slot EXCEPT ![k] = g]
      BY <2>5, InsertFacts
    <3>3. i = 0
      BY <3>1, Basics DEF Places
    <3>4. \A fd \in Pending' : fd \in Pending /\ fd # slot[i] /\ fd \in Fds
      BY <1>5, <3>1, <3>2, <3>3, RestOfScan
    <3>5. ASSUME NEW fd \in Fds, Servable(fd) PROVE Servable(fd)'
      <4>1. fd # g
        BY <1>0, <3>1, <3>5
      <4>2. owner'[fd] = owner[fd]
        BY <3>1, <4>1 DEF TypeOK
      <4> QED BY <3>1, <3>5, <4>2, StaysServable
    <3> QED BY <2>1, <3>1, <3>4, <3>5
  <2>6. ASSUME NEW i \in DOMAIN slot, NEW g \in Fds, NEW c \in Clients, Refuses(i, g, c)
        PROVE  \A fd \in Pending' : Servable(fd)'
    <3>1. /\ Visit(i) /\ rcv' = rcv /\ owner' = owner /\ slot' = slot
          /\ peer' = [peer EXCEPT ![c] = "refused"]
          /\ \A fd \in Fds : owner[fd] # c
      BY <2>6, AcceptedFacts DEF Refuses, Accepts
    <3>2. ASSUME NEW fd \in Fds, Servable(fd) PROVE Servable(fd)'
      <4>1. \A d \in Clients : d = owner[fd] => peer'[d] = peer[d]
        BY <3>1 DEF TypeOK
      <4> QED BY <3>1, <3>2, <4>1, StaysServable
    <3> QED BY <1>5, <2>1, <3>1, <3>2, RestOfScan
  <2>7. ASSUME NEW i \in DOMAIN slot, NEW g \in Fds, NEW c \in Clients, Loses(i, g, c)
        PROVE  \A fd \in Pending' : Servable(fd)'
    <3>1. /\ Visit(i) /\ rcv' = rcv /\ peer' = peer /\ slot' = slot
          /\ owner[g] = None /\ owner' = [owner EXCEPT ![g] = c]
      BY <2>7 DEF Loses, Accepts, Accepted, Free
    <3>2. ASSUME NEW fd \in Fds, Servable(fd) PROVE Servable(fd)'
      <4>1. fd # g
        BY <1>0, <3>1, <3>2
      <4>2. owner'[fd] = owner[fd]
        BY <3>1, <4>1 DEF TypeOK
      <4> QED BY <3>1, <3>2, <4>2, StaysServable
    <3> QED BY <1>5, <2>1, <3>1, <3>2, RestOfScan
  <2> QED BY <1>5, <2>2, <2>3, <2>4, <2>5, <2>6, <2>7 DEF ArrayStep
<1>6. CASE program = "epoll" /\ EpollStep
  <2>0. ASSUME NEW x, TakeEvent(x)
        PROVE  /\ Pending' = Pending \ {x} /\ pc = "scan" /\ peer' = peer
               /\ x \in Pending
    BY <1>6, <2>0 DEF TakeEvent, Pending, clients
  <2>1. CASE EpollAcceptFails
    <3>1. /\ \A fd : Servable(fd)' <=> Servable(fd)
          /\ Pending' \subseteq Pending /\ pc = "scan"
      BY <2>0, <2>1 DEF EpollAcceptFails, Servable, Readable
    <3> QED BY <1>0, <3>1
  <2>2. CASE EpollAccept
    <3>1. PICK g \in Fds, c \in Clients :
             owner[g] = None /\ owner' = [owner EXCEPT ![g] = c]
      BY <2>2 DEF EpollAccept, Accepted, Free
    <3>2. Pending' = Pending \ {Listen} /\ pc = "scan" /\ peer' = peer /\ rcv' = rcv
      BY <2>0, <2>2 DEF EpollAccept
    <3>3. ASSUME NEW fd \in Pending' PROVE Servable(fd)'
      <4>1. fd \in Fds /\ Servable(fd) /\ fd # g
        BY <1>0, <3>1, <3>2, <3>3
      <4>2. owner'[fd] = owner[fd]
        BY <3>1, <4>1 DEF TypeOK
      <4> QED BY <3>2, <4>1, <4>2, StaysServable
    <3> QED BY <3>3
  <2>3. ASSUME NEW x \in Fds, EpollReadData(x) PROVE \A fd \in Pending' : Servable(fd)'
    <3>1. /\ Pending' = Pending \ {x} /\ pc = "scan" /\ peer' = peer /\ backlog' = backlog
          /\ owner' = owner /\ rcv' = [rcv EXCEPT ![owner[x]] = rcv[owner[x]] - 1]
      BY <2>0, <2>3 DEF EpollReadData
    <3>2. ASSUME NEW fd \in Fds, fd # x, Servable(fd) PROVE Servable(fd)'
      <4>1. rcv'[owner[fd]] = rcv[owner[fd]]
        BY <1>0, <3>1, <3>2, OthersKeepData
      <4> QED BY <3>1, <3>2, <4>1, StaysServable
    <3>3. Servable(Listen) => Servable(Listen)'
      BY <3>1 DEF Servable, Readable
    <3> QED BY <1>0, <3>1, <3>2, <3>3
  <2>4. ASSUME NEW x \in Fds, EpollReadEnd(x) PROVE \A fd \in Pending' : Servable(fd)'
    <3>1. /\ Pending' = Pending \ {x} /\ pc = "scan" /\ peer' = peer /\ backlog' = backlog
          /\ rcv' = rcv /\ \A fd \in Fds : fd # x => owner'[fd] = owner[fd]
      BY <2>0, <2>4 DEF EpollReadEnd, TypeOK
    <3>2. ASSUME NEW fd \in Fds, fd # x, Servable(fd) PROVE Servable(fd)'
      BY <3>1, <3>2, StaysServable
    <3>3. Servable(Listen) => Servable(Listen)'
      BY <3>1 DEF Servable, Readable
    <3> QED BY <1>0, <3>1, <3>2, <3>3
  <2> QED BY <1>6, <2>1, <2>2, <2>3, <2>4 DEF EpollStep
<1> QED BY <1>1, <1>2, <1>3, <1>4, <1>5, <1>6, Cases
-----------------------------------------------------------------------------
\* The inductive invariant holds in every reachable state.
LEMMA IInvAlways == Spec => []IInv
<1>1. IInv /\ [Next]_vars => IInv'
  BY TypeStep, ConnectionsStep, PlacesStep, LostStep, ReportedStep, RecvStep DEF IInv
<1> QED BY <1>1, InitIInv, PTL DEF Spec

\* Types of all variables, for the four servers.
THEOREM TypeCorrect == Spec => []TypeOK
BY IInvAlways, PTL DEF IInv

\* select_server.cc:86: no accept and no recv of the four loops blocks,
\* although accepts reuse the numbers of descriptors that closes set free and
\* the report is older than both.
THEOREM NoCallBlocks == Spec => []RecvNeverBlocks
BY IInvAlways, PTL DEF IInv

\* Whatever is in the array or in the epoll instance is open and is there
\* once; the descriptors missing there are exactly those the poll server
\* accepted with its array full.
THEOREM WatchedIsOpen == Spec => []DescriptorsWatched
<1>1. IInv => DescriptorsWatched
  <2> SUFFICES ASSUME IInv PROVE DescriptorsWatched
    OBVIOUS
  <2>1. \A fd \in Watched : owner[fd] # None
    <3>1. CASE program = "epoll"
      BY <3>1 DEF Watched, IInv, Places
    <3>2. CASE program # "epoll"
      BY <3>2, Basics DEF Watched, IInv, Places
    <3> QED BY <3>1, <3>2
  <2>2. Cardinality({fd \in Fds \ Watched : owner[fd] # None}) = leaked
    BY DEF IInv, LostCounted, Lost
  <2> QED BY <2>1, <2>2 DEF DescriptorsWatched, IInv, Places
<1> QED BY <1>1, IInvAlways, PTL
=============================================================================
