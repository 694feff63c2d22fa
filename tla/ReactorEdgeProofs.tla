-------------------------- MODULE ReactorEdgeProofs --------------------------
(***************************************************************************)
(* No edge of the edge-triggered epoll instance is lost: proofs for reads, *)
(* for writes, for accepts and for the switching of write events; that     *)
(* only the end of the process drops a healthy connection; that the        *)
(* program as built, with blocking descriptors, never answers; that with a *)
(* send queue long enough no answer is lost, repeated or reordered; and    *)
(* that with any queue the bytes of the answers come in turn, none skipped *)
(* and none lost.                                                          *)
(***************************************************************************)
EXTENDS ReactorProofs

\* The level of a registered connection.
LEMMA LevelOfConn ==
  ASSUME NEW fd \in Fds
  PROVE  /\ "IN" \in Level(fd) <=> (rcv[owner[fd]] # <<>> \/ peer[owner[fd]] # "open")
         /\ "OUT" \in Level(fd) <=>
              (Len(snd[owner[fd]]) < SndBuf \/ peer[owner[fd]] \in Aborted)
         /\ "ERR" \in Level(fd) <=> peer[owner[fd]] \in Aborted
<1>1. fd # Listen
  BY ConstantsAssumption
<1>2. QED BY <1>1 DEF Level, SockLevel, Aborted
-----------------------------------------------------------------------------
\* NoLostRead, for one descriptor.
ReadPending(fd) ==
  \/ fd \in ready
  \/ \E e \in batch : e.fd = fd /\ "IN" \in e.ev
  \/ pc = "recv" /\ cur.fd = fd

LEMMA NoLostReadStep == Safe /\ NoLostRead /\ [Next]_vars => NoLostRead'
<1> SUFFICES ASSUME Safe, NoLostRead, [Next]_vars PROVE NoLostRead'
  OBVIOUS
<1> USE ConstantsAssumption
<1>t. TypeOK /\ Core
  BY DEF Safe, Core
<1>c. pc \in {"recv", "process", "send"} =>
        cur.fd \in Fds \cap events /\ cur.fd \in AllFds
  BY <1>t DEF Core, Shape, HandlerEventLive, AllFds
<1>n. \A fd \in Fds \cap events :
        rcv[owner[fd]] # <<>> \/ peer[owner[fd]] # "open" => ReadPending(fd)
  BY DEF NoLostRead, ReadPending
<1> SUFFICES ASSUME NEW fd \in Fds, fd \in events',
                    rcv'[owner'[fd]] # <<>> \/ peer'[owner'[fd]] # "open"
             PROVE  ReadPending(fd)'
  BY DEF NoLostRead, ReadPending
<1>a. fd \in AllFds /\ fd # Listen
  BY DEF AllFds
\* A step that moves neither the thread nor the data keeps what is pending.
<1>f. ASSUME fd \in events,
             rcv[owner[fd]] # <<>> \/ peer[owner[fd]] # "open",
             fd \in ready => fd \in ready', batch' = batch,
             pc = "recv" /\ cur.fd = fd => pc' = "recv" /\ cur' = cur
      PROVE  ReadPending(fd)'
  BY <1>f, <1>n DEF ReadPending
<1>1. CASE \E c \in Clients : Peer(c)
  <2>1. PICK c \in Clients : Peer(c)
    BY <1>1
  <2>2. UNCHANGED <<epoll, owner, events, pc, cur, batch>>
    BY <2>1 DEF Peer, Connect, PeerSend, PeerShutdown, PeerReset, PeerRead, heap, thread
  <2>3. ready \subseteq ready'
    BY <2>1 DEF Peer, Connect, PeerSend, PeerShutdown, PeerReset, PeerRead, Wake
  <2>4. CASE rcv[owner[fd]] # <<>> \/ peer[owner[fd]] # "open"
    BY <1>f, <2>2, <2>3, <2>4
  <2>5. CASE rcv[owner[fd]] = <<>> /\ peer[owner[fd]] = "open"
    <3>1. "IN" \in epoll[fd] /\ owner[fd] \in Clients
      BY <1>t, <2>2 DEF Core, Shape, MapMatchesEpoll, TypeOK
    <3>2. peer[owner[fd]] # "idle"
      BY <2>5
    <3>3. owner[fd] = c /\ (PeerSend(c) \/ PeerShutdown(c) \/ PeerReset(c))
      <4>1. Connect(c) => rcv' = rcv /\ peer'[owner[fd]] = peer[owner[fd]]
        BY <1>t, <3>1, <3>2 DEF Connect, TypeOK
      <4>2. PeerRead(c) => rcv' = rcv /\ peer' = peer
        BY DEF PeerRead
      <4>3. owner[fd] # c => rcv'[owner[fd]] = rcv[owner[fd]] /\ peer'[owner[fd]] = peer[owner[fd]]
        BY <1>t, <2>1, <3>1
           DEF Peer, Connect, PeerSend, PeerShutdown, PeerReset, PeerRead, TypeOK
      <4> QED BY <2>1, <2>2, <2>5, <4>1, <4>2, <4>3 DEF Peer
    <3>4. fd \in ready'
      <4>1. PICK evs : Wake(c, evs) /\ "IN" \in evs
        BY <3>3 DEF PeerSend, PeerShutdown, PeerReset
      <4> QED BY <3>1, <3>3, <4>1 DEF Wake
    <3> QED BY <3>4 DEF ReadPending
  <2> QED BY <2>4, <2>5
<1>2. CASE EpollWait
  <2>1. PICK taken \in SUBSET ready :
          /\ batch' = {EntryOf(f) : f \in {g \in taken : Reported(g) # {}}}
          /\ ready' = ready \ taken
    BY <1>2 DEF EpollWait
  <2>2. UNCHANGED <<peer, rcv, owner, epoll, events>> /\ pc = "loop" /\ batch = {}
    BY <1>2 DEF EpollWait, heap, peers
  <2>3. fd \in ready
    BY <1>n, <2>2 DEF ReadPending
  <2>4. "IN" \in Reported(fd)
    <3>1. "IN" \in Level(fd)
      BY <2>2, LevelOfConn
    <3>2. "IN" \in epoll[fd]
      BY <1>t, <2>2 DEF Core, Shape
    <3> QED BY <3>1, <3>2 DEF Reported
  <2>5. CASE fd \in taken
    <3>1. EntryOf(fd) \in batch' /\ EntryOf(fd).fd = fd /\ "IN" \in EntryOf(fd).ev
      BY <2>1, <2>4, <2>5 DEF EntryOf, Promote
    <3> QED BY <3>1 DEF ReadPending
  <2> QED BY <2>1, <2>3, <2>5 DEF ReadPending
<1>3. CASE DispatchRead
  <2>1. PICK e \in batch :
          /\ cur' = e /\ batch' = batch \ {e}
          /\ pc' = IF "IN" \in e.ev /\ IsSockOk(e.fd)
                   THEN IF e.fd = Listen THEN "accept" ELSE "recv"
                   ELSE "write"
    BY <1>3 DEF DispatchRead
  <2>2. UNCHANGED <<peer, rcv, owner, ready, events>> /\ pc = "loop"
    BY <1>3 DEF DispatchRead, kernel, heap, peers
  <2>3. ReadPending(fd)
    BY <1>n, <2>2
  <2> QED BY <1>a, <2>1, <2>2, <2>3 DEF ReadPending, IsSockOk
<1>5. CASE AcceptOne
  <2>1. PICK new \in Free : owner' = [owner EXCEPT ![new] = Head(backlog)]
    BY <1>5 DEF AcceptOne
  <2>2. pc = "accept" /\ UNCHANGED <<peer, rcv, ready, events, batch>>
    BY <1>5 DEF AcceptOne
  <2>3. owner'[fd] = owner[fd]
    BY <1>t, <1>a, <2>1, <2>2 DEF Free, Core, MapMatchesEpoll, TypeOK
  <2> QED BY <1>f, <2>2, <2>3
<1>7. CASE InsertEvent
  <2>1. pc = "insert" /\ UNCHANGED <<peer, rcv, owner, batch>>
    BY <1>7 DEF InsertEvent, peers
  <2>2. newfd \in AllFds /\ {"IN", "ET"} \in Mask
    BY <1>t, <2>1 DEF Core, Shape, AllFds, Mask
  <2>3. ready \subseteq ready'
    BY <1>t, <1>7, <2>2, EpollCtlFacts DEF InsertEvent
  <2>4. CASE fd \in events
    BY <1>f, <2>1, <2>3, <2>4
  <2>5. CASE fd \notin events
    <3>1. fd = newfd /\ EpollCtl(fd, {"IN", "ET"}, Level(fd))
      BY <1>7, <2>5 DEF InsertEvent
    <3>2. "IN" \in Level(fd)
      BY <2>1, LevelOfConn
    <3>3. fd \in ready'
      BY <3>1, <3>2 DEF EpollCtl
    <3> QED BY <3>3 DEF ReadPending
  <2> QED BY <2>4, <2>5
<1>8. CASE RecvChunk
  <2>1. UNCHANGED <<peer, owner, ready, events, pc, cur, batch>> /\ pc = "recv"
    BY <1>8 DEF RecvChunk, kernel, thread, peers
  <2>2. cur.fd # fd => rcv[owner[fd]] # <<>> \/ peer[owner[fd]] # "open"
    <3>1. CASE owner[fd] = Conn
      BY <1>8, <3>1 DEF RecvChunk
    <3>2. CASE owner[fd] # Conn
      BY <1>t, <1>8, <2>1, <3>2 DEF RecvChunk, TypeOK
    <3> QED BY <3>1, <3>2
  <2>3. CASE cur.fd = fd
    BY <2>1, <2>3 DEF ReadPending
  <2> QED BY <1>f, <2>1, <2>2, <2>3
<1>9. CASE RecvDrained
  <2>1. UNCHANGED <<peer, rcv, owner, ready, events, batch>>
    BY <1>9 DEF RecvDrained, kernel, heap, peers
  <2>2. fd # cur.fd
    BY <1>9, <2>1 DEF RecvDrained, Conn
  <2> QED BY <1>f, <2>1, <2>2
<1>del. ASSUME pc \in {"recv", "send"}, DeleteEvent(cur.fd), UNCHANGED <<peer, rcv, batch>>
        PROVE  ReadPending(fd)'
  <2>1. cur.fd \in Fds \cap events
    BY <1>c, <1>del
  <2>2. /\ \A other \in Fds : other # cur.fd => owner'[other] = owner[other]
        /\ ready' = ready \ {cur.fd} /\ events' = events \ {cur.fd}
    BY <1>t, <1>del, <2>1 DEF DeleteEvent, TypeOK
  <2>3. fd # cur.fd /\ fd \in events /\ owner'[fd] = owner[fd]
    BY <2>2
  <2> QED BY <1>f, <1>del, <2>2, <2>3
<1>10. CASE RecvEnd
  BY <1>10, <1>del DEF RecvEnd, peers
<1>15. CASE SendError
  BY <1>15, <1>del DEF SendError, peers
<1>en. ASSUME pc \in {"process", "send"}, NEW w \in BOOLEAN, NEW level,
              EnableRW(cur.fd, TRUE, w, level) \/ UNCHANGED <<epoll, ready>>,
              UNCHANGED <<peer, rcv, owner, events, batch>>
       PROVE  ReadPending(fd)'
  <2>1. cur.fd \in Fds
    BY <1>c, <1>en
  <2>2. ready \subseteq ready'
    <3>1. EnableRW(cur.fd, TRUE, w, level) => ready \subseteq ready'
      BY DEF EnableRW, EpollCtl
    <3> QED BY <1>en, <3>1
  <2> QED BY <1>f, <1>en, <2>2
<1>11. CASE Process
  <2>1. EnableRW(cur.fd, TRUE, TRUE, Level(cur.fd)) \/ UNCHANGED <<epoll, ready>>
    BY <1>11 DEF Process
  <2> QED BY <1>11, <1>en, <2>1 DEF Process, peers
<1>12. CASE SendAll
  <2>1. PICK level : EnableRW(cur.fd, TRUE, FALSE, level)
    BY <1>12 DEF SendAll
  <2> QED BY <1>12, <1>en, <2>1 DEF SendAll, peers
<1>14. CASE SendFull
  <2>1. EnableRW(cur.fd, TRUE, TRUE, Level(cur.fd)) /\ UNCHANGED events
    BY <1>14 DEF SendFull, heap
  <2> QED BY <1>14, <1>en, <2>1 DEF SendFull, peers
<1>4. CASE DispatchWrite \/ AcceptDone \/ AcceptError \/ SendShort
           \/ EpollTimeout \/ UNCHANGED vars
  <2>1. UNCHANGED <<peer, rcv, owner, ready, events, batch>>
    BY <1>4 DEF DispatchWrite, AcceptDone, AcceptError, SendShort, EpollTimeout,
                vars, peers, kernel, heap, thread
  <2>2. pc = "recv" => pc' = "recv" /\ cur' = cur
    BY <1>4 DEF DispatchWrite, AcceptDone, AcceptError, SendShort, EpollTimeout, vars, thread
  <2> QED BY <1>f, <2>1, <2>2
<1>16. CASE SendKilled
  BY <1>16 DEF SendKilled
<1> QED
  BY <1>1, <1>2, <1>3, <1>4, <1>5, <1>7, <1>8, <1>9, <1>10, <1>11, <1>12,
     <1>14, <1>15, <1>16 DEF Next, Server, Handler

\* Every byte, end or error that a registered connection has to read is still
\* going to be read: the edge-triggered instance never goes silent on it.
THEOREM NoReadEdgeLost == Spec => []NoLostRead
<1>1. Init => NoLostRead
  BY ConstantsAssumption DEF Init, NoLostRead
<1>2. QED BY <1>1, NoLostReadStep, SafeAlways, PTL DEF Spec
-----------------------------------------------------------------------------
\* While the process lives, only a connection that its client has ended or
\* aborted is dropped; and the process ends, and drops them all, only by a send
\* on a connection whose client has ended and then aborted it.
THEOREM HealthyConnectionsKept == Spec => HealthyKept
<1> DEFINE Kept == \A fd \in Fds \cap events :
             peer[owner[fd]] = "open" => fd \in events' /\ owner'[fd] = owner[fd]
           Ended == pc' = "killed" /\ peer[owner[cur.fd]] = "broken"
<1>1. Safe /\ [Next]_vars => [Kept \/ Ended]_vars
  <2> SUFFICES ASSUME Safe, Next, ~ Ended, NEW fd \in Fds \cap events, peer[owner[fd]] = "open"
               PROVE  fd \in events' /\ owner'[fd] = owner[fd]
    OBVIOUS
  <2>t. TypeOK /\ Core
    BY DEF Safe, Core
  <2>1. CASE UNCHANGED <<owner, events>>
    BY <2>1
  <2>2. CASE AcceptOne
    BY <2>t, <2>2 DEF AcceptOne, Free, Core, MapMatchesEpoll, TypeOK, AllFds
  <2>3. CASE InsertEvent
    BY <2>3 DEF InsertEvent
  <2>4. CASE RecvEnd \/ SendError
    <3>1. cur.fd \in Fds \cap events
      BY <2>t, <2>4 DEF RecvEnd, SendError, Core, Shape, HandlerEventLive
    <3>2. DeleteEvent(cur.fd) /\ peer[owner[cur.fd]] # "open"
      BY <2>4 DEF RecvEnd, SendError, Conn
    <3>3. fd # cur.fd
      BY <3>2
    <3> QED BY <2>t, <3>1, <3>2, <3>3, DeleteFacts
  <2>5. ~ SendKilled
    BY DEF SendKilled, Conn
  <2> QED
    BY <2>1, <2>2, <2>3, <2>4, <2>5
       DEF Next, Server, Handler, Peer, Connect, PeerSend, PeerShutdown, PeerReset, PeerRead,
           EpollWait, EpollTimeout, DispatchRead, DispatchWrite, AcceptDone, AcceptError,
           RecvChunk, RecvDrained, Process, SendAll, SendShort, SendFull, vars, kernel, heap
<1>2. QED BY <1>1, SafeAlways, PTL DEF Spec, HealthyKept
-----------------------------------------------------------------------------
\* Where a write event comes from: the buffer has something to write, or the
\* event is an error that Recver meets first.
BatchWrites ==
  \A e \in batch : e.fd \in Fds /\ "OUT" \in e.ev =>
    outbuf[e.fd] # <<>> \/ ("IN" \in e.ev /\ peer[owner[e.fd]] \in Aborted)

CurWrites ==
  pc \in {"recv", "process", "write"} /\ cur.fd \in Fds \cap events /\ "OUT" \in cur.ev =>
    outbuf[cur.fd] # <<>> \/ (pc = "recv" /\ peer[owner[cur.fd]] \in Aborted)

Demand == WriteOnDemand /\ BatchWrites /\ CurWrites

LEMMA DemandStep == Safe /\ Demand /\ [Next]_vars => Demand'
<1> SUFFICES ASSUME Safe, Demand, [Next]_vars PROVE Demand'
  OBVIOUS
<1> USE ConstantsAssumption
<1>t. TypeOK /\ Core
  BY DEF Safe, Core
<1>d. WriteOnDemand /\ BatchWrites /\ CurWrites
  BY DEF Demand
<1>c. pc \in {"recv", "process", "send"} => cur.fd \in Fds \cap events
  BY <1>t DEF Core, Shape, HandlerEventLive
<1>b. \A e \in batch : e.fd \in AllFds /\ e.fd \in events
  BY <1>t DEF TypeOK, Entry, Core, BatchFresh
<1>l. \A fd \in Fds : fd \in AllFds /\ fd # Listen
  BY DEF AllFds
<1>1. CASE \E c \in Clients : Peer(c)
  <2>1. PICK c \in Clients : Peer(c)
    BY <1>1
  <2>2. UNCHANGED <<epoll, owner, events, outbuf, pc, cur, batch>>
    BY <2>1 DEF Peer, Connect, PeerSend, PeerShutdown, PeerReset, PeerRead, heap, thread
  <2>3. \A d \in Clients : peer[d] \in Aborted => peer'[d] \in Aborted
    BY <1>t, <2>1
       DEF Peer, Connect, PeerSend, PeerShutdown, PeerReset, PeerRead, TypeOK, Aborted
  <2>4. \A fd \in Fds \cap events : owner[fd] \in Clients
    BY <1>t DEF Core, MapMatchesEpoll, TypeOK
  <2>5. WriteOnDemand'
    BY <1>d, <2>2 DEF WriteOnDemand
  <2>6. BatchWrites'
    BY <1>d, <1>b, <2>2, <2>3, <2>4 DEF BatchWrites
  <2>7. CurWrites'
    BY <1>d, <2>2, <2>3, <2>4 DEF CurWrites
  <2> QED BY <2>5, <2>6, <2>7 DEF Demand
<1>2. CASE EpollWait
  <2>1. PICK taken \in SUBSET ready :
          batch' = {EntryOf(f) : f \in {g \in taken : Reported(g) # {}}}
    BY <1>2 DEF EpollWait
  <2>2. UNCHANGED <<peer, owner, epoll, events, outbuf, pc, cur>> /\ pc = "loop"
    BY <1>2 DEF EpollWait, heap, peers
  <2>3. ASSUME NEW fd \in Fds, fd \in events, "OUT" \in Promote(Reported(fd))
        PROVE  outbuf[fd] # <<>> \/
                 ("IN" \in Promote(Reported(fd)) /\ peer[owner[fd]] \in Aborted)
    <3>1. CASE "ERR" \in Reported(fd)
      BY <3>1, LevelOfConn DEF Reported, Promote
    <3>2. CASE "ERR" \notin Reported(fd)
      BY <1>d, <2>3, <3>2 DEF Reported, Promote, WriteOnDemand
    <3> QED BY <3>1, <3>2
  <2>4. BatchWrites'
    <3>1. \A e \in batch' : e.fd \in events /\ e.ev = Promote(Reported(e.fd))
      BY <1>t, <2>1 DEF EntryOf, Core, MapMatchesEpoll
    <3> QED BY <2>2, <2>3, <3>1 DEF BatchWrites
  <2>5. WriteOnDemand' /\ CurWrites'
    BY <1>d, <2>2 DEF WriteOnDemand, CurWrites
  <2> QED BY <2>4, <2>5 DEF Demand
<1>3. CASE DispatchRead
  <2>1. PICK e \in batch :
          /\ cur' = e /\ batch' = batch \ {e}
          /\ pc' = IF "IN" \in e.ev /\ IsSockOk(e.fd)
                   THEN IF e.fd = Listen THEN "accept" ELSE "recv"
                   ELSE "write"
    BY <1>3 DEF DispatchRead
  <2>2. UNCHANGED <<peer, owner, epoll, events, outbuf>>
    BY <1>3 DEF DispatchRead, peers, kernel, heap
  <2>3. WriteOnDemand'
    BY <1>d, <2>1, <2>2 DEF WriteOnDemand
  <2>4. BatchWrites'
    BY <1>d, <2>1, <2>2 DEF BatchWrites
  <2>5. CurWrites'
    BY <1>d, <1>b, <1>l, <2>1, <2>2 DEF BatchWrites, CurWrites, IsSockOk
  <2> QED BY <2>3, <2>4, <2>5 DEF Demand
<1>4. CASE DispatchWrite
  <2>1. UNCHANGED <<peer, owner, epoll, events, outbuf, batch>> /\ pc = "write"
    BY <1>4 DEF DispatchWrite, peers, kernel, heap
  <2>2. pc' \in {"send", "loop"}
    BY <1>4 DEF DispatchWrite
  <2>3. pc' = "send" => outbuf[cur.fd] # <<>> /\ cur' = cur
    <3>1. pc' = "send" => /\ "OUT" \in cur.ev /\ cur.fd \in events /\ cur.fd # Listen
                          /\ cur' = cur
      BY <1>4 DEF DispatchWrite, IsSockOk
    <3>2. cur \in Entry
      BY <1>t, <2>1 DEF Core, Shape
    <3>3. cur.fd # Listen => cur.fd \in Fds
      BY <3>2 DEF Entry, AllFds
    <3> QED BY <1>d, <2>1, <3>1, <3>3 DEF CurWrites
  <2>4. WriteOnDemand'
    BY <1>d, <2>1, <2>3 DEF WriteOnDemand
  <2>5. BatchWrites' /\ CurWrites'
    BY <1>d, <2>1, <2>2 DEF BatchWrites, CurWrites
  <2> QED BY <2>4, <2>5 DEF Demand
<1>5. CASE AcceptOne
  <2>1. PICK new \in Free :
          /\ owner' = [owner EXCEPT ![new] = Head(backlog)]
          /\ outbuf' = [outbuf EXCEPT ![new] = <<>>]
    BY <1>5 DEF AcceptOne
  <2>2. pc = "accept" /\ pc' = "insert" /\ UNCHANGED <<peer, epoll, events, batch>>
    BY <1>5 DEF AcceptOne
  <2>3. \A fd \in Fds \cap events : owner'[fd] = owner[fd] /\ outbuf'[fd] = outbuf[fd]
    BY <1>t, <2>1 DEF Free, Core, MapMatchesEpoll, TypeOK, AllFds
  <2>4. WriteOnDemand'
    BY <1>d, <2>2, <2>3 DEF WriteOnDemand
  <2>5. BatchWrites'
    BY <1>d, <1>b, <2>2, <2>3 DEF BatchWrites
  <2> QED BY <2>2, <2>4, <2>5 DEF Demand, CurWrites
<1>6. CASE AcceptDone \/ AcceptError
  <2>1. UNCHANGED <<peer, owner, epoll, events, outbuf, batch, cur>>
        /\ pc = "accept" /\ pc' = "write"
    BY <1>6 DEF AcceptDone, AcceptError, peers, kernel, heap
  <2>2. cur.fd = Listen
    BY <1>t, <2>1 DEF Core, Shape
  <2> QED BY <1>d, <2>1, <2>2 DEF Demand, WriteOnDemand, BatchWrites, CurWrites
<1>7. CASE InsertEvent
  <2>1. UNCHANGED <<peer, owner, outbuf, batch>> /\ pc = "insert" /\ pc' = "accept"
    BY <1>7 DEF InsertEvent, peers
  <2>2. newfd \in Fds /\ newfd \in AllFds /\ newfd \notin events /\ outbuf[newfd] = <<>>
    BY <1>t, <2>1 DEF Core, Shape, AllFds
  <2>3. \/ /\ events' = events \cup {newfd} /\ epoll'[newfd] = {"IN", "ET"}
           /\ \A other \in AllFds : other # newfd => epoll'[other] = epoll[other]
        \/ UNCHANGED <<events, epoll>>
    BY <1>t, <1>7, <2>2 DEF InsertEvent, EpollCtl, TypeOK
  <2>4. WriteOnDemand'
    BY <1>d, <1>l, <2>1, <2>2, <2>3 DEF WriteOnDemand
  <2>5. BatchWrites' /\ CurWrites'
    BY <1>d, <2>1 DEF BatchWrites, CurWrites
  <2> QED BY <2>4, <2>5 DEF Demand
<1>8. CASE RecvChunk
  BY <1>d, <1>8 DEF RecvChunk, peers, kernel, thread, Demand, WriteOnDemand, BatchWrites, CurWrites
<1>9. CASE RecvDrained
  <2>1. UNCHANGED <<peer, owner, epoll, events, outbuf, batch, cur>>
        /\ pc = "recv" /\ pc' = "process" /\ peer[owner[cur.fd]] = "open"
    BY <1>9 DEF RecvDrained, Conn, peers, kernel, heap
  <2> QED BY <1>d, <2>1 DEF Demand, WriteOnDemand, BatchWrites, CurWrites, Aborted
<1>del. ASSUME pc \in {"recv", "send"}, DeleteEvent(cur.fd), pc' \in {"write", "loop"},
               pc' = "write" => cur' = cur, UNCHANGED <<peer, batch>>
        PROVE  Demand'
  <2>1. cur.fd \in Fds \cap events
    BY <1>c, <1>del
  <2>2. /\ \A other \in AllFds : other # cur.fd => epoll'[other] = epoll[other]
        /\ \A other \in Fds : other # cur.fd =>
             owner'[other] = owner[other] /\ outbuf'[other] = outbuf[other]
        /\ events' = events \ {cur.fd}
    BY <1>t, <1>del, <2>1 DEF DeleteEvent, TypeOK
  <2>3. \A e \in batch : e.fd # cur.fd
    BY <1>t, <1>del DEF Core, Shape
  <2>4. WriteOnDemand'
    BY <1>d, <1>l, <1>del, <2>2 DEF WriteOnDemand
  <2>5. BatchWrites'
    BY <1>d, <1>del, <2>2, <2>3 DEF BatchWrites
  <2>6. CurWrites'
    BY <1>del, <2>2 DEF CurWrites
  <2> QED BY <2>4, <2>5, <2>6 DEF Demand
<1>10. CASE RecvEnd
  BY <1>10, <1>del DEF RecvEnd, peers
<1>15. CASE SendError
  BY <1>15, <1>del DEF SendError, peers
\* Process and the three ends of SenderCore.
<1>en. ASSUME pc \in {"process", "send"},
              \A other \in AllFds : other # cur.fd => epoll'[other] = epoll[other],
              \A other \in Fds : other # cur.fd => outbuf'[other] = outbuf[other],
              "OUT" \in epoll'[cur.fd] <=> outbuf'[cur.fd] # <<>>,
              pc' \in {"write", "loop"},
              pc' = "write" => cur' = cur /\ (outbuf'[cur.fd] = <<>> => outbuf[cur.fd] = <<>>) /\ pc = "process",
              UNCHANGED <<peer, owner, events, batch>>
       PROVE  Demand'
  <2>1. cur.fd \in Fds \cap events /\ \A e \in batch : e.fd # cur.fd
    BY <1>t, <1>c, <1>en DEF Core, Shape
  <2>2. WriteOnDemand'
    BY <1>d, <1>l, <1>en, <2>1 DEF WriteOnDemand
  <2>3. BatchWrites'
    BY <1>d, <1>en, <2>1 DEF BatchWrites
  <2>4. CurWrites'
    BY <1>d, <1>en, <2>1 DEF CurWrites
  <2> QED BY <2>2, <2>3, <2>4 DEF Demand
<1>11. CASE Process
  <2> DEFINE out == outbuf[cur.fd] \o Answers(inbuf[cur.fd])
  <2>1. /\ outbuf' = [outbuf EXCEPT ![cur.fd] = out]
        /\ IF out # <<>> THEN EnableRW(cur.fd, TRUE, TRUE, Level(cur.fd))
                         ELSE UNCHANGED <<epoll, ready>>
        /\ pc = "process" /\ pc' = "write"
        /\ UNCHANGED <<peer, owner, events, batch, cur>>
    BY <1>11 DEF Process, peers
  <2>2. cur.fd \in Fds \cap events /\ outbuf[cur.fd] \in Seq(Answer) /\ inbuf[cur.fd] \in Seq(Byte)
    BY <1>t, <1>c, <2>1 DEF TypeOK
  <2>3. out = <<>> => outbuf[cur.fd] = <<>>
    <3>1. Answers(inbuf[cur.fd]) \in Seq(Answer)
      BY <2>2, AnswersType
    <3> QED BY <2>2, <3>1, ConcatEmptySeq, ConcatProperties, EmptySeq, LenProperties
  <2> HIDE DEF out
  <2>4. outbuf'[cur.fd] = out /\ \A other \in Fds : other # cur.fd => outbuf'[other] = outbuf[other]
    BY <1>t, <2>1, <2>2 DEF TypeOK
  <2>5. /\ \A other \in AllFds : other # cur.fd => epoll'[other] = epoll[other]
        /\ "OUT" \in epoll'[cur.fd] <=> outbuf'[cur.fd] # <<>>
    <3>1. CASE out # <<>>
      BY <1>t, <1>l, <2>1, <2>2, <2>4, <3>1 DEF EnableRW, EpollCtl, TypeOK
    <3>2. CASE out = <<>>
      BY <1>d, <2>1, <2>2, <2>3, <2>4, <3>2 DEF WriteOnDemand
    <3> QED BY <3>1, <3>2
  <2> QED BY <1>en, <2>1, <2>3, <2>4, <2>5
<1>12. CASE SendAll
  <2>1. /\ outbuf' = [outbuf EXCEPT ![cur.fd] = <<>>]
        /\ pc = "send" /\ pc' = "loop" /\ UNCHANGED <<peer, owner, events, batch>>
    BY <1>12 DEF SendAll, peers
  <2>2. PICK level : EnableRW(cur.fd, TRUE, FALSE, level)
    BY <1>12 DEF SendAll
  <2>3. cur.fd \in Fds \cap events
    BY <1>c, <2>1
  <2>4. /\ \A other \in AllFds : other # cur.fd => epoll'[other] = epoll[other]
        /\ "OUT" \notin epoll'[cur.fd]
    BY <1>t, <1>l, <2>2, <2>3 DEF EnableRW, EpollCtl, TypeOK
  <2>5. outbuf'[cur.fd] = <<>> /\ \A other \in Fds : other # cur.fd => outbuf'[other] = outbuf[other]
    BY <1>t, <2>1, <2>3 DEF TypeOK
  <2> QED BY <1>en, <2>1, <2>4, <2>5
<1>14. CASE SendFull
  <2>1. /\ outbuf' = outbuf /\ outbuf[cur.fd] # <<>>
        /\ pc = "send" /\ pc' = "loop" /\ UNCHANGED <<peer, owner, events, batch>>
        /\ EnableRW(cur.fd, TRUE, TRUE, Level(cur.fd))
    BY <1>14 DEF SendFull, peers, heap
  <2>2. cur.fd \in Fds \cap events
    BY <1>c, <2>1
  <2>3. /\ \A other \in AllFds : other # cur.fd => epoll'[other] = epoll[other]
        /\ "OUT" \in epoll'[cur.fd]
    BY <1>t, <1>l, <2>1, <2>2 DEF EnableRW, EpollCtl, TypeOK
  <2> QED BY <1>en, <2>1, <2>3
<1>16. CASE SendShort \/ EpollTimeout \/ UNCHANGED vars
  <2>1. UNCHANGED <<peer, owner, epoll, events, outbuf, batch, cur, pc>>
    BY <1>16 DEF SendShort, EpollTimeout, vars, peers, kernel, heap, thread
  <2> QED BY <1>d, <2>1 DEF Demand, WriteOnDemand, BatchWrites, CurWrites
<1>17. CASE SendKilled
  BY <1>17 DEF SendKilled, Demand, WriteOnDemand, BatchWrites, CurWrites
<1> QED
  BY <1>1, <1>2, <1>3, <1>4, <1>5, <1>6, <1>7, <1>8, <1>9, <1>10, <1>11, <1>12,
     <1>14, <1>15, <1>16, <1>17 DEF Next, Server, Handler

LEMMA DemandAlways == Spec => []Demand
<1>1. Init => Demand
  BY ConstantsAssumption DEF Init, Demand, WriteOnDemand, BatchWrites, CurWrites
<1>2. QED BY <1>1, DemandStep, SafeAlways, PTL DEF Spec

\* Write events are on exactly while there is something to write, and
\* SenderCore never runs with an empty buffer.
THEOREM WritesOnDemand == Spec => []WriteOnDemand
BY DemandAlways, PTL DEF Demand
-----------------------------------------------------------------------------
\* As built: with blocking descriptors no answer is ever computed or sent.
Silent == /\ pc # "process"
          /\ outbuf = [fd \in Fds |-> <<>>]
          /\ \A c \in Clients : snd[c] = <<>> /\ got[c] = <<>>

THEOREM AsBuiltNothingAnswered ==
  ASSUME ~ NonBlocking
  PROVE  Spec => []NothingAnswered
<1>1. Init => Silent
  BY DEF Init, Silent
<1>2. Safe /\ Demand /\ Silent /\ [Next]_vars => Silent'
  <2> SUFFICES ASSUME Safe, Demand, Silent, [Next]_vars PROVE Silent'
    OBVIOUS
  <2>t. TypeOK /\ Core
    BY DEF Safe, Core
  <2>1. pc # "send"
    <3>1. pc = "send" => cur.fd \in Fds /\ outbuf[cur.fd] # <<>>
      BY <2>t DEF Demand, WriteOnDemand, Core, Shape
    <3> QED BY <3>1 DEF Silent
  <2>2. CASE \E c \in Clients : Peer(c)
    <3>1. PICK c \in Clients : Peer(c)
      BY <2>2
    <3>2. ~ PeerRead(c)
      BY DEF PeerRead, Silent
    <3>3. UNCHANGED <<pc, outbuf, got>>
      BY <3>1, <3>2 DEF Peer, Connect, PeerSend, PeerShutdown, PeerReset, heap, thread
    <3>4. snd' = snd \/ snd' = [snd EXCEPT ![c] = <<>>]
      BY <3>1, <3>2 DEF Peer, Connect, PeerSend, PeerShutdown, PeerReset
    <3>5. \A d \in Clients : snd'[d] = <<>>
      BY <2>t, <3>4 DEF Silent, TypeOK
    <3> QED BY <3>3, <3>5 DEF Silent
  <2>3. CASE AcceptOne
    BY <2>3 DEF AcceptOne, Silent, peers
  <2>4. CASE RecvEnd
    <3>1. UNCHANGED outbuf \/ outbuf' = [outbuf EXCEPT ![cur.fd] = <<>>]
      BY <2>4 DEF RecvEnd, DeleteEvent, heap
    <3> QED BY <2>4, <3>1 DEF RecvEnd, Silent, peers
  <2> QED
    BY <2>1, <2>2, <2>3, <2>4
       DEF Silent, Next, Server, Handler, EpollWait, EpollTimeout, DispatchRead, DispatchWrite,
           AcceptDone, AcceptError, InsertEvent, RecvChunk, RecvDrained, Process, SendAll,
           SendShort, SendFull, SendError, SendKilled, vars, peers, kernel, heap, thread
<1>3. Silent => NothingAnswered
  BY DEF Silent, NothingAnswered
<1>4. QED BY <1>1, <1>2, <1>3, SafeAlways, DemandAlways, PTL DEF Spec
-----------------------------------------------------------------------------
\* A send queue never holds more than its room.
QueueBounded == \A c \in Clients : Len(snd[c]) <= SndBuf

LEMMA QueueBoundedStep == Safe /\ QueueBounded /\ [Next]_vars => QueueBounded'
<1> SUFFICES ASSUME Safe, QueueBounded, [Next]_vars, NEW c \in Clients
             PROVE  Len(snd'[c]) <= SndBuf
  BY DEF QueueBounded
<1>t. TypeOK /\ Core
  BY DEF Safe, Core
<1>b. Len(snd[c]) <= SndBuf /\ snd[c] \in Seq(Answer) /\ Len(snd[c]) \in Nat /\ SndBuf \in Nat
  BY <1>t, ConstantsAssumption, SeqFacts DEF QueueBounded, TypeOK
<1>c. pc \in {"send"} => cur.fd \in Fds /\ Conn \in Clients /\ outbuf[cur.fd] \in Seq(Answer)
  BY <1>t DEF Core, Shape, HandlerEventLive, MapMatchesEpoll, TypeOK, Conn
<1>1. CASE \E d \in Clients : PeerReset(d)
  <2>1. snd'[c] = snd[c] \/ snd'[c] = <<>>
    BY <1>t, <1>1 DEF PeerReset, TypeOK
  <2>2. Len(<<>>) = 0
    OBVIOUS
  <2> QED BY <1>b, <2>1, <2>2
<1>2. CASE \E d \in Clients : PeerRead(d)
  <2>1. PICK d \in Clients : PeerRead(d)
    BY <1>2
  <2>2. snd'[c] = snd[c] \/ (snd[c] # <<>> /\ snd'[c] = Tail(snd[c]))
    BY <1>t, <2>1 DEF PeerRead, TypeOK
  <2>3. snd[c] # <<>> => Len(Tail(snd[c])) = Len(snd[c]) - 1
    BY <1>b, HeadTailProperties
  <2>4. \A a, b \in Nat : a <= b => a - 1 <= b
    OBVIOUS
  <2>5. CASE snd'[c] = snd[c]
    BY <1>b, <2>5
  <2>6. CASE snd[c] # <<>> /\ snd'[c] = Tail(snd[c])
    BY <1>b, <2>3, <2>4, <2>6
  <2> QED BY <2>2, <2>5, <2>6
<1>3. CASE SendAll
  <2>1. snd' = [snd EXCEPT ![Conn] = @ \o outbuf[cur.fd]] /\ pc = "send"
        /\ Len(outbuf[cur.fd]) \in 1..Room
    BY <1>3 DEF SendAll
  <2>2. CASE c = Conn
    <3>1. snd'[c] = snd[c] \o outbuf[cur.fd]
      BY <1>t, <2>1, <2>2 DEF TypeOK
    <3>2. Len(snd'[c]) = Len(snd[c]) + Len(outbuf[cur.fd])
      <4>1. outbuf[cur.fd] \in Seq(Answer)
        BY <1>c, <2>1
      <4> QED BY <1>b, <3>1, <4>1, ConcatProperties
    <3>3. Len(outbuf[cur.fd]) \in 1..(SndBuf - Len(snd[c])) /\ Len(outbuf[cur.fd]) \in Nat
      BY <2>1, <2>2, <1>b DEF Room
    <3>4. \A a, b, k \in Nat : k \in 1..(b - a) => a + k <= b
      OBVIOUS
    <3> QED BY <1>b, <3>2, <3>3, <3>4
  <2>3. CASE c # Conn
    BY <1>t, <1>b, <1>c, <2>1, <2>3 DEF TypeOK
  <2> QED BY <2>2, <2>3
<1>4. CASE SendShort
  <2>1. snd' = [snd EXCEPT ![Conn] = @ \o SubSeq(outbuf[cur.fd], 1, Room)] /\ pc = "send"
        /\ Room > 0 /\ Room < Len(outbuf[cur.fd])
    BY <1>4 DEF SendShort
  <2>2. CASE c = Conn
    <3>1. snd'[c] = snd[c] \o SubSeq(outbuf[cur.fd], 1, Room)
      BY <1>t, <2>1, <2>2 DEF TypeOK
    <3>2. Room = SndBuf - Len(snd[c]) /\ Room \in Nat
      BY <1>b, <2>1, <2>2 DEF Room
    <3>3. Len(outbuf[cur.fd]) \in Nat
      BY <1>c, <2>1, SeqFacts
    <3>4. \A i \in 1..Room : outbuf[cur.fd][i] \in Answer
      BY <1>c, <2>1, <3>2, <3>3, ElementOfSeq
    <3>5. /\ SubSeq(outbuf[cur.fd], 1, Room) \in Seq(Answer)
          /\ Len(SubSeq(outbuf[cur.fd], 1, Room)) = Room
      BY <2>1, <3>2, <3>4, SubSeqProperties
    <3>6. Len(snd'[c]) = Len(snd[c]) + Room
      BY <1>b, <3>1, <3>5, ConcatProperties
    <3> QED BY <1>b, <3>2, <3>6
  <2>3. CASE c # Conn
    BY <1>t, <1>b, <1>c, <2>1, <2>3 DEF TypeOK
  <2> QED BY <2>2, <2>3
<1> QED
  BY <1>b, <1>1, <1>2, <1>3, <1>4
     DEF Next, Server, Handler, Peer, Connect, PeerSend, PeerShutdown,
         EpollWait, EpollTimeout, DispatchRead, DispatchWrite, AcceptOne, AcceptDone,
         AcceptError, InsertEvent, RecvChunk, RecvDrained, RecvEnd, Process, SendFull, SendError,
         SendKilled, vars

LEMMA QueueBoundedAlways == Spec => []QueueBounded
<1>1. Init => QueueBounded
  BY ConstantsAssumption DEF Init, QueueBounded
<1>2. QED BY <1>1, QueueBoundedStep, SafeAlways, PTL DEF Spec
-----------------------------------------------------------------------------
\* NoLostWrite, for one descriptor.
WritePending(fd) ==
  \/ fd \in ready
  \/ \E e \in batch : e.fd = fd /\ "OUT" \in e.ev
  \/ /\ pc \in {"recv", "process", "write", "send"}
     /\ cur.fd = fd
     /\ pc = "send" \/ "OUT" \in cur.ev

LEMMA NoLostWriteStep ==
  Safe /\ Demand /\ QueueBounded /\ NoLostWrite /\ [Next]_vars => NoLostWrite'
<1> SUFFICES ASSUME Safe, Demand, QueueBounded, NoLostWrite, [Next]_vars PROVE NoLostWrite'
  OBVIOUS
<1> USE ConstantsAssumption
<1>t. TypeOK /\ Core
  BY DEF Safe, Core
<1>c. pc \in {"recv", "process", "send"} => cur.fd \in Fds \cap events
  BY <1>t DEF Core, Shape, HandlerEventLive
<1>n. \A fd \in Fds \cap events :
        outbuf[fd] # <<>> /\ "OUT" \in Level(fd) => WritePending(fd)
  BY DEF NoLostWrite, WritePending
<1> SUFFICES ASSUME NEW fd \in Fds, fd \in events', outbuf'[fd] # <<>>, "OUT" \in Level(fd)'
             PROVE  WritePending(fd)'
  BY DEF NoLostWrite, WritePending
<1>a. fd \in AllFds /\ fd # Listen
  BY DEF AllFds
<1>o. Len(snd'[owner'[fd]]) < SndBuf \/ peer'[owner'[fd]] \in Aborted
  BY <1>a DEF Level, SockLevel, Aborted
\* A step that takes away neither the data nor the room keeps what is pending.
<1>f. ASSUME fd \in events, outbuf'[fd] = outbuf[fd], "OUT" \in Level(fd),
             fd \in ready => fd \in ready', batch' = batch,
             pc \in {"recv", "process", "write", "send"} /\ cur.fd = fd =>
               /\ pc' \in {"recv", "process", "write", "send"} /\ cur' = cur
               /\ pc = "send" => pc' = "send"
      PROVE  WritePending(fd)'
  BY <1>f, <1>n DEF WritePending
<1>1. CASE \E c \in Clients : Peer(c)
  <2>1. PICK c \in Clients : Peer(c)
    BY <1>1
  <2>2. UNCHANGED <<epoll, owner, events, outbuf, pc, cur, batch>>
    BY <2>1 DEF Peer, Connect, PeerSend, PeerShutdown, PeerReset, PeerRead, heap, thread
  <2>3. ready \subseteq ready'
    BY <2>1 DEF Peer, Connect, PeerSend, PeerShutdown, PeerReset, PeerRead, Wake
  <2>4. CASE "OUT" \in Level(fd)
    BY <1>f, <2>2, <2>3, <2>4
  <2>5. CASE "OUT" \notin Level(fd)
    <3>1. "OUT" \in epoll[fd] /\ owner[fd] \in Clients
      BY <1>t, <2>2 DEF Demand, WriteOnDemand, Core, MapMatchesEpoll, TypeOK
    <3>2. ~ (Len(snd[owner[fd]]) < SndBuf) /\ peer[owner[fd]] \notin Aborted
      BY <2>5, LevelOfConn
    <3>3. snd'[owner[fd]] # snd[owner[fd]] \/ peer'[owner[fd]] # peer[owner[fd]]
      BY <1>o, <2>2, <3>2
    <3>4. owner[fd] = c
      BY <1>t, <2>1, <3>1, <3>3
         DEF Peer, Connect, PeerSend, PeerShutdown, PeerReset, PeerRead, TypeOK
    <3>5. CASE PeerReset(c)
      <4>1. PICK evs : Wake(c, evs) /\ "OUT" \in evs
        BY <3>5 DEF PeerReset
      <4>2. fd \in ready'
        BY <3>1, <3>4, <4>1 DEF Wake
      <4> QED BY <4>2 DEF WritePending
    <3>6. CASE PeerRead(c)
      <4>1. snd[c] \in Seq(Answer) /\ Len(snd[c]) \in Nat /\ Len(snd[c]) <= SndBuf /\ SndBuf \in Nat
        BY <1>t, <2>1, SeqFacts DEF TypeOK, QueueBounded
      <4>2. Len(snd[c]) = SndBuf
        BY <3>2, <3>4, <4>1
      <4>3. Wake(c, {"OUT"})
        BY <3>6, <4>2 DEF PeerRead
      <4>4. fd \in ready'
        BY <3>1, <3>4, <4>3 DEF Wake
      <4> QED BY <4>4 DEF WritePending
    <3>7. CASE Connect(c) \/ PeerSend(c) \/ PeerShutdown(c)
      <4>1. snd' = snd
        BY <3>7 DEF Connect, PeerSend, PeerShutdown
      <4>2. peer'[c] \notin Aborted
        BY <1>t, <2>1, <3>2, <3>4, <3>7 DEF Connect, PeerSend, PeerShutdown, TypeOK, Aborted
      <4> QED BY <1>o, <2>2, <3>2, <3>4, <4>1, <4>2
    <3> QED BY <2>1, <3>5, <3>6, <3>7 DEF Peer
  <2> QED BY <2>4, <2>5
<1>2. CASE EpollWait
  <2>1. PICK taken \in SUBSET ready :
          /\ batch' = {EntryOf(f) : f \in {g \in taken : Reported(g) # {}}}
          /\ ready' = ready \ taken
    BY <1>2 DEF EpollWait
  <2>2. UNCHANGED <<peer, snd, owner, epoll, events, outbuf>> /\ pc = "loop" /\ batch = {}
    BY <1>2 DEF EpollWait, heap, peers
  <2>3. "OUT" \in Level(fd)
    BY <1>o, <2>2, LevelOfConn
  <2>4. fd \in ready
    BY <1>n, <2>2, <2>3 DEF WritePending
  <2>5. "OUT" \in Reported(fd)
    BY <2>2, <2>3 DEF Reported, Demand, WriteOnDemand
  <2>6. CASE fd \in taken
    <3>1. EntryOf(fd) \in batch' /\ EntryOf(fd).fd = fd /\ "OUT" \in EntryOf(fd).ev
      BY <2>1, <2>5, <2>6 DEF EntryOf, Promote
    <3> QED BY <3>1 DEF WritePending
  <2> QED BY <2>1, <2>4, <2>6 DEF WritePending
<1>3. CASE DispatchRead
  <2>1. PICK e \in batch :
          /\ cur' = e /\ batch' = batch \ {e}
          /\ pc' = IF "IN" \in e.ev /\ IsSockOk(e.fd)
                   THEN IF e.fd = Listen THEN "accept" ELSE "recv"
                   ELSE "write"
    BY <1>3 DEF DispatchRead
  <2>2. UNCHANGED <<peer, snd, owner, ready, events, outbuf>> /\ pc = "loop"
    BY <1>3 DEF DispatchRead, kernel, heap, peers
  <2>3. WritePending(fd)
    BY <1>n, <1>o, <2>2, LevelOfConn
  <2> QED BY <1>a, <2>1, <2>2, <2>3 DEF WritePending
<1>4. CASE DispatchWrite
  <2>1. UNCHANGED <<peer, snd, owner, ready, events, outbuf, batch>> /\ pc = "write"
    BY <1>4 DEF DispatchWrite, kernel, heap, peers
  <2>2. WritePending(fd)
    BY <1>n, <1>o, <2>1, LevelOfConn
  <2>3. cur.fd = fd /\ "OUT" \in cur.ev => pc' = "send" /\ cur' = cur
    BY <1>4, <1>a, <2>1 DEF DispatchWrite, IsSockOk
  <2> QED BY <2>1, <2>2, <2>3 DEF WritePending
<1>5. CASE AcceptOne
  <2>1. PICK new \in Free :
          /\ owner' = [owner EXCEPT ![new] = Head(backlog)]
          /\ outbuf' = [outbuf EXCEPT ![new] = <<>>]
    BY <1>5 DEF AcceptOne
  <2>2. pc = "accept" /\ UNCHANGED <<peer, snd, ready, events, batch>>
    BY <1>5 DEF AcceptOne
  <2>3. owner'[fd] = owner[fd] /\ outbuf'[fd] = outbuf[fd]
    BY <1>t, <1>a, <2>1, <2>2 DEF Free, Core, MapMatchesEpoll, TypeOK
  <2>4. "OUT" \in Level(fd)
    BY <1>o, <2>2, <2>3, LevelOfConn
  <2> QED BY <1>f, <2>2, <2>3, <2>4
<1>7. CASE InsertEvent
  <2>1. pc = "insert" /\ UNCHANGED <<peer, snd, owner, outbuf, batch>>
    BY <1>7 DEF InsertEvent, peers
  <2>2. fd # newfd
    BY <1>t, <2>1 DEF Core, Shape
  <2>3. fd \in events /\ ready \subseteq ready'
    BY <1>7, <2>2 DEF InsertEvent, EpollCtl
  <2>4. "OUT" \in Level(fd)
    BY <1>o, <2>1, LevelOfConn
  <2> QED BY <1>f, <2>1, <2>3, <2>4
<1>del. ASSUME pc \in {"recv", "send"}, DeleteEvent(cur.fd), UNCHANGED <<peer, snd, batch>>
        PROVE  WritePending(fd)'
  <2>1. cur.fd \in Fds \cap events
    BY <1>c, <1>del
  <2>2. /\ \A other \in Fds : other # cur.fd =>
             owner'[other] = owner[other] /\ outbuf'[other] = outbuf[other]
        /\ ready' = ready \ {cur.fd} /\ events' = events \ {cur.fd}
    BY <1>t, <1>del, <2>1 DEF DeleteEvent, TypeOK
  <2>3. fd # cur.fd /\ fd \in events /\ owner'[fd] = owner[fd] /\ outbuf'[fd] = outbuf[fd]
    BY <2>2
  <2>4. "OUT" \in Level(fd)
    BY <1>o, <1>del, <2>3, LevelOfConn
  <2> QED BY <1>f, <1>del, <2>2, <2>3, <2>4
<1>10. CASE RecvEnd
  BY <1>10, <1>del DEF RecvEnd, peers
<1>15. CASE SendError
  BY <1>15, <1>del DEF SendError, peers
<1>11. CASE Process
  <2> DEFINE out == outbuf[cur.fd] \o Answers(inbuf[cur.fd])
  <2>1. /\ outbuf' = [outbuf EXCEPT ![cur.fd] = out]
        /\ out # <<>> => EnableRW(cur.fd, TRUE, TRUE, Level(cur.fd))
        /\ out = <<>> => UNCHANGED <<epoll, ready>>
        /\ pc = "process" /\ pc' = "write"
        /\ UNCHANGED <<peer, snd, owner, events, batch, cur>>
    BY <1>11 DEF Process, peers
  <2>2. cur.fd \in Fds /\ cur.fd \in AllFds
    BY <1>c, <2>1 DEF AllFds
  <2> HIDE DEF out
  <2>3. ready \subseteq ready'
    BY <2>1 DEF EnableRW, EpollCtl
  <2>4. "OUT" \in Level(fd)
    BY <1>o, <2>1, LevelOfConn
  <2>5. CASE fd = cur.fd
    <3>1. out # <<>>
      BY <1>t, <2>1, <2>2, <2>5 DEF TypeOK
    <3>2. fd \in ready'
      BY <2>1, <2>4, <2>5, <3>1 DEF EnableRW, EpollCtl
    <3> QED BY <3>2 DEF WritePending
  <2>6. CASE fd # cur.fd
    <3>1. outbuf'[fd] = outbuf[fd]
      BY <1>t, <2>1, <2>6 DEF TypeOK
    <3> QED BY <1>f, <2>1, <2>3, <2>4, <2>6, <3>1
  <2> QED BY <2>5, <2>6
<1>12. CASE SendAll
  <2>1. /\ outbuf' = [outbuf EXCEPT ![cur.fd] = <<>>]
        /\ snd' = [snd EXCEPT ![Conn] = @ \o outbuf[cur.fd]]
        /\ pc = "send" /\ UNCHANGED <<peer, owner, events, batch>>
        /\ ready \subseteq ready'
    BY <1>12 DEF SendAll, EnableRW, EpollCtl, peers
  <2>2. cur.fd \in Fds /\ Conn \in Clients
    BY <1>t, <1>c, <2>1 DEF Core, MapMatchesEpoll, TypeOK, Conn
  <2>3. fd # cur.fd /\ outbuf'[fd] = outbuf[fd]
    BY <1>t, <2>1, <2>2 DEF TypeOK
  <2>4. "OUT" \in Level(fd)
    <3>1. CASE owner[fd] = Conn
      <4>1. /\ snd[Conn] \in Seq(Answer) /\ outbuf[cur.fd] \in Seq(Answer)
            /\ snd'[Conn] = snd[Conn] \o outbuf[cur.fd]
        BY <1>t, <2>1, <2>2 DEF TypeOK
      <4>2. /\ Len(snd[Conn]) \in Nat /\ Len(outbuf[cur.fd]) \in Nat /\ SndBuf \in Nat
            /\ Len(snd'[Conn]) = Len(snd[Conn]) + Len(outbuf[cur.fd])
        BY <4>1, SeqFacts, ConcatProperties
      <4>3. \A a, b, k \in Nat : a + k < b => a < b
        OBVIOUS
      <4>4. Len(snd'[Conn]) < SndBuf => Len(snd[Conn]) < SndBuf
        <5>1. ASSUME NEW total, total = Len(snd[Conn]) + Len(outbuf[cur.fd]), total < SndBuf
              PROVE  Len(snd[Conn]) < SndBuf
          BY <4>2, <4>3, <5>1
        <5> QED BY <4>2, <5>1
      <4> QED BY <1>o, <2>1, <3>1, <4>4, LevelOfConn
    <3>2. CASE owner[fd] # Conn
      <4>1. snd'[owner[fd]] = snd[owner[fd]]
        BY <1>t, <2>1, <2>2, <3>2 DEF TypeOK
      <4> QED BY <1>o, <2>1, <4>1, LevelOfConn
    <3> QED BY <3>1, <3>2
  <2> QED BY <1>f, <2>1, <2>3, <2>4
<1>13. CASE SendShort
  <2>1. /\ snd' = [snd EXCEPT ![Conn] = @ \o SubSeq(outbuf[cur.fd], 1, Room)]
        /\ pc = "send" /\ Room > 0 /\ Connected
        /\ UNCHANGED <<peer, owner, ready, events, batch, outbuf, pc, cur>>
    BY <1>13 DEF SendShort, peers, kernel, heap, thread
  <2>2. cur.fd \in Fds /\ Conn \in Clients
    BY <1>t, <1>c, <2>1 DEF Core, MapMatchesEpoll, TypeOK, Conn
  <2>3. CASE owner[fd] = Conn
    <3>1. Len(snd[Conn]) < SndBuf
      <4>1. Len(snd[Conn]) \in Nat /\ SndBuf \in Nat
        BY <1>t, <2>2, SeqFacts DEF TypeOK
      <4> QED BY <2>1, <4>1 DEF Room
    <3>2. "OUT" \in Level(fd)
      BY <2>3, <3>1, LevelOfConn
    <3> QED BY <1>f, <2>1, <3>2
  <2>4. CASE owner[fd] # Conn
    <3>1. snd'[owner[fd]] = snd[owner[fd]]
      BY <1>t, <2>1, <2>2, <2>4 DEF TypeOK
    <3>2. "OUT" \in Level(fd)
      BY <1>o, <2>1, <3>1, LevelOfConn
    <3> QED BY <1>f, <2>1, <3>2
  <2> QED BY <2>3, <2>4
<1>14. CASE SendFull
  <2>1. /\ pc = "send" /\ UNCHANGED <<peer, snd, owner, events, batch, outbuf>>
        /\ EnableRW(cur.fd, TRUE, TRUE, Level(cur.fd))
    BY <1>14 DEF SendFull, peers, heap
  <2>2. ready \subseteq ready'
    BY <2>1 DEF EnableRW, EpollCtl
  <2>3. "OUT" \in Level(fd)
    BY <1>o, <2>1, LevelOfConn
  <2>4. CASE fd = cur.fd
    <3>1. fd \in ready'
      BY <2>1, <2>3, <2>4 DEF EnableRW, EpollCtl
    <3> QED BY <3>1 DEF WritePending
  <2>5. CASE fd # cur.fd
    BY <1>f, <2>1, <2>2, <2>3, <2>5
  <2> QED BY <2>4, <2>5
<1>6. CASE AcceptDone \/ AcceptError \/ RecvChunk \/ RecvDrained
           \/ EpollTimeout \/ UNCHANGED vars
  <2>1. UNCHANGED <<peer, snd, owner, ready, events, outbuf, batch, cur>>
    BY <1>6 DEF AcceptDone, AcceptError, RecvChunk, RecvDrained, EpollTimeout,
                vars, peers, kernel, heap, thread
  <2>2. \/ pc' = pc
        \/ pc = "accept"
        \/ pc = "recv" /\ pc' = "process"
    BY <1>6 DEF AcceptDone, AcceptError, RecvChunk, RecvDrained, EpollTimeout, vars, thread
  <2>3. "OUT" \in Level(fd)
    BY <1>o, <2>1, LevelOfConn
  <2> QED BY <1>f, <2>1, <2>2, <2>3
<1>16. CASE SendKilled
  BY <1>16 DEF SendKilled
<1> QED
  BY <1>1, <1>2, <1>3, <1>4, <1>5, <1>6, <1>7, <1>10, <1>11, <1>12, <1>13,
     <1>14, <1>15, <1>16 DEF Next, Server, Handler

\* Whenever a connection has something to write and the socket would take it,
\* a write event is on its way or Sender is running.
THEOREM NoWriteEdgeLost == Spec => []NoLostWrite
<1>1. Init => NoLostWrite
  BY ConstantsAssumption DEF Init, NoLostWrite
<1>2. QED
  BY <1>1, NoLostWriteStep, SafeAlways, DemandAlways, QueueBoundedAlways, PTL DEF Spec
-----------------------------------------------------------------------------
\* Where the connections are: each client that has connected waits in the
\* backlog, is behind one descriptor, or is gone.
Waits(c) == \E i \in 1..Len(backlog) : backlog[i] = c

OnePlace ==
  /\ \A fd, other \in Fds : owner[fd] # None /\ owner[fd] = owner[other] => fd = other
  /\ \A i, j \in 1..Len(backlog) : backlog[i] = backlog[j] => i = j
  /\ \A fd \in Fds : owner[fd] # None => peer[owner[fd]] # "idle" /\ ~ Waits(owner[fd])
  /\ \A c \in Clients : Waits(c) => peer[c] # "idle"

\* Who waits after a connection joins the backlog, and after one leaves it.
LEMMA JoinsBacklog ==
  ASSUME TypeOK, NEW c \in Clients, backlog' = Append(backlog, c)
  PROVE  \A d \in Clients : Waits(d)' => Waits(d) \/ d = c
<1> DEFINE n == Len(backlog)
           m == Len(backlog')
<1>1. /\ m = n + 1 /\ n \in Nat
      /\ \A i \in 1..n : backlog'[i] = backlog[i]
      /\ backlog'[n + 1] = c
  BY LenProperties, AppendProperties DEF TypeOK
<1>2. \A i \in 1..m : i \in 1..n \/ i = n + 1
  <2> HIDE DEF n, m
  <2> QED BY <1>1
<1> HIDE DEF n, m
<1> QED BY <1>1, <1>2 DEF Waits, n, m

LEMMA LeavesBacklog ==
  ASSUME TypeOK, OnePlace, AcceptOne
  PROVE  /\ Head(backlog) \in Clients /\ Waits(Head(backlog))
         /\ \A d \in Clients : Waits(d)' => Waits(d) /\ d # Head(backlog)
<1> DEFINE n == Len(backlog)
           m == Len(backlog')
           h == Head(backlog)
<1>b. /\ backlog \in Seq(Clients) /\ n \in Nat
      /\ backlog # <<>> /\ backlog' = Tail(backlog)
  BY LenProperties DEF TypeOK, AcceptOne
<1>1. /\ n > 0 /\ h = backlog[1] /\ h \in Clients
      /\ m = n - 1 /\ \A i \in 1..m : backlog'[i] = backlog[i + 1]
  BY <1>b, SeqFacts, HeadTailProperties
<1>2. 1 \in 1..n /\ \A i \in 1..m : i + 1 \in 1..n /\ i + 1 # 1
  <2> HIDE DEF n, m
  <2> QED BY <1>b, <1>1
<1>3. Waits(h)
  BY <1>1, <1>2 DEF Waits
<1>4. \A d \in Clients : Waits(d)' => Waits(d) /\ d # h
  <2>1. SUFFICES ASSUME NEW i \in 1..m PROVE Waits(backlog'[i]) /\ backlog'[i] # h
    BY DEF Waits
  <2>2. backlog'[i] = backlog[i + 1] /\ i + 1 \in 1..n /\ i + 1 # 1
    BY <1>1, <1>2
  <2>3. backlog[i + 1] # backlog[1]
    BY <1>2, <2>2 DEF OnePlace
  <2> QED BY <1>1, <2>2, <2>3 DEF Waits
<1> QED BY <1>1, <1>3, <1>4

LEMMA OnePlaceStep == Safe /\ OnePlace /\ [Next]_vars => OnePlace'
<1> SUFFICES ASSUME Safe, OnePlace, [Next]_vars PROVE OnePlace'
  OBVIOUS
<1> USE ConstantsAssumption
<1>t. TypeOK /\ Core
  BY DEF Safe, Core
<1>b. /\ backlog \in Seq(Clients) /\ Len(backlog) \in Nat
      /\ \A i \in 1..Len(backlog) : backlog[i] \in Clients
  BY <1>t, LenProperties, ElementOfSeq DEF TypeOK
<1>o. owner \in [Fds -> Clients \cup {None}]
  BY <1>t DEF TypeOK
\* No client becomes idle again; the owners and the backlog only lose.
<1>f. ASSUME backlog' = backlog, \A fd \in Fds : owner'[fd] = owner[fd] \/ owner'[fd] = None,
             \A c \in Clients : peer'[c] = "idle" => peer[c] = "idle"
      PROVE  OnePlace'
  BY <1>b, <1>o, <1>f DEF OnePlace, Waits
<1>1. ASSUME NEW c \in Clients, Connect(c) PROVE OnePlace'
  <2>1. /\ peer[c] = "idle" /\ backlog' = Append(backlog, c) /\ owner' = owner
        /\ peer'[c] = "open" /\ \A d \in Clients : d # c => peer'[d] = peer[d]
    BY <1>t, <1>1 DEF Connect, TypeOK
  <2>2. /\ Len(backlog') = Len(backlog) + 1
        /\ \A i \in 1..Len(backlog) : backlog'[i] = backlog[i]
        /\ backlog'[Len(backlog) + 1] = c
    BY <1>b, <2>1, AppendProperties
  <2> DEFINE n == Len(backlog)
             m == Len(backlog')
  <2>3. m = n + 1 /\ n \in Nat
    BY <1>b, <2>2
  <2>4. \A i \in 1..m : i \in 1..n \/ i = n + 1
    <3> HIDE DEF n, m
    <3> QED BY <2>3
  <2>5. \A i \in 1..n : i \in 1..m /\ backlog'[i] = backlog[i] /\ backlog[i] # c
    <3>1. \A i \in 1..n : backlog[i] # c
      BY <1>b, <2>1 DEF OnePlace, Waits
    <3>2. \A i \in 1..n : i \in 1..m
      <4> HIDE DEF n, m
      <4> QED BY <2>3
    <3> QED BY <2>2, <3>1, <3>2
  <2>6. backlog'[n + 1] = c
    BY <2>2
  <2>7. \A d \in Clients : Waits(d)' => Waits(d) \/ d = c
    BY <1>t, <2>1, JoinsBacklog
  <2>8. \A i, j \in 1..m : backlog'[i] = backlog'[j] => i = j
    <3>1. \A i, j \in 1..n : backlog[i] = backlog[j] => i = j
      BY DEF OnePlace
    <3> HIDE DEF n, m
    <3> QED BY <2>4, <2>5, <2>6, <3>1
  <2>9. \A fd \in Fds : owner[fd] # None => owner[fd] # c /\ owner[fd] \in Clients
    BY <1>o, <2>1 DEF OnePlace
  <2> HIDE DEF n, m
  <2> QED BY <2>1, <2>7, <2>8, <2>9 DEF OnePlace, m
<1>2. ASSUME NEW c \in Clients, PeerSend(c) \/ PeerShutdown(c) \/ PeerReset(c) \/ PeerRead(c)
      PROVE  OnePlace'
  <2>1. backlog' = backlog /\ owner' = owner
    BY <1>2 DEF PeerSend, PeerShutdown, PeerReset, PeerRead
  <2>2. \A d \in Clients : peer'[d] = "idle" => peer[d] = "idle"
    BY <1>t, <1>2 DEF PeerSend, PeerShutdown, PeerReset, PeerRead, TypeOK
  <2> QED BY <1>f, <2>1, <2>2
<1>3. CASE AcceptOne
  <2>1. PICK fd \in Free : owner' = [owner EXCEPT ![fd] = Head(backlog)]
    BY <1>3 DEF AcceptOne
  <2>2. backlog # <<>> /\ backlog' = Tail(backlog) /\ peer' = peer
    BY <1>3 DEF AcceptOne
  <2> DEFINE n == Len(backlog)
             m == Len(backlog')
             h == Head(backlog)
  <2>3. /\ n > 0 /\ h = backlog[1] /\ h \in Clients
        /\ m = n - 1 /\ \A i \in 1..m : backlog'[i] = backlog[i + 1]
    BY <1>b, <2>2, SeqFacts, HeadTailProperties
  <2>4. n \in Nat /\ 1 \in 1..n /\ \A i \in 1..m : i + 1 \in 1..n /\ i + 1 # 1
    <3>1. n \in Nat
      BY <1>b
    <3> HIDE DEF n, m
    <3> QED BY <2>3, <3>1
  <2>5. fd \in Fds /\ owner[fd] = None /\ owner'[fd] = h
        /\ \A other \in Fds : other # fd => owner'[other] = owner[other]
    BY <1>o, <2>1 DEF Free
  <2>6. Waits(h) /\ h # None
    BY <2>3, <2>4 DEF Waits
  <2>7. \A c \in Clients : Waits(c)' => Waits(c) /\ c # h
    BY <1>t, <1>3, LeavesBacklog
  <2>8. \A i, j \in 1..m : backlog'[i] = backlog'[j] => i = j
    <3>1. \A i, j \in 1..m : backlog[i + 1] = backlog[j + 1] => i + 1 = j + 1
      BY <2>4 DEF OnePlace
    <3>2. \A i, j \in 1..m : i + 1 = j + 1 => i = j
      OBVIOUS
    <3> QED BY <2>3, <3>1, <3>2
  <2>9. \A c, d \in Fds : owner'[c] # None /\ owner'[c] = owner'[d] => c = d
    BY <2>5, <2>6 DEF OnePlace
  <2>10. \A c \in Fds : owner'[c] # None =>
           peer[owner'[c]] # "idle" /\ \A i \in 1..m : backlog'[i] # owner'[c]
    <3> SUFFICES ASSUME NEW c \in Fds, owner'[c] # None
                 PROVE  peer[owner'[c]] # "idle" /\ \A i \in 1..m : backlog'[i] # owner'[c]
      OBVIOUS
    <3>1. \A i \in 1..m : Waits(backlog'[i]) /\ backlog'[i] # h
      <4>1. \A i \in 1..m : backlog'[i] \in Clients
        BY <1>b, <2>3, <2>4
      <4> QED BY <2>7, <4>1 DEF Waits
    <3>2. CASE c = fd
      BY <2>3, <2>5, <2>6, <3>1, <3>2 DEF OnePlace
    <3>3. CASE c # fd
      BY <2>5, <3>1, <3>3 DEF OnePlace
    <3> QED BY <3>2, <3>3
  <2>11. \A c \in Clients : Waits(c)' => peer[c] # "idle"
    BY <2>7 DEF OnePlace
  <2> HIDE DEF n, m, h
  <2> QED BY <2>2, <2>8, <2>9, <2>10, <2>11 DEF OnePlace, Waits, m
<1>4. CASE RecvEnd \/ SendError
  <2>1. cur.fd \in Fds \cap events /\ DeleteEvent(cur.fd)
    BY <1>t, <1>4 DEF RecvEnd, SendError, Core, Shape, HandlerEventLive
  <2>2. \A fd \in Fds : owner'[fd] = owner[fd] \/ owner'[fd] = None
    BY <1>t, <2>1, DeleteFacts
  <2> QED BY <1>f, <1>4, <2>2 DEF RecvEnd, SendError, peers
<1>5. CASE UNCHANGED <<peer, owner, backlog>>
  BY <1>5, <1>f
<1>6. CASE SendKilled
  <2>1. (\A fd \in Fds : owner'[fd] = None) /\ backlog' = <<>>
    BY <1>6 DEF SendKilled
  <2>2. 1..Len(backlog') = {}
    BY <2>1
  <2> QED BY <2>1, <2>2 DEF OnePlace, Waits
<1> QED
  BY <1>1, <1>2, <1>3, <1>4, <1>5, <1>6
     DEF Next, Server, Handler, Peer, EpollWait, EpollTimeout, DispatchRead, DispatchWrite,
         AcceptDone, AcceptError, InsertEvent, RecvChunk, RecvDrained, Process, SendAll,
         SendShort, SendFull, vars, peers, kernel, heap

LEMMA OnePlaceAlways == Spec => []OnePlace
<1>1. Init => OnePlace
  BY ConstantsAssumption DEF Init, OnePlace, Waits
<1>2. QED BY <1>1, OnePlaceStep, SafeAlways, PTL DEF Spec

\* While the process lives the listening descriptor stays armed, and it is
\* reported for read events.
ListenArmed ==
  /\ pc # "killed" => epoll[Listen] = {"IN", "ET"}
  /\ \A e \in batch : e.fd = Listen => "IN" \in e.ev

LEMMA ListenArmedStep == Safe /\ ListenArmed /\ [Next]_vars => ListenArmed'
<1> SUFFICES ASSUME Safe, ListenArmed, [Next]_vars PROVE ListenArmed'
  OBVIOUS
<1> USE ConstantsAssumption
<1>t. TypeOK /\ Core /\ Listen \in AllFds
  BY DEF Safe, Core, AllFds
<1>1. CASE EpollWait
  <2>1. PICK taken \in SUBSET ready :
          batch' = {EntryOf(f) : f \in {g \in taken : Reported(g) # {}}}
    BY <1>1 DEF EpollWait
  <2>2. Reported(Listen) # {} => "IN" \in Promote(Reported(Listen))
    BY DEF ListenArmed, Reported, Level, Promote
  <2>3. \A f : EntryOf(f).fd = f /\ EntryOf(f).ev = Promote(Reported(f))
    BY DEF EntryOf
  <2> QED BY <1>1, <2>1, <2>2, <2>3 DEF EpollWait, ListenArmed
<1>2. CASE InsertEvent
  <2>1. newfd \in Fds /\ UNCHANGED batch
    BY <1>t, <1>2 DEF InsertEvent, Core, Shape
  <2>2. epoll'[Listen] = epoll[Listen] /\ pc # "killed"
    BY <1>t, <1>2, <2>1 DEF InsertEvent, EpollCtl, TypeOK
  <2> QED BY <2>1, <2>2 DEF ListenArmed
<1>3. CASE RecvEnd \/ SendError
  <2>1. cur.fd \in Fds \cap events /\ DeleteEvent(cur.fd) /\ UNCHANGED batch /\ pc # "killed"
    BY <1>t, <1>3 DEF RecvEnd, SendError, Core, Shape, HandlerEventLive
  <2> QED BY <1>t, <2>1, DeleteFacts DEF ListenArmed
<1>4. CASE Process \/ SendAll \/ SendFull
  <2>1. cur.fd \in Fds /\ UNCHANGED batch /\ pc # "killed"
    BY <1>t, <1>4 DEF Process, SendAll, SendFull, Core, Shape, HandlerEventLive
  <2>2. epoll'[Listen] = epoll[Listen]
    BY <1>t, <1>4, <2>1 DEF Process, SendAll, SendFull, EnableRW, EpollCtl, TypeOK
  <2> QED BY <2>1, <2>2 DEF ListenArmed
<1>5. CASE UNCHANGED epoll /\ batch' \subseteq batch /\ (pc = "killed" => pc' = "killed")
  BY <1>5 DEF ListenArmed
<1>6. CASE SendKilled
  BY <1>6 DEF SendKilled, ListenArmed
<1> QED
  BY <1>1, <1>2, <1>3, <1>4, <1>5, <1>6
     DEF Next, Server, Handler, Peer, Connect, PeerSend, PeerShutdown, PeerReset, PeerRead,
         EpollTimeout, DispatchRead, DispatchWrite, AcceptOne, AcceptDone, AcceptError,
         RecvChunk, RecvDrained, SendShort, vars, kernel, thread

\* What Accepter needs to come to a connection that waits, or that it has
\* failed to take it.
AcceptPending ==
  \/ Listen \in ready
  \/ \E e \in batch : e.fd = Listen
  \/ pc \in {"accept", "insert"}
  \/ missed

\* Whenever a connection waits, an event of the listening descriptor is on its
\* way or Accepter is running, unless an accept has failed since the last client
\* connected: nothing but that leaves a connection in the backlog.
THEOREM NoConnectionLeftWaiting == Spec => []NoLostAccept
<1> USE ConstantsAssumption
<1>1. Init => NoLostAccept /\ ListenArmed
  BY DEF Init, NoLostAccept, ListenArmed, AllFds
<1>2. Safe /\ ListenArmed /\ NoLostAccept /\ [Next]_vars => NoLostAccept'
  <2> SUFFICES ASSUME Safe, ListenArmed, NoLostAccept, [Next]_vars, backlog' # <<>>
               PROVE  AcceptPending'
    BY DEF NoLostAccept, AcceptPending
  <2>t. TypeOK /\ Core /\ Listen \in AllFds
    BY DEF Safe, Core, AllFds
  <2>f. ASSUME backlog # <<>>, Listen \in ready => Listen \in ready', batch' = batch,
               missed' = missed,
               pc \in {"accept", "insert"} => pc' \in {"accept", "insert"}
        PROVE  AcceptPending'
    BY <2>f DEF NoLostAccept, AcceptPending
  <2>1. ASSUME NEW c \in Clients, Peer(c) PROVE AcceptPending'
    <3>1. CASE Connect(c)
      BY <3>1 DEF Connect, AcceptPending
    <3>2. CASE ~ Connect(c)
      <4>1. UNCHANGED <<backlog, missed, batch, pc>> /\ ready \subseteq ready'
        BY <2>1, <3>2 DEF Peer, PeerSend, PeerShutdown, PeerReset, PeerRead, Wake, thread
      <4> QED BY <2>f, <4>1
    <3> QED BY <3>1, <3>2
  <2>2. CASE EpollWait
    <3>1. PICK taken \in SUBSET ready :
            /\ batch' = {EntryOf(f) : f \in {g \in taken : Reported(g) # {}}}
            /\ ready' = ready \ taken
      BY <2>2 DEF EpollWait
    <3>2. pc = "loop" /\ batch = {} /\ backlog # <<>> /\ missed' = missed
      BY <2>2 DEF EpollWait, peers
    <3>3. missed \/ (Listen \in ready /\ Reported(Listen) # {})
      BY <3>2 DEF NoLostAccept, ListenArmed, Reported, Level
    <3>4. ~ missed /\ Listen \in taken => EntryOf(Listen) \in batch' /\ EntryOf(Listen).fd = Listen
      BY <3>1, <3>3 DEF EntryOf
    <3> QED BY <3>1, <3>2, <3>3, <3>4 DEF AcceptPending
  <2>3. CASE DispatchRead
    <3>1. PICK e \in batch :
            /\ batch' = batch \ {e}
            /\ pc' = IF "IN" \in e.ev /\ IsSockOk(e.fd)
                     THEN IF e.fd = Listen THEN "accept" ELSE "recv"
                     ELSE "write"
      BY <2>3 DEF DispatchRead
    <3>2. pc = "loop" /\ ready' = ready /\ backlog # <<>> /\ missed' = missed
      BY <2>3 DEF DispatchRead, kernel, peers
    <3>3. e.fd = Listen => pc' = "accept"
      BY <2>t, <3>1, <3>2 DEF ListenArmed, IsSockOk, Core, Shape
    <3> QED BY <3>1, <3>2, <3>3 DEF NoLostAccept, AcceptPending
  <2>4. CASE AcceptOne \/ InsertEvent
    BY <2>4 DEF AcceptOne, InsertEvent, AcceptPending
  <2>5. CASE AcceptDone \/ AcceptError \/ SendKilled
    BY <2>5 DEF AcceptDone, AcceptError, SendKilled, AcceptPending, peers
  <2>6. CASE RecvEnd \/ SendError
    <3>1. cur.fd \in Fds \cap events /\ DeleteEvent(cur.fd)
      BY <2>t, <2>6 DEF RecvEnd, SendError, Core, Shape, HandlerEventLive
    <3>2. ready' = ready \ {cur.fd} /\ cur.fd # Listen
      BY <2>t, <3>1, DeleteFacts
    <3> QED BY <2>f, <2>6, <3>2 DEF RecvEnd, SendError, peers
  <2>7. CASE Process \/ SendAll \/ SendFull
    <3>1. ready \subseteq ready'
      BY <2>7 DEF Process, SendAll, SendFull, EnableRW, EpollCtl
    <3> QED BY <2>f, <2>7, <3>1 DEF Process, SendAll, SendFull, peers
  <2>8. CASE DispatchWrite \/ RecvChunk \/ RecvDrained \/ SendShort
             \/ EpollTimeout \/ UNCHANGED vars
    <3>1. /\ UNCHANGED <<backlog, missed, batch, ready>>
          /\ pc' = pc \/ pc \in {"write", "recv", "send"}
      BY <2>8 DEF DispatchWrite, RecvChunk, RecvDrained, SendShort, EpollTimeout,
                  vars, peers, kernel, thread
    <3> QED BY <2>f, <3>1
  <2> QED
    BY <2>1, <2>2, <2>3, <2>4, <2>5, <2>6, <2>7, <2>8 DEF Next, Server, Handler
<1>3. QED
  BY <1>1, <1>2, ListenArmedStep, SafeAlways, PTL DEF Spec
-----------------------------------------------------------------------------
\* Sequences of answers in turn (InTurn).

\* The first elements of s \o t.
LEMMA ConcatElements ==
  ASSUME NEW s \in Seq(Answer), NEW t \in Seq(Answer)
  PROVE  /\ s \o t \in Seq(Answer) /\ Len(s) \in Nat /\ Len(t) \in Nat
         /\ DOMAIN s = 1..Len(s) /\ DOMAIN (s \o t) = 1..(Len(s) + Len(t))
         /\ \A i \in 1..Len(s) : i \in DOMAIN (s \o t) /\ (s \o t)[i] = s[i]
         /\ \A i \in 1..Len(t) : Len(s) + i \in DOMAIN (s \o t) /\ (s \o t)[Len(s) + i] = t[i]
<1> DEFINE v == s \o t
           n == Len(s)
           m == Len(t)
<1>1. /\ v \in Seq(Answer) /\ n \in Nat /\ m \in Nat /\ Len(v) = n + m
      /\ \A i \in 1..(n + m) : v[i] = IF i <= n THEN s[i] ELSE t[i - n]
      /\ DOMAIN s = 1..n /\ DOMAIN v = 1..Len(v)
  BY ConcatProperties, LenProperties
<1> HIDE DEF v, n, m
<1>2. \A i \in 1..n : i \in 1..(n + m) /\ i <= n
  BY <1>1
<1>3. \A i \in 1..m : n + i \in 1..(n + m) /\ ~ (n + i <= n) /\ (n + i) - n = i
  BY <1>1
<1>4. \A i \in 1..n : v[i] = s[i]
  BY <1>1, <1>2
<1>5. \A i \in 1..m : v[n + i] = t[i]
  BY <1>1, <1>3
<1> QED BY <1>1, <1>2, <1>3, <1>4, <1>5 DEF v, n, m

LEMMA ConcatThree ==
  ASSUME NEW s \in Seq(Answer), NEW t \in Seq(Answer), NEW v \in Seq(Answer)
  PROVE  s \o (t \o v) = (s \o t) \o v
BY ConcatAssociative

\* More that was asked for changes nothing.
LEMMA InTurnGrows ==
  ASSUME NEW s \in Seq(Answer), NEW t \in Seq(Answer), NEW v \in Seq(Answer),
         StartsWith(v, t), InTurn(s, t)
  PROVE  InTurn(s, v)
<1>1. PICK u \in Seq(Answer) : v = t \o u
  BY DEF StartsWith
<1>2. \A i \in DOMAIN t : i \in DOMAIN v /\ v[i] = t[i]
  BY <1>1, ConcatElements
<1> SUFFICES ASSUME NEW j \in DOMAIN s
             PROVE  \E k \in DOMAIN v : /\ s[j] = v[k]
                                        /\ \A l \in 1 .. k-1 : \E i \in 1 .. j-1 : s[i] = v[l]
  BY DEF InTurn
<1>3. PICK k \in DOMAIN t : /\ s[j] = t[k]
                            /\ \A l \in 1 .. k-1 : \E i \in 1 .. j-1 : s[i] = t[l]
  BY DEF InTurn
<1>4. \A l \in 1 .. k-1 : l \in DOMAIN t
  <2>1. DOMAIN t = 1..Len(t) /\ Len(t) \in Nat
    BY LenProperties
  <2> QED BY <2>1
<1> QED BY <1>2, <1>3, <1>4

\* What came first came in turn.
LEMMA InTurnPart ==
  ASSUME NEW s \in Seq(Answer), NEW u \in Seq(Answer), NEW t, InTurn(s \o u, t)
  PROVE  InTurn(s, t)
<1>1. \A i \in DOMAIN s : i \in DOMAIN (s \o u) /\ (s \o u)[i] = s[i]
  BY ConcatElements
<1>2. \A j \in DOMAIN s : \A i \in 1 .. j-1 : i \in DOMAIN s
  <2>1. DOMAIN s = 1..Len(s) /\ Len(s) \in Nat
    BY LenProperties
  <2> QED BY <2>1
<1> SUFFICES ASSUME NEW j \in DOMAIN s
             PROVE  \E k \in DOMAIN t : /\ s[j] = t[k]
                                        /\ \A l \in 1 .. k-1 : \E i \in 1 .. j-1 : s[i] = t[l]
  BY DEF InTurn
<1>3. PICK k \in DOMAIN t :
        /\ (s \o u)[j] = t[k]
        /\ \A l \in 1 .. k-1 : \E i \in 1 .. j-1 : (s \o u)[i] = t[l]
  BY <1>1 DEF InTurn
<1> QED BY <1>1, <1>2, <1>3

\* A send adds the first m bytes of the buffer o to what was sent: all that
\* comes before them in turn is there already.
LEMMA InTurnSend ==
  ASSUME NEW x \in Seq(Answer), NEW p \in Seq(Answer), NEW o \in Seq(Answer),
         NEW a \in Seq(Answer), NEW m \in 0..Len(o),
         Range(p) \subseteq Range(x), InTurn(x, (p \o o) \o a)
  PROVE  InTurn(x \o SubSeq(o, 1, m), (p \o o) \o a)
<1> DEFINE w == SubSeq(o, 1, m)
           v == x \o w
           t == (p \o o) \o a
           n == Len(x)
           h == Len(p)
<1>1. Len(o) \in Nat /\ m \in Nat /\ m <= Len(o)
  BY LenProperties
<1>2. w \in Seq(Answer) /\ Len(w) = m /\ \A q \in 1..m : q \in 1..Len(o) /\ w[q] = o[q]
  <2>1. \A q \in 1..m : q \in 1..Len(o) /\ 1 + q - 1 = q /\ q \in 1..(m - 1 + 1)
    BY <1>1
  <2>2. \A q \in 1..Len(o) : o[q] \in Answer
    BY ElementOfSeq
  <2>3. \A q \in 1..m : o[q] \in Answer
    BY <2>1, <2>2
  <2>4. /\ w \in Seq(Answer)
        /\ Len(w) = IF 1 <= m THEN m - 1 + 1 ELSE 0
        /\ \A q \in 1..(m - 1 + 1) : w[q] = o[1 + q - 1]
    BY <1>1, <2>3, SubSeqProperties
  <2>5. Len(w) = m
    <3> HIDE DEF w
    <3> QED BY <1>1, <2>4
  <2> QED BY <2>1, <2>4, <2>5
<1>3. /\ n \in Nat /\ DOMAIN x = 1..n /\ DOMAIN v = 1..(n + m)
      /\ \A i \in 1..n : v[i] = x[i]
      /\ \A q \in 1..m : v[n + q] = w[q]
  <2>1. x \in Seq(Answer) /\ w \in Seq(Answer) /\ Len(w) = m
    BY <1>2
  <2> HIDE DEF w
  <2>2. /\ x \o w \in Seq(Answer) /\ Len(x) \in Nat /\ Len(w) \in Nat
        /\ DOMAIN x = 1..Len(x) /\ DOMAIN (x \o w) = 1..(Len(x) + Len(w))
        /\ \A i \in 1..Len(x) : i \in DOMAIN (x \o w) /\ (x \o w)[i] = x[i]
        /\ \A i \in 1..Len(w) : Len(x) + i \in DOMAIN (x \o w) /\ (x \o w)[Len(x) + i] = w[i]
    BY ONLY <2>1, ConcatElements
  <2> QED BY <2>1, <2>2
<1>4. /\ h \in Nat /\ DOMAIN p = 1..h
      /\ \A i \in 1..h : i \in DOMAIN t /\ t[i] = p[i]
      /\ \A q \in 1..Len(o) : h + q \in DOMAIN t /\ t[h + q] = o[q]
  <2>1. /\ p \o o \in Seq(Answer)
        /\ \A i \in 1..h : i \in DOMAIN (p \o o) /\ (p \o o)[i] = p[i]
        /\ \A q \in 1..Len(o) : h + q \in DOMAIN (p \o o) /\ (p \o o)[h + q] = o[q]
        /\ h \in Nat /\ DOMAIN p = 1..h
    BY ConcatElements
  <2>2. /\ \A i \in 1..Len(p \o o) : i \in DOMAIN t /\ t[i] = (p \o o)[i]
        /\ DOMAIN (p \o o) = 1..Len(p \o o)
    BY <2>1, ConcatElements
  <2> HIDE DEF t
  <2> QED BY <2>1, <2>2
<1> HIDE DEF w, v, t, n, h
<1>5. \A j \in 1..n : x[j] \in Range(x)
  BY <1>3 DEF Range
<1>6. \A l \in 1..h : \E i \in 1..n : v[i] = t[l]
  <2> SUFFICES ASSUME NEW l \in 1..h PROVE \E i \in 1..n : v[i] = t[l]
    OBVIOUS
  <2>1. p[l] \in Range(p)
    BY <1>4 DEF Range
  <2>2. PICK i \in 1..n : x[i] = p[l]
    BY <1>3, <2>1 DEF Range
  <2> QED BY <1>3, <1>4, <2>2
<1>7. \A q \in 1..m : v[n + q] = t[h + q] /\ h + q \in DOMAIN t
  BY <1>2, <1>3, <1>4
<1>8. ASSUME NEW j \in DOMAIN v
      PROVE  \E k \in DOMAIN t : /\ v[j] = t[k]
                                 /\ \A l \in 1 .. k-1 : \E i \in 1 .. j-1 : v[i] = t[l]
  <2>0. j \in 1..(n + m) /\ j \in Int
    BY <1>1, <1>3
  <2>1. CASE j <= n
    <3>1. j \in DOMAIN x /\ v[j] = x[j] /\ \A i \in 1 .. j-1 : v[i] = x[i]
      BY <1>1, <1>3, <2>0, <2>1
    <3>2. PICK k \in DOMAIN t : /\ x[j] = t[k]
                                /\ \A l \in 1 .. k-1 : \E i \in 1 .. j-1 : x[i] = t[l]
      BY <3>1 DEF InTurn, t
    <3> QED BY <3>1, <3>2
  <2>2. CASE ~ (j <= n)
    <3>1. PICK q \in 1..m : j = n + q
      <4>1. j - n \in 1..m /\ j = n + (j - n)
        BY <1>1, <1>3, <2>0, <2>2
      <4> QED BY <4>1
    <3>2. ASSUME NEW l \in 1 .. (h + q) - 1 PROVE \E i \in 1 .. j-1 : v[i] = t[l]
      <4>1. CASE l <= h
        <5>1. l \in 1..h /\ \A i \in 1..n : i \in 1 .. j-1
          BY <1>1, <1>3, <1>4, <3>1, <3>2, <4>1
        <5> QED BY <1>6, <5>1
      <4>2. CASE ~ (l <= h)
        <5>1. l - h \in 1..m /\ n + (l - h) \in 1 .. j-1 /\ h + (l - h) = l
          BY <1>1, <1>3, <1>4, <3>1, <3>2, <4>2
        <5> QED BY <1>7, <5>1
      <4> QED BY <4>1, <4>2
    <3> QED BY <1>7, <3>1, <3>2
  <2> QED BY <2>1, <2>2
<1> QED BY <1>8 DEF InTurn, w, v, t
-----------------------------------------------------------------------------
\* The send queue of a socket has room for all the bytes of the answers a
\* client asks for.
QueueHoldsAll ==
  \A c \in Clients : Len(Answers([i \in 1..2*Quota[c] |-> i])) <= SndBuf

\* Stream, for a connection whose client has been sent x: short sends repeat
\* bytes and make x longer than p, the bytes that have left the buffer, but
\* all of p is in x.
Carries(x, o, i, r, n) ==
  \E p \in Seq(Answer) :
    /\ Stream(p, o, i, r, n)
    /\ Range(p) \subseteq Range(x)
    /\ QueueHoldsAll => p = x

LEMMA CarriesWrite ==
  ASSUME NEW x, NEW o, NEW i, NEW r, NEW n, Channel(x, o, i, r, n),
         Carries(x, o, i, r, n), n < 2*Requests
  PROVE  Carries(x, o, i, Append(r, n + 1), n + 1)
<1>1. PICK p \in Seq(Answer) : /\ Stream(p, o, i, r, n)
                               /\ Range(p) \subseteq Range(x) /\ (QueueHoldsAll => p = x)
  BY DEF Carries
<1>2. Channel(p, o, i, r, n)
  BY DEF Channel
<1>3. Stream(p, o, i, Append(r, n + 1), n + 1)
  BY <1>1, <1>2, StreamWrite
<1> QED BY <1>1, <1>3 DEF Carries

LEMMA CarriesReceive ==
  ASSUME NEW x, NEW o, NEW i, NEW r, NEW n, Channel(x, o, i, r, n),
         Carries(x, o, i, r, n), NEW m \in 0..Len(r)
  PROVE  Carries(x, o, i \o SubSeq(r, 1, m), SubSeq(r, m + 1, Len(r)), n)
<1>1. PICK p \in Seq(Answer) : /\ Stream(p, o, i, r, n)
                               /\ Range(p) \subseteq Range(x) /\ (QueueHoldsAll => p = x)
  BY DEF Carries
<1>2. Channel(p, o, i, r, n)
  BY DEF Channel
<1>3. Stream(p, o, i \o SubSeq(r, 1, m), SubSeq(r, m + 1, Len(r)), n)
  BY <1>1, <1>2, StreamReceive
<1> QED BY <1>1, <1>3 DEF Carries

LEMMA CarriesProcess ==
  ASSUME NEW x, NEW o, NEW i, NEW r, NEW n, Channel(x, o, i, r, n),
         Carries(x, o, i, r, n)
  PROVE  Carries(x, o \o Answers(i), Rest(i), r, n)
<1>1. PICK p \in Seq(Answer) : /\ Stream(p, o, i, r, n)
                               /\ Range(p) \subseteq Range(x) /\ (QueueHoldsAll => p = x)
  BY DEF Carries
<1>2. Channel(p, o, i, r, n)
  BY DEF Channel
<1>3. Stream(p, o \o Answers(i), Rest(i), r, n)
  BY <1>1, <1>2, StreamProcess
<1> QED BY <1>1, <1>3 DEF Carries

\* SendAll.
LEMMA CarriesSend ==
  ASSUME NEW x, NEW o, NEW i, NEW r, NEW n, Channel(x, o, i, r, n),
         Carries(x, o, i, r, n)
  PROVE  Carries(x \o o, <<>>, i, r, n)
<1>1. PICK p \in Seq(Answer) : /\ Stream(p, o, i, r, n)
                               /\ Range(p) \subseteq Range(x) /\ (QueueHoldsAll => p = x)
  BY DEF Carries
<1>2. Channel(p, o, i, r, n) /\ x \in Seq(Answer) /\ o \in Seq(Answer)
  BY DEF Channel
<1>3. Stream(p \o o, <<>>, i, r, n)
  BY <1>1, <1>2, StreamSend
<1>4. p \o o \in Seq(Answer)
  BY <1>2, ConcatProperties
<1>5. Range(p \o o) = Range(p) \cup Range(o) /\ Range(x \o o) = Range(x) \cup Range(o)
  BY <1>2, RangeConcatenation
<1>6. Range(p \o o) \subseteq Range(x \o o)
  BY <1>1, <1>5
<1>7. QueueHoldsAll => p \o o = x \o o
  BY <1>1
<1> DEFINE q == p \o o
<1>8. q \in Seq(Answer) /\ Stream(q, <<>>, i, r, n) /\ Range(q) \subseteq Range(x \o o)
      /\ (QueueHoldsAll => q = x \o o)
  BY <1>3, <1>4, <1>6, <1>7
<1> HIDE DEF q
<1> QED BY <1>8 DEF Carries

\* SendShort: the buffer keeps what was sent.
LEMMA CarriesShort ==
  ASSUME NEW x, NEW o, NEW i, NEW r, NEW n, Channel(x, o, i, r, n),
         Carries(x, o, i, r, n), ~ QueueHoldsAll, NEW w \in Seq(Answer)
  PROVE  Carries(x \o w, o, i, r, n)
<1>1. PICK p \in Seq(Answer) : Stream(p, o, i, r, n) /\ Range(p) \subseteq Range(x)
  BY DEF Carries
<1>2. x \in Seq(Answer)
  BY DEF Channel
<1>3. Range(x \o w) = Range(x) \cup Range(w)
  BY <1>2, RangeConcatenation
<1>4. Range(p) \subseteq Range(x \o w)
  BY <1>1, <1>3
<1> QED BY <1>1, <1>4 DEF Carries

\* What a send, short or not, adds to the queue comes in turn.
LEMMA CarriesInTurn ==
  ASSUME NEW x, NEW o, NEW i, NEW r, NEW n, Channel(x, o, i, r, n),
         Carries(x, o, i, r, n), NEW m \in 0..Len(o),
         InTurn(x, Answers(Segment(0, n)))
  PROVE  InTurn(x \o SubSeq(o, 1, m), Answers(Segment(0, n)))
<1> DEFINE a == Answers(i \o r)
           w == SubSeq(o, 1, m)
<1>1. PICK p \in Seq(Answer) : Stream(p, o, i, r, n) /\ Range(p) \subseteq Range(x)
  BY DEF Carries
<1>2. x \in Seq(Answer) /\ o \in Seq(Answer) /\ a \in Seq(Answer)
  BY ConcatProperties, AnswersType DEF Channel
<1>3. (p \o o) \o a = Answers(Segment(0, n))
  BY <1>1 DEF Stream
<1> HIDE DEF a
<1>4. InTurn(x, (p \o o) \o a)
  BY <1>3
<1>5. InTurn(x \o SubSeq(o, 1, m), (p \o o) \o a)
  BY <1>1, <1>2, <1>4, InTurnSend
<1> QED BY <1>3, <1>5

\* With a queue that is never too short nothing is repeated.
LEMMA CarriesOnce ==
  ASSUME NEW x, NEW o, NEW i, NEW r, NEW n, Channel(x, o, i, r, n),
         Carries(x, o, i, r, n), QueueHoldsAll
  PROVE  Stream(x, o, i, r, n)
BY DEF Carries

\* Nothing that was asked for is missing.
LEMMA CarriesAll ==
  ASSUME NEW x, NEW o, NEW i, NEW r, NEW n, Channel(x, o, i, r, n),
         Carries(x, o, i, r, n)
  PROVE  Range(Answers(Segment(0, n))) \subseteq Range((x \o o) \o Answers(i \o r))
<1> DEFINE a == Answers(i \o r)
<1>1. PICK p \in Seq(Answer) : Stream(p, o, i, r, n) /\ Range(p) \subseteq Range(x)
  BY DEF Carries
<1>2. x \in Seq(Answer) /\ o \in Seq(Answer) /\ a \in Seq(Answer)
  BY ConcatProperties, AnswersType DEF Channel
<1>3. (p \o o) \o a = Answers(Segment(0, n))
  BY <1>1 DEF Stream
<1> HIDE DEF a
<1>4. ASSUME NEW s \in Seq(Answer)
      PROVE  Range((s \o o) \o a) = (Range(s) \cup Range(o)) \cup Range(a)
  <2> DEFINE so == s \o o
  <2>1. so \in Seq(Answer) /\ Range(so) = Range(s) \cup Range(o)
    BY <1>2, ConcatProperties, RangeConcatenation
  <2> HIDE DEF so
  <2>2. Range(so \o a) = Range(so) \cup Range(a)
    BY <1>2, <2>1, RangeConcatenation
  <2> QED BY <2>1, <2>2 DEF so
<1>5. /\ Range((p \o o) \o a) = (Range(p) \cup Range(o)) \cup Range(a)
      /\ Range((x \o o) \o a) = (Range(x) \cup Range(o)) \cup Range(a)
  BY <1>2, <1>4
<1>6. Range((p \o o) \o a) \subseteq Range((x \o o) \o a)
  BY <1>1, <1>5
<1> QED BY <1>3, <1>6 DEF a
-----------------------------------------------------------------------------
\* An accepted connection that is not aborted carries its answers.
Flows(fd, c) ==
  owner[fd] = c /\ peer[c] \notin Aborted =>
    Carries(got[c] \o snd[c], outbuf[fd], inbuf[fd], rcv[c], sent[c])

\* A client that is not accepted yet has been answered nothing, and all that
\* it has written is in its receive queue.
Fresh(c) ==
  peer[c] = "idle" \/ Waits(c) =>
    /\ got[c] = <<>> /\ snd[c] = <<>>
    /\ peer[c] \notin Aborted => rcv[c] = Segment(0, sent[c])

\* What a client has read or can read came in turn, and comes first among its
\* answers if no send was ever short.
ReadsAnswers(c) ==
  LET asked == Answers(Segment(0, sent[c]))
  IN  /\ InTurn(got[c] \o snd[c], asked)
      /\ QueueHoldsAll => StartsWith(asked, got[c] \o snd[c])

StreamInv ==
  /\ \A fd \in Fds, c \in Clients : Flows(fd, c)
  /\ \A c \in Clients : Fresh(c) /\ ReadsAnswers(c) /\ sent[c] <= 2*Quota[c]

LEMMA SegmentFromOne ==
  ASSUME NEW n \in Nat
  PROVE  Segment(0, n) = [i \in 1..n |-> i]
<1>1. n - 0 = n /\ \A i \in 1..n : 0 + i = i
  OBVIOUS
<1> QED BY <1>1 DEF Segment

LEMMA CarriesNew ==
  ASSUME NEW n \in 0..2*Requests
  PROVE  Carries(<<>> \o <<>>, <<>>, <<>>, Segment(0, n), n)
<1>1. 0 \in 0..n /\ 0 % 2 = 0
  BY ConstantsAssumption
<1>2. Segment(0, n) \in Seq(Byte) /\ Answers(Segment(0, n)) \in Seq(Answer)
  BY WrittenAnswers
<1>3. /\ <<>> \o Segment(0, n) = Segment(0, n)
      /\ <<>> \o Answers(Segment(0, n)) = Answers(Segment(0, n))
  BY <1>2, ConcatEmptySeq
<1>4. <<>> \in Seq(Answer) /\ <<>> \o <<>> = <<>>
  <2>1. <<>> \in Seq(Answer)
    BY EmptySeq
  <2> QED BY <2>1, ConcatEmptySeq
<1>5. Stream(<<>>, <<>>, <<>>, Segment(0, n), n)
  BY <1>1, <1>3, <1>4 DEF Stream
<1> QED BY <1>4, <1>5 DEF Carries

LEMMA StreamStep == Safe /\ OnePlace /\ StreamInv /\ [Next]_vars => StreamInv'
<1> SUFFICES ASSUME Safe, OnePlace, StreamInv, [Next]_vars PROVE StreamInv'
  OBVIOUS
<1> USE ConstantsAssumption
<1>t. TypeOK /\ Core
  BY DEF Safe, Core
<1>q. \A c \in Clients : Quota[c] \in Nat /\ 2*Quota[c] \in 0..2*Requests
  <2>1. \A c \in Clients : Quota[c] \in 0..Requests
    OBVIOUS
  <2>2. \A q \in 0..Requests : q \in Nat /\ 2*q \in 0..2*Requests
    OBVIOUS
  <2> QED BY <2>1, <2>2
<1>c. ASSUME NEW fd \in Fds, NEW c \in Clients
      PROVE  Channel(got[c] \o snd[c], outbuf[fd], inbuf[fd], rcv[c], sent[c])
  <2>1. /\ got[c] \in Seq(Answer) /\ snd[c] \in Seq(Answer) /\ outbuf[fd] \in Seq(Answer)
        /\ inbuf[fd] \in Seq(Byte) /\ rcv[c] \in Seq(Byte) /\ sent[c] \in 0..2*Requests
    BY <1>t DEF TypeOK
  <2>2. got[c] \o snd[c] \in Seq(Answer)
    BY <2>1, ConcatProperties
  <2> QED BY <2>1, <2>2 DEF Channel
<1>g. ASSUME NEW c \in Clients
      PROVE  /\ got[c] \in Seq(Answer) /\ snd[c] \in Seq(Answer)
             /\ got[c] \o snd[c] \in Seq(Answer)
             /\ Answers(Segment(0, sent[c])) \in Seq(Answer)
  BY <1>t, ConcatProperties, WrittenAnswers DEF TypeOK
<1>o. \A fd \in Fds, c \in Clients : owner[fd] = c => peer[c] # "idle" /\ ~ Waits(c)
  BY DEF OnePlace
<1>u. \A fd, other \in Fds, c \in Clients : owner[fd] = c /\ owner[other] = c => fd = other
  BY DEF OnePlace
\* A step that leaves the connections alone.
<1>f. ASSUME UNCHANGED <<peer, sent, got, backlog, rcv, snd, owner, inbuf, outbuf>>
      PROVE  StreamInv'
  BY <1>f DEF StreamInv, Flows, Fresh, ReadsAnswers, Waits
<1>1. ASSUME NEW c \in Clients, Connect(c) PROVE StreamInv'
  <2>1. /\ peer[c] = "idle" /\ backlog' = Append(backlog, c)
        /\ peer'[c] = "open" /\ \A d \in Clients : d # c => peer'[d] = peer[d]
        /\ UNCHANGED <<sent, rcv, snd, got, owner, inbuf, outbuf>>
    BY <1>t, <1>1 DEF Connect, TypeOK, heap
  <2>2. \A d \in Clients : Waits(d)' => Waits(d) \/ d = c
    BY <1>t, <2>1, JoinsBacklog
  <2>3. \A fd \in Fds, d \in Clients : Flows(fd, d)'
    <3> SUFFICES ASSUME NEW fd \in Fds, NEW d \in Clients, owner[fd] = d PROVE Flows(fd, d)'
      BY <2>1 DEF Flows
    <3>1. d # c
      BY <1>o, <2>1
    <3> QED BY <2>1, <3>1 DEF StreamInv, Flows
  <2>4. \A d \in Clients : Fresh(d)'
    <3> SUFFICES ASSUME NEW d \in Clients PROVE Fresh(d)'
      OBVIOUS
    <3>1. peer[d] \notin Aborted \/ peer'[d] \in Aborted
      BY <2>1 DEF Aborted
    <3>2. peer'[d] = "idle" \/ Waits(d)' => peer[d] = "idle" \/ Waits(d)
      BY <2>1, <2>2
    <3> QED BY <2>1, <3>1, <3>2 DEF StreamInv, Fresh
  <2> QED BY <2>1, <2>3, <2>4 DEF StreamInv, ReadsAnswers
<1>2. ASSUME NEW c \in Clients, PeerSend(c) PROVE StreamInv'
  <2> DEFINE n == sent[c]
  <2>1. /\ peer[c] = "open" /\ sent[c] < 2*Quota[c]
        /\ sent'[c] = sent[c] + 1 /\ rcv'[c] = Append(rcv[c], sent[c] + 1)
        /\ \A d \in Clients : d # c => sent'[d] = sent[d] /\ rcv'[d] = rcv[d]
        /\ UNCHANGED <<peer, snd, got, backlog, owner, inbuf, outbuf>>
    BY <1>t, <1>2 DEF PeerSend, TypeOK, heap
  <2>2. sent[c] \in 0..2*Requests /\ sent[c] < 2*Requests /\ sent[c] + 1 <= 2*Quota[c]
        /\ sent[c] + 1 \in 0..2*Requests /\ 0 \in 0..sent[c]
    BY <1>t, <1>q, <2>1 DEF TypeOK
  <2>3. \A fd \in Fds, d \in Clients : Flows(fd, d)'
    <3> SUFFICES ASSUME NEW fd \in Fds, NEW d \in Clients PROVE Flows(fd, d)'
      OBVIOUS
    <3>1. CASE d # c
      BY <2>1, <3>1 DEF StreamInv, Flows
    <3>2. CASE d = c /\ owner[fd] = c
      <4>1. Carries(got[c] \o snd[c], outbuf[fd], inbuf[fd], rcv[c], sent[c])
        BY <2>1, <3>2 DEF StreamInv, Flows, Aborted
      <4>2. Carries(got[c] \o snd[c], outbuf[fd], inbuf[fd], Append(rcv[c], sent[c] + 1), sent[c] + 1)
        BY <1>c, <2>2, <4>1, CarriesWrite
      <4> QED BY <2>1, <3>2, <4>2 DEF Flows
    <3>3. CASE d = c /\ owner[fd] # c
      BY <2>1, <3>3 DEF Flows
    <3> QED BY <3>1, <3>2, <3>3
  <2>4. \A d \in Clients : Fresh(d)'
    <3> SUFFICES ASSUME NEW d \in Clients PROVE Fresh(d)'
      OBVIOUS
    <3>1. CASE d # c
      BY <2>1, <3>1 DEF StreamInv, Fresh, Waits
    <3>2. CASE d = c
      <4>1. Append(Segment(0, sent[c]), sent[c] + 1) = Segment(0, sent[c] + 1)
        BY <2>2, SegmentAppend
      <4> QED BY <2>1, <3>2, <4>1 DEF StreamInv, Fresh, Waits, Aborted
    <3> QED BY <3>1, <3>2
  <2>5. \A d \in Clients : ReadsAnswers(d)' /\ sent'[d] <= 2*Quota[d]
    <3> SUFFICES ASSUME NEW d \in Clients PROVE ReadsAnswers(d)' /\ sent'[d] <= 2*Quota[d]
      OBVIOUS
    <3>1. CASE d # c
      BY <2>1, <3>1 DEF StreamInv, ReadsAnswers
    <3>2. CASE d = c
      <4>1. StartsWith(Answers(Segment(0, sent[c] + 1)), Answers(Segment(0, sent[c])))
        BY <2>2, WrittenGrows
      <4>2. Answers(Segment(0, sent[c] + 1)) \in Seq(Answer)
        BY <2>2, WrittenAnswers
      <4>3. InTurn(got[c] \o snd[c], Answers(Segment(0, sent[c])))
            /\ (QueueHoldsAll => StartsWith(Answers(Segment(0, sent[c])), got[c] \o snd[c]))
        BY DEF StreamInv, ReadsAnswers
      <4>4. QueueHoldsAll => StartsWith(Answers(Segment(0, sent[c] + 1)), got[c] \o snd[c])
        BY <1>g, <4>1, <4>2, <4>3, StartsWithTrans
      <4>5. InTurn(got[c] \o snd[c], Answers(Segment(0, sent[c] + 1)))
        BY <1>g, <4>1, <4>2, <4>3, InTurnGrows
      <4> QED BY <2>1, <2>2, <3>2, <4>4, <4>5 DEF ReadsAnswers
    <3> QED BY <3>1, <3>2
  <2> QED BY <2>3, <2>4, <2>5 DEF StreamInv
<1>3. ASSUME NEW c \in Clients, PeerShutdown(c) PROVE StreamInv'
  <2>1. /\ peer[c] = "open" /\ peer'[c] = "fin"
        /\ \A d \in Clients : d # c => peer'[d] = peer[d]
        /\ UNCHANGED <<sent, rcv, snd, got, backlog, owner, inbuf, outbuf>>
    BY <1>t, <1>3 DEF PeerShutdown, TypeOK, heap
  <2>2. \A d \in Clients : (peer'[d] \in Aborted <=> peer[d] \in Aborted)
                           /\ (peer'[d] = "idle" <=> peer[d] = "idle")
    BY <2>1 DEF Aborted
  <2> QED BY <2>1, <2>2 DEF StreamInv, Flows, Fresh, ReadsAnswers, Waits
<1>4. ASSUME NEW c \in Clients, PeerReset(c) PROVE StreamInv'
  <2>1. /\ peer[c] \in {"open", "fin"} /\ peer'[c] \in Aborted /\ snd'[c] = <<>>
        /\ \A d \in Clients : d # c => peer'[d] = peer[d] /\ snd'[d] = snd[d]
        /\ UNCHANGED <<sent, rcv, got, backlog, owner, inbuf, outbuf>>
    BY <1>t, <1>4 DEF PeerReset, TypeOK, heap, Aborted
  <2>2. ASSUME NEW d \in Clients, d # c
        PROVE  Fresh(d)' /\ ReadsAnswers(d)' /\ \A fd \in Fds : Flows(fd, d)'
    BY <2>1, <2>2 DEF StreamInv, Flows, Fresh, ReadsAnswers, Waits
  <2>3. Fresh(c)' /\ \A fd \in Fds : Flows(fd, c)'
    BY <2>1 DEF StreamInv, Flows, Fresh, Waits, Aborted
  <2>4. ReadsAnswers(c)'
    <3>1. StartsWith(got[c] \o snd[c], got[c])
      BY <1>g DEF StartsWith
    <3>2. InTurn(got[c] \o snd[c], Answers(Segment(0, sent[c])))
          /\ (QueueHoldsAll => StartsWith(Answers(Segment(0, sent[c])), got[c] \o snd[c]))
      BY DEF StreamInv, ReadsAnswers
    <3>3. QueueHoldsAll => StartsWith(Answers(Segment(0, sent[c])), got[c])
      BY <1>g, <3>1, <3>2, StartsWithTrans
    <3>4. InTurn(got[c], Answers(Segment(0, sent[c])))
      BY <1>g, <3>2, InTurnPart
    <3>5. got[c] \o <<>> = got[c]
      BY <1>g, ConcatEmptySeq
    <3> QED BY <2>1, <3>3, <3>4, <3>5 DEF ReadsAnswers
  <2>5. \A d \in Clients : sent'[d] <= 2*Quota[d]
    BY <2>1 DEF StreamInv
  <2> QED BY <2>2, <2>3, <2>4, <2>5 DEF StreamInv
<1>5. ASSUME NEW c \in Clients, PeerRead(c) PROVE StreamInv'
  <2>1. /\ snd[c] # <<>> /\ got'[c] = Append(got[c], Head(snd[c])) /\ snd'[c] = Tail(snd[c])
        /\ \A d \in Clients : d # c => got'[d] = got[d] /\ snd'[d] = snd[d]
        /\ UNCHANGED <<peer, sent, rcv, backlog, owner, inbuf, outbuf>>
    BY <1>t, <1>5 DEF PeerRead, TypeOK, heap
  <2>2. \A d \in Clients : got'[d] \o snd'[d] = got[d] \o snd[d]
    <3>1. Append(got[c], Head(snd[c])) \o Tail(snd[c]) = got[c] \o snd[c]
      BY <1>g, <2>1, HeadMoves
    <3> QED BY <2>1, <3>1
  <2>3. ASSUME NEW fd \in Fds, NEW d \in Clients PROVE Flows(fd, d)'
    <3>1. Flows(fd, d) /\ got'[d] \o snd'[d] = got[d] \o snd[d]
      BY <2>2 DEF StreamInv
    <3>2. UNCHANGED <<outbuf, inbuf, rcv, sent, owner, peer>>
      BY <2>1
    <3> QED BY <3>1, <3>2 DEF Flows
  <2>4. \A d \in Clients : Fresh(d)'
    BY <2>1 DEF StreamInv, Fresh, Waits
  <2> QED BY <2>1, <2>2, <2>3, <2>4 DEF StreamInv, ReadsAnswers
<1>6. CASE AcceptOne
  <2> DEFINE h == Head(backlog)
  <2>1. PICK fd \in Free :
          /\ owner' = [owner EXCEPT ![fd] = h]
          /\ inbuf' = [inbuf EXCEPT ![fd] = <<>>]
          /\ outbuf' = [outbuf EXCEPT ![fd] = <<>>]
    BY <1>6 DEF AcceptOne
  <2>2. fd \in Fds /\ UNCHANGED <<peer, sent, got, rcv, snd>>
    BY <1>6, <2>1 DEF AcceptOne, Free
  <2>3. h \in Clients /\ Waits(h) /\ \A d \in Clients : Waits(d)' => Waits(d) /\ d # h
    BY <1>t, <1>6, LeavesBacklog
  <2> HIDE DEF h
  <2>4. /\ owner'[fd] = h /\ inbuf'[fd] = <<>> /\ outbuf'[fd] = <<>>
        /\ \A other \in Fds : other # fd =>
             owner'[other] = owner[other] /\ inbuf'[other] = inbuf[other] /\ outbuf'[other] = outbuf[other]
    BY <1>t, <2>1, <2>2 DEF TypeOK
  <2>5. ASSUME NEW other \in Fds, NEW d \in Clients PROVE Flows(other, d)'
    <3>1. CASE other # fd
      BY <2>2, <2>4, <3>1 DEF StreamInv, Flows
    <3>2. CASE other = fd
      <4>1. SUFFICES ASSUME d = h, peer[h] \notin Aborted
                     PROVE  Carries(got[h] \o snd[h], <<>>, <<>>, rcv[h], sent[h])
        BY <2>2, <2>4, <3>2 DEF Flows
      <4>2. got[h] = <<>> /\ snd[h] = <<>> /\ rcv[h] = Segment(0, sent[h])
        BY <2>3, <4>1 DEF StreamInv, Fresh
      <4>3. sent[h] \in 0..2*Requests
        BY <1>t, <2>3 DEF TypeOK
      <4> QED BY <4>2, <4>3, CarriesNew
    <3> QED BY <3>1, <3>2
  <2>6. \A d \in Clients : Fresh(d)' /\ ReadsAnswers(d)' /\ sent'[d] <= 2*Quota[d]
    BY <2>2, <2>3 DEF StreamInv, Fresh, ReadsAnswers
  <2> QED BY <2>5, <2>6 DEF StreamInv
<1>7. CASE RecvEnd \/ SendError
  <2>1. /\ cur.fd \in Fds \cap events /\ DeleteEvent(cur.fd)
        /\ UNCHANGED <<peer, sent, got, backlog, rcv, snd>>
    BY <1>t, <1>7 DEF RecvEnd, SendError, Core, Shape, HandlerEventLive, peers
  <2>2. /\ owner'[cur.fd] = None
        /\ \A fd \in Fds : fd # cur.fd =>
             owner'[fd] = owner[fd] /\ inbuf'[fd] = inbuf[fd] /\ outbuf'[fd] = outbuf[fd]
    BY <1>t, <2>1 DEF DeleteEvent, TypeOK
  <2>3. ASSUME NEW fd \in Fds, NEW c \in Clients PROVE Flows(fd, c)'
    <3>1. CASE fd = cur.fd
      BY <2>2, <3>1 DEF Flows
    <3>2. CASE fd # cur.fd
      BY <2>1, <2>2, <3>2 DEF StreamInv, Flows
    <3> QED BY <3>1, <3>2
  <2> QED BY <2>1, <2>3 DEF StreamInv, Fresh, ReadsAnswers, Waits
\* The handlers that move bytes or answers of the current connection.
<1>h. ASSUME pc \in {"recv", "process", "send"}
      PROVE  /\ cur.fd \in Fds /\ Conn \in Clients /\ owner[cur.fd] = Conn
             /\ peer[Conn] # "idle" /\ ~ Waits(Conn)
             /\ \A fd \in Fds : fd # cur.fd => owner[fd] # Conn
  <2>1. cur.fd \in Fds /\ owner[cur.fd] # None
    BY <1>t, <1>h DEF Core, Shape, HandlerEventLive, MapMatchesEpoll
  <2>2. Conn \in Clients /\ owner[cur.fd] = Conn
    BY <1>t, <2>1 DEF TypeOK, Conn
  <2> QED BY <1>o, <1>u, <2>1, <2>2
<1>8. CASE RecvChunk
  <2> DEFINE c == Conn
             m == IF Len(rcv[c]) <= OnceSize THEN Len(rcv[c]) ELSE OnceSize
  <2>0. pc = "recv"
    BY <1>8 DEF RecvChunk
  <2>1. /\ inbuf' = [inbuf EXCEPT ![cur.fd] = @ \o SubSeq(rcv[c], 1, m)]
        /\ rcv' = [rcv EXCEPT ![c] = SubSeq(@, m + 1, Len(@))]
        /\ UNCHANGED <<peer, sent, got, backlog, snd, owner, outbuf>>
    BY <1>8 DEF RecvChunk, peers, kernel
  <2>2. m \in 0..Len(rcv[c])
    <3>1. Len(rcv[c]) \in Nat /\ OnceSize \in Nat
      BY <1>h, <1>t, <2>0, LenProperties DEF TypeOK
    <3> QED BY <3>1
  <2>3. cur.fd \in Fds /\ c \in Clients /\ owner[cur.fd] = c
        /\ peer[c] # "idle" /\ ~ Waits(c) /\ \A fd \in Fds : fd # cur.fd => owner[fd] # c
    BY <1>h, <2>0
  <2> HIDE DEF c, m
  <2>4. /\ inbuf'[cur.fd] = inbuf[cur.fd] \o SubSeq(rcv[c], 1, m)
        /\ rcv'[c] = SubSeq(rcv[c], m + 1, Len(rcv[c]))
        /\ \A fd \in Fds : fd # cur.fd => inbuf'[fd] = inbuf[fd]
        /\ \A d \in Clients : d # c => rcv'[d] = rcv[d]
    BY <1>t, <2>1, <2>3 DEF TypeOK
  <2>5. ASSUME NEW fd \in Fds, NEW d \in Clients PROVE Flows(fd, d)'
    <3>1. CASE fd = cur.fd /\ d = c
      <4>1. SUFFICES ASSUME peer[c] \notin Aborted
                     PROVE  Carries(got[c] \o snd[c], outbuf[fd], inbuf'[fd], rcv'[c], sent[c])
        BY <2>1, <3>1 DEF Flows
      <4>2. Carries(got[c] \o snd[c], outbuf[fd], inbuf[fd], rcv[c], sent[c])
        BY <2>3, <3>1, <4>1 DEF StreamInv, Flows
      <4>3. Channel(got[c] \o snd[c], outbuf[fd], inbuf[fd], rcv[c], sent[c])
        BY <1>c, <2>3
      <4>4. Carries(got[c] \o snd[c], outbuf[fd], inbuf[fd] \o SubSeq(rcv[c], 1, m),
                    SubSeq(rcv[c], m + 1, Len(rcv[c])), sent[c])
        BY <2>2, <4>2, <4>3, CarriesReceive
      <4> QED BY <2>4, <3>1, <4>4
    <3>2. CASE ~ (fd = cur.fd /\ d = c)
      <4>1. CASE owner[fd] = d
        <5>1. fd # cur.fd /\ d # c
          BY <2>3, <3>2, <4>1
        <5> QED BY <2>1, <2>4, <5>1 DEF StreamInv, Flows
      <4>2. CASE owner[fd] # d
        BY <2>1, <4>2 DEF Flows
      <4> QED BY <4>1, <4>2
    <3> QED BY <3>1, <3>2
  <2>6. ASSUME NEW d \in Clients PROVE Fresh(d)'
    <3>1. CASE d = c
      BY <2>1, <2>3, <3>1 DEF Fresh, Waits
    <3>2. CASE d # c
      BY <2>1, <2>4, <3>2 DEF StreamInv, Fresh, Waits
    <3> QED BY <3>1, <3>2
  <2>7. \A d \in Clients : ReadsAnswers(d)' /\ sent'[d] <= 2*Quota[d]
    BY <2>1 DEF StreamInv, ReadsAnswers
  <2> QED BY <2>5, <2>6, <2>7 DEF StreamInv
<1>9. CASE Process
  <2>1. /\ pc = "process"
        /\ inbuf' = [inbuf EXCEPT ![cur.fd] = Rest(@)]
        /\ outbuf' = [outbuf EXCEPT ![cur.fd] = outbuf[cur.fd] \o Answers(inbuf[cur.fd])]
        /\ UNCHANGED <<peer, sent, got, backlog, rcv, snd, owner>>
    BY <1>9 DEF Process, peers
  <2>2. /\ cur.fd \in Fds
        /\ inbuf'[cur.fd] = Rest(inbuf[cur.fd])
        /\ outbuf'[cur.fd] = outbuf[cur.fd] \o Answers(inbuf[cur.fd])
        /\ \A fd \in Fds : fd # cur.fd => inbuf'[fd] = inbuf[fd] /\ outbuf'[fd] = outbuf[fd]
    BY <1>h, <1>t, <2>1 DEF TypeOK
  <2>3. ASSUME NEW fd \in Fds, NEW c \in Clients PROVE Flows(fd, c)'
    <3>1. CASE fd = cur.fd
      <4>1. SUFFICES ASSUME owner[fd] = c, peer[c] \notin Aborted
                     PROVE  Carries(got[c] \o snd[c], outbuf'[fd], inbuf'[fd], rcv[c], sent[c])
        BY <2>1 DEF Flows
      <4>2. Carries(got[c] \o snd[c], outbuf[fd], inbuf[fd], rcv[c], sent[c])
        BY <4>1 DEF StreamInv, Flows
      <4>3. Carries(got[c] \o snd[c], outbuf[fd] \o Answers(inbuf[fd]), Rest(inbuf[fd]),
                    rcv[c], sent[c])
        BY <1>c, <4>2, CarriesProcess
      <4> QED BY <2>2, <3>1, <4>3
    <3>2. CASE fd # cur.fd
      BY <2>1, <2>2, <3>2 DEF StreamInv, Flows
    <3> QED BY <3>1, <3>2
  <2> QED BY <2>1, <2>3 DEF StreamInv, Fresh, ReadsAnswers, Waits
<1>10. CASE SendAll
  <2> DEFINE c == Conn
  <2>1. /\ pc = "send" /\ peer[c] \in {"open", "fin"}
        /\ snd' = [snd EXCEPT ![c] = @ \o outbuf[cur.fd]]
        /\ outbuf' = [outbuf EXCEPT ![cur.fd] = <<>>]
        /\ UNCHANGED <<peer, sent, got, backlog, rcv, owner, inbuf>>
    BY <1>10 DEF SendAll, Connected, peers
  <2>2. cur.fd \in Fds /\ c \in Clients /\ owner[cur.fd] = c
        /\ peer[c] # "idle" /\ ~ Waits(c) /\ \A fd \in Fds : fd # cur.fd => owner[fd] # c
    BY <1>h, <2>1
  <2> HIDE DEF c
  <2>3. /\ snd'[c] = snd[c] \o outbuf[cur.fd] /\ outbuf'[cur.fd] = <<>>
        /\ \A fd \in Fds : fd # cur.fd => outbuf'[fd] = outbuf[fd]
        /\ \A d \in Clients : d # c => snd'[d] = snd[d]
    BY <1>t, <2>1, <2>2 DEF TypeOK
  <2>4. Carries(got[c] \o snd[c], outbuf[cur.fd], inbuf[cur.fd], rcv[c], sent[c])
    BY <2>1, <2>2 DEF StreamInv, Flows, Aborted
  <2>a. got[c] \o (snd[c] \o outbuf[cur.fd]) = (got[c] \o snd[c]) \o outbuf[cur.fd]
    <3>1. got[c] \in Seq(Answer) /\ snd[c] \in Seq(Answer) /\ outbuf[cur.fd] \in Seq(Answer)
      BY <1>t, <2>2 DEF TypeOK
    <3> DEFINE g == got[c]
               s == snd[c]
               o == outbuf[cur.fd]
    <3>2. g \in Seq(Answer) /\ s \in Seq(Answer) /\ o \in Seq(Answer)
      BY <3>1
    <3> HIDE DEF g, s, o
    <3>3. g \o (s \o o) = (g \o s) \o o
      BY <3>2, ConcatThree
    <3> QED BY <3>3 DEF g, s, o
  <2>5. ASSUME NEW fd \in Fds, NEW d \in Clients PROVE Flows(fd, d)'
    <3>1. CASE fd = cur.fd /\ d = c
      <4>1. Carries((got[c] \o snd[c]) \o outbuf[cur.fd], <<>>, inbuf[cur.fd], rcv[c], sent[c])
        BY <1>c, <2>2, <2>4, CarriesSend
      <4>2. Carries(got[c] \o snd'[c], outbuf'[cur.fd], inbuf[cur.fd], rcv[c], sent[c])
        BY <2>3, <2>a, <4>1
      <4> QED BY <2>1, <3>1, <4>2 DEF Flows
    <3>2. CASE ~ (fd = cur.fd /\ d = c)
      <4>1. CASE owner[fd] = d
        <5>1. fd # cur.fd /\ d # c
          BY <2>2, <3>2, <4>1
        <5> QED BY <2>1, <2>3, <5>1 DEF StreamInv, Flows
      <4>2. CASE owner[fd] # d
        BY <2>1, <4>2 DEF Flows
      <4> QED BY <4>1, <4>2
    <3> QED BY <3>1, <3>2
  <2>6. ASSUME NEW d \in Clients PROVE Fresh(d)'
    <3>1. CASE d = c
      BY <2>1, <2>2, <3>1 DEF Fresh, Waits
    <3>2. CASE d # c
      BY <2>1, <2>3, <3>2 DEF StreamInv, Fresh, Waits
    <3> QED BY <3>1, <3>2
  <2>7. ASSUME NEW d \in Clients PROVE ReadsAnswers(d)'
    <3>1. CASE d = c
      <4>1. Channel(got[c] \o snd[c], outbuf[cur.fd], inbuf[cur.fd], rcv[c], sent[c])
        BY <1>c, <2>2
      <4>2. QueueHoldsAll =>
              StartsWith(Answers(Segment(0, sent[c])), (got[c] \o snd[c]) \o outbuf[cur.fd])
        BY <2>4, <4>1, CarriesOnce, StreamBounds
      <4>3. InTurn((got[c] \o snd[c]) \o outbuf[cur.fd], Answers(Segment(0, sent[c])))
        <5>1. InTurn(got[c] \o snd[c], Answers(Segment(0, sent[c])))
          BY <2>2 DEF StreamInv, ReadsAnswers
        <5>2. /\ outbuf[cur.fd] \in Seq(Answer)
              /\ Len(outbuf[cur.fd]) \in 0..Len(outbuf[cur.fd])
              /\ SubSeq(outbuf[cur.fd], 1, Len(outbuf[cur.fd])) = outbuf[cur.fd]
          <6>1. outbuf[cur.fd] \in Seq(Answer)
            BY <4>1 DEF Channel
          <6>2. Len(outbuf[cur.fd]) \in Nat
            BY <6>1, LenProperties
          <6>3. Len(outbuf[cur.fd]) \in 0..Len(outbuf[cur.fd])
            BY <6>2
          <6> QED BY <6>1, <6>3, SubSeqFull
        <5> QED BY <2>4, <4>1, <5>1, <5>2, CarriesInTurn
      <4> QED BY <2>1, <2>3, <2>a, <3>1, <4>2, <4>3 DEF ReadsAnswers
    <3>2. CASE d # c
      BY <2>1, <2>3, <3>2 DEF StreamInv, ReadsAnswers
    <3> QED BY <3>1, <3>2
  <2>8. \A d \in Clients : sent'[d] <= 2*Quota[d]
    BY <2>1 DEF StreamInv
  <2> QED BY <2>5, <2>6, <2>7, <2>8 DEF StreamInv
\* A part of the buffer is sent, and all of it stays.
<1>11. CASE SendShort
  <2> DEFINE c == Conn
             o == outbuf[cur.fd]
             m == SndBuf - Len(snd[c])
             w == SubSeq(o, 1, m)
  <2>1. /\ pc = "send" /\ peer[c] \in {"open", "fin"} /\ m > 0 /\ m < Len(o)
        /\ snd' = [snd EXCEPT ![c] = @ \o w]
        /\ UNCHANGED <<peer, sent, got, backlog, rcv, owner, inbuf, outbuf>>
    BY <1>11 DEF SendShort, Connected, Room, peers, kernel, heap
  <2>2. cur.fd \in Fds /\ c \in Clients /\ owner[cur.fd] = c
        /\ peer[c] # "idle" /\ ~ Waits(c) /\ \A fd \in Fds : fd # cur.fd => owner[fd] # c
    BY <1>h, <2>1
  <2>3. /\ o \in Seq(Answer) /\ got[c] \in Seq(Answer) /\ snd[c] \in Seq(Answer)
        /\ Len(o) \in Nat /\ Len(snd[c]) \in Nat /\ Len(got[c]) \in Nat /\ SndBuf \in Nat
    BY <1>t, <2>2, LenProperties DEF TypeOK
  <2>4. Carries(got[c] \o snd[c], o, inbuf[cur.fd], rcv[c], sent[c])
    BY <2>1, <2>2 DEF StreamInv, Flows, Aborted
  <2>5. Channel(got[c] \o snd[c], o, inbuf[cur.fd], rcv[c], sent[c])
    BY <1>c, <2>2
  \* A queue that holds all the answers is never too short for the buffer.
  <2>6. ~ QueueHoldsAll
    <3> SUFFICES ASSUME QueueHoldsAll PROVE FALSE
      OBVIOUS
    <3> DEFINE N == Len(Answers(Segment(0, sent[c])))
               M == Len(Answers(Segment(0, 2*Quota[c])))
    <3>1. Len(got[c] \o snd[c]) + Len(o) <= N
      BY <2>4, <2>5, CarriesOnce, StreamBounds
    <3>2. Len(got[c] \o snd[c]) = Len(got[c]) + Len(snd[c])
      BY <2>3, ConcatProperties
    <3>3. sent[c] \in 0..2*Quota[c]
      <4>1. sent[c] \in Nat /\ sent[c] <= 2*Quota[c] /\ 2*Quota[c] \in Nat
        BY <1>t, <1>q, <2>2 DEF TypeOK, StreamInv
      <4> QED BY <4>1
    <3>4. N <= M
      BY <1>q, <2>2, <3>3, WrittenBound
    <3>5. M <= SndBuf
      <4>1. 2*Quota[c] \in Nat
        BY <1>q, <2>2
      <4>2. Segment(0, 2*Quota[c]) = [i \in 1..2*Quota[c] |-> i]
        BY <4>1, SegmentFromOne
      <4> QED BY <2>2, <4>2 DEF QueueHoldsAll
    <3>6. N \in Nat /\ M \in Nat
      <4>1. Answers(Segment(0, sent[c])) \in Seq(Answer) /\ Answers(Segment(0, 2*Quota[c])) \in Seq(Answer)
        BY <1>g, <1>q, <2>2, WrittenAnswers
      <4> QED BY <4>1, LenProperties
    <3>7. SndBuf - Len(snd[c]) < Len(o)
      BY <2>1
    <3> DEFINE g == Len(got[c])
               s == Len(snd[c])
               k == Len(o)
    <3>8. (g + s) + k <= N /\ g \in Nat /\ s \in Nat /\ k \in Nat /\ SndBuf \in Nat /\ SndBuf - s < k
      BY <2>3, <3>1, <3>2, <3>7
    <3> HIDE DEF N, M, g, s, k
    <3> QED BY ONLY <3>4, <3>5, <3>6, <3>8
  <2>7. m \in 0..Len(o)
    <3>1. m \in Int /\ m > 0 /\ m < Len(o)
      BY <2>1, <2>3
    <3> HIDE DEF m, o
    <3> QED BY <2>3, <3>1
  <2>8. w \in Seq(Answer)
    <3> HIDE DEF m, o
    <3> QED BY <2>3, <2>7, SeqFacts
  <2> HIDE DEF c, o, m, w
  <2>9. snd'[c] = snd[c] \o w /\ \A d \in Clients : d # c => snd'[d] = snd[d]
    BY <1>t, <2>1, <2>2 DEF TypeOK
  <2>10. got[c] \o (snd[c] \o w) = (got[c] \o snd[c]) \o w
    <3>1. got[c] \in Seq(Answer) /\ snd[c] \in Seq(Answer) /\ w \in Seq(Answer)
      BY <2>3, <2>8
    <3> DEFINE g == got[c]
               s == snd[c]
    <3>2. g \in Seq(Answer) /\ s \in Seq(Answer)
      BY <3>1
    <3> HIDE DEF g, s
    <3>3. g \o (s \o w) = (g \o s) \o w
      BY <2>8, <3>2, ConcatThree
    <3> QED BY <3>3 DEF g, s
  <2>11. ASSUME NEW fd \in Fds, NEW d \in Clients PROVE Flows(fd, d)'
    <3>1. CASE fd = cur.fd /\ d = c
      <4>1. Carries((got[c] \o snd[c]) \o w, o, inbuf[cur.fd], rcv[c], sent[c])
        BY <2>4, <2>5, <2>6, <2>8, CarriesShort
      <4> QED BY <2>1, <2>9, <2>10, <3>1, <4>1 DEF Flows, o
    <3>2. CASE ~ (fd = cur.fd /\ d = c)
      <4>1. CASE owner[fd] = d
        <5>1. fd # cur.fd /\ d # c
          BY <2>2, <3>2, <4>1
        <5> QED BY <2>1, <2>9, <5>1 DEF StreamInv, Flows
      <4>2. CASE owner[fd] # d
        BY <2>1, <4>2 DEF Flows
      <4> QED BY <4>1, <4>2
    <3> QED BY <3>1, <3>2
  <2>12. ASSUME NEW d \in Clients PROVE Fresh(d)'
    <3>1. CASE d = c
      BY <2>1, <2>2, <3>1 DEF Fresh, Waits
    <3>2. CASE d # c
      BY <2>1, <2>9, <3>2 DEF StreamInv, Fresh, Waits
    <3> QED BY <3>1, <3>2
  <2>13. ASSUME NEW d \in Clients PROVE ReadsAnswers(d)'
    <3>1. CASE d = c
      <4>1. InTurn(got[c] \o snd[c], Answers(Segment(0, sent[c])))
        BY <2>2 DEF StreamInv, ReadsAnswers
      <4>2. InTurn((got[c] \o snd[c]) \o w, Answers(Segment(0, sent[c])))
        BY <2>4, <2>5, <2>7, <4>1, CarriesInTurn DEF w
      <4>3. (~ QueueHoldsAll)'
        BY <2>6 DEF QueueHoldsAll
      <4> QED BY <2>1, <2>6, <2>9, <2>10, <3>1, <4>2, <4>3 DEF ReadsAnswers
    <3>2. CASE d # c
      BY <2>1, <2>9, <3>2 DEF StreamInv, ReadsAnswers
    <3> QED BY <3>1, <3>2
  <2>14. \A d \in Clients : sent'[d] <= 2*Quota[d]
    BY <2>1 DEF StreamInv
  <2> QED BY <2>11, <2>12, <2>13, <2>14 DEF StreamInv
<1>12. CASE EpollWait \/ EpollTimeout \/ DispatchRead \/ DispatchWrite \/ AcceptDone
              \/ AcceptError \/ InsertEvent \/ RecvDrained \/ SendFull \/ UNCHANGED vars
  <2>1. UNCHANGED <<peer, sent, got, backlog, rcv, snd, owner, inbuf, outbuf>>
    BY <1>12 DEF EpollWait, EpollTimeout, DispatchRead, DispatchWrite, AcceptDone, AcceptError,
                 InsertEvent, RecvDrained, SendFull, vars, peers, kernel, heap
  <2> QED BY <1>f, <2>1
\* The end of the process leaves the clients what they can read.
<1>13. CASE SendKilled
  <2>1. /\ UNCHANGED <<peer, sent, got, rcv, snd>>
        /\ backlog' = <<>> /\ \A fd \in Fds : owner'[fd] = None
    BY <1>13 DEF SendKilled
  <2>2. \A c \in Clients : ~ Waits(c)'
    BY <2>1 DEF Waits
  <2>3. \A fd \in Fds, c \in Clients : Flows(fd, c)'
    BY <2>1 DEF Flows
  <2>4. \A c \in Clients : Fresh(c)' /\ ReadsAnswers(c)' /\ sent'[c] <= 2*Quota[c]
    BY <2>1, <2>2 DEF StreamInv, Fresh, ReadsAnswers
  <2> QED BY <2>3, <2>4 DEF StreamInv
<1> QED
  BY <1>1, <1>2, <1>3, <1>4, <1>5, <1>6, <1>7, <1>8, <1>9, <1>10, <1>11, <1>12, <1>13
     DEF Next, Server, Handler, Peer

LEMMA StreamAlways == Spec => []StreamInv
<1> USE ConstantsAssumption
<1>1. ASSUME Init PROVE StreamInv
  <2>1. \A fd \in Fds : owner[fd] = None
    BY <1>1 DEF Init
  <2>2. \A fd \in Fds, c \in Clients : Flows(fd, c)
    BY <2>1 DEF Flows
  <2>3. ASSUME NEW c \in Clients PROVE Fresh(c) /\ ReadsAnswers(c) /\ sent[c] <= 2*Quota[c]
    <3>1. got[c] = <<>> /\ snd[c] = <<>> /\ rcv[c] = <<>> /\ sent[c] = 0 /\ Quota[c] \in 0..Requests
      BY <1>1 DEF Init
    <3>2. Segment(0, 0) = <<>> /\ 0 \in 0..2*Requests
      <4>1. 0 \in 0..2*Requests /\ 0 \in 0..0 /\ 0 - 0 = 0
        OBVIOUS
      <4>2. Segment(0, 0) \in Seq(Byte) /\ Len(Segment(0, 0)) = 0
        BY <4>1, SegmentFacts
      <4> QED BY <4>1, <4>2, EmptySeq
    <3>3. <<>> \in Seq(Answer) /\ <<>> \o <<>> = <<>>
      <4>1. <<>> \in Seq(Answer)
        BY EmptySeq
      <4> QED BY <4>1, ConcatEmptySeq
    <3>4. StartsWith(Answers(Segment(0, 0)), <<>>)
      BY <3>2, <3>3, AnswersEmpty, StartsWithItself
    <3>5. 0 <= 2*Quota[c]
      BY <3>1
    <3>6. InTurn(<<>>, Answers(Segment(0, 0)))
      <4>1. DOMAIN <<>> = {}
        OBVIOUS
      <4> QED BY <4>1 DEF InTurn
    <3> QED BY <3>1, <3>2, <3>3, <3>4, <3>5, <3>6 DEF Fresh, ReadsAnswers
  <2> QED BY <2>2, <2>3 DEF StreamInv
<1>2. Init => StreamInv
  BY <1>1
<1>3. Safe /\ OnePlace /\ StreamInv /\ [Next]_vars => StreamInv'
  BY StreamStep
<1> QED BY <1>2, <1>3, OnePlaceAlways, SafeAlways, PTL DEF Spec

\* As long as a send queue has room for all the bytes of the answers a client
\* asks for, so that send() never takes a part of the buffer, no answer is lost,
\* repeated or reordered between the client's requests and what it reads:
\* SplitSegment, the reads in pieces of ONCE_SIZE, the output buffer and the
\* send queue pass on exactly what was asked.
THEOREM NoAnswerLostOrRepeated ==
  ASSUME QueueHoldsAll
  PROVE  Spec => []Conservation
<1>1. Safe /\ StreamInv => Conservation
  <2> SUFFICES ASSUME Safe, StreamInv, NEW fd \in Fds, fd \in events, peer[owner[fd]] \notin Aborted
               PROVE  LET c == owner[fd]
                      IN  got[c] \o snd[c] \o outbuf[fd] \o Answers(inbuf[fd] \o rcv[c])
                            = Answers(Written(c))
    BY DEF Conservation
  <2>1. owner[fd] \in Clients
    BY DEF Safe, TypeOK, MapMatchesEpoll
  <2>2. Stream(got[owner[fd]] \o snd[owner[fd]], outbuf[fd], inbuf[fd], rcv[owner[fd]], sent[owner[fd]])
    BY <2>1 DEF StreamInv, Flows, Carries
  <2>3. Segment(0, sent[owner[fd]]) = Written(owner[fd])
    BY <2>1, SegmentFromOne DEF Safe, TypeOK, Written
  <2> QED BY <2>2, <2>3 DEF Stream
<1> QED BY <1>1, StreamAlways, SafeAlways, PTL

\* Under the same condition, and with no condition on how or when the client
\* ends or aborts the connection, what a client has read is a prefix of the
\* answers to what it has written: each once, in the order of the requests.
THEOREM AnswersComeInOrder ==
  ASSUME QueueHoldsAll
  PROVE  Spec => []AnswersInOrder
<1>1. Safe /\ StreamInv => AnswersInOrder
  <2> SUFFICES ASSUME Safe, StreamInv, NEW c \in Clients
               PROVE  /\ Len(got[c]) <= Len(Answers(Written(c)))
                      /\ got[c] = SubSeq(Answers(Written(c)), 1, Len(got[c]))
    BY DEF AnswersInOrder
  <2>1. sent[c] \in 0..2*Requests /\ sent[c] \in Nat /\ got[c] \in Seq(Answer) /\ snd[c] \in Seq(Answer)
    BY ConstantsAssumption DEF Safe, TypeOK
  <2>2. Segment(0, sent[c]) = Written(c)
    BY <2>1, SegmentFromOne DEF Written
  <2>3. Answers(Written(c)) \in Seq(Answer) /\ got[c] \o snd[c] \in Seq(Answer)
    BY <2>1, <2>2, WrittenAnswers, ConcatProperties
  <2>4. StartsWith(Answers(Written(c)), got[c] \o snd[c])
    BY <2>2 DEF StreamInv, ReadsAnswers
  <2>5. StartsWith(got[c] \o snd[c], got[c])
    BY <2>1 DEF StartsWith
  <2>6. StartsWith(Answers(Written(c)), got[c])
    BY <2>1, <2>3, <2>4, <2>5, StartsWithTrans
  <2> QED BY <2>1, <2>3, <2>6, StartsWithSubSeq
<1> QED BY <1>1, StreamAlways, SafeAlways, PTL

\* With no condition on the send queue: what is left of the two theorems above
\* when short sends make SenderCore repeat a part of its buffer.  A client reads
\* every byte of the answers only after all that come before it, so that one
\* that skips the bytes it has read before has the answers in order, and on a
\* live connection none of them is lost.  Nothing is said of a client that takes
\* the bytes as they come: the repeated part may start in the middle of an
\* answer, and two texts then run into one.
THEOREM AnswersAreInTurn == Spec => []AnswersInTurn
<1>1. Safe /\ StreamInv => AnswersInTurn
  <2> SUFFICES ASSUME Safe, StreamInv PROVE AnswersInTurn
    OBVIOUS
  <2>1. ASSUME NEW c \in Clients PROVE Segment(0, sent[c]) = Written(c)
    BY SegmentFromOne DEF Safe, TypeOK, Written
  <2>2. \A c \in Clients : InTurn(got[c] \o snd[c], Answers(Written(c)))
    BY <2>1 DEF StreamInv, ReadsAnswers
  <2>3. ASSUME NEW fd \in Fds, fd \in events, peer[owner[fd]] \notin Aborted
        PROVE  LET c == owner[fd]
               IN  Range(Answers(Written(c))) \subseteq
                     Range(got[c] \o snd[c] \o outbuf[fd] \o Answers(inbuf[fd] \o rcv[c]))
    <3> DEFINE c == owner[fd]
    <3>1. c \in Clients
      BY <2>3 DEF Safe, TypeOK, MapMatchesEpoll
    <3> HIDE DEF c
    <3>2. Carries(got[c] \o snd[c], outbuf[fd], inbuf[fd], rcv[c], sent[c])
      BY <2>3, <3>1 DEF StreamInv, Flows, c
    <3>3. Channel(got[c] \o snd[c], outbuf[fd], inbuf[fd], rcv[c], sent[c])
      <4>1. /\ got[c] \in Seq(Answer) /\ snd[c] \in Seq(Answer) /\ outbuf[fd] \in Seq(Answer)
            /\ inbuf[fd] \in Seq(Byte) /\ rcv[c] \in Seq(Byte) /\ sent[c] \in 0..2*Requests
        BY <3>1 DEF Safe, TypeOK
      <4>2. got[c] \o snd[c] \in Seq(Answer)
        BY <4>1, ConcatProperties
      <4> QED BY <4>1, <4>2 DEF Channel
    <3>4. Range(Answers(Segment(0, sent[c]))) \subseteq
            Range((got[c] \o snd[c]) \o outbuf[fd] \o Answers(inbuf[fd] \o rcv[c]))
      BY <3>2, <3>3, CarriesAll
    <3> QED BY <2>1, <3>1, <3>4 DEF c
  <2> QED BY <2>2, <2>3 DEF AnswersInTurn
<1> QED BY <1>1, StreamAlways, SafeAlways, PTL
=============================================================================
