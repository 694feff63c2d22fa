------------------------------- MODULE Reactor -------------------------------
(***************************************************************************)
(* The single-threaded, edge-triggered epoll server of Reactor/: the       *)
(* Reactor object (Reactor.hpp), the connection manager (Accepter.hpp),    *)
(* the read, write and error callbacks (Service.hpp) and the main loop     *)
(* (epoll_server.cc).                                                      *)
(*                                                                         *)
(* A step of the server is one system call with the thread-local code up   *)
(* to the next one; the clients and the kernel act between any two steps.  *)
(* The kernel part (sockets, descriptor table, epoll) is external: it is   *)
(* modelled from how the server uses it.                                   *)
(*                                                                         *)
(* Data.  A client writes its requests one after the other; request n is   *)
(* the two bytes 2n-1 (its text) and 2n (the separator 'X').  The answer   *)
(* to request n is two bytes as well, 2n-1 (its beginning) and 2n (the     *)
(* rest, with the separator), so that send may cut inside an answer.  A    *)
(* request in Malformed has no '+'.                                        *)
(*                                                                         *)
(* A definition marked "Mutation" is a wrong variant of the definition     *)
(* that follows it; it is no part of the specification and shows which     *)
(* mistake in the code a property of this module would catch.              *)
(***************************************************************************)
EXTENDS Integers, Sequences, FiniteSets, Functions

CONSTANTS
  Clients,      \* the peers; each connects once
  Fds,          \* descriptor numbers accept() may return (the process limit)
  Listen,       \* the listening descriptor
  None,
  Requests,     \* most requests a client writes
  Quota,        \* number of requests each client writes
  Malformed,    \* requests without '+', which Deserialize rejects
  OnceSize,     \* ONCE_SIZE: most bytes one recv returns
  SndBuf,       \* room of a socket's send queue, in bytes
  NumRevs,      \* NUM: most events one epoll_wait returns
  Backlog,      \* length of the queue of connections not accepted yet
  NonBlocking,  \* do accepted descriptors carry O_NONBLOCK?
  AcceptFails,  \* may accept fail although a connection is waiting?
  Closers,      \* clients that may shut down their side (FIN)
  Resetters,    \* clients that may abort the connection (RST)
  AddFaults,    \* bound on failing EPOLL_CTL_ADD calls
  MaxReads      \* bound on the bytes a client reads

ASSUME ConstantsAssumption ==
  /\ Fds \subseteq Nat
  /\ Listen \notin Fds
  /\ None \notin Clients /\ None \notin Fds /\ None # Listen
  /\ Requests \in Nat /\ Malformed \subseteq 1..Requests
  /\ Quota \in [Clients -> 0..Requests]
  /\ OnceSize \in Nat \ {0}
  /\ SndBuf \in Nat \ {0}
  /\ NumRevs \in Nat \ {0}
  /\ Backlog \in Nat \ {0}
  /\ NonBlocking \in BOOLEAN /\ AcceptFails \in BOOLEAN
  /\ Closers \subseteq Clients /\ Resetters \subseteq Clients
  /\ AddFaults \in Nat /\ MaxReads \in Nat

VARIABLES
  \* the clients and their sockets
  peer,     \* state of each client's side of its connection
  sent,     \* number of bytes each client has written
  rcv,      \* bytes in the receive queue of each connection
  snd,      \* bytes in the send queue of each connection
  got,      \* bytes each client has read
  backlog,  \* connections waiting for accept
  missed,   \* has accept failed with some waiting, and nobody connected since?
  \* the descriptor table and the epoll instance
  owner,    \* connection behind each open descriptor, None if it is closed
  epoll,    \* interest mask of each descriptor, {} if it is not registered
  ready,    \* descriptors on the ready list
  \* the Reactor object
  events,   \* keys of the map Reactor::events
  inbuf,    \* Event::inbuffer
  outbuf,   \* Event::outbuffer
  \* the thread
  pc,
  batch,    \* events of revs[] the loop of Dispatcher has not reached yet
  cur,      \* the event it is handling
  newfd,    \* descriptor accepted and not inserted yet
  faults    \* failed EPOLL_CTL_ADD calls so far

peers  == <<peer, sent, got, backlog, missed>>
kernel == <<owner, epoll, ready>>
heap   == <<events, inbuf, outbuf>>
thread == <<pc, batch, cur, newfd, faults>>
vars   == <<peers, rcv, snd, kernel, heap, thread>>

Byte   == 1 .. 2*Requests
Answer == Byte
AllFds == Fds \cup {Listen}
Mask   == SUBSET {"IN", "OUT", "ERR", "ET"}
Entry  == [fd : AllFds, ev : Mask, conn : Clients \cup {None}]

Init ==
  /\ peer = [c \in Clients |-> "idle"]
  /\ sent = [c \in Clients |-> 0]
  /\ rcv = [c \in Clients |-> <<>>]
  /\ snd = [c \in Clients |-> <<>>]
  /\ got = [c \in Clients |-> <<>>]
  /\ backlog = <<>>
  /\ missed = FALSE
  /\ owner = [fd \in Fds |-> None]
  /\ epoll = [fd \in AllFds |-> IF fd = Listen THEN {"IN", "ET"} ELSE {}]
  /\ ready = {}
  /\ events = {Listen}
  /\ inbuf = [fd \in Fds |-> <<>>]
  /\ outbuf = [fd \in Fds |-> <<>>]
  /\ pc = "loop"
  /\ batch = {}
  /\ cur = None
  /\ newfd = None
  /\ faults = 0
-----------------------------------------------------------------------------
(***************************************************************************)
(* The messages: SplitSegment, Deserialize and the answers Recver builds.  *)
(***************************************************************************)
IsSep(b) == b % 2 = 0

\* Does s[n] end a request that Deserialize accepts?  It is a separator, and
\* the text before it is there.
IsValidEnd(s, n) ==
  /\ IsSep(s[n])
  /\ n > 1 /\ s[n-1] = s[n] - 1
  /\ (s[n] \div 2) \notin Malformed

\* Mutation: the incomplete request at the end is dropped.
RestNothing(s) == <<>>

\* What SplitSegment leaves in the buffer: the bytes after the last separator.
Rest(s) ==
  LET seps == {i \in DOMAIN s : IsSep(s[i])}
  IN  IF seps = {} THEN s
      ELSE LET last == CHOOSE i \in seps : \A j \in seps : j <= i
           IN  SubSeq(s, last + 1, Len(s))

\* The answer to the request that ends with the separator b.
Reply(b) == <<b - 1, b>>

\* One answer for each complete request that Deserialize accepts, in order.
Answers(s) ==
  LET upTo[n \in 0..Len(s)] ==
        IF n = 0 THEN <<>>
        ELSE IF IsValidEnd(s, n) THEN upTo[n-1] \o Reply(s[n])
        ELSE upTo[n-1]
  IN  upTo[Len(s)]
-----------------------------------------------------------------------------
(***************************************************************************)
(* The kernel: level of a descriptor, wake-ups, epoll_ctl.                 *)
(***************************************************************************)
Aborted == {"reset", "broken"}

SockLevel(received, queued, state) ==
  (IF received # <<>> \/ state # "open" THEN {"IN"} ELSE {})
    \cup (IF Len(queued) < SndBuf \/ state \in Aborted THEN {"OUT"} ELSE {})
    \cup (IF state \in Aborted THEN {"ERR"} ELSE {})

Level(fd) ==
  IF fd = Listen THEN IF backlog # <<>> THEN {"IN"} ELSE {}
                 ELSE SockLevel(rcv[owner[fd]], snd[owner[fd]], peer[owner[fd]])

\* An error is reported whether or not the mask asks for it.
Reported(fd) == Level(fd) \cap (epoll[fd] \cup {"ERR"})

\* The wake-up callback of client c's socket for the conditions in evs.
Wake(c, evs) ==
  ready' = ready \cup
    {fd \in Fds : /\ owner[fd] = c
                  /\ epoll[fd] # {}
                  /\ (epoll[fd] \cup {"ERR"}) \cap evs # {}}

\* epoll_ctl ADD or MOD: a condition that already holds puts the descriptor
\* on the ready list again.
EpollCtl(fd, mask, level) ==
  /\ epoll' = [epoll EXCEPT ![fd] = mask]
  /\ ready' = IF level \cap (mask \cup {"ERR"}) # {} THEN ready \cup {fd} ELSE ready
-----------------------------------------------------------------------------
(***************************************************************************)
(* The clients.                                                            *)
(***************************************************************************)
Connect(c) ==
  /\ pc # "killed"
  /\ peer[c] = "idle"
  /\ Len(backlog) < Backlog
  /\ peer' = [peer EXCEPT ![c] = "open"]
  /\ backlog' = Append(backlog, c)
  /\ missed' = FALSE
  /\ ready' = ready \cup {Listen}
  /\ UNCHANGED <<sent, rcv, snd, got, owner, epoll, heap, thread>>

PeerSend(c) ==
  /\ peer[c] = "open"
  /\ sent[c] < 2*Quota[c]
  /\ sent' = [sent EXCEPT ![c] = @ + 1]
  /\ rcv' = [rcv EXCEPT ![c] = Append(@, sent[c] + 1)]
  /\ Wake(c, {"IN"})
  /\ UNCHANGED <<peer, snd, got, backlog, missed, owner, epoll, heap, thread>>

PeerShutdown(c) ==
  /\ c \in Closers
  /\ peer[c] = "open"
  /\ peer' = [peer EXCEPT ![c] = "fin"]
  /\ Wake(c, {"IN"})
  /\ UNCHANGED <<sent, rcv, snd, got, backlog, missed, owner, epoll, heap, thread>>

\* A reset that follows the client's FIN leaves the socket "broken": its
\* pending error is EPIPE and a send on it raises SIGPIPE.
PeerReset(c) ==
  /\ c \in Resetters
  /\ \/ peer[c] = "open" /\ peer' = [peer EXCEPT ![c] = "reset"]
     \/ peer[c] = "fin"  /\ peer' = [peer EXCEPT ![c] = "broken"]
  /\ snd' = [snd EXCEPT ![c] = <<>>]
  /\ Wake(c, {"IN", "OUT", "ERR"})
  /\ UNCHANGED <<sent, rcv, got, backlog, missed, owner, epoll, heap, thread>>

PeerRead(c) ==
  /\ peer[c] \in {"open", "fin"}
  /\ snd[c] # <<>>
  /\ Len(got[c]) < MaxReads
  /\ got' = [got EXCEPT ![c] = Append(@, Head(snd[c]))]
  /\ snd' = [snd EXCEPT ![c] = Tail(@)]
  /\ IF Len(snd[c]) = SndBuf THEN Wake(c, {"OUT"}) ELSE UNCHANGED ready
  /\ UNCHANGED <<peer, sent, rcv, backlog, missed, owner, epoll, heap, thread>>
-----------------------------------------------------------------------------
(***************************************************************************)
(* The Reactor object.                                                     *)
(***************************************************************************)
\* Mutation: no look-up before a callback.
IsSockOkAlways(fd) == TRUE

IsSockOk(fd) == fd \in events

\* Mutation: write events are never switched off.
EnableRWSticky(fd, read, write, level) ==
  EpollCtl(fd, {"ET", "OUT"} \cup (IF read THEN {"IN"} ELSE {}), level)

\* The level is the one the descriptor has after the step.
EnableRW(fd, read, write, level) ==
  EpollCtl(fd, {"ET"} \cup (IF read THEN {"IN"} ELSE {})
                      \cup (IF write THEN {"OUT"} ELSE {}), level)

\* Mutation: without EPOLL_CTL_DEL (another process still holds the socket).
DeleteEventNoDel(fd) ==
  IF fd \in events
  THEN /\ events' = events \ {fd}
       /\ owner' = [owner EXCEPT ![fd] = None]
       /\ inbuf' = [inbuf EXCEPT ![fd] = <<>>]
       /\ outbuf' = [outbuf EXCEPT ![fd] = <<>>]
       /\ UNCHANGED <<epoll, ready>>
  ELSE UNCHANGED <<kernel, heap>>

\* Mutation: without close.
DeleteEventNoClose(fd) ==
  IF fd \in events
  THEN /\ epoll' = [epoll EXCEPT ![fd] = {}]
       /\ ready' = ready \ {fd}
       /\ events' = events \ {fd}
       /\ inbuf' = [inbuf EXCEPT ![fd] = <<>>]
       /\ outbuf' = [outbuf EXCEPT ![fd] = <<>>]
       /\ UNCHANGED owner
  ELSE UNCHANGED <<kernel, heap>>

\* epoll_ctl DEL, erase from the map, close, delete the Event.
DeleteEvent(fd) ==
  IF fd \in events
  THEN /\ epoll' = [epoll EXCEPT ![fd] = {}]
       /\ ready' = ready \ {fd}
       /\ events' = events \ {fd}
       /\ owner' = [owner EXCEPT ![fd] = None]
       /\ inbuf' = [inbuf EXCEPT ![fd] = <<>>]
       /\ outbuf' = [outbuf EXCEPT ![fd] = <<>>]
  ELSE UNCHANGED <<kernel, heap>>

\* Mutation: Accepter accepts one connection per event.
InsertEventLast ==
  /\ pc = "insert"
  /\ pc' = "write"
  /\ newfd' = None
  /\ EpollCtl(newfd, {"IN", "ET"}, Level(newfd))
  /\ events' = events \cup {newfd}
  /\ UNCHANGED <<peers, rcv, snd, owner, inbuf, outbuf, batch, cur, faults>>

\* InsertEvent of the descriptor just accepted; its result is ignored.
InsertEvent ==
  /\ pc = "insert"
  /\ pc' = "accept"
  /\ newfd' = None
  /\ \/ /\ EpollCtl(newfd, {"IN", "ET"}, Level(newfd))
        /\ events' = events \cup {newfd}
        /\ UNCHANGED faults
     \/ /\ faults < AddFaults
        /\ faults' = faults + 1
        /\ UNCHANGED <<epoll, ready, events>>
  /\ UNCHANGED <<peers, rcv, snd, owner, inbuf, outbuf, batch, cur>>
-----------------------------------------------------------------------------
(***************************************************************************)
(* Dispatcher.                                                             *)
(***************************************************************************)
\* Errors are turned into read and write events, for the callbacks to meet.
Promote(ev) == IF "ERR" \in ev THEN ev \cup {"IN", "OUT"} ELSE ev

EntryOf(fd) ==
  [fd |-> fd, ev |-> Promote(Reported(fd)),
   conn |-> IF fd = Listen THEN None ELSE owner[fd]]

EpollWait ==
  /\ pc = "loop" /\ batch = {}
  /\ \E taken \in SUBSET ready :
       /\ taken # {}
       /\ Cardinality(taken) <= NumRevs
       /\ taken = ready \/ Cardinality(taken) = NumRevs
       /\ batch' = {EntryOf(fd) : fd \in {f \in taken : Reported(f) # {}}}
       /\ ready' = ready \ taken
  /\ UNCHANGED <<peers, rcv, snd, owner, epoll, heap, pc, cur, newfd, faults>>

EpollTimeout ==
  /\ pc = "loop" /\ batch = {} /\ ready = {}
  /\ UNCHANGED vars

\* The next event and its read part: Accepter for the listening descriptor,
\* Recver for a connection.
DispatchRead ==
  /\ pc = "loop"
  /\ \E e \in batch :
       /\ cur' = e
       /\ batch' = batch \ {e}
       /\ pc' = IF "IN" \in e.ev /\ IsSockOk(e.fd)
                THEN IF e.fd = Listen THEN "accept" ELSE "recv"
                ELSE "write"
  /\ UNCHANGED <<peers, rcv, snd, kernel, heap, newfd, faults>>

\* The write part: the listening descriptor has no sender.
DispatchWrite ==
  /\ pc = "write"
  /\ IF "OUT" \in cur.ev /\ IsSockOk(cur.fd) /\ cur.fd # Listen
     THEN pc' = "send" /\ UNCHANGED cur
     ELSE pc' = "loop" /\ cur' = None
  /\ UNCHANGED <<peers, rcv, snd, kernel, heap, batch, newfd, faults>>
-----------------------------------------------------------------------------
(***************************************************************************)
(* Accepter.                                                               *)
(***************************************************************************)
Free == {fd \in Fds : owner[fd] = None}

\* accept() returns the lowest free descriptor; the new Event is not in the
\* map yet.
AcceptOne ==
  /\ pc = "accept"
  /\ backlog # <<>>
  /\ \E fd \in Free :
       /\ \A other \in Free : fd <= other
       /\ owner' = [owner EXCEPT ![fd] = Head(backlog)]
       /\ newfd' = fd
       /\ inbuf' = [inbuf EXCEPT ![fd] = <<>>]
       /\ outbuf' = [outbuf EXCEPT ![fd] = <<>>]
  /\ backlog' = Tail(backlog)
  /\ pc' = "insert"
  /\ UNCHANGED <<peer, sent, got, missed, rcv, snd, epoll, ready, events, batch, cur, faults>>

\* "Accept Done!": nothing is waiting.
AcceptDone ==
  /\ pc = "accept"
  /\ backlog = <<>>
  /\ pc' = "write"
  /\ UNCHANGED <<peers, rcv, snd, kernel, heap, batch, cur, newfd, faults>>

\* The loop does not look at errno: it ends as well when accept fails for want
\* of a descriptor (EMFILE) or for another reason.
AcceptError ==
  /\ pc = "accept"
  /\ backlog # <<>>
  /\ Free = {} \/ AcceptFails
  /\ missed' = TRUE
  /\ pc' = "write"
  /\ UNCHANGED <<peer, sent, got, backlog, rcv, snd, kernel, heap, batch, cur, newfd, faults>>
-----------------------------------------------------------------------------
(***************************************************************************)
(* Recver and RecverCore.                                                  *)
(***************************************************************************)
Conn == owner[cur.fd]

\* Mutation: one recv per event, as under level triggering.
RecvChunkOnce ==
  /\ pc = "recv"
  /\ rcv[Conn] # <<>>
  /\ LET n == IF Len(rcv[Conn]) <= OnceSize THEN Len(rcv[Conn]) ELSE OnceSize
     IN  /\ inbuf' = [inbuf EXCEPT ![cur.fd] = @ \o SubSeq(rcv[Conn], 1, n)]
         /\ rcv' = [rcv EXCEPT ![Conn] = SubSeq(@, n + 1, Len(@))]
  /\ pc' = "process"
  /\ UNCHANGED <<peers, snd, kernel, events, outbuf, batch, cur, newfd, faults>>

RecvChunk ==
  /\ pc = "recv"
  /\ rcv[Conn] # <<>>
  /\ LET n == IF Len(rcv[Conn]) <= OnceSize THEN Len(rcv[Conn]) ELSE OnceSize
     IN  /\ inbuf' = [inbuf EXCEPT ![cur.fd] = @ \o SubSeq(rcv[Conn], 1, n)]
         /\ rcv' = [rcv EXCEPT ![Conn] = SubSeq(@, n + 1, Len(@))]
  /\ UNCHANGED <<peers, snd, kernel, events, outbuf, thread>>

\* Mutation: EAGAIN is taken for an error.
RecvDrainedError ==
  /\ pc = "recv"
  /\ rcv[Conn] = <<>> /\ peer[Conn] = "open"
  /\ NonBlocking
  /\ DeleteEvent(cur.fd)
  /\ pc' = "write"
  /\ UNCHANGED <<peers, rcv, snd, batch, cur, newfd, faults>>

\* EAGAIN: this round has read everything.  A blocking recv waits instead.
RecvDrained ==
  /\ pc = "recv"
  /\ rcv[Conn] = <<>> /\ peer[Conn] = "open"
  /\ NonBlocking
  /\ pc' = "process"
  /\ UNCHANGED <<peers, rcv, snd, kernel, heap, batch, cur, newfd, faults>>

\* recv returns 0 (FIN) or fails (RST): the error callback deletes the event.
RecvEnd ==
  /\ pc = "recv"
  /\ rcv[Conn] = <<>> /\ peer[Conn] # "open"
  /\ DeleteEvent(cur.fd)
  /\ pc' = "write"
  /\ UNCHANGED <<peers, rcv, snd, batch, cur, newfd, faults>>

\* Mutation: write events are not asked for.
ProcessSilent ==
  /\ pc = "process"
  /\ inbuf' = [inbuf EXCEPT ![cur.fd] = Rest(@)]
  /\ outbuf' = [outbuf EXCEPT ![cur.fd] = @ \o Answers(inbuf[cur.fd])]
  /\ pc' = "write"
  /\ UNCHANGED <<peers, rcv, snd, kernel, events, batch, cur, newfd, faults>>

\* Split, deserialize, answer; ask for write events if there is anything to
\* write.
Process ==
  /\ pc = "process"
  /\ LET out == outbuf[cur.fd] \o Answers(inbuf[cur.fd])
     IN  /\ inbuf' = [inbuf EXCEPT ![cur.fd] = Rest(@)]
         /\ outbuf' = [outbuf EXCEPT ![cur.fd] = out]
         /\ IF out # <<>> THEN EnableRW(cur.fd, TRUE, TRUE, Level(cur.fd))
                          ELSE UNCHANGED <<epoll, ready>>
  /\ pc' = "write"
  /\ UNCHANGED <<peers, rcv, snd, owner, events, batch, cur, newfd, faults>>
-----------------------------------------------------------------------------
(***************************************************************************)
(* Sender and SenderCore.                                                  *)
(***************************************************************************)
Room == SndBuf - Len(snd[Conn])
Connected == peer[Conn] \in {"open", "fin"}

\* The kernel takes the whole buffer: clear it, stop asking for write events.
SendAll ==
  /\ pc = "send" /\ Connected
  /\ Len(outbuf[cur.fd]) \in 1..Room
  /\ snd' = [snd EXCEPT ![Conn] = @ \o outbuf[cur.fd]]
  /\ outbuf' = [outbuf EXCEPT ![cur.fd] = <<>>]
  /\ EnableRW(cur.fd, TRUE, FALSE, SockLevel(rcv[Conn], snd'[Conn], peer[Conn]))
  /\ pc' = "loop" /\ cur' = None
  /\ UNCHANGED <<peers, rcv, owner, events, inbuf, batch, newfd, faults>>

\* Mutation: the buffer is cleared although the kernel took a part of it.
SendShortDrop ==
  /\ pc = "send" /\ Connected
  /\ Room > 0 /\ Room < Len(outbuf[cur.fd])
  /\ snd' = [snd EXCEPT ![Conn] = @ \o SubSeq(outbuf[cur.fd], 1, Room)]
  /\ outbuf' = [outbuf EXCEPT ![cur.fd] = <<>>]
  /\ EnableRW(cur.fd, TRUE, FALSE, SockLevel(rcv[Conn], snd'[Conn], peer[Conn]))
  /\ pc' = "loop" /\ cur' = None
  /\ UNCHANGED <<peers, rcv, owner, events, inbuf, batch, newfd, faults>>

\* It takes a part, wherever that ends.  The next round of the loop starts with
\* total = 0 again, so nothing remembers what was taken.
SendShort ==
  /\ pc = "send" /\ Connected
  /\ Room > 0 /\ Room < Len(outbuf[cur.fd])
  /\ snd' = [snd EXCEPT ![Conn] = @ \o SubSeq(outbuf[cur.fd], 1, Room)]
  /\ UNCHANGED <<peers, rcv, kernel, heap, thread>>

\* EAGAIN: erase(0, total) with total = 0, keep asking for write events.
SendFull ==
  /\ pc = "send" /\ Connected
  /\ Room = 0 /\ outbuf[cur.fd] # <<>>
  /\ NonBlocking
  /\ EnableRW(cur.fd, TRUE, TRUE, Level(cur.fd))
  /\ pc' = "loop" /\ cur' = None
  /\ UNCHANGED <<peers, rcv, snd, owner, heap, batch, newfd, faults>>

SendError ==
  /\ pc = "send" /\ peer[Conn] = "reset"
  /\ DeleteEvent(cur.fd)
  /\ pc' = "loop" /\ cur' = None
  /\ UNCHANGED <<peers, rcv, snd, batch, newfd, faults>>

\* SIGPIPE, which the program neither ignores nor handles: the process ends,
\* and with it its memory, its epoll instance and every descriptor.
SendKilled ==
  /\ pc = "send" /\ peer[Conn] = "broken"
  /\ pc' = "killed"
  /\ owner' = [fd \in Fds |-> None]
  /\ epoll' = [fd \in AllFds |-> {}]
  /\ ready' = {} /\ events' = {}
  /\ inbuf' = [fd \in Fds |-> <<>>]
  /\ outbuf' = [fd \in Fds |-> <<>>]
  /\ batch' = {} /\ cur' = None /\ newfd' = None
  /\ backlog' = <<>>
  /\ UNCHANGED <<peer, sent, got, missed, rcv, snd, faults>>
-----------------------------------------------------------------------------
Handler ==
  \/ AcceptOne \/ AcceptDone \/ AcceptError \/ InsertEvent
  \/ RecvChunk \/ RecvDrained \/ RecvEnd \/ Process
  \/ SendAll \/ SendShort \/ SendFull \/ SendError \/ SendKilled

Server == EpollWait \/ DispatchRead \/ DispatchWrite \/ Handler

Peer(c) == Connect(c) \/ PeerSend(c) \/ PeerShutdown(c) \/ PeerReset(c) \/ PeerRead(c)

Next == Server \/ EpollTimeout \/ \E c \in Clients : Peer(c)

Spec == Init /\ [][Next]_vars

\* The thread runs; a client reads the bytes that have arrived.
Fairness == WF_vars(Server) /\ \A c \in Clients : WF_vars(PeerRead(c))

FairSpec == Spec /\ Fairness
-----------------------------------------------------------------------------
(***************************************************************************)
(* Properties.                                                             *)
(***************************************************************************)
\* Types of all variables.
TypeOK ==
  /\ peer \in [Clients -> {"idle", "open", "fin"} \cup Aborted]
  /\ sent \in [Clients -> 0 .. 2*Requests]
  /\ rcv \in [Clients -> Seq(Byte)]
  /\ snd \in [Clients -> Seq(Answer)]
  /\ got \in [Clients -> Seq(Answer)]
  /\ backlog \in Seq(Clients) /\ missed \in BOOLEAN
  /\ owner \in [Fds -> Clients \cup {None}]
  /\ epoll \in [AllFds -> Mask]
  /\ ready \subseteq AllFds
  /\ events \subseteq AllFds
  /\ inbuf \in [Fds -> Seq(Byte)]
  /\ outbuf \in [Fds -> Seq(Answer)]
  /\ pc \in {"loop", "accept", "insert", "recv", "process", "write", "send", "killed"}
  /\ batch \subseteq Entry
  /\ cur \in Entry \cup {None}
  /\ newfd \in Fds \cup {None}
  /\ faults \in 0 .. AddFaults

\* The map and the epoll instance name the same descriptors, and every one of
\* them is open: no event is delivered for a descriptor the map has lost, and
\* no Event waits for events that nobody reports.
MapMatchesEpoll ==
  /\ \A fd \in AllFds : fd \in events <=> epoll[fd] # {}
  /\ \A fd \in Fds : fd \in events => owner[fd] # None
  /\ ready \subseteq events

\* While a callback runs, its Event is in the map and its descriptor still
\* belongs to the connection the event was reported for: no handler works on
\* a deleted Event or on a reused descriptor.
HandlerEventLive ==
  pc \in {"recv", "process", "send"} =>
    /\ cur.fd \in events
    /\ owner[cur.fd] = cur.conn

\* The same for the events of the batch that are still to be dispatched: what
\* earlier callbacks of the batch close, accept and register never makes a
\* later entry name another connection.
BatchFresh ==
  \A e \in batch : e.fd \in events /\ (e.fd # Listen => owner[e.fd] = e.conn)

\* Together: no event, in hand or still to come, names a deleted Event or a
\* descriptor that was closed and given to another connection.
NoStaleEvent == HandlerEventLive /\ BatchFresh

\* An open descriptor that no Event manages is the one being inserted, or was
\* leaked by an EPOLL_CTL_ADD that failed (Accepter ignores the result); the
\* end of the process closes those too.
LeakedOnlyByFailedAdd ==
  pc # "killed" =>
    Cardinality({fd \in Fds : owner[fd] # None /\ fd \notin events /\ fd # newfd}) = faults

\* Write events are asked for exactly while there is something to write
\* (Service.hpp: set on demand), and SenderCore is never entered with an
\* empty buffer, where send would return 0 and errno would be a stale one.
WriteOnDemand ==
  /\ \A fd \in Fds : fd \in events => ("OUT" \in epoll[fd] <=> outbuf[fd] # <<>>)
  /\ pc = "send" => outbuf[cur.fd] # <<>>

\* No edge is lost between the kernel and Recver: whenever a registered
\* connection has bytes, an end or an error to read, the descriptor is on the
\* ready list, its read event is still to be dispatched, or Recver is reading.
NoLostRead ==
  \A fd \in Fds \cap events :
    rcv[owner[fd]] # <<>> \/ peer[owner[fd]] # "open" =>
      \/ fd \in ready
      \/ \E e \in batch : e.fd = fd /\ "IN" \in e.ev
      \/ pc = "recv" /\ cur.fd = fd

\* The same for Sender: whenever there is something to write and the socket
\* would take it, a write event is on its way or Sender is running.
NoLostWrite ==
  \A fd \in Fds \cap events :
    outbuf[fd] # <<>> /\ "OUT" \in Level(fd) =>
      \/ fd \in ready
      \/ \E e \in batch : e.fd = fd /\ "OUT" \in e.ev
      \/ /\ pc \in {"recv", "process", "write", "send"}
         /\ cur.fd = fd
         /\ pc = "send" \/ "OUT" \in cur.ev

\* And for Accepter: a connection is left waiting with no event on its way only
\* by an accept that failed, and only until another client connects.
NoLostAccept ==
  backlog # <<>> =>
    \/ Listen \in ready
    \/ \E e \in batch : e.fd = Listen
    \/ pc \in {"accept", "insert"}
    \/ missed

\* What the client has written of its requests, as one stream.
Written(c) == [i \in 1 .. sent[c] |-> i]

\* End to end: what a client has read is a prefix of the answers to what it has
\* written, each once and in the order of the requests.  With NonBlocking only:
\* as built, nothing is ever sent (NothingAnswered).
AnswersInOrder ==
  \A c \in Clients :
    /\ Len(got[c]) <= Len(Answers(Written(c)))
    /\ got[c] = SubSeq(Answers(Written(c)), 1, Len(got[c]))

\* Nothing is lost, repeated or reordered on the way: on a live connection the
\* bytes read, in the send queue, in the output buffer and still to be computed
\* from the unread requests are the answers to all that was written.
Conservation ==
  \A fd \in Fds : fd \in events /\ peer[owner[fd]] \notin Aborted =>
    LET c == owner[fd]
    IN  got[c] \o snd[c] \o outbuf[fd] \o Answers(inbuf[fd] \o rcv[c])
          = Answers(Written(c))

\* s takes its elements from t, each only after all that come before it in t;
\* after that it may come again.
InTurn(s, t) ==
  \A j \in DOMAIN s : \E k \in DOMAIN t :
    /\ s[j] = t[k]
    /\ \A l \in 1 .. k-1 : \E i \in 1 .. j-1 : s[i] = t[l]

\* What is left of the two where send takes a part of the buffer and SenderCore,
\* which forgets it, sends that part again.  It speaks of bytes: they come
\* again, but each only after all the bytes that belong before it, and on a live
\* connection none is lost.  It says nothing of the texts they form: the part
\* may end inside an answer, and the client then reads its beginning and the
\* repeated text as one ("4+" and "1+2=3X").
AnswersInTurn ==
  /\ \A c \in Clients : InTurn(got[c] \o snd[c], Answers(Written(c)))
  /\ \A fd \in Fds : fd \in events /\ peer[owner[fd]] \notin Aborted =>
       LET c == owner[fd]
       IN  Range(Answers(Written(c))) \subseteq
             Range(got[c] \o snd[c] \o outbuf[fd] \o Answers(inbuf[fd] \o rcv[c]))

\* While the process lives, only a connection that its client has ended or
\* aborted is dropped: neither EAGAIN nor another connection's error closes a
\* healthy one.  The process ends, and all connections with it, only by a send
\* on a connection whose client has ended it and then aborted it.
HealthyKept ==
  [][\/ \A fd \in Fds \cap events :
          peer[owner[fd]] = "open" => fd \in events' /\ owner'[fd] = owner[fd]
     \/ pc' = "killed" /\ peer[owner[cur.fd]] = "broken"]_vars

\* As built (NonBlocking = FALSE) Recver never gets past its last recv: no
\* client is ever sent an answer.
NothingAnswered == \A c \in Clients : snd[c] = <<>> /\ got[c] = <<>>

\* No read or write edge is lost: a complete valid request of a client that
\* stays is answered, with the whole of its answer, while the process lives.
EveryRequestAnswered ==
  \A c \in Clients : \A n \in (1..Requests) \ Malformed :
    (peer[c] = "open" /\ sent[c] >= 2*n) ~>
      \/ peer[c] # "open" \/ pc = "killed"
      \/ \E i \in DOMAIN got[c] : got[c][i] = 2*n /\ IsValidEnd(got[c], i)

\* A connection its client has ended or aborted is closed here too.
EveryEndNoticed ==
  \A c \in Clients :
    (peer[c] \notin {"idle", "open"}) ~> (\A fd \in Fds : owner[fd] # c)

\* Service.hpp:11 and :35: RecverCore returns once it has read what there was.
ReadRoundEnds ==
  (pc = "recv") ~> (pc # "recv")

\* Reactor.hpp:142: every error is turned into something the I/O functions
\* deal with; Service.hpp:106: a failing send makes SenderCore return -1.  With
\* NonBlocking only: as built, nothing is ever sent (NothingAnswered).
ErrorsReachTheHandlers == pc # "killed"
=============================================================================
