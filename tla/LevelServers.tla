----------------------------- MODULE LevelServers -----------------------------
(***************************************************************************)
(* The four single-threaded servers that wait for readable descriptors     *)
(* with a level-triggered call: Reactor/select_server.cc ("select"),       *)
(* IO/select_server/select.cc ("select_io"), IO/poll_server.cc ("poll")    *)
(* and IO/epoll_server(...).cc ("epoll").  Which one runs is chosen in     *)
(* Init.                                                                   *)
(*                                                                         *)
(* Each waits, then serves every descriptor the kernel reported, in the    *)
(* order of its array (epoll: in any order), one accept or recv each.  A   *)
(* step is one such call with the code around it; the clients act between  *)
(* any two steps.  What is received is only printed, so bytes are counted  *)
(* in units of one recv.  A time-out of the waiting call changes nothing   *)
(* and has no action.                                                      *)
(*                                                                         *)
(* A definition marked "Mutation" is a wrong variant of the definition     *)
(* that follows it and no part of the specification.                       *)
(***************************************************************************)
EXTENDS Integers, Sequences, FiniteSets

CONSTANTS
  Clients,   \* the peers; each connects once
  Fds,       \* descriptor numbers accept() may return (the process limit)
  Listen,    \* the listening descriptor
  None,      \* -1, an unused place of the array
  Programs,  \* the servers to consider
  Sizes,     \* NUM, the length of the array
  Senders,   \* clients that send data
  Resetters, \* clients that may abort the connection (RST)
  MaxSends,  \* bound on the units a client sends
  Backlog    \* length of the queue of connections not accepted yet

ASSUME ConstantsAssumption ==
  /\ Fds \subseteq Nat
  /\ Listen \notin Fds
  /\ None \notin Clients /\ None \notin Fds /\ None # Listen
  /\ Programs \subseteq {"select", "select_io", "poll", "epoll"}
  /\ Sizes \subseteq Nat \ {0}
  /\ Senders \subseteq Clients /\ Resetters \subseteq Clients
  /\ MaxSends \in Nat /\ Backlog \in Nat

VARIABLES
  program,   \* the server that runs
  peer,      \* state of each client's side of its connection
  sent,      \* units each client has sent
  rcv,       \* units in the receive queue of each connection
  backlog,   \* connections waiting for accept
  owner,     \* connection behind each open descriptor
  slot,      \* fd_array of the select servers, the fds of arr of the poll server
  interest,  \* descriptors in the epoll instance
  pc,
  found,     \* what the waiting call reported: descriptors, of poll places of arr
  at,        \* place of the array the scan has reached
  leaked     \* connections the poll server accepted with its array full

clients == <<peer, sent>>
vars == <<program, clients, rcv, backlog, owner, slot, interest, pc, found, at, leaked>>

Init ==
  /\ program \in Programs
  /\ peer = [c \in Clients |-> "idle"]
  /\ sent = [c \in Clients |-> 0]
  /\ rcv = [c \in Clients |-> 0]
  /\ backlog = <<>>
  /\ owner = [fd \in Fds |-> None]
  /\ \E n \in Sizes : slot = [i \in 0..n-1 |-> IF i = 0 THEN Listen ELSE None]
  /\ interest = {Listen}
  /\ pc = "wait" /\ found = {} /\ at = 0 /\ leaked = 0
-----------------------------------------------------------------------------
(***************************************************************************)
(* The clients and the kernel.                                             *)
(***************************************************************************)
\* "drained" is a reset connection whose error a recv has already returned.
Ended == {"fin", "reset", "drained"}

Readable(fd) ==
  IF fd = Listen THEN backlog # <<>>
                 ELSE rcv[owner[fd]] > 0 \/ peer[owner[fd]] \in Ended

Free == {fd \in Fds : owner[fd] = None}

Connect(c) ==
  /\ peer[c] = "idle"
  /\ Len(backlog) < Backlog
  /\ peer' = [peer EXCEPT ![c] = "open"]
  /\ backlog' = Append(backlog, c)
  /\ UNCHANGED <<program, sent, rcv, owner, slot, interest, pc, found, at, leaked>>

PeerSend(c) ==
  /\ c \in Senders
  /\ peer[c] = "open" /\ sent[c] < MaxSends
  /\ sent' = [sent EXCEPT ![c] = @ + 1]
  /\ rcv' = [rcv EXCEPT ![c] = @ + 1]
  /\ UNCHANGED <<program, peer, backlog, owner, slot, interest, pc, found, at, leaked>>

\* A reset after the client's FIN changes nothing for recv.
PeerEnd(c) ==
  /\ peer[c] = "open"
  /\ \/ peer' = [peer EXCEPT ![c] = "fin"]
     \/ c \in Resetters /\ peer' = [peer EXCEPT ![c] = "reset"]
  /\ UNCHANGED <<program, sent, rcv, backlog, owner, slot, interest, pc, found, at, leaked>>

Peer(c) == Connect(c) \/ PeerSend(c) \/ PeerEnd(c)
-----------------------------------------------------------------------------
(***************************************************************************)
(* Waiting.                                                                *)
(***************************************************************************)
Wait(reported) ==
  /\ pc = "wait"
  /\ reported # {}
  /\ found' = reported
  /\ at' = 0
  /\ pc' = "scan"
  /\ UNCHANGED <<program, clients, rcv, backlog, owner, slot, interest, leaked>>

\* fd_array is copied into rfds, which select leaves with what is readable.
Select == Wait({fd \in {slot[i] : i \in DOMAIN slot} \ {None} : Readable(fd)})

\* poll sets revents of each used place.
Poll == Wait({i \in DOMAIN slot : slot[i] # None /\ Readable(slot[i])})

EpollWait == Wait({fd \in interest : Readable(fd)})
-----------------------------------------------------------------------------
(***************************************************************************)
(* The scan of the array.                                                  *)
(***************************************************************************)
\* Mutation: FD_ISSET is not asked.
IssetAlways(i) == slot[i] # None

Isset(i) ==
  slot[i] # None /\ IF program = "poll" THEN i \in found ELSE slot[i] \in found

ToVisit == {i \in DOMAIN slot : i >= at /\ Isset(i)}

Visit(i) ==
  /\ pc = "scan"
  /\ i \in ToVisit /\ \A j \in ToVisit : i <= j
  /\ at' = i + 1
  /\ UNCHANGED <<program, sent, interest, pc, found>>

ScanDone ==
  /\ pc = "scan"
  /\ IF program = "epoll" THEN found = {} ELSE ToVisit = {}
  /\ pc' = "wait" /\ found' = {} /\ at' = 0
  /\ UNCHANGED <<program, clients, rcv, backlog, owner, slot, interest, leaked>>

Unused == {i \in DOMAIN slot : slot[i] = None}

\* accept returns the lowest free descriptor for the oldest connection.
Accepted(fd, c) ==
  /\ backlog # <<>> /\ c = Head(backlog)
  /\ fd \in Free /\ \A other \in Free : fd <= other

\* The new descriptor goes to the first unused place.
Insert(fd, c) ==
  /\ \E i \in Unused : /\ \A j \in Unused : i <= j
                       /\ slot' = [slot EXCEPT ![i] = fd]
  /\ owner' = [owner EXCEPT ![fd] = c]
  /\ backlog' = Tail(backlog)
  /\ UNCHANGED <<peer, rcv, leaked>>

\* accept fails (EMFILE) and the connection stays in the queue.  The poll
\* server stores the -1 in an unused place, which changes nothing.
AcceptFails(i) ==
  /\ Visit(i) /\ slot[i] = Listen
  /\ backlog # <<>> /\ Free = {}
  /\ UNCHANGED <<peer, rcv, backlog, owner, slot, leaked>>

\* The select servers close a connection that finds the array full.
SelectAccept(i) ==
  /\ Visit(i) /\ slot[i] = Listen
  /\ \E fd \in Fds, c \in Clients :
       /\ Accepted(fd, c)
       /\ IF Unused # {} THEN Insert(fd, c)
          ELSE /\ peer' = [peer EXCEPT ![c] = "refused"]
               /\ backlog' = Tail(backlog)
               /\ UNCHANGED <<rcv, owner, slot, leaked>>

\* The poll server keeps it open and has no place for it.
PollAccept(i) ==
  /\ Visit(i) /\ slot[i] = Listen
  /\ \E fd \in Fds, c \in Clients :
       /\ Accepted(fd, c)
       /\ IF Unused # {} THEN Insert(fd, c)
          ELSE /\ owner' = [owner EXCEPT ![fd] = c]
               /\ backlog' = Tail(backlog)
               /\ leaked' = leaked + 1
               /\ UNCHANGED <<peer, rcv, slot>>

\* recv returns data.
ReadData(i) ==
  /\ Visit(i) /\ slot[i] # Listen
  /\ rcv[owner[slot[i]]] > 0
  /\ rcv' = [rcv EXCEPT ![owner[slot[i]]] = @ - 1]
  /\ UNCHANGED <<peer, backlog, owner, slot, leaked>>

\* Mutation: fd_array[i] is not set to -1.
CloseKeepingSlot(i) ==
  /\ owner' = [owner EXCEPT ![slot[i]] = None]
  /\ UNCHANGED slot

\* close, and the place is unused again.
Close(i) ==
  /\ owner' = [owner EXCEPT ![slot[i]] = None]
  /\ slot' = [slot EXCEPT ![i] = None]

\* Mutation: the end of the stream is not acted upon.
ReadEofIgnored(i) ==
  /\ Visit(i) /\ slot[i] # Listen
  /\ rcv[owner[slot[i]]] = 0 /\ peer[owner[slot[i]]] \in {"fin", "drained"}
  /\ UNCHANGED <<owner, slot, peer, rcv, backlog, leaked>>

\* recv returns 0.
ReadEof(i) ==
  /\ Visit(i) /\ slot[i] # Listen
  /\ rcv[owner[slot[i]]] = 0 /\ peer[owner[slot[i]]] \in {"fin", "drained"}
  /\ Close(i)
  /\ UNCHANGED <<peer, rcv, backlog, leaked>>

\* recv fails: the descriptor is closed.
ReadError(i) ==
  /\ Visit(i) /\ slot[i] # Listen
  /\ rcv[owner[slot[i]]] = 0 /\ peer[owner[slot[i]]] = "reset"
  /\ Close(i)
  /\ UNCHANGED <<peer, rcv, backlog, leaked>>

\* recv fails and IO/select_server/select.cc does nothing: the next recv on
\* the descriptor returns 0.
ReadErrorIgnored(i) ==
  /\ Visit(i) /\ slot[i] # Listen
  /\ rcv[owner[slot[i]]] = 0 /\ peer[owner[slot[i]]] = "reset"
  /\ peer' = [peer EXCEPT ![owner[slot[i]]] = "drained"]
  /\ UNCHANGED <<rcv, backlog, owner, slot, leaked>>
-----------------------------------------------------------------------------
(***************************************************************************)
(* The loop over revs[] of the epoll server.                               *)
(***************************************************************************)
TakeEvent(fd) ==
  /\ pc = "scan"
  /\ fd \in found
  /\ found' = found \ {fd}
  /\ UNCHANGED <<program, clients, slot, pc, at, leaked>>

EpollAcceptFails ==
  /\ TakeEvent(Listen)
  /\ backlog # <<>> /\ Free = {}
  /\ UNCHANGED <<rcv, backlog, owner, interest>>

EpollAccept ==
  /\ TakeEvent(Listen)
  /\ \E fd \in Fds, c \in Clients :
       /\ Accepted(fd, c)
       /\ owner' = [owner EXCEPT ![fd] = c]
       /\ interest' = interest \cup {fd}
       /\ backlog' = Tail(backlog)
  /\ UNCHANGED rcv

EpollReadData(fd) ==
  /\ TakeEvent(fd)
  /\ rcv[owner[fd]] > 0
  /\ rcv' = [rcv EXCEPT ![owner[fd]] = @ - 1]
  /\ UNCHANGED <<backlog, owner, interest>>

\* recv returns 0 or fails.  close already takes the descriptor out of the
\* epoll instance, the EPOLL_CTL_DEL after it fails.
EpollReadEnd(fd) ==
  /\ TakeEvent(fd)
  /\ rcv[owner[fd]] = 0 /\ peer[owner[fd]] \in Ended
  /\ owner' = [owner EXCEPT ![fd] = None]
  /\ interest' = interest \ {fd}
  /\ UNCHANGED <<rcv, backlog>>
-----------------------------------------------------------------------------
SelectServer ==
  /\ program = "select"
  /\ \/ Select \/ ScanDone
     \/ \E i \in DOMAIN slot :
          SelectAccept(i) \/ AcceptFails(i) \/ ReadData(i) \/ ReadEof(i) \/ ReadError(i)

SelectIOServer ==
  /\ program = "select_io"
  /\ \/ Select \/ ScanDone
     \/ \E i \in DOMAIN slot :
          SelectAccept(i) \/ AcceptFails(i) \/ ReadData(i) \/ ReadEof(i) \/ ReadErrorIgnored(i)

PollServer ==
  /\ program = "poll"
  /\ \/ Poll \/ ScanDone
     \/ \E i \in DOMAIN slot :
          PollAccept(i) \/ AcceptFails(i) \/ ReadData(i) \/ ReadEof(i) \/ ReadError(i)

EpollServer ==
  /\ program = "epoll"
  /\ \/ EpollWait \/ ScanDone
     \/ EpollAccept \/ EpollAcceptFails
     \/ \E fd \in Fds : EpollReadData(fd) \/ EpollReadEnd(fd)

Server == SelectServer \/ SelectIOServer \/ PollServer \/ EpollServer

Next == Server \/ \E c \in Clients : Peer(c)

Spec == Init /\ [][Next]_vars

\* The thread runs.
Fairness == WF_vars(Server)

FairSpec == Spec /\ Fairness
-----------------------------------------------------------------------------
\* Types of all variables.
TypeOK ==
  /\ program \in Programs
  /\ peer \in [Clients -> {"idle", "open", "refused"} \cup Ended]
  /\ sent \in [Clients -> 0..MaxSends]
  /\ rcv \in [Clients -> 0..MaxSends]
  /\ backlog \in Seq(Clients)
  /\ owner \in [Fds -> Clients \cup {None}]
  /\ \E n \in Sizes : slot \in [0..n-1 -> Fds \cup {Listen, None}]
  /\ interest \subseteq Fds \cup {Listen}
  /\ pc \in {"wait", "scan"}
  /\ found \subseteq Nat \cup {Listen}
  /\ at \in Nat /\ leaked \in Nat

\* The descriptors the loop still has to serve in this round.
Pending == IF program = "epoll" THEN found ELSE {slot[i] : i \in ToVisit}

\* select_server.cc:86: accept and recv never block.  Every descriptor still to
\* be served in this round is open and readable, whatever the calls before it
\* closed, accepted and stored: no reported number is reused within a round.
RecvNeverBlocks ==
  pc = "scan" => \A fd \in Pending : (fd # Listen => owner[fd] # None) /\ Readable(fd)

Watched == IF program = "epoll" THEN interest \ {Listen}
                                ELSE {slot[i] : i \in DOMAIN slot} \ {Listen, None}

\* Every descriptor that is watched is open and watched once; an open one that
\* is not watched is a connection the poll server had no place for.
DescriptorsWatched ==
  /\ \A fd \in Watched : owner[fd] # None
  /\ \A i, j \in DOMAIN slot : slot[i] = slot[j] /\ slot[i] # None => i = j
  /\ Cardinality({fd \in Fds \ Watched : owner[fd] # None}) = leaked

\* A connection its client has ended is accepted, read to its end and closed,
\* unless the process runs out of descriptors or the poll server has lost it.
EveryEndNoticed ==
  \A c \in Clients :
    (peer[c] \in Ended) ~>
      \/ /\ \A fd \in Fds : owner[fd] # c
         /\ \A n \in DOMAIN backlog : backlog[n] # c
      \/ \E fd \in Fds \ Watched : owner[fd] = c
      \/ Free = {}
=============================================================================
