------------------------------ MODULE UdpEcho ------------------------------
(***************************************************************************)
(* net/udp_server.cc and net/udp_client.cc: clients that send a datagram   *)
(* and wait for the answer before they read the next line, a server that   *)
(* prints each datagram and answers with a constant.  There is no number   *)
(* in a datagram, no timeout and no retry.  The network loses, duplicates  *)
(* and reorders.                                                           *)
(*                                                                         *)
(* A message is a sequence of letters; what the server's buffer holds up   *)
(* to its first zero is one too.  The answers are all the same, so only    *)
(* their number matters.                                                   *)
(***************************************************************************)
EXTENDS Naturals, Sequences

CONSTANTS
  Clients,
  Messages,     \* what the users may type; <<>> is what cin leaves at its end
  Leftovers,    \* what the server's uninitialised buffer may hold at the start
  Size,         \* bytes recvfrom may fill: sizeof(buffer) - 1
  Nobody,
  MaxSent,      \* bound: requests of one client
  MaxLost, MaxDup  \* bounds: datagrams from and to one client that the network
                   \* loses and duplicates

VARIABLES
  waiting,    \* the clients that wait for an answer; the others wait for input
  requests,   \* datagrams on their way to the server, by client and message
  answers,    \* answers on their way to each client
  peer,       \* whom the server serves
  buffer,     \* the server's buffer up to its first zero
  got,        \* history: the bytes of the datagram that is served
  sent, printed, lost, dupRequests, dupAnswers   \* histories: how many, by client

network == <<requests, answers>>
server == <<peer, buffer, got, printed>>
client == <<waiting, sent>>
vars == <<client, network, server, lost, dupRequests, dupAnswers>>

Zero == [c \in Clients |-> 0]

Init ==
  /\ waiting = {}
  /\ requests = [c \in Clients |-> [m \in Messages |-> 0]]
  /\ answers = Zero
  /\ peer = Nobody
  /\ buffer \in Leftovers
  /\ got = <<>>
  /\ sent = Zero /\ printed = Zero
  /\ lost = Zero /\ dupRequests = Zero /\ dupAnswers = Zero

More(f, c) == [f EXCEPT ![c] = @ + 1]
Fewer(f, c) == [f EXCEPT ![c] = @ - 1]
-----------------------------------------------------------------------------
(***************************************************************************)
(* A client.                                                               *)
(***************************************************************************)
\* Mutation: the client does not wait for the answer.
SendOn(c, m) ==
  /\ c \notin waiting
  /\ sent[c] < MaxSent
  /\ requests' = [requests EXCEPT ![c][m] = @ + 1]
  /\ sent' = More(sent, c)
  /\ UNCHANGED <<waiting, answers, server, lost, dupRequests, dupAnswers>>

\* The user's next word, or nothing once the input has ended.
Send(c, m) ==
  /\ c \notin waiting
  /\ sent[c] < MaxSent
  /\ requests' = [requests EXCEPT ![c][m] = @ + 1]
  /\ waiting' = waiting \cup {c}
  /\ sent' = More(sent, c)
  /\ UNCHANGED <<answers, server, lost, dupRequests, dupAnswers>>

\* Any datagram is taken for the answer.
ReceiveAnswer(c) ==
  /\ c \in waiting
  /\ answers[c] > 0
  /\ answers' = Fewer(answers, c)
  /\ waiting' = waiting \ {c}
  /\ UNCHANGED <<sent, requests, server, lost, dupRequests, dupAnswers>>
-----------------------------------------------------------------------------
(***************************************************************************)
(* The server.                                                             *)
(***************************************************************************)
\* recvfrom keeps the bytes that fit, and stores no zero after them.
Fitting(m) == SubSeq(m, 1, IF Len(m) < Size THEN Len(m) ELSE Size)
Over(m, old) == m \o SubSeq(old, Len(m) + 1, Len(old))

Receive(c, m) ==
  /\ peer = Nobody
  /\ requests[c][m] > 0
  /\ requests' = [requests EXCEPT ![c][m] = @ - 1]
  /\ peer' = c
  /\ got' = Fitting(m)
  /\ buffer' = Over(Fitting(m), buffer)
  /\ UNCHANGED <<client, answers, printed, lost, dupRequests, dupAnswers>>

\* Mutation: no answer to an empty datagram.
ReplyToText ==
  /\ peer # Nobody
  /\ printed' = More(printed, peer)
  /\ answers' = IF got = <<>> THEN answers ELSE More(answers, peer)
  /\ peer' = Nobody
  /\ got' = <<>>
  /\ UNCHANGED <<client, requests, buffer, lost, dupRequests, dupAnswers>>

Reply ==
  /\ peer # Nobody
  /\ printed' = More(printed, peer)
  /\ answers' = More(answers, peer)
  /\ peer' = Nobody
  /\ got' = <<>>
  /\ UNCHANGED <<client, requests, buffer, lost, dupRequests, dupAnswers>>
-----------------------------------------------------------------------------
(***************************************************************************)
(* The network.  Requests and answers are bags, so they come in any order. *)
(***************************************************************************)
LoseRequest(c, m) ==
  /\ requests[c][m] > 0 /\ lost[c] < MaxLost
  /\ requests' = [requests EXCEPT ![c][m] = @ - 1]
  /\ lost' = More(lost, c)
  /\ UNCHANGED <<client, answers, server, dupRequests, dupAnswers>>

LoseAnswer(c) ==
  /\ answers[c] > 0 /\ lost[c] < MaxLost
  /\ answers' = Fewer(answers, c)
  /\ lost' = More(lost, c)
  /\ UNCHANGED <<client, requests, server, dupRequests, dupAnswers>>

DuplicateRequest(c, m) ==
  /\ requests[c][m] > 0 /\ dupRequests[c] < MaxDup
  /\ requests' = [requests EXCEPT ![c][m] = @ + 1]
  /\ dupRequests' = More(dupRequests, c)
  /\ UNCHANGED <<client, answers, server, lost, dupAnswers>>

DuplicateAnswer(c) ==
  /\ answers[c] > 0 /\ dupAnswers[c] < MaxDup
  /\ answers' = More(answers, c)
  /\ dupAnswers' = More(dupAnswers, c)
  /\ UNCHANGED <<client, requests, server, lost, dupRequests>>
-----------------------------------------------------------------------------
Next ==
  \/ \E c \in Clients :
       \/ ReceiveAnswer(c) \/ LoseAnswer(c) \/ DuplicateAnswer(c)
       \/ \E m \in Messages :
            Send(c, m) \/ Receive(c, m) \/ LoseRequest(c, m) \/ DuplicateRequest(c, m)
  \/ Reply

Spec == Init /\ [][Next]_vars

\* The processes run; nobody has to type and the network need do nothing.  The
\* datagrams that reached the server's socket are a queue, so it comes to each.
Fairness ==
  /\ WF_vars(Reply)
  /\ \A c \in Clients :
       /\ WF_vars(ReceiveAnswer(c))
       /\ WF_vars(\E m \in Messages : Receive(c, m))

FairSpec == Spec /\ Fairness
-----------------------------------------------------------------------------
(***************************************************************************)
(* Properties.                                                             *)
(***************************************************************************)
\* A client at its prompt believes that the server has printed all it sent.
\* Without numbers a datagram too many is taken for the answer to something
\* else: it is behind by no more than the datagrams the network made up, and
\* answers alone are enough for that.
PromptMeansPrinted ==
  \A c \in Clients :
    /\ c \notin waiting => sent[c] <= printed[c] + dupAnswers[c]
    /\ printed[c] <= sent[c] + dupRequests[c]

\* A client waits for ever only when the network has lost something of its
\* own, whatever happens to the other clients.
AnsweredUnlessLost ==
  \A c \in Clients : (c \in waiting) ~> (c \notin waiting \/ lost[c] > 0)

\* udp_server.cc:58, "print the message": what is printed, the buffer,
\* is what was received.
PrintedIsSent == peer # Nobody => buffer = got
=============================================================================
