------------------------------- MODULE MCDemos -------------------------------
(* Instances for TLC of the small programs of pthread/, net/, signal/ and   *)
(* IO/: a behaviour is a behaviour of one of them, the others stand still.  *)
EXTENDS Tickets, TLC
CONSTANTS
  Programs,    \* "tickets", "cond", "udp", "signals", "readers"
  Workers, Clients, Messages, Leftovers, Size, Nobody, MaxSent, MaxLost, MaxDup,
  Rounds,
  Length, Chunk, Room

VARIABLES
  program,
  wpc, lock, strays,
  waiting, requests, answers, peer, buffer, got, sent, printed, lost,
  dupRequests, dupAnswers,
  prog, build, step, blocked, pending, count, flag, missed,
  reader, terminal, typed, ended, input, rpc, text, found, errno, said,
  screen, queued, cut, refused

Cond == INSTANCE CondDemo
Udp == INSTANCE UdpEcho
Signal == INSTANCE Signals WITH pc <- step
Read == INSTANCE Readers

condVars == <<wpc, lock, strays>>
udpVars == <<waiting, requests, answers, peer, buffer, got, sent, printed, lost,
             dupRequests, dupAnswers>>
signalVars == <<prog, build, step, blocked, pending, count, flag, missed>>
readVars == <<reader, terminal, typed, ended, input, rpc, text, found, errno, said,
              screen, queued, cut, refused>>
allVars == <<program, vars, condVars, udpVars, signalVars, readVars>>

\* The programs that do not run are represented by one of their initial states.
MCInit ==
  /\ program \in Programs
  /\ Init /\ Cond!Init /\ Udp!Init /\ Signal!Init /\ Read!Init
  /\ program # "tickets" => ~ locked
  /\ program # "signals" => prog = "mask" /\ build = "rereads"
  /\ program # "readers" => reader = "blocking" /\ ~ terminal

MCNext ==
  /\ UNCHANGED program
  /\ \/ program = "tickets" /\ Next
        /\ UNCHANGED <<condVars, udpVars, signalVars, readVars>>
     \/ program = "cond" /\ Cond!Next
        /\ UNCHANGED <<vars, udpVars, signalVars, readVars>>
     \/ program = "udp" /\ Udp!Next
        /\ UNCHANGED <<vars, condVars, signalVars, readVars>>
     \/ program = "signals" /\ Signal!Next
        /\ UNCHANGED <<vars, condVars, udpVars, readVars>>
     \/ program = "readers" /\ Read!Next
        /\ UNCHANGED <<vars, condVars, udpVars, signalVars>>

\* The Fairness of each module, for the program that runs.
MCFairness ==
  /\ \A t \in Threads : WF_vars(program = "tickets" /\ ThreadRun(t))
  /\ WF_condVars(program = "cond" /\ Cond!Ctrl)
  /\ \A w \in Workers : WF_condVars(program = "cond" /\ Cond!Work(w))
  /\ WF_udpVars(program = "udp" /\ Udp!Reply)
  /\ \A c \in Clients :
       /\ WF_udpVars(program = "udp" /\ Udp!ReceiveAnswer(c))
       /\ WF_udpVars(program = "udp" /\ \E m \in Messages : Udp!Receive(c, m))
  /\ WF_signalVars(program = "signals" /\ Signal!Main)

MCSpec == MCInit /\ [][MCNext]_allVars /\ MCFairness

AllPrograms == {"tickets", "cond", "udp", "signals", "readers"}
OnlyUdp == {"udp"}

\* "" is what the client sends at the end of its input.
Words == {<<>>, <<"a">>}
WordsOfAllLengths == {<<"a">>, <<"b", "b">>, <<"c", "c", "c">>}
ZeroedBuffer == {<<>>}
-----------------------------------------------------------------------------
(* The properties of the modules that are instantiated, for the programs    *)
(* they belong to.                                                          *)

\* thread_cond.c: the workers overlap only as far as first waits take the mutex
\* from a worker.
OverlapBounded == Cond!OverlapBounded

\* thread_cond.c: some worker works again and again.
WorkGoesOn == (program = "cond") => Cond!WorkGoesOn

\* The UDP client: at its prompt, the server has printed what it sent but for
\* as many datagrams as the network made up.
PromptMeansPrinted == Udp!PromptMeansPrinted

\* The UDP client gets its answer unless the network loses something.
AnsweredUnlessLost == Udp!AnsweredUnlessLost

\* The UDP server prints the message it received.
PrintedIsSent == Udp!PrintedIsSent

\* 信号屏蔽.c: the line that the block is lifted means that no signal came.
ReportedOnlyIfQuiet == Signal!ReportedOnlyIfQuiet

\* The readers: the echo is the input in order, except for what a full terminal
\* that was made non-blocking did not take.
EchoInOrder == Read!EchoInOrder

\* fcntl.cc: the line about a read that got no data is right, except that after
\* an EAGAIN the end of the input may be taken for a pause.
LinesJustified == Read!LinesJustified

\* volatile.c and 信号屏蔽.c: a signal takes effect in the end.
SignalTakesEffect == Signal!SignalTakesEffect

\* The ticket sellers: all threads end with no ticket left.
SellersEnd == (program = "tickets") => ThreadsEnd
=============================================================================
