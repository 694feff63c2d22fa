------------------------------ MODULE Signals ------------------------------
(***************************************************************************)
(* Two demonstrations of signal/.  信号屏蔽.c ("mask") blocks signal 2 and  *)
(* shows the pending signals once a second; after Rounds rounds it puts    *)
(* the old mask back.  volatile.c ("volatile") spins on a flag that the    *)
(* handler of signal 2 sets and that is not volatile.                      *)
(***************************************************************************)
EXTENDS Naturals

CONSTANT Rounds    \* 20

VARIABLES
  prog,       \* which program; it does not change
  build,      \* "rereads": the loop of volatile.c loads flag in each turn;
              \* "hoisted": the compiler has moved the load before the loop
  pc,         \* next step; "killed", "exited"
  blocked,    \* is signal 2 in the process's mask?
  pending,    \* is signal 2 pending?  A second one is not counted
  count,      \* mask: rounds; past Rounds it does not matter
  flag,       \* volatile: flag
  missed      \* history: did a signal arrive while it was blocked?

vars == <<prog, build, pc, blocked, pending, count, flag, missed>>

Init ==
  /\ prog \in {"mask", "volatile"}
  /\ build \in {"rereads", "hoisted"}
  /\ pc = "start"
  /\ blocked = FALSE
  /\ pending = FALSE
  /\ count = 0
  /\ flag = 0
  /\ missed = FALSE

Alive == pc \notin {"killed", "exited"}

\* Before signal() in volatile.c, and always in the other program, signal 2
\* kills the process.
Caught == prog = "volatile" /\ pc # "start"

\* A signal that is not blocked is delivered at once.
Interrupt ==
  /\ Alive /\ ~ blocked
  /\ IF Caught
     THEN flag' = 1 /\ UNCHANGED pc
     ELSE pc' = "killed" /\ UNCHANGED flag
  /\ UNCHANGED <<prog, build, blocked, pending, count, missed>>

InterruptBlocked ==
  /\ Alive /\ blocked
  /\ pending' = TRUE
  /\ missed' = TRUE
  /\ UNCHANGED <<prog, build, pc, blocked, count, flag>>
-----------------------------------------------------------------------------
(***************************************************************************)
(* The program with the mask.                                              *)
(***************************************************************************)
Block ==
  /\ prog = "mask" /\ pc = "start"
  /\ blocked' = TRUE
  /\ pc' = "round"
  /\ UNCHANGED <<prog, build, pending, count, flag, missed>>

\* sigpending, show_pending, sleep, count++.
Round ==
  /\ prog = "mask" /\ pc = "round"
  /\ count' = IF count > Rounds THEN count ELSE count + 1
  /\ pc' = IF count' = Rounds THEN "restore" ELSE "round"
  /\ UNCHANGED <<prog, build, blocked, pending, flag, missed>>

\* Mutation: the mask is not put back, though the line says so.
RestoreNot ==
  /\ prog = "mask" /\ pc = "restore"
  /\ pc' = "report"
  /\ UNCHANGED <<prog, build, blocked, pending, count, flag, missed>>

\* sigprocmask delivers what is pending before it returns.
Restore ==
  /\ prog = "mask" /\ pc = "restore"
  /\ blocked' = FALSE
  /\ pending' = FALSE
  /\ pc' = IF pending THEN "killed" ELSE "report"
  /\ UNCHANGED <<prog, build, count, flag, missed>>

\* "The block of signal 2 is lifted."
Report ==
  /\ prog = "mask" /\ pc = "report"
  /\ pc' = "round"
  /\ UNCHANGED <<prog, build, blocked, pending, count, flag, missed>>
-----------------------------------------------------------------------------
(***************************************************************************)
(* The program with the flag.                                              *)
(***************************************************************************)
Install ==
  /\ prog = "volatile" /\ pc = "start"
  /\ pc' = "first"
  /\ UNCHANGED <<prog, build, blocked, pending, count, flag, missed>>

\* Mutation: the flag is looked at once in every build.
LookOnce ==
  /\ prog = "volatile"
  /\ pc = "first"
  /\ pc' = IF flag = 1 THEN "exited" ELSE "spin"
  /\ UNCHANGED <<prog, build, blocked, pending, count, flag, missed>>

\* The loop looks at flag; where the load is hoisted it does so once.
Look ==
  /\ prog = "volatile"
  /\ pc = "first" \/ (pc = "spin" /\ build = "rereads")
  /\ pc' = IF flag = 1 THEN "exited" ELSE "spin"
  /\ UNCHANGED <<prog, build, blocked, pending, count, flag, missed>>
-----------------------------------------------------------------------------
Main == Block \/ Round \/ Restore \/ Report \/ Install \/ Look

Next == Interrupt \/ InterruptBlocked \/ Main

Spec == Init /\ [][Next]_vars

\* The process is scheduled; nobody has to send a signal.
Fairness == WF_vars(Main)

FairSpec == Spec /\ Fairness
-----------------------------------------------------------------------------
(***************************************************************************)
(* Properties.                                                             *)
(***************************************************************************)
\* 信号屏蔽.c:56: who reads the line that the block is lifted reads that no
\* signal came while it was in force, not in any of the rounds; a signal that
\* did come has killed the process first, it is not lost and not forgotten.
ReportedOnlyIfQuiet == count >= Rounds /\ pc \in {"report", "round"} => ~ missed

\* A signal takes effect in the end: a blocked one kills the process when the
\* mask is put back, a caught one ends the loop, unless the loop read the flag
\* before it and never reads it again.
SignalTakesEffect ==
  /\ missed ~> (pc = "killed")
  /\ (flag = 1 /\ (build = "rereads" \/ pc = "first")) ~> (pc = "exited")
=============================================================================
