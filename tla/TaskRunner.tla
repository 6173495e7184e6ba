----------------------------- MODULE TaskRunner -----------------------------
(***************************************************************************)
(* What Ut::Thr::Wq::WorkQueue promises to those who push: each task is    *)
(* run once, and as often again as it asks for, never two at a time; what  *)
(* one thread pushes with one priority is begun in that order, and a call  *)
(* that waits returns when its task is through.                            *)
(***************************************************************************)
EXTENDS Naturals

CONSTANTS
  Pushers,     \* the other threads
  MaxRounds,   \* bound: times a continuous task asks to be run again
  NoTask       \* running when there is none

VARIABLES
  owed,        \* the tasks to be run
  running,     \* the task that is run
  nCalls,      \* calls of each thread; numbers its tasks
  waiting      \* the threads whose call waits

vars == <<owed, running, nCalls, waiting>>

Init ==
  /\ owed = {} /\ running = NoTask /\ waiting = {}
  /\ nCalls = [t \in Pushers |-> 0]

Submit(t, prio, waits, rounds) ==
  /\ t \notin waiting
  /\ nCalls' = [nCalls EXCEPT ![t] = @ + 1]
  /\ owed' = owed \cup {[by |-> t, n |-> nCalls'[t], prio |-> prio, waits |-> waits,
                         rounds |-> rounds, again |-> FALSE]}
  /\ waiting' = IF waits THEN waiting \cup {t} ELSE waiting
  /\ UNCHANGED running

\* y was pushed before x, by the same thread with the same priority.
Before(y, x) ==
  ~x.again /\ ~y.again /\ y.by = x.by /\ y.prio = x.prio /\ y.n < x.n

Take(x) ==
  /\ running = NoTask
  /\ x \in owed
  /\ \A y \in owed : ~Before(y, x)
  /\ running' = x /\ owed' = owed \ {x}
  /\ UNCHANGED <<nCalls, waiting>>

\* A continuous task is owed another run, as a task of the default priority.
Anew(x) ==
  [by |-> x.by, n |-> x.n, prio |-> 1, waits |-> x.waits, rounds |-> x.rounds - 1, again |-> TRUE]

Finish ==
  /\ running # NoTask
  /\ running' = NoTask
  /\ owed' = IF running.rounds = 0 THEN owed
             ELSE owed \cup {Anew(running)}
  /\ UNCHANGED <<nCalls, waiting>>

\* Whoever waits has one task, and it is through.
Return(t) ==
  /\ t \in waiting
  /\ \A x \in owed : x.by = t => ~x.waits
  /\ running # NoTask => running.by # t \/ ~running.waits
  /\ waiting' = waiting \ {t}
  /\ UNCHANGED <<owed, running, nCalls>>

Next ==
  \/ \E t \in Pushers, prio \in 0..2, waits \in BOOLEAN, rounds \in 0..MaxRounds :
       Submit(t, prio, waits, rounds)
  \/ \E x \in owed : Take(x)
  \/ Finish
  \/ \E t \in Pushers : Return(t)

Spec == Init /\ [][Next]_vars
=============================================================================
