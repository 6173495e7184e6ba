----------------------------- MODULE WorkQueue -----------------------------
(***************************************************************************)
(* Ut::Thr::Wq::WorkQueue: a FreeRTOS task that runs what other threads    *)
(* push, and suspends itself when it has found nothing to run.             *)
(*                                                                         *)
(* A push locks one queue at a time and then calls resume(); neither       *)
(* suspend() nor resume() is atomic with it or with the other.  Each read  *)
(* and write of the shared flag `suspended`, each vTaskSuspend and         *)
(* vTaskResume and each locked section is a step of its own.               *)
(***************************************************************************)
EXTENDS Naturals, Sequences, FiniteSets

CONSTANTS
  Pushers,     \* the other threads
  MaxCalls,    \* bound: calls that each of them makes
  MaxRounds,   \* bound: times a continuous task asks to be run again
  SameCore     \* TRUE: the pushers share the work queue's core at a lower priority, and
               \* run only while it is suspended

ASSUME QueueAssumption ==
  /\ Pushers # {}
  /\ MaxCalls \in Nat \ {0}
  /\ MaxRounds \in Nat
  /\ SameCore \in BOOLEAN

VARIABLES
  queues,     \* PrioTaskVariantQueue::queues, one per priority
  suspended,  \* FreertosTask::suspended
  asleep,     \* FreeRTOS: the work queue's task is suspended
  wqPc,       \* where run() is, see WorkerPoints
  scanAt,     \* the queue that pop() is about to lock
  task,       \* the task it has popped
  pc,         \* where each pusher is, see PusherPoints
  call,       \* the call it is in: its kind and the resume() calls left in it
  sem,        \* the pusher's own semaphore, on its stack
  nCalls,     \* calls each pusher has begun (history, for the bound)
  lastRun     \* per pusher and priority: number of the last task begun (history)

workerVars == <<wqPc, scanAt, task>>
pusherVars == <<pc, call, nCalls>>
vars == <<queues, suspended, asleep, workerVars, pusherVars, sem, lastRun>>

\* enum class TaskPrio { Lowest, Default, Tracker }
Prios == 0..2
Default == 1

Kinds == {"push", "pushWait", "pushContinuous", "pushContinuousWait"}
Waits(kind) == kind \in {"pushWait", "pushContinuousWait"}

\* How often a call ends in resume(): push does, and so does each of its callers.
Resumes(kind) ==
  CASE kind = "push" -> 1
    [] kind \in {"pushWait", "pushContinuous"} -> 2
    [] kind = "pushContinuousWait" -> 3

\* The n-th task of thread `by`.  `rounds` is the number of times a continuous task will
\* still ask to be run again, `again` says that it has asked already.
Task == [by : Pushers, n : 1..MaxCalls, prio : Prios, waits : BOOLEAN,
         rounds : 0..MaxRounds, again : BOOLEAN]
NoTask == [none |-> TRUE]

WorkerPoints == {"scan", "run", "mark", "suspend"}
PusherPoints == {"idle", "check", "clear", "resume", "acquire"}

\* Type invariant.  A task in the queues or in run() never has rounds left below zero, and
\* run() holds a task exactly while it is about to run it.
TypeOK ==
  /\ queues \in [Prios -> Seq(Task)]
  /\ suspended \in BOOLEAN
  /\ asleep \in BOOLEAN
  /\ wqPc \in WorkerPoints
  /\ scanAt \in Prios
  /\ task \in Task \cup {NoTask}
  /\ (wqPc = "run") <=> (task # NoTask)
  /\ pc \in [Pushers -> PusherPoints]
  /\ call \in [Pushers -> [waits : BOOLEAN, left : 0..3]]
  /\ sem \in [Pushers -> BOOLEAN]
  /\ nCalls \in [Pushers -> 0..MaxCalls]
  /\ lastRun \in [Pushers -> [Prios -> 0..MaxCalls]]

Init ==
  /\ queues = [p \in Prios |-> <<>>]
  /\ suspended = FALSE
  /\ asleep = FALSE
  /\ wqPc = "scan"
  /\ scanAt = 0
  /\ task = NoTask
  /\ pc = [t \in Pushers |-> "idle"]
  /\ call = [t \in Pushers |-> [waits |-> FALSE, left |-> 0]]
  /\ sem = [t \in Pushers |-> FALSE]
  /\ nCalls = [t \in Pushers |-> 0]
  /\ lastRun = [t \in Pushers |-> [p \in Prios |-> 0]]
-----------------------------------------------------------------------------
(* The work queue's task: run(). *)

Enqueue(q, t) == [q EXCEPT ![t.prio] = Append(@, t)]

\* Mutant: the task is read and stays where it is.
Dequeue_Peek(q) == <<Head(q), q>>

\* TaskVariantQueue::pop: what is taken and what is left
Dequeue(q) == <<Head(q), Tail(q)>>

\* PrioTaskVariantQueue::pop looks into one queue after the other, the lowest first.
Scan ==
  /\ ~asleep
  /\ wqPc = "scan"
  /\ IF queues[scanAt] # <<>>
     THEN LET d == Dequeue(queues[scanAt])
          IN /\ queues' = [queues EXCEPT ![scanAt] = d[2]]
             /\ task' = d[1]
             /\ wqPc' = "run"
             /\ scanAt' = 0
     ELSE /\ IF scanAt = 2
             THEN wqPc' = "mark" /\ scanAt' = 0
             ELSE scanAt' = scanAt + 1 /\ UNCHANGED wqPc
          /\ UNCHANGED <<queues, task>>
  /\ UNCHANGED <<suspended, asleep, pusherVars, sem, lastRun>>

\* Mutant: the result of a continuous task is looked at the wrong way round.
Release_WhenContinued == task.waits /\ task.rounds > 0

\* The semaphore of a waiting pusher is released once its task is through.
Release == task.waits /\ task.rounds = 0

\* Mutant: a task is pushed back whatever it has returned.
PushedBack_Always == task.rounds >= 0

PushedBack == task.rounds > 0

\* A continuous task is pushed again as a default one ...
Again == [by |-> task.by, n |-> task.n, prio |-> Default, waits |-> task.waits,
          rounds |-> task.rounds - 1, again |-> TRUE]

\* ... by a pushContinuous() on this thread; its resume() only clears the flag.
Run ==
  /\ ~asleep
  /\ wqPc = "run"
  /\ lastRun' = IF task.again THEN lastRun
                ELSE [lastRun EXCEPT ![task.by][task.prio] = task.n]
  /\ IF PushedBack
     THEN /\ queues' = Enqueue(queues, Again)
          /\ suspended' = FALSE
     ELSE UNCHANGED <<queues, suspended>>
  /\ sem' = IF Release THEN [sem EXCEPT ![task.by] = TRUE] ELSE sem
  /\ task' = NoTask
  /\ wqPc' = "scan"
  /\ UNCHANGED <<asleep, scanAt, pusherVars>>

\* suspend(): the flag first, then vTaskSuspend.
Mark ==
  /\ ~asleep
  /\ wqPc = "mark"
  /\ suspended' = TRUE
  /\ wqPc' = "suspend"
  /\ UNCHANGED <<queues, asleep, scanAt, task, pusherVars, sem, lastRun>>

Suspend ==
  /\ ~asleep
  /\ wqPc = "suspend"
  /\ asleep' = TRUE
  /\ wqPc' = "scan"
  /\ UNCHANGED <<queues, suspended, scanAt, task, pusherVars, sem, lastRun>>

Worker == Scan \/ Run \/ Mark \/ Suspend
-----------------------------------------------------------------------------
(* A pusher. *)

MayRun == SameCore => asleep

\* A call that waits has a semaphore of its own, created without a free slot.
Begin(t, kind) ==
  /\ call' = [call EXCEPT ![t] = [waits |-> Waits(kind), left |-> Resumes(kind)]]
  /\ sem' = [sem EXCEPT ![t] = FALSE]

\* push: the task is queued.  Continuous tasks get the default priority whatever the caller
\* has asked for.
Push(t, kind, prio, rounds) ==
  /\ pc[t] = "idle"
  /\ MayRun
  /\ nCalls[t] < MaxCalls
  /\ kind \in {"push", "pushWait"} => rounds = 0
  /\ nCalls' = [nCalls EXCEPT ![t] = @ + 1]
  /\ queues' = Enqueue(queues,
        [by |-> t, n |-> nCalls[t] + 1, waits |-> Waits(kind), rounds |-> rounds,
         again |-> FALSE, prio |-> IF kind \in {"push", "pushWait"} THEN prio ELSE Default])
  /\ Begin(t, kind)
  /\ pc' = [pc EXCEPT ![t] = "check"]
  /\ UNCHANGED <<suspended, asleep, workerVars, lastRun>>

\* Where a pusher goes after a resume(), with `left` more to come.
After(t, left) ==
  IF left > 0 THEN "check" ELSE IF call[t].waits THEN "acquire" ELSE "idle"

EndResume(t) ==
  /\ call' = [call EXCEPT ![t].left = @ - 1]
  /\ pc' = [pc EXCEPT ![t] = After(t, call[t].left - 1)]

\* Mutant: resume() does nothing.
Check_Never(t) ==
  /\ pc[t] = "check"
  /\ MayRun
  /\ EndResume(t)
  /\ UNCHANGED <<queues, suspended, asleep, workerVars, sem, nCalls, lastRun>>

\* resume(): if (suspended)
Check(t) ==
  /\ pc[t] = "check"
  /\ MayRun
  /\ IF suspended
     THEN pc' = [pc EXCEPT ![t] = "clear"] /\ UNCHANGED call
     ELSE EndResume(t)
  /\ UNCHANGED <<queues, suspended, asleep, workerVars, sem, nCalls, lastRun>>

\* suspended = false
Clear(t) ==
  /\ pc[t] = "clear"
  /\ MayRun
  /\ suspended' = FALSE
  /\ pc' = [pc EXCEPT ![t] = "resume"]
  /\ UNCHANGED <<queues, asleep, workerVars, call, sem, nCalls, lastRun>>

\* vTaskResume: nothing happens to a task that is not suspended.
Resume(t) ==
  /\ pc[t] = "resume"
  /\ MayRun
  /\ asleep' = FALSE
  /\ EndResume(t)
  /\ UNCHANGED <<queues, suspended, workerVars, sem, nCalls, lastRun>>

\* sem.acquire() returns, and the frame with the task and the semaphore is gone.
Acquire(t) ==
  /\ pc[t] = "acquire"
  /\ MayRun
  /\ sem[t]
  /\ sem' = [sem EXCEPT ![t] = FALSE]
  /\ pc' = [pc EXCEPT ![t] = "idle"]
  /\ UNCHANGED <<queues, suspended, asleep, workerVars, call, nCalls, lastRun>>

InResume(t) == Check(t) \/ Clear(t) \/ Resume(t)

Next ==
  \/ Worker
  \/ \E t \in Pushers, kind \in Kinds, prio \in Prios, rounds \in 0..MaxRounds :
       Push(t, kind, prio, rounds)
  \/ \E t \in Pushers : InResume(t) \/ Acquire(t)

Spec == Init /\ [][Next]_vars

\* FreeRTOS runs the work queue's task when it is not suspended, and every thread that is
\* inside a call.  Nothing makes a thread call.
FairSpec ==
  /\ Spec
  /\ WF_vars(Worker)
  /\ \A t \in Pushers : WF_vars(InResume(t)) /\ WF_vars(Acquire(t))
-----------------------------------------------------------------------------
(* Properties. *)

Queued(t) == \E p \in Prios : \E i \in 1..Len(queues[p]) : queues[p][i].by = t /\ queues[p][i].waits
Waiting(t) == pc[t] # "idle" /\ call[t].waits

\* pushWait and pushContinuousWait put references to their own frame into the task: such a
\* task is never queued or run after its frame is gone.
FrameOutlivesTask ==
  \A t \in Pushers :
    Queued(t) \/ (task # NoTask /\ task.by = t /\ task.waits) => Waiting(t)

\* A waiting pusher's task is either on its way or has released the semaphore: it cannot
\* get lost between the queues, whatever other pushers do.
WaiterHasTask ==
  \A t \in Pushers :
    Waiting(t) => Queued(t) \/ (task # NoTask /\ task.by = t /\ task.waits) \/ sem[t]

\* pushWait and pushContinuousWait share a frame with the queue soundly: neither outlives the
\* other's use of it, and the call is always given its answer (WorkQueue.hpp:63-112).
WaitIsSound == FrameOutlivesTask /\ WaiterHasTask

\* Tasks that one thread has pushed with one priority begin in the order they were pushed
\* in, although they are popped queue by queue while others push and push back.
BegunInOrder ==
  [][\A t \in Pushers, p \in Prios : lastRun[t][p] <= lastRun'[t][p]]_vars

Owed == UNION {{queues[p][i] : i \in 1..Len(queues[p])} : p \in Prios}

Runner == INSTANCE TaskRunner WITH
            owed <- Owed, running <- task, waiting <- {t \in Pushers : Waiting(t)}

\* Whatever is pushed meanwhile, from any core, and wherever the work queue is in between its
\* looking, sleeping and waking up: each task is run once and as often again as it asks for, none
\* twice and none lost, in its thread's order, and nobody who waits for it goes on before
\* (WorkQueue.hpp:45-133, PrioTaskVariantQueue.cpp:17-31, TaskVariantQueue.cpp:26-38).
TasksRunAsPushed == Runner!Spec

\* A call that waits returns (pushWait, pushContinuousWait).
WaitReturns == \A t \in Pushers : Waiting(t) ~> ~Waiting(t)

\* What has been pushed does not stay in the queues for good (run).
PushedIsRun == []<>(\A p \in Prios : queues[p] = <<>>)

\* Both, for pushers on the work queue's own core: every push is served.
PushesServed == WaitReturns /\ PushedIsRun
-----------------------------------------------------------------------------
(* Expected of this code and not kept by it: see README.md. *)

\* If the work queue sleeps on something to run, the next push wakes it: its flag is still
\* set, or a resume() is on its way.
SleeperCanBeWoken ==
  asleep /\ (\E p \in Prios : queues[p] # <<>>) =>
    suspended \/ \E t \in Pushers : pc[t] = "resume"
=============================================================================
