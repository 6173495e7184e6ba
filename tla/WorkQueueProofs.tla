--------------------------- MODULE WorkQueueProofs ---------------------------
(***************************************************************************)
(* Theorems about WorkQueue, for any number of pushers, calls and rounds,  *)
(* on one core or on two.                                                  *)
(***************************************************************************)
EXTENDS WorkQueue, TLAPS
-----------------------------------------------------------------------------
(* The queues *)

USE QueueAssumption

\* A new task goes behind the others of its priority.
LEMMA EnqueueFacts ==
  ASSUME NEW qs \in [Prios -> Seq(Task)], NEW x \in Task
  PROVE  /\ Enqueue(qs, x) \in [Prios -> Seq(Task)]
         /\ \A p \in Prios :
              /\ DOMAIN Enqueue(qs, x)[p] = 1..(IF p = x.prio THEN Len(qs[p]) + 1 ELSE Len(qs[p]))
              /\ Len(Enqueue(qs, x)[p]) = IF p = x.prio THEN Len(qs[p]) + 1 ELSE Len(qs[p])
              /\ Len(qs[p]) \in Nat
              /\ \A i \in 1..Len(qs[p]) : Enqueue(qs, x)[p][i] = qs[p][i]
              /\ p = x.prio => Enqueue(qs, x)[p][Len(qs[p]) + 1] = x
<1>1. x.prio \in Prios
  BY DEF Task
<1>2. \A p \in Prios : Enqueue(qs, x)[p] = IF p = x.prio THEN Append(qs[p], x) ELSE qs[p]
  BY <1>1 DEF Enqueue
<1>3. \A p \in Prios : qs[p] \in Seq(Task)
  OBVIOUS
<1>4. \A s \in Seq(Task) :
        /\ Append(s, x) \in Seq(Task) /\ Len(Append(s, x)) = Len(s) + 1 /\ Len(s) \in Nat
        /\ DOMAIN Append(s, x) = 1..(Len(s) + 1) /\ DOMAIN s = 1..Len(s)
        /\ \A i \in 1..Len(s) : Append(s, x)[i] = s[i]
        /\ Append(s, x)[Len(s) + 1] = x
  OBVIOUS
<1>5. Enqueue(qs, x) \in [Prios -> Seq(Task)]
  BY <1>1, <1>3, <1>4 DEF Enqueue
<1>6. QED  BY <1>2, <1>3, <1>4, <1>5

\* The queues after the first task has been taken from one: the others of that queue move up.
Taken(qs, p0) == [qs EXCEPT ![p0] = Dequeue(qs[p0])[2]]

LEMMA DequeueFacts ==
  ASSUME NEW qs \in [Prios -> Seq(Task)], NEW p0 \in Prios, qs[p0] # <<>>
  PROVE  /\ Taken(qs, p0) \in [Prios -> Seq(Task)]
         /\ Dequeue(qs[p0])[1] = qs[p0][1] /\ qs[p0][1] \in Task
         /\ Len(qs[p0]) \in Nat \ {0}
         /\ \A p \in Prios :
              /\ Len(Taken(qs, p0)[p]) = IF p = p0 THEN Len(qs[p]) - 1 ELSE Len(qs[p])
              /\ Len(qs[p]) \in Nat
              /\ p # p0 => Taken(qs, p0)[p] = qs[p]
         /\ \A i \in 1..(Len(qs[p0]) - 1) : Taken(qs, p0)[p0][i] = qs[p0][i + 1]
<1>1. qs[p0] \in Seq(Task) /\ \A p \in Prios : qs[p] \in Seq(Task) /\ Len(qs[p]) \in Nat
  OBVIOUS
<1>2. \A s \in Seq(Task) :
        s # <<>> => /\ Tail(s) \in Seq(Task) /\ Head(s) = s[1] /\ s[1] \in Task
                    /\ Len(s) \in Nat \ {0} /\ Len(Tail(s)) = Len(s) - 1
                    /\ \A i \in 1..(Len(s) - 1) : Tail(s)[i] = s[i + 1]
  OBVIOUS
<1>3. Dequeue(qs[p0])[1] = Head(qs[p0]) /\ Taken(qs, p0) = [qs EXCEPT ![p0] = Tail(qs[p0])]
  BY DEF Dequeue, Taken
<1>4. QED  BY <1>1, <1>2, <1>3

\* What run() takes next: a task, and the first of its queue.
LEMMA FirstIsTask ==
  ASSUME NEW qs \in [Prios -> Seq(Task)], NEW p0 \in Prios, qs[p0] # <<>>
  PROVE  /\ Dequeue(qs[p0])[1] = qs[p0][1] /\ Dequeue(qs[p0])[1] \in Task
         /\ Len(qs[p0]) \in Nat \ {0}
BY DequeueFacts
-----------------------------------------------------------------------------
(* Types *)

LEMMA TaskIsNotNoTask == NoTask \notin Task
BY DEF NoTask, Task

LEMMA InitType == Init => TypeOK
<1>1. SUFFICES ASSUME Init PROVE TypeOK
  OBVIOUS
<1>2. queues \in [Prios -> Seq(Task)]
  BY <1>1 DEF Init
<1>3. call \in [Pushers -> [waits : BOOLEAN, left : 0..3]] /\ 0 \in 0..MaxCalls
  BY <1>1 DEF Init
<1>4. lastRun \in [Pushers -> [Prios -> 0..MaxCalls]] /\ nCalls \in [Pushers -> 0..MaxCalls]
  BY <1>1, <1>3 DEF Init
<1>5. (wqPc = "run") = FALSE /\ (task # NoTask) = FALSE
  BY <1>1 DEF Init
<1>6. pc \in [Pushers -> PusherPoints] /\ sem \in [Pushers -> BOOLEAN]
  BY <1>1 DEF Init, PusherPoints
<1>7. wqPc \in WorkerPoints /\ suspended \in BOOLEAN /\ asleep \in BOOLEAN
  BY <1>1, Zenon DEF Init, WorkerPoints
<1>9. scanAt \in Prios
  BY <1>1, SMT DEF Init, Prios
<1>8. task \in Task \cup {NoTask}
  BY <1>1 DEF Init
<1>10. QED  BY <1>2, <1>3, <1>4, <1>5, <1>6, <1>7, <1>8, <1>9 DEF TypeOK

LEMMA ScanType == TypeOK /\ Scan => TypeOK'
<1>1. SUFFICES ASSUME TypeOK, Scan PROVE TypeOK'
  OBVIOUS
<1>2. CASE queues[scanAt] # <<>>
  <2>1. /\ queues' = [queues EXCEPT ![scanAt] = Dequeue(queues[scanAt])[2]]
        /\ task' = Dequeue(queues[scanAt])[1]
        /\ wqPc' = "run" /\ scanAt' = 0
    BY <1>1, <1>2 DEF Scan
  <2>2. queues' \in [Prios -> Seq(Task)] /\ task' \in Task
    <3>1. queues \in [Prios -> Seq(Task)] /\ scanAt \in Prios
      BY <1>1 DEF TypeOK
    <3>2. queues' = Taken(queues, scanAt)
      BY <2>1 DEF Taken
    <3>3. queues' \in [Prios -> Seq(Task)]
      BY <1>2, <3>1, <3>2, DequeueFacts
    <3>4. task' \in Task
      BY <1>2, <2>1, <3>1, FirstIsTask
    <3>5. QED  BY <3>3, <3>4
  <2>3. QED  BY <1>1, <2>1, <2>2, TaskIsNotNoTask
             DEF TypeOK, Scan, Prios, WorkerPoints, pusherVars
<1>3. CASE queues[scanAt] = <<>>
  BY <1>1, <1>3 DEF TypeOK, Scan, Prios, WorkerPoints, pusherVars
<1>4. QED  BY <1>2, <1>3

\* The task that is run asks to be run again: it is pushed back with one round less.
LEMMA PushedBackType ==
  ASSUME TypeOK, wqPc = "run"
  PROVE  /\ task \in Task /\ task.by \in Pushers /\ task.n \in 1..MaxCalls /\ task.prio \in Prios
         /\ task.rounds \in 0..MaxRounds /\ task.waits \in BOOLEAN
         /\ PushedBack => /\ Again \in Task /\ Again.by = task.by /\ Again.n = task.n
                          /\ Again.waits = task.waits /\ Again.prio = Default /\ Again.again
<1>1. task \in Task
  BY DEF TypeOK
<1>2. /\ task.by \in Pushers /\ task.n \in 1..MaxCalls /\ task.prio \in Prios
      /\ task.rounds \in 0..MaxRounds /\ task.waits \in BOOLEAN /\ task.again \in BOOLEAN
  BY <1>1 DEF Task
<1>3. ASSUME PushedBack PROVE Again \in Task
  <2>1. task.rounds - 1 \in 0..MaxRounds /\ Default \in Prios
    BY <1>2, <1>3 DEF PushedBack, Default, Prios
  <2>2. QED  BY <1>2, <2>1 DEF Task, Again
<1>4. QED  BY <1>1, <1>2, <1>3 DEF Again

LEMMA RunType == TypeOK /\ Run => TypeOK'
<1>1. SUFFICES ASSUME TypeOK, Run PROVE TypeOK'
  OBVIOUS
<1>2. wqPc = "run"
  BY <1>1 DEF Run
<1>3. queues' \in [Prios -> Seq(Task)] /\ suspended' \in BOOLEAN
  <2>1. queues \in [Prios -> Seq(Task)] /\ suspended \in BOOLEAN
    BY <1>1 DEF TypeOK
  <2>2. CASE PushedBack
    <3>1. queues' = Enqueue(queues, Again) /\ suspended' = FALSE
      BY <1>1, <2>2 DEF Run
    <3>2. Again \in Task
      BY <1>1, <1>2, <2>2, PushedBackType
    <3>3. QED  BY <2>1, <3>1, <3>2, EnqueueFacts
  <2>3. CASE ~PushedBack
    BY <1>1, <2>1, <2>3 DEF Run
  <2>4. QED  BY <2>2, <2>3
<1>4. lastRun' \in [Pushers -> [Prios -> 0..MaxCalls]]
  <2>1. task.n \in 0..MaxCalls
    BY <1>1, <1>2, PushedBackType
  <2>2. QED  BY <1>1, <1>2, <2>1, PushedBackType DEF Run, TypeOK
<1>5. sem' \in [Pushers -> BOOLEAN]
  BY <1>1, <1>2, PushedBackType DEF Run, TypeOK
<1>6. QED  BY <1>1, <1>3, <1>4, <1>5 DEF Run, TypeOK, WorkerPoints, pusherVars

\* What a call pushes is a task.
Pushed(t, kind, prio, rounds) ==
  [by |-> t, n |-> nCalls[t] + 1, waits |-> Waits(kind), rounds |-> rounds,
   again |-> FALSE, prio |-> IF kind \in {"push", "pushWait"} THEN prio ELSE Default]

LEMMA PushedIsTask ==
  ASSUME TypeOK, NEW t \in Pushers, NEW kind \in Kinds, NEW prio \in Prios,
         NEW rounds \in 0..MaxRounds, nCalls[t] < MaxCalls
  PROVE  Pushed(t, kind, prio, rounds) \in Task
<1>1. nCalls[t] + 1 \in 1..MaxCalls
  BY DEF TypeOK
<1>2. QED  BY <1>1 DEF Pushed, Task, Default, Prios, Waits

LEMMA PushType ==
  ASSUME TypeOK, NEW t \in Pushers, NEW kind \in Kinds, NEW prio \in Prios,
         NEW rounds \in 0..MaxRounds, Push(t, kind, prio, rounds)
  PROVE  TypeOK'
<1>1. queues' \in [Prios -> Seq(Task)]
  <2>1. Pushed(t, kind, prio, rounds) \in Task
    BY PushedIsTask DEF Push
  <2>2. queues' = Enqueue(queues, Pushed(t, kind, prio, rounds))
    BY DEF Push, Pushed
  <2>3. queues \in [Prios -> Seq(Task)]
    BY DEF TypeOK
  <2>4. QED  BY <2>1, <2>2, <2>3, EnqueueFacts
<1>2. nCalls' \in [Pushers -> 0..MaxCalls]
  BY DEF Push, TypeOK
<1>3. call' \in [Pushers -> [waits : BOOLEAN, left : 0..3]]
  BY DEF Push, TypeOK, Begin, Waits, Resumes, Kinds
<1>4. sem' \in [Pushers -> BOOLEAN] /\ pc' \in [Pushers -> PusherPoints]
  BY DEF Push, TypeOK, Begin, PusherPoints
<1>5. QED  BY <1>1, <1>2, <1>3, <1>4 DEF Push, TypeOK, workerVars

\* A pusher in resume() has one to finish.
ResumesLeft == \A t \in Pushers : pc[t] \in {"check", "clear", "resume"} => call[t].left > 0

TypeInv == TypeOK /\ ResumesLeft

LEMMA EndResumeType ==
  ASSUME TypeOK, NEW t \in Pushers, call[t].left > 0, EndResume(t)
  PROVE  /\ call' \in [Pushers -> [waits : BOOLEAN, left : 0..3]]
         /\ pc' \in [Pushers -> PusherPoints]
         /\ \A u \in Pushers : /\ call'[u].waits = call[u].waits
                               /\ u # t => call'[u] = call[u] /\ pc'[u] = pc[u]
         /\ pc'[t] = IF call'[t].left > 0 THEN "check"
                     ELSE IF call[t].waits THEN "acquire" ELSE "idle"
<1>1. call[t] \in [waits : BOOLEAN, left : 0..3]
  BY DEF TypeOK
<1>2. [call[t] EXCEPT !.left = @ - 1] \in [waits : BOOLEAN, left : 0..3]
  BY <1>1
<1>3. QED  BY <1>1, <1>2 DEF EndResume, After, TypeOK, PusherPoints

LEMMA InResumeType ==
  ASSUME TypeInv, NEW t \in Pushers, InResume(t)
  PROVE  TypeInv'
<1>1. call[t].left > 0 /\ pc[t] \in {"check", "clear", "resume"}
  BY DEF TypeInv, ResumesLeft, InResume, Check, Clear, Resume
<1>2. CASE EndResume(t)
  BY <1>1, <1>2, EndResumeType
     DEF TypeInv, TypeOK, ResumesLeft, InResume, Check, Clear, Resume, workerVars
<1>3. CASE UNCHANGED call /\ pc' \in {[pc EXCEPT ![t] = "clear"], [pc EXCEPT ![t] = "resume"]}
  BY <1>1, <1>3
     DEF TypeInv, TypeOK, ResumesLeft, InResume, Check, Clear, Resume, workerVars, PusherPoints
<1>4. QED  BY <1>2, <1>3 DEF InResume, Check, Clear, Resume

LEMMA TypeStep == TypeInv /\ [Next]_vars => TypeInv'
<1>1. SUFFICES ASSUME TypeInv, [Next]_vars PROVE TypeInv'
  OBVIOUS
<1>2. CASE Worker
  <2>1. TypeOK'
    <3>1. CASE Scan  BY <1>1, <3>1, ScanType DEF TypeInv
    <3>2. CASE Run  BY <1>1, <3>2, RunType DEF TypeInv
    <3>3. CASE Mark
      BY <1>1, <3>3 DEF TypeInv, TypeOK, Mark, WorkerPoints, pusherVars
    <3>4. CASE Suspend
      BY <1>1, <3>4 DEF TypeInv, TypeOK, Suspend, WorkerPoints, pusherVars
    <3>5. QED  BY <1>2, <3>1, <3>2, <3>3, <3>4 DEF Worker
  <2>2. UNCHANGED <<pc, call>>
    BY <1>2 DEF Worker, Scan, Run, Mark, Suspend, pusherVars
  <2>3. QED  BY <1>1, <2>1, <2>2 DEF TypeInv, ResumesLeft
<1>3. ASSUME NEW t \in Pushers, NEW kind \in Kinds, NEW prio \in Prios,
             NEW rounds \in 0..MaxRounds, Push(t, kind, prio, rounds)
      PROVE  TypeInv'
  <2>1. TypeOK'
    BY <1>1, <1>3, PushType DEF TypeInv
  <2>2. ResumesLeft'
    <3>1. Resumes(kind) > 0
      BY DEF Resumes, Kinds
    <3>2. QED  BY <1>1, <1>3, <3>1 DEF TypeInv, TypeOK, ResumesLeft, Push, Begin
  <2>3. QED  BY <2>1, <2>2 DEF TypeInv
<1>4. ASSUME NEW t \in Pushers, InResume(t) PROVE TypeInv'
  BY <1>1, <1>4, InResumeType
<1>5. ASSUME NEW t \in Pushers, Acquire(t) PROVE TypeInv'
  BY <1>1, <1>5 DEF TypeInv, TypeOK, ResumesLeft, Acquire, workerVars, PusherPoints
<1>6. CASE UNCHANGED vars
  BY <1>1, <1>6 DEF TypeInv, TypeOK, ResumesLeft, vars, workerVars, pusherVars
<1>7. QED  BY <1>1, <1>2, <1>3, <1>4, <1>5, <1>6 DEF Next

LEMMA TypeInvHolds == Spec => []TypeInv
<1>1. Init => TypeInv
  BY InitType DEF Init, TypeInv, ResumesLeft
<1>2. QED  BY <1>1, TypeStep, PTL DEF Spec

\* For any number of pushers, calls and rounds the variables stay in their types, and run() holds
\* a task exactly while it is about to run it (WorkQueue.hpp:116-129).
THEOREM TypeCorrect == Spec => []TypeOK
<1>1. TypeInv => TypeOK
  BY DEF TypeInv
<1>2. QED  BY <1>1, TypeInvHolds, PTL
-----------------------------------------------------------------------------
(* Frames and waiters *)

\* A task of a waiting call of t is at place i of queue p.
QueuedAt(qs, p, i, t) == i \in 1..Len(qs[p]) /\ qs[p][i].by = t /\ qs[p][i].waits

\* run() holds such a task.
Held(t) == task # NoTask /\ task.by = t /\ task.waits

LEMMA QueuedIsAt ==
  ASSUME TypeOK, NEW t \in Pushers
  PROVE  Queued(t) <=> \E p \in Prios : \E i \in Nat : QueuedAt(queues, p, i, t)
<1>1. \A p \in Prios : Len(queues[p]) \in Nat
  BY DEF TypeOK
<1>2. QED  BY <1>1 DEF Queued, QueuedAt

\* Where the waiting tasks are after a push.
LEMMA EnqueuedAt ==
  ASSUME NEW qs \in [Prios -> Seq(Task)], NEW x \in Task,
         NEW p \in Prios, NEW i \in Nat, NEW t \in Pushers
  PROVE  QueuedAt(Enqueue(qs, x), p, i, t) <=>
           \/ QueuedAt(qs, p, i, t)
           \/ p = x.prio /\ i = Len(qs[p]) + 1 /\ x.by = t /\ x.waits
<1>1. /\ Len(Enqueue(qs, x)[p]) = IF p = x.prio THEN Len(qs[p]) + 1 ELSE Len(qs[p])
      /\ Len(qs[p]) \in Nat
      /\ \A k \in 1..Len(qs[p]) : Enqueue(qs, x)[p][k] = qs[p][k]
      /\ p = x.prio => Enqueue(qs, x)[p][Len(qs[p]) + 1] = x
  BY EnqueueFacts
<1>2. CASE i = Len(qs[p]) + 1
  BY <1>1, <1>2 DEF QueuedAt
<1>3. CASE i # Len(qs[p]) + 1
  <2>1. i \in 1..Len(Enqueue(qs, x)[p]) <=> i \in 1..Len(qs[p])
    BY <1>1, <1>3
  <2>2. QED  BY <1>1, <1>3, <2>1 DEF QueuedAt
<1>4. QED  BY <1>2, <1>3

\* Where the waiting tasks are after one has been taken.
LEMMA DequeuedAt ==
  ASSUME NEW qs \in [Prios -> Seq(Task)], NEW p0 \in Prios, qs[p0] # <<>>,
         NEW p \in Prios, NEW i \in Nat, NEW t \in Pushers
  PROVE  QueuedAt(Taken(qs, p0), p, i, t) <=>
           IF p = p0 THEN i >= 1 /\ QueuedAt(qs, p, i + 1, t) ELSE QueuedAt(qs, p, i, t)
<1> DEFINE rest == Taken(qs, p0)
<1>1. /\ Len(rest[p]) = IF p = p0 THEN Len(qs[p]) - 1 ELSE Len(qs[p])
      /\ Len(qs[p]) \in Nat /\ Len(qs[p0]) \in Nat \ {0}
      /\ p # p0 => rest[p] = qs[p]
      /\ \A k \in 1..(Len(qs[p0]) - 1) : rest[p0][k] = qs[p0][k + 1]
  BY DequeueFacts
<1>2. CASE p # p0
  BY <1>1, <1>2 DEF QueuedAt, rest
<1>3. CASE p = p0
  <2>1. i \in 1..Len(rest[p]) <=> i >= 1 /\ i + 1 \in 1..Len(qs[p])
    BY <1>1, <1>3
  <2>2. i \in 1..Len(rest[p]) => rest[p][i] = qs[p][i + 1]
    BY <1>1, <1>3
  <2>3. QED  BY <1>3, <2>1, <2>2 DEF QueuedAt, rest
<1>4. QED  BY <1>2, <1>3

LEMMA TakenIsFirst ==
  ASSUME NEW qs \in [Prios -> Seq(Task)], NEW p0 \in Prios, qs[p0] # <<>>, NEW t
  PROVE  QueuedAt(qs, p0, 1, t) <=> Dequeue(qs[p0])[1].by = t /\ Dequeue(qs[p0])[1].waits
<1>1. Dequeue(qs[p0])[1] = qs[p0][1] /\ Len(qs[p0]) \in Nat \ {0}
  BY FirstIsTask
<1>2. QED  BY <1>1 DEF QueuedAt

\* A call that waits has one task, wherever it is, and none once its semaphore is released.
AtMostOne(qs, t) ==
  \A p, q \in Prios : \A i, j \in Nat :
    QueuedAt(qs, p, i, t) /\ QueuedAt(qs, q, j, t) => p = q /\ i = j

InQueues(qs, t) == \E p \in Prios : \E i \in Nat : QueuedAt(qs, p, i, t)

OneTask(t) ==
  /\ AtMostOne(queues, t)
  /\ Held(t) => ~InQueues(queues, t)
  /\ sem[t] => ~Held(t) /\ ~InQueues(queues, t)

FrameOf(t) ==
  /\ OneTask(t)
  /\ InQueues(queues, t) \/ Held(t) => Waiting(t)
  /\ Waiting(t) => InQueues(queues, t) \/ Held(t) \/ sem[t]

FrameInv == TypeInv /\ \A t \in Pushers : FrameOf(t)

LEMMA FramesAreSafe == FrameInv => FrameOutlivesTask /\ WaiterHasTask
<1>1. SUFFICES ASSUME FrameInv PROVE FrameOutlivesTask /\ WaiterHasTask
  OBVIOUS
<1>2. \A t \in Pushers : Queued(t) <=> InQueues(queues, t)
  BY <1>1, QueuedIsAt DEF InQueues, FrameInv, TypeInv
<1>3. QED  BY <1>1, <1>2 DEF FrameInv, FrameOf, FrameOutlivesTask, WaiterHasTask, Held

\* Taking a task moves it from a queue to run().
LEMMA ScanFrame ==
  ASSUME FrameInv, Scan, NEW t \in Pushers
  PROVE  FrameOf(t)'
<1>1. TypeOK /\ FrameOf(t) /\ task = NoTask /\ UNCHANGED <<pc, call, sem>>
  BY DEF FrameInv, TypeInv, TypeOK, Scan, pusherVars
<1>2. Waiting(t)' <=> Waiting(t)
  BY <1>1 DEF Waiting
<1>3. CASE queues[scanAt] = <<>>
  <2>1. UNCHANGED <<queues, task>>
    BY <1>3 DEF Scan
  <2>2. Held(t)' = Held(t) /\ InQueues(queues', t) = InQueues(queues, t)
        /\ AtMostOne(queues', t) = AtMostOne(queues, t)
    BY <2>1 DEF Held
  <2>3. QED  BY <1>1, <1>2, <2>2 DEF FrameOf, OneTask
<1>4. CASE queues[scanAt] # <<>>
  <2>1. /\ queues' = [queues EXCEPT ![scanAt] = Dequeue(queues[scanAt])[2]]
        /\ task' = Dequeue(queues[scanAt])[1]
    BY <1>4 DEF Scan
  <2>2. queues \in [Prios -> Seq(Task)] /\ scanAt \in Prios
    BY <1>1 DEF TypeOK
  <2>3. task' \in Task /\ task' # NoTask
    <3>1. task' \in Task
      BY <1>4, <2>1, <2>2, FirstIsTask
    <3>2. QED  BY <3>1, TaskIsNotNoTask
  <2>4. \A p \in Prios : \A i \in Nat :
          QueuedAt(queues', p, i, t) <=>
            IF p = scanAt THEN i >= 1 /\ QueuedAt(queues, p, i + 1, t) ELSE QueuedAt(queues, p, i, t)
    <3>1. queues' = Taken(queues, scanAt)
      BY <2>1 DEF Taken
    <3>2. QED  BY <1>4, <2>2, <3>1, DequeuedAt
  <2>5. QueuedAt(queues, scanAt, 1, t) <=> task'.by = t /\ task'.waits
    BY <1>4, <2>1, <2>2, TakenIsFirst
  <2>6. Held(t)' <=> QueuedAt(queues, scanAt, 1, t)
    BY <2>1, <2>3, <2>5 DEF Held
  <2>7. ~Held(t)
    BY <1>1 DEF Held
  <2>8. AtMostOne(queues, t)
    BY <1>1 DEF FrameOf, OneTask
  <2>9. AtMostOne(queues', t)
    BY <2>2, <2>4, <2>8 DEF AtMostOne
  <2>10. InQueues(queues', t) => InQueues(queues, t) /\ ~Held(t)'
    <3>1. SUFFICES ASSUME NEW p \in Prios, NEW i \in Nat, QueuedAt(queues', p, i, t)
                   PROVE  InQueues(queues, t) /\ ~Held(t)'
      BY DEF InQueues
    <3>2. PICK j \in Nat : QueuedAt(queues, p, j, t) /\ (p = scanAt => j # 1)
      BY <2>4, <3>1
    <3>3. ~QueuedAt(queues, scanAt, 1, t)
      BY <2>2, <2>8, <3>2 DEF AtMostOne
    <3>4. QED  BY <2>6, <3>2, <3>3 DEF InQueues
  <2>11. InQueues(queues, t) => InQueues(queues', t) \/ Held(t)'
    <3>1. SUFFICES ASSUME NEW p \in Prios, NEW i \in Nat, QueuedAt(queues, p, i, t), ~Held(t)'
                   PROVE  InQueues(queues', t)
      BY DEF InQueues
    <3>2. i \in Nat \ {0} /\ (p = scanAt => i # 1)
      BY <2>6, <3>1 DEF QueuedAt
    <3>3. QueuedAt(queues', p, IF p = scanAt THEN i - 1 ELSE i, t)
      BY <2>4, <3>1, <3>2
    <3>4. (IF p = scanAt THEN i - 1 ELSE i) \in Nat
      BY <3>2
    <3>5. QED  BY <3>3, <3>4 DEF InQueues
  <2>12. Held(t)' => InQueues(queues, t)
    BY <2>2, <2>6 DEF InQueues
  <2>13. QED  BY <1>1, <1>2, <2>7, <2>9, <2>10, <2>11, <2>12 DEF FrameOf, OneTask
<1>5. QED  BY <1>3, <1>4

\* What is run is pushed back, or releases its caller.
LEMMA RunFrame ==
  ASSUME FrameInv, Run, NEW t \in Pushers
  PROVE  FrameOf(t)'
<1>1. TypeOK /\ FrameOf(t) /\ UNCHANGED <<pc, call>> /\ wqPc = "run" /\ ~Held(t)'
  BY DEF FrameInv, TypeInv, Run, pusherVars, Held
<1>2. /\ task \in Task /\ task.by \in Pushers /\ task.waits \in BOOLEAN
      /\ task.rounds \in Nat /\ task # NoTask
  BY <1>1, PushedBackType, TaskIsNotNoTask
<1>3. Waiting(t)' <=> Waiting(t)
  BY <1>1 DEF Waiting
<1>4. Held(t) <=> task.by = t /\ task.waits
  BY <1>2 DEF Held
<1>5. sem \in [Pushers -> BOOLEAN] /\ queues \in [Prios -> Seq(Task)]
  BY <1>1 DEF TypeOK
<1>6. CASE PushedBack
  <2>1. /\ Again \in Task /\ Again.by = task.by /\ Again.waits = task.waits
        /\ Again.prio \in Prios
    BY <1>1, <1>6, PushedBackType DEF Default, Prios
  <2>2. queues' = Enqueue(queues, Again) /\ sem' = sem
    BY <1>2, <1>6 DEF Run, Release, PushedBack
  <2>3. \A p \in Prios : \A i \in Nat :
          QueuedAt(queues', p, i, t) <=>
            \/ QueuedAt(queues, p, i, t)
            \/ p = Again.prio /\ i = Len(queues[p]) + 1 /\ Held(t)
    BY <1>4, <1>5, <2>1, <2>2, EnqueuedAt
  <2>4. Len(queues[Again.prio]) + 1 \in Nat
    BY <1>5, <2>1
  <2>5. InQueues(queues', t) <=> InQueues(queues, t) \/ Held(t)
    BY <2>1, <2>3, <2>4 DEF InQueues
  <2>6. AtMostOne(queues', t)
    BY <1>1, <2>3 DEF FrameOf, OneTask, AtMostOne, InQueues
  <2>7. QED  BY <1>1, <1>3, <2>2, <2>5, <2>6 DEF FrameOf, OneTask
<1>7. CASE ~PushedBack
  <2>1. queues' = queues /\ (Release <=> task.waits)
    BY <1>2, <1>7 DEF Run, Release, PushedBack
  <2>2. sem'[t] <=> sem[t] \/ Held(t)
    BY <1>2, <1>4, <1>5, <2>1 DEF Run
  <2>3. InQueues(queues', t) = InQueues(queues, t) /\ AtMostOne(queues', t) = AtMostOne(queues, t)
    BY <2>1
  <2>4. QED  BY <1>1, <1>3, <2>2, <2>3 DEF FrameOf, OneTask
<1>8. QED  BY <1>6, <1>7

\* Who pushes has returned from the call before, so that nothing of its is left.
LEMMA PushFrame ==
  ASSUME FrameInv, NEW u \in Pushers, NEW kind \in Kinds, NEW prio \in Prios,
         NEW rounds \in 0..MaxRounds, Push(u, kind, prio, rounds), NEW t \in Pushers
  PROVE  FrameOf(t)'
<1> DEFINE x == Pushed(u, kind, prio, rounds)
<1>1. TypeOK /\ FrameOf(t) /\ task' = task /\ pc[u] = "idle"
  BY DEF FrameInv, TypeInv, Push, workerVars
<1>2. x \in Task /\ x.by = u /\ x.waits = Waits(kind) /\ x.prio \in Prios
  <2>1. x \in Task
    BY <1>1, PushedIsTask DEF Push
  <2>2. QED  BY <2>1 DEF Pushed, Task
<1>3. queues' = Enqueue(queues, x) /\ queues \in [Prios -> Seq(Task)]
  BY <1>1 DEF Push, Pushed, TypeOK
<1>4. \A p \in Prios : \A i \in Nat :
        QueuedAt(queues', p, i, t) <=>
          \/ QueuedAt(queues, p, i, t)
          \/ p = x.prio /\ i = Len(queues[p]) + 1 /\ x.by = t /\ x.waits
  BY <1>2, <1>3, EnqueuedAt
<1> HIDE DEF x
<1>5. Held(t)' = Held(t)
  BY <1>1 DEF Held
<1>6. CASE t # u
  <2>1. Waiting(t)' = Waiting(t) /\ sem'[t] = sem[t]
    BY <1>1, <1>6 DEF Push, Begin, Waiting, TypeOK
  <2>2. /\ InQueues(queues', t) <=> InQueues(queues, t)
        /\ AtMostOne(queues', t) <=> AtMostOne(queues, t)
    BY <1>2, <1>4, <1>6 DEF InQueues, AtMostOne
  <2>3. QED  BY <1>1, <1>5, <2>1, <2>2 DEF FrameOf, OneTask
<1>7. CASE t = u
  <2>1. ~Waiting(t)
    BY <1>1, <1>7 DEF Waiting
  <2>2. ~InQueues(queues, t) /\ ~Held(t)
    BY <1>1, <2>1 DEF FrameOf
  <2>3. ~sem'[t] /\ (Waiting(t)' <=> Waits(kind))
    BY <1>1, <1>7 DEF Push, Begin, Waiting, TypeOK
  <2>4. \A p \in Prios : \A i \in Nat :
          QueuedAt(queues', p, i, t) <=> p = x.prio /\ i = Len(queues[p]) + 1 /\ Waits(kind)
    BY <1>2, <1>4, <1>7, <2>2 DEF InQueues
  <2>5. AtMostOne(queues', t)
    BY <2>4 DEF AtMostOne
  <2>6. Len(queues[x.prio]) + 1 \in Nat
    BY <1>2, <1>3
  <2>7. InQueues(queues', t) <=> Waits(kind)
    BY <1>2, <2>4, <2>6 DEF InQueues
  <2>8. QED  BY <1>5, <2>2, <2>3, <2>5, <2>7 DEF FrameOf, OneTask
<1>8. QED  BY <1>6, <1>7

\* Within resume() a call goes on, and only one that does not wait ends.
LEMMA InResumeFrame ==
  ASSUME FrameInv, NEW u \in Pushers, InResume(u), NEW t \in Pushers
  PROVE  FrameOf(t)'
<1>1. /\ TypeOK /\ FrameOf(t) /\ call[u].left > 0 /\ pc[u] # "idle"
      /\ UNCHANGED <<queues, task, sem>>
  BY DEF FrameInv, TypeInv, ResumesLeft, InResume, Check, Clear, Resume, workerVars
<1>2. Waiting(t)' <=> Waiting(t)
  <2>1. CASE EndResume(u)
    <3>1. call'[t].waits = call[t].waits /\ (t # u => pc'[t] = pc[t])
      BY <1>1, <2>1, EndResumeType
    <3>2. pc'[u] = "idle" => ~call[u].waits
      BY <1>1, <2>1, EndResumeType
    <3>3. QED  BY <1>1, <3>1, <3>2 DEF Waiting
  <2>2. CASE UNCHANGED call /\ pc' \in {[pc EXCEPT ![u] = "clear"], [pc EXCEPT ![u] = "resume"]}
    BY <1>1, <2>2 DEF Waiting, TypeOK
  <2>3. QED  BY <2>1, <2>2 DEF InResume, Check, Clear, Resume
<1>3. Held(t)' = Held(t) /\ InQueues(queues', t) = InQueues(queues, t)
      /\ AtMostOne(queues', t) = AtMostOne(queues, t) /\ sem'[t] = sem[t]
  BY <1>1 DEF Held
<1>4. QED  BY <1>1, <1>2, <1>3 DEF FrameOf, OneTask

\* acquire() returns once the semaphore is released, that is when the task is through.
LEMMA AcquireFrame ==
  ASSUME FrameInv, NEW u \in Pushers, Acquire(u), NEW t \in Pushers
  PROVE  FrameOf(t)'
<1>1. TypeOK /\ FrameOf(t) /\ FrameOf(u) /\ sem[u] /\ UNCHANGED <<queues, task, call>>
  BY DEF FrameInv, TypeInv, Acquire, workerVars
<1>2. Held(t)' = Held(t) /\ InQueues(queues', t) = InQueues(queues, t)
      /\ AtMostOne(queues', t) = AtMostOne(queues, t)
  BY <1>1 DEF Held
<1>3. CASE t = u
  <2>1. ~sem'[t] /\ ~Waiting(t)'
    BY <1>1, <1>3 DEF Acquire, Waiting, TypeOK
  <2>2. QED  BY <1>1, <1>2, <1>3, <2>1 DEF FrameOf, OneTask
<1>4. CASE t # u
  <2>1. sem'[t] = sem[t] /\ Waiting(t)' = Waiting(t)
    BY <1>1, <1>4 DEF Acquire, Waiting, TypeOK
  <2>2. QED  BY <1>1, <1>2, <2>1 DEF FrameOf, OneTask
<1>5. QED  BY <1>3, <1>4

LEMMA FrameStep == FrameInv /\ [Next]_vars => FrameInv'
<1>1. SUFFICES ASSUME FrameInv, [Next]_vars PROVE TypeInv' /\ \A t \in Pushers : FrameOf(t)'
  BY DEF FrameInv
<1>2. TypeInv'
  BY <1>1, TypeStep DEF FrameInv
<1>3. SUFFICES ASSUME NEW t \in Pushers PROVE FrameOf(t)'
  BY <1>2
<1>4. CASE Scan  BY <1>1, <1>4, ScanFrame
<1>5. CASE Run  BY <1>1, <1>5, RunFrame
<1>6. CASE \/ Mark \/ Suspend \/ UNCHANGED vars
  <2>1. UNCHANGED <<queues, sem, pc, call>> /\ FrameOf(t)
    BY <1>1, <1>6 DEF FrameInv, Mark, Suspend, vars, workerVars, pusherVars
  <2>2. task' = task
    BY <1>6 DEF Mark, Suspend, vars, workerVars
  <2>3. QED
    BY <2>1, <2>2 DEF FrameOf, OneTask, Held, Waiting, AtMostOne, InQueues, QueuedAt
<1>7. ASSUME NEW u \in Pushers, NEW kind \in Kinds, NEW prio \in Prios,
             NEW rounds \in 0..MaxRounds, Push(u, kind, prio, rounds)
      PROVE  FrameOf(t)'
  BY <1>1, <1>7, PushFrame
<1>8. ASSUME NEW u \in Pushers, InResume(u) PROVE FrameOf(t)'
  BY <1>1, <1>8, InResumeFrame
<1>9. ASSUME NEW u \in Pushers, Acquire(u) PROVE FrameOf(t)'
  BY <1>1, <1>9, AcquireFrame
<1>10. QED  BY <1>1, <1>4, <1>5, <1>6, <1>7, <1>8, <1>9 DEF Next, Worker

LEMMA FrameInvHolds == Spec => []FrameInv
<1>1. Init => FrameInv
  <2>1. SUFFICES ASSUME Init, NEW t \in Pushers PROVE TypeInv /\ FrameOf(t)
    BY DEF FrameInv
  <2>2. TypeInv
    BY <2>1, InitType DEF Init, TypeInv, ResumesLeft
  <2>3. ~InQueues(queues, t) /\ AtMostOne(queues, t)
    BY <2>1 DEF Init, InQueues, AtMostOne, QueuedAt
  <2>4. ~Held(t) /\ ~sem[t] /\ ~Waiting(t)
    BY <2>1 DEF Init, Held, Waiting
  <2>5. QED  BY <2>2, <2>3, <2>4 DEF FrameOf, OneTask
<1>2. QED  BY <1>1, FrameStep, PTL DEF Spec

\* The frame of pushWait and pushContinuousWait, whose task and semaphore the queued task refers
\* to, is there as long as the task is queued or run, and no interleaving loses the task of a call
\* that waits: it is queued, run, or has released the semaphore (WorkQueue.hpp:55-129).
THEOREM WaitsAreSound == Spec => []WaitIsSound
<1>1. FrameInv => WaitIsSound
  BY FramesAreSafe DEF WaitIsSound
<1>2. QED  BY <1>1, FrameInvHolds, PTL
-----------------------------------------------------------------------------
(* Order *)

\* The n-th call of t put a task into queue p that has not been run yet, and is at place i.
FreshAt(qs, p, i, t, n) ==
  i \in 1..Len(qs[p]) /\ qs[p][i].by = t /\ ~qs[p][i].again /\ qs[p][i].n = n

\* run() holds such a task.
HeldFresh(t, p) == task # NoTask /\ task.by = t /\ ~task.again /\ task.prio = p

PlacedByPrio == \A p \in Prios : \A i \in 1..Len(queues[p]) : queues[p][i].prio = p

\* Of t's tasks of one priority, those begun come before the one held, and that one before
\* those queued, which are in the order of their calls.
InOrder(t, p) ==
  /\ lastRun[t][p] <= nCalls[t]
  /\ HeldFresh(t, p) => lastRun[t][p] < task.n /\ task.n <= nCalls[t]
  /\ \A i, n \in Nat : FreshAt(queues, p, i, t, n) =>
       lastRun[t][p] < n /\ n <= nCalls[t] /\ (HeldFresh(t, p) => task.n < n)
  /\ \A i, j, m, n \in Nat :
       FreshAt(queues, p, i, t, m) /\ FreshAt(queues, p, j, t, n) /\ i < j => m < n

OrderInv ==
  /\ TypeInv
  /\ PlacedByPrio
  /\ \A t \in Pushers, p \in Prios : InOrder(t, p)

LEMMA EnqueuedFresh ==
  ASSUME NEW qs \in [Prios -> Seq(Task)], NEW x \in Task,
         NEW p \in Prios, NEW i \in Nat, NEW t \in Pushers, NEW n \in Nat
  PROVE  FreshAt(Enqueue(qs, x), p, i, t, n) <=>
           \/ FreshAt(qs, p, i, t, n)
           \/ p = x.prio /\ i = Len(qs[p]) + 1 /\ x.by = t /\ ~x.again /\ x.n = n
<1>1. /\ Len(Enqueue(qs, x)[p]) = IF p = x.prio THEN Len(qs[p]) + 1 ELSE Len(qs[p])
      /\ Len(qs[p]) \in Nat
      /\ \A k \in 1..Len(qs[p]) : Enqueue(qs, x)[p][k] = qs[p][k]
      /\ p = x.prio => Enqueue(qs, x)[p][Len(qs[p]) + 1] = x
  BY EnqueueFacts
<1>2. CASE i = Len(qs[p]) + 1
  BY <1>1, <1>2 DEF FreshAt
<1>3. CASE i # Len(qs[p]) + 1
  <2>1. i \in 1..Len(Enqueue(qs, x)[p]) <=> i \in 1..Len(qs[p])
    BY <1>1, <1>3
  <2>2. QED  BY <1>1, <1>3, <2>1 DEF FreshAt
<1>4. QED  BY <1>2, <1>3

LEMMA DequeuedFresh ==
  ASSUME NEW qs \in [Prios -> Seq(Task)], NEW p0 \in Prios, qs[p0] # <<>>,
         NEW p \in Prios, NEW i \in Nat, NEW t \in Pushers, NEW n \in Nat
  PROVE  FreshAt(Taken(qs, p0), p, i, t, n) <=>
           IF p = p0 THEN i >= 1 /\ FreshAt(qs, p, i + 1, t, n) ELSE FreshAt(qs, p, i, t, n)
<1> DEFINE rest == Taken(qs, p0)
<1>1. /\ Len(rest[p]) = IF p = p0 THEN Len(qs[p]) - 1 ELSE Len(qs[p])
      /\ Len(qs[p]) \in Nat /\ Len(qs[p0]) \in Nat \ {0}
      /\ p # p0 => rest[p] = qs[p]
      /\ \A k \in 1..(Len(qs[p0]) - 1) : rest[p0][k] = qs[p0][k + 1]
  BY DequeueFacts
<1>2. CASE p # p0
  BY <1>1, <1>2 DEF FreshAt, rest
<1>3. CASE p = p0
  <2>1. i \in 1..Len(rest[p]) <=> i >= 1 /\ i + 1 \in 1..Len(qs[p])
    BY <1>1, <1>3
  <2>2. i \in 1..Len(rest[p]) => rest[p][i] = qs[p][i + 1]
    BY <1>1, <1>3
  <2>3. QED  BY <1>3, <2>1, <2>2 DEF FreshAt, rest
<1>4. QED  BY <1>2, <1>3

\* Every task is in the queue of its priority.
LEMMA PlacesStep == TypeInv /\ PlacedByPrio /\ [Next]_vars => PlacedByPrio'
<1>1. SUFFICES ASSUME TypeInv, PlacedByPrio, [Next]_vars PROVE PlacedByPrio'
  OBVIOUS
<1>2. queues \in [Prios -> Seq(Task)] /\ TypeOK
  BY <1>1 DEF TypeInv, TypeOK
<1>3. ASSUME NEW x \in Task, queues' = Enqueue(queues, x) PROVE PlacedByPrio'
  <2>1. SUFFICES ASSUME NEW p \in Prios, NEW i \in 1..Len(queues'[p])
                 PROVE  queues'[p][i].prio = p
    BY DEF PlacedByPrio
  <2>2. /\ Len(queues'[p]) = IF p = x.prio THEN Len(queues[p]) + 1 ELSE Len(queues[p])
        /\ Len(queues[p]) \in Nat
        /\ \A k \in 1..Len(queues[p]) : queues'[p][k] = queues[p][k]
        /\ p = x.prio => queues'[p][Len(queues[p]) + 1] = x
    BY <1>2, <1>3, EnqueueFacts
  <2>3. QED  BY <1>1, <2>1, <2>2 DEF PlacedByPrio
<1>4. CASE UNCHANGED queues
  BY <1>1, <1>4 DEF PlacedByPrio
<1>5. CASE Scan
  <2>1. CASE queues[scanAt] = <<>>
    BY <1>4, <1>5, <2>1 DEF Scan
  <2>2. CASE queues[scanAt] # <<>>
    <3>1. SUFFICES ASSUME NEW p \in Prios, NEW i \in 1..Len(queues'[p])
                   PROVE  queues'[p][i].prio = p
      BY DEF PlacedByPrio
    <3>2. queues' = Taken(queues, scanAt) /\ scanAt \in Prios
      BY <1>2, <1>5, <2>2 DEF Scan, Taken, TypeOK
    <3>3. /\ Len(queues'[p]) = IF p = scanAt THEN Len(queues[p]) - 1 ELSE Len(queues[p])
          /\ Len(queues[p]) \in Nat /\ Len(queues[scanAt]) \in Nat \ {0}
          /\ p # scanAt => queues'[p] = queues[p]
          /\ \A k \in 1..(Len(queues[scanAt]) - 1) : queues'[scanAt][k] = queues[scanAt][k + 1]
      BY <1>2, <2>2, <3>2, DequeueFacts
    <3>4. QED  BY <1>1, <3>1, <3>3 DEF PlacedByPrio
  <2>3. QED  BY <2>1, <2>2
<1>6. CASE Run
  <2>1. CASE PushedBack
    <3>1. Again \in Task
      BY <1>2, <1>6, <2>1, PushedBackType DEF Run
    <3>2. QED  BY <1>3, <1>6, <2>1, <3>1 DEF Run
  <2>2. CASE ~PushedBack
    BY <1>4, <1>6, <2>2 DEF Run
  <2>3. QED  BY <2>1, <2>2
<1>7. ASSUME NEW u \in Pushers, NEW kind \in Kinds, NEW prio \in Prios,
             NEW rounds \in 0..MaxRounds, Push(u, kind, prio, rounds)
      PROVE  PlacedByPrio'
  <2>1. Pushed(u, kind, prio, rounds) \in Task
    BY <1>2, <1>7, PushedIsTask DEF Push
  <2>2. queues' = Enqueue(queues, Pushed(u, kind, prio, rounds))
    BY <1>7 DEF Push, Pushed
  <2>3. QED  BY <1>3, <2>1, <2>2
<1>8. ASSUME NEW u \in Pushers, InResume(u) \/ Acquire(u) PROVE PlacedByPrio'
  BY <1>4, <1>8 DEF InResume, Check, Clear, Resume, Acquire
<1>9. CASE Mark \/ Suspend \/ UNCHANGED vars
  BY <1>4, <1>9 DEF Mark, Suspend, vars
<1>10. QED  BY <1>1, <1>5, <1>6, <1>7, <1>8, <1>9 DEF Next, Worker

\* The oldest task of a queue is taken.
LEMMA ScanOrder ==
  ASSUME OrderInv, Scan, NEW t \in Pushers, NEW p \in Prios
  PROVE  InOrder(t, p)'
<1>1. TypeOK /\ InOrder(t, p) /\ task = NoTask /\ UNCHANGED <<nCalls, lastRun>>
  BY DEF OrderInv, TypeInv, TypeOK, Scan, pusherVars
<1>2. CASE queues[scanAt] = <<>>
  BY <1>1, <1>2 DEF Scan, InOrder, HeldFresh
<1>3. CASE queues[scanAt] # <<>>
  <2>1. /\ queues' = Taken(queues, scanAt)
        /\ task' = Dequeue(queues[scanAt])[1]
    BY <1>3 DEF Scan, Taken
  <2>2. queues \in [Prios -> Seq(Task)] /\ scanAt \in Prios
    BY <1>1 DEF TypeOK
  <2>3. /\ task' = queues[scanAt][1] /\ Len(queues[scanAt]) \in Nat \ {0}
        /\ task' \in Task /\ task'.prio = scanAt
    <3>1. /\ task' = queues[scanAt][1] /\ Len(queues[scanAt]) \in Nat \ {0}
          /\ task' \in Task
      BY <1>3, <2>1, <2>2, FirstIsTask
    <3>2. QED  BY <2>2, <3>1 DEF OrderInv, PlacedByPrio
  <2>4. \A i, n \in Nat : FreshAt(queues', p, i, t, n) <=>
          IF p = scanAt THEN i >= 1 /\ FreshAt(queues, p, i + 1, t, n) ELSE FreshAt(queues, p, i, t, n)
    BY <1>3, <2>1, <2>2, DequeuedFresh
  <2>5. task'.n \in Nat
    BY <2>3 DEF Task
  <2>6. HeldFresh(t, p)' => p = scanAt /\ FreshAt(queues, p, 1, t, task'.n)
    BY <2>3 DEF HeldFresh, FreshAt
  <2>7. HeldFresh(t, p)' => lastRun[t][p] < task'.n /\ task'.n <= nCalls[t]
    BY <1>1, <2>5, <2>6 DEF InOrder
  <2>8. ASSUME NEW i \in Nat, NEW n \in Nat, FreshAt(queues', p, i, t, n)
        PROVE  \E j \in Nat : /\ FreshAt(queues, p, j, t, n) /\ j \in {i, i + 1}
                              /\ (p = scanAt => j > 1)
    BY <2>4, <2>8
  <2>9. \A i, n \in Nat : FreshAt(queues', p, i, t, n) =>
          lastRun[t][p] < n /\ n <= nCalls[t] /\ (HeldFresh(t, p)' => task'.n < n)
    <3>1. SUFFICES ASSUME NEW i \in Nat, NEW n \in Nat, FreshAt(queues', p, i, t, n)
                   PROVE  lastRun[t][p] < n /\ n <= nCalls[t] /\ (HeldFresh(t, p)' => task'.n < n)
      OBVIOUS
    <3>2. PICK j \in Nat : FreshAt(queues, p, j, t, n) /\ (p = scanAt => j > 1)
      BY <2>8, <3>1
    <3>3. QED  BY <1>1, <2>5, <2>6, <3>2 DEF InOrder
  <2>10. \A i, j, m, n \in Nat :
           FreshAt(queues', p, i, t, m) /\ FreshAt(queues', p, j, t, n) /\ i < j => m < n
    <3>1. SUFFICES ASSUME NEW i \in Nat, NEW j \in Nat, NEW m \in Nat, NEW n \in Nat, i < j,
                          FreshAt(queues', p, i, t, m), FreshAt(queues', p, j, t, n)
                   PROVE  m < n
      OBVIOUS
    <3>2. i + 1 \in Nat /\ j + 1 \in Nat /\ i + 1 < j + 1
      BY <3>1
    <3>3. QED  BY <1>1, <2>4, <3>1, <3>2 DEF InOrder
  <2>11. QED  BY <1>1, <2>7, <2>9, <2>10 DEF InOrder
<1>4. QED  BY <1>2, <1>3

\* A task that is pushed back counts as begun.
LEMMA RunOrder ==
  ASSUME OrderInv, Run, NEW t \in Pushers, NEW p \in Prios
  PROVE  InOrder(t, p)' /\ lastRun[t][p] <= lastRun'[t][p]
<1>1. TypeOK /\ InOrder(t, p) /\ task' = NoTask /\ nCalls' = nCalls /\ wqPc = "run"
  BY DEF OrderInv, TypeInv, Run, pusherVars
<1>2. /\ task \in Task /\ task.by \in Pushers /\ task.prio \in Prios /\ task.n \in Nat
      /\ task.again \in BOOLEAN /\ task # NoTask
  <2>1. task \in Task
    BY <1>1, PushedBackType
  <2>2. QED  BY <2>1, TaskIsNotNoTask DEF Task
<1>3. lastRun[t][p] \in Nat /\ nCalls[t] \in Nat /\ queues \in [Prios -> Seq(Task)]
  BY <1>1 DEF TypeOK
<1>4. lastRun'[t][p] = IF HeldFresh(t, p) THEN task.n ELSE lastRun[t][p]
  BY <1>1, <1>2 DEF Run, HeldFresh, TypeOK
<1>5. \A i, n \in Nat : FreshAt(queues', p, i, t, n) <=> FreshAt(queues, p, i, t, n)
  <2>1. CASE PushedBack
    <3>1. Again \in Task /\ Again.again
      BY <1>1, <2>1, PushedBackType
    <3>2. queues' = Enqueue(queues, Again)
      BY <2>1 DEF Run
    <3>3. QED  BY <1>3, <3>1, <3>2, EnqueuedFresh
  <2>2. CASE ~PushedBack
    BY <2>2 DEF Run
  <2>3. QED  BY <2>1, <2>2
<1>6. ~HeldFresh(t, p)'
  BY <1>1 DEF HeldFresh
<1>7. lastRun[t][p] <= lastRun'[t][p] /\ lastRun'[t][p] <= nCalls[t]
  BY <1>1, <1>2, <1>3, <1>4 DEF InOrder
<1>8. \A i, n \in Nat : FreshAt(queues, p, i, t, n) => lastRun'[t][p] < n /\ n <= nCalls[t]
  BY <1>1, <1>4 DEF InOrder
<1>9. QED  BY <1>1, <1>5, <1>6, <1>7, <1>8 DEF InOrder

\* A new task is the last of its thread and goes to the end of its queue.
LEMMA PushOrder ==
  ASSUME OrderInv, NEW u \in Pushers, NEW kind \in Kinds, NEW prio \in Prios,
         NEW rounds \in 0..MaxRounds, Push(u, kind, prio, rounds),
         NEW t \in Pushers, NEW p \in Prios
  PROVE  InOrder(t, p)'
<1> DEFINE x == Pushed(u, kind, prio, rounds)
<1>1. TypeOK /\ InOrder(t, p) /\ UNCHANGED <<task, lastRun>>
  BY DEF OrderInv, TypeInv, Push, workerVars
<1>2. x \in Task /\ x.by = u /\ ~x.again /\ x.n = nCalls[u] + 1
  <2>1. x \in Task
    BY <1>1, PushedIsTask DEF Push
  <2>2. QED  BY <2>1 DEF Pushed
<1>3. queues' = Enqueue(queues, x) /\ queues \in [Prios -> Seq(Task)]
  BY <1>1 DEF Push, Pushed, TypeOK
<1>4. \A i, n \in Nat : FreshAt(queues', p, i, t, n) <=>
        \/ FreshAt(queues, p, i, t, n)
        \/ p = x.prio /\ i = Len(queues[p]) + 1 /\ x.by = t /\ ~x.again /\ x.n = n
  BY <1>2, <1>3, EnqueuedFresh
<1> HIDE DEF x
<1>5. /\ nCalls[t] \in Nat /\ lastRun[t][p] \in Nat
      /\ nCalls'[t] = IF t = u THEN nCalls[t] + 1 ELSE nCalls[t]
  BY <1>1 DEF Push, TypeOK
<1>6. Len(queues[p]) \in Nat /\ \A i, n \in Nat : FreshAt(queues, p, i, t, n) => i <= Len(queues[p])
  BY <1>3 DEF FreshAt
<1>7. HeldFresh(t, p)' <=> HeldFresh(t, p)
  BY <1>1 DEF HeldFresh
<1>8. HeldFresh(t, p) => task.n \in Nat
  BY <1>1 DEF HeldFresh, TypeOK, Task
<1>9. ASSUME NEW i \in Nat, NEW n \in Nat, FreshAt(queues', p, i, t, n)
      PROVE  lastRun[t][p] < n /\ n <= nCalls'[t] /\ (HeldFresh(t, p) => task.n < n)
  <2>1. CASE FreshAt(queues, p, i, t, n)
    BY <1>1, <1>5, <2>1 DEF InOrder
  <2>2. CASE t = u /\ n = nCalls[t] + 1
    BY <1>1, <1>5, <1>8, <2>2 DEF InOrder
  <2>3. QED  BY <1>2, <1>4, <1>9, <2>1, <2>2
<1>10. ASSUME NEW i \in Nat, NEW j \in Nat, NEW m \in Nat, NEW n \in Nat, i < j,
              FreshAt(queues', p, i, t, m), FreshAt(queues', p, j, t, n)
       PROVE  m < n
  <2>1. FreshAt(queues, p, i, t, m)
    BY <1>4, <1>6, <1>10
  <2>2. CASE FreshAt(queues, p, j, t, n)
    BY <1>1, <1>10, <2>1, <2>2 DEF InOrder
  <2>3. CASE t = u /\ n = nCalls[t] + 1
    BY <1>1, <1>5, <2>1, <2>3 DEF InOrder
  <2>4. QED  BY <1>2, <1>4, <1>10, <2>2, <2>3
<1>11. /\ lastRun[t][p] <= nCalls'[t]
       /\ HeldFresh(t, p) => lastRun[t][p] < task.n /\ task.n <= nCalls'[t]
  BY <1>1, <1>5, <1>8 DEF InOrder
<1>12. QED  BY <1>1, <1>7, <1>9, <1>10, <1>11 DEF InOrder

LEMMA OrderStep ==
  OrderInv /\ [Next]_vars =>
    OrderInv' /\ \A t \in Pushers, p \in Prios : lastRun[t][p] <= lastRun'[t][p]
<1>1. SUFFICES ASSUME OrderInv, [Next]_vars
               PROVE  OrderInv' /\ \A t \in Pushers, p \in Prios : lastRun[t][p] <= lastRun'[t][p]
  OBVIOUS
<1>2. TypeInv' /\ PlacedByPrio'
  BY <1>1, TypeStep, PlacesStep DEF OrderInv
<1>3. SUFFICES ASSUME NEW t \in Pushers, NEW p \in Prios
                PROVE  InOrder(t, p)' /\ lastRun[t][p] <= lastRun'[t][p]
  BY <1>2 DEF OrderInv
<1>4. lastRun[t][p] \in Nat /\ InOrder(t, p)
  BY <1>1 DEF OrderInv, TypeInv, TypeOK
<1>5. lastRun' = lastRun => lastRun[t][p] <= lastRun'[t][p]
  BY <1>4
<1>6. CASE Scan
  BY <1>1, <1>5, <1>6, ScanOrder DEF Scan
<1>7. CASE Run
  BY <1>1, <1>7, RunOrder
<1>8. ASSUME NEW u \in Pushers, NEW kind \in Kinds, NEW prio \in Prios,
             NEW rounds \in 0..MaxRounds, Push(u, kind, prio, rounds)
      PROVE  InOrder(t, p)' /\ lastRun' = lastRun
  BY <1>1, <1>8, PushOrder DEF Push
<1>9. CASE UNCHANGED <<queues, task, lastRun, nCalls>>
  BY <1>4, <1>5, <1>9 DEF InOrder, HeldFresh
<1>10. ASSUME NEW u \in Pushers, InResume(u) \/ Acquire(u)
      PROVE  UNCHANGED <<queues, task, lastRun, nCalls>>
  BY <1>10 DEF InResume, Check, Clear, Resume, Acquire, workerVars
<1>11. CASE Mark \/ Suspend \/ UNCHANGED vars
  BY <1>9, <1>11 DEF Mark, Suspend, vars, workerVars, pusherVars
<1>12. QED  BY <1>1, <1>5, <1>6, <1>7, <1>8, <1>9, <1>10, <1>11 DEF Next, Worker

LEMMA OrderInvHolds == Spec => []OrderInv
<1>1. Init => OrderInv
  <2>1. SUFFICES ASSUME Init PROVE OrderInv
    OBVIOUS
  <2>2. TypeInv
    BY <2>1, InitType DEF Init, TypeInv, ResumesLeft
  <2>3. PlacedByPrio /\ \A t \in Pushers, p \in Prios : \A i, n \in Nat : ~FreshAt(queues, p, i, t, n)
    BY <2>1 DEF Init, PlacedByPrio, FreshAt
  <2>4. \A t \in Pushers, p \in Prios : ~HeldFresh(t, p)
    BY <2>1 DEF Init, HeldFresh
  <2>5. \A t \in Pushers, p \in Prios : lastRun[t][p] <= nCalls[t]
    BY <2>1 DEF Init
  <2>6. QED  BY <2>2, <2>3, <2>4, <2>5 DEF OrderInv, InOrder
<1>2. QED  BY <1>1, OrderStep, PTL DEF Spec

\* Tasks that one thread pushes with one priority begin in the order of the calls, whatever other
\* threads push and continuous tasks are pushed back meanwhile (PrioTaskVariantQueue.cpp,
\* TaskVariantQueue.cpp).
THEOREM TasksBeginInOrder == Spec => BegunInOrder
<1>1. QED  BY OrderInvHolds, OrderStep, PTL DEF Spec, BegunInOrder
-----------------------------------------------------------------------------
(* WorkQueue implements TaskRunner. *)

SameTask(x, y) == x.by = y.by /\ x.n = y.n

\* No task is twice in the queues.
NoTwins(qs) ==
  \A p, q \in Prios : \A i \in 1..Len(qs[p]), j \in 1..Len(qs[q]) :
    SameTask(qs[p][i], qs[q][j]) => p = q /\ i = j

\* None is queued that is being run, and none is of a call still to come.
OwedOnce ==
  /\ NoTwins(queues)
  /\ \A p \in Prios : \A i \in 1..Len(queues[p]) :
       /\ task # NoTask => ~SameTask(task, queues[p][i])
       /\ queues[p][i].n <= nCalls[queues[p][i].by]
  /\ task # NoTask => task.n <= nCalls[task.by]

Tasks(qs) == UNION {{qs[p][i] : i \in 1..Len(qs[p])} : p \in Prios}

LEMMA TaskParts ==
  ASSUME NEW x \in Task
  PROVE  /\ x.by \in Pushers /\ x.n \in Nat
         /\ x = [by |-> x.by, n |-> x.n, prio |-> x.prio, waits |-> x.waits,
                 rounds |-> x.rounds, again |-> x.again]
BY DEF Task

LEMMA TasksAre ==
  ASSUME NEW qs, NEW x
  PROVE  x \in Tasks(qs) <=> \E p \in Prios : \E i \in 1..Len(qs[p]) : qs[p][i] = x
BY DEF Tasks

LEMMA OwedIsTasks == Owed = Tasks(queues)
BY DEF Owed, Tasks

\* Where the tasks are after a push.
LEMMA EnqueuedTask ==
  ASSUME NEW qs \in [Prios -> Seq(Task)], NEW x \in Task,
         NEW p \in Prios, NEW i \in 1..Len(Enqueue(qs, x)[p])
  PROVE  \/ i \in 1..Len(qs[p]) /\ Enqueue(qs, x)[p][i] = qs[p][i]
         \/ p = x.prio /\ i = Len(qs[p]) + 1 /\ Enqueue(qs, x)[p][i] = x
<1>1. /\ Len(Enqueue(qs, x)[p]) = IF p = x.prio THEN Len(qs[p]) + 1 ELSE Len(qs[p])
      /\ Len(qs[p]) \in Nat
      /\ \A k \in 1..Len(qs[p]) : Enqueue(qs, x)[p][k] = qs[p][k]
      /\ p = x.prio => Enqueue(qs, x)[p][Len(qs[p]) + 1] = x
  BY EnqueueFacts
<1>2. QED  BY <1>1

LEMMA EnqueuedTasks ==
  ASSUME NEW qs \in [Prios -> Seq(Task)], NEW x \in Task
  PROVE  Tasks(Enqueue(qs, x)) = Tasks(qs) \cup {x}
<1>1. ASSUME NEW y \in Tasks(Enqueue(qs, x)) PROVE y \in Tasks(qs) \cup {x}
  <2>1a. PICK p \in Prios : \E i \in 1..Len(Enqueue(qs, x)[p]) : Enqueue(qs, x)[p][i] = y
    BY <1>1, TasksAre
  <2>1. PICK i \in 1..Len(Enqueue(qs, x)[p]) : Enqueue(qs, x)[p][i] = y
    BY <2>1a
  <2>2. CASE i \in 1..Len(qs[p]) /\ Enqueue(qs, x)[p][i] = qs[p][i]
    <3>1. i \in 1..Len(qs[p]) /\ qs[p][i] = y
      BY <2>1, <2>2
    <3>2. QED  BY <2>1a, <3>1, TasksAre
  <2>3. CASE Enqueue(qs, x)[p][i] = x
    BY <2>1, <2>3
  <2>4. QED  BY <2>1a, <2>2, <2>3, EnqueuedTask
<1>2. ASSUME NEW y \in Tasks(qs) PROVE y \in Tasks(Enqueue(qs, x))
  <2>1a. PICK p \in Prios : \E i \in 1..Len(qs[p]) : qs[p][i] = y
    BY <1>2, TasksAre
  <2>1. PICK i \in 1..Len(qs[p]) : qs[p][i] = y
    BY <2>1a
  <2>2. i \in 1..Len(Enqueue(qs, x)[p]) /\ Enqueue(qs, x)[p][i] = y
    <3>1. /\ Len(Enqueue(qs, x)[p]) = IF p = x.prio THEN Len(qs[p]) + 1 ELSE Len(qs[p])
          /\ Len(qs[p]) \in Nat
          /\ \A k \in 1..Len(qs[p]) : Enqueue(qs, x)[p][k] = qs[p][k]
      BY <2>1a, EnqueueFacts
    <3>2. QED  BY <2>1, <3>1
  <2>3. QED  BY <2>1a, <2>2, TasksAre
<1>3. x \in Tasks(Enqueue(qs, x))
  <2>1. x.prio \in Prios
    BY DEF Task
  <2>2. /\ Len(Enqueue(qs, x)[x.prio]) = Len(qs[x.prio]) + 1 /\ Len(qs[x.prio]) \in Nat
        /\ Enqueue(qs, x)[x.prio][Len(qs[x.prio]) + 1] = x
    BY <2>1, EnqueueFacts
  <2>3. Len(qs[x.prio]) + 1 \in 1..Len(Enqueue(qs, x)[x.prio])
    BY <2>2
  <2>4. QED  BY <2>1, <2>2, <2>3, TasksAre
<1>4. QED  BY <1>1, <1>2, <1>3

LEMMA TwinFreePush ==
  ASSUME NEW qs \in [Prios -> Seq(Task)], NEW x \in Task, NoTwins(qs),
         \A p \in Prios : \A i \in 1..Len(qs[p]) : ~SameTask(x, qs[p][i])
  PROVE  NoTwins(Enqueue(qs, x))
<1> DEFINE more == Enqueue(qs, x)
<1>1. SUFFICES ASSUME NEW p \in Prios, NEW q \in Prios,
                      NEW i \in 1..Len(more[p]), NEW j \in 1..Len(more[q]),
                      SameTask(more[p][i], more[q][j])
               PROVE  p = q /\ i = j
  BY DEF NoTwins
<1>2. /\ \/ i \in 1..Len(qs[p]) /\ more[p][i] = qs[p][i]
         \/ p = x.prio /\ i = Len(qs[p]) + 1 /\ more[p][i] = x
      /\ \/ j \in 1..Len(qs[q]) /\ more[q][j] = qs[q][j]
         \/ q = x.prio /\ j = Len(qs[q]) + 1 /\ more[q][j] = x
  BY EnqueuedTask
<1> HIDE DEF more
<1>3. \A y, z : SameTask(y, z) => SameTask(z, y)
  BY DEF SameTask
<1>4. QED  BY <1>1, <1>2, <1>3 DEF NoTwins

\* Where the tasks are after one has been taken.
LEMMA TakenTask ==
  ASSUME NEW qs \in [Prios -> Seq(Task)], NEW p0 \in Prios, qs[p0] # <<>>,
         NEW p \in Prios, NEW i \in 1..Len(Taken(qs, p0)[p])
  PROVE  LET j == IF p = p0 THEN i + 1 ELSE i
         IN  j \in 1..Len(qs[p]) /\ Taken(qs, p0)[p][i] = qs[p][j]
<1>1. /\ Len(Taken(qs, p0)[p]) = IF p = p0 THEN Len(qs[p]) - 1 ELSE Len(qs[p])
      /\ Len(qs[p]) \in Nat
      /\ p # p0 => Taken(qs, p0)[p] = qs[p]
      /\ \A k \in 1..(Len(qs[p0]) - 1) : Taken(qs, p0)[p0][k] = qs[p0][k + 1]
  <2>1. /\ \A q \in Prios : /\ Len(Taken(qs, p0)[q]) = IF q = p0 THEN Len(qs[q]) - 1 ELSE Len(qs[q])
                            /\ Len(qs[q]) \in Nat
                            /\ q # p0 => Taken(qs, p0)[q] = qs[q]
        /\ \A k \in 1..(Len(qs[p0]) - 1) : Taken(qs, p0)[p0][k] = qs[p0][k + 1]
    BY DequeueFacts
  <2>2. QED  BY <2>1
<1>2. CASE p = p0
  BY <1>1, <1>2
<1>3. CASE p # p0
  BY <1>1, <1>3
<1>4. QED  BY <1>2, <1>3

\* The rest is owed still, and nothing of it is the task that was taken.
LEMMA TakenTasks ==
  ASSUME NEW qs \in [Prios -> Seq(Task)], NEW p0 \in Prios, qs[p0] # <<>>, NoTwins(qs)
  PROVE  /\ NoTwins(Taken(qs, p0))
         /\ Tasks(Taken(qs, p0)) = Tasks(qs) \ {qs[p0][1]}
         /\ \A p \in Prios : \A i \in 1..Len(Taken(qs, p0)[p]) :
              ~SameTask(qs[p0][1], Taken(qs, p0)[p][i])
<1> DEFINE rest == Taken(qs, p0)
<1>1. /\ Len(qs[p0]) \in Nat \ {0} /\ 1 \in 1..Len(qs[p0])
      /\ \A k \in 1..(Len(qs[p0]) - 1) : rest[p0][k] = qs[p0][k + 1]
      /\ \A p \in Prios :
           /\ Len(rest[p]) = IF p = p0 THEN Len(qs[p]) - 1 ELSE Len(qs[p])
           /\ Len(qs[p]) \in Nat
           /\ p # p0 => rest[p] = qs[p]
  BY DequeueFacts
<1>2. ASSUME NEW p \in Prios, NEW i \in 1..Len(rest[p])
      PROVE  \E j \in 1..Len(qs[p]) : rest[p][i] = qs[p][j] /\ j = IF p = p0 THEN i + 1 ELSE i
  BY <1>2, TakenTask
<1>3. ASSUME NEW p \in Prios, NEW i \in 1..Len(rest[p])
      PROVE  rest[p][i] \in Tasks(qs) /\ ~SameTask(qs[p0][1], rest[p][i])
  <2>1. PICK j \in 1..Len(qs[p]) : rest[p][i] = qs[p][j] /\ j = IF p = p0 THEN i + 1 ELSE i
    BY <1>2
  <2>2. p = p0 => j # 1
    BY <1>1, <1>3, <2>1
  <2>3. ~SameTask(qs[p0][1], qs[p][j])
    BY <1>1, <2>2 DEF NoTwins
  <2>4. QED  BY <2>1, <2>3, TasksAre
<1>4. NoTwins(rest)
  <2>1. SUFFICES ASSUME NEW p \in Prios, NEW q \in Prios,
                        NEW i \in 1..Len(rest[p]), NEW j \in 1..Len(rest[q]),
                        SameTask(rest[p][i], rest[q][j])
                 PROVE  p = q /\ i = j
    BY DEF NoTwins
  <2>2. PICK k \in 1..Len(qs[p]) : rest[p][i] = qs[p][k] /\ k = IF p = p0 THEN i + 1 ELSE i
    BY <1>2
  <2>3. PICK l \in 1..Len(qs[q]) : rest[q][j] = qs[q][l] /\ l = IF q = p0 THEN j + 1 ELSE j
    BY <1>2
  <2>4. p = q /\ k = l
    BY <2>1, <2>2, <2>3 DEF NoTwins
  <2>5. i \in Nat /\ j \in Nat
    BY <1>1
  <2>6. QED  BY <2>2, <2>3, <2>4, <2>5
<1>5. ASSUME NEW y \in Tasks(rest) PROVE y \in Tasks(qs) \ {qs[p0][1]}
  <2>1a. PICK p \in Prios : \E i \in 1..Len(rest[p]) : rest[p][i] = y
    BY <1>5, TasksAre
  <2>1. PICK i \in 1..Len(rest[p]) : rest[p][i] = y
    BY <2>1a
  <2>2. y \in Tasks(qs) /\ ~SameTask(qs[p0][1], y)
    BY <1>3, <2>1
  <2>3. QED  BY <2>2 DEF SameTask
<1>6. ASSUME NEW y \in Tasks(qs) \ {qs[p0][1]} PROVE y \in Tasks(rest)
  <2>1a. PICK p \in Prios : \E i \in 1..Len(qs[p]) : qs[p][i] = y
    BY <1>6, TasksAre
  <2>1. PICK i \in 1..Len(qs[p]) : qs[p][i] = y
    BY <2>1a
  <2>2. CASE p # p0
    <3>1. rest[p] = qs[p]
      BY <1>1, <2>2
    <3>2. QED  BY <2>1, <3>1, TasksAre
  <2>3. CASE p = p0
    <3>1. i \in Nat /\ i # 1 /\ i >= 1 /\ i <= Len(qs[p0])
      BY <1>1, <1>6, <2>1, <2>3
    <3>2. i - 1 \in 1..(Len(qs[p0]) - 1) /\ (i - 1) + 1 = i
      BY <1>1, <3>1
    <3>3. rest[p0][i - 1] = y /\ i - 1 \in 1..Len(rest[p0])
      BY <1>1, <2>1, <2>3, <3>2
    <3>4. QED  BY <3>3, TasksAre
  <2>4. QED  BY <2>2, <2>3
<1>7. QED  BY <1>3, <1>4, <1>5, <1>6

\* How a call and a task that is pushed back change the queues.
LEMMA PushedAnew ==
  ASSUME TypeOK, OwedOnce, NEW u \in Pushers, NEW kind \in Kinds, NEW prio \in Prios,
         NEW rounds \in 0..MaxRounds, Push(u, kind, prio, rounds)
  PROVE  /\ Pushed(u, kind, prio, rounds) \in Task
         /\ queues' = Enqueue(queues, Pushed(u, kind, prio, rounds))
         /\ \A p \in Prios : \A i \in 1..Len(queues[p]) :
              ~SameTask(Pushed(u, kind, prio, rounds), queues[p][i])
         /\ task # NoTask => ~SameTask(task, Pushed(u, kind, prio, rounds))
<1> DEFINE x == Pushed(u, kind, prio, rounds)
<1>1. x \in Task /\ queues' = Enqueue(queues, x)
  BY PushedIsTask DEF Push, Pushed
<1>2. x.by = u /\ x.n = nCalls[u] + 1 /\ nCalls[u] \in Nat
  BY DEF Pushed, TypeOK
<1> HIDE DEF x
<1>3. ASSUME NEW y \in Task, y.n <= nCalls[y.by] PROVE ~SameTask(x, y) /\ ~SameTask(y, x)
  <2>1. y.n \in Nat
    BY DEF Task
  <2>2. SUFFICES ASSUME y.by = u, y.n = nCalls[u] + 1 PROVE FALSE
    BY <1>2 DEF SameTask
  <2>3. QED  BY <1>2, <1>3, <2>2
<1>4. \A p \in Prios : \A i \in 1..Len(queues[p]) : queues[p][i] \in Task
  BY DEF TypeOK
<1>5. task # NoTask => task \in Task
  BY DEF TypeOK
<1>6. QED  BY <1>1, <1>3, <1>4, <1>5 DEF OwedOnce, x

LEMMA OwedOnceEnqueue ==
  ASSUME TypeOK, TypeOK', OwedOnce, NEW x \in Task, queues' = Enqueue(queues, x),
         \A p \in Prios : \A i \in 1..Len(queues[p]) : ~SameTask(x, queues[p][i]),
         task' # NoTask => task' = task /\ ~SameTask(task, x),
         \A t \in Pushers : nCalls[t] <= nCalls'[t], x.n <= nCalls'[x.by]
  PROVE  OwedOnce'
<1>1. queues \in [Prios -> Seq(Task)] /\ \A t \in Pushers : nCalls[t] \in Nat /\ nCalls'[t] \in Nat
  BY DEF TypeOK
<1>2. NoTwins(queues')
  BY <1>1, TwinFreePush DEF OwedOnce
<1>3. ASSUME NEW y \in Task, y.n <= nCalls[y.by] PROVE y.n <= nCalls'[y.by]
  <2>1. y.n \in Nat /\ y.by \in Pushers
    BY DEF Task
  <2>2. QED  BY <1>1, <1>3, <2>1
<1>4. ASSUME NEW p \in Prios, NEW i \in 1..Len(queues'[p])
      PROVE  /\ task' # NoTask => ~SameTask(task', queues'[p][i])
             /\ queues'[p][i].n <= nCalls'[queues'[p][i].by]
  <2>1. CASE i \in 1..Len(queues[p]) /\ queues'[p][i] = queues[p][i]
    <3>1. queues[p][i] \in Task
      BY <1>1, <2>1
    <3>2. QED  BY <1>3, <2>1, <3>1 DEF OwedOnce
  <2>2. CASE queues'[p][i] = x
    BY <2>2
  <2>3. QED  BY <1>1, <1>4, <2>1, <2>2, EnqueuedTask
<1>5. task' # NoTask => task'.n <= nCalls'[task'.by]
  BY <1>3 DEF OwedOnce, TypeOK
<1>6. QED  BY <1>2, <1>4, <1>5 DEF OwedOnce

LEMMA OwedOnceStep == TypeInv /\ OwedOnce /\ [Next]_vars => OwedOnce'
<1>1. SUFFICES ASSUME TypeInv, OwedOnce, [Next]_vars PROVE OwedOnce'
  OBVIOUS
<1>2. TypeOK /\ TypeOK' /\ queues \in [Prios -> Seq(Task)]
  BY <1>1, TypeStep DEF TypeInv, TypeOK
<1>3. CASE UNCHANGED <<queues, task, nCalls>>
  BY <1>1, <1>3 DEF OwedOnce
<1>4. CASE Scan
  <2>1. CASE queues[scanAt] = <<>>
    BY <1>3, <1>4, <2>1 DEF Scan, pusherVars
  <2>2. CASE queues[scanAt] # <<>>
    <3>1. /\ queues' = Taken(queues, scanAt) /\ scanAt \in Prios /\ nCalls' = nCalls
          /\ task' = queues[scanAt][1] /\ 1 \in 1..Len(queues[scanAt])
      <4>1. scanAt \in Prios
        BY <1>2, <1>4 DEF Scan, TypeOK
      <4>2. Dequeue(queues[scanAt])[1] = queues[scanAt][1] /\ Len(queues[scanAt]) \in Nat \ {0}
        BY <1>2, <2>2, <4>1, FirstIsTask
      <4>3. /\ queues' = Taken(queues, scanAt) /\ nCalls' = nCalls
            /\ task' = Dequeue(queues[scanAt])[1]
        BY <1>4, <2>2 DEF Scan, Taken, pusherVars
      <4>4. QED  BY <4>1, <4>2, <4>3
    <3>2. /\ NoTwins(queues')
          /\ \A p \in Prios : \A i \in 1..Len(queues'[p]) : ~SameTask(task', queues'[p][i])
      BY <1>1, <1>2, <2>2, <3>1, TakenTasks DEF OwedOnce
    <3>3. ASSUME NEW p \in Prios, NEW i \in 1..Len(queues'[p])
          PROVE  queues'[p][i].n <= nCalls[queues'[p][i].by]
      <4>1. \E j \in 1..Len(queues[p]) : queues'[p][i] = queues[p][j]
        BY <1>2, <2>2, <3>1, <3>3, TakenTask
      <4>2. QED  BY <1>1, <4>1 DEF OwedOnce
    <3>4. task'.n <= nCalls[task'.by]
      BY <1>1, <3>1 DEF OwedOnce
    <3>5. QED  BY <3>1, <3>2, <3>3, <3>4 DEF OwedOnce
  <2>3. QED  BY <2>1, <2>2
<1>5. CASE Run
  <2>1. task # NoTask /\ task' = NoTask /\ nCalls' = nCalls /\ wqPc = "run"
    BY <1>2, <1>5 DEF Run, TypeOK, pusherVars
  <2>2. CASE PushedBack
    <3>1. Again \in Task /\ Again.by = task.by /\ Again.n = task.n
      BY <1>2, <2>1, <2>2, PushedBackType
    <3>2. queues' = Enqueue(queues, Again)
      BY <1>5, <2>2 DEF Run
    <3>3. /\ \A p \in Prios : \A i \in 1..Len(queues[p]) : ~SameTask(Again, queues[p][i])
          /\ Again.n <= nCalls'[Again.by]
      BY <1>1, <2>1, <3>1 DEF OwedOnce, SameTask
    <3>4. \A t \in Pushers : nCalls[t] <= nCalls'[t]
      BY <1>2, <2>1 DEF TypeOK
    <3>5. QED  BY <1>1, <1>2, <2>1, <3>1, <3>2, <3>3, <3>4, OwedOnceEnqueue
  <2>3. CASE ~PushedBack
    BY <1>1, <1>5, <2>1, <2>3 DEF Run, OwedOnce
  <2>4. QED  BY <2>2, <2>3
<1>6. ASSUME NEW u \in Pushers, NEW kind \in Kinds, NEW prio \in Prios,
             NEW rounds \in 0..MaxRounds, Push(u, kind, prio, rounds)
      PROVE  OwedOnce'
  <2> DEFINE x == Pushed(u, kind, prio, rounds)
  <2>1. /\ x \in Task /\ queues' = Enqueue(queues, x)
        /\ \A p \in Prios : \A i \in 1..Len(queues[p]) : ~SameTask(x, queues[p][i])
        /\ task # NoTask => ~SameTask(task, x)
    BY <1>1, <1>2, <1>6, PushedAnew
  <2>2. /\ task' = task /\ x.n = nCalls[u] + 1 /\ x.by = u
        /\ nCalls' = [nCalls EXCEPT ![u] = @ + 1]
    BY <1>6 DEF Push, Pushed, workerVars
  <2> HIDE DEF x
  <2>3. \A t \in Pushers : nCalls[t] \in Nat /\ nCalls'[t] = IF t = u THEN nCalls[t] + 1 ELSE nCalls[t]
    <3>1. nCalls \in [Pushers -> 0..MaxCalls]
      BY <1>2 DEF TypeOK
    <3>2. QED  BY <2>2, <3>1
  <2>4. x.n <= nCalls'[x.by] /\ \A t \in Pushers : nCalls[t] <= nCalls'[t]
    BY <2>2, <2>3
  <2>5. QED  BY <1>1, <1>2, <2>1, <2>2, <2>3, <2>4, OwedOnceEnqueue
<1>7. ASSUME NEW u \in Pushers, InResume(u) \/ Acquire(u) PROVE OwedOnce'
  BY <1>3, <1>7 DEF InResume, Check, Clear, Resume, Acquire, workerVars
<1>8. CASE Mark \/ Suspend \/ UNCHANGED vars
  BY <1>3, <1>8 DEF Mark, Suspend, vars, workerVars, pusherVars
<1>9. QED  BY <1>1, <1>4, <1>5, <1>6, <1>7, <1>8 DEF Next, Worker

RunnerInv == FrameInv /\ OrderInv /\ OwedOnce

LEMMA RunnerInvHolds == Spec => []RunnerInv
<1>1. Init => OwedOnce
  BY DEF Init, OwedOnce, NoTwins
<1>2. OrderInv => TypeInv
  BY DEF OrderInv
<1>3. Spec => []OwedOnce
  BY <1>1, <1>2, OwedOnceStep, OrderInvHolds, PTL DEF Spec
<1>4. QED  BY <1>3, FrameInvHolds, OrderInvHolds, PTL DEF RunnerInv

(* One lemma per step of TaskRunner. *)

InCall == {t \in Pushers : Waiting(t)}

LEMMA RunnerStays ==
  ASSUME UNCHANGED <<queues, task, nCalls>>, InCall' = InCall
  PROVE  [Runner!Next]_(Runner!vars)
<1>1. UNCHANGED <<Owed, task, nCalls, InCall>>
  BY DEF Owed
<1>2. QED  BY <1>1 DEF Runner!vars, InCall

\* The first task of a queue is taken: the others of its thread and priority are later.
LEMMA ScanImplements ==
  ASSUME RunnerInv, Scan
  PROVE  [Runner!Next]_(Runner!vars)
<1>1. /\ TypeOK /\ NoTwins(queues) /\ PlacedByPrio /\ \A t \in Pushers, p \in Prios : InOrder(t, p)
      /\ task = NoTask /\ UNCHANGED <<nCalls, pc, call>>
  BY DEF RunnerInv, OrderInv, OwedOnce, TypeInv, TypeOK, Scan, pusherVars
<1>2. InCall' = InCall
  BY <1>1 DEF InCall, Waiting
<1>3. CASE queues[scanAt] = <<>>
  BY <1>1, <1>2, <1>3, RunnerStays DEF Scan
<1>4. CASE queues[scanAt] # <<>>
  <2> DEFINE x == queues[scanAt][1]
  <2>1. /\ queues \in [Prios -> Seq(Task)] /\ scanAt \in Prios
        /\ queues' = Taken(queues, scanAt) /\ task' = x /\ x \in Task
        /\ Len(queues[scanAt]) \in Nat \ {0} /\ 1 \in 1..Len(queues[scanAt])
    <3>1. queues \in [Prios -> Seq(Task)] /\ scanAt \in Prios
      BY <1>1 DEF TypeOK
    <3>2. Dequeue(queues[scanAt])[1] = x /\ Dequeue(queues[scanAt])[1] \in Task
          /\ Len(queues[scanAt]) \in Nat \ {0}
      BY <1>4, <3>1, FirstIsTask
    <3>3. queues' = Taken(queues, scanAt) /\ task' = Dequeue(queues[scanAt])[1]
      BY <1>4 DEF Scan, Taken
    <3>4. QED  BY <3>1, <3>2, <3>3
  <2>2. Tasks(queues') = Tasks(queues) \ {x}
    BY <1>1, <1>4, <2>1, TakenTasks
  <2>3. Owed' = Owed \ {x}
    BY <2>2, OwedIsTasks DEF Owed, Tasks
  <2>4. x \in Owed
    BY <2>1, OwedIsTasks, TasksAre
  <2>5. ASSUME NEW y \in Owed PROVE ~Runner!Before(y, x)
    <3>1. SUFFICES ASSUME ~x.again, ~y.again, y.by = x.by, y.prio = x.prio, y.n < x.n PROVE FALSE
      BY DEF Runner!Before
    <3>2a. PICK p \in Prios : \E i \in 1..Len(queues[p]) : queues[p][i] = y
      BY <2>5, OwedIsTasks, TasksAre
    <3>2. PICK i \in 1..Len(queues[p]) : queues[p][i] = y
      BY <3>2a
    <3>3. p = scanAt
      BY <1>1, <2>1, <3>1, <3>2 DEF PlacedByPrio
    <3>4. y \in Task /\ x.n \in Nat /\ y.n \in Nat /\ x.by \in Pushers /\ i \in Nat
      <4>1. y \in Task
        BY <2>1, <3>2a, <3>2
      <4>2. x.n \in Nat /\ y.n \in Nat /\ x.by \in Pushers
        BY <2>1, <4>1, TaskParts
      <4>3. QED  BY <3>2, <4>1, <4>2
    <3>5. FreshAt(queues, scanAt, 1, x.by, x.n) /\ FreshAt(queues, scanAt, i, x.by, y.n)
      BY <2>1, <3>1, <3>2, <3>3 DEF FreshAt
    <3>6. CASE i = 1
      BY <3>1, <3>2, <3>3, <3>4, <3>6
    <3>7. CASE 1 < i
      <4>1. InOrder(x.by, scanAt)
        BY <1>1, <2>1, <3>4
      <4>2. x.n < y.n
        BY <3>4, <3>5, <3>7, <4>1 DEF InOrder
      <4>3. QED  BY <3>1, <3>4, <4>2
    <3>8. QED  BY <3>2, <3>4, <3>6, <3>7
  <2> HIDE DEF x
  <2>6. Runner!Take(x)
    BY <1>1, <1>2, <2>1, <2>3, <2>4, <2>5 DEF Runner!Take, InCall
  <2>7. QED  BY <2>4, <2>6 DEF Runner!Next
<1>5. QED  BY <1>3, <1>4

LEMMA RunImplements ==
  ASSUME RunnerInv, Run
  PROVE  [Runner!Next]_(Runner!vars)
<1>1. /\ TypeOK /\ wqPc = "run" /\ task # NoTask /\ task' = NoTask /\ UNCHANGED <<nCalls, pc, call>>
  BY DEF RunnerInv, OrderInv, TypeInv, TypeOK, Run, pusherVars
<1>2. InCall' = InCall
  BY <1>1 DEF InCall, Waiting
<1>3. task \in Task /\ task.rounds \in Nat
  BY <1>1, PushedBackType
<1>4. CASE PushedBack
  <2>1. Again \in Task /\ task.rounds # 0
    BY <1>1, <1>3, <1>4, PushedBackType DEF PushedBack
  <2>2. queues' = Enqueue(queues, Again) /\ queues \in [Prios -> Seq(Task)]
    BY <1>1, <1>4 DEF Run, TypeOK
  <2>3. Owed' = Owed \cup {Again}
    <3>1. Tasks(queues') = Tasks(queues) \cup {Again}
      BY <2>1, <2>2, EnqueuedTasks
    <3>2. Owed' = Tasks(queues')
      BY DEF Owed, Tasks
    <3>3. QED  BY <3>1, <3>2, OwedIsTasks
  <2>4. Again = Runner!Anew(task)
    BY DEF Again, Runner!Anew, Default
  <2>5. Runner!Finish
    BY <1>1, <1>2, <2>1, <2>3, <2>4 DEF Runner!Finish, InCall
  <2>6. QED  BY <2>5 DEF Runner!Next
<1>5. CASE ~PushedBack
  <2>1. task.rounds = 0 /\ queues' = queues
    BY <1>3, <1>5 DEF PushedBack, Run
  <2>2. Owed' = Owed
    BY <2>1 DEF Owed
  <2>3. Runner!Finish
    BY <1>1, <1>2, <2>1, <2>2 DEF Runner!Finish, InCall
  <2>4. QED  BY <2>3 DEF Runner!Next
<1>6. QED  BY <1>4, <1>5

LEMMA PushImplements ==
  ASSUME RunnerInv, NEW u \in Pushers, NEW kind \in Kinds, NEW prio \in Prios,
         NEW rounds \in 0..MaxRounds, Push(u, kind, prio, rounds)
  PROVE  [Runner!Next]_(Runner!vars)
<1> DEFINE x == Pushed(u, kind, prio, rounds)
<1>1. TypeOK /\ OwedOnce /\ queues \in [Prios -> Seq(Task)] /\ task' = task /\ pc[u] = "idle"
  BY DEF RunnerInv, OrderInv, TypeInv, TypeOK, Push, workerVars
<1>2. x \in Task /\ queues' = Enqueue(queues, x)
  BY <1>1, PushedAnew
<1>3. Owed' = Owed \cup {x}
  <2>1. Tasks(queues') = Tasks(queues) \cup {x}
    BY <1>1, <1>2, EnqueuedTasks
  <2>2. Owed' = Tasks(queues')
    BY DEF Owed, Tasks
  <2>3. QED  BY <2>1, <2>2, OwedIsTasks
<1>4. nCalls' = [nCalls EXCEPT ![u] = @ + 1] /\ nCalls'[u] = nCalls[u] + 1
  BY <1>1 DEF Push, TypeOK
<1>5. x.prio \in 0..2 /\ x.waits \in BOOLEAN /\ x.waits = Waits(kind) /\ x.rounds = rounds
  BY <1>2 DEF Task, Prios, Pushed
<1>6. x = [by |-> u, n |-> nCalls'[u], prio |-> x.prio, waits |-> x.waits,
           rounds |-> rounds, again |-> FALSE]
  BY <1>4 DEF Pushed
<1>7. u \notin InCall /\ InCall' = IF x.waits THEN InCall \cup {u} ELSE InCall
  <2>1. /\ pc' = [pc EXCEPT ![u] = "check"]
        /\ call' = [call EXCEPT ![u] = [waits |-> Waits(kind), left |-> Resumes(kind)]]
    BY DEF Push, Begin
  <2>2. \A t \in Pushers : Waiting(t)' <=> IF t = u THEN x.waits ELSE Waiting(t)
    BY <1>1, <1>5, <2>1 DEF Waiting, TypeOK
  <2>3. QED  BY <1>1, <2>2 DEF InCall, Waiting
<1> HIDE DEF x
<1>8. Runner!Submit(u, x.prio, x.waits, rounds)
  BY <1>1, <1>3, <1>4, <1>6, <1>7 DEF Runner!Submit, InCall
<1>9. QED  BY <1>5, <1>8 DEF Runner!Next

LEMMA InResumeImplements ==
  ASSUME RunnerInv, NEW u \in Pushers, InResume(u)
  PROVE  [Runner!Next]_(Runner!vars)
<1>1. TypeOK /\ UNCHANGED <<queues, task, nCalls>> /\ pc[u] # "idle"
  BY DEF RunnerInv, OrderInv, TypeInv, InResume, Check, Clear, Resume, workerVars
<1>2. ASSUME NEW t \in Pushers PROVE Waiting(t)' <=> Waiting(t)
  <2>1. \/ pc' = [pc EXCEPT ![u] = "clear"] /\ call' = call
        \/ pc' = [pc EXCEPT ![u] = "resume"] /\ call' = call
        \/ EndResume(u)
    BY DEF InResume, Check, Clear, Resume
  <2>2. CASE pc' = [pc EXCEPT ![u] = "clear"] /\ call' = call
    BY <1>1, <2>2 DEF Waiting, TypeOK
  <2>3. CASE pc' = [pc EXCEPT ![u] = "resume"] /\ call' = call
    BY <1>1, <2>3 DEF Waiting, TypeOK
  <2>4. CASE EndResume(u)
    BY <1>1, <2>4 DEF Waiting, EndResume, After, TypeOK
  <2>5. QED  BY <2>1, <2>2, <2>3, <2>4
<1>3. InCall' = InCall
  BY <1>2 DEF InCall
<1>4. QED  BY <1>1, <1>3, RunnerStays

\* The semaphore has been released, so the task is through.
LEMMA AcquireImplements ==
  ASSUME RunnerInv, NEW u \in Pushers, Acquire(u)
  PROVE  [Runner!Next]_(Runner!vars)
<1>1. /\ TypeOK /\ FrameOf(u) /\ pc[u] = "acquire" /\ sem[u]
      /\ UNCHANGED <<queues, task, nCalls, call>> /\ pc' = [pc EXCEPT ![u] = "idle"]
  BY DEF RunnerInv, FrameInv, OrderInv, TypeInv, Acquire, workerVars
<1>2. ~Held(u) /\ ~InQueues(queues, u)
  BY <1>1 DEF FrameOf, OneTask
<1>3. Owed' = Owed
  BY <1>1 DEF Owed
<1>4. InCall' = InCall \ {u}
  <2>1. \A t \in Pushers : Waiting(t)' <=> t # u /\ Waiting(t)
    BY <1>1 DEF Waiting, TypeOK
  <2>2. QED  BY <2>1 DEF InCall
<1>5. CASE u \notin InCall
  BY <1>1, <1>4, <1>5, RunnerStays
<1>6. CASE u \in InCall
  <2>1. ASSUME NEW x \in Owed, x.by = u PROVE ~x.waits
    <3>1a. PICK p \in Prios : \E i \in 1..Len(queues[p]) : queues[p][i] = x
      BY <2>1, OwedIsTasks, TasksAre
    <3>1. PICK i \in 1..Len(queues[p]) : queues[p][i] = x
      BY <3>1a
    <3>2. i \in Nat
      BY <1>1, <3>1 DEF TypeOK
    <3>3. QED  BY <1>2, <2>1, <3>1, <3>2 DEF InQueues, QueuedAt
  <2>2. task # NoTask => task.by # u \/ ~task.waits
    BY <1>2 DEF Held
  <2>3. Runner!Return(u)
    BY <1>1, <1>3, <1>4, <1>6, <2>1, <2>2 DEF Runner!Return, InCall
  <2>4. QED  BY <2>3 DEF Runner!Next
<1>7. QED  BY <1>5, <1>6

LEMMA RunnerInit == Init => Runner!Init
BY DEF Init, Runner!Init, Owed, Waiting

LEMMA RunnerStep == RunnerInv /\ [Next]_vars => [Runner!Next]_(Runner!vars)
<1>1. SUFFICES ASSUME RunnerInv, [Next]_vars PROVE [Runner!Next]_(Runner!vars)
  OBVIOUS
<1>2. CASE Scan
  BY <1>1, <1>2, ScanImplements
<1>3. CASE Run
  BY <1>1, <1>3, RunImplements
<1>4. CASE Mark \/ Suspend \/ UNCHANGED vars
  <2>1. UNCHANGED <<queues, task, nCalls, pc, call>>
    BY <1>4 DEF Mark, Suspend, vars, workerVars, pusherVars
  <2>2. InCall' = InCall
    BY <2>1 DEF InCall, Waiting
  <2>3. QED  BY <2>1, <2>2, RunnerStays
<1>5. ASSUME NEW u \in Pushers, NEW kind \in Kinds, NEW prio \in Prios,
             NEW rounds \in 0..MaxRounds, Push(u, kind, prio, rounds)
      PROVE  [Runner!Next]_(Runner!vars)
  BY <1>1, <1>5, PushImplements
<1>6. ASSUME NEW u \in Pushers, InResume(u) PROVE [Runner!Next]_(Runner!vars)
  BY <1>1, <1>6, InResumeImplements
<1>7. ASSUME NEW u \in Pushers, Acquire(u) PROVE [Runner!Next]_(Runner!vars)
  BY <1>1, <1>7, AcquireImplements
<1>8. QED  BY <1>1, <1>2, <1>3, <1>4, <1>5, <1>6, <1>7 DEF Next, Worker

\* The work queue implements TaskRunner for any number of threads, calls and rounds, on one core or
\* several: each task is run once and as often again as it asks for, in its thread's order, and
\* nobody who waits for it goes on before (WorkQueue.hpp:45-133).
THEOREM TasksAreRun == Spec => TasksRunAsPushed
<1>1. QED  BY RunnerInit, RunnerStep, RunnerInvHolds, PTL DEF Spec, TasksRunAsPushed, Runner!Spec
=============================================================================
