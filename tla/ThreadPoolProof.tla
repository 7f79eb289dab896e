---------------------------- MODULE ThreadPoolProof ----------------------------
(***************************************************************************)
(* Theorems about ThreadPool, for every number of workers, tasks and       *)
(* callers of Shutdown.                                                    *)
(***************************************************************************)
EXTENDS ThreadPool, SequenceTheorems, FiniteSetTheorems, TLAPS

LEMMA ThreadSets ==
    /\ Workers \subseteq Threads
    /\ TimerThread \in Threads
    /\ TimerThread \notin Workers
    /\ \A t \in Threads : t # TimerThread => t \in Workers
BY ConstantsAssumption DEF Threads

\* The steps of Next by the thread that takes them, for the case splits below.
WorkerAction(w) ==
    \/ SpawnWorker(w) \/ RegisterWorker(w) \/ WorkerFind(w) \/ WorkerTest(w)
    \/ WorkerMarkEmpty(w) \/ WorkerSleep(w) \/ WorkerLeave(w)
    \/ WorkerTake(w) \/ WorkerPopEmpty(w) \/ WorkerRun(w)
    \/ SpuriousWakeup(w)

CloserAction(c) ==
    \/ ShutdownTest(c) \/ ShutdownStop(c) \/ ShutdownClear(c)
    \/ ShutdownNotifyAll(c) \/ ShutdownReturn(c)
    \/ \E t \in Threads : ShutdownJoin(c, t)

LEMMA NextCases ==
    [Next]_vars =>
        \/ \E w \in Workers : WorkerAction(w)
        \/ \E t \in Tasks : EnqueueTask(t) \/ NotifyOne(t)
        \/ \E c \in Closers : CloserAction(c)
        \/ StartTimer \/ TimerTest \/ TimerFire
        \/ UNCHANGED vars
BY DEF Next, ConstructorStep, WorkerStep, ShutdownStep, TimerStep,
       WorkerAction, CloserAction

-------------------------------------------------------------------------------
LEMMA InitType == Init => TypeOK
<1> SUFFICES ASSUME Init PROVE TypeOK
  OBVIOUS
<1>1. tasks \in Seq(Tasks)
  BY ConstantsAssumption DEF Init
<1>2. /\ pc \in [Threads -> WorkerPlaces \cup TimerPlaces]
      /\ \A w \in Workers : pc[w] \in WorkerPlaces
      /\ pc[TimerThread] \in TimerPlaces
  BY ThreadSets DEF Init, WorkerPlaces, TimerPlaces
<1>. QED
  BY <1>1, <1>2, ThreadSets DEF Init, TypeOK, CloserPlaces

LEMMA NextType == TypeOK /\ [Next]_vars => TypeOK'
<1> SUFFICES ASSUME TypeOK, [Next]_vars PROVE TypeOK'
  OBVIOUS
<1> USE ThreadSets DEF TypeOK, WorkerPlaces, TimerPlaces, CloserPlaces,
        poolVars, threadVars, closeVars, timerVars
<1>1. ASSUME NEW w \in Workers, SpawnWorker(w) PROVE TypeOK'
  BY <1>1 DEF SpawnWorker
<1>2. ASSUME NEW w \in Workers, RegisterWorker(w) PROVE TypeOK'
  BY <1>2 DEF RegisterWorker
<1>3. ASSUME NEW w \in Workers, WorkerFind(w) PROVE TypeOK'
  BY <1>3 DEF WorkerFind
<1>4. ASSUME NEW w \in Workers, WorkerTest(w) PROVE TypeOK'
  BY <1>4 DEF WorkerTest
<1>5. ASSUME NEW w \in Workers, WorkerMarkEmpty(w) PROVE TypeOK'
  BY <1>5 DEF WorkerMarkEmpty
<1>6. ASSUME NEW w \in Workers, WorkerSleep(w) PROVE TypeOK'
  BY <1>6 DEF WorkerSleep
<1>7. ASSUME NEW w \in Workers, WorkerLeave(w) PROVE TypeOK'
  BY <1>7 DEF WorkerLeave
<1>8. ASSUME NEW w \in Workers, WorkerTake(w) PROVE TypeOK'
  <2>1. Head(tasks) \in Tasks /\ Head(tasks) # NoTask
    BY <1>8, ConstantsAssumption, HeadTailProperties DEF WorkerTake
  <2>. QED
    BY <1>8, <2>1 DEF WorkerTake
<1>9. ASSUME NEW w \in Workers, WorkerPopEmpty(w) PROVE TypeOK'
  BY <1>9 DEF WorkerPopEmpty
<1>10. ASSUME NEW w \in Workers, WorkerRun(w) PROVE TypeOK'
  BY <1>10 DEF WorkerRun
<1>11. ASSUME NEW w \in Workers, SpuriousWakeup(w) PROVE TypeOK'
  BY <1>11 DEF SpuriousWakeup
<1>12. ASSUME NEW t \in Tasks, EnqueueTask(t) PROVE TypeOK'
  BY <1>12 DEF EnqueueTask
<1>13. ASSUME NEW t \in Tasks, NotifyOne(t) PROVE TypeOK'
  BY <1>13 DEF NotifyOne, Asleep
<1>14. ASSUME NEW c \in Closers, ShutdownTest(c) PROVE TypeOK'
  BY <1>14 DEF ShutdownTest
<1>15. ASSUME NEW c \in Closers, ShutdownStop(c) PROVE TypeOK'
  BY <1>15 DEF ShutdownStop
<1>16. ASSUME NEW c \in Closers, ShutdownClear(c) PROVE TypeOK'
  BY <1>16 DEF ShutdownClear
<1>17. ASSUME NEW c \in Closers, ShutdownNotifyAll(c) PROVE TypeOK'
  BY <1>17 DEF ShutdownNotifyAll, Asleep
<1>18. ASSUME NEW c \in Closers, ShutdownReturn(c) PROVE TypeOK'
  BY <1>18 DEF ShutdownReturn
<1>19. ASSUME NEW c \in Closers, NEW t \in Threads, ShutdownJoin(c, t)
       PROVE TypeOK'
  <2>1. joinedBy' \in [Threads -> SUBSET Closers] /\ crashed' \in BOOLEAN
    <3>1. {c} \in SUBSET Closers
      OBVIOUS
    <3>2. CASE joinedBy[t] = {}
      BY <1>19, <3>1, <3>2 DEF ShutdownJoin
    <3>3. CASE joinedBy[t] # {}
      BY <1>19, <3>3 DEF ShutdownJoin
    <3>. QED
      BY <3>2, <3>3
  <2>. QED
    BY <1>19, <2>1 DEF ShutdownJoin
<1>20. CASE StartTimer
  BY <1>20 DEF StartTimer
<1>21. CASE TimerTest
  BY <1>21 DEF TimerTest
<1>22. CASE TimerFire
  BY <1>22 DEF TimerFire
<1>23. CASE UNCHANGED vars
  BY <1>23 DEF vars
<1>. HIDE DEF TypeOK
<1>24. ASSUME NEW w \in Workers, WorkerAction(w) PROVE TypeOK'
  BY <1>1, <1>2, <1>3, <1>4, <1>5, <1>6, <1>7, <1>8, <1>9, <1>10, <1>11,
     <1>24 DEF WorkerAction
<1>25. ASSUME NEW c \in Closers, CloserAction(c) PROVE TypeOK'
  BY <1>14, <1>15, <1>16, <1>17, <1>18, <1>19, <1>25 DEF CloserAction
<1>. QED
  BY <1>12, <1>13, <1>20, <1>21, <1>22, <1>23, <1>24, <1>25, NextCases

\* Type correctness of the pool for every configuration.
THEOREM TypeCorrect == Spec => []TypeOK
BY InitType, NextType, PTL DEF Spec

-------------------------------------------------------------------------------
(* Task accounting.  OneRunner alone is not inductive: that the task a       *)
(* worker runs is a task at all has to be carried along.                     *)

RunnerHolds == \A w \in Workers : pc[w] = "run" => holding[w] \in Tasks

AccountingInv == TypeOK /\ TaskAccounting /\ RunnerHolds

\* Most steps touch neither the queue nor the tasks, and send no worker into
\* or out of task().
Frame ==
    /\ UNCHANGED <<tasks, taskState, holding>>
    /\ \A w \in Workers : pc'[w] = "run" <=> pc[w] = "run"

LEMMA FrameKeepsAccounting ==
    ASSUME TaskAccounting, RunnerHolds, Frame
    PROVE  TaskAccounting' /\ RunnerHolds'
BY DEF TaskAccounting, QueueIsQueued, OneRunner, RunnerHolds, Frame

LEMMA WorkerFrame ==
    ASSUME TypeOK, NEW w \in Workers, WorkerAction(w)
    PROVE  WorkerTake(w) \/ WorkerRun(w) \/ Frame
<1> USE ThreadSets DEF TypeOK, Frame, poolVars, threadVars
<1>1. CASE SpawnWorker(w)
  BY <1>1 DEF SpawnWorker
<1>2. CASE RegisterWorker(w)
  BY <1>2 DEF RegisterWorker
<1>3. CASE WorkerFind(w)
  BY <1>3 DEF WorkerFind
<1>4. CASE WorkerTest(w)
  BY <1>4 DEF WorkerTest
<1>5. CASE WorkerMarkEmpty(w)
  BY <1>5 DEF WorkerMarkEmpty
<1>6. CASE WorkerSleep(w)
  BY <1>6 DEF WorkerSleep
<1>7. CASE WorkerLeave(w)
  BY <1>7 DEF WorkerLeave
<1>8. CASE WorkerPopEmpty(w)
  BY <1>8 DEF WorkerPopEmpty
<1>9. CASE SpuriousWakeup(w)
  BY <1>9 DEF SpuriousWakeup
<1>. HIDE DEF TypeOK, Frame
<1>. QED
  BY <1>1, <1>2, <1>3, <1>4, <1>5, <1>6, <1>7, <1>8, <1>9 DEF WorkerAction

LEMMA CloserFrame ==
    ASSUME TypeOK, NEW c \in Closers, CloserAction(c)
    PROVE  ShutdownClear(c) \/ Frame
<1> USE ThreadSets DEF TypeOK, Frame, poolVars, threadVars
<1>1. CASE ShutdownTest(c)
  BY <1>1 DEF ShutdownTest
<1>2. CASE ShutdownStop(c)
  BY <1>2 DEF ShutdownStop
<1>3. CASE ShutdownNotifyAll(c)
  BY <1>3 DEF ShutdownNotifyAll, Asleep
<1>4. CASE ShutdownReturn(c)
  BY <1>4 DEF ShutdownReturn
<1>5. ASSUME NEW t \in Threads, ShutdownJoin(c, t) PROVE Frame
  BY <1>5 DEF ShutdownJoin
<1>. HIDE DEF TypeOK, Frame
<1>. QED
  BY <1>1, <1>2, <1>3, <1>4, <1>5 DEF CloserAction

LEMMA OtherFrame ==
    ASSUME TypeOK,
           \/ \E t \in Tasks : NotifyOne(t)
           \/ StartTimer \/ TimerTest \/ TimerFire
           \/ UNCHANGED vars
    PROVE  Frame
<1> USE ThreadSets DEF TypeOK, Frame, poolVars, threadVars
<1>1. ASSUME NEW t \in Tasks, NotifyOne(t) PROVE Frame
  BY <1>1 DEF NotifyOne, Asleep
<1>2. CASE StartTimer
  BY <1>2 DEF StartTimer
<1>3. CASE TimerTest
  BY <1>3 DEF TimerTest
<1>4. CASE TimerFire
  BY <1>4 DEF TimerFire
<1>5. CASE UNCHANGED vars
  BY <1>5 DEF vars
<1>. HIDE DEF TypeOK, Frame
<1>. QED
  BY <1>1, <1>2, <1>3, <1>4, <1>5

\* Taking the head of a sequence without repetitions.
LEMMA HeadLeaves ==
    ASSUME NEW S, NEW s \in Seq(S), s # <<>>,
           \A i, j \in DOMAIN s : s[i] = s[j] => i = j
    PROVE  /\ Head(s) \in S
           /\ \E i \in DOMAIN s : s[i] = Head(s)
           /\ \A i, j \in DOMAIN Tail(s) : Tail(s)[i] = Tail(s)[j] => i = j
           /\ \A x : (\E i \in DOMAIN Tail(s) : Tail(s)[i] = x) <=>
                     (x # Head(s) /\ \E i \in DOMAIN s : s[i] = x)
<1>1. Len(s) \in Nat \ {0} /\ DOMAIN s = 1 .. Len(s)
  BY EmptySeq, LenProperties
<1>2. /\ Head(s) = s[1]
      /\ Tail(s) \in Seq(S)
      /\ Len(Tail(s)) = Len(s) - 1
      /\ \A i \in 1 .. Len(Tail(s)) : Tail(s)[i] = s[i + 1]
  BY HeadTailProperties
<1>3. DOMAIN Tail(s) = 1 .. Len(s) - 1
  BY <1>2, LenProperties
<1>4. Head(s) \in S /\ \E i \in DOMAIN s : s[i] = Head(s)
  BY <1>1, <1>2, ElementOfSeq
<1>5. \A i, j \in DOMAIN Tail(s) : Tail(s)[i] = Tail(s)[j] => i = j
  BY <1>1, <1>2, <1>3
<1>6. ASSUME NEW x, NEW i \in DOMAIN Tail(s), Tail(s)[i] = x
      PROVE  x # Head(s) /\ \E k \in DOMAIN s : s[k] = x
  <2>1. i + 1 \in DOMAIN s /\ s[i + 1] = x /\ 1 \in DOMAIN s /\ i + 1 # 1
    BY <1>1, <1>2, <1>3, <1>6
  <2>. QED
    BY <2>1, <1>2
<1>7. ASSUME NEW x, x # Head(s), NEW k \in DOMAIN s, s[k] = x
      PROVE  \E i \in DOMAIN Tail(s) : Tail(s)[i] = x
  <2>1. k # 1
    BY <1>2, <1>7
  <2>2. k - 1 \in DOMAIN Tail(s) /\ Tail(s)[k - 1] = x
    BY <1>1, <1>2, <1>3, <1>7, <2>1
  <2>. QED
    BY <2>2
<1>. QED
  BY <1>4, <1>5, <1>6, <1>7

LEMMA EnqueueKeepsAccounting ==
    ASSUME AccountingInv, NEW t \in Tasks, EnqueueTask(t)
    PROVE  TaskAccounting' /\ RunnerHolds'
<1> USE DEF AccountingInv
<1>1. /\ tasks \in Seq(Tasks)
      /\ taskState \in [Tasks -> {"new", "queued", "running", "done", "dropped"}]
      /\ taskState[t] = "new"
      /\ tasks' = Append(tasks, t)
      /\ taskState' = [taskState EXCEPT ![t] = "queued"]
      /\ UNCHANGED <<pc, holding>>
  BY DEF EnqueueTask, TypeOK, threadVars
<1>2. /\ Len(tasks) \in Nat
      /\ DOMAIN tasks = 1 .. Len(tasks)
      /\ DOMAIN tasks' = 1 .. Len(tasks) + 1
      /\ \A i \in 1 .. Len(tasks) : tasks'[i] = tasks[i]
      /\ tasks'[Len(tasks) + 1] = t
  BY <1>1, AppendProperties, LenProperties
<1>3. \A i \in 1 .. Len(tasks) : tasks[i] # t
  BY <1>1, <1>2 DEF TaskAccounting, QueueIsQueued
<1>4. QueueIsQueued'
  <2>1. \A i, j \in DOMAIN tasks' : tasks'[i] = tasks'[j] => i = j
    BY <1>2, <1>3 DEF TaskAccounting, QueueIsQueued
  <2>2. ASSUME NEW u \in Tasks
        PROVE  taskState'[u] = "queued" <=>
                 \E i \in DOMAIN tasks' : tasks'[i] = u
    <3>1. CASE u = t
      BY <1>1, <1>2, <3>1
    <3>2. CASE u # t
      <4>1. taskState'[u] = taskState[u]
        BY <1>1, <3>2
      <4>2. (\E i \in DOMAIN tasks' : tasks'[i] = u) <=>
              \E i \in DOMAIN tasks : tasks[i] = u
        BY <1>2, <3>2
      <4>. QED
        BY <4>1, <4>2 DEF TaskAccounting, QueueIsQueued
    <3>. QED
      BY <3>1, <3>2
  <2>. QED
    BY <2>1, <2>2 DEF QueueIsQueued
<1>5. OneRunner' /\ RunnerHolds'
  BY <1>1 DEF TaskAccounting, OneRunner, RunnerHolds
<1>. QED
  BY <1>4, <1>5 DEF TaskAccounting

LEMMA TakeKeepsAccounting ==
    ASSUME AccountingInv, NEW w \in Workers, WorkerTake(w)
    PROVE  TaskAccounting' /\ RunnerHolds'
<1> USE DEF AccountingInv
<1> DEFINE h == Head(tasks)
<1>1. /\ tasks \in Seq(Tasks) /\ tasks # <<>>
      /\ taskState \in [Tasks -> {"new", "queued", "running", "done", "dropped"}]
      /\ holding \in [Workers -> Tasks \cup {NoTask}]
      /\ w \in Threads /\ Workers \subseteq Threads
      /\ pc \in [Threads -> WorkerPlaces \cup TimerPlaces]
      /\ pc[w] = "wait"
      /\ tasks' = Tail(tasks)
      /\ taskState' = [taskState EXCEPT ![h] = "running"]
      /\ holding' = [holding EXCEPT ![w] = h]
      /\ pc' = [pc EXCEPT ![w] = "run"]
  BY ThreadSets DEF WorkerTake, TypeOK
<1>2. /\ h \in Tasks
      /\ \E i \in DOMAIN tasks : tasks[i] = h
      /\ \A i, j \in DOMAIN tasks' : tasks'[i] = tasks'[j] => i = j
      /\ \A x : (\E i \in DOMAIN tasks' : tasks'[i] = x) <=>
                (x # h /\ \E i \in DOMAIN tasks : tasks[i] = x)
  <2>1. \A i, j \in DOMAIN tasks : tasks[i] = tasks[j] => i = j
    BY DEF TaskAccounting, QueueIsQueued
  <2>2. /\ Head(tasks) \in Tasks
        /\ \E i \in DOMAIN tasks : tasks[i] = Head(tasks)
        /\ \A i, j \in DOMAIN Tail(tasks) :
             Tail(tasks)[i] = Tail(tasks)[j] => i = j
        /\ \A x : (\E i \in DOMAIN Tail(tasks) : Tail(tasks)[i] = x) <=>
                  (x # Head(tasks) /\ \E i \in DOMAIN tasks : tasks[i] = x)
    <3>. HIDE DEF AccountingInv, h
    <3>. QED
      BY <1>1, <2>1, HeadLeaves, Zenon
  <2>. QED
    BY <1>1, <2>2
<1>3. taskState[h] = "queued"
  BY <1>2 DEF TaskAccounting, QueueIsQueued
<1>. HIDE DEF h
<1>4. QueueIsQueued'
  BY <1>1, <1>2 DEF TaskAccounting, QueueIsQueued
<1>5. \A v \in Workers : pc[v] = "run" => holding[v] # h
  BY <1>2, <1>3 DEF TaskAccounting, OneRunner
<1>6. \A v \in Workers : v # w => pc'[v] = pc[v] /\ holding'[v] = holding[v]
  BY <1>1
<1>7. pc'[w] = "run" /\ holding'[w] = h
  BY <1>1
<1>8. OneRunner'
  <2>1. ASSUME NEW t \in Tasks
        PROVE  taskState'[t] = "running" <=>
                 \E v \in Workers : pc'[v] = "run" /\ holding'[v] = t
    <3>1. CASE t = h
      BY <1>1, <1>2, <1>7, <3>1
    <3>2. CASE t # h
      <4>1. taskState'[t] = taskState[t]
        BY <1>1, <3>2
      <4>2. (\E v \in Workers : pc'[v] = "run" /\ holding'[v] = t) <=>
              \E v \in Workers : pc[v] = "run" /\ holding[v] = t
        BY <1>1, <1>6, <1>7, <3>2
      <4>. QED
        BY <4>1, <4>2 DEF TaskAccounting, OneRunner
    <3>. QED
      BY <3>1, <3>2
  <2>2. \A u, v \in Workers :
          pc'[u] = "run" /\ pc'[v] = "run" /\ holding'[u] = holding'[v] => u = v
    BY <1>5, <1>6, <1>7 DEF TaskAccounting, OneRunner
  <2>. QED
    BY <2>1, <2>2 DEF OneRunner
<1>9. RunnerHolds'
  BY <1>2, <1>6, <1>7 DEF RunnerHolds
<1>. QED
  BY <1>4, <1>8, <1>9 DEF TaskAccounting

LEMMA RunKeepsAccounting ==
    ASSUME AccountingInv, NEW w \in Workers, WorkerRun(w)
    PROVE  TaskAccounting' /\ RunnerHolds'
<1> USE DEF AccountingInv
<1> DEFINE h == holding[w]
<1>1. /\ taskState \in [Tasks -> {"new", "queued", "running", "done", "dropped"}]
      /\ w \in Threads /\ Workers \subseteq Threads
      /\ pc \in [Threads -> WorkerPlaces \cup TimerPlaces]
      /\ holding \in [Workers -> Tasks \cup {NoTask}]
      /\ pc[w] = "run"
      /\ UNCHANGED tasks
      /\ taskState' = [taskState EXCEPT ![h] = "done"]
      /\ holding' = [holding EXCEPT ![w] = NoTask]
      /\ pc' = [pc EXCEPT ![w] = "test"]
  BY ThreadSets DEF WorkerRun, TypeOK
<1>2. h \in Tasks /\ taskState[h] = "running"
  BY <1>1 DEF TaskAccounting, OneRunner, RunnerHolds
<1>3. \A v \in Workers : v # w => pc'[v] = pc[v] /\ holding'[v] = holding[v]
  BY <1>1
<1>4. pc'[w] # "run"
  BY <1>1
<1>5. \A v \in Workers : v # w /\ pc[v] = "run" => holding[v] # h
  BY <1>1 DEF TaskAccounting, OneRunner
<1>6. QueueIsQueued'
  BY <1>1, <1>2 DEF TaskAccounting, QueueIsQueued
<1>7. OneRunner'
  <2>1. ASSUME NEW t \in Tasks
        PROVE  taskState'[t] = "running" <=>
                 \E v \in Workers : pc'[v] = "run" /\ holding'[v] = t
    <3>1. CASE t = h
      BY <1>1, <1>2, <1>3, <1>4, <1>5, <3>1
    <3>2. CASE t # h
      <4>1. taskState'[t] = taskState[t]
        BY <1>1, <3>2
      <4>2. (\E v \in Workers : pc'[v] = "run" /\ holding'[v] = t) <=>
              \E v \in Workers : pc[v] = "run" /\ holding[v] = t
        BY <1>1, <1>3, <1>4, <3>2
      <4>. QED
        BY <4>1, <4>2 DEF TaskAccounting, OneRunner
    <3>. QED
      BY <3>1, <3>2
  <2>2. \A u, v \in Workers :
          pc'[u] = "run" /\ pc'[v] = "run" /\ holding'[u] = holding'[v] => u = v
    BY <1>3, <1>4 DEF TaskAccounting, OneRunner
  <2>. QED
    BY <2>1, <2>2 DEF OneRunner
<1>8. RunnerHolds'
  BY <1>3, <1>4 DEF RunnerHolds
<1>. QED
  BY <1>6, <1>7, <1>8 DEF TaskAccounting

LEMMA ClearKeepsAccounting ==
    ASSUME AccountingInv, NEW c \in Closers, ShutdownClear(c)
    PROVE  TaskAccounting' /\ RunnerHolds'
<1>1. /\ tasks' = <<>>
      /\ \A t \in Tasks :
           taskState'[t] = IF taskState[t] = "queued" THEN "dropped"
                                                      ELSE taskState[t]
      /\ UNCHANGED <<pc, holding>>
  BY DEF ShutdownClear
<1>2. DOMAIN tasks' = {}
  BY <1>1
<1>3. QueueIsQueued'
  BY <1>1, <1>2 DEF QueueIsQueued
<1>. QED
  BY <1>1, <1>3
  DEF AccountingInv, TaskAccounting, OneRunner, RunnerHolds

LEMMA NextAccounting == AccountingInv /\ [Next]_vars => AccountingInv'
<1> SUFFICES ASSUME AccountingInv, [Next]_vars PROVE AccountingInv'
  OBVIOUS
<1>1. TypeOK /\ TaskAccounting /\ RunnerHolds
  BY DEF AccountingInv
<1>2. TypeOK'
  BY <1>1, NextType
<1>3. ASSUME NEW w \in Workers, WorkerAction(w)
      PROVE  TaskAccounting' /\ RunnerHolds'
  BY <1>1, <1>3, WorkerFrame, FrameKeepsAccounting, TakeKeepsAccounting,
     RunKeepsAccounting
<1>4. ASSUME NEW c \in Closers, CloserAction(c)
      PROVE  TaskAccounting' /\ RunnerHolds'
  BY <1>1, <1>4, CloserFrame, FrameKeepsAccounting, ClearKeepsAccounting
<1>5. ASSUME NEW t \in Tasks, EnqueueTask(t)
      PROVE  TaskAccounting' /\ RunnerHolds'
  BY <1>5, EnqueueKeepsAccounting
<1>6. ASSUME \/ \E t \in Tasks : NotifyOne(t)
             \/ StartTimer \/ TimerTest \/ TimerFire
             \/ UNCHANGED vars
      PROVE  TaskAccounting' /\ RunnerHolds'
  BY <1>1, <1>6, OtherFrame, FrameKeepsAccounting
<1>7. TaskAccounting' /\ RunnerHolds'
  BY <1>3, <1>4, <1>5, <1>6, NextCases
<1>. QED
  BY <1>2, <1>7 DEF AccountingInv

LEMMA InitAccounting == Init => AccountingInv
<1>1. Init => TaskAccounting /\ RunnerHolds
  BY ThreadSets
  DEF Init, TaskAccounting, QueueIsQueued, OneRunner, RunnerHolds
<1>. QED
  BY <1>1, InitType DEF AccountingInv

\* No task runs twice, is run by two workers, or is lost between the queue
\* and the workers.
THEOREM TasksAccountedFor == Spec => []TaskAccounting
<1>1. AccountingInv => TaskAccounting
  BY DEF AccountingInv
<1>. QED
  BY <1>1, InitAccounting, NextAccounting, PTL DEF Spec

-------------------------------------------------------------------------------
(* Shutdown and the sleepers.  What a caller that joins relies on is that    *)
(* _stop has been stored, so no worker goes to sleep any more.               *)

StopStored ==
    \A c \in Closers :
        closerPc[c] \in {"clearing", "notifying", "joining"} => stop

ClosingInv == TypeOK /\ StopStored /\ NobodySleepsThroughShutdown

\* A step that stores no _stop back to FALSE, moves no caller of Shutdown and
\* puts nobody to sleep.
Quiet ==
    /\ stop' = stop
    /\ closerPc' = closerPc
    /\ Asleep' \subseteq Asleep

LEMMA WorkerQuiet ==
    ASSUME TypeOK, NEW w \in Workers, WorkerAction(w)
    PROVE  WorkerSleep(w) \/ Quiet
<1> USE ThreadSets DEF TypeOK, Quiet, Asleep, closeVars, threadVars
<1>1. CASE SpawnWorker(w)
  BY <1>1 DEF SpawnWorker
<1>2. CASE RegisterWorker(w)
  BY <1>2 DEF RegisterWorker
<1>3. CASE WorkerFind(w)
  BY <1>3 DEF WorkerFind
<1>4. CASE WorkerTest(w)
  BY <1>4 DEF WorkerTest
<1>5. CASE WorkerMarkEmpty(w)
  BY <1>5 DEF WorkerMarkEmpty
<1>6. CASE WorkerLeave(w)
  BY <1>6 DEF WorkerLeave
<1>7. CASE WorkerTake(w)
  BY <1>7 DEF WorkerTake
<1>8. CASE WorkerPopEmpty(w)
  BY <1>8 DEF WorkerPopEmpty
<1>9. CASE WorkerRun(w)
  BY <1>9 DEF WorkerRun
<1>10. CASE SpuriousWakeup(w)
  BY <1>10 DEF SpuriousWakeup
<1>. HIDE DEF TypeOK, Quiet
<1>. QED
  BY <1>1, <1>2, <1>3, <1>4, <1>5, <1>6, <1>7, <1>8, <1>9, <1>10
  DEF WorkerAction

LEMMA OtherQuiet ==
    ASSUME TypeOK,
           \/ \E t \in Tasks : EnqueueTask(t) \/ NotifyOne(t)
           \/ StartTimer \/ TimerTest \/ TimerFire
           \/ UNCHANGED vars
    PROVE  Quiet
<1> USE ThreadSets DEF TypeOK, Quiet, Asleep, closeVars, threadVars
<1>1. ASSUME NEW t \in Tasks, EnqueueTask(t) PROVE Quiet
  BY <1>1 DEF EnqueueTask
<1>2. ASSUME NEW t \in Tasks, NotifyOne(t) PROVE Quiet
  BY <1>2 DEF NotifyOne
<1>3. CASE StartTimer
  BY <1>3 DEF StartTimer
<1>4. CASE TimerTest
  BY <1>4 DEF TimerTest
<1>5. CASE TimerFire
  BY <1>5 DEF TimerFire
<1>6. CASE UNCHANGED vars
  BY <1>6 DEF vars
<1>. HIDE DEF TypeOK, Quiet
<1>. QED
  BY <1>1, <1>2, <1>3, <1>4, <1>5, <1>6

LEMMA CloserKeepsClosing ==
    ASSUME ClosingInv, NEW c \in Closers, CloserAction(c)
    PROVE  StopStored' /\ NobodySleepsThroughShutdown'
<1> USE ThreadSets DEF ClosingInv, TypeOK, StopStored,
        NobodySleepsThroughShutdown, Asleep, threadVars
<1>1. CASE ShutdownTest(c)
  BY <1>1 DEF ShutdownTest
<1>2. CASE ShutdownStop(c)
  BY <1>2 DEF ShutdownStop
<1>3. CASE ShutdownClear(c)
  BY <1>3 DEF ShutdownClear
<1>4. CASE ShutdownNotifyAll(c)
  BY <1>4 DEF ShutdownNotifyAll
<1>5. CASE ShutdownReturn(c)
  BY <1>5 DEF ShutdownReturn
<1>6. ASSUME NEW t \in Threads, ShutdownJoin(c, t)
      PROVE  StopStored' /\ NobodySleepsThroughShutdown'
  BY <1>6 DEF ShutdownJoin
<1>. HIDE DEF ClosingInv, StopStored, NobodySleepsThroughShutdown
<1>. QED
  BY <1>1, <1>2, <1>3, <1>4, <1>5, <1>6 DEF CloserAction

LEMMA NextClosing == ClosingInv /\ [Next]_vars => ClosingInv'
<1> SUFFICES ASSUME ClosingInv, [Next]_vars PROVE ClosingInv'
  OBVIOUS
<1>1. TypeOK /\ StopStored /\ NobodySleepsThroughShutdown
  BY DEF ClosingInv
<1>2. ASSUME Quiet PROVE StopStored' /\ NobodySleepsThroughShutdown'
  BY <1>1, <1>2 DEF Quiet, StopStored, NobodySleepsThroughShutdown
<1>3. ASSUME NEW w \in Workers, WorkerAction(w)
      PROVE  StopStored' /\ NobodySleepsThroughShutdown'
  <2>1. CASE WorkerSleep(w)
    BY <1>1, <2>1
    DEF WorkerSleep, WakeCondition, StopStored, NobodySleepsThroughShutdown,
        closeVars
  <2>. QED
    BY <1>1, <1>2, <1>3, <2>1, WorkerQuiet
<1>4. ASSUME NEW c \in Closers, CloserAction(c)
      PROVE  StopStored' /\ NobodySleepsThroughShutdown'
  BY <1>4, CloserKeepsClosing
<1>5. ASSUME \/ \E t \in Tasks : EnqueueTask(t) \/ NotifyOne(t)
             \/ StartTimer \/ TimerTest \/ TimerFire
             \/ UNCHANGED vars
      PROVE  StopStored' /\ NobodySleepsThroughShutdown'
  BY <1>1, <1>2, <1>5, OtherQuiet
<1>6. TypeOK'
  BY <1>1, NextType
<1>. QED
  BY <1>3, <1>4, <1>5, <1>6, NextCases DEF ClosingInv

LEMMA InitClosing == Init => ClosingInv
<1>1. Init => StopStored /\ NobodySleepsThroughShutdown
  BY DEF Init, StopStored, NobodySleepsThroughShutdown
<1>. QED
  BY <1>1, InitType DEF ClosingInv

\* A caller of Shutdown that joins never waits for a worker asleep on _cv.
THEOREM NobodyMissesShutdown == Spec => []NobodySleepsThroughShutdown
<1>1. ClosingInv => NobodySleepsThroughShutdown
  BY DEF ClosingInv
<1>. QED
  BY <1>1, InitClosing, NextClosing, PTL DEF Spec

-------------------------------------------------------------------------------
(* WorkConserving.  That a worker does not end while the pool is open needs  *)
(* what _workerStat can hold then, and counting needs finite sets.           *)

\* What _workerStat holds before Shutdown has stored _stop: the look-up finds
\* no EMPTY, the test for ACTIVE no other than ACTIVE.
OpenStat ==
    ~stop => \A w \in Workers :
        /\ workerStat[w] # "DEAD"
        /\ pc[w] \in {"unborn", "find"} => workerStat[w] # "EMPTY"
        /\ pc[w] \in {"test", "run"} => workerStat[w] = "ACTIVE"

\* Nobody can enqueue before the constructor has returned.
NothingBeforeConstructed ==
    (\E w \in Workers : workerStat[w] = "absent") => tasks = <<>>

\* Only the EnqueueTask of a task that was pushed has a notify_one to call.
Announced ==
    /\ IsFiniteSet(notifying)
    /\ \A t \in notifying : taskState[t] # "new"

ConserveInv ==
    /\ ClosingInv /\ OpenStat /\ NothingBeforeConstructed /\ Announced
    /\ WorkConserving

LEMMA OnTheWayFinite ==
    /\ IsFiniteSet(OnTheWay) /\ Cardinality(OnTheWay) \in Nat
    /\ IsFiniteSet(OnTheWay') /\ Cardinality(OnTheWay') \in Nat
<1>1. OnTheWay \in SUBSET Workers /\ OnTheWay' \in SUBSET Workers
  BY DEF OnTheWay
<1>. QED
  BY <1>1, ConstantsAssumption, FS_Subset, FS_CardinalityType

\* A step that sends nobody to sleep, and nobody away from the predicate.
LEMMA QuietKeeps ==
    ASSUME TypeOK, Announced, WorkConserving, UNCHANGED <<tasks, notifying>>,
           stop => stop',
           \A w \in Workers :
               /\ pc'[w] = "asleep" => pc[w] = "asleep"
               /\ pc[w] \in {"find", "test", "empty", "wait"} =>
                    pc'[w] \in {"find", "test", "empty", "wait"}
    PROVE  WorkConserving'
<1> SUFFICES ASSUME ~stop', Asleep' # {}
             PROVE  Len(tasks) <= Cardinality(notifying) + Cardinality(OnTheWay')
  BY DEF WorkConserving
<1>1. ~stop /\ Asleep # {}
  BY DEF Asleep
<1>2. Len(tasks) <= Cardinality(notifying) + Cardinality(OnTheWay)
  BY <1>1 DEF WorkConserving
<1>3. OnTheWay \in SUBSET OnTheWay'
  BY DEF OnTheWay
<1>4. Cardinality(OnTheWay) <= Cardinality(OnTheWay')
  BY <1>3, OnTheWayFinite, FS_Subset
<1>5. Len(tasks) \in Nat /\ Cardinality(notifying) \in Nat
  BY LenProperties, FS_CardinalityType DEF TypeOK, Announced
<1>. QED
  BY <1>2, <1>4, <1>5, OnTheWayFinite

\* An empty queue asks for nobody.
LEMMA EmptyKeeps ==
    ASSUME tasks' = <<>>, IsFiniteSet(notifying')
    PROVE  WorkConserving'
<1>1. Len(tasks') = 0 /\ Cardinality(notifying') \in Nat
  BY EmptySeq, FS_CardinalityType
<1>. QED
  BY <1>1, OnTheWayFinite DEF WorkConserving

LEMMA EnqueueConserves ==
    ASSUME ConserveInv, NEW t \in Tasks, EnqueueTask(t)
    PROVE  WorkConserving' /\ Announced' /\ NothingBeforeConstructed'
<1>1. /\ tasks \in Seq(Tasks) /\ tasks' = Append(tasks, t)
      /\ taskState \in [Tasks -> {"new", "queued", "running", "done", "dropped"}]
      /\ taskState[t] = "new"
      /\ taskState' = [taskState EXCEPT ![t] = "queued"]
      /\ notifying' = notifying \cup {t}
      /\ notifying \in SUBSET Tasks
      /\ UNCHANGED <<pc, stop, workerStat>>
      /\ \A w \in Workers : workerStat[w] # "absent"
  BY DEF EnqueueTask, ConserveInv, ClosingInv, TypeOK, threadVars, closeVars, Constructed
<1>2. t \notin notifying
  BY <1>1 DEF ConserveInv, Announced
<1>3. IsFiniteSet(notifying) /\ Cardinality(notifying) \in Nat
  BY FS_CardinalityType DEF ConserveInv, Announced
<1>4. /\ IsFiniteSet(notifying')
      /\ Cardinality(notifying') = Cardinality(notifying) + 1
  BY <1>1, <1>2, <1>3, FS_AddElement
<1>5. Len(tasks) \in Nat /\ Len(tasks') = Len(tasks) + 1
  BY <1>1, AppendProperties, LenProperties
<1>6. WorkConserving'
  <2>1. Asleep' = Asleep /\ OnTheWay' = OnTheWay
    BY <1>1 DEF Asleep, OnTheWay
  <2>. QED
    BY <1>1, <1>3, <1>4, <1>5, <2>1, OnTheWayFinite DEF ConserveInv, WorkConserving
<1>7. \A u \in notifying' : taskState'[u] # "new"
  BY <1>1 DEF ConserveInv, Announced
<1>. QED
  BY <1>1, <1>4, <1>6, <1>7 DEF Announced, NothingBeforeConstructed

LEMMA NotifyConserves ==
    ASSUME ConserveInv, NEW t \in Tasks, NotifyOne(t)
    PROVE  WorkConserving' /\ Announced'
<1>1. /\ t \in notifying /\ notifying' = notifying \ {t}
      /\ pc \in [Threads -> WorkerPlaces \cup TimerPlaces]
      /\ UNCHANGED <<tasks, taskState, stop>>
  BY DEF NotifyOne, ConserveInv, ClosingInv, TypeOK, closeVars
<1>2. IsFiniteSet(notifying) /\ Cardinality(notifying) \in Nat
  BY FS_CardinalityType DEF ConserveInv, Announced
<1>3. /\ IsFiniteSet(notifying')
      /\ Cardinality(notifying') = Cardinality(notifying) - 1
  BY <1>1, <1>2, FS_RemoveElement
<1>4. Announced'
  BY <1>1, <1>3 DEF ConserveInv, Announced
<1>5. CASE Asleep = {} /\ UNCHANGED pc
  <2>1. Asleep' = Asleep
    BY <1>5, Zenon DEF Asleep
  <2>. QED
    BY <1>4, <1>5, <2>1 DEF WorkConserving
<1>6. ASSUME NEW w \in Asleep, pc' = [pc EXCEPT ![w] = "wait"]
      PROVE  WorkConserving'
  <2>1. w \in Workers /\ w \in Threads /\ pc[w] = "asleep"
    BY ThreadSets DEF Asleep
  <2>2. OnTheWay' = OnTheWay \cup {w} /\ w \notin OnTheWay
    BY <1>1, <1>6, <2>1, ThreadSets DEF OnTheWay
  <2>3. Cardinality(OnTheWay') = Cardinality(OnTheWay) + 1
    BY <2>2, OnTheWayFinite, FS_AddElement
  <2>4. Len(tasks) \in Nat
    BY LenProperties DEF ConserveInv, ClosingInv, TypeOK
  <2>5. ~stop => Len(tasks) <= Cardinality(notifying) + Cardinality(OnTheWay)
    BY DEF ConserveInv, WorkConserving
  <2>. QED
    BY <1>1, <1>2, <1>3, <2>3, <2>4, <2>5, OnTheWayFinite DEF WorkConserving
<1>. QED
  BY <1>4, <1>5, <1>6 DEF NotifyOne

LEMMA TakeConserves ==
    ASSUME ConserveInv, NEW w \in Workers, WorkerTake(w)
    PROVE  WorkConserving' /\ NothingBeforeConstructed'
<1>1. /\ tasks \in Seq(Tasks) /\ tasks # <<>> /\ tasks' = Tail(tasks)
      /\ w \in Threads /\ pc[w] = "wait" /\ pc' = [pc EXCEPT ![w] = "run"]
      /\ pc \in [Threads -> WorkerPlaces \cup TimerPlaces]
      /\ workerStat \in [Workers -> {"absent", "EMPTY", "ACTIVE", "DEAD"}]
      /\ workerStat' = [workerStat EXCEPT ![w] = "ACTIVE"]
      /\ UNCHANGED <<notifying, stop>>
  BY ThreadSets DEF WorkerTake, ConserveInv, ClosingInv, TypeOK, closeVars
<1>2. Len(tasks) \in Nat /\ Len(tasks') = Len(tasks) - 1
  BY <1>1, HeadTailProperties, LenProperties
<1>3. OnTheWay' = OnTheWay \ {w} /\ w \in OnTheWay /\ Asleep' = Asleep
  BY <1>1, ThreadSets DEF OnTheWay, Asleep
<1>4. Cardinality(OnTheWay') = Cardinality(OnTheWay) - 1
  BY <1>3, OnTheWayFinite, FS_RemoveElement
<1>5. Cardinality(notifying) \in Nat
  BY FS_CardinalityType DEF ConserveInv, Announced
<1>6. WorkConserving'
  BY <1>1, <1>2, <1>3, <1>4, <1>5, OnTheWayFinite DEF ConserveInv, WorkConserving
<1>7. \A v \in Workers : workerStat[v] # "absent"
  BY <1>1 DEF ConserveInv, NothingBeforeConstructed
<1>. QED
  BY <1>1, <1>6, <1>7 DEF NothingBeforeConstructed

\* A worker ends while the pool is open only when it finds no entry, and then
\* nothing has been enqueued.
LEMMA WorkerConserves ==
    ASSUME ConserveInv, NEW w \in Workers, WorkerAction(w)
    PROVE  WorkConserving' /\ OpenStat' /\ NothingBeforeConstructed' /\ Announced'
<1> USE ThreadSets DEF poolVars, threadVars, closeVars
<1>1. /\ pc \in [Threads -> WorkerPlaces \cup TimerPlaces]
      /\ workerStat \in [Workers -> {"absent", "EMPTY", "ACTIVE", "DEAD"}]
      /\ stop \in BOOLEAN /\ w \in Threads
      /\ taskState \in [Tasks -> {"new", "queued", "running", "done", "dropped"}]
      /\ WorkConserving /\ OpenStat /\ NothingBeforeConstructed /\ Announced
      /\ TypeOK
  BY DEF ConserveInv, ClosingInv, TypeOK
<1>3. CASE SpawnWorker(w)
  <2>1. /\ UNCHANGED <<tasks, taskState, notifying, stop>>
        /\ \A v \in Workers : v # w => pc'[v] = pc[v] /\ workerStat'[v] = workerStat[v]
    BY <1>1, <1>3 DEF SpawnWorker
  <2>2. OpenStat' /\ NothingBeforeConstructed' /\ Announced'
    BY <1>1, <1>3, <2>1 DEF SpawnWorker, OpenStat, NothingBeforeConstructed, Announced
  <2>3. WorkConserving'
    BY <1>1, <1>3, <2>1, QuietKeeps DEF SpawnWorker
  <2>. QED
    BY <2>2, <2>3
<1>4. CASE RegisterWorker(w)
  <2>1. /\ UNCHANGED <<tasks, taskState, notifying, stop>>
        /\ \A v \in Workers : v # w => pc'[v] = pc[v] /\ workerStat'[v] = workerStat[v]
    BY <1>1, <1>4 DEF RegisterWorker
  <2>2. OpenStat' /\ NothingBeforeConstructed' /\ Announced'
    BY <1>1, <1>4, <2>1 DEF RegisterWorker, OpenStat, NothingBeforeConstructed, Announced
  <2>3. WorkConserving'
    BY <1>1, <1>4, <2>1, QuietKeeps DEF RegisterWorker
  <2>. QED
    BY <2>2, <2>3
<1>5. CASE WorkerMarkEmpty(w)
  <2>1. /\ UNCHANGED <<tasks, taskState, notifying, stop>>
        /\ \A v \in Workers : v # w => pc'[v] = pc[v] /\ workerStat'[v] = workerStat[v]
    BY <1>1, <1>5 DEF WorkerMarkEmpty
  <2>2. OpenStat' /\ NothingBeforeConstructed' /\ Announced'
    BY <1>1, <1>5, <2>1 DEF WorkerMarkEmpty, OpenStat, NothingBeforeConstructed, Announced
  <2>3. WorkConserving'
    BY <1>1, <1>5, <2>1, QuietKeeps DEF WorkerMarkEmpty
  <2>. QED
    BY <2>2, <2>3
<1>6. CASE SpuriousWakeup(w)
  <2>1. /\ UNCHANGED <<tasks, taskState, notifying, stop>>
        /\ \A v \in Workers : v # w => pc'[v] = pc[v] /\ workerStat'[v] = workerStat[v]
    BY <1>1, <1>6 DEF SpuriousWakeup
  <2>2. OpenStat' /\ NothingBeforeConstructed' /\ Announced'
    BY <1>1, <1>6, <2>1 DEF SpuriousWakeup, OpenStat, NothingBeforeConstructed, Announced
  <2>3. WorkConserving'
    BY <1>1, <1>6, <2>1, QuietKeeps DEF SpuriousWakeup
  <2>. QED
    BY <2>2, <2>3
<1>7. CASE WorkerPopEmpty(w)
  <2>1. /\ UNCHANGED <<tasks, taskState, notifying, stop>>
        /\ \A v \in Workers : v # w => pc'[v] = pc[v] /\ workerStat'[v] = workerStat[v]
    BY <1>1, <1>7 DEF WorkerPopEmpty
  <2>2. OpenStat' /\ NothingBeforeConstructed' /\ Announced'
    BY <1>1, <1>7, <2>1 DEF WorkerPopEmpty, OpenStat, NothingBeforeConstructed, Announced
  <2>3. WorkConserving'
    BY <1>1, <1>7, <2>1, QuietKeeps DEF WorkerPopEmpty
  <2>. QED
    BY <2>2, <2>3
<1>8. CASE WorkerFind(w)
  <2>1. /\ UNCHANGED <<tasks, taskState, notifying, stop, workerStat>>
        /\ \A v \in Workers : v # w => pc'[v] = pc[v]
    BY <1>1, <1>8 DEF WorkerFind
  <2>2. OpenStat' /\ NothingBeforeConstructed' /\ Announced'
    BY <1>1, <1>8, <2>1 DEF WorkerFind, OpenStat, NothingBeforeConstructed, Announced
  <2>3. WorkConserving'
    <3>1. CASE workerStat[w] = "absent"
      BY <1>1, <2>1, <3>1, EmptyKeeps DEF NothingBeforeConstructed, Announced
    <3>2. CASE workerStat[w] # "absent"
      BY <1>1, <1>8, <2>1, <3>2, QuietKeeps DEF WorkerFind
    <3>. QED
      BY <3>1, <3>2
  <2>. QED
    BY <2>2, <2>3
<1>9. CASE WorkerTest(w)
  <2>1. /\ UNCHANGED <<tasks, taskState, notifying, stop, workerStat>>
        /\ \A v \in Workers : v # w => pc'[v] = pc[v]
    BY <1>1, <1>9 DEF WorkerTest
  <2>2. OpenStat' /\ NothingBeforeConstructed' /\ Announced'
    BY <1>1, <1>9, <2>1 DEF WorkerTest, OpenStat, NothingBeforeConstructed, Announced
  <2>3. WorkConserving'
    <3>1. CASE stop
      BY <2>1, <3>1 DEF WorkConserving
    <3>2. CASE ~stop
      BY <1>1, <1>9, <2>1, <3>2, QuietKeeps DEF WorkerTest, OpenStat
    <3>. QED
      BY <3>1, <3>2
  <2>. QED
    BY <2>2, <2>3
<1>10. CASE WorkerLeave(w)
  <2>1. /\ UNCHANGED <<tasks, taskState, notifying, stop, workerStat>>
        /\ \A v \in Workers : v # w => pc'[v] = pc[v]
    BY <1>1, <1>10 DEF WorkerLeave
  <2>2. OpenStat' /\ NothingBeforeConstructed' /\ Announced'
    BY <1>1, <1>10, <2>1 DEF WorkerLeave, OpenStat, NothingBeforeConstructed, Announced
  <2>3. WorkConserving'
    <3>1. CASE stop
      BY <2>1, <3>1 DEF WorkConserving
    <3>2. CASE ~stop
      BY <1>1, <1>10, <2>1, <3>2, QuietKeeps DEF WorkerLeave, OpenStat
    <3>. QED
      BY <3>1, <3>2
  <2>. QED
    BY <2>2, <2>3
<1>11. CASE WorkerSleep(w)
  <2>1. /\ UNCHANGED <<tasks, taskState, notifying, stop, workerStat>>
        /\ \A v \in Workers : v # w => pc'[v] = pc[v]
    BY <1>1, <1>11 DEF WorkerSleep
  <2>2. OpenStat' /\ NothingBeforeConstructed' /\ Announced'
    BY <1>1, <1>11, <2>1 DEF WorkerSleep, OpenStat, NothingBeforeConstructed, Announced
  <2>3. WorkConserving'
    BY <1>1, <1>11, <2>1, EmptyKeeps DEF WorkerSleep, WakeCondition, Announced
  <2>. QED
    BY <2>2, <2>3
<1>12. CASE WorkerTake(w)
  <2>1. WorkConserving' /\ NothingBeforeConstructed'
    BY <1>12, TakeConserves
  <2>2. OpenStat'
    BY <1>1, <1>12 DEF WorkerTake, OpenStat
  <2>3. Announced'
    BY <1>1, <1>12 DEF WorkerTake, Announced
  <2>. QED
    BY <2>1, <2>2, <2>3
<1>13. CASE WorkerRun(w)
  <2>1. UNCHANGED <<tasks, notifying, stop, workerStat>>
    BY <1>13 DEF WorkerRun
  <2>2. OpenStat' /\ NothingBeforeConstructed'
    BY <1>1, <1>13, <2>1 DEF WorkerRun, OpenStat, NothingBeforeConstructed
  <2>3. Announced'
    BY <1>1, <1>13, <2>1 DEF WorkerRun, Announced
  <2>4. WorkConserving'
    BY <1>1, <1>13, <2>1, QuietKeeps DEF WorkerRun
  <2>. QED
    BY <2>2, <2>3, <2>4
<1>. QED
  BY <1>3, <1>4, <1>5, <1>6, <1>7, <1>8, <1>9, <1>10, <1>11, <1>12, <1>13 DEF WorkerAction

LEMMA CloserConserves ==
    ASSUME ConserveInv, NEW c \in Closers, CloserAction(c)
    PROVE  WorkConserving' /\ OpenStat' /\ NothingBeforeConstructed' /\ Announced'
<1> USE ThreadSets DEF poolVars, threadVars, closeVars
<1>1. /\ closerPc \in [Closers -> CloserPlaces]
      /\ WorkConserving /\ OpenStat /\ NothingBeforeConstructed /\ Announced
      /\ TypeOK
  BY DEF ConserveInv, ClosingInv, TypeOK
<1>2. CASE stop'
  <2>1. NothingBeforeConstructed' /\ Announced'
    BY <1>1 DEF CloserAction, ShutdownTest, ShutdownStop, ShutdownClear,
       ShutdownNotifyAll, ShutdownReturn, ShutdownJoin, NothingBeforeConstructed,
       Announced, TypeOK
  <2>. QED
    BY <1>2, <2>1 DEF WorkConserving, OpenStat
<1>3. CASE ~stop'
  <2>1. UNCHANGED <<tasks, taskState, notifying, workerStat, pc, stop>>
    BY <1>1, <1>3 DEF CloserAction, ShutdownTest, ShutdownStop, ShutdownClear,
       ShutdownNotifyAll, ShutdownReturn, ShutdownJoin, ConserveInv, ClosingInv,
       StopStored
  <2>2. WorkConserving'
    BY <1>1, <2>1, QuietKeeps
  <2>. QED
    BY <1>1, <2>1, <2>2 DEF OpenStat, NothingBeforeConstructed, Announced
<1>. QED
  BY <1>2, <1>3

LEMMA OtherConserves ==
    ASSUME ConserveInv, StartTimer \/ TimerTest \/ TimerFire \/ UNCHANGED vars
    PROVE  WorkConserving' /\ OpenStat' /\ NothingBeforeConstructed' /\ Announced'
<1>1. /\ TypeOK /\ WorkConserving /\ OpenStat /\ NothingBeforeConstructed /\ Announced
      /\ UNCHANGED <<tasks, taskState, notifying, workerStat, stop>>
  BY DEF ConserveInv, ClosingInv, StartTimer, TimerTest, TimerFire, vars, poolVars,
         threadVars, closeVars
<1>2. \A w \in Workers : pc'[w] = pc[w]
  <2>1. pc \in [Threads -> WorkerPlaces \cup TimerPlaces]
    BY DEF ConserveInv, ClosingInv, TypeOK
  <2>2. CASE StartTimer \/ TimerTest \/ TimerFire
    BY <2>1, <2>2, ThreadSets DEF StartTimer, TimerTest, TimerFire
  <2>3. CASE UNCHANGED vars
    BY <2>3 DEF vars, threadVars
  <2>. QED
    BY <2>2, <2>3
<1>3. WorkConserving'
  BY <1>1, <1>2, QuietKeeps
<1>. QED
  BY <1>1, <1>2, <1>3 DEF OpenStat, NothingBeforeConstructed, Announced

LEMMA NextConserves == ConserveInv /\ [Next]_vars => ConserveInv'
<1> SUFFICES ASSUME ConserveInv, [Next]_vars PROVE ConserveInv'
  OBVIOUS
<1>1. ClosingInv'
  BY NextClosing DEF ConserveInv
<1>2. WorkConserving' /\ OpenStat' /\ NothingBeforeConstructed' /\ Announced'
  <2>1. ASSUME NEW t \in Tasks, EnqueueTask(t)
        PROVE  OpenStat'
    BY <2>1 DEF EnqueueTask, OpenStat, ConserveInv, threadVars, closeVars
  <2>2. ASSUME NEW t \in Tasks, NotifyOne(t)
        PROVE  OpenStat' /\ NothingBeforeConstructed'
    BY <2>2, ThreadSets DEF NotifyOne, OpenStat, NothingBeforeConstructed, ConserveInv,
       ClosingInv, TypeOK, Asleep, closeVars
  <2>. QED
    BY <2>1, <2>2, NextCases, EnqueueConserves, NotifyConserves, WorkerConserves,
       CloserConserves, OtherConserves
<1>. QED
  BY <1>1, <1>2 DEF ConserveInv

LEMMA ConserveInvHolds == Spec => []ConserveInv
<1>1. Init => ConserveInv
  <2>1. ASSUME Init PROVE ConserveInv
    <3>1. ClosingInv
      BY <2>1, InitClosing
    <3>2. /\ tasks = <<>> /\ notifying = {} /\ Asleep = {}
          /\ \A w \in Workers : workerStat[w] = "absent"
          /\ \A w \in Workers : pc[w] = "unborn"
      BY <2>1, ThreadSets DEF Init, Asleep
    <3>. QED
      BY <3>1, <3>2, FS_EmptySet DEF ConserveInv, OpenStat, NothingBeforeConstructed,
         Announced, WorkConserving
  <2>. QED
    BY <2>1
<1>. QED
  BY <1>1, NextConserves, PTL DEF Spec

\* No push is forgotten: while the pool is open and some worker sleeps, every
\* queued task has a notification or a worker of its own on the way, for any
\* number of workers and callers (EnqueueTask and WorkerThread).
THEOREM NoWakeupLost == Spec => []WorkConserving
<1>1. ConserveInv => WorkConserving
  BY DEF ConserveInv
<1>. QED
  BY <1>1, ConserveInvHolds, PTL

-------------------------------------------------------------------------------
(* What ends a worker, and what ends the process.                            *)

\* A worker ends before Shutdown has stored _stop only if its look-up came
\* before the constructor's emplace.
EndsByRace(w) ==
    pc[w] # "exited" /\ pc'[w] = "exited" =>
        stop \/ (pc[w] = "find" /\ workerStat[w] = "absent")

LEMMA WorkerEnds ==
    ASSUME TypeOK, OpenStat, NEW v \in Workers, NEW w \in Workers, WorkerAction(v)
    PROVE  EndsByRace(w)
<1> USE ThreadSets DEF TypeOK, EndsByRace, threadVars
<1>1. ASSUME pc' = pc \/ (\E p : p # "exited" /\ pc' = [pc EXCEPT ![v] = p])
      PROVE  EndsByRace(w)
  BY <1>1
<1>2. CASE SpawnWorker(v) \/ RegisterWorker(v) \/ WorkerMarkEmpty(v) \/ WorkerSleep(v)
           \/ WorkerTake(v) \/ WorkerPopEmpty(v) \/ WorkerRun(v) \/ SpuriousWakeup(v)
  BY <1>1, <1>2 DEF SpawnWorker, RegisterWorker, WorkerMarkEmpty, WorkerSleep,
     WorkerTake, WorkerPopEmpty, WorkerRun, SpuriousWakeup
<1>3. CASE WorkerFind(v)
  BY <1>3 DEF WorkerFind
<1>4. CASE WorkerTest(v)
  BY <1>4 DEF WorkerTest, OpenStat
<1>5. CASE WorkerLeave(v)
  BY <1>5 DEF WorkerLeave, OpenStat
<1>. HIDE DEF TypeOK, EndsByRace
<1>. QED
  BY <1>2, <1>3, <1>4, <1>5 DEF WorkerAction

LEMMA OthersEndNobody ==
    ASSUME TypeOK, NEW w \in Workers,
           \/ \E t \in Tasks : EnqueueTask(t) \/ NotifyOne(t)
           \/ \E c \in Closers : CloserAction(c)
           \/ StartTimer \/ TimerTest \/ TimerFire
           \/ UNCHANGED vars
    PROVE  EndsByRace(w)
<1> USE ThreadSets DEF TypeOK, EndsByRace, threadVars, Asleep
<1>1. CASE \E t \in Tasks : EnqueueTask(t) \/ NotifyOne(t)
  BY <1>1 DEF EnqueueTask, NotifyOne
<1>2. CASE \E c \in Closers : CloserAction(c)
  BY <1>2 DEF CloserAction, ShutdownTest, ShutdownStop, ShutdownClear,
     ShutdownNotifyAll, ShutdownReturn, ShutdownJoin
<1>3. CASE StartTimer \/ TimerTest \/ TimerFire
  BY <1>3 DEF StartTimer, TimerTest, TimerFire
<1>4. CASE UNCHANGED vars
  BY <1>4 DEF vars
<1>. QED
  BY <1>1, <1>2, <1>3, <1>4

\* The number of threads is fixed from the constructor to Shutdown
\* (doc/ThreadPool.md:17) but for one race: a worker that looks for its entry in
\* _workerStat (ThreadPool.h:180) before the constructor has made it (line 164).
\* Neither a task, nor EMPTY, nor a wakeup takes a worker out of its loop.
THEOREM EndsOnlyByStartupRace == Spec => [][\A w \in Workers : EndsByRace(w)]_vars
<1>1. ConserveInv /\ [Next]_vars => \A w \in Workers : EndsByRace(w)
  BY NextCases, WorkerEnds, OthersEndNobody DEF ConserveInv, ClosingInv
<1>. QED
  BY <1>1, ConserveInvHolds, PTL DEF Spec

\* Only EMPTY or DEAD stands in the entry of a worker at the predicate.
WaitStat ==
    \A w \in Workers : pc[w] \in {"wait", "asleep"} => workerStat[w] \in {"EMPTY", "DEAD"}

\* Who has joined a thread passed the test of _stop.
JoinersStopped ==
    \A t \in Threads : \A c \in joinedBy[t] : closerPc[c] \in {"joining", "returned"}

CrashInv == TypeOK /\ StopStored /\ WaitStat /\ JoinersStopped

\* The process dies only after _stop was stored: a worker that found neither
\* DEAD nor a task takes the front of the empty queue, or a second caller of
\* Shutdown joins what the first has joined.
CrashCause ==
    ~crashed /\ crashed' =>
        /\ stop
        /\ \/ \E w \in Workers : pc[w] = "wait" /\ workerStat[w] = "EMPTY" /\ tasks = <<>>
           \/ \E c, d \in Closers :
                /\ c # d /\ closerPc[c] = "joining"
                /\ closerPc[d] \in {"joining", "returned"}

LEMMA WorkerWaits ==
    ASSUME CrashInv, NEW w \in Workers, WorkerAction(w)
    PROVE  WaitStat' /\ JoinersStopped' /\ CrashCause
<1> USE ThreadSets DEF CrashInv, TypeOK, WaitStat, JoinersStopped, CrashCause,
        threadVars, closeVars
<1>1. CASE SpawnWorker(w)
  BY <1>1 DEF SpawnWorker
<1>2. CASE RegisterWorker(w)
  BY <1>2 DEF RegisterWorker
<1>3. CASE WorkerFind(w)
  BY <1>3 DEF WorkerFind
<1>4. CASE WorkerTest(w)
  BY <1>4 DEF WorkerTest
<1>5. CASE WorkerMarkEmpty(w)
  BY <1>5 DEF WorkerMarkEmpty
<1>6. CASE WorkerSleep(w)
  BY <1>6 DEF WorkerSleep
<1>7. CASE WorkerLeave(w)
  BY <1>7 DEF WorkerLeave
<1>8. CASE WorkerTake(w)
  BY <1>8 DEF WorkerTake
<1>9. CASE WorkerPopEmpty(w)
  BY <1>9 DEF WorkerPopEmpty, WakeCondition
<1>10. CASE WorkerRun(w)
  BY <1>10 DEF WorkerRun
<1>11. CASE SpuriousWakeup(w)
  BY <1>11 DEF SpuriousWakeup
<1>. HIDE DEF CrashInv, WaitStat, JoinersStopped, CrashCause
<1>. QED
  BY <1>1, <1>2, <1>3, <1>4, <1>5, <1>6, <1>7, <1>8, <1>9, <1>10, <1>11
  DEF WorkerAction

LEMMA CloserWaits ==
    ASSUME CrashInv, NEW c \in Closers, CloserAction(c)
    PROVE  WaitStat' /\ JoinersStopped' /\ CrashCause
<1> USE ThreadSets DEF CrashInv, TypeOK, WaitStat, JoinersStopped, CrashCause,
        threadVars
<1>1. CASE ShutdownTest(c)
  BY <1>1 DEF ShutdownTest
<1>2. CASE ShutdownStop(c)
  BY <1>2 DEF ShutdownStop
<1>3. CASE ShutdownClear(c)
  BY <1>3 DEF ShutdownClear
<1>4. CASE ShutdownNotifyAll(c)
  BY <1>4 DEF ShutdownNotifyAll, Asleep
<1>5. CASE ShutdownReturn(c)
  BY <1>5 DEF ShutdownReturn
<1>6. ASSUME NEW t \in Threads, ShutdownJoin(c, t)
      PROVE  WaitStat' /\ JoinersStopped' /\ CrashCause
  <2>1. closerPc[c] = "joining" /\ c \notin joinedBy[t] /\ stop
        /\ UNCHANGED <<workerStat, pc, closerPc>>
    BY <1>6 DEF ShutdownJoin, StopStored
  <2>2. CASE joinedBy[t] = {}
    <3>1. joinedBy' = [joinedBy EXCEPT ![t] = {c}] /\ crashed' = crashed
      BY <1>6, <2>2 DEF ShutdownJoin
    <3>. QED
      BY <2>1, <3>1
  <2>3. CASE joinedBy[t] # {}
    <3>1. joinedBy' = joinedBy
      BY <1>6, <2>3 DEF ShutdownJoin
    <3>2. PICK d \in joinedBy[t] : TRUE
      BY <2>3
    <3>3. d \in Closers /\ d # c /\ closerPc[d] \in {"joining", "returned"}
      BY <2>1, <3>2
    <3>. QED
      BY <2>1, <3>1, <3>3
  <2>. QED
    BY <2>2, <2>3
<1>. HIDE DEF CrashInv, WaitStat, JoinersStopped, CrashCause
<1>. QED
  BY <1>1, <1>2, <1>3, <1>4, <1>5, <1>6 DEF CloserAction

LEMMA OthersWait ==
    ASSUME CrashInv,
           \/ \E t \in Tasks : EnqueueTask(t) \/ NotifyOne(t)
           \/ StartTimer \/ TimerTest \/ TimerFire
           \/ UNCHANGED vars
    PROVE  WaitStat' /\ JoinersStopped' /\ CrashCause
<1> USE ThreadSets DEF CrashInv, TypeOK, WaitStat, JoinersStopped, CrashCause,
        threadVars, closeVars, Asleep
<1>1. ASSUME NEW t \in Tasks, EnqueueTask(t)
      PROVE  WaitStat' /\ JoinersStopped' /\ CrashCause
  BY <1>1 DEF EnqueueTask
<1>2. ASSUME NEW t \in Tasks, NotifyOne(t)
      PROVE  WaitStat' /\ JoinersStopped' /\ CrashCause
  BY <1>2 DEF NotifyOne
<1>3. CASE StartTimer \/ TimerTest \/ TimerFire
  BY <1>3 DEF StartTimer, TimerTest, TimerFire
<1>4. CASE UNCHANGED vars
  BY <1>4 DEF vars
<1>. HIDE DEF CrashInv, WaitStat, JoinersStopped, CrashCause
<1>. QED
  BY <1>1, <1>2, <1>3, <1>4

\* What the finding about Shutdown shows to be possible is all there is: while
\* nobody has called Shutdown front() is never called on an empty queue, and
\* afterwards the process dies only of a worker that is woken by _stop with EMPTY
\* in its entry (ThreadPool.h:140, :182), or of two callers that both passed the
\* test of _stop (line 138) and join the same threads (line 150).
THEOREM DiesOnlyInShutdown == Spec => [](crashed => stop) /\ [][CrashCause]_vars
<1>1. Init => CrashInv /\ (crashed => stop)
  <2>1. Init => StopStored /\ WaitStat /\ JoinersStopped /\ ~crashed
    BY ThreadSets DEF Init, StopStored, WaitStat, JoinersStopped
  <2>. QED
    BY <2>1, InitType DEF CrashInv
<1>2. CrashInv /\ [Next]_vars => WaitStat' /\ JoinersStopped' /\ CrashCause
  BY NextCases, WorkerWaits, CloserWaits, OthersWait
<1>3. CrashInv /\ ClosingInv' /\ [Next]_vars => CrashInv'
  BY <1>2 DEF CrashInv, ClosingInv
<1>4. stop /\ [Next]_vars => stop'
  BY NextCases DEF WorkerAction, CloserAction, SpawnWorker, RegisterWorker, WorkerFind,
     WorkerTest, WorkerMarkEmpty, WorkerSleep, WorkerLeave, WorkerTake, WorkerPopEmpty,
     WorkerRun, SpuriousWakeup, ShutdownTest, ShutdownStop, ShutdownClear,
     ShutdownNotifyAll, ShutdownReturn, ShutdownJoin, EnqueueTask, NotifyOne,
     StartTimer, TimerTest, TimerFire, vars, closeVars
<1>5. CrashInv /\ (crashed => stop) /\ [Next]_vars => (crashed => stop)'
  <2>1. CrashInv => crashed \in BOOLEAN /\ stop \in BOOLEAN
    BY DEF CrashInv, TypeOK
  <2>. QED
    BY <1>2, <1>4, <2>1 DEF CrashCause
<1>. QED
  BY <1>1, <1>2, <1>3, <1>5, InitClosing, NextClosing, PTL DEF Spec

-------------------------------------------------------------------------------
(* ThreadPool implements TaskExecutor.  The two invariants above are what    *)
(* the refinement needs: a worker that takes a task runs none, so fewer than *)
(* Capacity tasks run, and the queue is cleared only after _stop was stored. *)

\* The instance of TaskExecutor has its own copy of FiniteSets.
LEMMA SameCardinality == \A S : Executor!Cardinality(S) = Cardinality(S)
BY DEF Executor!Cardinality, Cardinality

\* Fewer tasks run than there are workers, when some worker runs none.
LEMMA RoomForOne ==
    ASSUME AccountingInv, NEW w \in Workers, pc[w] # "run"
    PROVE  Cardinality(Executor!Running) < MinCoreThread
<1> DEFINE R == {v \in Workers : pc[v] = "run"}
           f == [v \in R |-> holding[v]]
<1>1. f \in Surjection(R, Executor!Running)
  <2>1. \A v \in R : holding[v] \in Executor!Running
    BY DEF AccountingInv, TaskAccounting, OneRunner, RunnerHolds,
           Executor!Running
  <2>2. \A t \in Executor!Running : \E v \in R : holding[v] = t
    BY DEF AccountingInv, TaskAccounting, OneRunner, Executor!Running
  <2>. QED
    BY <2>1, <2>2 DEF Surjection
<1>2. /\ IsFiniteSet(Workers \ {w})
      /\ Cardinality(Workers \ {w}) = MinCoreThread - 1
      /\ MinCoreThread \in Nat
  BY FS_RemoveElement, FS_CardinalityType, ConstantsAssumption
<1>3. R \in SUBSET (Workers \ {w})
  OBVIOUS
<1>. HIDE DEF R, f
<1>4. IsFiniteSet(R) /\ Cardinality(R) <= MinCoreThread - 1
  BY <1>2, <1>3, FS_Subset
<1>5. /\ IsFiniteSet(Executor!Running)
      /\ Cardinality(Executor!Running) <= Cardinality(R)
  BY <1>1, <1>4, FS_Surjection
<1>6. Cardinality(R) \in Nat /\ Cardinality(Executor!Running) \in Nat
  BY <1>4, <1>5, FS_CardinalityType
<1>. QED
  BY <1>2, <1>4, <1>5, <1>6

LEMMA WorkerRefines ==
    ASSUME AccountingInv, NEW w \in Workers, WorkerAction(w)
    PROVE  [Executor!Next]_Executor!vars
<1> USE DEF Executor!vars
<1>0. TypeOK
  BY DEF AccountingInv
<1>1. CASE WorkerTake(w)
  <2>1. pc[w] # "run"
    BY <1>1 DEF WorkerTake
  <2>2. Executor!Start
    <3>1. Cardinality(Executor!Running) < MinCoreThread
      BY <2>1, RoomForOne
    <3>2. /\ tasks # <<>>
          /\ tasks' = Tail(tasks)
          /\ taskState' = [taskState EXCEPT ![Head(tasks)] = "running"]
          /\ (~stop)' = ~stop
      BY <1>1 DEF WorkerTake, closeVars
    <3>. QED
      BY <3>1, <3>2, SameCardinality, Zenon DEF Executor!Start
  <2>. QED
    BY <2>2 DEF Executor!Next
<1>2. CASE WorkerRun(w)
  <2>1. holding[w] \in Tasks /\ taskState[holding[w]] = "running"
    BY <1>2
    DEF WorkerRun, AccountingInv, TaskAccounting, OneRunner, RunnerHolds
  <2>2. Executor!Finish(holding[w])
    BY <1>2, <2>1 DEF WorkerRun, Executor!Finish, closeVars
  <2>. QED
    BY <2>1, <2>2 DEF Executor!Next
<1>3. CASE ~WorkerTake(w) /\ ~WorkerRun(w)
  <2>1. Frame
    BY <1>0, <1>3, WorkerFrame
  <2>2. stop' = stop
    BY <1>3
    DEF WorkerAction, SpawnWorker, RegisterWorker, WorkerFind, WorkerTest,
        WorkerMarkEmpty, WorkerSleep, WorkerLeave, WorkerPopEmpty,
        SpuriousWakeup, closeVars
  <2>. QED
    BY <2>1, <2>2 DEF Frame
<1>. QED
  BY <1>1, <1>2, <1>3

LEMMA CloserRefines ==
    ASSUME ClosingInv, NEW c \in Closers, CloserAction(c)
    PROVE  [Executor!Next]_Executor!vars
<1> USE DEF Executor!vars, Executor!Next, poolVars
<1>1. CASE ShutdownTest(c)
  BY <1>1 DEF ShutdownTest
<1>2. CASE ShutdownStop(c)
  <2>1. Executor!Close
    BY <1>2 DEF ShutdownStop, Executor!Close
  <2>. QED
    BY <2>1
<1>3. CASE ShutdownClear(c)
  <2>1. stop
    BY <1>3 DEF ShutdownClear, ClosingInv, StopStored
  <2>2. Executor!Discard
    BY <1>3, <2>1 DEF ShutdownClear, Executor!Discard
  <2>. QED
    BY <2>2
<1>4. CASE ShutdownNotifyAll(c)
  BY <1>4 DEF ShutdownNotifyAll
<1>5. CASE ShutdownReturn(c)
  BY <1>5 DEF ShutdownReturn
<1>6. ASSUME NEW t \in Threads, ShutdownJoin(c, t)
      PROVE  [Executor!Next]_Executor!vars
  BY <1>6 DEF ShutdownJoin
<1>. HIDE DEF Executor!vars, Executor!Next
<1>. QED
  BY <1>1, <1>2, <1>3, <1>4, <1>5, <1>6 DEF CloserAction

LEMMA OtherRefines ==
    ASSUME \/ \E t \in Tasks : EnqueueTask(t) \/ NotifyOne(t)
           \/ StartTimer \/ TimerTest \/ TimerFire
           \/ UNCHANGED vars
    PROVE  [Executor!Next]_Executor!vars
<1> USE DEF Executor!vars, Executor!Next, poolVars, closeVars
<1>1. ASSUME NEW t \in Tasks, EnqueueTask(t)
      PROVE  [Executor!Next]_Executor!vars
  <2>1. Executor!Accept(t)
    BY <1>1 DEF EnqueueTask, Executor!Accept
  <2>. QED
    BY <2>1
<1>2. ASSUME NEW t \in Tasks, NotifyOne(t)
      PROVE  [Executor!Next]_Executor!vars
  BY <1>2 DEF NotifyOne
<1>3. CASE StartTimer
  BY <1>3 DEF StartTimer
<1>4. CASE TimerTest
  BY <1>4 DEF TimerTest
<1>5. CASE TimerFire
  BY <1>5 DEF TimerFire
<1>6. CASE UNCHANGED vars
  BY <1>6 DEF vars
<1>. HIDE DEF Executor!vars, Executor!Next
<1>. QED
  BY <1>1, <1>2, <1>3, <1>4, <1>5, <1>6

\* Whatever the threads of the pool do, its users see an executor: each task
\* is started at most once, in the order of acceptance, at most
\* min_core_thread at a time, and is discarded only after the pool closed.
THEOREM PoolImplementsExecutor == Spec => ImplementsExecutor
<1>1. Init => Executor!Init
  BY DEF Init, Executor!Init
<1>2. AccountingInv /\ ClosingInv /\ [Next]_vars =>
        [Executor!Next]_Executor!vars
  BY NextCases, WorkerRefines, CloserRefines, OtherRefines
<1>3. Init => AccountingInv /\ ClosingInv
  BY InitAccounting, InitClosing
<1>. QED
  BY <1>1, <1>2, <1>3, NextAccounting, NextClosing, PTL
  DEF Spec, ImplementsExecutor, Executor!Spec

===============================================================================
