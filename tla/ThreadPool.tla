------------------------------ MODULE ThreadPool ------------------------------
(***************************************************************************)
(* server::threadpool::ThreadPool and the Timer it owns                    *)
(* (include/server/threadpool/ThreadPool.h, Timer.h).                      *)
(*                                                                         *)
(* Atomicity.  A critical section of _queueMutex is one action: everything *)
(* it touches is protected by the mutex, except _stop, which it reads      *)
(* once.  What the code does outside the mutex is a step of its own:       *)
(* notify_one after EnqueueTask has released the mutex, "_stop = true"     *)
(* before Shutdown takes it, and the worker's look-up in _workerStat, its  *)
(* test for ACTIVE and its store of EMPTY, which are data races with the   *)
(* constructor and with Shutdown.                                          *)
(*                                                                         *)
(* crashed stands for the end of the process: front() and pop() on an      *)
(* empty std::queue followed by a call of the garbage they return, or      *)
(* std::thread::join on a thread that was joined before.                   *)
(***************************************************************************)
EXTENDS Naturals, Sequences, FiniteSets

CONSTANTS Workers,       \* the min_core_thread threads the constructor starts
          Tasks,         \* one call of EnqueueTask each
          Closers,       \* threads that call Shutdown, or run ~ThreadPool
          TimerThread,   \* the thread that runs Timer::Start
          MinCoreThread, \* _config.min_core_thread
          MaxThread,     \* _config.max_thread
          StartMonitor,  \* _config.start_monitor_timer
          NoTask         \* an empty std::function

ASSUME ConstantsAssumption ==
    /\ IsFiniteSet(Workers)
    /\ MinCoreThread = Cardinality(Workers)
    /\ MaxThread \in Nat
    /\ StartMonitor \in BOOLEAN
    /\ TimerThread \notin Workers
    /\ NoTask \notin Tasks

VARIABLES
    tasks,       \* _tasks
    taskState,   \* what became of each task; its future follows it
    notifying,   \* tasks pushed whose EnqueueTask has not called notify_one
    workerStat,  \* _workerStat; "absent" is "no entry"
    pc,          \* where each thread of _workers is
    holding,     \* the local variable "task" of each worker
    stop,        \* _stop
    closerPc,    \* where each caller of Shutdown is
    joinedBy,    \* the callers of Shutdown that have joined each thread
    timerStop,   \* Timer::_stop
    sampled,     \* Monitor has read the CPU statistics and called Adjust
    crashed      \* the process is gone

poolVars == <<tasks, taskState, notifying>>
threadVars == <<workerStat, pc, holding>>
closeVars == <<stop, closerPc, joinedBy>>
timerVars == <<timerStop, sampled>>
vars == <<poolVars, threadVars, closeVars, timerVars, crashed>>

Threads == Workers \cup {TimerThread}

MonitorOn == StartMonitor /\ MinCoreThread < MaxThread

\* The constructor has returned: only then can anyone call the pool.
Constructed ==
    /\ \A w \in Workers : workerStat[w] # "absent"
    /\ MonitorOn => pc[TimerThread] # "unborn"

\* The threads of _workers, which Shutdown joins.
Spawned == {t \in Threads : pc[t] # "unborn"}

Asleep == {w \in Workers : pc[w] = "asleep"}

Queued == {t \in Tasks : taskState[t] = "queued"}

Init ==
    /\ tasks = <<>>
    /\ taskState = [t \in Tasks |-> "new"]
    /\ notifying = {}
    /\ workerStat = [w \in Workers |-> "absent"]
    /\ pc = [t \in Threads |-> "unborn"]
    /\ holding = [w \in Workers |-> NoTask]
    /\ stop = FALSE
    /\ closerPc = [c \in Closers |-> "idle"]
    /\ joinedBy = [t \in Threads |-> {}]
    /\ timerStop = FALSE
    /\ sampled = FALSE
    /\ crashed = FALSE

-------------------------------------------------------------------------------
(* The constructor: ThreadPool::Init starts one thread after the other and   *)
(* enters each in _workerStat after it has started.                          *)

SpawnWorker(w) ==
    /\ pc[w] = "unborn"
    /\ \A v \in Workers : pc[v] # "unborn" => workerStat[v] # "absent"
    /\ pc' = [pc EXCEPT ![w] = "find"]
    /\ UNCHANGED <<poolVars, workerStat, holding, closeVars,
                   timerVars, crashed>>

RegisterWorker(w) ==
    /\ pc[w] # "unborn"
    /\ workerStat[w] = "absent"
    /\ workerStat' = [workerStat EXCEPT ![w] = "ACTIVE"]
    /\ UNCHANGED <<poolVars, pc, holding, closeVars, timerVars,
                   crashed>>

StartTimer ==
    /\ MonitorOn
    /\ \A w \in Workers : workerStat[w] # "absent"
    /\ pc[TimerThread] = "unborn"
    /\ pc' = [pc EXCEPT ![TimerThread] = "testing"]
    /\ UNCHANGED <<poolVars, workerStat, holding, closeVars,
                   timerVars, crashed>>

-------------------------------------------------------------------------------
(* EnqueueTask: the push under the mutex, then notify_one without it.  It    *)
(* does not look at _stop.                                                   *)

\* Seeded fault: the push without its notify_one.
EnqueueTaskUnannounced(t) ==
    /\ Constructed
    /\ taskState[t] = "new"
    /\ tasks' = Append(tasks, t)
    /\ taskState' = [taskState EXCEPT ![t] = "queued"]
    /\ UNCHANGED <<notifying, threadVars, closeVars, timerVars, crashed>>

EnqueueTask(t) ==
    /\ Constructed
    /\ taskState[t] = "new"
    /\ tasks' = Append(tasks, t)
    /\ taskState' = [taskState EXCEPT ![t] = "queued"]
    /\ notifying' = notifying \cup {t}
    /\ UNCHANGED <<threadVars, closeVars, timerVars, crashed>>

NotifyOne(t) ==
    /\ t \in notifying
    /\ notifying' = notifying \ {t}
    /\ \/ /\ Asleep = {}
          /\ UNCHANGED pc
       \/ \E w \in Asleep : pc' = [pc EXCEPT ![w] = "wait"]
    /\ UNCHANGED <<tasks, taskState, workerStat, holding, closeVars,
                   timerVars, crashed>>

-------------------------------------------------------------------------------
(* WorkerThread.                                                             *)

\* _workerStat.find(id): a thread faster than its creator finds no entry,
\* and its loop ends before it began.
WorkerFind(w) ==
    /\ pc[w] = "find"
    /\ pc' = [pc EXCEPT ![w] = IF workerStat[w] = "absent" THEN "exited"
                                                            ELSE "test"]
    /\ UNCHANGED <<poolVars, workerStat, holding, closeVars,
                   timerVars, crashed>>

\* while ( ... it->second == ACTIVE )
WorkerTest(w) ==
    /\ pc[w] = "test"
    /\ pc' = [pc EXCEPT ![w] = IF workerStat[w] = "ACTIVE" THEN "empty"
                                                            ELSE "exited"]
    /\ UNCHANGED <<poolVars, workerStat, holding, closeVars,
                   timerVars, crashed>>

\* it->second = EMPTY, without the mutex: it may overwrite a DEAD that
\* Shutdown stored after the test.
WorkerMarkEmpty(w) ==
    /\ pc[w] = "empty"
    /\ workerStat' = [workerStat EXCEPT ![w] = "EMPTY"]
    /\ pc' = [pc EXCEPT ![w] = "wait"]
    /\ UNCHANGED <<poolVars, holding, closeVars, timerVars, crashed>>

\* The predicate of _cv.wait.
WakeCondition == stop \/ tasks # <<>>

WorkerSleep(w) ==
    /\ pc[w] = "wait"
    /\ ~WakeCondition
    /\ pc' = [pc EXCEPT ![w] = "asleep"]
    /\ UNCHANGED <<poolVars, workerStat, holding, closeVars,
                   timerVars, crashed>>

SpuriousWakeup(w) ==
    /\ pc[w] = "asleep"
    /\ pc' = [pc EXCEPT ![w] = "wait"]
    /\ UNCHANGED <<poolVars, workerStat, holding, closeVars, timerVars,
                   crashed>>

\* if ( it->second == DEAD ) break;
WorkerLeave(w) ==
    /\ pc[w] = "wait"
    /\ WakeCondition
    /\ workerStat[w] = "DEAD"
    /\ pc' = [pc EXCEPT ![w] = "exited"]
    /\ UNCHANGED <<poolVars, workerStat, holding, closeVars,
                   timerVars, crashed>>

\* Seeded fault: front() without pop().
WorkerTakeUnpopped(w) ==
    /\ pc[w] = "wait"
    /\ tasks # <<>>
    /\ workerStat[w] # "DEAD"
    /\ taskState' = [taskState EXCEPT ![Head(tasks)] = "running"]
    /\ holding' = [holding EXCEPT ![w] = Head(tasks)]
    /\ workerStat' = [workerStat EXCEPT ![w] = "ACTIVE"]
    /\ pc' = [pc EXCEPT ![w] = "run"]
    /\ UNCHANGED <<tasks, notifying, closeVars, timerVars, crashed>>

\* Seeded fault: the newest task is taken, as from a stack.
WorkerTakeNewest(w) ==
    LET t == tasks[Len(tasks)] IN
    /\ pc[w] = "wait"
    /\ tasks # <<>>
    /\ workerStat[w] # "DEAD"
    /\ tasks' = SubSeq(tasks, 1, Len(tasks) - 1)
    /\ taskState' = [taskState EXCEPT ![t] = "running"]
    /\ holding' = [holding EXCEPT ![w] = t]
    /\ workerStat' = [workerStat EXCEPT ![w] = "ACTIVE"]
    /\ pc' = [pc EXCEPT ![w] = "run"]
    /\ UNCHANGED <<notifying, closeVars, timerVars, crashed>>

WorkerTake(w) ==
    /\ pc[w] = "wait"
    /\ tasks # <<>>
    /\ workerStat[w] # "DEAD"
    /\ tasks' = Tail(tasks)
    /\ taskState' = [taskState EXCEPT ![Head(tasks)] = "running"]
    /\ holding' = [holding EXCEPT ![w] = Head(tasks)]
    /\ workerStat' = [workerStat EXCEPT ![w] = "ACTIVE"]
    /\ pc' = [pc EXCEPT ![w] = "run"]
    /\ UNCHANGED <<notifying, closeVars, timerVars, crashed>>

\* Woken by _stop, not DEAD and nothing in the queue: front() and pop() of an
\* empty queue, and the call of what they return.
WorkerPopEmpty(w) ==
    /\ pc[w] = "wait"
    /\ WakeCondition
    /\ workerStat[w] # "DEAD"
    /\ tasks = <<>>
    /\ crashed' = TRUE
    /\ UNCHANGED <<poolVars, threadVars, closeVars, timerVars>>

\* Seeded fault: "task" is declared outside the loop, so that the worker keeps
\* what it ran, with all that its closure owns, until it takes the next one.
WorkerRunKeepsTask(w) ==
    /\ pc[w] = "run"
    /\ taskState' = [taskState EXCEPT ![holding[w]] = "done"]
    /\ pc' = [pc EXCEPT ![w] = "test"]
    /\ UNCHANGED <<tasks, notifying, workerStat, holding, closeVars,
                   timerVars, crashed>>

\* task(): the packaged_task stores a result or an exception in the future.
WorkerRun(w) ==
    /\ pc[w] = "run"
    /\ taskState' = [taskState EXCEPT ![holding[w]] = "done"]
    /\ holding' = [holding EXCEPT ![w] = NoTask]
    /\ pc' = [pc EXCEPT ![w] = "test"]
    /\ UNCHANGED <<tasks, notifying, workerStat, closeVars,
                   timerVars, crashed>>

WorkerStep(w) ==
    \/ WorkerFind(w)
    \/ WorkerTest(w)
    \/ WorkerMarkEmpty(w)
    \/ WorkerSleep(w)
    \/ WorkerLeave(w)
    \/ WorkerTake(w)
    \/ WorkerPopEmpty(w)
    \/ WorkerRun(w)

-------------------------------------------------------------------------------
(* Shutdown, called by any number of threads.                                *)

\* if ( _stop ) return;
ShutdownTest(c) ==
    /\ Constructed
    /\ closerPc[c] = "idle"
    /\ closerPc' = [closerPc EXCEPT ![c] = IF stop THEN "returned"
                                                    ELSE "stopping"]
    /\ UNCHANGED <<poolVars, threadVars, stop, joinedBy, timerVars, crashed>>

\* _stop = true; outside the mutex.
ShutdownStop(c) ==
    /\ closerPc[c] = "stopping"
    /\ stop' = TRUE
    /\ closerPc' = [closerPc EXCEPT ![c] = "clearing"]
    /\ UNCHANGED <<poolVars, threadVars, joinedBy, timerVars, crashed>>

\* Seeded fault: the timer is not told to stop.
ShutdownClearKeepsTimer(c) ==
    /\ closerPc[c] = "clearing"
    /\ tasks' = <<>>
    /\ taskState' = [t \in Tasks |->
                       IF taskState[t] = "queued" THEN "dropped"
                                                  ELSE taskState[t]]
    /\ workerStat' = [w \in Workers |-> "DEAD"]
    /\ closerPc' = [closerPc EXCEPT ![c] = "notifying"]
    /\ UNCHANGED <<notifying, pc, holding, stop, joinedBy,
                   timerVars, crashed>>

\* Under the mutex: stop the timer, drop the queue, mark every worker DEAD.
\* Destroying a queued packaged_task breaks the promise of its future.
ShutdownClear(c) ==
    /\ closerPc[c] = "clearing"
    /\ timerStop' = TRUE
    /\ tasks' = <<>>
    /\ taskState' = [t \in Tasks |->
                       IF taskState[t] = "queued" THEN "dropped"
                                                  ELSE taskState[t]]
    /\ workerStat' = [w \in Workers |-> "DEAD"]
    /\ closerPc' = [closerPc EXCEPT ![c] = "notifying"]
    /\ UNCHANGED <<notifying, pc, holding, stop, joinedBy, sampled,
                   crashed>>

\* Seeded fault: notify_one in the place of notify_all.
ShutdownNotifyAllOne(c) ==
    /\ closerPc[c] = "notifying"
    /\ \/ /\ Asleep = {}
          /\ UNCHANGED pc
       \/ \E w \in Asleep : pc' = [pc EXCEPT ![w] = "wait"]
    /\ closerPc' = [closerPc EXCEPT ![c] = "joining"]
    /\ UNCHANGED <<poolVars, workerStat, holding, stop, joinedBy,
                   timerVars, crashed>>

ShutdownNotifyAll(c) ==
    /\ closerPc[c] = "notifying"
    /\ pc' = [t \in Threads |-> IF t \in Asleep THEN "wait" ELSE pc[t]]
    /\ closerPc' = [closerPc EXCEPT ![c] = "joining"]
    /\ UNCHANGED <<poolVars, workerStat, holding, stop, joinedBy,
                   timerVars, crashed>>

\* pair.second.join(), in whatever order the hash table has.  The second
\* join of a thread throws std::system_error, which nothing catches.
ShutdownJoin(c, t) ==
    /\ closerPc[c] = "joining"
    /\ pc[t] = "exited"
    /\ c \notin joinedBy[t]
    /\ IF joinedBy[t] = {}
       THEN /\ joinedBy' = [joinedBy EXCEPT ![t] = {c}]
            /\ UNCHANGED crashed
       ELSE /\ crashed' = TRUE
            /\ UNCHANGED joinedBy
    /\ UNCHANGED <<poolVars, threadVars, stop, closerPc, timerVars>>

ShutdownReturn(c) ==
    /\ closerPc[c] = "joining"
    /\ \A t \in Spawned : c \in joinedBy[t]
    /\ closerPc' = [closerPc EXCEPT ![c] = "returned"]
    /\ UNCHANGED <<poolVars, threadVars, stop, joinedBy, timerVars, crashed>>

\* What Shutdown does once it has been entered.
ShutdownStep(c) ==
    \/ ShutdownStop(c)
    \/ ShutdownClear(c)
    \/ ShutdownNotifyAll(c)
    \/ \E t \in Threads : ShutdownJoin(c, t)
    \/ ShutdownReturn(c)

-------------------------------------------------------------------------------
(* Timer::Start in its thread, with Monitor as its callback.                 *)

\* while ( !_stop )
TimerTest ==
    /\ pc[TimerThread] = "testing"
    /\ pc' = [pc EXCEPT ![TimerThread] = IF timerStop THEN "exited"
                                                       ELSE "sleeping"]
    /\ UNCHANGED <<poolVars, workerStat, holding, closeVars,
                   timerVars, crashed>>

\* The sleep ends and _cb() runs.  Monitor returns at once when
\* min_core_thread < max_thread, else it samples the CPU and calls Adjust.
TimerFire ==
    /\ pc[TimerThread] = "sleeping"
    /\ sampled' = (sampled \/ ~(MinCoreThread < MaxThread))
    /\ pc' = [pc EXCEPT ![TimerThread] = "testing"]
    /\ UNCHANGED <<poolVars, workerStat, holding, closeVars,
                   timerStop, crashed>>

TimerStep == TimerTest \/ TimerFire

-------------------------------------------------------------------------------
\* The process is gone, or Shutdown has run and every caller has returned:
\* the only states in which nothing more happens.
Terminated ==
    \/ crashed
    \/ /\ \A c \in Closers : closerPc[c] = "returned"
       /\ \A t \in Tasks : taskState[t] # "new"
       /\ notifying = {}

ConstructorStep ==
    \/ \E w \in Workers : SpawnWorker(w) \/ RegisterWorker(w)
    \/ StartTimer

Next ==
    \/ /\ ~crashed
       /\ \/ ConstructorStep
          \/ \E t \in Tasks : EnqueueTask(t) \/ NotifyOne(t)
          \/ \E w \in Workers : WorkerStep(w) \/ SpuriousWakeup(w)
          \/ \E c \in Closers : ShutdownTest(c) \/ ShutdownStep(c)
          \/ TimerStep
    \/ Terminated /\ UNCHANGED vars

Spec == Init /\ [][Next]_vars

\* Every thread that can run is scheduled, and every task returns.  Whether
\* and when a client enqueues or shuts down is up to the client.
Fairness ==
    /\ WF_vars(~crashed /\ ConstructorStep)
    /\ \A t \in Tasks : WF_vars(~crashed /\ NotifyOne(t))
    /\ \A w \in Workers : WF_vars(~crashed /\ WorkerStep(w))
    /\ \A c \in Closers : WF_vars(~crashed /\ ShutdownStep(c))
    /\ WF_vars(~crashed /\ TimerStep)

FairSpec == Spec /\ Fairness

-------------------------------------------------------------------------------
(* Properties.                                                               *)

WorkerPlaces == {"unborn", "find", "test", "empty", "wait", "asleep", "run",
                 "exited"}
TimerPlaces == {"unborn", "testing", "sleeping", "exited"}
CloserPlaces == {"idle", "stopping", "clearing", "notifying", "joining",
                 "returned"}

\* The values each variable takes.  A worker is only ever where WorkerThread
\* can be, the timer thread only where Timer::Start can be, and the local
\* "task" of WorkerThread, which lives for one round of its loop, holds a task
\* exactly while the worker is in it: a worker that waits keeps nothing of
\* what it ran.
TypeOK ==
    /\ tasks \in Seq(Tasks)
    /\ taskState \in [Tasks -> {"new", "queued", "running", "done", "dropped"}]
    /\ notifying \in SUBSET Tasks
    /\ workerStat \in [Workers -> {"absent", "EMPTY", "ACTIVE", "DEAD"}]
    /\ pc \in [Threads -> WorkerPlaces \cup TimerPlaces]
    /\ \A w \in Workers : pc[w] \in WorkerPlaces
    /\ pc[TimerThread] \in TimerPlaces
    /\ holding \in [Workers -> Tasks \cup {NoTask}]
    /\ \A w \in Workers : pc[w] = "run" <=> holding[w] # NoTask
    /\ stop \in BOOLEAN
    /\ closerPc \in [Closers -> CloserPlaces]
    /\ joinedBy \in [Threads -> SUBSET Closers]
    /\ timerStop \in BOOLEAN
    /\ sampled \in BOOLEAN
    /\ crashed \in BOOLEAN

\* Every task is in one place: _tasks holds exactly the queued ones, each
\* once, and a task that runs is held by exactly one worker.  Neither
\* Shutdown's clearing of the queue nor the unlocked stores to _workerStat
\* can make a task run twice or vanish without its promise being broken.
QueueIsQueued ==
    /\ \A i, j \in DOMAIN tasks : tasks[i] = tasks[j] => i = j
    /\ \A t \in Tasks :
         taskState[t] = "queued" <=> \E i \in DOMAIN tasks : tasks[i] = t

OneRunner ==
    /\ \A t \in Tasks :
         taskState[t] = "running" <=>
            \E w \in Workers : pc[w] = "run" /\ holding[w] = t
    /\ \A v, w \in Workers :
         pc[v] = "run" /\ pc[w] = "run" /\ holding[v] = holding[w] => v = w

TaskAccounting == QueueIsQueued /\ OneRunner

\* No wakeup is lost while the pool is open: as long as some worker sleeps on
\* _cv, every queued task is matched by a notify_one still to be called or by
\* a worker on its way to the predicate.  EnqueueTask's notify_one comes
\* after the mutex is released, so pushes, notifications and workers that
\* come back from a task interleave in every order.
OnTheWay == {w \in Workers : pc[w] \in {"find", "test", "empty", "wait"}}

WorkConserving ==
    ~stop /\ Asleep # {} =>
        Len(tasks) <= Cardinality(notifying) + Cardinality(OnTheWay)

\* A caller of Shutdown that has reached its joins never waits for a worker
\* that sleeps on _cv: _stop is stored before the mutex is taken, and
\* notify_all comes after it is released.
NobodySleepsThroughShutdown ==
    \A c \in Closers : closerPc[c] = "joining" => Asleep = {}

\* ThreadPool implements the abstract executor.
Executor == INSTANCE TaskExecutor WITH
                backlog <- tasks, status <- taskState, open <- ~stop,
                Capacity <- MinCoreThread

ImplementsExecutor == Executor!Spec

\* A queued task is eventually run, unless Shutdown is called or every worker
\* lost the race with the constructor and ended before its loop began.
TaskServed ==
    \A t \in Tasks :
        taskState[t] = "queued" ~>
            \/ taskState[t] = "done"
            \/ stop
            \/ \A w \in Workers : pc[w] = "exited"

\* Shutdown returns: every worker and the timer thread leave their loops,
\* unless the process crashed on the way.
ShutdownReturns ==
    \A c \in Closers :
        closerPc[c] = "stopping" ~> closerPc[c] = "returned" \/ crashed

\* doc/ThreadPool.md:19 promises to "Gracefully shut down threads when the
\* thread pool is no longer needed".  With one caller of Shutdown, a worker
\* that is between its unlocked test for ACTIVE and the predicate of _cv.wait
\* is woken by _stop with nothing in the queue and no DEAD mark.
GracefulShutdown == ~crashed

\* doc/ThreadPool.md:17 promises to "Create a fixed number of threads at
\* startup": no worker ends before Shutdown.  One that runs find before the
\* constructor's emplace does.
FixedThreadCount ==
    \A w \in Workers : pc[w] = "exited" => stop

===============================================================================
