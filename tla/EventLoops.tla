------------------------------ MODULE EventLoops ------------------------------
(***************************************************************************)
(* server::reactor::Dispatcher with slaves (include/server/reactor/        *)
(* Dispatcher.h): the master's event loop, the slaves' loops, which run as *)
(* tasks of the global pool, the hand-over of accepted connections, the    *)
(* pending functors and Shutdown.                                          *)
(*                                                                         *)
(* The pool is the abstract TaskExecutor, which ThreadPool implements.     *)
(* Each connection raises one event here; repeated events, closing and the *)
(* reuse of numbers are the matter of Channel and Dispatcher.              *)
(*                                                                         *)
(* Atomicity.  RegisterHandler is two steps, its test of _stop with        *)
(* RegisterFd outside _globalMx, and try_emplace; a loop looks in          *)
(* _handlers without any mutex, while the master may insert into the map   *)
(* of a slave or Shutdown clear it.  Shutdown runs in a thread of its own  *)
(* and takes no mutex at all.  crashed stands for the end of the process:  *)
(* two threads met in _handlers, one went on in a slave that Shutdown had  *)
(* destroyed, or DispatchToSlave divided by the number of slaves, 0.       *)
(***************************************************************************)
EXTENDS Naturals, FiniteSets, SequencesExt

CONSTANTS Conns,      \* connections clients make
          NumFunctors, \* calls of AddPendingFunctor
          Listen,     \* the listening socket, _masterfd
          None,       \* no connection
          EnableSlave, \* _enableSlave
          NumSlaves,  \* AddSlaveDispatcher(n); none when slaves are not enabled
          NumWorkers  \* threads of the pool

ASSUME LoopsAssumption ==
    /\ IsFiniteSet(Conns) /\ Listen \notin Conns /\ None \notin Conns
    /\ NumSlaves \in Nat /\ NumWorkers \in Nat \ {0}
    /\ NumFunctors \in Nat
    /\ EnableSlave \in BOOLEAN /\ (NumSlaves > 0 => EnableSlave)

Master == 0
Slaves == 1 .. NumSlaves
Loops == {Master} \cup Slaves
Items == Conns \cup {Listen}
Functors == 1 .. NumFunctors \* each by the number of its call

\* A task of the pool: HandleEvent of a connection, or Dispatch of a slave.
PoolTasks == {<<"event", c>> : c \in Conns} \cup {<<"loop", l>> : l \in Slaves}

VARIABLES
    conn,        \* of each connection: "new", "waiting", "open", "closed"
    accepting,   \* those that wait for accept(), in order
    sent,        \* those whose client has sent something
    armed,       \* each epoll set
    ready,       \* what epoll_wait would report of it
    handlers,    \* _handlers
    batch,       \* the events a loop still has to go through
    pc, cur,     \* where each loop is; the connection the master registers
    pending,     \* _pendingFn
    taken,       \* the functors a loop has moved out and not yet called
    added, ran,  \* the functors in the order they were added and called
    stop,        \* _stop
    shutEpoll,   \* loops whose epoll descriptor is closed
    closer,      \* where Shutdown is
    destroyed,   \* _slaves is cleared
    dropped,     \* connections whose event found no handler
    backlog, status, open, \* the pool
    crashed

Pool == INSTANCE TaskExecutor WITH Tasks <- PoolTasks, Capacity <- NumWorkers

kernelVars == <<conn, accepting, sent, armed, ready>>
loopVars == <<batch, pc, cur>>
functorVars == <<pending, taken, added, ran>>
closeVars == <<stop, shutEpoll, closer, destroyed>>
poolVars == <<backlog, status, open>>
vars == <<kernelVars, handlers, loopVars, functorVars, closeVars, dropped,
          poolVars, crashed>>

\* SetMasterFD and AddSlaveDispatcher have returned, Dispatch is called.
Init ==
    /\ conn = [c \in Conns |-> "new"]
    /\ accepting = <<>> /\ sent = {}
    /\ armed = [l \in Loops |-> IF l = Master THEN {Listen} ELSE {}]
    /\ handlers = armed
    /\ ready = [l \in Loops |-> {}]
    /\ batch = [l \in Loops |-> {}]
    /\ pc = [l \in Loops |-> IF l = Master THEN "test" ELSE "queued"]
    /\ cur = None
    /\ pending = [l \in Loops |-> <<>>] /\ taken = pending
    /\ added = <<>> /\ ran = <<>>
    /\ stop = [l \in Loops |-> FALSE]
    /\ shutEpoll = {} /\ closer = "none" /\ destroyed = FALSE
    /\ dropped = {}
    /\ backlog = [l \in Slaves |-> <<"loop", l>>]
    /\ status = [t \in PoolTasks |->
                   IF t[1] = "loop" THEN "queued" ELSE "new"]
    /\ open = TRUE
    /\ crashed = FALSE

Goto(l, place) == pc' = [pc EXCEPT ![l] = place]

-------------------------------------------------------------------------------
(* Clients.                                                                  *)

Connect(c) ==
    /\ conn[c] = "new"
    /\ Listen \in armed[Master]
    /\ conn' = [conn EXCEPT ![c] = "waiting"]
    /\ accepting' = Append(accepting, c)
    /\ ready' = [ready EXCEPT ![Master] = @ \cup {Listen}]
    /\ UNCHANGED <<sent, armed, handlers, loopVars, functorVars, closeVars,
                   dropped, poolVars, crashed>>

ClientSend(c) ==
    /\ conn[c] \in {"waiting", "open"}
    /\ c \notin sent
    /\ sent' = sent \cup {c}
    /\ ready' = [l \in Loops |-> IF c \in armed[l] THEN ready[l] \cup {c}
                                ELSE ready[l]]
    /\ UNCHANGED <<conn, accepting, armed, handlers, loopVars, functorVars,
                   closeVars, dropped, poolVars, crashed>>

-------------------------------------------------------------------------------
(* Dispatch, in the loop l: of the master, or of a slave whose task the pool *)
(* has started.  A slave that Shutdown has destroyed goes on with what is    *)
(* left of it, or crashes (UseDestroyed).                                    *)

StartSlave(l) ==
    /\ pc[l] = "queued"
    /\ status[<<"loop", l>>] = "running"
    /\ Goto(l, "test")
    /\ UNCHANGED <<kernelVars, handlers, batch, cur, functorVars, closeVars,
                   dropped, poolVars, crashed>>

TestStop(l) ==
    /\ pc[l] = "test"
    /\ ~stop[l]
    /\ Goto(l, "call")
    /\ UNCHANGED <<kernelVars, handlers, batch, cur, functorVars, closeVars,
                   dropped, poolVars, crashed>>

Leave(l) ==
    /\ pc[l] = "test"
    /\ stop[l]
    /\ Goto(l, "out")
    /\ IF l = Master THEN UNCHANGED poolVars ELSE Pool!Finish(<<"loop", l>>)
    /\ UNCHANGED <<kernelVars, handlers, batch, cur, functorVars, closeVars,
                   dropped, crashed>>

\* epoll_wait blocks, or fails on a closed descriptor.
CallWait(l) ==
    /\ pc[l] = "call"
    /\ Goto(l, IF l \in shutEpoll THEN "test" ELSE "blocked")
    /\ UNCHANGED <<kernelVars, handlers, batch, cur, functorVars, closeVars,
                   dropped, poolVars, crashed>>

\* It has no timeout and does not notice that its descriptor is closed.
WaitForEvents(l) ==
    /\ pc[l] = "blocked"
    /\ ready[l] # {}
    /\ batch' = [batch EXCEPT ![l] = ready[l]]
    /\ ready' = [ready EXCEPT ![l] = {}]
    /\ Goto(l, "event")
    /\ UNCHANGED <<conn, accepting, sent, armed, handlers, cur, functorVars,
                   closeVars, dropped, poolVars, crashed>>

NextEvent(l, i) ==
    /\ pc[l] = "event"
    /\ i \in batch[l]
    /\ batch' = [batch EXCEPT ![l] = @ \ {i}]

EndOfBatch(l) ==
    /\ pc[l] = "event"
    /\ batch[l] = {}
    /\ Goto(l, "test")
    /\ UNCHANGED <<kernelVars, handlers, batch, cur, functorVars, closeVars,
                   dropped, poolVars, crashed>>

\* if ( it == _handlers.end() ) return;  the pending functors are not called.
DropEvent(l, i) ==
    /\ NextEvent(l, i)
    /\ i \notin handlers[l]
    /\ dropped' = dropped \cup {i}
    /\ UNCHANGED <<kernelVars, handlers, pc, cur, functorVars, closeVars,
                   poolVars, crashed>>

\* Seeded fault: the task is not enqueued.
DispatchEventForgotten(l, c) ==
    /\ NextEvent(l, c)
    /\ c \in handlers[l] \ {Listen}
    /\ Goto(l, "functors")
    /\ UNCHANGED <<kernelVars, handlers, cur, functorVars, closeVars, dropped,
                   poolVars, crashed>>

\* Seeded fault: the pending functors are passed over.
DispatchEventPassesOver(l, c) ==
    /\ NextEvent(l, c)
    /\ c \in handlers[l] \ {Listen}
    /\ Pool!Accept(<<"event", c>>)
    /\ UNCHANGED <<kernelVars, handlers, pc, cur, functorVars, closeVars,
                   dropped, crashed>>

DispatchEvent(l, c) ==
    /\ NextEvent(l, c)
    /\ c \in handlers[l] \ {Listen}
    /\ Pool!Accept(<<"event", c>>)
    /\ Goto(l, "functors")
    /\ UNCHANGED <<kernelVars, handlers, cur, functorVars, closeVars, dropped,
                   crashed>>

Accept ==
    LET c == Head(accepting) IN
    /\ NextEvent(Master, Listen)
    /\ Listen \in handlers[Master]
    /\ accepting' = Tail(accepting)
    /\ conn' = [conn EXCEPT ![c] = "open"]
    /\ cur' = c
    /\ Goto(Master, "register")
    /\ UNCHANGED <<sent, armed, ready, handlers, functorVars, closeVars,
                   dropped, poolVars, crashed>>

\* DispatchToSlave counts with a local variable: it is always the first slave.
Target == IF NumSlaves = 0 \/ destroyed THEN Master ELSE 1

\* Seeded fault: the connection goes to the master's epoll set as well.
RegisterFdTwice ==
    /\ pc[Master] = "register"
    /\ ~stop[Target]
    /\ armed' = [l \in Loops |-> IF l \in {Master, Target}
                                THEN armed[l] \cup {cur} ELSE armed[l]]
    /\ Goto(Master, "insert")
    /\ UNCHANGED <<conn, accepting, sent, ready, cur, handlers, batch,
                   functorVars, closeVars, dropped, poolVars, crashed>>

\* RegisterHandler of the target: nothing once it is stopped, RegisterFd
\* before the handler is in the map.
RegisterFd ==
    /\ pc[Master] = "register"
    /\ IF stop[Target]
       THEN /\ Goto(Master, "functors")
            /\ cur' = None
            /\ UNCHANGED <<armed, ready>>
       ELSE /\ armed' = [armed EXCEPT ![Target] = @ \cup {cur}]
            /\ ready' = IF cur \in sent
                        THEN [ready EXCEPT ![Target] = @ \cup {cur}]
                        ELSE ready
            /\ Goto(Master, "insert")
            /\ UNCHANGED cur
    /\ UNCHANGED <<conn, accepting, sent, handlers, batch, functorVars,
                   closeVars, dropped, poolVars, crashed>>

InsertHandler ==
    /\ pc[Master] = "insert"
    /\ \E l \in Loops :
         /\ cur \in armed[l]
         /\ handlers' = [handlers EXCEPT ![l] = @ \cup {cur}]
    /\ cur' = None
    /\ Goto(Master, "functors")
    /\ UNCHANGED <<kernelVars, batch, functorVars, closeVars, dropped,
                   poolVars, crashed>>

\* Seeded fault: the functors are copied out, not moved.
TakeFunctorsCopies(l) ==
    /\ pc[l] = "functors"
    /\ taken' = [taken EXCEPT ![l] = pending[l]]
    /\ Goto(l, "calling")
    /\ UNCHANGED <<kernelVars, handlers, batch, cur, pending, added, ran,
                   closeVars, dropped, poolVars, crashed>>

\* pendingFn = std::move(_pendingFn), under _pendingMx.
TakeFunctors(l) ==
    /\ pc[l] = "functors"
    /\ taken' = [taken EXCEPT ![l] = pending[l]]
    /\ pending' = [pending EXCEPT ![l] = <<>>]
    /\ Goto(l, "calling")
    /\ UNCHANGED <<kernelVars, handlers, batch, cur, added, ran, closeVars,
                   dropped, poolVars, crashed>>

CallFunctor(l) ==
    /\ pc[l] = "calling"
    /\ IF taken[l] = <<>>
       THEN /\ Goto(l, "event")
            /\ UNCHANGED <<taken, ran>>
       ELSE /\ ran' = Append(ran, Head(taken[l]))
            /\ taken' = [taken EXCEPT ![l] = Tail(@)]
            /\ UNCHANGED pc
    /\ UNCHANGED <<kernelVars, handlers, batch, cur, pending, added, closeVars,
                   dropped, poolVars, crashed>>

\* A thread touches a slave that is gone.
UseDestroyed ==
    /\ destroyed
    /\ \/ \E l \in Slaves : pc[l] \notin {"queued", "blocked", "out"}
       \/ pc[Master] = "insert" /\ cur \notin armed[Master]
    /\ crashed' = TRUE
    /\ UNCHANGED <<kernelVars, handlers, loopVars, functorVars, closeVars,
                   dropped, poolVars>>

\* Who is about to look in the _handlers of l, insert into it or clear it.
Looking(l) == pc[l] = "event" /\ batch[l] # {}
Inserting(l) == pc[Master] = "insert" /\ cur \in armed[l]
Clearing(l) ==
    IF l = Master THEN closer = "master"
                  ELSE closer = "slaves" /\ stop[l] /\ l \notin shutEpoll

\* Two threads in one _handlers at once, one of them changing it: anything can
\* happen.  The master inserts into its own map from its own loop.
HandlersRace ==
    /\ \E l \in Loops :
         \/ l # Master /\ Looking(l) /\ Inserting(l)
         \/ Clearing(l) /\ (Looking(l) \/ Inserting(l))
    /\ crashed' = TRUE
    /\ UNCHANGED <<kernelVars, handlers, loopVars, functorVars, closeVars,
                   dropped, poolVars>>

-------------------------------------------------------------------------------
(* The application: AddPendingFunctor.                                       *)

\* Slaves are enabled, and there is none: none was added (ReactorExample.cpp:76
\* enables them and adds none), or Shutdown has cleared them.
NoFunctorSlot == EnableSlave /\ (NumSlaves = 0 \/ destroyed)

AddPendingFunctor(f) ==
    /\ f = Len(added) + 1
    /\ ~NoFunctorSlot
    /\ added' = Append(added, f)
    /\ pending' = [pending EXCEPT ![Target] = Append(@, f)]
    /\ UNCHANGED <<kernelVars, handlers, loopVars, taken, ran, closeVars,
                   dropped, poolVars, crashed>>

\* AddPendingFunctor goes to DispatchToSlave without looking whether there is
\* a slave, and that takes the remainder by _slaves.size().
DivideByZero ==
    /\ NoFunctorSlot
    /\ crashed' = TRUE
    /\ UNCHANGED <<kernelVars, handlers, loopVars, functorVars, closeVars,
                   dropped, poolVars>>

-------------------------------------------------------------------------------
(* Shutdown of the master, by one thread.                                    *)

\* close() of every descriptor in _handlers, which takes it out of its epoll
\* set, and _handlers.clear().
CloseHandlers(l) ==
    /\ conn' = [c \in Conns |-> IF c \in handlers[l] THEN "closed" ELSE conn[c]]
    /\ armed' = [armed EXCEPT ![l] = @ \ handlers[l]]
    /\ ready' = [ready EXCEPT ![l] = @ \ handlers[l]]
    /\ handlers' = [handlers EXCEPT ![l] = {}]

ShutdownBegin ==
    /\ closer = "none"
    /\ stop' = [stop EXCEPT ![Master] = TRUE]
    /\ closer' = "master"
    /\ UNCHANGED <<kernelVars, handlers, loopVars, functorVars, shutEpoll,
                   destroyed, dropped, poolVars, crashed>>

ShutdownMaster ==
    /\ closer = "master"
    /\ CloseHandlers(Master)
    /\ closer' = "slaves"
    /\ UNCHANGED <<accepting, sent, loopVars, functorVars, stop, shutEpoll,
                   destroyed, dropped, poolVars, crashed>>

\* Seeded fault: the slaves are closed without _stop.
SlaveStopForgotten(l) ==
    /\ closer = "slaves"
    /\ ~stop[l]
    /\ l \notin shutEpoll
    /\ CloseHandlers(l)
    /\ shutEpoll' = shutEpoll \cup {l}
    /\ UNCHANGED <<accepting, sent, loopVars, functorVars, stop, closer,
                   destroyed, dropped, poolVars, crashed>>

SlaveStop(l) ==
    /\ closer = "slaves"
    /\ ~stop[l]
    /\ stop' = [stop EXCEPT ![l] = TRUE]
    /\ UNCHANGED <<kernelVars, handlers, loopVars, functorVars, shutEpoll,
                   closer, destroyed, dropped, poolVars, crashed>>

SlaveClose(l) ==
    /\ closer = "slaves"
    /\ stop[l]
    /\ l \notin shutEpoll
    /\ CloseHandlers(l)
    /\ shutEpoll' = shutEpoll \cup {l}
    /\ UNCHANGED <<accepting, sent, loopVars, functorVars, stop, closer,
                   destroyed, dropped, poolVars, crashed>>

SlavesClear ==
    /\ closer = "slaves"
    /\ Slaves \subseteq shutEpoll
    /\ destroyed' = TRUE
    /\ closer' = "pool"
    /\ Pool!Close
    /\ UNCHANGED <<kernelVars, handlers, loopVars, functorVars, stop,
                   shutEpoll, dropped, crashed>>

PoolShutdown ==
    /\ closer = "pool"
    /\ closer' = "join"
    /\ Pool!Discard
    /\ UNCHANGED <<kernelVars, handlers, loopVars, functorVars, stop,
                   shutEpoll, destroyed, dropped, crashed>>

\* The pool is joined: no worker runs a task any more.
ShutdownReturn ==
    /\ closer = "join"
    /\ Pool!Running = {}
    /\ shutEpoll' = shutEpoll \cup {Master}
    /\ closer' = "returned"
    /\ UNCHANGED <<kernelVars, handlers, loopVars, functorVars, stop,
                   destroyed, dropped, poolVars, crashed>>

-------------------------------------------------------------------------------
(* The pool; its workers are gone after the task each has at its Shutdown.   *)

PoolStart ==
    /\ closer \notin {"join", "returned"}
    /\ Pool!Start
    /\ UNCHANGED <<kernelVars, handlers, loopVars, functorVars, closeVars,
                   dropped, crashed>>

HandleEvent(c) ==
    /\ Pool!Finish(<<"event", c>>)
    /\ UNCHANGED <<kernelVars, handlers, loopVars, functorVars, closeVars,
                   dropped, crashed>>

-------------------------------------------------------------------------------
LoopStep(l) ==
    \/ StartSlave(l) \/ TestStop(l) \/ Leave(l) \/ CallWait(l)
    \/ WaitForEvents(l) \/ EndOfBatch(l)
    \/ \E i \in Items : DropEvent(l, i) \/ DispatchEvent(l, i)
    \/ l = Master /\ (Accept \/ RegisterFd \/ InsertHandler)
    \/ TakeFunctors(l) \/ CallFunctor(l)

ShutdownStep ==
    \/ ShutdownMaster
    \/ \E l \in Slaves : SlaveStop(l) \/ SlaveClose(l)
    \/ SlavesClear \/ PoolShutdown \/ ShutdownReturn

PoolStep == PoolStart \/ \E c \in Conns : HandleEvent(c)

Next ==
    /\ ~crashed
    /\ \/ \E c \in Conns : Connect(c) \/ ClientSend(c)
       \/ \E l \in Loops : LoopStep(l)
       \/ UseDestroyed
       \/ HandlersRace
       \/ \E f \in Functors : AddPendingFunctor(f)
       \/ DivideByZero
       \/ ShutdownBegin \/ ShutdownStep
       \/ PoolStep

Spec == Init /\ [][Next]_vars

\* Every loop and the caller of Shutdown run, and so does the pool, as
\* ThreadPool's fairness makes it.
Fairness ==
    /\ \A l \in Loops : WF_vars(~crashed /\ LoopStep(l))
    /\ WF_vars(~crashed /\ ShutdownStep)
    /\ WF_vars(~crashed /\ PoolStart)
    /\ \A c \in Conns : WF_vars(~crashed /\ HandleEvent(c))

FairSpec == Spec /\ Fairness

-------------------------------------------------------------------------------
(* Properties.                                                               *)

LoopPlaces == {"queued", "test", "call", "blocked", "event", "register",
               "insert", "functors", "calling", "out"}

\* The values each variable takes; a socket is in at most one epoll set, and
\* only the loop of that set reports it or has its handler.
TypeOK ==
    /\ conn \in [Conns -> {"new", "waiting", "open", "closed"}]
    /\ accepting \in Seq(Conns) /\ sent \subseteq Conns
    /\ armed \in [Loops -> SUBSET Items] /\ ready \in [Loops -> SUBSET Items]
    /\ handlers \in [Loops -> SUBSET Items]
    /\ \A l \in Loops : ready[l] \subseteq armed[l] /\ handlers[l] \subseteq armed[l]
    /\ \A l, k \in Loops : l # k => armed[l] \cap armed[k] = {}
    /\ batch \in [Loops -> SUBSET Items]
    /\ pc \in [Loops -> LoopPlaces] /\ cur \in Conns \cup {None}
    /\ pending \in [Loops -> Seq(Functors)] /\ taken \in [Loops -> Seq(Functors)]
    /\ added \in Seq(Functors) /\ ran \in Seq(Functors)
    /\ stop \in [Loops -> BOOLEAN] /\ shutEpoll \subseteq Loops
    /\ closer \in {"none", "master", "slaves", "pool", "join", "returned"}
    /\ destroyed \in BOOLEAN /\ dropped \subseteq Items
    /\ backlog \in Seq(PoolTasks) /\ open \in BOOLEAN
    /\ status \in [PoolTasks -> {"new", "queued", "running", "done", "dropped"}]
    /\ crashed \in BOOLEAN

\* The functors are called once each and in the order they were added, by one
\* loop, although they are added while the loop calls the ones before.
FunctorsInOrder ==
    LET l == IF NumSlaves = 0 THEN Master ELSE 1 IN
    ran \o taken[l] \o pending[l] = added

\* Where an event of c will be reported and find its handler.
Raised(c) ==
    \E l \in Loops : c \in handlers[l] /\ c \in ready[l] /\ pc[l] # "out"

\* An event of a connection whose handler is in the map is handled by the
\* pool, as long as the slaves leave it a worker.
RaisedIsHandled ==
    NumSlaves < NumWorkers =>
        \A c \in Conns :
            Raised(c) ~> status[<<"event", c>>] = "done" \/ stop[Master] \/ crashed

\* A functor waits for an event, however long; an event of the loop it waits
\* in sets it free.
FunctorIsCalled ==
    LET l == IF NumSlaves = 0 THEN Master ELSE 1 IN
    NumSlaves <= NumWorkers =>
        \A f \in Functors :
            f \in ToSet(pending[l]) /\ (\E c \in Conns : Raised(c) /\ c \in armed[l])
                ~> f \in ToSet(ran) \/ stop[l] \/ crashed

\* A loop that sleeps in epoll_wait on a descriptor that is closed.
Stuck(l) == pc[l] = "blocked" /\ l \in shutEpoll

\* Shutdown returns unless it joins a worker that sleeps in the epoll_wait of
\* a slave: nothing wakes it.
ShutdownReturns ==
    closer = "master" ~>
        closer = "returned" \/ crashed \/ \E l \in Slaves : Stuck(l)

===============================================================================
