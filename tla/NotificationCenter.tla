-------------------------- MODULE NotificationCenter --------------------------
(***************************************************************************)
(* server::reactor::NotificationCenter with the receiving half of the      *)
(* channels it watches (include/server/reactor/NotificationCenter.h,       *)
(* Channel.h, EventsHandler.h, the event loop of Dispatcher.h).            *)
(*                                                                         *)
(* Bytes are counted in chunks: of each connection, sent >= got >= taken   *)
(* chunks were sent by the peer, counted into _receivedCount by            *)
(* Channel::Read and out of it by HandleReadyData.  Read fills the buffer  *)
(* up to its capacity and grows it (module Channel), but the size() of the *)
(* string stays BUFSIZE: GetReceivedData hands out at most the Room chunks *)
(* that fit in it, and sets the count to 0.                                *)
(*                                                                         *)
(* Atomicity.  A critical section of _receiveMutex or of _mx is one        *)
(* action.  _waitToHandleFD is also touched without any mutex: find and    *)
(* emplace in NotifyDataReady, find in HandleReadyData, and the loads and  *)
(* stores of the state, which _barrier is meant to protect.  Those are     *)
(* steps of their own.                                                     *)
(***************************************************************************)
EXTENDS Naturals, FiniteSets

CONSTANTS Fds,        \* the connections
          Workers,    \* threads of the pool that run HandleEvent
          Center,     \* the thread that calls HandleReadyData in a loop
          Room,       \* chunks in BUFSIZE, the size() of _receivedBuf
          MaxChunks   \* bound on the chunks a peer sends

ASSUME CenterAssumption ==
    /\ Fds # {} /\ IsFiniteSet(Workers) /\ Center \notin Workers
    /\ Room \in Nat \ {0} /\ MaxChunks \in Nat \ {0}

VARIABLES
    sent, got, taken,  \* counters of chunks, per connection
    handed,      \* the chunks handed to the application
    beyond,      \* the chunks Read has stored behind size()
    eof,         \* the peer has closed
    edge,        \* the edge-triggered EPOLLIN not yet reported
    queued,      \* HandleEvent tasks in the pool
    active,      \* Channel::_active
    present,     \* the channel is in Dispatcher::_allChannel
    ready,       \* _waitToHandleFD; "none" is "no entry"
    barrier,     \* _barrier
    pc,          \* where each thread is
    at,          \* the connection each thread deals with
    reg,         \* the state each thread has loaded and not stored back
    todo,        \* the part of HandleReadyData's copy still to do
    overlapped,  \* two threads were between lock and unlock of _barrier
    crashed      \* the process is gone

netVars == <<sent, eof, edge>>
countVars == <<got, taken, handed, beyond>>
channelVars == <<countVars, queued, active, present>>
threadVars == <<at, reg, todo>>
vars == <<netVars, channelVars, ready, barrier, pc, threadVars, overlapped,
          crashed>>

Threads == Workers \cup {Center}
Pending == {"MORE", "MOREPLUS"}

\* Between the two exchange loops of _barrier.
Section == {"load", "store", "leave"}
Inside == {t \in Threads : pc[t] \in Section}

\* _barrier is not initialised by the constructor.
Init ==
    /\ sent = [f \in Fds |-> 0] /\ got = sent /\ taken = sent /\ queued = sent
    /\ handed = [f \in Fds |-> {}] /\ beyond = handed
    /\ eof = [f \in Fds |-> FALSE] /\ edge = eof
    /\ active = [f \in Fds |-> TRUE] /\ present = active
    /\ ready = [f \in Fds |-> "none"]
    /\ barrier \in BOOLEAN
    /\ pc = [t \in Threads |-> IF t = Center THEN "copy" ELSE "idle"]
    /\ at = [t \in Threads |-> CHOOSE f \in Fds : TRUE]
    /\ reg = [t \in Threads |-> "none"]
    /\ todo = {}
    /\ overlapped = FALSE
    /\ crashed = FALSE

Goto(t, place) == pc' = [pc EXCEPT ![t] = place]

-------------------------------------------------------------------------------
(* The peer, the kernel and the event loop.                                  *)

PeerSend(f) ==
    /\ ~eof[f]
    /\ sent[f] < MaxChunks
    /\ sent' = [sent EXCEPT ![f] = @ + 1]
    /\ edge' = [edge EXCEPT ![f] = TRUE]
    /\ UNCHANGED <<eof, channelVars, ready, barrier, pc, threadVars,
                   overlapped, crashed>>

PeerClose(f) ==
    /\ ~eof[f]
    /\ eof' = [eof EXCEPT ![f] = TRUE]
    /\ edge' = [edge EXCEPT ![f] = TRUE]
    /\ UNCHANGED <<sent, channelVars, ready, barrier, pc, threadVars,
                   overlapped, crashed>>

\* Dispatch: the event becomes a task of the pool.
Dispatch(f) ==
    /\ edge[f]
    /\ edge' = [edge EXCEPT ![f] = FALSE]
    /\ queued' = [queued EXCEPT ![f] = @ + 1]
    /\ UNCHANGED <<sent, eof, countVars, active, present, ready, barrier, pc,
                   threadVars, overlapped, crashed>>

\* The EPOLLHUP that follows Read's shutdown of both directions makes the
\* event loop take the channel out of _allChannel.
EraseChannel(f) ==
    /\ ~active[f]
    /\ present[f]
    /\ present' = [present EXCEPT ![f] = FALSE]
    /\ UNCHANGED <<netVars, countVars, queued, active, ready, barrier, pc,
                   threadVars, overlapped, crashed>>

-------------------------------------------------------------------------------
(* EventsHandler::HandleEvent and Channel::Read in a thread of the pool.     *)

HandleEvent(w, f) ==
    /\ pc[w] = "idle"
    /\ queued[f] > 0
    /\ queued' = [queued EXCEPT ![f] = @ - 1]
    /\ at' = [at EXCEPT ![w] = f]
    /\ Goto(w, IF active[f] THEN "read" ELSE "idle")
    /\ UNCHANGED <<netVars, countVars, active, present, ready, barrier, reg,
                   todo, overlapped, crashed>>

\* The loop reads until the socket is empty or read returns 0 at the end of
\* the stream, behind what the application has not taken yet.
Read(w) ==
    LET f == at[w] IN
    /\ pc[w] = "read"
    /\ got' = [got EXCEPT ![f] = sent[f]]
    /\ beyond' = [beyond EXCEPT ![f] = @ \cup (taken[f] + Room + 1 .. sent[f])]
    /\ Goto(w, IF eof[f] THEN "inactive" ELSE "find")
    /\ UNCHANGED <<netVars, taken, handed, queued, active, present, ready,
                   barrier, threadVars, overlapped, crashed>>

\* Read returned 0: shutdown of both directions, Inactive().
Inactive(w) ==
    /\ pc[w] = "inactive"
    /\ active' = [active EXCEPT ![at[w]] = FALSE]
    /\ Goto(w, "erase")
    /\ UNCHANGED <<netVars, countVars, queued, present, ready, barrier,
                   threadVars, overlapped, crashed>>

NotifyClose(w) ==
    /\ pc[w] = "erase"
    /\ ready' = [ready EXCEPT ![at[w]] = "none"]
    /\ Goto(w, "idle")
    /\ UNCHANGED <<netVars, channelVars, barrier, threadVars, overlapped,
                   crashed>>

\* NotifyDataReady: the look-up, and the emplace of a first notification.
Find(w) ==
    /\ pc[w] = "find"
    /\ Goto(w, IF ready[at[w]] = "none" THEN "emplace" ELSE "enter")
    /\ UNCHANGED <<netVars, channelVars, ready, barrier, threadVars,
                   overlapped, crashed>>

\* Seeded fault: the first notification is recorded as already handled.
EmplaceOne(w) ==
    LET f == at[w] IN
    /\ pc[w] = "emplace"
    /\ ready' = [ready EXCEPT ![f] = IF @ = "none" THEN "ONE" ELSE @]
    /\ Goto(w, "idle")
    /\ UNCHANGED <<netVars, channelVars, barrier, threadVars, overlapped,
                   crashed>>

\* Seeded fault: the early return releases the barrier it never took.
EmplaceReleases(w) ==
    LET f == at[w] IN
    /\ pc[w] = "emplace"
    /\ ready' = [ready EXCEPT ![f] = IF @ = "none" THEN "MORE" ELSE @]
    /\ barrier' = FALSE
    /\ Goto(w, "idle")
    /\ UNCHANGED <<netVars, channelVars, threadVars, overlapped, crashed>>

\* emplace does nothing when another thread was faster.
Emplace(w) ==
    LET f == at[w] IN
    /\ pc[w] = "emplace"
    /\ ready' = [ready EXCEPT ![f] = IF @ = "none" THEN "MORE" ELSE @]
    /\ Goto(w, "idle")
    /\ UNCHANGED <<netVars, channelVars, barrier, threadVars, overlapped,
                   crashed>>

-------------------------------------------------------------------------------
(* _barrier, in NotifyDataReady and in HandleReadyData.                      *)

\* while ( !_barrier.exchange(true) ): the loop ends when the old value was
\* true.
Enter(t) ==
    /\ pc[t] = "enter"
    /\ barrier' = TRUE
    /\ Goto(t, IF barrier THEN "load" ELSE "enter")
    /\ overlapped' = (overlapped \/ (barrier /\ Inside # {}))
    /\ UNCHANGED <<netVars, channelVars, ready, threadVars, crashed>>

\* Through an iterator that NotifyClose erased, or the end() that find
\* returned, the access may crash, load any state, or store nowhere.
UseErased(t) ==
    /\ pc[t] \in {"load", "store"}
    /\ ready[at[t]] = "none"
    /\ crashed' = TRUE
    /\ UNCHANGED <<netVars, channelVars, ready, barrier, pc, threadVars,
                   overlapped>>

Load(t) ==
    /\ pc[t] = "load"
    /\ \E s \in {"ONE"} \cup Pending :
         /\ ready[at[t]] \in {s, "none"}
         /\ reg' = [reg EXCEPT ![t] = s]
    /\ Goto(t, "store")
    /\ UNCHANGED <<netVars, channelVars, ready, barrier, at, todo, overlapped,
                   crashed>>

\* A notification raises the state by one, HandleReadyData lowers it by one.
Raised(s) == IF s = "ONE" THEN "MORE" ELSE "MOREPLUS"
Lowered(s) == IF s = "MOREPLUS" THEN "MORE" ELSE "ONE"

\* Seeded fault: HandleReadyData resets the state.
StoreResets(t) ==
    LET f == at[t] IN
    /\ pc[t] = "store"
    /\ ready' = [ready EXCEPT ![f] = IF t = Center THEN "ONE" ELSE Raised(reg[t])]
    /\ reg' = [reg EXCEPT ![t] = "none"]
    /\ Goto(t, "leave")
    /\ UNCHANGED <<netVars, channelVars, barrier, at, todo, overlapped,
                   crashed>>

Store(t) ==
    LET f == at[t] IN
    /\ pc[t] = "store"
    /\ ready' = [ready EXCEPT ![f] = CASE @ = "none" -> "none"
                                       [] t = Center -> Lowered(reg[t])
                                       [] OTHER -> Raised(reg[t])]
    /\ reg' = [reg EXCEPT ![t] = "none"]
    /\ Goto(t, "leave")
    /\ UNCHANGED <<netVars, channelVars, barrier, at, todo, overlapped,
                   crashed>>

\* while ( !_barrier.exchange(false) ): again until the old value was true.
Leave(t) ==
    /\ pc[t] = "leave"
    /\ barrier' = FALSE
    /\ Goto(t, CASE ~barrier -> "leave"
                 [] barrier /\ t = Center -> "pick"
                 [] OTHER -> "idle")
    /\ UNCHANGED <<netVars, channelVars, ready, threadVars, overlapped,
                   crashed>>

-------------------------------------------------------------------------------
(* HandleReadyData, called again and again by one thread.                    *)

Copy ==
    /\ pc[Center] = "copy"
    /\ todo' = {f \in Fds : ready[f] \in Pending}
    /\ Goto(Center, "pick")
    /\ UNCHANGED <<netVars, channelVars, ready, barrier, at, reg, overlapped,
                   crashed>>

CopyDone ==
    /\ pc[Center] = "pick"
    /\ todo = {}
    /\ Goto(Center, "copy")
    /\ UNCHANGED <<netVars, channelVars, ready, barrier, threadVars,
                   overlapped, crashed>>

\* GetChannel found nothing.
SkipGone(f) ==
    /\ pc[Center] = "pick"
    /\ f \in todo
    /\ ~present[f]
    /\ todo' = todo \ {f}
    /\ UNCHANGED <<netVars, channelVars, ready, barrier, pc, at, reg,
                   overlapped, crashed>>

\* Seeded fault: the whole string is handed out, not cut at _receivedCount.
TakeDataUncut(f) ==
    /\ pc[Center] = "pick"
    /\ f \in todo
    /\ present[f]
    /\ taken' = [taken EXCEPT ![f] = IF active[f] THEN got[f] ELSE @]
    /\ handed' = [handed EXCEPT ![f] =
                    IF active[f] THEN @ \cup (taken[f] + 1 .. taken[f] + Room) ELSE @]
    /\ todo' = todo \ {f}
    /\ at' = [at EXCEPT ![Center] = f]
    /\ Goto(Center, "enter")
    /\ UNCHANGED <<netVars, got, beyond, queued, active, present, ready, barrier,
                   reg, overlapped, crashed>>

\* substr(0, _receivedCount) of a string of Room chunks.
Substr(f) == {n \in taken[f] + 1 .. got[f] : n <= taken[f] + Room}

\* GetReceivedData and EnqueueTask; an inactive channel gives nothing.
TakeData(f) ==
    /\ pc[Center] = "pick"
    /\ f \in todo
    /\ present[f]
    /\ taken' = [taken EXCEPT ![f] = IF active[f] THEN got[f] ELSE @]
    /\ handed' = [handed EXCEPT ![f] = IF active[f] THEN @ \cup Substr(f) ELSE @]
    /\ todo' = todo \ {f}
    /\ at' = [at EXCEPT ![Center] = f]
    /\ Goto(Center, "enter")
    /\ UNCHANGED <<netVars, got, beyond, queued, active, present, ready, barrier,
                   reg, overlapped, crashed>>

-------------------------------------------------------------------------------
\* Two threads in _waitToHandleFD at once, one of them inserting or erasing
\* and not both under _mx: anything can happen.
MapRace ==
    /\ \E w \in Workers : \E t \in Threads \ {w} :
         \/ /\ pc[w] = "emplace"
            /\ \/ pc[t] \in {"find", "emplace", "erase"}
               \/ t = Center /\ pc[t] \in {"copy", "load"}
         \/ /\ pc[w] = "erase"
            /\ pc[t] = "find" \/ (t = Center /\ pc[t] = "load")
    /\ crashed' = TRUE
    /\ UNCHANGED <<netVars, channelVars, ready, barrier, pc, threadVars,
                   overlapped>>

Barrier(t) == Enter(t) \/ UseErased(t) \/ Load(t) \/ Store(t) \/ Leave(t)

WorkerStep(w) ==
    \/ \E f \in Fds : HandleEvent(w, f)
    \/ Read(w) \/ Inactive(w) \/ NotifyClose(w) \/ Find(w) \/ Emplace(w)
    \/ Barrier(w)

CenterStep ==
    \/ Copy \/ CopyDone
    \/ \E f \in Fds : SkipGone(f) \/ TakeData(f)
    \/ Barrier(Center)

LoopStep == \E f \in Fds : Dispatch(f) \/ EraseChannel(f)

Next ==
    \/ /\ ~crashed
       /\ \/ \E f \in Fds : PeerSend(f) \/ PeerClose(f)
          \/ LoopStep
          \/ \E w \in Workers : WorkerStep(w)
          \/ CenterStep
          \/ MapRace
    \/ crashed /\ UNCHANGED vars

Spec == Init /\ [][Next]_vars

\* Every thread is scheduled, the application keeps calling HandleReadyData
\* (ReactorExample.cpp does), and the event loop polls.
Fairness ==
    /\ WF_vars(~crashed /\ LoopStep)
    /\ \A w \in Workers : WF_vars(~crashed /\ WorkerStep(w))
    /\ WF_vars(~crashed /\ CenterStep)

FairSpec == Spec /\ Fairness

-------------------------------------------------------------------------------
(* Properties.                                                               *)

Places == {"idle", "read", "inactive", "erase", "find", "emplace", "enter",
           "load", "store", "leave", "copy", "pick"}
States == {"none", "ONE", "MORE", "MOREPLUS"}

\* The values each variable takes; chunks are never taken before they are
\* read, nor read before they are sent, and a thread about to store has
\* loaded a state.  Of what was taken the application has all but what Read
\* had stored behind size() of the string, and it has nothing else.
TypeOK ==
    /\ sent \in [Fds -> 0 .. MaxChunks]
    /\ got \in [Fds -> 0 .. MaxChunks]
    /\ taken \in [Fds -> 0 .. MaxChunks]
    /\ \A f \in Fds : taken[f] <= got[f] /\ got[f] <= sent[f]
    /\ handed \in [Fds -> SUBSET (1 .. MaxChunks)]
    /\ beyond \in [Fds -> SUBSET (1 .. MaxChunks)]
    /\ \A f \in Fds :
         /\ handed[f] = (1 .. taken[f]) \ beyond[f]
         /\ beyond[f] \ (1 .. taken[f]) = taken[f] + Room + 1 .. got[f]
    /\ eof \in [Fds -> BOOLEAN]
    /\ edge \in [Fds -> BOOLEAN]
    /\ queued \in [Fds -> Nat]
    /\ active \in [Fds -> BOOLEAN]
    /\ present \in [Fds -> BOOLEAN]
    /\ ready \in [Fds -> States]
    /\ barrier \in BOOLEAN
    /\ pc \in [Threads -> Places]
    /\ at \in [Threads -> Fds]
    /\ reg \in [Threads -> States]
    /\ \A t \in Threads : pc[t] = "store" => reg[t] # "none"
    /\ todo \in SUBSET Fds
    /\ overlapped \in BOOLEAN
    /\ crashed \in BOOLEAN

\* Some thread has read from f and has not notified yet.
Notifying(f) ==
    \E w \in Workers :
        at[w] = f /\ pc[w] \in {"inactive", "erase", "find", "emplace",
                                "enter", "load", "store"}

\* The three states are enough of a counter: data that waits in a live
\* channel is either about to be notified or seen by the next call of
\* HandleReadyData, however reads, notifications and HandleReadyData's steps
\* interleave, as long as no two threads were inside _barrier together.
ReadyIsSeen ==
    \A f \in Fds :
        taken[f] < got[f] /\ active[f] /\ ~Notifying(f) /\ ~overlapped =>
            ready[f] \in Pending

\* A thread finds _barrier lowered when it wants to lower it, and so spins,
\* only after two threads were inside together.
SpinsOnlyAfterOverlap ==
    \A t \in Threads : pc[t] = "leave" /\ ~barrier => overlapped

\* Every chunk the peer has sent is handed to the application, unless Read had
\* to store it behind the BUFSIZE bytes GetReceivedData hands out (Channel.h:
\* 160 drops those unnoticed), the peer closes (Read drops what it read when
\* it also sees the end of the stream), two threads met inside _barrier, or
\* the process crashed.
DataIsTaken ==
    \A f \in Fds, n \in 1 .. MaxChunks :
        sent[f] >= n ~>
            n \in handed[f] \/ n \in beyond[f] \/ eof[f] \/ overlapped \/ crashed

\* NotificationCenter.h:110 says of the barrier "lock-free, avoiding
\* compietition": no two threads are between its loops at the same time.
BarrierExcludes == Cardinality(Inside) <= 1

===============================================================================
