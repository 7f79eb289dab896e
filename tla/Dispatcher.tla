------------------------------ MODULE Dispatcher ------------------------------
(***************************************************************************)
(* server::reactor::Dispatcher with one event loop, as                     *)
(* example/ReactorExample.cpp runs it, with AcceptHandler and Demultiplexer*)
(* (include/server/reactor/*.h): the life of connections from accept() to  *)
(* close(), the two maps _handlers and _allChannel, and the descriptor     *)
(* numbers, which the kernel hands out again as soon as they are free.     *)
(*                                                                         *)
(* Threads: the loop runs Dispatch; workers of the pool run HandleEvent on *)
(* the channel a task carries; the application extracts and restores the   *)
(* channels and removes handlers.                                          *)
(*                                                                         *)
(* Atomicity.  Only what another thread can see in between is split.       *)
(* _allChannel is used under _globalMx, _handlers by the loop alone but    *)
(* for RemoveHandler.  Epoll entries of connections are edge-triggered and *)
(* live as long as the open file; what a channel does with its data is the *)
(* matter of Channel.                                                      *)
(***************************************************************************)
EXTENDS Naturals, FiniteSets, SequencesExt

CONSTANTS Conns,     \* connections clients make, each once
          Workers,   \* threads of the pool that run HandleEvent
          None,      \* no connection, no entry
          MaxSends,  \* bound on the messages of one client
          MaxExtract \* bound on the calls of ExtractExistedChannel

ASSUME DispatcherAssumption ==
    /\ IsFiniteSet(Conns) /\ None \notin Conns
    /\ MaxSends \in Nat /\ MaxExtract \in Nat

\* As many numbers as connections: accept() never runs out of descriptors.
Fds == 1 .. Cardinality(Conns)

VARIABLES
    backlog,      \* connections completed and not accepted, in order
    listenEdge,   \* EPOLLIN of the listening socket, not yet reported
    state,        \* of each connection: "new", "backlog", "open", "closed"
    owner,        \* the kernel's table: whose socket each descriptor is
    fdOf,         \* Channel::_fd
    watched,      \* the socket is in the epoll set
    edge,         \* its entry is on the ready list
    sends,        \* messages sent so far
    unread, fin, hup, \* the socket: data, the peer's FIN, both ways shut
    reset,        \* the peer's RST has not been reported by read() yet
    handlers,     \* _handlers: whose EventsHandler a descriptor has
    allChannel,   \* _allChannel: whose Channel
    waitRemoved,  \* _waitToRemovedChannel
    held,         \* the map ExtractExistedChannel returned
    holding,      \* and RestoreAllChannel has not taken back
    extracts,     \* calls of ExtractExistedChannel so far
    active,       \* Channel::_active
    tasks,        \* HandleEvent tasks in the pool, by channel and event
    pc, at,       \* where each worker is, and on which channel
    loop, cur,    \* where the loop is, and with which connection
    removed,      \* RemoveHandler was called on it
    spared,       \* it was closed while its channel was extracted
    dropped,      \* an event of it found no handler
    overtaken,    \* it waited when accept() took another one, or failed
    crashed

listenVars == <<backlog, listenEdge>>
kernelVars == <<owner, watched, edge, sends, unread, fin, hup, reset>>
mapVars == <<handlers, allChannel, waitRemoved>>
heldVars == <<held, holding, extracts>>
poolVars == <<tasks, pc, at>>
noteVars == <<removed, spared, dropped, overtaken>>
vars == <<listenVars, state, fdOf, kernelVars, mapVars, heldVars, active,
          poolVars, loop, cur, noteVars, crashed>>

Empty == [f \in Fds |-> None]
Kinds == {"in", "hup"}
NoFd == 0

Init ==
    /\ backlog = <<>> /\ listenEdge = FALSE
    /\ state = [c \in Conns |-> "new"]
    /\ owner = Empty
    /\ fdOf = [c \in Conns |-> NoFd]
    /\ watched = [c \in Conns |-> FALSE]
    /\ edge = watched /\ unread = watched /\ fin = watched /\ hup = watched
    /\ sends = [c \in Conns |-> 0] /\ reset = {}
    /\ handlers = Empty /\ allChannel = Empty /\ waitRemoved = {}
    /\ held = Empty /\ holding = FALSE /\ extracts = 0
    /\ active = watched
    /\ tasks = [c \in Conns |-> [k \in Kinds |-> 0]]
    /\ pc = [w \in Workers |-> "idle"]
    /\ at = [w \in Workers |-> None]
    /\ loop = "wait" /\ cur = None
    /\ removed = {} /\ spared = {} /\ dropped = {} /\ overtaken = {}
    /\ crashed = FALSE

-------------------------------------------------------------------------------
(* Clients and the kernel.                                                   *)

Connect(c) ==
    /\ state[c] = "new"
    /\ state' = [state EXCEPT ![c] = "backlog"]
    /\ backlog' = Append(backlog, c)
    /\ listenEdge' = TRUE
    /\ UNCHANGED <<fdOf, kernelVars, mapVars, heldVars, active, poolVars, loop,
                   cur, noteVars, crashed>>

Reachable(c) == state[c] \in {"backlog", "open"} /\ ~fin[c]

ClientSend(c) ==
    /\ Reachable(c)
    /\ sends[c] < MaxSends
    /\ sends' = [sends EXCEPT ![c] = @ + 1]
    /\ unread' = [unread EXCEPT ![c] = TRUE]
    /\ edge' = [edge EXCEPT ![c] = watched[c]]
    /\ UNCHANGED <<listenVars, state, fdOf, owner, watched, fin, hup, reset,
                   mapVars, heldVars, active, poolVars, loop, cur, noteVars,
                   crashed>>

ClientClose(c) ==
    /\ Reachable(c)
    /\ fin' = [fin EXCEPT ![c] = TRUE]
    /\ edge' = [edge EXCEPT ![c] = watched[c]]
    /\ UNCHANGED <<listenVars, state, fdOf, owner, watched, sends, unread, hup,
                   reset, mapVars, heldVars, active, poolVars, loop, cur,
                   noteVars, crashed>>

\* A RST: EPOLLERR and EPOLLHUP at once.  read() hands out what is there,
\* then fails once, then is at the end of the stream.  A client resets
\* instead of closing, not after it.
ClientReset(c) ==
    /\ Reachable(c)
    /\ fin' = [fin EXCEPT ![c] = TRUE]
    /\ hup' = [hup EXCEPT ![c] = TRUE]
    /\ reset' = reset \cup {c}
    /\ edge' = [edge EXCEPT ![c] = watched[c]]
    /\ UNCHANGED <<listenVars, state, fdOf, owner, watched, sends, unread,
                   mapVars, heldVars, active, poolVars, loop, cur, noteVars,
                   crashed>>

-------------------------------------------------------------------------------
(* The loop: a new connection.                                               *)

LowestFree == CHOOSE f \in Fds :
    owner[f] = None /\ \A g \in Fds : g < f => owner[g] # None

\* AcceptHandler::HandleEvent: one accept() for an event, whatever waits.
\* The failing one takes the edge too; its Channel(-1) is never active and
\* RegisterHandler refuses it, so it is left out.
AcceptFails ==
    /\ loop = "wait"
    /\ listenEdge
    /\ listenEdge' = FALSE
    /\ overtaken' = overtaken \cup ToSet(backlog)
    /\ UNCHANGED <<backlog, state, fdOf, kernelVars, mapVars, heldVars, active,
                   poolVars, loop, cur, removed, spared, dropped, crashed>>

Accept ==
    LET c == Head(backlog) IN
    /\ loop = "wait"
    /\ listenEdge
    /\ listenEdge' = FALSE
    /\ backlog' = Tail(backlog)
    /\ state' = [state EXCEPT ![c] = "open"]
    /\ owner' = [owner EXCEPT ![LowestFree] = c]
    /\ fdOf' = [fdOf EXCEPT ![c] = LowestFree]
    /\ active' = [active EXCEPT ![c] = TRUE]
    /\ cur' = c
    /\ loop' = "emplace"
    /\ overtaken' = overtaken \cup ToSet(Tail(backlog))
    /\ UNCHANGED <<watched, edge, sends, unread, fin, hup, reset, mapVars,
                   heldVars, poolVars, removed, spared, dropped, crashed>>

\* HandleNewConnection; emplace leaves an entry that is there.
EmplaceChannel ==
    /\ loop = "emplace"
    /\ allChannel' = [allChannel EXCEPT
                        ![fdOf[cur]] = IF @ = None THEN cur ELSE @]
    /\ loop' = "register"
    /\ UNCHANGED <<listenVars, state, fdOf, kernelVars, handlers, waitRemoved,
                   heldVars, active, poolVars, cur, noteVars, crashed>>

\* Seeded fault: the listening socket is armed anew when the connection is
\* registered, and the edge of the next one is lost.
RegisterHandlerRearms ==
    LET f == fdOf[cur] IN
    /\ loop = "register"
    /\ listenEdge' = FALSE
    /\ watched' = [watched EXCEPT ![cur] = TRUE]
    /\ edge' = [edge EXCEPT ![cur] = unread[cur] \/ fin[cur] \/ hup[cur]]
    /\ handlers' = [handlers EXCEPT ![f] = IF @ = None THEN cur ELSE @]
    /\ loop' = "wait"
    /\ cur' = None
    /\ UNCHANGED <<backlog, state, fdOf, owner, sends, unread, fin, hup, reset,
                   allChannel, waitRemoved, heldVars, active, poolVars,
                   noteVars, crashed>>

\* RegisterFd: from now on the socket has edges, but only the loop, which is
\* here, would look at them before try_emplace.
RegisterHandler ==
    LET f == fdOf[cur] IN
    /\ loop = "register"
    /\ watched' = [watched EXCEPT ![cur] = TRUE]
    /\ edge' = [edge EXCEPT ![cur] = unread[cur] \/ fin[cur] \/ hup[cur]]
    /\ handlers' = [handlers EXCEPT ![f] = IF @ = None THEN cur ELSE @]
    /\ loop' = "wait"
    /\ cur' = None
    /\ UNCHANGED <<listenVars, state, fdOf, owner, sends, unread, fin, hup,
                   reset, allChannel, waitRemoved, heldVars, active, poolVars,
                   noteVars, crashed>>

-------------------------------------------------------------------------------
(* The loop: an event of a connection, and HandleUnexpected.                 *)

DropEvent(c) ==
    /\ loop = "wait"
    /\ edge[c]
    /\ handlers[fdOf[c]] = None
    /\ edge' = [edge EXCEPT ![c] = FALSE]
    /\ dropped' = dropped \cup {c}
    /\ UNCHANGED <<listenVars, state, fdOf, owner, watched, sends, unread, fin,
                   hup, reset, mapVars, heldVars, active, poolVars, loop, cur,
                   removed, spared, overtaken, crashed>>

\* The task carries the handler, and with it the channel, of the number.
DispatchEvent(c) ==
    LET h == handlers[fdOf[c]] IN
    /\ loop = "wait"
    /\ edge[c]
    /\ h # None
    /\ edge' = [edge EXCEPT ![c] = FALSE]
    /\ tasks' = [tasks EXCEPT ![h][IF hup[c] THEN "hup" ELSE "in"] = @ + 1]
    /\ loop' = IF hup[c] THEN "close" ELSE "wait"
    /\ cur' = IF hup[c] THEN c ELSE None
    /\ UNCHANGED <<listenVars, state, fdOf, owner, watched, sends, unread, fin,
                   hup, reset, mapVars, heldVars, active, pc, at, noteVars,
                   crashed>>

\* Seeded fault: the handler is not erased with the descriptor.
CloseFdKeepsHandler ==
    LET f == fdOf[cur] IN
    /\ loop = "close"
    /\ owner' = [owner EXCEPT ![f] = None]
    /\ watched' = [watched EXCEPT ![cur] = FALSE]
    /\ edge' = [edge EXCEPT ![cur] = FALSE]
    /\ state' = [state EXCEPT ![cur] = "closed"]
    /\ loop' = "unlink"
    /\ UNCHANGED <<listenVars, fdOf, sends, unread, fin, hup, reset, handlers,
                   allChannel, waitRemoved, heldVars, active, poolVars, cur,
                   noteVars, crashed>>

\* Seeded fault: the socket is forgotten, not closed.
CloseFdLeaks ==
    LET f == fdOf[cur] IN
    /\ loop = "close"
    /\ handlers' = [handlers EXCEPT ![f] = None]
    /\ watched' = [watched EXCEPT ![cur] = FALSE]
    /\ edge' = [edge EXCEPT ![cur] = FALSE]
    /\ state' = [state EXCEPT ![cur] = "closed"]
    /\ loop' = "unlink"
    /\ UNCHANGED <<listenVars, fdOf, owner, sends, unread, fin, hup, reset,
                   allChannel, waitRemoved, heldVars, active, poolVars, cur,
                   noteVars, crashed>>

\* Erases the handler, removes the descriptor from the epoll set, closes it.
CloseFd ==
    LET f == fdOf[cur] IN
    /\ loop = "close"
    /\ handlers' = [handlers EXCEPT ![f] = None]
    /\ owner' = [owner EXCEPT ![f] = None]
    /\ watched' = [watched EXCEPT ![cur] = FALSE]
    /\ edge' = [edge EXCEPT ![cur] = FALSE]
    /\ state' = [state EXCEPT ![cur] = "closed"]
    /\ loop' = "unlink"
    /\ UNCHANGED <<listenVars, fdOf, sends, unread, fin, hup, reset, allChannel,
                   waitRemoved, heldVars, active, poolVars, cur, noteVars,
                   crashed>>

\* Under _globalMx, after close(): whatever channel the number has is marked
\* inactive and erased.
Unlink ==
    LET f == fdOf[cur] c == allChannel[f] IN
    /\ loop = "unlink"
    /\ c # None
    /\ active' = [active EXCEPT ![c] = FALSE]
    /\ allChannel' = [allChannel EXCEPT ![f] = None]
    /\ loop' = "wait"
    /\ cur' = None
    /\ UNCHANGED <<listenVars, state, fdOf, kernelVars, handlers, waitRemoved,
                   heldVars, poolVars, noteVars, crashed>>

\* The channels are extracted: the number is noted, the channel stays active.
NoteRemoved ==
    /\ loop = "unlink"
    /\ allChannel[fdOf[cur]] = None
    /\ waitRemoved' = waitRemoved \cup {fdOf[cur]}
    /\ spared' = spared \cup {cur}
    /\ loop' = "wait"
    /\ cur' = None
    /\ UNCHANGED <<listenVars, state, fdOf, kernelVars, handlers, allChannel,
                   heldVars, active, poolVars, removed, dropped, overtaken,
                   crashed>>

-------------------------------------------------------------------------------
(* HandleEvent in a thread of the pool: _active is tested, then the number   *)
(* is used, whoever has it by then.                                          *)

HandleEvent(w, c, k) ==
    /\ pc[w] = "idle"
    /\ tasks[c][k] > 0
    /\ tasks' = [tasks EXCEPT ![c][k] = @ - 1]
    /\ IF active[c]
       THEN /\ at' = [at EXCEPT ![w] = c]
            /\ pc' = [pc EXCEPT ![w] = IF k = "in" THEN "read" ELSE "hangUp"]
       ELSE UNCHANGED <<pc, at>>
    /\ UNCHANGED <<listenVars, state, fdOf, kernelVars, mapVars, heldVars,
                   active, loop, cur, noteVars, crashed>>

Return(w) ==
    /\ pc' = [pc EXCEPT ![w] = "idle"]
    /\ at' = [at EXCEPT ![w] = None]

\* Whose socket the number of w's channel is now.
Target(w) == owner[fdOf[at[w]]]

\* Channel::Read; on a number that is free read() fails, and the first time
\* on a connection that was reset.  At the end of the
\* stream _active is tested again before the socket is shut.
Read(w) ==
    LET d == Target(w) IN
    /\ pc[w] = "read"
    /\ unread' = [c \in Conns |-> unread[c] /\ c # d]
    /\ reset' = reset \ {d}
    /\ IF d # None /\ fin[d] /\ d \notin reset
       THEN /\ pc' = [pc EXCEPT ![w] = IF active[at[w]] THEN "end" ELSE "inactive"]
            /\ UNCHANGED at
       ELSE Return(w)
    /\ UNCHANGED <<listenVars, state, fdOf, owner, watched, edge, sends, fin,
                   hup, mapVars, heldVars, active, tasks, loop, cur, noteVars,
                   crashed>>

\* ::shutdown of both directions, after the test of _active; the two calls are
\* taken as one.
Disable(w) ==
    /\ hup' = [c \in Conns |-> hup[c] \/ c = Target(w)]
    /\ edge' = [c \in Conns |-> edge[c] \/ (c = Target(w) /\ watched[c])]

\* DisableReceive and DisableSend at the end of the stream.
End(w) ==
    /\ pc[w] = "end"
    /\ Disable(w)
    /\ pc' = [pc EXCEPT ![w] = "inactive"]
    /\ UNCHANGED <<listenVars, state, fdOf, owner, watched, sends, unread, fin,
                   reset, mapVars, heldVars, active, tasks, at, loop, cur,
                   noteVars, crashed>>

Inactive(w) ==
    /\ pc[w] = "inactive"
    /\ active' = [active EXCEPT ![at[w]] = FALSE]
    /\ Return(w)
    /\ UNCHANGED <<listenVars, state, fdOf, kernelVars, mapVars, heldVars,
                   tasks, loop, cur, noteVars, crashed>>

\* The branch of EPOLLHUP; making the channel inactive is left to the loop.
HangUp(w) ==
    /\ pc[w] = "hangUp"
    /\ Disable(w)
    /\ Return(w)
    /\ UNCHANGED <<listenVars, state, fdOf, owner, watched, sends, unread, fin,
                   reset, mapVars, heldVars, active, tasks, loop, cur,
                   noteVars, crashed>>

-------------------------------------------------------------------------------
(* The application.                                                          *)

ExtractExistedChannel ==
    /\ ~holding
    /\ extracts < MaxExtract
    /\ extracts' = extracts + 1
    /\ held' = allChannel
    /\ allChannel' = Empty
    /\ holding' = TRUE
    /\ UNCHANGED <<listenVars, state, fdOf, kernelVars, handlers, waitRemoved,
                   active, poolVars, loop, cur, noteVars, crashed>>

\* Seeded fault: what was handed back replaces what came in the meantime.
RestoreOverwrites ==
    LET kept == [f \in Fds |-> IF f \in waitRemoved THEN None ELSE held[f]] IN
    /\ holding
    /\ waitRemoved' = {}
    /\ allChannel' = kept
    /\ held' = Empty
    /\ holding' = FALSE
    /\ UNCHANGED <<listenVars, state, fdOf, kernelVars, handlers, extracts,
                   active, poolVars, loop, cur, noteVars, crashed>>

\* insert keeps what is there already.
RestoreAllChannel ==
    LET kept == [f \in Fds |-> IF f \in waitRemoved THEN None ELSE held[f]] IN
    /\ holding
    /\ waitRemoved' = {}
    /\ allChannel' = [f \in Fds |-> IF allChannel[f] = None THEN kept[f]
                                    ELSE allChannel[f]]
    /\ held' = Empty
    /\ holding' = FALSE
    /\ UNCHANGED <<listenVars, state, fdOf, kernelVars, handlers, extracts,
                   active, poolVars, loop, cur, noteVars, crashed>>

\* Erases the channel and then uses the erased iterator, and _handlers while
\* the loop may search it: it may crash or mark the channel inactive.  The
\* descriptor stays open and in the epoll set.
RemoveHandler(c) ==
    LET f == fdOf[c] h == allChannel[f] IN
    /\ state[c] = "open"
    /\ handlers[f] = c
    /\ handlers' = [handlers EXCEPT ![f] = None]
    /\ allChannel' = [allChannel EXCEPT ![f] = None]
    /\ active' = [d \in Conns |-> active[d] /\ d # h]
    /\ crashed' \in BOOLEAN
    /\ removed' = removed \cup {c}
    /\ UNCHANGED <<listenVars, state, fdOf, kernelVars, waitRemoved, heldVars,
                   poolVars, loop, cur, spared, dropped, overtaken>>

-------------------------------------------------------------------------------
LoopStep ==
    \/ Accept \/ AcceptFails \/ EmplaceChannel \/ RegisterHandler
    \/ \E c \in Conns : DropEvent(c) \/ DispatchEvent(c)
    \/ CloseFd \/ Unlink \/ NoteRemoved

WorkerStep(w) ==
    \/ \E c \in Conns, k \in Kinds : HandleEvent(w, c, k)
    \/ Read(w) \/ End(w) \/ Inactive(w) \/ HangUp(w)

\* Everything that could still happen waits for a client that is gone.
Quiet ==
    /\ \A c \in Conns : ~Reachable(c) /\ state[c] # "new" /\ ~edge[c]
    /\ ~listenEdge /\ loop = "wait" /\ ~holding /\ extracts = MaxExtract
    /\ \A w \in Workers : pc[w] = "idle"
    /\ \A c \in Conns, k \in Kinds : tasks[c][k] = 0

Next ==
    \/ /\ ~crashed
       /\ \/ \E c \in Conns : Connect(c) \/ ClientSend(c) \/ ClientClose(c)
                                \/ ClientReset(c)
          \/ LoopStep
          \/ \E w \in Workers : WorkerStep(w)
          \/ ExtractExistedChannel \/ RestoreAllChannel
          \/ \E c \in Conns : RemoveHandler(c)
    \/ (crashed \/ Quiet) /\ UNCHANGED vars

Spec == Init /\ [][Next]_vars

-------------------------------------------------------------------------------
(* Properties.                                                               *)

Entries == Conns \cup {None}

\* The values each variable takes; a descriptor belongs to the open
\* connection that was given its number, and to no other.
TypeOK ==
    /\ backlog \in Seq(Conns) /\ listenEdge \in BOOLEAN
    /\ state \in [Conns -> {"new", "backlog", "open", "closed"}]
    /\ owner \in [Fds -> Entries]
    /\ fdOf \in [Conns -> Fds \cup {NoFd}]
    /\ \A c \in Conns, f \in Fds :
         owner[f] = c <=> state[c] = "open" /\ fdOf[c] = f
    /\ watched \in [Conns -> BOOLEAN] /\ edge \in [Conns -> BOOLEAN]
    /\ \A c \in Conns : edge[c] => watched[c] /\ state[c] = "open"
    /\ sends \in [Conns -> 0 .. MaxSends]
    /\ unread \in [Conns -> BOOLEAN]
    /\ reset \subseteq Conns
    /\ fin \in [Conns -> BOOLEAN] /\ hup \in [Conns -> BOOLEAN]
    /\ handlers \in [Fds -> Entries] /\ allChannel \in [Fds -> Entries]
    /\ waitRemoved \subseteq Fds
    /\ held \in [Fds -> Entries] /\ holding \in BOOLEAN
    /\ extracts \in 0 .. MaxExtract
    /\ active \in [Conns -> BOOLEAN]
    /\ tasks \in [Conns -> [Kinds -> Nat]]
    /\ pc \in [Workers -> {"idle", "read", "end", "inactive", "hangUp"}]
    /\ at \in [Workers -> Entries]
    /\ loop \in {"wait", "emplace", "register", "close", "unlink"}
    /\ cur \in Entries /\ (cur = None <=> loop = "wait")
    /\ removed \subseteq Conns /\ spared \subseteq Conns
    /\ dropped \subseteq Conns /\ overtaken \subseteq Conns
    /\ crashed \in BOOLEAN

\* The registry of handlers follows the kernel's table of descriptors: a
\* socket in the epoll set has its own handler under its number, whoever had
\* the number before, so only what RemoveHandler took out has events dropped.
HandlerIsOwn ==
    /\ \A c \in Conns : watched[c] /\ c \notin removed => handlers[fdOf[c]] = c
    /\ dropped \subseteq removed

\* The channel of an open connection is found in _allChannel, or in the map
\* the application has extracted, however closing, reuse of the number,
\* extracting and restoring fall together.
ChannelIsFound ==
    \A c \in Conns :
        state[c] = "open" /\ removed = {} /\ ~(cur = c /\ loop = "emplace") =>
            \/ allChannel[fdOf[c]] = c
            \/ holding /\ held[fdOf[c]] = c

\* Once a number belongs to a new connection, the channel that had it before
\* is inactive, so that no task begins to use the number for the old one:
\* closing, marking and accepting are done by one thread in this order.
\* A connection closed while its channel was extracted is not marked.
InactiveBeforeReuse ==
    \A c, d \in Conns :
        /\ state[c] = "closed" /\ state[d] = "open" /\ fdOf[c] = fdOf[d]
        /\ c \notin spared /\ removed = {}
        => ~active[c]

\* The channels follow the kernel's table: that of an open connection is
\* found, that of a closed one is inactive before its number is used again.
ChannelsFollowTable == ChannelIsFound /\ InactiveBeforeReuse

\* A connection that waits to be accepted has an event that will say so,
\* unless accept() took another one for that event, or failed: it then waits
\* until somebody else connects.
NobodyWaitsUnseen ==
    \A i \in DOMAIN backlog : listenEdge \/ backlog[i] \in overtaken

\* doc/Reactor.md:14 says the dispatcher "invokes the appropriate handler when
\* an event is raised": a thread in HandleEvent works on the socket of its own
\* channel.  One that has tested _active before the loop closes the number
\* uses it afterwards, when it may belong to the next connection.
OwnSocket ==
    removed = {} /\ spared = {} =>
        \A w \in Workers :
            pc[w] \in {"read", "end", "hangUp"} => Target(w) \in {at[w], None}

===============================================================================
