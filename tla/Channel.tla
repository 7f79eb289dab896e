-------------------------------- MODULE Channel --------------------------------
(***************************************************************************)
(* server::reactor::Channel and EventsHandler                              *)
(* (include/server/reactor/Channel.h, EventsHandler.h): one connection,    *)
(* its two buffers, its descriptor in the epoll set of Demultiplexer.h and *)
(* the events that Dispatcher.h hands to the thread pool.                  *)
(*                                                                         *)
(* Bytes come in units; BufSize units make BUFSIZE.  What arrives is only  *)
(* counted: the property of it that matters here is the room left in       *)
(* _receivedBuf.  What is sent is numbered in the order of appending.      *)
(*                                                                         *)
(* Atomicity.  A critical section of _sendMutex makes at most one system   *)
(* call and is one action.  The loop of Read holds _receiveMutex across    *)
(* many, which the peer may interleave: reading names the holder.  _active *)
(* is read and written without a lock; it only ever goes from TRUE to      *)
(* FALSE, so of several tests in a row only the last is modelled.          *)
(*                                                                         *)
(* HandleNewConnection gives every channel the Demultiplexer of the master *)
(* (Dispatcher.h:233), also when it registers the descriptor in the epoll  *)
(* set of a slave (243-244): ownSet tells the two cases apart.             *)
(*                                                                         *)
(* Not here: the reuse of the descriptor number after close, which is the  *)
(* matter of Dispatcher.                                                   *)
(***************************************************************************)
EXTENDS Naturals, SequencesExt

CONSTANTS Workers,   \* threads of the pool that run HandleEvent
          Senders,   \* threads that call NotifyWriteEvent
          None,      \* nobody
          BufSize,   \* BUFSIZE
          SockBuf,   \* what the socket takes before write() fails with EAGAIN
          MaxIn,     \* bound on the units the peer sends
          MaxOut     \* bound on the units the application sends

ASSUME ChannelAssumption ==
    /\ Workers \cap Senders = {} /\ None \notin Workers
    /\ BufSize \in Nat \ {0, 1}
    /\ SockBuf \in Nat \ {0}
    /\ MaxIn \in Nat /\ MaxOut \in Nat

VARIABLES
    inq,         \* units in the socket not yet read
    arrived,     \* units the peer has sent so far
    peerClosed,  \* the peer's FIN or RST is here
    rst,         \* "none", "pending" or, when read() or write() has failed
                 \* because of the RST, "told"
    outq,        \* units in the socket the peer has not taken
    nospace,     \* the kernel owes a wakeup when the socket has room again
    shut,        \* directions closed with shutdown()
    open,        \* the descriptor is open and in the epoll set
    armOut,      \* EPOLLOUT is in its events
    rdy,         \* the entry is on the ready list of epoll
    tasks,       \* events handed to the pool, by kind
    active,      \* Channel::_active
    count, cap,  \* _receivedCount and _receivedBuf.capacity()
    reading,     \* who holds _receiveMutex, or None
    ownSet,      \* the descriptor is in the epoll set of _demultiplexer
    sendingBuf,  \* Channel::_sendingBuf
    appended,    \* units NotifyWriteEvent was given so far
    wire,        \* what write() took, in order
    passedOver,  \* an event with EPOLLIN and EPOLLOUT was only read since the
                 \* last time EPOLLOUT was armed
    pc,          \* where each thread is
    loop,        \* where the event loop is
    crashed      \* SIGPIPE

inVars == <<inq, arrived, peerClosed, rst>>
outVars == <<outq, nospace, wire>>
epollVars == <<open, armOut, rdy>>
recvVars == <<count, cap, reading>>
sendVars == <<sendingBuf, appended, ownSet>>
vars == <<inVars, outVars, shut, epollVars, tasks, active, recvVars, sendVars,
          passedOver, pc, loop, crashed>>

Threads == Workers \cup Senders
Kinds == {"hup", "in", "out", "inout"}

\* The channel as HandleNewConnection leaves it: registered with
\* DEFAULT_EVENTS, edge-triggered and without EPOLLOUT, by the master or by a
\* slave.
Init ==
    /\ inq = 0 /\ arrived = 0 /\ peerClosed = FALSE /\ rst = "none"
    /\ outq = 0 /\ nospace = FALSE /\ wire = <<>>
    /\ shut = {} /\ open = TRUE /\ armOut = FALSE /\ rdy = TRUE
    /\ tasks = [k \in Kinds |-> 0]
    /\ active = TRUE
    /\ count = 0 /\ cap = BufSize /\ reading = None
    /\ ownSet \in BOOLEAN /\ sendingBuf = <<>> /\ appended = 0
    /\ passedOver = FALSE
    /\ pc = [t \in Threads |-> "idle"]
    /\ loop = "wait"
    /\ crashed = FALSE

Goto(t, place) == pc' = [pc EXCEPT ![t] = place]

-------------------------------------------------------------------------------
(* The peer, the socket and epoll.                                           *)

\* read() returns 0 once the socket is empty.
AtEnd == peerClosed \/ "RD" \in shut
Readable == inq > 0 \/ AtEnd
Writable == outq < SockBuf \/ "WR" \in shut
HungUp == AtEnd /\ "WR" \in shut

PeerSend ==
    /\ ~peerClosed
    /\ arrived < MaxIn
    /\ arrived' = arrived + 1
    /\ inq' = inq + 1
    /\ rdy' = open
    /\ UNCHANGED <<peerClosed, rst, outVars, shut, open, armOut, tasks, active,
                   recvVars, sendVars, passedOver, pc, loop, crashed>>

PeerClose ==
    /\ ~peerClosed
    /\ peerClosed' = TRUE
    /\ rdy' = open
    /\ UNCHANGED <<inq, arrived, rst, outVars, shut, open, armOut, tasks,
                   active, recvVars, sendVars, passedOver, pc, loop, crashed>>

\* A RST, instead of a FIN: both directions are shut and what is on its way
\* to the peer is gone.  The next read() of the empty socket, or write(),
\* fails, the ones after it find the end of the stream or a broken pipe.
PeerReset ==
    /\ ~peerClosed
    /\ peerClosed' = TRUE
    /\ rst' = "pending"
    /\ shut' = {"RD", "WR"}
    /\ outq' = 0
    /\ rdy' = open
    /\ UNCHANGED <<inq, arrived, nospace, wire, open, armOut, tasks, active,
                   recvVars, sendVars, passedOver, pc, loop, crashed>>

PeerTake ==
    /\ outq > 0
    /\ outq' = outq - 1
    /\ nospace' = FALSE
    /\ rdy' = (rdy \/ (nospace /\ open))
    /\ UNCHANGED <<inVars, wire, shut, open, armOut, tasks, active, recvVars,
                   sendVars, passedOver, pc, loop, crashed>>

\* Seeded fault: EPOLL_CTL_MOD reaches the entry whatever set it is in.
ModifyEventAnywhere(out) ==
    /\ armOut' = IF open THEN out ELSE armOut
    /\ rdy' = open

\* epoll_ctl(EPOLL_CTL_MOD): the entry is looked at again.  It fails on a
\* descriptor that is closed, and with ENOENT on one that is in another set.
ModifyEvent(out) ==
    /\ armOut' = IF open /\ ownSet THEN out ELSE armOut
    /\ rdy' = IF ownSet THEN open ELSE rdy

\* ::shutdown through DisableReceive or DisableSend, which do nothing once
\* the channel is inactive; the kernel wakes whoever polls the socket.
Disable(directions) ==
    /\ shut' = IF active /\ open THEN shut \cup directions ELSE shut
    /\ rdy' = (rdy \/ (active /\ open))

-------------------------------------------------------------------------------
(* The event loop: Dispatch and HandleUnexpected.                            *)

\* WaitForEvents reports what is ready of what is asked for, once per edge.
Reported ==
    CASE HungUp -> {"hup"}
      [] OTHER -> (IF Readable THEN {"in"} ELSE {})
                  \cup (IF armOut /\ Writable THEN {"out"} ELSE {})

WaitForEvents ==
    /\ loop = "wait"
    /\ rdy
    /\ rdy' = FALSE
    /\ nospace' = (nospace \/ (armOut /\ ~Writable))
    /\ tasks' = CASE Reported = {} -> tasks
                  [] Reported = {"in", "out"} ->
                       [tasks EXCEPT !["inout"] = @ + 1]
                  [] OTHER ->
                       [tasks EXCEPT ![CHOOSE k \in Reported : TRUE] = @ + 1]
    /\ loop' = IF HungUp THEN "close" ELSE "wait"
    /\ UNCHANGED <<inVars, outq, wire, shut, open, armOut, active, recvVars,
                   sendVars, passedOver, pc, crashed>>

\* HandleUnexpected: RemoveFd and close; the task for the event is in the
\* pool already.
CloseFd ==
    /\ loop = "close"
    /\ open' = FALSE
    /\ rdy' = FALSE
    /\ loop' = "inactive"
    /\ UNCHANGED <<inVars, outVars, shut, armOut, tasks, active, recvVars,
                   sendVars, passedOver, pc, crashed>>

LoopInactive ==
    /\ loop = "inactive"
    /\ active' = FALSE
    /\ loop' = "wait"
    /\ UNCHANGED <<inVars, outVars, shut, epollVars, tasks, recvVars, sendVars,
                   passedOver, pc, crashed>>

-------------------------------------------------------------------------------
(* HandleEvent and Read in a thread of the pool.                             *)

\* EPOLLIN hides EPOLLOUT: the two are branches of one if.
Branch(k) ==
    CASE k = "hup" -> "hup"
      [] k = "out" -> "write"
      [] OTHER -> "read"

HandleEvent(w, k) ==
    /\ pc[w] = "idle"
    /\ tasks[k] > 0
    /\ tasks' = [tasks EXCEPT ![k] = @ - 1]
    /\ passedOver' = (passedOver \/ k = "inout")
    /\ Goto(w, IF active THEN Branch(k) ELSE "idle")
    /\ UNCHANGED <<inVars, outVars, shut, epollVars, active, recvVars,
                   sendVars, loop, crashed>>

HandleHangUp(w) ==
    /\ pc[w] = "hup"
    /\ Disable({"RD", "WR"})
    /\ Goto(w, "idle")
    /\ UNCHANGED <<inVars, outVars, open, armOut, tasks, active, recvVars,
                   sendVars, passedOver, loop, crashed>>

ReadLock(w) ==
    /\ pc[w] = "read"
    /\ reading = None
    /\ reading' = w
    /\ Goto(w, "reading")
    /\ UNCHANGED <<inVars, outVars, shut, epollVars, tasks, active, count, cap,
                   sendVars, passedOver, loop, crashed>>

Smaller(a, b) == IF a < b THEN a ELSE b

\* Seeded fault: the buffer is never made larger.
ReadSomeNoReserve(w) ==
    LET got == Smaller(cap - count, inq) IN
    /\ pc[w] = "reading"
    /\ open
    /\ got > 0
    /\ count' = count + got
    /\ inq' = inq - got
    /\ UNCHANGED <<arrived, peerClosed, rst, outVars, shut, epollVars, tasks,
                   active, cap, reading, sendVars, passedOver, pc, loop,
                   crashed>>

\* One turn of the loop: read() fills at most the room that is left, and a
\* full buffer is made larger by half before the next turn.
ReadSome(w) ==
    LET got == Smaller(cap - count, inq) IN
    /\ pc[w] = "reading"
    /\ open
    /\ got > 0
    /\ count' = count + got
    /\ cap' = IF count' = cap THEN (3 * cap) \div 2 ELSE cap
    /\ inq' = inq - got
    /\ UNCHANGED <<arrived, peerClosed, rst, outVars, shut, epollVars, tasks,
                   active, reading, sendVars, passedOver, pc, loop, crashed>>

\* read() returned 0: the end of the stream, or no room to read into.
ReadEnd(w) ==
    /\ pc[w] = "reading"
    /\ open
    /\ count = cap \/ (inq = 0 /\ AtEnd /\ rst # "pending")
    /\ reading' = None
    /\ Goto(w, "disableReceive")
    /\ UNCHANGED <<inVars, outVars, shut, epollVars, tasks, active, count, cap,
                   sendVars, passedOver, loop, crashed>>

\* The socket reports its RST, once.
Tell == rst' = IF open /\ rst = "pending" THEN "told" ELSE rst

\* read() returned -1: nothing more for now, the RST, or the descriptor is
\* closed; Read takes all of them for data that is ready.
\* What _dataReadyNotify does is modelled in NotificationCenter.
ReadDrained(w) ==
    /\ pc[w] = "reading"
    /\ ~open \/ (inq = 0 /\ (~AtEnd \/ rst = "pending"))
    /\ Tell
    /\ reading' = None
    /\ Goto(w, "idle")
    /\ UNCHANGED <<inq, arrived, peerClosed, outVars, shut, epollVars, tasks,
                   active, count, cap, sendVars, passedOver, loop, crashed>>

DisableReceive(w) ==
    /\ pc[w] = "disableReceive"
    /\ Disable({"RD"})
    /\ Goto(w, "disableSend")
    /\ UNCHANGED <<inVars, outVars, open, armOut, tasks, active, recvVars,
                   sendVars, passedOver, loop, crashed>>

\* Seeded fault: the sending direction is left open.
DisableSendForgotten(w) ==
    /\ pc[w] = "disableSend"
    /\ Goto(w, "inactive")
    /\ UNCHANGED <<inVars, outVars, shut, epollVars, tasks, active, recvVars,
                   sendVars, passedOver, loop, crashed>>

DisableSend(w) ==
    /\ pc[w] = "disableSend"
    /\ Disable({"WR"})
    /\ Goto(w, "inactive")
    /\ UNCHANGED <<inVars, outVars, open, armOut, tasks, active, recvVars,
                   sendVars, passedOver, loop, crashed>>

\* The call of _closedNotify that follows is NotifyClose of
\* NotificationCenter.
Inactive(w) ==
    /\ pc[w] = "inactive"
    /\ active' = FALSE
    /\ Goto(w, "idle")
    /\ UNCHANGED <<inVars, outVars, shut, epollVars, tasks, recvVars, sendVars,
                   passedOver, loop, crashed>>

\* GetReceivedData, by the application: hands out the first BufSize units and
\* forgets the rest.
GetReceivedData ==
    /\ active
    /\ reading = None
    /\ count > 0
    /\ count' = 0
    /\ UNCHANGED <<inVars, outVars, shut, epollVars, tasks, active, cap,
                   reading, sendVars, passedOver, pc, loop, crashed>>

-------------------------------------------------------------------------------
(* Write and NotifyWriteEvent.                                               *)

WriteEmpty(w) ==
    /\ pc[w] = "write"
    /\ sendingBuf = <<>>
    /\ ModifyEvent(FALSE)
    /\ Goto(w, "idle")
    /\ UNCHANGED <<inVars, outVars, shut, open, tasks, active, recvVars,
                   sendVars, passedOver, loop, crashed>>

\* Seeded fault: what the socket did not take is erased as well.
WriteSomeErasesAll(w) ==
    LET sent == Smaller(SockBuf - outq, Len(sendingBuf)) IN
    /\ pc[w] = "write"
    /\ open /\ "WR" \notin shut
    /\ sent > 0
    /\ wire' = wire \o SubSeq(sendingBuf, 1, sent)
    /\ outq' = outq + sent
    /\ nospace' = (nospace \/ sent < Len(sendingBuf))
    /\ sendingBuf' = <<>>
    /\ Goto(w, "idle")
    /\ UNCHANGED <<inVars, shut, epollVars, tasks, active, recvVars, appended,
                   ownSet, passedOver, loop, crashed>>

\* Seeded fault: EPOLLOUT is given up after a partial write.
WriteSomeDisarms(w) ==
    LET sent == Smaller(SockBuf - outq, Len(sendingBuf)) IN
    /\ pc[w] = "write"
    /\ open /\ "WR" \notin shut
    /\ sent > 0
    /\ wire' = wire \o SubSeq(sendingBuf, 1, sent)
    /\ outq' = outq + sent
    /\ nospace' = (nospace \/ sent < Len(sendingBuf))
    /\ sendingBuf' = SubSeq(sendingBuf, sent + 1, Len(sendingBuf))
    /\ ModifyEvent(FALSE)
    /\ Goto(w, "idle")
    /\ UNCHANGED <<inVars, shut, open, tasks, active, recvVars, appended,
                   ownSet, passedOver, loop, crashed>>

WriteSome(w) ==
    LET sent == Smaller(SockBuf - outq, Len(sendingBuf)) IN
    /\ pc[w] = "write"
    /\ open /\ "WR" \notin shut
    /\ sent > 0
    /\ wire' = wire \o SubSeq(sendingBuf, 1, sent)
    /\ outq' = outq + sent
    /\ nospace' = (nospace \/ sent < Len(sendingBuf))
    /\ sendingBuf' = SubSeq(sendingBuf, sent + 1, Len(sendingBuf))
    /\ Goto(w, "idle")
    /\ UNCHANGED <<inVars, shut, epollVars, tasks, active, recvVars, appended,
                   ownSet, passedOver, loop, crashed>>

\* write() returned -1, with EAGAIN, for a RST, or on a closed descriptor.
WriteFails(w) ==
    /\ pc[w] = "write"
    /\ sendingBuf # <<>>
    /\ ~open \/ (outq = SockBuf /\ "WR" \notin shut) \/ rst = "pending"
    /\ Tell
    /\ Disable({"WR"})
    /\ Goto(w, "idle")
    /\ UNCHANGED <<inq, arrived, peerClosed, outVars, open, armOut, tasks,
                   active, recvVars, sendVars, passedOver, loop, crashed>>

\* write() after shutdown raises SIGPIPE, which nobody handles.
WriteBrokenPipe(w) ==
    /\ pc[w] = "write"
    /\ sendingBuf # <<>>
    /\ open /\ "WR" \in shut /\ rst # "pending"
    /\ crashed' = TRUE
    /\ UNCHANGED <<inVars, outVars, shut, epollVars, tasks, active, recvVars,
                   sendVars, passedOver, pc, loop>>

NotifyWriteEvent(s) ==
    /\ pc[s] = "idle"
    /\ active
    /\ appended < MaxOut
    /\ appended' = appended + 1
    /\ sendingBuf' = Append(sendingBuf, appended')
    /\ Goto(s, "arm")
    /\ UNCHANGED <<inVars, outVars, shut, epollVars, tasks, active, recvVars,
                   ownSet, passedOver, loop, crashed>>

\* After _sendMutex is released.
ArmWriteEvent(s) ==
    /\ pc[s] = "arm"
    /\ ModifyEvent(TRUE)
    /\ passedOver' = FALSE
    /\ Goto(s, "idle")
    /\ UNCHANGED <<inVars, outVars, shut, open, tasks, active, recvVars,
                   sendVars, loop, crashed>>

-------------------------------------------------------------------------------
LoopStep == WaitForEvents \/ CloseFd \/ LoopInactive

WorkerStep(w) ==
    \/ \E k \in Kinds : HandleEvent(w, k)
    \/ HandleHangUp(w)
    \/ ReadLock(w) \/ ReadSome(w) \/ ReadEnd(w) \/ ReadDrained(w)
    \/ DisableReceive(w) \/ DisableSend(w) \/ Inactive(w)
    \/ WriteEmpty(w) \/ WriteSome(w) \/ WriteFails(w) \/ WriteBrokenPipe(w)

\* The connection is over, or the process is.
Over ==
    \/ crashed
    \/ /\ ~open /\ ~active /\ loop = "wait" /\ outq = 0
       /\ \A k \in Kinds : tasks[k] = 0
       /\ \A t \in Threads : pc[t] = "idle"

Next ==
    \/ /\ ~crashed
       /\ \/ PeerSend \/ PeerClose \/ PeerReset \/ PeerTake
          \/ LoopStep
          \/ \E w \in Workers : WorkerStep(w)
          \/ GetReceivedData
          \/ \E s \in Senders : NotifyWriteEvent(s) \/ ArmWriteEvent(s)
    \/ Over /\ UNCHANGED vars

Spec == Init /\ [][Next]_vars

\* The event loop and the pool run, a caller of NotifyWriteEvent goes on to
\* its second half, and the peer takes what was sent to it.
Fairness ==
    /\ WF_vars(~crashed /\ LoopStep)
    /\ \A w \in Workers : WF_vars(~crashed /\ WorkerStep(w))
    /\ \A s \in Senders : WF_vars(~crashed /\ ArmWriteEvent(s))
    /\ WF_vars(~crashed /\ PeerTake)

FairSpec == Spec /\ Fairness

-------------------------------------------------------------------------------
(* Properties.                                                               *)

Places == {"idle", "hup", "read", "reading", "disableReceive", "disableSend",
           "inactive", "write", "arm"}

\* The values each variable takes; the socket is never overfull, and a thread
\* inside the loop of Read holds the mutex and has room to read into.
TypeOK ==
    /\ arrived \in 0 .. MaxIn /\ inq \in 0 .. arrived
    /\ peerClosed \in BOOLEAN /\ rst \in {"none", "pending", "told"}
    /\ outq \in 0 .. SockBuf /\ nospace \in BOOLEAN
    /\ shut \in SUBSET {"RD", "WR"}
    /\ open \in BOOLEAN /\ armOut \in BOOLEAN /\ rdy \in BOOLEAN
    /\ tasks \in [Kinds -> Nat]
    /\ active \in BOOLEAN
    /\ cap \in Nat /\ count \in 0 .. cap - 1
    /\ reading \in Workers \cup {None}
    /\ \A w \in Workers : (pc[w] = "reading") <=> (reading = w)
    /\ appended \in 0 .. MaxOut /\ ownSet \in BOOLEAN
    /\ sendingBuf \in Seq(1 .. MaxOut) /\ wire \in Seq(1 .. MaxOut)
    /\ passedOver \in BOOLEAN
    /\ pc \in [Threads -> Places]
    /\ loop \in {"wait", "close", "inactive"}
    /\ crashed \in BOOLEAN

\* What write() took and what still waits in _sendingBuf is, in order, all
\* that NotifyWriteEvent was given: whatever partial writes, empty writes and
\* calls of several threads interleave, nothing is lost, sent twice or
\* overtaken.
WrittenInOrder ==
    wire \o sendingBuf = [i \in 1 .. appended |-> i]

\* A thread is on its way to Write, or will be without anybody's help: the
\* next report of epoll is due, or is owed by the kernel when the peer takes
\* something.
WriteIsDue ==
    \/ \E s \in Senders : pc[s] = "arm"
    \/ \E w \in Workers : pc[w] = "write"
    \/ tasks["out"] > 0
    \/ armOut /\ (rdy \/ nospace)

\* Data never sits in _sendingBuf with nobody coming for it, although Write
\* disarms EPOLLOUT and NotifyWriteEvent arms it outside _sendMutex - unless
\* an event brought EPOLLIN with the EPOLLOUT (HandleEvent then only reads),
\* the sending direction is closed, or the connection is a slave's.
NoForgottenData ==
    sendingBuf # <<>> /\ ownSet /\ open /\ active /\ "WR" \notin shut =>
        WriteIsDue \/ passedOver \/ tasks["inout"] > 0

\* A connection that a slave watches never sends anything, however often and
\* by whomever NotifyWriteEvent is called: EPOLLOUT is asked for in the
\* master's epoll set (Channel.h:142), where its descriptor is not.
SlaveNeverWrites == ~ownSet => wire = <<>>

\* A channel is declared dead only when the peer has closed: a receive buffer
\* that is full again and again is never taken for the end of the stream.
DeadOnlyAtEnd ==
    ~active \/ (\E w \in Workers : pc[w] = "disableReceive") => peerClosed

\* What the peer closes or resets is closed here too, though a FIN takes two
\* rounds of the event loop and a thread of the pool in between.
CloseIsAnswered == peerClosed ~> ~open \/ crashed

\* What NotifyWriteEvent was given is written, if the peer keeps taking and
\* the connection is the master's.
QueuedIsWritten ==
    \A n \in 1 .. MaxOut :
        appended >= n ~>
            \/ Len(wire) >= n
            \/ ~ownSet \/ passedOver \/ "WR" \in shut \/ ~open \/ crashed

\* doc/Question.md:56 says of a write that found the output buffer full "you
\* may need to try writing again later": the sending direction is closed only
\* when the peer has closed.  Write closes it on any failure.
FullSocketIsRetried == "WR" \in shut => peerClosed

===============================================================================
