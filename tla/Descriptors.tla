------------------------------ MODULE Descriptors ------------------------------
(***************************************************************************)
(* Who closes which descriptor: server::tcp::TcpServer, with its listening *)
(* socket and the numbers of the connections it has accepted, TcpSocket,   *)
(* a copyable handle made from a number (include/server/TcpServer.h,       *)
(* TcpSocket.h), and reactor::Demultiplexer (reactor/Demultiplexer.h),     *)
(* which lives in the same table.                                          *)
(*                                                                         *)
(* The kernel's table says which file is open under a number; the lowest   *)
(* free number is given out.  A file stands for itself, so that a number   *)
(* that has come to mean something else shows.  Calls are atomic: each     *)
(* makes one system call that matters, or closes what it has.  The rest of *)
(* the program opens and closes files of its own.                          *)
(***************************************************************************)
EXTENDS Integers, FiniteSets

CONSTANTS Fds,      \* the numbers, an interval from 0
          Sockets,  \* TcpSocket objects
          MaxFiles  \* bound on the files opened

ASSUME NumbersAssumption ==
    /\ IsFiniteSet(Fds) /\ 0 \in Fds /\ Fds \subseteq Nat
    /\ \A n \in Fds : 0 .. n \subseteq Fds
    /\ MaxFiles \in Nat \ {0}

VARIABLES
    table,       \* the file open under each number, 0 for none
    files,       \* files opened so far
    backlog,     \* a connection waits to be accepted
    listening,   \* the file listen() was called for, 0 for none
    fd,          \* TcpServer::_fd
    access,      \* _access
    saveAll,     \* _saveAllConnection
    accepted,    \* _allAccepted
    sockFd,      \* TcpSocket::_fd
    valid,       \* _valid
    epFd,        \* Demultiplexer::_fd, -1 while there is none
    (* History. *)
    meant,       \* the file each holder's number was given to it for
    undercut,    \* holders whose file another holder has closed
    sharing,     \* "wrapped": a socket has a number the server has too,
                 \* "copied": two sockets have one number,
                 \* "stale": a socket has one that a socket has closed,
                 \* "kept": Demultiplexer::Shutdown has kept what it closed
    serverClosed \* the server has closed an accepted number

tableVars == <<table, files, backlog, listening>>
serverVars == <<fd, access, saveAll, accepted>>
socketVars == <<sockFd, valid, epFd>>
history == <<meant, undercut, sharing, serverClosed>>
numberVars == <<tableVars, serverVars, socketVars, history>>

FreeFds == {n \in Fds : table[n] = 0}
Lowest(S) == CHOOSE n \in S : \A m \in S : n <= m

(* Who holds a number: the server its own, each number in _allAccepted, a    *)
(* socket, a Demultiplexer, and the rest of the program what it opened.      *)
Server == <<"server", 0>>
Client(n) == <<"client", n>>
Socket(s) == <<"socket", s>>
Epoll == <<"epoll", 0>>
Rest(n) == <<"rest", n>>
Holders == {Server, Epoll} \cup {Socket(s) : s \in Sockets}
             \cup {Client(n) : n \in Fds} \cup {Rest(n) : n \in Fds}

\* What a holder would close, -1 for nothing.
Number(h) ==
    CASE h[1] = "server" -> IF access THEN fd ELSE -1
      [] h[1] = "client" -> IF h[2] \in accepted THEN h[2] ELSE -1
      [] h[1] = "socket" -> IF valid[h[2]] THEN sockFd[h[2]] ELSE -1
      [] h[1] = "epoll" -> IF epFd > 0 THEN epFd ELSE -1
      [] h[1] = "rest"   -> IF meant[h] # 0 THEN h[2] ELSE -1

Holding == {h \in Holders : Number(h) \in Fds}
Clients == {h \in Holding : h[1] = "client"}
OpenFile(n) == IF n \in Fds THEN table[n] ELSE 0

NumbersInit ==
    /\ \E zero \in BOOLEAN :  \* standard input may be closed
         /\ table = [n \in Fds |-> IF n = 0 /\ ~zero THEN 1 ELSE 0]
         /\ meant = [h \in Holders |-> IF h = Rest(0) /\ ~zero THEN 1 ELSE 0]
    /\ files = 1
    /\ backlog = FALSE
    /\ listening = 0
    /\ fd = 0 /\ access = FALSE /\ saveAll = FALSE /\ accepted = {}
    /\ sockFd = [s \in Sockets |-> -1]
    /\ valid = [s \in Sockets |-> FALSE]
    /\ epFd = -1
    /\ undercut = {} /\ sharing = {} /\ serverClosed = FALSE

-------------------------------------------------------------------------------
(* The kernel.                                                               *)

\* socket() and accept(): the lowest free number, or -1.
Given == IF FreeFds = {} THEN -1 ELSE Lowest(FreeFds)

OpenAt(n) ==
    /\ files < MaxFiles
    /\ files' = files + 1
    /\ table' = [table EXCEPT ![n] = files + 1]

OpenIfFree == IF Given = -1 THEN UNCHANGED <<table, files>> ELSE OpenAt(Given)

\* close() of the numbers that the holders hs hold, of whom those in freed
\* forget them.  Whoever else was given one of those files has lost it.
CloseSome(hs, freed) ==
    LET gone == {OpenFile(Number(h)) : h \in hs} \ {0} IN
    /\ table' = [n \in Fds |-> IF table[n] \in gone THEN 0 ELSE table[n]]
    /\ undercut' = (undercut \cup {h \in Holding : meant[h] \in gone}) \ freed
    /\ meant' = [h \in Holders |-> IF h \in freed THEN 0 ELSE meant[h]]
    /\ UNCHANGED <<files, backlog, listening>>

CloseAll(hs) == CloseSome(hs, hs)

Connect ==
    /\ ~backlog /\ \E n \in Fds : table[n] = listening /\ listening # 0
    /\ backlog' = TRUE
    /\ UNCHANGED <<table, files, listening, serverVars, socketVars, history>>

-------------------------------------------------------------------------------
(* The rest of the program.                                                  *)

OpenOther ==
    /\ FreeFds # {}
    /\ OpenAt(Given)
    /\ meant' = [meant EXCEPT ![Rest(Given)] = files + 1]
    /\ undercut' = undercut \ {Rest(Given)}
    /\ UNCHANGED <<backlog, listening, serverVars, socketVars, sharing,
                   serverClosed>>

CloseOther(n) ==
    /\ Rest(n) \in Holding
    /\ CloseAll({Rest(n)})
    /\ UNCHANGED <<serverVars, socketVars, sharing, serverClosed>>

-------------------------------------------------------------------------------
(* TcpServer.                                                                *)

\* TcpServer::Init: -1 is taken for a success, and 0 for a failure.
ServerInit ==
    /\ ~access
    /\ OpenIfFree
    /\ fd' = Given
    /\ access' = (Given # 0)
    /\ meant' = [meant EXCEPT ![Server] = IF Given = -1 THEN 0 ELSE files']
    /\ undercut' = undercut \ {Server}
    /\ UNCHANGED <<backlog, listening, saveAll, accepted, socketVars, sharing,
                   serverClosed>>

\* Bind and Listen.  A number that has come to stand for another file is left
\* out: listen() would fail, or make a stranger's socket listen.
Listen ==
    /\ access
    /\ OpenFile(fd) # 0 /\ OpenFile(fd) = meant[Server]
    /\ listening' = OpenFile(fd)
    /\ backlog' = (backlog /\ listening = OpenFile(fd))
    /\ UNCHANGED <<table, files, serverVars, socketVars, history>>

\* Every number but 0 is kept, whatever AutoSaveAcceptedFD says.
Accept ==
    /\ access
    /\ backlog
    /\ OpenFile(fd) = listening
    /\ Given # -1
    /\ OpenAt(Given)
    /\ backlog' = FALSE
    /\ IF Given > 0
       THEN /\ accepted' = accepted \cup {Given}
            /\ meant' = [meant EXCEPT ![Client(Given)] = files']
            /\ undercut' = undercut \ {Client(Given)}
       ELSE UNCHANGED <<accepted, meant, undercut>>
    /\ UNCHANGED <<listening, fd, access, saveAll, socketVars, sharing,
                   serverClosed>>

AutoSaveAcceptedFD(b) ==
    /\ saveAll # b
    /\ saveAll' = b
    /\ UNCHANGED <<tableVars, fd, access, accepted, socketVars, history>>

\* CloseCilent
CloseClient(n) ==
    /\ n \in accepted
    /\ CloseAll({Client(n)})
    /\ accepted' = accepted \ {n}
    /\ serverClosed' = TRUE
    /\ UNCHANGED <<fd, access, saveAll, socketVars, sharing>>

\* Shutdown, and the destructor.
Shutdown ==
    LET closed == IF saveAll THEN Clients ELSE {} IN
    /\ access
    /\ access' = FALSE
    /\ accepted' = {}
    /\ CloseAll({Server} \cup closed)
    /\ serverClosed' = (serverClosed \/ closed # {})
    /\ UNCHANGED <<fd, saveAll, socketVars, sharing>>

-------------------------------------------------------------------------------
(* TcpSocket.                                                                *)

\* A socket s takes number n over from holder h.
Take(s, n, h) ==
    /\ ~valid[s]
    /\ sockFd' = [sockFd EXCEPT ![s] = n]
    /\ valid' = [valid EXCEPT ![s] = n > 0]
    /\ meant' = [meant EXCEPT ![Socket(s)] = meant[h]]
    /\ undercut' = IF h \in undercut THEN undercut \cup {Socket(s)}
                   ELSE undercut \ {Socket(s)}
    /\ UNCHANGED <<tableVars, serverVars, epFd, serverClosed>>

\* TcpSocket(fd), with a number of GetAllClient or the result of Accept.
Wrap(s, n) ==
    /\ n \in accepted
    /\ Take(s, n, Client(n))
    /\ sharing' = sharing \cup
         {IF Client(n) \in undercut THEN "stale"
          ELSE IF \E r \in Sockets : valid[r] /\ sockFd[r] = n THEN "copied"
          ELSE "wrapped"}

\* The copy constructor, which the compiler writes.
Copy(s, r) ==
    /\ valid[r]
    /\ Take(s, sockFd[r], Socket(r))
    /\ sharing' = sharing \cup {"copied"}

\* TcpSocket(): a socket of its own; 0 is taken for a failure.
SocketNew(s) ==
    /\ ~valid[s]
    /\ OpenIfFree
    /\ sockFd' = [sockFd EXCEPT ![s] = Given]
    /\ valid' = [valid EXCEPT ![s] = Given > 0]
    /\ meant' = [meant EXCEPT ![Socket(s)] = IF Given > 0 THEN files' ELSE 0]
    /\ undercut' = undercut \ {Socket(s)}
    /\ UNCHANGED <<backlog, listening, serverVars, epFd, sharing, serverClosed>>

\* Seeded fault: the socket stays valid.
SocketCloseStaysValid(s) ==
    /\ valid[s]
    /\ CloseAll({Socket(s)})
    /\ UNCHANGED <<serverVars, socketVars, sharing, serverClosed>>

\* TcpSocket::Close
SocketClose(s) ==
    /\ valid[s]
    /\ valid' = [valid EXCEPT ![s] = FALSE]
    /\ CloseAll({Socket(s)})
    /\ UNCHANGED <<serverVars, sockFd, epFd, sharing, serverClosed>>

\* ~TcpSocket: a number that was not closed stays open, and is nobody's.
SocketDestroy(s) ==
    /\ valid[s]
    /\ valid' = [valid EXCEPT ![s] = FALSE]
    /\ meant' = [meant EXCEPT ![Socket(s)] = 0]
    /\ undercut' = undercut \ {Socket(s)}
    /\ UNCHANGED <<tableVars, serverVars, sockFd, epFd, sharing, serverClosed>>

-------------------------------------------------------------------------------
(* Demultiplexer.                                                            *)

\* Init.  Valid() takes 0 for an error, and -1 for a descriptor.
EpollInit ==
    /\ epFd = -1
    /\ FreeFds # {}
    /\ OpenAt(Given)
    /\ epFd' = Given
    /\ meant' = [meant EXCEPT ![Epoll] = IF Given > 0 THEN files' ELSE 0]
    /\ UNCHANGED <<backlog, listening, serverVars, sockFd, valid, undercut,
                   sharing, serverClosed>>

\* Shutdown closes the number and keeps it.
EpollShutdown ==
    /\ epFd > 0
    /\ CloseSome({Epoll}, {})
    /\ sharing' = sharing \cup {"kept"}
    /\ UNCHANGED <<serverVars, socketVars, serverClosed>>

\* The destructor calls Shutdown, again if it was called before.
EpollDestroy ==
    /\ epFd > 0
    /\ CloseAll({Epoll})
    /\ epFd' = -1
    /\ UNCHANGED <<serverVars, sockFd, valid, sharing, serverClosed>>

-------------------------------------------------------------------------------
ServerStep ==
    \/ ServerInit \/ Listen \/ Accept \/ Shutdown
    \/ \E b \in BOOLEAN : AutoSaveAcceptedFD(b)
    \/ \E n \in Fds : CloseClient(n)

SocketStep(s) ==
    \/ SocketNew(s) \/ SocketClose(s) \/ SocketDestroy(s)
    \/ \E n \in Fds : Wrap(s, n)
    \/ \E r \in Sockets : Copy(s, r)

NumbersNext ==
    \/ Connect \/ OpenOther \/ ServerStep
    \/ EpollInit \/ EpollShutdown \/ EpollDestroy
    \/ \E n \in Fds : CloseOther(n)
    \/ \E s \in Sockets : SocketStep(s)

NumbersSpec == NumbersInit /\ [][NumbersNext]_numberVars

-------------------------------------------------------------------------------
(* Properties.                                                               *)

NumbersTypeOK ==
    /\ table \in [Fds -> 0 .. MaxFiles] /\ files \in 1 .. MaxFiles
    /\ backlog \in BOOLEAN /\ listening \in 0 .. MaxFiles
    /\ fd \in Fds \cup {-1} /\ access \in BOOLEAN /\ saveAll \in BOOLEAN
    /\ accepted \subseteq Fds \ {0}
    /\ sockFd \in [Sockets -> Fds \cup {-1}] /\ valid \in [Sockets -> BOOLEAN]
    /\ \A s \in Sockets : valid[s] => sockFd[s] > 0
    /\ meant \in [Holders -> 0 .. MaxFiles] /\ undercut \subseteq Holders
    /\ epFd \in Fds \cup {-1}
    /\ sharing \subseteq {"wrapped", "copied", "stale", "kept"}
    /\ serverClosed \in BOOLEAN

\* A number that the server, a valid socket or a Demultiplexer would close
\* stands for the file it was given out for, though numbers are reused, unless
\* another holder has closed it, or the Demultiplexer itself.  That happens
\* only to numbers handed on: as long as each is wrapped in one socket and
\* once, the server closes none of them and no Demultiplexer is shut down
\* before it is destroyed, only the server is left with numbers that have come
\* to mean something else.
NumbersAreTrue ==
    /\ \A h \in Holding \ undercut : OpenFile(Number(h)) = meant[h]
    /\ undercut # {} => sharing # {}
    /\ (\E h \in undercut : h[1] # "client") =>
          serverClosed \/ sharing \cap {"copied", "stale", "kept"} # {}

===============================================================================
