---------------------------- MODULE EventLoopsProof ----------------------------
(***************************************************************************)
(* Theorems about EventLoops, for any connections, functors and number of  *)
(* slaves: pending functors, types, the use of the global pool, the events *)
(* from epoll_wait to the pool, and what Shutdown joins.                   *)
(***************************************************************************)
EXTENDS EventLoops, SequenceTheorems, TLAPS

\* The loop that all functors go to, the master's or the first slave's.
Chosen == IF NumSlaves = 0 THEN Master ELSE 1

LEMMA LoopSets ==
    /\ NumSlaves \in Nat
    /\ Chosen \in Loops /\ Master \in Loops
BY LoopsAssumption DEF Chosen, Loops, Slaves, Master

\* What the proof needs of the types.
FunctorType ==
    /\ pc \in [Loops -> LoopPlaces]
    /\ pending \in [Loops -> Seq(Functors)] /\ taken \in [Loops -> Seq(Functors)]
    /\ added \in Seq(Functors) /\ ran \in Seq(Functors)

\* A loop has functors of its own only while it calls them: without that, the
\* next ones it takes would overwrite them.
CalledBeforeNext == \A l \in Loops : pc[l] = "calling" \/ taken[l] = <<>>

\* No other loop is given functors.
OthersHaveNone == \A l \in Loops \ {Chosen} : pending[l] = <<>> /\ taken[l] = <<>>

FunctorInv == FunctorType /\ CalledBeforeNext /\ OthersHaveNone /\ FunctorsInOrder

LEMMA OrderOfChosen == FunctorsInOrder <=> ran \o taken[Chosen] \o pending[Chosen] = added
BY DEF FunctorsInOrder, Chosen

-------------------------------------------------------------------------------
LEMMA InitFunctors ==
    ASSUME Init
    PROVE  FunctorInv
<1>1. <<>> \in Seq(Functors)
  BY EmptySeq
<1>2. FunctorType
  BY <1>1, LoopSets DEF Init, FunctorType, LoopPlaces
<1>3. CalledBeforeNext /\ OthersHaveNone
  BY DEF Init, CalledBeforeNext, OthersHaveNone
<1>4. <<>> \o <<>> \o <<>> = <<>>
  BY <1>1, ConcatEmptySeq
<1>5. FunctorsInOrder
  <2>1. ran = <<>> /\ taken[Chosen] = <<>> /\ pending[Chosen] = <<>> /\ added = <<>>
    BY LoopSets DEF Init
  <2> QED
    BY <1>4, <2>1, OrderOfChosen
<1> QED
  BY <1>2, <1>3, <1>5 DEF FunctorInv

\* A step that leaves the functors alone and takes no loop from "calling".
LEMMA OtherKeeps ==
    ASSUME FunctorInv, UNCHANGED functorVars,
           \/ pc' = pc
           \/ \E l \in Loops, place \in LoopPlaces : pc[l] # "calling" /\ Goto(l, place)
    PROVE  FunctorInv'
BY DEF FunctorInv, FunctorType, CalledBeforeNext, OthersHaveNone, FunctorsInOrder,
       functorVars, Goto

LEMMA TakeKeeps ==
    ASSUME FunctorInv, NEW l \in Loops, TakeFunctors(l)
    PROVE  FunctorInv'
<1>1. /\ pc[l] = "functors" /\ pc' = [pc EXCEPT ![l] = "calling"]
      /\ taken' = [taken EXCEPT ![l] = pending[l]]
      /\ pending' = [pending EXCEPT ![l] = <<>>]
      /\ added' = added /\ ran' = ran
  BY DEF TakeFunctors, Goto
<1>2. FunctorType /\ CalledBeforeNext /\ OthersHaveNone /\ FunctorsInOrder
  BY DEF FunctorInv
<1>3. FunctorType'
  BY <1>1, <1>2, EmptySeq DEF FunctorType, LoopPlaces
<1>4. CalledBeforeNext' /\ OthersHaveNone'
  BY <1>1, <1>2 DEF CalledBeforeNext, OthersHaveNone, FunctorType
<1>5. FunctorsInOrder'
  <2>1. CASE l # Chosen
    <3>1. taken'[Chosen] = taken[Chosen] /\ pending'[Chosen] = pending[Chosen]
      BY <1>1, <1>2, <2>1, LoopSets DEF FunctorType
    <3> QED
      BY <1>1, <1>2, <3>1 DEF FunctorsInOrder, Chosen
  <2>2. CASE l = Chosen
    <3>1. taken[l] = <<>> /\ taken'[l] = pending[l] /\ pending'[l] = <<>>
      BY <1>1, <1>2 DEF FunctorType, CalledBeforeNext
    <3>2. pending[l] \in Seq(Functors) /\ ran \in Seq(Functors)
      BY <1>2 DEF FunctorType
    <3>3. ran \o <<>> = ran /\ (ran \o pending[l]) \o <<>> = ran \o pending[l]
      <4>1. ran \o pending[l] \in Seq(Functors)
        BY <3>2, ConcatProperties
      <4> QED
        BY <3>2, <4>1, ConcatEmptySeq
    <3>4. ran \o pending[l] = added
      BY <1>2, <2>2, <3>1, <3>3, OrderOfChosen
    <3> QED
      BY <1>1, <2>2, <3>1, <3>3, <3>4 DEF FunctorsInOrder, Chosen
  <2> QED
    BY <2>1, <2>2
<1> QED
  BY <1>3, <1>4, <1>5 DEF FunctorInv

\* Calling the first of the functors that are left.
LEMMA HeadMoves ==
    ASSUME NEW S, NEW r \in Seq(S), NEW t \in Seq(S), NEW p \in Seq(S), t # <<>>
    PROVE  /\ Append(r, Head(t)) \in Seq(S) /\ Tail(t) \in Seq(S)
           /\ Append(r, Head(t)) \o Tail(t) \o p = r \o t \o p
<1> DEFINE h == Head(t)
<1>1. h \in S /\ Tail(t) \in Seq(S) /\ <<h>> \in Seq(S)
  BY HeadTailProperties
<1>2. t = <<h>> \o Tail(t)
  <2>1. /\ Len(t) \in Nat \ {0} /\ Len(Tail(t)) = Len(t) - 1
        /\ \A i \in 1 .. Len(Tail(t)) : Tail(t)[i] = t[i + 1]
    BY EmptySeq, LenProperties, HeadTailProperties
  <2>2. h = t[1] /\ Len(<<h>>) = 1 /\ <<h>>[1] = h
    OBVIOUS
  <2> HIDE DEF h
  <2> DEFINE u == Tail(t)  front == <<h>>
  <2>3. front \in Seq(S) /\ u \in Seq(S)
    BY <1>1
  <2>4. /\ Len(front) = 1 /\ front[1] = t[1] /\ Len(u) = Len(t) - 1
        /\ \A i \in 1 .. Len(u) : u[i] = t[i + 1]
    BY <2>1, <2>2
  <2> HIDE DEF u, front
  <2>5. /\ front \o u \in Seq(S) /\ Len(front \o u) = Len(front) + Len(u)
        /\ \A i \in 1 .. Len(front) + Len(u) :
             (front \o u)[i] = IF i <= Len(front) THEN front[i] ELSE u[i - Len(front)]
    BY <2>3, ConcatProperties, Zenon
  <2>6. ASSUME NEW i \in 1 .. Len(t) PROVE (front \o u)[i] = t[i]
    <3>1. CASE i = 1
      BY <2>1, <2>4, <2>5, <3>1
    <3>2. CASE i # 1
      <4>1. i - 1 \in 1 .. Len(u) /\ (i - 1) + 1 = i /\ ~(i <= 1)
        BY <2>1, <2>4, <3>2
      <4>2. i \in 1 .. Len(front) + Len(u)
        BY <2>1, <2>4
      <4> QED
        BY <2>4, <2>5, <4>1, <4>2
    <3> QED
      BY <3>1, <3>2
  <2>7. Len(front \o u) = Len(t)
    BY <2>1, <2>4, <2>5
  <2>8. front \o u = t
    BY <2>5, <2>6, <2>7, SeqEqual
  <2> QED
    BY <2>8 DEF front, u
<1> HIDE DEF h
<1>3. Append(r, h) = r \o <<h>>
  BY <1>1, AppendIsConcat
<1>4. (r \o <<h>>) \o Tail(t) = r \o (<<h>> \o Tail(t))
  BY <1>1, ConcatAssociative
<1>5. Append(r, h) \in Seq(S)
  BY <1>1, AppendProperties
<1>6. Append(r, h) \o Tail(t) = r \o t
  BY <1>2, <1>3, <1>4
<1> QED
  BY <1>1, <1>5, <1>6 DEF h

LEMMA CallKeeps ==
    ASSUME FunctorInv, NEW l \in Loops, CallFunctor(l)
    PROVE  FunctorInv'
<1>1. FunctorType /\ CalledBeforeNext /\ OthersHaveNone /\ FunctorsInOrder
  BY DEF FunctorInv
<1>2. pc[l] = "calling" /\ pending' = pending /\ added' = added
  BY DEF CallFunctor
<1>3. CASE taken[l] = <<>>
  <2>1. taken' = taken /\ ran' = ran /\ pc' = [pc EXCEPT ![l] = "event"]
    BY <1>3 DEF CallFunctor, Goto
  <2>2. FunctorType'
    BY <1>1, <1>2, <2>1 DEF FunctorType, LoopPlaces
  <2>3. CalledBeforeNext' /\ OthersHaveNone'
    BY <1>1, <1>2, <1>3, <2>1 DEF CalledBeforeNext, OthersHaveNone, FunctorType
  <2>4. FunctorsInOrder'
    BY <1>1, <1>2, <2>1 DEF FunctorsInOrder
  <2> QED
    BY <2>2, <2>3, <2>4 DEF FunctorInv
<1>4. CASE taken[l] # <<>>
  <2>1. /\ ran' = Append(ran, Head(taken[l])) /\ pc' = pc
        /\ taken' = [taken EXCEPT ![l] = Tail(taken[l])]
    BY <1>4 DEF CallFunctor
  <2>2. /\ taken[l] \in Seq(Functors) /\ pending[l] \in Seq(Functors)
        /\ ran \in Seq(Functors)
    BY <1>1 DEF FunctorType
  <2>3. /\ Append(ran, Head(taken[l])) \in Seq(Functors)
        /\ Tail(taken[l]) \in Seq(Functors)
        /\ Append(ran, Head(taken[l])) \o Tail(taken[l]) \o pending[l]
             = ran \o taken[l] \o pending[l]
    <3> DEFINE t == taken[l]  p == pending[l]
    <3>1. t \in Seq(Functors) /\ p \in Seq(Functors) /\ ran \in Seq(Functors) /\ t # <<>>
      BY <1>4, <2>2
    <3> HIDE DEF t, p
    <3>2. /\ Append(ran, Head(t)) \in Seq(Functors) /\ Tail(t) \in Seq(Functors)
          /\ Append(ran, Head(t)) \o Tail(t) \o p = ran \o t \o p
      BY <3>1, HeadMoves
    <3> QED
      BY <3>2 DEF t, p
  <2>4. FunctorType' /\ CalledBeforeNext' /\ OthersHaveNone'
    <3>1. l = Chosen
      BY <1>1, <1>4 DEF OthersHaveNone
    <3> QED
      BY <1>1, <1>2, <2>1, <2>3, <3>1
         DEF FunctorType, CalledBeforeNext, OthersHaveNone
  <2>5. FunctorsInOrder'
    <3>1. CASE l = Chosen
      <4>1. taken'[Chosen] = Tail(taken[l])
        BY <1>1, <2>1, <3>1, LoopSets DEF FunctorType
      <4> QED
        BY <1>1, <1>2, <2>1, <2>3, <3>1, <4>1 DEF FunctorsInOrder, Chosen
    <3>2. CASE l # Chosen
      BY <1>1, <1>4, <3>2 DEF OthersHaveNone
    <3> QED
      BY <3>1, <3>2
  <2> QED
    BY <2>4, <2>5 DEF FunctorInv
<1> QED
  BY <1>3, <1>4

LEMMA AddKeeps ==
    ASSUME FunctorInv, NEW f \in Functors, AddPendingFunctor(f)
    PROVE  FunctorInv'
<1>1. FunctorType /\ CalledBeforeNext /\ OthersHaveNone /\ FunctorsInOrder
  BY DEF FunctorInv
<1>2. /\ added' = Append(added, f)
      /\ pending' = [pending EXCEPT ![Chosen] = Append(pending[Chosen], f)]
      /\ pc' = pc /\ taken' = taken /\ ran' = ran
  <2>1. Target = Chosen
    BY LoopsAssumption DEF AddPendingFunctor, NoFunctorSlot, Target, Chosen
  <2> QED
    BY <2>1 DEF AddPendingFunctor, loopVars
<1>3. /\ pending[Chosen] \in Seq(Functors) /\ taken[Chosen] \in Seq(Functors)
      /\ ran \in Seq(Functors) /\ added \in Seq(Functors)
  BY <1>1, LoopSets DEF FunctorType
<1>4. /\ Append(pending[Chosen], f) \in Seq(Functors)
      /\ Append(added, f) \in Seq(Functors)
  BY <1>3, AppendProperties
<1>5. FunctorType' /\ CalledBeforeNext' /\ OthersHaveNone'
  BY <1>1, <1>2, <1>4 DEF FunctorType, CalledBeforeNext, OthersHaveNone
<1>6. FunctorsInOrder'
  <2>1. pending'[Chosen] = Append(pending[Chosen], f)
    BY <1>1, <1>2, LoopSets DEF FunctorType
  <2> DEFINE before == ran \o taken[Chosen]  p == pending[Chosen]
  <2>2. before \in Seq(Functors) /\ p \in Seq(Functors)
    BY <1>3, ConcatProperties
  <2>3. before \o p = added
    BY <1>1, OrderOfChosen
  <2> HIDE DEF before, p
  <2>4. before \o p \in Seq(Functors) /\ <<f>> \in Seq(Functors)
    BY <2>2, ConcatProperties
  <2>5. Append(p, f) = p \o <<f>> /\ Append(before \o p, f) = (before \o p) \o <<f>>
    BY <2>2, <2>4, AppendIsConcat
  <2>6. (before \o p) \o <<f>> = before \o (p \o <<f>>)
    BY <2>2, <2>4, ConcatAssociative
  <2>7. before \o Append(p, f) = Append(added, f)
    BY <2>3, <2>5, <2>6
  <2> QED
    BY <1>2, <2>1, <2>7 DEF before, p, FunctorsInOrder, Chosen
<1> QED
  BY <1>5, <1>6 DEF FunctorInv

LEMMA NextFunctors == FunctorInv /\ [Next]_vars => FunctorInv'
<1> SUFFICES ASSUME FunctorInv, [Next]_vars PROVE FunctorInv'
  OBVIOUS
<1> USE DEF functorVars, loopVars
<1>1. ASSUME NEW l \in Loops, LoopStep(l) PROVE FunctorInv'
  <2>1. CASE TakeFunctors(l) \/ CallFunctor(l)
    BY <2>1, TakeKeeps, CallKeeps
  <2>2. CASE \E i \in Items : DropEvent(l, i)
    BY <2>2, OtherKeeps DEF DropEvent
  <2>3. CASE StartSlave(l)
    BY <2>3, OtherKeeps DEF StartSlave, LoopPlaces
  <2>4. CASE TestStop(l)
    BY <2>4, OtherKeeps DEF TestStop, LoopPlaces
  <2>5. CASE Leave(l)
    BY <2>5, OtherKeeps DEF Leave, LoopPlaces
  <2>6. CASE CallWait(l)
    BY <2>6, OtherKeeps DEF CallWait, LoopPlaces
  <2>7. CASE WaitForEvents(l)
    BY <2>7, OtherKeeps DEF WaitForEvents, LoopPlaces
  <2>8. CASE EndOfBatch(l)
    BY <2>8, OtherKeeps DEF EndOfBatch, LoopPlaces
  <2>9. CASE \E i \in Items : DispatchEvent(l, i)
    BY <2>9, OtherKeeps DEF DispatchEvent, NextEvent, LoopPlaces
  <2>10. CASE l = Master /\ Accept
    BY <2>10, OtherKeeps DEF Accept, NextEvent, LoopPlaces
  <2>11. CASE l = Master /\ RegisterFd
    BY <2>11, OtherKeeps DEF RegisterFd, LoopPlaces
  <2>12. CASE l = Master /\ InsertHandler
    BY <2>12, OtherKeeps DEF InsertHandler, LoopPlaces
  <2> QED
    BY <1>1, <2>1, <2>2, <2>3, <2>4, <2>5, <2>6, <2>7, <2>8, <2>9, <2>10, <2>11,
       <2>12 DEF LoopStep
<1>2. CASE (\E c \in Conns : Connect(c) \/ ClientSend(c)) \/ UseDestroyed
           \/ HandlersRace \/ DivideByZero
  BY <1>2, OtherKeeps DEF Connect, ClientSend, UseDestroyed, HandlersRace, DivideByZero
<1>3. CASE ShutdownBegin \/ ShutdownStep
  BY <1>3, OtherKeeps DEF ShutdownBegin, ShutdownStep, ShutdownMaster, SlaveStop,
     SlaveClose, SlavesClear, PoolShutdown, ShutdownReturn
<1>4. CASE PoolStep
  BY <1>4, OtherKeeps DEF PoolStep, PoolStart, HandleEvent
<1>5. CASE UNCHANGED vars
  BY <1>5, OtherKeeps DEF vars
<1> QED
  BY <1>1, <1>2, <1>3, <1>4, <1>5, AddKeeps DEF Next

\* Pending functors are called once each, in the order of AddPendingFunctor and
\* by one loop, while others are added (Dispatcher::Dispatch, which moves them
\* out before it calls them), for any number of slaves and functors.
THEOREM FunctorsCalledInOrder == Spec => []FunctorsInOrder
<1>1. FunctorInv => FunctorsInOrder
  BY DEF FunctorInv
<1> QED
  BY <1>1, InitFunctors, NextFunctors, PTL DEF Spec

-------------------------------------------------------------------------------
(* The types.  Accept takes the head of the accept queue without a look:     *)
(* that there is one follows from the reports of the listening socket.       *)

\* Only a connection that was accepted is in an epoll set.
ArmedWereAccepted ==
    \A c \in Conns, l \in Loops : c \in armed[l] => conn[c] \in {"open", "closed"}

\* A connection waits in the accept queue once.
QueuedOnce ==
    /\ \A i \in DOMAIN accepting : conn[accepting[i]] = "waiting"
    /\ \A i, j \in DOMAIN accepting : accepting[i] = accepting[j] => i = j

\* The connection the master is about to register is in no epoll set.
AboutToRegister ==
    pc[Master] = "register" =>
        cur \in Conns /\ conn[cur] = "open" /\ \A l \in Loops : cur \notin armed[l]

\* Each report of the listening socket, in the epoll set or in the hands of
\* the master's loop, has a connection that waits.
Count(b) == IF b THEN 1 ELSE 0

ReportsHaveConnections ==
    Count(Listen \in ready[Master]) + Count(Listen \in batch[Master]) <= Len(accepting)

SocketType ==
    /\ conn \in [Conns -> {"new", "waiting", "open", "closed"}]
    /\ accepting \in Seq(Conns) /\ sent \subseteq Conns
    /\ armed \in [Loops -> SUBSET Items] /\ ready \in [Loops -> SUBSET Items]
    /\ handlers \in [Loops -> SUBSET Items]
    /\ \A l \in Loops : ready[l] \subseteq armed[l] /\ handlers[l] \subseteq armed[l]
    /\ \A l, k \in Loops : l # k => armed[l] \cap armed[k] = {}
    /\ batch \in [Loops -> SUBSET Items]
    /\ pc \in [Loops -> LoopPlaces] /\ cur \in Conns \cup {None}

SocketInv ==
    /\ SocketType /\ ArmedWereAccepted /\ QueuedOnce /\ AboutToRegister
    /\ ReportsHaveConnections

FlagType ==
    /\ stop \in [Loops -> BOOLEAN] /\ shutEpoll \subseteq Loops
    /\ closer \in {"none", "master", "slaves", "pool", "join", "returned"}
    /\ destroyed \in BOOLEAN /\ dropped \subseteq Items
    /\ crashed \in BOOLEAN

PoolType ==
    /\ backlog \in Seq(PoolTasks) /\ open \in BOOLEAN
    /\ status \in [PoolTasks -> {"new", "queued", "running", "done", "dropped"}]

LoopsInv == FunctorInv /\ SocketInv /\ FlagType /\ PoolType

socketVars == <<kernelVars, handlers, loopVars>>

LEMMA SetsOfLoops ==
    /\ NumSlaves \in Nat /\ Master \in Loops /\ Slaves \subseteq Loops
    /\ Master \notin Slaves
    /\ Target \in Loops /\ Listen \in Items /\ Conns \subseteq Items
    /\ Listen \notin Conns /\ None \notin Conns
BY LoopsAssumption DEF Loops, Slaves, Master, Target, Items

LEMMA InitLoops ==
    ASSUME Init
    PROVE  LoopsInv
<1>1. SocketInv
  <2>1. <<>> \in Seq(Conns) /\ Len(<<>>) = 0 /\ DOMAIN <<>> = {}
    BY EmptySeq
  <2>2. SocketType
    BY <2>1, SetsOfLoops DEF Init, SocketType, LoopPlaces
  <2>3. ArmedWereAccepted /\ AboutToRegister
    BY SetsOfLoops DEF Init, ArmedWereAccepted, AboutToRegister
  <2>4. QueuedOnce
    BY <2>1 DEF Init, QueuedOnce
  <2>5. ReportsHaveConnections
    <3>1. ready[Master] = {} /\ batch[Master] = {} /\ Len(accepting) = 0
      BY <2>1, SetsOfLoops DEF Init
    <3> QED
      BY <3>1 DEF ReportsHaveConnections, Count
  <2> QED
    BY <2>2, <2>3, <2>4, <2>5 DEF SocketInv
<1>2. FlagType
  BY DEF Init, FlagType
<1>3. PoolType
  <2>1. [l \in Slaves |-> <<"loop", l>>] \in Seq(PoolTasks)
    <3>1. \A l \in 1 .. NumSlaves : <<"loop", l>> \in PoolTasks
      BY DEF PoolTasks, Slaves
    <3> QED
      BY <3>1, SetsOfLoops, IsASeq DEF Slaves
  <2> QED
    BY <2>1 DEF Init, PoolType
<1> QED
  BY <1>1, <1>2, <1>3, InitFunctors DEF LoopsInv

\* A loop moves on, and not to RegisterFd.
LEMMA MovesOn ==
    ASSUME SocketInv, UNCHANGED <<kernelVars, handlers, batch>>,
           \/ pc' = pc /\ cur' = cur
           \/ \E l \in Loops, place \in LoopPlaces \ {"register"} :
                Goto(l, place) /\ cur' = cur
           \/ /\ \E place \in LoopPlaces \ {"register"} : Goto(Master, place)
              /\ cur' = None
    PROVE  SocketInv'
<1>1. SocketType' /\ AboutToRegister'
  BY SetsOfLoops DEF SocketInv, SocketType, AboutToRegister, kernelVars, Goto
<1>2. ArmedWereAccepted' /\ QueuedOnce' /\ ReportsHaveConnections'
  BY DEF SocketInv, ArmedWereAccepted, QueuedOnce, ReportsHaveConnections, kernelVars
<1> QED
  BY <1>1, <1>2 DEF SocketInv

LEMMA ConnectKeeps ==
    ASSUME SocketInv, NEW c \in Conns, Connect(c)
    PROVE  SocketInv'
<1>1. /\ SocketType /\ ArmedWereAccepted /\ QueuedOnce /\ AboutToRegister
      /\ ReportsHaveConnections
  BY DEF SocketInv
<1>2. /\ conn[c] = "new" /\ Listen \in armed[Master]
      /\ conn' = [conn EXCEPT ![c] = "waiting"]
      /\ accepting' = Append(accepting, c)
      /\ ready' = [ready EXCEPT ![Master] = ready[Master] \cup {Listen}]
      /\ UNCHANGED <<sent, armed, handlers, batch, pc, cur>>
  BY DEF Connect, loopVars
<1>3. /\ accepting' \in Seq(Conns) /\ Len(accepting) \in Nat
      /\ Len(accepting') = Len(accepting) + 1
      /\ \A i \in 1 .. Len(accepting) : accepting'[i] = accepting[i]
      /\ accepting'[Len(accepting) + 1] = c
      /\ DOMAIN accepting = 1 .. Len(accepting)
      /\ DOMAIN accepting' = 1 .. Len(accepting) + 1
  BY <1>1, <1>2, AppendProperties, LenProperties DEF SocketType
<1>4. SocketType'
  BY <1>1, <1>2, <1>3, SetsOfLoops DEF SocketType
<1>5. ArmedWereAccepted' /\ AboutToRegister'
  BY <1>1, <1>2 DEF ArmedWereAccepted, AboutToRegister, SocketType
<1>6. QueuedOnce'
  <2>1. \A i \in DOMAIN accepting : accepting[i] # c /\ accepting[i] \in Conns
    BY <1>1, <1>2, <1>3, ElementOfSeq DEF QueuedOnce, SocketType
  <2>2. \A i \in DOMAIN accepting' :
          i \in DOMAIN accepting \/ i = Len(accepting) + 1
    BY <1>3
  <2>3. \A i \in DOMAIN accepting' : conn'[accepting'[i]] = "waiting"
    BY <1>1, <1>2, <1>3, <2>1, <2>2 DEF QueuedOnce, SocketType
  <2>4. \A i, j \in DOMAIN accepting' : accepting'[i] = accepting'[j] => i = j
    BY <1>1, <1>3, <2>1, <2>2 DEF QueuedOnce
  <2> QED
    BY <2>3, <2>4 DEF QueuedOnce
<1>7. ReportsHaveConnections'
  <2>1. /\ Count(Listen \in batch[Master]) \in {0, 1}
        /\ Count(Listen \in ready[Master]) \in {0, 1}
        /\ Count(Listen \in ready'[Master]) \in {0, 1}
    BY DEF Count
  <2> DEFINE a == Count(Listen \in batch[Master])  b == Count(Listen \in ready[Master])
             d == Count(Listen \in ready'[Master])  n == Len(accepting)
  <2>2. b + a <= n
    BY <1>1 DEF ReportsHaveConnections
  <2>3. a \in {0, 1} /\ b \in {0, 1} /\ d \in {0, 1} /\ n \in Nat
    BY <1>3, <2>1
  <2> HIDE DEF a, b, d, n
  <2>4. d + a <= n + 1
    BY <2>2, <2>3
  <2> QED
    BY <1>2, <1>3, <2>4 DEF a, d, n, ReportsHaveConnections
<1> QED
  BY <1>4, <1>5, <1>6, <1>7 DEF SocketInv

LEMMA SendKeeps ==
    ASSUME SocketInv, NEW c \in Conns, ClientSend(c)
    PROVE  SocketInv'
<1>1. /\ SocketType /\ ArmedWereAccepted /\ QueuedOnce /\ AboutToRegister
      /\ ReportsHaveConnections
  BY DEF SocketInv
<1>2. /\ sent' = sent \cup {c}
      /\ ready' = [l \in Loops |-> IF c \in armed[l] THEN ready[l] \cup {c}
                                  ELSE ready[l]]
      /\ UNCHANGED <<conn, accepting, armed, handlers, batch, pc, cur>>
  BY DEF ClientSend, loopVars
<1>3. SocketType'
  BY <1>1, <1>2, SetsOfLoops DEF SocketType
<1>4. ArmedWereAccepted' /\ AboutToRegister' /\ QueuedOnce'
  BY <1>1, <1>2 DEF ArmedWereAccepted, AboutToRegister, QueuedOnce
<1>5. ReportsHaveConnections'
  <2>1. (Listen \in ready'[Master]) <=> (Listen \in ready[Master])
    BY <1>2, SetsOfLoops
  <2> QED
    BY <1>1, <1>2, <2>1 DEF ReportsHaveConnections, Count
<1> QED
  BY <1>3, <1>4, <1>5 DEF SocketInv

LEMMA WaitKeeps ==
    ASSUME SocketInv, NEW l \in Loops, WaitForEvents(l)
    PROVE  SocketInv'
<1>1. /\ SocketType /\ ArmedWereAccepted /\ QueuedOnce /\ AboutToRegister
      /\ ReportsHaveConnections
  BY DEF SocketInv
<1>2. /\ batch' = [batch EXCEPT ![l] = ready[l]]
      /\ ready' = [ready EXCEPT ![l] = {}]
      /\ pc' = [pc EXCEPT ![l] = "event"]
      /\ UNCHANGED <<conn, accepting, sent, armed, handlers, cur>>
  BY DEF WaitForEvents, Goto
<1>3. SocketType'
  BY <1>1, <1>2 DEF SocketType, LoopPlaces
<1>4. ArmedWereAccepted' /\ AboutToRegister' /\ QueuedOnce'
  BY <1>1, <1>2, SetsOfLoops DEF ArmedWereAccepted, AboutToRegister, QueuedOnce, SocketType
<1>5. ReportsHaveConnections'
  <2>1. CASE l = Master
    <3>1. ready'[Master] = {} /\ batch'[Master] = ready[Master]
      BY <1>1, <1>2, <2>1 DEF SocketType
    <3>2. Len(accepting) \in Nat
      BY <1>1, LenProperties DEF SocketType
    <3> QED
      BY <1>1, <1>2, <3>1, <3>2 DEF ReportsHaveConnections, Count
  <2>2. CASE l # Master
    <3>1. ready'[Master] = ready[Master] /\ batch'[Master] = batch[Master]
      BY <1>1, <1>2, <2>2, SetsOfLoops DEF SocketType
    <3> QED
      BY <1>1, <1>2, <3>1 DEF ReportsHaveConnections
  <2> QED
    BY <2>1, <2>2
<1> QED
  BY <1>3, <1>4, <1>5 DEF SocketInv

\* A loop is done with one event, and does not go on to RegisterFd.
LEMMA EventKeeps ==
    ASSUME SocketInv, NEW l \in Loops, NEW i \in Items, NextEvent(l, i),
           pc' = pc \/ Goto(l, "functors"),
           UNCHANGED <<kernelVars, handlers, cur>>
    PROVE  SocketInv'
<1>1. /\ SocketType /\ ArmedWereAccepted /\ QueuedOnce /\ AboutToRegister
      /\ ReportsHaveConnections
  BY DEF SocketInv
<1>2. /\ batch' = [batch EXCEPT ![l] = batch[l] \ {i}]
      /\ pc' = pc \/ pc' = [pc EXCEPT ![l] = "functors"]
      /\ UNCHANGED <<conn, accepting, sent, armed, ready, handlers, cur>>
  BY DEF NextEvent, Goto, kernelVars
<1>3. SocketType'
  BY <1>1, <1>2 DEF SocketType, LoopPlaces
<1>4. ArmedWereAccepted' /\ AboutToRegister' /\ QueuedOnce'
  BY <1>1, <1>2, SetsOfLoops DEF ArmedWereAccepted, AboutToRegister, QueuedOnce, SocketType
<1>5. ReportsHaveConnections'
  <2>1. (Listen \in batch'[Master]) => (Listen \in batch[Master])
    BY <1>1, <1>2, SetsOfLoops DEF SocketType
  <2>2. Len(accepting) \in Nat
    BY <1>1, LenProperties DEF SocketType
  <2> QED
    BY <1>1, <1>2, <2>1, <2>2 DEF ReportsHaveConnections, Count
<1> QED
  BY <1>3, <1>4, <1>5 DEF SocketInv

LEMMA AcceptKeeps ==
    ASSUME SocketInv, Accept
    PROVE  SocketInv'
<1>1. /\ SocketType /\ ArmedWereAccepted /\ QueuedOnce /\ AboutToRegister
      /\ ReportsHaveConnections
  BY DEF SocketInv
<1> DEFINE c == Head(accepting)
<1>2. /\ Listen \in batch[Master]
      /\ batch' = [batch EXCEPT ![Master] = batch[Master] \ {Listen}]
      /\ accepting' = Tail(accepting)
      /\ conn' = [conn EXCEPT ![c] = "open"]
      /\ cur' = c
      /\ pc' = [pc EXCEPT ![Master] = "register"]
      /\ UNCHANGED <<sent, armed, ready, handlers>>
  BY DEF Accept, NextEvent, Goto
<1>3. Len(accepting) \in Nat /\ Len(accepting) # 0 /\ accepting \in Seq(Conns)
  <2>1. Len(accepting) \in Nat /\ accepting \in Seq(Conns)
    BY <1>1, LenProperties DEF SocketType
  <2>2. Count(Listen \in batch[Master]) = 1 /\ Count(Listen \in ready[Master]) \in {0, 1}
    BY <1>2 DEF Count
  <2> QED
    BY <1>1, <2>1, <2>2 DEF ReportsHaveConnections
<1>4. /\ accepting # <<>> /\ c = accepting[1] /\ c \in Conns
      /\ Tail(accepting) \in Seq(Conns)
      /\ Len(Tail(accepting)) = Len(accepting) - 1
      /\ \A i \in 1 .. Len(Tail(accepting)) : Tail(accepting)[i] = accepting[i + 1]
      /\ DOMAIN accepting = 1 .. Len(accepting)
      /\ DOMAIN Tail(accepting) = 1 .. Len(accepting) - 1
  <2>1. accepting # <<>>
    BY <1>3, EmptySeq
  <2>2. /\ c = accepting[1] /\ c \in Conns
        /\ Tail(accepting) \in Seq(Conns)
        /\ Len(Tail(accepting)) = Len(accepting) - 1
        /\ \A i \in 1 .. Len(Tail(accepting)) : Tail(accepting)[i] = accepting[i + 1]
    BY <1>3, <2>1, HeadTailProperties
  <2> QED
    BY <1>3, <2>1, <2>2, LenProperties
<1> HIDE DEF c
<1>5. 1 \in DOMAIN accepting /\ conn[c] = "waiting"
  BY <1>1, <1>3, <1>4 DEF QueuedOnce
<1>6. SocketType'
  BY <1>1, <1>2, <1>4, SetsOfLoops DEF SocketType, LoopPlaces
<1>7. ArmedWereAccepted'
  BY <1>1, <1>2, <1>4 DEF ArmedWereAccepted, SocketType
<1>8. AboutToRegister'
  <2>1. \A l \in Loops : c \notin armed[l]
    BY <1>1, <1>4, <1>5 DEF ArmedWereAccepted
  <2>2. conn'[c] = "open"
    BY <1>1, <1>2, <1>4 DEF SocketType
  <2> QED
    BY <1>2, <1>4, <2>1, <2>2 DEF AboutToRegister
<1>9. QueuedOnce'
  <2>1. \A i \in DOMAIN accepting' :
          /\ i + 1 \in DOMAIN accepting /\ i + 1 # 1
          /\ accepting'[i] = accepting[i + 1]
    BY <1>2, <1>3, <1>4
  <2>2. \A i \in DOMAIN accepting' : accepting'[i] # c /\ accepting'[i] \in Conns
    <3>1. \A i \in DOMAIN accepting : accepting[i] \in Conns
      BY <1>3, <1>4, ElementOfSeq
    <3> QED
      BY <1>1, <1>4, <1>5, <2>1, <3>1 DEF QueuedOnce
  <2>3. \A i \in DOMAIN accepting' : conn'[accepting'[i]] = "waiting"
    BY <1>1, <1>2, <2>1, <2>2 DEF QueuedOnce, SocketType
  <2>4. \A i, j \in DOMAIN accepting' : accepting'[i] = accepting'[j] => i + 1 = j + 1
    BY <1>1, <2>1 DEF QueuedOnce
  <2>5. DOMAIN accepting' \subseteq Int
    BY <1>2, <1>4
  <2> QED
    BY <2>3, <2>4, <2>5 DEF QueuedOnce
<1>10. ReportsHaveConnections'
  <2>1. batch'[Master] = batch[Master] \ {Listen}
    BY <1>1, <1>2, SetsOfLoops DEF SocketType
  <2>2. /\ Count(Listen \in batch[Master]) = 1 /\ Count(Listen \in batch'[Master]) = 0
        /\ Count(Listen \in ready[Master]) \in {0, 1}
    BY <1>2, <2>1 DEF Count
  <2>3. Count(Listen \in ready[Master]) + 1 <= Len(accepting)
    BY <1>1, <2>2 DEF ReportsHaveConnections
  <2>4. Count(Listen \in ready[Master]) + 0 <= Len(accepting) - 1
    BY <1>3, <2>2, <2>3
  <2> QED
    BY <1>2, <1>4, <2>2, <2>4 DEF ReportsHaveConnections
<1> QED
  BY <1>6, <1>7, <1>8, <1>9, <1>10 DEF SocketInv

LEMMA RegisterKeeps ==
    ASSUME SocketInv, RegisterFd
    PROVE  SocketInv'
<1>1. /\ SocketType /\ ArmedWereAccepted /\ QueuedOnce /\ AboutToRegister
      /\ ReportsHaveConnections
  BY DEF SocketInv
<1>2. CASE stop[Target]
  <2>1. /\ Goto(Master, "functors") /\ cur' = None
        /\ UNCHANGED <<kernelVars, handlers, batch>>
    BY <1>2 DEF RegisterFd, kernelVars
  <2> QED
    BY <2>1, MovesOn DEF LoopPlaces
<1>3. CASE ~stop[Target]
  <2>1. /\ armed' = [armed EXCEPT ![Target] = armed[Target] \cup {cur}]
        /\ \/ ready' = ready
           \/ ready' = [ready EXCEPT ![Target] = ready[Target] \cup {cur}]
        /\ pc' = [pc EXCEPT ![Master] = "insert"]
        /\ UNCHANGED <<conn, accepting, sent, handlers, batch, cur>>
    BY <1>3 DEF RegisterFd, Goto
  <2>2. cur \in Conns /\ conn[cur] = "open" /\ \A l \in Loops : cur \notin armed[l]
    BY <1>1 DEF RegisterFd, AboutToRegister
  <2>3. SocketType'
    BY <1>1, <2>1, <2>2, SetsOfLoops DEF SocketType, LoopPlaces
  <2>4. ArmedWereAccepted' /\ QueuedOnce' /\ AboutToRegister'
    BY <1>1, <2>1, <2>2, SetsOfLoops
       DEF ArmedWereAccepted, QueuedOnce, AboutToRegister, SocketType
  <2>5. ReportsHaveConnections'
    <3>1. (Listen \in ready'[Master]) <=> (Listen \in ready[Master])
      BY <1>1, <2>1, <2>2, SetsOfLoops DEF SocketType
    <3> QED
      BY <1>1, <2>1, <3>1 DEF ReportsHaveConnections, Count
  <2> QED
    BY <2>3, <2>4, <2>5 DEF SocketInv
<1> QED
  BY <1>2, <1>3

LEMMA InsertKeeps ==
    ASSUME SocketInv, InsertHandler
    PROVE  SocketInv'
<1>1. /\ SocketType /\ ArmedWereAccepted /\ QueuedOnce /\ AboutToRegister
      /\ ReportsHaveConnections
  BY DEF SocketInv
<1>2. PICK l \in Loops :
        cur \in armed[l] /\ handlers' = [handlers EXCEPT ![l] = handlers[l] \cup {cur}]
  BY DEF InsertHandler
<1>3. /\ cur' = None /\ pc' = [pc EXCEPT ![Master] = "functors"]
      /\ UNCHANGED <<conn, accepting, sent, armed, ready, batch>>
  BY DEF InsertHandler, Goto, kernelVars
<1>4. SocketType'
  BY <1>1, <1>2, <1>3, SetsOfLoops DEF SocketType, LoopPlaces
<1>5. AboutToRegister'
  BY <1>1, <1>3, SetsOfLoops DEF AboutToRegister, SocketType
<1>6. ArmedWereAccepted' /\ QueuedOnce' /\ ReportsHaveConnections'
  BY <1>1, <1>3 DEF ArmedWereAccepted, QueuedOnce, ReportsHaveConnections
<1> QED
  BY <1>4, <1>5, <1>6 DEF SocketInv

\* Shutdown closes what is in the map, of the master or a slave, while the
\* loops run.
LEMMA CloseKeeps ==
    ASSUME SocketInv, NEW l \in Loops, CloseHandlers(l),
           UNCHANGED <<accepting, sent, loopVars>>
    PROVE  SocketInv'
<1>1. /\ SocketType /\ ArmedWereAccepted /\ QueuedOnce /\ AboutToRegister
      /\ ReportsHaveConnections
  BY DEF SocketInv
<1>2. /\ conn' = [c \in Conns |-> IF c \in handlers[l] THEN "closed" ELSE conn[c]]
      /\ armed' = [armed EXCEPT ![l] = armed[l] \ handlers[l]]
      /\ ready' = [ready EXCEPT ![l] = ready[l] \ handlers[l]]
      /\ handlers' = [handlers EXCEPT ![l] = {}]
      /\ UNCHANGED <<accepting, sent, batch, pc, cur>>
  BY DEF CloseHandlers, loopVars
<1>3. SocketType'
  BY <1>1, <1>2 DEF SocketType
<1>4. ArmedWereAccepted'
  BY <1>1, <1>2 DEF ArmedWereAccepted, SocketType
<1>5. AboutToRegister'
  <2>1. \A c \in Conns : (\A k \in Loops : c \notin armed[k]) =>
          conn'[c] = conn[c] /\ \A k \in Loops : c \notin armed'[k]
    BY <1>1, <1>2 DEF SocketType
  <2> QED
    BY <1>1, <1>2, <2>1 DEF AboutToRegister
<1>6. QueuedOnce'
  <2>1. \A i \in DOMAIN accepting : accepting[i] \in Conns
    BY <1>1, ElementOfSeq, LenProperties DEF SocketType
  <2>2. \A c \in Conns : conn[c] = "waiting" => conn'[c] = "waiting"
    BY <1>1, <1>2 DEF SocketType, ArmedWereAccepted
  <2> QED
    BY <1>1, <1>2, <2>1, <2>2 DEF QueuedOnce
<1>7. ReportsHaveConnections'
  <2>1. (Listen \in ready'[Master]) => (Listen \in ready[Master])
    BY <1>1, <1>2, SetsOfLoops DEF SocketType
  <2>2. Len(accepting) \in Nat
    BY <1>1, LenProperties DEF SocketType
  <2> QED
    BY <1>1, <1>2, <2>1, <2>2 DEF ReportsHaveConnections, Count
<1> QED
  BY <1>3, <1>4, <1>5, <1>6, <1>7 DEF SocketInv

LEMMA NextSockets == SocketInv /\ [Next]_vars => SocketInv'
<1> SUFFICES ASSUME SocketInv, [Next]_vars PROVE SocketInv'
  OBVIOUS
<1>1. ASSUME NEW l \in Loops, LoopStep(l) PROVE SocketInv'
  <2>1. CASE StartSlave(l) \/ TestStop(l) \/ Leave(l) \/ EndOfBatch(l) \/ TakeFunctors(l)
    <3>1. /\ UNCHANGED <<kernelVars, handlers, batch>> /\ cur' = cur
          /\ \E place \in {"test", "call", "out", "calling"} : Goto(l, place)
      BY <2>1 DEF StartSlave, TestStop, Leave, EndOfBatch, TakeFunctors
    <3> QED
      BY <3>1, MovesOn DEF LoopPlaces
  <2>2. CASE CallWait(l)
    BY <2>2, MovesOn DEF CallWait, LoopPlaces
  <2>3. CASE CallFunctor(l)
    BY <2>3, MovesOn DEF CallFunctor, LoopPlaces
  <2>4. CASE \E i \in Items : DropEvent(l, i) \/ DispatchEvent(l, i)
    BY <2>4, EventKeeps DEF DropEvent, DispatchEvent
  <2> QED
    BY <1>1, <2>1, <2>2, <2>3, <2>4, WaitKeeps, AcceptKeeps, RegisterKeeps, InsertKeeps
       DEF LoopStep
<1>2. CASE ShutdownStep
  <2>1. CASE ShutdownMaster \/ \E l \in Slaves : SlaveClose(l)
    BY <2>1, CloseKeeps, SetsOfLoops DEF ShutdownMaster, SlaveClose
  <2>2. CASE (\E l \in Slaves : SlaveStop(l)) \/ SlavesClear \/ PoolShutdown \/ ShutdownReturn
    BY <2>2, MovesOn DEF SlaveStop, SlavesClear, PoolShutdown, ShutdownReturn, loopVars
  <2> QED
    BY <1>2, <2>1, <2>2 DEF ShutdownStep
<1>3. CASE \/ UseDestroyed \/ HandlersRace \/ DivideByZero \/ ShutdownBegin \/ PoolStep
           \/ (\E f \in Functors : AddPendingFunctor(f)) \/ UNCHANGED vars
  BY <1>3, MovesOn DEF UseDestroyed, HandlersRace, DivideByZero, ShutdownBegin,
     PoolStep, PoolStart, HandleEvent, AddPendingFunctor, vars, loopVars
<1> QED
  BY <1>1, <1>2, <1>3, ConnectKeeps, SendKeeps DEF Next

LEMMA NextFlags == SocketInv /\ FlagType /\ [Next]_vars => FlagType'
<1> SUFFICES ASSUME SocketInv, FlagType, [Next]_vars PROVE FlagType'
  OBVIOUS
<1> USE SetsOfLoops DEF FlagType, closeVars
<1>1. ASSUME NEW l \in Loops, LoopStep(l) PROVE FlagType'
  <2>1. CASE \E i \in Items : DropEvent(l, i) \/ DispatchEvent(l, i)
    BY <2>1 DEF DropEvent, DispatchEvent
  <2>2. CASE \/ StartSlave(l) \/ TestStop(l) \/ Leave(l) \/ CallWait(l)
             \/ WaitForEvents(l) \/ EndOfBatch(l) \/ TakeFunctors(l) \/ CallFunctor(l)
    BY <2>2 DEF StartSlave, TestStop, Leave, CallWait, WaitForEvents, EndOfBatch,
       TakeFunctors, CallFunctor
  <2>3. CASE Accept \/ RegisterFd \/ InsertHandler
    BY <2>3 DEF Accept, RegisterFd, InsertHandler
  <2> QED
    BY <1>1, <2>1, <2>2, <2>3 DEF LoopStep
<1>2. CASE ShutdownBegin \/ ShutdownStep
  BY <1>2 DEF ShutdownBegin, ShutdownStep, ShutdownMaster, SlaveStop, SlaveClose,
     SlavesClear, PoolShutdown, ShutdownReturn
<1>3. CASE \/ UseDestroyed \/ HandlersRace \/ DivideByZero \/ PoolStep
           \/ (\E f \in Functors : AddPendingFunctor(f)) \/ UNCHANGED vars
           \/ \E c \in Conns : Connect(c) \/ ClientSend(c)
  BY <1>3 DEF UseDestroyed, HandlersRace, DivideByZero, PoolStep, PoolStart,
     HandleEvent, AddPendingFunctor, vars, Connect, ClientSend
<1> QED
  BY <1>1, <1>2, <1>3 DEF Next

\* What the loops and Shutdown ask of the pool keeps it typed.
LEMMA PoolKeeps ==
    ASSUME PoolType,
           \/ \E t \in PoolTasks : Pool!Accept(t) \/ Pool!Finish(t)
           \/ Pool!Start \/ Pool!Close \/ Pool!Discard
           \/ UNCHANGED poolVars
    PROVE  PoolType'
<1>1. ASSUME NEW t \in PoolTasks, Pool!Accept(t) PROVE PoolType'
  <2>1. Append(backlog, t) \in Seq(PoolTasks)
    BY AppendProperties DEF PoolType
  <2> QED
    BY <1>1, <2>1 DEF PoolType, Pool!Accept
<1>2. ASSUME NEW t \in PoolTasks, Pool!Finish(t) PROVE PoolType'
  BY <1>2 DEF PoolType, Pool!Finish
<1>3. CASE Pool!Start
  <2>1. Tail(backlog) \in Seq(PoolTasks)
    BY <1>3, HeadTailProperties DEF PoolType, Pool!Start
  <2> QED
    BY <1>3, <2>1 DEF PoolType, Pool!Start
<1>4. CASE Pool!Close
  BY <1>4 DEF PoolType, Pool!Close
<1>5. CASE Pool!Discard
  <2>1. <<>> \in Seq(PoolTasks)
    BY EmptySeq
  <2> QED
    BY <1>5, <2>1 DEF PoolType, Pool!Discard
<1>6. CASE UNCHANGED poolVars
  BY <1>6 DEF PoolType, poolVars
<1> QED
  BY <1>1, <1>2, <1>3, <1>4, <1>5, <1>6

\* What the pool sees of a step: one of the executor's, or nothing.
LEMMA PoolSees == SocketInv /\ [Next]_vars => [Pool!Next]_(Pool!vars)
<1> SUFFICES ASSUME SocketInv, [Next]_vars PROVE Pool!Next \/ UNCHANGED Pool!vars
  OBVIOUS
<1> USE DEF poolVars, Pool!vars
<1>1. ASSUME NEW l \in Loops, LoopStep(l) PROVE Pool!Next \/ UNCHANGED Pool!vars
  <2>1. CASE \E i \in Items : DropEvent(l, i) \/ DispatchEvent(l, i)
    <3>1. handlers[l] \subseteq Items
      BY DEF SocketInv, SocketType
    <3>2. \A c \in handlers[l] \ {Listen} : <<"event", c>> \in PoolTasks
      BY <3>1 DEF PoolTasks, Items
    <3> QED
      BY <2>1, <3>2 DEF DropEvent, DispatchEvent, Pool!Next
  <2>2. CASE Leave(l)
    <3>1. l # Master => <<"loop", l>> \in PoolTasks
      BY DEF PoolTasks, Loops
    <3> QED
      BY <2>2, <3>1 DEF Leave, Pool!Next
  <2>3. CASE \/ StartSlave(l) \/ TestStop(l) \/ CallWait(l)
             \/ WaitForEvents(l) \/ EndOfBatch(l) \/ TakeFunctors(l) \/ CallFunctor(l)
    BY <2>3 DEF StartSlave, TestStop, CallWait, WaitForEvents, EndOfBatch,
       TakeFunctors, CallFunctor
  <2>4. CASE Accept \/ RegisterFd \/ InsertHandler
    BY <2>4 DEF Accept, RegisterFd, InsertHandler
  <2> QED
    BY <1>1, <2>1, <2>2, <2>3, <2>4 DEF LoopStep
<1>2. CASE ShutdownBegin \/ ShutdownStep
  BY <1>2 DEF ShutdownBegin, ShutdownStep, ShutdownMaster, SlaveStop, SlaveClose,
     SlavesClear, PoolShutdown, ShutdownReturn, Pool!Next
<1>3. CASE PoolStep
  <2>1. \A c \in Conns : <<"event", c>> \in PoolTasks
    BY DEF PoolTasks
  <2> QED
    BY <1>3, <2>1 DEF PoolStep, PoolStart, HandleEvent, Pool!Next
<1>4. CASE \/ UseDestroyed \/ HandlersRace \/ DivideByZero
           \/ (\E f \in Functors : AddPendingFunctor(f)) \/ UNCHANGED vars
           \/ \E c \in Conns : Connect(c) \/ ClientSend(c)
  BY <1>4 DEF UseDestroyed, HandlersRace, DivideByZero, AddPendingFunctor, vars, Connect,
     ClientSend
<1> QED
  BY <1>1, <1>2, <1>3, <1>4 DEF Next

LEMMA NextPool == SocketInv /\ PoolType /\ [Next]_vars => PoolType'
BY PoolSees, PoolKeeps DEF Pool!Next, Pool!vars, poolVars

LEMMA LoopsInvHolds == Spec => []LoopsInv
<1>1. LoopsInv /\ [Next]_vars => LoopsInv'
  BY NextFunctors, NextSockets, NextFlags, NextPool DEF LoopsInv
<1> QED
  BY <1>1, InitLoops, PTL DEF Spec

\* Type correctness for any connections, functors, slaves and workers: a
\* socket is in at most one epoll set, and only the loop of that set reports
\* it or has its handler; whenever AcceptHandler is called there is a
\* connection to accept.
THEOREM LoopsTypeCorrect == Spec => []TypeOK
<1>1. LoopsInv => TypeOK
  BY DEF LoopsInv, FunctorInv, FunctorType, SocketInv, SocketType, FlagType, PoolType,
     TypeOK
<1> QED
  BY <1>1, LoopsInvHolds, PTL

\* The loops and Shutdown use the global pool as TaskExecutor lets them, and as
\* nothing more: each event is handed over once (Dispatcher.h:69), a slave's
\* loop ends by the return of its task, and the backlog is discarded only
\* after the pool is closed.
THEOREM LoopsUseExecutor == Spec => [][Pool!Next]_(Pool!vars)
<1>1. LoopsInv /\ [Next]_vars => [Pool!Next]_(Pool!vars)
  BY PoolSees DEF LoopsInv
<1> QED
  BY <1>1, LoopsInvHolds, PTL DEF Spec

-------------------------------------------------------------------------------
(* The life of a task in the pool.                                           *)

\* The backlog holds queued tasks, each once.
PoolOrder ==
    /\ \A i \in DOMAIN backlog : status[backlog[i]] = "queued"
    /\ \A i, j \in DOMAIN backlog : backlog[i] = backlog[j] => i = j

LEMMA InitOrder == Init => PoolOrder
<1> SUFFICES ASSUME Init PROVE PoolOrder
  OBVIOUS
<1>1. /\ backlog = [l \in Slaves |-> <<"loop", l>>]
      /\ status = [t \in PoolTasks |-> IF t[1] = "loop" THEN "queued" ELSE "new"]
  BY DEF Init
<1>2. \A l \in Slaves : <<"loop", l>> \in PoolTasks
  BY DEF PoolTasks
<1>3. \A l \in Slaves : status[<<"loop", l>>] = "queued"
  BY <1>1, <1>2
<1> QED
  BY <1>1, <1>3 DEF PoolOrder

\* What Start takes from the backlog, and what is left.
LEMMA HeadOfBacklog ==
    ASSUME PoolType, PoolOrder, backlog # <<>>
    PROVE  /\ Head(backlog) \in PoolTasks /\ status[Head(backlog)] = "queued"
           /\ \A i \in DOMAIN Tail(backlog) :
                /\ i + 1 \in DOMAIN backlog /\ i + 1 # 1
                /\ Tail(backlog)[i] = backlog[i + 1]
                /\ Tail(backlog)[i] # Head(backlog)
<1>1. backlog \in Seq(PoolTasks) /\ Len(backlog) \in Nat \ {0} /\ Head(backlog) = backlog[1]
      /\ DOMAIN backlog = 1 .. Len(backlog)
  BY EmptySeq, LenProperties DEF PoolType
<1>2. /\ Head(backlog) \in PoolTasks /\ Tail(backlog) \in Seq(PoolTasks)
      /\ Len(Tail(backlog)) = Len(backlog) - 1
      /\ \A i \in 1 .. Len(Tail(backlog)) : Tail(backlog)[i] = backlog[i + 1]
  BY <1>1, HeadTailProperties
<1>3. DOMAIN Tail(backlog) = 1 .. Len(backlog) - 1
  BY <1>2, LenProperties
<1>4. status[Head(backlog)] = "queued"
  BY <1>1 DEF PoolOrder
<1>5. ASSUME NEW i \in DOMAIN Tail(backlog)
      PROVE  /\ i + 1 \in DOMAIN backlog /\ i + 1 # 1
             /\ Tail(backlog)[i] = backlog[i + 1]
  BY <1>1, <1>2, <1>3
<1>6. ASSUME NEW i \in DOMAIN Tail(backlog)
      PROVE  backlog[i + 1] # backlog[1]
  <2>1. 1 \in DOMAIN backlog
    BY <1>1
  <2> QED
    BY <1>5, <2>1 DEF PoolOrder
<1> QED
  BY <1>1, <1>2, <1>4, <1>5, <1>6

LEMMA NextOrder ==
    ASSUME PoolType, PoolOrder, [Pool!Next]_(Pool!vars)
    PROVE  PoolOrder'
<1>1. ASSUME NEW t \in PoolTasks, Pool!Accept(t) PROVE PoolOrder'
  <2>1. /\ status[t] = "new" /\ backlog' = Append(backlog, t)
        /\ status' = [status EXCEPT ![t] = "queued"]
    BY <1>1 DEF Pool!Accept
  <2>2. /\ Len(backlog) \in Nat
        /\ \A i \in 1 .. Len(backlog) : backlog'[i] = backlog[i]
        /\ backlog'[Len(backlog) + 1] = t
        /\ DOMAIN backlog = 1 .. Len(backlog)
        /\ DOMAIN backlog' = 1 .. Len(backlog) + 1
    BY <2>1, AppendProperties, LenProperties DEF PoolType
  <2>3. \A i \in DOMAIN backlog : backlog[i] # t /\ backlog[i] \in PoolTasks
    BY <2>1, <2>2, ElementOfSeq DEF PoolOrder, PoolType
  <2>4. \A i \in DOMAIN backlog' :
          \/ i \in DOMAIN backlog /\ backlog'[i] = backlog[i]
          \/ i = Len(backlog) + 1 /\ backlog'[i] = t
    BY <2>2
  <2>5. \A i \in DOMAIN backlog' : status'[backlog'[i]] = "queued"
    BY <2>1, <2>3, <2>4 DEF PoolOrder, PoolType
  <2>6. \A i, j \in DOMAIN backlog' : backlog'[i] = backlog'[j] => i = j
    BY <2>3, <2>4 DEF PoolOrder
  <2> QED
    BY <2>5, <2>6 DEF PoolOrder
<1>2. ASSUME NEW t \in PoolTasks, Pool!Finish(t) PROVE PoolOrder'
  <2>1. \A i \in DOMAIN backlog : backlog[i] # t
    BY <1>2 DEF Pool!Finish, PoolOrder
  <2> QED
    BY <1>2, <2>1 DEF Pool!Finish, PoolOrder, PoolType
<1>3. CASE Pool!Start
  <2>1. /\ backlog # <<>> /\ backlog' = Tail(backlog)
        /\ status' = [status EXCEPT ![Head(backlog)] = "running"]
    BY <1>3 DEF Pool!Start
  <2>2. \A i \in DOMAIN backlog' :
          /\ i + 1 \in DOMAIN backlog /\ backlog'[i] = backlog[i + 1]
          /\ backlog'[i] # Head(backlog)
    BY <2>1, HeadOfBacklog
  <2>3. DOMAIN backlog' \subseteq Int
    <3>1. backlog' \in Seq(PoolTasks)
      BY <2>1, HeadTailProperties DEF PoolType
    <3> QED
      BY <3>1, LenProperties
  <2>4. \A i \in DOMAIN backlog' : status'[backlog'[i]] = "queued"
    BY <2>1, <2>2 DEF PoolOrder, PoolType
  <2>5. \A i, j \in DOMAIN backlog' : backlog'[i] = backlog'[j] => i + 1 = j + 1
    BY <2>2 DEF PoolOrder
  <2> QED
    BY <2>3, <2>4, <2>5 DEF PoolOrder
<1>4. CASE Pool!Discard
  <2>1. DOMAIN backlog' = {}
    BY <1>4 DEF Pool!Discard
  <2> QED
    BY <2>1 DEF PoolOrder
<1>5. CASE Pool!Close \/ UNCHANGED Pool!vars
  BY <1>5 DEF Pool!Close, Pool!vars, PoolOrder
<1> QED
  BY <1>1, <1>2, <1>3, <1>4, <1>5 DEF Pool!Next

\* A task is new until it is accepted.
LEMMA NewStaysNew ==
    ASSUME PoolType, PoolOrder,
           \/ \E t \in PoolTasks : Pool!Finish(t)
           \/ Pool!Start \/ Pool!Close \/ Pool!Discard \/ UNCHANGED poolVars,
           NEW u \in PoolTasks
    PROVE  (status'[u] = "new") <=> (status[u] = "new")
<1>1. CASE \E t \in PoolTasks : Pool!Finish(t)
  BY <1>1 DEF Pool!Finish, PoolType
<1>2. CASE Pool!Start
  BY <1>2, HeadOfBacklog DEF Pool!Start, PoolType
<1>3. CASE Pool!Discard
  BY <1>3 DEF Pool!Discard, PoolType
<1>4. CASE Pool!Close \/ UNCHANGED poolVars
  BY <1>4 DEF Pool!Close, poolVars
<1> QED
  BY <1>1, <1>2, <1>3, <1>4

-------------------------------------------------------------------------------
(* The event of a connection, from epoll_wait to the pool.                   *)

Event(c) == <<"event", c>>
Reported(c) == \E l \in Loops : c \in ready[l] \/ c \in batch[l]
Untouched(c) == ~Reported(c) /\ status[Event(c)] = "new" /\ c \notin dropped

\* One loop at most has the event in hand, and it is not reported again.
ReportedOnce ==
    \A c \in Conns, l, k \in Loops :
        /\ c \in batch[l] => c \notin ready[k]
        /\ c \in batch[l] /\ c \in batch[k] => l = k

\* The pool has the event only after a loop is done with it, unless the loop
\* dropped it.
HandedOnce ==
    \A c \in Conns :
        /\ Reported(c) => status[Event(c)] = "new" /\ c \notin dropped
        /\ c \in dropped => status[Event(c)] = "new"

\* An event a client has raised on a socket of an epoll set is somewhere.
RaisedIsSomewhere ==
    \A c \in sent, l \in Loops : c \in armed[l] =>
        Reported(c) \/ status[Event(c)] # "new" \/ c \in dropped

EventAccounting == ReportedOnce /\ HandedOnce /\ RaisedIsSomewhere

\* Only what a client sent is reported.
ReportedWasSent ==
    \A c \in Conns :
        Reported(c) \/ status[Event(c)] # "new" \/ c \in dropped => c \in sent

\* Nothing is known of a connection before it is registered.
UnknownBefore ==
    /\ \A c \in Conns : conn[c] \in {"new", "waiting"} => Untouched(c)
    /\ pc[Master] = "register" => Untouched(cur)

\* A loop waits for more only when it has been through what it was told.
BetweenBatches == {"queued", "test", "call", "blocked", "out"}

BatchIsDone == \A l \in Loops : pc[l] \in BetweenBatches => batch[l] = {}

EventInv == EventAccounting /\ ReportedWasSent /\ UnknownBefore /\ BatchIsDone

LEMMA EventTasks == \A c \in Conns : Event(c) \in PoolTasks
BY DEF Event, PoolTasks

LEMMA InitEvents == Init => EventInv
<1> SUFFICES ASSUME Init PROVE EventInv
  OBVIOUS
<1>1. \A l \in Loops : ready[l] = {} /\ batch[l] = {}
  BY DEF Init
<1>2. sent = {} /\ dropped = {} /\ pc[Master] # "register"
  BY SetsOfLoops DEF Init
<1>3. ASSUME NEW c \in Conns PROVE status[Event(c)] = "new"
  <2>1. status = [t \in PoolTasks |-> IF t[1] = "loop" THEN "queued" ELSE "new"]
    BY DEF Init
  <2>2. Event(c)[1] = "event"
    BY DEF Event
  <2> QED
    BY <2>1, <2>2, EventTasks
<1>4. \A c \in Conns : Untouched(c)
  BY <1>1, <1>2, <1>3 DEF Untouched, Reported
<1>5. EventAccounting
  BY <1>1, <1>2, <1>3 DEF EventAccounting, ReportedOnce, HandedOnce, RaisedIsSomewhere,
     Reported
<1> QED
  BY <1>1, <1>2, <1>4, <1>5 DEF EventInv, ReportedWasSent, UnknownBefore, Untouched,
     BatchIsDone

\* A step that moves no event.
LEMMA EventsStay ==
    ASSUME SocketInv, EventInv,
           UNCHANGED <<sent, armed, ready, batch, dropped>>,
           \A c \in Conns : conn'[c] \in {"new", "waiting"} =>
               conn[c] \in {"new", "waiting"},
           \A c \in Conns : (status'[Event(c)] = "new") <=> (status[Event(c)] = "new"),
           pc'[Master] = "register" => pc[Master] = "register" /\ cur' = cur,
           \A l \in Loops : pc'[l] \in BetweenBatches =>
               pc[l] \in BetweenBatches \/ batch[l] = {}
    PROVE  EventInv'
<1>1. \A c \in Conns : (Reported(c)' <=> Reported(c)) /\ (Untouched(c)' <=> Untouched(c))
  BY DEF Reported, Untouched
<1>2. ReportedOnce' /\ HandedOnce' /\ ReportedWasSent'
  BY <1>1 DEF EventInv, EventAccounting, ReportedOnce, HandedOnce, ReportedWasSent
<1>3. RaisedIsSomewhere'
  <2>1. sent \subseteq Conns
    BY DEF SocketInv, SocketType
  <2> QED
    BY <1>1, <2>1 DEF EventInv, EventAccounting, RaisedIsSomewhere
<1>4. UnknownBefore'
  <2>1. pc[Master] = "register" => cur \in Conns
    BY DEF SocketInv, AboutToRegister
  <2> QED
    BY <1>1, <2>1 DEF EventInv, UnknownBefore
<1>5. BatchIsDone'
  BY DEF EventInv, BatchIsDone
<1> QED
  BY <1>2, <1>3, <1>4, <1>5 DEF EventInv, EventAccounting

LEMMA EventSend ==
    ASSUME SocketInv, PoolType, EventInv, NEW c \in Conns, ClientSend(c)
    PROVE  EventInv'
<1>1. /\ c \notin sent /\ sent' = sent \cup {c} /\ conn[c] \in {"waiting", "open"}
      /\ ready' = [l \in Loops |-> IF c \in armed[l] THEN ready[l] \cup {c}
                                  ELSE ready[l]]
      /\ UNCHANGED <<conn, armed, batch, pc, cur, dropped, status>>
  BY DEF ClientSend, loopVars, poolVars
<1>2. ~Reported(c) /\ status[Event(c)] = "new" /\ c \notin dropped
  BY <1>1 DEF EventInv, ReportedWasSent
<1>3. ASSUME NEW d \in Conns, d # c
      PROVE  (Reported(d)' <=> Reported(d)) /\ (Untouched(d)' <=> Untouched(d))
  BY <1>1, <1>3 DEF Reported, Untouched
<1>4. Reported(c)' <=> \E l \in Loops : c \in armed[l]
  BY <1>1, <1>2 DEF Reported
<1>5. ReportedOnce'
  BY <1>1, <1>2 DEF EventInv, EventAccounting, ReportedOnce, Reported
<1>6. HandedOnce' /\ ReportedWasSent'
  BY <1>1, <1>2, <1>3 DEF EventInv, EventAccounting, HandedOnce, ReportedWasSent
<1>7. RaisedIsSomewhere'
  <2>1. sent \subseteq Conns
    BY DEF SocketInv, SocketType
  <2> QED
    BY <1>1, <1>3, <1>4, <2>1 DEF EventInv, EventAccounting, RaisedIsSomewhere
<1>8. UnknownBefore'
  <2>1. conn[c] \in {"new", "waiting"} \/ (pc[Master] = "register" /\ cur = c) =>
          ~Reported(c)'
    BY <1>4 DEF SocketInv, AboutToRegister, ArmedWereAccepted
  <2>2. conn[c] \in {"new", "waiting"} \/ (pc[Master] = "register" /\ cur = c) =>
          Untouched(c)'
    BY <1>1, <1>2, <2>1 DEF Untouched
  <2>3. pc[Master] = "register" => cur \in Conns
    BY DEF SocketInv, AboutToRegister
  <2> QED
    BY <1>1, <1>3, <2>2, <2>3 DEF EventInv, UnknownBefore
<1>9. BatchIsDone'
  BY <1>1 DEF EventInv, BatchIsDone
<1> QED
  BY <1>5, <1>6, <1>7, <1>8, <1>9 DEF EventInv, EventAccounting

LEMMA EventWait ==
    ASSUME SocketInv, EventInv, NEW l \in Loops, WaitForEvents(l)
    PROVE  EventInv'
<1>1. /\ batch' = [batch EXCEPT ![l] = ready[l]]
      /\ ready' = [ready EXCEPT ![l] = {}]
      /\ pc' = [pc EXCEPT ![l] = "event"] /\ pc[l] = "blocked"
      /\ UNCHANGED <<conn, armed, sent, cur, dropped, status>>
  BY DEF WaitForEvents, Goto, poolVars
<1>2. /\ ready \in [Loops -> SUBSET Items] /\ batch \in [Loops -> SUBSET Items]
      /\ pc \in [Loops -> LoopPlaces] /\ sent \subseteq Conns
      /\ \A k, j \in Loops : k # j => ready[k] \cap ready[j] = {}
      /\ pc[Master] = "register" => cur \in Conns
  BY DEF SocketInv, SocketType, AboutToRegister
<1>3. batch[l] = {}
  BY <1>1 DEF EventInv, BatchIsDone, BetweenBatches
<1>4. \A c \in Conns : (Reported(c)' <=> Reported(c)) /\ (Untouched(c)' <=> Untouched(c))
  BY <1>1, <1>2, <1>3 DEF Reported, Untouched
<1>5. ReportedOnce'
  BY <1>1, <1>2, <1>3 DEF EventInv, EventAccounting, ReportedOnce
<1>6. HandedOnce' /\ ReportedWasSent' /\ RaisedIsSomewhere' /\ UnknownBefore'
  <2>1. pc'[Master] = "register" => pc[Master] = "register"
    BY <1>1, <1>2
  <2> QED
    BY <1>1, <1>2, <1>4, <2>1 DEF EventInv, EventAccounting, HandedOnce, ReportedWasSent,
       RaisedIsSomewhere, UnknownBefore
<1>7. BatchIsDone'
  BY <1>1, <1>2 DEF EventInv, BatchIsDone, BetweenBatches
<1> QED
  BY <1>5, <1>6, <1>7 DEF EventInv, EventAccounting

\* A loop drops an event or hands it over.
LEMMA EventLeaves ==
    ASSUME SocketInv, PoolType, EventInv, NEW l \in Loops, NEW i \in Items,
           DropEvent(l, i) \/ DispatchEvent(l, i)
    PROVE  EventInv'
<1>1. /\ pc[l] = "event" /\ i \in batch[l]
      /\ batch' = [batch EXCEPT ![l] = batch[l] \ {i}]
      /\ UNCHANGED <<conn, armed, sent, ready, cur>>
  BY DEF DropEvent, DispatchEvent, NextEvent, kernelVars
<1>2. /\ batch \in [Loops -> SUBSET Items] /\ pc \in [Loops -> LoopPlaces]
      /\ sent \subseteq Conns
      /\ pc[Master] = "register" => cur \in Conns
      /\ \A c \in Conns : Event(c) \in PoolTasks
      /\ status \in [PoolTasks -> {"new", "queued", "running", "done", "dropped"}]
  BY EventTasks DEF SocketInv, SocketType, AboutToRegister, PoolType
<1>3. \/ dropped' = dropped \cup {i} /\ status' = status
      \/ /\ i \in Conns /\ dropped' = dropped
         /\ status' = [status EXCEPT ![Event(i)] = "queued"]
  <2>1. CASE DropEvent(l, i)
    BY <2>1 DEF DropEvent, poolVars
  <2>2. CASE DispatchEvent(l, i)
    <3>1. i \in Conns
      BY <2>2 DEF DispatchEvent, SocketInv, SocketType, Items
    <3> QED
      BY <2>2, <3>1 DEF DispatchEvent, Pool!Accept, Event
  <2> QED
    BY <2>1, <2>2
<1>4. pc' = pc \/ pc' = [pc EXCEPT ![l] = "functors"]
  BY DEF DropEvent, DispatchEvent, Goto
<1>5. ASSUME i \in Conns PROVE Reported(i) /\ ~Reported(i)'
  BY <1>1, <1>2, <1>5 DEF Reported, EventInv, EventAccounting, ReportedOnce
<1>6. ASSUME i \in Conns
      PROVE  \/ i \in dropped' /\ status'[Event(i)] = "new"
             \/ i \notin dropped' /\ status'[Event(i)] # "new"
  BY <1>2, <1>3, <1>5, <1>6 DEF EventInv, EventAccounting, HandedOnce
<1>7. ASSUME NEW c \in Conns, c # i
      PROVE  /\ (Reported(c)' <=> Reported(c))
             /\ status'[Event(c)] = status[Event(c)]
             /\ (c \in dropped' <=> c \in dropped)
  <2>1. i \in Conns => Event(c) # Event(i)
    BY <1>7 DEF Event
  <2> QED
    BY <1>1, <1>2, <1>3, <1>7, <2>1 DEF Reported
<1>8. ReportedOnce'
  BY <1>1, <1>2 DEF EventInv, EventAccounting, ReportedOnce
<1>9. HandedOnce'
  BY <1>5, <1>6, <1>7 DEF EventInv, EventAccounting, HandedOnce
<1>10. RaisedIsSomewhere'
  BY <1>1, <1>2, <1>6, <1>7 DEF EventInv, EventAccounting, RaisedIsSomewhere
<1>11. ReportedWasSent'
  BY <1>1, <1>5, <1>7 DEF EventInv, ReportedWasSent
<1>12. UnknownBefore'
  <2>1. pc'[Master] = "register" => pc[Master] = "register"
    BY <1>1, <1>2, <1>4, SetsOfLoops
  <2>2. i \in Conns => conn[i] \notin {"new", "waiting"}
                        /\ ~(pc[Master] = "register" /\ cur = i)
    BY <1>5 DEF EventInv, UnknownBefore, Untouched
  <2> QED
    BY <1>1, <1>2, <1>7, <2>1, <2>2 DEF EventInv, UnknownBefore, Untouched
<1>13. BatchIsDone'
  BY <1>1, <1>2, <1>4 DEF EventInv, BatchIsDone, BetweenBatches
<1> QED
  BY <1>8, <1>9, <1>10, <1>11, <1>12, <1>13 DEF EventInv, EventAccounting

LEMMA EventAccept ==
    ASSUME SocketInv, EventInv, Accept
    PROVE  EventInv'
<1> DEFINE a == Head(accepting)
<1>1. /\ pc[Master] = "event" /\ Listen \in batch[Master]
      /\ batch' = [batch EXCEPT ![Master] = batch[Master] \ {Listen}]
      /\ accepting' = Tail(accepting)
      /\ conn' = [conn EXCEPT ![a] = "open"] /\ cur' = a
      /\ pc' = [pc EXCEPT ![Master] = "register"]
      /\ UNCHANGED <<sent, armed, ready, dropped, status>>
  BY DEF Accept, NextEvent, Goto, poolVars
<1>2. a \in Conns /\ conn[a] = "waiting"
  <2>1. Len(accepting) \in Nat /\ accepting \in Seq(Conns) /\ accepting # <<>>
    <3>1. Len(accepting) \in Nat /\ accepting \in Seq(Conns)
      BY LenProperties DEF SocketInv, SocketType
    <3>2. Count(Listen \in batch[Master]) = 1 /\ Count(Listen \in ready[Master]) \in {0, 1}
      BY <1>1 DEF Count
    <3>3. Len(accepting) # 0
      BY <3>1, <3>2 DEF SocketInv, ReportsHaveConnections
    <3> QED
      BY <3>1, <3>3, EmptySeq
  <2>2. a \in Conns /\ a = accepting[1] /\ 1 \in DOMAIN accepting
    BY <2>1, HeadTailProperties, EmptySeq, LenProperties
  <2> QED
    BY <2>2 DEF SocketInv, QueuedOnce
<1> HIDE DEF a
<1>3. /\ batch \in [Loops -> SUBSET Items] /\ pc \in [Loops -> LoopPlaces]
      /\ sent \subseteq Conns /\ conn \in [Conns -> {"new", "waiting", "open", "closed"}]
      /\ Listen \notin Conns
  BY SetsOfLoops DEF SocketInv, SocketType
<1>4. \A c \in Conns : (Reported(c)' <=> Reported(c)) /\ (Untouched(c)' <=> Untouched(c))
  BY <1>1, <1>3 DEF Reported, Untouched
<1>5. ReportedOnce'
  BY <1>1, <1>3 DEF EventInv, EventAccounting, ReportedOnce
<1>6. HandedOnce' /\ ReportedWasSent' /\ RaisedIsSomewhere'
  BY <1>1, <1>3, <1>4 DEF EventInv, EventAccounting, HandedOnce, ReportedWasSent,
     RaisedIsSomewhere
<1>7. UnknownBefore'
  <2>1. Untouched(a)
    BY <1>2 DEF EventInv, UnknownBefore
  <2> QED
    BY <1>1, <1>2, <1>3, <1>4, <2>1 DEF EventInv, UnknownBefore
<1>8. BatchIsDone'
  BY <1>1, <1>3, SetsOfLoops DEF EventInv, BatchIsDone, BetweenBatches
<1> QED
  BY <1>5, <1>6, <1>7, <1>8 DEF EventInv, EventAccounting

\* A connection is armed: what its client has sent already is reported.
LEMMA EventRegister ==
    ASSUME SocketInv, EventInv, RegisterFd, ~stop[Target]
    PROVE  EventInv'
<1> DEFINE t == Target
<1>1. /\ pc[Master] = "register"
      /\ armed' = [armed EXCEPT ![t] = armed[t] \cup {cur}]
      /\ ready' = IF cur \in sent THEN [ready EXCEPT ![t] = ready[t] \cup {cur}]
                  ELSE ready
      /\ pc' = [pc EXCEPT ![Master] = "insert"]
      /\ UNCHANGED <<conn, sent, batch, cur, dropped, status>>
  BY DEF RegisterFd, Goto, poolVars
<1>2. /\ t \in Loops /\ cur \in Conns /\ conn[cur] = "open" /\ Untouched(cur)
      /\ ready \in [Loops -> SUBSET Items] /\ pc \in [Loops -> LoopPlaces]
      /\ armed \in [Loops -> SUBSET Items]
      /\ sent \subseteq Conns /\ \A k \in Loops : cur \notin armed[k]
  BY <1>1, SetsOfLoops DEF SocketInv, SocketType, AboutToRegister, EventInv, UnknownBefore
<1> HIDE DEF t
<1>3. ASSUME NEW c \in Conns, c # cur
      PROVE  /\ (Reported(c)' <=> Reported(c)) /\ (Untouched(c)' <=> Untouched(c))
             /\ \A k \in Loops : c \in armed'[k] <=> c \in armed[k]
  BY <1>1, <1>2, <1>3 DEF Reported, Untouched
<1>4. Reported(cur)' <=> cur \in sent
  BY <1>1, <1>2 DEF Reported, Untouched
<1>5. ReportedOnce'
  BY <1>1, <1>2 DEF EventInv, EventAccounting, ReportedOnce, Untouched, Reported
<1>6. HandedOnce'
  BY <1>1, <1>2, <1>3 DEF EventInv, EventAccounting, HandedOnce, Untouched
<1>7. ReportedWasSent'
  BY <1>1, <1>2, <1>3, <1>4 DEF EventInv, ReportedWasSent, Untouched
<1>8. RaisedIsSomewhere'
  BY <1>1, <1>2, <1>3, <1>4 DEF EventInv, EventAccounting, RaisedIsSomewhere
<1>9. UnknownBefore'
  <2>1. pc'[Master] # "register"
    BY <1>1, <1>2, SetsOfLoops
  <2> QED
    BY <1>1, <1>2, <1>3, <2>1 DEF EventInv, UnknownBefore
<1>10. BatchIsDone'
  BY <1>1, <1>2 DEF EventInv, BatchIsDone, BetweenBatches
<1> QED
  BY <1>5, <1>6, <1>7, <1>8, <1>9, <1>10 DEF EventInv, EventAccounting

\* What is closed is in no epoll set: no more is said of it.
LEMMA EventClose ==
    ASSUME SocketInv, EventInv, NEW l \in Loops, CloseHandlers(l),
           UNCHANGED <<sent, loopVars, dropped, status>>
    PROVE  EventInv'
<1>1. /\ conn' = [c \in Conns |-> IF c \in handlers[l] THEN "closed" ELSE conn[c]]
      /\ armed' = [armed EXCEPT ![l] = armed[l] \ handlers[l]]
      /\ ready' = [ready EXCEPT ![l] = ready[l] \ handlers[l]]
      /\ UNCHANGED <<sent, batch, pc, cur, dropped, status>>
  BY DEF CloseHandlers, loopVars
<1>2. /\ armed \in [Loops -> SUBSET Items] /\ ready \in [Loops -> SUBSET Items]
      /\ \A k \in Loops : ready[k] \subseteq armed[k]
      /\ \A k, j \in Loops : k # j => armed[k] \cap armed[j] = {}
      /\ handlers[l] \subseteq armed[l] /\ sent \subseteq Conns
      /\ pc[Master] = "register" => cur \in Conns
  BY DEF SocketInv, SocketType, AboutToRegister
<1>3. \A c \in Conns : (Reported(c)' => Reported(c)) /\ (Untouched(c) => Untouched(c)')
  BY <1>1, <1>2 DEF Reported, Untouched
<1>4. ReportedOnce' /\ HandedOnce' /\ ReportedWasSent'
  BY <1>1, <1>2, <1>3 DEF EventInv, EventAccounting, ReportedOnce, HandedOnce,
     ReportedWasSent
<1>5. RaisedIsSomewhere'
  <2>1. ASSUME NEW c \in sent, NEW k \in Loops, c \in armed'[k]
        PROVE  c \in armed[k] /\ (Reported(c) => Reported(c)')
    <3>1. c \in armed[k] /\ c \notin handlers[l]
      BY <1>1, <1>2, <2>1
    <3> QED
      BY <1>1, <1>2, <3>1 DEF Reported
  <2> QED
    BY <1>1, <1>2, <2>1 DEF EventInv, EventAccounting, RaisedIsSomewhere
<1>6. UnknownBefore'
  BY <1>1, <1>2, <1>3 DEF EventInv, UnknownBefore
<1>7. BatchIsDone'
  BY <1>1 DEF EventInv, BatchIsDone
<1> QED
  BY <1>4, <1>5, <1>6, <1>7 DEF EventInv, EventAccounting

LEMMA NextEvents ==
    ASSUME SocketInv, PoolType, PoolOrder, EventInv, [Next]_vars
    PROVE  EventInv'
<1> DEFINE SameStatus == \A c \in Conns :
               (status'[Event(c)] = "new") <=> (status[Event(c)] = "new")
<1>1. \A c \in Conns : Event(c) \in PoolTasks
  BY EventTasks
<1>2. ASSUME UNCHANGED poolVars PROVE SameStatus
  BY <1>2 DEF poolVars
<1>3. ASSUME \/ \E t \in PoolTasks : Pool!Finish(t)
             \/ Pool!Start \/ Pool!Close \/ Pool!Discard
      PROVE  SameStatus
  BY <1>1, <1>3, NewStaysNew
<1> HIDE DEF SameStatus
<1>4. pc \in [Loops -> LoopPlaces] /\ conn \in [Conns -> {"new", "waiting", "open", "closed"}]
  BY DEF SocketInv, SocketType
<1> DEFINE Places == \A l \in Loops : pc'[l] \in BetweenBatches =>
                         pc[l] \in BetweenBatches \/ batch[l] = {}
           Register == pc'[Master] = "register" => pc[Master] = "register" /\ cur' = cur
           Kept == /\ UNCHANGED <<sent, armed, ready, batch, dropped, conn>>
                   /\ SameStatus /\ Places /\ Register
<1>5. ASSUME Kept PROVE EventInv'
  <2>1. \A c \in Conns : conn'[c] \in {"new", "waiting"} => conn[c] \in {"new", "waiting"}
    BY <1>5
  <2> QED
    BY <1>5, <2>1, EventsStay DEF SameStatus
<1>6. ASSUME pc' = pc, cur' = cur PROVE Places /\ Register
  BY <1>6
<1>7. ASSUME NEW l \in Loops, NEW place \in LoopPlaces \ {"register"}, Goto(l, place),
             place \notin BetweenBatches \/ pc[l] \in BetweenBatches \/ batch[l] = {},
             cur' = cur
      PROVE  Places /\ Register
  BY <1>4, <1>7, SetsOfLoops DEF Goto
<1> HIDE DEF Places, Register
<1>8. ASSUME NEW l \in Loops, LoopStep(l) PROVE EventInv'
  <2>1. CASE StartSlave(l) \/ TestStop(l) \/ CallWait(l) \/ Leave(l)
    <3>1. /\ UNCHANGED <<sent, armed, ready, batch, dropped, conn, cur>>
          /\ pc[l] \in BetweenBatches
          /\ \E place \in BetweenBatches : Goto(l, place)
      BY <2>1 DEF StartSlave, TestStop, CallWait, Leave, BetweenBatches, kernelVars
    <3>2. BetweenBatches \subseteq LoopPlaces \ {"register"}
      BY DEF BetweenBatches, LoopPlaces
    <3>3. Places /\ Register
      BY <1>7, <3>1, <3>2
    <3>4. SameStatus
      <4>1. l # Master => <<"loop", l>> \in PoolTasks
        BY DEF PoolTasks, Loops
      <4> QED
        BY <1>2, <1>3, <2>1, <4>1 DEF StartSlave, TestStop, CallWait, Leave
    <3> QED
      BY <1>5, <3>1, <3>3, <3>4
  <2>2. CASE EndOfBatch(l) \/ TakeFunctors(l) \/ CallFunctor(l)
    <3>1. /\ UNCHANGED <<sent, armed, ready, batch, dropped, conn, cur>>
          /\ UNCHANGED poolVars
          /\ \/ Goto(l, "test") /\ batch[l] = {}
             \/ Goto(l, "calling") \/ Goto(l, "event") \/ pc' = pc
      BY <2>2 DEF EndOfBatch, TakeFunctors, CallFunctor, kernelVars
    <3>2. Places /\ Register
      BY <1>6, <1>7, <3>1 DEF BetweenBatches, LoopPlaces
    <3> QED
      BY <1>2, <1>5, <3>1, <3>2
  <2>3. CASE InsertHandler
    <3>1. /\ UNCHANGED <<sent, armed, ready, batch, dropped, conn, poolVars>>
          /\ Goto(Master, "functors")
      BY <2>3 DEF InsertHandler, kernelVars
    <3>2. Places /\ Register
      BY <1>4, <3>1, SetsOfLoops DEF Goto, Places, Register, BetweenBatches
    <3> QED
      BY <1>2, <1>5, <3>1, <3>2
  <2>4. CASE RegisterFd
    <3>1. CASE stop[Target]
      <4>1. /\ UNCHANGED <<sent, armed, ready, batch, dropped, conn, poolVars>>
            /\ Goto(Master, "functors")
        BY <2>4, <3>1 DEF RegisterFd
      <4>2. Places /\ Register
        BY <1>4, <4>1, SetsOfLoops DEF Goto, Places, Register, BetweenBatches
      <4> QED
        BY <1>2, <1>5, <4>1, <4>2
    <3> QED
      BY <2>4, <3>1, EventRegister
  <2> QED
    BY <1>8, <2>1, <2>2, <2>3, <2>4, EventWait, EventLeaves, EventAccept DEF LoopStep
<1>9. CASE ShutdownMaster \/ \E l \in Slaves : SlaveClose(l)
  BY <1>9, EventClose, SetsOfLoops DEF ShutdownMaster, SlaveClose, poolVars
<1>10. ASSUME NEW c \in Conns, Connect(c) PROVE EventInv'
  <2>1. /\ conn' = [conn EXCEPT ![c] = "waiting"] /\ conn[c] = "new"
        /\ ready' = [ready EXCEPT ![Master] = ready[Master] \cup {Listen}]
        /\ UNCHANGED <<sent, armed, batch, dropped, pc, cur, status>>
    BY <1>10 DEF Connect, loopVars, poolVars
  <2>2. ready \in [Loops -> SUBSET Items]
    BY DEF SocketInv, SocketType
  <2>3. \A d \in Conns : (Reported(d)' <=> Reported(d)) /\ (Untouched(d)' <=> Untouched(d))
    BY <2>1, <2>2, SetsOfLoops DEF Reported, Untouched
  <2>4. ReportedOnce'
    BY <2>1, <2>2, SetsOfLoops DEF EventInv, EventAccounting, ReportedOnce
  <2>5. HandedOnce' /\ ReportedWasSent' /\ BatchIsDone'
    BY <2>1, <2>3 DEF EventInv, EventAccounting, HandedOnce, ReportedWasSent, BatchIsDone
  <2>6. RaisedIsSomewhere'
    <3>1. sent \subseteq Conns
      BY DEF SocketInv, SocketType
    <3> QED
      BY <2>1, <2>3, <3>1 DEF EventInv, EventAccounting, RaisedIsSomewhere
  <2>7. UnknownBefore'
    <3>1. pc[Master] = "register" => cur \in Conns
      BY DEF SocketInv, AboutToRegister
    <3> QED
      BY <1>4, <2>1, <2>3, <3>1 DEF EventInv, UnknownBefore
  <2> QED
    BY <2>4, <2>5, <2>6, <2>7 DEF EventInv, EventAccounting
<1>11. CASE \/ (\E l \in Slaves : SlaveStop(l)) \/ SlavesClear \/ PoolShutdown
            \/ ShutdownReturn \/ PoolStart \/ \E c \in Conns : HandleEvent(c)
  <2>1. UNCHANGED <<sent, armed, ready, batch, dropped, conn, pc, cur>>
    BY <1>11 DEF SlaveStop, SlavesClear, PoolShutdown, ShutdownReturn, PoolStart,
       HandleEvent, kernelVars, loopVars
  <2>2. SameStatus
    BY <1>1, <1>2, <1>3, <1>11 DEF SlaveStop, SlavesClear, PoolShutdown, ShutdownReturn,
       PoolStart, HandleEvent, Event
  <2> QED
    BY <1>5, <1>6, <2>1, <2>2
<1>12. CASE \/ UseDestroyed \/ HandlersRace \/ DivideByZero \/ ShutdownBegin
            \/ (\E f \in Functors : AddPendingFunctor(f)) \/ UNCHANGED vars
  <2>1. UNCHANGED <<sent, armed, ready, batch, dropped, conn, pc, cur, poolVars>>
    BY <1>12 DEF UseDestroyed, HandlersRace, DivideByZero, ShutdownBegin, AddPendingFunctor,
       kernelVars, loopVars, vars
  <2> QED
    BY <1>2, <1>5, <1>6, <2>1
<1> QED
  BY <1>8, <1>9, <1>10, <1>11, <1>12, EventSend DEF Next, ShutdownStep, PoolStep

\* All of the above: an inductive invariant.
RunsInv == LoopsInv /\ PoolOrder /\ EventInv

LEMMA RunsInvHolds == Spec => []RunsInv
<1>1. Init => RunsInv
  BY InitLoops, InitOrder, InitEvents DEF RunsInv
<1>2. RunsInv /\ [Next]_vars => RunsInv'
  <2> SUFFICES ASSUME RunsInv, [Next]_vars PROVE RunsInv'
    OBVIOUS
  <2>1. SocketInv /\ PoolType /\ PoolOrder /\ EventInv /\ LoopsInv
    BY DEF RunsInv, LoopsInv
  <2>2. LoopsInv'
    BY <2>1, NextFunctors, NextSockets, NextFlags, NextPool DEF LoopsInv
  <2> QED
    BY <2>1, <2>2, PoolSees, NextOrder, NextEvents DEF RunsInv
<1> QED
  BY <1>1, <1>2, PTL DEF Spec

\* An event raised on a registered socket is in one place: reported, in the
\* hands of one loop, handed to the pool, or dropped because no handler was
\* in the map (Dispatcher.h:60).  It is never lost between epoll_wait and the
\* pool and never handed over twice, however loops, clients, the hand-over of
\* connections and Shutdown interleave.
THEOREM EventsAccountedFor == Spec => []EventAccounting
BY RunsInvHolds, PTL DEF RunsInv, EventInv

-------------------------------------------------------------------------------
(* Shutdown: what it joins.                                                  *)

\* A slave is stopped before its descriptor is closed, all of them are closed
\* before the pool is, and no task runs once the workers are joined.
StopsFirst ==
    /\ \A l \in Slaves : l \in shutEpoll => stop[l]
    /\ closer \in {"pool", "join", "returned"} => Slaves \subseteq shutEpoll
    /\ closer = "returned" => \A t \in PoolTasks : status[t] # "running"

\* The loop of a slave is where its task is.
LoopIsTask ==
    \A l \in Slaves :
        /\ pc[l] = "queued" => status[<<"loop", l>>] \in {"queued", "running", "dropped"}
        /\ pc[l] = "out" => status[<<"loop", l>>] = "done"
        /\ pc[l] \notin {"queued", "out"} => status[<<"loop", l>>] = "running"

CloseInv == StopsFirst /\ LoopIsTask

\* What Shutdown waits for: tasks of connections, and loops that have been
\* stopped and return, unless they sleep in epoll_wait on the descriptor that
\* SlaveClose closed.
JoinsStoppedLoops ==
    closer = "join" =>
        \A l \in Slaves : status[<<"loop", l>>] = "running" =>
            stop[l] /\ pc[l] # "out" /\ (pc[l] = "blocked" => Stuck(l))

\* The slave sleeps and no socket can wake it.
Forsaken(l) == Stuck(l) /\ armed[l] = {}

LoopTask(l) == <<"loop", l>>

LEMMA LoopTasks ==
    /\ \A l \in Slaves : LoopTask(l) \in PoolTasks
    /\ \A l, k \in Slaves : LoopTask(l) = LoopTask(k) => l = k
    /\ \A c \in Conns, l \in Slaves : Event(c) # LoopTask(l)
<1>1. \A l, k \in Slaves : LoopTask(l) = LoopTask(k) => l = k
  BY DEF LoopTask
<1>2. \A c \in Conns, l \in Slaves : Event(c) # LoopTask(l)
  <2>1. \A c, l : Event(c)[1] = "event" /\ LoopTask(l)[1] = "loop"
    BY DEF Event, LoopTask
  <2> QED
    BY <2>1
<1> QED
  BY <1>1, <1>2 DEF LoopTask, PoolTasks

LEMMA InitClose == Init => CloseInv
<1> SUFFICES ASSUME Init PROVE CloseInv
  OBVIOUS
<1>1. \A l \in Slaves : LoopTask(l)[1] = "loop" /\ LoopTask(l) \in PoolTasks
  BY LoopTasks DEF LoopTask
<1>2. \A l \in Slaves : status[LoopTask(l)] = "queued" /\ pc[l] = "queued"
  BY <1>1, SetsOfLoops DEF Init
<1> QED
  BY <1>2 DEF Init, CloseInv, StopsFirst, LoopIsTask, LoopTask

\* A slave's loop goes on inside its task.
LEMMA LoopStays ==
    ASSUME CloseInv, SocketInv, UNCHANGED closeVars,
           \A l \in Slaves : status'[LoopTask(l)] = status[LoopTask(l)],
           closer = "returned" =>
               \A t \in PoolTasks : status'[t] = "running" => status[t] = "running",
           \/ pc' = pc
           \/ \E l \in Loops, place \in LoopPlaces \ {"queued", "out"} :
                pc[l] \notin {"queued", "out"} /\ Goto(l, place)
    PROVE  CloseInv'
<1>1. StopsFirst'
  BY DEF CloseInv, StopsFirst, closeVars
<1>2. ASSUME NEW k \in Slaves
      PROVE  \/ pc'[k] = pc[k]
             \/ pc[k] \notin {"queued", "out"} /\ pc'[k] \notin {"queued", "out"}
  <2>1. k \in Loops /\ pc \in [Loops -> LoopPlaces]
    BY SetsOfLoops DEF SocketInv, SocketType
  <2>2. ASSUME NEW l \in Loops, NEW place \in LoopPlaces \ {"queued", "out"},
               pc[l] \notin {"queued", "out"}, Goto(l, place)
        PROVE  \/ pc'[k] = pc[k]
               \/ pc[k] \notin {"queued", "out"} /\ pc'[k] \notin {"queued", "out"}
    BY <2>1, <2>2 DEF Goto
  <2> QED
    BY <2>2
<1>3. LoopIsTask'
  BY <1>2 DEF CloseInv, LoopIsTask, LoopTask
<1> QED
  BY <1>1, <1>3 DEF CloseInv

LEMMA NextClose ==
    ASSUME SocketInv, FlagType, PoolType, PoolOrder, CloseInv, [Next]_vars
    PROVE  CloseInv'
<1> DEFINE SameTasks ==
             /\ \A l \in Slaves : status'[LoopTask(l)] = status[LoopTask(l)]
             /\ closer = "returned" =>
                  \A t \in PoolTasks : status'[t] = "running" => status[t] = "running"
<1>1. /\ \A l \in Slaves : LoopTask(l) \in PoolTasks
      /\ \A c \in Conns : Event(c) \in PoolTasks
      /\ \A c \in Conns, l \in Slaves : Event(c) # LoopTask(l)
      /\ status \in [PoolTasks -> {"new", "queued", "running", "done", "dropped"}]
  BY LoopTasks, EventTasks DEF PoolType
<1>2. UNCHANGED poolVars => SameTasks
  BY DEF poolVars
<1>3. ASSUME NEW c \in Conns, Pool!Accept(Event(c)) \/ Pool!Finish(Event(c))
      PROVE  SameTasks
  BY <1>1, <1>3 DEF Pool!Accept, Pool!Finish
<1> HIDE DEF SameTasks
<1>4. ASSUME UNCHANGED closeVars, SameTasks,
             \/ pc' = pc
             \/ \E l \in Loops, place \in LoopPlaces \ {"queued", "out"} :
                  pc[l] \notin {"queued", "out"} /\ Goto(l, place)
      PROVE  CloseInv'
  BY <1>4, LoopStays DEF SameTasks
<1>5. ASSUME NEW l \in Loops, LoopStep(l) PROVE CloseInv'
  <2>1. CASE StartSlave(l)
    <3>1. /\ pc[l] = "queued" /\ status[<<"loop", l>>] = "running"
          /\ pc' = [pc EXCEPT ![l] = "test"] /\ UNCHANGED <<closeVars, status>>
      BY <2>1 DEF StartSlave, Goto, poolVars
    <3>2. pc \in [Loops -> LoopPlaces] /\ Slaves \subseteq Loops
      BY SetsOfLoops DEF SocketInv, SocketType
    <3>3. StopsFirst'
      BY <3>1 DEF CloseInv, StopsFirst, closeVars
    <3>4. LoopIsTask'
      BY <3>1, <3>2 DEF CloseInv, LoopIsTask
    <3> QED
      BY <3>3, <3>4 DEF CloseInv
  <2>2. CASE Leave(l)
    <3>1. /\ pc[l] = "test" /\ pc' = [pc EXCEPT ![l] = "out"] /\ UNCHANGED closeVars
      BY <2>2 DEF Leave, Goto
    <3>2. pc \in [Loops -> LoopPlaces] /\ Slaves \subseteq Loops /\ Master \notin Slaves
      BY SetsOfLoops DEF SocketInv, SocketType
    <3>3. CASE l = Master
      <4>1. status' = status /\ \A k \in Slaves : pc'[k] = pc[k]
        BY <2>2, <3>1, <3>2, <3>3 DEF Leave, poolVars
      <4> QED
        BY <3>1, <4>1 DEF CloseInv, StopsFirst, LoopIsTask, closeVars
    <3>4. CASE l # Master
      <4>1. l \in Slaves /\ status' = [status EXCEPT ![LoopTask(l)] = "done"]
        BY <2>2, <3>4 DEF Leave, Pool!Finish, LoopTask, Loops
      <4>2. \A k \in Slaves : k # l => LoopTask(k) # LoopTask(l)
        BY <4>1, LoopTasks
      <4>3. StopsFirst'
        BY <1>1, <3>1, <4>1 DEF CloseInv, StopsFirst, closeVars
      <4>4. LoopIsTask'
        BY <1>1, <3>1, <3>2, <4>1, <4>2 DEF CloseInv, LoopIsTask, LoopTask
      <4> QED
        BY <4>3, <4>4 DEF CloseInv
    <3> QED
      BY <3>3, <3>4
  <2>3. CASE \/ TestStop(l) \/ CallWait(l) \/ WaitForEvents(l) \/ EndOfBatch(l)
             \/ TakeFunctors(l) \/ CallFunctor(l) \/ \E i \in Items : DropEvent(l, i)
    <3>1. /\ UNCHANGED closeVars /\ UNCHANGED poolVars
          /\ \/ pc' = pc
             \/ /\ pc[l] \in {"test", "call", "blocked", "event", "functors", "calling"}
                /\ \E place \in {"call", "test", "blocked", "event", "calling"} :
                     Goto(l, place)
      BY <2>3 DEF TestStop, CallWait, WaitForEvents, EndOfBatch, TakeFunctors,
         CallFunctor, DropEvent, NextEvent
    <3> QED
      BY <1>2, <1>4, <3>1 DEF LoopPlaces
  <2>4. ASSUME NEW c \in Items, DispatchEvent(l, c) PROVE CloseInv'
    <3>1. c \in Conns /\ Pool!Accept(Event(c))
      BY <2>4 DEF DispatchEvent, SocketInv, SocketType, Items, Event
    <3>2. UNCHANGED closeVars /\ pc[l] = "event" /\ Goto(l, "functors")
      BY <2>4 DEF DispatchEvent, NextEvent
    <3> QED
      BY <1>3, <1>4, <3>1, <3>2 DEF LoopPlaces
  <2>5. CASE Accept \/ RegisterFd \/ InsertHandler
    <3>1. /\ UNCHANGED closeVars /\ UNCHANGED poolVars
          /\ pc[Master] \in {"event", "register", "insert"}
          /\ \E place \in {"register", "insert", "functors"} : Goto(Master, place)
      BY <2>5 DEF Accept, RegisterFd, InsertHandler, NextEvent
    <3> QED
      BY <1>2, <1>4, <3>1, SetsOfLoops DEF LoopPlaces
  <2> QED
    BY <1>5, <2>1, <2>2, <2>3, <2>4, <2>5 DEF LoopStep
<1>6. CASE \/ (\E c \in Conns : Connect(c) \/ ClientSend(c)) \/ UseDestroyed \/ HandlersRace
           \/ DivideByZero \/ (\E f \in Functors : AddPendingFunctor(f))
           \/ UNCHANGED vars
  <2>1. UNCHANGED <<closeVars, poolVars, pc>>
    BY <1>6 DEF Connect, ClientSend, UseDestroyed, HandlersRace, DivideByZero, AddPendingFunctor,
       vars, loopVars
  <2> QED
    BY <1>2, <1>4, <2>1
<1>7. ASSUME NEW c \in Conns, HandleEvent(c) PROVE CloseInv'
  <2>1. Pool!Finish(Event(c)) /\ UNCHANGED <<closeVars, pc>>
    BY <1>7 DEF HandleEvent, Event, loopVars
  <2> QED
    BY <1>3, <1>4, <2>1
<1>8. CASE PoolStart
  <2>1. /\ closer \notin {"join", "returned"} /\ backlog # <<>>
        /\ status' = [status EXCEPT ![Head(backlog)] = "running"]
        /\ UNCHANGED <<closeVars, pc>>
    BY <1>8 DEF PoolStart, Pool!Start, loopVars
  <2>2. status[Head(backlog)] = "queued" /\ Head(backlog) \in PoolTasks
    BY <2>1, HeadOfBacklog
  <2>3. \A l \in Slaves : \/ status'[LoopTask(l)] = status[LoopTask(l)]
                          \/ /\ status[LoopTask(l)] = "queued"
                             /\ status'[LoopTask(l)] = "running"
    BY <1>1, <2>1, <2>2
  <2>4. StopsFirst' /\ LoopIsTask'
    BY <2>1, <2>3 DEF CloseInv, StopsFirst, LoopIsTask, closeVars, LoopTask
  <2> QED
    BY <2>4 DEF CloseInv
<1>9. CASE ShutdownBegin \/ ShutdownMaster \/ \E l \in Slaves : SlaveStop(l) \/ SlaveClose(l)
  <2>1. /\ closer \in {"none", "master", "slaves"}
        /\ closer' \in {"master", "slaves"}
        /\ pc' = pc /\ status' = status
    BY <1>9 DEF ShutdownBegin, ShutdownMaster, SlaveStop, SlaveClose, loopVars, poolVars
  <2>2. ASSUME NEW l \in Slaves, l \in shutEpoll' PROVE stop'[l]
    <3>1. stop \in [Loops -> BOOLEAN] /\ l \in Loops
      BY SetsOfLoops DEF FlagType
    <3>2. \A k \in Loops : stop[k] => stop'[k]
      BY <1>9, <3>1 DEF ShutdownBegin, ShutdownMaster, SlaveStop, SlaveClose
    <3>3. l \in shutEpoll \/ stop[l]
      BY <1>9, <2>2 DEF ShutdownBegin, ShutdownMaster, SlaveStop, SlaveClose
    <3> QED
      BY <3>1, <3>2, <3>3 DEF CloseInv, StopsFirst
  <2>3. LoopIsTask'
    BY <2>1 DEF CloseInv, LoopIsTask
  <2> QED
    BY <2>1, <2>2, <2>3 DEF CloseInv, StopsFirst
<1>10. CASE SlavesClear
  <2>1. /\ Slaves \subseteq shutEpoll /\ closer' = "pool"
        /\ UNCHANGED <<stop, shutEpoll, pc, status>>
    BY <1>10 DEF SlavesClear, Pool!Close, loopVars
  <2> QED
    BY <2>1 DEF CloseInv, StopsFirst, LoopIsTask
<1>11. CASE PoolShutdown
  <2>1. /\ closer = "pool" /\ closer' = "join" /\ UNCHANGED <<stop, shutEpoll, pc>>
        /\ status' = [t \in PoolTasks |->
                        IF status[t] = "queued" THEN "dropped" ELSE status[t]]
    BY <1>11 DEF PoolShutdown, Pool!Discard, loopVars
  <2>2. \A l \in Slaves : \/ status'[LoopTask(l)] = status[LoopTask(l)]
                          \/ /\ status[LoopTask(l)] = "queued"
                             /\ status'[LoopTask(l)] = "dropped"
    BY <1>1, <2>1
  <2>3. StopsFirst'
    BY <2>1 DEF CloseInv, StopsFirst
  <2>4. LoopIsTask'
    BY <2>1, <2>2 DEF CloseInv, LoopIsTask, LoopTask
  <2> QED
    BY <2>3, <2>4 DEF CloseInv
<1>12. CASE ShutdownReturn
  <2>1. /\ closer = "join" /\ closer' = "returned" /\ Pool!Running = {}
        /\ shutEpoll' = shutEpoll \cup {Master} /\ UNCHANGED <<stop, pc, status>>
    BY <1>12 DEF ShutdownReturn, loopVars, poolVars
  <2>2. \A t \in PoolTasks : status[t] # "running"
    BY <2>1 DEF Pool!Running
  <2> QED
    BY <2>1, <2>2, SetsOfLoops DEF CloseInv, StopsFirst, LoopIsTask
<1> QED
  BY <1>5, <1>6, <1>7, <1>8, <1>9, <1>10, <1>11, <1>12
  DEF Next, ShutdownStep, PoolStep

LEMMA CloseInvHolds == Spec => [](RunsInv /\ CloseInv)
<1>1. RunsInv /\ CloseInv /\ [Next]_vars => CloseInv'
  BY NextClose DEF RunsInv, LoopsInv
<1> QED
  BY <1>1, InitClose, RunsInvHolds, PTL DEF Spec

\* The join of Shutdown (Dispatcher.h:149) waits for no loop that was not
\* stopped, and for no worker that sleeps elsewhere than in the epoll_wait of
\* a closed descriptor: every other loop it waits for is awake and will see
\* _stop, for any number of slaves and workers.
THEOREM JoinsOnlyStopped == Spec => []JoinsStoppedLoops
<1>1. CloseInv => JoinsStoppedLoops
  BY DEF CloseInv, StopsFirst, LoopIsTask, JoinsStoppedLoops, Stuck
<1> QED
  BY <1>1, CloseInvHolds, PTL

\* A slave's loop that sleeps in the epoll_wait of its closed descriptor, with
\* no socket left in the set, sleeps for ever, and Shutdown, which joins it,
\* does not return.
THEOREM ForsakenForEver ==
    Spec => /\ [][\A l \in Slaves : Forsaken(l) => Forsaken(l)']_vars
            /\ [](\A l \in Slaves : Stuck(l) => closer # "returned")
<1>1. ASSUME NEW l \in Slaves, CloseInv, Stuck(l) PROVE closer # "returned"
  <2>1. status[LoopTask(l)] = "running" /\ LoopTask(l) \in PoolTasks
    BY <1>1, LoopTasks DEF CloseInv, LoopIsTask, Stuck, LoopTask
  <2> QED
    BY <1>1, <2>1 DEF CloseInv, StopsFirst
<1>2. CloseInv => \A l \in Slaves : Stuck(l) => closer # "returned"
  BY <1>1
<1>3. ASSUME NEW l \in Slaves, SocketInv, CloseInv, Forsaken(l), [Next]_vars
      PROVE  Forsaken(l)'
  <2>1. /\ pc[l] = "blocked" /\ l \in shutEpoll /\ armed[l] = {} /\ stop[l]
        /\ ready[l] = {}
    <3>1. pc[l] = "blocked" /\ l \in shutEpoll /\ armed[l] = {} /\ stop[l]
      BY <1>3 DEF Forsaken, Stuck, CloseInv, StopsFirst
    <3>2. l \in Loops /\ \A k \in Loops : ready[k] \subseteq armed[k]
      BY <1>3, SetsOfLoops DEF SocketInv, SocketType
    <3> QED
      BY <3>1, <3>2
  <2>2. /\ pc \in [Loops -> LoopPlaces] /\ armed \in [Loops -> SUBSET Items]
        /\ l \in Loops /\ l # Master
    BY <1>3, SetsOfLoops DEF SocketInv, SocketType
  <2>3. ASSUME pc'[l] = pc[l], shutEpoll \subseteq shutEpoll', armed'[l] = {}
        PROVE  Forsaken(l)'
    BY <2>1, <2>3 DEF Forsaken, Stuck
  <2>4. ASSUME NEW k \in Loops, LoopStep(k) PROVE Forsaken(l)'
    <3>1. CASE RegisterFd
      <4>1. shutEpoll' = shutEpoll /\ pc'[l] = pc[l]
        BY <2>2, <3>1 DEF RegisterFd, Goto, closeVars
      <4>2. armed'[l] = armed[l]
        BY <2>1, <2>2, <3>1 DEF RegisterFd
      <4> QED
        BY <2>1, <2>3, <4>1, <4>2
    <3>2. CASE Accept \/ InsertHandler
      <4>1. UNCHANGED <<shutEpoll, armed>> /\ pc'[l] = pc[l]
        BY <2>2, <3>2 DEF Accept, InsertHandler, Goto, closeVars, kernelVars
      <4> QED
        BY <2>1, <2>3, <4>1
    <3>3. CASE \/ StartSlave(k) \/ TestStop(k) \/ Leave(k) \/ CallWait(k)
               \/ EndOfBatch(k) \/ TakeFunctors(k) \/ CallFunctor(k)
               \/ \E i \in Items : DropEvent(k, i) \/ DispatchEvent(k, i)
      <4>1. /\ UNCHANGED <<shutEpoll, armed>>
            /\ pc[k] # "blocked"
            /\ pc' = pc \/ \E place \in LoopPlaces : Goto(k, place)
        BY <3>3 DEF StartSlave, TestStop, Leave, CallWait, EndOfBatch, TakeFunctors,
           CallFunctor, DropEvent, DispatchEvent, NextEvent, closeVars, kernelVars,
           LoopPlaces
      <4>2. pc'[l] = pc[l]
        BY <2>1, <2>2, <4>1 DEF Goto
      <4> QED
        BY <2>1, <2>3, <4>1, <4>2
    <3>4. CASE WaitForEvents(k)
      <4>1. UNCHANGED <<shutEpoll, armed>> /\ k # l /\ Goto(k, "event")
        BY <2>1, <3>4 DEF WaitForEvents, closeVars
      <4>2. pc'[l] = pc[l]
        BY <2>2, <4>1 DEF Goto
      <4> QED
        BY <2>1, <2>3, <4>1, <4>2
    <3> QED
      BY <2>4, <3>1, <3>2, <3>3, <3>4 DEF LoopStep
  <2>5. CASE ShutdownBegin \/ ShutdownStep
    <3>1. pc' = pc /\ shutEpoll \subseteq shutEpoll'
      BY <2>5 DEF ShutdownBegin, ShutdownStep, ShutdownMaster, SlaveStop, SlaveClose,
         SlavesClear, PoolShutdown, ShutdownReturn, loopVars
    <3>2. armed' = armed \/ \E k \in Loops : CloseHandlers(k)
      BY <2>5, SetsOfLoops DEF ShutdownBegin, ShutdownStep, ShutdownMaster, SlaveStop,
         SlaveClose, SlavesClear, PoolShutdown, ShutdownReturn, kernelVars
    <3>3. armed'[l] = {}
      BY <2>1, <2>2, <3>2 DEF CloseHandlers
    <3> QED
      BY <2>3, <3>1, <3>3
  <2>6. CASE \/ (\E c \in Conns : Connect(c) \/ ClientSend(c)) \/ UseDestroyed \/ HandlersRace
             \/ (\E f \in Functors : AddPendingFunctor(f)) \/ DivideByZero
             \/ PoolStep \/ UNCHANGED vars
    <3>1. UNCHANGED <<shutEpoll, armed, pc>>
      BY <2>6 DEF Connect, ClientSend, UseDestroyed, HandlersRace, AddPendingFunctor, DivideByZero,
         PoolStep, PoolStart, HandleEvent, vars, kernelVars, loopVars, closeVars
    <3> QED
      BY <2>1, <2>3, <3>1
  <2> QED
    BY <1>3, <2>4, <2>5, <2>6 DEF Next
<1>4. RunsInv /\ CloseInv /\ [Next]_vars =>
        [\A l \in Slaves : Forsaken(l) => Forsaken(l)']_vars
  BY <1>3 DEF RunsInv, LoopsInv
<1> QED
  BY <1>2, <1>4, CloseInvHolds, PTL DEF Spec

===============================================================================
