----------------------------- MODULE DispatcherProof -----------------------------
(***************************************************************************)
(* Theorems about Dispatcher, for every finite set of connections and any  *)
(* threads of the pool.                                                    *)
(***************************************************************************)
EXTENDS Dispatcher, SequenceTheorems, FiniteSetTheorems, FunctionTheorems,
        TLAPS

\* Those that wait are connections that wait, each once, and an edge of the
\* listening socket says that somebody waits.
BacklogInv ==
    /\ \A i \in DOMAIN backlog : state[backlog[i]] = "backlog"
    /\ \A i, j \in DOMAIN backlog : backlog[i] = backlog[j] => i = j
    /\ listenEdge => backlog # <<>>

\* A connection has a number from accept() on, is watched only while open, and
\* the loop is between two calls only for one that has a number.
OpenInv ==
    /\ \A c \in Conns : watched[c] => state[c] = "open"
    /\ \A c \in Conns : state[c] \in {"open", "closed"} => fdOf[c] \in Fds
    /\ loop \in {"emplace", "register"} => state[cur] = "open" /\ ~watched[cur]
    /\ loop = "close" => state[cur] = "open"
    /\ loop = "unlink" => state[cur] = "closed"

\* A handler in the map is that of a watched connection, under its number.
HandlerInv ==
    \A f \in Fds : handlers[f] # None =>
        watched[handlers[f]] /\ fdOf[handlers[f]] = f

Inv == TypeOK /\ BacklogInv /\ OpenInv

RegistryInv == Inv /\ HandlerInv /\ HandlerIsOwn

\* Between close() and Unlink: the number is free, the channel still in a map.
Unlinking(c) == loop = "unlink" /\ cur = c

InMaps(c) ==
    \/ allChannel[fdOf[c]] = c
    \/ holding /\ held[fdOf[c]] = c /\ fdOf[c] \notin waitRemoved

\* What the two maps hold.  A number noted in _waitToRemovedChannel stands for
\* a closed connection in the extracted map, whatever _allChannel has by then.
MapsInv ==
    /\ \A f \in Fds : allChannel[f] # None =>
         /\ fdOf[allChannel[f]] = f
         /\ state[allChannel[f]] = "open" \/ Unlinking(allChannel[f])
         /\ held[f] # None => f \in waitRemoved
    /\ \A f \in Fds : held[f] # None =>
         /\ fdOf[held[f]] = f
         /\ IF f \in waitRemoved THEN state[held[f]] = "closed"
            ELSE state[held[f]] = "open" \/ Unlinking(held[f])
    /\ waitRemoved # {} => holding
    /\ loop = "emplace" =>
         \A f \in Fds : allChannel[f] # cur /\ held[f] # cur
    /\ loop = "unlink" => owner[fdOf[cur]] = None
    /\ \A c \in Conns : Unlinking(c) => InMaps(c)
    /\ \A c \in Conns :
         state[c] = "open" /\ ~(loop = "emplace" /\ cur = c) => InMaps(c)

\* A closed connection that is unlinked, and was not extracted, is inactive.
ClosedInv ==
    \A c \in Conns :
        state[c] = "closed" /\ ~Unlinking(c) /\ c \notin spared => ~active[c]

ChannelInv == removed = {} => MapsInv /\ ClosedInv

-------------------------------------------------------------------------------
(* accept() finds a number: there are as many as connections.                *)

\* A set of numbers that is not empty has a least element; by the strict
\* subsets of Fds, which are well-founded.
LEMMA LeastNumber ==
    ASSUME NEW Free \in SUBSET Fds, Free # {}, Cardinality(Conns) \in Nat
    PROVE  \E f \in Free : \A g \in Free : f <= g
<1> DEFINE Below(f) == 1 .. f
           T == {Below(f) : f \in Free}
<1>1. Fds \subseteq Nat \ {0} /\ IsFiniteSet(Fds)
  <2>1. Fds \subseteq Nat \ {0}
    BY DEF Fds
  <2>2. IsFiniteSet(1 .. Cardinality(Conns))
    BY FS_Interval
  <2> QED
    BY <2>1, <2>2 DEF Fds
<1>2. \A f \in Free : Below(f) \in SUBSET Fds
  BY <1>1 DEF Fds
<1>3. T \subseteq FiniteSubsetsOf(Fds) /\ T # {}
  <2>1. FiniteSubsetsOf(Fds) = SUBSET Fds
    BY <1>1, FS_FiniteSubsetsOfFinite
  <2>2. T \subseteq SUBSET Fds
    BY <1>2
  <2> QED
    BY <2>1, <2>2
<1>4. PICK x \in T : \A y \in T : <<y, x>> \notin StrictSubsetOrdering(Fds)
  BY <1>3, FS_StrictSubsetOrderingWellFounded, WFMin
<1>5. PICK f \in Free : x = Below(f)
  BY <1>4
<1>6. ASSUME NEW g \in Free, ~(f <= g) PROVE FALSE
  <2>1. f \in Nat \ {0} /\ g \in Nat \ {0} /\ g < f
    BY <1>1, <1>6
  <2>2. Below(g) \subseteq Below(f) /\ Below(g) # Below(f)
    <3>1. f \in Below(f) /\ f \notin Below(g)
      BY <2>1
    <3> QED
      BY <2>1, <3>1
  <2>3. <<Below(g), Below(f)>> \in StrictSubsetOrdering(Fds)
    BY <1>2, <2>2 DEF StrictSubsetOrdering
  <2> QED
    BY <1>4, <1>5, <2>3
<1> QED
  BY <1>6

LEMMA FreeNumber ==
    ASSUME Inv, backlog # <<>>
    PROVE  LowestFree \in Fds /\ owner[LowestFree] = None
<1> USE DispatcherAssumption
<1> DEFINE Free == {f \in Fds : owner[f] = None}
           c == Head(backlog)
<1>1. c \in Conns /\ state[c] = "backlog"
  BY HeadTailProperties DEF Inv, TypeOK, BacklogInv
<1>2. Cardinality(Conns) \in Nat
  BY FS_CardinalityType
<1>3. IsFiniteSet(Fds) /\ Cardinality(Fds) = Cardinality(Conns)
  BY <1>2, FS_Interval DEF Fds
<1>4. IsFiniteSet(Conns \ {c}) /\ Cardinality(Conns \ {c}) < Cardinality(Fds)
  <2>1. /\ IsFiniteSet(Conns \ {c})
        /\ Cardinality(Conns \ {c}) =
             IF c \in Conns THEN Cardinality(Conns) - 1 ELSE Cardinality(Conns)
    BY FS_RemoveElement
  <2> HIDE DEF c
  <2> QED
    BY <1>1, <1>2, <1>3, <2>1
<1>5. Free # {}
  <2> SUFFICES ASSUME Free = {} PROVE FALSE
    OBVIOUS
  <2>1. owner \in [Fds -> Entries]
    BY DEF Inv, TypeOK
  <2>2. ASSUME NEW f \in Fds PROVE owner[f] \in Conns \ {c}
    <3>1. owner[f] # None /\ owner[f] \in Conns
      BY <2>1 DEF Entries
    <3>2. state[owner[f]] = "open"
      BY <3>1 DEF Inv, TypeOK
    <3> QED
      BY <1>1, <3>1, <3>2
  <2>3. owner \in [Fds -> Conns \ {c}]
    BY <2>1, <2>2
  <2>4. PICK f \in Fds, g \in Fds : f # g /\ owner[f] = owner[g]
    BY <1>3, <1>4, <2>3, FS_PigeonHole
  <2> QED
    BY <2>2, <2>4 DEF Inv, TypeOK
<1>6. PICK f \in Free : \A g \in Free : f <= g
  BY <1>2, <1>5, LeastNumber
<1>7. f \in Fds /\ owner[f] = None /\ \A g \in Fds : g < f => owner[g] # None
  BY <1>2, <1>6 DEF Fds
<1> QED
  BY <1>7 DEF LowestFree

-------------------------------------------------------------------------------
\* One count of a table of counts is replaced.
LEMMA Counted ==
    ASSUME NEW S, NEW K, NEW F \in [S -> [K -> Nat]], NEW s \in S, NEW k \in K,
           NEW n \in Nat
    PROVE  [F EXCEPT ![s][k] = n] \in [S -> [K -> Nat]]
<1> DEFINE row == [F[s] EXCEPT ![k] = n]
<1>1. F[s] \in [K -> Nat]
  OBVIOUS
<1>2. row \in [K -> Nat]
  BY <1>1
<1>3. [F EXCEPT ![s] = row] \in [S -> [K -> Nat]]
  <2> HIDE DEF row
  <2> QED
    BY <1>2
<1> QED
  BY <1>3

-------------------------------------------------------------------------------
(* TypeOK, with BacklogInv and OpenInv.                                      *)

LEMMA InitInv == Init => Inv
<1> SUFFICES ASSUME Init PROVE Inv
  OBVIOUS
<1> USE DispatcherAssumption
<1>1. watched \in [Conns -> BOOLEAN] /\ \A c \in Conns : ~watched[c]
  BY Zenon DEF Init
<1>2. edge = watched /\ unread = watched /\ fin = watched /\ hup = watched
      /\ active = watched
  BY DEF Init
<1>3. TypeOK
  <2>1. listenEdge \in BOOLEAN /\ holding \in BOOLEAN /\ crashed \in BOOLEAN
    BY Zenon DEF Init
  <2>2. owner = [f \in Fds |-> None] /\ handlers = owner /\ allChannel = owner
        /\ held = owner
    BY DEF Init, Empty
  <2>3. \A c \in Conns, f \in Fds :
          owner[f] = c <=> state[c] = "open" /\ fdOf[c] = f
    BY <2>2 DEF Init
  <2>4. tasks \in [Conns -> [Kinds -> Nat]]
    BY DEF Init
  <2>5. /\ backlog \in Seq(Conns)
        /\ state \in [Conns -> {"new", "backlog", "open", "closed"}]
        /\ fdOf \in [Conns -> Fds \cup {NoFd}]
        /\ sends \in [Conns -> 0 .. MaxSends]
        /\ extracts \in 0 .. MaxExtract
        /\ pc \in [Workers -> {"idle", "read", "end", "inactive", "hangUp"}]
        /\ at \in [Workers -> Entries]
        /\ loop = "wait" /\ cur = None
    BY DEF Init, Entries
  <2>6. /\ reset = {} /\ waitRemoved = {} /\ removed = {} /\ spared = {}
        /\ dropped = {} /\ overtaken = {}
    BY DEF Init
  <2> QED
    BY <1>1, <1>2, <2>1, <2>2, <2>3, <2>4, <2>5, <2>6 DEF TypeOK, Entries
<1> QED
  BY <1>1, <1>3 DEF Init, Inv, BacklogInv, OpenInv

LEMMA ClientInv ==
    ASSUME Inv,
           \E c \in Conns : Connect(c) \/ ClientSend(c) \/ ClientClose(c)
                                \/ ClientReset(c)
    PROVE  Inv'
<1> USE DispatcherAssumption DEF Inv, kernelVars, mapVars, heldVars, poolVars,
        noteVars, listenVars
<1>1. ASSUME NEW c \in Conns, Connect(c) PROVE Inv'
  <2>1. TypeOK'
    BY <1>1, AppendProperties DEF Connect, TypeOK
  <2>2. BacklogInv'
    <3>1. /\ backlog' = Append(backlog, c) /\ state[c] = "new"
          /\ state' = [state EXCEPT ![c] = "backlog"]
      BY <1>1 DEF Connect
    <3>2. \A i \in DOMAIN backlog : backlog[i] \in Conns /\ backlog[i] # c
      BY <3>1, ElementOfSeq DEF TypeOK, BacklogInv
    <3>3. /\ DOMAIN backlog' = DOMAIN backlog \cup {Len(backlog) + 1}
          /\ \A i \in DOMAIN backlog : backlog'[i] = backlog[i]
          /\ backlog'[Len(backlog) + 1] = c /\ backlog' # <<>>
      <4>1. backlog \in Seq(Conns)
        BY DEF TypeOK
      <4>2. /\ backlog' \in Seq(Conns) /\ Len(backlog') = Len(backlog) + 1
            /\ \A i \in 1 .. Len(backlog) : backlog'[i] = backlog[i]
            /\ backlog'[Len(backlog) + 1] = c
        BY <3>1, <4>1, AppendProperties
      <4>3. DOMAIN backlog = 1 .. Len(backlog) /\ Len(backlog) \in Nat
            /\ DOMAIN backlog' = 1 .. Len(backlog')
        BY <4>1, <4>2, LenProperties
      <4> QED
        BY <4>1, <4>2, <4>3, EmptySeq
    <3>4. \A i \in DOMAIN backlog' : state'[backlog'[i]] = "backlog"
      BY <3>1, <3>2, <3>3 DEF TypeOK, BacklogInv
    <3>5. \A i, j \in DOMAIN backlog' : backlog'[i] = backlog'[j] => i = j
      BY <3>2, <3>3 DEF BacklogInv
    <3> QED
      BY <3>3, <3>4, <3>5 DEF BacklogInv
  <2>3. OpenInv'
    BY <1>1 DEF Connect, TypeOK, OpenInv
  <2> QED
    BY <2>1, <2>2, <2>3
<1>2. ASSUME NEW c \in Conns, ClientSend(c) PROVE Inv'
  <2>1. TypeOK'
    BY <1>2 DEF ClientSend, Reachable, TypeOK, OpenInv
  <2>2. BacklogInv' /\ OpenInv'
    BY <1>2 DEF ClientSend, TypeOK, BacklogInv, OpenInv
  <2> QED
    BY <2>1, <2>2
<1>3. ASSUME NEW c \in Conns, ClientClose(c) PROVE Inv'
  <2>1. TypeOK'
    BY <1>3 DEF ClientClose, TypeOK, OpenInv
  <2>2. BacklogInv' /\ OpenInv'
    BY <1>3 DEF ClientClose, TypeOK, BacklogInv, OpenInv
  <2> QED
    BY <2>1, <2>2
<1>4. ASSUME NEW c \in Conns, ClientReset(c) PROVE Inv'
  <2>1. TypeOK'
    BY <1>4 DEF ClientReset, TypeOK, OpenInv
  <2>2. BacklogInv' /\ OpenInv'
    BY <1>4 DEF ClientReset, TypeOK, BacklogInv, OpenInv
  <2> QED
    BY <2>1, <2>2
<1> HIDE DEF Inv
<1> QED
  BY <1>1, <1>2, <1>3, <1>4

LEMMA AcceptInv ==
    ASSUME Inv, Accept \/ AcceptFails \/ EmplaceChannel \/ RegisterHandler
    PROVE  Inv'
<1> USE DispatcherAssumption DEF Inv, kernelVars, mapVars, heldVars, poolVars,
        noteVars, listenVars
<1>1. CASE AcceptFails
  <2>1. ToSet(backlog) \subseteq Conns
    BY ElementOfSeq DEF TypeOK, ToSet
  <2>2. TypeOK'
    BY <1>1, <2>1 DEF AcceptFails, TypeOK
  <2>3. BacklogInv' /\ OpenInv'
    BY <1>1 DEF AcceptFails, TypeOK, BacklogInv, OpenInv
  <2> QED
    BY <2>2, <2>3
<1>2. CASE Accept
  <2> DEFINE c == Head(backlog)
  <2>1. backlog # <<>> /\ loop = "wait"
    BY <1>2 DEF Accept, BacklogInv
  <2>2. LowestFree \in Fds /\ owner[LowestFree] = None
    BY <2>1, FreeNumber
  <2>3. c \in Conns /\ state[c] = "backlog" /\ Tail(backlog) \in Seq(Conns)
    BY <2>1, HeadTailProperties DEF BacklogInv, TypeOK
  <2>4. \A i \in DOMAIN Tail(backlog) :
          /\ Tail(backlog)[i] = backlog[i + 1] /\ i + 1 \in DOMAIN backlog
          /\ Tail(backlog)[i] \in Conns /\ Tail(backlog)[i] # c
    <3>1. backlog \in Seq(Conns) /\ c = backlog[1] /\ 1 \in DOMAIN backlog
      BY <2>1, HeadTailProperties DEF TypeOK
    <3>2. \A i \in DOMAIN Tail(backlog) :
            /\ Tail(backlog)[i] = backlog[i + 1] /\ i + 1 \in DOMAIN backlog
            /\ i + 1 # 1
      BY <2>1, <3>1, HeadTailProperties
    <3> QED
      BY <2>3, <3>1, <3>2, ElementOfSeq DEF BacklogInv
  <2>5. \A d \in Conns, f \in Fds :
          owner'[f] = d <=> state'[d] = "open" /\ fdOf'[d] = f
    <3>1. /\ owner' = [owner EXCEPT ![LowestFree] = c]
          /\ state' = [state EXCEPT ![c] = "open"]
          /\ fdOf' = [fdOf EXCEPT ![c] = LowestFree]
      BY <1>2 DEF Accept
    <3> HIDE DEF c
    <3> QED
      BY <2>2, <2>3, <3>1 DEF TypeOK
  <2>6. ToSet(Tail(backlog)) \subseteq Conns
    BY <2>4 DEF ToSet
  <2>7. TypeOK'
    <3>1. active' \in [Conns -> BOOLEAN]
      BY <1>2, Zenon DEF Accept, TypeOK
    <3>2. \A d \in Conns : edge'[d] => watched'[d] /\ state'[d] = "open"
      BY <1>2, <2>3 DEF Accept, TypeOK
    <3>3. owner' \in [Fds -> Entries] /\ fdOf' \in [Conns -> Fds \cup {NoFd}]
          /\ state' \in [Conns -> {"new", "backlog", "open", "closed"}]
      BY <1>2, <2>2, <2>3 DEF Accept, TypeOK, Entries
    <3>4. backlog' \in Seq(Conns) /\ listenEdge' \in BOOLEAN
          /\ overtaken' \subseteq Conns
      BY <1>2, <2>3, <2>6 DEF Accept, TypeOK
    <3>5. cur' \in Conns /\ loop' = "emplace" /\ cur' # None
      BY <1>2, <2>3 DEF Accept
    <3>6. UNCHANGED <<watched, edge, sends, unread, fin, hup, reset, mapVars,
                      heldVars, poolVars, removed, spared, dropped, crashed>>
      BY <1>2 DEF Accept
    <3> QED
      BY <2>5, <3>1, <3>2, <3>3, <3>4, <3>5, <3>6 DEF TypeOK, Entries
  <2>8. BacklogInv'
    <3>1. backlog' = Tail(backlog) /\ listenEdge' = FALSE
          /\ state' = [state EXCEPT ![c] = "open"]
      BY <1>2 DEF Accept
    <3> HIDE DEF c
    <3>2. \A i \in DOMAIN Tail(backlog) : state'[Tail(backlog)[i]] = "backlog"
      BY <2>4, <3>1 DEF BacklogInv, TypeOK
    <3>3. DOMAIN Tail(backlog) \subseteq Nat
      BY <2>3, LenProperties
    <3>4. \A i, j \in DOMAIN Tail(backlog) :
            Tail(backlog)[i] = Tail(backlog)[j] => i = j
      BY <2>4, <3>3 DEF BacklogInv
    <3> QED
      BY <3>1, <3>2, <3>4 DEF BacklogInv
  <2>9. OpenInv'
    <3>1. /\ state' = [state EXCEPT ![c] = "open"] /\ cur' = c
          /\ fdOf' = [fdOf EXCEPT ![c] = LowestFree]
          /\ loop' = "emplace" /\ UNCHANGED watched
      BY <1>2 DEF Accept
    <3>2. ~watched[c]
      BY <2>3 DEF OpenInv
    <3> HIDE DEF c
    <3> QED
      BY <2>2, <2>3, <3>1, <3>2 DEF OpenInv, TypeOK
  <2> QED
    BY <2>7, <2>8, <2>9
<1>3. CASE EmplaceChannel
  <2>1. TypeOK'
    BY <1>3 DEF EmplaceChannel, TypeOK, Entries
  <2>2. BacklogInv' /\ OpenInv'
    BY <1>3 DEF EmplaceChannel, TypeOK, BacklogInv, OpenInv
  <2> QED
    BY <2>1, <2>2
<1>4. CASE RegisterHandler
  <2>1. TypeOK'
    BY <1>4 DEF RegisterHandler, TypeOK, Entries, OpenInv
  <2>2. BacklogInv' /\ OpenInv'
    BY <1>4 DEF RegisterHandler, TypeOK, BacklogInv, OpenInv, Entries
  <2> QED
    BY <2>1, <2>2
<1> HIDE DEF Inv
<1> QED
  BY <1>1, <1>2, <1>3, <1>4


LEMMA EventInv ==
    ASSUME Inv,
           \/ \E c \in Conns : DropEvent(c) \/ DispatchEvent(c)
           \/ CloseFd \/ Unlink \/ NoteRemoved
    PROVE  Inv'
<1> USE DispatcherAssumption DEF Inv, kernelVars, mapVars, heldVars, poolVars,
        noteVars, listenVars
<1>1. ASSUME NEW c \in Conns, DropEvent(c) PROVE Inv'
  <2>1. TypeOK'
    BY <1>1 DEF DropEvent, TypeOK
  <2>2. BacklogInv' /\ OpenInv'
    BY <1>1 DEF DropEvent, BacklogInv, OpenInv
  <2> QED
    BY <2>1, <2>2
<1>2. ASSUME NEW c \in Conns, DispatchEvent(c) PROVE Inv'
  <2> DEFINE h == handlers[fdOf[c]]
  <2>1. edge[c] /\ state[c] = "open" /\ fdOf[c] \in Fds /\ h \in Conns
    BY <1>2 DEF DispatchEvent, TypeOK, OpenInv, Entries
  <2>2. tasks' \in [Conns -> [Kinds -> Nat]]
    <3> DEFINE k == IF hup[c] THEN "hup" ELSE "in"
    <3>1. tasks' = [tasks EXCEPT ![h][k] = @ + 1]
      BY <1>2 DEF DispatchEvent
    <3>2. k \in Kinds /\ tasks \in [Conns -> [Kinds -> Nat]]
      BY DEF Kinds, TypeOK
    <3> HIDE DEF h, k
    <3>3. tasks[h][k] + 1 \in Nat
      BY <2>1, <3>2
    <3>4. \A n \in Nat : [tasks EXCEPT ![h][k] = n]
                           \in [Conns -> [Kinds -> Nat]]
      BY <2>1, <3>2, Counted
    <3> QED
      BY <3>1, <3>3, <3>4
  <2>3. cur' \in Entries /\ (cur' = None <=> loop' = "wait")
        /\ loop' \in {"wait", "close"}
    BY <1>2 DEF DispatchEvent, Entries
  <2>4. TypeOK'
    <3>1. edge' = [edge EXCEPT ![c] = FALSE]
      BY <1>2 DEF DispatchEvent
    <3>2. UNCHANGED <<listenVars, state, fdOf, owner, watched, sends, unread,
                      fin, hup, reset, mapVars, heldVars, active, pc, at,
                      noteVars, crashed>>
      BY <1>2 DEF DispatchEvent
    <3> QED
      BY <2>2, <2>3, <3>1, <3>2 DEF TypeOK
  <2>5. BacklogInv' /\ OpenInv'
    BY <1>2, <2>1 DEF DispatchEvent, BacklogInv, OpenInv
  <2> QED
    BY <2>4, <2>5
<1>3. CASE CloseFd
  <2>1. cur \in Conns /\ state[cur] = "open" /\ fdOf[cur] \in Fds
    BY <1>3 DEF CloseFd, TypeOK, OpenInv, Entries
  <2>2. \A d \in Conns, f \in Fds :
          owner'[f] = d <=> state'[d] = "open" /\ fdOf'[d] = f
    BY <1>3, <2>1 DEF CloseFd, TypeOK
  <2>3. TypeOK'
    BY <1>3, <2>1, <2>2 DEF CloseFd, TypeOK, Entries
  <2>4. BacklogInv'
    BY <1>3, <2>1, ElementOfSeq DEF CloseFd, TypeOK, BacklogInv
  <2>5. OpenInv'
    BY <1>3, <2>1 DEF CloseFd, TypeOK, OpenInv
  <2> QED
    BY <2>3, <2>4, <2>5
<1>4. CASE Unlink
  <2>1. TypeOK'
    BY <1>4 DEF Unlink, TypeOK, Entries
  <2>2. BacklogInv' /\ OpenInv'
    BY <1>4 DEF Unlink, BacklogInv, OpenInv
  <2> QED
    BY <2>1, <2>2
<1>5. CASE NoteRemoved
  <2>1. cur \in Conns /\ fdOf[cur] \in Fds
    BY <1>5 DEF NoteRemoved, TypeOK, OpenInv, Entries
  <2>2. TypeOK'
    BY <1>5, <2>1 DEF NoteRemoved, TypeOK, Entries
  <2>3. BacklogInv' /\ OpenInv'
    BY <1>5 DEF NoteRemoved, BacklogInv, OpenInv
  <2> QED
    BY <2>2, <2>3
<1> HIDE DEF Inv
<1> QED
  BY <1>1, <1>2, <1>3, <1>4, <1>5

LEMMA WorkerInv ==
    ASSUME Inv, NEW w \in Workers, WorkerStep(w)
    PROVE  Inv'
<1> USE DispatcherAssumption DEF Inv, kernelVars, mapVars, heldVars, poolVars,
        noteVars, listenVars
<1>1. UNCHANGED <<listenVars, state, fdOf, watched, loop, cur>>
  BY DEF WorkerStep, HandleEvent, Read, End, Inactive, HangUp
<1>2. BacklogInv' /\ OpenInv'
  BY <1>1 DEF BacklogInv, OpenInv
<1> SUFFICES TypeOK'
  BY <1>2
<1>3. ASSUME NEW c \in Conns, NEW k \in Kinds, HandleEvent(w, c, k)
      PROVE  TypeOK'
  <2>1. tasks' \in [Conns -> [Kinds -> Nat]]
    <3>1. /\ tasks' = [tasks EXCEPT ![c][k] = @ - 1]
          /\ tasks[c][k] > 0 /\ tasks \in [Conns -> [Kinds -> Nat]]
      BY <1>3 DEF HandleEvent, TypeOK
    <3>2. tasks[c][k] - 1 \in Nat
      BY <3>1
    <3>3. \A n \in Nat : [tasks EXCEPT ![c][k] = n]
                           \in [Conns -> [Kinds -> Nat]]
      BY <3>1, Counted
    <3> QED
      BY <3>1, <3>2, <3>3
  <2>2. /\ pc' \in [Workers -> {"idle", "read", "end", "inactive", "hangUp"}]
        /\ at' \in [Workers -> Entries]
    <3>1. CASE active[c]
      <4>1. /\ at' = [at EXCEPT ![w] = c]
            /\ pc' = [pc EXCEPT ![w] = IF k = "in" THEN "read" ELSE "hangUp"]
        BY <1>3, <3>1 DEF HandleEvent
      <4> QED
        BY <4>1 DEF TypeOK, Entries
    <3>2. CASE ~active[c]
      BY <1>3, <3>2 DEF HandleEvent, TypeOK
    <3> QED
      BY <3>1, <3>2
  <2> QED
    BY <1>3, <2>1, <2>2 DEF HandleEvent, TypeOK
<1>4. ASSUME Return(w)
      PROVE  /\ pc' \in [Workers -> {"idle", "read", "end", "inactive", "hangUp"}]
             /\ at' \in [Workers -> Entries]
  BY <1>4 DEF Return, TypeOK, Entries
<1>5. CASE Read(w)
  <2>1. unread' \in [Conns -> BOOLEAN] /\ reset' \subseteq Conns
    BY <1>5, Zenon DEF Read, TypeOK
  <2>2. /\ pc' \in [Workers -> {"idle", "read", "end", "inactive", "hangUp"}]
        /\ at' \in [Workers -> Entries]
    <3>1. \/ Return(w)
          \/ /\ \/ pc' = [pc EXCEPT ![w] = "end"]
                \/ pc' = [pc EXCEPT ![w] = "inactive"]
             /\ at' = at
      BY <1>5 DEF Read
    <3> QED
      BY <1>4, <3>1 DEF TypeOK, Entries
  <2> QED
    BY <1>5, <2>1, <2>2 DEF Read, TypeOK
<1>6. ASSUME Disable(w), UNCHANGED <<state, watched>>
      PROVE  /\ hup' \in [Conns -> BOOLEAN] /\ edge' \in [Conns -> BOOLEAN]
             /\ \A c \in Conns : edge'[c] => watched'[c] /\ state'[c] = "open"
  <2>1. hup' \in [Conns -> BOOLEAN] /\ edge' \in [Conns -> BOOLEAN]
    BY <1>6, Zenon DEF Disable, TypeOK
  <2>2. \A c \in Conns : edge'[c] => edge[c] \/ watched[c]
    BY <1>6 DEF Disable
  <2> QED
    BY <1>6, <2>1, <2>2 DEF TypeOK, OpenInv
<1>7. CASE End(w)
  <2>1. pc' \in [Workers -> {"idle", "read", "end", "inactive", "hangUp"}]
    BY <1>7 DEF End, TypeOK
  <2> QED
    BY <1>1, <1>6, <1>7, <2>1 DEF End, TypeOK
<1>8. CASE Inactive(w)
  <2>1. active' \in [Conns -> BOOLEAN]
    BY <1>8, Zenon DEF Inactive, TypeOK
  <2> QED
    BY <1>4, <1>8, <2>1 DEF Inactive, TypeOK
<1>9. CASE HangUp(w)
  BY <1>1, <1>4, <1>6, <1>9 DEF HangUp, TypeOK
<1> HIDE DEF Inv
<1> QED
  BY <1>3, <1>5, <1>7, <1>8, <1>9 DEF WorkerStep

LEMMA ApplicationInv ==
    ASSUME Inv,
           \/ ExtractExistedChannel \/ RestoreAllChannel
           \/ \E c \in Conns : RemoveHandler(c)
    PROVE  Inv'
<1> USE DispatcherAssumption DEF Inv, kernelVars, mapVars, heldVars, poolVars,
        noteVars, listenVars
<1>1. UNCHANGED <<listenVars, state, fdOf, watched, loop, cur>>
  BY DEF ExtractExistedChannel, RestoreAllChannel, RemoveHandler
<1>2. BacklogInv' /\ OpenInv'
  BY <1>1 DEF BacklogInv, OpenInv
<1> SUFFICES TypeOK'
  BY <1>2
<1>3. CASE ExtractExistedChannel
  BY <1>3 DEF ExtractExistedChannel, TypeOK, Empty, Entries
<1>4. CASE RestoreAllChannel
  <2>1. allChannel' \in [Fds -> Entries] /\ held' \in [Fds -> Entries]
    BY <1>4 DEF RestoreAllChannel, TypeOK, Empty, Entries
  <2> QED
    BY <1>4, <2>1 DEF RestoreAllChannel, TypeOK
<1>5. ASSUME NEW c \in Conns, RemoveHandler(c) PROVE TypeOK'
  <2>1. active' \in [Conns -> BOOLEAN] /\ crashed' \in BOOLEAN
    BY <1>5, Zenon DEF RemoveHandler, TypeOK
  <2>2. handlers' \in [Fds -> Entries] /\ allChannel' \in [Fds -> Entries]
    BY <1>5 DEF RemoveHandler, TypeOK, Entries
  <2> QED
    BY <1>5, <2>1, <2>2 DEF RemoveHandler, TypeOK
<1> QED
  BY <1>3, <1>4, <1>5

LEMMA NextInv ==
    ASSUME Inv, [Next]_vars
    PROVE  Inv'
<1>1. CASE UNCHANGED vars
  BY <1>1 DEF vars, Inv, TypeOK, BacklogInv, OpenInv, kernelVars, mapVars,
     heldVars, poolVars, noteVars, listenVars
<1> QED
  BY <1>1, ClientInv, AcceptInv, EventInv, WorkerInv, ApplicationInv
  DEF Next, LoopStep


-------------------------------------------------------------------------------
(* NobodyWaitsUnseen.                                                        *)

LEMMA NextSeen ==
    ASSUME Inv, NobodyWaitsUnseen, [Next]_vars
    PROVE  NobodyWaitsUnseen'
<1> USE DEF kernelVars, mapVars, heldVars, poolVars, noteVars, listenVars
<1>1. ASSUME UNCHANGED <<backlog, listenEdge, overtaken>>
      PROVE  NobodyWaitsUnseen'
  BY <1>1 DEF NobodyWaitsUnseen
<1>2. ASSUME NEW c \in Conns, Connect(c) PROVE NobodyWaitsUnseen'
  BY <1>2 DEF Connect, NobodyWaitsUnseen
<1>3. CASE Accept
  BY <1>3 DEF Accept, NobodyWaitsUnseen, ToSet
<1>4. CASE AcceptFails
  BY <1>4 DEF AcceptFails, NobodyWaitsUnseen, ToSet
<1>5. ASSUME NEW c \in Conns, ClientSend(c) \/ ClientClose(c) \/ ClientReset(c)
      PROVE  NobodyWaitsUnseen'
  BY <1>1, <1>5 DEF ClientSend, ClientClose, ClientReset
<1>6. CASE EmplaceChannel \/ RegisterHandler \/ CloseFd \/ Unlink \/ NoteRemoved
  BY <1>1, <1>6 DEF EmplaceChannel, RegisterHandler, CloseFd, Unlink,
     NoteRemoved
<1>7. ASSUME NEW c \in Conns, DropEvent(c) \/ DispatchEvent(c)
      PROVE  NobodyWaitsUnseen'
  BY <1>1, <1>7 DEF DropEvent, DispatchEvent
<1>8. ASSUME NEW w \in Workers, WorkerStep(w) PROVE NobodyWaitsUnseen'
  BY <1>1, <1>8 DEF WorkerStep, HandleEvent, Read, End, Inactive, HangUp
<1>9. CASE \/ ExtractExistedChannel \/ RestoreAllChannel
           \/ \E c \in Conns : RemoveHandler(c)
  BY <1>1, <1>9 DEF ExtractExistedChannel, RestoreAllChannel, RemoveHandler
<1>10. CASE UNCHANGED vars
  BY <1>1, <1>10 DEF vars
<1> QED
  BY <1>2, <1>3, <1>4, <1>5, <1>6, <1>7, <1>8, <1>9, <1>10 DEF Next, LoopStep

-------------------------------------------------------------------------------
(* HandlerIsOwn.                                                             *)

LEMMA NextRegistry ==
    ASSUME RegistryInv, [Next]_vars
    PROVE  HandlerInv' /\ HandlerIsOwn'
<1> DEFINE Goal == HandlerInv' /\ HandlerIsOwn'
<1> USE DispatcherAssumption DEF RegistryInv, Inv, kernelVars, mapVars,
        heldVars, poolVars, noteVars, listenVars
<1>1. ASSUME UNCHANGED <<handlers, watched, fdOf, removed, dropped>>
      PROVE  Goal
  BY <1>1 DEF HandlerInv, HandlerIsOwn
<1>2. CASE Accept
  <2> DEFINE c == Head(backlog)
  <2>1. backlog # <<>> /\ loop = "wait"
    BY <1>2 DEF Accept, BacklogInv
  <2>2. c \in Conns /\ state[c] = "backlog"
    BY <2>1, HeadTailProperties DEF BacklogInv, TypeOK
  <2>3. ~watched[c]
    BY <2>2 DEF OpenInv
  <2>4. fdOf' = [fdOf EXCEPT ![c] = LowestFree]
        /\ UNCHANGED <<handlers, watched, removed, dropped>>
    BY <1>2 DEF Accept
  <2> HIDE DEF c
  <2>5. \A d \in Conns : watched[d] => fdOf'[d] = fdOf[d]
    BY <2>2, <2>3, <2>4 DEF TypeOK
  <2> QED
    BY <2>4, <2>5 DEF HandlerInv, HandlerIsOwn, TypeOK, Entries
<1>3. CASE RegisterHandler
  <2> DEFINE f == fdOf[cur]
  <2>1. /\ cur \in Conns /\ f \in Fds /\ state[cur] = "open" /\ ~watched[cur]
        /\ owner[f] = cur
    BY <1>3 DEF RegisterHandler, TypeOK, OpenInv, Entries
  <2>2. handlers[f] = None
    BY <2>1 DEF HandlerInv, OpenInv, TypeOK, Entries
  <2>3. /\ handlers' = [handlers EXCEPT ![f] = cur]
        /\ watched' = [watched EXCEPT ![cur] = TRUE]
        /\ UNCHANGED <<fdOf, removed, dropped>>
    BY <1>3, <2>2 DEF RegisterHandler
  <2>4. HandlerInv'
    BY <2>1, <2>3 DEF HandlerInv, TypeOK, Entries
  <2>5. \A c \in Conns : watched[c] => fdOf[c] # f
    BY <2>1 DEF OpenInv, TypeOK
  <2>6. \A c \in Conns : watched'[c] /\ c \notin removed
                           => handlers'[fdOf[c]] = c
    BY <2>1, <2>3, <2>5 DEF HandlerIsOwn, TypeOK, OpenInv
  <2> QED
    BY <2>3, <2>4, <2>6 DEF HandlerIsOwn
<1>4. CASE CloseFd
  <2> DEFINE f == fdOf[cur]
  <2>1. cur \in Conns /\ f \in Fds /\ owner[f] = cur
    BY <1>4 DEF CloseFd, TypeOK, OpenInv, Entries
  <2>2. /\ handlers' = [handlers EXCEPT ![f] = None]
        /\ watched' = [watched EXCEPT ![cur] = FALSE]
        /\ UNCHANGED <<fdOf, removed, dropped>>
    BY <1>4 DEF CloseFd
  <2>3. HandlerInv'
    BY <2>1, <2>2 DEF HandlerInv, TypeOK, Entries
  <2>4. \A c \in Conns : watched[c] /\ c # cur => fdOf[c] # f /\ fdOf[c] \in Fds
    BY <2>1 DEF OpenInv, TypeOK
  <2>5. \A c \in Conns : watched'[c] /\ c \notin removed
                           => handlers'[fdOf[c]] = c
    BY <2>1, <2>2, <2>4 DEF HandlerIsOwn, TypeOK
  <2> QED
    BY <2>2, <2>3, <2>5 DEF HandlerIsOwn
<1>5. ASSUME NEW c \in Conns, RemoveHandler(c) PROVE Goal
  <2> DEFINE f == fdOf[c]
  <2>1. f \in Fds /\ owner[f] = c
    BY <1>5 DEF RemoveHandler, TypeOK, OpenInv
  <2>2. /\ handlers' = [handlers EXCEPT ![f] = None]
        /\ removed' = removed \cup {c}
        /\ UNCHANGED <<fdOf, watched, dropped>>
    BY <1>5 DEF RemoveHandler
  <2>3. HandlerInv'
    BY <2>1, <2>2 DEF HandlerInv, TypeOK, Entries
  <2>4. \A d \in Conns : watched[d] /\ d # c => fdOf[d] # f /\ fdOf[d] \in Fds
    BY <2>1 DEF OpenInv, TypeOK
  <2>5. \A d \in Conns : watched[d] /\ d \notin removed'
                           => handlers'[fdOf[d]] = d
    BY <2>1, <2>2, <2>4 DEF HandlerIsOwn, TypeOK
  <2> QED
    BY <2>2, <2>3, <2>5 DEF HandlerIsOwn
<1>6. ASSUME NEW c \in Conns, DropEvent(c) PROVE Goal
  <2>1. watched[c] /\ handlers[fdOf[c]] = None /\ dropped' = dropped \cup {c}
        /\ UNCHANGED <<handlers, watched, fdOf, removed>>
    BY <1>6 DEF DropEvent, TypeOK
  <2>2. c \in removed
    BY <2>1 DEF HandlerIsOwn
  <2> QED
    BY <2>1, <2>2 DEF HandlerInv, HandlerIsOwn
<1>7. ASSUME NEW c \in Conns,
             Connect(c) \/ ClientSend(c) \/ ClientClose(c) \/ ClientReset(c)
               \/ DispatchEvent(c)
      PROVE  Goal
  BY <1>1, <1>7 DEF Connect, ClientSend, ClientClose, ClientReset, DispatchEvent
<1>8. CASE AcceptFails \/ EmplaceChannel \/ Unlink \/ NoteRemoved
           \/ ExtractExistedChannel \/ RestoreAllChannel
  BY <1>1, <1>8 DEF AcceptFails, EmplaceChannel, Unlink, NoteRemoved,
     ExtractExistedChannel, RestoreAllChannel
<1>9. ASSUME NEW w \in Workers, WorkerStep(w) PROVE Goal
  BY <1>1, <1>9 DEF WorkerStep, HandleEvent, Read, End, Inactive, HangUp
<1>10. CASE UNCHANGED vars
  BY <1>1, <1>10 DEF vars
<1> HIDE DEF RegistryInv, Inv
<1> QED
  BY <1>2, <1>3, <1>4, <1>5, <1>6, <1>7, <1>8, <1>9, <1>10 DEF Next, LoopStep

-------------------------------------------------------------------------------
(* ChannelIsFound and InactiveBeforeReuse.                                   *)

LEMMA InitChannel == Init => ChannelInv
<1> SUFFICES ASSUME Init PROVE MapsInv /\ ClosedInv
  BY DEF ChannelInv
<1>1. \A f \in Fds : allChannel[f] = None /\ held[f] = None
  BY DEF Init, Empty
<1> QED
  BY <1>1 DEF Init, MapsInv, ClosedInv, Unlinking

\* Steps of the loop that touch a map or the table of descriptors.
LEMMA AcceptChannel ==
    ASSUME Inv, MapsInv, ClosedInv, Accept
    PROVE  MapsInv' /\ ClosedInv'
<1> USE DispatcherAssumption DEF Inv
<1> DEFINE c == Head(backlog)
<1>1. backlog # <<>> /\ loop = "wait"
  BY DEF Accept, BacklogInv
<1>2. LowestFree \in Fds /\ owner[LowestFree] = None
  BY <1>1, FreeNumber
<1>3. c \in Conns /\ state[c] = "backlog" /\ c # None
  BY <1>1, HeadTailProperties DEF BacklogInv, TypeOK
<1>4. /\ state' = [state EXCEPT ![c] = "open"]
      /\ owner' = [owner EXCEPT ![LowestFree] = c]
      /\ fdOf' = [fdOf EXCEPT ![c] = LowestFree]
      /\ active' = [active EXCEPT ![c] = TRUE]
      /\ cur' = c /\ loop' = "emplace"
      /\ UNCHANGED <<allChannel, waitRemoved, held, holding, spared>>
  BY DEF Accept, mapVars, heldVars
<1> HIDE DEF c
<1>5. \A f \in Fds : allChannel[f] # c /\ held[f] # c
  BY <1>1, <1>3 DEF MapsInv, Unlinking
<1>6. \A d \in Conns : d # c => state'[d] = state[d] /\ fdOf'[d] = fdOf[d]
  BY <1>3, <1>4 DEF TypeOK
<1>7. MapsInv'
  BY <1>1, <1>3, <1>4, <1>5, <1>6
  DEF MapsInv, InMaps, Unlinking, TypeOK, Entries
<1>8. ClosedInv'
  BY <1>1, <1>3, <1>4, <1>6 DEF ClosedInv, Unlinking, TypeOK
<1> QED
  BY <1>7, <1>8

LEMMA EmplaceChannelKeeps ==
    ASSUME Inv, MapsInv, ClosedInv, EmplaceChannel
    PROVE  MapsInv' /\ ClosedInv'
<1> USE DispatcherAssumption DEF Inv
<1> DEFINE f == fdOf[cur]
<1>1. cur \in Conns /\ f \in Fds /\ state[cur] = "open" /\ owner[f] = cur
  BY DEF EmplaceChannel, TypeOK, OpenInv, Entries
<1>2. loop = "emplace" /\ allChannel[f] = None
  <2>1. loop = "emplace" /\ allChannel[f] # cur /\ allChannel[f] \in Entries
    BY <1>1 DEF EmplaceChannel, MapsInv, TypeOK
  <2> QED
    BY <1>1, <2>1 DEF MapsInv, TypeOK, Entries, Unlinking
<1>3. held[f] # None => f \in waitRemoved
  BY <1>1, <1>2 DEF MapsInv, TypeOK, Entries, Unlinking
<1>4. /\ allChannel' = [allChannel EXCEPT ![f] = cur] /\ loop' = "register"
      /\ UNCHANGED <<state, fdOf, owner, waitRemoved, held, holding, active,
                     cur, spared>>
  BY <1>2 DEF EmplaceChannel, kernelVars, heldVars, noteVars
<1> HIDE DEF f
<1>5. f = fdOf[cur]
  BY DEF f
<1>6. MapsInv'
  BY <1>1, <1>2, <1>3, <1>4, <1>5
  DEF MapsInv, InMaps, Unlinking, TypeOK, Entries
<1>7. ClosedInv'
  BY <1>2, <1>4 DEF ClosedInv, Unlinking
<1> QED
  BY <1>6, <1>7

LEMMA CloseChannel ==
    ASSUME Inv, MapsInv, ClosedInv, CloseFd
    PROVE  MapsInv' /\ ClosedInv'
<1> USE DispatcherAssumption DEF Inv
<1>1. cur \in Conns /\ fdOf[cur] \in Fds /\ state[cur] = "open"
      /\ owner[fdOf[cur]] = cur /\ loop = "close"
  BY DEF CloseFd, TypeOK, OpenInv, Entries
<1>2. /\ owner' = [owner EXCEPT ![fdOf[cur]] = None]
      /\ state' = [state EXCEPT ![cur] = "closed"] /\ loop' = "unlink"
      /\ UNCHANGED <<fdOf, allChannel, waitRemoved, held, holding, active, cur,
                     spared>>
  BY DEF CloseFd, heldVars, noteVars
<1>3. \A d \in Conns : d # cur => state'[d] = state[d]
  BY <1>1, <1>2 DEF TypeOK
<1>4. MapsInv'
  BY <1>1, <1>2, <1>3 DEF MapsInv, InMaps, Unlinking, TypeOK, Entries
<1>5. ClosedInv'
  BY <1>1, <1>2, <1>3 DEF ClosedInv, Unlinking
<1> QED
  BY <1>4, <1>5

LEMMA UnlinkChannel ==
    ASSUME Inv, MapsInv, ClosedInv, Unlink \/ NoteRemoved
    PROVE  MapsInv' /\ ClosedInv'
<1> USE DispatcherAssumption DEF Inv
<1> DEFINE f == fdOf[cur]
<1>1. /\ cur \in Conns /\ f \in Fds /\ state[cur] = "closed"
      /\ owner[f] = None /\ loop = "unlink"
  BY DEF Unlink, NoteRemoved, TypeOK, OpenInv, Entries, MapsInv
\* No open connection has the number.
<1>2. \A c \in Conns : state[c] = "open" => fdOf[c] # f
  BY <1>1 DEF TypeOK
<1>3. loop' = "wait" /\ UNCHANGED <<state, fdOf, owner, held, holding>>
  BY DEF Unlink, NoteRemoved, kernelVars, heldVars
<1>4. CASE Unlink
  <2>1. allChannel[f] = cur
    BY <1>1, <1>2, <1>4 DEF Unlink, MapsInv, Unlinking, TypeOK, Entries
  <2>2. /\ allChannel' = [allChannel EXCEPT ![f] = None]
        /\ active' = [active EXCEPT ![cur] = FALSE]
        /\ UNCHANGED <<waitRemoved, spared>>
    BY <1>4, <2>1 DEF Unlink, noteVars
  <2> HIDE DEF f
  <2>3. held[f] # None => f \in waitRemoved
    BY <1>1, <2>1 DEF MapsInv
  <2>4. f = fdOf[cur]
    BY DEF f
  <2>5. MapsInv'
    BY <1>1, <1>2, <1>3, <2>1, <2>2, <2>3, <2>4
    DEF MapsInv, InMaps, Unlinking, TypeOK, Entries
  <2>6. ClosedInv'
    BY <1>1, <1>3, <2>2 DEF ClosedInv, Unlinking, TypeOK
  <2> QED
    BY <2>5, <2>6
<1>5. CASE NoteRemoved
  <2>1. /\ allChannel[f] = None /\ waitRemoved' = waitRemoved \cup {f}
        /\ spared' = spared \cup {cur}
        /\ UNCHANGED <<allChannel, active>>
    BY <1>5 DEF NoteRemoved
  <2>2. holding /\ held[f] = cur
    BY <1>1, <2>1 DEF MapsInv, InMaps, Unlinking
  <2> HIDE DEF f
  <2>3. MapsInv'
    BY <1>1, <1>2, <1>3, <2>1, <2>2
    DEF MapsInv, InMaps, Unlinking, TypeOK, Entries
  <2>4. ClosedInv'
    BY <1>1, <1>3, <2>1 DEF ClosedInv, Unlinking, TypeOK
  <2> QED
    BY <2>3, <2>4
<1> QED
  BY <1>4, <1>5

LEMMA ExtractChannel ==
    ASSUME Inv, MapsInv, ClosedInv, ExtractExistedChannel \/ RestoreAllChannel
    PROVE  MapsInv' /\ ClosedInv'
<1> USE DispatcherAssumption DEF Inv
<1>1. UNCHANGED <<state, fdOf, owner, active, loop, cur, spared>>
  BY DEF ExtractExistedChannel, RestoreAllChannel, kernelVars, noteVars
<1>2. ClosedInv'
  BY <1>1 DEF ClosedInv, Unlinking
\* The connection in hand has a number, and no map has more than one for it.
<1>3. \A c \in Conns : Unlinking(c) \/ state[c] = "open" => fdOf[c] \in Fds
  BY DEF OpenInv, Unlinking
<1>4. CASE ExtractExistedChannel
  <2>1. /\ ~holding /\ waitRemoved = {} /\ waitRemoved' = {} /\ holding'
        /\ held' = allChannel /\ \A f \in Fds : allChannel'[f] = None
    BY <1>4 DEF ExtractExistedChannel, MapsInv, Empty
  <2>2. MapsInv'
    BY <1>1, <1>3, <2>1 DEF MapsInv, InMaps, Unlinking, TypeOK, Entries
  <2> QED
    BY <1>2, <2>2
<1>5. CASE RestoreAllChannel
  <2>1. /\ holding /\ waitRemoved' = {} /\ ~holding'
        /\ \A f \in Fds : held'[f] = None
        /\ \A f \in Fds : allChannel'[f] =
             IF allChannel[f] # None THEN allChannel[f]
             ELSE IF f \in waitRemoved THEN None ELSE held[f]
    BY <1>5 DEF RestoreAllChannel, Empty
  <2>2. \A f \in Fds : allChannel'[f] # None =>
          /\ fdOf[allChannel'[f]] = f
          /\ state[allChannel'[f]] = "open" \/ Unlinking(allChannel'[f])
    BY <2>1 DEF MapsInv
  \* What is in either map is in _allChannel afterwards.
  <2>3. \A c \in Conns : fdOf[c] \in Fds /\ InMaps(c)
                           => allChannel'[fdOf[c]] = c
    BY <2>1 DEF InMaps, MapsInv
  <2>4. loop = "emplace" => \A f \in Fds : allChannel'[f] # cur
    BY <2>1 DEF MapsInv, TypeOK
  <2>5. \A c \in Conns : Unlinking(c) => allChannel'[fdOf[c]] = c
    BY <1>3, <2>3 DEF MapsInv
  <2>6. \A c \in Conns : state[c] = "open" /\ ~(loop = "emplace" /\ cur = c)
                           => allChannel'[fdOf[c]] = c
    BY <1>3, <2>3 DEF MapsInv
  <2>7. loop = "emplace" => cur # None
    BY DEF TypeOK
  <2>8. loop = "unlink" => owner[fdOf[cur]] = None
    BY DEF MapsInv
  <2>9. MapsInv'
    BY <1>1, <2>1, <2>2, <2>4, <2>5, <2>6, <2>7, <2>8
    DEF MapsInv, InMaps, Unlinking
  <2> QED
    BY <1>2, <2>9
<1> QED
  BY <1>4, <1>5

LEMMA NextChannel ==
    ASSUME Inv, ChannelInv, [Next]_vars
    PROVE  ChannelInv'
<1> SUFFICES ASSUME removed' = {} PROVE MapsInv' /\ ClosedInv'
  BY DEF ChannelInv
<1> DEFINE Goal == MapsInv' /\ ClosedInv'
<1> USE DEF kernelVars, mapVars, heldVars, poolVars, noteVars, listenVars
<1>1. removed = {} /\ \A c \in Conns : ~RemoveHandler(c)
  <2>1. \A c \in Conns : ~RemoveHandler(c)
    BY DEF RemoveHandler
  <2> QED
    BY <2>1 DEF Next, LoopStep, WorkerStep, vars, Connect, ClientSend,
       ClientClose, ClientReset, Accept, AcceptFails, EmplaceChannel,
       RegisterHandler, DropEvent, DispatchEvent, CloseFd, Unlink, NoteRemoved,
       HandleEvent, Read, End, Inactive, HangUp, ExtractExistedChannel,
       RestoreAllChannel
<1>2. MapsInv /\ ClosedInv
  BY <1>1 DEF ChannelInv
\* Every other step: the maps, the numbers and what is open stay, the loop is
\* between no two calls on a map, and no channel becomes active.
<1>3. ASSUME UNCHANGED <<allChannel, waitRemoved, held, holding, fdOf, owner,
                         spared>>,
             \A c \in Conns : /\ state'[c] = "open" <=> state[c] = "open"
                              /\ state'[c] = "closed" <=> state[c] = "closed"
                              /\ active'[c] => active[c],
             \/ UNCHANGED <<loop, cur>>
             \/ loop \notin {"emplace", "unlink"}
                /\ loop' \notin {"emplace", "unlink"}
      PROVE  Goal
  <2>1. \A f \in Fds : allChannel[f] \in Conns \cup {None}
                       /\ held[f] \in Conns \cup {None}
    BY DEF Inv, TypeOK, Entries
  <2>2. /\ \A c : Unlinking(c)' <=> Unlinking(c)
        /\ \A c \in Conns : InMaps(c)' <=> InMaps(c)
        /\ \A c \in Conns : (loop' = "emplace" /\ cur' = c)
                              <=> (loop = "emplace" /\ cur = c)
    BY <1>3 DEF Unlinking, InMaps
  <2>3. MapsInv'
    BY <1>2, <1>3, <2>1, <2>2 DEF MapsInv
  <2>4. ClosedInv'
    BY <1>2, <1>3, <2>2 DEF ClosedInv
  <2> QED
    BY <2>3, <2>4
<1>4. ASSUME NEW c \in Conns, Connect(c) PROVE Goal
  BY <1>3, <1>4 DEF Connect, Inv, TypeOK
<1>5. ASSUME NEW c \in Conns, ClientSend(c) \/ ClientClose(c) \/ ClientReset(c)
                                \/ DropEvent(c)
      PROVE  Goal
  BY <1>3, <1>5 DEF ClientSend, ClientClose, ClientReset, DropEvent
<1>6. ASSUME NEW c \in Conns, DispatchEvent(c) PROVE Goal
  BY <1>3, <1>6 DEF DispatchEvent
<1>7. CASE AcceptFails \/ RegisterHandler
  BY <1>3, <1>7 DEF AcceptFails, RegisterHandler
<1>8. ASSUME NEW w \in Workers, WorkerStep(w) PROVE Goal
  <2>1. UNCHANGED <<allChannel, waitRemoved, held, holding, fdOf, owner,
                    spared, state, loop, cur>>
    BY <1>8 DEF WorkerStep, HandleEvent, Read, End, Inactive, HangUp
  <2>2. \A c \in Conns : active'[c] => active[c]
    <3>1. active' = active \/ active' = [active EXCEPT ![at[w]] = FALSE]
      BY <1>8 DEF WorkerStep, HandleEvent, Read, End, Inactive, HangUp
    <3>2. \A c \in Conns : active'[c] = active[c] \/ active'[c] = FALSE
      BY <3>1 DEF Inv, TypeOK
    <3> QED
      BY <3>2
  <2> QED
    BY <1>3, <2>1, <2>2
<1>9. CASE UNCHANGED vars
  BY <1>3, <1>9 DEF vars
<1> QED
  BY <1>1, <1>2, <1>4, <1>5, <1>6, <1>7, <1>8, <1>9, AcceptChannel,
     EmplaceChannelKeeps, CloseChannel, UnlinkChannel, ExtractChannel
  DEF Next, LoopStep


-------------------------------------------------------------------------------
(* The theorems.                                                             *)

LEMMA InvHolds == Spec => []Inv
BY InitInv, NextInv, PTL DEF Spec

\* The variables of the dispatcher keep their types, and the kernel's table
\* of descriptors agrees with the numbers the channels carry: accept() in
\* reactor/AcceptHandler.h:41 always finds a free one.
THEOREM DispatcherTypeCorrect == Spec => []TypeOK
BY InvHolds, PTL DEF Inv

\* A watched socket has its own handler under its number
\* (reactor/Dispatcher.h:91), and only what RemoveHandler took out has events
\* that find none.
THEOREM EventsFindTheirHandler == Spec => []HandlerIsOwn
<1>1. Init => RegistryInv
  <2> SUFFICES ASSUME Init PROVE HandlerInv /\ HandlerIsOwn
    BY InitInv DEF RegistryInv
  <2>1. \A c \in Conns : ~watched[c]
    BY DEF Init
  <2>2. \A f \in Fds : handlers[f] = None
    BY DEF Init, Empty
  <2> QED
    BY <2>1, <2>2 DEF Init, HandlerInv, HandlerIsOwn
<1>2. RegistryInv /\ [Next]_vars => RegistryInv'
  BY NextInv, NextRegistry DEF RegistryInv
<1>3. RegistryInv => HandlerIsOwn
  BY DEF RegistryInv
<1> QED
  BY <1>1, <1>2, <1>3, PTL DEF Spec

\* The channel of an open connection is in _allChannel or in the map the
\* application has extracted (reactor/Dispatcher.h:265), and the channel of a
\* closed one is inactive before its number is used again.
THEOREM ChannelsFollowTheTable == Spec => []ChannelsFollowTable
<1>1. Init => Inv /\ ChannelInv
  BY InitInv, InitChannel
<1>2. Inv /\ ChannelInv /\ [Next]_vars => Inv' /\ ChannelInv'
  BY NextInv, NextChannel
<1>3. Inv /\ ChannelInv => ChannelIsFound
  BY DEF ChannelInv, MapsInv, InMaps, ChannelIsFound
<1>4. Inv /\ ChannelInv => InactiveBeforeReuse
  <2> SUFFICES ASSUME Inv, ChannelInv, NEW c \in Conns, NEW d \in Conns,
                      state[c] = "closed", state[d] = "open",
                      fdOf[c] = fdOf[d], c \notin spared, removed = {}
               PROVE  ~active[c]
    BY DEF InactiveBeforeReuse
  <2>1. owner[fdOf[c]] = d /\ d # None
    BY DispatcherAssumption DEF Inv, OpenInv, TypeOK
  <2>2. ~Unlinking(c)
    BY <2>1 DEF ChannelInv, MapsInv, Unlinking
  <2> QED
    BY <2>2 DEF ChannelInv, ClosedInv
<1>5. Inv /\ ChannelInv => ChannelsFollowTable
  BY <1>3, <1>4 DEF ChannelsFollowTable
<1> QED
  BY <1>1, <1>2, <1>5, PTL DEF Spec

\* A connection that waits has an edge of the listening socket to say so,
\* unless accept() (reactor/AcceptHandler.h:41) took or missed another one.
THEOREM WaitingIsSeen == Spec => []NobodyWaitsUnseen
<1>1. Init => NobodyWaitsUnseen
  BY DEF Init, NobodyWaitsUnseen
<1>2. Inv /\ NobodyWaitsUnseen /\ [Next]_vars => NobodyWaitsUnseen'
  BY NextSeen
<1> QED
  BY <1>1, <1>2, InvHolds, PTL DEF Spec

===============================================================================
