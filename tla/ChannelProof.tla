------------------------------ MODULE ChannelProof ------------------------------
(***************************************************************************)
(* Theorems about Channel, for any threads of the pool, any senders and    *)
(* any sizes of the buffers.                                               *)
(***************************************************************************)
EXTENDS Channel, SequenceTheorems, TLAPS

\* The buffer has room for two units at least, so that half of it is room.
RoomInv == cap >= 2

\* Whoever is about to declare the channel dead has seen the end of the
\* stream, and that comes from the peer alone.
Alive ==
    /\ "RD" \notin shut /\ active /\ loop = "wait" /\ ~(tasks["hup"] > 0)
    /\ \A w \in Workers :
         pc[w] \notin {"hup", "disableReceive", "disableSend", "inactive"}

EndInv == ~peerClosed => Alive

\* Write disarms EPOLLOUT only over an empty buffer, and whoever fills it
\* arms EPOLLOUT next.
ArmedInv ==
    sendingBuf # <<>> /\ ownSet /\ open =>
        armOut \/ \E s \in Senders : pc[s] = "arm"

IInv == TypeOK /\ RoomInv

LEMMA ThreadSets ==
    /\ Workers \subseteq Threads /\ Senders \subseteq Threads
    /\ \A s \in Senders : s \notin Workers
    /\ None \notin Workers
BY ChannelAssumption DEF Threads

-------------------------------------------------------------------------------
(* TypeOK.                                                                   *)

LEMMA InitType == Init => IInv
<1> SUFFICES ASSUME Init PROVE IInv
  OBVIOUS
<1> USE ChannelAssumption, ThreadSets
<1>1. /\ peerClosed \in BOOLEAN /\ nospace \in BOOLEAN /\ open \in BOOLEAN
      /\ armOut \in BOOLEAN /\ rdy \in BOOLEAN /\ active \in BOOLEAN
      /\ passedOver \in BOOLEAN /\ crashed \in BOOLEAN
  BY Zenon DEF Init
<1>2. pc \in [Threads -> Places] /\ \A t \in Threads : pc[t] = "idle"
  BY DEF Init, Places
<1>3. tasks \in [Kinds -> Nat] /\ sendingBuf \in Seq(1 .. MaxOut)
      /\ wire \in Seq(1 .. MaxOut)
  BY DEF Init
<1> QED
  BY <1>1, <1>2, <1>3 DEF Init, IInv, TypeOK, RoomInv

LEMMA PeerType ==
    ASSUME IInv, PeerSend \/ PeerClose \/ PeerReset \/ PeerTake
    PROVE  IInv'
<1> USE ChannelAssumption
    DEF IInv, TypeOK, RoomInv, inVars, outVars, recvVars, sendVars
<1>1. CASE PeerSend
  BY <1>1 DEF PeerSend
<1>2. CASE PeerClose
  BY <1>2 DEF PeerClose
<1>3. CASE PeerReset
  BY <1>3 DEF PeerReset
<1>4. CASE PeerTake
  <2>1. rdy' \in BOOLEAN
    BY <1>4, Zenon DEF PeerTake
  <2>2. outq > 0 /\ outq' = outq - 1 /\ nospace' = FALSE
        /\ UNCHANGED <<inVars, wire, shut, open, armOut, tasks, active,
                       recvVars, sendVars, passedOver, pc, loop, crashed>>
    BY <1>4 DEF PeerTake
  <2>3. outq \in 0 .. SockBuf
    OBVIOUS
  <2>4. outq' \in 0 .. SockBuf
    BY <2>2, <2>3
  <2>5. nospace' \in BOOLEAN
    BY <2>2, Zenon
  <2> QED
    BY <2>1, <2>2, <2>4, <2>5
<1> QED
  BY <1>1, <1>2, <1>3, <1>4

\* What epoll reports, and the tasks it makes.
LEMMA ReportedTasks ==
    ASSUME TypeOK, WaitForEvents
    PROVE  /\ tasks' \in [Kinds -> Nat]
           /\ tasks'["hup"] > 0 => tasks["hup"] > 0 \/ HungUp
           /\ \A k \in Kinds : tasks[k] > 0 => tasks'[k] > 0
           /\ armOut /\ Writable /\ ~HungUp =>
                tasks'["out"] > 0 \/ tasks'["inout"] > 0
           /\ Readable /\ ~HungUp => tasks'["in"] > 0 \/ tasks'["inout"] > 0
<1> DEFINE More(k) == [tasks EXCEPT ![k] = @ + 1]
<1>1. tasks \in [Kinds -> Nat] /\ Kinds = {"hup", "in", "out", "inout"}
  BY DEF TypeOK, Kinds
<1>2. ASSUME NEW k, Reported = {k} PROVE tasks' = More(k)
  <2>1. (CHOOSE j \in Reported : TRUE) = k
    BY <1>2
  <2>2. Reported # {} /\ Reported # {"in", "out"}
    BY <1>2
  <2>3. tasks' = [tasks EXCEPT ![CHOOSE j \in Reported : TRUE] = @ + 1]
    BY <2>2 DEF WaitForEvents
  <2> QED
    BY <2>1, <2>3
<1>3. CASE HungUp
  <2>1. Reported = {"hup"}
    BY <1>3 DEF Reported
  <2>2. tasks' = More("hup")
    BY <1>2, <2>1
  <2> QED
    BY <1>1, <1>3, <2>2
<1>4. CASE ~HungUp
  <2>1. Reported = (IF Readable THEN {"in"} ELSE {})
                   \cup (IF armOut /\ Writable THEN {"out"} ELSE {})
    BY <1>4 DEF Reported
  <2>2. CASE Readable /\ armOut /\ Writable
    <3>1. Reported = {"in", "out"}
      BY <2>1, <2>2
    <3>2. tasks' = More("inout")
      BY <3>1 DEF WaitForEvents
    <3> QED
      BY <1>1, <1>4, <3>2
  <2>3. CASE Readable /\ ~(armOut /\ Writable)
    <3>1. Reported = {"in"}
      BY <2>1, <2>3
    <3>2. tasks' = More("in")
      BY <1>2, <3>1
    <3>3. /\ tasks' \in [Kinds -> Nat] /\ tasks'["hup"] = tasks["hup"]
          /\ \A k \in Kinds : tasks[k] > 0 => tasks'[k] > 0
          /\ tasks'["in"] > 0
      BY <1>1, <3>2
    <3> QED
      BY <2>3, <3>3, Zenon
  <2>4. CASE ~Readable /\ armOut /\ Writable
    <3>1. Reported = {"out"}
      BY <2>1, <2>4
    <3>2. tasks' = More("out")
      BY <1>2, <3>1
    <3>3. /\ tasks' \in [Kinds -> Nat] /\ tasks'["hup"] = tasks["hup"]
          /\ \A k \in Kinds : tasks[k] > 0 => tasks'[k] > 0
          /\ tasks'["out"] > 0
      BY <1>1, <3>2
    <3> QED
      BY <2>4, <3>3, Zenon
  <2>5. CASE ~Readable /\ ~(armOut /\ Writable)
    <3>1. Reported = {}
      BY <2>1, <2>5
    <3>2. tasks' = tasks
      BY <3>1 DEF WaitForEvents
    <3> QED
      BY <1>1, <1>4, <2>5, <3>2
  <2> QED
    BY <2>2, <2>3, <2>4, <2>5
<1> QED
  BY <1>3, <1>4

LEMMA LoopType ==
    ASSUME IInv, LoopStep
    PROVE  IInv'
<1> USE ChannelAssumption
    DEF IInv, TypeOK, RoomInv, inVars, outVars, epollVars, recvVars, sendVars
<1>1. CASE WaitForEvents
  <2>1. tasks' \in [Kinds -> Nat]
    BY <1>1, ReportedTasks
  <2>2. nospace' \in BOOLEAN /\ rdy' \in BOOLEAN
    BY <1>1, Zenon DEF WaitForEvents
  <2>3. /\ loop' \in {"wait", "close"}
        /\ UNCHANGED <<inVars, outq, wire, shut, open, armOut, active,
                       recvVars, sendVars, passedOver, pc, crashed>>
    BY <1>1 DEF WaitForEvents
  <2> QED
    BY <2>1, <2>2, <2>3
<1>2. CASE CloseFd
  BY <1>2 DEF CloseFd
<1>3. CASE LoopInactive
  BY <1>3 DEF LoopInactive
<1> QED
  BY <1>1, <1>2, <1>3 DEF LoopStep


\* The steps of a pool thread by the variables they leave alone: first those
\* of Read.
LEMMA ReadType ==
    ASSUME IInv, NEW w \in Workers,
           \/ \E k \in Kinds : HandleEvent(w, k)
           \/ HandleHangUp(w)
           \/ ReadLock(w) \/ ReadSome(w) \/ ReadEnd(w) \/ ReadDrained(w)
           \/ DisableReceive(w) \/ DisableSend(w) \/ Inactive(w)
    PROVE  IInv'
<1> USE ChannelAssumption, ThreadSets
    DEF IInv, TypeOK, RoomInv, inVars, outVars, epollVars, recvVars, sendVars,
        Goto, Places
<1>1. ASSUME NEW k \in Kinds, HandleEvent(w, k) PROVE IInv'
  <2>1. tasks' \in [Kinds -> Nat]
    BY <1>1 DEF HandleEvent
  <2>2. passedOver' \in BOOLEAN
    BY <1>1, Zenon DEF HandleEvent
  <2>3. \E p \in {"hup", "write", "read", "idle"} : pc' = [pc EXCEPT ![w] = p]
    <3>1. Branch(k) \in {"hup", "write", "read"}
      BY DEF Branch
    <3> QED
      BY <1>1, <3>1 DEF HandleEvent
  <2>4. pc[w] = "idle"
        /\ UNCHANGED <<inVars, outVars, shut, epollVars, active, recvVars,
                       sendVars, loop, crashed>>
    BY <1>1 DEF HandleEvent
  <2> QED
    BY <2>1, <2>2, <2>3, <2>4
\* shutdown() and the report it causes.
<1>2. ASSUME NEW D \in SUBSET {"RD", "WR"}, Disable(D)
      PROVE  shut' \in SUBSET {"RD", "WR"} /\ rdy' \in BOOLEAN
  <2>1. rdy' \in BOOLEAN
    BY <1>2, Zenon DEF Disable
  <2> QED
    BY <1>2, <2>1 DEF Disable
<1>3. ASSUME NEW p \in Places, pc' = [pc EXCEPT ![w] = p],
             shut' \in SUBSET {"RD", "WR"}, rdy' \in BOOLEAN,
             pc[w] # "reading", p # "reading",
             UNCHANGED <<inVars, outVars, open, armOut, tasks, active,
                         recvVars, sendVars, passedOver, loop, crashed>>
      PROVE  IInv'
  BY <1>3
<1>4. CASE HandleHangUp(w)
  BY <1>2, <1>3, <1>4 DEF HandleHangUp
<1>5. CASE DisableReceive(w)
  BY <1>2, <1>3, <1>5 DEF DisableReceive
<1>6. CASE DisableSend(w)
  BY <1>2, <1>3, <1>6 DEF DisableSend
<1>7. CASE Inactive(w)
  <2>1. /\ active' = FALSE /\ pc[w] = "inactive"
        /\ pc' = [pc EXCEPT ![w] = "idle"]
        /\ UNCHANGED <<inVars, outVars, shut, epollVars, tasks, recvVars,
                       sendVars, passedOver, loop, crashed>>
    BY <1>7 DEF Inactive
  <2>2. active' \in BOOLEAN
    BY <2>1
  <2> QED
    BY <2>1, <2>2
<1>8. CASE ReadLock(w)
  BY <1>8 DEF ReadLock
<1>9. CASE ReadSome(w)
  <2> DEFINE got == Smaller(cap - count, inq)
  <2>1. got \in Nat /\ got <= inq /\ got <= cap - count
    BY DEF Smaller
  <2>2. /\ count' = count + got /\ inq' = inq - got
        /\ cap' = IF count' = cap THEN (3 * cap) \div 2 ELSE cap
        /\ UNCHANGED <<arrived, peerClosed, rst, outVars, shut, epollVars,
                       tasks, active, reading, sendVars, passedOver, pc, loop,
                       crashed>>
    BY <1>9 DEF ReadSome
  <2> HIDE DEF got
  <2>3. (3 * cap) \div 2 > cap
    OBVIOUS
  <2>4. cap' \in Nat /\ cap' >= 2 /\ count' \in 0 .. cap' - 1
    BY <2>1, <2>2, <2>3
  <2>5. inq' \in 0 .. arrived
    BY <2>1, <2>2
  <2> QED
    BY <2>2, <2>4, <2>5
<1>10. CASE ReadEnd(w)
  BY <1>10 DEF ReadEnd
<1>11. CASE ReadDrained(w)
  BY <1>11 DEF ReadDrained, Tell
<1> QED
  BY <1>1, <1>4, <1>5, <1>6, <1>7, <1>8, <1>9, <1>10, <1>11

\* What write() takes and what it leaves are the two halves of the buffer.
LEMMA Halves ==
    ASSUME NEW S, NEW q \in Seq(S), NEW n \in 0 .. Len(q)
    PROVE  /\ SubSeq(q, 1, n) \in Seq(S) /\ SubSeq(q, n + 1, Len(q)) \in Seq(S)
           /\ SubSeq(q, 1, n) \o SubSeq(q, n + 1, Len(q)) = q
           /\ n < Len(q) <=> SubSeq(q, n + 1, Len(q)) # <<>>
<1> DEFINE a == SubSeq(q, 1, n)  b == SubSeq(q, n + 1, Len(q))
<1>1. Len(q) \in Nat
  BY LenProperties
<1>2. a \in Seq(S) /\ Len(a) = n /\ \A i \in 1 .. n : a[i] = q[i]
  BY <1>1, SubSeqProperties
<1>3. /\ b \in Seq(S) /\ Len(b) = Len(q) - n
      /\ \A i \in 1 .. Len(q) - n : b[i] = q[n + i]
  BY <1>1, SubSeqProperties
<1> HIDE DEF a, b
<1>4. /\ a \o b \in Seq(S) /\ Len(a \o b) = Len(q)
      /\ \A i \in 1 .. Len(q) : (a \o b)[i] = q[i]
  <2>1. /\ a \o b \in Seq(S) /\ Len(a \o b) = n + (Len(q) - n)
        /\ \A i \in 1 .. n + (Len(q) - n) :
             (a \o b)[i] = IF i <= n THEN a[i] ELSE b[i - n]
    <3>1. a \in Seq(S) /\ b \in Seq(S)
      BY <1>2, <1>3
    <3>2. /\ a \o b \in Seq(S) /\ Len(a \o b) = Len(a) + Len(b)
          /\ \A i \in 1 .. Len(a) + Len(b) :
               (a \o b)[i] = IF i <= Len(a) THEN a[i] ELSE b[i - Len(a)]
      BY <3>1, ConcatProperties, Zenon
    <3>3. Len(a) = n /\ Len(b) = Len(q) - n
      BY <1>2, <1>3
    <3> QED
      BY <3>2, <3>3, Zenon
  <2>2. \A i \in 1 .. Len(q) :
          IF i <= n THEN a[i] = q[i] ELSE b[i - n] = q[i]
    <3>1. ASSUME NEW i \in 1 .. Len(q), ~(i <= n)
          PROVE  i - n \in 1 .. Len(q) - n /\ n + (i - n) = i
      BY <1>1, <3>1
    <3> QED
      BY <1>1, <1>2, <1>3, <3>1
  <2>3. n + (Len(q) - n) = Len(q)
    BY <1>1
  <2> QED
    BY <2>1, <2>2, <2>3
<1>5. a \o b = q
  BY <1>4, SeqEqual
<1>6. n < Len(q) <=> b # <<>>
  BY <1>1, <1>3, EmptySeq
<1> QED
  BY <1>2, <1>3, <1>5, <1>6 DEF a, b

LEMMA WriteType ==
    ASSUME IInv,
           \/ \E w \in Workers : \/ WriteEmpty(w) \/ WriteSome(w)
                                 \/ WriteFails(w) \/ WriteBrokenPipe(w)
           \/ \E s \in Senders : NotifyWriteEvent(s) \/ ArmWriteEvent(s)
           \/ GetReceivedData
    PROVE  IInv'
<1> USE ChannelAssumption, ThreadSets
    DEF IInv, TypeOK, RoomInv, inVars, outVars, epollVars, recvVars, sendVars,
        Goto, Places
<1>1. ASSUME NEW w \in Workers, WriteEmpty(w) PROVE IInv'
  <2>1. armOut' \in BOOLEAN /\ rdy' \in BOOLEAN
    BY <1>1, Zenon DEF WriteEmpty, ModifyEvent
  <2>2. /\ pc[w] = "write" /\ pc' = [pc EXCEPT ![w] = "idle"]
        /\ UNCHANGED <<inVars, outVars, shut, open, tasks, active, recvVars,
                       sendVars, passedOver, loop, crashed>>
    BY <1>1 DEF WriteEmpty
  <2> QED
    BY <2>1, <2>2
<1>2. ASSUME NEW w \in Workers, WriteSome(w) PROVE IInv'
  <2> DEFINE n == Smaller(SockBuf - outq, Len(sendingBuf))
  <2>1. n \in 0 .. Len(sendingBuf) /\ n <= SockBuf - outq
    BY LenProperties DEF Smaller
  <2>2. /\ wire' = wire \o SubSeq(sendingBuf, 1, n) /\ outq' = outq + n
        /\ sendingBuf' = SubSeq(sendingBuf, n + 1, Len(sendingBuf))
        /\ pc[w] = "write" /\ pc' = [pc EXCEPT ![w] = "idle"]
        /\ UNCHANGED <<inVars, shut, epollVars, tasks, active, recvVars,
                       appended, ownSet, passedOver, loop, crashed>>
    BY <1>2 DEF WriteSome
  <2>3. nospace' \in BOOLEAN
    BY <1>2, Zenon DEF WriteSome
  <2> HIDE DEF n
  <2>4. wire' \in Seq(1 .. MaxOut) /\ sendingBuf' \in Seq(1 .. MaxOut)
    BY <2>1, <2>2, Halves, ConcatProperties
  <2> QED
    BY <2>1, <2>2, <2>3, <2>4
<1>3. ASSUME NEW w \in Workers, WriteFails(w) PROVE IInv'
  <2>1. rdy' \in BOOLEAN
    BY <1>3, Zenon DEF WriteFails, Disable
  <2>2. /\ rst' \in {"none", "pending", "told"}
        /\ shut' \in SUBSET {"RD", "WR"}
        /\ pc[w] = "write" /\ pc' = [pc EXCEPT ![w] = "idle"]
        /\ UNCHANGED <<inq, arrived, peerClosed, outVars, open, armOut, tasks,
                       active, recvVars, sendVars, passedOver, loop, crashed>>
    BY <1>3 DEF WriteFails, Disable, Tell
  <2> QED
    BY <2>1, <2>2
<1>4. ASSUME NEW w \in Workers, WriteBrokenPipe(w) PROVE IInv'
  BY <1>4 DEF WriteBrokenPipe
<1>5. ASSUME NEW s \in Senders, NotifyWriteEvent(s) PROVE IInv'
  <2>1. appended' = appended + 1 /\ appended' \in 1 .. MaxOut
        /\ sendingBuf' = Append(sendingBuf, appended')
    BY <1>5 DEF NotifyWriteEvent
  <2>2. sendingBuf' \in Seq(1 .. MaxOut)
    BY <2>1, AppendProperties
  <2> QED
    BY <1>5, <2>1, <2>2 DEF NotifyWriteEvent
<1>6. ASSUME NEW s \in Senders, ArmWriteEvent(s) PROVE IInv'
  BY <1>6 DEF ArmWriteEvent, ModifyEvent
<1>7. CASE GetReceivedData
  BY <1>7 DEF GetReceivedData
<1> QED
  BY <1>1, <1>2, <1>3, <1>4, <1>5, <1>6, <1>7

LEMMA NextType ==
    ASSUME IInv, [Next]_vars
    PROVE  IInv'
<1>1. CASE UNCHANGED vars
  BY <1>1 DEF vars, IInv, TypeOK, RoomInv, inVars, outVars, epollVars,
     recvVars, sendVars
<1> QED
  BY <1>1, PeerType, LoopType, ReadType, WriteType DEF Next, WorkerStep

-------------------------------------------------------------------------------
(* WrittenInOrder: a write moves the front of the buffer to the wire.        *)

LEMMA OrderStep ==
    ASSUME IInv, WrittenInOrder, [Next]_vars
    PROVE  WrittenInOrder'
<1> USE DEF inVars, outVars, epollVars, recvVars, sendVars
<1>1. sendingBuf \in Seq(1 .. MaxOut) /\ wire \in Seq(1 .. MaxOut)
      /\ appended \in Nat
  BY DEF IInv, TypeOK
<1>2. ASSUME UNCHANGED <<wire, sendingBuf, appended>> PROVE WrittenInOrder'
  BY <1>2 DEF WrittenInOrder
<1>3. CASE PeerSend \/ PeerClose \/ PeerReset \/ PeerTake
  BY <1>2, <1>3 DEF PeerSend, PeerClose, PeerReset, PeerTake
<1>4. CASE LoopStep
  BY <1>2, <1>4 DEF LoopStep, WaitForEvents, CloseFd, LoopInactive
<1>5. ASSUME NEW w \in Workers, WorkerStep(w), ~WriteSome(w)
      PROVE  WrittenInOrder'
  <2>1. CASE \E k \in Kinds : HandleEvent(w, k)
    BY <1>2, <2>1 DEF HandleEvent
  <2>2. CASE HandleHangUp(w) \/ ReadLock(w) \/ ReadSome(w) \/ ReadEnd(w)
    BY <1>2, <2>2 DEF HandleHangUp, ReadLock, ReadSome, ReadEnd
  <2>3. CASE ReadDrained(w) \/ DisableReceive(w) \/ DisableSend(w)
             \/ Inactive(w)
    BY <1>2, <2>3 DEF ReadDrained, DisableReceive, DisableSend, Inactive
  <2>4. CASE WriteEmpty(w) \/ WriteFails(w) \/ WriteBrokenPipe(w)
    BY <1>2, <2>4 DEF WriteEmpty, WriteFails, WriteBrokenPipe
  <2> QED
    BY <1>5, <2>1, <2>2, <2>3, <2>4 DEF WorkerStep
<1>6. ASSUME NEW w \in Workers, WriteSome(w) PROVE WrittenInOrder'
  <2> DEFINE n == Smaller(SockBuf - outq, Len(sendingBuf))
             front == SubSeq(sendingBuf, 1, n)
             rest == SubSeq(sendingBuf, n + 1, Len(sendingBuf))
  <2>1. n \in 0 .. Len(sendingBuf)
    BY <1>1, LenProperties, ChannelAssumption DEF Smaller, IInv, TypeOK
  <2>2. front \in Seq(1 .. MaxOut) /\ rest \in Seq(1 .. MaxOut)
    BY <1>1, <2>1, Halves
  <2>3. front \o rest = sendingBuf
    BY <1>1, <2>1, Halves
  <2>4. wire' = wire \o front /\ sendingBuf' = rest /\ appended' = appended
    BY <1>6 DEF WriteSome
  <2> HIDE DEF n, front, rest
  <2>5. (wire \o front) \o rest = wire \o (front \o rest)
    BY <1>1, <2>2, ConcatAssociative
  <2> QED
    BY <2>3, <2>4, <2>5 DEF WrittenInOrder
<1>7. ASSUME NEW s \in Senders, NotifyWriteEvent(s) PROVE WrittenInOrder'
  <2>1. /\ appended' = appended + 1 /\ wire' = wire
        /\ sendingBuf' = Append(sendingBuf, appended + 1)
        /\ appended + 1 \in 1 .. MaxOut
    <3>1. /\ appended' = appended + 1 /\ wire' = wire
          /\ sendingBuf' = Append(sendingBuf, appended') /\ appended < MaxOut
      BY <1>7 DEF NotifyWriteEvent
    <3>2. appended + 1 \in 1 .. MaxOut
      BY <1>1, <3>1, ChannelAssumption
    <3> QED
      BY <3>1, <3>2
  <2>2. wire \o sendingBuf' = Append(wire \o sendingBuf, appended + 1)
    <3> DEFINE last == <<appended + 1>>
    <3>1. last \in Seq(1 .. MaxOut)
      BY <2>1
    <3>2. sendingBuf' = sendingBuf \o last
      BY <1>1, <2>1, AppendIsConcat
    <3>3. wire \o (sendingBuf \o last) = (wire \o sendingBuf) \o last
      BY <1>1, <3>1, ConcatAssociative
    <3>4. wire \o sendingBuf \in Seq(1 .. MaxOut)
      BY <1>1, ConcatProperties
    <3>5. (wire \o sendingBuf) \o last
            = Append(wire \o sendingBuf, appended + 1)
      BY <2>1, <3>4, AppendIsConcat
    <3> QED
      BY <3>2, <3>3, <3>5
  <2>3. WrittenInOrder
    OBVIOUS
  <2>4. Append(wire \o sendingBuf, appended + 1)
          = [i \in 1 .. appended + 1 |-> i]
    <3> DEFINE s0 == wire \o sendingBuf
               s1 == Append(s0, appended + 1)
               s2 == [i \in 1 .. appended + 1 |-> i]
    <3>1. s0 \in Seq(1 .. MaxOut) /\ s0 = [i \in 1 .. appended |-> i]
      BY <1>1, ConcatProperties DEF WrittenInOrder
    <3>2. Len(s0) = appended /\ \A i \in 1 .. appended : s0[i] = i
      BY <1>1, <3>1
    <3> HIDE DEF s0
    <3>3. /\ s1 \in Seq(1 .. MaxOut) /\ Len(s1) = appended + 1
          /\ \A i \in 1 .. appended : s1[i] = s0[i]
          /\ s1[appended + 1] = appended + 1
      <4> DEFINE S == 1 .. MaxOut  e == appended + 1
      <4>1. e \in S /\ s0 \in Seq(S)
        BY <2>1, <3>1
      <4> HIDE DEF S, e
      <4>2. /\ s1 \in Seq(S) /\ Len(s1) = Len(s0) + 1
            /\ \A i \in 1 .. Len(s0) : s1[i] = s0[i]
            /\ s1[Len(s0) + 1] = e
        BY <4>1, AppendProperties DEF e
      <4> QED
        BY <3>2, <4>2 DEF S, e
    <3>4. s2 \in Seq(1 .. MaxOut) /\ Len(s2) = appended + 1
          /\ \A i \in 1 .. appended + 1 : s2[i] = i
      BY <1>1, <2>1, ChannelAssumption
    <3> HIDE DEF s1, s2
    <3>5. \A i \in 1 .. Len(s1) : s1[i] = s2[i]
      BY <1>1, <3>2, <3>3, <3>4
    <3>6. s1 = s2
      BY <3>3, <3>4, <3>5, SeqEqual
    <3> QED
      BY <3>6 DEF s0, s1, s2
  <2>5. wire' \o sendingBuf' = [i \in 1 .. appended' |-> i]
    BY <2>1, <2>2, <2>4
  <2> QED
    BY <2>5 DEF WrittenInOrder
<1>8. ASSUME NEW s \in Senders, ArmWriteEvent(s) PROVE WrittenInOrder'
  BY <1>2, <1>8 DEF ArmWriteEvent
<1>9. CASE GetReceivedData
  BY <1>2, <1>9 DEF GetReceivedData
<1>10. CASE UNCHANGED vars
  BY <1>2, <1>10 DEF vars
<1> QED
  BY <1>3, <1>4, <1>5, <1>6, <1>7, <1>8, <1>9, <1>10 DEF Next

-------------------------------------------------------------------------------
(* DeadOnlyAtEnd.                                                            *)

LEMMA EndStep ==
    ASSUME IInv, EndInv, [Next]_vars
    PROVE  EndInv'
<1> SUFFICES ASSUME ~peerClosed' PROVE Alive'
  BY DEF EndInv
<1> USE DEF Alive, inVars, outVars, epollVars, recvVars, sendVars
<1>1. Alive /\ ~peerClosed
  <2>1. ~peerClosed
    <3>1. CASE PeerSend \/ PeerClose \/ PeerReset \/ PeerTake
      BY <3>1 DEF PeerSend, PeerClose, PeerReset, PeerTake
    <3>2. CASE LoopStep
      BY <3>2 DEF LoopStep, WaitForEvents, CloseFd, LoopInactive
    <3>3. ASSUME NEW w \in Workers, WorkerStep(w) PROVE ~peerClosed
      <4>1. CASE \E k \in Kinds : HandleEvent(w, k)
        BY <4>1 DEF HandleEvent
      <4>2. CASE \/ HandleHangUp(w) \/ ReadLock(w) \/ ReadSome(w)
                 \/ ReadEnd(w) \/ ReadDrained(w)
        BY <4>2 DEF HandleHangUp, ReadLock, ReadSome, ReadEnd, ReadDrained
      <4>3. CASE DisableReceive(w) \/ DisableSend(w) \/ Inactive(w)
        BY <4>3 DEF DisableReceive, DisableSend, Inactive
      <4>4. CASE \/ WriteEmpty(w) \/ WriteSome(w) \/ WriteFails(w)
                 \/ WriteBrokenPipe(w)
        BY <4>4 DEF WriteEmpty, WriteSome, WriteFails, WriteBrokenPipe
      <4> QED
        BY <3>3, <4>1, <4>2, <4>3, <4>4 DEF WorkerStep
    <3>4. CASE GetReceivedData
      BY <3>4 DEF GetReceivedData
    <3>5. ASSUME NEW s \in Senders, NotifyWriteEvent(s) \/ ArmWriteEvent(s)
          PROVE  ~peerClosed
      BY <3>5 DEF NotifyWriteEvent, ArmWriteEvent
    <3>6. CASE UNCHANGED vars
      BY <3>6 DEF vars
    <3> QED
      BY <3>1, <3>2, <3>3, <3>4, <3>5, <3>6 DEF Next
  <2> QED
    BY <2>1 DEF EndInv
<1>2. ~AtEnd /\ ~HungUp
  BY <1>1 DEF AtEnd, HungUp
<1>3. CASE PeerSend \/ PeerClose \/ PeerReset \/ PeerTake
  BY <1>1, <1>3 DEF PeerSend, PeerClose, PeerReset, PeerTake
<1>4. CASE WaitForEvents
  <2>1. ~(tasks'["hup"] > 0)
    BY <1>1, <1>2, <1>4, ReportedTasks DEF IInv
  <2> QED
    BY <1>1, <1>2, <1>4, <2>1 DEF WaitForEvents
<1>5. CASE CloseFd \/ LoopInactive
  BY <1>1, <1>5 DEF CloseFd, LoopInactive
<1> USE ThreadSets
<1>6. ASSUME NEW t \in Threads, NEW p \in Places \ {"hup", "disableReceive",
                                 "disableSend", "inactive"},
             pc' = [pc EXCEPT ![t] = p],
             UNCHANGED <<shut, active, loop, tasks>>
      PROVE  Alive'
  BY <1>1, <1>6 DEF IInv, TypeOK
<1>7. ASSUME NEW w \in Workers, WorkerStep(w) PROVE Alive'
  <2>1. ASSUME NEW k \in Kinds, HandleEvent(w, k) PROVE Alive'
    <3>1. /\ tasks[k] > 0 /\ tasks' = [tasks EXCEPT ![k] = @ - 1]
          /\ tasks \in [Kinds -> Nat] /\ pc \in [Threads -> Places]
          /\ UNCHANGED <<shut, active, loop>>
      BY <2>1 DEF HandleEvent, IInv, TypeOK
    <3>2. k # "hup"
      BY <1>1, <3>1
    <3>3. ~(tasks'["hup"] > 0)
      BY <1>1, <3>1, <3>2 DEF Kinds
    <3>4. \E p \in {"write", "read", "idle"} : pc' = [pc EXCEPT ![w] = p]
      BY <2>1, <3>2 DEF HandleEvent, Goto, Branch
    <3> QED
      BY <1>1, <3>1, <3>3, <3>4
  <2>2. CASE \/ HandleHangUp(w) \/ DisableReceive(w) \/ DisableSend(w)
             \/ Inactive(w)
    BY <1>1, <2>2 DEF HandleHangUp, DisableReceive, DisableSend, Inactive
  <2>3. CASE ReadLock(w)
    BY <1>6, <2>3 DEF ReadLock, Goto, Places
  <2>4. CASE ReadEnd(w)
    <3>1. count # cap
      BY DEF IInv, TypeOK
    <3> QED
      BY <1>2, <2>4, <3>1 DEF ReadEnd
  <2>5. CASE ReadDrained(w)
    BY <1>6, <2>5 DEF ReadDrained, Goto, Places
  <2>6. CASE ReadSome(w) \/ WriteBrokenPipe(w)
    BY <1>1, <2>6 DEF ReadSome, WriteBrokenPipe
  <2>7. CASE WriteEmpty(w)
    BY <1>6, <2>7 DEF WriteEmpty, Goto, Places
  <2>8. CASE WriteSome(w)
    BY <1>6, <2>8 DEF WriteSome, Goto, Places
  <2>9. CASE WriteFails(w)
    <3>1. "RD" \notin shut'
      BY <1>1, <2>9 DEF WriteFails, Disable
    <3>2. /\ pc' = [pc EXCEPT ![w] = "idle"] /\ pc \in [Threads -> Places]
          /\ UNCHANGED <<active, loop, tasks>>
      BY <2>9 DEF WriteFails, Goto, IInv, TypeOK
    <3> QED
      BY <1>1, <3>1, <3>2
  <2> QED
    BY <1>7, <2>1, <2>2, <2>3, <2>4, <2>5, <2>6, <2>7, <2>8, <2>9
    DEF WorkerStep
<1>8. CASE GetReceivedData
  BY <1>1, <1>8 DEF GetReceivedData
<1>9. ASSUME NEW s \in Senders, NotifyWriteEvent(s) PROVE Alive'
  BY <1>6, <1>9 DEF NotifyWriteEvent, Goto, Places
<1>10. ASSUME NEW s \in Senders, ArmWriteEvent(s) PROVE Alive'
  BY <1>6, <1>10 DEF ArmWriteEvent, Goto, Places
<1>11. CASE UNCHANGED vars
  BY <1>1, <1>11 DEF vars
<1> QED
  BY <1>3, <1>4, <1>5, <1>7, <1>8, <1>9, <1>10, <1>11 DEF Next, LoopStep

-------------------------------------------------------------------------------
(* NoForgottenData.                                                          *)

DueInv == ArmedInv /\ NoForgottenData

\* Whatever leaves the buffer alone and takes nobody off the way to it.
Keeps ==
    /\ UNCHANGED <<sendingBuf, armOut, ownSet>>
    /\ (open' => open) /\ (active' => active) /\ shut \subseteq shut'
    /\ (rdy => rdy') /\ (nospace => nospace' \/ (open => rdy'))
    /\ (passedOver => passedOver')
    /\ tasks["out"] > 0 => tasks'["out"] > 0
    /\ tasks["inout"] > 0 => tasks'["inout"] > 0
    /\ \A s \in Senders : pc[s] = "arm" => pc'[s] = "arm"
    /\ \A w \in Workers : pc[w] = "write" => pc'[w] = "write"

LEMMA KeepsDue ==
    ASSUME DueInv, Keeps
    PROVE  DueInv'
<1>1. ArmedInv'
  BY DEF DueInv, ArmedInv, Keeps
<1>2. ASSUME sendingBuf' # <<>> /\ ownSet' /\ open' /\ active'
             /\ "WR" \notin shut'
      PROVE  (WriteIsDue \/ passedOver \/ tasks["inout"] > 0)'
  <2>1. WriteIsDue \/ passedOver \/ tasks["inout"] > 0
    BY <1>2 DEF DueInv, NoForgottenData, Keeps
  <2> QED
    BY <1>2, <2>1 DEF WriteIsDue, Keeps
<1> QED
  BY <1>1, <1>2 DEF DueInv, NoForgottenData

\* A thread goes from one place to another.
LEMMA Moves ==
    ASSUME IInv, NEW t \in Threads, NEW p, Goto(t, p),
           pc[t] \notin {"arm", "write"}
    PROVE  /\ \A s \in Senders : pc[s] = "arm" => pc'[s] = "arm"
           /\ \A w \in Workers : pc[w] = "write" => pc'[w] = "write"
           /\ pc'[t] = p
BY ThreadSets DEF IInv, TypeOK, Goto

LEMMA PeerDue ==
    ASSUME IInv, DueInv, PeerSend \/ PeerClose \/ PeerReset \/ PeerTake
    PROVE  DueInv'
<1> USE DEF inVars, outVars, recvVars, sendVars
<1>1. CASE PeerSend \/ PeerClose
  <2>1. open => rdy'
    BY <1>1 DEF PeerSend, PeerClose
  <2>2. DueInv' \/ Keeps
    <3>1. CASE open
      BY <1>1, <2>1, <3>1 DEF PeerSend, PeerClose, Keeps
    <3>2. CASE ~open
      BY <1>1, <3>2 DEF PeerSend, PeerClose, DueInv, ArmedInv,
         NoForgottenData
    <3> QED
      BY <3>1, <3>2
  <2> QED
    BY <2>2, KeepsDue
<1>2. CASE PeerReset
  BY <1>2 DEF PeerReset, DueInv, ArmedInv, NoForgottenData
<1>3. CASE PeerTake
  <2>1. Keeps
    BY <1>3 DEF PeerTake, Keeps
  <2> QED
    BY <2>1, KeepsDue
<1> QED
  BY <1>1, <1>2, <1>3

LEMMA LoopDue ==
    ASSUME IInv, DueInv, LoopStep
    PROVE  DueInv'
<1> USE DEF inVars, outVars, epollVars, recvVars, sendVars
<1>1. CASE WaitForEvents
  <2>1. UNCHANGED <<sendingBuf, ownSet, open, armOut, pc, active, shut,
                    passedOver>>
    BY <1>1 DEF WaitForEvents
  <2>2. ArmedInv'
    BY <2>1 DEF DueInv, ArmedInv
  <2>3. ASSUME sendingBuf' # <<>> /\ ownSet' /\ open' /\ active'
             /\ "WR" \notin shut'
        PROVE  (WriteIsDue \/ passedOver \/ tasks["inout"] > 0)'
    <3>1. WriteIsDue \/ passedOver \/ tasks["inout"] > 0
      BY <2>1, <2>3 DEF DueInv, NoForgottenData
    <3>2. /\ tasks["out"] > 0 => tasks'["out"] > 0
          /\ tasks["inout"] > 0 => tasks'["inout"] > 0
      BY <1>1, ReportedTasks DEF IInv, Kinds
    <3>3. CASE ~armOut
      BY <2>1, <3>1, <3>2, <3>3 DEF WriteIsDue
    <3>4. CASE armOut /\ ~Writable
      <4>1. nospace'
        BY <1>1, <3>4 DEF WaitForEvents
      <4> QED
        BY <2>1, <3>4, <4>1 DEF WriteIsDue
    <3>5. CASE armOut /\ Writable
      <4>1. ~HungUp
        BY <2>1, <2>3 DEF HungUp
      <4>2. tasks'["out"] > 0 \/ tasks'["inout"] > 0
        BY <1>1, <3>5, <4>1, ReportedTasks DEF IInv
      <4> QED
        BY <4>2 DEF WriteIsDue
    <3> QED
      BY <3>3, <3>4, <3>5
  <2> QED
    BY <2>2, <2>3 DEF DueInv, NoForgottenData
<1>2. CASE CloseFd
  BY <1>2 DEF CloseFd, DueInv, ArmedInv, NoForgottenData
<1>3. CASE LoopInactive
  BY <1>3 DEF LoopInactive, DueInv, ArmedInv, NoForgottenData
<1> QED
  BY <1>1, <1>2, <1>3 DEF LoopStep

LEMMA WorkerDue ==
    ASSUME IInv, DueInv, NEW w \in Workers, WorkerStep(w)
    PROVE  DueInv'
<1> USE ThreadSets DEF inVars, outVars, epollVars, recvVars, sendVars
<1>1. ASSUME NEW k \in Kinds, HandleEvent(w, k) PROVE DueInv'
  <2>1. UNCHANGED <<sendingBuf, ownSet, open, armOut, active, shut, rdy,
                    nospace>>
    BY <1>1 DEF HandleEvent
  <2>2. ASSUME NEW s \in Senders, pc[s] = "arm" PROVE pc'[s] = "arm"
    BY <1>1, <2>2, Moves DEF HandleEvent
  <2>3. ArmedInv'
    BY <2>1, <2>2 DEF DueInv, ArmedInv
  <2>4. ASSUME sendingBuf' # <<>> /\ ownSet' /\ open' /\ active'
             /\ "WR" \notin shut'
        PROVE  (WriteIsDue \/ passedOver \/ tasks["inout"] > 0)'
    <3>1. WriteIsDue \/ passedOver \/ tasks["inout"] > 0
      BY <2>1, <2>4 DEF DueInv, NoForgottenData
    <3>2. CASE k = "inout"
      BY <1>1, <3>2 DEF HandleEvent
    <3>3. CASE k = "out"
      <4>1. pc'[w] = "write"
        BY <1>1, <2>1, <2>4, <3>3, Moves DEF HandleEvent, Branch
      <4> QED
        BY <4>1 DEF WriteIsDue
    <3>4. CASE k \notin {"out", "inout"}
      <4>1. tasks'["out"] = tasks["out"] /\ tasks'["inout"] = tasks["inout"]
        BY <1>1, <3>4 DEF HandleEvent, Kinds, IInv, TypeOK
      <4>2. passedOver => passedOver'
        BY <1>1 DEF HandleEvent
      <4>3. \A v \in Workers : pc[v] = "write" => pc'[v] = "write"
        BY <1>1, Moves DEF HandleEvent
      <4> QED
        BY <2>1, <2>2, <3>1, <4>1, <4>2, <4>3 DEF WriteIsDue
    <3> QED
      BY <3>2, <3>3, <3>4
  <2> QED
    BY <2>3, <2>4 DEF DueInv, NoForgottenData
<1>2. CASE ReadLock(w) \/ ReadEnd(w) \/ ReadDrained(w)
  <2>1. Keeps
    BY <1>2, Moves DEF ReadLock, ReadEnd, ReadDrained, Keeps
  <2> QED
    BY <2>1, KeepsDue
<1>3. CASE ReadSome(w)
  <2>1. Keeps
    BY <1>3 DEF ReadSome, Keeps
  <2> QED
    BY <2>1, KeepsDue
<1>4. CASE HandleHangUp(w) \/ DisableReceive(w) \/ DisableSend(w)
  <2>1. shut \subseteq shut' /\ (rdy => rdy')
    <3>1. \E D \in SUBSET {"RD", "WR"} : Disable(D)
      BY <1>4 DEF HandleHangUp, DisableReceive, DisableSend
    <3> QED
      BY <3>1 DEF Disable
  <2>2. \E p \in Places : Goto(w, p) /\ pc[w] \notin {"arm", "write"}
    BY <1>4 DEF HandleHangUp, DisableReceive, DisableSend, Places
  <2>3. UNCHANGED <<outVars, open, armOut, tasks, active, sendVars,
                    passedOver>>
    BY <1>4 DEF HandleHangUp, DisableReceive, DisableSend
  <2>4. Keeps
    BY <2>1, <2>2, <2>3, Moves DEF Keeps
  <2> QED
    BY <2>4, KeepsDue
<1>5. CASE Inactive(w)
  <2>1. Keeps
    BY <1>5, Moves DEF Inactive, Keeps
  <2> QED
    BY <2>1, KeepsDue
<1>6. CASE WriteEmpty(w)
  BY <1>6 DEF WriteEmpty, DueInv, ArmedInv, NoForgottenData
<1>7. CASE WriteSome(w)
  <2> DEFINE n == Smaller(SockBuf - outq, Len(sendingBuf))
             rest == SubSeq(sendingBuf, n + 1, Len(sendingBuf))
  <2>1. /\ n > 0 /\ sendingBuf' = rest
        /\ nospace' = (nospace \/ n < Len(sendingBuf))
        /\ open /\ pc[w] = "write" /\ pc' = [pc EXCEPT ![w] = "idle"]
        /\ UNCHANGED <<epollVars, ownSet, passedOver>>
    BY <1>7 DEF WriteSome, Goto
  <2>2. n \in 0 .. Len(sendingBuf) /\ Len(sendingBuf) \in Nat
    <3>1. Len(sendingBuf) \in Nat /\ SockBuf - outq \in Nat
      BY LenProperties, ChannelAssumption DEF IInv, TypeOK
    <3> QED
      BY <3>1 DEF Smaller
  <2>3. n < Len(sendingBuf) <=> rest # <<>>
    BY <2>2, Halves DEF IInv, TypeOK
  <2>4. sendingBuf # <<>>
    BY <2>1, <2>2, EmptySeq
  <2> HIDE DEF n, rest
  <2>5. \A s \in Senders : pc[s] = "arm" => pc'[s] = "arm"
    BY <2>1 DEF IInv, TypeOK
  <2>6. ownSet' => ownSet /\ (armOut' \/ \E s \in Senders : pc'[s] = "arm")
    BY <2>1, <2>4, <2>5 DEF DueInv, ArmedInv
  <2>7. sendingBuf' # <<>> => nospace'
    BY <2>1, <2>3
  <2> QED
    BY <2>6, <2>7 DEF DueInv, ArmedInv, NoForgottenData, WriteIsDue
<1>8. CASE WriteFails(w)
  <2>1. active /\ open => "WR" \in shut'
    BY <1>8 DEF WriteFails, Disable
  <2>2. /\ UNCHANGED <<open, armOut, active, sendingBuf, ownSet>>
        /\ \A s \in Senders : pc[s] = "arm" => pc'[s] = "arm"
    BY <1>8 DEF WriteFails, Goto, IInv, TypeOK
  <2> QED
    BY <2>1, <2>2 DEF DueInv, ArmedInv, NoForgottenData
<1>9. CASE WriteBrokenPipe(w)
  BY <1>9 DEF WriteBrokenPipe, DueInv, ArmedInv, NoForgottenData
<1> QED
  BY <1>1, <1>2, <1>3, <1>4, <1>5, <1>6, <1>7, <1>8, <1>9 DEF WorkerStep

LEMMA NextDue ==
    ASSUME IInv, DueInv, [Next]_vars
    PROVE  DueInv'
<1> USE ThreadSets DEF inVars, outVars, epollVars, recvVars, sendVars
<1>1. ASSUME NEW s \in Senders, NotifyWriteEvent(s) PROVE DueInv'
  <2>1. pc'[s] = "arm"
    BY <1>1, Moves DEF NotifyWriteEvent
  <2> QED
    BY <2>1 DEF DueInv, ArmedInv, NoForgottenData, WriteIsDue
<1>2. ASSUME NEW s \in Senders, ArmWriteEvent(s) PROVE DueInv'
  <2>1. ownSet' /\ open' => armOut' /\ rdy'
    BY <1>2 DEF ArmWriteEvent, ModifyEvent
  <2> QED
    BY <2>1 DEF DueInv, ArmedInv, NoForgottenData, WriteIsDue
<1>3. CASE GetReceivedData \/ UNCHANGED vars
  <2>1. Keeps
    BY <1>3 DEF GetReceivedData, vars, Keeps
  <2> QED
    BY <2>1, KeepsDue
<1> QED
  BY <1>1, <1>2, <1>3, PeerDue, LoopDue, WorkerDue DEF Next

-------------------------------------------------------------------------------
(* SlaveNeverWrites.                                                         *)

\* Nobody is on the way to Write.
Unasked ==
    /\ ~armOut /\ ~(tasks["out"] > 0) /\ ~(tasks["inout"] > 0)
    /\ \A w \in Workers : pc[w] # "write"
    /\ wire = <<>>

SlaveInv == ~ownSet => Unasked

LEMMA SlaveStep ==
    ASSUME IInv, SlaveInv, [Next]_vars
    PROVE  SlaveInv'
<1> USE ThreadSets DEF inVars, outVars, epollVars, recvVars, sendVars
<1>1. ASSUME UNCHANGED <<ownSet, armOut, tasks, wire>>,
             \A w \in Workers : pc'[w] = "write" => pc[w] = "write"
      PROVE  SlaveInv'
  BY <1>1 DEF SlaveInv, Unasked
<1>2. CASE PeerSend \/ PeerClose \/ PeerReset \/ PeerTake
  BY <1>1, <1>2 DEF PeerSend, PeerClose, PeerReset, PeerTake
<1>3. CASE WaitForEvents
  <2>1. UNCHANGED <<ownSet, armOut, wire, pc>>
    BY <1>3 DEF WaitForEvents
  <2>2. ASSUME ~ownSet
        PROVE  ~(tasks'["out"] > 0) /\ ~(tasks'["inout"] > 0)
    <3>1. ~armOut /\ ~(tasks["out"] > 0) /\ ~(tasks["inout"] > 0)
      BY <2>2 DEF SlaveInv, Unasked
    <3>2. Reported = {} \/ \E k \in {"hup", "in"} : Reported = {k}
      BY <3>1 DEF Reported
    <3>3. tasks' = tasks
          \/ \E k \in {"hup", "in"} : tasks' = [tasks EXCEPT ![k] = @ + 1]
      <4>1. CASE Reported = {}
        BY <1>3, <4>1 DEF WaitForEvents
      <4>2. ASSUME NEW k \in {"hup", "in"}, Reported = {k}
            PROVE  tasks' = [tasks EXCEPT ![k] = @ + 1]
        <5>1. (CHOOSE j \in Reported : TRUE) = k
          BY <4>2
        <5>2. Reported # {} /\ Reported # {"in", "out"}
          BY <4>2
        <5>3. tasks' = [tasks EXCEPT ![CHOOSE j \in Reported : TRUE] = @ + 1]
          BY <1>3, <5>2 DEF WaitForEvents
        <5> QED
          BY <5>1, <5>3
      <4> QED
        BY <3>2, <4>1, <4>2
    <3>4. tasks'["out"] = tasks["out"] /\ tasks'["inout"] = tasks["inout"]
      BY <3>3 DEF IInv, TypeOK, Kinds
    <3> QED
      BY <3>1, <3>4
  <2> QED
    BY <2>1, <2>2 DEF SlaveInv, Unasked
<1>4. CASE CloseFd \/ LoopInactive
  BY <1>1, <1>4 DEF CloseFd, LoopInactive
\* A thread that moves, but not to Write.
<1>5. ASSUME NEW t \in Threads, NEW p \in Places \ {"write"}, Goto(t, p)
      PROVE  \A w \in Workers : pc'[w] = "write" => pc[w] = "write"
  BY <1>5 DEF IInv, TypeOK, Goto
<1>6. ASSUME NEW w \in Workers, WorkerStep(w) PROVE SlaveInv'
  <2>1. ASSUME NEW k \in Kinds, HandleEvent(w, k) PROVE SlaveInv'
    <3>1. /\ tasks[k] > 0 /\ tasks' = [tasks EXCEPT ![k] = @ - 1]
          /\ UNCHANGED <<ownSet, armOut, wire>>
      BY <2>1 DEF HandleEvent
    <3>2. ASSUME ~ownSet PROVE k \in {"hup", "in"}
      BY <3>1, <3>2 DEF SlaveInv, Unasked, Kinds
    <3>3. ASSUME ~ownSet
          PROVE  tasks'["out"] = tasks["out"] /\ tasks'["inout"] = tasks["inout"]
      BY <3>1, <3>2, <3>3 DEF IInv, TypeOK, Kinds
    <3>4. ASSUME ~ownSet PROVE \A v \in Workers : pc'[v] # "write"
      <4>1. \E p \in {"hup", "read", "idle"} : Goto(w, p)
        BY <2>1, <3>2, <3>4 DEF HandleEvent, Branch
      <4>2. \A v \in Workers : pc[v] # "write"
        BY <3>4 DEF SlaveInv, Unasked
      <4> QED
        BY <1>5, <4>1, <4>2 DEF Places
    <3> QED
      BY <3>1, <3>3, <3>4 DEF SlaveInv, Unasked
  <2>2. CASE HandleHangUp(w) \/ ReadLock(w) \/ ReadEnd(w)
    BY <1>1, <1>5, <2>2 DEF HandleHangUp, ReadLock, ReadEnd, Places
  <2>3. CASE ReadDrained(w) \/ DisableReceive(w)
    BY <1>1, <1>5, <2>3 DEF ReadDrained, DisableReceive, Places
  <2>4. CASE DisableSend(w) \/ Inactive(w) \/ WriteFails(w)
    BY <1>1, <1>5, <2>4 DEF DisableSend, Inactive, WriteFails, Places
  <2>5. CASE ReadSome(w) \/ WriteBrokenPipe(w)
    BY <1>1, <2>5 DEF ReadSome, WriteBrokenPipe
  <2>6. CASE WriteEmpty(w) \/ WriteSome(w)
    <3>1. pc[w] = "write" /\ ownSet' = ownSet
      BY <2>6 DEF WriteEmpty, WriteSome
    <3> QED
      BY <3>1 DEF SlaveInv, Unasked
  <2> QED
    BY <1>6, <2>1, <2>2, <2>3, <2>4, <2>5, <2>6 DEF WorkerStep
<1>7. ASSUME NEW s \in Senders, NotifyWriteEvent(s) PROVE SlaveInv'
  BY <1>1, <1>5, <1>7 DEF NotifyWriteEvent, Places
<1>8. ASSUME NEW s \in Senders, ArmWriteEvent(s) PROVE SlaveInv'
  <2>1. UNCHANGED <<ownSet, tasks, wire>> /\ (~ownSet => armOut' = armOut)
    BY <1>8 DEF ArmWriteEvent, ModifyEvent
  <2>2. \A w \in Workers : pc'[w] = "write" => pc[w] = "write"
    BY <1>5, <1>8 DEF ArmWriteEvent, Places
  <2> QED
    BY <2>1, <2>2 DEF SlaveInv, Unasked
<1>9. CASE GetReceivedData \/ UNCHANGED vars
  BY <1>1, <1>9 DEF GetReceivedData, vars
<1> QED
  BY <1>2, <1>3, <1>4, <1>6, <1>7, <1>8, <1>9 DEF Next, LoopStep

-------------------------------------------------------------------------------
(* The close of the peer is answered.  CloseIsAnswered needs fairness; what  *)
(* it needs of the code is that somebody always comes for the close.         *)

\* A thread is on its way to shut the socket down, or will be for a report
\* that is due or in the pool.
Answering ==
    \/ rdy \/ tasks["in"] > 0 \/ tasks["inout"] > 0
    \/ \E w \in Workers :
         pc[w] \in {"read", "reading", "disableReceive", "disableSend"}

CloseIsDue == peerClosed /\ open => Answering \/ loop = "close"

\* A channel is marked dead only after its sending direction is closed, or
\* with the descriptor.
DeadIsShut ==
    /\ open /\ (~active \/ \E w \in Workers : pc[w] = "inactive") => "WR" \in shut
    /\ loop = "inactive" => ~open
    /\ rst = "pending" => "WR" \in shut

\* A socket that is shut on both sides is about to be reported or closed.
HangUpIsSeen == HungUp /\ open => rdy \/ loop = "close"

AnswerInv ==
    /\ DeadIsShut /\ HangUpIsSeen
    /\ peerClosed /\ open /\ "WR" \notin shut => Answering

\* Whatever leaves the socket alone and takes nobody off the way.
Continues ==
    /\ (open' => open) /\ (active => active') /\ shut' = shut /\ peerClosed' = peerClosed
    /\ (rst' = "pending" => rst = "pending") /\ loop' = loop
    /\ (rdy => rdy' \/ ~open')
    /\ tasks["in"] > 0 => tasks'["in"] > 0
    /\ tasks["inout"] > 0 => tasks'["inout"] > 0
    /\ \A w \in Workers : pc'[w] = "inactive" => pc[w] = "inactive"
    /\ \A w \in Workers :
         pc[w] \in {"read", "reading", "disableReceive", "disableSend"} =>
             pc'[w] \in {"read", "reading", "disableReceive", "disableSend"}

LEMMA ContinuesAnswer ==
    ASSUME AnswerInv, Continues
    PROVE  AnswerInv'
<1>1. DeadIsShut'
  BY DEF AnswerInv, DeadIsShut, Continues
<1>2. HangUpIsSeen'
  BY DEF AnswerInv, HangUpIsSeen, HungUp, AtEnd, Continues
<1>3. peerClosed' /\ open' /\ "WR" \notin shut' => Answering'
  BY DEF AnswerInv, Answering, Continues
<1> QED
  BY <1>1, <1>2, <1>3 DEF AnswerInv

\* Disable by a thread that goes on: with a live channel, whoever polls the
\* socket is woken; without one, nothing changes.
LEMMA DisableAnswer ==
    ASSUME IInv, AnswerInv, NEW w \in Workers, NEW D \in SUBSET {"RD", "WR"},
           NEW p \in Places \ {"inactive"}, Disable(D), Goto(w, p),
           UNCHANGED <<peerClosed, open, active, loop, tasks>>,
           rst' = "pending" => rst = "pending",
           pc[w] \in {"hup", "disableReceive", "write"}
    PROVE  AnswerInv'
<1>1. /\ shut \subseteq shut' /\ (rdy => rdy')
      /\ active /\ open => rdy'
      /\ ~(active /\ open) => shut' = shut
  BY DEF Disable
<1>2. \A v \in Workers : pc'[v] = IF v = w THEN p ELSE pc[v]
  BY ThreadSets DEF IInv, TypeOK, Goto
<1>3. DeadIsShut'
  BY <1>1, <1>2 DEF AnswerInv, DeadIsShut
<1>4. CASE active /\ open
  BY <1>1, <1>3, <1>4 DEF AnswerInv, HangUpIsSeen, Answering
<1>5. CASE ~(active /\ open)
  <2>1. open => "WR" \in shut
    BY <1>5 DEF AnswerInv, DeadIsShut
  <2>2. HangUpIsSeen'
    BY <1>1, <1>5 DEF AnswerInv, HangUpIsSeen, HungUp, AtEnd
  <2> QED
    BY <1>1, <1>3, <2>1, <2>2 DEF AnswerInv
<1> QED
  BY <1>4, <1>5

LEMMA PeerAnswer ==
    ASSUME IInv, AnswerInv, PeerSend \/ PeerClose \/ PeerReset \/ PeerTake
    PROVE  AnswerInv'
<1> USE DEF inVars, outVars, epollVars, recvVars, sendVars
<1>1. CASE PeerSend \/ PeerClose \/ PeerReset
  <2>1. /\ rdy' = open /\ UNCHANGED <<open, active, loop, pc, tasks>>
        /\ shut \subseteq shut' /\ (rst' = "pending" => rst = "pending" \/ "WR" \in shut')
    BY <1>1 DEF PeerSend, PeerClose, PeerReset, IInv, TypeOK
  <2>2. DeadIsShut'
    BY <2>1 DEF AnswerInv, DeadIsShut
  <2> QED
    BY <2>1, <2>2 DEF AnswerInv, HangUpIsSeen, Answering
<1>2. CASE PeerTake
  <2>1. Continues
    BY <1>2 DEF PeerTake, Continues
  <2> QED
    BY <2>1, ContinuesAnswer
<1> QED
  BY <1>1, <1>2

LEMMA LoopAnswer ==
    ASSUME IInv, AnswerInv, LoopStep
    PROVE  AnswerInv'
<1> USE DEF inVars, outVars, epollVars, recvVars, sendVars
<1>1. CASE WaitForEvents
  <2>1. /\ UNCHANGED <<open, active, pc, shut, peerClosed, rst>>
        /\ loop' = IF HungUp THEN "close" ELSE "wait"
    BY <1>1 DEF WaitForEvents
  <2>2. DeadIsShut'
    BY <2>1 DEF AnswerInv, DeadIsShut
  <2>3. HungUp' <=> HungUp
    BY <2>1 DEF HungUp, AtEnd
  <2>4. HangUpIsSeen'
    BY <2>1, <2>3 DEF HangUpIsSeen
  <2>5. ASSUME peerClosed', open', "WR" \notin shut' PROVE Answering'
    <3>1. Readable /\ ~HungUp
      BY <2>1, <2>5 DEF Readable, HungUp, AtEnd
    <3>2. tasks'["in"] > 0 \/ tasks'["inout"] > 0
      BY <1>1, <3>1, ReportedTasks DEF IInv
    <3> QED
      BY <3>2 DEF Answering
  <2> QED
    BY <2>2, <2>4, <2>5 DEF AnswerInv
<1>2. CASE CloseFd
  BY <1>2 DEF CloseFd, AnswerInv, DeadIsShut, HangUpIsSeen
<1>3. CASE LoopInactive
  <2>1. ~open
    BY <1>3 DEF LoopInactive, AnswerInv, DeadIsShut
  <2> QED
    BY <1>3, <2>1 DEF LoopInactive, AnswerInv, DeadIsShut, HangUpIsSeen
<1> QED
  BY <1>1, <1>2, <1>3 DEF LoopStep

LEMMA WorkerAnswer ==
    ASSUME IInv, AnswerInv, NEW w \in Workers, WorkerStep(w)
    PROVE  AnswerInv'
<1> USE ThreadSets DEF inVars, outVars, epollVars, recvVars, sendVars
<1>1. pc \in [Threads -> Places] /\ tasks \in [Kinds -> Nat] /\ w \in Threads
  BY DEF IInv, TypeOK
<1>2. ASSUME NEW k \in Kinds, HandleEvent(w, k) PROVE AnswerInv'
  <2>1. /\ tasks' = [tasks EXCEPT ![k] = @ - 1] /\ pc[w] = "idle"
        /\ pc' = [pc EXCEPT ![w] = IF active THEN Branch(k) ELSE "idle"]
        /\ UNCHANGED <<open, active, rdy, loop, shut, peerClosed, rst>>
    BY <1>2 DEF HandleEvent, Goto
  <2>2. \A v \in Workers : v # w => pc'[v] = pc[v]
    BY <1>1, <2>1
  <2>3. pc'[w] # "inactive"
    BY <1>1, <2>1 DEF Branch
  <2>4. DeadIsShut'
    BY <2>1, <2>2, <2>3 DEF AnswerInv, DeadIsShut
  <2>5. HangUpIsSeen'
    BY <2>1 DEF AnswerInv, HangUpIsSeen, HungUp, AtEnd
  <2>6. ASSUME peerClosed', open', "WR" \notin shut' PROVE Answering'
    <3>1. Answering /\ active
      BY <2>1, <2>6 DEF AnswerInv, DeadIsShut
    <3>2. CASE k \in {"in", "inout"}
      <4>1. pc'[w] = "read"
        BY <1>1, <2>1, <3>1, <3>2 DEF Branch
      <4> QED
        BY <4>1 DEF Answering
    <3>3. CASE k \notin {"in", "inout"}
      <4>1. tasks'["in"] = tasks["in"] /\ tasks'["inout"] = tasks["inout"]
        BY <1>1, <2>1, <3>3 DEF Kinds
      <4>2. \A v \in Workers :
              pc[v] \in {"read", "reading", "disableReceive", "disableSend"} =>
                  pc'[v] = pc[v]
        BY <2>1, <2>2
      <4> QED
        BY <2>1, <3>1, <4>1, <4>2 DEF Answering
    <3> QED
      BY <3>2, <3>3
  <2> QED
    BY <2>4, <2>5, <2>6 DEF AnswerInv
<1>3. ASSUME NEW p \in Places \ {"inactive"}, Goto(w, p),
             UNCHANGED <<open, active, shut, peerClosed, rst, loop, tasks>>,
             rdy => rdy',
             \/ pc[w] \in {"idle", "hup", "write", "arm", "inactive"}
             \/ p \in {"read", "reading", "disableReceive", "disableSend"}
      PROVE  AnswerInv'
  <2>1. \A v \in Workers : pc'[v] = IF v = w THEN p ELSE pc[v]
    BY <1>1, <1>3 DEF Goto
  <2>2. Continues
    BY <1>3, <2>1 DEF Continues
  <2> QED
    BY <2>2, ContinuesAnswer
<1>4. CASE ReadLock(w) \/ ReadEnd(w)
  <2>1. \E p \in {"reading", "disableReceive"} : Goto(w, p)
    BY <1>4 DEF ReadLock, ReadEnd
  <2>2. UNCHANGED <<open, active, shut, peerClosed, rst, loop, tasks, rdy>>
    BY <1>4 DEF ReadLock, ReadEnd
  <2> QED
    BY <1>3, <2>1, <2>2 DEF Places
<1>5. CASE ReadSome(w) \/ WriteBrokenPipe(w)
  <2>1. Continues
    BY <1>5 DEF ReadSome, WriteBrokenPipe, Continues
  <2> QED
    BY <2>1, ContinuesAnswer
<1>6. CASE ReadDrained(w)
  <2>1. /\ pc' = [pc EXCEPT ![w] = "idle"] /\ (rst' = "pending" => rst = "pending")
        /\ UNCHANGED <<open, active, shut, peerClosed, loop, tasks, rdy>>
        /\ ~open \/ ~AtEnd \/ rst = "pending"
    BY <1>6 DEF ReadDrained, Goto, Tell
  <2>2. \A v \in Workers : pc'[v] = "inactive" => pc[v] = "inactive"
    BY <1>1, <2>1
  <2>3. DeadIsShut'
    BY <2>1, <2>2 DEF AnswerInv, DeadIsShut
  <2>4. HangUpIsSeen'
    BY <2>1 DEF AnswerInv, HangUpIsSeen, HungUp, AtEnd
  <2>5. ~(peerClosed' /\ open' /\ "WR" \notin shut')
    BY <2>1 DEF AnswerInv, DeadIsShut, AtEnd
  <2> QED
    BY <2>3, <2>4, <2>5 DEF AnswerInv
<1>7. CASE HandleHangUp(w) \/ DisableReceive(w) \/ WriteFails(w)
  <2>1. \E D \in SUBSET {"RD", "WR"} : Disable(D)
    BY <1>7 DEF HandleHangUp, DisableReceive, WriteFails
  <2>2. \E p \in Places \ {"inactive"} : Goto(w, p)
    BY <1>7 DEF HandleHangUp, DisableReceive, WriteFails, Places
  <2>3. /\ UNCHANGED <<peerClosed, open, active, loop, tasks>>
        /\ pc[w] \in {"hup", "disableReceive", "write"}
        /\ (rst' = "pending" => rst = "pending")
    BY <1>7 DEF HandleHangUp, DisableReceive, WriteFails, Tell
  <2> QED
    BY <2>1, <2>2, <2>3, DisableAnswer
<1>8. CASE DisableSend(w)
  <2>1. /\ UNCHANGED <<peerClosed, open, active, loop, tasks, rst>>
        /\ pc' = [pc EXCEPT ![w] = "inactive"] /\ Disable({"WR"})
    BY <1>8 DEF DisableSend, Goto
  <2>2. open => "WR" \in shut'
    BY <2>1 DEF Disable, AnswerInv, DeadIsShut
  <2>3. shut \subseteq shut' /\ (active /\ open => rdy') /\ (rdy => rdy')
        /\ (~(active /\ open) => shut' = shut)
    BY <2>1 DEF Disable
  <2>4. DeadIsShut'
    BY <2>1, <2>2, <2>3 DEF AnswerInv, DeadIsShut
  <2>5. HangUpIsSeen'
    BY <2>1, <2>3 DEF AnswerInv, HangUpIsSeen, HungUp, AtEnd
  <2> QED
    BY <2>1, <2>2, <2>4, <2>5 DEF AnswerInv
<1>9. CASE Inactive(w)
  <2>1. /\ UNCHANGED <<peerClosed, open, loop, tasks, rst, shut, rdy>>
        /\ pc[w] = "inactive" /\ pc' = [pc EXCEPT ![w] = "idle"]
    BY <1>9 DEF Inactive, Goto
  <2>2. open => "WR" \in shut
    BY <2>1 DEF AnswerInv, DeadIsShut
  <2>3. DeadIsShut' /\ HangUpIsSeen'
    BY <2>1, <2>2 DEF AnswerInv, DeadIsShut, HangUpIsSeen, HungUp, AtEnd
  <2> QED
    BY <2>1, <2>2, <2>3 DEF AnswerInv
<1>10. CASE WriteEmpty(w)
  <2>1. /\ Goto(w, "idle") /\ pc[w] = "write"
        /\ rdy' = rdy \/ rdy' = open
        /\ UNCHANGED <<open, active, shut, peerClosed, rst, loop, tasks>>
    BY <1>10 DEF WriteEmpty, ModifyEvent
  <2>2. \A v \in Workers : pc'[v] = IF v = w THEN "idle" ELSE pc[v]
    BY <1>1, <2>1 DEF Goto
  <2>3. Continues
    BY <2>1, <2>2 DEF Continues
  <2> QED
    BY <2>3, ContinuesAnswer
<1>11. CASE WriteSome(w)
  BY <1>3, <1>11 DEF WriteSome, Places
<1> QED
  BY <1>2, <1>4, <1>5, <1>6, <1>7, <1>8, <1>9, <1>10, <1>11 DEF WorkerStep

LEMMA NextAnswer ==
    ASSUME IInv, AnswerInv, [Next]_vars
    PROVE  AnswerInv'
<1> USE ThreadSets DEF inVars, outVars, epollVars, recvVars, sendVars
<1>1. ASSUME NEW s \in Senders, NotifyWriteEvent(s) \/ ArmWriteEvent(s)
      PROVE  AnswerInv'
  <2>1. /\ \E p \in {"arm", "idle"} : pc' = [pc EXCEPT ![s] = p]
        /\ rdy' = rdy \/ rdy' = open
        /\ UNCHANGED <<open, active, shut, peerClosed, rst, loop, tasks>>
    BY <1>1 DEF NotifyWriteEvent, ArmWriteEvent, Goto, ModifyEvent
  <2>2. \A v \in Workers : pc'[v] = pc[v]
    BY <2>1 DEF IInv, TypeOK
  <2>3. Continues
    BY <2>1, <2>2 DEF Continues
  <2> QED
    BY <2>3, ContinuesAnswer
<1>2. CASE GetReceivedData \/ UNCHANGED vars
  <2>1. Continues
    BY <1>2 DEF GetReceivedData, vars, Continues
  <2> QED
    BY <2>1, ContinuesAnswer
<1> QED
  BY <1>1, <1>2, PeerAnswer, LoopAnswer, WorkerAnswer DEF Next

-------------------------------------------------------------------------------
(* The theorems.                                                             *)

\* The values each variable takes; the socket is never overfull, and a thread
\* in the loop of Read holds _receiveMutex and has room to read into
\* (Channel.h:61): the buffer has two units at least and half of it is added
\* whenever it is full.
THEOREM ChannelTypeCorrect == Spec => []TypeOK
<1>1. IInv /\ [Next]_vars => IInv'
  BY NextType
<1>2. IInv => TypeOK
  BY DEF IInv
<1> QED
  BY <1>1, <1>2, InitType, PTL DEF Spec

\* What write() took and what waits in _sendingBuf is, in order, what
\* NotifyWriteEvent was given (Channel.h:101 and :131), for any number of
\* callers and of threads that write.
THEOREM BytesWrittenInOrder == Spec => []WrittenInOrder
<1>1. Init => WrittenInOrder
  BY DEF Init, WrittenInOrder
<1>2. IInv /\ [Next]_vars => IInv'
  BY NextType
<1>3. IInv /\ WrittenInOrder /\ [Next]_vars => WrittenInOrder'
  BY OrderStep
<1> QED
  BY <1>1, <1>2, <1>3, InitType, PTL DEF Spec

\* A channel is declared dead (Channel.h:80, Dispatcher.h:222) only when the
\* peer has closed: neither a full receive buffer nor a failed write is taken
\* for the end of the stream.
THEOREM DeadOnlyAtPeersEnd == Spec => []DeadOnlyAtEnd
<1>1. Init => EndInv
  BY ThreadSets DEF Init, EndInv, Alive, Kinds
<1>2. IInv /\ [Next]_vars => IInv'
  BY NextType
<1>3. IInv /\ EndInv /\ [Next]_vars => EndInv'
  BY EndStep
<1>4. EndInv => DeadOnlyAtEnd
  BY DEF EndInv, Alive, DeadOnlyAtEnd
<1> QED
  BY <1>1, <1>2, <1>3, <1>4, InitType, PTL DEF Spec

\* Data never sits in _sendingBuf with nobody coming for it, though Write
\* disarms EPOLLOUT (Channel.h:98) and NotifyWriteEvent arms it outside
\* _sendMutex (Channel.h:142), unless an event with EPOLLIN was only read,
\* the sending direction is closed or a slave watches the connection
\* (Dispatcher.h:233).
THEOREM DataIsNotForgotten == Spec => []NoForgottenData
<1>1. Init => DueInv
  BY DEF Init, DueInv, ArmedInv, NoForgottenData
<1>2. IInv /\ [Next]_vars => IInv'
  BY NextType
<1>3. IInv /\ DueInv /\ [Next]_vars => DueInv'
  BY NextDue
<1>4. DueInv => NoForgottenData
  BY DEF DueInv
<1> QED
  BY <1>1, <1>2, <1>3, <1>4, InitType, PTL DEF Spec

\* A connection whose descriptor a slave watches sends nothing at all: it has
\* the master's Demultiplexer (Dispatcher.h:233), so that EPOLLOUT, which
\* NotifyWriteEvent asks for (Channel.h:142), is never asked of the set the
\* descriptor is in (Dispatcher.h:244).  How often NotifyWriteEvent is called
\* and what other events arrive makes no difference.
THEOREM SlavesWriteNothing == Spec => []SlaveNeverWrites
<1>1. Init => SlaveInv
  BY ThreadSets DEF Init, SlaveInv, Unasked, Kinds
<1>2. IInv /\ [Next]_vars => IInv'
  BY NextType
<1>3. IInv /\ SlaveInv /\ [Next]_vars => SlaveInv'
  BY SlaveStep
<1>4. SlaveInv => SlaveNeverWrites
  BY DEF SlaveInv, Unasked, SlaveNeverWrites
<1> QED
  BY <1>1, <1>2, <1>3, <1>4, InitType, PTL DEF Spec

\* When the peer has closed or reset, its close is never forgotten: until the
\* descriptor is closed (Dispatcher.h:212) there is a report due, an event in the
\* pool, a thread in Read or between Read and DisableSend (Channel.h:76), or
\* the loop is about to close it - whatever other threads, which may find the
\* channel inactive half-way, do to it.
THEOREM CloseIsNotForgotten == Spec => []CloseIsDue
<1>1. Init => AnswerInv
  BY ThreadSets DEF Init, AnswerInv, DeadIsShut, HangUpIsSeen, HungUp, AtEnd
<1>2. IInv /\ [Next]_vars => IInv'
  BY NextType
<1>3. IInv /\ AnswerInv /\ [Next]_vars => AnswerInv'
  BY NextAnswer
<1>4. AnswerInv => CloseIsDue
  BY DEF AnswerInv, CloseIsDue, HangUpIsSeen, HungUp, AtEnd, Answering
<1> QED
  BY <1>1, <1>2, <1>3, <1>4, InitType, PTL DEF Spec

===============================================================================
