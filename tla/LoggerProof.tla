------------------------------- MODULE LoggerProof -------------------------------
(***************************************************************************)
(* Theorems about Logger, for every number of messages and sinks.          *)
(***************************************************************************)
EXTENDS Logger, SequenceTheorems, TLAPS

\* The flush thread is about to block only with nothing to write: Buffering
\* needs the mutex it still holds.
BlocksOnEmpty == pc = "blocking" => buf = <<>>

SleepInv == TypeOK /\ BlocksOnEmpty /\ SleepsOnlyOnQuiet

-------------------------------------------------------------------------------
(* TypeOK.                                                                   *)

LEMMA InitType == Init => TypeOK
<1> SUFFICES ASSUME Init PROVE TypeOK
  OBVIOUS
<1>1. /\ buf \in Seq(Messages) /\ backup \in Seq(Messages) /\ backup = <<>>
      /\ accepted \in Seq(Messages) /\ destVec \in Seq(Sinks)
      /\ out \in [Sinks -> Seq(Messages)]
  BY DEF Init
<1>2. sendto \in BOOLEAN /\ stop \in BOOLEAN /\ waiting \in BOOLEAN /\ missed \in BOOLEAN
  BY Zenon DEF Init
<1>3. modeCalls \in 0 .. MaxModeCalls
  BY LoggerAssumption DEF Init
<1> QED
  BY <1>1, <1>2, <1>3 DEF Init, TypeOK

LEMMA HandedType ==
    ASSUME TypeOK, NEW m \in Messages, NEW k
    PROVE  Handed(m, k) \in [Sinks -> Seq(Messages)]
BY DEF TypeOK, Handed

LEMMA ClientType ==
    ASSUME TypeOK,
           \/ StartFlushThread \/ SetSentToCallback
           \/ \E s \in Sinks : AddLogSink(s)
           \/ \E ms \in {0, 10} : LogWithWaiting(ms)
           \/ \E m \in Messages : FlushUnsent(m) \/ Buffering(m) \/ NotifyOne(m)
           \/ DtorStop \/ DtorNotifyAll \/ DtorJoin
    PROVE  TypeOK'
<1> USE LoggerAssumption DEF TypeOK, bufVars, sinkVars, dtorVars
<1>1. CASE StartFlushThread
  BY <1>1 DEF StartFlushThread
<1>2. CASE SetSentToCallback
  BY <1>2 DEF SetSentToCallback
<1>3. ASSUME NEW s \in Sinks, AddLogSink(s) PROVE TypeOK'
  <2>1. destVec' = Append(destVec, s) \/ destVec' = destVec
    BY <1>3 DEF AddLogSink
  <2>2. ended' = ended \/ ended' = "race"
    BY <1>3 DEF AddLogSink
  <2>3. destVec' \in Seq(Sinks)
    <3>1. destVec \in Seq(Sinks)
      BY DEF TypeOK
    <3> HIDE DEF TypeOK
    <3>2. Append(destVec, s) \in Seq(Sinks)
      BY <3>1, AppendProperties
    <3> QED
      BY <2>1, <3>1, <3>2
  <2>4. UNCHANGED <<sendto, bufVars, backup, out, pc, stop, waiting, dtorVars,
                    modeCalls>>
    BY <1>3 DEF AddLogSink
  <2> QED
    BY <2>2, <2>3, <2>4
<1>4. ASSUME NEW ms \in {0, 10}, LogWithWaiting(ms) PROVE TypeOK'
  BY <1>4 DEF LogWithWaiting
<1>5. ASSUME NEW m \in Messages, FlushUnsent(m) PROVE TypeOK'
  BY <1>5 DEF FlushUnsent
<1>6. ASSUME NEW m \in Messages, Buffering(m) PROVE TypeOK'
  BY <1>6 DEF Buffering
<1>7. ASSUME NEW m \in Messages, NotifyOne(m) PROVE TypeOK'
  BY <1>7 DEF NotifyOne
<1>8. CASE DtorStop
  BY <1>8 DEF DtorStop
<1>9. CASE DtorNotifyAll
  BY <1>9 DEF DtorNotifyAll
<1>10. CASE DtorJoin
  BY <1>10 DEF DtorJoin
<1> HIDE DEF TypeOK
<1> QED
  BY <1>1, <1>2, <1>3, <1>4, <1>5, <1>6, <1>7, <1>8, <1>9, <1>10

LEMMA FlushType ==
    ASSUME TypeOK,
           FlushStep \/ SpuriousWakeup \/ \E k \in 0 .. Len(destVec) : FlushThrows(k)
    PROVE  TypeOK'
<1> USE LoggerAssumption DEF TypeOK, bufVars, sinkVars, dtorVars
<1>1. CASE FlushTest
  BY <1>1 DEF FlushTest
<1>2. CASE FlushReturn
  BY <1>2 DEF FlushReturn, WaitIsOver
<1>3. CASE FlushSwap
  BY <1>3 DEF FlushSwap
<1>4. CASE FlushPredicateFalse
  BY <1>4 DEF FlushPredicateFalse
<1>5. CASE FlushBlock
  BY <1>5 DEF FlushBlock
<1>6. CASE FlushWrite
  <2>1. out' \in [Sinks -> Seq(Messages)] /\ backup' \in Seq(Messages)
    BY <1>6, HandedType DEF FlushWrite
  <2> QED
    BY <1>6, <2>1 DEF FlushWrite
<1>7. CASE FlushWriteFatal
  <2>1. out' \in [Sinks -> Seq(Messages)]
    BY <1>7, HandedType DEF FlushWriteFatal
  <2> QED
    BY <1>7, <2>1 DEF FlushWriteFatal
<1>8. CASE FlushLoop
  BY <1>8 DEF FlushLoop
<1>9. CASE SpuriousWakeup
  BY <1>9 DEF SpuriousWakeup
<1>10. ASSUME NEW k \in 0 .. Len(destVec), FlushThrows(k) PROVE TypeOK'
  <2>1. out' \in [Sinks -> Seq(Messages)]
    BY <1>10, HandedType DEF FlushThrows
  <2> QED
    BY <1>10, <2>1 DEF FlushThrows
<1> HIDE DEF TypeOK
<1> QED
  BY <1>1, <1>2, <1>3, <1>4, <1>5, <1>6, <1>7, <1>8, <1>9, <1>10 DEF FlushStep

LEMMA NextType ==
    ASSUME TypeOK, [Next]_vars
    PROVE  TypeOK'
<1>1. CASE UNCHANGED vars
  BY <1>1 DEF TypeOK, vars, bufVars, sinkVars, dtorVars
<1>2. CASE Next
  BY <1>1, <1>2, ClientType, FlushType DEF Next
<1> QED
  BY <1>1, <1>2

-------------------------------------------------------------------------------
(* SleepsOnlyOnQuiet.                                                        *)

LEMMA NextSleep ==
    ASSUME SleepInv, [Next]_vars
    PROVE  BlocksOnEmpty' /\ SleepsOnlyOnQuiet'
<1> DEFINE Goal == BlocksOnEmpty' /\ SleepsOnlyOnQuiet'
<1> USE DEF SleepInv, TypeOK, BlocksOnEmpty, SleepsOnlyOnQuiet, bufVars, sinkVars
\* What leaves the flush thread, the buffer and the messages alone.
<1>1. ASSUME UNCHANGED <<pc, buf, msgState>> PROVE Goal
  BY <1>1
\* What takes the flush thread to a place where it neither sleeps nor blocks.
<1>2. ASSUME pc' \notin {"asleep", "blocking"} PROVE Goal
  BY <1>2
<1>3. ASSUME NEW m \in Messages, Buffering(m) PROVE Goal
  <2>1. buf' = Append(buf, m) /\ msgState' = [msgState EXCEPT ![m] = "buffered"]
        /\ pc' = pc /\ pc # "blocking"
    BY <1>3 DEF Buffering
  <2>2. ASSUME pc = "asleep", NEW i \in DOMAIN buf'
        PROVE  msgState'[buf'[i]] \in {"buffered", "quiet"}
    <3>1. CASE i = Len(buf) + 1
      BY <2>1, <3>1
    <3>2. CASE i \in DOMAIN buf
      BY <2>1, <2>2, <3>2
    <3> QED
      BY <2>1, <2>2, <3>1, <3>2
  <2> QED
    BY <2>1, <2>2
<1>4. ASSUME NEW m \in Messages, FlushUnsent(m) PROVE Goal
  <2>1. pc' = pc /\ buf' = buf /\ msgState[m] = "new"
        /\ msgState' = [msgState EXCEPT ![m] = "unsent"]
    BY <1>4 DEF FlushUnsent
  <2> QED
    BY <2>1
<1>5. ASSUME NEW m \in Messages, NotifyOne(m) PROVE Goal
  <2>1. CASE pc' = "woken"
    BY <1>2, <2>1
  <2>2. CASE pc = "asleep" /\ waiting
    BY <1>5, <2>2 DEF NotifyOne
  <2>3. CASE pc # "asleep"
    BY <1>5, <2>3 DEF NotifyOne
  <2> QED
    BY <1>5, <2>1, <2>2, <2>3 DEF NotifyOne
<1>6. CASE FlushPredicateFalse
  BY <1>6 DEF FlushPredicateFalse, WaitIsOver
<1>7. CASE FlushBlock
  BY <1>7 DEF FlushBlock
<1>8. CASE FlushTest \/ FlushReturn \/ FlushSwap \/ FlushLoop \/ StartFlushThread
           \/ SpuriousWakeup
  BY <1>2, <1>8 DEF FlushTest, FlushReturn, FlushSwap, FlushLoop,
     StartFlushThread, SpuriousWakeup
<1>9. CASE FlushWrite \/ FlushWriteFatal
           \/ \E k \in 0 .. Len(destVec) : FlushThrows(k)
  BY <1>2, <1>9 DEF FlushWrite, FlushWriteFatal, FlushThrows
<1>10. CASE \/ SetSentToCallback \/ DtorStop \/ DtorJoin
            \/ \E s \in Sinks : AddLogSink(s)
            \/ \E ms \in {0, 10} : LogWithWaiting(ms)
  BY <1>1, <1>10 DEF SetSentToCallback, DtorStop, DtorJoin, AddLogSink,
     LogWithWaiting
<1>11. CASE DtorNotifyAll
  BY <1>11 DEF DtorNotifyAll
<1>12. CASE UNCHANGED vars
  BY <1>1, <1>12 DEF vars
<1> HIDE DEF SleepInv, TypeOK, BlocksOnEmpty, SleepsOnlyOnQuiet
<1> QED
  BY <1>3, <1>4, <1>5, <1>6, <1>7, <1>8, <1>9, <1>10, <1>11, <1>12
  DEF Next, FlushStep

LEMMA SleepInvHolds == Spec => []SleepInv
<1>1. Init => SleepInv
  BY InitType DEF Init, SleepInv, BlocksOnEmpty, SleepsOnlyOnQuiet
<1>2. SleepInv /\ [Next]_vars => SleepInv'
  BY NextType, NextSleep DEF SleepInv
<1> QED
  BY <1>1, <1>2, PTL DEF Spec

\* The variables of the logger keep their types, and _backup_buf
\* (logging/Logging.h:117) is in use only while the flush thread writes.
THEOREM LoggerTypeCorrect == Spec => []TypeOK
BY SleepInvHolds, PTL DEF SleepInv

\* The flush thread does not sleep through an announced message: between
\* Buffering (logging/Logging.h:88) and the wait (line 113) no notification is
\* lost, though it is given after the mutex is released.
THEOREM FlushThreadIsWoken == Spec => []SleepsOnlyOnQuiet
BY SleepInvHolds, PTL DEF SleepInv

-------------------------------------------------------------------------------
(* Logger implements LogQueue.                                               *)

\* What waits, oldest first, as the abstract queue has it.
Pending == backup \o buf

\* A message is accepted at most once: LOG makes a new object each time.
NewIsUnseen ==
    \A m \in Messages : msgState[m] \in {"new", "unsent"} =>
        m \notin Range(accepted)

LEMMA RangeOfAppend ==
    ASSUME NEW S, NEW q \in Seq(S), NEW e \in S
    PROVE  Range(Append(q, e)) = Range(q) \cup {e}
<1>1. /\ Append(q, e) \in Seq(S) /\ Len(Append(q, e)) = Len(q) + 1
      /\ \A i \in 1 .. Len(q) : Append(q, e)[i] = q[i]
      /\ Append(q, e)[Len(q) + 1] = e
  BY AppendProperties
<1>2. Range(q) = {q[i] : i \in 1 .. Len(q)} /\ Len(q) \in Nat
  BY RangeEquality, LenProperties
<1>3. Range(Append(q, e)) = {Append(q, e)[i] : i \in 1 .. Len(q) + 1}
  BY <1>1, RangeEquality
<1> DEFINE a == Append(q, e)
<1> HIDE DEF a
<1>4. 1 .. Len(q) + 1 = (1 .. Len(q)) \cup {Len(q) + 1}
  BY <1>2
<1>5. {a[i] : i \in 1 .. Len(q) + 1}
        = {a[i] : i \in 1 .. Len(q)} \cup {a[Len(q) + 1]}
  BY <1>4
<1> QED
  BY <1>1, <1>2, <1>3, <1>5 DEF a

\* Handed to the sinks by their numbers or by their names.
LEMMA HandedIsReceived ==
    ASSUME TypeOK, NEW m \in Messages
    PROVE  /\ Handed(m, Len(destVec)) = Queue!Received(m, Range(destVec))
           /\ \A k \in 0 .. Len(destVec) :
                \E T \in SUBSET Range(destVec) :
                    Handed(m, k) = Queue!Received(m, T)
<1>1. destVec \in Seq(Sinks) /\ Len(destVec) \in Nat
  BY LenProperties DEF TypeOK
<1>2. Range(destVec) = {destVec[i] : i \in 1 .. Len(destVec)}
  BY <1>1, RangeEquality
<1> DEFINE First(k) == {destVec[i] : i \in 1 .. k}
<1>3. ASSUME NEW k \in 0 .. Len(destVec)
      PROVE  First(k) \in SUBSET Range(destVec)
  BY <1>1, <1>2
<1>4. ASSUME NEW k \in 0 .. Len(destVec)
      PROVE  Handed(m, k) = Queue!Received(m, First(k))
  <2>1. \A s \in Sinks : s \in First(k) <=> \E i \in 1 .. k : destVec[i] = s
    OBVIOUS
  <2> HIDE DEF First
  <2> QED
    BY <2>1 DEF Handed, Queue!Received
<1>5. First(Len(destVec)) = Range(destVec) /\ Len(destVec) \in 0 .. Len(destVec)
  BY <1>1, <1>2
<1> HIDE DEF First
<1> QED
  BY <1>3, <1>4, <1>5

LEMMA UnseenStep ==
    ASSUME TypeOK, NewIsUnseen, [Next]_vars
    PROVE  NewIsUnseen'
<1> USE DEF bufVars, sinkVars, dtorVars
<1>1. CASE UNCHANGED accepted /\ \A m \in Messages :
              msgState'[m] \in {"new", "unsent"} =>
                  msgState[m] \in {"new", "unsent"}
  BY <1>1 DEF NewIsUnseen
<1>2. ASSUME NEW m \in Messages, Buffering(m) PROVE NewIsUnseen'
  <2>1. /\ accepted' = Append(accepted, m) /\ accepted \in Seq(Messages)
        /\ msgState' = [msgState EXCEPT ![m] = "buffered"]
        /\ DOMAIN msgState = Messages
    BY <1>2 DEF Buffering, TypeOK
  <2>2. Range(accepted') = Range(accepted) \cup {m}
    BY <2>1, RangeOfAppend
  <2> QED
    BY <2>1, <2>2 DEF NewIsUnseen
<1>3. ASSUME NEW m \in Messages, FlushUnsent(m) \/ NotifyOne(m)
      PROVE  NewIsUnseen'
  BY <1>1, <1>3 DEF FlushUnsent, NotifyOne, TypeOK
<1>4. CASE \/ StartFlushThread \/ SetSentToCallback
           \/ \E s \in Sinks : AddLogSink(s)
           \/ \E ms \in {0, 10} : LogWithWaiting(ms)
           \/ SpuriousWakeup \/ DtorStop \/ DtorNotifyAll \/ DtorJoin
  BY <1>1, <1>4 DEF StartFlushThread, SetSentToCallback, AddLogSink,
     LogWithWaiting, SpuriousWakeup, DtorStop, DtorNotifyAll, DtorJoin
<1>5. CASE FlushStep
  BY <1>1, <1>5 DEF FlushStep, FlushTest, FlushReturn, FlushSwap,
     FlushPredicateFalse, FlushBlock, FlushWrite, FlushWriteFatal, FlushLoop
<1>6. CASE \E k \in 0 .. Len(destVec) : FlushThrows(k)
  BY <1>1, <1>6 DEF FlushThrows
<1>7. CASE UNCHANGED vars
  BY <1>1, <1>7 DEF vars
<1> QED
  BY <1>2, <1>3, <1>4, <1>5, <1>6, <1>7 DEF Next

\* The front of what waits is the front of _backup_buf, while there is one.
LEMMA FrontOfPending ==
    ASSUME TypeOK, backup # <<>>
    PROVE  /\ Pending # <<>> /\ Head(Pending) = Head(backup)
           /\ Tail(Pending) = Tail(backup) \o buf
           /\ Head(backup) \in Messages
<1> DEFINE h == Head(backup)  t == Tail(backup)
<1>1. backup \in Seq(Messages) /\ buf \in Seq(Messages)
  BY DEF TypeOK
<1>2. h \in Messages /\ t \in Seq(Messages) /\ Len(t) = Len(backup) - 1
      /\ \A i \in 1 .. Len(t) : t[i] = backup[i + 1]
  BY <1>1, HeadTailProperties
<1>3. h = backup[1] /\ Len(backup) \in Nat \ {0} /\ Len(buf) \in Nat
  BY <1>1, EmptySeq, LenProperties
<1> HIDE DEF h, t
<1>4. /\ Pending \in Seq(Messages) /\ Len(Pending) = Len(backup) + Len(buf)
      /\ \A i \in 1 .. Len(backup) + Len(buf) :
           Pending[i] = IF i <= Len(backup) THEN backup[i]
                        ELSE buf[i - Len(backup)]
  BY <1>1, ConcatProperties DEF Pending
<1>5. Pending # <<>> /\ Pending[1] = backup[1]
  BY <1>3, <1>4, EmptySeq
<1>6. /\ Tail(Pending) \in Seq(Messages)
      /\ Len(Tail(Pending)) = Len(Pending) - 1
      /\ \A i \in 1 .. Len(Tail(Pending)) : Tail(Pending)[i] = Pending[i + 1]
  BY <1>4, <1>5, HeadTailProperties
<1>7. /\ t \o buf \in Seq(Messages) /\ Len(t \o buf) = Len(t) + Len(buf)
      /\ \A i \in 1 .. Len(t) + Len(buf) :
           (t \o buf)[i] = IF i <= Len(t) THEN t[i] ELSE buf[i - Len(t)]
  BY <1>1, <1>2, ConcatProperties
<1> DEFINE left == Tail(Pending)  right == t \o buf
<1>8. /\ left \in Seq(Messages) /\ right \in Seq(Messages)
      /\ Len(left) = Len(right)
  BY <1>2, <1>3, <1>4, <1>6, <1>7
<1>9. ASSUME NEW i \in 1 .. Len(left) PROVE left[i] = right[i]
  <2>1. i \in 1 .. (Len(backup) - 1) + Len(buf)
    BY <1>2, <1>3, <1>4, <1>6
  <2>2. left[i] = Pending[i + 1]
    BY <1>6
  <2>3. CASE i <= Len(t)
    BY <1>2, <1>3, <1>4, <1>7, <2>1, <2>2, <2>3
  <2>4. CASE ~(i <= Len(t))
    <3>1. Pending[i + 1] = buf[(i + 1) - Len(backup)]
      BY <1>2, <1>3, <1>4, <2>1, <2>4
    <3>2. right[i] = buf[i - Len(t)]
      BY <1>2, <1>3, <1>7, <2>1, <2>4
    <3>3. (i + 1) - Len(backup) = i - Len(t)
      BY <1>2, <1>3, <2>1
    <3> QED
      BY <2>2, <3>1, <3>2, <3>3
  <2> QED
    BY <2>3, <2>4
<1> HIDE DEF left, right
<1>10. left = right
  BY <1>8, <1>9, SeqEqual
<1>11. Head(Pending) = Pending[1]
  OBVIOUS
<1> QED
  BY <1>2, <1>3, <1>5, <1>10, <1>11 DEF h, t, left, right

LEMMA QueueInit == Init => Queue!Init
<1> SUFFICES ASSUME Init PROVE Queue!Init
  OBVIOUS
<1>1. backup = <<>> /\ buf = <<>> /\ accepted = <<>> /\ destVec = <<>>
      /\ out = [s \in Sinks |-> <<>>] /\ ended = "no" /\ pc = "unborn"
  BY DEF Init
<1>2. <<>> \o <<>> = <<>> /\ <<>> \in Seq(Messages) /\ <<>> \in Seq(Sinks)
  OBVIOUS
<1>3. Range(accepted) = {} /\ Range(destVec) = {}
  BY <1>1 DEF Range
<1> QED
  BY <1>1, <1>2, <1>3 DEF Queue!Init

\* The abstract queue's view of a step that moves nothing.
Unseen ==
    /\ UNCHANGED <<Pending, accepted, destVec, out, ended>>
    /\ (pc = "exited") <=> (pc' = "exited")

LEMMA UnseenIsStutter ==
    ASSUME Unseen
    PROVE  UNCHANGED Queue!vars
BY DEF Unseen, Pending, Queue!vars

LEMMA ClientRefines ==
    ASSUME TypeOK, NewIsUnseen,
           \/ StartFlushThread \/ SetSentToCallback
           \/ \E s \in Sinks : AddLogSink(s)
           \/ \E ms \in {0, 10} : LogWithWaiting(ms)
           \/ \E m \in Messages : FlushUnsent(m) \/ Buffering(m) \/ NotifyOne(m)
           \/ SpuriousWakeup \/ DtorStop \/ DtorNotifyAll \/ DtorJoin,
           ended = "no"
    PROVE  Queue!Next \/ UNCHANGED Queue!vars
<1> USE DEF bufVars, sinkVars, dtorVars
<1>1. CASE \/ StartFlushThread \/ SetSentToCallback \/ SpuriousWakeup
           \/ DtorStop \/ DtorJoin
           \/ \E ms \in {0, 10} : LogWithWaiting(ms)
  <2>1. Unseen
    BY <1>1 DEF Unseen, Pending, StartFlushThread, SetSentToCallback,
       SpuriousWakeup, DtorStop, DtorJoin, LogWithWaiting
  <2> QED
    BY <2>1, UnseenIsStutter
<1>2. CASE \/ DtorNotifyAll
           \/ \E m \in Messages : FlushUnsent(m) \/ NotifyOne(m)
  <2>1. Unseen
    BY <1>2 DEF Unseen, Pending, DtorNotifyAll, FlushUnsent, NotifyOne
  <2> QED
    BY <2>1, UnseenIsStutter
<1>3. ASSUME NEW m \in Messages, Buffering(m) PROVE Queue!Accept(m)
  <2>1. /\ buf' = Append(buf, m) /\ accepted' = Append(accepted, m)
        /\ msgState[m] = "new"
        /\ UNCHANGED <<backup, destVec, out, ended, pc>>
    BY <1>3 DEF Buffering
  <2>2. m \notin Range(accepted)
    BY <2>1 DEF NewIsUnseen
  <2>3. Range(accepted') = Range(accepted) \cup {m}
    BY <2>1, RangeOfAppend DEF TypeOK
  <2>4. backup \o Append(buf, m) = Append(backup \o buf, m)
    <3> DEFINE last == <<m>>
    <3>1. backup \in Seq(Messages) /\ buf \in Seq(Messages)
      BY DEF TypeOK
    <3>2. last \in Seq(Messages) /\ backup \o buf \in Seq(Messages)
      BY <3>1, ConcatProperties
    <3>3. Append(buf, m) = buf \o last
      BY <3>1, AppendIsConcat
    <3>4. Append(backup \o buf, m) = (backup \o buf) \o last
      BY <3>2, AppendIsConcat
    <3>5. (backup \o buf) \o last = backup \o (buf \o last)
      BY <3>1, <3>2, ConcatAssociative
    <3> QED
      BY <3>3, <3>4, <3>5
  <2> QED
    BY <2>1, <2>2, <2>3, <2>4 DEF Queue!Accept
<1>4. ASSUME NEW s \in Sinks, AddLogSink(s) PROVE Queue!Attach(s) \/ Queue!Fail
  <2>1. UNCHANGED <<buf, backup, accepted, out, pc>>
    BY <1>4 DEF AddLogSink
  <2>2. CASE destVec' = Append(destVec, s) /\ ended' = ended
    <3>1. Range(destVec') = Range(destVec) \cup {s}
      BY <2>2, RangeOfAppend DEF TypeOK
    <3> QED
      BY <2>1, <2>2, <3>1 DEF Queue!Attach
  <2>3. CASE ended' = "race" /\ destVec' = destVec /\ pc = "write"
    BY <2>1, <2>3 DEF Queue!Fail
  <2> QED
    BY <1>4, <2>2, <2>3 DEF AddLogSink
<1> QED
  BY <1>1, <1>2, <1>3, <1>4 DEF Queue!Next

LEMMA FlushRefines ==
    ASSUME TypeOK, ended = "no",
           FlushStep \/ \E k \in 0 .. Len(destVec) : FlushThrows(k)
    PROVE  Queue!Next \/ UNCHANGED Queue!vars
<1> USE DEF bufVars, sinkVars, dtorVars
<1>1. CASE FlushTest \/ FlushReturn
  <2>1. CASE pc' = "exited"
    <3>1. pc # "exited" /\ UNCHANGED <<backup, buf, accepted, destVec, out,
                                       ended>>
      BY <1>1, <2>1 DEF FlushTest, FlushReturn, WaitIsOver
    <3> QED
      BY <2>1, <3>1 DEF Queue!Fail, Queue!Next
  <2>2. CASE pc' # "exited"
    <3>1. Unseen
      BY <1>1, <2>2 DEF Unseen, Pending, FlushTest, FlushReturn, WaitIsOver
    <3> QED
      BY <3>1, UnseenIsStutter
  <2> QED
    BY <2>1, <2>2
<1>2. CASE FlushSwap
  <2>1. /\ backup = <<>> /\ backup' = buf /\ buf' = <<>>
        /\ buf \in Seq(Messages)
        /\ pc # "exited" /\ pc' # "exited"
        /\ UNCHANGED <<accepted, destVec, out, ended>>
    BY <1>2 DEF FlushSwap, WaitIsOver, TypeOK
  <2>2. buf \o <<>> = buf /\ <<>> \o buf = buf
    BY <2>1, ConcatEmptySeq
  <2>3. Unseen
    BY <2>1, <2>2 DEF Unseen, Pending
  <2> QED
    BY <2>3, UnseenIsStutter
<1>3. CASE FlushPredicateFalse \/ FlushBlock \/ FlushLoop
  <2>1. Unseen
    BY <1>3 DEF Unseen, Pending, FlushPredicateFalse, FlushBlock, FlushLoop
  <2> QED
    BY <2>1, UnseenIsStutter
<1>4. CASE FlushWrite
  <2>1. /\ backup # <<>> /\ pc = "write" /\ Head(backup) \notin Fatal
        /\ out' = Handed(Head(backup), Len(destVec))
        /\ backup' = Tail(backup)
        /\ UNCHANGED <<accepted, buf, destVec, pc, ended>>
    BY <1>4 DEF FlushWrite
  <2>2. Queue!Deliver
    BY <2>1, FrontOfPending, HandedIsReceived DEF Queue!Deliver, Pending
  <2> QED
    BY <2>2 DEF Queue!Next
<1>5. CASE FlushWriteFatal
  <2>1. /\ backup # <<>> /\ pc = "write" /\ Head(backup) \in Fatal
        /\ out' = Handed(Head(backup), Len(destVec))
        /\ backup' = <<>> /\ buf' = <<>> /\ destVec' = <<>>
        /\ ended' = "fatal" /\ UNCHANGED <<accepted, pc>>
    BY <1>5 DEF FlushWriteFatal
  <2>2. backup' \o buf' = <<>> /\ Range(destVec') = {}
    BY <2>1 DEF Range
  <2>3. Queue!DeliverLast
    BY <2>1, <2>2, FrontOfPending, HandedIsReceived
    DEF Queue!DeliverLast, Pending
  <2> QED
    BY <2>3 DEF Queue!Next
<1>6. ASSUME NEW k \in 0 .. Len(destVec), FlushThrows(k) PROVE Queue!Fail
  <2>1. /\ backup # <<>> /\ pc = "write"
        /\ out' = Handed(Head(backup), k) /\ ended' = "throw"
        /\ UNCHANGED <<accepted, buf, backup, destVec, pc>>
    BY <1>6 DEF FlushThrows
  <2>2. \E T \in SUBSET Range(destVec) : out' = Queue!Received(Head(Pending), T)
    BY <2>1, FrontOfPending, HandedIsReceived
  <2> QED
    BY <2>1, <2>2, FrontOfPending DEF Queue!Fail, Pending
<1> QED
  BY <1>1, <1>2, <1>3, <1>4, <1>5, <1>6 DEF FlushStep, Queue!Next

\* Logger implements LogQueue: the two buffers (logging/Logging.h:117) are one
\* queue in the order of acceptance, of which every attached sink gets each
\* message once, until a FATAL one or a sink that throws ends it.
THEOREM LoggerImplementsQueue == Spec => ImplementsLogQueue
<1>1. Init => NewIsUnseen
  BY DEF Init, NewIsUnseen, Range
<1>2. TypeOK /\ NewIsUnseen /\ [Next]_vars => NewIsUnseen'
  BY UnseenStep
<1>3. TypeOK /\ NewIsUnseen /\ [Next]_vars => [Queue!Next]_(Queue!vars)
  <2> SUFFICES ASSUME TypeOK, NewIsUnseen, [Next]_vars
               PROVE  Queue!Next \/ UNCHANGED Queue!vars
    OBVIOUS
  <2>1. CASE UNCHANGED vars
    <3>1. Unseen
      BY <2>1 DEF Unseen, Pending, vars, bufVars, sinkVars, dtorVars
    <3> QED
      BY <3>1, UnseenIsStutter
  <2> QED
    BY <2>1, ClientRefines, FlushRefines DEF Next
<1> QED
  BY <1>1, <1>2, <1>3, QueueInit, LoggerTypeCorrect, PTL
  DEF Spec, ImplementsLogQueue, Queue!Spec

-------------------------------------------------------------------------------
(* Of DestructorReturns: what ~Logger joins is on its way out.               *)

\* When ~Logger waits in join, the flush thread is neither on _cv nor about to
\* block on it, but for the notify_all that came between the predicate and the
\* block.
NotifyAllIsHeard ==
    dtorPc = "joining" /\ ~missed => pc \notin {"asleep", "blocking"}

\* The destructor stores _stop first, and nobody takes it back.
DtorHasStopped == dtorPc # "none" => stop

DtorInv == DtorHasStopped /\ NotifyAllIsHeard

LEMMA NextDtor ==
    ASSUME DtorInv, [Next]_vars
    PROVE  DtorInv'
<1> USE DEF DtorInv, DtorHasStopped, NotifyAllIsHeard, dtorVars
\* What leaves the destructor, _stop and the flush thread alone.
<1>1. ASSUME UNCHANGED <<dtorPc, missed, stop, pc>> PROVE DtorInv'
  BY <1>1
\* What takes the flush thread elsewhere than to sleep.
<1>2. ASSUME UNCHANGED <<dtorPc, missed, stop>>, pc' \notin {"asleep", "blocking"}
      PROVE  DtorInv'
  BY <1>2
<1>3. CASE \/ SetSentToCallback \/ FlushWrite \/ UNCHANGED vars
           \/ \E s \in Sinks : AddLogSink(s)
           \/ \E ms \in {0, 10} : LogWithWaiting(ms)
           \/ \E m \in Messages : FlushUnsent(m) \/ Buffering(m)
           \/ \E k \in 0 .. Len(destVec) : FlushThrows(k)
  BY <1>1, <1>3 DEF SetSentToCallback, FlushWrite, AddLogSink, LogWithWaiting,
     FlushUnsent, Buffering, FlushThrows, vars
<1>4. CASE StartFlushThread \/ FlushTest \/ FlushReturn \/ FlushSwap \/ FlushLoop
           \/ SpuriousWakeup
  BY <1>2, <1>4 DEF StartFlushThread, FlushTest, FlushReturn, FlushSwap,
     FlushLoop, SpuriousWakeup
<1>5. ASSUME NEW m \in Messages, NotifyOne(m) PROVE DtorInv'
  BY <1>5 DEF NotifyOne
\* With _stop set the predicate lets the thread through.
<1>6. CASE FlushPredicateFalse
  <2>1. ~stop /\ UNCHANGED <<stop, dtorPc>>
    BY <1>6 DEF FlushPredicateFalse, WaitIsOver
  <2> QED
    BY <2>1
<1>7. CASE FlushBlock
  <2>1. pc = "blocking" /\ UNCHANGED <<stop, dtorPc, missed>>
    BY <1>7 DEF FlushBlock
  <2> QED
    BY <2>1
<1>8. CASE FlushWriteFatal
  BY <1>8 DEF FlushWriteFatal
<1>9. CASE DtorStop
  BY <1>9 DEF DtorStop
<1>10. CASE DtorNotifyAll
  BY <1>10 DEF DtorNotifyAll
<1>11. CASE DtorJoin
  BY <1>11 DEF DtorJoin
<1> HIDE DEF DtorInv
<1> QED
  BY <1>3, <1>4, <1>5, <1>6, <1>7, <1>8, <1>9, <1>10, <1>11 DEF Next, FlushStep

\* The join of ~Logger (logging/Logging.h:64) waits for a thread that has the
\* notify_all of line 63 behind it, except when that call found the thread
\* between the predicate and the block of _cv.wait (line 113): this race is the
\* only way for the process not to end, which is what DestructorReturns excepts.
THEOREM JoinsTheAwake == Spec => []NotifyAllIsHeard
<1>1. Init => DtorInv
  BY DEF Init, DtorInv, DtorHasStopped, NotifyAllIsHeard
<1>2. DtorInv /\ [Next]_vars => DtorInv'
  BY NextDtor
<1> QED
  BY <1>1, <1>2, PTL DEF Spec, DtorInv

===============================================================================
