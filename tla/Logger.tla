-------------------------------- MODULE Logger --------------------------------
(***************************************************************************)
(* server::log::internal::Logger, the LogMessage objects the LOG macro     *)
(* sends it, and the sinks it feeds (include/server/logging/Logging.h,     *)
(* LogMessage.h, LogSink.h).                                               *)
(*                                                                         *)
(* Atomicity.  A critical section of _mx is one action, with one           *)
(* exception: between the evaluation of _cv.wait's predicate and the       *)
(* moment the flush thread blocks it holds the mutex ("blocking"), because *)
(* ~Logger stores _stop and calls notify_all without that mutex.           *)
(* Buffering's test of _log_with_waiting and its notify_one come after the *)
(* mutex is released.  _stop, _log_with_waiting and _dest_vec are read and *)
(* written without the mutex.                                              *)
(***************************************************************************)
EXTENDS Naturals, Sequences, FiniteSets, SequencesExt

CONSTANTS Messages,       \* one LOG statement each
          Fatal,          \* those logged with level FATAL
          Sinks,          \* one call of AddLogSink each
          MaxModeCalls    \* bound on the calls of LogWithWaiting(int)

ASSUME LoggerAssumption ==
    /\ Fatal \subseteq Messages
    /\ MaxModeCalls \in Nat

VARIABLES
    sendto,      \* LogMessage::_sendto has been set
    msgState,    \* where each LOG statement is
    buf,         \* _buf
    backup,      \* the part of _backup_buf the loop has not passed
    destVec,     \* _dest_vec
    out,         \* what each sink was handed
    pc,          \* where the flush thread is
    stop,        \* _stop
    waiting,     \* _log_with_waiting
    dtorPc,      \* where ~Logger is
    missed,      \* ~Logger's notify_all fell on a thread about to block
    ended,       \* how the process died: "no", "fatal", "throw", "race"
    accepted,    \* the messages in the order Buffering appended them
    modeCalls

bufVars == <<msgState, buf, accepted>>
sinkVars == <<destVec, out>>
dtorVars == <<dtorPc, missed>>
vars == <<sendto, bufVars, backup, sinkVars, pc, stop, waiting, dtorVars,
          ended, modeCalls>>

Init ==
    /\ sendto = FALSE
    /\ msgState = [m \in Messages |-> "new"]
    /\ buf = <<>> /\ backup = <<>> /\ accepted = <<>>
    /\ destVec = <<>>
    /\ out = [s \in Sinks |-> <<>>]
    /\ pc = "unborn"
    /\ stop = FALSE
    /\ waiting = FALSE
    /\ dtorPc = "none"
    /\ missed = FALSE
    /\ ended = "no"
    /\ modeCalls = 0

-------------------------------------------------------------------------------
(* GetLogger's construction: the member _flush_thread starts before the body *)
(* of the constructor sets the callback.                                     *)

StartFlushThread ==
    /\ pc = "unborn"
    /\ pc' = "test"
    /\ UNCHANGED <<sendto, bufVars, backup, sinkVars, stop, waiting, dtorVars,
                   ended, modeCalls>>

SetSentToCallback ==
    /\ pc # "unborn"
    /\ ~sendto
    /\ sendto' = TRUE
    /\ UNCHANGED <<bufVars, backup, sinkVars, pc, stop, waiting, dtorVars,
                   ended, modeCalls>>

\* GetLogger()->AddLogSink(sink).  emplace_back while the flush thread goes
\* through _dest_vec is a data race.
AddLogSink(s) ==
    /\ sendto
    /\ dtorPc = "none"
    /\ \A i \in DOMAIN destVec : destVec[i] # s
    /\ \/ /\ destVec' = Append(destVec, s)
          /\ UNCHANGED ended
       \/ /\ pc = "write" /\ backup # <<>>
          /\ ended' = "race"
          /\ UNCHANGED destVec
    /\ UNCHANGED <<sendto, bufVars, backup, out, pc, stop, waiting, dtorVars,
                   modeCalls>>

LogWithWaiting(ms) ==
    /\ sendto
    /\ dtorPc = "none"
    /\ modeCalls < MaxModeCalls
    /\ waiting' = (ms # 0)
    /\ modeCalls' = modeCalls + 1
    /\ UNCHANGED <<sendto, bufVars, backup, sinkVars, pc, stop, dtorVars,
                   ended>>

-------------------------------------------------------------------------------
(* ~LogMessage at the end of a LOG statement.                                *)

\* No callback yet: the message is destroyed with its text.
FlushUnsent(m) ==
    /\ msgState[m] = "new"
    /\ ~sendto
    /\ msgState' = [msgState EXCEPT ![m] = "unsent"]
    /\ UNCHANGED <<sendto, buf, accepted, backup, sinkVars, pc, stop, waiting,
                   dtorVars, ended, modeCalls>>

\* Buffering under the mutex.  No LOG statement runs once ~Logger is done.
Buffering(m) ==
    /\ msgState[m] = "new"
    /\ sendto
    /\ pc # "blocking"
    /\ dtorPc # "done"
    /\ buf' = Append(buf, m)
    /\ accepted' = Append(accepted, m)
    /\ msgState' = [msgState EXCEPT ![m] = "buffered"]
    /\ UNCHANGED <<sendto, backup, sinkVars, pc, stop, waiting, dtorVars,
                   ended, modeCalls>>

\* Seeded fault: the message is appended, nobody is notified.
NotifyOneForgotten(m) ==
    /\ msgState[m] = "buffered"
    /\ msgState' = [msgState EXCEPT ![m] = IF waiting THEN "quiet"
                                                      ELSE "announced"]
    /\ UNCHANGED <<sendto, buf, accepted, backup, sinkVars, pc, stop, waiting,
                   dtorVars, ended, modeCalls>>

\* if ( !_log_with_waiting ) _cv.notify_one();
NotifyOne(m) ==
    /\ msgState[m] = "buffered"
    /\ msgState' = [msgState EXCEPT ![m] = IF waiting THEN "quiet"
                                                      ELSE "announced"]
    /\ pc' = IF ~waiting /\ pc = "asleep" THEN "woken" ELSE pc
    /\ UNCHANGED <<sendto, buf, accepted, backup, sinkVars, stop, waiting,
                   dtorVars, ended, modeCalls>>

-------------------------------------------------------------------------------
(* Logger::Flush, the flush thread.                                          *)

FlushTest ==
    /\ pc = "test"
    /\ pc' = IF stop THEN "exited" ELSE "lock"
    /\ UNCHANGED <<sendto, bufVars, backup, sinkVars, stop, waiting, dtorVars,
                   ended, modeCalls>>

\* Seeded fault: the predicate of _cv.wait does not look at _stop.
WaitIsOverForMessages ==
    \/ pc = "lock" /\ waiting
    \/ pc \in {"lock", "woken"} /\ buf # <<>>

\* In waiting mode wait_for comes back at once (_waiting_ms is never set);
\* else, or woken from _cv.wait, the predicate lets the thread through.
WaitIsOver ==
    \/ pc = "lock" /\ waiting
    \/ pc \in {"lock", "woken"} /\ (stop \/ buf # <<>>)

FlushReturn ==
    /\ WaitIsOver
    /\ stop
    /\ pc' = "exited"
    /\ UNCHANGED <<sendto, bufVars, backup, sinkVars, stop, waiting, dtorVars,
                   ended, modeCalls>>

\* _buf.swap(_backup_buf), or nothing when _buf is empty: _backup_buf is
\* empty at this point.
FlushSwap ==
    /\ WaitIsOver
    /\ ~stop
    /\ backup' = buf
    /\ buf' = <<>>
    /\ pc' = "write"
    /\ UNCHANGED <<sendto, msgState, accepted, sinkVars, stop, waiting,
                   dtorVars, ended, modeCalls>>

\* The predicate is false: _cv.wait goes on to block, mutex in hand.
FlushPredicateFalse ==
    /\ pc \in {"lock", "woken"}
    /\ ~WaitIsOver
    /\ pc' = "blocking"
    /\ UNCHANGED <<sendto, bufVars, backup, sinkVars, stop, waiting, dtorVars,
                   ended, modeCalls>>

FlushBlock ==
    /\ pc = "blocking"
    /\ pc' = "asleep"
    /\ UNCHANGED <<sendto, bufVars, backup, sinkVars, stop, waiting, dtorVars,
                   ended, modeCalls>>

SpuriousWakeup ==
    /\ pc = "asleep"
    /\ pc' = "woken"
    /\ UNCHANGED <<sendto, bufVars, backup, sinkVars, stop, waiting, dtorVars,
                   ended, modeCalls>>

\* out after the first k sinks were handed message m.
Handed(m, k) ==
    [s \in Sinks |-> IF \E i \in 1 .. k : destVec[i] = s
                     THEN Append(out[s], m)
                     ELSE out[s]]

\* Seeded fault: the back buffer is written from its end.
FlushWriteNewest ==
    LET m == Last(backup) IN
    /\ pc = "write"
    /\ backup # <<>>
    /\ m \notin Fatal
    /\ out' = Handed(m, Len(destVec))
    /\ backup' = Front(backup)
    /\ UNCHANGED <<sendto, bufVars, destVec, pc, stop, waiting, dtorVars,
                   ended, modeCalls>>

FlushWrite ==
    /\ pc = "write"
    /\ backup # <<>>
    /\ Head(backup) \notin Fatal
    /\ out' = Handed(Head(backup), Len(destVec))
    /\ backup' = Tail(backup)
    /\ UNCHANGED <<sendto, bufVars, destVec, pc, stop, waiting, dtorVars,
                   ended, modeCalls>>

\* A FATAL message: after it everything is cleared and the process aborted.
FlushWriteFatal ==
    /\ pc = "write"
    /\ backup # <<>>
    /\ Head(backup) \in Fatal
    /\ out' = Handed(Head(backup), Len(destVec))
    /\ stop' = TRUE
    /\ buf' = <<>> /\ backup' = <<>> /\ destVec' = <<>>
    /\ ended' = "fatal"
    /\ UNCHANGED <<sendto, msgState, accepted, pc, waiting, dtorVars,
                   modeCalls>>

\* Sink number k+1 throws (LogFile::Flush does): std::terminate.
FlushThrows(k) ==
    /\ pc = "write"
    /\ backup # <<>>
    /\ k < Len(destVec)
    /\ out' = Handed(Head(backup), k)
    /\ ended' = "throw"
    /\ UNCHANGED <<sendto, bufVars, backup, destVec, pc, stop, waiting,
                   dtorVars, modeCalls>>

\* Seeded fault: the loop is left after any message.
FlushLoopEarly ==
    /\ pc = "write"
    /\ pc' = "test"
    /\ UNCHANGED <<sendto, bufVars, backup, sinkVars, stop, waiting, dtorVars,
                   ended, modeCalls>>

\* The end of the loop: _backup_buf.clear().
FlushLoop ==
    /\ pc = "write"
    /\ backup = <<>>
    /\ pc' = "test"
    /\ UNCHANGED <<sendto, bufVars, backup, sinkVars, stop, waiting, dtorVars,
                   ended, modeCalls>>

FlushStep ==
    \/ FlushTest
    \/ FlushReturn
    \/ FlushSwap
    \/ FlushPredicateFalse
    \/ FlushBlock
    \/ FlushWrite
    \/ FlushWriteFatal
    \/ FlushLoop

-------------------------------------------------------------------------------
(* ~Logger, run by the destruction of GetLogger's static object.             *)

DtorStop ==
    /\ sendto
    /\ dtorPc = "none"
    /\ stop' = TRUE
    /\ dtorPc' = "notifying"
    /\ UNCHANGED <<sendto, bufVars, backup, sinkVars, pc, waiting, missed,
                   ended, modeCalls>>

DtorNotifyAll ==
    /\ dtorPc = "notifying"
    /\ pc' = IF pc = "asleep" THEN "woken" ELSE pc
    /\ missed' = (pc = "blocking")
    /\ dtorPc' = "joining"
    /\ UNCHANGED <<sendto, bufVars, backup, sinkVars, stop, waiting, ended,
                   modeCalls>>

DtorJoin ==
    /\ dtorPc = "joining"
    /\ pc = "exited"
    /\ dtorPc' = "done"
    /\ UNCHANGED <<sendto, bufVars, backup, sinkVars, pc, stop, waiting,
                   missed, ended, modeCalls>>

-------------------------------------------------------------------------------
\* ~Logger waits for a thread that nobody will wake.
Hung == dtorPc = "joining" /\ pc = "asleep"

\* Nothing more happens once the process has died, ~Logger is done, or
\* ~Logger hangs because its notify_all came too early.
Terminated ==
    \/ ended # "no"
    \/ dtorPc = "done"
    \/ Hung /\ missed

Next ==
    \/ /\ ended = "no"
       /\ \/ StartFlushThread
          \/ SetSentToCallback
          \/ \E s \in Sinks : AddLogSink(s)
          \/ \E ms \in {0, 10} : LogWithWaiting(ms)
          \/ \E m \in Messages : FlushUnsent(m) \/ Buffering(m) \/ NotifyOne(m)
          \/ FlushStep
          \/ \E k \in 0 .. Len(destVec) : FlushThrows(k)
          \/ SpuriousWakeup
          \/ DtorStop \/ DtorNotifyAll \/ DtorJoin
    \/ Terminated /\ UNCHANGED vars

Spec == Init /\ [][Next]_vars

\* The flush thread, a LOG statement that has begun and a destructor that has
\* begun are scheduled.
Fairness ==
    /\ WF_vars(ended = "no" /\ FlushStep)
    /\ \A m \in Messages : WF_vars(ended = "no" /\ NotifyOne(m))
    /\ WF_vars(ended = "no" /\ (DtorNotifyAll \/ DtorJoin))

FairSpec == Spec /\ Fairness

-------------------------------------------------------------------------------
(* Properties.                                                               *)

\* The values each variable takes; _backup_buf is only in use while the
\* flush thread writes, which is what makes the swap under the mutex enough.
TypeOK ==
    /\ sendto \in BOOLEAN
    /\ msgState \in [Messages -> {"new", "unsent", "buffered", "announced",
                                  "quiet"}]
    /\ buf \in Seq(Messages)
    /\ backup \in Seq(Messages)
    /\ accepted \in Seq(Messages)
    /\ destVec \in Seq(Sinks)
    /\ out \in [Sinks -> Seq(Messages)]
    /\ pc \in {"unborn", "test", "lock", "blocking", "asleep", "woken",
               "write", "exited"}
    /\ stop \in BOOLEAN
    /\ waiting \in BOOLEAN
    /\ dtorPc \in {"none", "notifying", "joining", "done"}
    /\ missed \in BOOLEAN
    /\ ended \in {"no", "fatal", "throw", "race"}
    /\ modeCalls \in 0 .. MaxModeCalls
    /\ backup # <<>> => pc = "write"

\* The flush thread never sleeps on _cv while a message waits in _buf, but
\* for a message whose notify_one is still to come, or which Buffering did
\* not announce because it saw the waiting mode.
SleepsOnlyOnQuiet ==
    pc = "asleep" =>
        \A i \in DOMAIN buf : msgState[buf[i]] \in {"buffered", "quiet"}

\* The double buffer is a conveyor: wherever the swap falls, and whatever
\* sinks throw, the two buffers together are the queue of the abstract log,
\* from which every sink gets each message once and in order of acceptance,
\* until a FATAL one or a failing sink ends it.
Queue == INSTANCE LogQueue WITH
            pending <- backup \o buf,
            seen <- Range(accepted),
            attached <- Range(destVec),
            open <- ended = "no" /\ pc # "exited"

ImplementsLogQueue == Queue!Spec

\* A message that Buffering announced is written, unless the logger is
\* stopped or the process dies.
AnnouncedIsWritten ==
    \A m \in Messages :
        msgState[m] = "announced" ~>
            m \notin Range(backup \o buf) \/ stop \/ ended # "no"

\* ~Logger returns, unless its notify_all fell between the predicate and the
\* block of the flush thread.
DestructorReturns ==
    dtorPc = "notifying" ~> dtorPc = "done" \/ ended # "no" \/ missed

===============================================================================
