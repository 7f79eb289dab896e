---------------------------------- MODULE File ----------------------------------
(***************************************************************************)
(* server::io::File (include/server/File.h): one fstream that several      *)
(* threads read and write, under a mutex and behind a condition variable   *)
(* that is to keep readers away from a write.                              *)
(*                                                                         *)
(* Bytes are counted, not looked at.  The fstream has one position for     *)
(* reading and writing, and its failbit is never cleared.  A critical      *)
(* section is one action: the wait in write is for a flag the line before  *)
(* has set, so only read ever gives the mutex up.  A write to the disk can *)
(* fail at once, or when seekg flushes.  A file that could not be opened   *)
(* refuses every call and is left out.                                     *)
(***************************************************************************)
EXTENDS Naturals

CONSTANTS Threads,
          MaxSize   \* bound on the length of the file

ASSUME FileAssumption == MaxSize \in Nat

VARIABLES
    fileSize,  \* length of the file
    pos,       \* position of _file
    good,      \* _file has neither failbit nor badbit
    isOpen,    \* _file is open
    writing,   \* _writing
    fileMode,  \* _mode, which no call of File looks at
    filePc,    \* where each thread is
    want       \* offset and size of the read each thread is in

dataVars == <<fileSize, pos, good, isOpen>>
fileVars == <<dataVars, writing, fileMode, filePc, want>>

Modes == {"R", "W", "RW", "NONE"}
Offsets == 0 .. MaxSize
Sizes == 1 .. MaxSize
AtMost(a, b) == IF a < b THEN a ELSE b

FileInit ==
    /\ fileSize \in 0 .. MaxSize
    /\ pos = 0 /\ good = TRUE /\ isOpen = TRUE
    /\ writing = FALSE
    /\ fileMode = "RW"
    /\ filePc = [t \in Threads |-> "idle"]
    /\ want = [t \in Threads |-> <<0, 0>>]

-------------------------------------------------------------------------------
(* write(buf, offset, n).  An offset of 0 means the current position.        *)

From(offset) == IF offset > 0 THEN offset ELSE pos

\* _file.write fails: the mutex is released with _writing still set.
WriteFails(offset, n) ==
    /\ good' = FALSE
    /\ writing' = TRUE
    /\ fileSize' \in fileSize .. IF good /\ isOpen THEN AtMost(fileSize + n, MaxSize)
                               ELSE fileSize
    /\ UNCHANGED <<pos, isOpen, fileMode, filePc, want>>

\* One thread that waits in read is notified.
Notified ==
    LET asleep == {t \in Threads : filePc[t] = "asleep"} IN
    IF asleep = {} THEN {filePc}
    ELSE {[filePc EXCEPT ![t] = "reading"] : t \in asleep}

\* seekg flushes: the file reaches to end, or the stream fails on the way.
Flushed(end) ==
    LET longest == IF fileSize < end THEN end ELSE fileSize IN
    \/ good' = TRUE /\ fileSize' = longest
    \/ good' = FALSE /\ fileSize' \in fileSize .. longest

\* Seeded fault: _writing is not taken back.
WriteDoneForgotten(offset, n) ==
    LET end == From(offset) + n IN
    /\ good /\ isOpen
    /\ end <= MaxSize
    /\ Flushed(end)
    /\ pos' = IF offset > 0 THEN fileSize' ELSE pos
    /\ writing' = TRUE
    /\ filePc' \in Notified
    /\ UNCHANGED <<isOpen, fileMode, want>>

\* seekg goes back to where the write began; after an offset seekp goes to
\* the end.  Nobody asks whether they failed.
WriteDone(offset, n) ==
    LET end == From(offset) + n IN
    /\ good /\ isOpen
    /\ end <= MaxSize
    /\ Flushed(end)
    /\ pos' = IF offset > 0 THEN fileSize' ELSE pos
    /\ writing' = FALSE
    /\ filePc' \in Notified
    /\ UNCHANGED <<isOpen, fileMode, want>>

FileWrite(t, offset, n) ==
    /\ filePc[t] = "idle"
    /\ WriteDone(offset, n) \/ WriteFails(offset, n)

-------------------------------------------------------------------------------
(* read(buf, offset, n) and readAll.                                         *)

CallRead(t, offset, n) ==
    /\ filePc[t] = "idle"
    /\ want' = [want EXCEPT ![t] = <<offset, n>>]
    /\ filePc' = [filePc EXCEPT ![t] = "reading"]
    /\ UNCHANGED <<dataVars, writing, fileMode>>

\* readAll asks for the size in a critical section of its own.
CallReadAll(t) ==
    /\ fileSize > 0
    /\ CallRead(t, 0, fileSize)

Beyond(offset) == offset > fileSize

\* The size is asked for before the wait; it only grows.
ReadWaits(t) ==
    /\ filePc[t] = "reading"
    /\ ~Beyond(want[t][1])
    /\ writing
    /\ filePc' = [filePc EXCEPT ![t] = "asleep"]
    /\ UNCHANGED <<dataVars, writing, fileMode, want>>

\* What is asked for is cut to the length of the file, wherever the reading
\* begins; less than that is left: the stream fails.
FileRead(t) ==
    LET offset == want[t][1]
        end == From(offset) + AtMost(want[t][2], fileSize)
        served == good /\ isOpen /\ end <= fileSize
    IN
    /\ filePc[t] = "reading"
    /\ Beyond(offset) \/ ~writing
    /\ IF Beyond(offset) THEN UNCHANGED <<pos, good>>
       ELSE /\ good' = served
            /\ pos' = IF served THEN end ELSE pos
    /\ filePc' = [filePc EXCEPT ![t] = "idle"]
    /\ want' = [want EXCEPT ![t] = <<0, 0>>]
    /\ UNCHANGED <<fileSize, isOpen, writing, fileMode>>

-------------------------------------------------------------------------------
\* Close, without the mutex; _access stays set.
Close(t) ==
    /\ filePc[t] = "idle"
    /\ isOpen' = FALSE
    /\ UNCHANGED <<fileSize, pos, good, writing, fileMode, filePc, want>>

\* Open, disableWrite, disableRead, disableAll.
SetFileMode(t, m) ==
    /\ filePc[t] = "idle"
    /\ fileMode' = m
    /\ UNCHANGED <<dataVars, writing, filePc, want>>

\* Every thread sleeps in read.
Stuck == \A t \in Threads : filePc[t] = "asleep"

FileNext ==
    \/ \E t \in Threads :
         \/ \E offset \in Offsets, n \in Sizes :
              FileWrite(t, offset, n) \/ CallRead(t, offset, n)
         \/ CallReadAll(t) \/ ReadWaits(t) \/ FileRead(t)
         \/ Close(t)
         \/ \E m \in Modes : SetFileMode(t, m)
    \/ Stuck /\ UNCHANGED fileVars

FileSpec == FileInit /\ [][FileNext]_fileVars

-------------------------------------------------------------------------------
(* Properties.                                                               *)

\* The values each variable takes; a position that is good lies in the file,
\* though offsets come from the callers and the file grows under them.
FileTypeOK ==
    /\ fileSize \in 0 .. MaxSize /\ pos \in Nat
    /\ good /\ isOpen => pos <= fileSize
    /\ good \in BOOLEAN /\ isOpen \in BOOLEAN /\ writing \in BOOLEAN
    /\ fileMode \in Modes
    /\ filePc \in [Threads -> {"idle", "reading", "asleep"}]
    /\ want \in [Threads -> Offsets \X (0 .. MaxSize)]

\* No reader waits for a write that is under way: _writing is seen by another
\* thread only after a write has failed.
SleepsOnlyBehindFailure ==
    writing \/ (\E t \in Threads : filePc[t] = "asleep") =>
        writing /\ ~(good /\ isOpen)

\* And then it waits for ever: no write succeeds any more, and only one that
\* does notifies.
SleepIsForEver ==
    [][\A t \in Threads : filePc[t] = "asleep" => filePc'[t] = "asleep"]_fileVars

===============================================================================
