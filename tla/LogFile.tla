--------------------------------- MODULE LogFile ---------------------------------
(***************************************************************************)
(* server::log::sink::LogFile (include/server/logging/LogFile.h), the sink *)
(* that writes to files and turns to a new one when the old one is long,   *)
(* with the bounded text of a LogMessage (LogMessage.h, LogStream.h) and   *)
(* the end of the process by a FATAL one (Logging.h).                      *)
(*                                                                         *)
(* Only the logger's flush thread calls it; text is counted.  A file has   *)
(* the second it was opened in for its name, or always the same name when  *)
(* the time is beyond the 60 bytes the name may have.  The bytes after the *)
(* name, which ends without a NUL, are the same every time.                *)
(***************************************************************************)
EXTENDS Naturals, Functions

CONSTANTS Limit,     \* GlobalConfig._per_file_size
          TextRoom,  \* MAX_MESSAGE_LEN - 2
          MaxText,   \* bound on the length of header and body
          TraceLen,  \* length of a stack trace
          FileBuf,   \* the buffer of an ofstream
          MaxClock,  \* bound on the seconds that pass
          MaxLogged  \* bound on the length of what is logged

ASSUME LogAssumption ==
    /\ Limit \in Nat /\ TextRoom \in Nat /\ TraceLen \in Nat
    /\ FileBuf \in Nat \ {0}
    /\ MaxText \in Nat /\ MaxClock \in Nat /\ MaxLogged \in Nat

VARIABLES
    clock,     \* the second it is
    stamped,   \* the time fits into the name
    shared,    \* somebody besides the logger holds the sink
    out,       \* the sink and its files, a record:
               \*   name, total      _filename and _total_size
               \*   buffered         in the buffer of _file, not on the disk
               \*   disk, opened     length of each file; how often opened
               \*   hushed           how often the disk failed in a flush or
               \*                    close that nobody looks at
    logged,    \* length of everything that Flush took
    logState   \* "open", "closed", "aborted" or "thrown"

logVars == <<clock, stamped, shared, out, logged, logState>>

Seconds == 0 .. MaxClock
Lesser(a, b) == IF a < b THEN a ELSE b

LogInit ==
    /\ clock = 0
    /\ stamped \in BOOLEAN /\ shared \in BOOLEAN
    /\ out = [name |-> 0, total |-> 0, buffered |-> 0, hushed |-> 0,
              disk |-> [f \in Seconds |-> 0],
              opened |-> [f \in Seconds |-> IF f = 0 THEN 1 ELSE 0]]
    /\ logged = 0
    /\ logState = "open"

Tick ==
    /\ clock < MaxClock
    /\ clock' = clock + 1
    /\ UNCHANGED <<stamped, shared, out, logged, logState>>

-------------------------------------------------------------------------------
(* The text of a message.                                                    *)

\* LogStreamBuf::overflow drops what has no room and says it was taken.
Appended(len, n) == Lesser(len + n, TextRoom)

\* Header and body, the newline, and the stack trace of a FATAL message.
TextLen(n, fatal) ==
    LET line == Appended(Appended(0, n), 1) IN
    IF fatal THEN Appended(line, TraceLen) ELSE line

-------------------------------------------------------------------------------
(* Flush(str, n), as functions of the record of the sink.                    *)

Name == IF stamped THEN clock ELSE 0
Emptied(r) == [r EXCEPT !.disk[r.name] = @ + r.buffered, !.buffered = 0]
Forgone(r) == [r EXCEPT !.hushed = @ + 1, !.buffered = 0]

\* _file.flush(); _file.close(): what is buffered goes to the file or, if the
\* disk fails, is gone.  Neither InitFileName nor ~LogFile looks at it.
Closed(r, lost) == IF lost THEN Forgone(r) ELSE Emptied(r)
MayLose(r) == IF r.buffered > 0 THEN BOOLEAN ELSE {FALSE}

\* Seeded fault: the file is opened for writing, not for appending.
InitFileNameTruncates(r, lost) ==
    [Closed(r, lost) EXCEPT !.name = Name, !.opened[Name] = @ + 1,
                            !.disk[Name] = 0]

\* The new file is opened for appending.
InitFileName(r, lost) ==
    [Closed(r, lost) EXCEPT !.name = Name, !.opened[Name] = @ + 1]

\* Seeded fault: the counter goes on.
RotateCountsOn(r, lost) == InitFileName(r, lost)

Rotate(r, lost) == [InitFileName(r, lost) EXCEPT !.total = 0]

\* _file.write keeps what fits into the buffer, or writes all of it out.
LogWrite(r, n) ==
    LET counted == [r EXCEPT !.total = @ + n, !.buffered = @ + n] IN
    IF counted.buffered < FileBuf THEN counted ELSE Emptied(counted)

TooLong == out.total > Limit

\* The sink after Flush of n bytes.
AfterFlush(n) ==
    {LogWrite(IF TooLong THEN Rotate(out, lost) ELSE out, n) :
       lost \in MayLose(out)}

Log(n) ==
    LET len == TextLen(n, FALSE) IN
    /\ logState = "open"
    /\ logged + len <= MaxLogged
    /\ out' \in AfterFlush(len)
    /\ logged' = logged + len
    /\ UNCHANGED <<clock, stamped, shared, logState>>

\* The file cannot be opened or written: Flush throws, in a thread that
\* catches nothing, and what is buffered is lost.
FlushThrows ==
    /\ logState = "open"
    /\ logState' = "thrown"
    /\ UNCHANGED <<clock, stamped, shared, out, logged>>

-------------------------------------------------------------------------------
(* The end of the sink.                                                      *)

\* The logger lets its sinks go: ~LogFile, unless somebody else holds the
\* sink.
Released(r, lost) == IF shared THEN r ELSE Closed(r, lost)

\* A FATAL message: _dest_vec.clear(), then abort().
Fatal(n) ==
    LET len == TextLen(n, TRUE) IN
    /\ logState = "open"
    /\ logged + len <= MaxLogged
    /\ \E r \in AfterFlush(len) :
         \E lost \in MayLose(r) : out' = Released(r, lost)
    /\ logged' = logged + len
    /\ logState' = "aborted"
    /\ UNCHANGED <<clock, stamped, shared>>

\* The process ends by exit: whoever holds the sink lets it go.
Exit ==
    /\ logState = "open"
    /\ \E lost \in MayLose(out) : out' = Closed(out, lost)
    /\ logState' = "closed"
    /\ UNCHANGED <<clock, stamped, shared, logged>>

Ended == logState # "open" /\ UNCHANGED logVars

LogNext ==
    \/ \E n \in 1 .. MaxText : Log(n) \/ Fatal(n)
    \/ Tick \/ FlushThrows \/ Exit \/ Ended

LogSpec == LogInit /\ [][LogNext]_logVars

-------------------------------------------------------------------------------
(* Properties.                                                               *)

LogTypeOK ==
    /\ clock \in Seconds /\ stamped \in BOOLEAN /\ shared \in BOOLEAN
    /\ out \in [name : Seconds, total : Nat, buffered : 0 .. FileBuf - 1,
                disk : [Seconds -> Nat], opened : [Seconds -> Nat],
                hushed : Nat]
    /\ logged \in 0 .. MaxLogged
    /\ logState \in {"open", "closed", "aborted", "thrown"}

\* What is in the files, and in the buffer that will still be written.
Surviving == SumFunction(out.disk) + (IF logState = "open" THEN out.buffered ELSE 0)

\* How often a buffer may have been lost: in a flush or close that failed, and
\* with a process that throws, or that aborts while somebody holds the sink.
Losses ==
    out.hushed
    + (IF logState = "thrown" \/ (logState = "aborted" /\ shared) THEN 1 ELSE 0)

\* Nothing is in the files that was not logged, and of what was logged no more
\* is missing than one buffer for each failure nobody saw: a file that is
\* opened again, because two rotations fell into one second or the time is cut
\* off the name, keeps what it has, and exit and a FATAL message, which
\* aborts, leave all on the disk unless the disk or the holder of the sink
\* prevents it.
OnlyBuffersAreLost ==
    Surviving <= logged /\ logged <= Surviving + Losses * (FileBuf - 1)

\* A file is longer than the limit by one message at most, each time it was
\* opened; and one that was left is longer than the limit: the limit is
\* tested before a message is written, and against the counter, which must
\* follow the file.
FilesFollowLimit ==
    \A f \in Seconds :
      LET len == out.disk[f] + (IF f = out.name THEN out.buffered ELSE 0) IN
      /\ len <= out.opened[f] * (Limit + TextRoom)
      /\ out.opened[f] = 1 /\ f # out.name /\ out.hushed = 0 => len > Limit

===============================================================================
