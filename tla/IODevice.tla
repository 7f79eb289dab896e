-------------------------------- MODULE IODevice --------------------------------
(***************************************************************************)
(* server::io::IODevice (include/server/IODevice.h): the read ring that a  *)
(* device's ReadData fills and Read, Peek, Skip and Seek empty.            *)
(*                                                                         *)
(* The subclass is the environment: it says whether it is sequential, and  *)
(* its ReadData stores any number of bytes up to what it is asked for, or  *)
(* returns -1.  A byte is its position in the device's stream, so that a   *)
(* byte out of place shows.  Modulus stands for 2^64, the range of size_t, *)
(* in which -1 is Modulus - 1.  A device is used by one thread: every call *)
(* is one action.                                                          *)
(***************************************************************************)
EXTENDS Naturals, Sequences

CONSTANTS BufSize,  \* BUFSIZE
          Modulus,  \* 2^64
          MaxBytes, \* bound on the length of the device's stream
          MaxAsked  \* bound on the size a caller asks for

ASSUME DeviceAssumption ==
    /\ BufSize \in Nat \ {0} /\ MaxBytes \in Nat /\ MaxAsked \in Nat
    /\ Modulus \in Nat /\ Modulus > BufSize /\ Modulus > MaxAsked
    /\ Modulus % BufSize = 0

VARIABLES
    mode,        \* _mode: "R", "W", "RW" or "NONE"
    sequential,  \* IsSequential() of the subclass
    head, tail, size, \* _head, _tail, _size
    buf,         \* _buf; 0 is a blank
    supplied,    \* bytes ReadData has stored so far
    expected,    \* position of the byte the caller expects next, at most
                 \* MaxBytes + 1
    answer,      \* what the last Read gave: "none", "right" or "wrong" bytes
    filled,      \* the ring was full when that Read copied
    moved,       \* Skip or Seek has moved the head
    failed       \* ReadData has returned -1

ringVars == <<head, tail, size, buf>>
readVars == <<supplied, expected, answer, filled>>
vars == <<mode, sequential, ringVars, readVars, moved, failed>>

Cells == 0 .. BufSize - 1
HasReadMode == mode \in {"R", "RW"}
Smaller(a, b) == IF a < b THEN a ELSE b
Advance(n) == expected' = Smaller(expected + n, MaxBytes + 1)

Init ==
    /\ mode = "NONE"
    /\ sequential \in BOOLEAN
    /\ head = 0 /\ tail = 0 /\ size = 0
    /\ buf = [i \in Cells |-> 0]
    /\ supplied = 0 /\ expected = 1
    /\ answer = "none" /\ filled = FALSE
    /\ moved = FALSE /\ failed = FALSE

\* Open of a subclass.  File sets the mode it is given, TcpSocket RW.
SetOpenMode(m) ==
    /\ mode' = m
    /\ UNCHANGED <<sequential, ringVars, readVars, moved, failed>>

-------------------------------------------------------------------------------
(* The ring r, a record of head, tail, size and buf.                         *)

Ring == [head |-> head, tail |-> tail, size |-> size, buf |-> buf]

\* Seeded fault: the two ends of the ring are mistaken for each other.
CopiedSwapped(r, n) ==
    LET exact == Smaller(r.size, n)
        len == IF r.tail >= r.head THEN r.tail - r.head ELSE BufSize - r.head
        valid == Smaller(exact, len)
    IN [i \in 1 .. n |->
          IF i <= valid THEN r.buf[r.head + i - 1]
          ELSE IF r.tail < r.head /\ i <= exact THEN r.buf[(r.tail + i - len - 1) % BufSize]
          ELSE 0]

\* What Peek(data, n) leaves in data: the cells from head to the end, and for
\* a ring that wraps around those from the beginning.  0 is a byte that is
\* not copied, or copied from beyond the buffer.
Copied(r, n) ==
    LET exact == Smaller(r.size, n)
        len == IF r.tail >= r.head THEN r.tail - r.head ELSE BufSize - r.head
        valid == Smaller(exact, len)
    IN [i \in 1 .. n |->
          IF i <= valid /\ r.head + i <= BufSize THEN r.buf[r.head + i - 1]
          ELSE IF valid < i /\ r.tail < r.head /\ i <= exact /\ i - len <= BufSize
               THEN r.buf[i - len - 1]
          ELSE 0]

\* The end of what Peek(data, n) copies last.
CopiedEnd(r, n) ==
    LET exact == Smaller(r.size, n)
        len == IF r.tail >= r.head THEN r.tail - r.head ELSE BufSize - r.head
    IN IF r.tail < r.head /\ len < exact THEN exact - len
       ELSE r.head + Smaller(exact, len)

\* The room ReadData is offered first, and whether it is asked again for the
\* beginning of the buffer.
Room(r) == IF r.tail >= r.head THEN BufSize - r.tail ELSE r.head - r.tail
AskedAgain(r, got) == r.tail > r.head /\ got >= Room(r)

MinusOne == Modulus - 1

\* What ReadData can return when it is offered len bytes and n are stored.
Returns(len, n) == 0 .. Smaller(len, MaxBytes - n) \cup {MinusOne}
Stored(got) == IF got = MinusOne THEN 0 ELSE got

\* buf after ReadData has stored n bytes from cell i on.
Store(b, i, n, after) ==
    [j \in Cells |-> IF i <= j /\ j < i + n THEN after + j - i + 1 ELSE b[j]]

\* Seeded fault: the second piece is not counted.
FilledOnce(r, got, again) ==
    LET b == Store(r.buf, r.tail, Stored(got), supplied) IN
    [head |-> r.head, tail |-> (r.tail + got) % BufSize,
     size |-> (r.size + got) % Modulus,
     buf |-> Store(b, 0, Stored(again), supplied + Stored(got))]

\* Seeded fault: the tail runs off the end.
FilledUnwrapped(r, got, again) ==
    LET b == Store(r.buf, r.tail, Stored(got), supplied)
        readed == (got + again) % Modulus
    IN [head |-> r.head, tail |-> r.tail + readed,
        size |-> (r.size + readed) % Modulus,
        buf |-> Store(b, 0, Stored(again), supplied + Stored(got))]

\* The ring after the calls of ReadData have returned got and again; -1 is
\* added like any other number.
Filled(r, got, again) ==
    LET b == Store(r.buf, r.tail, Stored(got), supplied)
        readed == (got + again) % Modulus
    IN [head |-> r.head, tail |-> (r.tail + readed) % BufSize,
        size |-> (r.size + readed) % Modulus,
        buf |-> Store(b, 0, Stored(again), supplied + Stored(got))]

-------------------------------------------------------------------------------
(* The operations.                                                           *)

\* The second half of Read, on the ring r: hands n bytes out, or as many as
\* it believes it has.
HandOut(r, n) ==
    LET valid == Smaller(n, r.size)
        data == IF sequential THEN [i \in 1 .. valid |-> 0] ELSE Copied(r, valid)
    IN
    /\ head' = (r.head + valid) % BufSize
    /\ tail' = r.tail
    /\ size' = r.size - valid
    /\ buf' = r.buf
    /\ Advance(valid)
    /\ answer' = IF valid = 0 THEN "none"
                 ELSE IF data = [i \in 1 .. valid |-> expected + i - 1]
                      THEN "right" ELSE "wrong"
    /\ filled' = (r.size = BufSize)

Read(n) ==
    /\ HasReadMode
    /\ BufSize > size
    /\ \E got \in Returns(Room(Ring), supplied) :
       \E again \in IF AskedAgain(Ring, got)
                    THEN Returns(head, supplied + Stored(got)) ELSE {0} :
         /\ supplied' = supplied + Stored(got) + Stored(again)
         /\ failed' = (failed \/ MinusOne \in {got, again})
         /\ HandOut(Filled(Ring, got, again), n)
    /\ UNCHANGED <<mode, sequential, moved>>

\* A ring believed to be full is not filled again.
ReadFull(n) ==
    /\ HasReadMode
    /\ BufSize <= size
    /\ HandOut(Ring, n)
    /\ UNCHANGED <<mode, sequential, supplied, moved, failed>>

\* A size that has run below zero throws before anything is read.
ReadAll ==
    /\ size \in 1 .. BufSize
    /\ Read(size) \/ ReadFull(size)

\* SkipSome leaves _size as it is.
Skip(n) ==
    /\ HasReadMode
    /\ head' = (head + Smaller(n, size)) % BufSize
    /\ Advance(Smaller(n, size))
    /\ moved' = TRUE
    /\ UNCHANGED <<mode, sequential, tail, size, buf, supplied, answer, filled,
                   failed>>

\* So does Seek, which refuses a position at or beyond _tail.
Seek(n) ==
    /\ ~sequential
    /\ HasReadMode
    /\ (head + n) % BufSize < tail
    /\ head' = (head + n) % BufSize
    /\ Advance(n)
    /\ moved' = TRUE
    /\ UNCHANGED <<mode, sequential, tail, size, buf, supplied, answer, filled,
                   failed>>

-------------------------------------------------------------------------------
Asked == 1 .. MaxAsked

Next ==
    \/ \E m \in {"R", "W", "RW", "NONE"} : SetOpenMode(m)
    \/ \E n \in Asked : Read(n) \/ ReadFull(n) \/ Skip(n) \/ Seek(n)
    \/ ReadAll

Spec == Init /\ [][Next]_vars

-------------------------------------------------------------------------------
(* Properties.                                                               *)

\* The values each variable takes; the indexes stay inside the buffer, which
\* at() and memcpy rely on, whatever ReadData returns.
TypeOK ==
    /\ mode \in {"R", "W", "RW", "NONE"} /\ sequential \in BOOLEAN
    /\ head \in Cells /\ tail \in Cells /\ size \in 0 .. Modulus - 1
    /\ buf \in [Cells -> 0 .. MaxBytes]
    /\ supplied \in 0 .. MaxBytes /\ expected \in 1 .. MaxBytes + 1
    /\ answer \in {"none", "right", "wrong"} /\ filled \in BOOLEAN
    /\ moved \in BOOLEAN /\ failed \in BOOLEAN

\* As long as the head was not moved and ReadData did not fail, the ring is a
\* FIFO of the device's stream: it holds what was supplied and not handed
\* out, and Peek shows it in order, also across the end of the buffer.  Not
\* so when the ring is full: tail meets head and Peek copies nothing.  What
\* Peek copies lies inside the buffer.
RingIsFifo ==
    ~moved /\ ~failed =>
        /\ size + expected = supplied + 1
        /\ tail = (head + size) % BufSize
        /\ size < BufSize =>
             Copied(Ring, size) = [i \in 1 .. size |-> expected + i - 1]
        /\ \A n \in Asked : CopiedEnd(Ring, n) <= BufSize

\* The bytes Read hands out are the next of the stream, unless one of four
\* things has happened: the ring was full, the device is sequential (then
\* Read copies nothing), the head was moved, or ReadData failed.
ReadDeliversNext ==
    answer = "wrong" => filled \/ sequential \/ moved \/ failed

===============================================================================
