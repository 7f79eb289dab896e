------------------------------- MODULE PartsProof -------------------------------
(***************************************************************************)
(* Theorems about the parts that stand by themselves: the creation of what *)
(* is global, File, LogFile and the ring of IODevice, each for all values  *)
(* of its constants, and about these parts side by side (MCParts).         *)
(***************************************************************************)
EXTENDS MCParts, DescriptorsProof

-------------------------------------------------------------------------------
(* GlobalInstance: however many threads call GetGlobalThreadPool or          *)
(* GetLogger, one object is built, and all of them get it.                   *)

Places == {"idle", "test", "lock", "retest", "build", "publish", "unlock", "using"}

\* The places between lock and unlock.
Inside == {"retest", "build", "publish", "unlock"}

GetTypeOK ==
    /\ instance \in {0, 1} /\ built \in {0, 1}
    /\ holder \in Callers \cup {Nobody}
    /\ getPc \in [Callers -> Places]
    /\ mine \in [Callers -> {0, 1}]

\* Who is inside holds the mutex, so one thread at most is.
HolderInside == \A t \in Callers : getPc[t] \in Inside <=> holder = t

\* What each place says about the pointer.
PlaceTells(t) ==
    /\ getPc[t] = "build" => built = 0
    /\ getPc[t] = "publish" => mine[t] = 1 /\ built = 1
    /\ getPc[t] \in {"unlock", "using"} => instance = 1

\* The object that is built is stored, unless a thread is about to.
StoredOrCarried ==
    \/ built = instance
    \/ built = 1 /\ \E t \in Callers : getPc[t] = "publish"

GetInv ==
    /\ GetTypeOK
    /\ HolderInside
    /\ \A t \in Callers : PlaceTells(t)
    /\ StoredOrCarried

LEMMA GetInvInit ==
    ASSUME GetInit
    PROVE  GetInv
BY GetAssumption DEF GetInit, GetInv, GetTypeOK, HolderInside, PlaceTells, StoredOrCarried,
       Places, Inside

LEMMA GetInvStep ==
    ASSUME GetInv, [GetNext]_getVars
    PROVE  GetInv'
<1> USE GetAssumption DEF GetInv, GetTypeOK, HolderInside, PlaceTells, StoredOrCarried,
            Places, Inside, Goto
<1>1. CASE UNCHANGED getVars
  BY <1>1 DEF getVars
<1>2. ASSUME NEW t \in Callers, Call(t)
      PROVE  GetInv'
  BY <1>2 DEF Call
<1>3. ASSUME NEW t \in Callers, Test(t)
      PROVE  GetInv'
  BY <1>3 DEF Test
<1>4. ASSUME NEW t \in Callers, Lock(t)
      PROVE  GetInv'
  BY <1>4 DEF Lock
<1>5. ASSUME NEW t \in Callers, Retest(t)
      PROVE  GetInv'
  BY <1>5 DEF Retest
<1>6. ASSUME NEW t \in Callers, Build(t)
      PROVE  GetInv'
  BY <1>6 DEF Build
<1>7. ASSUME NEW t \in Callers, Publish(t)
      PROVE  GetInv'
  BY <1>7 DEF Publish
<1>8. ASSUME NEW t \in Callers, Unlock(t)
      PROVE  GetInv'
  BY <1>8 DEF Unlock
<1> HIDE DEF GetInv
<1> QED
  BY <1>1, <1>2, <1>3, <1>4, <1>5, <1>6, <1>7, <1>8 DEF GetNext, GetStep

\* One object is built, and whoever has a reference has that one: the second
\* test of GetGlobalThreadPool (threadpool/ThreadPool.h:100) and of GetLogger
\* (logging/Logging.h:78), for any set of threads.
THEOREM OneInstanceOnly == GetSpec => []OneInstance
<1>1. GetInit => GetInv
  BY GetInvInit
<1>2. GetInv /\ [GetNext]_getVars => GetInv'
  BY GetInvStep
<1>3. GetInv => OneInstance
  BY DEF GetInv, GetTypeOK, PlaceTells, OneInstance
<1> QED
  BY <1>1, <1>2, <1>3, PTL DEF GetSpec

-------------------------------------------------------------------------------
(* File: a reader sleeps only behind a write that failed, and then for ever. *)

LEMMA FileTypeInit ==
    ASSUME FileInit
    PROVE  FileTypeOK
<1>1. fileSize \in 0 .. MaxSize /\ pos \in Nat /\ pos <= fileSize
  BY FileAssumption DEF FileInit
<1>2. want \in [Threads -> Offsets \X (0 .. MaxSize)]
  BY FileAssumption DEF FileInit, Offsets
<1> QED
  BY <1>1, <1>2 DEF FileInit, FileTypeOK, Modes

LEMMA FileTypeStep ==
    ASSUME FileTypeOK, [FileNext]_fileVars
    PROVE  FileTypeOK'
<1> USE FileAssumption DEF FileTypeOK, Offsets, Sizes
<1>1. CASE UNCHANGED fileVars
  BY <1>1 DEF fileVars, dataVars
<1>2. ASSUME NEW t \in Threads, NEW offset \in Offsets, NEW n \in Sizes,
             WriteDone(offset, n)
      PROVE  FileTypeOK'
  <2>1. From(offset) \in Nat
    BY DEF From
  <2> DEFINE end == From(offset) + n
  <2>2. fileSize' \in fileSize .. MaxSize /\ good' \in BOOLEAN
    <3>1. end \in 0 .. MaxSize /\ Flushed(end)
      BY <1>2, <2>1 DEF WriteDone
    <3> DEFINE longest == IF fileSize < end THEN end ELSE fileSize
    <3>2. longest \in fileSize .. MaxSize
      BY <3>1
    <3>3. good' \in BOOLEAN /\ (fileSize' = longest \/ fileSize' \in fileSize .. longest)
      BY <3>1 DEF Flushed
    <3> HIDE DEF longest, end
    <3> QED
      BY <3>2, <3>3
  <2>3. filePc' \in [Threads -> {"idle", "reading", "asleep"}]
    BY <1>2 DEF WriteDone, Notified
  <2>4. pos' \in Nat /\ pos' <= fileSize'
    BY <1>2, <2>2 DEF WriteDone
  <2>5. isOpen' = isOpen /\ writing' = FALSE /\ fileMode' = fileMode /\ want' = want
    BY <1>2 DEF WriteDone
  <2> HIDE DEF end
  <2>6. isOpen' \in BOOLEAN /\ writing' \in BOOLEAN
    BY <2>5, Zenon
  <2>7. fileSize' \in 0 .. MaxSize
    BY <2>2
  <2> QED
    BY <2>2, <2>3, <2>4, <2>5, <2>6, <2>7
<1>3. ASSUME NEW t \in Threads, NEW offset \in Offsets, NEW n \in Sizes,
             WriteFails(offset, n)
      PROVE  FileTypeOK'
  <2>1. fileSize' \in 0 .. MaxSize
    <3>1. CASE good /\ isOpen
      BY <1>3, <3>1 DEF WriteFails, AtMost
    <3>2. CASE ~(good /\ isOpen)
      BY <1>3, <3>2 DEF WriteFails
    <3> QED
      BY <3>1, <3>2
  <2> QED
    BY <1>3, <2>1 DEF WriteFails
<1>4. ASSUME NEW t \in Threads, NEW offset \in Offsets, NEW n \in Sizes,
             CallRead(t, offset, n)
      PROVE  FileTypeOK'
  <2>1. want' \in [Threads -> Offsets \X (0 .. MaxSize)]
    BY <1>4 DEF CallRead
  <2> QED
    BY <1>4, <2>1 DEF CallRead, dataVars
<1>5. ASSUME NEW t \in Threads, CallReadAll(t)
      PROVE  FileTypeOK'
  BY <1>5 DEF CallReadAll, CallRead, dataVars
<1>6. ASSUME NEW t \in Threads, ReadWaits(t)
      PROVE  FileTypeOK'
  BY <1>6 DEF ReadWaits, dataVars
<1>7. ASSUME NEW t \in Threads, FileRead(t)
      PROVE  FileTypeOK'
  <2>1. want[t] \in Offsets \X (0 .. MaxSize)
    OBVIOUS
  <2>2. From(want[t][1]) + AtMost(want[t][2], fileSize) \in Nat
    BY <2>1 DEF From, AtMost
  <2>3. good' \in BOOLEAN /\ pos' \in Nat /\ (good' /\ isOpen => pos' <= fileSize)
    BY <1>7, <2>2 DEF FileRead
  <2> QED
    BY <1>7, <2>3 DEF FileRead
<1>8. ASSUME NEW t \in Threads, Close(t)
      PROVE  FileTypeOK'
  BY <1>8 DEF Close
<1>9. ASSUME NEW t \in Threads, NEW m \in Modes, SetFileMode(t, m)
      PROVE  FileTypeOK'
  BY <1>9 DEF SetFileMode, dataVars
<1> HIDE DEF FileTypeOK, Offsets, Sizes
<1> QED
  BY <1>1, <1>2, <1>3, <1>4, <1>5, <1>6, <1>7, <1>8, <1>9 DEF FileNext, FileWrite

SleepInv == FileTypeOK /\ SleepsOnlyBehindFailure

\* A write succeeds only while nobody sleeps, and so wakes nobody.
LEMMA WriteFindsNobody ==
    ASSUME SleepsOnlyBehindFailure, NEW offset, NEW n, WriteDone(offset, n)
    PROVE  ~writing' /\ filePc' = filePc /\ \A t \in Threads : filePc[t] # "asleep"
BY DEF SleepsOnlyBehindFailure, WriteDone, Notified

LEMMA SleepStep ==
    ASSUME SleepInv, [FileNext]_fileVars
    PROVE  SleepsOnlyBehindFailure' /\
           \A t \in Threads : filePc[t] = "asleep" => filePc'[t] = "asleep"
<1> DEFINE Kept == \A t \in Threads : filePc[t] = "asleep" => filePc'[t] = "asleep"
<1> USE DEF SleepInv, FileTypeOK
<1>1. ASSUME UNCHANGED fileVars
      PROVE  SleepsOnlyBehindFailure' /\ Kept
  BY <1>1 DEF fileVars, dataVars, SleepsOnlyBehindFailure
<1>2. ASSUME NEW offset, NEW n, WriteDone(offset, n)
      PROVE  SleepsOnlyBehindFailure' /\ Kept
  BY <1>2, WriteFindsNobody DEF SleepsOnlyBehindFailure
<1>3. ASSUME NEW offset, NEW n, WriteFails(offset, n)
      PROVE  SleepsOnlyBehindFailure' /\ Kept
  BY <1>3 DEF WriteFails, SleepsOnlyBehindFailure
<1>4. ASSUME NEW t \in Threads, NEW offset, NEW n, CallRead(t, offset, n)
      PROVE  SleepsOnlyBehindFailure' /\ Kept
  BY <1>4 DEF CallRead, dataVars, SleepsOnlyBehindFailure
<1>5. ASSUME NEW t \in Threads, ReadWaits(t)
      PROVE  SleepsOnlyBehindFailure' /\ Kept
  BY <1>5 DEF ReadWaits, dataVars, SleepsOnlyBehindFailure
<1>6. ASSUME NEW t \in Threads, FileRead(t)
      PROVE  SleepsOnlyBehindFailure' /\ Kept
  <2>1. Kept
    BY <1>6 DEF FileRead
  <2>2. CASE Beyond(want[t][1])
    BY <1>6, <2>2 DEF FileRead, SleepsOnlyBehindFailure
  <2>3. CASE ~writing
    BY <1>6, <2>3 DEF FileRead, SleepsOnlyBehindFailure
  <2> QED
    BY <1>6, <2>1, <2>2, <2>3 DEF FileRead
<1>7. ASSUME NEW t \in Threads, Close(t)
      PROVE  SleepsOnlyBehindFailure' /\ Kept
  BY <1>7 DEF Close, SleepsOnlyBehindFailure
<1>8. ASSUME NEW t \in Threads, NEW m, SetFileMode(t, m)
      PROVE  SleepsOnlyBehindFailure' /\ Kept
  BY <1>8 DEF SetFileMode, dataVars, SleepsOnlyBehindFailure
<1> HIDE DEF SleepInv, FileTypeOK, Kept
<1>9. SleepsOnlyBehindFailure' /\ Kept
  BY <1>1, <1>2, <1>3, <1>4, <1>5, <1>6, <1>7, <1>8
  DEF FileNext, FileWrite, CallReadAll
<1> QED
  BY <1>9 DEF Kept

LEMMA SleepInvHolds == FileSpec => []SleepInv
<1>1. FileInit => SleepInv
  BY FileTypeInit DEF FileInit, SleepInv, SleepsOnlyBehindFailure
<1>2. SleepInv /\ [FileNext]_fileVars => SleepInv'
  BY FileTypeStep, SleepStep DEF SleepInv
<1> QED
  BY <1>1, <1>2, PTL DEF FileSpec

\* The position of a stream that is good lies in the file, whatever offsets
\* the callers of File::read and File::write (File.h:128, 156) pass.
THEOREM FileTypeCorrect == FileSpec => []FileTypeOK
BY SleepInvHolds, PTL DEF SleepInv

\* The wait in File::read (File.h:168) is for a write that failed, never for
\* one that is under way.
THEOREM ReadersSleepBehindFailure == FileSpec => []SleepsOnlyBehindFailure
BY SleepInvHolds, PTL DEF SleepInv

\* And nobody ends it: the notification of File::write (File.h:149) comes only
\* from a write that succeeds, and none does any more.
THEOREM ReadersSleepForEver == FileSpec => SleepIsForEver
<1>1. SleepInv /\ [FileNext]_fileVars =>
        [\A t \in Threads : filePc[t] = "asleep" => filePc'[t] = "asleep"]_fileVars
  BY SleepStep
<1> QED
  BY <1>1, SleepInvHolds, PTL DEF FileSpec, SleepIsForEver

-------------------------------------------------------------------------------
(* SumFunction, the total of the values of a function.  It is defined by a   *)
(* recursion over sets; induction over sets is by a smallest counterexample. *)

LEMMA SmallestSet ==
    ASSUME NEW S, IsFiniteSet(S), NEW T \in SUBSET SUBSET S, T # {}
    PROVE  \E s \in T : \A u \in T : u \subseteq s => u = s
<1>1. T \subseteq FiniteSubsetsOf(S)
  BY FS_FiniteSubsetsOfFinite
<1>2. PICK s \in T : \A u \in T : <<u, s>> \notin StrictSubsetOrdering(S)
  BY <1>1, FS_StrictSubsetOrderingWellFounded, WFMin
<1>3. ASSUME NEW u \in T, u \subseteq s PROVE u = s
  BY <1>2, <1>3 DEF StrictSubsetOrdering
<1> QED
  BY <1>3

Any(s) == CHOOSE x \in s : TRUE

\* What g says of a set: the total over it, one element after the other.
Follow(f, g, s) == IF s = {} THEN 0 ELSE f[Any(s)] + g[s \ {Any(s)}]

Sums(f, g, S) == \A s \in SUBSET S : g[s] = Follow(f, g, s)

LEMMA AnyIsIn == ASSUME NEW s, s # {} PROVE Any(s) \in s
BY DEF Any

LEMMA SumsAgree ==
    ASSUME NEW f, NEW S, IsFiniteSet(S), NEW t \in SUBSET S, NEW u \in SUBSET S,
           NEW g, Sums(f, g, t), NEW h, Sums(f, h, u)
    PROVE  \A s \in SUBSET (t \cap u) : g[s] = h[s]
<1> SUFFICES ASSUME NEW v \in SUBSET (t \cap u), g[v] # h[v] PROVE FALSE
  OBVIOUS
<1> DEFINE T == {s \in SUBSET (t \cap u) : g[s] # h[s]}
<1>1. T \in SUBSET SUBSET S /\ T # {}
  OBVIOUS
<1> HIDE DEF T
<1>2. PICK s \in T : \A r \in T : r \subseteq s => r = s
  BY <1>1, SmallestSet
<1>3. s \in SUBSET t /\ s \in SUBSET u /\ g[s] # h[s]
  BY DEF T
<1>4. g[s] = Follow(f, g, s) /\ h[s] = Follow(f, h, s)
  BY <1>3 DEF Sums
<1>5. CASE s = {}
  BY <1>3, <1>4, <1>5 DEF Follow
<1>6. CASE s # {}
  <2> DEFINE r == s \ {Any(s)}
  <2>1. r \subseteq s /\ r # s /\ r \in SUBSET (t \cap u)
    BY <1>3, <1>6, AnyIsIn
  <2>2. g[r] = h[r]
    BY <1>2, <2>1 DEF T
  <2> QED
    BY <1>3, <1>4, <2>2 DEF Follow
<1> QED
  BY <1>5, <1>6

LEMMA SumsExist ==
    ASSUME NEW S, IsFiniteSet(S), NEW f \in [S -> Nat]
    PROVE  \E g \in [SUBSET S -> Nat] : Sums(f, g, S)
<1> DEFINE Has(t) == \E g \in [SUBSET t -> Nat] : Sums(f, g, t)
           T == {t \in SUBSET S : ~Has(t)}
<1> SUFFICES ASSUME ~Has(S) PROVE FALSE
  OBVIOUS
<1>1. T \in SUBSET SUBSET S /\ T # {}
  OBVIOUS
<1> HIDE DEF T
<1>2. PICK t \in T : \A u \in T : u \subseteq t => u = t
  BY <1>1, SmallestSet
<1> DEFINE H(u) == CHOOSE g \in [SUBSET u -> Nat] : Sums(f, g, u)
           V == [u \in SUBSET t |-> H(u)[u]]
           g == [u \in SUBSET t |-> IF u # t THEN V[u] ELSE Follow(f, V, t)]
<1>3. ASSUME NEW u \in SUBSET t, u # t
      PROVE  H(u) \in [SUBSET u -> Nat] /\ Sums(f, H(u), u)
  <2>1. Has(u)
    BY <1>2, <1>3 DEF T
  <2> QED
    BY <2>1
<1> HIDE DEF Has, H
<1>4. ASSUME NEW u \in SUBSET t, u # t PROVE V[u] \in Nat /\ V[u] = Follow(f, V, u)
  <2>1. V[u] = H(u)[u] /\ V[u] \in Nat
    BY <1>3, <1>4
  <2>2. H(u)[u] = Follow(f, H(u), u)
    BY <1>3, <1>4 DEF Sums
  <2>3. CASE u = {}
    BY <2>1, <2>2, <2>3 DEF Follow
  <2>4. CASE u # {}
    <3> DEFINE r == u \ {Any(u)}
    <3>1. r \in SUBSET u /\ r \in SUBSET t /\ r # t /\ t \in SUBSET S
      BY <1>2, <2>4, AnyIsIn DEF T
    <3>2. Sums(f, H(r), r) /\ Sums(f, H(u), u)
      BY <1>3, <1>4, <3>1
    <3>3. H(r)[r] = H(u)[r]
      <4> DEFINE h == H(r)  k == H(u)
      <4>1. r \in SUBSET (r \cap u) /\ r \in SUBSET S /\ u \in SUBSET S
        BY <3>1
      <4>2. Sums(f, h, r) /\ Sums(f, k, u)
        BY <3>2
      <4> HIDE DEF r, h, k
      <4>3. h[r] = k[r]
        BY <4>1, <4>2, SumsAgree
      <4> QED
        BY <4>3 DEF h, k
    <3>4. V[r] = H(r)[r]
      BY <3>1
    <3> QED
      BY <2>1, <2>2, <2>4, <3>3, <3>4 DEF Follow
  <2> QED
    BY <2>3, <2>4
<1> HIDE DEF V
<1>5. ASSUME NEW u \in SUBSET t PROVE Follow(f, V, u) \in Nat /\ Follow(f, g, u) = Follow(f, V, u)
  <2>1. CASE u = {}
    BY <2>1 DEF Follow
  <2>2. CASE u # {}
    <3> DEFINE r == u \ {Any(u)}
    <3>1. Any(u) \in S /\ r \in SUBSET t /\ r # t
      BY <1>2, <2>2, AnyIsIn DEF T
    <3>2. V[r] \in Nat /\ g[r] = V[r] /\ f[Any(u)] \in Nat
      BY <1>4, <3>1
    <3> QED
      BY <2>2, <3>2 DEF Follow
  <2> QED
    BY <2>1, <2>2
<1>6. g \in [SUBSET t -> Nat]
  BY <1>4, <1>5
<1>7. Sums(f, g, t)
  <2> SUFFICES ASSUME NEW u \in SUBSET t PROVE g[u] = Follow(f, g, u)
    BY DEF Sums
  <2> QED
    BY <1>4, <1>5
<1> HIDE DEF g
<1>8. Has(t)
  BY <1>6, <1>7 DEF Has
<1> QED
  BY <1>8 DEF T

LEMMA SumIs ==
    ASSUME NEW S, IsFiniteSet(S), NEW f \in [S -> Nat], NEW g, Sums(f, g, S)
    PROVE  SumFunction(f) = g[S]
<1> DEFINE R(h) == h = [s \in SUBSET S |-> Follow(f, h, s)]
<1>1. SumFunction(f) = (CHOOSE h : R(h))[S]
  <2>1. DOMAIN f = S
    OBVIOUS
  <2>2. SumFunction(f) = (CHOOSE h : h = [s \in SUBSET DOMAIN f |-> Follow(f, h, s)])[DOMAIN f]
    BY DEF SumFunction, SumFunctionOnSet, FoldFunctionOnSet, MapThenFoldSet, Follow, Any
  <2> QED
    BY <2>1, <2>2
<1>2. \E h : R(h)
  <2>1. PICK h \in [SUBSET S -> Nat] : Sums(f, h, S)
    BY SumsExist
  <2>2. h = [s \in SUBSET S |-> Follow(f, h, s)]
    BY <2>1 DEF Sums
  <2> QED
    BY <2>2
<1>3. PICK h : R(h) /\ SumFunction(f) = h[S]
  BY <1>1, <1>2
<1>4. Sums(f, h, S)
  BY <1>3 DEF Sums
<1>5. S \in SUBSET S /\ S \in SUBSET (S \cap S)
  OBVIOUS
<1>6. h[S] = g[S]
  BY <1>4, <1>5, SumsAgree
<1> QED
  BY <1>3, <1>6

\* The order does not matter: any element can be the first.
LEMMA AnyOrder ==
    ASSUME NEW S, IsFiniteSet(S), NEW f \in [S -> Nat],
           NEW g \in [SUBSET S -> Nat], Sums(f, g, S), NEW z \in S
    PROVE  g[S] = f[z] + g[S \ {z}]
<1> DEFINE T == {s \in SUBSET S : \E x \in s : g[s] # f[x] + g[s \ {x}]}
<1> SUFFICES ASSUME T # {} PROVE FALSE
  OBVIOUS
<1>1. T \in SUBSET SUBSET S
  OBVIOUS
<1> HIDE DEF T
<1>2. PICK s \in T : \A r \in T : r \subseteq s => r = s
  BY <1>1, SmallestSet
<1>3. s \in SUBSET S
  BY <1>1
<1>4. PICK x \in s : g[s] # f[x] + g[s \ {x}]
  BY DEF T
<1> DEFINE y == Any(s)  r == s \ {x}  q == s \ {y}  p == s \ {x, y}
<1>5. y \in s
  BY <1>4, AnyIsIn
<1>6. g[s] = f[y] + g[q]
  BY <1>3, <1>4 DEF Sums, Follow
<1>7. x # y
  BY <1>4, <1>6
<1>8. r \in SUBSET S /\ q \in SUBSET S /\ y \in r /\ x \in q
      /\ r \ {y} = p /\ q \ {x} = p /\ p \in SUBSET S /\ r \notin T /\ q \notin T
  BY <1>2, <1>3, <1>5, <1>7
<1>9. g[r] = f[y] + g[p] /\ g[q] = f[x] + g[p]
  BY <1>8 DEF T
<1>10. f[x] \in Nat /\ f[y] \in Nat /\ g[p] \in Nat
  BY <1>3, <1>5, <1>8
<1> HIDE DEF y, p, q
<1> QED
  BY <1>4, <1>6, <1>9, <1>10

\* One value changes.
LEMMA SumChanges ==
    ASSUME NEW S, IsFiniteSet(S), NEW f \in [S -> Nat], NEW h \in [S -> Nat],
           NEW x \in S, \A y \in S \ {x} : f[y] = h[y]
    PROVE  /\ SumFunction(f) \in Nat /\ SumFunction(h) \in Nat
           /\ SumFunction(f) + h[x] = SumFunction(h) + f[x]
<1>1. PICK g \in [SUBSET S -> Nat] : Sums(f, g, S)
  BY SumsExist
<1>2. PICK k \in [SUBSET S -> Nat] : Sums(h, k, S)
  BY SumsExist
<1> DEFINE R == S \ {x}
<1>3. Sums(f, g, R)
  BY <1>1 DEF Sums
<1>4. Sums(f, k, R)
  <2> SUFFICES ASSUME NEW s \in SUBSET R PROVE k[s] = Follow(f, k, s)
    BY DEF Sums
  <2>1. k[s] = Follow(h, k, s)
    BY <1>2 DEF Sums
  <2>2. s # {} => Any(s) \in R
    BY AnyIsIn
  <2> QED
    BY <2>1, <2>2 DEF Follow
<1>5. R \in SUBSET S /\ R \in SUBSET (R \cap R) /\ S \in SUBSET S
  OBVIOUS
<1>6. g[R] = k[R]
  <2> HIDE DEF R
  <2> QED
    BY <1>3, <1>4, <1>5, SumsAgree
<1>7. g[S] = f[x] + g[R] /\ k[S] = h[x] + k[R]
  BY <1>1, <1>2, AnyOrder
<1>8. SumFunction(f) = g[S] /\ SumFunction(h) = k[S]
  BY <1>1, <1>2, SumIs
<1>9. g[R] \in Nat /\ f[x] \in Nat /\ h[x] \in Nat
  BY <1>5
<1> HIDE DEF R
<1> QED
  BY <1>6, <1>7, <1>8, <1>9

LEMMA SumOfZeros ==
    ASSUME NEW S, IsFiniteSet(S), NEW f \in [S -> Nat], \A x \in S : f[x] = 0
    PROVE  SumFunction(f) = 0
<1> DEFINE g == [s \in SUBSET S |-> 0]
<1>1. Sums(f, g, S)
  <2> SUFFICES ASSUME NEW s \in SUBSET S PROVE 0 = Follow(f, g, s)
    BY DEF Sums
  <2>1. s # {} => Any(s) \in S /\ s \ {Any(s)} \in SUBSET S
    BY AnyIsIn
  <2> QED
    BY <2>1 DEF Follow
<1>2. g[S] = 0
  OBVIOUS
<1> HIDE DEF g
<1> QED
  BY <1>1, <1>2, SumIs

-------------------------------------------------------------------------------
(* LogFile: how long files are, for any limit and any messages.              *)

Records == [name : Seconds, total : Nat, buffered : 0 .. FileBuf - 1,
            disk : [Seconds -> Nat], opened : [Seconds -> Nat], hushed : Nat]

\* The record of the sink, field by field, and what LogFile's functions make
\* of it.
Record(nm, t, b, d, o, h) ==
    [name |-> nm, total |-> t, buffered |-> b, disk |-> d, opened |-> o, hushed |-> h]

LEMMA Fields ==
    ASSUME NEW nm, NEW t, NEW b, NEW d, NEW o, NEW h
    PROVE  LET r == Record(nm, t, b, d, o, h) IN
             /\ r.name = nm /\ r.total = t /\ r.buffered = b
             /\ r.disk = d /\ r.opened = o /\ r.hushed = h
BY DEF Record

LEMMA RecordTyped ==
    ASSUME NEW nm \in Seconds, NEW t \in Nat, NEW b \in 0 .. FileBuf - 1,
           NEW d \in [Seconds -> Nat], NEW o \in [Seconds -> Nat], NEW h \in Nat
    PROVE  Record(nm, t, b, d, o, h) \in Records
BY DEF Record, Records

LEMMA FieldTypes ==
    ASSUME NEW r \in Records
    PROVE  /\ r.name \in Seconds /\ r.total \in Nat /\ r.buffered \in 0 .. FileBuf - 1
           /\ r.disk \in [Seconds -> Nat] /\ r.opened \in [Seconds -> Nat]
           /\ r.hushed \in Nat
BY DEF Records

LEMMA EmptiedIs ==
    ASSUME NEW r \in Records
    PROVE  Emptied(r) = Record(r.name, r.total, 0,
                               [r.disk EXCEPT ![r.name] = r.disk[r.name] + r.buffered],
                               r.opened, r.hushed)
<1> DEFINE d == [r.disk EXCEPT ![r.name] = r.disk[r.name] + r.buffered]
           m == [r EXCEPT !.disk = d]
<1>1. m = Record(r.name, r.total, r.buffered, d, r.opened, r.hushed)
  <2> HIDE DEF d
  <2> QED
    BY DEF Records, Record
<1>2. Emptied(r) = [m EXCEPT !.buffered = 0]
  BY DEF Emptied
<1> HIDE DEF m, d
<1>3. [m EXCEPT !.buffered = 0] = Record(r.name, r.total, 0, d, r.opened, r.hushed)
  BY <1>1 DEF Record
<1> QED
  BY <1>2, <1>3 DEF d

LEMMA ForgoneIs ==
    ASSUME NEW r \in Records
    PROVE  Forgone(r) = Record(r.name, r.total, 0, r.disk, r.opened, r.hushed + 1)
<1> DEFINE m == [r EXCEPT !.hushed = r.hushed + 1]
<1>1. m = Record(r.name, r.total, r.buffered, r.disk, r.opened, r.hushed + 1)
  BY DEF Records, Record
<1>2. Forgone(r) = [m EXCEPT !.buffered = 0]
  BY DEF Forgone
<1> HIDE DEF m
<1>3. [m EXCEPT !.buffered = 0]
        = Record(r.name, r.total, 0, r.disk, r.opened, r.hushed + 1)
  BY <1>1 DEF Record
<1> QED
  BY <1>2, <1>3

LEMMA CountedIs ==
    ASSUME NEW r \in Records, NEW n \in Nat
    PROVE  [r EXCEPT !.total = @ + n, !.buffered = @ + n]
             = Record(r.name, r.total + n, r.buffered + n, r.disk, r.opened, r.hushed)
<1> DEFINE m == [r EXCEPT !.total = @ + n]
<1>1. m = Record(r.name, r.total + n, r.buffered, r.disk, r.opened, r.hushed)
  BY DEF Records, Record
<1>2. [r EXCEPT !.total = @ + n, !.buffered = @ + n] = [m EXCEPT !.buffered = r.buffered + n]
  OBVIOUS
<1> HIDE DEF m
<1>3. [m EXCEPT !.buffered = r.buffered + n]
        = Record(r.name, r.total + n, r.buffered + n, r.disk, r.opened, r.hushed)
  BY <1>1 DEF Record
<1> QED
  BY <1>2, <1>3

LEMMA TurnedIs ==
    ASSUME NEW r \in Records
    PROVE  [[r EXCEPT !.name = Name, !.opened[Name] = @ + 1] EXCEPT !.total = 0]
             = Record(Name, 0, r.buffered, r.disk,
                      [r.opened EXCEPT ![Name] = r.opened[Name] + 1], r.hushed)
<1> DEFINE o == [r.opened EXCEPT ![Name] = r.opened[Name] + 1]
           m == [r EXCEPT !.name = Name]  k == [m EXCEPT !.opened = o]
<1>1. m = Record(Name, r.total, r.buffered, r.disk, r.opened, r.hushed)
  BY DEF Records, Record
<1>2. [r EXCEPT !.name = Name, !.opened[Name] = @ + 1] = k
  BY DEF Records
<1> HIDE DEF m, o
<1>3. k = Record(Name, r.total, r.buffered, r.disk, o, r.hushed)
  BY <1>1 DEF Record
<1> HIDE DEF k
<1>4. [k EXCEPT !.total = 0] = Record(Name, 0, r.buffered, r.disk, o, r.hushed)
  BY <1>3 DEF Record
<1> QED
  BY <1>2, <1>4 DEF o

\* What one opening of a file can add to it.
Portion == Limit + TextRoom

\* The length of file f, with what is still in the buffer.
LengthOf(r, f) == r.disk[f] + (IF f = r.name THEN r.buffered ELSE 0)

\* _total_size is what was written since the file was opened last; all the
\* earlier openings of it have left a portion each, at most.
CounterFollows(r) ==
    /\ r.total <= Portion /\ r.opened[r.name] >= 1
    /\ LengthOf(r, r.name) <= (r.opened[r.name] - 1) * Portion + r.total
    /\ \A f \in Seconds \ {r.name} : r.disk[f] <= r.opened[f] * Portion

\* A file that was opened once has all that was counted, and one that was
\* left is too long.
LeftWhenLong(r) ==
    \A f \in Seconds :
      r.opened[f] = 1 /\ r.hushed = 0 =>
        IF f = r.name THEN LengthOf(r, f) >= r.total ELSE r.disk[f] > Limit

Follows(r) == r \in Records /\ CounterFollows(r) /\ LeftWhenLong(r)

LogInv == LogTypeOK /\ Follows(out)

LEMMA Portions ==
    /\ Portion \in Nat
    /\ \A k \in Nat : k * Portion \in Nat /\ (k + 1) * Portion = k * Portion + Portion
    /\ \A k \in Nat \ {0} : (k - 1) * Portion + Portion = k * Portion
BY LogAssumption DEF Portion

LEMMA EmptiedFields ==
    ASSUME NEW r \in Records
    PROVE  LET e == Emptied(r) IN
             /\ e \in Records /\ e.name = r.name /\ e.total = r.total /\ e.buffered = 0
             /\ e.disk = [r.disk EXCEPT ![r.name] = r.disk[r.name] + r.buffered]
             /\ e.opened = r.opened /\ e.hushed = r.hushed
<1> DEFINE e == Emptied(r)
           d == [r.disk EXCEPT ![r.name] = r.disk[r.name] + r.buffered]
<1>1. d \in [Seconds -> Nat] /\ 0 \in 0 .. FileBuf - 1
  BY LogAssumption DEF Records
<1>2. e = Record(r.name, r.total, 0, d, r.opened, r.hushed)
  BY EmptiedIs
<1> HIDE DEF d, e
<1>3. e \in Records
  BY <1>1, <1>2, FieldTypes, RecordTyped
<1> QED
  BY <1>2, <1>3, Fields DEF d, e

LEMMA WriteFields ==
    ASSUME NEW r \in Records, NEW n \in Nat
    PROVE  LET w == LogWrite(r, n) IN
             /\ w \in Records /\ w.name = r.name /\ w.total = r.total + n
             /\ w.opened = r.opened /\ w.hushed = r.hushed
             /\ \A f \in Seconds :
                  /\ LengthOf(w, f) = LengthOf(r, f) + (IF f = r.name THEN n ELSE 0)
                  /\ f # r.name => w.disk[f] = r.disk[f]
<1> DEFINE c == [r EXCEPT !.total = @ + n, !.buffered = @ + n]
           e == Emptied(c)
<1>1. r.name \in Seconds /\ r.total \in Nat
  BY DEF Records
<1>2. /\ c.name = r.name /\ c.total = r.total + n /\ c.buffered = r.buffered + n
      /\ c.disk = r.disk /\ c.opened = r.opened /\ c.hushed = r.hushed
      /\ c = Record(r.name, r.total + n, r.buffered + n, r.disk, r.opened, r.hushed)
  <2>1. c = Record(r.name, r.total + n, r.buffered + n, r.disk, r.opened, r.hushed)
    BY <1>1, CountedIs
  <2> HIDE DEF c
  <2> QED
    BY <2>1, Fields
<1>3. c.buffered < FileBuf => c \in Records
  <2> HIDE DEF c
  <2>1. c.buffered < FileBuf => r.buffered + n \in 0 .. FileBuf - 1
    BY <1>1, <1>2, LogAssumption DEF Records
  <2> QED
    <3>1. r.total + n \in Nat
      BY <1>1
    <3>2. /\ r.name \in Seconds /\ r.hushed \in Nat
          /\ r.disk \in [Seconds -> Nat] /\ r.opened \in [Seconds -> Nat]
      BY <1>1, FieldTypes, Zenon
    <3> QED
      BY <1>2, <2>1, <3>1, <3>2, RecordTyped
<1>4. /\ e.name = r.name /\ e.total = r.total + n /\ e.buffered = 0
      /\ e.disk = [r.disk EXCEPT ![r.name] = r.disk[r.name] + (r.buffered + n)]
      /\ e.opened = r.opened /\ e.hushed = r.hushed
      /\ e \in Records
  <2> DEFINE d == [r.disk EXCEPT ![r.name] = r.disk[r.name] + (r.buffered + n)]
             m == [c EXCEPT !.disk = d]
  <2>1. d \in [Seconds -> Nat] /\ 0 \in 0 .. FileBuf - 1
    BY <1>1, LogAssumption DEF Records
  <2>2. e = [m EXCEPT !.buffered = 0]
    BY <1>2 DEF Emptied
  <2> HIDE DEF c, d, e, m
  <2>3. m = Record(r.name, r.total + n, r.buffered + n, d, r.opened, r.hushed)
    BY <1>2 DEF m, Record
  <2>4. e = Record(r.name, r.total + n, 0, d, r.opened, r.hushed)
    BY <2>2, <2>3 DEF Record
  <2>5. e \in Records
    <3>1. r.total + n \in Nat
      BY <1>1
    <3>2. /\ r.name \in Seconds /\ r.hushed \in Nat /\ r.opened \in [Seconds -> Nat]
      BY <1>1, FieldTypes, Zenon
    <3> QED
      BY <2>1, <2>4, <3>1, <3>2, RecordTyped, Zenon
  <2> QED
    BY <2>4, <2>5, Fields DEF d
<1>5. LogWrite(r, n) = IF c.buffered < FileBuf THEN c ELSE e
  BY DEF LogWrite
<1> HIDE DEF c, e
<1> DEFINE w == LogWrite(r, n)
<1>6. /\ w \in Records /\ w.name = r.name /\ w.total = r.total + n
      /\ w.opened = r.opened /\ w.hushed = r.hushed
      /\ \A f \in Seconds :
           /\ LengthOf(w, f) = LengthOf(r, f) + (IF f = r.name THEN n ELSE 0)
           /\ f # r.name => w.disk[f] = r.disk[f]
  <2>1. CASE c.buffered < FileBuf
    BY <1>1, <1>2, <1>3, <1>5, <2>1 DEF LengthOf, Records
  <2>2. CASE ~(c.buffered < FileBuf)
    BY <1>1, <1>4, <1>5, <2>2 DEF LengthOf, Records
  <2> QED
    BY <2>1, <2>2
<1> QED
  BY <1>6

LEMMA WriteFollows ==
    ASSUME NEW r, Follows(r), r.total <= Limit, NEW n \in 0 .. TextRoom
    PROVE  Follows(LogWrite(r, n))
<1>1. n \in Nat
  BY LogAssumption
<1> DEFINE w == LogWrite(r, n)
<1>2. /\ r \in Records /\ CounterFollows(r) /\ LeftWhenLong(r)
      /\ r.name \in Seconds /\ r.total \in Nat
  BY DEF Follows, Records
<1>3. /\ w \in Records /\ w.name = r.name /\ w.total = r.total + n
      /\ w.opened = r.opened /\ w.hushed = r.hushed
      /\ \A f \in Seconds :
           /\ LengthOf(w, f) = LengthOf(r, f) + (IF f = r.name THEN n ELSE 0)
           /\ f # r.name => w.disk[f] = r.disk[f]
  BY <1>1, <1>2, WriteFields
<1> HIDE DEF w
<1>4. LengthOf(r, r.name) \in Nat /\ r.opened[r.name] \in Nat
  BY <1>2 DEF Records, LengthOf
<1>5. CounterFollows(w)
  <2>1. w.total <= Portion
    BY <1>2, <1>3, LogAssumption DEF Portion
  <2> DEFINE k == (r.opened[r.name] - 1) * Portion
  <2>2. k \in Nat /\ LengthOf(r, r.name) <= k + r.total
    BY <1>2, <1>4, Portions DEF CounterFollows
  <2> HIDE DEF k
  <2>3. LengthOf(w, w.name) <= k + w.total
    BY <1>2, <1>3, <1>4, <2>2
  <2> QED
    BY <1>2, <1>3, <2>1, <2>3 DEF k, CounterFollows
<1>6. LeftWhenLong(w)
  <2>1. ASSUME NEW f \in Seconds, w.opened[f] = 1, w.hushed = 0
        PROVE  IF f = w.name THEN LengthOf(w, f) >= w.total ELSE w.disk[f] > Limit
    <3>1. IF f = r.name THEN LengthOf(r, f) >= r.total ELSE r.disk[f] > Limit
      BY <1>2, <1>3, <2>1 DEF LeftWhenLong
    <3> QED
      BY <1>2, <1>3, <1>4, <3>1
  <2> QED
    BY <2>1 DEF LeftWhenLong
<1> QED
  BY <1>3, <1>5, <1>6 DEF Follows, w

\* A flush and close that went well or was lost.
LEMMA ClosedFields ==
    ASSUME NEW r \in Records, NEW lost \in BOOLEAN
    PROVE  LET c == Closed(r, lost) IN
             /\ c \in Records /\ c.name = r.name /\ c.total = r.total /\ c.buffered = 0
             /\ c.disk = IF lost THEN r.disk
                         ELSE [r.disk EXCEPT ![r.name] = r.disk[r.name] + r.buffered]
             /\ c.opened = r.opened
             /\ c.hushed = IF lost THEN r.hushed + 1 ELSE r.hushed
<1> DEFINE c == Closed(r, lost)
<1>1. CASE lost
  <2>1. c = Record(r.name, r.total, 0, r.disk, r.opened, r.hushed + 1)
    BY <1>1, ForgoneIs DEF Closed
  <2>2. 0 \in 0 .. FileBuf - 1 /\ r.hushed + 1 \in Nat
    BY LogAssumption, FieldTypes
  <2> HIDE DEF c
  <2>3. c \in Records
    BY <2>1, <2>2, FieldTypes, RecordTyped, Zenon
  <2>4. /\ c.name = r.name /\ c.total = r.total /\ c.buffered = 0
        /\ c.disk = r.disk /\ c.opened = r.opened /\ c.hushed = r.hushed + 1
    BY <2>1, Fields
  <2> QED
    BY <1>1, <2>3, <2>4, Zenon DEF c
<1>2. CASE ~lost
  <2>1. c = Emptied(r)
    BY <1>2 DEF Closed
  <2> HIDE DEF c
  <2>2. /\ c \in Records /\ c.name = r.name /\ c.total = r.total /\ c.buffered = 0
        /\ c.disk = [r.disk EXCEPT ![r.name] = r.disk[r.name] + r.buffered]
        /\ c.opened = r.opened /\ c.hushed = r.hushed
    BY <2>1, EmptiedFields, Zenon
  <2> QED
    BY <1>2, <2>2, Zenon DEF c
<1> QED
  BY <1>1, <1>2

\* A sink that is let go keeps to its files: what is lost makes them shorter.
LEMMA ClosedFollows ==
    ASSUME NEW r, Follows(r), NEW lost \in BOOLEAN
    PROVE  Follows(Closed(r, lost))
<1> DEFINE e == Closed(r, lost)
<1>1. /\ r \in Records /\ CounterFollows(r) /\ LeftWhenLong(r)
      /\ r.name \in Seconds /\ r.buffered \in Nat /\ r.hushed \in Nat
      /\ r.disk \in [Seconds -> Nat]
  BY DEF Follows, Records
<1>2. /\ e.name = r.name /\ e.total = r.total /\ e.buffered = 0
      /\ e.disk = IF lost THEN r.disk
                  ELSE [r.disk EXCEPT ![r.name] = r.disk[r.name] + r.buffered]
      /\ e.opened = r.opened /\ e.hushed = IF lost THEN r.hushed + 1 ELSE r.hushed
      /\ e \in Records
  BY <1>1, ClosedFields
<1> HIDE DEF e
<1>3. ASSUME NEW f \in Seconds
      PROVE  /\ LengthOf(e, f) <= LengthOf(r, f)
             /\ ~lost => LengthOf(e, f) = LengthOf(r, f)
             /\ f # r.name => e.disk[f] = r.disk[f]
             /\ LengthOf(e, f) \in Nat /\ LengthOf(r, f) \in Nat
  BY <1>1, <1>2 DEF LengthOf
<1>4. CounterFollows(e)
  <2> DEFINE k == (r.opened[r.name] - 1) * Portion
  <2>1. LengthOf(e, r.name) <= k + r.total
    <3>1. LengthOf(r, r.name) <= k + r.total /\ r.opened[r.name] \in Nat \ {0}
      BY <1>1 DEF CounterFollows, Records
    <3>2. k \in Nat /\ r.total \in Nat
      <4>1. r.opened[r.name] - 1 \in Nat
        BY <3>1
      <4> QED
        BY <1>1, <4>1, Portions DEF Records
    <3> HIDE DEF k
    <3> QED
      BY <1>1, <1>3, <3>1, <3>2
  <2> QED
    BY <1>1, <1>2, <1>3, <2>1 DEF CounterFollows
<1>5. LeftWhenLong(e)
  <2>1. e.hushed = 0 => ~lost /\ r.hushed = 0
    BY <1>1, <1>2
  <2> QED
    BY <1>1, <1>2, <1>3, <2>1 DEF LeftWhenLong
<1> QED
  BY <1>2, <1>4, <1>5 DEF Follows, e

LEMMA RotateFields ==
    ASSUME NEW r \in Records, NEW lost \in BOOLEAN, Name \in Seconds
    PROVE  LET q == Rotate(r, lost) IN
             /\ q \in Records /\ q.name = Name /\ q.total = 0 /\ q.buffered = 0
             /\ q.opened = [r.opened EXCEPT ![Name] = r.opened[Name] + 1]
             /\ q.disk = Closed(r, lost).disk /\ q.hushed = Closed(r, lost).hushed
<1> DEFINE left == Closed(r, lost)
           q == Rotate(r, lost)
<1>1. r.opened \in [Seconds -> Nat]
  BY DEF Records
<1>2. left \in Records /\ left.buffered = 0 /\ left.opened = r.opened
  BY ClosedFields
<1>3. q = [[left EXCEPT !.name = Name, !.opened[Name] = @ + 1] EXCEPT !.total = 0]
  BY DEF Rotate, InitFileName
<1> HIDE DEF left, q
<1>4. /\ q \in Records /\ q.name = Name /\ q.total = 0 /\ q.buffered = 0
      /\ q.disk = left.disk /\ q.hushed = left.hushed
      /\ q.opened = [r.opened EXCEPT ![Name] = r.opened[Name] + 1]
  <2> DEFINE o == [r.opened EXCEPT ![Name] = r.opened[Name] + 1]
  <2>1. q = Record(Name, 0, left.buffered, left.disk, o, left.hushed)
    BY <1>2, <1>3, TurnedIs
  <2>2. o \in [Seconds -> Nat]
    BY <1>1
  <2> HIDE DEF o
  <2>3. q \in Records
    <3>1. 0 \in Nat
      OBVIOUS
    <3> QED
      BY <1>2, <2>1, <2>2, <3>1, FieldTypes, RecordTyped, Zenon
  <2>4. /\ q.name = Name /\ q.total = 0 /\ q.buffered = left.buffered
        /\ q.disk = left.disk /\ q.opened = o /\ q.hushed = left.hushed
    BY <2>1, Fields
  <2> QED
    BY <1>2, <2>3, <2>4 DEF o
<1> QED
  BY <1>2, <1>4 DEF q, left

LEMMA RotateFollows ==
    ASSUME NEW r, Follows(r), r.total > Limit, NEW lost \in BOOLEAN,
           Name \in Seconds
    PROVE  Follows(Rotate(r, lost)) /\ Rotate(r, lost).total = 0
<1> DEFINE left == IF lost THEN r.disk
                   ELSE [r.disk EXCEPT ![r.name] = r.disk[r.name] + r.buffered]
           q == Rotate(r, lost)
<1>1. /\ r \in Records /\ CounterFollows(r) /\ LeftWhenLong(r)
      /\ r.name \in Seconds /\ r.total \in Nat
      /\ r.disk \in [Seconds -> Nat] /\ r.disk[r.name] \in Nat /\ r.buffered \in Nat
      /\ r.opened \in [Seconds -> Nat]
  BY DEF Follows, Records
<1>2. /\ left \in [Seconds -> Nat]
      /\ \A f \in Seconds : f # r.name => left[f] = r.disk[f]
      /\ left[r.name] = IF lost THEN r.disk[r.name] ELSE LengthOf(r, r.name)
  BY <1>1 DEF LengthOf
<1>3. /\ q \in Records /\ q.name = Name /\ q.total = 0 /\ q.buffered = 0
      /\ q.disk = left /\ q.hushed = IF lost THEN r.hushed + 1 ELSE r.hushed
      /\ q.opened = [r.opened EXCEPT ![Name] = r.opened[Name] + 1]
      /\ r.hushed \in Nat
  <2>1. /\ q \in Records /\ q.name = Name /\ q.total = 0 /\ q.buffered = 0
        /\ q.disk = Closed(r, lost).disk /\ q.hushed = Closed(r, lost).hushed
        /\ q.opened = [r.opened EXCEPT ![Name] = r.opened[Name] + 1]
    BY <1>1, RotateFields
  <2>2. /\ Closed(r, lost).disk = left
        /\ Closed(r, lost).hushed = IF lost THEN r.hushed + 1 ELSE r.hushed
    BY <1>1, ClosedFields
  <2> QED
    BY <1>1, <2>1, <2>2, FieldTypes
<1> HIDE DEF left, q
\* Each file, the one that is left too, has a portion for each opening.
<1>4. \A f \in Seconds : left[f] <= r.opened[f] * Portion
  <2>1. ASSUME NEW f \in Seconds, f # r.name PROVE left[f] <= r.opened[f] * Portion
    BY <1>1, <1>2, <2>1 DEF CounterFollows
  <2>2. left[r.name] <= r.opened[r.name] * Portion
    <3> DEFINE k == (r.opened[r.name] - 1) * Portion  len == LengthOf(r, r.name)
               all == r.opened[r.name] * Portion
    <3>1. r.opened[r.name] \in Nat \ {0}
      BY <1>1 DEF CounterFollows
    <3>2. k \in Nat /\ k + Portion = all /\ Portion \in Nat
      <4>1. r.opened[r.name] - 1 \in Nat
        BY <3>1
      <4> QED
        BY <3>1, <4>1, Portions
    <3>3. len <= k + r.total /\ r.total <= Portion
      BY <1>1 DEF CounterFollows
    <3>4. len = r.disk[r.name] + r.buffered
      BY DEF LengthOf
    <3>5. left[r.name] = r.disk[r.name] \/ left[r.name] = len
      BY <1>2
    <3> HIDE DEF k, len, all
    <3>6. left[r.name] <= all
      BY <1>1, <3>2, <3>3, <3>4, <3>5
    <3> QED
      BY <3>6 DEF all
  <2> QED
    BY <2>1, <2>2
<1>5. CounterFollows(q)
  <2>1. q.opened[q.name] = r.opened[Name] + 1 /\ r.opened[Name] \in Nat
    BY <1>1, <1>3
  <2>2. LengthOf(q, q.name) = left[Name] /\ left[Name] \in Nat
    BY <1>2, <1>3 DEF LengthOf, Records
  <2>3. LengthOf(q, q.name) <= (q.opened[q.name] - 1) * Portion + q.total
    <3>1. q.opened[q.name] - 1 = r.opened[Name]
      BY <2>1
    <3>2. r.opened[Name] * Portion \in Nat /\ left[Name] <= r.opened[Name] * Portion
      BY <1>4, <2>1, Portions
    <3> QED
      BY <1>3, <2>2, <3>1, <3>2
  <2>4. \A f \in Seconds \ {q.name} : q.disk[f] <= q.opened[f] * Portion
    BY <1>1, <1>3, <1>4
  <2>5. q.total <= Portion /\ q.opened[q.name] >= 1
    BY <1>3, <2>1, Portions
  <2> QED
    BY <2>3, <2>4, <2>5 DEF CounterFollows
<1>6. LeftWhenLong(q)
  <2>1. ASSUME NEW f \in Seconds, q.opened[f] = 1, q.hushed = 0, f # Name
        PROVE  q.disk[f] > Limit
    <3>1. r.opened[f] = 1 /\ r.hushed = 0 /\ ~lost
      BY <1>1, <1>2, <1>3, <2>1
    <3>2. CASE f = r.name
      <4>1. LengthOf(r, f) >= r.total /\ q.disk[f] = LengthOf(r, f)
        BY <1>1, <1>2, <1>3, <3>1, <3>2 DEF LeftWhenLong
      <4>2. LengthOf(r, f) \in Nat /\ Limit \in Nat
        BY <1>1, <3>2, LogAssumption DEF LengthOf
      <4> QED
        BY <1>1, <4>1, <4>2
    <3>3. CASE f # r.name
      BY <1>1, <1>2, <1>3, <3>1, <3>3 DEF LeftWhenLong
    <3> QED
      BY <3>2, <3>3
  <2>2. LengthOf(q, q.name) >= q.total
    BY <1>2, <1>3 DEF LengthOf, Records
  <2> QED
    BY <1>3, <2>1, <2>2 DEF LeftWhenLong
<1> QED
  BY <1>3, <1>5, <1>6 DEF Follows, q

LEMMA FlushFollows ==
    ASSUME LogInv, NEW n \in 0 .. TextRoom, NEW r \in AfterFlush(n)
    PROVE  Follows(r)
<1>1. Name \in Seconds
  BY LogAssumption DEF Name, LogInv, LogTypeOK, Seconds
<1>2. PICK lost \in BOOLEAN : r = LogWrite(IF TooLong THEN Rotate(out, lost) ELSE out, n)
  BY DEF AfterFlush, TooLong, MayLose
<1>3. CASE TooLong
  <2>1. Follows(Rotate(out, lost)) /\ Rotate(out, lost).total <= Limit
    BY <1>1, <1>3, RotateFollows, LogAssumption DEF TooLong, LogInv
  <2> QED
    BY <1>2, <1>3, <2>1, WriteFollows
<1>4. CASE ~TooLong
  <2>1. Follows(out) /\ out.total <= Limit
    BY <1>4, LogAssumption DEF TooLong, LogInv, Follows, Records
  <2> QED
    BY <1>2, <1>4, <2>1, WriteFollows
<1> QED
  BY <1>3, <1>4

LEMMA TextFits ==
    ASSUME NEW n \in 1 .. MaxText, NEW fatal \in BOOLEAN
    PROVE  TextLen(n, fatal) \in 0 .. TextRoom
BY LogAssumption DEF TextLen, Appended, Lesser

LEMMA LogInvInit == LogInit => LogInv
<1> SUFFICES ASSUME LogInit PROVE LogInv
  OBVIOUS
<1>1. /\ out.name = 0 /\ out.total = 0 /\ out.buffered = 0 /\ out.hushed = 0
      /\ out.disk = [f \in Seconds |-> 0]
      /\ out.opened = [f \in Seconds |-> IF f = 0 THEN 1 ELSE 0]
      /\ 0 \in Seconds
  BY LogAssumption DEF LogInit, Seconds
<1>2. out \in Records
  BY LogAssumption DEF LogInit, Records, Seconds
<1>3. CounterFollows(out)
  BY <1>1, Portions DEF CounterFollows, LengthOf
<1>4. LeftWhenLong(out)
  BY <1>1 DEF LeftWhenLong, LengthOf
<1>5. LogTypeOK
  BY <1>2, LogAssumption DEF LogInit, LogTypeOK, Records, Seconds
<1> QED
  BY <1>2, <1>3, <1>4, <1>5 DEF LogInv, Follows

LEMMA LogInvStep == LogInv /\ [LogNext]_logVars => LogInv'
<1> SUFFICES ASSUME LogInv, [LogNext]_logVars PROVE LogInv'
  OBVIOUS
<1>1. LogTypeOK /\ Follows(out)
  BY DEF LogInv
<1>2. ASSUME Follows(out)', logged' \in 0 .. MaxLogged, clock' \in Seconds,
             UNCHANGED <<stamped, shared>>,
             logState' \in {"open", "closed", "aborted", "thrown"}
      PROVE  LogInv'
  BY <1>1, <1>2 DEF LogInv, LogTypeOK, Follows, Records
<1>3. ASSUME NEW n \in 1 .. MaxText, Log(n) PROVE LogInv'
  <2>1. TextLen(n, FALSE) \in 0 .. TextRoom
    BY TextFits
  <2>2. Follows(out)'
    BY <1>3, <2>1, FlushFollows DEF Log
  <2>3. logged' \in 0 .. MaxLogged
    <3> DEFINE len == TextLen(n, FALSE)
    <3>1. logged' = logged + len /\ logged + len <= MaxLogged
      BY <1>3, Zenon DEF Log
    <3>2. len \in 0 .. TextRoom
      BY <2>1, Zenon
    <3>3. logged \in Nat
      BY <1>1, LogAssumption DEF LogTypeOK
    <3> HIDE DEF len
    <3> QED
      BY <3>1, <3>2, <3>3, LogAssumption
  <2> QED
    BY <1>1, <1>2, <1>3, <2>2, <2>3 DEF Log, LogTypeOK
<1>4. ASSUME NEW n \in 1 .. MaxText, Fatal(n) PROVE LogInv'
  <2>1. TextLen(n, TRUE) \in 0 .. TextRoom
    BY TextFits
  <2>2. PICK r \in AfterFlush(TextLen(n, TRUE)), lost \in BOOLEAN :
          out' = Released(r, lost)
    BY <1>4 DEF Fatal, MayLose
  <2>3. Follows(out')
    BY <2>1, <2>2, FlushFollows, ClosedFollows DEF Released
  <2>4. logged' \in 0 .. MaxLogged
    <3> DEFINE len == TextLen(n, TRUE)
    <3>1. logged' = logged + len /\ logged + len <= MaxLogged
      BY <1>4, Zenon DEF Fatal
    <3>2. len \in 0 .. TextRoom
      BY <2>1, Zenon
    <3>3. logged \in Nat
      BY <1>1, LogAssumption DEF LogTypeOK
    <3> HIDE DEF len
    <3> QED
      BY <3>1, <3>2, <3>3, LogAssumption
  <2> QED
    BY <1>1, <1>2, <1>4, <2>3, <2>4 DEF Fatal, LogTypeOK
<1>5. CASE Exit
  <2>1. Follows(out')
    BY <1>1, <1>5, ClosedFollows DEF Exit, MayLose
  <2> QED
    BY <1>1, <1>2, <1>5, <2>1 DEF Exit, LogTypeOK
<1>6. CASE Tick
  BY <1>1, <1>2, <1>6, LogAssumption DEF Tick, LogTypeOK, Seconds
<1>7. CASE FlushThrows
  BY <1>1, <1>2, <1>7 DEF FlushThrows, LogTypeOK
<1>8. CASE Ended \/ UNCHANGED logVars
  BY <1>1, <1>2, <1>8 DEF Ended, logVars, LogTypeOK
<1> QED
  BY <1>3, <1>4, <1>5, <1>6, <1>7, <1>8 DEF LogNext

LEMMA LogInvHolds == LogSpec => []LogInv
BY LogInvInit, LogInvStep, PTL DEF LogSpec

\* Type correctness of the sink, for any limit, messages and buffer.
THEOREM LogTypeCorrect == LogSpec => []LogTypeOK
BY LogInvHolds, PTL DEF LogInv

\* LogFile::Flush (logging/LogFile.h:89) tests the limit before it writes, and
\* Rotate sets the counter back: a file is longer than the limit by one
\* message at most each time it was opened, and is not left before it is.
THEOREM LimitIsKept == LogSpec => []FilesFollowLimit
<1>1. LogInv => FilesFollowLimit
  <2> SUFFICES ASSUME LogInv, NEW f \in Seconds
               PROVE  /\ LengthOf(out, f) <= out.opened[f] * Portion
                      /\ out.opened[f] = 1 /\ f # out.name /\ out.hushed = 0 =>
                           LengthOf(out, f) > Limit
    BY DEF FilesFollowLimit, LengthOf, Portion
  <2>1. out \in Records /\ CounterFollows(out) /\ LeftWhenLong(out)
    BY DEF LogInv, Follows
  <2>2. CASE f # out.name
    <3>1. LengthOf(out, f) = out.disk[f]
      BY <2>1, <2>2 DEF LengthOf, Records
    <3> QED
      BY <2>1, <2>2, <3>1 DEF CounterFollows, LeftWhenLong
  <2>3. CASE f = out.name
    <3> DEFINE k == (out.opened[f] - 1) * Portion
    <3>1. out.opened[f] \in Nat \ {0} /\ out.total \in Nat /\ LengthOf(out, f) \in Nat
      BY <2>1, <2>3 DEF CounterFollows, Records, LengthOf
    <3>2. k + Portion = out.opened[f] * Portion /\ k \in Nat /\ Portion \in Nat
      <4>1. out.opened[f] - 1 \in Nat
        BY <3>1
      <4> QED
        BY <3>1, <4>1, Portions
    <3>3. LengthOf(out, f) <= k + out.total /\ out.total <= Portion
      BY <2>1, <2>3 DEF CounterFollows
    <3> HIDE DEF k
    <3> QED
      BY <2>3, <3>1, <3>2, <3>3
  <2> QED
    BY <2>2, <2>3
<1> QED
  BY <1>1, LogInvHolds, PTL

\* All that is in the files and in the buffer.
Whole(r) == SumFunction(r.disk) + r.buffered

LEMMA WholeGrows ==
    ASSUME NEW r \in Records, NEW w \in Records, NEW n \in Nat, w.name = r.name,
           \A f \in Seconds :
             LengthOf(w, f) = LengthOf(r, f) + (IF f = r.name THEN n ELSE 0)
    PROVE  Whole(r) \in Nat /\ Whole(w) = Whole(r) + n
<1> DEFINE x == r.name  d == r.disk  e == w.disk
<1>1. /\ x \in Seconds /\ d \in [Seconds -> Nat] /\ e \in [Seconds -> Nat]
      /\ r.buffered \in Nat /\ w.buffered \in Nat
  BY LogAssumption DEF Records
<1>2. IsFiniteSet(Seconds)
  BY LogAssumption, FS_Interval DEF Seconds
<1>3. /\ \A y \in Seconds \ {x} : e[y] = d[y]
      /\ e[x] + w.buffered = d[x] + r.buffered + n
  BY <1>1 DEF LengthOf
<1>4. /\ SumFunction(e) \in Nat /\ SumFunction(d) \in Nat
      /\ SumFunction(e) + d[x] = SumFunction(d) + e[x]
  BY <1>1, <1>2, <1>3, SumChanges
<1>5. d[x] \in Nat /\ e[x] \in Nat
  BY <1>1
<1>6. Whole(r) = SumFunction(d) + r.buffered /\ Whole(w) = SumFunction(e) + w.buffered
  BY DEF Whole
<1> HIDE DEF x, d, e
<1> QED
  BY <1>1, <1>3, <1>4, <1>5, <1>6

LEMMA EmptiedWhole ==
    ASSUME NEW r \in Records
    PROVE  Whole(Emptied(r)) = Whole(r)
<1> DEFINE e == Emptied(r)
<1>1. /\ e \in Records /\ e.name = r.name /\ e.buffered = 0
      /\ e.disk = [r.disk EXCEPT ![r.name] = r.disk[r.name] + r.buffered]
  BY EmptiedFields
<1> HIDE DEF e
<1>2. /\ r.name \in Seconds /\ r.disk \in [Seconds -> Nat] /\ r.buffered \in Nat
  BY LogAssumption DEF Records
<1>3. \A f \in Seconds : LengthOf(e, f) = LengthOf(r, f) + (IF f = r.name THEN 0 ELSE 0)
  BY <1>1, <1>2 DEF LengthOf
<1>4. Whole(r) \in Nat /\ Whole(e) = Whole(r) + 0
  BY <1>1, <1>3, WholeGrows
<1> QED
  BY <1>4 DEF e

LEMMA SumOfDisk ==
    ASSUME NEW r \in Records
    PROVE  SumFunction(r.disk) \in Nat
<1>1. IsFiniteSet(Seconds) /\ 0 \in Seconds
  BY LogAssumption, FS_Interval DEF Seconds
<1>2. r.disk \in [Seconds -> Nat]
  BY FieldTypes
<1> QED
  BY <1>1, <1>2, SumChanges

\* What so many failures can have cost.
Cost(h) == h * (FileBuf - 1)

LEMMA Costs ==
    /\ \A h \in Nat : Cost(h) \in Nat /\ Cost(h + 1) = Cost(h) + (FileBuf - 1)
    /\ Cost(0) = 0
BY LogAssumption DEF Cost

\* All of n is there, or was in a buffer that a failure took.
Accounted(r, n) == Whole(r) <= n /\ n <= Whole(r) + Cost(r.hushed)

LEMMA ClosedAccounted ==
    ASSUME NEW r \in Records, NEW lost \in BOOLEAN, NEW n \in Nat, Accounted(r, n)
    PROVE  Accounted(Closed(r, lost), n)
<1> DEFINE c == Closed(r, lost)
<1>1. CASE ~lost
  <2>1. c = Emptied(r)
    BY <1>1 DEF Closed
  <2> HIDE DEF c
  <2>2. Whole(c) = Whole(r) /\ c.hushed = r.hushed
    BY <2>1, EmptiedWhole, EmptiedFields
  <2> QED
    BY <2>2 DEF Accounted, c
<1>2. CASE lost
  <2>1. c.disk = r.disk /\ c.buffered = 0 /\ c.hushed = r.hushed + 1
    BY <1>2, ClosedFields
  <2>2. r.hushed \in Nat /\ r.buffered \in 0 .. FileBuf - 1
    BY FieldTypes
  <2>3. SumFunction(r.disk) \in Nat
    BY SumOfDisk
  <2> HIDE DEF c
  <2>4. Whole(r) = Whole(c) + r.buffered /\ Whole(c) \in Nat /\ Whole(r) \in Nat
    BY <2>1, <2>2, <2>3, LogAssumption DEF Whole
  <2>5. Cost(c.hushed) = Cost(r.hushed) + (FileBuf - 1) /\ Cost(r.hushed) \in Nat
    BY <2>1, <2>2, Costs
  <2> QED
    BY <2>2, <2>4, <2>5, LogAssumption DEF Accounted, c
<1> QED
  BY <1>1, <1>2

LEMMA FlushAccounted ==
    ASSUME LogInv, Accounted(out, logged), NEW n \in 0 .. TextRoom, NEW r \in AfterFlush(n)
    PROVE  r \in Records /\ Accounted(r, logged + n)
<1>1. /\ Name \in Seconds /\ n \in Nat /\ out \in Records /\ logged \in Nat
  BY LogAssumption DEF Name, LogInv, LogTypeOK, Seconds, Follows
<1>2. PICK lost \in BOOLEAN : r = LogWrite(IF TooLong THEN Rotate(out, lost) ELSE out, n)
  BY DEF AfterFlush, TooLong, MayLose
<1> DEFINE q == IF TooLong THEN Rotate(out, lost) ELSE out
<1>3. q \in Records /\ Accounted(q, logged)
  <2>1. CASE TooLong
    <3> DEFINE c == Closed(out, lost)
    <3>1. q = Rotate(out, lost)
      BY <2>1
    <3>2. c.buffered = 0 /\ Accounted(c, logged)
      BY <1>1, ClosedFields, ClosedAccounted
    <3> HIDE DEF q
    <3>3. q \in Records /\ q.buffered = 0 /\ q.disk = c.disk /\ q.hushed = c.hushed
      BY <1>1, <3>1, RotateFields
    <3> QED
      BY <3>2, <3>3 DEF Accounted, Whole
  <2>2. CASE ~TooLong
    BY <1>1, <2>2
  <2> QED
    BY <2>1, <2>2
<1> HIDE DEF q
<1>4. /\ r \in Records /\ r.name = q.name /\ r.hushed = q.hushed
      /\ \A f \in Seconds :
           LengthOf(r, f) = LengthOf(q, f) + (IF f = q.name THEN n ELSE 0)
  BY <1>1, <1>2, <1>3, WriteFields DEF q
<1>5. Whole(r) = Whole(q) + n /\ Whole(q) \in Nat
  BY <1>1, <1>3, <1>4, WholeGrows
<1>6. Cost(r.hushed) \in Nat
  BY <1>4, Costs, FieldTypes
<1> QED
  BY <1>1, <1>3, <1>4, <1>5, <1>6 DEF Accounted

\* All is accounted for, and a sink that was let go has nothing in its buffer.
LetGo == logState = "closed" \/ (logState = "aborted" /\ ~shared)
AccountInv == Accounted(out, logged) /\ (LetGo => out.buffered = 0)

LEMMA AccountStep == LogInv /\ AccountInv /\ [LogNext]_logVars => AccountInv'
<1> SUFFICES ASSUME LogInv, AccountInv, [LogNext]_logVars
             PROVE  AccountInv'
  OBVIOUS
<1>1. Accounted(out, logged) /\ out \in Records /\ logged \in Nat
  BY LogAssumption DEF AccountInv, LogInv, LogTypeOK, Follows
<1>2. ASSUME NEW n \in 1 .. MaxText, Log(n) PROVE AccountInv'
  <2>1. TextLen(n, FALSE) \in 0 .. TextRoom
    BY TextFits
  <2>2. out' \in AfterFlush(TextLen(n, FALSE)) /\ logged' = logged + TextLen(n, FALSE)
    BY <1>2, Zenon DEF Log
  <2>3. Accounted(out', logged')
    BY <1>1, <2>1, <2>2, FlushAccounted
  <2>4. ~LetGo'
    BY <1>2 DEF Log, LetGo
  <2> QED
    BY <2>3, <2>4 DEF AccountInv, Accounted, Whole
<1>3. ASSUME NEW n \in 1 .. MaxText, Fatal(n) PROVE AccountInv'
  <2>1. TextLen(n, TRUE) \in 0 .. TextRoom
    BY TextFits
  <2>2. logged' = logged + TextLen(n, TRUE) /\ UNCHANGED shared /\ logState' = "aborted"
    BY <1>3, Zenon DEF Fatal
  <2>3. PICK r \in AfterFlush(TextLen(n, TRUE)), lost \in BOOLEAN :
          out' = Released(r, lost)
    BY <1>3 DEF Fatal, MayLose
  <2>4. r \in Records /\ Accounted(r, logged')
    BY <1>1, <2>1, <2>2, <2>3, FlushAccounted
  <2>5. logged' \in Nat
    <3> DEFINE len == TextLen(n, TRUE)
    <3>1. len \in 0 .. TextRoom /\ logged' = logged + len
      BY <2>1, <2>2, Zenon
    <3> HIDE DEF len
    <3> QED
      BY <1>1, <3>1, LogAssumption
  <2>6. Accounted(out', logged')
    BY <2>3, <2>4, <2>5, ClosedAccounted DEF Released
  <2>7. ~shared => out'.buffered = 0
    BY <2>3, <2>4, ClosedFields DEF Released
  <2> QED
    BY <2>2, <2>6, <2>7 DEF AccountInv, Accounted, Whole, LetGo
<1>4. CASE Exit
  <2>1. PICK lost \in BOOLEAN : out' = Closed(out, lost)
    BY <1>4 DEF Exit, MayLose
  <2>2. logged' = logged
    BY <1>4 DEF Exit
  <2>3. Accounted(out', logged') /\ out'.buffered = 0
    BY <1>1, <2>1, <2>2, ClosedAccounted, ClosedFields
  <2> QED
    BY <2>3 DEF AccountInv, Accounted, Whole
<1>5. CASE Tick \/ FlushThrows
  BY <1>5 DEF Tick, FlushThrows, AccountInv, Accounted, Whole, LetGo
<1>6. CASE Ended \/ UNCHANGED logVars
  BY <1>6 DEF Ended, logVars, AccountInv, Accounted, Whole, LetGo
<1> QED
  BY <1>2, <1>3, <1>4, <1>5, <1>6 DEF LogNext

\* LogFile (logging/LogFile.h:80-127, Logging.h:125): rotating, opening a file
\* a second time, writing past the buffer and the end by exit or by a FATAL
\* message write nothing twice, and lose at most one buffer of the stream for
\* each flush or close whose failure nobody looks at, or with a process that
\* ends while the sink is held.
THEOREM LossIsBounded == LogSpec => []OnlyBuffersAreLost
<1>1. LogInit => AccountInv
  <2> SUFFICES ASSUME LogInit PROVE AccountInv
    OBVIOUS
  <2>1. /\ out.disk = [f \in Seconds |-> 0] /\ out.buffered = 0 /\ logged = 0
        /\ out.hushed = 0
    BY DEF LogInit
  <2>2. IsFiniteSet(Seconds)
    BY LogAssumption, FS_Interval DEF Seconds
  <2>3. SumFunction(out.disk) = 0
    BY <2>1, <2>2, SumOfZeros
  <2> QED
    BY <2>1, <2>3, Costs DEF AccountInv, Accounted, Whole
<1>2. ASSUME LogInv, AccountInv PROVE OnlyBuffersAreLost
  <2> DEFINE s == SumFunction(out.disk)  b == out.buffered  h == out.hushed
  <2>1. /\ b \in 0 .. FileBuf - 1 /\ h \in Nat /\ s \in Nat
        /\ logged \in Nat /\ FileBuf \in Nat \ {0}
    BY <1>2, FieldTypes, SumOfDisk, LogAssumption
    DEF LogInv, LogTypeOK, Follows
  <2>2. s + b <= logged /\ logged <= s + b + Cost(h) /\ (LetGo => b = 0)
    BY <1>2 DEF AccountInv, Accounted, Whole
  <2>3. Cost(h) \in Nat /\ Cost(h + 1) = Cost(h) + (FileBuf - 1)
    BY <2>1, Costs
  <2>4. logState \in {"open", "closed", "aborted", "thrown"}
    BY <1>2 DEF LogInv, LogTypeOK
  <2>5. /\ Surviving = s + (IF logState = "open" THEN b ELSE 0)
        /\ Losses = h + (IF logState = "thrown" \/ (logState = "aborted" /\ shared)
                         THEN 1 ELSE 0)
    BY DEF Surviving, Losses
  <2> HIDE DEF s, b, h
  <2>6. Surviving <= logged /\ logged <= Surviving + Cost(Losses)
    <3>1. CASE logState = "open"
      <4>1. Surviving = s + b /\ Losses = h
        BY <2>1, <2>5, <3>1
      <4> QED
        BY <2>2, <4>1
    <3>2. CASE LetGo
      <4>1. Surviving = s /\ Losses = h /\ b = 0
        BY <2>1, <2>2, <2>5, <3>2 DEF LetGo
      <4> QED
        BY <2>1, <2>2, <2>3, <4>1
    <3>3. CASE logState = "thrown" \/ (logState = "aborted" /\ shared)
      <4>1. Surviving = s /\ Losses = h + 1
        BY <2>1, <2>5, <3>3
      <4> QED
        BY <2>1, <2>2, <2>3, <4>1
    <3> QED
      BY <2>4, <3>1, <3>2, <3>3 DEF LetGo
  <2> QED
    BY <2>6 DEF OnlyBuffersAreLost, Cost
<1> QED
  BY <1>1, <1>2, AccountStep, LogInvHolds, PTL DEF LogSpec

-------------------------------------------------------------------------------
(* IODevice: the ring is a FIFO of the device's stream, for any BUFSIZE.     *)

LEMMA Constants ==
    /\ BufSize \in Nat \ {0} /\ MaxBytes \in Nat /\ MaxAsked \in Nat
    /\ Modulus \in Nat /\ Modulus > BufSize /\ Cells = 0 .. BufSize - 1
    /\ MinusOne \in 0 .. Modulus - 1
BY DeviceAssumption DEF Cells, MinusOne

\* Remainders: any is a cell, and of what is below two rounds it is known which.
LEMMA Remainder ==
    /\ \A a \in Nat : a % BufSize \in Cells /\ a % Modulus \in 0 .. Modulus - 1
    /\ \A a \in 0 .. BufSize - 1 : a % BufSize = a
    /\ \A a \in BufSize .. 2 * BufSize - 1 : a % BufSize = a - BufSize
    /\ \A a \in 0 .. Modulus - 1 : a % Modulus = a
<1>1. ASSUME NEW b \in Nat \ {0}, NEW a \in Nat PROVE a % b \in 0 .. b - 1
  OBVIOUS
<1>2. ASSUME NEW b \in Nat \ {0}, NEW a \in 0 .. b - 1 PROVE a % b = a
  OBVIOUS
<1>3. ASSUME NEW b \in Nat \ {0}, NEW a \in b .. 2 * b - 1 PROVE a % b = a - b
  OBVIOUS
<1>4. BufSize \in Nat \ {0} /\ Modulus \in Nat \ {0} /\ Cells = 0 .. BufSize - 1
  BY Constants
<1>5. \A a \in Nat : a % BufSize \in Cells /\ a % Modulus \in 0 .. Modulus - 1
  BY <1>1, <1>4
<1>6. \A a \in 0 .. BufSize - 1 : a % BufSize = a
  BY <1>2, <1>4, Zenon
<1>7. \A a \in BufSize .. 2 * BufSize - 1 : a % BufSize = a - BufSize
  BY <1>3, <1>4, Zenon
<1>8. \A a \in 0 .. Modulus - 1 : a % Modulus = a
  BY <1>2, <1>4, Zenon
<1> QED
  BY <1>5, <1>6, <1>7, <1>8

\* s bytes of the stream, from position e on, stand in b from cell h on; t is
\* the cell after them.
Holds(h, t, s, b, e) ==
    /\ h \in Cells /\ s \in 0 .. BufSize /\ t = (h + s) % BufSize
    /\ b \in [Cells -> Nat] /\ e \in Nat
    /\ \A k \in 0 .. s - 1 : b[(h + k) % BufSize] = e + k

\* Where the tail is: after the bytes, or around the end of the buffer.
LEMMA TailOf ==
    ASSUME NEW h \in Cells, NEW s \in 0 .. BufSize
    PROVE  /\ h + s < BufSize => (h + s) % BufSize = h + s
           /\ h + s >= BufSize => (h + s) % BufSize = h + s - BufSize
<1>1. h + s \in 0 .. BufSize - 1 \/ h + s \in BufSize .. 2 * BufSize - 1
  BY Constants
<1> DEFINE a == h + s
<1>2. a \in 0 .. BufSize - 1 => a % BufSize = a
  BY Remainder, Zenon
<1>3. a \in BufSize .. 2 * BufSize - 1 => a % BufSize = a - BufSize
  BY Remainder, Zenon
<1> QED
  BY <1>1, <1>2, <1>3, Constants

LEMMA HoldsMeans ==
    ASSUME NEW h, NEW t, NEW s, NEW b, NEW e, Holds(h, t, s, b, e)
    PROVE  /\ h \in 0 .. BufSize - 1 /\ s \in 0 .. BufSize /\ BufSize \in Nat \ {0}
           /\ e \in Nat
           /\ \/ h + s < BufSize /\ t = h + s
              \/ h + s >= BufSize /\ t = h + s - BufSize
<1>1. h \in Cells /\ s \in 0 .. BufSize /\ t = (h + s) % BufSize /\ e \in Nat
  BY DEF Holds
<1>2. h \in 0 .. BufSize - 1 /\ BufSize \in Nat \ {0}
  BY <1>1, Constants
<1> DEFINE a == (h + s) % BufSize
<1>3. /\ h + s < BufSize => a = h + s
      /\ h + s >= BufSize => a = h + s - BufSize
  BY <1>1, TailOf, Zenon
<1>4. t = a
  BY <1>1
<1> HIDE DEF a
<1>5. h + s < BufSize \/ h + s >= BufSize
  BY <1>1, <1>2
<1> QED
  BY <1>1, <1>2, <1>3, <1>4, <1>5

\* Peek copies the first bytes of a ring that is not full.
LEMMA CopiedIsNext ==
    ASSUME NEW h, NEW t, NEW s, NEW b, NEW e, Holds(h, t, s, b, e), s < BufSize,
           NEW n \in 0 .. s
    PROVE  Copied([head |-> h, tail |-> t, size |-> s, buf |-> b], n)
             = [i \in 1 .. n |-> e + i - 1]
<1> DEFINE r == [head |-> h, tail |-> t, size |-> s, buf |-> b]
           len == IF t >= h THEN t - h ELSE BufSize - h
           first == Smaller(n, len)
           cell(i) == IF i <= first /\ h + i <= BufSize THEN b[h + i - 1]
                      ELSE IF first < i /\ t < h /\ i <= n /\ i - len <= BufSize
                           THEN b[i - len - 1]
                           ELSE 0
<1>1. /\ h \in 0 .. BufSize - 1 /\ s \in 0 .. BufSize - 1 /\ e \in Nat
      /\ BufSize \in Nat \ {0} /\ n \in Nat /\ n <= s
      /\ \/ h + s < BufSize /\ t = h + s
         \/ h + s >= BufSize /\ t = h + s - BufSize
  BY HoldsMeans
<1>2. Smaller(s, n) = n
  BY <1>1 DEF Smaller
<1>3. Copied(r, n) = [i \in 1 .. n |-> cell(i)]
  BY <1>2 DEF Copied
<1>4. ASSUME NEW i \in 1 .. n PROVE cell(i) = e + i - 1
  <2> DEFINE k == i - 1
  <2>1. k \in 0 .. s - 1 /\ k \in 0 .. BufSize
    BY <1>1
  <2>2. b[(h + k) % BufSize] = e + k
    BY <2>1 DEF Holds
  <2>3. /\ h + k < BufSize => (h + k) % BufSize = h + k
        /\ h + k >= BufSize => (h + k) % BufSize = h + k - BufSize
    BY <1>1, <2>1, TailOf, Constants
  <2>4. CASE h + s < BufSize
    <3>1. i <= first /\ h + i <= BufSize /\ h + k < BufSize
      BY <1>1, <2>4 DEF Smaller
    <3>2. cell(i) = b[h + i - 1]
      BY <3>1
    <3>3. h + i - 1 = h + k /\ e + k = e + i - 1
      BY <1>1
    <3> HIDE DEF k, cell
    <3> QED
      BY <2>2, <2>3, <3>1, <3>2, <3>3
  <2>5. CASE h + s >= BufSize
    <3>1. t < h /\ len = BufSize - h
      BY <1>1, <2>5
    <3>2. CASE h + i <= BufSize
      <4>1. i <= first /\ h + k < BufSize
        BY <1>1, <3>1, <3>2 DEF Smaller
      <4>2. cell(i) = b[h + i - 1]
        BY <3>2, <4>1
      <4>3. h + i - 1 = h + k /\ e + k = e + i - 1
        BY <1>1
      <4> HIDE DEF k, cell
      <4> QED
        BY <2>2, <2>3, <4>1, <4>2, <4>3
    <3>3. CASE h + i > BufSize
      <4>1. first < i /\ i <= n /\ i - len <= BufSize /\ h + k >= BufSize
        BY <1>1, <3>1, <3>3 DEF Smaller
      <4>2. cell(i) = b[i - len - 1]
        BY <1>1, <3>1, <3>3, <4>1
      <4>3. i - len - 1 = h + k - BufSize /\ e + k = e + i - 1
        BY <1>1, <3>1
      <4> HIDE DEF k, cell, len
      <4> QED
        BY <2>2, <2>3, <4>1, <4>2, <4>3
    <3> QED
      BY <1>1, <3>2, <3>3
  <2> QED
    BY <1>1, <2>4, <2>5
<1> QED
  BY <1>3, <1>4

\* And it stays inside the buffer, also when the ring is full.
LEMMA EndInside ==
    ASSUME NEW h, NEW t, NEW s, NEW b, NEW e, Holds(h, t, s, b, e), NEW n \in Nat
    PROVE  CopiedEnd([head |-> h, tail |-> t, size |-> s, buf |-> b], n) <= BufSize
<1>1. /\ h \in 0 .. BufSize - 1 /\ s \in 0 .. BufSize /\ BufSize \in Nat \ {0}
      /\ \/ h + s < BufSize /\ t = h + s
         \/ h + s >= BufSize /\ t = h + s - BufSize
  BY HoldsMeans
<1> QED
  BY <1>1 DEF CopiedEnd, Smaller

\* Handing v bytes out.
LEMMA HandedOut ==
    ASSUME NEW h, NEW t, NEW s, NEW b, NEW e, Holds(h, t, s, b, e), NEW v \in 0 .. s
    PROVE  Holds((h + v) % BufSize, t, s - v, b, e + v)
<1>1. /\ h \in 0 .. BufSize - 1 /\ s \in 0 .. BufSize /\ BufSize \in Nat \ {0}
      /\ v \in 0 .. BufSize /\ e \in Nat
  BY Constants DEF Holds
<1> DEFINE g == (h + v) % BufSize
<1>2. /\ h + v < BufSize => g = h + v
      /\ h + v >= BufSize => g = h + v - BufSize
  BY <1>1, TailOf, Constants
<1> HIDE DEF g
<1>3. g \in Cells /\ s - v \in 0 .. BufSize
  BY <1>1, <1>2, Constants
\* Going on from g is going on from h.
<1>4. ASSUME NEW k \in 0 .. BufSize, v + k <= BufSize
      PROVE  (g + k) % BufSize = (h + (v + k)) % BufSize
  <2>1. /\ g + k < BufSize => (g + k) % BufSize = g + k
        /\ g + k >= BufSize => (g + k) % BufSize = g + k - BufSize
    BY <1>3, TailOf
  <2>2. v + k \in 0 .. BufSize
    BY <1>1, <1>4
  <2>3. /\ h + (v + k) < BufSize => (h + (v + k)) % BufSize = h + (v + k)
        /\ h + (v + k) >= BufSize => (h + (v + k)) % BufSize = h + (v + k) - BufSize
    BY <1>1, <2>2, TailOf, Constants
  <2> DEFINE x == (g + k) % BufSize  y == (h + (v + k)) % BufSize
  <2>4. /\ g + k < BufSize => x = g + k
        /\ g + k >= BufSize => x = g + k - BufSize
        /\ h + (v + k) < BufSize => y = h + (v + k)
        /\ h + (v + k) >= BufSize => y = h + (v + k) - BufSize
    BY <2>1, <2>3
  <2> HIDE DEF x, y
  <2>5. x = y
    BY <1>1, <1>2, <1>4, <2>4
  <2> QED
    BY <2>5 DEF x, y
<1>5. t = (g + (s - v)) % BufSize
  <2>1. v + (s - v) = s /\ s - v \in 0 .. BufSize
    BY <1>1
  <2> QED
    BY <1>1, <1>4, <2>1 DEF Holds
<1>6. ASSUME NEW k \in 0 .. (s - v) - 1
      PROVE  b[(g + k) % BufSize] = (e + v) + k
  <2>1. v + k \in 0 .. s - 1 /\ k \in 0 .. BufSize /\ v + k <= BufSize
    BY <1>1
  <2>2. b[(h + (v + k)) % BufSize] = e + (v + k)
    BY <2>1 DEF Holds
  <2>3. e + (v + k) = (e + v) + k
    BY <1>1
  <2> QED
    BY <1>4, <2>1, <2>2, <2>3
<1> QED
  BY <1>1, <1>3, <1>5, <1>6 DEF Holds, g

\* What ReadData stores continues the stream, around the end of the buffer
\* too.
LEMMA FilledHolds ==
    ASSUME NEW h, NEW t, NEW s, NEW b, NEW e, Holds(h, t, s, b, e), s < BufSize,
           supplied \in Nat, s + e = supplied + 1,
           NEW got \in Nat, NEW again \in Nat,
           LET r == [head |-> h, tail |-> t, size |-> s, buf |-> b] IN
             /\ got <= Room(r)
             /\ IF AskedAgain(r, got) THEN again <= h ELSE again = 0,
           got # MinusOne, again # MinusOne
    PROVE  LET f == Filled([head |-> h, tail |-> t, size |-> s, buf |-> b], got, again) IN
             /\ f.size = s + got + again
             /\ Holds(h, f.tail, f.size, f.buf, e)
<1> DEFINE r == [head |-> h, tail |-> t, size |-> s, buf |-> b]
           f == Filled(r, got, again)
           n == got + again
           first == Store(b, t, got, supplied)
           second == Store(first, 0, again, supplied + got)
<1>a. /\ h \in 0 .. BufSize - 1 /\ s \in 0 .. BufSize /\ BufSize \in Nat \ {0}
      /\ e \in Nat
      /\ \/ h + s < BufSize /\ t = h + s
         \/ h + s >= BufSize /\ t = h + s - BufSize
  BY HoldsMeans
<1>b. b \in [Cells -> Nat]
  BY DEF Holds
<1>c. s \in 0 .. BufSize - 1
  BY <1>a
<1>1. /\ h \in 0 .. BufSize - 1 /\ s \in 0 .. BufSize - 1 /\ BufSize \in Nat \ {0}
      /\ e \in Nat /\ b \in [Cells -> Nat]
      /\ \/ h + s < BufSize /\ t = h + s
         \/ h + s >= BufSize /\ t = h + s - BufSize
  BY <1>a, <1>b, <1>c
<1>2. \/ /\ h + s < BufSize /\ t = h + s /\ got <= BufSize - t
         /\ again <= h
         /\ again > 0 => got = BufSize - t
      \/ h + s >= BufSize /\ t = h + s - BufSize /\ got <= h - t /\ again = 0
  <2>1. Room(r) = IF t >= h THEN BufSize - t ELSE h - t
    BY DEF Room
  <2>2. AskedAgain(r, got) <=> t > h /\ got >= Room(r)
    BY DEF AskedAgain
  <2>3. got <= Room(r) /\ IF AskedAgain(r, got) THEN again <= h ELSE again = 0
    OBVIOUS
  <2> HIDE DEF r
  <2> QED
    BY <1>1, <2>1, <2>2, <2>3
<1>3. n \in Nat /\ s + n <= BufSize
  BY <1>1, <1>2
<1>4. f = [head |-> h, tail |-> (t + n) % BufSize, size |-> s + n, buf |-> second]
  <2>1. n % Modulus = n /\ (s + n) % Modulus = s + n
    <3>1. n \in 0 .. Modulus - 1 /\ s + n \in 0 .. Modulus - 1
      BY <1>1, <1>3, Constants
    <3> HIDE DEF n
    <3> QED
      BY <3>1, Remainder
  <2>2. Stored(got) = got /\ Stored(again) = again
    BY DEF Stored
  <2> QED
    BY <2>1, <2>2 DEF Filled
<1>5. f.tail = (t + n) % BufSize /\ f.size = s + n /\ f.buf = second
  BY <1>4
<1>6. (t + n) % BufSize = (h + (s + n)) % BufSize
  <2>1. t \in Cells /\ n \in 0 .. BufSize /\ h \in Cells /\ s + n \in 0 .. BufSize
    BY <1>1, <1>3, Constants
  <2> HIDE DEF n
  <2> DEFINE x == (t + n) % BufSize  y == (h + (s + n)) % BufSize
  <2>2. /\ t + n < BufSize => x = t + n
        /\ t + n >= BufSize => x = t + n - BufSize
        /\ h + (s + n) < BufSize => y = h + (s + n)
        /\ h + (s + n) >= BufSize => y = h + (s + n) - BufSize
    BY <2>1, TailOf
  <2> HIDE DEF x, y
  <2>3. x = y
    BY <1>1, <1>3, <2>1, <2>2
  <2> QED
    BY <2>3 DEF x, y
<1>7. second \in [Cells -> Nat]
  <2>1. \A j \in Cells : j \in Nat /\ j >= 0
    BY Constants
  <2>2. t \in Nat
    BY <1>1
  <2>3. ASSUME NEW j \in Cells PROVE first[j] \in Nat
    BY <1>1, <2>1, <2>2, <2>3 DEF Store
  <2>4. ASSUME NEW j \in Cells PROVE second[j] \in Nat
    <3> HIDE DEF first
    <3> QED
      BY <1>1, <2>1, <2>3, <2>4 DEF Store
  <2>5. second = [j \in Cells |-> second[j]]
    BY DEF Store
  <2> HIDE DEF second
  <2> QED
    BY <2>4, <2>5
<1>8. ASSUME NEW k \in 0 .. s + n - 1
      PROVE  second[(h + k) % BufSize] = e + k
  <2> DEFINE j == (h + k) % BufSize
  <2>1. k \in 0 .. BufSize - 1 /\ h \in Cells
    BY <1>1, <1>3, Constants
  <2>a. k \in 0 .. BufSize
    BY <2>1, Constants
  <2>2. /\ h + k < BufSize => j = h + k
        /\ h + k >= BufSize => j = h + k - BufSize
    BY <2>1, <2>a, TailOf, Zenon
  <2>3. k < s => b[j] = e + k
    BY <1>1, <2>1 DEF Holds
  <2>b. h + k \in Nat
    BY <1>1, <2>1
  <2>4. j \in Cells
    BY <2>b, Remainder, Zenon
  <2> HIDE DEF j
  <2>5. second[j] = IF j < again THEN supplied + got + j + 1
                    ELSE IF t <= j /\ j < t + got THEN supplied + j - t + 1 ELSE b[j]
    BY <1>1, <2>4, Constants DEF Store
  <2> HIDE DEF second, first
  <2>6. CASE k < s
    <3>1. ~(j < again) /\ ~(t <= j /\ j < t + got)
      BY <1>1, <1>2, <2>1, <2>2, <2>6
    <3> QED
      BY <2>3, <2>5, <2>6, <3>1 DEF j
  <2>7. CASE k >= s /\ k < s + got
    <3>1. ~(j < again) /\ t <= j /\ j < t + got /\ j - t = k - s
      BY <1>1, <1>2, <2>1, <2>2, <2>7
    <3>2. supplied + j - t + 1 = e + k
      BY <1>1, <2>1, <2>2, <3>1
    <3> QED
      BY <2>5, <3>1, <3>2 DEF j
  <2>8. CASE k >= s + got
    <3>1. j < again /\ j = k - s - got
      BY <1>1, <1>2, <1>3, <2>1, <2>2, <2>8
    <3>2. supplied + got + j + 1 = e + k
      BY <1>1, <2>1, <3>1
    <3> QED
      BY <2>5, <3>1, <3>2 DEF j
  <2> QED
    BY <1>1, <2>1, <2>6, <2>7, <2>8
<1> HIDE DEF f, n, second
<1>9. Holds(h, f.tail, f.size, f.buf, e)
  BY <1>1, <1>3, <1>5, <1>6, <1>7, <1>8, Constants DEF Holds
<1>10. f.size = s + got + again
  BY <1>1, <1>5 DEF n
<1> QED
  BY <1>9, <1>10 DEF f

\* The second half of Read leaves the types as they are.
LEMMA HandOutTypes ==
    ASSUME NEW r, NEW n \in Nat, HandOut(r, n),
           r.head \in Cells, r.tail \in Cells, r.size \in 0 .. Modulus - 1,
           r.buf \in [Cells -> 0 .. MaxBytes], expected \in 1 .. MaxBytes + 1
    PROVE  /\ head' \in Cells /\ tail' \in Cells /\ size' \in 0 .. Modulus - 1
           /\ buf' \in [Cells -> 0 .. MaxBytes] /\ expected' \in 1 .. MaxBytes + 1
           /\ answer' \in {"none", "right", "wrong"} /\ filled' \in BOOLEAN
<1> DEFINE v == Smaller(n, r.size)
<1>1. v \in 0 .. r.size
  BY DEF Smaller
<1>2. /\ head' = (r.head + v) % BufSize /\ tail' = r.tail /\ size' = r.size - v
      /\ buf' = r.buf /\ expected' = Smaller(expected + v, MaxBytes + 1)
  BY DEF HandOut, Advance
<1>3. answer' \in {"none", "right", "wrong"}
  BY DEF HandOut
<1>4. filled' \in BOOLEAN
  BY DEF HandOut
<1> HIDE DEF v
<1>5. r.head + v \in Nat
  BY <1>1, Constants
<1>6. head' \in Cells
  <2> DEFINE a == r.head + v
  <2>1. a \in Nat
    BY <1>5
  <2>2. head' = a % BufSize
    BY <1>2
  <2> HIDE DEF a
  <2>3. a % BufSize \in Cells
    BY <2>1, Remainder
  <2> QED
    BY <2>2, <2>3
<1>7. size' \in 0 .. Modulus - 1
  <2>1. ASSUME NEW a \in 0 .. Modulus - 1, NEW w \in 0 .. a
        PROVE  a - w \in 0 .. Modulus - 1
    BY Constants
  <2> QED
    BY <1>1, <1>2, <2>1, Zenon
<1>8. expected' \in 1 .. MaxBytes + 1
  BY <1>1, <1>2, Constants DEF Smaller
<1> QED
  BY <1>2, <1>3, <1>4, <1>6, <1>7, <1>8

\* And hands out the next bytes of the stream, if the ring holds them.
LEMMA HandOutNext ==
    ASSUME NEW h, NEW t, NEW s, NEW b, NEW n \in Nat, NEW m \in 0 .. MaxBytes,
           Holds(h, t, s, b, expected), s + expected = m + 1,
           HandOut([head |-> h, tail |-> t, size |-> s, buf |-> b], n)
    PROVE  /\ Holds(head', tail', size', buf', expected') /\ size' + expected' = m + 1
           /\ answer' = "wrong" => filled' \/ sequential
<1> DEFINE r == [head |-> h, tail |-> t, size |-> s, buf |-> b]
           v == Smaller(n, s)
<1>1. /\ s \in 0 .. BufSize /\ expected \in Nat
  BY DEF Holds
<1>2. v \in 0 .. s
  BY <1>1, Constants DEF Smaller
<1>3. /\ head' = (h + v) % BufSize /\ tail' = t /\ size' = s - v /\ buf' = b
      /\ expected' = Smaller(expected + v, MaxBytes + 1)
      /\ filled' = (s = BufSize)
  BY DEF HandOut, Advance
<1>4. ~sequential /\ answer' = "wrong" =>
        Copied(r, v) # [i \in 1 .. v |-> expected + i - 1]
  BY DEF HandOut
<1>5. s < BufSize => Copied(r, v) = [i \in 1 .. v |-> expected + i - 1]
  <2> HIDE DEF v
  <2> QED
    BY <1>2, CopiedIsNext
<1>6. expected' = expected + v
  <2> HIDE DEF v
  <2> QED
    BY <1>1, <1>2, <1>3, Constants DEF Smaller
<1>7. Holds((h + v) % BufSize, t, s - v, b, expected + v)
  <2> HIDE DEF v
  <2> QED
    BY <1>2, HandedOut
<1>8. (s - v) + (expected + v) = m + 1
  <2> HIDE DEF v
  <2> QED
    BY <1>1, <1>2
<1>9. answer' = "wrong" => filled' \/ sequential
  <2>1. s < BufSize \/ s = BufSize
    BY <1>1, Constants
  <2> QED
    BY <1>3, <1>4, <1>5, <2>1
<1> HIDE DEF v
<1> QED
  BY <1>3, <1>6, <1>7, <1>8, <1>9

\* What ReadData can return and store.
LEMMA SuppliedBy ==
    ASSUME TypeOK, NEW got \in Returns(Room(Ring), supplied),
           NEW again \in IF AskedAgain(Ring, got)
                         THEN Returns(head, supplied + Stored(got)) ELSE {0}
    PROVE  /\ got \in Nat /\ again \in Nat
           /\ Stored(got) \in Nat /\ Stored(again) \in Nat
           /\ supplied + Stored(got) + Stored(again) \in 0 .. MaxBytes
           /\ got # MinusOne => got <= Room(Ring)
           /\ again # MinusOne =>
                IF AskedAgain(Ring, got) THEN again <= head ELSE again = 0
<1>1. /\ head \in Nat /\ supplied \in 0 .. MaxBytes /\ MaxBytes \in Nat
      /\ MinusOne \in Nat /\ Room(Ring) \in Nat
  BY Constants DEF TypeOK, Room, Ring
<1>2. /\ got \in Nat /\ Stored(got) \in Nat /\ supplied + Stored(got) \in 0 .. MaxBytes
      /\ got # MinusOne => got <= Room(Ring)
  BY <1>1 DEF Returns, Smaller, Stored
<1> DEFINE a == supplied + Stored(got)
<1>3. a \in 0 .. MaxBytes
  BY <1>2
<1> HIDE DEF a
<1>4. ASSUME AskedAgain(Ring, got), again \in Returns(head, a)
      PROVE  /\ again \in Nat /\ Stored(again) \in Nat /\ a + Stored(again) \in 0 .. MaxBytes
             /\ again # MinusOne => again <= head
  BY <1>1, <1>3, <1>4 DEF Returns, Smaller, Stored
<1>5. ASSUME again = 0
      PROVE  /\ again \in Nat /\ Stored(again) \in Nat /\ a + Stored(again) \in 0 .. MaxBytes
  BY <1>1, <1>3, <1>5 DEF Stored
<1>6. CASE AskedAgain(Ring, got)
  <2>1. again \in Returns(head, a)
    BY <1>6 DEF a
  <2> QED
    BY <1>2, <1>4, <1>6, <2>1 DEF a
<1>7. CASE ~AskedAgain(Ring, got)
  <2>1. again = 0
    BY <1>7
  <2> QED
    BY <1>2, <1>5, <1>7, <2>1 DEF a
<1> QED
  BY <1>6, <1>7

\* Whatever it returns, the ring stays one of cells and bytes.
LEMMA FilledTypes ==
    ASSUME TypeOK, NEW got \in Returns(Room(Ring), supplied),
           NEW again \in IF AskedAgain(Ring, got)
                         THEN Returns(head, supplied + Stored(got)) ELSE {0}
    PROVE  LET f == Filled(Ring, got, again) IN
             /\ f.head = head /\ f.tail \in Cells /\ f.size \in 0 .. Modulus - 1
             /\ f.buf \in [Cells -> 0 .. MaxBytes]
             /\ f = [head |-> f.head, tail |-> f.tail, size |-> f.size, buf |-> f.buf]
<1> DEFINE x == Stored(got)
           y == Stored(again)
           first == Store(buf, tail, x, supplied)
           second == Store(first, 0, y, supplied + x)
           readed == (got + again) % Modulus
           f == Filled(Ring, got, again)
<1>1. f = [head |-> head, tail |-> (tail + readed) % BufSize,
           size |-> (size + readed) % Modulus, buf |-> second]
  BY DEF Filled, Ring
<1>2. got \in Nat /\ again \in Nat /\ x \in Nat /\ y \in Nat /\ supplied + x + y \in 0 .. MaxBytes
  BY SuppliedBy, Zenon
<1> HIDE DEF x, y
<1>3. /\ tail \in Nat /\ size \in Nat /\ supplied \in 0 .. MaxBytes
      /\ buf \in [Cells -> 0 .. MaxBytes] /\ MaxBytes \in Nat
      /\ \A j \in Cells : j \in Nat /\ j >= 0
  BY Constants DEF TypeOK
<1>4. readed \in Nat
  <2> DEFINE a == got + again
  <2>1. a \in Nat
    BY <1>2
  <2> HIDE DEF a
  <2>2. a % Modulus \in 0 .. Modulus - 1
    BY <2>1, Remainder
  <2>3. a % Modulus \in Nat
    BY <2>2, Constants
  <2> QED
    BY <2>3 DEF a
<1> HIDE DEF readed
<1>5. (tail + readed) % BufSize \in Cells /\ (size + readed) % Modulus \in 0 .. Modulus - 1
  <2> DEFINE a == tail + readed  c == size + readed
  <2>1. a \in Nat /\ c \in Nat
    BY <1>3, <1>4
  <2> HIDE DEF a, c
  <2>2. a % BufSize \in Cells /\ c % Modulus \in 0 .. Modulus - 1
    BY <2>1, Remainder
  <2> QED
    BY <2>2 DEF a, c
<1>6. ASSUME NEW j \in Cells PROVE first[j] \in 0 .. MaxBytes
  <2>1. first[j] = IF tail <= j /\ j < tail + x THEN supplied + j - tail + 1 ELSE buf[j]
    BY DEF Store
  <2>2. buf[j] \in 0 .. MaxBytes /\ j \in Nat
    BY <1>3
  <2> HIDE DEF first
  <2> QED
    BY <1>2, <1>3, <2>1, <2>2
<1>7. ASSUME NEW j \in Cells PROVE second[j] \in 0 .. MaxBytes
  <2>1. second[j] = IF 0 <= j /\ j < 0 + y THEN supplied + x + j - 0 + 1 ELSE first[j]
    BY DEF Store
  <2>2. first[j] \in 0 .. MaxBytes /\ j \in Nat
    BY <1>3, <1>6
  <2> HIDE DEF first, second
  <2> QED
    BY <1>2, <1>3, <2>1, <2>2
<1>8. second \in [Cells -> 0 .. MaxBytes]
  <2>1. second = [j \in Cells |-> second[j]]
    BY DEF Store
  <2> HIDE DEF second
  <2> QED
    BY <1>7, <2>1
<1> HIDE DEF second
<1>9. /\ f.head = head /\ f.tail = (tail + readed) % BufSize
      /\ f.size = (size + readed) % Modulus /\ f.buf = second
  BY <1>1
<1>10. f = [head |-> f.head, tail |-> f.tail, size |-> f.size, buf |-> f.buf]
  BY <1>1
<1> HIDE DEF f
<1>11. /\ f.head = head /\ f.tail \in Cells /\ f.size \in 0 .. Modulus - 1
       /\ f.buf \in [Cells -> 0 .. MaxBytes]
  BY <1>5, <1>8, <1>9
<1> QED
  BY <1>10, <1>11 DEF f

\* Until the head is moved or ReadData fails, the ring holds what was supplied
\* and not handed out.
FifoInv ==
    /\ TypeOK
    /\ ~moved /\ ~failed => /\ Holds(head, tail, size, buf, expected)
                           /\ size + expected = supplied + 1
    /\ ReadDeliversNext

LEMMA InitFifo == Init => FifoInv
<1> SUFFICES ASSUME Init PROVE FifoInv
  OBVIOUS
<1>1. 0 \in Cells /\ 0 \in 0 .. BufSize /\ 0 \in 0 .. Modulus - 1 /\ MaxBytes \in Nat
  BY Constants
<1>a. buf \in [Cells -> 0 .. MaxBytes]
  BY <1>1 DEF Init
<1>b. expected \in 1 .. MaxBytes + 1
  BY <1>1 DEF Init
<1>2. TypeOK
  BY <1>1, <1>a, <1>b DEF Init, TypeOK
<1>3. Holds(head, tail, size, buf, expected)
  <2>1. (0 + 0) % BufSize = 0
    <3>1. 0 \in 0 .. BufSize - 1
      BY Constants
    <3> QED
      BY <3>1, Remainder
  <2> QED
    BY <1>1, <2>1 DEF Init, Holds
<1> QED
  BY <1>2, <1>3 DEF FifoInv, ReadDeliversNext, Init

LEMMA ReadFifo ==
    ASSUME FifoInv, NEW n \in Nat, Read(n)
    PROVE  FifoInv'
<1>a. PICK got \in Returns(Room(Ring), supplied) :
       \E again \in IF AskedAgain(Ring, got)
                    THEN Returns(head, supplied + Stored(got)) ELSE {0} :
         /\ supplied' = supplied + Stored(got) + Stored(again)
         /\ failed' = (failed \/ MinusOne \in {got, again})
         /\ HandOut(Filled(Ring, got, again), n)
  BY Zenon DEF Read
<1>1. PICK again \in IF AskedAgain(Ring, got)
                     THEN Returns(head, supplied + Stored(got)) ELSE {0} :
        /\ supplied' = supplied + Stored(got) + Stored(again)
        /\ failed' = (failed \/ MinusOne \in {got, again})
        /\ HandOut(Filled(Ring, got, again), n)
  BY <1>a, Zenon
<1>2. mode' = mode /\ sequential' = sequential /\ moved' = moved
  BY DEF Read
<1>3. TypeOK
  BY DEF FifoInv
<1> DEFINE f == Filled(Ring, got, again)
<1>4. /\ f.head = head /\ f.tail \in Cells /\ f.size \in 0 .. Modulus - 1
      /\ f.buf \in [Cells -> 0 .. MaxBytes]
      /\ f = [head |-> f.head, tail |-> f.tail, size |-> f.size, buf |-> f.buf]
  BY <1>3, FilledTypes, Zenon
<1>5. /\ got \in Nat /\ again \in Nat
      /\ supplied + Stored(got) + Stored(again) \in 0 .. MaxBytes
      /\ got # MinusOne => got <= Room(Ring)
      /\ again # MinusOne => IF AskedAgain(Ring, got) THEN again <= head ELSE again = 0
  BY <1>3, SuppliedBy, Zenon
<1>6. HandOut(f, n)
  BY <1>1
<1>7. ASSUME ~moved, ~failed, got # MinusOne, again # MinusOne
      PROVE  /\ Holds(head', tail', size', buf', expected')
             /\ size' + expected' = supplied' + 1
             /\ answer' = "wrong" => filled' \/ sequential
  <2>1. Holds(head, tail, size, buf, expected) /\ size + expected = supplied + 1
    BY <1>7 DEF FifoInv
  <2>2. size < BufSize /\ supplied \in Nat
    BY <1>3, Constants DEF Read, TypeOK
  <2>3. f.size = size + got + again /\ Holds(head, f.tail, f.size, f.buf, expected)
    BY <1>5, <1>7, <2>1, <2>2, FilledHolds DEF Ring
  <2>4. supplied' = supplied + got + again
    BY <1>1, <1>7 DEF Stored
  <2>5. f.size + expected = supplied' + 1
    <3>1. size \in Nat /\ expected \in Nat
      BY <1>3, Constants DEF TypeOK
    <3> HIDE DEF f
    <3> QED
      BY <1>5, <2>1, <2>2, <2>3, <2>4, <3>1
  <2>6. supplied' \in 0 .. MaxBytes
    BY <1>1, <1>5
  <2>7. f = [head |-> head, tail |-> f.tail, size |-> f.size, buf |-> f.buf]
    BY <1>4, Zenon
  <2> HIDE DEF f
  <2>8. HandOut([head |-> head, tail |-> f.tail, size |-> f.size, buf |-> f.buf], n)
    BY <1>6, <2>7, Zenon
  <2>9. /\ Holds(head', tail', size', buf', expected') /\ size' + expected' = supplied' + 1
        /\ answer' = "wrong" => filled' \/ sequential
    BY <2>3, <2>5, <2>6, <2>8, HandOutNext, Zenon
  <2> QED
    BY <2>9
<1>8. /\ head' \in Cells /\ tail' \in Cells /\ size' \in 0 .. Modulus - 1
      /\ buf' \in [Cells -> 0 .. MaxBytes] /\ expected' \in 1 .. MaxBytes + 1
      /\ answer' \in {"none", "right", "wrong"} /\ filled' \in BOOLEAN
  <2>1. f.head \in Cells /\ expected \in 1 .. MaxBytes + 1
    BY <1>3, <1>4 DEF TypeOK
  <2> HIDE DEF f
  <2> QED
    BY <1>4, <1>6, <2>1, HandOutTypes
<1>9. TypeOK'
  <2>1. supplied' \in 0 .. MaxBytes /\ failed' \in BOOLEAN
    BY <1>1, <1>3, <1>5 DEF TypeOK
  <2> QED
    BY <1>2, <1>3, <1>8, <2>1 DEF TypeOK
<1>10. CASE moved \/ failed \/ got = MinusOne \/ again = MinusOne
  <2>1. moved' \/ failed'
    BY <1>1, <1>2, <1>10
  <2> QED
    BY <1>9, <2>1 DEF FifoInv, ReadDeliversNext
<1>11. CASE ~moved /\ ~failed /\ got # MinusOne /\ again # MinusOne
  BY <1>2, <1>7, <1>9, <1>11 DEF FifoInv, ReadDeliversNext
<1> QED
  BY <1>10, <1>11

LEMMA ReadFullFifo ==
    ASSUME FifoInv, NEW n \in Nat, ReadFull(n)
    PROVE  FifoInv'
<1>1. /\ HandOut([head |-> head, tail |-> tail, size |-> size, buf |-> buf], n)
      /\ mode' = mode /\ sequential' = sequential /\ supplied' = supplied
      /\ moved' = moved /\ failed' = failed
  BY DEF ReadFull, Ring
<1>2. TypeOK
  BY DEF FifoInv
<1>3. /\ head' \in Cells /\ tail' \in Cells /\ size' \in 0 .. Modulus - 1
      /\ buf' \in [Cells -> 0 .. MaxBytes] /\ expected' \in 1 .. MaxBytes + 1
      /\ answer' \in {"none", "right", "wrong"} /\ filled' \in BOOLEAN
  <2> DEFINE r == [head |-> head, tail |-> tail, size |-> size, buf |-> buf]
  <2>1. /\ r.head \in Cells /\ r.tail \in Cells /\ r.size \in 0 .. Modulus - 1
        /\ r.buf \in [Cells -> 0 .. MaxBytes] /\ expected \in 1 .. MaxBytes + 1
    BY <1>2 DEF TypeOK
  <2>2. HandOut(r, n)
    BY <1>1
  <2> HIDE DEF r
  <2> QED
    BY <2>1, <2>2, HandOutTypes
<1>4. TypeOK'
  BY <1>1, <1>2, <1>3 DEF TypeOK
<1>5. CASE moved \/ failed
  BY <1>1, <1>4, <1>5 DEF FifoInv, ReadDeliversNext
<1>6. CASE ~moved /\ ~failed
  <2>1. Holds(head, tail, size, buf, expected) /\ size + expected = supplied + 1
    BY <1>6 DEF FifoInv
  <2>2. supplied \in 0 .. MaxBytes
    BY <1>2 DEF TypeOK
  <2>3. /\ Holds(head', tail', size', buf', expected') /\ size' + expected' = supplied + 1
        /\ answer' = "wrong" => filled' \/ sequential
    BY <1>1, <2>1, <2>2, HandOutNext, Zenon
  <2> QED
    BY <1>1, <1>4, <2>3 DEF FifoInv, ReadDeliversNext
<1> QED
  BY <1>5, <1>6

\* Skip and Seek by n, which move the head and nothing else.
LEMMA MoveFifo ==
    ASSUME FifoInv, NEW n \in Nat, Skip(n) \/ Seek(n)
    PROVE  FifoInv'
<1>1. /\ TypeOK /\ head \in Nat /\ size \in Nat /\ expected \in 1 .. MaxBytes + 1
      /\ MaxBytes \in Nat
  BY Constants DEF FifoInv, TypeOK
<1>2. \E v \in Nat : head' = (head + v) % BufSize /\ Advance(v)
  <2>1. CASE Skip(n)
    <3>1. Smaller(n, size) \in Nat
      BY <1>1 DEF Smaller
    <3> QED
      BY <2>1, <3>1, Zenon DEF Skip
  <2>2. CASE Seek(n)
    BY <2>2, Zenon DEF Seek
  <2> QED
    BY <2>1, <2>2
<1>3. PICK v \in Nat : head' = (head + v) % BufSize /\ Advance(v)
  BY <1>2
<1>4. head' \in Cells
  <2> DEFINE a == head + v
  <2>1. a \in Nat
    BY <1>1
  <2> HIDE DEF a
  <2>2. a % BufSize \in Cells
    BY <2>1, Remainder
  <2> QED
    BY <1>3, <2>2 DEF a
<1>5. expected' \in 1 .. MaxBytes + 1
  BY <1>1, <1>3 DEF Advance, Smaller
<1>6. /\ moved' = TRUE /\ mode' = mode /\ sequential' = sequential /\ tail' = tail
      /\ size' = size /\ buf' = buf /\ supplied' = supplied /\ answer' = answer
      /\ filled' = filled /\ failed' = failed
  BY DEF Skip, Seek
<1>7. TypeOK'
  BY <1>1, <1>4, <1>5, <1>6 DEF TypeOK
<1> QED
  BY <1>6, <1>7 DEF FifoInv, ReadDeliversNext

LEMMA StepFifo == FifoInv /\ [Next]_vars => FifoInv'
<1> SUFFICES ASSUME FifoInv, [Next]_vars PROVE FifoInv'
  OBVIOUS
<1>1. ASSUME NEW m \in {"R", "W", "RW", "NONE"}, SetOpenMode(m) PROVE FifoInv'
  BY <1>1 DEF SetOpenMode, ringVars, readVars, FifoInv, TypeOK, ReadDeliversNext, Holds
<1>2. CASE UNCHANGED vars
  BY <1>2 DEF vars, ringVars, readVars, FifoInv, TypeOK, ReadDeliversNext, Holds
<1>3. ASSUME NEW n \in Asked, Read(n) \/ ReadFull(n) \/ Skip(n) \/ Seek(n)
      PROVE  FifoInv'
  <2>1. n \in Nat
    BY Constants DEF Asked
  <2> QED
    BY <1>3, <2>1, ReadFifo, ReadFullFifo, MoveFifo
<1>4. CASE ReadAll
  <2>1. size \in Nat
    BY Constants DEF FifoInv, TypeOK
  <2> QED
    BY <1>4, <2>1, ReadFifo, ReadFullFifo DEF ReadAll
<1> QED
  BY <1>1, <1>2, <1>3, <1>4 DEF Next

LEMMA AlwaysFifo == Spec => []FifoInv
BY InitFifo, StepFifo, PTL DEF Spec

\* Every variable keeps its type: no index leaves the buffer, whatever ReadData
\* returns.
THEOREM RingTypeCorrect == Spec => []TypeOK
<1>1. FifoInv => TypeOK
  BY DEF FifoInv
<1> QED
  BY <1>1, AlwaysFifo, PTL

\* Until Skip or Seek moves the head or ReadData fails, the ring is a FIFO of the
\* device's stream, and what Peek copies lies inside the buffer.
THEOREM RingIsAFifo == Spec => []RingIsFifo
<1>1. ASSUME FifoInv, ~moved, ~failed
      PROVE  /\ size + expected = supplied + 1 /\ tail = (head + size) % BufSize
             /\ size < BufSize =>
                  Copied(Ring, size) = [i \in 1 .. size |-> expected + i - 1]
             /\ \A n \in Asked : CopiedEnd(Ring, n) <= BufSize
  <2>1. Holds(head, tail, size, buf, expected) /\ size + expected = supplied + 1
    BY <1>1 DEF FifoInv
  <2>2. tail = (head + size) % BufSize /\ size \in Nat
    BY <2>1, Constants DEF Holds
  <2>3. size \in 0 .. size
    BY <2>2
  <2>4. ASSUME size < BufSize
        PROVE  Copied(Ring, size) = [i \in 1 .. size |-> expected + i - 1]
    <3> DEFINE r == [head |-> head, tail |-> tail, size |-> size, buf |-> buf]
    <3>1. \A n \in 0 .. size : Copied(r, n) = [i \in 1 .. n |-> expected + i - 1]
      BY <2>1, <2>4, CopiedIsNext
    <3> HIDE DEF r
    <3> QED
      BY <2>3, <3>1, Zenon DEF Ring, r
  <2>5. ASSUME NEW n \in Asked PROVE CopiedEnd(Ring, n) <= BufSize
    <3>1. n \in Nat
      BY Constants DEF Asked
    <3> QED
      BY <2>1, <3>1, EndInside, Zenon DEF Ring
  <2> QED
    BY <2>1, <2>2, <2>4, <2>5
<1>2. FifoInv => RingIsFifo
  BY <1>1, Zenon DEF RingIsFifo
<1> QED
  BY <1>2, AlwaysFifo, PTL

\* What Read hands out are the next bytes of the stream, unless the ring was full,
\* the device is sequential, the head was moved or ReadData failed.
THEOREM ReadInOrder == Spec => []ReadDeliversNext
<1>1. FifoInv => ReadDeliversNext
  BY DEF FifoInv
<1> QED
  BY <1>1, AlwaysFifo, PTL

-------------------------------------------------------------------------------
(* MCParts: the parts side by side.                                          *)

\* What is shown of a part holds where the parts stand side by side: each goes
\* through a behaviour of its own.
THEOREM EachPartIsItself ==
    PartsSpec => Spec /\ GetSpec /\ FileSpec /\ LogSpec /\ NumbersSpec
<1>1. PartsInit => Init /\ GetInit /\ FileInit /\ LogInit /\ NumbersInit
  BY DEF PartsInit
<1>2. ASSUME [PartsNext]_partsVars
      PROVE  /\ [Next]_vars /\ [GetNext]_getVars /\ [FileNext]_fileVars
             /\ [LogNext]_logVars /\ [NumbersNext]_numberVars
  BY <1>2 DEF PartsNext, partsVars
<1> QED
  BY <1>1, <1>2, PTL
  DEF PartsSpec, Spec, GetSpec, FileSpec, LogSpec, NumbersSpec

\* Type correctness of all of them, for any values of the constants.
THEOREM PartsTypeCorrect == PartsSpec => []PartsTypeOK
BY EachPartIsItself, RingTypeCorrect, FileTypeCorrect, LogTypeCorrect,
   NumbersTypeCorrect, PTL DEF PartsTypeOK

===============================================================================
