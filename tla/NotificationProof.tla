--------------------------- MODULE NotificationProof ---------------------------
(***************************************************************************)
(* Theorems about NotificationCenter, for every number of connections,     *)
(* threads of the pool and chunks.                                         *)
(***************************************************************************)
EXTENDS NotificationCenter, TLAPS

LEMMA CenterIsThread ==
    /\ Center \in Threads /\ Center \notin Workers
    /\ \A w \in Workers : w \in Threads
    /\ \A t \in Threads : t # Center => t \in Workers
BY CenterAssumption DEF Threads

\* What the proof needs of the types.
PcType == pc \in [Threads -> Places] /\ barrier \in BOOLEAN /\ overlapped \in BOOLEAN

\* Until two threads meet, whoever is between the loops has _barrier raised
\* and is alone there.
AloneInside ==
    ~overlapped =>
        /\ \A t \in Threads : pc[t] \in Section => barrier
        /\ \A t, u \in Threads : pc[t] \in Section /\ pc[u] \in Section => t = u

SpinInv == PcType /\ AloneInside

-------------------------------------------------------------------------------
LEMMA SpinInit ==
    ASSUME Init
    PROVE  SpinInv
<1>1. pc \in [Threads -> Places] /\ \A t \in Threads : pc[t] \notin Section
  BY CenterIsThread DEF Init, Places, Section
<1>2. barrier \in BOOLEAN /\ overlapped \in BOOLEAN
  BY Zenon DEF Init
<1> QED
  BY <1>1, <1>2 DEF SpinInv, PcType, AloneInside

\* A step that leaves _barrier alone and takes at most one thread to a place
\* from which it was as much inside before as after.
LEMMA PlainStep ==
    ASSUME SpinInv, UNCHANGED <<barrier, overlapped>>,
           \/ pc' = pc
           \/ \E t \in Threads, place \in Places :
                Goto(t, place) /\ (place \in Section => pc[t] \in Section)
    PROVE  SpinInv'
BY DEF SpinInv, PcType, AloneInside, Goto

LEMMA EnterStep ==
    ASSUME SpinInv, NEW t \in Threads, Enter(t)
    PROVE  SpinInv'
<1> USE DEF SpinInv, PcType, Goto
<1>1. pc' \in [Threads -> Places] /\ barrier' \in BOOLEAN /\ overlapped' \in BOOLEAN
  BY DEF Enter, Places
<1>2. CASE barrier
  <2>1. ~overlapped' => ~overlapped /\ \A u \in Threads : pc[u] \notin Section
    BY <1>2 DEF Enter, Inside
  <2>2. pc' = [pc EXCEPT ![t] = "load"] /\ barrier' = TRUE
    BY <1>2 DEF Enter
  <2> QED
    BY <1>1, <2>1, <2>2 DEF AloneInside
<1>3. CASE ~barrier
  <2>1. pc' = [pc EXCEPT ![t] = "enter"] /\ barrier' = TRUE /\ overlapped' = overlapped
    BY <1>3 DEF Enter
  <2> QED
    BY <1>1, <2>1 DEF AloneInside, Section
<1> QED
  BY <1>2, <1>3

LEMMA LeaveStep ==
    ASSUME SpinInv, NEW t \in Threads, Leave(t)
    PROVE  SpinInv'
<1> USE DEF SpinInv, PcType, Goto
<1>1. pc' \in [Threads -> Places] /\ barrier' \in BOOLEAN /\ overlapped' = overlapped
      /\ pc[t] \in Section
  BY DEF Leave, Places, Section
<1>2. ~overlapped => barrier
  BY <1>1 DEF AloneInside
<1>3. ~overlapped => pc'[t] \notin Section
  BY <1>2 DEF Leave, Section
<1>4. \A u \in Threads : u # t => pc'[u] = pc[u]
  BY DEF Leave
<1> QED
  BY <1>1, <1>3, <1>4 DEF AloneInside

LEMMA SpinStep ==
    ASSUME SpinInv, [Next]_vars
    PROVE  SpinInv'
<1> USE CenterIsThread DEF channelVars, countVars, netVars, threadVars
<1>1. ASSUME NEW t \in Threads, Barrier(t) PROVE SpinInv'
  <2>1. CASE UseErased(t)
    BY <2>1, PlainStep DEF UseErased
  <2>2. CASE Load(t)
    BY <2>2, PlainStep DEF Load, Section, Places
  <2>3. CASE Store(t)
    BY <2>3, PlainStep DEF Store, Section, Places
  <2> QED
    BY <1>1, <2>1, <2>2, <2>3, EnterStep, LeaveStep DEF Barrier
<1>2. ASSUME NEW w \in Workers, WorkerStep(w) PROVE SpinInv'
  <2>1. ASSUME NEW f \in Fds, HandleEvent(w, f) PROVE SpinInv'
    BY <2>1, PlainStep DEF HandleEvent, Section, Places
  <2>2. CASE Read(w)
    BY <2>2, PlainStep DEF Read, Section, Places
  <2>3. CASE Inactive(w)
    BY <2>3, PlainStep DEF Inactive, Section, Places
  <2>4. CASE NotifyClose(w)
    BY <2>4, PlainStep DEF NotifyClose, Section, Places
  <2>5. CASE Find(w)
    BY <2>5, PlainStep DEF Find, Section, Places
  <2>6. CASE Emplace(w)
    BY <2>6, PlainStep DEF Emplace, Section, Places
  <2> QED
    BY <1>1, <1>2, <2>1, <2>2, <2>3, <2>4, <2>5, <2>6 DEF WorkerStep
<1>3. CASE CenterStep
  <2>1. CASE Copy
    BY <2>1, PlainStep DEF Copy, Section, Places
  <2>2. CASE CopyDone
    BY <2>2, PlainStep DEF CopyDone, Section, Places
  <2>3. ASSUME NEW f \in Fds, SkipGone(f) PROVE SpinInv'
    BY <2>3, PlainStep DEF SkipGone
  <2>4. ASSUME NEW f \in Fds, TakeData(f) PROVE SpinInv'
    BY <2>4, PlainStep DEF TakeData, Section, Places
  <2> QED
    BY <1>1, <1>3, <2>1, <2>2, <2>3, <2>4 DEF CenterStep
<1>4. CASE \E f \in Fds : PeerSend(f) \/ PeerClose(f) \/ Dispatch(f) \/ EraseChannel(f)
  BY <1>4, PlainStep DEF PeerSend, PeerClose, Dispatch, EraseChannel
<1>5. CASE MapRace \/ UNCHANGED vars
  BY <1>5, PlainStep DEF MapRace, vars
<1> QED
  BY <1>1, <1>2, <1>3, <1>4, <1>5 DEF Next, LoopStep

LEMMA SpinInvHolds == Spec => []SpinInv
<1>1. Init => SpinInv
  BY SpinInit
<1>2. SpinInv /\ [Next]_vars => SpinInv'
  BY SpinStep
<1> QED
  BY <1>1, <1>2, PTL DEF Spec

\* _barrier goes wrong only by letting two threads in together, which the
\* inverted loop of NotificationCenter.h:112 does: until then no thread that
\* leaves (line 65) finds the barrier lowered and spins.
THEOREM SpinNeedsOverlap == Spec => []SpinsOnlyAfterOverlap
<1>1. SpinInv => SpinsOnlyAfterOverlap
  BY DEF SpinInv, AloneInside, SpinsOnlyAfterOverlap, Section
<1> QED
  BY <1>1, SpinInvHolds, PTL

-------------------------------------------------------------------------------
(* Types.                                                                    *)

LEMMA TypeInit ==
    ASSUME Init
    PROVE  TypeOK
<1> USE CenterIsThread, CenterAssumption
<1>1. (CHOOSE f \in Fds : TRUE) \in Fds
  OBVIOUS
<1>2. /\ sent \in [Fds -> 0 .. MaxChunks] /\ got = sent /\ taken = sent
      /\ queued \in [Fds -> Nat] /\ \A f \in Fds : sent[f] = 0
  BY DEF Init
<1>3. /\ eof \in [Fds -> BOOLEAN] /\ edge \in [Fds -> BOOLEAN]
      /\ active \in [Fds -> BOOLEAN] /\ present \in [Fds -> BOOLEAN]
      /\ barrier \in BOOLEAN /\ overlapped \in BOOLEAN /\ crashed \in BOOLEAN
  BY Zenon DEF Init
<1>4. /\ ready \in [Fds -> States] /\ reg \in [Threads -> States]
      /\ pc \in [Threads -> Places] /\ \A t \in Threads : pc[t] # "store"
      /\ todo \in SUBSET Fds
  BY DEF Init, States, Places
<1>5. at \in [Threads -> Fds]
  BY <1>1 DEF Init
<1>6. /\ handed \in [Fds -> SUBSET (1 .. MaxChunks)] /\ beyond = handed
      /\ \A f \in Fds : handed[f] = {}
  BY DEF Init
<1>7. ASSUME NEW f \in Fds
      PROVE  /\ taken[f] <= got[f] /\ got[f] <= sent[f]
             /\ handed[f] = (1 .. taken[f]) \ beyond[f]
             /\ beyond[f] \ (1 .. taken[f]) = taken[f] + Room + 1 .. got[f]
  <2>1. sent[f] = 0 /\ got[f] = 0 /\ taken[f] = 0 /\ handed[f] = {} /\ beyond[f] = {}
    BY <1>2, <1>6
  <2> QED
    BY <2>1
<1> QED
  BY <1>2, <1>3, <1>4, <1>5, <1>6, <1>7 DEF TypeOK

LEMMA TypeStep ==
    ASSUME TypeOK, [Next]_vars
    PROVE  TypeOK'
<1> USE CenterIsThread, CenterAssumption DEF TypeOK, netVars, channelVars, countVars, threadVars,
        Goto, States
<1>1. ASSUME NEW f \in Fds, PeerSend(f) PROVE TypeOK'
  BY <1>1 DEF PeerSend
<1>2. ASSUME NEW f \in Fds, PeerClose(f) PROVE TypeOK'
  BY <1>2 DEF PeerClose
<1>3. ASSUME NEW f \in Fds, Dispatch(f) PROVE TypeOK'
  BY <1>3 DEF Dispatch
<1>4. ASSUME NEW f \in Fds, EraseChannel(f) PROVE TypeOK'
  BY <1>4 DEF EraseChannel
<1>5. ASSUME NEW w \in Workers, NEW f \in Fds, HandleEvent(w, f) PROVE TypeOK'
  BY <1>5 DEF HandleEvent, Places
<1>6. ASSUME NEW w \in Workers, Read(w) PROVE TypeOK'
  BY <1>6 DEF Read, Places
<1>7. ASSUME NEW w \in Workers, Inactive(w) PROVE TypeOK'
  BY <1>7 DEF Inactive, Places
<1>8. ASSUME NEW w \in Workers, NotifyClose(w) PROVE TypeOK'
  BY <1>8 DEF NotifyClose, Places
<1>9. ASSUME NEW w \in Workers, Find(w) PROVE TypeOK'
  BY <1>9 DEF Find, Places
<1>10. ASSUME NEW w \in Workers, Emplace(w) PROVE TypeOK'
  BY <1>10 DEF Emplace, Places
<1>11. ASSUME NEW t \in Threads, Enter(t) PROVE TypeOK'
  BY <1>11 DEF Enter, Places
<1>12. ASSUME NEW t \in Threads, UseErased(t) PROVE TypeOK'
  BY <1>12 DEF UseErased
<1>13. ASSUME NEW t \in Threads, Load(t) PROVE TypeOK'
  BY <1>13 DEF Load, Places, Pending
<1>14. ASSUME NEW t \in Threads, Store(t) PROVE TypeOK'
  BY <1>14 DEF Store, Places, Lowered, Raised
<1>15. ASSUME NEW t \in Threads, Leave(t) PROVE TypeOK'
  BY <1>15 DEF Leave, Places
<1>16. CASE Copy
  BY <1>16 DEF Copy, Places
<1>17. CASE CopyDone
  BY <1>17 DEF CopyDone, Places
<1>18. ASSUME NEW f \in Fds, SkipGone(f) PROVE TypeOK'
  BY <1>18 DEF SkipGone
<1>19. ASSUME NEW f \in Fds, TakeData(f) PROVE TypeOK'
  <2>1. CASE active[f]
    <3>1. /\ taken' = [taken EXCEPT ![f] = got[f]]
          /\ handed' = [handed EXCEPT ![f] = @ \cup Substr(f)]
          /\ UNCHANGED <<sent, got, beyond>>
      BY <1>19, <2>1 DEF TakeData
    <3>2. handed'[f] = (1 .. taken'[f]) \ beyond[f]
      BY <3>1 DEF Substr
    <3>3. beyond[f] \ (1 .. taken'[f]) = taken'[f] + Room + 1 .. got[f]
      BY <3>1
    <3>4. handed' \in [Fds -> SUBSET (1 .. MaxChunks)]
      BY <3>1 DEF Substr
    <3>5. \A g \in Fds : g # f => taken'[g] = taken[g] /\ handed'[g] = handed[g]
      BY <3>1
    <3>6. taken' \in [Fds -> 0 .. MaxChunks] /\ taken'[f] = got[f]
      BY <3>1
    <3> QED
      BY <1>19, <3>1, <3>2, <3>3, <3>4, <3>5, <3>6 DEF TakeData, Places
  <2>2. CASE ~active[f]
    <3>1. taken' = taken /\ handed' = handed
      BY <1>19, <2>2 DEF TakeData
    <3> QED
      BY <1>19, <3>1 DEF TakeData, Places
  <2> QED
    BY <2>1, <2>2
<1>20. CASE MapRace
  BY <1>20 DEF MapRace
<1>21. CASE UNCHANGED vars
  BY <1>21 DEF vars
<1> HIDE DEF TypeOK
<1>22. ASSUME NEW w \in Workers, WorkerStep(w) PROVE TypeOK'
  BY <1>5, <1>6, <1>7, <1>8, <1>9, <1>10, <1>11, <1>12, <1>13, <1>14, <1>15, <1>22
     DEF WorkerStep, Barrier
<1>23. CASE CenterStep
  BY <1>11, <1>12, <1>13, <1>14, <1>15, <1>16, <1>17, <1>18, <1>19, <1>23
     DEF CenterStep, Barrier
<1> QED
  BY <1>1, <1>2, <1>3, <1>4, <1>20, <1>21, <1>22, <1>23 DEF Next, LoopStep

\* Type correctness, with what is counted: chunks are taken after they are read
\* and read after they are sent, and of those taken the application has all but
\* what Read (Channel.h:68) had stored behind the BUFSIZE bytes GetReceivedData
\* (Channel.h:160) hands out.
THEOREM CenterTypeCorrect == Spec => []TypeOK
<1>1. Init => TypeOK
  BY TypeInit
<1>2. TypeOK /\ [Next]_vars => TypeOK'
  BY TypeStep
<1> QED
  BY <1>1, <1>2, PTL DEF Spec

-------------------------------------------------------------------------------
(* ReadyIsSeen.  The state of a connection is as high as the data that waits *)
(* asks for: high enough to survive the step down that HandleReadyData may   *)
(* still have to make for what it took before.                               *)

\* HandleReadyData has taken what there was of f and not lowered its state yet.
Lowering(f) == at[Center] = f /\ pc[Center] \in {"enter", "load", "store"}

\* A thread will notify of f.  One about to emplace will only if no other was
\* faster; what it read is then older than the entry.
Coming(f) ==
    \E w \in Workers :
        /\ at[w] = f
        /\ \/ pc[w] \in {"inactive", "erase", "find", "enter", "load", "store"}
           \/ pc[w] = "emplace" /\ ready[f] = "none"

\* Entries of live channels stay while a thread deals with them.
EntryInv ==
    /\ \A t \in Threads :
         /\ pc[t] \in {"enter", "load", "store"} /\ active[at[t]] => ready[at[t]] # "none"
         /\ pc[t] = "erase" => ~active[at[t]]
    /\ \A f \in todo : active[f] => ready[f] \in Pending
    /\ \A f \in Fds : Lowering(f) => f \notin todo /\ (active[f] => ready[f] \in Pending)

\* What is stored back was loaded from the state that is overwritten.
LoadedInv ==
    ~overlapped =>
        \A t \in Threads :
            pc[t] = "store" /\ active[at[t]] => reg[t] = ready[at[t]]

WaitingInv ==
    \A f \in Fds :
        taken[f] < got[f] /\ active[f] /\ ~overlapped /\ ~Coming(f) =>
            ready[f] = "MOREPLUS" \/ (ready[f] = "MORE" /\ ~Lowering(f))

SeenInv == TypeOK /\ AloneInside /\ EntryInv /\ LoadedInv /\ WaitingInv

\* A step that leaves alone what the invariants are about, but for threads that
\* go between places they do not mention.
LEMMA Aside ==
    ASSUME SeenInv, UNCHANGED <<taken, got, active, ready, reg, at, todo, overlapped>>,
           pc' = pc \/ \E t \in Threads, place \in Places :
             /\ Goto(t, place)
             /\ pc[t] \in {"idle", "read", "leave", "copy", "pick"}
             /\ place \in {"idle", "read", "leave", "copy", "pick"}
    PROVE  EntryInv' /\ LoadedInv' /\ WaitingInv'
<1>1. /\ pc \in [Threads -> Places]
      /\ EntryInv /\ LoadedInv /\ WaitingInv
  BY DEF SeenInv, TypeOK
<1>2. ASSUME NEW t \in Threads, NEW s \in {"inactive", "erase", "find", "emplace",
             "enter", "load", "store"}
      PROVE  pc'[t] = s <=> pc[t] = s
  BY <1>1, <1>2 DEF Goto
<1>3. EntryInv'
  BY <1>1, <1>2, CenterIsThread DEF EntryInv, Lowering
<1>4. LoadedInv'
  BY <1>1, <1>2 DEF LoadedInv
<1>5. WaitingInv'
  <2>1. \A f \in Fds : (Coming(f)' <=> Coming(f)) /\ (Lowering(f)' <=> Lowering(f))
    BY <1>2, CenterIsThread DEF Coming, Lowering
  <2> QED
    BY <1>1, <2>1 DEF WaitingInv
<1> QED
  BY <1>3, <1>4, <1>5

\* What each of the following lemmas needs of the invariant.
Known ==
    /\ pc \in [Threads -> Places] /\ at \in [Threads -> Fds]
    /\ ready \in [Fds -> States] /\ reg \in [Threads -> States]
    /\ got \in [Fds -> 0 .. MaxChunks] /\ taken \in [Fds -> 0 .. MaxChunks]
    /\ active \in [Fds -> BOOLEAN]
    /\ AloneInside /\ EntryInv /\ LoadedInv /\ WaitingInv

LEMMA ReadSeen ==
    ASSUME SeenInv, NEW w \in Workers, Read(w)
    PROVE  EntryInv' /\ LoadedInv' /\ WaitingInv'
<1> USE CenterIsThread DEF Known, netVars, channelVars, countVars, threadVars, Goto
<1>1. Known
  BY DEF SeenInv, TypeOK
<1>2. EntryInv'
  BY <1>1 DEF Read, EntryInv, Lowering
<1>3. LoadedInv'
  BY <1>1 DEF Read, LoadedInv
<1>4. WaitingInv'
  BY <1>1 DEF Read, WaitingInv, Coming, Lowering
<1> QED
  BY <1>2, <1>3, <1>4

LEMMA InactiveSeen ==
    ASSUME SeenInv, NEW w \in Workers, Inactive(w)
    PROVE  EntryInv' /\ LoadedInv' /\ WaitingInv'
<1> USE CenterIsThread DEF Known, netVars, channelVars, countVars, threadVars, Goto
<1>1. Known
  BY DEF SeenInv, TypeOK
<1>2. EntryInv'
  BY <1>1 DEF Inactive, EntryInv, Lowering
<1>3. LoadedInv'
  BY <1>1 DEF Inactive, LoadedInv
<1>4. WaitingInv'
  BY <1>1 DEF Inactive, WaitingInv, Coming, Lowering
<1> QED
  BY <1>2, <1>3, <1>4

LEMMA NotifyCloseSeen ==
    ASSUME SeenInv, NEW w \in Workers, NotifyClose(w)
    PROVE  EntryInv' /\ LoadedInv' /\ WaitingInv'
<1> USE CenterIsThread DEF Known, netVars, channelVars, countVars, threadVars, Goto
<1>1. Known
  BY DEF SeenInv, TypeOK
<1>2. /\ ~active[at[w]] /\ UNCHANGED <<taken, got, active, reg, at, todo, overlapped>>
      /\ \A f \in Fds : f # at[w] => ready'[f] = ready[f]
      /\ \A t \in Threads : t # w => pc'[t] = pc[t]
      /\ pc[w] = "erase" /\ pc'[w] = "idle"
  BY <1>1 DEF NotifyClose, EntryInv
<1>3. EntryInv'
  <2>1. \A t \in Threads :
          /\ pc'[t] \in {"enter", "load", "store"} /\ active'[at'[t]] =>
               ready'[at'[t]] # "none"
          /\ pc'[t] = "erase" => ~active'[at'[t]]
    BY <1>1, <1>2 DEF EntryInv
  <2>2. \A f \in Fds : (Lowering(f)' <=> Lowering(f))
    BY <1>2 DEF Lowering
  <2>3. \A f \in Fds : active[f] => ready'[f] = ready[f]
    BY <1>2
  <2>4. todo \subseteq Fds
    BY DEF SeenInv, TypeOK
  <2> QED
    BY <1>1, <1>2, <2>1, <2>2, <2>3, <2>4 DEF EntryInv
<1>4. LoadedInv'
  BY <1>1, <1>2 DEF LoadedInv
<1>5. WaitingInv'
  <2>1. ASSUME NEW f \in Fds, active[f]
        PROVE  /\ (Coming(f)' <=> Coming(f)) /\ (Lowering(f)' <=> Lowering(f))
               /\ ready'[f] = ready[f]
    BY <1>2, <2>1 DEF Coming, Lowering
  <2> QED
    BY <1>1, <1>2, <2>1 DEF WaitingInv
<1> QED
  BY <1>3, <1>4, <1>5

LEMMA FindSeen ==
    ASSUME SeenInv, NEW w \in Workers, Find(w)
    PROVE  EntryInv' /\ LoadedInv' /\ WaitingInv'
<1> USE CenterIsThread DEF Known, netVars, channelVars, countVars, threadVars, Goto
<1>1. Known
  BY DEF SeenInv, TypeOK
<1>2. EntryInv'
  BY <1>1 DEF Find, EntryInv, Lowering
<1>3. LoadedInv'
  BY <1>1 DEF Find, LoadedInv
<1>4. WaitingInv'
  BY <1>1 DEF Find, WaitingInv, Coming, Lowering
<1> QED
  BY <1>2, <1>3, <1>4

LEMMA HandleEventSeen ==
    ASSUME SeenInv, NEW w \in Workers, NEW f \in Fds, HandleEvent(w, f)
    PROVE  EntryInv' /\ LoadedInv' /\ WaitingInv'
<1> USE CenterIsThread DEF Known, netVars, channelVars, countVars, threadVars, Goto
<1>1. Known
  BY DEF SeenInv, TypeOK
<1>2. EntryInv'
  BY <1>1 DEF HandleEvent, EntryInv, Lowering
<1>3. LoadedInv'
  BY <1>1 DEF HandleEvent, LoadedInv
<1>4. WaitingInv'
  BY <1>1 DEF HandleEvent, WaitingInv, Coming, Lowering
<1> QED
  BY <1>2, <1>3, <1>4

LEMMA EmplaceSeen ==
    ASSUME SeenInv, NEW w \in Workers, Emplace(w)
    PROVE  EntryInv' /\ LoadedInv' /\ WaitingInv'
<1> USE CenterIsThread DEF Known, netVars, channelVars, countVars, threadVars, Goto
<1>1. Known
  BY DEF SeenInv, TypeOK
<1>2. /\ UNCHANGED <<taken, got, active, reg, at, todo, overlapped>>
      /\ \A t \in Threads : t # w => pc'[t] = pc[t]
      /\ pc[w] = "emplace" /\ pc'[w] = "idle"
      /\ ready' = IF ready[at[w]] = "none" THEN [ready EXCEPT ![at[w]] = "MORE"]
                                          ELSE ready
  BY <1>1 DEF Emplace
<1>3. CASE ready[at[w]] = "none"
  <2>1. /\ ready'[at[w]] = "MORE"
        /\ \A f \in Fds : f # at[w] => ready'[f] = ready[f]
    BY <1>1, <1>2, <1>3
  <2>2. \A f \in Fds : Lowering(f)' <=> Lowering(f)
    BY <1>2 DEF Lowering
  <2>3. active[at[w]] => ~Lowering(at[w])
    BY <1>1, <1>3 DEF EntryInv, Lowering
  <2>4. EntryInv'
    <3>1. todo \subseteq Fds
      BY DEF SeenInv, TypeOK
    <3> QED
      BY <1>1, <1>2, <2>1, <2>2, <3>1 DEF EntryInv, Pending
  <2>5. LoadedInv'
    BY <1>1, <1>2, <1>3, <2>1 DEF LoadedInv, EntryInv
  <2>6. WaitingInv'
    <3>1. ASSUME NEW f \in Fds, f # at[w]
          PROVE  Coming(f)' <=> Coming(f)
      BY <1>2, <2>1, <3>1 DEF Coming
    <3> QED
      BY <1>1, <1>2, <2>1, <2>2, <2>3, <3>1 DEF WaitingInv
  <2> QED
    BY <2>4, <2>5, <2>6
<1>4. CASE ready[at[w]] # "none"
  <2>1. ready' = ready /\ \A f \in Fds : Lowering(f)' <=> Lowering(f)
    BY <1>2, <1>4 DEF Lowering
  <2>2. \A f \in Fds : Coming(f)' <=> Coming(f)
    BY <1>2, <1>4, <2>1 DEF Coming
  <2>3. EntryInv' /\ LoadedInv'
    BY <1>1, <1>2, <2>1 DEF EntryInv, LoadedInv
  <2>4. WaitingInv'
    BY <1>1, <1>2, <2>1, <2>2 DEF WaitingInv
  <2> QED
    BY <2>3, <2>4
<1> QED
  BY <1>3, <1>4

LEMMA EnterSeen ==
    ASSUME SeenInv, NEW t \in Threads, Enter(t)
    PROVE  EntryInv' /\ LoadedInv' /\ WaitingInv'
<1> USE CenterIsThread DEF Known, netVars, channelVars, countVars, threadVars, Goto
<1>1. Known
  BY DEF SeenInv, TypeOK
<1>2. EntryInv'
  BY <1>1 DEF Enter, EntryInv, Lowering
<1>3. LoadedInv'
  BY <1>1 DEF Enter, LoadedInv
<1>4. WaitingInv'
  BY <1>1 DEF Enter, WaitingInv, Coming, Lowering
<1> QED
  BY <1>2, <1>3, <1>4

LEMMA LoadSeen ==
    ASSUME SeenInv, NEW t \in Threads, Load(t)
    PROVE  EntryInv' /\ LoadedInv' /\ WaitingInv'
<1> USE CenterIsThread DEF Known, netVars, channelVars, countVars, threadVars, Goto
<1>1. Known
  BY DEF SeenInv, TypeOK
<1>2. EntryInv'
  BY <1>1 DEF Load, EntryInv, Lowering, Pending
<1>3. LoadedInv'
  <2>1. /\ pc[t] = "load" /\ UNCHANGED <<ready, active, at, overlapped>>
        /\ \A u \in Threads : u # t => pc'[u] = pc[u] /\ reg'[u] = reg[u]
    BY <1>1 DEF Load
  <2>2. active[at[t]] => reg'[t] = ready[at[t]]
    BY <1>1 DEF Load, EntryInv
  <2> QED
    BY <1>1, <2>1, <2>2 DEF LoadedInv
<1>4. WaitingInv'
  BY <1>1 DEF Load, WaitingInv, Coming, Lowering, Pending
<1> QED
  BY <1>2, <1>3, <1>4

LEMMA StoreSeen ==
    ASSUME SeenInv, NEW t \in Threads, Store(t)
    PROVE  EntryInv' /\ LoadedInv' /\ WaitingInv'
<1> USE CenterIsThread DEF Known, netVars, channelVars, countVars, threadVars, Goto
<1>1. Known
  BY DEF SeenInv, TypeOK
<1>2. EntryInv'
  BY <1>1 DEF Store, EntryInv, Lowering, Pending, Raised, Lowered
<1>3. LoadedInv'
  BY <1>1 DEF Store, LoadedInv, AloneInside, Section, States
<1>4. WaitingInv'
  BY <1>1 DEF Store, WaitingInv, Coming, Lowering, Pending, Raised, Lowered,
     EntryInv, LoadedInv
<1> QED
  BY <1>2, <1>3, <1>4

LEMMA TakeDataSeen ==
    ASSUME SeenInv, NEW f \in Fds, TakeData(f)
    PROVE  EntryInv' /\ LoadedInv' /\ WaitingInv'
<1> USE CenterIsThread DEF Known, netVars, channelVars, countVars, threadVars, Goto
<1>1. Known
  BY DEF SeenInv, TypeOK
<1>2. EntryInv'
  BY <1>1 DEF TakeData, EntryInv, Lowering, Pending
<1>3. LoadedInv'
  BY <1>1 DEF TakeData, LoadedInv, Pending
<1>4. WaitingInv'
  BY <1>1 DEF TakeData, WaitingInv, Coming, Lowering, Pending
<1> QED
  BY <1>2, <1>3, <1>4

LEMMA SkipSeen ==
    ASSUME SeenInv, NEW f \in Fds, SkipGone(f)
    PROVE  EntryInv' /\ LoadedInv' /\ WaitingInv'
<1> USE CenterIsThread DEF Known, netVars, channelVars, countVars, threadVars, Goto
<1>1. Known
  BY DEF SeenInv, TypeOK
<1>2. EntryInv'
  BY <1>1 DEF SkipGone, EntryInv, Lowering
<1>3. LoadedInv'
  BY <1>1 DEF SkipGone, LoadedInv
<1>4. WaitingInv'
  BY <1>1 DEF SkipGone, WaitingInv, Coming, Lowering
<1> QED
  BY <1>2, <1>3, <1>4

LEMMA CopySeen ==
    ASSUME SeenInv, Copy
    PROVE  EntryInv' /\ LoadedInv' /\ WaitingInv'
<1> USE CenterIsThread DEF Known, netVars, channelVars, countVars, threadVars, Goto
<1>1. Known
  BY DEF SeenInv, TypeOK
<1>2. EntryInv'
  BY <1>1 DEF Copy, EntryInv, Lowering, Pending
<1>3. LoadedInv'
  BY <1>1 DEF Copy, LoadedInv
<1>4. WaitingInv'
  BY <1>1 DEF Copy, WaitingInv, Coming, Lowering
<1> QED
  BY <1>2, <1>3, <1>4

LEMMA SeenStep ==
    ASSUME SeenInv, [Next]_vars
    PROVE  SeenInv'
<1> USE CenterIsThread DEF netVars, channelVars, countVars, threadVars
<1> DEFINE Goal == EntryInv' /\ LoadedInv' /\ WaitingInv'
<1>1. TypeOK' /\ AloneInside'
  BY TypeStep, SpinStep DEF SeenInv, SpinInv, PcType, TypeOK
<1>2. ASSUME NEW t \in Threads, Barrier(t) PROVE Goal
  <2>1. CASE UseErased(t)
    BY <2>1, Aside DEF UseErased
  <2>2. CASE Leave(t)
    <3>1. \E place \in Places :
            Goto(t, place) /\ place \in {"idle", "read", "leave", "copy", "pick"}
      BY <2>2 DEF Leave, Places
    <3> QED
      BY <2>2, <3>1, Aside DEF Leave
  <2> QED
    BY <1>2, <2>1, <2>2, EnterSeen, LoadSeen, StoreSeen DEF Barrier
<1>3. ASSUME NEW w \in Workers, WorkerStep(w) PROVE Goal
  BY <1>2, <1>3, HandleEventSeen, ReadSeen, InactiveSeen, NotifyCloseSeen, FindSeen,
     EmplaceSeen DEF WorkerStep
<1>4. ASSUME CenterStep PROVE Goal
  <2>1. CASE Copy
    BY <2>1, CopySeen
  <2>2. CASE CopyDone
    BY <2>2, Aside DEF CopyDone, Places
  <2>3. ASSUME NEW f \in Fds, SkipGone(f) PROVE Goal
    BY <2>3, SkipSeen
  <2> QED
    BY <1>2, <1>4, <2>1, <2>2, <2>3, TakeDataSeen DEF CenterStep
<1>5. ASSUME NEW f \in Fds,
             PeerSend(f) \/ PeerClose(f) \/ Dispatch(f) \/ EraseChannel(f)
      PROVE  Goal
  BY <1>5, Aside DEF PeerSend, PeerClose, Dispatch, EraseChannel
<1>6. ASSUME MapRace \/ UNCHANGED vars PROVE Goal
  BY <1>6, Aside DEF MapRace, vars
<1> QED
  BY <1>1, <1>2, <1>3, <1>4, <1>5, <1>6 DEF Next, LoopStep, SeenInv

LEMMA SeenInit ==
    ASSUME Init
    PROVE  SeenInv
<1> USE CenterIsThread
<1>1. TypeOK /\ AloneInside
  BY TypeInit, SpinInit DEF SpinInv
<1>2. /\ \A t \in Threads : pc[t] \in {"copy", "idle"}
      /\ todo = {} /\ \A f \in Fds : got[f] = 0 /\ taken[f] = 0
  BY DEF Init
<1> QED
  BY <1>1, <1>2 DEF SeenInv, EntryInv, LoadedInv, WaitingInv, Lowering

\* Data that waits in a live channel is about to be notified, or the next call
\* of HandleReadyData sees it, for any number of connections and threads, as
\* long as no two threads were inside _barrier together (NotifyDataReady and
\* HandleReadyData; NotificationCenter.h:112 lets them in).
THEOREM WaitingDataIsSeen == Spec => []ReadyIsSeen
<1>1. SeenInv => ReadyIsSeen
  BY DEF SeenInv, WaitingInv, ReadyIsSeen, Notifying, Coming, Pending
<1>2. Init => SeenInv
  BY SeenInit
<1>3. SeenInv /\ [Next]_vars => SeenInv'
  BY SeenStep
<1> QED
  BY <1>1, <1>2, <1>3, PTL DEF Spec

===============================================================================
