----------------------------- MODULE GlobalInstance -----------------------------
(***************************************************************************)
(* The first use of an object the whole process shares: the creation of    *)
(* the pool in ThreadPool::GetGlobalThreadPool (include/server/threadpool/ *)
(* ThreadPool.h) and of the logger in Logger::GetLogger (include/server/   *)
(* logging/Logging.h).  Both test a pointer without the mutex, and again   *)
(* with it.                                                                *)
(*                                                                         *)
(* The test without the mutex is a data race with the store.  The builds   *)
(* this library is for (x86-64) store the pointer after the constructor,   *)
(* which starts threads and so cannot be moved: the racing thread sees no  *)
(* object or a built one.                                                  *)
(***************************************************************************)
EXTENDS Naturals

CONSTANTS Callers,  \* the threads that call Get
          Nobody

ASSUME GetAssumption == Nobody \notin Callers

VARIABLES
    instance,  \* the static pointer: which object, 0 for none
    built,     \* objects built so far
    holder,    \* who holds the static mutex
    getPc,     \* where each thread is
    mine       \* the object each thread has built and not yet stored

getVars == <<instance, built, holder, getPc, mine>>

GetInit ==
    /\ instance = 0 /\ built = 0
    /\ holder = Nobody
    /\ getPc = [t \in Callers |-> "idle"]
    /\ mine = [t \in Callers |-> 0]

Goto(t, place) == getPc' = [getPc EXCEPT ![t] = place]

Call(t) ==
    /\ getPc[t] \in {"idle", "using"}
    /\ Goto(t, "test")
    /\ UNCHANGED <<instance, built, holder, mine>>

Test(t) ==
    /\ getPc[t] = "test"
    /\ Goto(t, IF instance = 0 THEN "lock" ELSE "using")
    /\ UNCHANGED <<instance, built, holder, mine>>

Lock(t) ==
    /\ getPc[t] = "lock"
    /\ holder = Nobody
    /\ holder' = t
    /\ Goto(t, "retest")
    /\ UNCHANGED <<instance, built, mine>>

\* Seeded fault: the second test is missing.
RetestForgotten(t) ==
    /\ getPc[t] = "retest"
    /\ Goto(t, "build")
    /\ UNCHANGED <<instance, built, holder, mine>>

Retest(t) ==
    /\ getPc[t] = "retest"
    /\ Goto(t, IF instance = 0 THEN "build" ELSE "unlock")
    /\ UNCHANGED <<instance, built, holder, mine>>

\* make_shared or make_unique: the constructor starts the object's threads.
Build(t) ==
    /\ getPc[t] = "build"
    /\ built' = built + 1
    /\ mine' = [mine EXCEPT ![t] = built + 1]
    /\ Goto(t, "publish")
    /\ UNCHANGED <<instance, holder>>

Publish(t) ==
    /\ getPc[t] = "publish"
    /\ instance' = mine[t]
    /\ mine' = [mine EXCEPT ![t] = 0]
    /\ Goto(t, "unlock")
    /\ UNCHANGED <<built, holder>>

Unlock(t) ==
    /\ getPc[t] = "unlock"
    /\ holder' = Nobody
    /\ Goto(t, "using")
    /\ UNCHANGED <<instance, built, mine>>

GetStep(t) ==
    \/ Test(t) \/ Lock(t) \/ Retest(t) \/ Build(t) \/ Publish(t) \/ Unlock(t)

GetNext == \E t \in Callers : Call(t) \/ GetStep(t)

GetSpec == GetInit /\ [][GetNext]_getVars

-------------------------------------------------------------------------------
(* Properties.                                                               *)

\* However many threads need the pool or the logger for the first time
\* together, one object is built, and whoever got a reference has that one:
\* a second object would destroy the first while it is in use.
OneInstance ==
    /\ built <= 1
    /\ \A t \in Callers : getPc[t] = "using" => instance = 1

===============================================================================
