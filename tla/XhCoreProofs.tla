---------------------------- MODULE XhCoreProofs ----------------------------
(***************************************************************************)
(* Proofs about XhCore, for every set of threads and infos and any number  *)
(* of calls.  Typing and the mutexes need no assumption on the             *)
(* application; the invariants of the worker need SerialClear, those of    *)
(* the entries SerialRegister as well.                                     *)
(***************************************************************************)
EXTENDS XhCore, TLAPS

USE DEF locks, initFlags, asyncFlags, workerVars, data, history, callVars

-----------------------------------------------------------------------------
(* Typing.  The flags are Boolean, which is Zenon's province; the rest is  *)
(* the SMT solver's, so the two halves of TypeOK are proved apart.         *)

\* A step stores only TRUE and FALSE in the six flags.
LEMMA FlagsStep == FlagsTyped /\ [Next]_vars => FlagsTyped'
<1> SUFFICES ASSUME FlagsTyped, [Next]_vars PROVE FlagsTyped'
  OBVIOUS
<1> USE DEF FlagsTyped
<1>1. ASSUME NEW c \in Clients, Call(c) PROVE FlagsTyped'
  BY <1>1, Zenon DEF Call, Register, Ignore, CallAdd, Refresh, Clear
<1>2. ASSUME NEW c \in Clients, ClientStep(c) PROVE FlagsTyped'
  <2>1. CASE Insert(c)
    BY <2>1, Zenon DEF Insert
  <2>2. CASE InitFast(c)
    BY <2>2, Zenon DEF InitFast
  <2>3. CASE InitLock(c)
    BY <2>3, Zenon DEF InitLock
  <2>4. CASE InitHandler(c)
    BY <2>4, Zenon DEF InitHandler
  <2>5. CASE InitCheck(c)
    BY <2>5, Zenon DEF InitCheck
  <2>6. CASE AsyncFast(c)
    BY <2>6, Zenon DEF AsyncFast
  <2>7. CASE AsyncLock(c)
    BY <2>7, Zenon DEF AsyncLock
  <2>8. CASE AsyncCreate(c)
    BY <2>8, Zenon DEF AsyncCreate
  <2>9. CASE AsyncCheck(c)
    BY <2>9, Zenon DEF AsyncCheck
  <2>10. CASE Post(c)
    BY <2>10, Zenon DEF Post
  <2>11. CASE SyncLock(c)
    BY <2>11, Zenon DEF SyncLock
  <2>12. CASE SyncWalk(c)
    BY <2>12, Zenon DEF SyncWalk
  <2>13. CASE ClearAsync(c)
    BY <2>13, Zenon DEF ClearAsync
  <2>14. CASE ClearStop(c)
    BY <2>14, Zenon DEF ClearStop
  <2>15. CASE ClearJoin(c)
    BY <2>15, Zenon DEF ClearJoin
  <2>16. CASE ClearAsyncInited(c)
    BY <2>16, Zenon DEF ClearAsyncInited
  <2>17. CASE ClearHandler(c)
    BY <2>17, Zenon DEF ClearHandler
  <2>18. CASE ClearInited(c)
    BY <2>18, Zenon DEF ClearInited
  <2>19. CASE ClearCore(c)
    BY <2>19, Zenon DEF ClearCore
  <2>20. CASE ClearFree(c)
    BY <2>20, Zenon DEF ClearFree
  <2> QED
    BY <1>2, <2>1, <2>2, <2>3, <2>4, <2>5, <2>6, <2>7, <2>8, <2>9, <2>10, <2>11, <2>12, <2>13, <2>14, <2>15, <2>16, <2>17, <2>18, <2>19, <2>20, Zenon DEF ClientStep
<1>3. ASSUME NEW w \in Workers, WorkerStep(w) \/ WorkerSpurious(w) PROVE FlagsTyped'
  <2>1. CASE WorkerLoop(w)
    BY <2>1, Zenon DEF WorkerLoop
  <2>2. CASE WorkerLock(w)
    BY <2>2, Zenon DEF WorkerLock
  <2>3. CASE WorkerSpurious(w)
    BY <2>3, Zenon DEF WorkerSpurious
  <2>4. CASE WorkerRefreshLock(w)
    BY <2>4, Zenon DEF WorkerRefreshLock
  <2>5. CASE WorkerWalk(w)
    BY <2>5, Zenon DEF WorkerWalk
  <2> QED
    BY <1>3, <2>1, <2>2, <2>3, <2>4, <2>5, Zenon DEF WorkerStep
<1>4. CASE UNCHANGED vars
  BY <1>4, Zenon DEF vars
<1> QED
  BY <1>1, <1>2, <1>3, <1>4, Zenon DEF Next

\* A step keeps the variables that are not flags within their types.
LEMMA StateStep == TypeOK /\ [Next]_vars => StateTyped'
<1> SUFFICES ASSUME StateTyped, [Next]_vars PROVE StateTyped'
  BY DEF TypeOK
<1> USE CoreAssumption DEF StateTyped, Infos, Threads, RegisterPcs, RefreshPcs,
        ClearPcs, WorkerPcs, Goto, Return, MayCall
<1>1. ASSUME NEW c \in Clients, Call(c) PROVE StateTyped'
  <2>1. ASSUME NEW i \in Infos, CallAdd(c, i) PROVE StateTyped'
    BY <2>1 DEF CallAdd
  <2>2. ASSUME NEW m \in {"sync", "async"}, Refresh(c, m) PROVE StateTyped'
    BY <2>2 DEF Refresh
  <2>3. CASE Clear(c)
    BY <2>3 DEF Clear
  <2> QED
    BY <1>1, <2>1, <2>2, <2>3 DEF Call, Register, Ignore
<1>2. ASSUME NEW c \in Clients, ClientStep(c) PROVE StateTyped'
  <2>1. CASE Insert(c)
    BY <2>1 DEF Insert
  <2>2. CASE InitFast(c)
    BY <2>2 DEF InitFast
  <2>3. CASE InitLock(c)
    BY <2>3 DEF InitLock
  <2>4. CASE InitHandler(c)
    BY <2>4 DEF InitHandler
  <2>5. CASE InitCheck(c)
    BY <2>5 DEF InitCheck
  <2>6. CASE AsyncFast(c)
    BY <2>6 DEF AsyncFast
  <2>7. CASE AsyncLock(c)
    BY <2>7 DEF AsyncLock
  <2>8. CASE AsyncCreate(c)
    <3>1. wpc' \in [Workers -> WorkerPcs] /\ tid' \in Workers \cup {NoThread}
      BY <2>8 DEF AsyncCreate
    <3>2. failed' \in SUBSET {"handler", "thread"}
      BY <2>8 DEF AsyncCreate
    <3> QED
      BY <2>8, <3>1, <3>2 DEF AsyncCreate
  <2>9. CASE AsyncCheck(c)
    BY <2>9 DEF AsyncCheck
  <2>10. CASE Post(c)
    BY <2>10 DEF Post, Signal
  <2>11. CASE SyncLock(c)
    BY <2>11 DEF SyncLock
  <2>12. CASE SyncWalk(c)
    BY <2>12 DEF SyncWalk, RefreshImpl
  <2>13. CASE ClearAsync(c)
    BY <2>13 DEF ClearAsync
  <2>14. CASE ClearStop(c)
    BY <2>14 DEF ClearStop, Signal
  <2>15. CASE ClearJoin(c)
    <3>1. wpc' \in [Workers -> WorkerPcs]
      BY <2>15 DEF ClearJoin
    <3> QED
      BY <2>15, <3>1 DEF ClearJoin
  <2>16. CASE ClearAsyncInited(c)
    BY <2>16 DEF ClearAsyncInited
  <2>17. CASE ClearHandler(c)
    BY <2>17 DEF ClearHandler
  <2>18. CASE ClearInited(c)
    BY <2>18 DEF ClearInited
  <2>19. CASE ClearCore(c)
    BY <2>19 DEF ClearCore
  <2>20. CASE ClearFree(c)
    BY <2>20 DEF ClearFree
  <2> QED
    BY <1>2, <2>1, <2>2, <2>3, <2>4, <2>5, <2>6, <2>7, <2>8, <2>9, <2>10, <2>11, <2>12, <2>13, <2>14, <2>15, <2>16, <2>17, <2>18, <2>19, <2>20, Zenon DEF ClientStep
<1>3. ASSUME NEW w \in Workers, WorkerStep(w) \/ WorkerSpurious(w) PROVE StateTyped'
  <2>1. CASE WorkerLoop(w) \/ WorkerSpurious(w)
    BY <2>1 DEF WorkerLoop, WorkerSpurious
  <2>2. CASE WorkerLock(w)
    BY <2>2 DEF WorkerLock
  <2>3. CASE WorkerRefreshLock(w)
    BY <2>3 DEF WorkerRefreshLock
  <2>4. CASE WorkerWalk(w)
    BY <2>4 DEF WorkerWalk, RefreshImpl
  <2> QED
    BY <1>3, <2>1, <2>2, <2>3, <2>4, Zenon DEF WorkerStep
<1>4. CASE UNCHANGED vars
  BY <1>4 DEF vars
<1> QED
  BY <1>1, <1>2, <1>3, <1>4, Zenon DEF Next

\* Only the values the code stores are ever stored (TypeOK), whatever the
\* application overlaps.
THEOREM Typing == Spec => []TypeOK
<1>1. Init => FlagsTyped
  BY Zenon DEF Init, FlagsTyped
<1>2. Init => StateTyped
  BY CoreAssumption DEF Init, StateTyped, WorkerPcs
<1>3. TypeOK /\ [Next]_vars => TypeOK'
  BY FlagsStep, StateStep DEF TypeOK
<1> QED
  BY <1>1, <1>2, <1>3, PTL DEF Spec, TypeOK

-----------------------------------------------------------------------------
(* The mutexes.                                                            *)

\* A step moves a thread into or out of a critical section with its mutex.
LEMMA LocksStep == TypeOK /\ LocksHeld /\ [Next]_vars => LocksHeld'
<1> SUFFICES ASSUME StateTyped, LocksHeld, [Next]_vars PROVE LocksHeld'
  BY DEF TypeOK
<1> USE CoreAssumption DEF StateTyped, LocksHeld, LockedPcs, Refreshing, Threads,
        WorkerPcs, Goto, Return, MayCall
<1>1. ASSUME NEW c \in Clients, Call(c) PROVE LocksHeld'
  <2>1. ASSUME NEW i \in Infos, CallAdd(c, i) PROVE LocksHeld'
    BY <2>1 DEF CallAdd
  <2>2. ASSUME NEW m \in {"sync", "async"}, Refresh(c, m) PROVE LocksHeld'
    BY <2>2 DEF Refresh
  <2>3. CASE Clear(c)
    BY <2>3 DEF Clear
  <2> QED
    BY <1>1, <2>1, <2>2, <2>3 DEF Call, Register, Ignore, Infos
<1>2. ASSUME NEW c \in Clients, ClientStep(c) PROVE LocksHeld'
  <2>1. CASE Insert(c)
    BY <2>1 DEF Insert
  <2>2. CASE InitFast(c)
    BY <2>2 DEF InitFast
  <2>3. CASE InitLock(c)
    BY <2>3 DEF InitLock
  <2>4. CASE InitHandler(c)
    BY <2>4 DEF InitHandler
  <2>5. CASE InitCheck(c)
    BY <2>5 DEF InitCheck
  <2>6. CASE AsyncFast(c)
    BY <2>6 DEF AsyncFast
  <2>7. CASE AsyncLock(c)
    BY <2>7 DEF AsyncLock
  <2>8. CASE AsyncCreate(c)
    BY <2>8 DEF AsyncCreate
  <2>9. CASE AsyncCheck(c)
    BY <2>9 DEF AsyncCheck
  <2>10. CASE Post(c)
    BY <2>10 DEF Post, Signal
  <2>11. CASE SyncLock(c)
    BY <2>11 DEF SyncLock, RefreshMutexFree
  <2>12. CASE SyncWalk(c)
    BY <2>12 DEF SyncWalk, RefreshImpl
  <2>13. CASE ClearAsync(c)
    BY <2>13 DEF ClearAsync
  <2>14. CASE ClearStop(c)
    BY <2>14 DEF ClearStop, Signal
  <2>15. CASE ClearJoin(c)
    BY <2>15 DEF ClearJoin
  <2>16. CASE ClearAsyncInited(c)
    BY <2>16 DEF ClearAsyncInited
  <2>17. CASE ClearHandler(c)
    BY <2>17 DEF ClearHandler
  <2>18. CASE ClearInited(c)
    BY <2>18 DEF ClearInited
  <2>19. CASE ClearCore(c)
    BY <2>19 DEF ClearCore
  <2>20. CASE ClearFree(c)
    BY <2>20 DEF ClearFree, RefreshMutexFree
  <2> QED
    BY <1>2, <2>1, <2>2, <2>3, <2>4, <2>5, <2>6, <2>7, <2>8, <2>9, <2>10, <2>11, <2>12, <2>13, <2>14, <2>15, <2>16, <2>17, <2>18, <2>19, <2>20,
       Zenon DEF ClientStep
<1>3. ASSUME NEW w \in Workers, WorkerStep(w) \/ WorkerSpurious(w) PROVE LocksHeld'
  <2>1. CASE WorkerLoop(w)
    BY <2>1 DEF WorkerLoop
  <2>2. CASE WorkerLock(w)
    BY <2>2 DEF WorkerLock
  <2>3. CASE WorkerSpurious(w)
    BY <2>3 DEF WorkerSpurious
  <2>4. CASE WorkerRefreshLock(w)
    BY <2>4 DEF WorkerRefreshLock, RefreshMutexFree
  <2>5. CASE WorkerWalk(w)
    BY <2>5 DEF WorkerWalk, RefreshImpl
  <2> QED
    BY <1>3, <2>1, <2>2, <2>3, <2>4, <2>5, Zenon DEF WorkerStep
<1>4. CASE UNCHANGED vars
  BY <1>4 DEF vars
<1> QED
  BY <1>1, <1>2, <1>3, <1>4, Zenon DEF Next

\* refresh_mutex belongs to the thread inside refresh_impl and core_mutex to the
\* one inside a critical section (LocksHeld), whatever the application overlaps.
THEOREM MutualExclusion == Spec => []LocksHeld
<1>1. Init => LocksHeld
  BY CoreAssumption DEF Init, LocksHeld, LockedPcs, Refreshing, Threads
<1> QED
  BY <1>1, LocksStep, Typing, PTL DEF Spec

\* The infos change in two places.
LEMMA InfosStep ==
  [Next]_vars => infos' = infos \/ \E c \in Clients : Insert(c) \/ ClearFree(c)
<1> SUFFICES ASSUME [Next]_vars
             PROVE  infos' = infos \/ \E c \in Clients : Insert(c) \/ ClearFree(c)
  OBVIOUS
<1>1. ASSUME NEW c \in Clients, Call(c) PROVE infos' = infos
  BY <1>1, Zenon DEF Call, Register, Ignore, CallAdd, Refresh, Clear
<1>2. ASSUME NEW c \in Clients, ClientStep(c)
      PROVE  infos' = infos \/ Insert(c) \/ ClearFree(c)
  BY <1>2, Zenon DEF ClientStep, InitFast, InitLock, InitHandler, InitCheck, AsyncFast,
         AsyncLock, AsyncCreate, AsyncCheck, Post, SyncLock, SyncWalk, ClearAsync,
         ClearStop, ClearJoin, ClearAsyncInited, ClearHandler, ClearInited, ClearCore
<1>3. ASSUME NEW w \in Workers, WorkerStep(w) \/ WorkerSpurious(w) PROVE infos' = infos
  BY <1>3, Zenon DEF WorkerStep, WorkerLoop, WorkerLock, WorkerSpurious,
         WorkerRefreshLock, WorkerWalk
<1>4. CASE UNCHANGED vars
  BY <1>4, Zenon DEF vars
<1> QED
  BY <1>1, <1>2, <1>3, <1>4, Zenon DEF Next

\* No infos are freed while a thread is inside refresh_impl
\* (NoFreeDuringRefresh), whatever the application overlaps.
THEOREM FreeSafe == Spec => NoFreeDuringRefresh
<1>1. TypeOK /\ LocksHeld /\ [Next]_vars
        => [~(infos \subseteq infos') => \A t \in Threads : ~Refreshing(t)]_vars
  BY CoreAssumption, InfosStep DEF LocksHeld, Insert, ClearFree, RefreshMutexFree
<1> QED
  BY <1>1, Typing, MutualExclusion, PTL DEF Spec, NoFreeDuringRefresh

-----------------------------------------------------------------------------
(* The flags and the worker, when the application keeps clear apart from   *)
(* other calls.                                                            *)

\* While a client is inside clear the others are idle.
ClearAlone ==
  \A c, d \in Clients : pc[c] \in ClearPcs /\ pc[d] # "idle" => c = d

\* What a client has learnt of the flags, by where it is.
FlagsKnown ==
  \A c \in Clients :
    /\ pc[c] = "initHandler" => inited
    /\ pc[c] \in {"asyncFast", "asyncLock", "asyncCreate", "asyncCheck",
                  "post", "syncLock", "syncWalk"} => initOk
    /\ pc[c] = "asyncCreate" => asyncInited /\ ~asyncInitOk /\ running
    /\ pc[c] \in {"post", "clearStop", "clearJoin"} => asyncInitOk
    /\ pc[c] = "clearJoin" => ~running
    /\ pc[c] \in {"clearAsyncInited", "clearHandler", "clearInited",
                  "clearCore", "clearFree"} => ~asyncInitOk
    /\ pc[c] \in {"clearHandler", "clearInited", "clearCore", "clearFree"} => ~asyncInited
    /\ pc[c] \in {"clearInited", "clearCore", "clearFree"} => ~initOk
    /\ pc[c] \in {"clearCore", "clearFree"} => ~inited

\* Each flag is set after, and reset before, the one it builds on; the worker
\* is told to leave by clear alone.
FlagsOrdered ==
  /\ asyncInitOk => asyncInited /\ initOk
  /\ initOk => inited
  /\ asyncInitOk /\ ~running => \E c \in Clients : pc[c] = "clearJoin"

\* The strengthening of OneWorker, NoLostWakeup, RequestHeld and
\* RefreshOnlyWhenReady that every step preserves: which flags are set follows
\* from where the clients are.
WorkerInv ==
  /\ ClearAlone /\ FlagsKnown /\ FlagsOrdered
  /\ OneWorker /\ NoLostWakeup /\ RequestHeld

\* clear begins when the other clients are idle, and none calls before it ends.
LEMMA AloneStep == SerialClear /\ TypeOK /\ ClearAlone /\ [Next]_vars => ClearAlone'
<1> SUFFICES ASSUME SerialClear, StateTyped, ClearAlone, [Next]_vars PROVE ClearAlone'
  BY DEF TypeOK
<1> USE DEF StateTyped, ClearAlone, ClearPcs, Goto, Return, MayCall, NobodyIn
<1>1. ASSUME NEW c \in Clients, Call(c) PROVE ClearAlone'
  <2>1. ASSUME NEW i \in Infos, CallAdd(c, i) PROVE ClearAlone'
    BY <2>1 DEF CallAdd
  <2>2. ASSUME NEW m \in {"sync", "async"}, Refresh(c, m) PROVE ClearAlone'
    BY <2>2 DEF Refresh
  <2>3. CASE Clear(c)
    BY <2>3 DEF Clear
  <2> QED
    BY <1>1, <2>1, <2>2, <2>3 DEF Call, Register, Ignore, Infos
<1>2. ASSUME NEW c \in Clients, ClientStep(c) PROVE ClearAlone'
  <2>1. CASE Insert(c)
    BY <2>1 DEF Insert
  <2>2. CASE InitFast(c)
    BY <2>2 DEF InitFast
  <2>3. CASE InitLock(c)
    BY <2>3 DEF InitLock
  <2>4. CASE InitHandler(c)
    BY <2>4 DEF InitHandler
  <2>5. CASE InitCheck(c)
    BY <2>5 DEF InitCheck
  <2>6. CASE AsyncFast(c)
    BY <2>6 DEF AsyncFast
  <2>7. CASE AsyncLock(c)
    BY <2>7 DEF AsyncLock
  <2>8. CASE AsyncCreate(c)
    BY <2>8 DEF AsyncCreate
  <2>9. CASE AsyncCheck(c)
    BY <2>9 DEF AsyncCheck
  <2>10. CASE Post(c)
    BY <2>10 DEF Post, Signal
  <2>11. CASE SyncLock(c)
    BY <2>11 DEF SyncLock, RefreshMutexFree
  <2>12. CASE SyncWalk(c)
    BY <2>12 DEF SyncWalk, RefreshImpl
  <2>13. CASE ClearAsync(c)
    BY <2>13 DEF ClearAsync
  <2>14. CASE ClearStop(c)
    BY <2>14 DEF ClearStop, Signal
  <2>15. CASE ClearJoin(c)
    BY <2>15 DEF ClearJoin
  <2>16. CASE ClearAsyncInited(c)
    BY <2>16 DEF ClearAsyncInited
  <2>17. CASE ClearHandler(c)
    BY <2>17 DEF ClearHandler
  <2>18. CASE ClearInited(c)
    BY <2>18 DEF ClearInited
  <2>19. CASE ClearCore(c)
    BY <2>19 DEF ClearCore
  <2>20. CASE ClearFree(c)
    BY <2>20 DEF ClearFree, RefreshMutexFree
  <2> QED
    BY <1>2, <2>1, <2>2, <2>3, <2>4, <2>5, <2>6, <2>7, <2>8, <2>9, <2>10, <2>11, <2>12, <2>13, <2>14, <2>15, <2>16, <2>17, <2>18, <2>19, <2>20,
       Zenon DEF ClientStep
<1>3. ASSUME NEW w \in Workers, WorkerStep(w) \/ WorkerSpurious(w) PROVE ClearAlone'
  <2>1. CASE WorkerLoop(w)
    BY <2>1 DEF WorkerLoop
  <2>2. CASE WorkerLock(w)
    BY <2>2 DEF WorkerLock
  <2>3. CASE WorkerSpurious(w)
    BY <2>3 DEF WorkerSpurious
  <2>4. CASE WorkerRefreshLock(w)
    BY <2>4 DEF WorkerRefreshLock, RefreshMutexFree
  <2>5. CASE WorkerWalk(w)
    BY <2>5 DEF WorkerWalk, RefreshImpl
  <2> QED
    BY <1>3, <2>1, <2>2, <2>3, <2>4, <2>5, Zenon DEF WorkerStep
<1>4. CASE UNCHANGED vars
  BY <1>4 DEF vars
<1> QED
  BY <1>1, <1>2, <1>3, <1>4, Zenon DEF Next

\* A step preserves the invariant of the worker.
LEMMA WorkerStepInv ==
  SerialClear /\ TypeOK /\ LocksHeld /\ WorkerInv /\ [Next]_vars => WorkerInv'
<1> SUFFICES ASSUME SerialClear, StateTyped, LocksHeld, WorkerInv, [Next]_vars
             PROVE  (FlagsKnown /\ FlagsOrdered /\ OneWorker /\ NoLostWakeup /\ RequestHeld)'
  BY AloneStep DEF TypeOK, WorkerInv
<1> DEFINE Goal == FlagsKnown /\ FlagsOrdered /\ OneWorker /\ NoLostWakeup /\ RequestHeld
<1> USE CoreAssumption DEF StateTyped, LocksHeld, LockedPcs, WorkerInv, ClearAlone, ClearPcs,
        FlagsKnown, FlagsOrdered, OneWorker, NoLostWakeup, RequestHeld, WorkerPcs,
        Goto, Return, MayCall, NobodyIn, Threads
<1>1. ASSUME NEW c \in Clients, Call(c) PROVE Goal'
  <2>1. ASSUME NEW i \in Infos, CallAdd(c, i) PROVE Goal'
    BY <2>1 DEF CallAdd
  <2>2. ASSUME NEW m \in {"sync", "async"}, Refresh(c, m) PROVE Goal'
    BY <2>2 DEF Refresh
  <2>3. CASE Clear(c)
    BY <2>3 DEF Clear
  <2> QED
    BY <1>1, <2>1, <2>2, <2>3 DEF Call, Register, Ignore, Infos
<1>2. ASSUME NEW c \in Clients, ClientStep(c) PROVE Goal'
  <2>1. CASE Insert(c)
    BY <2>1 DEF Insert
  <2>2. CASE InitFast(c)
    BY <2>2 DEF InitFast
  <2>3. CASE InitLock(c)
    BY <2>3 DEF InitLock
  <2>4. CASE InitHandler(c)
    BY <2>4 DEF InitHandler
  <2>5. CASE InitCheck(c)
    BY <2>5 DEF InitCheck
  <2>6. CASE AsyncFast(c)
    BY <2>6 DEF AsyncFast
  <2>7. CASE AsyncLock(c)
    BY <2>7 DEF AsyncLock
  <2>8. CASE AsyncCreate(c)
    BY <2>8 DEF AsyncCreate
  <2>9. CASE AsyncCheck(c)
    BY <2>9 DEF AsyncCheck
  <2>10. CASE Post(c)
    BY <2>10 DEF Post, Signal
  <2>11. CASE SyncLock(c)
    BY <2>11 DEF SyncLock, RefreshMutexFree
  <2>12. CASE SyncWalk(c)
    BY <2>12 DEF SyncWalk, RefreshImpl
  <2>13. CASE ClearAsync(c)
    BY <2>13 DEF ClearAsync
  <2>14. CASE ClearStop(c)
    BY <2>14 DEF ClearStop, Signal
  <2>15. CASE ClearJoin(c)
    BY <2>15 DEF ClearJoin
  <2>16. CASE ClearAsyncInited(c)
    BY <2>16 DEF ClearAsyncInited
  <2>17. CASE ClearHandler(c)
    BY <2>17 DEF ClearHandler
  <2>18. CASE ClearInited(c)
    BY <2>18 DEF ClearInited
  <2>19. CASE ClearCore(c)
    BY <2>19 DEF ClearCore
  <2>20. CASE ClearFree(c)
    BY <2>20 DEF ClearFree, RefreshMutexFree
  <2> QED
    BY <1>2, <2>1, <2>2, <2>3, <2>4, <2>5, <2>6, <2>7, <2>8, <2>9, <2>10, <2>11, <2>12, <2>13, <2>14, <2>15, <2>16, <2>17, <2>18, <2>19, <2>20,
       Zenon DEF ClientStep
<1>3. ASSUME NEW w \in Workers, WorkerStep(w) \/ WorkerSpurious(w) PROVE Goal'
  <2>1. CASE WorkerLoop(w)
    BY <2>1 DEF WorkerLoop
  <2>2. CASE WorkerLock(w)
    BY <2>2 DEF WorkerLock
  <2>3. CASE WorkerSpurious(w)
    BY <2>3 DEF WorkerSpurious
  <2>4. CASE WorkerRefreshLock(w)
    BY <2>4 DEF WorkerRefreshLock, RefreshMutexFree
  <2>5. CASE WorkerWalk(w)
    BY <2>5 DEF WorkerWalk, RefreshImpl
  <2> QED
    BY <1>3, <2>1, <2>2, <2>3, <2>4, <2>5, Zenon DEF WorkerStep
<1>4. CASE UNCHANGED vars
  BY <1>4 DEF vars
<1> QED
  BY <1>1, <1>2, <1>3, <1>4, Zenon DEF Next

\* Under SerialClear the invariant of the worker holds.
THEOREM WorkerSafe == ASSUME SerialClear PROVE Spec => []WorkerInv
<1>1. Init => WorkerInv
  BY DEF Init, WorkerInv, ClearAlone, FlagsKnown, FlagsOrdered, OneWorker,
         NoLostWakeup, RequestHeld, ClearPcs
<1>2. TypeOK /\ LocksHeld /\ WorkerInv /\ [Next]_vars => WorkerInv'
  BY WorkerStepInv
<1> QED
  BY <1>1, <1>2, Typing, MutualExclusion, PTL DEF Spec

\* There is at most one refresh thread, the one clear joins (OneWorker).
THEOREM OneRefreshThread == ASSUME SerialClear PROVE Spec => []OneWorker
<1>1. WorkerInv => OneWorker
  BY DEF WorkerInv
<1> QED
  BY <1>1, WorkerSafe, PTL

\* No post and no stop is a lost wake-up (NoLostWakeup).
THEOREM WakeupKept == ASSUME SerialClear PROVE Spec => []NoLostWakeup
<1>1. WorkerInv => NoLostWakeup
  BY DEF WorkerInv
<1> QED
  BY <1>1, WorkerSafe, PTL

\* An accepted request is in the do flag of a running worker, or the worker is
\* on its way through the refresh that serves it (RequestHeld).
THEOREM RequestKept == ASSUME SerialClear PROVE Spec => []RequestHeld
<1>1. WorkerInv => RequestHeld
  BY DEF WorkerInv
<1> QED
  BY <1>1, WorkerSafe, PTL

\* Libraries are hooked only with the SIGSEGV handler in place
\* (RefreshOnlyWhenReady).
THEOREM HandlerInPlace == ASSUME SerialClear PROVE Spec => []RefreshOnlyWhenReady
<1>1. WorkerInv => RefreshOnlyWhenReady
  BY DEF WorkerInv, FlagsKnown, FlagsOrdered, OneWorker, RefreshOnlyWhenReady,
         Refreshing, Threads
<1> QED
  BY <1>1, WorkerSafe, PTL

-----------------------------------------------------------------------------
(* Why an initialisation can be found undone, and what map_info remembers. *)

\* A flag that says "initialised" without the flag that says "successfully" has
\* an explanation.
FailureInv ==
  /\ \A c \in Clients : pc[c] = "initCheck" => inited
  /\ \A c \in Clients : pc[c] = "asyncCheck" => asyncInited
  /\ inited /\ NobodyIn(ClearPcs) =>
       initOk \/ "handler" \in failed \/ \E d \in Clients : pc[d] = "initHandler"
  /\ asyncInited /\ NobodyIn(ClearPcs) =>
       asyncInitOk \/ "thread" \in failed \/ \E d \in Clients : pc[d] = "asyncCreate"

\* The infos change while there are no entries, and entries are made while the
\* infos cannot change.
EntryInv ==
  /\ EntryCurrent
  /\ \A c, d \in Clients : pc[c] = "insert" => pc[d] \notin RefreshPcs
  /\ \A c \in Clients : pc[c] = "insert" => ~inited
  /\ ~inited /\ NobodyIn(ClearPcs) => mapInfo = {}

\* A step that sets a flag without its "ok" is inside the initialisation or
\* records a failure.
LEMMA FailureStep ==
  SerialClear /\ TypeOK /\ LocksHeld /\ WorkerInv /\ FailureInv /\ [Next]_vars => FailureInv'
<1> SUFFICES ASSUME SerialClear, StateTyped, LocksHeld, WorkerInv, FailureInv, [Next]_vars
             PROVE  FailureInv'
  BY DEF TypeOK
<1> USE DEF StateTyped, LocksHeld, LockedPcs, WorkerInv, ClearAlone, ClearPcs,
        FlagsKnown, FlagsOrdered, FailureInv, Goto, Return, MayCall, NobodyIn
<1>1. ASSUME NEW c \in Clients, Call(c) PROVE FailureInv'
  <2>1. ASSUME NEW i \in Infos, CallAdd(c, i) PROVE FailureInv'
    BY <2>1 DEF CallAdd
  <2>2. ASSUME NEW m \in {"sync", "async"}, Refresh(c, m) PROVE FailureInv'
    BY <2>2 DEF Refresh
  <2>3. CASE Clear(c)
    BY <2>3 DEF Clear
  <2> QED
    BY <1>1, <2>1, <2>2, <2>3 DEF Call, Register, Ignore, Infos
<1>2. ASSUME NEW c \in Clients, ClientStep(c) PROVE FailureInv'
  <2>1. CASE Insert(c)
    BY <2>1 DEF Insert
  <2>2. CASE InitFast(c)
    BY <2>2 DEF InitFast
  <2>3. CASE InitLock(c)
    BY <2>3 DEF InitLock
  <2>4. CASE InitHandler(c)
    BY <2>4 DEF InitHandler
  <2>5. CASE InitCheck(c)
    BY <2>5 DEF InitCheck
  <2>6. CASE AsyncFast(c)
    BY <2>6 DEF AsyncFast
  <2>7. CASE AsyncLock(c)
    BY <2>7 DEF AsyncLock
  <2>8. CASE AsyncCreate(c)
    BY <2>8 DEF AsyncCreate
  <2>9. CASE AsyncCheck(c)
    BY <2>9 DEF AsyncCheck
  <2>10. CASE Post(c)
    BY <2>10 DEF Post, Signal
  <2>11. CASE SyncLock(c)
    BY <2>11 DEF SyncLock, RefreshMutexFree
  <2>12. CASE SyncWalk(c)
    BY <2>12 DEF SyncWalk, RefreshImpl
  <2>13. CASE ClearAsync(c)
    BY <2>13 DEF ClearAsync
  <2>14. CASE ClearStop(c)
    BY <2>14 DEF ClearStop, Signal
  <2>15. CASE ClearJoin(c)
    BY <2>15 DEF ClearJoin
  <2>16. CASE ClearAsyncInited(c)
    BY <2>16 DEF ClearAsyncInited
  <2>17. CASE ClearHandler(c)
    BY <2>17 DEF ClearHandler
  <2>18. CASE ClearInited(c)
    BY <2>18 DEF ClearInited
  <2>19. CASE ClearCore(c)
    BY <2>19 DEF ClearCore
  <2>20. CASE ClearFree(c)
    BY <2>20 DEF ClearFree, RefreshMutexFree
  <2> QED
    BY <1>2, <2>1, <2>2, <2>3, <2>4, <2>5, <2>6, <2>7, <2>8, <2>9, <2>10, <2>11, <2>12, <2>13, <2>14, <2>15, <2>16, <2>17, <2>18, <2>19, <2>20,
       Zenon DEF ClientStep
<1>3. ASSUME NEW w \in Workers, WorkerStep(w) \/ WorkerSpurious(w) PROVE FailureInv'
  <2>1. CASE WorkerLoop(w)
    BY <2>1 DEF WorkerLoop
  <2>2. CASE WorkerLock(w)
    BY <2>2 DEF WorkerLock
  <2>3. CASE WorkerSpurious(w)
    BY <2>3 DEF WorkerSpurious
  <2>4. CASE WorkerRefreshLock(w)
    BY <2>4 DEF WorkerRefreshLock, RefreshMutexFree
  <2>5. CASE WorkerWalk(w)
    BY <2>5 DEF WorkerWalk, RefreshImpl
  <2> QED
    BY <1>3, <2>1, <2>2, <2>3, <2>4, <2>5, Zenon DEF WorkerStep
<1>4. CASE UNCHANGED vars
  BY <1>4 DEF vars
<1> QED
  BY <1>1, <1>2, <1>3, <1>4, Zenon DEF Next

\* A client leaves refresh at one of the two tests only when the flag is unset.
LEMMA UnknownStep ==
  ASSUME StateTyped, WorkerInv, FailureInv, [Next]_vars, NEW d \in Clients
  PROVE  /\ pc[d] = "initCheck" /\ pc'[d] = "idle" =>
              "handler" \in failed \/ \E e \in Clients : pc[e] = "initHandler"
         /\ pc[d] = "asyncCheck" /\ pc'[d] = "idle" =>
              "thread" \in failed \/ \E e \in Clients : pc[e] = "asyncCreate"
<1> DEFINE InitFails == pc[d] = "initCheck" /\ pc'[d] = "idle" => ~initOk
           AsyncFails == pc[d] = "asyncCheck" /\ pc'[d] = "idle" => ~asyncInitOk
           Goal == InitFails /\ AsyncFails
<1> SUFFICES Goal
  BY DEF FailureInv, WorkerInv, ClearAlone, NobodyIn, ClearPcs
<1> USE DEF StateTyped, Goto, Return, MayCall
<1>1. ASSUME NEW c \in Clients, Call(c) PROVE Goal
  <2>1. ASSUME NEW i \in Infos, CallAdd(c, i) PROVE Goal
    BY <2>1 DEF CallAdd
  <2>2. ASSUME NEW m \in {"sync", "async"}, Refresh(c, m) PROVE Goal
    BY <2>2 DEF Refresh
  <2>3. CASE Clear(c)
    BY <2>3 DEF Clear
  <2> QED
    BY <1>1, <2>1, <2>2, <2>3 DEF Call, Register, Ignore, Infos
<1>2. ASSUME NEW c \in Clients, ClientStep(c) PROVE Goal
  <2>1. CASE Insert(c)
    BY <2>1 DEF Insert
  <2>2. CASE InitFast(c)
    BY <2>2 DEF InitFast
  <2>3. CASE InitLock(c)
    BY <2>3 DEF InitLock
  <2>4. CASE InitHandler(c)
    BY <2>4 DEF InitHandler
  <2>5. CASE InitCheck(c)
    BY <2>5 DEF InitCheck
  <2>6. CASE AsyncFast(c)
    BY <2>6 DEF AsyncFast
  <2>7. CASE AsyncLock(c)
    BY <2>7 DEF AsyncLock
  <2>8. CASE AsyncCreate(c)
    BY <2>8 DEF AsyncCreate
  <2>9. CASE AsyncCheck(c)
    BY <2>9 DEF AsyncCheck
  <2>10. CASE Post(c)
    BY <2>10 DEF Post, Signal
  <2>11. CASE SyncLock(c)
    BY <2>11 DEF SyncLock, RefreshMutexFree
  <2>12. CASE SyncWalk(c)
    BY <2>12 DEF SyncWalk, RefreshImpl
  <2>13. CASE ClearAsync(c)
    BY <2>13 DEF ClearAsync
  <2>14. CASE ClearStop(c)
    BY <2>14 DEF ClearStop, Signal
  <2>15. CASE ClearJoin(c)
    BY <2>15 DEF ClearJoin
  <2>16. CASE ClearAsyncInited(c)
    BY <2>16 DEF ClearAsyncInited
  <2>17. CASE ClearHandler(c)
    BY <2>17 DEF ClearHandler
  <2>18. CASE ClearInited(c)
    BY <2>18 DEF ClearInited
  <2>19. CASE ClearCore(c)
    BY <2>19 DEF ClearCore
  <2>20. CASE ClearFree(c)
    BY <2>20 DEF ClearFree, RefreshMutexFree
  <2> QED
    BY <1>2, <2>1, <2>2, <2>3, <2>4, <2>5, <2>6, <2>7, <2>8, <2>9, <2>10, <2>11, <2>12, <2>13, <2>14, <2>15, <2>16, <2>17, <2>18, <2>19, <2>20,
       Zenon DEF ClientStep
<1>3. ASSUME NEW w \in Workers, WorkerStep(w) \/ WorkerSpurious(w) PROVE Goal
  <2>1. CASE WorkerLoop(w)
    BY <2>1 DEF WorkerLoop
  <2>2. CASE WorkerLock(w)
    BY <2>2 DEF WorkerLock
  <2>3. CASE WorkerSpurious(w)
    BY <2>3 DEF WorkerSpurious
  <2>4. CASE WorkerRefreshLock(w)
    BY <2>4 DEF WorkerRefreshLock, RefreshMutexFree
  <2>5. CASE WorkerWalk(w)
    BY <2>5 DEF WorkerWalk, RefreshImpl
  <2> QED
    BY <1>3, <2>1, <2>2, <2>3, <2>4, <2>5, Zenon DEF WorkerStep
<1>4. CASE UNCHANGED vars
  BY <1>4 DEF vars
<1> QED
  BY <1>1, <1>2, <1>3, <1>4, Zenon DEF Next

\* XH_ERRNO_UNKNOWN has a cause (UnknownExplained): an initialisation failed, or
\* another caller is inside it.
THEOREM UnknownHasCause == ASSUME SerialClear PROVE Spec => UnknownExplained
<1>1. Init => FailureInv
  BY DEF Init, FailureInv
<1>2. TypeOK /\ LocksHeld /\ WorkerInv /\ FailureInv /\ [Next]_vars => FailureInv'
  BY FailureStep
<1>3. Spec => []FailureInv
  BY <1>1, <1>2, Typing, MutualExclusion, WorkerSafe, PTL DEF Spec
<1>4. TypeOK /\ WorkerInv /\ FailureInv /\ [Next]_vars =>
        [\A c \in Clients :
           /\ pc[c] = "initCheck" /\ pc'[c] = "idle" =>
                "handler" \in failed \/ \E d \in Clients : pc[d] = "initHandler"
           /\ pc[c] = "asyncCheck" /\ pc'[c] = "idle" =>
                "thread" \in failed \/ \E d \in Clients : pc[d] = "asyncCreate"]_vars
  BY UnknownStep DEF TypeOK
<1> QED
  BY <1>3, <1>4, Typing, WorkerSafe, PTL DEF Spec, UnknownExplained

\* A step preserves the invariant of the entries.
LEMMA EntryStep ==
  SerialRegister /\ TypeOK /\ WorkerInv /\ EntryInv /\ [Next]_vars => EntryInv'
<1> SUFFICES ASSUME SerialRegister, StateTyped, WorkerInv, EntryInv, [Next]_vars
             PROVE  EntryInv'
  BY DEF TypeOK
<1> USE DEF StateTyped, WorkerInv, ClearAlone, ClearPcs, RegisterPcs, RefreshPcs,
        FlagsKnown, FlagsOrdered, OneWorker, EntryInv, EntryCurrent,
        Goto, Return, MayCall, NobodyIn
<1>1. ASSUME NEW c \in Clients, Call(c) PROVE EntryInv'
  <2>1. ASSUME NEW i \in Infos, CallAdd(c, i) PROVE EntryInv'
    BY <2>1 DEF CallAdd, AcceptsInfos
  <2>2. ASSUME NEW m \in {"sync", "async"}, Refresh(c, m) PROVE EntryInv'
    BY <2>2 DEF Refresh
  <2>3. CASE Clear(c)
    BY <2>3 DEF Clear
  <2> QED
    BY <1>1, <2>1, <2>2, <2>3 DEF Call, Register, Ignore, Infos
<1>2. ASSUME NEW c \in Clients, ClientStep(c) PROVE EntryInv'
  <2>1. CASE Insert(c)
    BY <2>1 DEF Insert
  <2>2. CASE InitFast(c)
    BY <2>2 DEF InitFast
  <2>3. CASE InitLock(c)
    BY <2>3 DEF InitLock
  <2>4. CASE InitHandler(c)
    BY <2>4 DEF InitHandler
  <2>5. CASE InitCheck(c)
    BY <2>5 DEF InitCheck
  <2>6. CASE AsyncFast(c)
    BY <2>6 DEF AsyncFast
  <2>7. CASE AsyncLock(c)
    BY <2>7 DEF AsyncLock
  <2>8. CASE AsyncCreate(c)
    BY <2>8 DEF AsyncCreate
  <2>9. CASE AsyncCheck(c)
    BY <2>9 DEF AsyncCheck
  <2>10. CASE Post(c)
    BY <2>10 DEF Post, Signal
  <2>11. CASE SyncLock(c)
    BY <2>11 DEF SyncLock, RefreshMutexFree
  <2>12. CASE SyncWalk(c)
    BY <2>12 DEF SyncWalk, RefreshImpl
  <2>13. CASE ClearAsync(c)
    BY <2>13 DEF ClearAsync
  <2>14. CASE ClearStop(c)
    BY <2>14 DEF ClearStop, Signal
  <2>15. CASE ClearJoin(c)
    BY <2>15 DEF ClearJoin
  <2>16. CASE ClearAsyncInited(c)
    BY <2>16 DEF ClearAsyncInited
  <2>17. CASE ClearHandler(c)
    BY <2>17 DEF ClearHandler
  <2>18. CASE ClearInited(c)
    BY <2>18 DEF ClearInited
  <2>19. CASE ClearCore(c)
    BY <2>19 DEF ClearCore
  <2>20. CASE ClearFree(c)
    BY <2>20 DEF ClearFree, RefreshMutexFree
  <2> QED
    BY <1>2, <2>1, <2>2, <2>3, <2>4, <2>5, <2>6, <2>7, <2>8, <2>9, <2>10, <2>11, <2>12, <2>13, <2>14, <2>15, <2>16, <2>17, <2>18, <2>19, <2>20,
       Zenon DEF ClientStep
<1>3. ASSUME NEW w \in Workers, WorkerStep(w) \/ WorkerSpurious(w) PROVE EntryInv'
  <2>1. CASE WorkerLoop(w)
    BY <2>1 DEF WorkerLoop
  <2>2. CASE WorkerLock(w)
    BY <2>2 DEF WorkerLock
  <2>3. CASE WorkerSpurious(w)
    BY <2>3 DEF WorkerSpurious
  <2>4. CASE WorkerRefreshLock(w)
    BY <2>4 DEF WorkerRefreshLock, RefreshMutexFree
  <2>5. CASE WorkerWalk(w)
    BY <2>5 DEF WorkerWalk, RefreshImpl
  <2> QED
    BY <1>3, <2>1, <2>2, <2>3, <2>4, <2>5, Zenon DEF WorkerStep
<1>4. CASE UNCHANGED vars
  BY <1>4 DEF vars
<1> QED
  BY <1>1, <1>2, <1>3, <1>4, Zenon DEF Next

\* Under SerialClear and SerialRegister the invariant of the entries holds.
THEOREM EntrySafe == ASSUME SerialClear, SerialRegister PROVE Spec => []EntryInv
<1>1. Init => EntryInv
  BY DEF Init, EntryInv, EntryCurrent
<1>2. TypeOK /\ WorkerInv /\ EntryInv /\ [Next]_vars => EntryInv'
  BY EntryStep
<1> QED
  BY <1>1, <1>2, Typing, WorkerSafe, PTL DEF Spec

\* A remembered library was hooked with all the infos there are (EntryCurrent).
THEOREM EntriesCurrent ==
  ASSUME SerialClear, SerialRegister PROVE Spec => []EntryCurrent
<1>1. EntryInv => EntryCurrent
  BY DEF EntryInv
<1> QED
  BY <1>1, EntrySafe, PTL

\* Infos are added only before the first refresh (NoInsertAfterRefresh).
THEOREM InsertFirst ==
  ASSUME SerialClear, SerialRegister PROVE Spec => NoInsertAfterRefresh
<1>1. EntryInv /\ [Next]_vars => [inited => infos' \subseteq infos]_vars
  BY InfosStep DEF EntryInv, Insert, ClearFree
<1> QED
  BY <1>1, EntrySafe, PTL DEF Spec, NoInsertAfterRefresh

-----------------------------------------------------------------------------
(* XhCore implements HookService.                                          *)

\* The phase and the debts of the service, as ServiceSpec maps them.
Phase == IF ~NobodyIn(ClearPcs) THEN "closing"
         ELSE IF inited THEN "serving" ELSE "collecting"
Owed  == {c \in Clients : asked[c] # "no"}

\* A step that moves no client into or out of clear and changes no flag, info,
\* entry or request is not seen by the service.
LEMMA Unseen ==
  UNCHANGED <<Phase, infos, mapInfo, asked>> => UNCHANGED Service!svars
  BY DEF Phase, Service!svars

\* Serving or withdrawing any set of requests is a step of the service.
LEMMA ServeIsNext ==
  ASSUME NEW S \in SUBSET Clients, Service!Serve(S) \/ Service!Withdraw(S)
  PROVE  Service!SNext
  BY DEF Service!SNext

\* Every step of XhCore is one of HookService or is not seen by it.
LEMMA ServiceStep ==
  SerialClear /\ TypeOK /\ WorkerInv /\ EntryInv /\ [Next]_vars
     => [Service!SNext]_(Service!svars)
<1> DEFINE Seen == [Service!SNext]_(Service!svars)
<1> SUFFICES ASSUME SerialClear, StateTyped, WorkerInv, EntryInv, [Next]_vars
             PROVE  Seen
  BY DEF TypeOK
<1> USE DEF StateTyped, WorkerInv, ClearAlone, ClearPcs, Phase, Goto, Return, MayCall, NobodyIn
<1>1. ASSUME NEW c \in Clients, Call(c) PROVE Seen
  <2>1. ASSUME NEW i \in Infos, CallAdd(c, i) PROVE Seen
    BY <2>1, Unseen DEF CallAdd
  <2>2. ASSUME NEW m \in {"sync", "async"}, Refresh(c, m) PROVE Seen
    BY <2>2, Unseen DEF Refresh
  <2>3. CASE Clear(c)
    <3>1. Service!Close
      BY <2>3 DEF Clear, Service!Close
    <3> QED
      BY <3>1 DEF Service!SNext
  <2> QED
    BY <1>1, <2>1, <2>2, <2>3 DEF Call, Register, Ignore, Infos
<1>2. ASSUME NEW c \in Clients, ClientStep(c) PROVE Seen
  <2>1. CASE Insert(c)
    <3>1. arg[c] \in Infos
      BY <2>1 DEF Insert
    <3>2. Service!Accept(arg[c])
      BY <2>1 DEF Insert, EntryInv, Service!Accept
    <3> QED
      BY <3>1, <3>2 DEF Service!SNext
  <2>2. CASE InitFast(c)
    BY <2>2, Unseen DEF InitFast
  <2>3. CASE InitLock(c)
    <3>1. CASE inited
      BY <2>3, <3>1, Unseen DEF InitLock
    <3>2. CASE ~inited
      <4>1. Service!Start
        BY <2>3, <3>2 DEF InitLock, Service!Start
      <4> QED
        BY <4>1 DEF Service!SNext
    <3> QED
      BY <3>1, <3>2
  <2>4. CASE InitHandler(c)
    BY <2>4, Unseen DEF InitHandler
  <2>5. CASE InitCheck(c)
    BY <2>5, Unseen DEF InitCheck
  <2>6. CASE AsyncFast(c)
    BY <2>6, Unseen DEF AsyncFast
  <2>7. CASE AsyncLock(c)
    BY <2>7, Unseen DEF AsyncLock
  <2>8. CASE AsyncCreate(c)
    BY <2>8, Unseen DEF AsyncCreate
  <2>9. CASE AsyncCheck(c)
    BY <2>9, Unseen DEF AsyncCheck
  <2>10. CASE Post(c)
    <3>1. Service!Ask(c)
      BY <2>10 DEF Post, FlagsKnown, FlagsOrdered, Service!Ask
    <3> QED
      BY <3>1 DEF Service!SNext
  <2>11. CASE SyncLock(c)
    BY <2>11, Unseen DEF SyncLock
  <2>12. CASE SyncWalk(c)
    <3>1. Service!Serve({})
      BY <2>12 DEF SyncWalk, RefreshImpl, FlagsKnown, FlagsOrdered, Service!Serve
    <3> QED
      BY <3>1 DEF Service!SNext
  <2>13. CASE ClearAsync(c)
    BY <2>13, Unseen DEF ClearAsync
  <2>14. CASE ClearStop(c)
    <3>1. PICK S \in SUBSET Clients : Owed' = Owed \ S
      <4>1. Owed' = Owed \ {d \in Clients : asked[d] = "asked"}
        BY <2>14 DEF ClearStop, Owed
      <4> QED
        BY <4>1
    <3>2. Service!Withdraw(S)
      BY <2>14, <3>1 DEF ClearStop, Owed, Service!Withdraw
    <3> QED
      BY <3>2, ServeIsNext
  <2>15. CASE ClearJoin(c)
    BY <2>15, Unseen DEF ClearJoin
  <2>16. CASE ClearAsyncInited(c)
    BY <2>16, Unseen DEF ClearAsyncInited
  <2>17. CASE ClearHandler(c)
    BY <2>17, Unseen DEF ClearHandler
  <2>18. CASE ClearInited(c)
    BY <2>18, Unseen DEF ClearInited
  <2>19. CASE ClearCore(c)
    BY <2>19, Unseen DEF ClearCore
  <2>20. CASE ClearFree(c)
    <3>1. Owed = {} /\ UNCHANGED Owed
      BY <2>20 DEF ClearFree, FlagsKnown, OneWorker, RequestHeld, Owed
    <3>2. Service!Reset
      BY <2>20, <3>1 DEF ClearFree, FlagsKnown, Owed, Service!Reset
    <3> QED
      BY <3>2 DEF Service!SNext
  <2> QED
    BY <1>2, <2>1, <2>2, <2>3, <2>4, <2>5, <2>6, <2>7, <2>8, <2>9, <2>10, <2>11, <2>12, <2>13, <2>14, <2>15, <2>16, <2>17, <2>18, <2>19, <2>20,
       Zenon DEF ClientStep
<1>3. ASSUME NEW w \in Workers, WorkerStep(w) \/ WorkerSpurious(w) PROVE Seen
  <2>1. CASE WorkerLoop(w)
    BY <2>1, Unseen DEF WorkerLoop
  <2>2. CASE WorkerLock(w)
    <3>1. UNCHANGED Owed
      BY <2>2 DEF WorkerLock, Owed
    <3> QED
      BY <2>2, <3>1 DEF WorkerLock, Owed, Service!svars
  <2>3. CASE WorkerSpurious(w)
    BY <2>3, Unseen DEF WorkerSpurious
  <2>4. CASE WorkerRefreshLock(w)
    BY <2>4, Unseen DEF WorkerRefreshLock
  <2>5. CASE WorkerWalk(w)
    <3>1. PICK S \in SUBSET Clients : Owed' = Owed \ S
      <4>1. Owed' = Owed \ {d \in Clients : asked[d] = "taken"}
        BY <2>5 DEF WorkerWalk, Owed
      <4> QED
        BY <4>1
    <3>2. Service!Serve(S)
      BY <2>5, <3>1 DEF WorkerWalk, RefreshImpl, FlagsOrdered, OneWorker, Owed, Service!Serve
    <3> QED
      BY <3>2, ServeIsNext
  <2> QED
    BY <1>3, <2>1, <2>2, <2>3, <2>4, <2>5, Zenon DEF WorkerStep
<1>4. CASE UNCHANGED vars
  BY <1>4, Unseen DEF vars
<1> QED
  BY <1>1, <1>2, <1>3, <1>4, Zenon DEF Next

\* An application that keeps clear and register apart from other calls sees
\* HookService: ServiceSpec holds for every number of threads, infos and calls.
THEOREM Implementation ==
  ASSUME SerialClear, SerialRegister PROVE Spec => ServiceSpec
<1>1. Init => Service!SInit
  BY DEF Init, ClearPcs, NobodyIn, Service!SInit
<1>2. TypeOK /\ WorkerInv /\ EntryInv /\ [Next]_vars
        => [Service!SNext]_(Service!svars)
  BY ServiceStep
<1> QED
  BY <1>1, <1>2, Typing, WorkerSafe, EntrySafe, PTL DEF Spec, ServiceSpec, Service!SSpec
=============================================================================
