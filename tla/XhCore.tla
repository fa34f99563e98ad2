------------------------------- MODULE XhCore -------------------------------
(***************************************************************************)
(* The life cycle of the xHook core, xHook/xh_core.c: application threads  *)
(* call register, ignore, refresh (synchronous or asynchronous) and clear; *)
(* a worker thread created by the first asynchronous refresh serves the    *)
(* asynchronous requests.                                                  *)
(*                                                                         *)
(* A step is what a thread does between two points where another thread    *)
(* can see it: the flags inited, initOk, asyncInited and asyncInitOk are   *)
(* read without a lock, so every read and write of them is a step of its   *)
(* own; what happens inside one critical section of core_mutex and is only *)
(* read under it is one step.                                              *)
(*                                                                         *)
(* What a refresh does to the process (which libraries it hooks) is the    *)
(* subject of XhRefresh.  Here one library is enough: its map_info entry    *)
(* is the set of hook and ignore infos there were when it was hooked.      *)
(***************************************************************************)
EXTENDS Naturals, FiniteSets

CONSTANTS
  Clients,         \* threads of the application that call the xhook API
  Workers,         \* identities pthread_create can give the refresh thread
  HookInfos,       \* arguments of xh_core_register
  IgnoreInfos,     \* arguments of xh_core_ignore
  NoThread,        \* owner of a free mutex; a thread id never assigned
  MaxCalls,        \* bound on the number of API calls
  SerialRegister,  \* the application never overlaps register and refresh
  SerialClear      \* the application never overlaps clear with another call

Infos   == HookInfos \cup IgnoreInfos
Threads == Clients \cup Workers

ASSUME CoreAssumption ==
  /\ MaxCalls \in Nat
  /\ SerialRegister \in BOOLEAN
  /\ SerialClear \in BOOLEAN
  /\ Clients \cap Workers = {}
  /\ NoThread \notin Threads
  /\ Infos \cap {"none", "sync", "async"} = {}

VARIABLES
  coreMutex,     \* owner of xh_core_mutex
  refreshMutex,  \* owner of xh_core_refresh_mutex
  inited, initOk, asyncInited, asyncInitOk,
  running,       \* xh_core_refresh_thread_running
  do,            \* xh_core_refresh_thread_do
  tid,           \* xh_core_refresh_thread_tid
  infos,         \* the elements of the hook_info and ignore_info queues
  mapInfo,       \* the map_info entries, each the set of infos it was hooked with
  pc, arg,       \* where each client is, and the argument of its call
  wpc,           \* where each worker is
  calls,         \* API calls made so far
  asked,         \* history: state of each client's last async request
  failed         \* history: initialisations that failed since the last clear

locks      == <<coreMutex, refreshMutex>>
initFlags  == <<inited, initOk>>
asyncFlags == <<asyncInited, asyncInitOk>>
workerVars == <<running, do, tid, wpc>>
data       == <<infos, mapInfo>>
history    == <<asked, failed>>
callVars   == <<pc, arg, calls>>
vars == <<locks, initFlags, asyncFlags, workerVars, data, callVars, history>>

RegisterPcs == {"insert"}
RefreshPcs  == {"initFast", "initLock", "initHandler", "initCheck",
                "asyncFast", "asyncLock", "asyncCreate", "asyncCheck",
                "post", "syncLock", "syncWalk"}
ClearPcs    == {"clearAsync", "clearStop", "clearJoin", "clearAsyncInited",
                "clearHandler", "clearInited", "clearCore", "clearFree"}
LockedPcs   == {"initHandler", "asyncCreate", "clearFree"}  \* with core_mutex
WorkerPcs   == {"unborn", "loop", "lock", "wait", "refreshLock", "walk", "exited"}

Init ==
  /\ coreMutex = NoThread /\ refreshMutex = NoThread
  /\ inited = FALSE /\ initOk = FALSE
  /\ asyncInited = FALSE /\ asyncInitOk = FALSE
  /\ running = FALSE /\ do = FALSE /\ tid = NoThread
  /\ infos = {} /\ mapInfo = {}
  /\ pc = [c \in Clients |-> "idle"] /\ arg = [c \in Clients |-> "none"]
  /\ wpc = [w \in Workers |-> "unborn"]
  /\ calls = 0
  /\ asked = [c \in Clients |-> "no"] /\ failed = {}

-----------------------------------------------------------------------------
(* Calls and returns.                                                      *)

Goto(c, l) == pc' = [pc EXCEPT ![c] = l]

Return(c) == /\ pc' = [pc EXCEPT ![c] = "idle"]
             /\ arg' = [arg EXCEPT ![c] = "none"]

NobodyIn(pcs) == \A d \in Clients : pc[d] \notin pcs

\* A new call by client c, allowed by the application's own serialisation.
MayCall(c) == /\ pc[c] = "idle"
              /\ calls < MaxCalls
              /\ SerialClear => NobodyIn(ClearPcs)

-----------------------------------------------------------------------------
(* xh_core_register and xh_core_ignore.  The test of inited holds no lock; *)
(* regcomp, malloc and strdup may fail after it.                           *)

\* Mutant of AcceptsInfos: the test is dropped.
AcceptsAlways == TRUE

AcceptsInfos == ~inited

\* Mutant of CallAdd: the argument is lost.
CallAddNoArg(c, i) ==
  /\ MayCall(c)
  /\ AcceptsInfos
  /\ calls' = calls + 1
  /\ Goto(c, "insert")
  /\ UNCHANGED <<arg, locks, initFlags, asyncFlags, workerVars, data, history>>

CallAdd(c, i) ==
  /\ MayCall(c)
  /\ SerialRegister => NobodyIn(RefreshPcs)
  /\ calls' = calls + 1
  /\ \/ /\ AcceptsInfos
        /\ Goto(c, "insert")
        /\ arg' = [arg EXCEPT ![c] = i]
     \/ UNCHANGED <<pc, arg>>              \* XH_ERRNO_INVAL or NOMEM
  /\ UNCHANGED <<locks, initFlags, asyncFlags, workerVars, data, history>>

Register(c, h) == h \in HookInfos /\ CallAdd(c, h)
Ignore(c, i)   == i \in IgnoreInfos /\ CallAdd(c, i)

Insert(c) ==
  /\ pc[c] = "insert"
  /\ coreMutex = NoThread
  /\ infos' = infos \cup {arg[c]}
  /\ Return(c)
  /\ UNCHANGED <<locks, initFlags, asyncFlags, workerVars, mapInfo, calls, history>>

-----------------------------------------------------------------------------
(* xh_core_refresh: xh_core_init_once, then xh_core_init_async_once and a  *)
(* request to the worker, or a refresh by the caller.                      *)

Refresh(c, mode) ==
  /\ MayCall(c)
  /\ SerialRegister => NobodyIn(RegisterPcs)
  /\ calls' = calls + 1
  /\ Goto(c, "initFast")
  /\ arg' = [arg EXCEPT ![c] = mode]
  /\ UNCHANGED <<locks, initFlags, asyncFlags, workerVars, data, history>>

InitFast(c) ==
  /\ pc[c] = "initFast"
  /\ Goto(c, IF inited THEN "initCheck" ELSE "initLock")
  /\ UNCHANGED <<locks, initFlags, asyncFlags, workerVars, data, arg, calls, history>>

InitLock(c) ==
  /\ pc[c] = "initLock"
  /\ coreMutex = NoThread
  /\ \/ /\ inited
        /\ Goto(c, "initCheck")
        /\ UNCHANGED <<coreMutex, inited>>
     \/ /\ ~inited
        /\ inited' = TRUE
        /\ coreMutex' = c
        /\ Goto(c, "initHandler")
  /\ UNCHANGED <<refreshMutex, initOk, asyncFlags, workerVars, data, arg, calls, history>>

\* sigaction may refuse the SIGSEGV handler; inited stays set all the same.
InitHandler(c) ==
  /\ pc[c] = "initHandler"
  /\ \/ initOk' = TRUE /\ UNCHANGED failed
     \/ failed' = failed \cup {"handler"} /\ UNCHANGED initOk
  /\ coreMutex' = NoThread
  /\ Goto(c, "initCheck")
  /\ UNCHANGED <<refreshMutex, inited, asyncFlags, workerVars, data, arg, calls, asked>>

InitCheck(c) ==
  /\ pc[c] = "initCheck"
  /\ IF initOk
     THEN /\ Goto(c, IF arg[c] = "async" THEN "asyncFast" ELSE "syncLock")
          /\ UNCHANGED arg
     ELSE Return(c)                        \* XH_ERRNO_UNKNOWN
  /\ UNCHANGED <<locks, initFlags, asyncFlags, workerVars, data, calls, history>>

AsyncFast(c) ==
  /\ pc[c] = "asyncFast"
  /\ Goto(c, IF asyncInited THEN "asyncCheck" ELSE "asyncLock")
  /\ UNCHANGED <<locks, initFlags, asyncFlags, workerVars, data, arg, calls, history>>

AsyncLock(c) ==
  /\ pc[c] = "asyncLock"
  /\ coreMutex = NoThread
  /\ \/ /\ asyncInited
        /\ Goto(c, "asyncCheck")
        /\ UNCHANGED <<coreMutex, asyncInited, running>>
     \/ /\ ~asyncInited
        /\ asyncInited' = TRUE
        /\ running' = TRUE
        /\ coreMutex' = c
        /\ Goto(c, "asyncCreate")
  /\ UNCHANGED <<refreshMutex, initFlags, asyncInitOk, do, tid, wpc, data,
                 arg, calls, history>>

\* Mutant of AsyncCreate: async_init_ok is not set after a success.
AsyncCreateNotOk(c) ==
  /\ pc[c] = "asyncCreate"
  /\ \E w \in Workers :
       /\ wpc[w] = "unborn"
       /\ wpc' = [wpc EXCEPT ![w] = "loop"]
       /\ tid' = w
  /\ coreMutex' = NoThread
  /\ Goto(c, "asyncCheck")
  /\ UNCHANGED <<refreshMutex, initFlags, asyncFlags, running, do, data, arg, calls, history>>

\* pthread_create under core_mutex: it starts a worker or fails for good.
AsyncCreate(c) ==
  /\ pc[c] = "asyncCreate"
  /\ \/ \E w \in Workers :
          /\ wpc[w] = "unborn"
          /\ wpc' = [wpc EXCEPT ![w] = "loop"]
          /\ tid' = w
          /\ asyncInitOk' = TRUE
          /\ UNCHANGED <<running, failed>>
     \/ /\ running' = FALSE
        /\ failed' = failed \cup {"thread"}
        /\ UNCHANGED <<wpc, tid, asyncInitOk>>
  /\ coreMutex' = NoThread
  /\ Goto(c, "asyncCheck")
  /\ UNCHANGED <<refreshMutex, initFlags, asyncInited, do, data, arg, calls, asked>>

AsyncCheck(c) ==
  /\ pc[c] = "asyncCheck"
  /\ IF asyncInitOk
     THEN Goto(c, "post") /\ UNCHANGED arg
     ELSE Return(c)                        \* XH_ERRNO_UNKNOWN
  /\ UNCHANGED <<locks, initFlags, asyncFlags, workerVars, data, calls, history>>

\* Mutant of Signal: nobody is woken.
SignalLost == UNCHANGED wpc

\* pthread_cond_signal: one of the threads waiting on the condition, if there
\* is one, goes on to take core_mutex again.
Signal ==
  \/ \E w \in Workers : wpc[w] = "wait" /\ wpc' = [wpc EXCEPT ![w] = "lock"]
  \/ (\A w \in Workers : wpc[w] # "wait") /\ UNCHANGED wpc

Post(c) ==
  /\ pc[c] = "post"
  /\ coreMutex = NoThread
  /\ do' = TRUE
  /\ Signal
  /\ asked' = [asked EXCEPT ![c] = "asked"]
  /\ Return(c)
  /\ UNCHANGED <<locks, initFlags, asyncFlags, running, tid, data, calls, failed>>

\* xh_core_refresh_impl as seen from here.  The library keeps its entry (still
\* mapped at the same address, or the maps file cannot be opened), is hooked
\* with all the infos there are (newly mapped, or mapped elsewhere), or loses
\* its entry (not mapped, or not selected by any info).
RefreshImpl == mapInfo' \in {mapInfo, {infos}, {}}

\* Mutant of RefreshMutexFree: the mutex is not waited for.
RefreshMutexIgnored == TRUE

RefreshMutexFree == refreshMutex = NoThread

SyncLock(c) ==
  /\ pc[c] = "syncLock"
  /\ RefreshMutexFree
  /\ refreshMutex' = c
  /\ Goto(c, "syncWalk")
  /\ UNCHANGED <<coreMutex, initFlags, asyncFlags, workerVars, data, arg, calls, history>>

SyncWalk(c) ==
  /\ pc[c] = "syncWalk"
  /\ RefreshImpl
  /\ refreshMutex' = NoThread
  /\ Return(c)
  /\ UNCHANGED <<coreMutex, initFlags, asyncFlags, workerVars, infos, calls, history>>

-----------------------------------------------------------------------------
(* xh_core_refresh_thread_func.                                            *)

WorkerLoop(w) ==
  /\ wpc[w] = "loop"
  /\ wpc' = [wpc EXCEPT ![w] = IF running THEN "lock" ELSE "exited"]
  /\ UNCHANGED <<locks, initFlags, asyncFlags, running, do, tid, data, callVars, history>>

\* With core_mutex taken: leave, wait on the condition, or take the request.
WorkerLock(w) ==
  /\ wpc[w] = "lock"
  /\ coreMutex = NoThread
  /\ \/ /\ ~running
        /\ wpc' = [wpc EXCEPT ![w] = "exited"]
        /\ UNCHANGED <<do, asked>>
     \/ /\ running /\ ~do
        /\ wpc' = [wpc EXCEPT ![w] = "wait"]
        /\ UNCHANGED <<do, asked>>
     \/ /\ running /\ do
        /\ do' = FALSE
        /\ wpc' = [wpc EXCEPT ![w] = "refreshLock"]
        /\ asked' = [c \in Clients |-> IF asked[c] = "asked" THEN "taken" ELSE asked[c]]
  /\ UNCHANGED <<locks, initFlags, asyncFlags, running, tid, data, callVars, failed>>

\* POSIX lets pthread_cond_wait return without a signal.
WorkerSpurious(w) ==
  /\ wpc[w] = "wait"
  /\ wpc' = [wpc EXCEPT ![w] = "lock"]
  /\ UNCHANGED <<locks, initFlags, asyncFlags, running, do, tid, data, callVars, history>>

WorkerRefreshLock(w) ==
  /\ wpc[w] = "refreshLock"
  /\ RefreshMutexFree
  /\ refreshMutex' = w
  /\ wpc' = [wpc EXCEPT ![w] = "walk"]
  /\ UNCHANGED <<coreMutex, initFlags, asyncFlags, running, do, tid, data, callVars, history>>

\* Mutant of WorkerWalk: the request flag is reset after the refresh.
WorkerWalkResets(w) ==
  /\ wpc[w] = "walk"
  /\ RefreshImpl
  /\ refreshMutex' = NoThread
  /\ do' = FALSE
  /\ wpc' = [wpc EXCEPT ![w] = "loop"]
  /\ asked' = [c \in Clients |-> IF asked[c] = "taken" THEN "no" ELSE asked[c]]
  /\ UNCHANGED <<coreMutex, initFlags, asyncFlags, running, tid, infos, callVars, failed>>

WorkerWalk(w) ==
  /\ wpc[w] = "walk"
  /\ RefreshImpl
  /\ refreshMutex' = NoThread
  /\ wpc' = [wpc EXCEPT ![w] = "loop"]
  /\ asked' = [c \in Clients |-> IF asked[c] = "taken" THEN "no" ELSE asked[c]]
  /\ UNCHANGED <<coreMutex, initFlags, asyncFlags, running, do, tid, infos, callVars, failed>>

-----------------------------------------------------------------------------
(* xh_core_clear.                                                          *)

Clear(c) ==
  /\ MayCall(c)
  /\ SerialClear => \A d \in Clients : pc[d] = "idle"
  /\ calls' = calls + 1
  /\ Goto(c, "clearAsync")
  /\ UNCHANGED <<locks, initFlags, asyncFlags, workerVars, data, arg, history>>

ClearAsync(c) ==
  /\ pc[c] = "clearAsync"
  /\ Goto(c, IF asyncInitOk THEN "clearStop" ELSE "clearAsyncInited")
  /\ UNCHANGED <<locks, initFlags, asyncFlags, workerVars, data, arg, calls, history>>

\* The requests the worker has not taken yet are withdrawn with it.
ClearStop(c) ==
  /\ pc[c] = "clearStop"
  /\ coreMutex = NoThread
  /\ running' = FALSE
  /\ Signal
  /\ asked' = [d \in Clients |-> IF asked[d] = "asked" THEN "no" ELSE asked[d]]
  /\ Goto(c, "clearJoin")
  /\ UNCHANGED <<locks, initFlags, asyncFlags, do, tid, data, arg, calls, failed>>

\* Mutant of ClearJoin: clear goes on without joining the worker.
ClearJoinSkipped(c) ==
  /\ pc[c] = "clearJoin"
  /\ asyncInitOk' = FALSE
  /\ Goto(c, "clearAsyncInited")
  /\ UNCHANGED <<locks, initFlags, asyncInited, workerVars, data, arg, calls, history>>

\* pthread_join waits for the thread in tid; one that was joined already (its
\* identity is free) makes it return ESRCH, that clear ignores.
ClearJoin(c) ==
  /\ pc[c] = "clearJoin"
  /\ wpc[tid] \in {"exited", "unborn"}
  /\ wpc' = [wpc EXCEPT ![tid] = "unborn"]
  /\ asyncInitOk' = FALSE
  /\ Goto(c, "clearAsyncInited")
  /\ UNCHANGED <<locks, initFlags, asyncInited, running, do, tid, data, arg, calls, history>>

ClearAsyncInited(c) ==
  /\ pc[c] = "clearAsyncInited"
  /\ asyncInited' = FALSE
  /\ Goto(c, "clearHandler")
  /\ UNCHANGED <<locks, initFlags, asyncInitOk, workerVars, data, arg, calls, history>>

ClearHandler(c) ==
  /\ pc[c] = "clearHandler"
  /\ initOk' = FALSE
  /\ Goto(c, "clearInited")
  /\ UNCHANGED <<locks, inited, asyncFlags, workerVars, data, arg, calls, history>>

ClearInited(c) ==
  /\ pc[c] = "clearInited"
  /\ inited' = FALSE
  /\ failed' = {}
  /\ Goto(c, "clearCore")
  /\ UNCHANGED <<locks, initOk, asyncFlags, workerVars, data, arg, calls, asked>>

ClearCore(c) ==
  /\ pc[c] = "clearCore"
  /\ coreMutex = NoThread
  /\ coreMutex' = c
  /\ Goto(c, "clearFree")
  /\ UNCHANGED <<refreshMutex, initFlags, asyncFlags, workerVars, data, arg, calls, history>>

\* Mutant of ClearFree: the map tree is kept.
ClearFreeKeepsMaps(c) ==
  /\ pc[c] = "clearFree"
  /\ RefreshMutexFree
  /\ infos' = {}
  /\ coreMutex' = NoThread
  /\ Return(c)
  /\ UNCHANGED <<refreshMutex, initFlags, asyncFlags, workerVars, mapInfo, calls, history>>

ClearFree(c) ==
  /\ pc[c] = "clearFree"
  /\ RefreshMutexFree
  /\ mapInfo' = {}
  /\ infos' = {}
  /\ coreMutex' = NoThread
  /\ Return(c)
  /\ UNCHANGED <<refreshMutex, initFlags, asyncFlags, workerVars, calls, history>>

-----------------------------------------------------------------------------
(* The next-state relation and the specifications.                         *)

Call(c) ==
  \/ \E h \in HookInfos : Register(c, h)
  \/ \E i \in IgnoreInfos : Ignore(c, i)
  \/ \E mode \in {"sync", "async"} : Refresh(c, mode)
  \/ Clear(c)

ClientStep(c) ==
  \/ Insert(c)
  \/ InitFast(c) \/ InitLock(c) \/ InitHandler(c) \/ InitCheck(c)
  \/ AsyncFast(c) \/ AsyncLock(c) \/ AsyncCreate(c) \/ AsyncCheck(c) \/ Post(c)
  \/ SyncLock(c) \/ SyncWalk(c)
  \/ ClearAsync(c) \/ ClearStop(c) \/ ClearJoin(c) \/ ClearAsyncInited(c)
  \/ ClearHandler(c) \/ ClearInited(c) \/ ClearCore(c) \/ ClearFree(c)

WorkerStep(w) ==
  WorkerLoop(w) \/ WorkerLock(w) \/ WorkerRefreshLock(w) \/ WorkerWalk(w)

Next ==
  \/ \E c \in Clients : Call(c) \/ ClientStep(c)
  \/ \E w \in Workers : WorkerStep(w) \/ WorkerSpurious(w)

Spec == Init /\ [][Next]_vars

\* A thread inside the library keeps running; nobody has to call it, and no
\* spurious wake-up has to come.
Fairness ==
  /\ \A c \in Clients : WF_vars(ClientStep(c))
  /\ \A w \in Workers : WF_vars(WorkerStep(w))

FairSpec == Spec /\ Fairness
-----------------------------------------------------------------------------
(* Invariants.                                                             *)

FlagsTyped ==
  /\ inited \in BOOLEAN /\ initOk \in BOOLEAN
  /\ asyncInited \in BOOLEAN /\ asyncInitOk \in BOOLEAN
  /\ running \in BOOLEAN /\ do \in BOOLEAN

StateTyped ==
  /\ coreMutex \in Clients \cup {NoThread}
  /\ refreshMutex \in Threads \cup {NoThread}
  /\ tid \in Workers \cup {NoThread}
  /\ infos \in SUBSET Infos
  /\ mapInfo \in SUBSET SUBSET Infos
  /\ pc \in [Clients -> {"idle"} \cup RegisterPcs \cup RefreshPcs \cup ClearPcs]
  /\ arg \in [Clients -> Infos \cup {"none", "sync", "async"}]
  /\ \A c \in Clients : pc[c] = "insert" => arg[c] \in Infos
  /\ wpc \in [Workers -> WorkerPcs]
  /\ calls \in 0..MaxCalls
  /\ asked \in [Clients -> {"no", "asked", "taken"}]
  /\ failed \in SUBSET {"handler", "thread"}

\* Every variable holds a value the code can store in it.
TypeOK == FlagsTyped /\ StateTyped

\* A thread is in the middle of xh_core_refresh_impl.
Refreshing(t) == \/ t \in Clients /\ pc[t] = "syncWalk"
                 \/ t \in Workers /\ wpc[t] = "walk"

\* At most one thread walks the maps at a time, and it owns refresh_mutex; the
\* threads that hold core_mutex across a step own it.  Callers, the worker and
\* clear can all be inside the library together (xh_core.c:488, 575, 607).
LocksHeld ==
  /\ \A t \in Threads : Refreshing(t) <=> refreshMutex = t
  /\ \A c \in Clients : pc[c] \in LockedPcs <=> coreMutex = c

\* There is at most one refresh thread, it is the one clear will join, and
\* async_init_ok says whether there is one (xh_core.c:537-548, 586-596): no
\* sequence of refreshes, failures and clears leaves a second worker behind.
OneWorker ==
  /\ \A w \in Workers : wpc[w] # "unborn" => w = tid
  /\ asyncInitOk <=> \E w \in Workers : wpc[w] # "unborn"

\* The worker never sleeps on the condition while there is something for it to
\* do: no post of refresh and no stop of clear is a lost wake-up
\* (xh_core.c:475-478, 568-569, 589-590).
NoLostWakeup == \A w \in Workers : wpc[w] = "wait" => running /\ ~do

\* A request that refresh(async) accepted is remembered until a refresh that
\* begins after it: in the do flag of a running worker, then in the worker on
\* its way through refresh_impl.  A post that arrives while the worker is busy
\* is not merged with the refresh under way (xh_core.c:484 before 488).
RequestHeld ==
  \A c \in Clients :
    /\ asked[c] = "asked" => do /\ running /\ asyncInitOk
    /\ asked[c] = "taken" => \E w \in Workers : wpc[w] \in {"refreshLock", "walk"}

\* No refresh runs outside the span between a successful initialisation and
\* clear: the SIGSEGV handler is in place whenever libraries are being hooked
\* (clear joins the worker at xh_core.c:593 before it unregisters at 601).
RefreshOnlyWhenReady ==
  \A t \in Threads : Refreshing(t) => inited /\ initOk

\* The library that map_info remembers was hooked with every hook and ignore
\* info the application has registered: an entry is never re-hooked while its
\* base address stands (xh_core.c:408), so an info it missed is missed for good.
EntryCurrent == mapInfo \subseteq {infos}

-----------------------------------------------------------------------------
(* The abstract service this module implements.                            *)

Service == INSTANCE HookService WITH
  Callers <- Clients,
  Rules   <- Infos,
  phase   <- IF ~NobodyIn(ClearPcs) THEN "closing"
             ELSE IF inited THEN "serving" ELSE "collecting",
  rules   <- infos,
  entries <- mapInfo,
  owed    <- {c \in Clients : asked[c] # "no"}

\* Seen through the mapping above, the flags, mutexes and threads of xh_core.c
\* behave as HookService: infos are accepted before the first refresh only, a
\* refresh applies all of them, requests are served or withdrawn, and clear
\* returns to the initial state with nothing owed.
ServiceSpec == Service!SSpec

-----------------------------------------------------------------------------
(* Action properties.                                                      *)

\* Hook and ignore infos are added only before the first refresh: "do not
\* register hook after refresh()", xh_core.c:147.
NoInsertAfterRefresh ==
  [][inited => infos' \subseteq infos]_vars

\* Nothing is freed under a refresh in progress: clear takes refresh_mutex for
\* the purpose (xh_core.c:607), whatever the application overlaps.
NoFreeDuringRefresh ==
  [][~(infos \subseteq infos') => \A t \in Threads : ~Refreshing(t)]_vars

\* refresh answers XH_ERRNO_UNKNOWN only when an initialisation failed since
\* the last clear, or when another caller is inside that very initialisation:
\* the unlocked fast path (xh_core.c:498, 531) lets a second caller reach the
\* test of init_ok (558) or async_init_ok (564) before it is set.
UnknownExplained ==
  [][\A c \in Clients :
       /\ pc[c] = "initCheck" /\ pc'[c] = "idle" =>
            "handler" \in failed \/ \E d \in Clients : pc[d] = "initHandler"
       /\ pc[c] = "asyncCheck" /\ pc'[c] = "idle" =>
            "thread" \in failed \/ \E d \in Clients : pc[d] = "asyncCreate"]_vars

-----------------------------------------------------------------------------
(* Liveness.                                                               *)

\* Every call returns: no caller is stuck behind the two mutexes, and the join
\* in clear always sees the worker leave (xh_core.c:593).
EveryCallReturns == \A c \in Clients : pc[c] # "idle" ~> pc[c] = "idle"

\* Every accepted asynchronous request is followed by a whole refresh that
\* began after it, or is withdrawn by clear.
RequestServed == \A c \in Clients : asked[c] # "no" ~> asked[c] = "no"
=============================================================================
