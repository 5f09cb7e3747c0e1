--------------------------- MODULE RuntimeManager ---------------------------
(***************************************************************************)
(* The process-local registry of profile supervisors,                      *)
(* app/services/runtime_manager.py.                                        *)
(*                                                                         *)
(* Request threads (Callers) call start and stop; the ASGI lifespan thread *)
(* (Main) calls shutdown once.  Each `with self._registry_lock` block is   *)
(* one action; everything between two blocks is a separate action, so the  *)
(* threads interleave exactly where the code lets them.                    *)
(*                                                                         *)
(* A worker is the thread that runs TunnelSupervisor.run.  This module     *)
(* keeps of it what the registry depends on: the profile file lock, the    *)
(* runtime evidence file, the stop and finished events and the class of    *)
(* the published snapshot.  TunnelSupervisor.tla has the detail.           *)
(*                                                                         *)
(* runtime[n] abstracts the evidence file of profile n: "none" (no file),  *)
(* "live" (the recorded process matches), "stale" (file present, recorded  *)
(* process absent or mismatched).                                          *)
(***************************************************************************)
EXTENDS Naturals

CONSTANTS
    Names,      \* profile names
    Callers,    \* request threads that call start and stop
    Main,       \* the lifespan thread that calls shutdown
    Workers,    \* BOUND: the worker threads one behaviour may create
    None,       \* absence of a worker, of a lock owner
    Other       \* any other holder of a profile file lock

Threads == Callers \cup {Main}

ASSUME ConstantsDisjoint ==
    /\ Main \notin Callers
    /\ None \notin Workers \cup Threads
    /\ Other \notin Workers \cup Threads
    /\ None # Other
    /\ Workers \cap Threads = {}

VARIABLES
    \* RuntimeManager
    closed,      \* self._closed
    stopping,    \* self._stopping_profiles
    registry,    \* self._workers, None where the dict has no entry
    \* one _Worker each
    wname,       \* the profile a worker supervises
    wpc,         \* control state; "done" is finished_event.is_set()
    stopEvent,   \* stop_event
    snap,        \* class of the published snapshot
    \* ProfileStore
    profiles,    \* names with a profile file
    runtime,     \* evidence file per name
    lock,        \* holder of supervisor_lock(name)
    \* calling threads
    pc, target, held, result,
    \* locals of shutdown
    batch,       \* the snapshot of _workers still to be visited
    unresolved   \* names whose result is not (worker_exited and STOPPED)

managerVars == <<closed, stopping, registry>>
workerVars  == <<wname, wpc, stopEvent, snap>>
storeVars   == <<profiles, runtime, lock>>
threadVars  == <<pc, target, held, result>>
shutVars    == <<batch, unresolved>>
vars == <<managerVars, workerVars, storeVars, threadVars, shutVars>>

-----------------------------------------------------------------------------
RuntimeKinds == {"none", "live", "stale"}

WorkerPcs == {"none", "start", "loop", "body", "cleanup", "exiting", "released", "done"}

Snapshots == {"STARTING", "RUNNING", "STOPPING", "STOPPED", "FAILED"}

\* A thread is inside these from _begin_profile_stop to the matching discard.
SupervisedStopPcs   == {"stopWait", "stopRelease"}
UnsupervisedStopPcs == {"unsupGet", "unsupLock", "unsupStop", "unsupUnlock", "unsupRelease"}
StopPcs             == SupervisedStopPcs \cup UnsupervisedStopPcs

ThreadPcs == StopPcs \cup
    {"idle", "startGet", "startRegister", "shutLoop", "shutWait", "shutInspect", "shutClaim", "done",
     "raised"}

Results == {"none", "error", "timeout"} \cup Snapshots

Live(w)     == wpc[w] \notin {"none", "done"}
Finished(w) == wpc[w] = "done"
Unfinished(w) == w # None /\ ~ Finished(w)

Stopper(t, n) == pc[t] \in StopPcs /\ target[t] = n

TypeOK ==
    /\ closed \in BOOLEAN
    /\ stopping \in SUBSET Names
    /\ registry \in [Names -> Workers \cup {None}]
    /\ wname \in [Workers -> Names \cup {None}]
    /\ wpc \in [Workers -> WorkerPcs]
    /\ stopEvent \in [Workers -> BOOLEAN]
    /\ snap \in [Workers -> Snapshots]
    /\ profiles \in SUBSET Names
    /\ runtime \in [Names -> RuntimeKinds]
    /\ lock \in [Names -> Workers \cup Threads \cup {None, Other}]
    /\ pc \in [Threads -> ThreadPcs]
    /\ target \in [Threads -> Names \cup {None}]
    /\ held \in [Threads -> Workers \cup {None}]
    /\ result \in [Threads -> Results]
    /\ batch \in [Names -> Workers \cup {None}]
    /\ unresolved \in SUBSET Names

\* A freshly created manager over whatever a previous run left on disk.
Init ==
    /\ closed = FALSE
    /\ stopping = {}
    /\ registry = [n \in Names |-> None]
    /\ wname = [w \in Workers |-> None]
    /\ wpc = [w \in Workers |-> "none"]
    /\ stopEvent = [w \in Workers |-> FALSE]
    /\ snap = [w \in Workers |-> "STARTING"]
    /\ profiles = Names
    /\ runtime \in [Names -> RuntimeKinds]
    /\ lock = [n \in Names |-> None]
    /\ pc = [t \in Threads |-> "idle"]
    /\ target = [t \in Threads |-> None]
    /\ held = [t \in Threads |-> None]
    /\ result = [t \in Threads |-> "none"]
    /\ batch = [n \in Names |-> None]
    /\ unresolved = {}

-----------------------------------------------------------------------------
(* start *)

\* _ensure_start_allowed
StartAllowed(n) == ~closed /\ n \notin stopping

Goto(t, label) == pc' = [pc EXCEPT ![t] = label]

\* The call returns or raises, and its locals are gone.
Return(t) ==
    /\ Goto(t, "idle")
    /\ target' = [target EXCEPT ![t] = None]
    /\ held' = [held EXCEPT ![t] = None]
    /\ result' = [result EXCEPT ![t] = "none"]

\* A call refused at once changes nothing.
StartCheck(t, n) ==
    /\ t \in Callers /\ pc[t] = "idle" /\ StartAllowed(n)
    /\ target' = [target EXCEPT ![t] = n]
    /\ Goto(t, "startGet")
    /\ UNCHANGED <<managerVars, workerVars, storeVars, held, result, shutVars>>

\* self.profiles.get(name), outside the registry lock
StartGet(t) ==
    /\ pc[t] = "startGet"
    /\ IF target[t] \in profiles
         THEN Goto(t, "startRegister") /\ UNCHANGED <<target, held, result>>
         ELSE Return(t)
    /\ UNCHANGED <<managerVars, workerVars, storeVars, shutVars>>

StartRefused(t) ==
    /\ pc[t] = "startRegister" /\ ~ StartAllowed(target[t])
    /\ Return(t)
    /\ UNCHANGED <<managerVars, workerVars, storeVars, shutVars>>

\* An unfinished worker is registered: its snapshot is returned.
StartAttach(t) ==
    /\ pc[t] = "startRegister" /\ StartAllowed(target[t])
    /\ Unfinished(registry[target[t]])
    /\ Return(t)
    /\ UNCHANGED <<managerVars, workerVars, storeVars, shutVars>>

\* Mutant: a published terminal snapshot is taken for a finished worker.
StartCreateOnTerminalSnapshot(t, w) ==
    /\ pc[t] = "startRegister" /\ StartAllowed(target[t])
    /\ Unfinished(registry[target[t]]) => snap[registry[target[t]]] \in {"STOPPED", "FAILED"}
    /\ wpc[w] = "none"
    /\ registry' = [registry EXCEPT ![target[t]] = w]
    /\ wname' = [wname EXCEPT ![w] = target[t]]
    /\ wpc' = [wpc EXCEPT ![w] = "start"]
    /\ Return(t)
    /\ UNCHANGED <<closed, stopping, stopEvent, snap, storeVars, shutVars>>

\* Mutant: no second _ensure_start_allowed after profiles.get.
StartCreateUnchecked(t, w) ==
    /\ pc[t] = "startRegister"
    /\ ~ Unfinished(registry[target[t]])
    /\ wpc[w] = "none"
    /\ registry' = [registry EXCEPT ![target[t]] = w]
    /\ wname' = [wname EXCEPT ![w] = target[t]]
    /\ wpc' = [wpc EXCEPT ![w] = "start"]
    /\ Return(t)
    /\ UNCHANGED <<closed, stopping, stopEvent, snap, storeVars, shutVars>>

StartCreate(t, w) ==
    /\ pc[t] = "startRegister" /\ StartAllowed(target[t])
    /\ ~ Unfinished(registry[target[t]])
    /\ wpc[w] = "none"
    /\ registry' = [registry EXCEPT ![target[t]] = w]
    /\ wname' = [wname EXCEPT ![w] = target[t]]
    /\ wpc' = [wpc EXCEPT ![w] = "start"]
    /\ Return(t)
    /\ UNCHANGED <<closed, stopping, stopEvent, snap, storeVars, shutVars>>

-----------------------------------------------------------------------------
(* stop *)

\* _begin_profile_stop, which refuses a second stop, and the choice between
\* the two ways to stop
StopBegin(t, n) ==
    /\ t \in Callers /\ pc[t] = "idle" /\ n \notin stopping
    /\ stopping' = stopping \cup {n}
    /\ target' = [target EXCEPT ![t] = n]
    /\ held' = [held EXCEPT ![t] = registry[n]]
    /\ IF Unfinished(registry[n])
         THEN Goto(t, "stopWait") /\ stopEvent' = [stopEvent EXCEPT ![registry[n]] = TRUE]
         ELSE Goto(t, "unsupGet") /\ UNCHANGED stopEvent
    /\ UNCHANGED <<closed, registry, wname, wpc, snap, storeVars, result, shutVars>>

\* Mutant: the terminal snapshot is taken for the finished event.
StopExitedOnSnapshot(t) ==
    /\ pc[t] = "stopWait" /\ snap[held[t]] \in {"STOPPED", "FAILED"}
    /\ result' = [result EXCEPT ![t] = snap[held[t]]]
    /\ Goto(t, "stopRelease")
    /\ UNCHANGED <<managerVars, workerVars, storeVars, target, held, shutVars>>

\* finished_event.wait returned True, and the final snapshot is read
StopExited(t) ==
    /\ pc[t] = "stopWait" /\ Finished(held[t])
    /\ result' = [result EXCEPT ![t] = snap[held[t]]]
    /\ Goto(t, "stopRelease")
    /\ UNCHANGED <<managerVars, workerVars, storeVars, target, held, shutVars>>

\* finished_event.wait timed out
StopTimeout(t) ==
    /\ pc[t] = "stopWait" /\ ~ Finished(held[t])
    /\ result' = [result EXCEPT ![t] = "timeout"]
    /\ Goto(t, "stopRelease")
    /\ UNCHANGED <<managerVars, workerVars, storeVars, target, held, shutVars>>

StopRelease(t) ==
    /\ pc[t] = "stopRelease"
    /\ stopping' = stopping \ {target[t]}
    /\ Return(t)
    /\ UNCHANGED <<closed, registry, workerVars, storeVars, shutVars>>

-----------------------------------------------------------------------------
(* _stop_unsupervised_guarded, reached from stop and from shutdown *)

\* Mutant: PROFILE_NOT_FOUND escapes without the finally block.
UnsupGetNoFinally(t) ==
    /\ pc[t] = "unsupGet"
    /\ IF target[t] \in profiles
         THEN Goto(t, "unsupLock") /\ UNCHANGED <<target, held, result>>
         ELSE Return(t)
    /\ UNCHANGED <<managerVars, workerVars, storeVars, shutVars>>

\* profiles.get; a missing profile raises, an unreadable file may.
UnsupGet(t) ==
    /\ pc[t] = "unsupGet"
    /\ \/ target[t] \in profiles /\ Goto(t, "unsupLock") /\ UNCHANGED result
       \/ Goto(t, "unsupRelease") /\ result' = [result EXCEPT ![t] = "error"]
    /\ UNCHANGED <<managerVars, workerVars, storeVars, target, held, shutVars>>

\* Mutant: a busy lock does not keep the stop from its work.
UnsupLockWaived(t) ==
    /\ pc[t] = "unsupLock"
    /\ lock' = [lock EXCEPT ![target[t]] = IF @ = None THEN t ELSE @]
    /\ Goto(t, "unsupStop")
    /\ UNCHANGED <<managerVars, workerVars, profiles, runtime, target, held, result, shutVars>>

\* supervisor_lock never blocks: a busy lock is the PROFILE_BUSY snapshot.
UnsupLock(t) ==
    /\ pc[t] = "unsupLock"
    /\ IF lock[target[t]] = None
         THEN /\ lock' = [lock EXCEPT ![target[t]] = t]
              /\ Goto(t, "unsupStop") /\ UNCHANGED result
         ELSE /\ Goto(t, "unsupRelease")
              /\ result' = [result EXCEPT ![t] = "FAILED"]
              /\ UNCHANGED lock
    /\ UNCHANGED <<managerVars, workerVars, profiles, runtime, target, held, shutVars>>

\* What the locked block of _stop_unsupervised leaves in the evidence file and
\* returns.  A process that exits between matches and disconnect makes
\* disconnect drop the file; the block writes it back, so "stale" remains unless
\* that raises.  Reading the file may raise too ("error").
UnsupOutcomes(kind) ==
    CASE kind = "none"  -> {<<"none", "STOPPED">>, <<"none", "error">>}
      [] kind = "stale" -> {<<"stale", "FAILED">>, <<"stale", "error">>}
      [] kind = "live"  -> {<<"none", "STOPPED">>} \cup {"live", "stale"} \X {"FAILED", "error"}
                             \cup {<<"none", "error">>}

UnsupStop(t) ==
    /\ pc[t] = "unsupStop"
    /\ \E o \in UnsupOutcomes(runtime[target[t]]) :
         /\ runtime' = [runtime EXCEPT ![target[t]] = o[1]]
         /\ result' = [result EXCEPT ![t] = o[2]]
    /\ Goto(t, "unsupUnlock")
    /\ UNCHANGED <<managerVars, workerVars, profiles, lock, target, held, shutVars>>

UnsupUnlock(t) ==
    /\ pc[t] = "unsupUnlock"
    /\ lock' = [lock EXCEPT ![target[t]] = None]
    /\ Goto(t, "unsupRelease")
    /\ UNCHANGED <<managerVars, workerVars, profiles, runtime, target, held, result, shutVars>>

\* A shutdown result counts as resolved only when the worker exited STOPPED.
Record(t, n, r) ==
    unresolved' = IF t = Main /\ r # "STOPPED" THEN unresolved \cup {n} ELSE unresolved

\* shutdown goes on with the next worker.
Resume ==
    /\ Goto(Main, "shutLoop")
    /\ target' = [target EXCEPT ![Main] = None]
    /\ held' = [held EXCEPT ![Main] = None]
    /\ result' = [result EXCEPT ![Main] = "none"]

\* An exception ends shutdown before it has visited the other workers.
ShutdownRaise ==
    /\ Goto(Main, "raised")
    /\ target' = [target EXCEPT ![Main] = None]
    /\ held' = [held EXCEPT ![Main] = None]
    /\ result' = [result EXCEPT ![Main] = "none"]

\* The finally block: forget the worker the stop was about, drop the flag.
\* In shutdown a RABError becomes a FAILED result and the loop goes on; an error
\* of any other kind goes through.
UnsupRelease(t) ==
    /\ pc[t] = "unsupRelease"
    /\ LET n == target[t] IN
         /\ registry' = IF registry[n] = held[t] /\ held[t] # None /\ Finished(held[t])
                          THEN [registry EXCEPT ![n] = None] ELSE registry
         /\ stopping' = stopping \ {n}
         /\ Record(t, n, result[t])
    /\ \/ t # Main /\ Return(t)
       \/ t = Main /\ Resume
       \/ t = Main /\ result[t] = "error" /\ ShutdownRaise
    /\ UNCHANGED <<closed, workerVars, storeVars, batch>>

-----------------------------------------------------------------------------
(* shutdown *)

\* Mutant: shutdown leaves the manager open to new starts.
ShutdownBeginOpen ==
    /\ pc[Main] = "idle"
    /\ batch' = registry
    /\ stopEvent' = [w \in Workers |->
                       stopEvent[w] \/ (Unfinished(w) /\ \E n \in Names : registry[n] = w)]
    /\ Goto(Main, "shutLoop")
    /\ UNCHANGED <<managerVars, wname, wpc, snap, storeVars, target, held, result, unresolved>>

\* Mutant: shutdown waits for the workers but asks none of them to stop.
ShutdownBeginSilent ==
    /\ pc[Main] = "idle"
    /\ closed' = TRUE
    /\ batch' = registry
    /\ Goto(Main, "shutLoop")
    /\ UNCHANGED <<stopping, registry, workerVars, storeVars, target, held, result, unresolved>>

ShutdownBegin ==
    /\ pc[Main] = "idle"
    /\ closed' = TRUE
    /\ batch' = registry
    /\ stopEvent' = [w \in Workers |->
                       stopEvent[w] \/ (Unfinished(w) /\ \E n \in Names : registry[n] = w)]
    /\ Goto(Main, "shutLoop")
    /\ UNCHANGED <<stopping, registry, wname, wpc, snap, storeVars, target, held, result, unresolved>>

\* The next (name, worker) pair of the loop.
ShutdownNext(n) ==
    /\ pc[Main] = "shutLoop" /\ batch[n] # None
    /\ target' = [target EXCEPT ![Main] = n]
    /\ held' = [held EXCEPT ![Main] = batch[n]]
    /\ batch' = [batch EXCEPT ![n] = None]
    /\ Goto(Main, "shutWait")
    /\ UNCHANGED <<managerVars, workerVars, storeVars, result, unresolved>>

ShutdownExited ==
    /\ pc[Main] = "shutWait" /\ Finished(held[Main])
    /\ Goto(Main, "shutInspect")
    /\ UNCHANGED <<managerVars, workerVars, storeVars, target, held, result, shutVars>>

ShutdownTimeout ==
    /\ pc[Main] = "shutWait" /\ ~ Finished(held[Main])
    /\ Record(Main, target[Main], "timeout")
    /\ Resume
    /\ UNCHANGED <<managerVars, workerVars, storeVars, batch>>

\* load_runtime after the worker exited; it may raise.
ShutdownInspect ==
    /\ pc[Main] = "shutInspect"
    /\ \/ /\ snap[held[Main]] = "STOPPED" /\ runtime[target[Main]] = "none"
          /\ Resume /\ UNCHANGED unresolved
       \/ Record(Main, target[Main], "FAILED") /\ Resume
       \/ /\ snap[held[Main]] # "STOPPED" \/ runtime[target[Main]] # "none"
          /\ Goto(Main, "shutClaim") /\ UNCHANGED <<target, held, result, unresolved>>
    /\ UNCHANGED <<managerVars, workerVars, storeVars, batch>>

\* _shutdown_unsupervised: claim the profile, or report the stop in progress.
ShutdownClaim ==
    /\ pc[Main] = "shutClaim"
    /\ IF target[Main] \in stopping
         THEN Record(Main, target[Main], "FAILED") /\ Resume /\ UNCHANGED stopping
         ELSE /\ stopping' = stopping \cup {target[Main]}
              /\ Goto(Main, "unsupGet") /\ UNCHANGED <<target, held, result, unresolved>>
    /\ UNCHANGED <<closed, registry, workerVars, storeVars, batch>>

ShutdownReturn ==
    /\ pc[Main] = "shutLoop" /\ \A n \in Names : batch[n] = None
    /\ Goto(Main, "done")
    /\ UNCHANGED <<managerVars, workerVars, storeVars, target, held, result, shutVars>>

-----------------------------------------------------------------------------
(* _run_worker and TunnelSupervisor.run, as far as the registry can tell *)

Publish(w, s) == snap' = [snap EXCEPT ![w] = s]
WGoto(w, label) == wpc' = [wpc EXCEPT ![w] = label]

\* supervisor_lock: busy fails without the lock, a missing profile with it.
WorkerLock(w) ==
    /\ wpc[w] = "start"
    /\ \/ /\ lock[wname[w]] # None
          /\ Publish(w, "FAILED") /\ WGoto(w, "released") /\ UNCHANGED lock
       \/ /\ lock[wname[w]] = None
          /\ lock' = [lock EXCEPT ![wname[w]] = w]
          /\ IF wname[w] \in profiles THEN WGoto(w, "loop") /\ UNCHANGED snap
                                      ELSE WGoto(w, "exiting") /\ Publish(w, "FAILED")
    /\ UNCHANGED <<managerVars, wname, stopEvent, profiles, runtime, threadVars, shutVars>>

\* Mutant: the loop looks at the stop event only before its first iteration.
WorkerLoopLatched(w) ==
    /\ wpc[w] = "loop"
    /\ IF stopEvent[w] /\ snap[w] = "STARTING"
         THEN WGoto(w, "cleanup") /\ Publish(w, "STOPPING")
         ELSE WGoto(w, "body") /\ Publish(w, "RUNNING")
    /\ UNCHANGED <<managerVars, wname, stopEvent, storeVars, threadVars, shutVars>>

\* while not stop_event.is_set(), and the breaks out of stop_event.wait
WorkerLoop(w) ==
    /\ wpc[w] = "loop"
    /\ IF stopEvent[w] THEN WGoto(w, "cleanup") /\ Publish(w, "STOPPING")
                       ELSE WGoto(w, "body") /\ Publish(w, "RUNNING")
    /\ UNCHANGED <<managerVars, wname, stopEvent, storeVars, threadVars, shutVars>>

\* One iteration: acquire and verify write evidence, a failed acquire may have
\* dropped it, a failed cleanup keeps it; the iteration ends in another or in
\* a FAILED return.
WorkerBody(w) ==
    /\ wpc[w] = "body"
    /\ \E k \in {"none", "live", runtime[wname[w]]} : runtime' = [runtime EXCEPT ![wname[w]] = k]
    /\ \/ WGoto(w, "loop") /\ UNCHANGED snap
       \/ WGoto(w, "exiting") /\ Publish(w, "FAILED")
    /\ UNCHANGED <<managerVars, wname, stopEvent, profiles, lock, threadVars, shutVars>>

\* _stop and _cleanup_active.  Unlike UnsupOutcomes, a process that exits
\* between matches and disconnect leaves no file: nothing writes it back.  When
\* the cleanup raises, a second one may succeed, and the answer is FAILED.
CleanupOutcomes(kind) ==
    CASE kind = "none"  -> {<<"none", "STOPPED">>, <<"none", "FAILED">>}
      [] kind = "stale" -> {<<"stale", "FAILED">>}
      [] kind = "live"  -> {<<"none", "STOPPED">>, <<"live", "FAILED">>, <<"none", "FAILED">>}

WorkerCleanup(w) ==
    /\ wpc[w] = "cleanup"
    /\ \E o \in CleanupOutcomes(runtime[wname[w]]) :
         /\ runtime' = [runtime EXCEPT ![wname[w]] = o[1]]
         /\ Publish(w, o[2])
    /\ WGoto(w, "exiting")
    /\ UNCHANGED <<managerVars, wname, stopEvent, profiles, lock, threadVars, shutVars>>

WorkerUnlock(w) ==
    /\ wpc[w] = "exiting"
    /\ lock' = [lock EXCEPT ![wname[w]] = None]
    /\ WGoto(w, "released")
    /\ UNCHANGED <<managerVars, wname, stopEvent, snap, profiles, runtime, threadVars, shutVars>>

\* Mutant: the finished event is set before the profile lock is released.
WorkerFinishEarly(w) ==
    /\ wpc[w] \in {"exiting", "released"}
    /\ WGoto(w, "done")
    /\ UNCHANGED <<managerVars, wname, stopEvent, snap, storeVars, threadVars, shutVars>>

\* finished_event.set() in the finally of _run_worker
WorkerFinish(w) ==
    /\ wpc[w] = "released"
    /\ WGoto(w, "done")
    /\ UNCHANGED <<managerVars, wname, stopEvent, snap, storeVars, threadVars, shutVars>>

WorkerStep(w) ==
    \/ WorkerLock(w) \/ WorkerLoop(w) \/ WorkerBody(w) \/ WorkerCleanup(w)
    \/ WorkerUnlock(w) \/ WorkerFinish(w)

-----------------------------------------------------------------------------
(* The environment *)

\* The recorded SSH process dies by itself.
ProcessExit(n) ==
    /\ runtime[n] = "live"
    /\ runtime' = [runtime EXCEPT ![n] = "stale"]
    /\ UNCHANGED <<managerVars, workerVars, profiles, lock, threadVars, shutVars>>

\* Profile operations and other processes use the same lock and, while they
\* hold it, may create or delete the profile and change its evidence.
OtherLock(n) ==
    /\ lock[n] = None
    /\ lock' = [lock EXCEPT ![n] = Other]
    /\ UNCHANGED <<managerVars, workerVars, profiles, runtime, threadVars, shutVars>>

OtherWork(n) ==
    /\ lock[n] = Other
    /\ \/ /\ n \in profiles /\ UNCHANGED profiles
          /\ \E k \in RuntimeKinds : runtime' = [runtime EXCEPT ![n] = k]
       \/ /\ n \in profiles /\ runtime[n] = "none" /\ UNCHANGED runtime
          /\ profiles' = profiles \ {n}
       \/ /\ n \notin profiles /\ UNCHANGED runtime
          /\ profiles' = profiles \cup {n}
    /\ UNCHANGED <<managerVars, workerVars, lock, threadVars, shutVars>>

OtherUnlock(n) ==
    /\ lock[n] = Other
    /\ lock' = [lock EXCEPT ![n] = None]
    /\ UNCHANGED <<managerVars, workerVars, profiles, runtime, threadVars, shutVars>>

-----------------------------------------------------------------------------
\* A call once begun runs to its return.
ThreadStep(t) ==
    \/ StartGet(t) \/ StartRefused(t) \/ StartAttach(t) \/ \E w \in Workers : StartCreate(t, w)
    \/ StopExited(t) \/ StopTimeout(t) \/ StopRelease(t)
    \/ UnsupGet(t) \/ UnsupLock(t) \/ UnsupStop(t) \/ UnsupUnlock(t) \/ UnsupRelease(t)

ShutdownStep ==
    \/ \E n \in Names : ShutdownNext(n)
    \/ ShutdownExited \/ ShutdownTimeout \/ ShutdownInspect \/ ShutdownClaim \/ ShutdownReturn

Call(t, n) == StartCheck(t, n) \/ StopBegin(t, n)

Environment(n) == ProcessExit(n) \/ OtherLock(n) \/ OtherWork(n) \/ OtherUnlock(n)

Next ==
    \/ \E t \in Callers, n \in Names : Call(t, n)
    \/ \E t \in Threads : ThreadStep(t)
    \/ ShutdownBegin
    \/ ShutdownStep
    \/ \E w \in Workers : WorkerStep(w)
    \/ \E n \in Names : Environment(n)

Spec == Init /\ [][Next]_vars

\* Threads the operating system schedules: a call in progress continues (every
\* wait in it has a timeout), and so does a worker (every subprocess it waits
\* for has a timeout).  Nobody is obliged to call, and the environment to act.
Fairness ==
    /\ \A t \in Threads : WF_vars(ThreadStep(t))
    /\ WF_vars(ShutdownStep)
    /\ \A w \in Workers : WF_vars(WorkerStep(w))

FairSpec == Spec /\ Fairness
-----------------------------------------------------------------------------
(* Properties *)

\* However starts, stops and shutdown interleave, a profile has at most one
\* unfinished worker (start 73-95: check, profiles.get, check and register).
OneLiveWorker ==
    \A v, w \in Workers : Live(v) /\ Live(w) /\ wname[v] = wname[w] => v = w

\* While a stop of a profile is in progress, in stop or in shutdown, the only
\* worker of that profile that can be alive is the one being waited for; on the
\* unsupervised path there is none.  A start that passed its first check before
\* the stop began must not slip a worker in (start 77-78, stop 98-105).
StopIsAlone ==
    \A t \in Threads, w \in Workers :
        pc[t] \in StopPcs /\ Live(w) /\ wname[w] = target[t]
            => pc[t] \in SupervisedStopPcs /\ w = held[t]

\* The stop-in-progress mark of a profile is held by exactly one call, and is
\* there exactly while that call runs: no error path leaks it, which would
\* refuse every later start and stop (stop 118-120, guarded 259-264).
StopMarkOwned ==
    /\ \A n \in Names : n \in stopping <=> \E t \in Threads : Stopper(t, n)
    /\ \A n \in Names, s, t \in Threads : Stopper(s, n) /\ Stopper(t, n) => s = t

\* A stop that answers worker_exited = True leaves no worker of the profile
\* alive until it gives up the stop mark (stop 108-117, 321-400).
ExitedMeansExited ==
    \A t \in Threads, w \in Workers :
        /\ pc[t] \in {"stopRelease", "unsupUnlock", "unsupRelease"}
        /\ result[t] \in {"STOPPED", "FAILED"}
        /\ wname[w] = target[t]
        => ~ Live(w)

\* PROFILE_BUSY always means a holder outside this manager: a worker about to
\* take the profile lock, or an unsupervised stop about to, never finds it held
\* by another worker or call of the same manager (the lock is released before
\* finished_event is set, 408-413, and before the stop mark is dropped).
OwnLockNeverBlocks ==
    /\ \A w \in Workers : wpc[w] = "start" => lock[wname[w]] \in {None, Other}
    /\ \A t \in Threads : pc[t] = "unsupLock" => lock[target[t]] \in {None, Other}

\* When shutdown returns, every worker that is still alive is one it reported
\* as unresolved; so completed (24-33) implies that no worker is left, and no
\* start that raced with it has added one.
ShutdownAccountsForAll ==
    pc[Main] = "done" => \A w \in Workers : Live(w) => wname[w] \in unresolved

\* Seen from the store, the workers, the unsupervised stops and the other users
\* of each profile do only what the contract of its files allows (ProfileFiles):
\* what the registry assumes of its workers is what Bridge shows of supervisors.
Answered(s) == IF s = "STOPPED" THEN "stopped" ELSE "over"

HolderPhase(n) ==
    IF lock[n] = None THEN "free"
    ELSE IF lock[n] \in Workers /\ wpc[lock[n]] = "exiting" THEN Answered(snap[lock[n]])
    ELSE IF lock[n] \in Threads /\ pc[lock[n]] = "unsupUnlock" THEN Answered(result[lock[n]])
    ELSE "working"

Files(n) == INSTANCE ProfileFiles WITH
               Holders <- Workers \cup Threads \cup {Other},
               holder <- lock[n], phase <- HolderPhase(n),
               present <- (n \in profiles), kind <- runtime[n]

ImplementsProfileFiles ==
    /\ \A n \in Names : Files(n)!Init
    /\ [][\A n \in Names : [Files(n)!Next]_(Files(n)!vars)]_vars

(* The inductive invariant behind them *)

\* Every live worker is the registered one of its profile.
RegistryInv ==
    /\ \A w \in Workers : Live(w) => wname[w] \in Names /\ registry[wname[w]] = w
    /\ \A n \in Names : registry[n] # None => wname[registry[n]] = n /\ wpc[registry[n]] # "none"

\* Calls in progress have a profile; only Main shuts down.
ThreadInv ==
    /\ \A t \in Threads : pc[t] \notin {"idle", "shutLoop", "done", "raised"} => target[t] \in Names
    /\ \A t \in Threads : pc[t] \in {"shutLoop", "shutWait", "shutInspect", "shutClaim", "done", "raised"} => t = Main
    /\ pc[Main] \notin SupervisedStopPcs \cup {"startGet", "startRegister"}
    /\ pc[Main] # "idle" => closed
    /\ pc[Main] = "done" => \A n \in Names : batch[n] = None
    /\ \A t \in Threads : pc[t] \in SupervisedStopPcs => held[t] # None

\* Whoever holds a profile lock is inside its locked block.
LockInv ==
    /\ \A w \in Workers, n \in Names :
         lock[n] = w => wpc[w] \in {"loop", "body", "cleanup", "exiting"} /\ wname[w] = n
    /\ \A t \in Threads, n \in Names :
         lock[n] = t => pc[t] \in {"unsupStop", "unsupUnlock"} /\ target[t] = n

\* Whoever is inside its locked block holds the lock, a worker at work has its
\* profile, and evidence belongs to an existing profile.
HoldInv ==
    /\ \A w \in Workers :
         /\ wpc[w] \in {"loop", "body", "cleanup", "exiting"} => lock[wname[w]] = w
         /\ wpc[w] \in {"loop", "body", "cleanup"} => wname[w] \in profiles
    /\ \A t \in Threads : pc[t] \in {"unsupStop", "unsupUnlock"} => lock[target[t]] = t
    /\ \A n \in Names : runtime[n] # "none" => n \in profiles

\* A stop that saw its worker exit waited for that worker.
WaitInv ==
    \A t \in Threads : pc[t] = "stopRelease" /\ result[t] \in {"STOPPED", "FAILED"} => Finished(held[t])

\* shutdown has reported, is waiting for, or will visit every live worker,
ShutdownInv ==
    pc[Main] # "idle" =>
        \A w \in Workers : Live(w) =>
            \/ wname[w] \in unresolved
            \/ batch[wname[w]] = w
            \/ pc[Main] = "shutWait" /\ held[Main] = w /\ target[Main] = wname[w]

\* and what it holds of a profile with a live worker is that worker.
VisitInv ==
    pc[Main] # "idle" =>
        \A w \in Workers : Live(w) =>
            /\ batch[wname[w]] \in {None, w}
            /\ pc[Main] = "shutWait" /\ target[Main] = wname[w] => held[Main] = w
            /\ pc[Main] \in {"shutInspect", "shutClaim"} => target[Main] # wname[w]

\* Together: what start, stop, shutdown and the workers rely on between two
\* registry-lock blocks.
IInv ==
    /\ TypeOK /\ RegistryInv /\ ThreadInv /\ StopMarkOwned /\ StopIsAlone
    /\ LockInv /\ HoldInv /\ WaitInv /\ ShutdownInv /\ VisitInv

\* A worker that is told to stop finishes (_run_locked 90, 113, 143, 184, 231,
\* 243), whatever it was doing.
StopIsObeyed == \A w \in Workers : (stopEvent[w] /\ Live(w)) ~> Finished(w)

\* Every stop mark is eventually dropped: no profile refuses starts for ever.
StopMarkDropped == \A n \in Names : (n \in stopping) ~> (n \notin stopping)

\* Once shutdown has closed the manager it returns or raises, and all workers
\* finish, those it never got to visit too: they were told before the first visit.
ShutdownDrains == closed ~> (pc[Main] \in {"done", "raised"} /\ \A w \in Workers : ~ Live(w))

-----------------------------------------------------------------------------
(* The part of these that needs no fairness: whoever is told to stop, stops or    *)
(* shuts down has only so many steps to take, and nobody else moves it.           *)

\* The most steps a worker that was told to stop may still take,
WorkerStepsLeft(l) ==
    CASE l = "start" -> 6 [] l = "body" -> 5 [] l = "loop" -> 4 [] l = "cleanup" -> 3
      [] l = "exiting" -> 2 [] l = "released" -> 1 [] OTHER -> 0

\* and a stop, or shutdown with one worker.
CallStepsLeft(l) ==
    CASE l = "shutWait" -> 9 [] l = "shutInspect" -> 8 [] l = "shutClaim" -> 7
      [] l = "unsupGet" -> 6 [] l = "unsupLock" -> 5 [] l = "unsupStop" -> 4
      [] l = "unsupUnlock" -> 3 [] l \in {"stopWait", "unsupRelease"} -> 2
      [] l \in {"stopRelease", "shutLoop"} -> 1 [] OTHER -> 0

WorkerDescends ==
    \A w \in Workers : stopEvent[w] /\ Live(w) =>
        /\ WorkerStep(w) => wpc'[w] # wpc[w]
        /\ wpc'[w] # wpc[w] => WorkerStepsLeft(wpc'[w]) < WorkerStepsLeft(wpc[w])
        /\ stopEvent'[w]

StopDescends ==
    \A t \in Threads : pc[t] \in StopPcs =>
        /\ ThreadStep(t) => pc'[t] # pc[t]
        /\ pc'[t] # pc[t] => CallStepsLeft(pc'[t]) < CallStepsLeft(pc[t])

\* shutdown visits each worker it found once.
Unvisited == {n \in Names : batch[n] # None}

ShutdownDescends ==
    pc[Main] # "idle" =>
        /\ Unvisited' \subseteq Unvisited
        /\ ShutdownStep \/ ThreadStep(Main) => pc'[Main] # pc[Main]
        /\ pc'[Main] # pc[Main] =>
             Unvisited' # Unvisited \/ CallStepsLeft(pc'[Main]) < CallStepsLeft(pc[Main])
=============================================================================
