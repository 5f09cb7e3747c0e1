------------------------ MODULE RuntimeManagerProofs ------------------------
(***************************************************************************)
(* Safety of the supervisor registry for any number of profiles, request   *)
(* threads and workers.  IInv is inductive; the properties follow from it. *)
(***************************************************************************)
EXTENDS RuntimeManager, TLAPS

USE DEF Threads, Live, Finished, Unfinished, StartAllowed,
        StopPcs, SupervisedStopPcs, UnsupervisedStopPcs,
        managerVars, workerVars, storeVars, threadVars, shutVars,
        Goto, WGoto, Publish, Return, Resume, Record

-----------------------------------------------------------------------------
\* The initial states satisfy the inductive invariant.
LEMMA InitIInv == Init => IInv
<1> SUFFICES ASSUME Init PROVE IInv
  OBVIOUS
<1> USE ConstantsDisjoint DEF Init
<1>1. TypeOK
  BY DEF TypeOK, WorkerPcs, Snapshots, Results, ThreadPcs
<1>2. RegistryInv /\ ThreadInv
  BY DEF RegistryInv, ThreadInv
<1>3. StopMarkOwned /\ StopIsAlone
  BY DEF StopMarkOwned, StopIsAlone, Stopper
<1>4. LockInv /\ HoldInv
  BY DEF LockInv, HoldInv
<1>5. WaitInv /\ ShutdownInv
  BY DEF WaitInv, ShutdownInv
<1>6. VisitInv
  BY DEF VisitInv
<1> QED
  BY <1>1, <1>2, <1>3, <1>4, <1>5, <1>6 DEF IInv

\* Every step keeps the variables in their types.
LEMMA TypeStep == IInv /\ [Next]_vars => TypeOK'
<1> SUFFICES ASSUME IInv, [Next]_vars PROVE TypeOK'
  OBVIOUS
<1> USE ConstantsDisjoint DEF IInv, TypeOK, ThreadInv, RegistryInv, RuntimeKinds, WorkerPcs, Snapshots, Results, ThreadPcs
<1>1. ASSUME NEW t \in Callers, NEW n \in Names, Call(t, n) PROVE TypeOK'
  <2>1. CASE StartCheck(t, n)
    BY <2>1 DEF StartCheck
  <2>2. CASE StopBegin(t, n) /\ Unfinished(registry[n])
    <3>1. stopEvent' = [stopEvent EXCEPT ![registry[n]] = TRUE]
      BY <2>2 DEF StopBegin
    <3>2. stopEvent' \in [Workers -> BOOLEAN]
      BY <3>1, Zenon
    <3> QED
      BY <2>2, <3>2 DEF StopBegin
  <2>3. CASE StopBegin(t, n) /\ ~ Unfinished(registry[n])
    BY <2>3 DEF StopBegin
  <2> QED
    BY <1>1, <2>1, <2>2, <2>3 DEF Call
<1>2. ASSUME NEW t \in Threads, ThreadStep(t) PROVE TypeOK'
  <2>1. CASE StartGet(t) \/ StartRefused(t) \/ StartAttach(t)
    BY <2>1 DEF StartGet, StartRefused, StartAttach
  <2>2. CASE \E w \in Workers : StartCreate(t, w)
    BY <2>2 DEF StartCreate
  <2>3. CASE StopExited(t) \/ StopTimeout(t) \/ StopRelease(t)
    BY <2>3 DEF StopExited, StopTimeout, StopRelease
  <2>4. CASE UnsupGet(t) \/ UnsupLock(t) \/ UnsupUnlock(t)
    BY <2>4 DEF UnsupGet, UnsupLock, UnsupUnlock
  <2>5. CASE UnsupStop(t)
    BY <2>5 DEF UnsupStop, UnsupOutcomes
  <2>6. CASE UnsupRelease(t)
    BY <2>6 DEF UnsupRelease, ShutdownRaise
  <2> QED
    BY <1>2, <2>1, <2>2, <2>3, <2>4, <2>5, <2>6 DEF ThreadStep
<1>3. CASE ShutdownBegin
  BY <1>3 DEF ShutdownBegin
<1>4. CASE ShutdownStep
  BY <1>4 DEF ShutdownStep, ShutdownNext, ShutdownExited, ShutdownTimeout, ShutdownInspect,
              ShutdownClaim, ShutdownReturn
<1>5. ASSUME NEW w \in Workers, WorkerStep(w) PROVE TypeOK'
  <2>1. CASE WorkerLock(w) \/ WorkerLoop(w) \/ WorkerUnlock(w) \/ WorkerFinish(w)
    BY <2>1 DEF WorkerLock, WorkerLoop, WorkerUnlock, WorkerFinish
  <2>2. CASE WorkerBody(w)
    BY <2>2 DEF WorkerBody
  <2>3. CASE WorkerCleanup(w)
    BY <2>3 DEF WorkerCleanup, CleanupOutcomes
  <2> QED
    BY <1>5, <2>1, <2>2, <2>3 DEF WorkerStep
<1>6. CASE \E n \in Names : Environment(n)
  BY <1>6 DEF Environment, ProcessExit, OtherLock, OtherWork, OtherUnlock
<1>7. CASE UNCHANGED vars
  BY <1>7 DEF vars
<1> QED
  BY <1>1, <1>2, <1>3, <1>4, <1>5, <1>6, <1>7 DEF Next

\* Every step keeps the live workers registered under their profile.
LEMMA RegistryStep == IInv /\ [Next]_vars => RegistryInv'
<1> SUFFICES ASSUME IInv, [Next]_vars PROVE RegistryInv'
  OBVIOUS
<1> USE ConstantsDisjoint DEF IInv, TypeOK, RegistryInv
<1>1. ASSUME NEW t \in Callers, NEW n \in Names, Call(t, n) PROVE RegistryInv'
  BY <1>1 DEF Call, StartCheck, StopBegin
<1>2. ASSUME NEW t \in Threads, ThreadStep(t) PROVE RegistryInv'
  <2>1. CASE StartGet(t) \/ StartRefused(t) \/ StartAttach(t)
    BY <2>1 DEF StartGet, StartRefused, StartAttach
  <2>2. ASSUME NEW w \in Workers, StartCreate(t, w) PROVE RegistryInv'
    BY <2>2 DEF StartCreate, ThreadInv
  <2>3. CASE StopExited(t) \/ StopTimeout(t) \/ StopRelease(t)
    BY <2>3 DEF StopExited, StopTimeout, StopRelease
  <2>4. CASE UnsupGet(t) \/ UnsupLock(t) \/ UnsupStop(t) \/ UnsupUnlock(t)
    BY <2>4 DEF UnsupGet, UnsupLock, UnsupStop, UnsupUnlock
  <2>5. CASE UnsupRelease(t)
    BY <2>5 DEF UnsupRelease, ShutdownRaise, ThreadInv
  <2> QED
    BY <1>2, <2>1, <2>2, <2>3, <2>4, <2>5 DEF ThreadStep
<1>3. CASE ShutdownBegin
  BY <1>3 DEF ShutdownBegin
<1>4. CASE ShutdownStep
  BY <1>4 DEF ShutdownStep, ShutdownNext, ShutdownExited, ShutdownTimeout, ShutdownInspect,
              ShutdownClaim, ShutdownReturn
<1>5. ASSUME NEW w \in Workers, WorkerStep(w) PROVE RegistryInv'
  BY <1>5 DEF WorkerStep, WorkerLock, WorkerLoop, WorkerBody, WorkerCleanup, WorkerUnlock, WorkerFinish
<1>6. CASE \E n \in Names : Environment(n)
  BY <1>6 DEF Environment, ProcessExit, OtherLock, OtherWork, OtherUnlock
<1>7. CASE UNCHANGED vars
  BY <1>7 DEF vars
<1> QED
  BY <1>1, <1>2, <1>3, <1>4, <1>5, <1>6, <1>7 DEF Next

\* Every step keeps the control states and the targets of the threads in line.
LEMMA ThreadInvStep == IInv /\ [Next]_vars => ThreadInv'
<1> SUFFICES ASSUME IInv, [Next]_vars PROVE ThreadInv'
  OBVIOUS
<1> USE ConstantsDisjoint DEF IInv, TypeOK, ThreadInv
<1>1. ASSUME NEW t \in Callers, NEW n \in Names, Call(t, n) PROVE ThreadInv'
  BY <1>1 DEF Call, StartCheck, StopBegin
<1>2. ASSUME NEW t \in Threads, ThreadStep(t) PROVE ThreadInv'
  <2>1. CASE StartGet(t) \/ StartRefused(t) \/ StartAttach(t)
    BY <2>1 DEF StartGet, StartRefused, StartAttach
  <2>2. ASSUME NEW w \in Workers, StartCreate(t, w) PROVE ThreadInv'
    BY <2>2 DEF StartCreate
  <2>3. CASE StopExited(t) \/ StopTimeout(t) \/ StopRelease(t)
    BY <2>3 DEF StopExited, StopTimeout, StopRelease
  <2>4. CASE UnsupGet(t) \/ UnsupLock(t) \/ UnsupStop(t) \/ UnsupUnlock(t)
    BY <2>4 DEF UnsupGet, UnsupLock, UnsupStop, UnsupUnlock
  <2>5. CASE UnsupRelease(t)
    BY <2>5 DEF UnsupRelease, ShutdownRaise
  <2> QED
    BY <1>2, <2>1, <2>2, <2>3, <2>4, <2>5 DEF ThreadStep
<1>3. CASE ShutdownBegin
  BY <1>3 DEF ShutdownBegin
<1>4. CASE ShutdownStep
  BY <1>4 DEF ShutdownStep, ShutdownNext, ShutdownExited, ShutdownTimeout, ShutdownInspect,
              ShutdownClaim, ShutdownReturn
<1>5. ASSUME NEW w \in Workers, WorkerStep(w) PROVE ThreadInv'
  BY <1>5 DEF WorkerStep, WorkerLock, WorkerLoop, WorkerBody, WorkerCleanup, WorkerUnlock, WorkerFinish
<1>6. CASE \E n \in Names : Environment(n)
  BY <1>6 DEF Environment, ProcessExit, OtherLock, OtherWork, OtherUnlock
<1>7. CASE UNCHANGED vars
  BY <1>7 DEF vars
<1> QED
  BY <1>1, <1>2, <1>3, <1>4, <1>5, <1>6, <1>7 DEF Next
\* A step that neither marks nor unmarks a profile, and in which no call enters
\* or leaves a stop, keeps marks and calls in correspondence.
LEMMA StopMarkKept ==
    ASSUME StopMarkOwned, stopping' = stopping,
           \A s \in Threads, m \in Names : Stopper(s, m)' <=> Stopper(s, m)
    PROVE  StopMarkOwned'
  BY Zenon DEF StopMarkOwned

\* So does a step in which one call enters a stop and marks its profile.
LEMMA StopMarkTaken ==
    ASSUME NEW t \in Threads, NEW n \in Names, StopMarkOwned,
           n \notin stopping, stopping' = stopping \cup {n},
           \A s \in Threads, m \in Names : Stopper(s, m)' <=> (Stopper(s, m) \/ (s = t /\ m = n))
    PROVE  StopMarkOwned'
  BY Zenon DEF StopMarkOwned

\* So does a step in which one call leaves its stop and unmarks its profile.
LEMMA StopMarkGiven ==
    ASSUME NEW t \in Threads, NEW n \in Names, StopMarkOwned,
           Stopper(t, n), \A m \in Names : Stopper(t, m) => m = n,
           stopping' = stopping \ {n},
           \A s \in Threads, m \in Names : Stopper(s, m)' <=> (Stopper(s, m) /\ s # t)
    PROVE  StopMarkOwned'
<1>1. \A m \in Names, r, s \in Threads : Stopper(r, m)' /\ Stopper(s, m)' => r = s
  BY Zenon DEF StopMarkOwned
<1>2. ASSUME NEW m \in Names, m \in stopping' PROVE \E s \in Threads : Stopper(s, m)'
  <2>1. m \in stopping /\ m # n
    BY <1>2
  <2>2. PICK s \in Threads : Stopper(s, m)
    BY <2>1, Zenon DEF StopMarkOwned
  <2>3. s # t
    BY <2>1, <2>2
  <2> QED
    BY <2>2, <2>3, Zenon
<1>0. \A s \in Threads : Stopper(s, n) => s = t
  BY Zenon DEF StopMarkOwned
<1>3. ASSUME NEW m \in Names, NEW s \in Threads, Stopper(s, m)' PROVE m \in stopping'
  <2>1. Stopper(s, m) /\ s # t
    BY <1>3, Zenon
  <2>2. m \in stopping
    BY <2>1, Zenon DEF StopMarkOwned
  <2>3. m # n
    BY <2>1, <1>0, Zenon
  <2> QED
    BY <2>2, <2>3
<1>4. ASSUME NEW m \in Names PROVE m \in stopping' <=> \E s \in Threads : Stopper(s, m)'
  BY <1>2, <1>3, Zenon
<1> QED
  BY <1>1, <1>4, Zenon DEF StopMarkOwned

\* Every step keeps one call per stop mark and one mark per call.
LEMMA StopMarkStep == IInv /\ [Next]_vars => StopMarkOwned'
<1> SUFFICES ASSUME IInv, [Next]_vars PROVE StopMarkOwned'
  OBVIOUS
<1> DEFINE Kept == stopping' = stopping /\ \A s \in Threads, m \in Names : Stopper(s, m)' <=> Stopper(s, m)
<1>0. ASSUME Kept PROVE StopMarkOwned'
  BY <1>0, StopMarkKept DEF IInv
<1> HIDE DEF Kept
<1> USE ConstantsDisjoint DEF IInv, TypeOK, ThreadInv
<1>1. ASSUME NEW t \in Callers, NEW n \in Names, Call(t, n) PROVE StopMarkOwned'
  <2>1. CASE StartCheck(t, n)
    <3>1. Kept
      BY <2>1 DEF StartCheck, Kept, Stopper
    <3> QED
      BY <3>1, <1>0
  <2>2. CASE StopBegin(t, n)
    <3>1. \A s \in Threads, m \in Names : Stopper(s, m)' <=> (Stopper(s, m) \/ (s = t /\ m = n))
      BY <2>2 DEF StopBegin, Stopper
    <3>2. n \notin stopping /\ stopping' = stopping \cup {n}
      BY <2>2 DEF StopBegin
    <3> QED
      BY <3>1, <3>2, StopMarkTaken
  <2> QED
    BY <1>1, <2>1, <2>2 DEF Call
<1>2. ASSUME NEW t \in Threads, ThreadStep(t) PROVE StopMarkOwned'
  <2>1. CASE StartGet(t) \/ StartRefused(t) \/ StartAttach(t) \/ \E w \in Workers : StartCreate(t, w)
    <3>1. Kept
      BY <2>1 DEF StartGet, StartRefused, StartAttach, StartCreate, Kept, Stopper
    <3> QED
      BY <3>1, <1>0
  <2>2. CASE \/ StopExited(t) \/ StopTimeout(t)
             \/ UnsupGet(t) \/ UnsupLock(t) \/ UnsupStop(t) \/ UnsupUnlock(t)
    <3>1. Kept
      BY <2>2 DEF StopExited, StopTimeout, UnsupGet, UnsupLock, UnsupStop, UnsupUnlock, Kept, Stopper
    <3> QED
      BY <3>1, <1>0
  <2>3. CASE StopRelease(t) \/ UnsupRelease(t)
    <3>1. target[t] \in Names /\ Stopper(t, target[t]) /\ stopping' = stopping \ {target[t]}
      BY <2>3 DEF StopRelease, UnsupRelease, ShutdownRaise, Stopper
    <3>2. \A s \in Threads, m \in Names : Stopper(s, m)' <=> (Stopper(s, m) /\ s # t)
      BY <2>3 DEF StopRelease, UnsupRelease, ShutdownRaise, Stopper
    <3>3. \A m \in Names : Stopper(t, m) => m = target[t]
      BY DEF Stopper
    <3> QED
      BY <3>1, <3>2, <3>3, StopMarkGiven
  <2> QED
    BY <1>2, <2>1, <2>2, <2>3 DEF ThreadStep
<1>3. CASE ShutdownBegin
  <2>1. Kept
    BY <1>3 DEF ShutdownBegin, Kept, Stopper
  <2> QED
    BY <2>1, <1>0
<1>4. CASE ShutdownStep
  <2>1. CASE \/ \E n \in Names : ShutdownNext(n)
             \/ ShutdownExited \/ ShutdownTimeout \/ ShutdownInspect \/ ShutdownReturn
    <3>1. Kept
      BY <2>1 DEF ShutdownNext, ShutdownExited, ShutdownTimeout, ShutdownInspect, ShutdownReturn,
                  Kept, Stopper
    <3> QED
      BY <3>1, <1>0
  <2>2. CASE ShutdownClaim /\ target[Main] \in stopping
    <3>1. Kept
      BY <2>2 DEF ShutdownClaim, Kept, Stopper
    <3> QED
      BY <3>1, <1>0
  <2>3. CASE ShutdownClaim /\ target[Main] \notin stopping
    <3>1. Main \in Threads /\ target[Main] \in Names /\ stopping' = stopping \cup {target[Main]}
      BY <2>3 DEF ShutdownClaim
    <3>2. \A s \in Threads, m \in Names :
             Stopper(s, m)' <=> (Stopper(s, m) \/ (s = Main /\ m = target[Main]))
      BY <2>3 DEF ShutdownClaim, Stopper
    <3> QED
      BY <2>3, <3>1, <3>2, StopMarkTaken
  <2> QED
    BY <1>4, <2>1, <2>2, <2>3 DEF ShutdownStep
<1>5. ASSUME NEW w \in Workers, WorkerStep(w) PROVE StopMarkOwned'
  <2>1. Kept
    BY <1>5 DEF WorkerStep, WorkerLock, WorkerLoop, WorkerBody, WorkerCleanup, WorkerUnlock,
                WorkerFinish, Kept, Stopper
  <2> QED
    BY <2>1, <1>0
<1>6. CASE \E n \in Names : Environment(n)
  <2>1. Kept
    BY <1>6 DEF Environment, ProcessExit, OtherLock, OtherWork, OtherUnlock, Kept, Stopper
  <2> QED
    BY <2>1, <1>0
<1>7. CASE UNCHANGED vars
  <2>1. Kept
    BY <1>7 DEF vars, Kept, Stopper
  <2> QED
    BY <2>1, <1>0
<1> QED
  BY <1>1, <1>2, <1>3, <1>4, <1>5, <1>6, <1>7 DEF Next

\* No step lets a second worker live beside a stop of its profile.
LEMMA StopIsAloneStep == IInv /\ [Next]_vars => StopIsAlone'
<1> SUFFICES ASSUME IInv, [Next]_vars PROVE StopIsAlone'
  OBVIOUS
<1> USE ConstantsDisjoint DEF IInv, TypeOK, ThreadInv, RegistryInv, StopMarkOwned, StopIsAlone, VisitInv, Stopper
<1>1. ASSUME NEW t \in Callers, NEW n \in Names, Call(t, n) PROVE StopIsAlone'
  BY <1>1 DEF Call, StartCheck, StopBegin
<1>2. ASSUME NEW t \in Threads, ThreadStep(t) PROVE StopIsAlone'
  <2>1. CASE StartGet(t) \/ StartRefused(t) \/ StartAttach(t)
    BY <2>1 DEF StartGet, StartRefused, StartAttach
  <2>2. ASSUME NEW w \in Workers, StartCreate(t, w) PROVE StopIsAlone'
    BY <2>2 DEF StartCreate
  <2>3. CASE StopExited(t) \/ StopTimeout(t) \/ StopRelease(t)
    BY <2>3 DEF StopExited, StopTimeout, StopRelease
  <2>4. CASE UnsupGet(t) \/ UnsupLock(t) \/ UnsupStop(t) \/ UnsupUnlock(t)
    BY <2>4 DEF UnsupGet, UnsupLock, UnsupStop, UnsupUnlock
  <2>5. CASE UnsupRelease(t)
    BY <2>5 DEF UnsupRelease, ShutdownRaise
  <2> QED
    BY <1>2, <2>1, <2>2, <2>3, <2>4, <2>5 DEF ThreadStep
<1>3. CASE ShutdownBegin
  BY <1>3 DEF ShutdownBegin
<1>4. CASE ShutdownStep
  BY <1>4 DEF ShutdownStep, ShutdownNext, ShutdownExited, ShutdownTimeout, ShutdownInspect,
              ShutdownClaim, ShutdownReturn
<1>5. ASSUME NEW w \in Workers, WorkerStep(w) PROVE StopIsAlone'
  BY <1>5 DEF WorkerStep, WorkerLock, WorkerLoop, WorkerBody, WorkerCleanup, WorkerUnlock, WorkerFinish
<1>6. CASE \E n \in Names : Environment(n)
  BY <1>6 DEF Environment, ProcessExit, OtherLock, OtherWork, OtherUnlock
<1>7. CASE UNCHANGED vars
  BY <1>7 DEF vars
<1> QED
  BY <1>1, <1>2, <1>3, <1>4, <1>5, <1>6, <1>7 DEF Next

\* Every step keeps the lock with a worker or call inside its locked block.
LEMMA LockStep == IInv /\ [Next]_vars => LockInv'
<1> SUFFICES ASSUME IInv, [Next]_vars PROVE LockInv'
  OBVIOUS
<1> USE ConstantsDisjoint DEF IInv, TypeOK, ThreadInv, RegistryInv, StopMarkOwned, LockInv
<1>1. ASSUME NEW t \in Callers, NEW n \in Names, Call(t, n) PROVE LockInv'
  BY <1>1 DEF Call, StartCheck, StopBegin
<1>2. ASSUME NEW t \in Threads, ThreadStep(t) PROVE LockInv'
  <2>1. CASE StartGet(t) \/ StartRefused(t) \/ StartAttach(t)
    BY <2>1 DEF StartGet, StartRefused, StartAttach
  <2>2. ASSUME NEW w \in Workers, StartCreate(t, w) PROVE LockInv'
    BY <2>2 DEF StartCreate
  <2>3. CASE StopExited(t) \/ StopTimeout(t) \/ StopRelease(t)
    BY <2>3 DEF StopExited, StopTimeout, StopRelease
  <2>4. CASE UnsupGet(t) \/ UnsupLock(t) \/ UnsupStop(t) \/ UnsupUnlock(t)
    BY <2>4 DEF UnsupGet, UnsupLock, UnsupStop, UnsupUnlock
  <2>5. CASE UnsupRelease(t)
    BY <2>5 DEF UnsupRelease, ShutdownRaise
  <2> QED
    BY <1>2, <2>1, <2>2, <2>3, <2>4, <2>5 DEF ThreadStep
<1>3. CASE ShutdownBegin
  BY <1>3 DEF ShutdownBegin
<1>4. CASE ShutdownStep
  BY <1>4 DEF ShutdownStep, ShutdownNext, ShutdownExited, ShutdownTimeout, ShutdownInspect,
              ShutdownClaim, ShutdownReturn
<1>5. ASSUME NEW w \in Workers, WorkerStep(w) PROVE LockInv'
  BY <1>5 DEF WorkerStep, WorkerLock, WorkerLoop, WorkerBody, WorkerCleanup, WorkerUnlock, WorkerFinish
<1>6. CASE \E n \in Names : Environment(n)
  BY <1>6 DEF Environment, ProcessExit, OtherLock, OtherWork, OtherUnlock
<1>7. CASE UNCHANGED vars
  BY <1>7 DEF vars
<1> QED
  BY <1>1, <1>2, <1>3, <1>4, <1>5, <1>6, <1>7 DEF Next

\* Every step keeps the lock of whoever is inside its locked block, and evidence
\* with its profile.
LEMMA HoldStep == IInv /\ [Next]_vars => HoldInv'
<1> SUFFICES ASSUME IInv, [Next]_vars PROVE HoldInv'
  OBVIOUS
<1> USE ConstantsDisjoint DEF IInv, TypeOK, ThreadInv, RegistryInv, LockInv, HoldInv
<1>1. ASSUME NEW t \in Callers, NEW n \in Names, Call(t, n) PROVE HoldInv'
  BY <1>1 DEF Call, StartCheck, StopBegin
<1>2. ASSUME NEW t \in Threads, ThreadStep(t) PROVE HoldInv'
  <2>1. CASE StartGet(t) \/ StartRefused(t) \/ StartAttach(t)
    BY <2>1 DEF StartGet, StartRefused, StartAttach
  <2>2. ASSUME NEW w \in Workers, StartCreate(t, w) PROVE HoldInv'
    BY <2>2 DEF StartCreate
  <2>3. CASE StopExited(t) \/ StopTimeout(t) \/ StopRelease(t)
    BY <2>3 DEF StopExited, StopTimeout, StopRelease
  <2>4. CASE UnsupGet(t) \/ UnsupLock(t)
    BY <2>4 DEF UnsupGet, UnsupLock
  <2>5. CASE UnsupStop(t)
    BY <2>5 DEF UnsupStop, UnsupOutcomes, RuntimeKinds
  <2>6. CASE UnsupUnlock(t)
    BY <2>6 DEF UnsupUnlock
  <2>7. CASE UnsupRelease(t)
    BY <2>7 DEF UnsupRelease, ShutdownRaise
  <2> QED
    BY <1>2, <2>1, <2>2, <2>3, <2>4, <2>5, <2>6, <2>7 DEF ThreadStep
<1>3. CASE ShutdownBegin
  BY <1>3 DEF ShutdownBegin
<1>4. CASE ShutdownStep
  BY <1>4 DEF ShutdownStep, ShutdownNext, ShutdownExited, ShutdownTimeout, ShutdownInspect,
              ShutdownClaim, ShutdownReturn
<1>5. ASSUME NEW w \in Workers, WorkerStep(w) PROVE HoldInv'
  <2>1. CASE WorkerLock(w) \/ WorkerLoop(w) \/ WorkerUnlock(w) \/ WorkerFinish(w)
    BY <2>1 DEF WorkerLock, WorkerLoop, WorkerUnlock, WorkerFinish
  <2>2. CASE WorkerBody(w)
    BY <2>2 DEF WorkerBody
  <2>3. CASE WorkerCleanup(w)
    BY <2>3 DEF WorkerCleanup, CleanupOutcomes, RuntimeKinds
  <2> QED
    BY <1>5, <2>1, <2>2, <2>3 DEF WorkerStep
<1>6. CASE \E n \in Names : Environment(n)
  BY <1>6 DEF Environment, ProcessExit, OtherLock, OtherWork, OtherUnlock
<1>7. CASE UNCHANGED vars
  BY <1>7 DEF vars
<1> QED
  BY <1>1, <1>2, <1>3, <1>4, <1>5, <1>6, <1>7 DEF Next

\* A stop that reported an exit keeps holding a finished worker.
LEMMA WaitStep == IInv /\ [Next]_vars => WaitInv'
<1> SUFFICES ASSUME IInv, [Next]_vars PROVE WaitInv'
  OBVIOUS
<1> USE ConstantsDisjoint DEF IInv, TypeOK, ThreadInv, WaitInv
<1>1. ASSUME NEW t \in Callers, NEW n \in Names, Call(t, n) PROVE WaitInv'
  BY <1>1 DEF Call, StartCheck, StopBegin
<1>2. ASSUME NEW t \in Threads, ThreadStep(t) PROVE WaitInv'
  <2>1. CASE StartGet(t) \/ StartRefused(t) \/ StartAttach(t)
    BY <2>1 DEF StartGet, StartRefused, StartAttach
  <2>2. ASSUME NEW w \in Workers, StartCreate(t, w) PROVE WaitInv'
    BY <2>2 DEF StartCreate
  <2>3. CASE StopExited(t) \/ StopTimeout(t) \/ StopRelease(t)
    BY <2>3 DEF StopExited, StopTimeout, StopRelease
  <2>4. CASE UnsupGet(t) \/ UnsupLock(t) \/ UnsupStop(t) \/ UnsupUnlock(t)
    BY <2>4 DEF UnsupGet, UnsupLock, UnsupStop, UnsupUnlock
  <2>5. CASE UnsupRelease(t)
    BY <2>5 DEF UnsupRelease, ShutdownRaise
  <2> QED
    BY <1>2, <2>1, <2>2, <2>3, <2>4, <2>5 DEF ThreadStep
<1>3. CASE ShutdownBegin
  BY <1>3 DEF ShutdownBegin
<1>4. CASE ShutdownStep
  BY <1>4 DEF ShutdownStep, ShutdownNext, ShutdownExited, ShutdownTimeout, ShutdownInspect,
              ShutdownClaim, ShutdownReturn
<1>5. ASSUME NEW w \in Workers, WorkerStep(w) PROVE WaitInv'
  BY <1>5 DEF WorkerStep, WorkerLock, WorkerLoop, WorkerBody, WorkerCleanup, WorkerUnlock, WorkerFinish
<1>6. CASE \E n \in Names : Environment(n)
  BY <1>6 DEF Environment, ProcessExit, OtherLock, OtherWork, OtherUnlock
<1>7. CASE UNCHANGED vars
  BY <1>7 DEF vars
<1> QED
  BY <1>1, <1>2, <1>3, <1>4, <1>5, <1>6, <1>7 DEF Next

\* No step makes shutdown lose sight of a live worker.
LEMMA ShutdownStepInv == IInv /\ [Next]_vars => ShutdownInv'
<1> SUFFICES ASSUME IInv, [Next]_vars PROVE ShutdownInv'
  OBVIOUS
<1> USE ConstantsDisjoint DEF IInv, TypeOK, ThreadInv, RegistryInv, ShutdownInv
<1>1. ASSUME NEW t \in Callers, NEW n \in Names, Call(t, n) PROVE ShutdownInv'
  BY <1>1 DEF Call, StartCheck, StopBegin
<1>2. ASSUME NEW t \in Threads, ThreadStep(t) PROVE ShutdownInv'
  <2>1. CASE StartGet(t) \/ StartRefused(t) \/ StartAttach(t)
    BY <2>1 DEF StartGet, StartRefused, StartAttach
  <2>2. ASSUME NEW w \in Workers, StartCreate(t, w) PROVE ShutdownInv'
    BY <2>2 DEF StartCreate
  <2>3. CASE StopExited(t) \/ StopTimeout(t) \/ StopRelease(t)
    BY <2>3 DEF StopExited, StopTimeout, StopRelease
  <2>4. CASE UnsupGet(t) \/ UnsupLock(t) \/ UnsupStop(t) \/ UnsupUnlock(t)
    BY <2>4 DEF UnsupGet, UnsupLock, UnsupStop, UnsupUnlock
  <2>5. CASE UnsupRelease(t)
    BY <2>5 DEF UnsupRelease, ShutdownRaise
  <2> QED
    BY <1>2, <2>1, <2>2, <2>3, <2>4, <2>5 DEF ThreadStep
<1>3. CASE ShutdownBegin
  BY <1>3 DEF ShutdownBegin
<1>4. CASE ShutdownStep
  BY <1>4 DEF ShutdownStep, ShutdownNext, ShutdownExited, ShutdownTimeout, ShutdownInspect,
              ShutdownClaim, ShutdownReturn
<1>5. ASSUME NEW w \in Workers, WorkerStep(w) PROVE ShutdownInv'
  BY <1>5 DEF WorkerStep, WorkerLock, WorkerLoop, WorkerBody, WorkerCleanup, WorkerUnlock, WorkerFinish
<1>6. CASE \E n \in Names : Environment(n)
  BY <1>6 DEF Environment, ProcessExit, OtherLock, OtherWork, OtherUnlock
<1>7. CASE UNCHANGED vars
  BY <1>7 DEF vars
<1> QED
  BY <1>1, <1>2, <1>3, <1>4, <1>5, <1>6, <1>7 DEF Next
\* No step puts a live worker behind the position of the shutdown loop.
LEMMA VisitStep == IInv /\ [Next]_vars => VisitInv'
<1> SUFFICES ASSUME IInv, [Next]_vars PROVE VisitInv'
  OBVIOUS
<1> USE ConstantsDisjoint DEF IInv, TypeOK, ThreadInv, RegistryInv, VisitInv
<1>1. ASSUME NEW t \in Callers, NEW n \in Names, Call(t, n) PROVE VisitInv'
  BY <1>1 DEF Call, StartCheck, StopBegin
<1>2. ASSUME NEW t \in Threads, ThreadStep(t) PROVE VisitInv'
  <2>1. CASE StartGet(t) \/ StartRefused(t) \/ StartAttach(t)
    BY <2>1 DEF StartGet, StartRefused, StartAttach
  <2>2. ASSUME NEW w \in Workers, StartCreate(t, w) PROVE VisitInv'
    BY <2>2 DEF StartCreate
  <2>3. CASE StopExited(t) \/ StopTimeout(t) \/ StopRelease(t)
    BY <2>3 DEF StopExited, StopTimeout, StopRelease
  <2>4. CASE UnsupGet(t) \/ UnsupLock(t) \/ UnsupStop(t) \/ UnsupUnlock(t)
    BY <2>4 DEF UnsupGet, UnsupLock, UnsupStop, UnsupUnlock
  <2>5. CASE UnsupRelease(t)
    BY <2>5 DEF UnsupRelease, ShutdownRaise
  <2> QED
    BY <1>2, <2>1, <2>2, <2>3, <2>4, <2>5 DEF ThreadStep
<1>3. CASE ShutdownBegin
  BY <1>3 DEF ShutdownBegin
<1>4. CASE ShutdownStep
  BY <1>4 DEF ShutdownStep, ShutdownNext, ShutdownExited, ShutdownTimeout, ShutdownInspect,
              ShutdownClaim, ShutdownReturn
<1>5. ASSUME NEW w \in Workers, WorkerStep(w) PROVE VisitInv'
  BY <1>5 DEF WorkerStep, WorkerLock, WorkerLoop, WorkerBody, WorkerCleanup, WorkerUnlock, WorkerFinish
<1>6. CASE \E n \in Names : Environment(n)
  BY <1>6 DEF Environment, ProcessExit, OtherLock, OtherWork, OtherUnlock
<1>7. CASE UNCHANGED vars
  BY <1>7 DEF vars
<1> QED
  BY <1>1, <1>2, <1>3, <1>4, <1>5, <1>6, <1>7 DEF Next

\* IInv is inductive.
LEMMA IInvStep == IInv /\ [Next]_vars => IInv'
  BY TypeStep, RegistryStep, ThreadInvStep, StopMarkStep, StopIsAloneStep, LockStep, HoldStep, WaitStep,
     ShutdownStepInv, VisitStep
  DEF IInv

\* IInv holds in every reachable state.
THEOREM Invariance == Spec => []IInv
  BY InitIInv, IInvStep, PTL DEF Spec

-----------------------------------------------------------------------------
(* Whoever stops is done after so many steps of its own *)

\* The steps of a call in its stop, and what they leave of it.
LEMMA StopCallStep ==
    ASSUME IInv, NEW t \in Threads, pc[t] \in StopPcs, ThreadStep(t)
    PROVE  CallStepsLeft(pc'[t]) < CallStepsLeft(pc[t]) /\ pc'[t] # pc[t]
<1> USE DEF IInv, TypeOK, CallStepsLeft
<1>1. CASE StopExited(t) \/ StopTimeout(t) \/ StopRelease(t)
  BY <1>1 DEF StopExited, StopTimeout, StopRelease
<1>2. CASE UnsupGet(t) \/ UnsupLock(t) \/ UnsupStop(t) \/ UnsupUnlock(t)
  BY <1>2 DEF UnsupGet, UnsupLock, UnsupStop, UnsupUnlock
<1>3. CASE UnsupRelease(t)
  BY <1>3 DEF UnsupRelease, ShutdownRaise
<1> QED
  BY <1>1, <1>2, <1>3 DEF ThreadStep, StartGet, StartRefused, StartAttach, StartCreate

\* A call moves only by its own steps.
LEMMA CallMoves ==
    ASSUME IInv, Next, NEW t \in Threads, pc[t] # "idle", pc'[t] # pc[t]
    PROVE  ThreadStep(t) \/ (t = Main /\ ShutdownStep)
<1> USE DEF IInv, TypeOK
<1>1. ASSUME NEW u \in Callers, NEW n \in Names, Call(u, n) PROVE FALSE
  BY <1>1 DEF Call, StartCheck, StopBegin
<1>2. ASSUME NEW u \in Threads, ThreadStep(u), u # t PROVE FALSE
  <2>1. CASE StartGet(u) \/ StartRefused(u) \/ StartAttach(u) \/ \E w \in Workers : StartCreate(u, w)
    BY <1>2, <2>1 DEF StartGet, StartRefused, StartAttach, StartCreate
  <2>2. CASE StopExited(u) \/ StopTimeout(u) \/ StopRelease(u)
    BY <1>2, <2>2 DEF StopExited, StopTimeout, StopRelease
  <2>3. CASE UnsupGet(u) \/ UnsupLock(u) \/ UnsupStop(u) \/ UnsupUnlock(u)
    BY <1>2, <2>3 DEF UnsupGet, UnsupLock, UnsupStop, UnsupUnlock
  <2>4. CASE UnsupRelease(u)
    BY <1>2, <2>4 DEF UnsupRelease, ShutdownRaise
  <2> QED
    BY <1>2, <2>1, <2>2, <2>3, <2>4 DEF ThreadStep
<1>3. ~ ShutdownBegin
  BY DEF ShutdownBegin
<1>4. ShutdownStep => t = Main
  BY DEF ShutdownStep, ShutdownNext, ShutdownExited, ShutdownTimeout, ShutdownInspect,
         ShutdownClaim, ShutdownReturn
<1>5. ASSUME NEW w \in Workers, WorkerStep(w) PROVE FALSE
  BY <1>5 DEF WorkerStep, WorkerLock, WorkerLoop, WorkerBody, WorkerCleanup, WorkerUnlock, WorkerFinish
<1>6. ASSUME NEW n \in Names, Environment(n) PROVE FALSE
  BY <1>6 DEF Environment, ProcessExit, OtherLock, OtherWork, OtherUnlock
<1> QED
  BY <1>1, <1>2, <1>3, <1>4, <1>5, <1>6 DEF Next

\* The steps of shutdown, and what they leave of it.
LEMMA ShutdownCallStep ==
    ASSUME IInv, ShutdownStep
    PROVE  /\ pc'[Main] # pc[Main] /\ pc[Main] \notin StopPcs
           /\ Unvisited' \subseteq Unvisited
           /\ Unvisited' # Unvisited \/ CallStepsLeft(pc'[Main]) < CallStepsLeft(pc[Main])
<1> USE DEF IInv, TypeOK, CallStepsLeft
<1>1. ASSUME NEW n \in Names, ShutdownNext(n)
      PROVE  /\ pc'[Main] # pc[Main] /\ pc[Main] \notin StopPcs
             /\ Unvisited' \subseteq Unvisited /\ Unvisited' # Unvisited
  <2>1. n \in Unvisited /\ n \notin Unvisited'
    BY <1>1 DEF ShutdownNext, Unvisited
  <2>2. Unvisited' \subseteq Unvisited
    BY <1>1 DEF ShutdownNext, Unvisited
  <2>3. pc'[Main] # pc[Main] /\ pc[Main] \notin StopPcs
    BY <1>1 DEF ShutdownNext
  <2> QED
    BY <2>1, <2>2, <2>3
<1>2. CASE ShutdownExited \/ ShutdownTimeout
  BY <1>2 DEF ShutdownExited, ShutdownTimeout, Unvisited
<1>3. CASE ShutdownInspect
  BY <1>3 DEF ShutdownInspect, Unvisited
<1>4. CASE ShutdownClaim \/ ShutdownReturn
  BY <1>4 DEF ShutdownClaim, ShutdownReturn, Unvisited
<1> QED
  BY <1>1, <1>2, <1>3, <1>4 DEF ShutdownStep

\* Only shutdown visits workers.
LEMMA BatchKept ==
    ASSUME Next, pc[Main] # "idle", ~ ShutdownStep
    PROVE  UNCHANGED batch
<1>1. ASSUME NEW t \in Threads, ThreadStep(t) PROVE UNCHANGED batch
  BY <1>1
  DEF ThreadStep, StartGet, StartRefused, StartAttach, StartCreate, StopExited, StopTimeout, StopRelease,
      UnsupGet, UnsupLock, UnsupStop, UnsupUnlock, UnsupRelease, ShutdownRaise
<1>2. ASSUME NEW w \in Workers, WorkerStep(w) PROVE UNCHANGED batch
  BY <1>2 DEF WorkerStep, WorkerLock, WorkerLoop, WorkerBody, WorkerCleanup, WorkerUnlock, WorkerFinish
<1>3. ASSUME NEW n \in Names, Environment(n) PROVE UNCHANGED batch
  BY <1>3 DEF Environment, ProcessExit, OtherLock, OtherWork, OtherUnlock
<1>4. ASSUME NEW t \in Callers, NEW n \in Names, Call(t, n) PROVE UNCHANGED batch
  BY <1>4 DEF Call, StartCheck, StopBegin
<1> QED
  BY <1>1, <1>2, <1>3, <1>4 DEF Next, ShutdownBegin

\* A worker that was told to stop gets closer to its end with every step.
LEMMA WorkerStopStep ==
    ASSUME IInv, NEW w \in Workers, stopEvent[w], WorkerStep(w)
    PROVE  WorkerStepsLeft(wpc'[w]) < WorkerStepsLeft(wpc[w]) /\ wpc'[w] # wpc[w]
  BY DEF IInv, TypeOK, WorkerStepsLeft, WorkerStep, WorkerLock, WorkerLoop, WorkerBody, WorkerCleanup,
         WorkerUnlock, WorkerFinish

\* A live worker moves only by its own steps, and its stop event stays set.
LEMMA WorkerMoves ==
    ASSUME IInv, Next, NEW w \in Workers, Live(w)
    PROVE  (wpc'[w] # wpc[w] => WorkerStep(w)) /\ (stopEvent[w] => stopEvent'[w])
<1> USE DEF IInv, TypeOK
<1>1. ASSUME NEW t \in Callers, NEW n \in Names, Call(t, n)
      PROVE  wpc'[w] = wpc[w] /\ (stopEvent[w] => stopEvent'[w])
  BY <1>1 DEF Call, StartCheck, StopBegin
<1>2. ASSUME NEW t \in Threads, ThreadStep(t) PROVE wpc'[w] = wpc[w] /\ UNCHANGED stopEvent
  <2>1. CASE \E v \in Workers : StartCreate(t, v)
    BY <2>1 DEF StartCreate
  <2>2. CASE ~ \E v \in Workers : StartCreate(t, v)
    BY <1>2, <2>2
    DEF ThreadStep, StartGet, StartRefused, StartAttach, StopExited, StopTimeout, StopRelease,
        UnsupGet, UnsupLock, UnsupStop, UnsupUnlock, UnsupRelease, ShutdownRaise
  <2> QED
    BY <2>1, <2>2
<1>3. CASE ShutdownBegin
  BY <1>3 DEF ShutdownBegin
<1>4. CASE ShutdownStep
  BY <1>4 DEF ShutdownStep, ShutdownNext, ShutdownExited, ShutdownTimeout, ShutdownInspect,
              ShutdownClaim, ShutdownReturn
<1>5. ASSUME NEW v \in Workers, WorkerStep(v)
      PROVE  UNCHANGED stopEvent /\ (v # w => wpc'[w] = wpc[w])
  BY <1>5 DEF WorkerStep, WorkerLock, WorkerLoop, WorkerBody, WorkerCleanup, WorkerUnlock, WorkerFinish
<1>6. ASSUME NEW n \in Names, Environment(n) PROVE UNCHANGED <<wpc, stopEvent>>
  BY <1>6 DEF Environment, ProcessExit, OtherLock, OtherWork, OtherUnlock
<1> QED
  BY <1>1, <1>2, <1>3, <1>4, <1>5, <1>6 DEF Next

\* A worker that was told to stop finishes within WorkerStepsLeft steps of its own,
\* wherever the request finds it (tunnel_supervisor.py 90-246, _run_worker 403-413).
THEOREM WorkersFinish == Spec => [][WorkerDescends]_vars
<1>1. ASSUME IInv, Next PROVE WorkerDescends
  BY <1>1, WorkerStopStep, WorkerMoves DEF WorkerDescends
<1>2. IInv /\ [Next]_vars => [WorkerDescends]_vars
  BY <1>1
<1> QED
  BY <1>2, Invariance, PTL DEF Spec

\* A stop, and with it its mark, ends within CallStepsLeft steps of its caller,
\* whatever the worker and other calls do (stop 97-121, guarded 252-264).
THEOREM StopsFinish == Spec => [][StopDescends]_vars
<1>1. ASSUME IInv, Next PROVE StopDescends
  BY <1>1, StopCallStep, CallMoves, ShutdownCallStep DEF StopDescends
<1>2. IInv /\ [Next]_vars => [StopDescends]_vars
  BY <1>1
<1> QED
  BY <1>2, Invariance, PTL DEF Spec

\* shutdown visits each worker at most once and spends at most CallStepsLeft steps
\* on it, so it returns after a bounded number of steps of its own, however calls
\* and workers race with it (shutdown 167-209, 266-306).
THEOREM ShutdownFinishes == Spec => [][ShutdownDescends]_vars
<1>1. ASSUME IInv, Next PROVE ShutdownDescends
  <2> SUFFICES ASSUME pc[Main] # "idle" PROVE ShutdownDescends
    BY DEF ShutdownDescends
  <2>0. Main \in Threads
    OBVIOUS
  <2>1. CASE ShutdownStep
    BY <1>1, <2>1, ShutdownCallStep DEF ShutdownDescends
  <2>2. CASE ~ ShutdownStep
    <3>1. Unvisited' = Unvisited
      BY <1>1, <2>2, BatchKept DEF Unvisited
    <3>2. ThreadStep(Main) => pc[Main] \in StopPcs
      BY <1>1
      DEF IInv, ThreadInv, ThreadStep, StartGet, StartRefused, StartAttach, StartCreate, StopExited,
          StopTimeout, StopRelease, UnsupGet, UnsupLock, UnsupStop, UnsupUnlock, UnsupRelease, ShutdownRaise
    <3> QED
      BY <1>1, <2>0, <2>2, <3>1, <3>2, StopCallStep, CallMoves DEF ShutdownDescends
  <2> QED
    BY <2>1, <2>2
<1>2. IInv /\ [Next]_vars => [ShutdownDescends]_vars
  BY <1>1
<1> QED
  BY <1>2, Invariance, PTL DEF Spec

-----------------------------------------------------------------------------
\* For any profiles, callers and workers: every variable keeps its type.
THEOREM TypeCorrectness == Spec => []TypeOK
<1>1. IInv => TypeOK
  BY DEF IInv
<1> QED
  BY Invariance, <1>1, PTL

\* At most one unfinished worker per profile: two live workers of one profile
\* would both be the registered one.
THEOREM SingleWorker == Spec => []OneLiveWorker
<1>1. IInv => OneLiveWorker
  BY DEF IInv, RegistryInv, OneLiveWorker
<1> QED
  BY Invariance, <1>1, PTL

\* Beside a stop, only the worker it waits for can be alive.
THEOREM StopExclusion == Spec => []StopIsAlone
<1>1. IInv => StopIsAlone
  BY DEF IInv
<1> QED
  BY Invariance, <1>1, PTL

\* Stop marks and stop calls correspond one to one: no error path leaks a mark.
THEOREM NoLeakedStopMark == Spec => []StopMarkOwned
<1>1. IInv => StopMarkOwned
  BY DEF IInv
<1> QED
  BY Invariance, <1>1, PTL

\* A stop that answers worker_exited leaves no live worker of its profile.
THEOREM TruthfulStop == Spec => []ExitedMeansExited
<1>1. IInv => ExitedMeansExited
  BY DEF IInv, TypeOK, ThreadInv, StopIsAlone, WaitInv, ExitedMeansExited
<1> QED
  BY Invariance, <1>1, PTL

\* The manager never blocks itself on a profile lock.
THEOREM NoSelfBlocking == Spec => []OwnLockNeverBlocks
<1>1. ASSUME IInv PROVE OwnLockNeverBlocks
  <2> USE <1>1 DEF IInv, TypeOK, RegistryInv, ThreadInv, LockInv, StopIsAlone
  <2>1. ASSUME NEW w \in Workers, wpc[w] = "start" PROVE lock[wname[w]] \in {None, Other}
    <3>1. wname[w] \in Names /\ registry[wname[w]] = w
      BY <2>1
    <3>2. lock[wname[w]] \notin Workers
      BY <2>1, <3>1
    <3>3. lock[wname[w]] \notin Threads
      BY <2>1, <3>1
    <3> QED
      BY <3>1, <3>2, <3>3
  <2>2. ASSUME NEW t \in Threads, pc[t] = "unsupLock" PROVE lock[target[t]] \in {None, Other}
    <3>1. target[t] \in Names
      BY <2>2
    <3>2. lock[target[t]] \notin Workers
      BY <2>2, <3>1
    <3>3. lock[target[t]] \notin Threads
      BY <2>2, <3>1 DEF StopMarkOwned, Stopper
    <3> QED
      BY <3>1, <3>2, <3>3
  <2> QED
    BY <2>1, <2>2 DEF OwnLockNeverBlocks
<1> QED
  BY Invariance, <1>1, PTL

\* Every worker alive when shutdown returns was reported as unresolved.
THEOREM ShutdownAccounts == Spec => []ShutdownAccountsForAll
<1>1. IInv => ShutdownAccountsForAll
  BY ConstantsDisjoint DEF IInv, TypeOK, RegistryInv, ThreadInv, ShutdownInv, ShutdownAccountsForAll
<1> QED
  BY Invariance, <1>1, PTL

-----------------------------------------------------------------------------
(* The registry and its workers implement ProfileFiles, for every profile *)

\* A step that leaves the store and the holder of profile n alone.
LEMMA QuietStep ==
    ASSUME NEW n \in Names, UNCHANGED profiles, runtime'[n] = runtime[n], lock'[n] = lock[n],
           \A t \in Threads : lock[n] = t => pc'[t] = pc[t] /\ result'[t] = result[t],
           \A w \in Workers : lock[n] = w => wpc'[w] = wpc[w] /\ snap'[w] = snap[w]
    PROVE  UNCHANGED Files(n)!vars
<1>1. HolderPhase(n)' = HolderPhase(n)
  BY DEF HolderPhase
<1> QED
  BY <1>1 DEF Files!vars

\* A step of the holder before its answer is a step of the contract.
LEMMA HolderWorks ==
    ASSUME NEW n \in Names, lock[n] # None, lock' = lock, HolderPhase(n) = "working",
           HolderPhase(n)' \in {"working", "stopped", "over"},
           runtime'[n] \in RuntimeKinds, runtime'[n] # "none" => n \in profiles',
           n \in profiles /\ n \notin profiles' => runtime[n] = "none",
           HolderPhase(n)' = "stopped" => runtime'[n] = "none"
    PROVE  Files(n)!Next
  BY DEF Files!Next, Files!Work, Files!Kinds, RuntimeKinds

\* Whoever holds the lock of a profile is inside its locked block for it.
LEMMA Inside ==
    ASSUME IInv, NEW n \in Names
    PROVE  /\ \A w \in Workers :
                lock[n] = w => wpc[w] \in {"loop", "body", "cleanup", "exiting"} /\ wname[w] = n
           /\ \A t \in Threads :
                lock[n] = t => pc[t] \in {"unsupStop", "unsupUnlock"} /\ target[t] = n
  BY DEF IInv, LockInv

\* The steps of calls: taking the lock, the locked block of an unsupervised
\* stop, giving the lock up.
LEMMA CallFilesStep ==
    ASSUME IInv, IInv', NEW n \in Names, NEW t \in Threads, ThreadStep(t)
    PROVE  Files(n)!Next \/ UNCHANGED Files(n)!vars
<1> USE ConstantsDisjoint DEF TypeOK
<1>0. TypeOK /\ TypeOK' /\ LockInv /\ HoldInv /\ HoldInv'
  BY DEF IInv
<1>1. CASE StartGet(t) \/ StartRefused(t) \/ StartAttach(t)
  BY <1>0, <1>1, QuietStep, Inside DEF StartGet, StartRefused, StartAttach
<1>2. ASSUME NEW w \in Workers, StartCreate(t, w) PROVE Files(n)!Next \/ UNCHANGED Files(n)!vars
  BY <1>0, <1>2, QuietStep, Inside DEF StartCreate
<1>3. CASE StopExited(t) \/ StopTimeout(t) \/ StopRelease(t)
  BY <1>0, <1>3, QuietStep, Inside DEF StopExited, StopTimeout, StopRelease
<1>4. CASE UnsupGet(t) \/ UnsupRelease(t)
  BY <1>0, <1>4, QuietStep, Inside DEF UnsupGet, UnsupRelease, ShutdownRaise
<1>5. CASE UnsupLock(t)
  <2>1. CASE lock[target[t]] # None \/ target[t] # n
    <3>1. lock'[n] = lock[n] /\ UNCHANGED <<profiles, runtime, wpc, snap>>
      BY <1>0, <1>5, <2>1 DEF UnsupLock
    <3> QED
      BY <1>0, <1>5, <3>1, QuietStep, Inside DEF UnsupLock
  <2>2. CASE lock[n] = None /\ target[t] = n
    <3>1. lock'[n] = t /\ HolderPhase(n)' = "working" /\ UNCHANGED <<profiles, runtime>>
      BY <1>0, <1>5, <2>2 DEF UnsupLock, HolderPhase
    <3> QED
      BY <2>2, <3>1 DEF Files!Next, Files!Take
  <2> QED
    BY <2>1, <2>2
<1>6. CASE UnsupStop(t)
  <2>1. lock[target[t]] = t
    BY <1>0, <1>6 DEF UnsupStop, HoldInv
  <2>2. CASE target[t] # n
    <3>1. lock[n] # t
      BY <2>2, Inside
    <3>2. runtime'[n] = runtime[n] /\ UNCHANGED <<profiles, lock, wpc, snap>>
      BY <1>0, <1>6, <2>2 DEF UnsupStop
    <3>3. HolderPhase(n)' = HolderPhase(n)
      BY <1>0, <1>6, <3>1, <3>2 DEF UnsupStop, HolderPhase
    <3> QED
      BY <3>2, <3>3 DEF Files!vars
  <2>3. CASE target[t] = n
    <3>1. /\ lock[n] = t /\ lock[n] # None /\ lock[n] \notin Workers /\ UNCHANGED <<profiles, lock>>
          /\ pc'[t] = "unsupUnlock" /\ pc[t] = "unsupStop"
      BY <1>0, <1>6, <2>1, <2>3 DEF UnsupStop
    <3>2. HolderPhase(n) = "working" /\ HolderPhase(n)' = Answered(result'[t])
      BY <3>1 DEF HolderPhase
    <3>3. result'[t] = "STOPPED" => runtime'[n] = "none"
      BY <1>0, <1>6, <2>3 DEF UnsupStop, UnsupOutcomes, RuntimeKinds
    <3> QED
      BY <1>0, <3>1, <3>2, <3>3, HolderWorks DEF Answered, HoldInv
  <2> QED
    BY <2>2, <2>3
<1>7. CASE UnsupUnlock(t)
  <2>1. lock[target[t]] = t
    BY <1>0, <1>7 DEF UnsupUnlock, HoldInv
  <2>2. CASE target[t] # n
    BY <1>0, <1>7, <2>2, Inside DEF UnsupUnlock, HolderPhase, Files!vars
  <2>3. CASE target[t] = n
    BY <1>0, <1>7, <2>1, <2>3 DEF UnsupUnlock, HolderPhase, Files!Give, Files!Next
  <2> QED
    BY <2>2, <2>3
<1> QED
  BY <1>1, <1>2, <1>3, <1>4, <1>5, <1>6, <1>7 DEF ThreadStep

\* The steps of workers: the lock, the supervised part and the way out.
LEMMA WorkerFilesStep ==
    ASSUME IInv, IInv', NEW n \in Names, NEW w \in Workers, WorkerStep(w)
    PROVE  Files(n)!Next \/ UNCHANGED Files(n)!vars
<1> USE ConstantsDisjoint DEF TypeOK
<1>0. TypeOK /\ TypeOK' /\ LockInv /\ HoldInv /\ HoldInv'
  BY DEF IInv
<1>1. CASE wname[w] # n
  <2>1. lock[n] # w
    BY <1>1, Inside
  <2>2. /\ lock'[n] = lock[n] /\ runtime'[n] = runtime[n] /\ UNCHANGED <<profiles, pc, result>>
        /\ \A v \in Workers \ {w} : wpc'[v] = wpc[v] /\ snap'[v] = snap[v]
    BY <1>0, <1>1 DEF WorkerStep, WorkerLock, WorkerLoop, WorkerBody, WorkerCleanup, WorkerUnlock,
                  WorkerFinish
  <2>3. HolderPhase(n)' = HolderPhase(n)
    BY <2>1, <2>2 DEF HolderPhase
  <2> QED
    BY <2>2, <2>3 DEF Files!vars
<1>2. CASE wname[w] = n /\ WorkerLock(w)
  <2>1. CASE lock[n] # None
    <3>1. lock[n] # w
      BY <1>2, Inside DEF WorkerLock
    <3> QED
      BY <1>0, <1>2, <2>1, <3>1, QuietStep DEF WorkerLock
  <2>2. CASE lock[n] = None
    <3>1. /\ lock'[n] = w /\ UNCHANGED <<profiles, runtime>>
          /\ wpc'[w] = "exiting" => snap'[w] = "FAILED"
      BY <1>0, <1>2, <2>2 DEF WorkerLock
    <3>2. HolderPhase(n)' \in {"working", "over"}
      BY <3>1 DEF HolderPhase, Answered
    <3> QED
      BY <2>2, <3>1, <3>2 DEF Files!Next, Files!Take
  <2> QED
    BY <2>1, <2>2
<1>3. CASE wname[w] = n /\ (WorkerLoop(w) \/ WorkerBody(w) \/ WorkerCleanup(w))
  <2>1. /\ lock[n] = w /\ n \in profiles /\ wpc[w] # "exiting"
    BY <1>0, <1>3 DEF WorkerLoop, WorkerBody, WorkerCleanup, HoldInv
  <2>2. UNCHANGED <<profiles, lock>>
    BY <1>3 DEF WorkerLoop, WorkerBody, WorkerCleanup
  <2>3. wpc'[w] = "exiting" /\ snap'[w] = "STOPPED" => runtime'[n] = "none"
    BY <1>0, <1>3 DEF WorkerLoop, WorkerBody, WorkerCleanup, CleanupOutcomes, RuntimeKinds
  <2>4. HolderPhase(n) = "working"
    BY <2>1 DEF HolderPhase
  <2>5. /\ HolderPhase(n)' \in {"working", "stopped", "over"}
        /\ HolderPhase(n)' = "stopped" => wpc'[w] = "exiting" /\ snap'[w] = "STOPPED"
    BY <2>1, <2>2 DEF HolderPhase, Answered
  <2> QED
    BY <1>0, <2>1, <2>2, <2>3, <2>4, <2>5, HolderWorks DEF HoldInv
<1>4. CASE wname[w] = n /\ WorkerUnlock(w)
  <2>1. lock[n] = w
    BY <1>0, <1>4 DEF WorkerUnlock, HoldInv
  <2> QED
    BY <1>0, <1>4, <2>1 DEF WorkerUnlock, HolderPhase, Files!Give, Files!Next
<1>5. CASE wname[w] = n /\ WorkerFinish(w)
  <2>1. lock[n] # w
    BY <1>5, Inside DEF WorkerFinish
  <2> QED
    BY <1>0, <1>5, <2>1, QuietStep DEF WorkerFinish
<1> QED
  BY <1>1, <1>2, <1>3, <1>4, <1>5 DEF WorkerStep

\* Every step is a step of the contract of profile n, or leaves its files alone.
LEMMA FilesStep ==
    ASSUME NEW n \in Names, IInv, IInv', [Next]_vars
    PROVE  [Files(n)!Next]_(Files(n)!vars)
<1> USE ConstantsDisjoint DEF TypeOK
<1> SUFFICES Files(n)!Next \/ UNCHANGED Files(n)!vars
  OBVIOUS
<1>0. TypeOK /\ TypeOK' /\ LockInv /\ HoldInv /\ HoldInv' /\ ThreadInv
  BY DEF IInv
<1>1. ASSUME NEW t \in Callers, NEW m \in Names, Call(t, m) PROVE UNCHANGED Files(n)!vars
  BY <1>0, <1>1, QuietStep, Inside DEF Call, StartCheck, StopBegin
<1>2. CASE ShutdownBegin
  BY <1>0, <1>2, QuietStep, Inside DEF ShutdownBegin
<1>3. CASE ShutdownStep
  <2>1. pc[Main] \notin {"unsupStop", "unsupUnlock"}
    BY <1>3 DEF ShutdownStep, ShutdownNext, ShutdownExited, ShutdownTimeout, ShutdownInspect,
                ShutdownClaim, ShutdownReturn
  <2>2. /\ UNCHANGED <<profiles, runtime, lock, wpc, snap>>
        /\ \A t \in Callers : pc'[t] = pc[t] /\ result'[t] = result[t]
    BY <1>0, <1>3 DEF ShutdownStep, ShutdownNext, ShutdownExited, ShutdownTimeout, ShutdownInspect,
                ShutdownClaim, ShutdownReturn
  <2> QED
    BY <2>1, <2>2, QuietStep, Inside
<1>4. ASSUME NEW m \in Names, Environment(m) PROVE Files(n)!Next \/ UNCHANGED Files(n)!vars
  <2>1. UNCHANGED <<wpc, snap, pc, result>>
    BY <1>4 DEF Environment, ProcessExit, OtherLock, OtherWork, OtherUnlock
  <2>2. CASE m # n
    <3>1. lock'[n] = lock[n] /\ runtime'[n] = runtime[n] /\ (n \in profiles' <=> n \in profiles)
      BY <1>0, <1>4, <2>2 DEF Environment, ProcessExit, OtherLock, OtherWork, OtherUnlock
    <3> QED
      BY <2>1, <3>1 DEF HolderPhase, Files!vars
  <2>3. CASE m = n /\ ProcessExit(n)
    BY <1>0, <2>1, <2>3 DEF ProcessExit, HolderPhase, Files!Exit, Files!Next
  <2>4. CASE m = n /\ OtherLock(n)
    BY <1>0, <2>1, <2>4 DEF OtherLock, HolderPhase, Files!Take, Files!Next
  <2>5. CASE m = n /\ OtherWork(n)
    <3>1. /\ lock[n] = Other /\ lock' = lock
          /\ runtime'[n] # "none" => n \in profiles'
          /\ n \in profiles /\ n \notin profiles' => runtime[n] = "none"
      BY <1>0, <2>5 DEF OtherWork, HoldInv
    <3>2. HolderPhase(n) = "working" /\ HolderPhase(n)' = "working"
      BY <3>1 DEF HolderPhase
    <3> QED
      BY <1>0, <3>1, <3>2, HolderWorks
  <2>6. CASE m = n /\ OtherUnlock(n)
    BY <1>0, <2>6 DEF OtherUnlock, HolderPhase, Files!Give, Files!Next
  <2> QED
    BY <1>4, <2>2, <2>3, <2>4, <2>5, <2>6 DEF Environment
<1>5. CASE UNCHANGED vars
  BY <1>5 DEF vars, HolderPhase, Files!vars
<1> QED
  BY <1>1, <1>2, <1>3, <1>4, <1>5, CallFilesStep, WorkerFilesStep DEF Next

\* For every profile: workers, stops, shutdown and the other users of the profile
\* keep to the contract of its files (profile_store.py 87-107).
THEOREM FilesRefinement == Spec => ImplementsProfileFiles
<1>1. Init => \A n \in Names : Files(n)!Init
  BY DEF Init, Files!Init, Files!Kinds, RuntimeKinds, HolderPhase
<1>2. IInv /\ IInv' /\ [Next]_vars
        => [\A n \in Names : [Files(n)!Next]_(Files(n)!vars)]_vars
  BY FilesStep
<1> QED
  BY <1>1, <1>2, Invariance, PTL DEF Spec, ImplementsProfileFiles
=============================================================================
