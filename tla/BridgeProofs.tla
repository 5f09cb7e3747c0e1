---------------------------- MODULE BridgeProofs ----------------------------
(***************************************************************************)
(* Safety of a profile's tunnel, evidence and lock, for any number of RAB  *)
(* processes, tunnels and ports and any of the faults.  BInv is inductive; *)
(* the properties follow from it, those about running processes only when  *)
(* no RAB process dies and no write or kill fails.                         *)
(***************************************************************************)
EXTENDS Bridge, TLAPS

USE DEF worldVars, storeVars, localVars, localsButPc,
        AcquirePcs, CandidatePcs, StalePcs, VerifyPcs, SupervisePcs, ServicePcs, LockedPcs,
        Goto, Publish, Finish, ResetLocals, TakeLock, Kill, Alive, Matches,
        AcquireConflict, AcquireError, Leave, CleanupThen, BeginStop, GiveUp

-----------------------------------------------------------------------------
\* The initial states satisfy the inductive invariant.
LEMMA InitBInv == Init => BInv
<1> SUFFICES ASSUME Init PROVE BInv
  OBVIOUS
<1> USE BridgeConstants DEF Init
<1>1. TypeOK
  <2>1. evidence \in Evidences \cup {None}
    <3>1. profile.port \in Ports
      BY DEF Profiles
    <3>2. \A t \in Tids : [tid |-> t, port |-> profile.port, remote |-> FALSE] \in Evidences
      BY <3>1 DEF Evidences
    <3> QED
      BY <3>2
  <2>2. proc \in [Tids -> {"none", "alive", "dead"}] /\ tport \in [Tids -> Ports \cup {None}]
    BY DEF Profiles
  <2>3. handle \in [Actors -> BOOLEAN] /\ stopReq \in [Actors -> BOOLEAN]
    BY Zenon
  <2> QED
    BY <2>1, <2>2, <2>3 DEF TypeOK, Pcs, Published
<1>2. LockInv
  BY DEF LockInv
<1>3. EvidenceFitsProfile
  BY DEF EvidenceFitsProfile
<1>4. SuperviseInv /\ AcquireInv /\ OperationInv
  BY DEF SuperviseInv, AcquireInv, OperationInv
<1>5. RecordInv
  BY <1>1 DEF RecordInv, TypeOK
<1> QED
  BY <1>1, <1>2, <1>3, <1>4, <1>5 DEF BInv

\* Updating a Boolean array (a fact the SMT backend does not find by itself).
LEMMA BooleanUpdate ==
    ASSUME NEW f \in [Actors -> BOOLEAN], NEW a \in Actors, NEW v \in BOOLEAN
    PROVE  [f EXCEPT ![a] = v] \in [Actors -> BOOLEAN]
  BY Zenon

\* The record acquire writes is a well-formed one.
LEMMA NewEvidenceType ==
    ASSUME NEW a \in Actors, cand[a] \in Tids, prof[a] \in Profiles
    PROVE  NewEvidence(a) \in Evidences
  BY DEF NewEvidence, Profiles, Evidences

\* Every step keeps the variables in their types.
LEMMA TypeStep == BInv /\ [Next]_vars => TypeOK'
<1> SUFFICES ASSUME BInv, [Next]_vars PROVE TypeOK'
  OBVIOUS
<1> USE BridgeConstants DEF BInv, TypeOK, Pcs, Published
<1>1. ASSUME NEW a \in Actors,
             SupLock(a) \/ StopRequest(a) \/ BeginOperation(a) \/ Crash(a) \/ Progress(a)
      PROVE  TypeOK'
  <2>1. CASE SupLock(a)
    BY <2>1 DEF SupLock
  <2>2. CASE StopRequest(a)
    BY <2>2 DEF StopRequest
  <2>3. CASE UnsBegin(a) \/ CreateLock(a) \/ UpdateLock(a) \/ DeleteLock(a)
    BY <2>3 DEF UnsBegin, CreateLock, UpdateLock, DeleteLock
  <2>4. CASE Crash(a) \/ Unlock(a)
    <3>1. lock' = None /\ ResetLocals(a) /\ UNCHANGED <<worldVars, profile, evidence>>
      BY <2>4 DEF Crash, Unlock
    <3>2. handle' \in [Actors -> BOOLEAN] /\ stopReq' \in [Actors -> BOOLEAN]
      BY <3>1, BooleanUpdate
    <3>3. pc' \in [Actors -> Pcs] /\ after' \in [Actors -> {"STOPPED", "FAILED"}] /\ pub' \in [Actors -> Published]
      BY <3>1
    <3>4. prof' \in [Actors -> Profiles \cup {None}] /\ cand' \in [Actors -> Tids \cup {None}]
      BY <3>1
    <3>5. active' \in [Actors -> Evidences \cup {None}] /\ seen' \in [Actors -> Evidences \cup {None}]
      BY <3>1
    <3>6. UNCHANGED <<proc, tport, sess, marker, foreign, profile, evidence>>
      BY <3>1
    <3> HIDE DEF ResetLocals
    <3> QED
      BY <3>1, <3>2, <3>3, <3>4, <3>5, <3>6
  <2>5. CASE LoopExited(a) \/ LoopTop(a)
    <3>1. handle' \in [Actors -> BOOLEAN]
      BY <2>5, BooleanUpdate DEF LoopExited, LoopTop
    <3> QED
      BY <2>5, <3>1 DEF LoopExited, LoopTop
  <2>6. CASE InspectFailed(a) \/ InspectPassed(a) \/ Raise(a)
    BY <2>6 DEF InspectFailed, InspectPassed, Raise
  <2>7. CASE VerListen(a) \/ VerEndpoint(a) \/ VerFailed(a)
    <3>1. ASSUME VerFailed(a) PROVE handle' \in [Actors -> BOOLEAN]
      <4>1. (handle[a] /\ Matches(active[a])) \in BOOLEAN
        BY Zenon
      <4>2. handle' = [handle EXCEPT ![a] = handle[a] /\ Matches(active[a])]
        BY <3>1 DEF VerFailed
      <4> QED
        BY <4>1, <4>2, BooleanUpdate
    <3> QED
      BY <2>7, <3>1 DEF VerListen, VerEndpoint, VerFailed
  <2>8. CASE CleanupActive(a) \/ CleanupRecorded(a)
    BY <2>8 DEF CleanupActive, CleanupRecorded
  <2>9. CASE CleanupDisconnect(a)
    BY <2>9 DEF CleanupDisconnect, Disconnect
  <2>10. CASE AcqLoad(a)
    <3>1. handle' \in [Actors -> BOOLEAN]
      <4>1. handle' = [handle EXCEPT ![a] = FALSE] \/ handle' = handle
        BY <2>10, Zenon DEF AcqLoad
      <4> QED
        BY <4>1, BooleanUpdate
    <3>2. pc' \in [Actors -> Pcs]
      <4>1. PICK label \in {"loop", "verListen", "acqListen"} : Goto(a, label)
        BY <2>10, Zenon DEF AcqLoad
      <4> QED
        BY <4>1
    <3> QED
      BY <2>10, <3>1, <3>2 DEF AcqLoad
  <2>11. CASE AcqListen(a)
    BY <2>11 DEF AcqListen
  <2>12. CASE AcqVerify(a) \/ AcqTerminate(a)
    BY <2>12 DEF AcqVerify, AcqTerminate
  <2>13. CASE AcqReleased(a) \/ AcqClear(a)
    BY <2>13 DEF AcqReleased, AcqClear
  <2>14. CASE AcqStart(a)
    <3>1. prof[a].port \in Ports
      BY <2>14 DEF AcqStart, SuperviseInv, Profiles
    <3> QED
      BY <2>14, <3>1 DEF AcqStart
  <2>15. CASE AcqEarly(a)
    BY <2>15 DEF AcqEarly
  <2>16. CASE AcqIdentity(a) \/ AcqRemote(a) \/ AcqOwn(a)
    BY <2>16 DEF AcqIdentity, AcqRemote, AcqOwn
  <2>17. CASE AcqSave(a)
    <3>1. NewEvidence(a) \in Evidences
      BY <2>17, NewEvidenceType DEF AcqSave, SuperviseInv, AcquireInv
    <3>2. handle' \in [Actors -> BOOLEAN]
      BY <2>17, BooleanUpdate DEF AcqSave
    <3>3. pc' \in [Actors -> Pcs]
      <4>1. PICK label \in {"loop", "verListen", "unlock"} : Goto(a, label)
        BY <2>17, Zenon DEF AcqSave
      <4> QED
        BY <4>1
    <3> QED
      BY <2>17, <3>1, <3>2, <3>3 DEF AcqSave
  <2>18. CASE AcqAbort(a)
    BY <2>18 DEF AcqAbort
  <2>19. CASE UnsLock(a) \/ UnsLoad(a) \/ UnsRestore(a)
    BY <2>19 DEF UnsLock, UnsLoad, UnsRestore
  <2>20. CASE UnsDisconnect(a)
    BY <2>20 DEF UnsDisconnect, Disconnect
  <2>21. CASE CreateSave(a) \/ Update(a)
    BY <2>21 DEF CreateSave, Update
  <2>22. CASE DeleteLoad(a)
    BY <2>22 DEF DeleteLoad
  <2>23. CASE DeleteTerminate(a)
    BY <2>23 DEF DeleteTerminate
  <2>24. CASE DeleteConfirm(a) \/ DeleteRemove(a)
    BY <2>24 DEF DeleteConfirm, DeleteRemove
  <2>25. CASE DeleteDisconnect(a)
    BY <2>25 DEF DeleteDisconnect, Disconnect
  <2> QED
    BY <1>1, <2>1, <2>2, <2>3, <2>4, <2>5, <2>6, <2>7, <2>8, <2>9, <2>10, <2>11, <2>12,
       <2>13, <2>14, <2>15, <2>16, <2>17, <2>18, <2>19, <2>20, <2>21, <2>22, <2>23,
       <2>24, <2>25
    DEF BeginOperation, Progress, Supervise, Acquire, ContinueOperation
<1>2. ASSUME Environment PROVE TypeOK'
  BY <1>2 DEF Environment, SshForward, WriteMarker, SessionEnd, ProcessExit,
              ForeignBind, ForeignRelease
<1>3. CASE UNCHANGED vars
  BY <1>3 DEF vars
<1> QED
  BY <1>1, <1>2, <1>3 DEF Next

\* Every step keeps the lock with the operation that is inside it.
LEMMA LockStep == BInv /\ [Next]_vars => LockInv'
<1> SUFFICES ASSUME BInv, [Next]_vars PROVE LockInv'
  OBVIOUS
<1> USE BridgeConstants DEF BInv, TypeOK, LockInv
<1>1. ASSUME NEW a \in Actors,
             SupLock(a) \/ StopRequest(a) \/ BeginOperation(a) \/ Crash(a) \/ Progress(a)
      PROVE  LockInv'
  <2>1. CASE
             \/ SupLock(a) \/ StopRequest(a) \/ UnsBegin(a) \/ CreateLock(a)
             \/ UpdateLock(a) \/ DeleteLock(a) \/ Crash(a) \/ Unlock(a)
    BY <2>1
    DEF SupLock, StopRequest, UnsBegin, CreateLock, UpdateLock, DeleteLock, Crash,
        Unlock
  <2>2. CASE
             \/ LoopExited(a) \/ LoopTop(a) \/ InspectFailed(a) \/ InspectPassed(a)
             \/ Raise(a) \/ VerListen(a) \/ VerFailed(a) \/ CleanupRecorded(a)
             \/ VerEndpoint(a) \/ CleanupActive(a) \/ CleanupDisconnect(a)
    BY <2>2
    DEF LoopExited, LoopTop, InspectFailed, InspectPassed, Raise, VerListen, VerFailed,
        CleanupRecorded, VerEndpoint, CleanupActive, CleanupDisconnect, Disconnect
  <2>3. CASE
             \/ AcqLoad(a) \/ AcqListen(a) \/ AcqVerify(a) \/ AcqStart(a)
             \/ AcqEarly(a) \/ AcqIdentity(a) \/ AcqRemote(a) \/ AcqOwn(a)
             \/ AcqAbort(a) \/ AcqReleased(a) \/ AcqClear(a) \/ AcqSave(a)
             \/ AcqTerminate(a)
    BY <2>3
    DEF AcqLoad, AcqListen, AcqVerify, AcqStart, AcqEarly, AcqIdentity, AcqRemote,
        AcqOwn, AcqAbort, AcqReleased, AcqClear, AcqSave, AcqTerminate
  <2>4. CASE
             \/ UnsLock(a) \/ UnsLoad(a) \/ CreateSave(a) \/ Update(a)
             \/ DeleteLoad(a) \/ DeleteTerminate(a) \/ DeleteRemove(a) \/ UnsDisconnect(a)
             \/ UnsRestore(a) \/ DeleteConfirm(a) \/ DeleteDisconnect(a)
    BY <2>4
    DEF UnsLock, UnsLoad, CreateSave, Update, DeleteLoad, DeleteTerminate, DeleteRemove,
        UnsDisconnect, UnsRestore, DeleteConfirm, DeleteDisconnect, Disconnect
  <2> QED
    BY <1>1, <2>1, <2>2, <2>3, <2>4
    DEF BeginOperation, Progress, Supervise, Acquire, ContinueOperation
<1>2. ASSUME Environment PROVE LockInv'
  BY <1>2 DEF Environment, SshForward, WriteMarker, SessionEnd, ProcessExit,
              ForeignBind, ForeignRelease
<1>3. CASE UNCHANGED vars
  BY <1>3 DEF vars
<1> QED
  BY <1>1, <1>2, <1>3 DEF Next

\* Every step keeps the evidence with its profile and port.
LEMMA FitsStep == BInv /\ [Next]_vars => EvidenceFitsProfile'
<1> SUFFICES ASSUME BInv, [Next]_vars PROVE EvidenceFitsProfile'
  OBVIOUS
<1> USE BridgeConstants DEF BInv, TypeOK, EvidenceFitsProfile
<1>1. ASSUME NEW a \in Actors,
             SupLock(a) \/ StopRequest(a) \/ BeginOperation(a) \/ Crash(a) \/ Progress(a)
      PROVE  EvidenceFitsProfile'
  <2>1. CASE
             \/ SupLock(a) \/ StopRequest(a) \/ UnsBegin(a) \/ CreateLock(a)
             \/ UpdateLock(a) \/ DeleteLock(a) \/ Crash(a) \/ Unlock(a)
    BY <2>1
    DEF SupLock, StopRequest, UnsBegin, CreateLock, UpdateLock, DeleteLock, Crash,
        Unlock
  <2>2. CASE
             \/ LoopExited(a) \/ LoopTop(a) \/ InspectFailed(a) \/ InspectPassed(a)
             \/ Raise(a) \/ VerListen(a) \/ VerFailed(a) \/ CleanupRecorded(a)
    BY <2>2
    DEF LoopExited, LoopTop, InspectFailed, InspectPassed, Raise, VerListen, VerFailed,
        CleanupRecorded
  <2>3. CASE
             \/ AcqLoad(a) \/ AcqListen(a) \/ AcqVerify(a) \/ AcqTerminate(a)
             \/ AcqStart(a) \/ AcqEarly(a) \/ AcqIdentity(a) \/ AcqRemote(a)
             \/ AcqOwn(a) \/ AcqAbort(a)
    BY <2>3
    DEF AcqLoad, AcqListen, AcqVerify, AcqTerminate, AcqStart, AcqEarly, AcqIdentity,
        AcqRemote, AcqOwn, AcqAbort
  <2>4. CASE
             \/ UnsLock(a) \/ UnsLoad(a) \/ CreateSave(a) \/ Update(a)
             \/ DeleteLoad(a) \/ DeleteTerminate(a) \/ DeleteRemove(a)
    BY <2>4
    DEF UnsLock, UnsLoad, CreateSave, Update, DeleteLoad, DeleteTerminate, DeleteRemove
  <2>5. CASE AcqReleased(a) \/ AcqClear(a)
    BY <2>5 DEF AcqReleased, AcqClear
  <2>6. CASE AcqSave(a)
    BY <2>6 DEF AcqSave, SuperviseInv, NewEvidence
  <2>7. CASE VerEndpoint(a)
    BY <2>7 DEF VerEndpoint, SuperviseInv
  <2>8. CASE CleanupActive(a)
    BY <2>8 DEF CleanupActive
  <2>9. CASE CleanupDisconnect(a)
    BY <2>9 DEF CleanupDisconnect, Disconnect
  <2>10. CASE UnsDisconnect(a)
    BY <2>10 DEF UnsDisconnect, Disconnect
  <2>11. CASE UnsRestore(a)
    BY <2>11 DEF UnsRestore, OperationInv
  <2>12. CASE DeleteConfirm(a)
    BY <2>12 DEF DeleteConfirm
  <2>13. CASE DeleteDisconnect(a)
    BY <2>13 DEF DeleteDisconnect, Disconnect
  <2> QED
    BY <1>1, <2>1, <2>2, <2>3, <2>4, <2>5, <2>6, <2>7, <2>8, <2>9, <2>10, <2>11, <2>12,
       <2>13
    DEF BeginOperation, Progress, Supervise, Acquire, ContinueOperation
<1>2. ASSUME Environment PROVE EvidenceFitsProfile'
  BY <1>2 DEF Environment, SshForward, WriteMarker, SessionEnd, ProcessExit,
              ForeignBind, ForeignRelease
<1>3. CASE UNCHANGED vars
  BY <1>3 DEF vars
<1> QED
  BY <1>1, <1>2, <1>3 DEF Next

\* Every step keeps a supervisor's copies of the profile and the record current.
LEMMA SuperviseStep == BInv /\ [Next]_vars => SuperviseInv'
<1> SUFFICES ASSUME BInv, [Next]_vars PROVE SuperviseInv'
  OBVIOUS
<1> USE BridgeConstants DEF BInv, TypeOK, LockInv, SuperviseInv
<1>1. ASSUME NEW a \in Actors,
             SupLock(a) \/ StopRequest(a) \/ BeginOperation(a) \/ Crash(a) \/ Progress(a)
      PROVE  SuperviseInv'
  <2>1. CASE SupLock(a)
    BY <2>1 DEF SupLock
  <2>2. CASE StopRequest(a)
    BY <2>2 DEF StopRequest
  <2>3. CASE UnsBegin(a) \/ CreateLock(a) \/ UpdateLock(a) \/ DeleteLock(a)
    BY <2>3 DEF UnsBegin, CreateLock, UpdateLock, DeleteLock
  <2>4. CASE Crash(a) \/ Unlock(a)
    BY <2>4 DEF Crash, Unlock
  <2>5. CASE LoopExited(a) \/ LoopTop(a)
    BY <2>5 DEF LoopExited, LoopTop
  <2>6. CASE InspectFailed(a) \/ InspectPassed(a) \/ Raise(a)
    BY <2>6 DEF InspectFailed, InspectPassed, Raise
  <2>7. CASE VerListen(a) \/ VerEndpoint(a) \/ VerFailed(a)
    BY <2>7 DEF VerListen, VerEndpoint, VerFailed
  <2>8. CASE CleanupActive(a) \/ CleanupRecorded(a)
    BY <2>8 DEF CleanupActive, CleanupRecorded
  <2>9. CASE CleanupDisconnect(a)
    BY <2>9 DEF CleanupDisconnect, Disconnect
  <2>10. CASE AcqLoad(a)
    BY <2>10 DEF AcqLoad
  <2>11. CASE AcqListen(a)
    BY <2>11 DEF AcqListen
  <2>12. CASE AcqVerify(a) \/ AcqTerminate(a)
    BY <2>12 DEF AcqVerify, AcqTerminate
  <2>13. CASE AcqReleased(a) \/ AcqClear(a)
    BY <2>13 DEF AcqReleased, AcqClear
  <2>14. CASE AcqStart(a)
    BY <2>14 DEF AcqStart
  <2>15. CASE AcqEarly(a)
    BY <2>15 DEF AcqEarly
  <2>16. CASE AcqIdentity(a) \/ AcqRemote(a) \/ AcqOwn(a)
    BY <2>16 DEF AcqIdentity, AcqRemote, AcqOwn
  <2>17. CASE AcqSave(a)
    <3>1. NewEvidence(a) # None
      BY <2>17, NewEvidenceType DEF AcqSave, AcquireInv
    <3>2. PICK label \in {"loop", "verListen", "unlock"} : Goto(a, label)
      BY <2>17, Zenon DEF AcqSave
    <3>3. CASE label = "unlock"
      BY <2>17, <3>2, <3>3 DEF AcqSave
    <3>4. CASE label # "unlock"
      <4>1. evidence' = NewEvidence(a) /\ active' = [active EXCEPT ![a] = NewEvidence(a)]
        BY <2>17, <3>2, <3>4 DEF AcqSave
      <4>2. UNCHANGED <<profile, lock, prof>>
        BY <2>17 DEF AcqSave
      <4>3. pc[a] = "acqSave"
        BY <2>17 DEF AcqSave
      <4> QED
        BY <3>1, <3>2, <3>4, <4>1, <4>2, <4>3
    <3> QED
      BY <3>3, <3>4
  <2>18. CASE AcqAbort(a)
    BY <2>18 DEF AcqAbort
  <2>19. CASE UnsLock(a) \/ UnsLoad(a) \/ UnsRestore(a)
    BY <2>19 DEF UnsLock, UnsLoad, UnsRestore
  <2>20. CASE UnsDisconnect(a)
    BY <2>20 DEF UnsDisconnect, Disconnect
  <2>21. CASE CreateSave(a) \/ Update(a)
    BY <2>21 DEF CreateSave, Update
  <2>22. CASE DeleteLoad(a)
    BY <2>22 DEF DeleteLoad
  <2>23. CASE DeleteTerminate(a)
    BY <2>23 DEF DeleteTerminate
  <2>24. CASE DeleteConfirm(a) \/ DeleteRemove(a)
    BY <2>24 DEF DeleteConfirm, DeleteRemove
  <2>25. CASE DeleteDisconnect(a)
    BY <2>25 DEF DeleteDisconnect, Disconnect
  <2> QED
    BY <1>1, <2>1, <2>2, <2>3, <2>4, <2>5, <2>6, <2>7, <2>8, <2>9, <2>10, <2>11, <2>12,
       <2>13, <2>14, <2>15, <2>16, <2>17, <2>18, <2>19, <2>20, <2>21, <2>22, <2>23,
       <2>24, <2>25
    DEF BeginOperation, Progress, Supervise, Acquire, ContinueOperation
<1>2. ASSUME Environment PROVE SuperviseInv'
  BY <1>2 DEF Environment, SshForward, WriteMarker, SessionEnd, ProcessExit,
              ForeignBind, ForeignRelease
<1>3. CASE UNCHANGED vars
  BY <1>3 DEF vars
<1> QED
  BY <1>1, <1>2, <1>3 DEF Next

\* Every step keeps what acquire knows of its process and of the evidence.
LEMMA AcquireStep == BInv /\ [Next]_vars => AcquireInv'
<1> SUFFICES ASSUME BInv, [Next]_vars PROVE AcquireInv'
  OBVIOUS
<1> USE BridgeConstants DEF BInv, TypeOK, LockInv, AcquireInv
<1>1. ASSUME NEW a \in Actors,
             SupLock(a) \/ StopRequest(a) \/ BeginOperation(a) \/ Crash(a) \/ Progress(a)
      PROVE  AcquireInv'
  <2>1. CASE SupLock(a)
    BY <2>1 DEF SupLock
  <2>2. CASE StopRequest(a)
    BY <2>2 DEF StopRequest
  <2>3. CASE UnsBegin(a) \/ CreateLock(a) \/ UpdateLock(a) \/ DeleteLock(a)
    BY <2>3 DEF UnsBegin, CreateLock, UpdateLock, DeleteLock
  <2>4. CASE Crash(a) \/ Unlock(a)
    BY <2>4 DEF Crash, Unlock
  <2>5. CASE LoopExited(a) \/ LoopTop(a)
    BY <2>5 DEF LoopExited, LoopTop
  <2>6. CASE InspectFailed(a) \/ InspectPassed(a) \/ Raise(a)
    BY <2>6 DEF InspectFailed, InspectPassed, Raise
  <2>7. CASE VerListen(a) \/ VerEndpoint(a) \/ VerFailed(a)
    BY <2>7 DEF VerListen, VerEndpoint, VerFailed
  <2>8. CASE CleanupActive(a) \/ CleanupRecorded(a)
    BY <2>8 DEF CleanupActive, CleanupRecorded
  <2>9. CASE CleanupDisconnect(a)
    BY <2>9 DEF CleanupDisconnect, Disconnect
  <2>10. CASE AcqLoad(a)
    BY <2>10 DEF AcqLoad, EvidenceFitsProfile, SuperviseInv
  <2>11. CASE AcqListen(a)
    BY <2>11 DEF AcqListen
  <2>12. CASE AcqVerify(a) \/ AcqTerminate(a)
    BY <2>12 DEF AcqVerify, AcqTerminate
  <2>13. CASE AcqReleased(a) \/ AcqClear(a)
    BY <2>13 DEF AcqReleased, AcqClear
  <2>14. CASE AcqStart(a)
    BY <2>14 DEF AcqStart
  <2>15. CASE AcqEarly(a)
    BY <2>15 DEF AcqEarly
  <2>16. CASE AcqIdentity(a) \/ AcqRemote(a) \/ AcqOwn(a)
    BY <2>16 DEF AcqIdentity, AcqRemote, AcqOwn
  <2>17. CASE AcqSave(a)
    BY <2>17 DEF AcqSave
  <2>18. CASE AcqAbort(a)
    BY <2>18 DEF AcqAbort
  <2>19. CASE UnsLock(a) \/ UnsLoad(a) \/ UnsRestore(a)
    BY <2>19 DEF UnsLock, UnsLoad, UnsRestore
  <2>20. CASE UnsDisconnect(a)
    BY <2>20 DEF UnsDisconnect, Disconnect
  <2>21. CASE CreateSave(a) \/ Update(a)
    BY <2>21 DEF CreateSave, Update
  <2>22. CASE DeleteLoad(a)
    BY <2>22 DEF DeleteLoad
  <2>23. CASE DeleteTerminate(a)
    BY <2>23 DEF DeleteTerminate
  <2>24. CASE DeleteConfirm(a) \/ DeleteRemove(a)
    BY <2>24 DEF DeleteConfirm, DeleteRemove
  <2>25. CASE DeleteDisconnect(a)
    BY <2>25 DEF DeleteDisconnect, Disconnect
  <2> QED
    BY <1>1, <2>1, <2>2, <2>3, <2>4, <2>5, <2>6, <2>7, <2>8, <2>9, <2>10, <2>11, <2>12,
       <2>13, <2>14, <2>15, <2>16, <2>17, <2>18, <2>19, <2>20, <2>21, <2>22, <2>23,
       <2>24, <2>25
    DEF BeginOperation, Progress, Supervise, Acquire, ContinueOperation
<1>2. ASSUME Environment PROVE AcquireInv'
  <2>1. UNCHANGED <<tport, storeVars, localVars>>
    BY <1>2 DEF Environment, SshForward, WriteMarker, SessionEnd, ProcessExit,
                ForeignBind, ForeignRelease
  <2>2. \A t \in Tids : proc'[t] = "alive" => proc[t] = "alive"
    BY <1>2 DEF Environment, SshForward, WriteMarker, SessionEnd, ProcessExit,
                ForeignBind, ForeignRelease
  <2>3. evidence # None => evidence.tid \in Tids
    BY DEF Evidences
  <2> QED
    BY <2>1, <2>2, <2>3
<1>3. CASE UNCHANGED vars
  BY <1>3 DEF vars
<1> QED
  BY <1>1, <1>2, <1>3 DEF Next

\* Every step keeps what stops, deletes and final answers have established.
LEMMA OperationStep == BInv /\ [Next]_vars => OperationInv'
<1> SUFFICES ASSUME BInv, [Next]_vars PROVE OperationInv'
  OBVIOUS
<1> USE BridgeConstants DEF BInv, TypeOK, LockInv, OperationInv
<1>1. ASSUME NEW a \in Actors,
             SupLock(a) \/ StopRequest(a) \/ BeginOperation(a) \/ Crash(a) \/ Progress(a)
      PROVE  OperationInv'
  <2>1. CASE SupLock(a)
    BY <2>1 DEF SupLock
  <2>2. CASE StopRequest(a)
    BY <2>2 DEF StopRequest
  <2>3. CASE UnsBegin(a) \/ CreateLock(a) \/ UpdateLock(a) \/ DeleteLock(a)
    BY <2>3 DEF UnsBegin, CreateLock, UpdateLock, DeleteLock
  <2>4. CASE Crash(a) \/ Unlock(a)
    BY <2>4 DEF Crash, Unlock
  <2>5. CASE LoopExited(a) \/ LoopTop(a)
    BY <2>5 DEF LoopExited, LoopTop
  <2>6. CASE InspectFailed(a) \/ InspectPassed(a) \/ Raise(a)
    BY <2>6 DEF InspectFailed, InspectPassed, Raise
  <2>7. CASE VerListen(a) \/ VerEndpoint(a) \/ VerFailed(a)
    BY <2>7 DEF VerListen, VerEndpoint, VerFailed
  <2>8. CASE CleanupActive(a) \/ CleanupRecorded(a)
    BY <2>8 DEF CleanupActive, CleanupRecorded
  <2>9. CASE CleanupDisconnect(a)
    BY <2>9 DEF CleanupDisconnect, Disconnect
  <2>10. CASE AcqLoad(a)
    BY <2>10 DEF AcqLoad
  <2>11. CASE AcqListen(a)
    BY <2>11 DEF AcqListen
  <2>12. CASE AcqVerify(a) \/ AcqTerminate(a)
    BY <2>12 DEF AcqVerify, AcqTerminate
  <2>13. CASE AcqReleased(a) \/ AcqClear(a)
    BY <2>13 DEF AcqReleased, AcqClear
  <2>14. CASE AcqStart(a)
    BY <2>14 DEF AcqStart
  <2>15. CASE AcqEarly(a)
    BY <2>15 DEF AcqEarly
  <2>16. CASE AcqIdentity(a) \/ AcqRemote(a) \/ AcqOwn(a)
    BY <2>16 DEF AcqIdentity, AcqRemote, AcqOwn
  <2>17. CASE AcqSave(a)
    BY <2>17 DEF AcqSave
  <2>18. CASE AcqAbort(a)
    BY <2>18 DEF AcqAbort
  <2>19. CASE UnsLock(a) \/ UnsLoad(a) \/ UnsRestore(a)
    BY <2>19 DEF UnsLock, UnsLoad, UnsRestore, EvidenceFitsProfile
  <2>20. CASE UnsDisconnect(a)
    BY <2>20 DEF UnsDisconnect, Disconnect
  <2>21. CASE CreateSave(a) \/ Update(a)
    BY <2>21 DEF CreateSave, Update
  <2>22. CASE DeleteLoad(a)
    BY <2>22 DEF DeleteLoad
  <2>23. CASE DeleteTerminate(a)
    BY <2>23 DEF DeleteTerminate, Evidences
  <2>24. CASE DeleteConfirm(a) \/ DeleteRemove(a)
    BY <2>24 DEF DeleteConfirm, DeleteRemove
  <2>25. CASE DeleteDisconnect(a)
    BY <2>25 DEF DeleteDisconnect, Disconnect
  <2> QED
    BY <1>1, <2>1, <2>2, <2>3, <2>4, <2>5, <2>6, <2>7, <2>8, <2>9, <2>10, <2>11, <2>12,
       <2>13, <2>14, <2>15, <2>16, <2>17, <2>18, <2>19, <2>20, <2>21, <2>22, <2>23,
       <2>24, <2>25
    DEF BeginOperation, Progress, Supervise, Acquire, ContinueOperation
<1>2. ASSUME Environment PROVE OperationInv'
  <2>1. UNCHANGED <<tport, storeVars, localVars>>
    BY <1>2 DEF Environment, SshForward, WriteMarker, SessionEnd, ProcessExit,
                ForeignBind, ForeignRelease
  <2>2. \A t \in Tids : proc'[t] = "alive" => proc[t] = "alive"
    BY <1>2 DEF Environment, SshForward, WriteMarker, SessionEnd, ProcessExit,
                ForeignBind, ForeignRelease
  <2>3. evidence # None => evidence.tid \in Tids
    BY DEF Evidences
  <2> QED
    BY <2>1, <2>2, <2>3
<1>3. CASE UNCHANGED vars
  BY <1>3 DEF vars
<1> QED
  BY <1>1, <1>2, <1>3 DEF Next

\* Every step keeps records and sessions in line with the processes.
LEMMA RecordStep == BInv /\ [Next]_vars => RecordInv'
<1> SUFFICES ASSUME BInv, [Next]_vars PROVE RecordInv'
  OBVIOUS
<1> USE BridgeConstants DEF BInv, TypeOK, LockInv, RecordInv
<1>1. ASSUME NEW a \in Actors,
             SupLock(a) \/ StopRequest(a) \/ BeginOperation(a) \/ Crash(a) \/ Progress(a)
      PROVE  RecordInv'
  <2>1. CASE SupLock(a)
    BY <2>1 DEF SupLock
  <2>2. CASE StopRequest(a)
    BY <2>2 DEF StopRequest
  <2>3. CASE UnsBegin(a) \/ CreateLock(a) \/ UpdateLock(a) \/ DeleteLock(a)
    BY <2>3 DEF UnsBegin, CreateLock, UpdateLock, DeleteLock
  <2>4. CASE Crash(a) \/ Unlock(a)
    BY <2>4 DEF Crash, Unlock
  <2>5. CASE LoopExited(a) \/ LoopTop(a)
    BY <2>5 DEF LoopExited, LoopTop
  <2>6. CASE InspectFailed(a) \/ InspectPassed(a) \/ Raise(a)
    BY <2>6 DEF InspectFailed, InspectPassed, Raise
  <2>7. CASE VerListen(a) \/ VerEndpoint(a) \/ VerFailed(a)
    BY <2>7 DEF VerListen, VerEndpoint, VerFailed, SuperviseInv
  <2>8. CASE CleanupActive(a) \/ CleanupRecorded(a)
    BY <2>8 DEF CleanupActive, CleanupRecorded
  <2>9. CASE CleanupDisconnect(a)
    BY <2>9 DEF CleanupDisconnect, Disconnect
  <2>10. CASE AcqLoad(a)
    BY <2>10 DEF AcqLoad
  <2>11. CASE AcqListen(a)
    BY <2>11 DEF AcqListen
  <2>12. CASE AcqVerify(a) \/ AcqTerminate(a)
    BY <2>12 DEF AcqVerify, AcqTerminate
  <2>13. CASE AcqReleased(a) \/ AcqClear(a)
    BY <2>13 DEF AcqReleased, AcqClear
  <2>14. CASE AcqStart(a)
    BY <2>14 DEF AcqStart, AcquireInv
  <2>15. CASE AcqEarly(a)
    BY <2>15 DEF AcqEarly
  <2>16. CASE AcqIdentity(a) \/ AcqRemote(a) \/ AcqOwn(a)
    BY <2>16 DEF AcqIdentity, AcqRemote, AcqOwn
  <2>17. CASE AcqSave(a)
    BY <2>17 DEF AcqSave, AcquireInv, NewEvidence
  <2>18. CASE AcqAbort(a)
    BY <2>18 DEF AcqAbort
  <2>19. CASE UnsLock(a) \/ UnsLoad(a) \/ UnsRestore(a)
    BY <2>19 DEF UnsLock, UnsLoad, UnsRestore
  <2>20. CASE UnsDisconnect(a)
    BY <2>20 DEF UnsDisconnect, Disconnect
  <2>21. CASE CreateSave(a) \/ Update(a)
    BY <2>21 DEF CreateSave, Update
  <2>22. CASE DeleteLoad(a)
    BY <2>22 DEF DeleteLoad
  <2>23. CASE DeleteTerminate(a)
    BY <2>23 DEF DeleteTerminate
  <2>24. CASE DeleteConfirm(a) \/ DeleteRemove(a)
    BY <2>24 DEF DeleteConfirm, DeleteRemove
  <2>25. CASE DeleteDisconnect(a)
    BY <2>25 DEF DeleteDisconnect, Disconnect
  <2> QED
    BY <1>1, <2>1, <2>2, <2>3, <2>4, <2>5, <2>6, <2>7, <2>8, <2>9, <2>10, <2>11, <2>12,
       <2>13, <2>14, <2>15, <2>16, <2>17, <2>18, <2>19, <2>20, <2>21, <2>22, <2>23,
       <2>24, <2>25
    DEF BeginOperation, Progress, Supervise, Acquire, ContinueOperation
<1>2. ASSUME Environment PROVE RecordInv'
  BY <1>2 DEF Environment, SshForward, WriteMarker, SessionEnd, ProcessExit,
              ForeignBind, ForeignRelease
<1>3. CASE UNCHANGED vars
  BY <1>3 DEF vars
<1> QED
  BY <1>1, <1>2, <1>3 DEF Next

-----------------------------------------------------------------------------
(* The theorems *)

\* The invariant holds in every behaviour, whatever the faults.
THEOREM Invariance == Spec => []BInv
<1>1. Init => BInv
  BY InitBInv
<1>2. BInv /\ [Next]_vars => BInv'
  BY TypeStep, LockStep, FitsStep, SuperviseStep, AcquireStep, OperationStep, RecordStep
  DEF BInv
<1> QED
  BY <1>1, <1>2, PTL DEF Spec

\* The variables of the supervisor, the services and the store stay in their
\* types (profile_store.py, tunnel_supervisor.py, profile_service.py).
THEOREM TypeCorrectness == Spec => []TypeOK
<1>1. BInv => TypeOK
  BY DEF BInv
<1> QED
  BY <1>1, Invariance, PTL

\* Runtime evidence always fits the profile on disk (tunnel.py 116-138,
\* profile_service.py 77-154), crashes and failed writes included.
THEOREM EvidenceFits == Spec => []EvidenceFitsProfile
<1>1. BInv => EvidenceFitsProfile
  BY DEF BInv
<1> QED
  BY <1>1, Invariance, PTL

\* A supervisor never works with an outdated profile (profile_service.py 22-25).
THEOREM FreshProfile == Spec => []SupervisorProfileFresh
<1>1. BInv => SupervisorProfileFresh
  BY DEF BInv, SuperviseInv, SupervisorProfileFresh
<1> QED
  BY <1>1, Invariance, PTL

\* A step that drops evidence leaves the process it records dead.
LEMMA DropsOnlyDeadStep == BInv /\ [Next]_vars => DropsOnlyDead
<1> SUFFICES ASSUME BInv, [Next]_vars PROVE DropsOnlyDead
  OBVIOUS
<1> USE BridgeConstants DEF BInv, TypeOK, DropsOnlyDead
<1>1. ASSUME NEW a \in Actors,
             SupLock(a) \/ StopRequest(a) \/ BeginOperation(a) \/ Crash(a) \/ Progress(a)
      PROVE  DropsOnlyDead
  <2>1. CASE
             \/ SupLock(a) \/ StopRequest(a) \/ UnsBegin(a) \/ CreateLock(a)
             \/ UpdateLock(a) \/ DeleteLock(a) \/ Crash(a) \/ Unlock(a)
    BY <2>1
    DEF SupLock, StopRequest, UnsBegin, CreateLock, UpdateLock, DeleteLock, Crash,
        Unlock
  <2>2. CASE
             \/ LoopExited(a) \/ LoopTop(a) \/ InspectFailed(a) \/ InspectPassed(a)
             \/ Raise(a) \/ VerListen(a) \/ VerFailed(a) \/ CleanupRecorded(a)
    BY <2>2
    DEF LoopExited, LoopTop, InspectFailed, InspectPassed, Raise, VerListen, VerFailed,
        CleanupRecorded
  <2>3. CASE
             \/ AcqLoad(a) \/ AcqListen(a) \/ AcqVerify(a) \/ AcqTerminate(a)
             \/ AcqStart(a) \/ AcqEarly(a) \/ AcqIdentity(a) \/ AcqRemote(a)
             \/ AcqOwn(a) \/ AcqAbort(a)
    BY <2>3
    DEF AcqLoad, AcqListen, AcqVerify, AcqTerminate, AcqStart, AcqEarly, AcqIdentity,
        AcqRemote, AcqOwn, AcqAbort
  <2>4. CASE
             \/ UnsLock(a) \/ UnsLoad(a) \/ CreateSave(a) \/ Update(a)
             \/ DeleteLoad(a) \/ DeleteTerminate(a) \/ DeleteRemove(a)
    BY <2>4
    DEF UnsLock, UnsLoad, CreateSave, Update, DeleteLoad, DeleteTerminate, DeleteRemove
  <2>5. CASE AcqReleased(a) \/ AcqClear(a)
    BY <2>5 DEF AcqReleased, AcqClear, AcquireInv, Evidences
  <2>6. CASE AcqSave(a)
    BY <2>6 DEF AcqSave, AcquireInv
  <2>7. CASE VerEndpoint(a)
    BY <2>7 DEF VerEndpoint, SuperviseInv
  <2>8. CASE CleanupActive(a)
    BY <2>8 DEF CleanupActive, SuperviseInv, Evidences
  <2>9. CASE CleanupDisconnect(a)
    BY <2>9 DEF CleanupDisconnect, Disconnect, Evidences
  <2>10. CASE UnsDisconnect(a)
    BY <2>10 DEF UnsDisconnect, Disconnect, Evidences
  <2>11. CASE UnsRestore(a)
    BY <2>11 DEF UnsRestore, OperationInv
  <2>12. CASE DeleteConfirm(a)
    BY <2>12 DEF DeleteConfirm, OperationInv, Evidences
  <2>13. CASE DeleteDisconnect(a)
    BY <2>13 DEF DeleteDisconnect, Disconnect, Evidences
  <2> QED
    BY <1>1, <2>1, <2>2, <2>3, <2>4, <2>5, <2>6, <2>7, <2>8, <2>9, <2>10, <2>11, <2>12,
       <2>13
    DEF BeginOperation, Progress, Supervise, Acquire, ContinueOperation
<1>2. ASSUME Environment PROVE DropsOnlyDead
  BY <1>2 DEF Environment, SshForward, WriteMarker, SessionEnd, ProcessExit,
              ForeignBind, ForeignRelease
<1>3. CASE UNCHANGED vars
  BY <1>3 DEF vars
<1> QED
  BY <1>1, <1>2, <1>3 DEF Next

\* A process that runs after a step and was recorded, or did not run, before it is
\* recorded after it, unless its acquire ended with the step.
LEMMA LosesOnlyStartedStep == BInv /\ [Next]_vars => LosesOnlyStarted
<1> DEFINE Kept(t) == Recorded(t)' \/ LeftBehind(t)
<1> SUFFICES ASSUME BInv, [Next]_vars, NEW t \in Tids, proc'[t] = "alive",
                    proc[t] = "alive" => Recorded(t)
             PROVE  Kept(t)
  BY DEF LosesOnlyStarted
<1> USE BridgeConstants DEF BInv, TypeOK, LockInv, Recorded, LeftBehind
<1>1. ASSUME NEW a \in Actors,
             SupLock(a) \/ StopRequest(a) \/ BeginOperation(a) \/ Crash(a) \/ Progress(a)
      PROVE  Kept(t)
  <2>1. CASE SupLock(a)
    BY <2>1 DEF SupLock, AcquireInv
  <2>2. CASE StopRequest(a)
    BY <2>2 DEF StopRequest
  <2>3. CASE UnsBegin(a) \/ CreateLock(a) \/ UpdateLock(a) \/ DeleteLock(a)
    BY <2>3 DEF UnsBegin, CreateLock, UpdateLock, DeleteLock
  <2>4. CASE Crash(a) \/ Unlock(a)
    BY <2>4 DEF Crash, Unlock, AcquireInv
  <2>5. CASE LoopExited(a) \/ LoopTop(a)
    BY <2>5 DEF LoopExited, LoopTop
  <2>6. CASE InspectFailed(a) \/ InspectPassed(a) \/ Raise(a)
    BY <2>6 DEF InspectFailed, InspectPassed, Raise
  <2>7. CASE VerListen(a) \/ VerEndpoint(a) \/ VerFailed(a)
    BY <2>7 DEF VerListen, VerEndpoint, VerFailed, SuperviseInv
  <2>8. CASE CleanupActive(a) \/ CleanupRecorded(a)
    BY <2>8 DEF CleanupActive, CleanupRecorded, SuperviseInv, Evidences
  <2>9. CASE CleanupDisconnect(a)
    BY <2>9 DEF CleanupDisconnect, Disconnect, Evidences
  <2>10. CASE AcqLoad(a)
    BY <2>10 DEF AcqLoad
  <2>11. CASE AcqListen(a)
    BY <2>11 DEF AcqListen, AcquireInv, Evidences
  <2>12. CASE AcqVerify(a) \/ AcqTerminate(a)
    BY <2>12 DEF AcqVerify, AcqTerminate
  <2>13. CASE AcqReleased(a) \/ AcqClear(a)
    BY <2>13 DEF AcqReleased, AcqClear, AcquireInv, Evidences
  <2>14. CASE AcqStart(a)
    BY <2>14 DEF AcqStart, AcquireInv, Evidences
  <2>15. CASE AcqEarly(a)
    BY <2>15 DEF AcqEarly, AcquireInv, Evidences
  <2>16. CASE AcqIdentity(a) \/ AcqRemote(a) \/ AcqOwn(a)
    BY <2>16 DEF AcqIdentity, AcqRemote, AcqOwn
  <2>17. CASE AcqSave(a)
    <3>1. NewEvidence(a) # None /\ NewEvidence(a).tid = cand[a]
      BY <2>17, NewEvidenceType DEF AcqSave, SuperviseInv, AcquireInv, NewEvidence
    <3>2. t = cand[a] /\ pc[a] = "acqSave"
      BY <2>17 DEF AcqSave, AcquireInv
    <3>3. evidence' = NewEvidence(a) \/ pc'[a] = "unlock"
      BY <2>17 DEF AcqSave
    <3> QED
      BY <3>1, <3>2, <3>3
  <2>18. CASE AcqAbort(a)
    BY <2>18 DEF AcqAbort, AcquireInv, Evidences
  <2>19. CASE UnsLock(a) \/ UnsLoad(a) \/ UnsRestore(a)
    BY <2>19 DEF UnsLock, UnsLoad, UnsRestore, OperationInv
  <2>20. CASE UnsDisconnect(a)
    BY <2>20 DEF UnsDisconnect, Disconnect, Evidences
  <2>21. CASE CreateSave(a) \/ Update(a)
    BY <2>21 DEF CreateSave, Update
  <2>22. CASE DeleteLoad(a)
    BY <2>22 DEF DeleteLoad
  <2>23. CASE DeleteTerminate(a)
    BY <2>23 DEF DeleteTerminate, Evidences
  <2>24. CASE DeleteConfirm(a) \/ DeleteRemove(a)
    BY <2>24 DEF DeleteConfirm, DeleteRemove, OperationInv, Evidences
  <2>25. CASE DeleteDisconnect(a)
    BY <2>25 DEF DeleteDisconnect, Disconnect, Evidences
  <2> QED
    BY <1>1, <2>1, <2>2, <2>3, <2>4, <2>5, <2>6, <2>7, <2>8, <2>9, <2>10, <2>11, <2>12,
       <2>13, <2>14, <2>15, <2>16, <2>17, <2>18, <2>19, <2>20, <2>21, <2>22, <2>23,
       <2>24, <2>25
    DEF BeginOperation, Progress, Supervise, Acquire, ContinueOperation
<1>2. ASSUME Environment PROVE Kept(t)
  BY <1>2 DEF Environment, SshForward, WriteMarker, SessionEnd, ProcessExit,
              ForeignBind, ForeignRelease
<1>3. CASE UNCHANGED vars
  BY <1>3 DEF vars
<1> QED
  BY <1>1, <1>2, <1>3 DEF Next

\* No path of acquire, cleanup, disconnect or delete forgets a running process
\* (tunnel.py 128, 142, 241, 251; tunnel_supervisor.py 314; profile_service.py 180).
THEOREM EvidenceOutlives == Spec => EvidenceOutlivesProcess
<1>1. BInv /\ [Next]_vars => [DropsOnlyDead /\ LosesOnlyStarted]_vars
  BY DropsOnlyDeadStep, LosesOnlyStartedStep
<1> QED
  BY <1>1, Invariance, PTL DEF Spec, EvidenceOutlivesProcess

\* A step of acquire that ends a session ends one whose process is dead.
LEMMA EndsOnlyStaleStep == BInv /\ [Next]_vars => EndsOnlyStale
<1> SUFFICES ASSUME BInv, [Next]_vars PROVE EndsOnlyStale
  OBVIOUS
<1> USE BridgeConstants DEF BInv, TypeOK, EndsOnlyStale
<1>1. ASSUME NEW a \in Actors,
             SupLock(a) \/ StopRequest(a) \/ BeginOperation(a) \/ Crash(a) \/ Progress(a)
      PROVE  EndsOnlyStale
  <2>1. CASE
             \/ SupLock(a) \/ StopRequest(a) \/ UnsBegin(a) \/ CreateLock(a)
             \/ UpdateLock(a) \/ DeleteLock(a) \/ Crash(a) \/ Unlock(a)
    BY <2>1
    DEF SupLock, StopRequest, UnsBegin, CreateLock, UpdateLock, DeleteLock, Crash,
        Unlock
  <2>2. CASE
             \/ LoopExited(a) \/ LoopTop(a) \/ InspectFailed(a) \/ InspectPassed(a)
             \/ Raise(a) \/ VerListen(a) \/ VerFailed(a) \/ CleanupRecorded(a)
             \/ VerEndpoint(a) \/ CleanupActive(a) \/ CleanupDisconnect(a)
    BY <2>2
    DEF LoopExited, LoopTop, InspectFailed, InspectPassed, Raise, VerListen, VerFailed,
        CleanupRecorded, VerEndpoint, CleanupActive, CleanupDisconnect, Disconnect
  <2>3. CASE
             \/ AcqLoad(a) \/ AcqListen(a) \/ AcqVerify(a) \/ AcqStart(a)
             \/ AcqEarly(a) \/ AcqIdentity(a) \/ AcqRemote(a) \/ AcqOwn(a)
             \/ AcqAbort(a) \/ AcqReleased(a) \/ AcqClear(a) \/ AcqSave(a)
    BY <2>3
    DEF AcqLoad, AcqListen, AcqVerify, AcqStart, AcqEarly, AcqIdentity, AcqRemote,
        AcqOwn, AcqAbort, AcqReleased, AcqClear, AcqSave
  <2>4. CASE
             \/ UnsLock(a) \/ UnsLoad(a) \/ CreateSave(a) \/ Update(a)
             \/ DeleteLoad(a) \/ DeleteTerminate(a) \/ DeleteRemove(a) \/ UnsDisconnect(a)
             \/ UnsRestore(a) \/ DeleteConfirm(a) \/ DeleteDisconnect(a)
    BY <2>4
    DEF UnsLock, UnsLoad, CreateSave, Update, DeleteLoad, DeleteTerminate, DeleteRemove,
        UnsDisconnect, UnsRestore, DeleteConfirm, DeleteDisconnect, Disconnect
  <2>5. CASE AcqTerminate(a)
    <3>1. CASE AcqTerminate(a) /\ UNCHANGED sess
      BY <3>1
    <3>2. CASE AcqTerminate(a) /\ sess' = [sess EXCEPT ![seen[a].tid] = "gone"]
      <4>1. seen[a] = evidence /\ evidence # None /\ ~ Matches(evidence)
        BY <3>2 DEF AcqTerminate, AcquireInv
      <4>2. evidence.tid \in Tids
        BY <4>1 DEF Evidences
      <4>3. proc[evidence.tid] # "alive"
        BY <4>1, <4>2
      <4>4. sess[evidence.tid] = "up" => proc[evidence.tid] = "dead"
        BY <4>2, <4>3 DEF RecordInv
      <4>5. \A t \in Tids \ {evidence.tid} : sess'[t] = sess[t]
        BY <3>2, <4>1
      <4> QED
        BY <4>4, <4>5
    <3> QED
      BY <2>5, <3>1, <3>2 DEF AcqTerminate
  <2> QED
    BY <1>1, <2>1, <2>2, <2>3, <2>4, <2>5
    DEF BeginOperation, Progress, Supervise, Acquire, ContinueOperation
<1>2. ASSUME Environment PROVE EndsOnlyStale
  BY <1>2 DEF Environment, SshForward, WriteMarker, SessionEnd, ProcessExit,
              ForeignBind, ForeignRelease
<1>3. CASE UNCHANGED vars
  BY <1>3 DEF vars
<1> QED
  BY <1>1, <1>2, <1>3 DEF Next

\* acquire never takes down the session of a running tunnel (tunnel.py 116-125).
THEOREM OnlyStale == Spec => OnlyStaleSessionsEnded
<1>1. BInv /\ [Next]_vars => [EndsOnlyStale]_vars
  BY EndsOnlyStaleStep
<1> QED
  BY <1>1, Invariance, PTL DEF Spec, OnlyStaleSessionsEnded

\* A delete that drops evidence has seen the recorded session gone.
LEMMA DropsOnlyReleasedStep == BInv /\ [Next]_vars => DropsOnlyReleased
<1> SUFFICES ASSUME BInv, [Next]_vars PROVE DropsOnlyReleased
  OBVIOUS
<1> USE BridgeConstants DEF BInv, TypeOK, LockInv, DropsOnlyReleased
<1>1. ASSUME NEW a \in Actors,
             SupLock(a) \/ StopRequest(a) \/ BeginOperation(a) \/ Crash(a) \/ Progress(a)
      PROVE  DropsOnlyReleased
  <2>1. CASE
             \/ SupLock(a) \/ StopRequest(a) \/ UnsBegin(a) \/ CreateLock(a)
             \/ UpdateLock(a) \/ DeleteLock(a) \/ Crash(a) \/ Unlock(a)
    BY <2>1
    DEF SupLock, StopRequest, UnsBegin, CreateLock, UpdateLock, DeleteLock, Crash,
        Unlock
  <2>2. CASE
             \/ LoopExited(a) \/ LoopTop(a) \/ InspectFailed(a) \/ InspectPassed(a)
             \/ Raise(a) \/ VerListen(a) \/ VerFailed(a) \/ CleanupRecorded(a)
    BY <2>2
    DEF LoopExited, LoopTop, InspectFailed, InspectPassed, Raise, VerListen, VerFailed,
        CleanupRecorded
  <2>3. CASE
             \/ AcqLoad(a) \/ AcqListen(a) \/ AcqVerify(a) \/ AcqTerminate(a)
             \/ AcqStart(a) \/ AcqEarly(a) \/ AcqIdentity(a) \/ AcqRemote(a)
             \/ AcqOwn(a) \/ AcqAbort(a)
    BY <2>3
    DEF AcqLoad, AcqListen, AcqVerify, AcqTerminate, AcqStart, AcqEarly, AcqIdentity,
        AcqRemote, AcqOwn, AcqAbort
  <2>4. CASE
             \/ UnsLock(a) \/ UnsLoad(a) \/ CreateSave(a) \/ Update(a)
             \/ DeleteLoad(a) \/ DeleteTerminate(a) \/ DeleteRemove(a)
    BY <2>4
    DEF UnsLock, UnsLoad, CreateSave, Update, DeleteLoad, DeleteTerminate, DeleteRemove
  <2>5. CASE AcqReleased(a) \/ AcqClear(a)
    BY <2>5 DEF AcqReleased, AcqClear
  <2>6. CASE AcqSave(a)
    BY <2>6 DEF AcqSave
  <2>7. CASE VerEndpoint(a)
    BY <2>7 DEF VerEndpoint, SuperviseInv
  <2>8. CASE CleanupActive(a)
    BY <2>8 DEF CleanupActive
  <2>9. CASE CleanupDisconnect(a)
    BY <2>9 DEF CleanupDisconnect, Disconnect
  <2>10. CASE UnsDisconnect(a)
    BY <2>10 DEF UnsDisconnect, Disconnect
  <2>11. CASE UnsRestore(a)
    BY <2>11 DEF UnsRestore
  <2>12. CASE DeleteConfirm(a)
    BY <2>12
    DEF DeleteConfirm, EvidenceFitsProfile, RecordInv, Listening, Evidences
  <2>13. CASE DeleteDisconnect(a)
    BY <2>13 DEF DeleteDisconnect, Disconnect
  <2> QED
    BY <1>1, <2>1, <2>2, <2>3, <2>4, <2>5, <2>6, <2>7, <2>8, <2>9, <2>10, <2>11, <2>12,
       <2>13
    DEF BeginOperation, Progress, Supervise, Acquire, ContinueOperation
<1>2. ASSUME Environment PROVE DropsOnlyReleased
  BY <1>2 DEF Environment, SshForward, WriteMarker, SessionEnd, ProcessExit,
              ForeignBind, ForeignRelease
<1>3. CASE UNCHANGED vars
  BY <1>3 DEF vars
<1> QED
  BY <1>1, <1>2, <1>3 DEF Next

\* delete gives up evidence only of a session that is gone (profile_service.py 156-181).
THEOREM ConfirmedRelease == Spec => DeleteConfirmsRelease
<1>1. BInv /\ [Next]_vars => [DropsOnlyReleased]_vars
  BY DropsOnlyReleasedStep
<1> QED
  BY <1>1, Invariance, PTL DEF Spec, DeleteConfirmsRelease

-----------------------------------------------------------------------------
(* Every running process is on record unless one is left behind *)
\* No step leaves a running process behind.
NoneLeftBehind == \A t \in Tids : proc'[t] = "alive" => ~ LeftBehind(t)

\* Such a step keeps every running process on record.
LEMMA OnRecordStep ==
    BInv /\ ProcessOnRecord /\ [Next]_vars /\ [NoneLeftBehind]_vars => ProcessOnRecord'
<1> SUFFICES ASSUME BInv, ProcessOnRecord, [Next]_vars, [NoneLeftBehind]_vars PROVE ProcessOnRecord'
  OBVIOUS
<1>1. CASE NoneLeftBehind
  BY <1>1, LosesOnlyStartedStep DEF LosesOnlyStarted, NoneLeftBehind, ProcessOnRecord
<1>2. CASE UNCHANGED vars
  BY <1>2 DEF vars, worldVars, storeVars, localVars, ProcessOnRecord, Recorded
<1> QED
  BY <1>1, <1>2

\* Every running SSH process is on record or just being started (tunnel.py
\* 142-190), whatever crashes and fails, as long as every acquire that has
\* started a process records or stops it.
THEOREM OnRecord == Spec /\ [][NoneLeftBehind]_vars => []ProcessOnRecord
<1>1. Init => ProcessOnRecord
  <2> SUFFICES ASSUME Init, NEW t \in Tids, proc[t] = "alive"
               PROVE  evidence # None /\ evidence.tid = t
    BY DEF ProcessOnRecord, Recorded
  <2>1. evidence = [tid |-> t, port |-> profile.port, remote |-> FALSE] /\ profile \in Profiles
    BY DEF Init
  <2>2. profile.port \in Ports
    BY <2>1 DEF Profiles
  <2>3. evidence \in Evidences
    BY <2>1, <2>2 DEF Evidences
  <2> QED
    BY <2>1, <2>3, BridgeConstants
<1> QED
  BY <1>1, OnRecordStep, Invariance, PTL DEF Spec

\* Then a profile never has two SSH processes (tunnel.py 115-190).
THEOREM SingleProcess == Spec /\ [][NoneLeftBehind]_vars => []OneProcess
<1>1. BInv /\ ProcessOnRecord => OneProcess
  BY BridgeConstants DEF BInv, TypeOK, AcquireInv, ProcessOnRecord, Recorded, OneProcess
<1> QED
  BY <1>1, Invariance, OnRecord, PTL

\* A stop that answers STOPPED has stopped everything (tunnel_supervisor.py
\* 268-278, runtime_manager.py 308-371), also after crashes elsewhere.
THEOREM TruthfulStop == Spec /\ [][NoneLeftBehind]_vars => []StoppedMeansStopped
<1>1. BInv /\ ProcessOnRecord => StoppedMeansStopped
  BY BridgeConstants
  DEF BInv, TypeOK, LockInv, AcquireInv, OperationInv, ProcessOnRecord, Recorded, StoppedMeansStopped
<1> QED
  BY <1>1, Invariance, OnRecord, PTL

\* Deleting a profile leaves none of its processes (profile_service.py 108-154).
THEOREM CleanDelete == Spec /\ [][NoneLeftBehind]_vars => []DeletedLeavesNoProcess
<1>1. BInv /\ ProcessOnRecord => DeletedLeavesNoProcess
  BY BridgeConstants
  DEF BInv, TypeOK, EvidenceFitsProfile, SuperviseInv, AcquireInv, ProcessOnRecord, Recorded,
      DeletedLeavesNoProcess
<1> QED
  BY <1>1, Invariance, OnRecord, PTL

\* Without faults no step leaves a running process behind: acquire stops or records
\* what it has started.
LEMMA NoFaultStep == Faults = {} /\ BInv /\ [Next]_vars => [NoneLeftBehind]_vars
<1> SUFFICES ASSUME Faults = {}, BInv, Next, NEW t \in Tids, LeftBehind(t), proc'[t] = "alive"
             PROVE  FALSE
  BY DEF NoneLeftBehind
<1>1. PICK a \in Actors : pc[a] \in CandidatePcs /\ cand[a] = t /\ pc'[a] \in {"idle", "unlock"}
  BY DEF LeftBehind
<1>2. /\ lock = a /\ (\A b \in Actors : pc[b] \in LockedPcs => b = a)
      /\ pc \in [Actors -> Pcs] /\ proc \in [Tids -> {"none", "alive", "dead"}]
  BY <1>1 DEF BInv, TypeOK, LockInv
<1>3. ~ Environment
  BY <1>1 DEF Environment, SshForward, WriteMarker, SessionEnd, ProcessExit, ForeignBind, ForeignRelease
<1>4. PICK b \in Actors :
        SupLock(b) \/ StopRequest(b) \/ BeginOperation(b) \/ Crash(b) \/ Progress(b)
  BY <1>3 DEF Next
<1>5. ~ (SupLock(b) \/ StopRequest(b) \/ Crash(b))
  BY <1>1, <1>2, BridgeConstants DEF SupLock, StopRequest, Crash
<1>6. ~ BeginOperation(b)
  BY <1>1, <1>2, BridgeConstants DEF BeginOperation, UnsBegin, CreateLock, UpdateLock, DeleteLock, TakeLock
<1>7. ~ UnsLock(b)
  BY <1>1, <1>2, BridgeConstants DEF UnsLock, TakeLock
<1>8. CASE b # a
  BY <1>2, <1>4, <1>5, <1>6, <1>7, <1>8
  DEF Progress, Supervise, Acquire, ContinueOperation, Unlock,
      LoopExited, LoopTop, InspectFailed, InspectPassed, Raise, VerListen, VerEndpoint, VerFailed,
      CleanupActive, CleanupRecorded, CleanupDisconnect, AcqLoad, AcqListen, AcqVerify, AcqTerminate,
      AcqReleased, AcqClear, AcqStart, AcqEarly, AcqIdentity, AcqRemote, AcqOwn, AcqSave, AcqAbort,
      UnsLoad, UnsDisconnect, UnsRestore, CreateSave, Update, DeleteLoad, DeleteTerminate,
      DeleteConfirm, DeleteDisconnect, DeleteRemove
<1>9. CASE b = a
  <2>1. ~ (AcqIdentity(a) \/ AcqRemote(a) \/ AcqOwn(a))
    BY <1>1, <1>2 DEF AcqIdentity, AcqRemote, AcqOwn
  <2>2. ~ AcqSave(a)
    BY <1>1, <1>2 DEF AcqSave
  <2>3. ~ AcqEarly(a)
    BY <1>1, <1>2, BridgeConstants DEF AcqEarly
  <2>4. ~ AcqAbort(a)
    BY <1>1, <1>2 DEF AcqAbort
  <2> QED
    BY <1>1, <1>4, <1>5, <1>6, <1>7, <1>9, <2>1, <2>2, <2>3, <2>4
    DEF Progress, Supervise, Acquire, ContinueOperation, Unlock,
        LoopExited, LoopTop, InspectFailed, InspectPassed, Raise, VerListen, VerEndpoint, VerFailed,
        CleanupActive, CleanupRecorded, CleanupDisconnect, AcqLoad, AcqListen, AcqVerify, AcqTerminate,
        AcqReleased, AcqClear, AcqStart,
        UnsLoad, UnsDisconnect, UnsRestore, CreateSave, Update, DeleteLoad, DeleteTerminate,
        DeleteConfirm, DeleteDisconnect, DeleteRemove
<1> QED
  BY <1>8, <1>9

\* Without faults, then, processes are on record, there is one, a stop is truthful
\* and a delete is clean (tunnel.py 115-190, tunnel_supervisor.py 268-278,
\* runtime_manager.py 308-371, profile_service.py 108-154).
THEOREM FaultFree ==
    ASSUME Faults = {}
    PROVE  Spec => [](ProcessOnRecord /\ OneProcess /\ StoppedMeansStopped /\ DeletedLeavesNoProcess)
<1>1. BInv /\ [Next]_vars => [NoneLeftBehind]_vars
  BY NoFaultStep
<1>2. Spec => [][NoneLeftBehind]_vars
  BY <1>1, Invariance, PTL DEF Spec
<1> QED
  BY <1>2, OnRecord, SingleProcess, TruthfulStop, CleanDelete, PTL

-----------------------------------------------------------------------------
(* A supervisor that was asked to stop *)

\* A step of actor b leaves the control and the stop request of the others alone.
LEMMA OthersStay ==
    ASSUME BInv, NEW b \in Actors,
           SupLock(b) \/ StopRequest(b) \/ BeginOperation(b) \/ Crash(b) \/ Progress(b),
           NEW a \in Actors, a # b
    PROVE  pc'[a] = pc[a] /\ stopReq'[a] = stopReq[a]
<1> USE DEF BInv, TypeOK
<1>1. CASE SupLock(b) \/ StopRequest(b)
  BY <1>1 DEF SupLock, StopRequest
<1>2. CASE BeginOperation(b)
  BY <1>2 DEF BeginOperation, UnsBegin, CreateLock, UpdateLock, DeleteLock, TakeLock
<1>3. CASE Crash(b) \/ Unlock(b)
  BY <1>3 DEF Crash, Unlock, ResetLocals
<1>4. CASE LoopExited(b) \/ LoopTop(b) \/ InspectFailed(b) \/ InspectPassed(b) \/ Raise(b)
  BY <1>4 DEF LoopExited, LoopTop, InspectFailed, InspectPassed, Raise
<1>5. CASE VerListen(b) \/ VerEndpoint(b) \/ VerFailed(b)
  BY <1>5 DEF VerListen, VerEndpoint, VerFailed
<1>6. CASE CleanupActive(b) \/ CleanupRecorded(b) \/ CleanupDisconnect(b)
  BY <1>6 DEF CleanupActive, CleanupRecorded, CleanupDisconnect
<1>7. CASE AcqLoad(b) \/ AcqListen(b) \/ AcqVerify(b) \/ AcqTerminate(b) \/ AcqReleased(b) \/ AcqClear(b)
  BY <1>7 DEF AcqLoad, AcqListen, AcqVerify, AcqTerminate, AcqReleased, AcqClear
<1>8. CASE AcqStart(b) \/ AcqEarly(b) \/ AcqIdentity(b) \/ AcqRemote(b) \/ AcqOwn(b) \/ AcqSave(b) \/ AcqAbort(b)
  BY <1>8 DEF AcqStart, AcqEarly, AcqIdentity, AcqRemote, AcqOwn, AcqSave, AcqAbort
<1>9. CASE UnsLock(b) \/ UnsLoad(b) \/ UnsDisconnect(b) \/ UnsRestore(b) \/ CreateSave(b) \/ Update(b)
  BY <1>9 DEF UnsLock, UnsLoad, UnsDisconnect, UnsRestore, CreateSave, Update, TakeLock
<1>10. CASE DeleteLoad(b) \/ DeleteTerminate(b) \/ DeleteConfirm(b) \/ DeleteDisconnect(b) \/ DeleteRemove(b)
  BY <1>10 DEF DeleteLoad, DeleteTerminate, DeleteConfirm, DeleteDisconnect, DeleteRemove
<1> QED
  BY <1>1, <1>2, <1>3, <1>4, <1>5, <1>6, <1>7, <1>8, <1>9, <1>10
  DEF Progress, Supervise, Acquire, ContinueOperation

\* Its own steps bring it closer to its end.
LEMMA StopDescent ==
    ASSUME BInv, NEW a \in Actors, stopReq[a], Supervise(a)
    PROVE  StepsLeft(pc'[a]) < StepsLeft(pc[a]) /\ stopReq'[a]
<1> USE DEF BInv, TypeOK, StepsLeft
<1>1. CASE LoopExited(a) \/ LoopTop(a)
  BY <1>1 DEF LoopExited, LoopTop
<1>2. CASE InspectFailed(a) \/ InspectPassed(a)
  BY <1>2 DEF InspectFailed, InspectPassed
<1>3. CASE Raise(a)
  BY <1>3 DEF Raise
<1>4. CASE VerListen(a) \/ VerEndpoint(a) \/ VerFailed(a)
  BY <1>4 DEF VerListen, VerEndpoint, VerFailed
<1>5. CASE CleanupActive(a) \/ CleanupRecorded(a) \/ CleanupDisconnect(a)
  BY <1>5 DEF CleanupActive, CleanupRecorded, CleanupDisconnect
<1>6. CASE AcqLoad(a)
  BY <1>6 DEF AcqLoad
<1>7. CASE AcqListen(a) \/ AcqVerify(a)
  BY <1>7 DEF AcqListen, AcqVerify
<1>8. CASE AcqTerminate(a) \/ AcqReleased(a) \/ AcqClear(a)
  BY <1>8 DEF AcqTerminate, AcqReleased, AcqClear
<1>9. CASE AcqStart(a) \/ AcqEarly(a)
  BY <1>9 DEF AcqStart, AcqEarly
<1>10. CASE AcqIdentity(a) \/ AcqRemote(a) \/ AcqOwn(a)
  BY <1>10 DEF AcqIdentity, AcqRemote, AcqOwn
<1>11. CASE AcqSave(a) \/ AcqAbort(a)
  BY <1>11 DEF AcqSave, AcqAbort
<1> QED
  BY <1>1, <1>2, <1>3, <1>4, <1>5, <1>6, <1>7, <1>8, <1>9, <1>10, <1>11 DEF Supervise, Acquire

\* Whatever fails around it, a supervisor that was asked to stop takes at most
\* StepsLeft more steps, wherever the request finds it: it does not go round its
\* loop again, and nobody else moves it or takes the request back
\* (tunnel_supervisor.py 90-246).
THEOREM StopsSoon == Spec => [][StopDescends]_vars
<1>1. ASSUME BInv, Next PROVE StopDescends
  <2> SUFFICES ASSUME NEW a \in Actors, stopReq[a], pc[a] \in SupervisePcs
               PROVE  /\ Supervise(a) => pc'[a] # pc[a]
                      /\ pc'[a] # pc[a] => StepsLeft(pc'[a]) < StepsLeft(pc[a])
                      /\ stopReq'[a] \/ pc'[a] = "idle"
    BY DEF StopDescends
  <2>1. StepsLeft(pc[a]) \in Nat /\ StepsLeft(pc[a]) > 0 /\ StepsLeft("idle") = 0
    BY DEF StepsLeft
  <2>2. Supervise(a) => pc'[a] # pc[a] /\ stopReq'[a] /\ StepsLeft(pc'[a]) < StepsLeft(pc[a])
    BY <1>1, <2>1, StopDescent
  <2>3. CASE Environment
    BY <2>2, <2>3
    DEF Environment, SshForward, WriteMarker, SessionEnd, ProcessExit, ForeignBind, ForeignRelease
  <2>4. ASSUME NEW b \in Actors,
               SupLock(b) \/ StopRequest(b) \/ BeginOperation(b) \/ Crash(b) \/ Progress(b)
        PROVE  (pc'[a] = pc[a] /\ stopReq'[a]) \/ pc'[a] = "idle" \/ Supervise(a)
    <3>1. CASE a # b
      BY <1>1, <2>4, <3>1, OthersStay
    <3>2. CASE a = b /\ (SupLock(b) \/ StopRequest(b) \/ BeginOperation(b) \/ Unlock(b))
      BY <3>2 DEF SupLock, StopRequest, BeginOperation, UnsBegin, CreateLock, UpdateLock, DeleteLock, Unlock
    <3>3. CASE a = b /\ Crash(b)
      BY <1>1, <3>3 DEF Crash, ResetLocals, BInv, TypeOK
    <3>4. CASE a = b /\ ContinueOperation(b)
      BY <3>4
      DEF ContinueOperation, UnsLock, UnsLoad, UnsDisconnect, UnsRestore, CreateSave, Update,
          DeleteLoad, DeleteTerminate, DeleteConfirm, DeleteDisconnect, DeleteRemove
    <3> QED
      BY <2>4, <3>1, <3>2, <3>3, <3>4 DEF Progress
  <2> QED
    BY <1>1, <2>1, <2>2, <2>3, <2>4 DEF Next
<1>2. BInv /\ [Next]_vars => [StopDescends]_vars
  BY <1>1
<1> QED
  BY <1>2, Invariance, PTL DEF Spec

-----------------------------------------------------------------------------
(* Bridge implements ProfileFiles *)

\* Taking a free lock, with nothing else touched.
LEMMA TakesLock ==
    ASSUME BInv, NEW a \in Actors, lock = None, lock' = a,
           pc' \in [Actors -> Pcs], pub'[a] # "STOPPED",
           UNCHANGED <<worldVars, profile, evidence>>
    PROVE  Files!Next
<1>1. a # None
  BY BridgeConstants
<1>2. HolderPhase' \in {"working", "over"}
  BY <1>1 DEF HolderPhase
<1>3. EvidenceKind' = EvidenceKind
  BY DEF EvidenceKind
<1>4. Files!Take(a)
  BY <1>2, <1>3 DEF Files!Take
<1> QED
  BY <1>4 DEF Files!Next

\* A step of the holder before its answer is a step of the contract, as long as
\* it removes the profile only without evidence; BInv' has the rest.
LEMMA HolderWorks ==
    ASSUME BInv, BInv', NEW a \in Actors, pc[a] \in LockedPcs \ {"unlock"}, lock' = lock,
           profile # None /\ profile' = None => evidence = None
    PROVE  Files!Next
<1>1. lock = a /\ lock' = a /\ a # None
  BY BridgeConstants DEF BInv, LockInv
<1>2. HolderPhase = "working" /\ HolderPhase' \in {"working", "stopped", "over"}
  BY <1>1 DEF HolderPhase
<1>3. EvidenceKind' \in {"none", "live", "stale"}
  BY DEF EvidenceKind
<1>4. EvidenceKind' # "none" => profile' # None
  BY DEF BInv, EvidenceFitsProfile, EvidenceKind
<1>5. HolderPhase' = "stopped" => EvidenceKind' = "none"
  BY <1>1 DEF HolderPhase, BInv, OperationInv, EvidenceKind
<1>6. profile # None /\ profile' = None => EvidenceKind = "none"
  BY DEF EvidenceKind
<1>7. Files!Work
  BY <1>1, <1>2, <1>3, <1>4, <1>5, <1>6 DEF Files!Work, Files!Kinds
<1> QED
  BY <1>7 DEF Files!Next

\* A step of someone who does not hold the lock, with the files untouched.
LEMMA BystanderStutters ==
    ASSUME BInv, NEW a \in Actors, pc[a] \notin LockedPcs, lock' = lock,
           UNCHANGED <<worldVars, profile, evidence, pub>>,
           NEW l \in Pcs, pc' = [pc EXCEPT ![a] = l]
    PROVE  UNCHANGED Files!vars
<1>1. lock # a
  BY DEF BInv, LockInv
<1>2. UNCHANGED HolderPhase
  BY <1>1 DEF HolderPhase, BInv, TypeOK
<1>3. UNCHANGED EvidenceKind
  BY DEF EvidenceKind
<1> QED
  BY <1>2, <1>3 DEF Files!vars

\* Every step of the operations, the crashes and the world around them is a step
\* of the contract or leaves its variables alone.
LEMMA FilesStep == BInv /\ BInv' /\ [Next]_vars => [Files!Next]_(Files!vars)
<1> SUFFICES ASSUME BInv, BInv', [Next]_vars PROVE Files!Next \/ UNCHANGED Files!vars
  OBVIOUS
<1>1. ASSUME NEW a \in Actors,
             SupLock(a) \/ StopRequest(a) \/ BeginOperation(a) \/ Crash(a) \/ Progress(a)
      PROVE  Files!Next \/ UNCHANGED Files!vars
  <2>1. CASE SupLock(a)
    <3>1. pub'[a] # "STOPPED" /\ pc' \in [Actors -> Pcs]
      BY <2>1 DEF SupLock, BInv, TypeOK
    <3> QED
      BY <2>1, <3>1, TakesLock DEF SupLock
  <2>2. CASE CreateLock(a) \/ UpdateLock(a) \/ DeleteLock(a) \/ (UnsLock(a) /\ lock = None)
    <3>1. pub[a] # "STOPPED"
      BY <2>2 DEF CreateLock, UpdateLock, DeleteLock, UnsLock, BInv, OperationInv
    <3>2. pc' \in [Actors -> Pcs]
      BY DEF BInv, TypeOK
    <3> QED
      BY <2>2, <3>1, <3>2, TakesLock DEF CreateLock, UpdateLock, DeleteLock, UnsLock
  <2>3. CASE StopRequest(a)
    BY <2>3 DEF StopRequest, Files!vars, HolderPhase, EvidenceKind
  <2>4. CASE UnsBegin(a)
    BY <2>4, BystanderStutters DEF UnsBegin, Pcs
  <2>5. CASE UnsLock(a) /\ lock # None
    BY <2>5, BystanderStutters DEF UnsLock, Pcs
  <2>6. CASE Crash(a) \/ Unlock(a)
    <3>1. lock = a /\ lock' = None /\ a # None
      BY <2>6, BridgeConstants DEF Crash, Unlock, BInv, LockInv
    <3>2. UNCHANGED <<profile, evidence, EvidenceKind>>
      BY <2>6 DEF Crash, Unlock, EvidenceKind
    <3>3. Files!Give
      BY <3>1, <3>2 DEF Files!Give, HolderPhase
    <3> QED
      BY <3>3 DEF Files!Next
  <2>7. CASE Supervise(a)
    <3>1. pc[a] \in LockedPcs \ {"unlock"} /\ lock' = lock /\ profile' = profile
      <4>1. CASE Acquire(a)
        BY <4>1 DEF Acquire, AcqLoad, AcqListen, AcqVerify, AcqTerminate, AcqReleased,
                    AcqClear, AcqStart, AcqEarly, AcqIdentity, AcqRemote, AcqOwn, AcqSave,
                    AcqAbort
      <4>2. CASE ~ Acquire(a)
        BY <2>7, <4>2 DEF Supervise, LoopExited, LoopTop, InspectFailed, InspectPassed,
                    Raise, VerListen, VerEndpoint, VerFailed, CleanupActive,
                    CleanupRecorded, CleanupDisconnect
      <4> QED
        BY <4>1, <4>2
    <3> QED
      BY <3>1, HolderWorks
  <2>8. CASE ContinueOperation(a) /\ ~ UnsLock(a)
    <3>1. /\ pc[a] \in LockedPcs \ {"unlock"} /\ lock' = lock
          /\ profile # None /\ profile' = None => evidence = None
      BY <2>8, BridgeConstants
      DEF ContinueOperation, UnsLoad, UnsDisconnect, UnsRestore, CreateSave, Update,
          DeleteLoad, DeleteTerminate, DeleteConfirm, DeleteDisconnect, DeleteRemove
    <3> QED
      BY <3>1, HolderWorks
  <2> QED
    BY <1>1, <2>1, <2>2, <2>3, <2>4, <2>5, <2>6, <2>7, <2>8
    DEF BeginOperation, Progress, ContinueOperation
<1>2. ASSUME NEW t \in Tids, SshForward(t) \/ ProcessExit(t)
      PROVE  Files!Next \/ UNCHANGED Files!vars
  <2>1. UNCHANGED <<storeVars, localVars>> /\ proc[t] = "alive" /\ (Kill(t) \/ UNCHANGED proc)
    BY <1>2 DEF SshForward, ProcessExit
  <2>2. UNCHANGED HolderPhase
    BY <2>1 DEF HolderPhase
  <2>3. CASE UNCHANGED EvidenceKind
    BY <2>1, <2>2, <2>3 DEF Files!vars
  <2>4. CASE EvidenceKind' # EvidenceKind
    <3>1. EvidenceKind = "live" /\ EvidenceKind' = "stale"
      BY <2>1, <2>4 DEF EvidenceKind, BInv, TypeOK, Evidences
    <3> QED
      BY <2>1, <2>2, <3>1 DEF Files!Exit, Files!Next
  <2> QED
    BY <2>3, <2>4
<1>3. ASSUME Environment PROVE Files!Next \/ UNCHANGED Files!vars
  <2>1. CASE \E t \in Tids : SshForward(t) \/ ProcessExit(t)
    BY <2>1, <1>2
  <2>2. CASE UNCHANGED <<proc, storeVars, localVars>>
    BY <2>2 DEF Files!vars, HolderPhase, EvidenceKind
  <2> QED
    BY <1>3, <2>1, <2>2 DEF Environment, WriteMarker, SessionEnd, ForeignBind, ForeignRelease
<1>4. CASE UNCHANGED vars
  BY <1>4 DEF vars, Files!vars, HolderPhase, EvidenceKind
<1> QED
  BY <1>1, <1>3, <1>4 DEF Next

\* Supervisors, stops, profile operations and crashes keep to the contract of the
\* profile's files (profile_store.py 87-107): the lock holder alone changes them,
\* evidence never outlives the profile, and STOPPED leaves none.
THEOREM FilesRefinement == Spec => ImplementsProfileFiles
<1>1. Init => Files!Init
  <2> SUFFICES ASSUME Init PROVE Files!Init
    OBVIOUS
  <2>1. profile # None /\ lock = None
    BY BridgeConstants DEF Init
  <2> QED
    BY <2>1 DEF Files!Init, Files!Kinds, HolderPhase, EvidenceKind
<1>2. BInv /\ BInv' /\ [Next]_vars => [Files!Next]_(Files!vars)
  BY FilesStep
<1> QED
  BY <1>1, <1>2, Invariance, PTL DEF Spec, ImplementsProfileFiles, Files!Spec
=============================================================================
