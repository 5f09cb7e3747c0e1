------------------------- MODULE ProfileOperations -------------------------
(***************************************************************************)
(* The other operations that run under the profile lock:                   *)
(* ProfileService.create, update and delete (app/services/                 *)
(* profile_service.py) and RuntimeManager._stop_unsupervised               *)
(* (app/services/runtime_manager.py).  An operation that finds the lock    *)
(* taken reports PROFILE_BUSY and changes nothing.                         *)
(***************************************************************************)
EXTENDS TunnelManager

\* Leave the locked block with an error or a plain return.
Leave(a) == Goto(a, "unlock")

localsButPc == <<prof, active, handle, cand, seen, stopReq, after, pub>>

-----------------------------------------------------------------------------
(* _stop_unsupervised *)

\* profiles.get comes before the lock.
UnsBegin(a) ==
    /\ pc[a] = "idle" /\ profile # None
    /\ Goto(a, "unsLock")
    /\ UNCHANGED <<worldVars, storeVars, localsButPc>>

UnsLock(a) ==
    /\ pc[a] = "unsLock"
    /\ \/ TakeLock(a, "unsLoad")
       \/ lock # None /\ Goto(a, "idle") /\ UNCHANGED lock
    /\ UNCHANGED <<worldVars, profile, evidence, localsButPc>>

UnsLoad(a) ==
    /\ pc[a] = "unsLoad"
    /\ seen' = [seen EXCEPT ![a] = evidence]
    /\ \/ evidence = None /\ Finish(a, "STOPPED")
       \/ evidence # None /\ ~ Matches(evidence) /\ Finish(a, "FAILED")
       \/ Matches(evidence) /\ Goto(a, "unsDisc") /\ UNCHANGED pub
    /\ UNCHANGED <<worldVars, storeVars, prof, active, handle, cand, stopReq, after>>

\* Mutant: a timeout counts as a stop.
UnsDisconnectHopeful(a) ==
    /\ pc[a] = "unsDisc"
    /\ \E answer \in {"pass", "mismatch", "timeout"} :
         /\ Disconnect(answer)
         /\ IF answer = "mismatch" THEN Goto(a, "unsRestore") /\ UNCHANGED pub
                                   ELSE Finish(a, "STOPPED")
    /\ UNCHANGED <<tport, sess, marker, foreign, profile, lock, prof, active, handle, cand, seen, stopReq, after>>

\* disconnect; evidence it dropped without stopping a process is put back.
UnsDisconnect(a) ==
    /\ pc[a] = "unsDisc"
    /\ \E answer \in {"pass", "mismatch", "timeout"} :
         /\ Disconnect(answer)
         /\ IF answer = "mismatch"
              THEN Goto(a, "unsRestore") /\ UNCHANGED pub
              ELSE Finish(a, IF answer = "pass" THEN "STOPPED" ELSE "FAILED")
    /\ UNCHANGED <<tport, sess, marker, foreign, profile, lock, prof, active, handle, cand, seen, stopReq, after>>

UnsRestore(a) ==
    /\ pc[a] = "unsRestore"
    /\ evidence' = seen[a]
    /\ Finish(a, "FAILED")
    /\ UNCHANGED <<worldVars, profile, lock, prof, active, handle, cand, seen, stopReq, after>>

-----------------------------------------------------------------------------
(* create and update *)

CreateLock(a) ==
    /\ pc[a] = "idle" /\ TakeLock(a, "creSave")
    /\ UNCHANGED <<worldVars, profile, evidence, localsButPc>>

\* save_profile refuses to overwrite.
CreateSave(a) ==
    /\ pc[a] = "creSave"
    /\ IF profile = None THEN \E q \in Profiles : profile' = q ELSE UNCHANGED profile
    /\ Leave(a)
    /\ UNCHANGED <<worldVars, evidence, lock, localsButPc>>

\* Mutant: the update does not take the profile lock.
UpdateUnlocked(a) ==
    /\ pc[a] = "idle" /\ Goto(a, "updLoad")
    /\ UNCHANGED <<worldVars, storeVars, localsButPc>>

UpdateLock(a) ==
    /\ pc[a] = "idle" /\ TakeLock(a, "updLoad")
    /\ UNCHANGED <<worldVars, profile, evidence, localsButPc>>

\* Mutant: a profile with runtime evidence is updated too.
UpdateAlways(a) ==
    /\ pc[a] = "updLoad"
    /\ IF profile # None THEN \E q \in Profiles : profile' = q ELSE UNCHANGED profile
    /\ Leave(a)
    /\ UNCHANGED <<worldVars, evidence, lock, localsButPc>>

\* PROFILE_RUNTIME_ACTIVE unless there is no evidence.
Update(a) ==
    /\ pc[a] = "updLoad"
    /\ IF profile # None /\ evidence = None THEN \E q \in Profiles : profile' = q
                                            ELSE UNCHANGED profile
    /\ Leave(a)
    /\ UNCHANGED <<worldVars, evidence, lock, localsButPc>>

-----------------------------------------------------------------------------
(* delete *)

\* Mutant: delete does not take the profile lock.
DeleteUnlocked(a) ==
    /\ pc[a] = "idle" /\ Goto(a, "delLoad")
    /\ UNCHANGED <<worldVars, storeVars, localsButPc>>

DeleteLock(a) ==
    /\ pc[a] = "idle" /\ TakeLock(a, "delLoad")
    /\ UNCHANGED <<worldVars, profile, evidence, localsButPc>>

\* Evidence with a remote identity is given up only after a confirmed release;
\* evidence without one goes through disconnect.
DeleteLoad(a) ==
    /\ pc[a] = "delLoad"
    /\ \/ (profile = None \/ Managed) /\ Leave(a)
       \/ /\ profile # None /\ ~ Managed
          /\ \/ evidence = None /\ Goto(a, "delRemove")
             \/ /\ evidence # None /\ evidence.remote
                /\ Goto(a, IF Matches(evidence) THEN "delTerm" ELSE "unlock")
             \/ evidence # None /\ ~ evidence.remote /\ Goto(a, "delDisc")
    /\ UNCHANGED <<worldVars, storeVars, localsButPc>>

\* terminate_owned answers True only for a process it saw running and saw go.
DeleteTerminate(a) ==
    /\ pc[a] = "delTerm"
    /\ \/ Leave(a) /\ UNCHANGED proc
       \/ Matches(evidence) /\ Kill(evidence.tid) /\ Goto(a, "delConfirm")
    /\ UNCHANGED <<tport, sess, marker, foreign, storeVars, localsButPc>>

\* Mutant: a remote check that fails counts as a released listener.
DeleteConfirmBlind(a) ==
    /\ pc[a] = "delConfirm"
    /\ evidence' = None /\ Goto(a, "delRemove")
    /\ UNCHANGED <<worldVars, profile, lock, localsButPc>>

\* Anything but LISTENER_ABSENT leaves the evidence and the profile alone.
DeleteConfirm(a) ==
    /\ pc[a] = "delConfirm"
    /\ \/ Leave(a) /\ UNCHANGED evidence
       \/ ~ Listening(profile.port) /\ evidence' = None /\ Goto(a, "delRemove")
    /\ UNCHANGED <<worldVars, profile, lock, localsButPc>>

\* Mutant: every failed disconnect is treated as a mismatch.
DeleteDisconnectAny(a) ==
    /\ pc[a] = "delDisc"
    /\ \/ Matches(evidence) /\ Kill(evidence.tid)
       \/ UNCHANGED proc
    /\ evidence' = None /\ Goto(a, "delRemove")
    /\ UNCHANGED <<tport, sess, marker, foreign, profile, lock, localsButPc>>

DeleteDisconnect(a) ==
    /\ pc[a] = "delDisc"
    /\ \E answer \in {"pass", "mismatch", "timeout"} :
         Disconnect(answer) /\ Goto(a, IF answer = "timeout" THEN "unlock" ELSE "delRemove")
    /\ UNCHANGED <<tport, sess, marker, foreign, profile, lock, localsButPc>>

\* PROFILE_DELETE_RUNTIME_REMAINS if evidence is still there.
DeleteRemove(a) ==
    /\ pc[a] = "delRemove"
    /\ IF evidence = None THEN profile' = None ELSE UNCHANGED profile
    /\ Leave(a)
    /\ UNCHANGED <<worldVars, evidence, lock, localsButPc>>

-----------------------------------------------------------------------------
\* Operations an idle actor may begin
BeginOperation(a) == UnsBegin(a) \/ CreateLock(a) \/ UpdateLock(a) \/ DeleteLock(a)

\* and the steps that bring them to their end
ContinueOperation(a) ==
    \/ UnsLock(a) \/ UnsLoad(a) \/ UnsDisconnect(a) \/ UnsRestore(a)
    \/ CreateSave(a) \/ Update(a)
    \/ DeleteLoad(a) \/ DeleteTerminate(a) \/ DeleteConfirm(a) \/ DeleteDisconnect(a) \/ DeleteRemove(a)
=============================================================================
