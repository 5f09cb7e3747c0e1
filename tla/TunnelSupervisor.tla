-------------------------- MODULE TunnelSupervisor --------------------------
(***************************************************************************)
(* TunnelSupervisor.run, app/services/tunnel_supervisor.py.  A wait on the *)
(* stop event and the test at the top of the loop that follows it are one  *)
(* test here; delays and the attempt counter are not modelled.             *)
(***************************************************************************)
EXTENDS TunnelManager

\* supervisor_lock and load_profile; a busy lock changes nothing.
SupLock(a) ==
    /\ pc[a] = "idle"
    /\ lock = None /\ lock' = a
    /\ prof' = [prof EXCEPT ![a] = profile]
    /\ IF profile = None THEN Finish(a, "FAILED") ELSE Publish(a, "STARTING") /\ Goto(a, "loop")
    /\ UNCHANGED <<worldVars, profile, evidence, active, handle, cand, seen, stopReq, after>>

\* RuntimeManager.stop, or Ctrl+C in the foreground, sets the stop event.
StopRequest(a) ==
    /\ pc[a] \in SupervisePcs /\ ~ stopReq[a]
    /\ stopReq' = [stopReq EXCEPT ![a] = TRUE]
    /\ UNCHANGED <<worldVars, storeVars, pc, prof, active, handle, cand, seen, after, pub>>

\* Clean up, then publish s.
CleanupThen(a, s) == Goto(a, "cleanup") /\ after' = [after EXCEPT ![a] = s]

\* _stop
BeginStop(a) == Publish(a, "STOPPING") /\ CleanupThen(a, "STOPPED")

\* The supervised process has exited: its evidence stays.
LoopExited(a) ==
    /\ pc[a] = "loop" /\ ~ stopReq[a]
    /\ active[a] # None /\ ~ Matches(active[a])
    /\ active' = [active EXCEPT ![a] = None]
    /\ handle' = [handle EXCEPT ![a] = FALSE]
    /\ IF prof[a].auto THEN Publish(a, "DEGRADED") /\ UNCHANGED pc ELSE Finish(a, "FAILED")
    /\ UNCHANGED <<worldVars, storeVars, prof, cand, seen, stopReq, after>>

\* Mutant: the stop event is not looked at while a tunnel is supervised.
LoopTopDeaf(a) ==
    /\ pc[a] = "loop"
    /\ \/ stopReq[a] /\ active[a] = None /\ BeginStop(a)
       \/ /\ (active[a] = None /\ ~ stopReq[a]) \/ Matches(active[a])
          /\ Goto(a, "inspect") /\ UNCHANGED <<after, pub>>
    /\ UNCHANGED <<worldVars, storeVars, prof, active, handle, cand, seen, stopReq>>

LoopTop(a) ==
    /\ pc[a] = "loop"
    /\ \/ stopReq[a] /\ BeginStop(a)
       \/ /\ ~ stopReq[a] /\ (active[a] = None \/ Matches(active[a]))
          /\ Goto(a, "inspect") /\ UNCHANGED <<after, pub>>
    /\ UNCHANGED <<worldVars, storeVars, prof, active, handle, cand, seen, stopReq>>

\* A failure that ends supervision: an active tunnel is cleaned up first.
GiveUp(a) ==
    IF active[a] # None THEN CleanupThen(a, "FAILED") /\ UNCHANGED pub
                        ELSE Finish(a, "FAILED") /\ UNCHANGED after

\* local_proxy.inspect and the decision on its report
InspectFailed(a) ==
    /\ pc[a] = "inspect"
    /\ IF prof[a].auto THEN Publish(a, "DEGRADED") /\ Goto(a, "loop") /\ UNCHANGED after
                       ELSE GiveUp(a)
    /\ UNCHANGED <<worldVars, storeVars, prof, active, handle, cand, seen, stopReq>>

InspectPassed(a) ==
    /\ pc[a] = "inspect"
    /\ IF stopReq[a] THEN BeginStop(a)
       ELSE /\ UNCHANGED after
            /\ IF active[a] = None THEN Publish(a, "CONNECTING") /\ Goto(a, "acqLoad")
                                   ELSE UNCHANGED pub /\ Goto(a, "verListen")
    /\ UNCHANGED <<worldVars, storeVars, prof, active, handle, cand, seen, stopReq>>

\* verify failed: keep a live process, let go of a dead one.
VerFailed(a) ==
    /\ pc[a] = "verFailed"
    /\ active' = [active EXCEPT ![a] = IF Matches(active[a]) THEN active[a] ELSE None]
    /\ handle' = [handle EXCEPT ![a] = handle[a] /\ Matches(active[a])]
    /\ IF prof[a].auto THEN Publish(a, "DEGRADED") /\ Goto(a, "loop") /\ UNCHANGED after
                       ELSE CleanupThen(a, "FAILED") /\ UNCHANGED pub
    /\ UNCHANGED <<worldVars, storeVars, prof, cand, seen, stopReq>>

\* An unexpected exception out of a check or a file operation
Raise(a) ==
    /\ pc[a] \in {"inspect", "acqLoad", "acqReleased", "acqClear", "verListen", "verEndpoint"}
    /\ GiveUp(a)
    /\ UNCHANGED <<worldVars, storeVars, prof, active, handle, cand, seen, stopReq>>

-----------------------------------------------------------------------------
(* _cleanup_active *)

\* Mutant: the evidence goes even if the process did not stop in time.
CleanupActiveClears(a) ==
    /\ pc[a] = "cleanup" /\ active[a] # None
    /\ \/ ~ Matches(active[a]) /\ Finish(a, "FAILED") /\ UNCHANGED <<proc, evidence>>
       \/ Matches(active[a]) /\ Kill(active[a].tid) /\ evidence' = None /\ Finish(a, after[a])
       \/ Matches(active[a]) /\ evidence' = None /\ Finish(a, "FAILED") /\ UNCHANGED proc
    /\ UNCHANGED <<tport, sess, marker, foreign, profile, lock, prof, active, handle, cand, seen, stopReq, after>>

\* With a tunnel in hand: the process must still match; stop it, then drop the
\* evidence.  Without its ManagedProcess a process may outlive the timeout;
\* with it, only one that survives a kill does; the exception that follows leads
\* to a second cleanup (the except branch of _run_locked), which may find the
\* process gone, stop it after all, or fail as the first did.  The answer is
\* FAILED then.
CleanupActive(a) ==
    /\ pc[a] = "cleanup" /\ active[a] # None
    /\ \/ ~ Matches(active[a]) /\ Finish(a, "FAILED") /\ UNCHANGED <<proc, evidence>>
       \/ Matches(active[a]) /\ Kill(active[a].tid) /\ evidence' = None /\ Finish(a, after[a])
       \/ /\ Matches(active[a]) /\ handle[a] /\ "wedge" \in Faults
          /\ Kill(active[a].tid) /\ evidence' = None /\ Finish(a, "FAILED")
       \/ /\ Matches(active[a]) /\ (~ handle[a] \/ "wedge" \in Faults)
          /\ Finish(a, "FAILED") /\ UNCHANGED <<proc, evidence>>
    /\ UNCHANGED <<tport, sess, marker, foreign, profile, lock, prof, active, handle, cand, seen, stopReq, after>>

\* Without one: only evidence that matches a running process is acted on.  When
\* load_runtime raises there is no second cleanup.
CleanupRecorded(a) ==
    /\ pc[a] = "cleanup" /\ active[a] = None
    /\ \/ evidence = None /\ Finish(a, after[a])
       \/ Finish(a, "FAILED")
       \/ Matches(evidence) /\ Goto(a, "cleanDisc") /\ UNCHANGED pub
    /\ UNCHANGED <<worldVars, storeVars, prof, active, handle, cand, seen, stopReq, after>>

CleanupDisconnect(a) ==
    /\ pc[a] = "cleanDisc"
    /\ \E answer \in {"pass", "mismatch", "timeout"} :
         Disconnect(answer) /\ Finish(a, IF answer = "pass" THEN after[a] ELSE "FAILED")
    /\ UNCHANGED <<tport, sess, marker, foreign, profile, lock, prof, active, handle, cand, seen, stopReq, after>>

\* The steps of the thread that runs the supervisor
Supervise(a) ==
    \/ LoopExited(a) \/ LoopTop(a) \/ InspectFailed(a) \/ InspectPassed(a) \/ Raise(a)
    \/ Acquire(a) \/ VerListen(a) \/ VerEndpoint(a) \/ VerFailed(a)
    \/ CleanupActive(a) \/ CleanupRecorded(a) \/ CleanupDisconnect(a)
=============================================================================
