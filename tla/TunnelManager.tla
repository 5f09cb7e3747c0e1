--------------------------- MODULE TunnelManager ---------------------------
(***************************************************************************)
(* TunnelManager.acquire, verify and disconnect, app/services/tunnel.py,   *)
(* one action per remote command, process call or file write.  A remote    *)
(* command may always fail or time out, so every check has a failing       *)
(* outcome whatever the state of the world.                                *)
(***************************************************************************)
EXTENDS BridgeState

\* What a supervisor does with the outcomes of acquire (tunnel_supervisor.py
\* 158-186): a conflict is final, any other TunnelError is retried when the
\* profile reconnects automatically, an unexpected exception is final.
AcquireConflict(a) == Finish(a, "CONFLICT") /\ UNCHANGED cand

AcquireError(a) ==
    /\ cand' = [cand EXCEPT ![a] = None]
    /\ IF prof[a].auto THEN Publish(a, "DEGRADED") /\ Goto(a, "loop") ELSE Finish(a, "FAILED")

-----------------------------------------------------------------------------
(* acquire *)

\* Mutant: recorded processes are not reused.
AcqLoadNoReuse(a) ==
    /\ pc[a] = "acqLoad"
    /\ seen' = [seen EXCEPT ![a] = evidence]
    /\ Goto(a, "acqListen")
    /\ UNCHANGED <<worldVars, storeVars, prof, active, handle, cand, stopReq, after, pub>>

\* Reuse the recorded process if it still runs; the ActiveTunnel then has no
\* ManagedProcess.  stop_event is looked at before verify (line 188).
AcqLoad(a) ==
    /\ pc[a] = "acqLoad"
    /\ seen' = [seen EXCEPT ![a] = evidence]
    /\ IF evidence # None /\ evidence.port = prof[a].port /\ Matches(evidence)
         THEN /\ active' = [active EXCEPT ![a] = evidence]
              /\ handle' = [handle EXCEPT ![a] = FALSE]
              /\ Goto(a, IF stopReq[a] THEN "loop" ELSE "verListen")
         ELSE Goto(a, "acqListen") /\ UNCHANGED <<active, handle>>
    /\ UNCHANGED <<worldVars, storeVars, prof, cand, stopReq, after, pub>>

\* An occupied port is looked into only with evidence for it.
AcqListen(a) ==
    /\ pc[a] = "acqListen"
    /\ \/ AcquireError(a)
       \/ /\ ~ Listening(prof[a].port)
          /\ Goto(a, "acqClear") /\ UNCHANGED <<cand, pub>>
       \/ /\ Listening(prof[a].port)
          /\ IF seen[a] # None /\ seen[a].port = prof[a].port
               THEN Goto(a, "acqVerify") /\ UNCHANGED <<cand, pub>>
               ELSE AcquireConflict(a)
    /\ UNCHANGED <<worldVars, storeVars, prof, active, handle, seen, stopReq, after>>

\* verify_stale_session_ownership; failing it, for whatever reason, is a conflict.
AcqVerify(a) ==
    /\ pc[a] = "acqVerify"
    /\ \/ AcquireConflict(a)
       \/ Verifiable(seen[a]) /\ Goto(a, "acqTerminate") /\ UNCHANGED <<cand, pub>>
    /\ UNCHANGED <<worldVars, storeVars, prof, active, handle, seen, stopReq, after>>

\* The terminating script checks again and signals the session.  It reports
\* CLEANED once the port is free; its answer may be lost.
AcqTerminate(a) ==
    /\ pc[a] = "acqTerminate"
    /\ \/ AcquireConflict(a) /\ UNCHANGED <<sess, marker>>
       \/ /\ Verifiable(seen[a])
          /\ sess' = [sess EXCEPT ![seen[a].tid] = "gone"]
          /\ marker' = marker \ {seen[a].tid}
          /\ \/ Goto(a, "acqReleased") /\ UNCHANGED <<cand, pub>>
             \/ AcquireConflict(a)
    /\ UNCHANGED <<proc, tport, foreign, storeVars, prof, active, handle, seen, stopReq, after>>

AcqReleased(a) ==
    /\ pc[a] = "acqReleased"
    /\ \/ AcquireConflict(a) /\ UNCHANGED evidence
       \/ /\ ~ Listening(prof[a].port)
          /\ evidence' = None
          /\ Goto(a, "acqClear") /\ UNCHANGED <<cand, pub>>
    /\ UNCHANGED <<worldVars, profile, lock, prof, active, handle, seen, stopReq, after>>

\* The port is free: the old evidence is dropped before the new process starts.
AcqClear(a) ==
    /\ pc[a] = "acqClear"
    /\ evidence' = None
    /\ Goto(a, "acqStart")
    /\ UNCHANGED <<worldVars, profile, lock, prof, active, handle, cand, seen, stopReq, after, pub>>

\* start_managed, with a fresh tunnel id
AcqStart(a) ==
    /\ pc[a] = "acqStart"
    /\ \/ AcquireError(a) /\ UNCHANGED <<proc, tport>>
       \/ \E t \in Tids :
            /\ proc[t] = "none"
            /\ proc' = [proc EXCEPT ![t] = "alive"]
            /\ tport' = [tport EXCEPT ![t] = prof[a].port]
            /\ cand' = [cand EXCEPT ![a] = t]
            /\ Goto(a, "acqEarly") /\ UNCHANGED pub
    /\ UNCHANGED <<sess, marker, foreign, storeVars, prof, active, handle, seen, stopReq, after>>

\* wait_for_start: a process that has already exited is an error.
AcqEarly(a) ==
    /\ pc[a] = "acqEarly"
    /\ \/ ~ Alive(cand[a]) /\ AcquireError(a)
       \/ Alive(cand[a]) /\ Goto(a, "acqIdentity") /\ UNCHANGED <<cand, pub>>
    /\ UNCHANGED <<worldVars, storeVars, prof, active, handle, seen, stopReq, after>>

\* The three checks of the new tunnel; failing one stops the process.
\* _wait_for_identity and the comparison of the executable
AcqIdentity(a) ==
    /\ pc[a] = "acqIdentity"
    /\ \/ Goto(a, "acqAbort")
       \/ Alive(cand[a]) /\ Goto(a, "acqRemote")
    /\ UNCHANGED <<worldVars, storeVars, prof, active, handle, cand, seen, stopReq, after, pub>>

\* _wait_for_remote_identity
AcqRemote(a) ==
    /\ pc[a] = "acqRemote"
    /\ \/ Goto(a, "acqAbort")
       \/ IdentityReadable(cand[a]) /\ Goto(a, "acqOwn")
    /\ UNCHANGED <<worldVars, storeVars, prof, active, handle, cand, seen, stopReq, after, pub>>

\* The record acquire is about to write for its candidate.
NewEvidence(a) == [tid |-> cand[a], port |-> prof[a].port, remote |-> TRUE]

AcqOwn(a) ==
    /\ pc[a] = "acqOwn"
    /\ \/ Goto(a, "acqAbort")
       \/ Verifiable(NewEvidence(a)) /\ Goto(a, "acqSave")
    /\ UNCHANGED <<worldVars, storeVars, prof, active, handle, cand, seen, stopReq, after, pub>>

\* save_runtime, which may raise, and the return of the ActiveTunnel
AcqSave(a) ==
    /\ pc[a] = "acqSave"
    /\ cand' = [cand EXCEPT ![a] = None]
    /\ \/ /\ evidence' = NewEvidence(a)
          /\ active' = [active EXCEPT ![a] = NewEvidence(a)]
          /\ handle' = [handle EXCEPT ![a] = TRUE]
          /\ Goto(a, IF stopReq[a] THEN "loop" ELSE "verListen") /\ UNCHANGED pub
       \/ /\ "disk" \in Faults
          /\ Finish(a, "FAILED") /\ UNCHANGED <<evidence, active, handle>>
    /\ UNCHANGED <<worldVars, profile, lock, prof, seen, stopReq, after>>

\* Mutant: the error is raised without stopping the started process.
AcqAbortLeak(a) ==
    /\ pc[a] = "acqAbort"
    /\ AcquireError(a)
    /\ UNCHANGED <<worldVars, storeVars, prof, active, handle, seen, stopReq, after>>

\* started.stop: terminate, then kill; a process that survives both raises.
AcqAbort(a) ==
    /\ pc[a] = "acqAbort"
    /\ \/ Kill(cand[a]) /\ AcquireError(a)
       \/ /\ "wedge" \in Faults /\ Alive(cand[a])
          /\ cand' = [cand EXCEPT ![a] = None]
          /\ Finish(a, "FAILED") /\ UNCHANGED proc
    /\ UNCHANGED <<tport, sess, marker, foreign, storeVars, prof, active, handle, seen, stopReq, after>>

Acquire(a) ==
    \/ AcqLoad(a) \/ AcqListen(a) \/ AcqVerify(a) \/ AcqTerminate(a) \/ AcqReleased(a)
    \/ AcqClear(a) \/ AcqStart(a) \/ AcqEarly(a) \/ AcqIdentity(a) \/ AcqRemote(a)
    \/ AcqOwn(a) \/ AcqSave(a) \/ AcqAbort(a)

-----------------------------------------------------------------------------
(* verify *)

\* The listener check, repeated until its deadline while the port is silent
VerListen(a) ==
    /\ pc[a] = "verListen"
    /\ \/ Goto(a, "verFailed")
       \/ Listening(prof[a].port) /\ Goto(a, "verEndpoint")
    /\ UNCHANGED <<worldVars, storeVars, prof, active, handle, cand, seen, stopReq, after, pub>>

\* The endpoint probe; success writes the record of the supervised tunnel back
\* (with the time of the probe, not modelled) and the supervisor publishes READY.
VerEndpoint(a) ==
    /\ pc[a] = "verEndpoint"
    /\ \/ Goto(a, "verFailed") /\ UNCHANGED <<evidence, pub>>
       \/ /\ EndpointAnswers(prof[a].port)
          /\ evidence' = active[a]
          /\ Publish(a, "READY") /\ Goto(a, "loop")
    /\ UNCHANGED <<worldVars, profile, lock, prof, active, handle, cand, seen, stopReq, after>>

-----------------------------------------------------------------------------
(* disconnect, as its callers see it: what it does and answers.  They hold  *)
(* the lock and have found evidence, so "already disconnected" cannot come.  *)

Disconnect(answer) ==
    \/ /\ answer = "mismatch" /\ evidence # None /\ ~ Matches(evidence)
       /\ evidence' = None /\ UNCHANGED proc
    \/ /\ answer = "timeout" /\ Matches(evidence)
       /\ UNCHANGED <<evidence, proc>>
    \/ /\ answer = "pass" /\ Matches(evidence)
       /\ Kill(evidence.tid) /\ evidence' = None
=============================================================================
