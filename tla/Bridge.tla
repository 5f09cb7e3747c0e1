------------------------------- MODULE Bridge -------------------------------
(***************************************************************************)
(* One profile and everything that acts on it: supervisors, unsupervised   *)
(* stops and profile operations in several RAB processes, the SSH          *)
(* processes they leave behind, the remote host, and crashes.              *)
(***************************************************************************)
EXTENDS TunnelSupervisor, ProfileOperations, Naturals

Progress(a) == Supervise(a) \/ ContinueOperation(a) \/ Unlock(a)

Next ==
    \/ \E a \in Actors : SupLock(a) \/ StopRequest(a) \/ BeginOperation(a) \/ Crash(a)
    \/ \E a \in Actors : Progress(a)
    \/ Environment

Spec == Init /\ [][Next]_vars

\* A thread inside an operation goes on: every call it makes is bounded by a
\* timeout.  Nothing is assumed of users, of the network or of the remote host.
FairSpec == Spec /\ \A a \in Actors : WF_vars(Progress(a))

-----------------------------------------------------------------------------
(* Properties *)

\* Runtime evidence always belongs to an existing profile and to its current
\* port, over any sequence of connects, stops, updates, deletes, re-creations
\* and crashes; acquire (116, 121) and delete rely on it.
EvidenceFitsProfile ==
    evidence # None => profile # None /\ profile.port = evidence.port

\* A supervisor works with the profile that is on disk: nothing updates or
\* deletes the profile while the supervisor holds its copy
\* (profile_service.py 22-25).
SupervisorProfileFresh ==
    \A a \in Actors : pc[a] \in SupervisePcs => prof[a] = profile

\* Every running SSH process is on record, or in the hands of the lock holder
\* that has just started it (tunnel.py 142-190): a later stop, status or delete
\* can find it.  Holds as long as no RAB process dies and no write or kill fails.
Recorded(t) ==
    \/ evidence # None /\ evidence.tid = t
    \/ \E a \in Actors : lock = a /\ cand[a] = t
ProcessOnRecord == \A t \in Tids : proc[t] = "alive" => Recorded(t)

\* Hence the profile never has two SSH processes running at once, however often
\* it reconnects.
OneProcess ==
    \A s, t \in Tids : proc[s] = "alive" /\ proc[t] = "alive" => s = t

\* A stop that answers STOPPED, supervised or not, leaves no SSH process of the
\* profile and no evidence (tunnel_supervisor.py 268-278, runtime_manager.py
\* 308-371).
StoppedMeansStopped ==
    \A a \in Actors : pc[a] = "unlock" /\ pub[a] = "STOPPED" =>
        evidence = None /\ \A t \in Tids : proc[t] # "alive"

\* Evidence is dropped only when the process it records no longer runs: no path
\* of acquire, cleanup, disconnect or delete forgets a running process.
\* A running process gets lost in one way only, whatever fails: the acquire that
\* started it ends, by a crash or an exception, before it has been recorded.
DropsOnlyDead == evidence # None /\ evidence' = None => proc'[evidence.tid] # "alive"
LeftBehind(t) ==
    \E a \in Actors : pc[a] \in CandidatePcs /\ cand[a] = t /\ pc'[a] \in {"idle", "unlock"}
LosesOnlyStarted ==
    \A t \in Tids : proc'[t] = "alive" /\ (proc[t] = "alive" => Recorded(t))
        => Recorded(t)' \/ LeftBehind(t)
EvidenceOutlivesProcess == [][DropsOnlyDead /\ LosesOnlyStarted]_vars

\* acquire ends a remote session only if the local process that opened it is
\* gone: a working tunnel is never taken down as stale (tunnel.py 116, 122-124).
EndsOnlyStale ==
    \A a \in Actors, t \in Tids :
        pc[a] = "acqTerminate" /\ pc'[a] # "acqTerminate" /\ sess[t] = "up" /\ sess'[t] = "gone"
            => proc[t] = "dead"
OnlyStaleSessionsEnded == [][EndsOnlyStale]_vars

\* delete gives up evidence with a remote identity only when the session it
\* records is gone.  It probes the port of the profile, not the recorded one, so
\* this rests on EvidenceFitsProfile (profile_service.py 156-181).
DropsOnlyReleased ==
    \A a \in Actors : pc[a] = "delConfirm" /\ evidence # None /\ evidence' = None
        => sess[evidence.tid] # "up"
DeleteConfirmsRelease == [][DropsOnlyReleased]_vars

\* A deleted profile leaves no SSH process running (profile_service.py 108-154).
DeletedLeavesNoProcess ==
    profile = None => \A t \in Tids : proc[t] # "alive"

\* The steps of all these operations, crashes included, are steps the contract
\* of the profile's files allows (ProfileFiles): evidence and profile change only
\* in the hands of the lock holder, evidence exists only for an existing profile,
\* and nothing changes any more once STOPPED has been answered.
EvidenceKind ==
    IF evidence = None THEN "none" ELSE IF Matches(evidence) THEN "live" ELSE "stale"

HolderPhase ==
    IF lock = None THEN "free"
    ELSE IF pc[lock] # "unlock" THEN "working"
    ELSE IF pub[lock] = "STOPPED" THEN "stopped" ELSE "over"

Files == INSTANCE ProfileFiles WITH
            Holders <- Actors, holder <- lock, phase <- HolderPhase,
            present <- (profile # None), kind <- EvidenceKind

ImplementsProfileFiles == Files!Spec

\* A supervisor that was asked to stop lets go of the profile, whatever it was
\* doing and whatever the remote host answers (tunnel_supervisor.py 90-246).
StopEnds == \A a \in Actors : stopReq[a] ~> (pc[a] = "idle")

\* The most steps a supervisor that was asked to stop may still take.
StepsLeft(l) ==
    CASE l = "acqLoad" -> 21 [] l = "acqListen" -> 20 [] l = "acqVerify" -> 19
      [] l = "acqTerminate" -> 18 [] l = "acqReleased" -> 17 [] l = "acqClear" -> 16
      [] l = "acqStart" -> 15 [] l = "acqEarly" -> 14 [] l = "acqIdentity" -> 13
      [] l = "acqRemote" -> 12 [] l = "acqOwn" -> 11 [] l = "acqSave" -> 10 [] l = "acqAbort" -> 9
      [] l = "verListen" -> 8 [] l = "verEndpoint" -> 7 [] l = "verFailed" -> 6
      [] l = "inspect" -> 5 [] l = "loop" -> 4 [] l = "cleanup" -> 3 [] l = "cleanDisc" -> 2
      [] l = "unlock" -> 1 [] OTHER -> 0

\* The part of StopEnds that needs no fairness: every step of such a supervisor
\* brings it closer to its end, and nobody else moves it or takes the request back.
StopDescends ==
    \A a \in Actors : stopReq[a] /\ pc[a] \in SupervisePcs =>
        /\ Supervise(a) => pc'[a] # pc[a]
        /\ pc'[a] # pc[a] => StepsLeft(pc'[a]) < StepsLeft(pc[a])
        /\ stopReq'[a] \/ pc'[a] = "idle"

-----------------------------------------------------------------------------
(* The inductive invariant behind them *)

\* The lock is held exactly while an operation is in its locked block.
LockInv == \A a \in Actors : pc[a] \in LockedPcs <=> lock = a

\* A supervisor's profile is the one on disk, and a tunnel it has in hand is
\* the one on record.
SuperviseInv ==
    \A a \in Actors :
        /\ pc[a] \in SupervisePcs => prof[a] = profile /\ profile # None
        /\ pc[a] \in SupervisePcs /\ active[a] # None => evidence = active[a]
        /\ pc[a] \in VerifyPcs => active[a] # None
        /\ pc[a] \in AcquirePcs \cup {"idle", "unsLock"} => active[a] = None

\* acquire deals with evidence that no running process matches
StalePcs == {"acqListen", "acqVerify", "acqTerminate", "acqReleased"}

\* acquire has a started process exactly between start and record, nothing is
\* on record then, and what it is about to drop records no running process.
AcquireInv ==
    \A a \in Actors :
        /\ cand[a] # None <=> pc[a] \in CandidatePcs
        /\ pc[a] \in CandidatePcs \cup {"acqStart"} => evidence = None
        /\ pc[a] \in StalePcs \cup {"acqClear"} => ~ Matches(evidence)
        /\ pc[a] \in StalePcs => seen[a] = evidence
        /\ pc[a] \in StalePcs \ {"acqListen"} => seen[a] # None

\* What the other operations have established before they go on.
OperationInv ==
    \A a \in Actors :
        /\ pc[a] \in {"unsDisc", "unsRestore"} =>
             seen[a] # None /\ profile # None /\ seen[a].port = profile.port
        /\ pc[a] = "unsRestore" => evidence = None
        /\ pc[a] = "delConfirm" => ~ Matches(evidence)
        /\ pub[a] = "STOPPED" => pc[a] = "unlock" /\ evidence = None

\* Records name the port their process was asked to forward, and a session was
\* opened by a process.
RecordInv ==
    /\ evidence # None => tport[evidence.tid] = evidence.port
    /\ \A a \in Actors :
         /\ pc[a] \in CandidatePcs => tport[cand[a]] = prof[a].port
         /\ pc[a] \in {"unsDisc", "unsRestore"} => tport[seen[a].tid] = seen[a].port
    /\ \A t \in Tids : sess[t] = "up" => proc[t] # "none"

\* Together: what every step of a supervisor, stop, update or delete relies on
\* and re-establishes, whatever fails around it.
BInv ==
    /\ TypeOK
    /\ LockInv
    /\ EvidenceFitsProfile
    /\ SuperviseInv
    /\ AcquireInv
    /\ OperationInv
    /\ RecordInv

-----------------------------------------------------------------------------
(* Statements of the documents the code does not meet *)

\* "Every started tunnel can be disconnected" (PRD 234): a disconnect that
\* answers STOPPED leaves no SSH process of the profile, also after a crash.
EveryTunnelDisconnectable == StoppedMeansStopped

\* "preservation of unresolved runtime or remote-session ownership evidence"
\* (README.md 51): evidence is kept while the session it records still holds
\* the remote port.
SessionEvidencePreserved ==
    [][evidence # None /\ evidence' = None /\ evidence.remote => sess'[evidence.tid] # "up"]_vars
=============================================================================
