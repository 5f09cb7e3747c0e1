---------------------------- MODULE BridgeState ----------------------------
(***************************************************************************)
(* The world one profile lives in, and what RAB keeps of it on disk:       *)
(*  - local SSH processes and the remote sshd sessions they open, one per  *)
(*    tunnel id (app/services/tunnel.py, app/services/remote_probe.py);    *)
(*  - the profile file, the runtime evidence file and the profile lock     *)
(*    (app/infrastructure/profile_store.py);                               *)
(*  - the local variables of the operations that run under that lock.      *)
(*                                                                         *)
(* An actor is one RAB process or worker thread running one operation on   *)
(* the profile at a time.  A process identity (pid, creation time and      *)
(* executable) is represented by the tunnel id it was started for.         *)
(***************************************************************************)

CONSTANTS
    Actors,     \* RAB processes and threads that operate on the profile
    Tids,       \* BOUND: tunnel ids, one per SSH process ever started
    Ports,      \* remote ports the profile may be given
    Managed,    \* TRUE for a managed profile, which cannot be deleted
    Faults,     \* which of FaultKinds can happen
    None        \* absence of a record

FaultKinds == {"crash", "disk", "wedge"}

Profiles  == [port : Ports, auto : BOOLEAN]

\* has_remote_identity is FALSE only in files of older versions.
Evidences == [tid : Tids, port : Ports, remote : BOOLEAN]

ASSUME BridgeConstants ==
    /\ None \notin Actors \cup Tids \cup Ports
    /\ None \notin Profiles /\ None \notin Evidences
    /\ Managed \in BOOLEAN
    /\ Faults \subseteq FaultKinds

VARIABLES
    proc,       \* local SSH process of a tunnel: "none", "alive", "dead"
    tport,      \* the remote port it was asked to forward
    sess,       \* its remote sshd session: "none", "up", "gone"
    marker,     \* tunnels whose remote identity marker exists
    foreign,    \* ports on which something unrelated listens
    profile,    \* the profile file
    evidence,   \* the runtime file
    lock,       \* who holds supervisor_lock
    \* locals of the operation an actor runs
    pc,         \* control state
    prof,       \* the profile it loaded
    active,     \* the record of the ActiveTunnel it supervises
    handle,     \* whether that ActiveTunnel has the ManagedProcess
    cand,       \* the process acquire has started and not yet recorded
    seen,       \* the runtime record it loaded
    stopReq,    \* stop_event
    after,      \* the state to publish when the cleanup succeeds
    pub         \* the last published snapshot

worldVars == <<proc, tport, sess, marker, foreign>>
storeVars == <<profile, evidence, lock>>
localVars == <<pc, prof, active, handle, cand, seen, stopReq, after, pub>>
vars == <<worldVars, storeVars, localVars>>

-----------------------------------------------------------------------------
AcquirePcs == {"acqLoad", "acqListen", "acqVerify", "acqTerminate", "acqReleased", "acqClear",
               "acqStart", "acqEarly", "acqIdentity", "acqRemote", "acqOwn", "acqSave", "acqAbort"}
\* acquire has started a process it has not yet recorded
CandidatePcs == {"acqEarly", "acqIdentity", "acqRemote", "acqOwn", "acqSave", "acqAbort"}
VerifyPcs  == {"verListen", "verEndpoint", "verFailed"}
SupervisePcs == AcquirePcs \cup VerifyPcs \cup {"loop", "inspect", "cleanup", "cleanDisc"}
ServicePcs == {"unsLoad", "unsDisc", "unsRestore", "updLoad", "creSave",
               "delLoad", "delTerm", "delConfirm", "delDisc", "delRemove"}
LockedPcs  == SupervisePcs \cup ServicePcs \cup {"unlock"}
Pcs == LockedPcs \cup {"idle", "unsLock"}

\* "CONFLICT" is FAILED with error_code REMOTE_PORT_CONFLICT.
Published == {"NONE", "STARTING", "CONNECTING", "READY", "DEGRADED", "STOPPING",
              "STOPPED", "FAILED", "CONFLICT"}

TypeOK ==
    /\ proc \in [Tids -> {"none", "alive", "dead"}]
    /\ tport \in [Tids -> Ports \cup {None}]
    /\ sess \in [Tids -> {"none", "up", "gone"}]
    /\ marker \in SUBSET Tids
    /\ foreign \in SUBSET Ports
    /\ profile \in Profiles \cup {None}
    /\ evidence \in Evidences \cup {None}
    /\ lock \in Actors \cup {None}
    /\ pc \in [Actors -> Pcs]
    /\ prof \in [Actors -> Profiles \cup {None}]
    /\ active \in [Actors -> Evidences \cup {None}]
    /\ handle \in [Actors -> BOOLEAN]
    /\ cand \in [Actors -> Tids \cup {None}]
    /\ seen \in [Actors -> Evidences \cup {None}]
    /\ stopReq \in [Actors -> BOOLEAN]
    /\ after \in [Actors -> {"STOPPED", "FAILED"}]
    /\ pub \in [Actors -> Published]

\* A state directory with a profile and possibly the evidence an earlier
\* version left, whose process may or may not still run.
Init ==
    /\ profile \in Profiles
    /\ \/ /\ evidence = None
          /\ proc = [t \in Tids |-> "none"] /\ tport = [t \in Tids |-> None]
       \/ \E t0 \in Tids :
            /\ evidence = [tid |-> t0, port |-> profile.port, remote |-> FALSE]
            /\ proc \in [Tids -> {"none", "alive", "dead"}]
            /\ \A t \in Tids : (proc[t] = "none") <=> (t # t0)
            /\ tport = [t \in Tids |-> IF t = t0 THEN profile.port ELSE None]
    /\ sess = [t \in Tids |-> "none"]
    /\ marker = {}
    /\ foreign \in SUBSET Ports
    /\ lock = None
    /\ pc = [a \in Actors |-> "idle"]
    /\ prof = [a \in Actors |-> None]
    /\ active = [a \in Actors |-> None]
    /\ handle = [a \in Actors |-> FALSE]
    /\ cand = [a \in Actors |-> None]
    /\ seen = [a \in Actors |-> None]
    /\ stopReq = [a \in Actors |-> FALSE]
    /\ after = [a \in Actors |-> "FAILED"]
    /\ pub = [a \in Actors |-> "NONE"]

-----------------------------------------------------------------------------
(* Observations *)

Alive(t) == t # None /\ proc[t] = "alive"

\* ProcessInspector.matches: the recorded process still runs.
Matches(e) == e # None /\ Alive(e.tid)

\* check_listener: something listens on the port, whoever it is.
Listening(p) == p \in foreign \/ \E t \in Tids : sess[t] = "up" /\ tport[t] = p

\* check_endpoint: a request through the remote port can succeed only while
\* something listens there; the probe does not tell who.
EndpointAnswers(p) == Listening(p)

\* read_tunnel_identity: the marker of this tunnel is there to be read.
IdentityReadable(t) == t \in marker

\* The remote validation script: marker present, sshd session alive, port
\* listening.  A record without remote identity never verifies.
Verifiable(e) == e.remote /\ e.tid \in marker /\ sess[e.tid] = "up" /\ Listening(e.port)

-----------------------------------------------------------------------------
(* Store and control *)

Goto(a, label) == pc' = [pc EXCEPT ![a] = label]
Publish(a, s)  == pub' = [pub EXCEPT ![a] = s]

\* Publish a final snapshot and leave the locked block.
Finish(a, s) == Publish(a, s) /\ Goto(a, "unlock")

ResetLocals(a) ==
    /\ Goto(a, "idle")
    /\ prof' = [prof EXCEPT ![a] = None]
    /\ active' = [active EXCEPT ![a] = None]
    /\ handle' = [handle EXCEPT ![a] = FALSE]
    /\ cand' = [cand EXCEPT ![a] = None]
    /\ seen' = [seen EXCEPT ![a] = None]
    /\ stopReq' = [stopReq EXCEPT ![a] = FALSE]
    /\ after' = [after EXCEPT ![a] = "FAILED"]
    /\ pub' = [pub EXCEPT ![a] = "NONE"]

\* Leaving the supervisor_lock context manager.
Unlock(a) ==
    /\ pc[a] = "unlock"
    /\ lock' = None
    /\ ResetLocals(a)
    /\ UNCHANGED <<worldVars, profile, evidence>>

\* The lock never blocks: the caller reports PROFILE_BUSY if it is taken.
TakeLock(a, label) == lock = None /\ lock' = a /\ Goto(a, label)

\* The RAB process dies: the operating system drops its lock, its SSH
\* processes and its files stay as they are.
Crash(a) ==
    /\ "crash" \in Faults /\ pc[a] \in LockedPcs
    /\ lock' = None
    /\ ResetLocals(a)
    /\ UNCHANGED <<worldVars, profile, evidence>>

-----------------------------------------------------------------------------
(* Local SSH processes, remote sessions, other listeners *)

Kill(t) == proc' = [proc EXCEPT ![t] = "dead"]

\* ssh gets its reverse forward, or exits (ExitOnForwardFailure).
SshForward(t) ==
    /\ proc[t] = "alive" /\ sess[t] = "none"
    /\ IF Listening(tport[t]) THEN Kill(t) /\ UNCHANGED sess
                              ELSE sess' = [sess EXCEPT ![t] = "up"] /\ UNCHANGED proc
    /\ UNCHANGED <<tport, marker, foreign, storeVars, localVars>>

\* The remote command writes its marker once the listener is there.
WriteMarker(t) ==
    /\ sess[t] = "up" /\ t \notin marker
    /\ marker' = marker \cup {t}
    /\ UNCHANGED <<proc, tport, sess, foreign, storeVars, localVars>>

\* The sshd session ends by itself, whether or not the local end has gone; the
\* trap of the remote command removes the marker, unless it is killed outright.
SessionEnd(t) ==
    /\ sess[t] = "up"
    /\ sess' = [sess EXCEPT ![t] = "gone"]
    /\ marker' \in {marker, marker \ {t}}
    /\ UNCHANGED <<proc, tport, foreign, storeVars, localVars>>

\* The local process exits; its remote session may outlive it.
ProcessExit(t) ==
    /\ proc[t] = "alive"
    /\ Kill(t)
    /\ UNCHANGED <<tport, sess, marker, foreign, storeVars, localVars>>

ForeignBind(p) ==
    /\ ~ Listening(p)
    /\ foreign' = foreign \cup {p}
    /\ UNCHANGED <<proc, tport, sess, marker, storeVars, localVars>>

ForeignRelease(p) ==
    /\ p \in foreign
    /\ foreign' = foreign \ {p}
    /\ UNCHANGED <<proc, tport, sess, marker, storeVars, localVars>>

Environment ==
    \/ \E t \in Tids : SshForward(t) \/ WriteMarker(t) \/ SessionEnd(t) \/ ProcessExit(t)
    \/ \E p \in Ports : ForeignBind(p) \/ ForeignRelease(p)
=============================================================================
