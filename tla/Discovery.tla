------------------------------ MODULE Discovery ------------------------------
(***************************************************************************)
(* How RAB finds a local proxy and a remote port, while proxies and remote *)
(* listeners come and go between two probes:                               *)
(*  - the proxy and port discovery of managed setup (LocalProxyService.    *)
(*    discover, RemotePortSelector.select, SetupService.                   *)
(*    setup_managed_profile);                                              *)
(*  - `rab profile add`, which takes the first candidate that passes;      *)
(*  - RemoteProbeService.find_free_port, which suggests a port after a     *)
(*    conflict;                                                            *)
(*  - `rab doctor`, which runs the same checks one after the other.        *)
(*                                                                         *)
(* Candidates stand for the deduplicated candidate ports in their order.   *)
(* The level of a candidate is how many of the three probes it answers:    *)
(* TCP connection, CONNECT handshake, request to the AI endpoint; a probe  *)
(* that times out is a candidate below that level at that moment.          *)
(***************************************************************************)
EXTENDS Naturals, FiniteSets

CONSTANTS
    NumCandidates,  \* number of candidate proxy ports
    LastPort,       \* BOUND: the last port, 65535 in the code
    MaxAttempts,    \* BOUND: the longest port scan
    None

ASSUME DiscoveryConstants ==
    /\ NumCandidates \in Nat \ {0}
    /\ LastPort \in Nat \ {0}
    /\ MaxAttempts \in Nat \ {0}
    /\ None \notin Nat

Candidates == 1 .. NumCandidates
Selections == 1 .. NumCandidates + 1    \* the last stands for a port that is no candidate
Ports      == 1 .. LastPort
Probes     == 1 .. 3        \* check_tcp, check_http_proxy, check_endpoint
Levels     == 0 .. 3

Checks == {"tcp", "handshake", "endpoint", "ssh", "tunnel", "listener", "remote"}
ProbeName(i) == CASE i = 1 -> "tcp" [] i = 2 -> "handshake" [] OTHER -> "endpoint"

VARIABLES
    level,      \* what each candidate answers now
    taken,      \* remote ports on which something listens now
    \* the operation in progress
    op, pc,
    wanted,     \* selected_port / --local-proxy-port: a candidate, or None
    cur, probe, \* the candidate or port being probed, and the probe
    passed,     \* candidates that passed all three probes in this scan
    chosen,     \* the selected candidate
    start, attempts,
    port,       \* the selected or suggested remote port
    report,     \* the checks of a doctor run
    outcome,    \* how the operation ended
    \* what has been true since the current scan began (history)
    wasUp, wasDown,     \* candidates at level 3, below level 3
    wasFree, wasTaken   \* remote ports

worldVars   == <<level, taken>>
scanVars    == <<cur, probe, passed>>
requestVars == <<op, wanted, start, attempts>>
resultVars  == <<chosen, port, report, outcome>>
proxyHist   == <<wasUp, wasDown>>
portHist    == <<wasFree, wasTaken>>
vars == <<worldVars, scanVars, requestVars, resultVars, pc, proxyHist, portHist>>

Operations == {"none", "setup", "add", "suggest", "doctor"}
Pcs == {"idle", "scan", "decide", "bootstrap", "verify", "verified", "select", "create",
        "ssh", "tunnel", "listener", "remote", "done"}
Outcomes == {"none", "saved", "invalid", "not_found", "ambiguous", "unhealthy", "failed",
             "check_failed", "exhausted", "suggested", "no_suggestion", "reported"}

Up   == {c \in Candidates : level[c] = 3}
Down == Candidates \ Up
Free == Ports \ taken

TypeOK ==
    /\ level \in [Candidates -> Levels]
    /\ taken \in SUBSET Ports
    /\ op \in Operations /\ pc \in Pcs
    /\ wanted \in Selections \cup {None}
    /\ cur \in Nat /\ probe \in Probes
    /\ passed \in SUBSET Candidates
    /\ chosen \in Candidates \cup {None}
    /\ start \in Nat /\ attempts \in Nat
    /\ port \in Nat \cup {None}
    /\ report \in [Checks -> {"none", "PASS", "FAIL", "SKIP"}]
    /\ outcome \in Outcomes
    /\ wasUp \in SUBSET Candidates /\ wasDown \in SUBSET Candidates
    /\ wasFree \in SUBSET Ports /\ wasTaken \in SUBSET Ports

NoReport == [c \in Checks |-> "none"]

Init ==
    /\ level \in [Candidates -> Levels] /\ taken \in SUBSET Ports
    /\ op = "none" /\ pc = "idle"
    /\ wanted = None /\ start = 0 /\ attempts = 0
    /\ cur = 1 /\ probe = 1 /\ passed = {}
    /\ chosen = None /\ port = None /\ report = NoReport /\ outcome = "none"
    /\ wasUp = {} /\ wasDown = {} /\ wasFree = {} /\ wasTaken = {}

-----------------------------------------------------------------------------
(* Scans *)

Goto(label) == pc' = label

\* The operation returns or raises.
End(o) == outcome' = o /\ Goto("done")

\* Probe candidate c first.
BeginScan(c, label) ==
    /\ cur' = c /\ probe' = 1 /\ passed' = {}
    /\ wasUp' = Up /\ wasDown' = Down
    /\ Goto(label)

\* The scan goes on to the next candidate: a selected one is the only one.
ScanOver == wanted # None \/ cur = NumCandidates

NextCandidate(label) ==
    /\ probe' = 1
    /\ IF pc = "verify" \/ ScanOver THEN cur' = cur /\ Goto(label) ELSE cur' = cur + 1 /\ UNCHANGED pc

\* Where a scan goes when it is over.
AfterScan == IF pc = "verify" THEN "verified" ELSE IF op = "doctor" THEN "ssh" ELSE "decide"

\* doctor keeps each result, and skips the probes after a failed one.
Reported(c, s) == [report EXCEPT ![c] = s]
ReportFailed   == [c \in Checks |-> IF c = ProbeName(probe) THEN "FAIL"
                                    ELSE IF \E i \in Probes : i > probe /\ c = ProbeName(i) THEN "SKIP"
                                    ELSE report[c]]

ScanPcs == {"scan", "verify"}

ProbePass ==
    /\ pc \in ScanPcs /\ level[cur] >= probe
    /\ report' = IF op = "doctor" THEN Reported(ProbeName(probe), "PASS") ELSE report
    /\ IF probe < 3
         THEN probe' = probe + 1 /\ UNCHANGED <<cur, passed, pc>>
         ELSE passed' = passed \cup {cur} /\ NextCandidate(AfterScan)
    /\ UNCHANGED <<worldVars, requestVars, chosen, port, outcome, proxyHist, portHist>>

\* Mutant: the endpoint probe of a candidate is not required.
ProbeFailLenient ==
    /\ pc \in ScanPcs /\ level[cur] < probe
    /\ report' = IF op = "doctor" THEN ReportFailed ELSE report
    /\ passed' = IF probe = 3 THEN passed \cup {cur} ELSE passed
    /\ NextCandidate(AfterScan)
    /\ UNCHANGED <<worldVars, requestVars, chosen, port, outcome, proxyHist, portHist>>

ProbeFail ==
    /\ pc \in ScanPcs /\ level[cur] < probe
    /\ report' = IF op = "doctor" THEN ReportFailed ELSE report
    /\ NextCandidate(AfterScan)
    /\ UNCHANGED <<worldVars, requestVars, passed, chosen, port, outcome, proxyHist, portHist>>

-----------------------------------------------------------------------------
(* setup_managed_profile *)

\* Parameters out of range are refused before anything is probed.
SetupBegin(sel, s, m) ==
    /\ pc = "idle"
    /\ op' = "setup" /\ wanted' = sel /\ start' = s /\ attempts' = m
    /\ IF s \in Ports /\ m > 0 /\ sel \in Candidates \cup {None}
         THEN BeginScan(IF sel = None THEN 1 ELSE sel, "scan") /\ UNCHANGED outcome
         ELSE End("invalid") /\ UNCHANGED <<scanVars, proxyHist>>
    /\ UNCHANGED <<worldVars, chosen, port, report, portHist>>

\* Mutant: of several healthy proxies the first is taken.
DecideFirst ==
    /\ pc = "decide" /\ op = "setup"
    /\ IF passed = {} THEN End("not_found") /\ UNCHANGED chosen
       ELSE /\ chosen' = CHOOSE c \in passed : \A d \in passed : c <= d
            /\ Goto("bootstrap") /\ UNCHANGED outcome
    /\ UNCHANGED <<worldVars, scanVars, requestVars, port, report, proxyHist, portHist>>

\* The end of discover: exactly one healthy candidate, or the selected one.
Decide ==
    /\ pc = "decide" /\ op = "setup"
    /\ \/ /\ \E c \in passed : passed = {c} /\ chosen' = c
          /\ Goto("bootstrap") /\ UNCHANGED outcome
       \/ /\ passed = {} /\ End(IF wanted = None THEN "not_found" ELSE "unhealthy")
          /\ UNCHANGED chosen
       \/ /\ \E c, d \in passed : c # d
          /\ End("ambiguous") /\ UNCHANGED chosen
    /\ UNCHANGED <<worldVars, scanVars, requestVars, port, report, proxyHist, portHist>>

\* Mutant: the completion trusts the preflight.
BootstrapTrusting ==
    /\ pc = "bootstrap"
    /\ cur' = start /\ wasFree' = Free /\ wasTaken' = taken
    /\ wasUp' = Up /\ wasDown' = Down
    /\ Goto("select")
    /\ UNCHANGED <<worldVars, probe, passed, requestVars, chosen, port, report, outcome>>

\* _run_bootstrap (ManagedSetup.tla has the detail), then the completion: the
\* chosen proxy is probed again.
Bootstrap ==
    /\ pc = "bootstrap"
    /\ \/ BeginScan(chosen, "verify") /\ UNCHANGED outcome
       \/ End("failed") /\ UNCHANGED <<scanVars, proxyHist>>
    /\ UNCHANGED <<worldVars, requestVars, chosen, port, report, portHist>>

\* The verified choice is kept, and the port scan begins.
Verified ==
    /\ pc = "verified"
    /\ IF chosen \in passed
         THEN /\ cur' = start /\ wasFree' = Free /\ wasTaken' = taken
              /\ Goto("select") /\ UNCHANGED outcome
         ELSE End("unhealthy") /\ UNCHANGED <<cur, portHist>>
    /\ UNCHANGED <<worldVars, probe, passed, requestVars, chosen, port, report, proxyHist>>

\* Mutant: the scan is not cut off at the last port.
SelectEndUnbounded == start + attempts

\* The port after the last one select tries
SelectEnd == start + (IF attempts <= LastPort + 1 - start THEN attempts ELSE LastPort + 1 - start)

\* RemotePortSelector.select: one check_listener.  A listener on another address
\* counts as one, a check that fails ends the selection.
Select ==
    /\ pc = "select" /\ op = "setup" /\ cur < SelectEnd
    /\ \/ cur \notin taken /\ port' = cur /\ Goto("create") /\ UNCHANGED <<cur, outcome>>
       \/ cur \in taken /\ cur' = cur + 1 /\ UNCHANGED <<port, pc, outcome>>
       \/ End("check_failed") /\ UNCHANGED <<cur, port>>
    /\ UNCHANGED <<worldVars, probe, passed, requestVars, chosen, report, proxyHist, portHist>>

SelectExhausted ==
    /\ pc = "select" /\ op = "setup" /\ cur = SelectEnd
    /\ End("exhausted")
    /\ UNCHANGED <<worldVars, scanVars, requestVars, chosen, port, report, proxyHist, portHist>>

\* profiles.create, which refuses a name in use
Create ==
    /\ pc = "create"
    /\ End("saved") \/ End("failed")
    /\ UNCHANGED <<worldVars, scanVars, requestVars, chosen, port, report, proxyHist, portHist>>

-----------------------------------------------------------------------------
(* command_profile_add *)

AddBegin(sel) ==
    /\ pc = "idle"
    /\ op' = "add" /\ wanted' = sel
    /\ BeginScan(IF sel = None THEN 1 ELSE sel, "scan")
    /\ UNCHANGED <<worldVars, start, attempts, resultVars, portHist>>

\* Mutant: the last candidate that passes is saved.
AddDecideLast ==
    /\ pc = "decide" /\ op = "add"
    /\ IF passed = {} THEN End("not_found") /\ UNCHANGED chosen
       ELSE /\ chosen' = CHOOSE c \in passed : \A d \in passed : c >= d
            /\ Goto("create") /\ UNCHANGED outcome
    /\ UNCHANGED <<worldVars, scanVars, requestVars, port, report, proxyHist, portHist>>

\* All candidates are tried; the first that passed is saved.
AddDecide ==
    /\ pc = "decide" /\ op = "add"
    /\ IF passed = {} THEN End("not_found") /\ UNCHANGED chosen
       ELSE /\ \E c \in passed : chosen' = c /\ \A d \in passed : c <= d
            /\ Goto("create") /\ UNCHANGED outcome
    /\ UNCHANGED <<worldVars, scanVars, requestVars, port, report, proxyHist, portHist>>

-----------------------------------------------------------------------------
(* find_free_port *)

\* start is the port of the profile, in conflict.
SuggestBegin(p, m) ==
    /\ pc = "idle"
    /\ op' = "suggest" /\ start' = p /\ attempts' = m
    /\ cur' = p + 1 /\ wasFree' = Free /\ wasTaken' = taken
    /\ Goto("select")
    /\ UNCHANGED <<worldVars, probe, passed, wanted, resultVars, proxyHist>>

\* Mutant: the search may run past the last port.
SuggestEndUnbounded == start + attempts + 1

\* The port after the last one find_free_port tries
SuggestEnd == IF start + attempts + 1 <= LastPort + 1 THEN start + attempts + 1 ELSE LastPort + 1

Suggest ==
    /\ pc = "select" /\ op = "suggest" /\ cur < SuggestEnd
    /\ \/ cur \notin taken /\ port' = cur /\ End("suggested") /\ UNCHANGED cur
       \/ cur \in taken /\ cur' = cur + 1 /\ UNCHANGED <<port, pc, outcome>>
       \/ End("no_suggestion") /\ UNCHANGED <<cur, port>>
    /\ UNCHANGED <<worldVars, probe, passed, requestVars, chosen, report, proxyHist, portHist>>

SuggestNothing ==
    /\ pc = "select" /\ op = "suggest" /\ cur >= SuggestEnd
    /\ End("no_suggestion")
    /\ UNCHANGED <<worldVars, scanVars, requestVars, chosen, port, report, proxyHist, portHist>>

-----------------------------------------------------------------------------
(* DoctorService.run, for a profile whose proxy is candidate c *)

DoctorBegin(c) ==
    /\ pc = "idle"
    /\ op' = "doctor" /\ wanted' = c
    /\ BeginScan(c, "scan")
    /\ UNCHANGED <<worldVars, start, attempts, resultVars, portHist>>

\* One check of doctor with its result and what comes next.
DoctorCheck(c, label) ==
    /\ \E s \in {"PASS", "FAIL"} : report' = Reported(c, s)
    /\ Goto(label)
    /\ UNCHANGED <<worldVars, scanVars, requestVars, chosen, port, outcome, proxyHist, portHist>>

\* ssh_config.check, tunnel.process_check
DoctorSsh    == pc = "ssh" /\ DoctorCheck("ssh", "tunnel")
DoctorTunnel == pc = "tunnel" /\ DoctorCheck("tunnel", "listener")

\* The remote checks need the tunnel and the SSH configuration, the endpoint
\* check needs the listener.
DoctorListener ==
    /\ pc = "listener" /\ report["tunnel"] = "PASS" /\ report["ssh"] = "PASS"
    /\ DoctorCheck("listener", "remote")

DoctorRemote ==
    /\ pc = "remote" /\ report["listener"] = "PASS"
    /\ \E s \in {"PASS", "FAIL"} : report' = Reported("remote", s)
    /\ End("reported")
    /\ UNCHANGED <<worldVars, scanVars, requestVars, chosen, port, proxyHist, portHist>>

DoctorSkip ==
    /\ \/ /\ pc = "listener" /\ ~ (report["tunnel"] = "PASS" /\ report["ssh"] = "PASS")
          /\ report' = [report EXCEPT !["listener"] = "SKIP", !["remote"] = "SKIP"]
       \/ /\ pc = "remote" /\ report["listener"] # "PASS"
          /\ report' = Reported("remote", "SKIP")
    /\ End("reported")
    /\ UNCHANGED <<worldVars, scanVars, requestVars, chosen, port, proxyHist, portHist>>

\* Mutant: only failures of the remote checks count.
DoctorExitRemote == IF report["listener"] = "FAIL" \/ report["remote"] = "FAIL" THEN 1 ELSE 0

\* The exit code of `rab doctor`
DoctorExit == IF \A c \in Checks : report[c] \in {"PASS", "SKIP"} THEN 0 ELSE 1

-----------------------------------------------------------------------------
(* The world *)

\* The world moves at any moment of an operation; before and after one a move
\* would change nothing an operation sees, for Init leaves the world open.
Running == pc \notin {"idle", "done"}

\* A local proxy starts, stops, or begins to answer differently.
ProxyChange(c, l) ==
    /\ Running /\ level[c] # l
    /\ level' = [level EXCEPT ![c] = l]
    /\ wasUp' = wasUp \cup Up' /\ wasDown' = wasDown \cup Down'
    /\ UNCHANGED <<taken, scanVars, requestVars, resultVars, pc, portHist>>

\* A remote listener appears or goes.
ListenerChange(p) ==
    /\ Running
    /\ taken' = IF p \in taken THEN taken \ {p} ELSE taken \cup {p}
    /\ wasFree' = wasFree \cup Free' /\ wasTaken' = wasTaken \cup taken'
    /\ UNCHANGED <<level, scanVars, requestVars, resultVars, pc, proxyHist>>

World ==
    \/ \E c \in Candidates, l \in Levels : ProxyChange(c, l)
    \/ \E p \in Ports : ListenerChange(p)

Begin ==
    \/ \E sel \in Selections \cup {None}, s \in 0 .. LastPort + 1, m \in 0 .. MaxAttempts :
         SetupBegin(sel, s, m)
    \/ \E sel \in Candidates \cup {None} : AddBegin(sel)
    \/ \E p \in Ports, m \in 1 .. MaxAttempts : SuggestBegin(p, m)
    \/ \E c \in Candidates : DoctorBegin(c)

Step ==
    \/ ProbePass \/ ProbeFail \/ Decide \/ Bootstrap \/ Verified \/ Select \/ SelectExhausted
    \/ Create \/ AddDecide \/ Suggest \/ SuggestNothing
    \/ DoctorSsh \/ DoctorTunnel \/ DoctorListener \/ DoctorRemote \/ DoctorSkip

Next == Begin \/ Step \/ World

Spec == Init /\ [][Next]_vars

-----------------------------------------------------------------------------
(* Properties *)

\* A setup that was given no proxy settles on one only if every other candidate
\* failed to answer at some moment of the scan: a second proxy that is healthy
\* all along is never passed over (local_proxy.py 113-144).
ChoiceUnambiguous ==
    pc = "bootstrap" /\ wanted = None => Candidates \ {chosen} \subseteq wasDown

\* From the second discovery of a setup on, the proxy it is about to save has
\* been healthy after the bootstrap, not only before it (setup_service.py
\* 146-160: "checked again after bootstrap to close the preflight race").
HealthyAfterBootstrap ==
    op = "setup" /\ pc \in {"select", "create"} => chosen \in wasUp

\* The remote port a setup selects is a real port within the scan range, was
\* free during the scan, and is the first that was: all before it were taken at
\* some moment.  A range reported exhausted had none to offer, and a scan that
\* begins near the last port stops there (remote_port.py 38-60).
PortJustified ==
    op = "setup" =>
        /\ port # None =>
             /\ port \in Ports /\ port >= start /\ port < start + attempts
             /\ port \in wasFree /\ start .. port - 1 \subseteq wasTaken
        /\ outcome = "exhausted" =>
             {p \in Ports : p >= start /\ p < start + attempts} \subseteq wasTaken

\* The port suggested after a conflict is a real one above the profile's own,
\* free during the search, and every port between them was taken; without a
\* free port below the limit there is no suggestion (remote_probe.py 200-207).
SuggestionJustified ==
    outcome = "suggested" =>
        /\ port \in Ports /\ port > start /\ port <= start + attempts
        /\ port \in wasFree /\ start + 1 .. port - 1 \subseteq wasTaken

\* `rab profile add` saves the first candidate that is healthy: it was healthy
\* at some moment of the scan, and each one before it failed at some moment
\* (cli.py 136-160).
FirstHealthySaved ==
    op = "add" /\ pc = "create" =>
        /\ chosen \in wasUp
        /\ wanted = None => 1 .. chosen - 1 \subseteq wasDown

\* `rab doctor` exits with 0 only if all seven checks passed: a skipped check
\* always comes with a failed one (cli.py 228-241, doctor.py 35-49).
DoctorZeroMeansAll ==
    outcome = "reported" /\ DoctorExit = 0 => \A c \in Checks : report[c] = "PASS"

-----------------------------------------------------------------------------
(* The inductive invariant *)

\* A candidate that has been probed passed, or was down; one that passed was up.
ScanInv ==
    /\ passed \subseteq wasUp
    /\ pc \in ScanPcs => cur \in Candidates /\ Up \subseteq wasUp /\ Down \subseteq wasDown
    /\ pc = "scan" => /\ op \in {"setup", "add", "doctor"}
                      /\ wanted = None => \A c \in 1 .. cur - 1 : c \in passed \cup wasDown
    /\ pc = "decide" /\ wanted = None => Candidates \subseteq passed \cup wasDown
    /\ pc \in {"bootstrap", "verify", "verified"} => op = "setup" /\ chosen \in Candidates
    /\ pc = "create" => op \in {"setup", "add"}

\* Every port the search has left behind was taken.
SearchStart == IF op = "suggest" THEN start + 1 ELSE start

PortInv ==
    /\ op = "setup" /\ pc # "done" => start \in Ports /\ attempts > 0
    /\ pc = "select" => /\ op \in {"setup", "suggest"} /\ start \in Ports
                        /\ Free \subseteq wasFree /\ taken \subseteq wasTaken
                        /\ cur >= SearchStart
                        /\ op = "setup" => cur <= SelectEnd
                        /\ \A p \in SearchStart .. cur - 1 : p \in wasTaken
    /\ pc \notin {"create", "done"} => port = None
    /\ op \in {"none", "add", "doctor"} => port = None
    /\ pc # "done" => outcome = "none"
    /\ outcome = "suggested" => op = "suggest"
    /\ outcome = "reported" => op = "doctor"

\* The local checks of a doctor run stop at the first failure, and so do the rest.
LocalChecks == {ProbeName(i) : i \in Probes}

DoctorInv ==
    /\ op = "doctor" /\ pc = "scan" =>
         \A i \in Probes : i < probe => report[ProbeName(i)] = "PASS"
    /\ op = "doctor" /\ pc \in {"ssh", "tunnel", "listener", "remote"} =>
         (\A c \in LocalChecks : report[c] = "PASS") \/ \E c \in LocalChecks : report[c] = "FAIL"
    /\ pc \in {"ssh", "tunnel", "listener", "remote"} => op = "doctor"
    /\ pc \in {"tunnel", "listener", "remote"} => report["ssh"] \in {"PASS", "FAIL"}
    /\ pc \in {"listener", "remote"} => report["tunnel"] \in {"PASS", "FAIL"}
    /\ pc = "remote" => /\ report["ssh"] = "PASS" /\ report["tunnel"] = "PASS"
                        /\ report["listener"] \in {"PASS", "FAIL"}
    /\ outcome = "reported" =>
         (\A c \in Checks : report[c] = "PASS") \/ \E c \in Checks : report[c] = "FAIL"

\* The properties above follow from this invariant, which every step preserves.
DInv ==
    /\ TypeOK /\ ScanInv /\ PortInv /\ DoctorInv
    /\ ChoiceUnambiguous /\ HealthyAfterBootstrap /\ PortJustified /\ SuggestionJustified
    /\ FirstHealthySaved
=============================================================================
