--------------------------- MODULE DiscoveryProofs ---------------------------
(***************************************************************************)
(* What proxy and port discovery promise, for any number of candidates,    *)
(* any last port and any length of a scan, while the world moves between   *)
(* two probes.  DInv is inductive; the properties follow from it.          *)
(***************************************************************************)
EXTENDS Discovery, TLAPS

USE DEF worldVars, scanVars, requestVars, resultVars, proxyHist, portHist, Goto, End

-----------------------------------------------------------------------------
\* The initial states satisfy the inductive invariant.
LEMMA InitDInv == Init => DInv
<1> SUFFICES ASSUME Init PROVE DInv
  OBVIOUS
<1> USE DiscoveryConstants DEF Init
<1>1. TypeOK
  BY DEF TypeOK, Operations, Pcs, Outcomes, Probes, NoReport
<1>2. ScanInv /\ PortInv /\ DoctorInv
  BY DEF ScanInv, ScanPcs, PortInv, DoctorInv
<1>3. ChoiceUnambiguous /\ HealthyAfterBootstrap /\ FirstHealthySaved
  BY DEF ChoiceUnambiguous, HealthyAfterBootstrap, FirstHealthySaved
<1>4. PortJustified /\ SuggestionJustified
  BY DEF PortJustified, SuggestionJustified
<1> QED
  BY <1>1, <1>2, <1>3, <1>4 DEF DInv

\* The steps of a setup and of an add after their scan.
SetupStep ==
    Decide \/ Bootstrap \/ Verified \/ Select \/ SelectExhausted \/ Create \/ AddDecide

SuggestStep == Suggest \/ SuggestNothing

DoctorStep == DoctorSsh \/ DoctorTunnel \/ DoctorListener \/ DoctorRemote \/ DoctorSkip

\* Every step keeps the variables in their types.
LEMMA TypeStep == DInv /\ [Next]_vars => TypeOK'
<1> SUFFICES ASSUME DInv, [Next]_vars PROVE TypeOK'
  OBVIOUS
<1> USE DiscoveryConstants DEF DInv, TypeOK, Operations, Pcs, Outcomes, Probes
<1>1. CASE Begin
  <2>1. ASSUME NEW sel \in Selections \cup {None}, NEW s \in 0 .. LastPort + 1,
               NEW m \in 0 .. MaxAttempts, SetupBegin(sel, s, m)
        PROVE TypeOK'
    <3>1. /\ op' = "setup" /\ wanted' = sel /\ start' = s /\ attempts' = m
          /\ UNCHANGED <<worldVars, chosen, port, report, portHist>>
      BY <2>1 DEF SetupBegin
    <3>2. CASE s \in Ports /\ m > 0 /\ sel \in Candidates \cup {None}
      BY <2>1, <3>1, <3>2 DEF SetupBegin, BeginScan, Up, Down, Candidates, Selections
    <3>3. CASE ~ (s \in Ports /\ m > 0 /\ sel \in Candidates \cup {None})
      BY <2>1, <3>1, <3>3 DEF SetupBegin, Selections
    <3> QED
      BY <3>2, <3>3
  <2>2. ASSUME NEW sel \in Candidates \cup {None}, AddBegin(sel) PROVE TypeOK'
    BY <2>2 DEF AddBegin, BeginScan, Up, Down, Candidates, Selections
  <2>3. ASSUME NEW p \in Ports, NEW m \in 1 .. MaxAttempts, SuggestBegin(p, m) PROVE TypeOK'
    BY <2>3 DEF SuggestBegin, Ports, Free
  <2>4. ASSUME NEW c \in Candidates, DoctorBegin(c) PROVE TypeOK'
    BY <2>4 DEF DoctorBegin, BeginScan, Up, Down, Candidates, Selections
  <2> QED
    BY <1>1, <2>1, <2>2, <2>3, <2>4 DEF Begin
<1>2. CASE ProbePass \/ ProbeFail
  <2>1. report' \in [Checks -> {"none", "PASS", "FAIL", "SKIP"}]
    BY <1>2 DEF ProbePass, ProbeFail, Reported, ReportFailed
  <2>2. pc' \in Pcs /\ cur' \in Nat /\ probe' \in Probes
    BY <1>2 DEF ProbePass, ProbeFail, NextCandidate, AfterScan, ScanPcs
  <2>3. passed' \in SUBSET Candidates
    BY <1>2 DEF ProbePass, ProbeFail, ScanInv
  <2> QED
    BY <1>2, <2>1, <2>2, <2>3 DEF ProbePass, ProbeFail
<1>3. CASE SetupStep
  <2>1. CASE Decide \/ AddDecide
    BY <2>1 DEF Decide, AddDecide
  <2>2. CASE Bootstrap
    <3>1. chosen \in Nat
      BY <2>2 DEF Bootstrap, ScanInv, Candidates
    <3>2. CASE BeginScan(chosen, "verify") /\ UNCHANGED outcome
      BY <2>2, <3>1, <3>2 DEF Bootstrap, BeginScan, Up, Down
    <3>3. CASE End("failed") /\ UNCHANGED <<scanVars, proxyHist>>
      BY <2>2, <3>3 DEF Bootstrap
    <3> QED
      BY <2>2, <3>2, <3>3 DEF Bootstrap
  <2>3. CASE Verified
    BY <2>3 DEF Verified, Free
  <2>4. CASE Select \/ SelectExhausted \/ Create
    BY <2>4 DEF Select, SelectExhausted, Create
  <2> QED
    BY <1>3, <2>1, <2>2, <2>3, <2>4 DEF SetupStep
<1>4. CASE SuggestStep
  BY <1>4 DEF SuggestStep, Suggest, SuggestNothing
<1>5. CASE DoctorStep
  BY <1>5 DEF DoctorStep, DoctorSsh, DoctorTunnel, DoctorListener, DoctorRemote, DoctorSkip,
     DoctorCheck, Reported
<1>6. CASE World
  <2>1. ASSUME NEW c \in Candidates, NEW l \in Levels, ProxyChange(c, l) PROVE TypeOK'
    BY <2>1 DEF ProxyChange, Up, Down
  <2>2. ASSUME NEW p \in Ports, ListenerChange(p) PROVE TypeOK'
    BY <2>2 DEF ListenerChange, Free
  <2> QED
    BY <1>6, <2>1, <2>2 DEF World
<1>7. CASE UNCHANGED vars
  BY <1>7 DEF vars
<1> QED
  BY <1>1, <1>2, <1>3, <1>4, <1>5, <1>6, <1>7 DEF Next, Step, SetupStep, SuggestStep, DoctorStep
\* Every step keeps what the scans have established.
LEMMA ScanStep == DInv /\ [Next]_vars =>
                    (ScanInv /\ ChoiceUnambiguous /\ HealthyAfterBootstrap /\ FirstHealthySaved)'
<1> DEFINE I == ScanInv /\ ChoiceUnambiguous /\ HealthyAfterBootstrap /\ FirstHealthySaved
<1> SUFFICES ASSUME DInv, [Next]_vars PROVE I'
  OBVIOUS
<1> USE DiscoveryConstants DEF DInv, TypeOK, ScanInv, ScanPcs, ChoiceUnambiguous,
        HealthyAfterBootstrap, FirstHealthySaved
<1>0. Up' \subseteq Candidates /\ NumCandidates >= 1 /\ Candidates \subseteq Nat
  BY DEF Up, Candidates
<1>1. CASE Begin
  <2>1. ASSUME NEW sel \in Selections \cup {None}, NEW s \in 0 .. LastPort + 1,
               NEW m \in 0 .. MaxAttempts, SetupBegin(sel, s, m)
        PROVE I'
    <3>1. CASE s \in Ports /\ m > 0 /\ sel \in Candidates \cup {None}
      BY <2>1, <3>1 DEF SetupBegin, BeginScan, Up, Down, Candidates
    <3>2. CASE ~ (s \in Ports /\ m > 0 /\ sel \in Candidates \cup {None})
      BY <2>1, <3>2 DEF SetupBegin
    <3> QED
      BY <3>1, <3>2
  <2>2. ASSUME NEW sel \in Candidates \cup {None}, AddBegin(sel) PROVE I'
    BY <2>2 DEF AddBegin, BeginScan, Up, Down, Candidates
  <2>3. ASSUME NEW p \in Ports, NEW m \in 1 .. MaxAttempts, SuggestBegin(p, m) PROVE I'
    BY <2>3 DEF SuggestBegin
  <2>4. ASSUME NEW c \in Candidates, DoctorBegin(c) PROVE I'
    BY <2>4 DEF DoctorBegin, BeginScan, Up, Down, Candidates
  <2> QED
    BY <1>1, <2>1, <2>2, <2>3, <2>4 DEF Begin
<1>2. CASE ProbePass /\ probe < 3
  BY <1>2 DEF ProbePass, Up, Down
<1>3. CASE (ProbePass /\ ~ (probe < 3)) \/ ProbeFail
  <2>1. cur \in passed' \cup wasDown /\ passed \subseteq passed' /\ passed' \subseteq wasUp
    BY <1>3 DEF ProbePass, ProbeFail, Up, Down, Levels, Probes
  <2>2. NextCandidate(AfterScan)
    BY <1>3 DEF ProbePass, ProbeFail
  <2>3. UNCHANGED <<worldVars, requestVars, chosen, port, outcome, proxyHist, portHist>>
    BY <1>3 DEF ProbePass, ProbeFail
  <2>4. pc \in ScanPcs
    BY <1>3 DEF ProbePass, ProbeFail
  <2>5. CASE pc = "verify"
    BY <2>1, <2>2, <2>3, <2>5 DEF NextCandidate, AfterScan, Up, Down
  <2>6. CASE pc = "scan" /\ ScanOver
    <3>1. pc' \in {"ssh", "decide"} /\ cur' = cur
      BY <2>2, <2>6 DEF NextCandidate, AfterScan
    <3>2. wanted = None => \A c \in Candidates : c \in 1 .. cur - 1 \/ c = cur
      BY <2>6 DEF ScanOver, Candidates
    <3>3. wanted = None => Candidates \subseteq passed' \cup wasDown
      BY <2>1, <2>6, <3>2
    <3> QED
      BY <2>1, <2>3, <3>1, <3>3 DEF Up, Down
  <2>7. CASE pc = "scan" /\ ~ ScanOver
    <3>1. pc' = pc /\ cur' = cur + 1 /\ cur' \in Candidates
      BY <2>2, <2>7 DEF NextCandidate, ScanOver, Candidates
    <3>2. \A c \in 1 .. cur' - 1 : c \in 1 .. cur - 1 \/ c = cur
      BY <3>1 DEF Candidates
    <3> QED
      BY <2>1, <2>3, <2>7, <3>1, <3>2 DEF Up, Down
  <2> QED
    BY <2>4, <2>5, <2>6, <2>7
<1>4. CASE Decide
  BY <1>4 DEF Decide
<1>5. CASE AddDecide
  <2>1. \A c \in Candidates : \A d \in 1 .. c - 1 : d \in Candidates /\ ~ (c <= d)
    BY DEF Candidates
  <2> QED
    BY <1>5, <2>1 DEF AddDecide
<1>6. CASE Bootstrap
  BY <1>6 DEF Bootstrap, BeginScan, Up, Down
<1>7. CASE Verified
  BY <1>7 DEF Verified
<1>8. CASE Select \/ SelectExhausted \/ Create
  BY <1>8 DEF Select, SelectExhausted, Create, PortInv
<1>9. CASE SuggestStep
  BY <1>9 DEF SuggestStep, Suggest, SuggestNothing
<1>10. CASE DoctorStep
  BY <1>10 DEF DoctorStep, DoctorSsh, DoctorTunnel, DoctorListener, DoctorRemote, DoctorSkip,
     DoctorCheck
<1>11. CASE World
  <2>1. ASSUME NEW c \in Candidates, NEW l \in Levels, ProxyChange(c, l) PROVE I'
    BY <2>1 DEF ProxyChange
  <2>2. ASSUME NEW p \in Ports, ListenerChange(p) PROVE I'
    BY <2>2 DEF ListenerChange, Up, Down
  <2> QED
    BY <1>11, <2>1, <2>2 DEF World
<1>12. CASE UNCHANGED vars
  BY <1>12 DEF vars, Up, Down
<1> QED
  BY <1>1, <1>2, <1>3, <1>4, <1>5, <1>6, <1>7, <1>8, <1>9, <1>10, <1>11, <1>12
     DEF Next, Step, SetupStep, SuggestStep, DoctorStep
\* Every step keeps what the port searches have established.
LEMMA PortStep == DInv /\ [Next]_vars => (PortInv /\ PortJustified /\ SuggestionJustified)'
<1> DEFINE I == PortInv /\ PortJustified /\ SuggestionJustified
<1> SUFFICES ASSUME DInv, [Next]_vars PROVE I'
  OBVIOUS
<1> USE DiscoveryConstants DEF DInv, TypeOK, PortInv, PortJustified, SuggestionJustified, SearchStart
<1>1. CASE Begin
  <2>1. ASSUME NEW sel \in Selections \cup {None}, NEW s \in 0 .. LastPort + 1,
               NEW m \in 0 .. MaxAttempts, SetupBegin(sel, s, m)
        PROVE I'
    <3>1. CASE s \in Ports /\ m > 0 /\ sel \in Candidates \cup {None}
      BY <2>1, <3>1 DEF SetupBegin, BeginScan
    <3>2. CASE ~ (s \in Ports /\ m > 0 /\ sel \in Candidates \cup {None})
      BY <2>1, <3>2 DEF SetupBegin
    <3> QED
      BY <3>1, <3>2
  <2>2. ASSUME NEW sel \in Candidates \cup {None}, AddBegin(sel) PROVE I'
    BY <2>2 DEF AddBegin, BeginScan
  <2>3. ASSUME NEW p \in Ports, NEW m \in 1 .. MaxAttempts, SuggestBegin(p, m) PROVE I'
    <3>1. p \in Nat /\ p + 1 .. (p + 1) - 1 = {}
      BY DEF Ports
    <3> QED
      BY <2>3, <3>1 DEF SuggestBegin, Free
  <2>4. ASSUME NEW c \in Candidates, DoctorBegin(c) PROVE I'
    BY <2>4 DEF DoctorBegin, BeginScan
  <2> QED
    BY <1>1, <2>1, <2>2, <2>3, <2>4 DEF Begin
<1>2. CASE ProbePass \/ ProbeFail
  BY <1>2 DEF ProbePass, ProbeFail, NextCandidate, AfterScan, ScanPcs
<1>3. CASE Decide \/ AddDecide \/ Bootstrap
  BY <1>3 DEF Decide, AddDecide, Bootstrap, BeginScan
<1>4. CASE Verified
  <2>1. op = "setup"
    BY <1>4 DEF Verified, ScanInv
  <2>2. start \in Nat /\ start .. start - 1 = {} /\ start <= SelectEnd
    BY <1>4, <2>1 DEF Verified, SelectEnd, Ports
  <2>3. CASE chosen \in passed
    <3>1. cur' = start /\ wasFree' = Free' /\ wasTaken' = taken' /\ pc' = "select"
      BY <1>4, <2>3 DEF Verified, Free
    <3>2. UNCHANGED <<requestVars, port, outcome, taken>>
      BY <1>4, <2>3 DEF Verified
    <3>3. SelectEnd' = SelectEnd
      BY <3>2 DEF SelectEnd
    <3> QED
      BY <1>4, <2>1, <2>2, <3>1, <3>2, <3>3 DEF Verified
  <2>4. CASE chosen \notin passed
    BY <1>4, <2>1, <2>4 DEF Verified
  <2> QED
    BY <2>3, <2>4
<1>5. CASE Select
  <2>1. /\ op = "setup" /\ start \in Nat /\ cur \in Nat /\ cur >= start /\ cur < SelectEnd
        /\ SelectEnd <= LastPort + 1 /\ SelectEnd <= start + attempts /\ start >= 1
        /\ SelectEnd \in Nat
    BY <1>5 DEF Select, SelectEnd, Ports
  <2>2. cur \in Ports
    BY <2>1 DEF Ports
  <2>3. CASE cur \notin taken /\ port' = cur /\ Goto("create") /\ UNCHANGED <<cur, outcome>>
    BY <1>5, <2>1, <2>2, <2>3 DEF Select, Free
  <2>4. CASE cur \in taken /\ cur' = cur + 1 /\ UNCHANGED <<port, pc, outcome>>
    <3>1. \A p \in start .. cur' - 1 : p \in start .. cur - 1 \/ p = cur
      BY <2>1, <2>4
    <3>2. SelectEnd' = SelectEnd /\ Free' = Free
      BY <1>5 DEF Select, SelectEnd, Free
    <3> QED
      BY <1>5, <2>1, <2>4, <3>1, <3>2 DEF Select
  <2>5. CASE End("check_failed") /\ UNCHANGED <<cur, port>>
    BY <1>5, <2>1, <2>5 DEF Select
  <2> QED
    BY <1>5, <2>3, <2>4, <2>5 DEF Select
<1>6. CASE SelectExhausted
  <2>1. start \in Nat /\ start >= 1 /\ op = "setup" /\ cur = SelectEnd
    BY <1>6 DEF SelectExhausted, Ports
  <2>2. \A p \in Ports : p >= start /\ p < start + attempts => p \in start .. cur - 1
    BY <2>1 DEF SelectEnd, Ports
  <2> QED
    BY <1>6, <2>1, <2>2 DEF SelectExhausted
<1>7. CASE Create
  BY <1>7 DEF Create, ScanInv
<1>8. CASE Suggest
  <2>1. /\ op = "suggest" /\ start \in Nat /\ cur \in Nat /\ cur >= start + 1 /\ cur < SuggestEnd
        /\ SuggestEnd <= LastPort + 1 /\ SuggestEnd <= start + attempts + 1 /\ SuggestEnd \in Nat
    BY <1>8 DEF Suggest, SuggestEnd, Ports
  <2>2. cur \in Ports
    BY <2>1 DEF Ports
  <2>3. CASE cur \notin taken /\ port' = cur /\ End("suggested") /\ UNCHANGED cur
    BY <1>8, <2>1, <2>2, <2>3 DEF Suggest, Free
  <2>4. CASE cur \in taken /\ cur' = cur + 1 /\ UNCHANGED <<port, pc, outcome>>
    <3>1. \A p \in start + 1 .. cur' - 1 : p \in start + 1 .. cur - 1 \/ p = cur
      BY <2>1, <2>4
    <3>2. Free' = Free
      BY <1>8 DEF Suggest, Free
    <3> QED
      BY <1>8, <2>1, <2>4, <3>1, <3>2 DEF Suggest
  <2>5. CASE End("no_suggestion") /\ UNCHANGED <<cur, port>>
    BY <1>8, <2>1, <2>5 DEF Suggest
  <2> QED
    BY <1>8, <2>3, <2>4, <2>5 DEF Suggest
<1>9. CASE SuggestNothing
  BY <1>9 DEF SuggestNothing
<1>10. CASE DoctorStep
  BY <1>10 DEF DoctorStep, DoctorSsh, DoctorTunnel, DoctorListener, DoctorRemote, DoctorSkip,
     DoctorCheck, DoctorInv
<1>11. CASE World
  <2>1. ASSUME NEW c \in Candidates, NEW l \in Levels, ProxyChange(c, l) PROVE I'
    BY <2>1 DEF ProxyChange, Free, SelectEnd
  <2>2. ASSUME NEW p \in Ports, ListenerChange(p) PROVE I'
    BY <2>2 DEF ListenerChange, SelectEnd
  <2> QED
    BY <1>11, <2>1, <2>2 DEF World
<1>12. CASE UNCHANGED vars
  BY <1>12 DEF vars, Free, SelectEnd
<1> QED
  BY <1>1, <1>2, <1>3, <1>4, <1>5, <1>6, <1>7, <1>8, <1>9, <1>10, <1>11, <1>12
     DEF Next, Step, DoctorStep

\* Every step keeps what the checks of a doctor run have established.
LEMMA ReportStep == DInv /\ [Next]_vars => DoctorInv'
<1> SUFFICES ASSUME DInv, [Next]_vars PROVE DoctorInv'
  OBVIOUS
<1> USE DiscoveryConstants DEF DInv, TypeOK, DoctorInv, LocalChecks, ProbeName, Probes, Checks
<1>1. CASE Begin
  BY <1>1 DEF Begin, SetupBegin, AddBegin, SuggestBegin, DoctorBegin, BeginScan, PortInv
<1>2. CASE ProbePass
  <2>1. CASE op = "doctor" /\ pc = "scan"
    <3>1. report' = Reported(ProbeName(probe), "PASS") /\ outcome' = outcome /\ op' = op
      BY <1>2, <2>1 DEF ProbePass
    <3>2. CASE probe < 3
      BY <1>2, <2>1, <3>1, <3>2 DEF ProbePass, Reported, PortInv
    <3>3. CASE probe = 3
      <4>1. \A c \in LocalChecks : report'[c] = "PASS"
        BY <2>1, <3>1, <3>3 DEF Reported
      <4>2. probe' = 1 /\ pc' \in {"ssh", "scan"}
        BY <1>2, <2>1, <3>3 DEF ProbePass, NextCandidate, AfterScan
      <4> QED
        BY <2>1, <3>1, <4>1, <4>2 DEF PortInv
    <3> QED
      BY <3>2, <3>3
  <2>2. CASE op # "doctor" \/ pc = "verify"
    BY <1>2, <2>2 DEF ProbePass, NextCandidate, AfterScan, ScanInv, PortInv, ScanPcs
  <2> QED
    BY <1>2, <2>1, <2>2 DEF ProbePass, ScanPcs
<1>3. CASE ProbeFail
  <2>1. CASE op = "doctor" /\ pc = "scan"
    <3>1. report' = ReportFailed /\ outcome' = outcome /\ op' = op
      BY <1>3, <2>1 DEF ProbeFail
    <3>2. \E c \in LocalChecks : report'[c] = "FAIL"
      BY <3>1 DEF ReportFailed
    <3>3. probe' = 1 /\ pc' \in {"ssh", "scan"}
      BY <1>3, <2>1 DEF ProbeFail, NextCandidate, AfterScan
    <3> QED
      BY <2>1, <3>1, <3>2, <3>3 DEF PortInv
  <2>2. CASE op # "doctor" \/ pc = "verify"
    BY <1>3, <2>2 DEF ProbeFail, NextCandidate, AfterScan, ScanInv, PortInv, ScanPcs
  <2> QED
    BY <1>3, <2>1, <2>2 DEF ProbeFail, ScanPcs
<1>4. CASE SetupStep
  BY <1>4 DEF SetupStep, Decide, Bootstrap, BeginScan, Verified, Select, SelectExhausted, Create,
     AddDecide, ScanInv, PortInv
<1>5. CASE SuggestStep
  BY <1>5 DEF SuggestStep, Suggest, SuggestNothing, PortInv
<1>6. CASE DoctorSsh \/ DoctorTunnel \/ DoctorListener
  BY <1>6 DEF DoctorSsh, DoctorTunnel, DoctorListener, DoctorCheck, Reported, PortInv
<1>7. CASE DoctorRemote \/ DoctorSkip
  BY <1>7 DEF DoctorRemote, DoctorSkip, Reported, PortInv
<1>8. CASE World
  BY <1>8 DEF World, ProxyChange, ListenerChange
<1>9. CASE UNCHANGED vars
  BY <1>9 DEF vars
<1> QED
  BY <1>1, <1>2, <1>3, <1>4, <1>5, <1>6, <1>7, <1>8, <1>9 DEF Next, Step, SetupStep, SuggestStep

\* The inductive invariant holds in every reachable state.
THEOREM Invariance == Spec => []DInv
<1>1. DInv /\ [Next]_vars => DInv'
  BY TypeStep, ScanStep, PortStep, ReportStep DEF DInv
<1> QED
  BY InitDInv, <1>1, PTL DEF Spec

\* Setup never passes over a second proxy that is healthy all along.
THEOREM UnambiguousChoice == Spec => []ChoiceUnambiguous
<1>1. DInv => ChoiceUnambiguous
  BY DEF DInv
<1> QED
  BY Invariance, <1>1, PTL

\* The proxy a setup saves was healthy after the bootstrap.
THEOREM FreshProxy == Spec => []HealthyAfterBootstrap
<1>1. DInv => HealthyAfterBootstrap
  BY DEF DInv
<1> QED
  BY Invariance, <1>1, PTL

\* The port of a setup is real, free and the first that was.
THEOREM FirstFreePort == Spec => []PortJustified
<1>1. DInv => PortJustified
  BY DEF DInv
<1> QED
  BY Invariance, <1>1, PTL

\* A suggested port is real, free and the next that was.
THEOREM NextFreePort == Spec => []SuggestionJustified
<1>1. DInv => SuggestionJustified
  BY DEF DInv
<1> QED
  BY Invariance, <1>1, PTL

\* An added profile gets the first healthy proxy.
THEOREM FirstHealthy == Spec => []FirstHealthySaved
<1>1. DInv => FirstHealthySaved
  BY DEF DInv
<1> QED
  BY Invariance, <1>1, PTL

\* A doctor run that exits with 0 has seen every check pass.
THEOREM HonestDoctor == Spec => []DoctorZeroMeansAll
<1>1. DInv => DoctorZeroMeansAll
  <2> SUFFICES ASSUME DInv, outcome = "reported", DoctorExit = 0
               PROVE \A c \in Checks : report[c] = "PASS"
    BY DEF DoctorZeroMeansAll
  <2>1. \A c \in Checks : report[c] # "FAIL"
    BY DEF DoctorExit
  <2> QED
    BY <2>1 DEF DInv, DoctorInv
<1> QED
  BY Invariance, <1>1, PTL
=============================================================================
