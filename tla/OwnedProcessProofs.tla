------------------------- MODULE OwnedProcessProofs -------------------------
(***************************************************************************)
(* RAB signals its own process and no other, for any set of pids, any      *)
(* number of processes and any number of reboots.  OInv is inductive; the  *)
(* properties follow from it.                                              *)
(***************************************************************************)
EXTENDS OwnedProcess, TLAPS

USE DEF Own, OwnTicks, OwnBoot, hostVars, ownVars, callVars, Goto, Return, Unhosted

-----------------------------------------------------------------------------
\* The initial states satisfy the inductive invariant.
LEMMA InitOInv == Init => OInv
<1> SUFFICES ASSUME Init PROVE OInv
  OBVIOUS
<1> USE OwnedConstants DEF Init
<1>1. TypeOK
  <2>1. table \in [Pids -> Processes \cup {None}]
    BY DEF Processes
  <2>2. writer \in BOOLEAN
    BY Zenon
  <2>3. marker \in {Identity, None} /\ record \in {Identity, None}
    OBVIOUS
  <2> QED
    BY <2>1, <2>2, <2>3 DEF TypeOK, Answers
<1>2. HostInv
  BY DEF HostInv
<1>3. CallInv /\ CheckedInv
  BY DEF CallInv, CheckedInv, LocalPcs, ScriptPcs
<1>4. AnswerInv /\ OnlyOwnSignalled
  BY DEF AnswerInv, OnlyOwnSignalled
<1> QED
  BY <1>1, <1>2, <1>3, <1>4 DEF OInv

\* The steps of a call that change nothing but pc, answer and mark.
Tests ==
    \/ TestMarker \/ TestProcess \/ TestTicks \/ TestBoot \/ TestComm \/ TestListener
    \/ TestAgain \/ TestRecheck \/ Match

\* Every step keeps the variables in their types.
LEMMA TypeStep == OInv /\ [Next]_vars => TypeOK'
<1> SUFFICES ASSUME OInv, [Next]_vars PROVE TypeOK'
  OBVIOUS
<1> USE OwnedConstants DEF OInv, TypeOK, Identity, LocalPcs, ScriptPcs, Answers
<1>1. CASE Host
  <2>1. ASSUME NEW p \in Pids, NEW tool \in BOOLEAN, NEW mine \in BOOLEAN, Spawn(p, tool, mine)
        PROVE TypeOK'
    <3>1. [serial |-> births + 1, ticks |-> clock + 1, tool |-> tool, mine |-> mine] \in Processes
      BY DEF Processes
    <3>2. table' \in [Pids -> Processes \cup {None}]
      BY <2>1, <3>1 DEF Spawn
    <3> QED
      BY <2>1, <3>2 DEF Spawn
  <2>2. ASSUME NEW p \in Pids, Exit(p) PROVE TypeOK'
    BY <2>2 DEF Exit
  <2>3. ASSUME NEW p \in Pids, Listen(p) PROVE TypeOK'
    BY <2>3 DEF Listen, Processes
  <2>4. CASE Reboot
    <3>1. writer' = FALSE
      BY <2>4 DEF Reboot
    <3>2. writer' \in BOOLEAN
      BY <3>1, Zenon
    <3> QED
      BY <2>4, <3>2 DEF Reboot
  <2>5. CASE WriteMarker
    BY <2>5 DEF WriteMarker
  <2>6. CASE WriterEnds
    <3>1. writer' = FALSE
      BY <2>6 DEF WriterEnds
    <3>2. writer' \in BOOLEAN
      BY <3>1, Zenon
    <3> QED
      BY <2>6, <3>2 DEF WriterEnds
  <2> QED
    BY <1>1, <2>1, <2>2, <2>3, <2>4, <2>5, <2>6 DEF Host
<1>2. CASE Call
  <2>1. CASE TerminateOwned \/ \E t \in BOOLEAN : IdentityAction(t)
    <3>1. began' \in BOOLEAN
      <4>1. began' = Alive(Own)
        BY <2>1 DEF TerminateOwned, IdentityAction, BeginCall
      <4>2. Alive(Own) \in BOOLEAN
        BY DEF Alive
      <4> QED
        BY <4>1, <4>2, Zenon
    <3> QED
      BY <2>1, <3>1 DEF TerminateOwned, IdentityAction, BeginCall
  <2>2. CASE ReadIdentity \/ Poll \/ Release \/ AnswerLost
    BY <2>2 DEF ReadIdentity, Poll, Release, AnswerLost
  <2>3. CASE Signal \/ Kill
    <3>1. Present => Target.serial \in Nat
      BY <2>3 DEF Present, Target, Processes, Signal, Kill, CallInv
    <3> QED
      BY <2>3, <3>1 DEF Signal, Kill
  <2>4. CASE Tests
    BY <2>4 DEF Tests, TestMarker, TestProcess, TestTicks, TestBoot, TestComm, TestListener,
                TestAgain, TestRecheck, Test, Match
  <2> QED
    BY <1>2, <2>1, <2>2, <2>3, <2>4 DEF Call, Tests
<1>3. CASE UNCHANGED vars
  BY <1>3 DEF vars
<1> QED
  BY <1>1, <1>2, <1>3 DEF Next

\* Every step keeps serials and start times unique.
LEMMA HostStep == OInv /\ [Next]_vars => HostInv'
<1> SUFFICES ASSUME OInv, [Next]_vars PROVE HostInv'
  OBVIOUS
<1> USE OwnedConstants DEF OInv, TypeOK, HostInv
<1>1. ASSUME NEW p \in Pids, NEW tool \in BOOLEAN, NEW mine \in BOOLEAN, Spawn(p, tool, mine)
      PROVE HostInv'
  <2>1. \A q \in Pids : q # p => table'[q] = table[q]
    BY <1>1 DEF Spawn
  <2>2. /\ table'[p].serial = births + 1 /\ table'[p].ticks = clock + 1
        /\ births' = births + 1 /\ clock' = clock + 1 /\ boot' = boot /\ ownPid' = ownPid
    BY <1>1 DEF Spawn
  <2> QED
    BY <2>1, <2>2 DEF Processes
<1>2. ASSUME NEW p \in Pids, Exit(p) PROVE HostInv'
  BY <1>2 DEF Exit
<1>3. CASE Reboot
  BY <1>3 DEF Reboot
<1>4. CASE UNCHANGED <<table, births, clock, boot, ownVars>>
  BY <1>4
<1>5. ASSUME NEW p \in Pids, Listen(p) PROVE HostInv'
  BY <1>4, <1>5 DEF Listen
<1>6. CASE WriteMarker \/ WriterEnds
  BY <1>4, <1>6 DEF WriteMarker, WriterEnds
<1>7. CASE Call
  BY <1>4, <1>7 DEF Call, TerminateOwned, IdentityAction, BeginCall, ReadIdentity, Poll, Release,
     AnswerLost, Signal, Kill, TestMarker, TestProcess, TestTicks, TestBoot, TestComm,
     TestListener, TestAgain, TestRecheck, Test, Match
<1>8. CASE UNCHANGED vars
  BY <1>4, <1>8 DEF vars
<1> QED
  BY <1>1, <1>2, <1>3, <1>5, <1>6, <1>7, <1>8 DEF Next, Host
\* Where RAB's process is.
LEMMA OwnPlace == ASSUME TypeOK, HostInv
                  PROVE Alive(Own) <=> table[ownPid] # None /\ table[ownPid].serial = Own
BY DEF TypeOK, HostInv, Alive

\* RAB's process does not come back.
LEMMA OwnStays == OInv /\ [Next]_vars => (Alive(Own)' => Alive(Own))
<1> SUFFICES ASSUME OInv, [Next]_vars, Alive(Own)' PROVE Alive(Own)
  OBVIOUS
<1> USE OwnedConstants DEF OInv, TypeOK, HostInv, Alive
<1>1. ASSUME NEW p \in Pids, NEW tool \in BOOLEAN, NEW mine \in BOOLEAN, Spawn(p, tool, mine)
      PROVE Alive(Own)
  <2>1. PICK q \in Pids : table'[q] # None /\ table'[q].serial = Own
    OBVIOUS
  <2>2. table'[p].serial = births + 1 /\ births + 1 # Own
    BY <1>1 DEF Spawn
  <2>3. q # p => table'[q] = table[q]
    BY <1>1 DEF Spawn
  <2> QED
    BY <2>1, <2>2, <2>3
<1>2. ASSUME NEW p \in Pids, Exit(p) PROVE Alive(Own)
  BY <1>2 DEF Exit
<1>3. CASE Reboot
  BY <1>3 DEF Reboot
<1>4. CASE UNCHANGED table
  BY <1>4
<1>5. ASSUME NEW p \in Pids, Listen(p) PROVE Alive(Own)
  BY <1>4, <1>5 DEF Listen
<1>6. CASE WriteMarker \/ WriterEnds
  BY <1>4, <1>6 DEF WriteMarker, WriterEnds
<1>7. CASE Call
  BY <1>4, <1>7 DEF Call, TerminateOwned, IdentityAction, BeginCall, ReadIdentity, Poll, Release,
     AnswerLost, Signal, Kill, TestMarker, TestProcess, TestTicks, TestBoot, TestComm,
     TestListener, TestAgain, TestRecheck, Test, Match
<1>8. CASE UNCHANGED vars
  BY <1>4, <1>8 DEF vars
<1> QED
  BY <1>1, <1>2, <1>3, <1>5, <1>6, <1>7, <1>8 DEF Next, Host

\* Every step keeps CallInv.
LEMMA CallStep == OInv /\ [Next]_vars => CallInv'
<1> SUFFICES ASSUME OInv, [Next]_vars PROVE CallInv'
  OBVIOUS
<1> USE OwnedConstants DEF OInv, TypeOK, CallInv, LocalPcs, ScriptPcs
<1>0. Alive(Own)' => Alive(Own)
  BY OwnStays
<1>1. CASE TerminateOwned \/ \E t \in BOOLEAN : IdentityAction(t)
  BY <1>0, <1>1 DEF TerminateOwned, IdentityAction, BeginCall
<1>2. CASE ReadIdentity
  BY <1>0, <1>2 DEF ReadIdentity
<1>3. CASE Tests
  BY <1>0, <1>3 DEF Tests, TestMarker, TestProcess, TestTicks, TestBoot, TestComm, TestListener,
     TestAgain, TestRecheck, Test, Match
<1>4. CASE Poll \/ Release \/ AnswerLost \/ Signal \/ Kill
  BY <1>0, <1>4 DEF Poll, Release, AnswerLost, Signal, Kill
<1>5. CASE Host
  <2>1. CASE \E p \in Pids : Exit(p) \/ Listen(p) \/ \E tool, mine \in BOOLEAN : Spawn(p, tool, mine)
    BY <1>0, <2>1 DEF Exit, Listen, Spawn
  <2>2. CASE Reboot \/ WriteMarker \/ WriterEnds
    BY <1>0, <2>2 DEF Reboot, WriteMarker, WriterEnds
  <2> QED
    BY <1>5, <2>1, <2>2 DEF Host
<1>6. CASE UNCHANGED vars
  BY <1>0, <1>6 DEF vars
<1> QED
  BY <1>1, <1>2, <1>3, <1>4, <1>5, <1>6 DEF Next, Call, Tests

\* Every step keeps what the checks have established.
LEMMA CheckedStep == OInv /\ [Next]_vars => CheckedInv'
<1> SUFFICES ASSUME OInv, [Next]_vars PROVE CheckedInv'
  OBVIOUS
<1> USE OwnedConstants DEF OInv, TypeOK, CheckedInv, LocalPcs, ScriptPcs
<1>1. pc # "idle" => record = Identity
  BY DEF CallInv
<1>2. CASE TerminateOwned \/ \E t \in BOOLEAN : IdentityAction(t)
  BY <1>2 DEF TerminateOwned, IdentityAction, BeginCall
<1>3. CASE Match
  <2>1. Matches => Alive(Own) /\ boot = OwnBoot /\ table[ownPid].serial = Own
    BY <1>1, <1>3, OwnPlace DEF Match, Matches, Target, Identity, HostInv
  <2> QED
    BY <1>3, <2>1 DEF Match, CallInv
<1>4. CASE TestTicks
  <2>1. StartTicks = FieldTicks => marker = None \/ (boot = OwnBoot => Alive(Own))
    BY <1>1, <1>4, OwnPlace DEF TestTicks, Test, StartTicks, FieldTicks, Target, Identity, HostInv
  <2> QED
    BY <1>4, <2>1 DEF TestTicks, Test, CallInv
<1>5. CASE TestBoot
  <2>1. boot = FieldBoot => marker # None /\ boot = OwnBoot
    BY <1>5 DEF FieldBoot, Identity
  <2> QED
    BY <1>5, <2>1 DEF TestBoot, Test
<1>6. CASE TestRecheck
  <2>1. StartTicks = FieldTicks => table[ownPid] = None \/ table[ownPid].serial = Own
    BY <1>1, <1>6 DEF TestRecheck, Test, StartTicks, FieldTicks, Target, Identity, HostInv, Processes
  <2> QED
    BY <1>6, <2>1 DEF TestRecheck, Test
<1>7. CASE TestMarker \/ TestProcess \/ TestComm \/ TestListener \/ TestAgain
  BY <1>7 DEF TestMarker, TestProcess, TestComm, TestListener, TestAgain, Test
<1>8. CASE ReadIdentity \/ Poll \/ Release \/ AnswerLost \/ Signal \/ Kill
  BY <1>8 DEF ReadIdentity, Poll, Release, AnswerLost, Signal, Kill
<1>9. CASE Host
  <2>1. ASSUME NEW p \in Pids, NEW tool \in BOOLEAN, NEW mine \in BOOLEAN, Spawn(p, tool, mine)
        PROVE CheckedInv'
    <3>1. table'[ownPid] = table[ownPid] \/ table'[ownPid].serial > mark
      BY <2>1 DEF Spawn, CallInv
    <3> QED
      BY <2>1, <3>1 DEF Spawn
  <2>2. ASSUME NEW p \in Pids, Exit(p) PROVE CheckedInv'
    BY <2>2 DEF Exit
  <2>3. ASSUME NEW p \in Pids, Listen(p) PROVE CheckedInv'
    BY <2>3 DEF Listen
  <2>4. CASE Reboot \/ WriterEnds
    BY <2>4 DEF Reboot, WriterEnds
  <2>5. CASE WriteMarker
    BY <2>5, <1>1 DEF WriteMarker, CallInv
  <2> QED
    BY <1>9, <2>1, <2>2, <2>3, <2>4, <2>5 DEF Host
<1>10. CASE UNCHANGED vars
  BY <1>10 DEF vars
<1> QED
  BY <1>2, <1>3, <1>4, <1>5, <1>6, <1>7, <1>8, <1>9, <1>10 DEF Next, Call

\* Every step keeps what the answers say.
LEMMA AnswerStep == OInv /\ [Next]_vars => AnswerInv'
<1> SUFFICES ASSUME OInv, [Next]_vars PROVE AnswerInv'
  OBVIOUS
<1> USE OwnedConstants DEF OInv, TypeOK, AnswerInv, CallInv, CheckedInv
<1>0. Alive(Own)' => Alive(Own)
  BY OwnStays
<1>1. CASE TerminateOwned \/ \E t \in BOOLEAN : IdentityAction(t)
  BY <1>1 DEF TerminateOwned, IdentityAction, BeginCall
<1>2. CASE Poll
  <2>1. ~ Present => ~ Alive(Own)
    BY <1>2, OwnPlace DEF Poll, Present, Target, Identity, HostInv
  <2> QED
    BY <1>0, <1>2, <2>1 DEF Poll
<1>3. CASE Release
  BY <1>0, <1>3 DEF Release
<1>4. CASE Tests
  BY <1>0, <1>4 DEF Tests, TestMarker, TestProcess, TestTicks, TestBoot, TestComm, TestListener,
     TestAgain, TestRecheck, Test, Match
<1>5. CASE ReadIdentity \/ AnswerLost \/ Signal \/ Kill
  BY <1>0, <1>5 DEF ReadIdentity, AnswerLost, Signal, Kill, ScriptPcs
<1>6. CASE Host
  <2>1. CASE \E p \in Pids : Exit(p) \/ Listen(p)
    BY <1>0, <2>1 DEF Exit, Listen
  <2>2. CASE \E p \in Pids, tool, mine \in BOOLEAN : Spawn(p, tool, mine)
    BY <1>0, <2>2 DEF Spawn
  <2>3. CASE Reboot \/ WriteMarker \/ WriterEnds
    BY <1>0, <2>3 DEF Reboot, WriteMarker, WriterEnds
  <2> QED
    BY <1>6, <2>1, <2>2, <2>3 DEF Host
<1>7. CASE UNCHANGED vars
  BY <1>0, <1>7 DEF vars
<1> QED
  BY <1>1, <1>2, <1>3, <1>4, <1>5, <1>6, <1>7 DEF Next, Call, Tests

\* Every signal goes to RAB's own process or to one that came after the check.
LEMMA SignalStep == OInv /\ [Next]_vars => OnlyOwnSignalled'
<1> SUFFICES ASSUME OInv, [Next]_vars PROVE OnlyOwnSignalled'
  OBVIOUS
<1> USE OwnedConstants DEF OInv, TypeOK, OnlyOwnSignalled
<1>1. CASE TerminateOwned \/ \E t \in BOOLEAN : IdentityAction(t)
  BY <1>1 DEF TerminateOwned, IdentityAction, BeginCall
<1>2. CASE Signal \/ Kill
  BY <1>2 DEF Signal, Kill, Present, Target, Identity, CallInv, CheckedInv
<1>3. CASE Tests
  <2>1. pc \in {"match", "ticks", "recheck"} => victim = None
    BY DEF CheckedInv, LocalPcs, ScriptPcs
  <2> QED
    BY <1>3, <2>1 DEF Tests, TestMarker, TestProcess, TestTicks, TestBoot, TestComm, TestListener,
       TestAgain, TestRecheck, Test, Match
<1>4. CASE ReadIdentity \/ AnswerLost \/ Poll \/ Release
  BY <1>4 DEF ReadIdentity, AnswerLost, Poll, Release
<1>5. CASE Host
  BY <1>5 DEF Host, Exit, Listen, Spawn, Reboot, WriteMarker, WriterEnds
<1>6. CASE UNCHANGED vars
  BY <1>6 DEF vars
<1> QED
  BY <1>1, <1>2, <1>3, <1>4, <1>5, <1>6 DEF Next, Call, Tests

\* The inductive invariant holds in every reachable state.
THEOREM Invariance == Spec => []OInv
<1>1. OInv /\ [Next]_vars => OInv'
  BY TypeStep, HostStep, CallStep, CheckedStep, AnswerStep, SignalStep DEF OInv
<1> QED
  BY InitOInv, <1>1, PTL DEF Spec

\* No process that existed at the last check is signalled unless it is RAB's own.
THEOREM SignalsOwn == Spec => []OnlyOwnSignalled
<1>1. OInv => OnlyOwnSignalled
  BY DEF OInv
<1> QED
  BY Invariance, <1>1, PTL

\* A positive answer is about the process on record.
THEOREM TruthfulOwner == Spec => []AnswerMeansOwn
<1>1. OInv => AnswerMeansOwn
  BY DEF OInv, AnswerInv, AnswerMeansOwn
<1> QED
  BY Invariance, <1>1, PTL

\* A process reported stopped is gone, a session reported cleaned has let go.
THEOREM TruthfulStop == Spec => []StoppedMeansReleased
<1>1. OInv => StoppedMeansReleased
  BY DEF OInv, AnswerInv, StoppedMeansReleased
<1> QED
  BY Invariance, <1>1, PTL
=============================================================================
