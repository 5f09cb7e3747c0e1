------------------------- MODULE ManagedSetupProofs -------------------------
(***************************************************************************)
(* Safety of the managed setup for any number of threads, servers, host    *)
(* keys and key ids, with crashes, lost answers and edits by the owner of  *)
(* an account.  SetupInv is inductive: host keys on record are confirmed   *)
(* ones, a generated key has one owner until it is issued, and a copy of   *)
(* authorized_keys has the owner's line as the owner left it, until the    *)
(* owner edits the file behind the copy.                                   *)
(***************************************************************************)
EXTENDS ManagedSetup, TLAPS

\* A call brings its arguments in, and records the fingerprint its user accepted.
LEMMA BeginCalls ==
    ASSUME NEW t \in Setups, Begin(t)
    PROVE  \E m \in {"confirm", "bootstrap", "managed"}, n \in Names \cup {None}, s \in Servers,
              f \in HostKeys \cup {None}, r \in issued \cup {None} :
             /\ m = "managed" <=> n # None
             /\ m = "managed" => profile[n] = None
             /\ m = "confirm" => f # None /\ r = None
             /\ Step(t, "idle", "handshake", Called(m, n, s, f, r))
             /\ accepted' = IF f = None THEN accepted ELSE accepted \cup {<<s, f>>}
             /\ UNCHANGED <<worldVars, issued, quiet, intent>>
  BY Zenon DEF Begin

USE DEF worldVars, historyVars, HostPcs, InstallPcs, ForwardPcs, FailingPcs, RollbackPcs, Receipt,
        Called, Artifacts, Replace, Installed, Succeed, HasRemoteArtifacts, Entry

-----------------------------------------------------------------------------
\* The two halves of the type invariant.
LocalsType == pc \in [Setups -> Pcs] /\ op \in [Setups -> Operations]

WorldType ==
    /\ hostKey \in [Servers -> HostKeys]
    /\ known \in [Entries -> Nat]
    /\ keyFiles \in [Keys -> {"unused", "pair", "left", "gone"}]
    /\ sshDir \in SUBSET Servers
    /\ akFile \in SUBSET Servers
    /\ authorized \in [Servers -> SUBSET Lines]
    /\ profile \in [Names -> Profiles \cup {None}]
    /\ accepted \in SUBSET Entries
    /\ issued \in SUBSET Keys
    /\ quiet \in SUBSET Keys
    /\ intent \in [Servers -> {"line", "none", "overtaken"}]

\* The empty known_hosts has its type.
LEMMA NoEntriesType == NoEntries \in [Entries -> Nat]
  BY DEF NoEntries

\* The record of an idle thread has its type.
LEMMA NoOperationType == NoOperation \in Operations
  BY NoEntriesType DEF Operations, NoOperation

\* So has a record marked by a failed rollback step.
LEMMA FailedType == ASSUME NEW o \in Operations PROVE Failed(o) \in Operations
  BY NoEntriesType DEF Operations, Failed

\* A step to a control state, with a record of the type, keeps the locals typed.
LEMMA StepType ==
    ASSUME LocalsType, NEW t \in Setups, NEW from, NEW to \in Pcs, NEW o \in Operations,
           Step(t, from, to, o)
    PROVE  LocalsType'
  BY DEF LocalsType, Step

\* The owner's edit changes nothing of a thread but the note that its copy is behind.
LEMMA OwnerKeeps ==
    ASSUME OwnerEdits, op \in [Setups -> Operations]
    PROVE  /\ UNCHANGED <<hostKey, known, keyFiles, profile, pc, accepted, issued, quiet>>
           /\ op' \in [Setups -> Operations]
           /\ \A t \in Setups :
                /\ op'[t].mode = op[t].mode /\ op'[t].name = op[t].name
                /\ op'[t].server = op[t].server /\ op'[t].fp = op[t].fp
                /\ op'[t].reuse = op[t].reuse /\ op'[t].host = op[t].host
                /\ op'[t].key = op[t].key /\ op'[t].made = op[t].made
                /\ op'[t].hosts = op[t].hosts /\ op'[t].lines = op[t].lines
                /\ op'[t].undo = op[t].undo
                /\ pc[t] \notin CopyPcs => op'[t] = op[t]
<1>1. PICK s \in Servers :
        op' = [t \in Setups |-> IF op[t].server = s /\ pc[t] \in CopyPcs
                                THEN [op[t] EXCEPT !.behind = TRUE] ELSE op[t]]
  BY DEF OwnerEdits
<1>2. UNCHANGED <<hostKey, known, keyFiles, profile, pc, accepted, issued, quiet>>
  BY DEF OwnerEdits
<1>3. ASSUME NEW o \in Operations
      PROVE  /\ [o EXCEPT !.behind = TRUE] \in Operations
             /\ [o EXCEPT !.behind = TRUE].mode = o.mode /\ [o EXCEPT !.behind = TRUE].name = o.name
             /\ [o EXCEPT !.behind = TRUE].server = o.server /\ [o EXCEPT !.behind = TRUE].fp = o.fp
             /\ [o EXCEPT !.behind = TRUE].reuse = o.reuse /\ [o EXCEPT !.behind = TRUE].host = o.host
             /\ [o EXCEPT !.behind = TRUE].key = o.key /\ [o EXCEPT !.behind = TRUE].made = o.made
             /\ [o EXCEPT !.behind = TRUE].hosts = o.hosts /\ [o EXCEPT !.behind = TRUE].lines = o.lines
             /\ [o EXCEPT !.behind = TRUE].undo = o.undo
  BY DEF Operations
<1> QED
  BY <1>1, <1>2, <1>3

\* Every step writes a record of the type.
LEMMA LocalsStep == SetupInv /\ [Next]_vars => LocalsType'
<1> SUFFICES ASSUME SetupInv, [Next]_vars PROVE LocalsType'
  OBVIOUS
<1> USE SetupConstants DEF SetupInv
<1>0. LocalsType
  BY DEF TypeOK, LocalsType
<1>1. CASE UNCHANGED vars
  BY <1>0, <1>1 DEF vars, LocalsType
<1>2. CASE Rotate
  BY <1>0, <1>2 DEF Rotate, LocalsType
<1>3. ASSUME NEW t \in Setups, Begin(t) \/ Forward(t) \/ Failure(t) \/ Rollback(t) \/ Crash(t)
      PROVE  LocalsType'
  <2>0. /\ op[t] \in Operations /\ known \in [Entries -> Nat] /\ NoEntries \in [Entries -> Nat]
        /\ pc[t] # "idle" => op[t].server \in Servers
        /\ LocalsType
    <3>1. op[t] \in Operations /\ known \in [Entries -> Nat]
      BY DEF TypeOK
    <3>2. pc[t] # "idle" => op[t].server \in Servers
      BY <3>1 DEF ControlInv, Operations
    <3> QED
      BY <1>0, <3>1, <3>2, NoEntriesType
  <2>1. CASE Begin(t)
    <3>1. PICK m \in {"confirm", "bootstrap", "managed"}, n \in Names \cup {None}, s \in Servers,
               f \in HostKeys \cup {None}, r \in issued \cup {None} :
            /\ m = "managed" <=> n # None
            /\ m = "managed" => profile[n] = None
            /\ m = "confirm" => f # None /\ r = None
            /\ Step(t, "idle", "handshake", Called(m, n, s, f, r))
            /\ accepted' = IF f = None THEN accepted ELSE accepted \cup {<<s, f>>}
            /\ UNCHANGED <<worldVars, issued, quiet, intent>>
      BY <2>1, BeginCalls, Zenon
    <3>2. r \in Keys \cup {None}
      BY DEF TypeOK
    <3>3. Called(m, n, s, f, r) \in Operations
      BY <3>2, NoOperationType DEF Operations, Called
    <3> QED
      BY <1>0, <3>1, <3>3, StepType DEF Pcs
  <2>2. CASE Handshake(t)
    <3> DEFINE h == hostKey[op[t].server]
               o == [op[t] EXCEPT !.host = h]
    <3>1. PICK to \in {"confirm", "status"} : Step(t, "handshake", to, o)
      BY <2>2 DEF Handshake
    <3>2. op[t].server \in Servers
      BY <2>0, <3>1 DEF Step
    <3>3. h \in HostKeys
      BY <3>2 DEF TypeOK
    <3>4. o \in Operations
      BY <2>0, <3>3 DEF Operations
    <3> QED
      BY <1>0, <3>1, <3>4, StepType DEF Pcs
  <2>3. CASE Status(t)
    <3>1. PICK to \in {"confirm", "auth"} : Step(t, "status", to, op[t])
      BY <2>3 DEF Status
    <3> QED
      BY <2>0, <3>1, StepType DEF Pcs
  <2>4. CASE ConfirmStatus(t)
    <3>1. \/ Step(t, "confirm", "idle", NoOperation)
          \/ \E to \in {"auth", "hostRead"} : Step(t, "confirm", to, op[t])
      BY <2>4 DEF ConfirmStatus, Confirmed, Return
    <3> QED
      BY <2>0, <3>1, NoOperationType, StepType DEF Pcs
  <2>5. CASE HostRead(t)
    <3>1. Step(t, "hostRead", "hostWrite", [op[t] EXCEPT !.hosts = known])
      BY <2>5 DEF HostRead, Abort
    <3>2. [op[t] EXCEPT !.hosts = known] \in Operations
      BY <2>0, FailedType DEF Operations
    <3> QED
      BY <1>0, <3>1, <3>2, StepType DEF Pcs
  <2>6. CASE HostWrite(t)
    <3> DEFINE o == [op[t] EXCEPT !.hosts = NoEntries, !.made = @ \cup {"host"}]
    <3>1. \/ Step(t, "hostWrite", "idle", NoOperation)
          \/ Step(t, "hostWrite", "auth", o)
      BY <2>6 DEF HostWrite, Confirmed, Return
    <3>2. o \in Operations
      BY <2>0 DEF Operations
    <3> QED
      BY <1>0, <3>1, <3>2, NoOperationType, StepType DEF Pcs
  <2>7. CASE Authenticate(t)
    <3>1. Step(t, "auth", "key", op[t])
      BY <2>7 DEF Authenticate, Abort
    <3> QED
      BY <2>0, <3>1, StepType DEF Pcs
  <2>8. CASE LoadKey(t)
    <3>1. Step(t, "key", "sftp", [op[t] EXCEPT !.key = op[t].reuse])
      BY <2>8 DEF LoadKey
    <3>2. [op[t] EXCEPT !.key = op[t].reuse] \in Operations
      BY <2>0 DEF Operations
    <3> QED
      BY <1>0, <3>1, <3>2, StepType DEF Pcs
  <2>9. CASE GenerateKey(t)
    <3>1. PICK k \in Keys : Step(t, "key", "sftp", [op[t] EXCEPT !.key = k, !.made = @ \cup {"key"}])
      BY <2>9 DEF GenerateKey
    <3>2. [op[t] EXCEPT !.key = k, !.made = @ \cup {"key"}] \in Operations
      BY <2>0 DEF Operations
    <3> QED
      BY <1>0, <3>1, <3>2, StepType DEF Pcs
  <2>10. CASE OpenSftp(t)
    <3>1. Step(t, "sftp", "dir", op[t])
      BY <2>10 DEF OpenSftp, Abort
    <3> QED
      BY <2>0, <3>1, StepType DEF Pcs
  <2>11. CASE EnsureDirectory(t)
    <3>1. PICK m \in SUBSET {"dir"} : Step(t, "dir", "akRead", [op[t] EXCEPT !.made = @ \cup m])
      BY <2>11 DEF EnsureDirectory
    <3>2. [op[t] EXCEPT !.made = @ \cup m] \in Operations
      BY <2>0 DEF Operations
    <3> QED
      BY <1>0, <3>1, <3>2, StepType DEF Pcs
  <2>12. CASE ReadKeys(t)
    <3> DEFINE s == op[t].server
               o(m) == [op[t] EXCEPT !.lines = authorized[s], !.made = @ \cup m]
    <3>1. CASE Step(t, "akRead", "verify", op[t])
      BY <2>0, <3>1, StepType DEF Pcs
    <3>2. ASSUME NEW m \in SUBSET {"file"}, Step(t, "akRead", "akWrite", o(m))
          PROVE  LocalsType'
      <4>1. authorized[s] \in SUBSET Lines
        BY <2>0, <3>2 DEF TypeOK, Step
      <4>2. o(m) \in Operations
        BY <2>0, <4>1 DEF Operations
      <4> QED
        BY <1>0, <3>2, <4>2, StepType DEF Pcs
    <3> HIDE DEF o
    <3>3. CASE s \in akFile
      <4>1. Step(t, "akRead", "verify", op[t]) \/ Step(t, "akRead", "akWrite", o({}))
        BY <2>12, <3>3 DEF ReadKeys, o
      <4> QED
        BY <3>1, <3>2, <4>1
    <3>4. CASE s \notin akFile
      <4>1. Step(t, "akRead", "verify", op[t]) \/ Step(t, "akRead", "akWrite", o({"file"}))
        BY <2>12, <3>4 DEF ReadKeys, o
      <4> QED
        BY <3>1, <3>2, <4>1
    <3> QED
      BY <3>3, <3>4
  <2>13. CASE WriteKeys(t)
    <3>1. Step(t, "akWrite", "verify", [op[t] EXCEPT !.lines = {}, !.behind = FALSE, !.made = @ \cup {"line"}])
      BY <2>13 DEF WriteKeys, Abort
    <3>2. [op[t] EXCEPT !.lines = {}, !.behind = FALSE, !.made = @ \cup {"line"}] \in Operations
      BY <2>0, FailedType DEF Operations
    <3> QED
      BY <1>0, <3>1, <3>2, StepType DEF Pcs
  <2>14. CASE VerifyLogin(t)
    <3>1. Step(t, "verify", "idle", NoOperation) \/ Step(t, "verify", "complete", op[t])
      BY <2>14 DEF VerifyLogin, Return
    <3> QED
      BY <2>0, <3>1, NoOperationType, StepType DEF Pcs
  <2>15. CASE CreateProfile(t)
    <3>1. Step(t, "complete", "idle", NoOperation)
      BY <2>15 DEF CreateProfile, Return
    <3> QED
      BY <1>0, <3>1, NoOperationType, StepType DEF Pcs
  <2>16. CASE StepFails(t)
    <3>1. PICK from : Step(t, from, "rbLine", [op[t] EXCEPT !.hosts = NoEntries, !.lines = {}, !.behind = FALSE])
      BY <2>16 DEF StepFails, Abort
    <3>2. [op[t] EXCEPT !.hosts = NoEntries, !.lines = {}, !.behind = FALSE] \in Operations
      BY <2>0 DEF Operations
    <3> QED
      BY <1>0, <3>1, <3>2, StepType DEF Pcs
  <2>17. CASE GenerateFails(t)
    <3>1. Step(t, "key", "rbLine", [op[t] EXCEPT !.hosts = NoEntries, !.lines = {}, !.behind = FALSE])
      BY <2>17 DEF GenerateFails, Abort
    <3>2. [op[t] EXCEPT !.hosts = NoEntries, !.lines = {}, !.behind = FALSE] \in Operations
      BY <2>0, FailedType DEF Operations
    <3> QED
      BY <1>0, <3>1, <3>2, StepType DEF Pcs
  <2>18. CASE EnsureDirectoryFails(t)
    <3>1. Step(t, "dir", "rbLine", [op[t] EXCEPT !.hosts = NoEntries, !.lines = {}, !.behind = FALSE])
      BY <2>18 DEF EnsureDirectoryFails, Abort
    <3>2. [op[t] EXCEPT !.hosts = NoEntries, !.lines = {}, !.behind = FALSE] \in Operations
      BY <2>0, FailedType DEF Operations
    <3> QED
      BY <1>0, <3>1, <3>2, StepType DEF Pcs
  <2>19. CASE PermissionsFail(t)
    <3>1. Step(t, "akRead", "rbLine", [[op[t] EXCEPT !.made = @ \ Receipt] EXCEPT !.hosts = NoEntries, !.lines = {}, !.behind = FALSE])
      BY <2>19 DEF PermissionsFail, Abort
    <3>2. [[op[t] EXCEPT !.made = @ \ Receipt] EXCEPT !.hosts = NoEntries, !.lines = {}, !.behind = FALSE] \in Operations
      BY <2>0, FailedType DEF Operations
    <3> QED
      BY <1>0, <3>1, <3>2, StepType DEF Pcs
  <2>20. CASE InstallFails(t)
    <3> DEFINE o == [op[t] EXCEPT !.made = @ \ Receipt]
               a == [o EXCEPT !.hosts = NoEntries, !.lines = {}, !.behind = FALSE]
               b == [[o EXCEPT !.undo = "failed"] EXCEPT !.hosts = NoEntries, !.lines = {}, !.behind = FALSE]
    <3>1. PICK from : Step(t, from, "rbLine", a) \/ Step(t, from, "rbLine", b)
      BY <2>20 DEF InstallFails, Abort
    <3>2. o \in Operations
      BY <2>0 DEF Operations
    <3>3. [o EXCEPT !.undo = "failed"] \in Operations
      BY <3>2 DEF Operations
    <3> HIDE DEF o
    <3>4. a \in Operations
      BY <3>2, NoEntriesType DEF Operations
    <3>5. b \in Operations
      BY <3>3, NoEntriesType DEF Operations
    <3> HIDE DEF a, b
    <3> QED
      BY <1>0, <3>1, <3>4, <3>5, StepType DEF Pcs
  <2>21. CASE WriteKeysLost(t)
    <3> DEFINE o(u) == [op[t] EXCEPT !.made = @ \ Receipt, !.undo = u]
    <3>1. PICK u \in {"clean", "failed"} :
            Step(t, "akWrite", "rbLine", [o(u) EXCEPT !.hosts = NoEntries, !.lines = {}, !.behind = FALSE])
      BY <2>21 DEF WriteKeysLost, Abort
    <3>2. [o(u) EXCEPT !.hosts = NoEntries, !.lines = {}, !.behind = FALSE] \in Operations
      BY <2>0 DEF Operations
    <3> QED
      BY <1>0, <3>1, <3>2, StepType DEF Pcs
  <2>22. CASE RollbackRead(t)
    <3> DEFINE s == op[t].server
               o == [op[t] EXCEPT !.lines = authorized[s]]
    <3>1. \/ \E to \in {"rbKey", "rbFile"} : Step(t, "rbLine", to, op[t])
          \/ Step(t, "rbLine", "rbWrite", o)
          \/ Step(t, "rbLine", "rbKey", Failed(op[t]))
      BY <2>22 DEF RollbackRead
    <3>2. authorized[s] \in SUBSET Lines
      BY <2>0, <3>1 DEF TypeOK, Step
    <3>3. o \in Operations
      BY <2>0, <3>2 DEF Operations
    <3> QED
      BY <2>0, <3>1, <3>3, FailedType, StepType DEF Pcs
  <2>23. CASE RollbackWrite(t)
    <3>1. Step(t, "rbWrite", "rbFile", [op[t] EXCEPT !.lines = {}, !.behind = FALSE])
      BY <2>23 DEF RollbackWrite, Abort
    <3>2. [op[t] EXCEPT !.lines = {}, !.behind = FALSE] \in Operations
      BY <2>0, FailedType DEF Operations
    <3> QED
      BY <1>0, <3>1, <3>2, StepType DEF Pcs
  <2>24. CASE RollbackWriteLost(t)
    <3>1. Step(t, "rbWrite", "rbKey", Failed(op[t]))
      BY <2>24 DEF RollbackWriteLost, Abort
    <3>2. Failed(op[t]) \in Operations
      BY <2>0, FailedType DEF Operations
    <3> QED
      BY <1>0, <3>1, <3>2, StepType DEF Pcs
  <2>25. CASE RollbackFile(t)
    <3>1. \/ \E to \in {"rbDir", "rbUnlink"} : Step(t, "rbFile", to, op[t])
          \/ Step(t, "rbFile", "rbKey", Failed(op[t]))
      BY <2>25 DEF RollbackFile
    <3> QED
      BY <2>0, <3>1, FailedType, StepType DEF Pcs
  <2>26. CASE RollbackUnlink(t)
    <3>1. Step(t, "rbUnlink", "rbDir", [op[t] EXCEPT !.behind = FALSE])
      BY <2>26 DEF RollbackUnlink
    <3>2. [op[t] EXCEPT !.behind = FALSE] \in Operations
      BY <2>0 DEF Operations
    <3> QED
      BY <2>0, <3>1, <3>2, StepType DEF Pcs
  <2>27. CASE RollbackDirectory(t)
    <3>1. \/ Step(t, "rbDir", "rbKey", op[t])
      BY <2>27 DEF RollbackDirectory
    <3> QED
      BY <2>0, <3>1, FailedType, StepType DEF Pcs
  <2>28. CASE RollbackRemoteFails(t)
    <3>1. \/ \E from \in {"rbLine", "rbFile", "rbDir", "rbWrite", "rbUnlink"} :
                Step(t, from, "rbKey", Failed(op[t]))
      BY <2>28 DEF RollbackRemoteFails
    <3> QED
      BY <2>0, <3>1, FailedType, StepType DEF Pcs
  <2>29. CASE RollbackKey(t)
    <3>1. \/ Step(t, "rbKey", "rbHost", op[t])
          \/ Step(t, "rbKey", "rbHost", Failed(op[t]))
      BY <2>29 DEF RollbackKey
    <3> QED
      BY <2>0, <3>1, FailedType, StepType DEF Pcs
  <2>30. CASE RollbackHostRead(t)
    <3>1. \/ Step(t, "rbHost", "end", op[t])
          \/ Step(t, "rbHost", "end", Failed(op[t]))
          \/ Step(t, "rbHost", "rbHostWrite", [op[t] EXCEPT !.hosts = known])
      BY <2>30 DEF RollbackHostRead
    <3>2. [op[t] EXCEPT !.hosts = known] \in Operations
      BY <2>0 DEF Operations
    <3> QED
      BY <2>0, <3>1, <3>2, FailedType, StepType DEF Pcs
  <2>31. CASE RollbackHostWrite(t)
    <3>1. \/ Step(t, "rbHostWrite", "end", [op[t] EXCEPT !.hosts = NoEntries])
          \/ Step(t, "rbHostWrite", "end", Failed(op[t]))
      BY <2>31 DEF RollbackHostWrite
    <3>2. [op[t] EXCEPT !.hosts = NoEntries] \in Operations
      BY <2>0 DEF Operations
    <3> QED
      BY <2>0, <3>1, <3>2, FailedType, StepType DEF Pcs
  <2>32. CASE RaiseFailure(t)
    <3>1. Step(t, "end", "idle", NoOperation)
      BY <2>32 DEF RaiseFailure, Return
    <3> QED
      BY <1>0, <3>1, NoOperationType, StepType DEF Pcs
  <2>33. CASE Crash(t)
    <3>1. PICK from : Step(t, from, "idle", NoOperation)
      BY <2>33 DEF Crash, Return
    <3> QED
      BY <1>0, <3>1, NoOperationType, StepType DEF Pcs
  <2> QED
    BY <1>3, <2>1, <2>2, <2>3, <2>4, <2>5, <2>6, <2>7, <2>8, <2>9, <2>10, <2>11, <2>12, <2>13, <2>14, <2>15, <2>16, <2>17, <2>18, <2>19, <2>20, <2>21, <2>22, <2>23, <2>24, <2>25, <2>26, <2>27, <2>28, <2>29, <2>30, <2>31, <2>32, <2>33 DEF Forward, Failure, Rollback
<1>4. CASE OwnerEdits
  BY <1>0, <1>4, OwnerKeeps DEF LocalsType
<1> QED
  BY <1>1, <1>2, <1>3, <1>4 DEF Next

\* The history of the owner's line keeps its type when a setup overtakes the owner.
LEMMA OvertakesType ==
    ASSUME intent \in [Servers -> {"line", "none", "overtaken"}], NEW t, Overtakes(t)
    PROVE  intent' \in [Servers -> {"line", "none", "overtaken"}]
<1>1. CASE op[t].behind
  BY <1>1 DEF Overtakes
<1>2. CASE ~ op[t].behind
  BY <1>2 DEF Overtakes
<1> QED
  BY <1>1, <1>2

\* The files, the accounts and the history keep their types.
LEMMA WorldStep == SetupInv /\ [Next]_vars => WorldType'
<1> SUFFICES ASSUME SetupInv, [Next]_vars PROVE WorldType'
  OBVIOUS
<1> USE SetupConstants DEF SetupInv, TypeOK, WorldType, ControlInv, Operations, Lines, NoOperation
<1>1. CASE UNCHANGED vars
  BY <1>1 DEF vars
<1>2. CASE Rotate
  BY <1>2 DEF Rotate
<1>3. ASSUME NEW t \in Setups, Begin(t) \/ Forward(t) \/ Failure(t) \/ Rollback(t) \/ Crash(t)
      PROVE  WorldType'
  <2>1. CASE Begin(t)
    <3>1. PICK m \in {"confirm", "bootstrap", "managed"}, n \in Names \cup {None}, s \in Servers,
               f \in HostKeys \cup {None}, r \in issued \cup {None} :
            /\ m = "managed" <=> n # None
            /\ m = "managed" => profile[n] = None
            /\ m = "confirm" => f # None /\ r = None
            /\ Step(t, "idle", "handshake", Called(m, n, s, f, r))
            /\ accepted' = IF f = None THEN accepted ELSE accepted \cup {<<s, f>>}
            /\ UNCHANGED <<worldVars, issued, quiet, intent>>
      BY <2>1, BeginCalls, Zenon
    <3>2. f # None => <<s, f>> \in Entries
      BY DEF Entries
    <3>3. accepted' \in SUBSET Entries
      BY <3>1, <3>2
    <3> QED
      BY <3>1, <3>3
  <2>2. CASE Handshake(t)
    BY <2>2 DEF Handshake, Step, Return, Abort, Confirmed, Failed
  <2>3. CASE Status(t)
    <3>0. UNCHANGED <<worldVars, historyVars>>
      BY <2>3 DEF Status
    <3>1. CASE KnownKeys(op[t].server) = {} /\ op[t].fp = op[t].host /\ Step(t, "status", "confirm", op[t])
      BY <3>0, <3>1 DEF Step, Return, Abort, Confirmed, Failed
    <3>2. CASE op[t].host \in KnownKeys(op[t].server) /\ Step(t, "status", "auth", op[t])
      BY <3>0, <3>2 DEF Step, Return, Abort, Confirmed, Failed
    <3> QED
      BY <2>3, <3>1, <3>2 DEF Status
  <2>4. CASE ConfirmStatus(t)
    <3>0. UNCHANGED <<worldVars, historyVars>>
      BY <2>4 DEF ConfirmStatus
    <3>1. CASE op[t].host \in KnownKeys(op[t].server) /\ op[t].mode = "confirm" /\ Return(t, "confirm")
      BY <3>0, <3>1 DEF Step, Return, Abort, Confirmed, Failed
    <3>2. CASE op[t].host \in KnownKeys(op[t].server) /\ op[t].mode # "confirm" /\ Step(t, "confirm", "auth", op[t])
      BY <3>0, <3>2 DEF Step, Return, Abort, Confirmed, Failed
    <3>3. CASE Step(t, "confirm", "hostRead", op[t])
      BY <3>0, <3>3 DEF Step, Return, Abort, Confirmed, Failed
    <3> QED
      BY <2>4, <3>1, <3>2, <3>3 DEF ConfirmStatus, Confirmed
  <2>5. CASE HostRead(t)
    BY <2>5 DEF HostRead, Step, Return, Abort, Confirmed, Failed
  <2>6. CASE HostWrite(t)
    <3> DEFINE e == <<op[t].server, op[t].host>>
    <3>1. op[t].server \in Servers /\ op[t].host \in HostKeys /\ op[t].hosts \in [Entries -> Nat]
      BY <2>6 DEF HostWrite, EntryInv, Step, Confirmed, Return
    <3>2. e \in Entries
      BY <3>1 DEF Entries
    <3>3. known' = [op[t].hosts EXCEPT ![e] = @ + 1]
      BY <2>6 DEF HostWrite
    <3> HIDE DEF e
    <3>4. known' \in [Entries -> Nat]
      BY <3>1, <3>2, <3>3
    <3> QED
      BY <2>6, <3>4 DEF HostWrite
  <2>7. CASE Authenticate(t)
    BY <2>7 DEF Authenticate, Step, Return, Abort, Confirmed, Failed
  <2>8. CASE LoadKey(t)
    BY <2>8 DEF LoadKey, Step, Return, Abort, Confirmed, Failed
  <2>9. CASE GenerateKey(t)
    BY <2>9 DEF GenerateKey, Step, Return, Abort, Confirmed, Failed
  <2>10. CASE OpenSftp(t)
    BY <2>10 DEF OpenSftp, Step, Return, Abort, Confirmed, Failed
  <2>11. CASE EnsureDirectory(t)
    BY <2>11 DEF EnsureDirectory, Step, Return, Abort, Confirmed, Failed
  <2>12. CASE ReadKeys(t)
    <3> DEFINE s == op[t].server
    <3>0. UNCHANGED <<worldVars, historyVars>>
      BY <2>12 DEF ReadKeys
    <3>1. CASE Step(t, "akRead", "verify", op[t])
      BY <3>0, <3>1 DEF Step, Return, Abort, Confirmed, Failed
    <3>2. CASE s \notin akFile /\ Step(t, "akRead", "akWrite", [op[t] EXCEPT !.lines = authorized[s], !.made = @ \cup {"file"}])
      BY <3>0, <3>2 DEF Step, Return, Abort, Confirmed, Failed
    <3>3. CASE s \in akFile /\ Step(t, "akRead", "akWrite", [op[t] EXCEPT !.lines = authorized[s], !.made = @ \cup {}])
      BY <3>0, <3>3 DEF Step, Return, Abort, Confirmed, Failed
    <3> QED
      BY <2>12, <3>1, <3>2, <3>3 DEF ReadKeys
  <2>13. CASE WriteKeys(t)
    BY <2>13, OvertakesType DEF WriteKeys, Step, Return, Abort, Confirmed, Failed
  <2>14. CASE VerifyLogin(t)
    <3>0. keyFiles[op[t].key] = "pair" /\ UNCHANGED worldVars
      BY <2>14 DEF VerifyLogin
    <3>1. CASE Succeed(t, "verify")
      BY <3>0, <3>1 DEF Step, Return, Abort, Confirmed, Failed
    <3>2. CASE op[t].mode # "bootstrap" /\ Step(t, "verify", "complete", op[t]) /\ UNCHANGED historyVars
      BY <3>0, <3>2 DEF Step, Return, Abort, Confirmed, Failed
    <3> QED
      BY <2>14, <3>1, <3>2 DEF VerifyLogin
  <2>15. CASE CreateProfile(t)
    <3> DEFINE p == [server |-> op[t].server, key |-> op[t].key, host |-> op[t].host]
    <3>1. op[t].server \in Servers /\ op[t].key \in Keys /\ op[t].host \in HostKeys
      BY <2>15 DEF CreateProfile
    <3>2. p \in Profiles
      BY <3>1 DEF Profiles
    <3>3. profile' = [profile EXCEPT ![op[t].name] = p]
      BY <2>15 DEF CreateProfile
    <3> HIDE DEF p
    <3>4. profile' \in [Names -> Profiles \cup {None}]
      BY <3>2, <3>3
    <3> QED
      BY <2>15, <3>1, <3>4 DEF CreateProfile
  <2>16. CASE StepFails(t)
    BY <2>16 DEF StepFails, Step, Return, Abort, Confirmed, Failed
  <2>17. CASE GenerateFails(t)
    BY <2>17 DEF GenerateFails, Step, Return, Abort, Confirmed, Failed
  <2>18. CASE EnsureDirectoryFails(t)
    BY <2>18 DEF EnsureDirectoryFails, Step, Return, Abort, Confirmed, Failed
  <2>19. CASE PermissionsFail(t)
    BY <2>19 DEF PermissionsFail, Step, Return, Abort, Confirmed, Failed
  <2>20. CASE InstallFails(t)
    <3> DEFINE s == op[t].server
    <3>0. UNCHANGED <<hostKey, known, keyFiles, akFile, authorized, profile, historyVars>>
      BY <2>20 DEF InstallFails
    <3>1. ASSUME NEW from, from \in {"akRead", "akWrite"} /\ Abort(t, from, [op[t] EXCEPT !.made = @ \ Receipt]) /\ UNCHANGED sshDir
          PROVE  WorldType'
      BY <3>0, <3>1 DEF Step, Return, Abort, Confirmed, Failed
    <3>2. ASSUME NEW from, from \in {"akRead", "akWrite"} /\ Abort(t, from, [op[t] EXCEPT !.made = @ \ Receipt]) /\ sshDir' = sshDir \ {s}
          PROVE  WorldType'
      BY <3>0, <3>2 DEF Step, Return, Abort, Confirmed, Failed
    <3>3. ASSUME NEW from, from \in {"akRead", "akWrite"} /\ Abort(t, from, [[op[t] EXCEPT !.made = @ \ Receipt] EXCEPT !.undo = "failed"]) /\ UNCHANGED sshDir
          PROVE  WorldType'
      BY <3>0, <3>3 DEF Step, Return, Abort, Confirmed, Failed
    <3> QED
      BY <2>20, <3>1, <3>2, <3>3 DEF InstallFails
  <2>21. CASE WriteKeysLost(t)
    BY <2>21, OvertakesType DEF WriteKeysLost, Step, Return, Abort, Confirmed, Failed
  <2>22. CASE RollbackRead(t)
    <3> DEFINE s == op[t].server
    <3>0. UNCHANGED <<hostKey, known, keyFiles, akFile, authorized, profile, historyVars>>
      BY <2>22 DEF RollbackRead
    <3>1. CASE Step(t, "rbLine", "rbKey", op[t]) /\ UNCHANGED sshDir
      BY <3>0, <3>1 DEF Step, Return, Abort, Confirmed, Failed
    <3>2. CASE Step(t, "rbLine", "rbFile", op[t]) /\ UNCHANGED sshDir
      BY <3>0, <3>2 DEF Step, Return, Abort, Confirmed, Failed
    <3>3. CASE sshDir' = sshDir \cup {s} /\ op[t].key \in authorized[s] /\ Step(t, "rbLine", "rbWrite", [op[t] EXCEPT !.lines = authorized[s]])
      BY <3>0, <3>3 DEF Step, Return, Abort, Confirmed, Failed
    <3>4. CASE sshDir' = sshDir \cup {s} /\ Step(t, "rbLine", "rbKey", Failed(op[t]))
      BY <3>0, <3>4 DEF Step, Return, Abort, Confirmed, Failed
    <3> QED
      BY <2>22, <3>1, <3>2, <3>3, <3>4 DEF RollbackRead
  <2>23. CASE RollbackWrite(t)
    BY <2>23, OvertakesType DEF RollbackWrite, Step, Return, Abort, Confirmed, Failed
  <2>24. CASE RollbackWriteLost(t)
    BY <2>24, OvertakesType DEF RollbackWriteLost, Step, Return, Abort, Confirmed, Failed
  <2>25. CASE RollbackFile(t)
    <3>0. UNCHANGED <<worldVars, historyVars>>
      BY <2>25 DEF RollbackFile
    <3>1. CASE Step(t, "rbFile", "rbDir", op[t])
      BY <3>0, <3>1 DEF Step, Return, Abort, Confirmed, Failed
    <3>2. CASE "file" \in op[t].made /\ Step(t, "rbFile", "rbUnlink", op[t])
      BY <3>0, <3>2 DEF Step, Return, Abort, Confirmed, Failed
    <3>3. CASE Step(t, "rbFile", "rbKey", Failed(op[t]))
      BY <3>0, <3>3 DEF Step, Return, Abort, Confirmed, Failed
    <3> QED
      BY <2>25, <3>1, <3>2, <3>3 DEF RollbackFile
  <2>26. CASE RollbackUnlink(t)
    BY <2>26, OvertakesType DEF RollbackUnlink, Step, Return, Abort, Confirmed, Failed
  <2>27. CASE RollbackDirectory(t)
    <3> DEFINE s == op[t].server
    <3>0. UNCHANGED <<hostKey, known, keyFiles, akFile, authorized, profile, historyVars>>
      BY <2>27 DEF RollbackDirectory
    <3>1. CASE Step(t, "rbDir", "rbKey", op[t]) /\ UNCHANGED sshDir
      BY <3>0, <3>1 DEF Step, Return, Abort, Confirmed, Failed
    <3>2. CASE Step(t, "rbDir", "rbKey", op[t]) /\ sshDir' = sshDir \ {s}
      BY <3>0, <3>2 DEF Step, Return, Abort, Confirmed, Failed
    <3> QED
      BY <2>27, <3>1, <3>2 DEF RollbackDirectory
  <2>28. CASE RollbackRemoteFails(t)
    <3>0. UNCHANGED <<worldVars, historyVars>>
      BY <2>28 DEF RollbackRemoteFails
    <3>1. ASSUME NEW from, from \in {"rbLine", "rbWrite", "rbFile", "rbUnlink", "rbDir"} /\ Step(t, from, "rbKey", Failed(op[t]))
          PROVE  WorldType'
      BY <3>0, <3>1 DEF Step, Return, Abort, Confirmed, Failed
    <3> QED
      BY <2>28, <3>1 DEF RollbackRemoteFails
  <2>29. CASE RollbackKey(t)
    <3>0. UNCHANGED <<hostKey, known, sshDir, akFile, authorized, profile, historyVars>>
      BY <2>29 DEF RollbackKey
    <3>1. CASE Step(t, "rbKey", "rbHost", op[t]) /\ UNCHANGED keyFiles
      BY <3>0, <3>1 DEF Step, Return, Abort, Confirmed, Failed
    <3>2. CASE "key" \in op[t].made /\ Step(t, "rbKey", "rbHost", op[t]) /\ keyFiles' = [keyFiles EXCEPT ![op[t].key] = "gone"]
      BY <3>0, <3>2 DEF Step, Return, Abort, Confirmed, Failed
    <3>3. CASE "key" \in op[t].made /\ Step(t, "rbKey", "rbHost", Failed(op[t])) /\ keyFiles' = [keyFiles EXCEPT ![op[t].key] = "left"]
      BY <3>0, <3>3 DEF Step, Return, Abort, Confirmed, Failed
    <3> QED
      BY <2>29, <3>1, <3>2, <3>3 DEF RollbackKey
  <2>30. CASE RollbackHostRead(t)
    <3>0. UNCHANGED <<worldVars, historyVars>>
      BY <2>30 DEF RollbackHostRead
    <3>1. CASE Step(t, "rbHost", "end", op[t])
      BY <3>0, <3>1 DEF Step, Return, Abort, Confirmed, Failed
    <3>2. CASE "host" \in op[t].made /\ known[Entry(t)] > 0 /\ Step(t, "rbHost", "rbHostWrite", [op[t] EXCEPT !.hosts = known])
      BY <3>0, <3>2 DEF Step, Return, Abort, Confirmed, Failed
    <3>3. CASE Step(t, "rbHost", "end", Failed(op[t]))
      BY <3>0, <3>3 DEF Step, Return, Abort, Confirmed, Failed
    <3> QED
      BY <2>30, <3>1, <3>2, <3>3 DEF RollbackHostRead
  <2>31. CASE RollbackHostWrite(t)
    <3> DEFINE e == <<op[t].server, op[t].host>>
    <3>1. op[t].server \in Servers /\ op[t].host \in HostKeys /\ op[t].hosts \in [Entries -> Nat]
      BY <2>31 DEF RollbackHostWrite, EntryInv, Step, Confirmed, Return
    <3>2. e \in Entries
      BY <3>1 DEF Entries
    <3>3. known' = [op[t].hosts EXCEPT ![e] = @ - 1] \/ known' = known
      BY <2>31 DEF RollbackHostWrite
    <3>4. op[t].hosts[e] > 0
      BY <2>31 DEF RollbackHostWrite, EntryInv, Step
    <3> HIDE DEF e
    <3>5. op[t].hosts[e] - 1 \in Nat
      BY <3>1, <3>2, <3>4
    <3>6. known' \in [Entries -> Nat]
      BY <3>1, <3>2, <3>3, <3>5
    <3> QED
      BY <2>31, <3>6 DEF RollbackHostWrite
  <2>32. CASE RaiseFailure(t)
    <3>1. "key" \in op[t].made => op[t].key \in Keys
      BY DEF KeyInv
    <3> QED
      BY <2>32, <3>1 DEF RaiseFailure
  <2>33. CASE Crash(t)
    BY <2>33 DEF Crash, Step, Return, Abort, Confirmed, Failed
  <2> QED
    BY <1>3, <2>1, <2>2, <2>3, <2>4, <2>5, <2>6, <2>7, <2>8, <2>9, <2>10, <2>11, <2>12, <2>13, <2>14, <2>15, <2>16, <2>17, <2>18, <2>19, <2>20, <2>21, <2>22, <2>23, <2>24, <2>25, <2>26, <2>27, <2>28, <2>29, <2>30, <2>31, <2>32, <2>33 DEF Forward, Failure, Rollback
<1>4. CASE OwnerEdits
  BY <1>4, OwnerKeeps DEF OwnerEdits
<1> QED
  BY <1>1, <1>2, <1>3, <1>4 DEF Next

\* What a control state says about the thread's record survives every step.
LEMMA ControlStep == SetupInv /\ [Next]_vars => ControlInv'
<1> SUFFICES ASSUME SetupInv, [Next]_vars PROVE ControlInv'
  OBVIOUS
<1> USE SetupConstants DEF SetupInv, TypeOK, ControlInv, NoOperation, Operations, Pcs, Lines
<1>1. CASE UNCHANGED vars
  BY <1>1 DEF vars
<1>2. CASE Rotate
  BY <1>2 DEF Rotate
<1>3. ASSUME NEW t \in Setups, Begin(t) \/ Forward(t) \/ Failure(t) \/ Rollback(t) \/ Crash(t)
      PROVE  ControlInv'
  <2>1. CASE Begin(t)
    BY <2>1 DEF Begin, Step, Return, Abort, Confirmed, Failed
  <2>2. CASE Handshake(t)
    BY <2>2 DEF Handshake, Step, Return, Abort, Confirmed, Failed
  <2>3. CASE Status(t)
    <3>0. UNCHANGED <<worldVars, historyVars>>
      BY <2>3 DEF Status
    <3>1. CASE KnownKeys(op[t].server) = {} /\ op[t].fp = op[t].host /\ Step(t, "status", "confirm", op[t])
      BY <3>0, <3>1 DEF Step, Return, Abort, Confirmed, Failed
    <3>2. CASE op[t].host \in KnownKeys(op[t].server) /\ Step(t, "status", "auth", op[t])
      BY <3>0, <3>2 DEF Step, Return, Abort, Confirmed, Failed
    <3> QED
      BY <2>3, <3>1, <3>2 DEF Status
  <2>4. CASE ConfirmStatus(t)
    <3>0. UNCHANGED <<worldVars, historyVars>>
      BY <2>4 DEF ConfirmStatus
    <3>1. CASE op[t].host \in KnownKeys(op[t].server) /\ op[t].mode = "confirm" /\ Return(t, "confirm")
      BY <3>0, <3>1 DEF Step, Return, Abort, Confirmed, Failed
    <3>2. CASE op[t].host \in KnownKeys(op[t].server) /\ op[t].mode # "confirm" /\ Step(t, "confirm", "auth", op[t])
      BY <3>0, <3>2 DEF Step, Return, Abort, Confirmed, Failed
    <3>3. CASE Step(t, "confirm", "hostRead", op[t])
      BY <3>0, <3>3 DEF Step, Return, Abort, Confirmed, Failed
    <3> QED
      BY <2>4, <3>1, <3>2, <3>3 DEF ConfirmStatus, Confirmed
  <2>5. CASE HostRead(t)
    BY <2>5 DEF HostRead, Step, Return, Abort, Confirmed, Failed
  <2>6. CASE HostWrite(t)
    <3>0. known' = [op[t].hosts EXCEPT ![Entry(t)] = @ + 1] /\ UNCHANGED <<hostKey, keyFiles, sshDir, akFile, authorized, profile, historyVars>>
      BY <2>6 DEF HostWrite
    <3>1. CASE Return(t, "hostWrite")
      BY <3>0, <3>1 DEF Step, Return, Abort, Confirmed, Failed
    <3>2. CASE op[t].mode # "confirm" /\ Step(t, "hostWrite", "auth", [op[t] EXCEPT !.hosts = NoEntries, !.made = @ \cup {"host"}])
      BY <3>0, <3>2 DEF Step, Return, Abort, Confirmed, Failed
    <3> QED
      BY <2>6, <3>1, <3>2 DEF HostWrite, Confirmed
  <2>7. CASE Authenticate(t)
    BY <2>7 DEF Authenticate, Step, Return, Abort, Confirmed, Failed
  <2>8. CASE LoadKey(t)
    BY <2>8 DEF LoadKey, Step, Return, Abort, Confirmed, Failed
  <2>9. CASE GenerateKey(t)
    BY <2>9 DEF GenerateKey, Step, Return, Abort, Confirmed, Failed
  <2>10. CASE OpenSftp(t)
    BY <2>10 DEF OpenSftp, Step, Return, Abort, Confirmed, Failed
  <2>11. CASE EnsureDirectory(t)
    BY <2>11 DEF EnsureDirectory, Step, Return, Abort, Confirmed, Failed
  <2>12. CASE ReadKeys(t)
    <3> DEFINE s == op[t].server
    <3>0. UNCHANGED <<worldVars, historyVars>>
      BY <2>12 DEF ReadKeys
    <3>1. CASE Step(t, "akRead", "verify", op[t])
      BY <3>0, <3>1 DEF Step, Return, Abort, Confirmed, Failed
    <3>2. CASE s \notin akFile /\ Step(t, "akRead", "akWrite", [op[t] EXCEPT !.lines = authorized[s], !.made = @ \cup {"file"}])
      BY <3>0, <3>2 DEF Step, Return, Abort, Confirmed, Failed
    <3>3. CASE s \in akFile /\ Step(t, "akRead", "akWrite", [op[t] EXCEPT !.lines = authorized[s], !.made = @ \cup {}])
      BY <3>0, <3>3 DEF Step, Return, Abort, Confirmed, Failed
    <3> QED
      BY <2>12, <3>1, <3>2, <3>3 DEF ReadKeys
  <2>13. CASE WriteKeys(t)
    BY <2>13 DEF WriteKeys, Step, Return, Abort, Confirmed, Failed
  <2>14. CASE VerifyLogin(t)
    <3>0. keyFiles[op[t].key] = "pair" /\ UNCHANGED worldVars
      BY <2>14 DEF VerifyLogin
    <3>1. CASE Succeed(t, "verify")
      BY <3>0, <3>1 DEF Step, Return, Abort, Confirmed, Failed
    <3>2. CASE op[t].mode # "bootstrap" /\ Step(t, "verify", "complete", op[t]) /\ UNCHANGED historyVars
      BY <3>0, <3>2 DEF Step, Return, Abort, Confirmed, Failed
    <3> QED
      BY <2>14, <3>1, <3>2 DEF VerifyLogin
  <2>15. CASE CreateProfile(t)
    BY <2>15 DEF CreateProfile, Step, Return, Abort, Confirmed, Failed
  <2>16. CASE StepFails(t)
    BY <2>16 DEF StepFails, Step, Return, Abort, Confirmed, Failed
  <2>17. CASE GenerateFails(t)
    BY <2>17 DEF GenerateFails, Step, Return, Abort, Confirmed, Failed
  <2>18. CASE EnsureDirectoryFails(t)
    BY <2>18 DEF EnsureDirectoryFails, Step, Return, Abort, Confirmed, Failed
  <2>19. CASE PermissionsFail(t)
    BY <2>19 DEF PermissionsFail, Step, Return, Abort, Confirmed, Failed
  <2>20. CASE InstallFails(t)
    <3> DEFINE s == op[t].server
    <3>0. UNCHANGED <<hostKey, known, keyFiles, akFile, authorized, profile, historyVars>>
      BY <2>20 DEF InstallFails
    <3>1. ASSUME NEW from, from \in {"akRead", "akWrite"} /\ Abort(t, from, [op[t] EXCEPT !.made = @ \ Receipt]) /\ UNCHANGED sshDir
          PROVE  ControlInv'
      BY <3>0, <3>1 DEF Step, Return, Abort, Confirmed, Failed
    <3>2. ASSUME NEW from, from \in {"akRead", "akWrite"} /\ Abort(t, from, [op[t] EXCEPT !.made = @ \ Receipt]) /\ sshDir' = sshDir \ {s}
          PROVE  ControlInv'
      BY <3>0, <3>2 DEF Step, Return, Abort, Confirmed, Failed
    <3>3. ASSUME NEW from, from \in {"akRead", "akWrite"} /\ Abort(t, from, [[op[t] EXCEPT !.made = @ \ Receipt] EXCEPT !.undo = "failed"]) /\ UNCHANGED sshDir
          PROVE  ControlInv'
      BY <3>0, <3>3 DEF Step, Return, Abort, Confirmed, Failed
    <3> QED
      BY <2>20, <3>1, <3>2, <3>3 DEF InstallFails
  <2>21. CASE WriteKeysLost(t)
    BY <2>21 DEF WriteKeysLost, Step, Return, Abort, Confirmed, Failed
  <2>22. CASE RollbackRead(t)
    <3> DEFINE s == op[t].server
    <3>0. UNCHANGED <<hostKey, known, keyFiles, akFile, authorized, profile, historyVars>>
      BY <2>22 DEF RollbackRead
    <3>1. CASE Step(t, "rbLine", "rbKey", op[t]) /\ UNCHANGED sshDir
      BY <3>0, <3>1 DEF Step, Return, Abort, Confirmed, Failed
    <3>2. CASE Step(t, "rbLine", "rbFile", op[t]) /\ UNCHANGED sshDir
      BY <3>0, <3>2 DEF Step, Return, Abort, Confirmed, Failed
    <3>3. CASE sshDir' = sshDir \cup {s} /\ op[t].key \in authorized[s] /\ Step(t, "rbLine", "rbWrite", [op[t] EXCEPT !.lines = authorized[s]])
      BY <3>0, <3>3 DEF Step, Return, Abort, Confirmed, Failed
    <3>4. CASE sshDir' = sshDir \cup {s} /\ Step(t, "rbLine", "rbKey", Failed(op[t]))
      BY <3>0, <3>4 DEF Step, Return, Abort, Confirmed, Failed
    <3> QED
      BY <2>22, <3>1, <3>2, <3>3, <3>4 DEF RollbackRead
  <2>23. CASE RollbackWrite(t)
    BY <2>23 DEF RollbackWrite, Step, Return, Abort, Confirmed, Failed
  <2>24. CASE RollbackWriteLost(t)
    BY <2>24 DEF RollbackWriteLost, Step, Return, Abort, Confirmed, Failed
  <2>25. CASE RollbackFile(t)
    <3>0. UNCHANGED <<worldVars, historyVars>>
      BY <2>25 DEF RollbackFile
    <3>1. CASE Step(t, "rbFile", "rbDir", op[t])
      BY <3>0, <3>1 DEF Step, Return, Abort, Confirmed, Failed
    <3>2. CASE "file" \in op[t].made /\ Step(t, "rbFile", "rbUnlink", op[t])
      BY <3>0, <3>2 DEF Step, Return, Abort, Confirmed, Failed
    <3>3. CASE Step(t, "rbFile", "rbKey", Failed(op[t]))
      BY <3>0, <3>3 DEF Step, Return, Abort, Confirmed, Failed
    <3> QED
      BY <2>25, <3>1, <3>2, <3>3 DEF RollbackFile
  <2>26. CASE RollbackUnlink(t)
    BY <2>26 DEF RollbackUnlink, Step, Return, Abort, Confirmed, Failed
  <2>27. CASE RollbackDirectory(t)
    <3> DEFINE s == op[t].server
    <3>0. UNCHANGED <<hostKey, known, keyFiles, akFile, authorized, profile, historyVars>>
      BY <2>27 DEF RollbackDirectory
    <3>1. CASE Step(t, "rbDir", "rbKey", op[t]) /\ UNCHANGED sshDir
      BY <3>0, <3>1 DEF Step, Return, Abort, Confirmed, Failed
    <3>2. CASE Step(t, "rbDir", "rbKey", op[t]) /\ sshDir' = sshDir \ {s}
      BY <3>0, <3>2 DEF Step, Return, Abort, Confirmed, Failed
    <3> QED
      BY <2>27, <3>1, <3>2 DEF RollbackDirectory
  <2>28. CASE RollbackRemoteFails(t)
    <3>0. UNCHANGED <<worldVars, historyVars>>
      BY <2>28 DEF RollbackRemoteFails
    <3>1. ASSUME NEW from, from \in {"rbLine", "rbWrite", "rbFile", "rbUnlink", "rbDir"} /\ Step(t, from, "rbKey", Failed(op[t]))
          PROVE  ControlInv'
      BY <3>0, <3>1 DEF Step, Return, Abort, Confirmed, Failed
    <3> QED
      BY <2>28, <3>1 DEF RollbackRemoteFails
  <2>29. CASE RollbackKey(t)
    <3>0. UNCHANGED <<hostKey, known, sshDir, akFile, authorized, profile, historyVars>>
      BY <2>29 DEF RollbackKey
    <3>1. CASE Step(t, "rbKey", "rbHost", op[t]) /\ UNCHANGED keyFiles
      BY <3>0, <3>1 DEF Step, Return, Abort, Confirmed, Failed
    <3>2. CASE "key" \in op[t].made /\ Step(t, "rbKey", "rbHost", op[t]) /\ keyFiles' = [keyFiles EXCEPT ![op[t].key] = "gone"]
      BY <3>0, <3>2 DEF Step, Return, Abort, Confirmed, Failed
    <3>3. CASE "key" \in op[t].made /\ Step(t, "rbKey", "rbHost", Failed(op[t])) /\ keyFiles' = [keyFiles EXCEPT ![op[t].key] = "left"]
      BY <3>0, <3>3 DEF Step, Return, Abort, Confirmed, Failed
    <3> QED
      BY <2>29, <3>1, <3>2, <3>3 DEF RollbackKey
  <2>30. CASE RollbackHostRead(t)
    <3>0. UNCHANGED <<worldVars, historyVars>>
      BY <2>30 DEF RollbackHostRead
    <3>1. CASE Step(t, "rbHost", "end", op[t])
      BY <3>0, <3>1 DEF Step, Return, Abort, Confirmed, Failed
    <3>2. CASE "host" \in op[t].made /\ known[Entry(t)] > 0 /\ Step(t, "rbHost", "rbHostWrite", [op[t] EXCEPT !.hosts = known])
      BY <3>0, <3>2 DEF Step, Return, Abort, Confirmed, Failed
    <3>3. CASE Step(t, "rbHost", "end", Failed(op[t]))
      BY <3>0, <3>3 DEF Step, Return, Abort, Confirmed, Failed
    <3> QED
      BY <2>30, <3>1, <3>2, <3>3 DEF RollbackHostRead
  <2>31. CASE RollbackHostWrite(t)
    <3>0. UNCHANGED <<hostKey, keyFiles, sshDir, akFile, authorized, profile, historyVars>>
      BY <2>31 DEF RollbackHostWrite
    <3>1. CASE Step(t, "rbHostWrite", "end", [op[t] EXCEPT !.hosts = NoEntries]) /\ known' = [op[t].hosts EXCEPT ![Entry(t)] = @ - 1]
      BY <3>0, <3>1 DEF Step, Return, Abort, Confirmed, Failed
    <3>2. CASE Step(t, "rbHostWrite", "end", Failed(op[t])) /\ UNCHANGED known
      BY <3>0, <3>2 DEF Step, Return, Abort, Confirmed, Failed
    <3> QED
      BY <2>31, <3>1, <3>2 DEF RollbackHostWrite
  <2>32. CASE RaiseFailure(t)
    BY <2>32 DEF RaiseFailure, Step, Return, Abort, Confirmed, Failed
  <2>33. CASE Crash(t)
    BY <2>33 DEF Crash, Step, Return, Abort, Confirmed, Failed
  <2> QED
    BY <1>3, <2>1, <2>2, <2>3, <2>4, <2>5, <2>6, <2>7, <2>8, <2>9, <2>10, <2>11, <2>12, <2>13, <2>14, <2>15, <2>16, <2>17, <2>18, <2>19, <2>20, <2>21, <2>22, <2>23, <2>24, <2>25, <2>26, <2>27, <2>28, <2>29, <2>30, <2>31, <2>32, <2>33 DEF Forward, Failure, Rollback
<1>4. CASE OwnerEdits
  <2> HIDE DEF NoOperation, Operations, Pcs, Lines
  <2>1. \A u \in Setups : pc[u] = "idle" => op'[u] = op[u]
    BY <1>4, OwnerKeeps DEF CopyPcs
  <2> QED
    BY <1>4, <2>1, OwnerKeeps
<1> QED
  BY <1>1, <1>2, <1>3, <1>4 DEF Next

\* Only confirmed host keys get into known_hosts, whichever thread writes it.
LEMMA HostStep == SetupInv /\ [Next]_vars => HostInv'
<1> SUFFICES ASSUME SetupInv, [Next]_vars PROVE HostInv'
  OBVIOUS
<1> USE SetupConstants DEF SetupInv, TypeOK, HostInv, NoOperation, Operations, KnownKeys, NoEntries, ControlInv
<1>1. CASE UNCHANGED vars
  BY <1>1 DEF vars
<1>2. CASE Rotate
  BY <1>2 DEF Rotate
<1>3. ASSUME NEW t \in Setups, Begin(t) \/ Forward(t) \/ Failure(t) \/ Rollback(t) \/ Crash(t)
      PROVE  HostInv'
  <2>1. CASE Begin(t)
    BY <2>1 DEF Begin, Step, Return, Abort, Confirmed, Failed
  <2>2. CASE Handshake(t)
    BY <2>2 DEF Handshake, Step, Return, Abort, Confirmed, Failed
  <2>3. CASE Status(t)
    <3>0. UNCHANGED <<worldVars, historyVars>>
      BY <2>3 DEF Status
    <3>1. CASE /\ KnownKeys(op[t].server) = {} /\ op[t].fp = op[t].host
               /\ Step(t, "status", "confirm", op[t])
      BY <3>0, <3>1 DEF Step
    <3>2. CASE op[t].host \in KnownKeys(op[t].server) /\ Step(t, "status", "auth", op[t])
      <4>1. op[t].server \in Servers /\ op[t].host \in HostKeys
        BY <3>2 DEF Step
      <4>2. known[<<op[t].server, op[t].host>>] > 0
        BY <3>2
      <4>3. <<op[t].server, op[t].host>> \in Entries
        BY <4>1 DEF Entries
      <4>4. Entry(t) \in accepted
        BY <4>2, <4>3
      <4> QED
        BY <3>0, <3>2, <4>4 DEF Step
    <3> QED
      BY <2>3, <3>1, <3>2 DEF Status
  <2>4. CASE ConfirmStatus(t)
    <3>0. UNCHANGED <<worldVars, historyVars>>
      BY <2>4 DEF ConfirmStatus
    <3>1. CASE op[t].host \in KnownKeys(op[t].server) /\ op[t].mode = "confirm" /\ Return(t, "confirm")
      BY <3>0, <3>1 DEF Step, Return, Abort, Confirmed, Failed
    <3>2. CASE op[t].host \in KnownKeys(op[t].server) /\ op[t].mode # "confirm" /\ Step(t, "confirm", "auth", op[t])
      BY <3>0, <3>2 DEF Step, Return, Abort, Confirmed, Failed
    <3>3. CASE Step(t, "confirm", "hostRead", op[t])
      BY <3>0, <3>3 DEF Step, Return, Abort, Confirmed, Failed
    <3> QED
      BY <2>4, <3>1, <3>2, <3>3 DEF ConfirmStatus, Confirmed
  <2>5. CASE HostRead(t)
    BY <2>5 DEF HostRead, Step, Return, Abort, Confirmed, Failed
  <2>6. CASE HostWrite(t)
    <3> DEFINE e == <<op[t].server, op[t].host>>
    <3>1. /\ pc[t] = "hostWrite" /\ op[t].hosts \in [Entries -> Nat]
          /\ known' = [op[t].hosts EXCEPT ![e] = @ + 1]
          /\ accepted' = accepted
      BY <2>6 DEF HostWrite, Confirmed, Return, Step
    <3>2. e \in Entries /\ e \in accepted
      BY <3>1 DEF Entries
    <3> HIDE DEF e
    <3>3. ASSUME NEW x \in Entries, known'[x] > 0 PROVE x \in accepted'
      <4>1. CASE x = e
        BY <3>1, <3>2, <4>1
      <4>2. CASE x # e
        <5>1. known'[x] = op[t].hosts[x]
          BY <3>1, <4>2
        <5> QED
          BY <3>1, <3>3, <5>1
      <4> QED
        BY <4>1, <4>2
    <3>4. CASE Return(t, "hostWrite")
      BY <3>1, <3>3, <3>4 DEF Return, Step
    <3>5. CASE Step(t, "hostWrite", "auth", [op[t] EXCEPT !.hosts = NoEntries, !.made = @ \cup {"host"}])
      <4>1. /\ pc'[t] = "auth" /\ op'[t].server = op[t].server /\ op'[t].host = op[t].host
            /\ op'[t].fp = op[t].fp /\ op'[t].hosts = NoEntries
            /\ \A u \in Setups : u # t => op'[u] = op[u] /\ pc'[u] = pc[u]
        BY <3>5 DEF Step
      <4>2. \A x \in Entries : op'[t].hosts[x] = 0
        BY <4>1
      <4>3. Entry(t)' \in accepted' /\ (op'[t].fp # None => <<op'[t].server, op'[t].fp>> \in accepted')
        BY <3>1, <3>2, <4>1 DEF e
      <4>4. ASSUME NEW u \in Setups, u # t
            PROVE  /\ \A x \in Entries : op'[u].hosts[x] > 0 => x \in accepted'
                   /\ op'[u].fp # None => <<op'[u].server, op'[u].fp>> \in accepted'
                   /\ pc'[u] \in HostPcs => op'[u].host # None /\ op'[u].fp = op'[u].host
                   /\ pc'[u] = "auth" => Entry(u)' \in accepted'
        BY <3>1, <4>1, <4>4
      <4>5. \A x \in Entries : op'[t].hosts[x] > 0 => x \in accepted'
        BY <4>2
      <4>6. ~ (pc'[t] \in HostPcs)
        BY <4>1
      <4> QED
        BY <3>3, <4>3, <4>4, <4>5, <4>6
    <3> QED
      BY <2>6, <3>4, <3>5 DEF HostWrite, Confirmed
  <2>7. CASE Authenticate(t)
    BY <2>7 DEF Authenticate, Step, Return, Abort, Confirmed, Failed
  <2>8. CASE LoadKey(t)
    BY <2>8 DEF LoadKey, Step, Return, Abort, Confirmed, Failed
  <2>9. CASE GenerateKey(t)
    BY <2>9 DEF GenerateKey, Step, Return, Abort, Confirmed, Failed
  <2>10. CASE OpenSftp(t)
    BY <2>10 DEF OpenSftp, Step, Return, Abort, Confirmed, Failed
  <2>11. CASE EnsureDirectory(t)
    BY <2>11 DEF EnsureDirectory, Step, Return, Abort, Confirmed, Failed
  <2>12. CASE ReadKeys(t)
    <3> DEFINE s == op[t].server
    <3>0. UNCHANGED <<worldVars, historyVars>>
      BY <2>12 DEF ReadKeys
    <3>1. CASE Step(t, "akRead", "verify", op[t])
      BY <3>0, <3>1 DEF Step, Return, Abort, Confirmed, Failed
    <3>2. CASE s \notin akFile /\ Step(t, "akRead", "akWrite", [op[t] EXCEPT !.lines = authorized[s], !.made = @ \cup {"file"}])
      BY <3>0, <3>2 DEF Step, Return, Abort, Confirmed, Failed
    <3>3. CASE s \in akFile /\ Step(t, "akRead", "akWrite", [op[t] EXCEPT !.lines = authorized[s], !.made = @ \cup {}])
      BY <3>0, <3>3 DEF Step, Return, Abort, Confirmed, Failed
    <3> QED
      BY <2>12, <3>1, <3>2, <3>3 DEF ReadKeys
  <2>13. CASE WriteKeys(t)
    BY <2>13 DEF WriteKeys, Step, Return, Abort, Confirmed, Failed
  <2>14. CASE VerifyLogin(t)
    <3>0. keyFiles[op[t].key] = "pair" /\ UNCHANGED worldVars
      BY <2>14 DEF VerifyLogin
    <3>1. CASE Succeed(t, "verify")
      BY <3>0, <3>1 DEF Step, Return, Abort, Confirmed, Failed
    <3>2. CASE op[t].mode # "bootstrap" /\ Step(t, "verify", "complete", op[t]) /\ UNCHANGED historyVars
      BY <3>0, <3>2 DEF Step, Return, Abort, Confirmed, Failed
    <3> QED
      BY <2>14, <3>1, <3>2 DEF VerifyLogin
  <2>15. CASE CreateProfile(t)
    BY <2>15 DEF CreateProfile, Step, Return, Abort, Confirmed, Failed
  <2>16. CASE StepFails(t)
    BY <2>16 DEF StepFails, Step, Return, Abort, Confirmed, Failed
  <2>17. CASE GenerateFails(t)
    BY <2>17 DEF GenerateFails, Step, Return, Abort, Confirmed, Failed
  <2>18. CASE EnsureDirectoryFails(t)
    BY <2>18 DEF EnsureDirectoryFails, Step, Return, Abort, Confirmed, Failed
  <2>19. CASE PermissionsFail(t)
    BY <2>19 DEF PermissionsFail, Step, Return, Abort, Confirmed, Failed
  <2>20. CASE InstallFails(t)
    <3> DEFINE s == op[t].server
    <3>0. UNCHANGED <<hostKey, known, keyFiles, akFile, authorized, profile, historyVars>>
      BY <2>20 DEF InstallFails
    <3>1. ASSUME NEW from, from \in {"akRead", "akWrite"} /\ Abort(t, from, [op[t] EXCEPT !.made = @ \ Receipt]) /\ UNCHANGED sshDir
          PROVE  HostInv'
      BY <3>0, <3>1 DEF Step, Return, Abort, Confirmed, Failed
    <3>2. ASSUME NEW from, from \in {"akRead", "akWrite"} /\ Abort(t, from, [op[t] EXCEPT !.made = @ \ Receipt]) /\ sshDir' = sshDir \ {s}
          PROVE  HostInv'
      BY <3>0, <3>2 DEF Step, Return, Abort, Confirmed, Failed
    <3>3. ASSUME NEW from, from \in {"akRead", "akWrite"} /\ Abort(t, from, [[op[t] EXCEPT !.made = @ \ Receipt] EXCEPT !.undo = "failed"]) /\ UNCHANGED sshDir
          PROVE  HostInv'
      BY <3>0, <3>3 DEF Step, Return, Abort, Confirmed, Failed
    <3> QED
      BY <2>20, <3>1, <3>2, <3>3 DEF InstallFails
  <2>21. CASE WriteKeysLost(t)
    BY <2>21 DEF WriteKeysLost, Step, Return, Abort, Confirmed, Failed
  <2>22. CASE RollbackRead(t)
    <3> DEFINE s == op[t].server
    <3>0. UNCHANGED <<hostKey, known, keyFiles, akFile, authorized, profile, historyVars>>
      BY <2>22 DEF RollbackRead
    <3>1. CASE Step(t, "rbLine", "rbKey", op[t]) /\ UNCHANGED sshDir
      BY <3>0, <3>1 DEF Step, Return, Abort, Confirmed, Failed
    <3>2. CASE Step(t, "rbLine", "rbFile", op[t]) /\ UNCHANGED sshDir
      BY <3>0, <3>2 DEF Step, Return, Abort, Confirmed, Failed
    <3>3. CASE sshDir' = sshDir \cup {s} /\ op[t].key \in authorized[s] /\ Step(t, "rbLine", "rbWrite", [op[t] EXCEPT !.lines = authorized[s]])
      BY <3>0, <3>3 DEF Step, Return, Abort, Confirmed, Failed
    <3>4. CASE sshDir' = sshDir \cup {s} /\ Step(t, "rbLine", "rbKey", Failed(op[t]))
      BY <3>0, <3>4 DEF Step, Return, Abort, Confirmed, Failed
    <3> QED
      BY <2>22, <3>1, <3>2, <3>3, <3>4 DEF RollbackRead
  <2>23. CASE RollbackWrite(t)
    BY <2>23 DEF RollbackWrite, Step, Return, Abort, Confirmed, Failed
  <2>24. CASE RollbackWriteLost(t)
    BY <2>24 DEF RollbackWriteLost, Step, Return, Abort, Confirmed, Failed
  <2>25. CASE RollbackFile(t)
    <3>0. UNCHANGED <<worldVars, historyVars>>
      BY <2>25 DEF RollbackFile
    <3>1. CASE Step(t, "rbFile", "rbDir", op[t])
      BY <3>0, <3>1 DEF Step, Return, Abort, Confirmed, Failed
    <3>2. CASE "file" \in op[t].made /\ Step(t, "rbFile", "rbUnlink", op[t])
      BY <3>0, <3>2 DEF Step, Return, Abort, Confirmed, Failed
    <3>3. CASE Step(t, "rbFile", "rbKey", Failed(op[t]))
      BY <3>0, <3>3 DEF Step, Return, Abort, Confirmed, Failed
    <3> QED
      BY <2>25, <3>1, <3>2, <3>3 DEF RollbackFile
  <2>26. CASE RollbackUnlink(t)
    BY <2>26 DEF RollbackUnlink, Step, Return, Abort, Confirmed, Failed
  <2>27. CASE RollbackDirectory(t)
    <3> DEFINE s == op[t].server
    <3>0. UNCHANGED <<hostKey, known, keyFiles, akFile, authorized, profile, historyVars>>
      BY <2>27 DEF RollbackDirectory
    <3>1. CASE Step(t, "rbDir", "rbKey", op[t]) /\ UNCHANGED sshDir
      BY <3>0, <3>1 DEF Step, Return, Abort, Confirmed, Failed
    <3>2. CASE Step(t, "rbDir", "rbKey", op[t]) /\ sshDir' = sshDir \ {s}
      BY <3>0, <3>2 DEF Step, Return, Abort, Confirmed, Failed
    <3> QED
      BY <2>27, <3>1, <3>2 DEF RollbackDirectory
  <2>28. CASE RollbackRemoteFails(t)
    <3>0. UNCHANGED <<worldVars, historyVars>>
      BY <2>28 DEF RollbackRemoteFails
    <3>1. ASSUME NEW from, from \in {"rbLine", "rbWrite", "rbFile", "rbUnlink", "rbDir"} /\ Step(t, from, "rbKey", Failed(op[t]))
          PROVE  HostInv'
      BY <3>0, <3>1 DEF Step, Return, Abort, Confirmed, Failed
    <3> QED
      BY <2>28, <3>1 DEF RollbackRemoteFails
  <2>29. CASE RollbackKey(t)
    <3>0. UNCHANGED <<hostKey, known, sshDir, akFile, authorized, profile, historyVars>>
      BY <2>29 DEF RollbackKey
    <3>1. CASE Step(t, "rbKey", "rbHost", op[t]) /\ UNCHANGED keyFiles
      BY <3>0, <3>1 DEF Step, Return, Abort, Confirmed, Failed
    <3>2. CASE "key" \in op[t].made /\ Step(t, "rbKey", "rbHost", op[t]) /\ keyFiles' = [keyFiles EXCEPT ![op[t].key] = "gone"]
      BY <3>0, <3>2 DEF Step, Return, Abort, Confirmed, Failed
    <3>3. CASE "key" \in op[t].made /\ Step(t, "rbKey", "rbHost", Failed(op[t])) /\ keyFiles' = [keyFiles EXCEPT ![op[t].key] = "left"]
      BY <3>0, <3>3 DEF Step, Return, Abort, Confirmed, Failed
    <3> QED
      BY <2>29, <3>1, <3>2, <3>3 DEF RollbackKey
  <2>30. CASE RollbackHostRead(t)
    <3>0. UNCHANGED <<worldVars, historyVars>>
      BY <2>30 DEF RollbackHostRead
    <3>1. CASE Step(t, "rbHost", "end", op[t])
      BY <3>0, <3>1 DEF Step, Return, Abort, Confirmed, Failed
    <3>2. CASE "host" \in op[t].made /\ known[Entry(t)] > 0 /\ Step(t, "rbHost", "rbHostWrite", [op[t] EXCEPT !.hosts = known])
      BY <3>0, <3>2 DEF Step, Return, Abort, Confirmed, Failed
    <3>3. CASE Step(t, "rbHost", "end", Failed(op[t]))
      BY <3>0, <3>3 DEF Step, Return, Abort, Confirmed, Failed
    <3> QED
      BY <2>30, <3>1, <3>2, <3>3 DEF RollbackHostRead
  <2>31. CASE RollbackHostWrite(t)
    <3> DEFINE e == <<op[t].server, op[t].host>>
    <3>0. /\ pc[t] = "rbHostWrite" /\ op[t].hosts \in [Entries -> Nat]
          /\ accepted' = accepted
      BY <2>31 DEF RollbackHostWrite, Step
    <3>1. e \in Entries
      <4>1. op[t].host \in HostKeys
        BY <3>0 DEF EntryInv
      <4>2. op[t].server \in Servers
        BY <3>0
      <4> QED
        BY <4>1, <4>2 DEF Entries
    <3>2. CASE /\ Step(t, "rbHostWrite", "end", [op[t] EXCEPT !.hosts = NoEntries])
               /\ known' = [op[t].hosts EXCEPT ![e] = @ - 1]
      <4> HIDE DEF e
      <4>1. \A x \in Entries : known'[x] > 0 => op[t].hosts[x] > 0
        BY <3>0, <3>1, <3>2
      <4>2. /\ pc'[t] = "end" /\ op'[t].server = op[t].server /\ op'[t].fp = op[t].fp
            /\ op'[t].hosts = NoEntries
            /\ \A u \in Setups : u # t => op'[u] = op[u] /\ pc'[u] = pc[u]
        BY <3>2 DEF Step
      <4>3. \A x \in Entries : op'[t].hosts[x] = 0
        BY <4>2
      <4>4. \A x \in Entries : known'[x] > 0 => x \in accepted'
        BY <3>0, <4>1
      <4>5. ASSUME NEW u \in Setups
            PROVE  /\ \A x \in Entries : op'[u].hosts[x] > 0 => x \in accepted'
                   /\ op'[u].fp # None => <<op'[u].server, op'[u].fp>> \in accepted'
                   /\ pc'[u] \in HostPcs => op'[u].host # None /\ op'[u].fp = op'[u].host
                   /\ pc'[u] = "auth" => Entry(u)' \in accepted'
        <5>1. CASE u = t
          <6>1. \A x \in Entries : op'[t].hosts[x] > 0 => x \in accepted'
            BY <4>3
          <6>2. op'[t].fp # None => <<op'[t].server, op'[t].fp>> \in accepted'
            BY <3>0, <4>2
          <6> QED
            BY <4>2, <5>1, <6>1, <6>2
        <5>2. CASE u # t
          BY <3>0, <4>2, <5>2
        <5> QED
          BY <5>1, <5>2
      <4> QED
        BY <4>4, <4>5
    <3>3. CASE Step(t, "rbHostWrite", "end", Failed(op[t])) /\ UNCHANGED known
      BY <3>0, <3>3 DEF Step, Failed
    <3> QED
      BY <2>31, <3>2, <3>3 DEF RollbackHostWrite
  <2>32. CASE RaiseFailure(t)
    BY <2>32 DEF RaiseFailure, Step, Return, Abort, Confirmed, Failed
  <2>33. CASE Crash(t)
    BY <2>33 DEF Crash, Step, Return, Abort, Confirmed, Failed
  <2> QED
    BY <1>3, <2>1, <2>2, <2>3, <2>4, <2>5, <2>6, <2>7, <2>8, <2>9, <2>10, <2>11, <2>12, <2>13, <2>14, <2>15, <2>16, <2>17, <2>18, <2>19, <2>20, <2>21, <2>22, <2>23, <2>24, <2>25, <2>26, <2>27, <2>28, <2>29, <2>30, <2>31, <2>32, <2>33 DEF Forward, Failure, Rollback
<1>4. CASE OwnerEdits
  BY <1>4, OwnerKeeps
<1> QED
  BY <1>1, <1>2, <1>3, <1>4 DEF Next

\* A rollback still holds the host entry it found.
LEMMA EntryStep == SetupInv /\ [Next]_vars => EntryInv'
<1> SUFFICES ASSUME SetupInv, [Next]_vars PROVE EntryInv'
  OBVIOUS
<1> USE SetupConstants DEF SetupInv, TypeOK, EntryInv, NoOperation, Operations, ControlInv
<1>1. CASE UNCHANGED vars
  BY <1>1 DEF vars
<1>2. CASE Rotate
  BY <1>2 DEF Rotate
<1>3. ASSUME NEW t \in Setups, Begin(t) \/ Forward(t) \/ Failure(t) \/ Rollback(t) \/ Crash(t)
      PROVE  EntryInv'
  <2>1. CASE Begin(t)
    BY <2>1 DEF Begin, Step, Return, Abort, Confirmed, Failed
  <2>2. CASE Handshake(t)
    BY <2>2 DEF Handshake, Step, Return, Abort, Confirmed, Failed
  <2>3. CASE Status(t)
    <3>0. UNCHANGED <<worldVars, historyVars>>
      BY <2>3 DEF Status
    <3>1. CASE KnownKeys(op[t].server) = {} /\ op[t].fp = op[t].host /\ Step(t, "status", "confirm", op[t])
      BY <3>0, <3>1 DEF Step, Return, Abort, Confirmed, Failed
    <3>2. CASE op[t].host \in KnownKeys(op[t].server) /\ Step(t, "status", "auth", op[t])
      BY <3>0, <3>2 DEF Step, Return, Abort, Confirmed, Failed
    <3> QED
      BY <2>3, <3>1, <3>2 DEF Status
  <2>4. CASE ConfirmStatus(t)
    <3>0. UNCHANGED <<worldVars, historyVars>>
      BY <2>4 DEF ConfirmStatus
    <3>1. CASE op[t].host \in KnownKeys(op[t].server) /\ op[t].mode = "confirm" /\ Return(t, "confirm")
      BY <3>0, <3>1 DEF Step, Return, Abort, Confirmed, Failed
    <3>2. CASE op[t].host \in KnownKeys(op[t].server) /\ op[t].mode # "confirm" /\ Step(t, "confirm", "auth", op[t])
      BY <3>0, <3>2 DEF Step, Return, Abort, Confirmed, Failed
    <3>3. CASE Step(t, "confirm", "hostRead", op[t])
      BY <3>0, <3>3 DEF Step, Return, Abort, Confirmed, Failed
    <3> QED
      BY <2>4, <3>1, <3>2, <3>3 DEF ConfirmStatus, Confirmed
  <2>5. CASE HostRead(t)
    BY <2>5 DEF HostRead, Step, Return, Abort, Confirmed, Failed
  <2>6. CASE HostWrite(t)
    <3>0. known' = [op[t].hosts EXCEPT ![Entry(t)] = @ + 1] /\ UNCHANGED <<hostKey, keyFiles, sshDir, akFile, authorized, profile, historyVars>>
      BY <2>6 DEF HostWrite
    <3>1. CASE Return(t, "hostWrite")
      BY <3>0, <3>1 DEF Step, Return, Abort, Confirmed, Failed
    <3>2. CASE op[t].mode # "confirm" /\ Step(t, "hostWrite", "auth", [op[t] EXCEPT !.hosts = NoEntries, !.made = @ \cup {"host"}])
      BY <3>0, <3>2 DEF Step, Return, Abort, Confirmed, Failed
    <3> QED
      BY <2>6, <3>1, <3>2 DEF HostWrite, Confirmed
  <2>7. CASE Authenticate(t)
    BY <2>7 DEF Authenticate, Step, Return, Abort, Confirmed, Failed
  <2>8. CASE LoadKey(t)
    BY <2>8 DEF LoadKey, Step, Return, Abort, Confirmed, Failed
  <2>9. CASE GenerateKey(t)
    BY <2>9 DEF GenerateKey, Step, Return, Abort, Confirmed, Failed
  <2>10. CASE OpenSftp(t)
    BY <2>10 DEF OpenSftp, Step, Return, Abort, Confirmed, Failed
  <2>11. CASE EnsureDirectory(t)
    BY <2>11 DEF EnsureDirectory, Step, Return, Abort, Confirmed, Failed
  <2>12. CASE ReadKeys(t)
    <3> DEFINE s == op[t].server
    <3>0. UNCHANGED <<worldVars, historyVars>>
      BY <2>12 DEF ReadKeys
    <3>1. CASE Step(t, "akRead", "verify", op[t])
      BY <3>0, <3>1 DEF Step, Return, Abort, Confirmed, Failed
    <3>2. CASE s \notin akFile /\ Step(t, "akRead", "akWrite", [op[t] EXCEPT !.lines = authorized[s], !.made = @ \cup {"file"}])
      BY <3>0, <3>2 DEF Step, Return, Abort, Confirmed, Failed
    <3>3. CASE s \in akFile /\ Step(t, "akRead", "akWrite", [op[t] EXCEPT !.lines = authorized[s], !.made = @ \cup {}])
      BY <3>0, <3>3 DEF Step, Return, Abort, Confirmed, Failed
    <3> QED
      BY <2>12, <3>1, <3>2, <3>3 DEF ReadKeys
  <2>13. CASE WriteKeys(t)
    BY <2>13 DEF WriteKeys, Step, Return, Abort, Confirmed, Failed
  <2>14. CASE VerifyLogin(t)
    <3>0. keyFiles[op[t].key] = "pair" /\ UNCHANGED worldVars
      BY <2>14 DEF VerifyLogin
    <3>1. CASE Succeed(t, "verify")
      BY <3>0, <3>1 DEF Step, Return, Abort, Confirmed, Failed
    <3>2. CASE op[t].mode # "bootstrap" /\ Step(t, "verify", "complete", op[t]) /\ UNCHANGED historyVars
      BY <3>0, <3>2 DEF Step, Return, Abort, Confirmed, Failed
    <3> QED
      BY <2>14, <3>1, <3>2 DEF VerifyLogin
  <2>15. CASE CreateProfile(t)
    BY <2>15 DEF CreateProfile, Step, Return, Abort, Confirmed, Failed
  <2>16. CASE StepFails(t)
    BY <2>16 DEF StepFails, Step, Return, Abort, Confirmed, Failed
  <2>17. CASE GenerateFails(t)
    BY <2>17 DEF GenerateFails, Step, Return, Abort, Confirmed, Failed
  <2>18. CASE EnsureDirectoryFails(t)
    BY <2>18 DEF EnsureDirectoryFails, Step, Return, Abort, Confirmed, Failed
  <2>19. CASE PermissionsFail(t)
    BY <2>19 DEF PermissionsFail, Step, Return, Abort, Confirmed, Failed
  <2>20. CASE InstallFails(t)
    <3> DEFINE s == op[t].server
    <3>0. UNCHANGED <<hostKey, known, keyFiles, akFile, authorized, profile, historyVars>>
      BY <2>20 DEF InstallFails
    <3>1. ASSUME NEW from, from \in {"akRead", "akWrite"} /\ Abort(t, from, [op[t] EXCEPT !.made = @ \ Receipt]) /\ UNCHANGED sshDir
          PROVE  EntryInv'
      BY <3>0, <3>1 DEF Step, Return, Abort, Confirmed, Failed
    <3>2. ASSUME NEW from, from \in {"akRead", "akWrite"} /\ Abort(t, from, [op[t] EXCEPT !.made = @ \ Receipt]) /\ sshDir' = sshDir \ {s}
          PROVE  EntryInv'
      BY <3>0, <3>2 DEF Step, Return, Abort, Confirmed, Failed
    <3>3. ASSUME NEW from, from \in {"akRead", "akWrite"} /\ Abort(t, from, [[op[t] EXCEPT !.made = @ \ Receipt] EXCEPT !.undo = "failed"]) /\ UNCHANGED sshDir
          PROVE  EntryInv'
      BY <3>0, <3>3 DEF Step, Return, Abort, Confirmed, Failed
    <3> QED
      BY <2>20, <3>1, <3>2, <3>3 DEF InstallFails
  <2>21. CASE WriteKeysLost(t)
    BY <2>21 DEF WriteKeysLost, Step, Return, Abort, Confirmed, Failed
  <2>22. CASE RollbackRead(t)
    <3> DEFINE s == op[t].server
    <3>0. UNCHANGED <<hostKey, known, keyFiles, akFile, authorized, profile, historyVars>>
      BY <2>22 DEF RollbackRead
    <3>1. CASE Step(t, "rbLine", "rbKey", op[t]) /\ UNCHANGED sshDir
      BY <3>0, <3>1 DEF Step, Return, Abort, Confirmed, Failed
    <3>2. CASE Step(t, "rbLine", "rbFile", op[t]) /\ UNCHANGED sshDir
      BY <3>0, <3>2 DEF Step, Return, Abort, Confirmed, Failed
    <3>3. CASE sshDir' = sshDir \cup {s} /\ op[t].key \in authorized[s] /\ Step(t, "rbLine", "rbWrite", [op[t] EXCEPT !.lines = authorized[s]])
      BY <3>0, <3>3 DEF Step, Return, Abort, Confirmed, Failed
    <3>4. CASE sshDir' = sshDir \cup {s} /\ Step(t, "rbLine", "rbKey", Failed(op[t]))
      BY <3>0, <3>4 DEF Step, Return, Abort, Confirmed, Failed
    <3> QED
      BY <2>22, <3>1, <3>2, <3>3, <3>4 DEF RollbackRead
  <2>23. CASE RollbackWrite(t)
    BY <2>23 DEF RollbackWrite, Step, Return, Abort, Confirmed, Failed
  <2>24. CASE RollbackWriteLost(t)
    BY <2>24 DEF RollbackWriteLost, Step, Return, Abort, Confirmed, Failed
  <2>25. CASE RollbackFile(t)
    <3>0. UNCHANGED <<worldVars, historyVars>>
      BY <2>25 DEF RollbackFile
    <3>1. CASE Step(t, "rbFile", "rbDir", op[t])
      BY <3>0, <3>1 DEF Step, Return, Abort, Confirmed, Failed
    <3>2. CASE "file" \in op[t].made /\ Step(t, "rbFile", "rbUnlink", op[t])
      BY <3>0, <3>2 DEF Step, Return, Abort, Confirmed, Failed
    <3>3. CASE Step(t, "rbFile", "rbKey", Failed(op[t]))
      BY <3>0, <3>3 DEF Step, Return, Abort, Confirmed, Failed
    <3> QED
      BY <2>25, <3>1, <3>2, <3>3 DEF RollbackFile
  <2>26. CASE RollbackUnlink(t)
    BY <2>26 DEF RollbackUnlink, Step, Return, Abort, Confirmed, Failed
  <2>27. CASE RollbackDirectory(t)
    <3> DEFINE s == op[t].server
    <3>0. UNCHANGED <<hostKey, known, keyFiles, akFile, authorized, profile, historyVars>>
      BY <2>27 DEF RollbackDirectory
    <3>1. CASE Step(t, "rbDir", "rbKey", op[t]) /\ UNCHANGED sshDir
      BY <3>0, <3>1 DEF Step, Return, Abort, Confirmed, Failed
    <3>2. CASE Step(t, "rbDir", "rbKey", op[t]) /\ sshDir' = sshDir \ {s}
      BY <3>0, <3>2 DEF Step, Return, Abort, Confirmed, Failed
    <3> QED
      BY <2>27, <3>1, <3>2 DEF RollbackDirectory
  <2>28. CASE RollbackRemoteFails(t)
    <3>0. UNCHANGED <<worldVars, historyVars>>
      BY <2>28 DEF RollbackRemoteFails
    <3>1. ASSUME NEW from, from \in {"rbLine", "rbWrite", "rbFile", "rbUnlink", "rbDir"} /\ Step(t, from, "rbKey", Failed(op[t]))
          PROVE  EntryInv'
      BY <3>0, <3>1 DEF Step, Return, Abort, Confirmed, Failed
    <3> QED
      BY <2>28, <3>1 DEF RollbackRemoteFails
  <2>29. CASE RollbackKey(t)
    <3>0. UNCHANGED <<hostKey, known, sshDir, akFile, authorized, profile, historyVars>>
      BY <2>29 DEF RollbackKey
    <3>1. CASE Step(t, "rbKey", "rbHost", op[t]) /\ UNCHANGED keyFiles
      BY <3>0, <3>1 DEF Step, Return, Abort, Confirmed, Failed
    <3>2. CASE "key" \in op[t].made /\ Step(t, "rbKey", "rbHost", op[t]) /\ keyFiles' = [keyFiles EXCEPT ![op[t].key] = "gone"]
      BY <3>0, <3>2 DEF Step, Return, Abort, Confirmed, Failed
    <3>3. CASE "key" \in op[t].made /\ Step(t, "rbKey", "rbHost", Failed(op[t])) /\ keyFiles' = [keyFiles EXCEPT ![op[t].key] = "left"]
      BY <3>0, <3>3 DEF Step, Return, Abort, Confirmed, Failed
    <3> QED
      BY <2>29, <3>1, <3>2, <3>3 DEF RollbackKey
  <2>30. CASE RollbackHostRead(t)
    <3>0. UNCHANGED <<worldVars, historyVars>>
      BY <2>30 DEF RollbackHostRead
    <3>1. CASE Step(t, "rbHost", "end", op[t])
      BY <3>0, <3>1 DEF Step, Return, Abort, Confirmed, Failed
    <3>2. CASE "host" \in op[t].made /\ known[Entry(t)] > 0 /\ Step(t, "rbHost", "rbHostWrite", [op[t] EXCEPT !.hosts = known])
      BY <3>0, <3>2 DEF Step, Return, Abort, Confirmed, Failed
    <3>3. CASE Step(t, "rbHost", "end", Failed(op[t]))
      BY <3>0, <3>3 DEF Step, Return, Abort, Confirmed, Failed
    <3> QED
      BY <2>30, <3>1, <3>2, <3>3 DEF RollbackHostRead
  <2>31. CASE RollbackHostWrite(t)
    <3>0. UNCHANGED <<hostKey, keyFiles, sshDir, akFile, authorized, profile, historyVars>>
      BY <2>31 DEF RollbackHostWrite
    <3>1. CASE Step(t, "rbHostWrite", "end", [op[t] EXCEPT !.hosts = NoEntries]) /\ known' = [op[t].hosts EXCEPT ![Entry(t)] = @ - 1]
      BY <3>0, <3>1 DEF Step, Return, Abort, Confirmed, Failed
    <3>2. CASE Step(t, "rbHostWrite", "end", Failed(op[t])) /\ UNCHANGED known
      BY <3>0, <3>2 DEF Step, Return, Abort, Confirmed, Failed
    <3> QED
      BY <2>31, <3>1, <3>2 DEF RollbackHostWrite
  <2>32. CASE RaiseFailure(t)
    BY <2>32 DEF RaiseFailure, Step, Return, Abort, Confirmed, Failed
  <2>33. CASE Crash(t)
    BY <2>33 DEF Crash, Step, Return, Abort, Confirmed, Failed
  <2> QED
    BY <1>3, <2>1, <2>2, <2>3, <2>4, <2>5, <2>6, <2>7, <2>8, <2>9, <2>10, <2>11, <2>12, <2>13, <2>14, <2>15, <2>16, <2>17, <2>18, <2>19, <2>20, <2>21, <2>22, <2>23, <2>24, <2>25, <2>26, <2>27, <2>28, <2>29, <2>30, <2>31, <2>32, <2>33 DEF Forward, Failure, Rollback
<1>4. CASE OwnerEdits
  BY <1>4, OwnerKeeps
<1> QED
  BY <1>1, <1>2, <1>3, <1>4 DEF Next

\* Keys stay with one thread until they are issued.
LEMMA KeyStep == SetupInv /\ [Next]_vars => KeyInv'
<1> SUFFICES ASSUME SetupInv, [Next]_vars PROVE KeyInv'
  OBVIOUS
<1> USE SetupConstants DEF SetupInv, TypeOK, KeyInv, NoOperation, Operations, ControlInv, Lines
<1>1. CASE UNCHANGED vars
  BY <1>1 DEF vars
<1>2. CASE Rotate
  BY <1>2 DEF Rotate
<1>3. ASSUME NEW t \in Setups, Begin(t) \/ Forward(t) \/ Failure(t) \/ Rollback(t) \/ Crash(t)
      PROVE  KeyInv'
  <2>1. CASE Begin(t)
    BY <2>1 DEF Begin, Step, Return, Abort, Confirmed, Failed
  <2>2. CASE Handshake(t)
    BY <2>2 DEF Handshake, Step, Return, Abort, Confirmed, Failed
  <2>3. CASE Status(t)
    <3>0. UNCHANGED <<worldVars, historyVars>>
      BY <2>3 DEF Status
    <3>1. CASE KnownKeys(op[t].server) = {} /\ op[t].fp = op[t].host /\ Step(t, "status", "confirm", op[t])
      BY <3>0, <3>1 DEF Step, Return, Abort, Confirmed, Failed
    <3>2. CASE op[t].host \in KnownKeys(op[t].server) /\ Step(t, "status", "auth", op[t])
      BY <3>0, <3>2 DEF Step, Return, Abort, Confirmed, Failed
    <3> QED
      BY <2>3, <3>1, <3>2 DEF Status
  <2>4. CASE ConfirmStatus(t)
    <3>0. UNCHANGED <<worldVars, historyVars>>
      BY <2>4 DEF ConfirmStatus
    <3>1. CASE op[t].host \in KnownKeys(op[t].server) /\ op[t].mode = "confirm" /\ Return(t, "confirm")
      BY <3>0, <3>1 DEF Step, Return, Abort, Confirmed, Failed
    <3>2. CASE op[t].host \in KnownKeys(op[t].server) /\ op[t].mode # "confirm" /\ Step(t, "confirm", "auth", op[t])
      BY <3>0, <3>2 DEF Step, Return, Abort, Confirmed, Failed
    <3>3. CASE Step(t, "confirm", "hostRead", op[t])
      BY <3>0, <3>3 DEF Step, Return, Abort, Confirmed, Failed
    <3> QED
      BY <2>4, <3>1, <3>2, <3>3 DEF ConfirmStatus, Confirmed
  <2>5. CASE HostRead(t)
    BY <2>5 DEF HostRead, Step, Return, Abort, Confirmed, Failed
  <2>6. CASE HostWrite(t)
    <3>0. known' = [op[t].hosts EXCEPT ![Entry(t)] = @ + 1] /\ UNCHANGED <<hostKey, keyFiles, sshDir, akFile, authorized, profile, historyVars>>
      BY <2>6 DEF HostWrite
    <3>1. CASE Return(t, "hostWrite")
      BY <3>0, <3>1 DEF Step, Return, Abort, Confirmed, Failed
    <3>2. CASE op[t].mode # "confirm" /\ Step(t, "hostWrite", "auth", [op[t] EXCEPT !.hosts = NoEntries, !.made = @ \cup {"host"}])
      BY <3>0, <3>2 DEF Step, Return, Abort, Confirmed, Failed
    <3> QED
      BY <2>6, <3>1, <3>2 DEF HostWrite, Confirmed
  <2>7. CASE Authenticate(t)
    BY <2>7 DEF Authenticate, Step, Return, Abort, Confirmed, Failed
  <2>8. CASE LoadKey(t)
    BY <2>8 DEF LoadKey, Step, Return, Abort, Confirmed, Failed
  <2>9. CASE GenerateKey(t)
    <3>1. PICK k \in Keys : /\ keyFiles[k] = "unused"
                            /\ keyFiles' = [keyFiles EXCEPT ![k] = "pair"]
                            /\ Step(t, "key", "sftp", [op[t] EXCEPT !.key = k, !.made = @ \cup {"key"}])
      BY <2>9 DEF GenerateKey
    <3>2. /\ op'[t].key = k /\ "key" \in op'[t].made /\ op'[t].reuse = op[t].reuse
          /\ pc'[t] = "sftp" /\ issued' = issued
          /\ \A u \in Setups : u # t => op'[u] = op[u] /\ pc'[u] = pc[u]
      BY <2>9, <3>1 DEF GenerateKey, Step
    <3>3. k \notin issued
      BY <3>1
    <3>4. ASSUME NEW u \in Setups PROVE op[u].key # k
      <4>1. CASE "key" \in op[u].made
        BY <3>1, <4>1
      <4>2. CASE "key" \notin op[u].made
        BY <3>1, <3>3, <4>2
      <4> QED
        BY <4>1, <4>2
    <3>5. \A x \in Keys : x # k => keyFiles'[x] = keyFiles[x]
      BY <3>1
    <3>6. keyFiles'[k] = "pair"
      BY <3>1
    <3>7. \A x \in issued' : keyFiles'[x] = "pair"
      BY <3>2, <3>3, <3>5
    <3>8. ASSUME NEW u \in Setups, u # t
          PROVE  /\ op[u].key # None => op[u].key \in Keys /\ keyFiles'[op[u].key] = keyFiles[op[u].key]
                 /\ op'[u] = op[u] /\ pc'[u] = pc[u]
      BY <3>2, <3>4, <3>5, <3>8
    <3>9. ASSUME NEW u \in Setups
          PROVE  /\ op'[u].reuse # None => op'[u].reuse \in issued'
                 /\ op'[u].key = None => "key" \notin op'[u].made
                 /\ pc'[u] \in HostPcs \cup {"handshake", "status", "auth", "key"} => op'[u].key = None
                 /\ op'[u].key # None /\ "key" \notin op'[u].made => op'[u].key \in issued'
                 /\ "key" \in op'[u].made => op'[u].key \notin issued' /\ keyFiles'[op'[u].key] # "unused"
                 /\ "key" \in op'[u].made /\ pc'[u] \in ForwardPcs => keyFiles'[op'[u].key] = "pair"
      <4>1. CASE u = t
        BY <3>2, <3>3, <3>6, <4>1
      <4>2. CASE u # t
        BY <3>2, <3>8, <4>2
      <4> QED
        BY <4>1, <4>2
    <3>10. ASSUME NEW u \in Setups, NEW v \in Setups, u # v, "key" \in op'[u].made
           PROVE  op'[v].key # op'[u].key
      <4>1. CASE u = t
        BY <3>2, <3>4, <3>10, <4>1
      <4>2. CASE v = t
        BY <3>2, <3>4, <3>10, <4>2
      <4>3. CASE u # t /\ v # t
        BY <3>2, <3>10, <4>3
      <4> QED
        BY <4>1, <4>2, <4>3
    <3> QED
      BY <3>7, <3>9, <3>10
  <2>10. CASE OpenSftp(t)
    BY <2>10 DEF OpenSftp, Step, Return, Abort, Confirmed, Failed
  <2>11. CASE EnsureDirectory(t)
    BY <2>11 DEF EnsureDirectory, Step, Return, Abort, Confirmed, Failed
  <2>12. CASE ReadKeys(t)
    <3> DEFINE s == op[t].server
    <3>0. UNCHANGED <<worldVars, historyVars>>
      BY <2>12 DEF ReadKeys
    <3>1. CASE Step(t, "akRead", "verify", op[t])
      BY <3>0, <3>1 DEF Step, Return, Abort, Confirmed, Failed
    <3>2. CASE s \notin akFile /\ Step(t, "akRead", "akWrite", [op[t] EXCEPT !.lines = authorized[s], !.made = @ \cup {"file"}])
      BY <3>0, <3>2 DEF Step, Return, Abort, Confirmed, Failed
    <3>3. CASE s \in akFile /\ Step(t, "akRead", "akWrite", [op[t] EXCEPT !.lines = authorized[s], !.made = @ \cup {}])
      BY <3>0, <3>3 DEF Step, Return, Abort, Confirmed, Failed
    <3> QED
      BY <2>12, <3>1, <3>2, <3>3 DEF ReadKeys
  <2>13. CASE WriteKeys(t)
    BY <2>13 DEF WriteKeys, Step, Return, Abort, Confirmed, Failed
  <2>14. CASE VerifyLogin(t)
    <3>0. keyFiles[op[t].key] = "pair" /\ UNCHANGED worldVars
      BY <2>14 DEF VerifyLogin
    <3>1. CASE Succeed(t, "verify")
      BY <3>0, <3>1 DEF Step, Return, Abort, Confirmed, Failed
    <3>2. CASE op[t].mode # "bootstrap" /\ Step(t, "verify", "complete", op[t]) /\ UNCHANGED historyVars
      BY <3>0, <3>2 DEF Step, Return, Abort, Confirmed, Failed
    <3> QED
      BY <2>14, <3>1, <3>2 DEF VerifyLogin
  <2>15. CASE CreateProfile(t)
    BY <2>15 DEF CreateProfile, Step, Return, Abort, Confirmed, Failed
  <2>16. CASE StepFails(t)
    BY <2>16 DEF StepFails, Step, Return, Abort, Confirmed, Failed
  <2>17. CASE GenerateFails(t)
    BY <2>17 DEF GenerateFails, Step, Return, Abort, Confirmed, Failed
  <2>18. CASE EnsureDirectoryFails(t)
    BY <2>18 DEF EnsureDirectoryFails, Step, Return, Abort, Confirmed, Failed
  <2>19. CASE PermissionsFail(t)
    BY <2>19 DEF PermissionsFail, Step, Return, Abort, Confirmed, Failed
  <2>20. CASE InstallFails(t)
    <3> DEFINE s == op[t].server
    <3>0. UNCHANGED <<hostKey, known, keyFiles, akFile, authorized, profile, historyVars>>
      BY <2>20 DEF InstallFails
    <3>1. ASSUME NEW from, from \in {"akRead", "akWrite"} /\ Abort(t, from, [op[t] EXCEPT !.made = @ \ Receipt]) /\ UNCHANGED sshDir
          PROVE  KeyInv'
      BY <3>0, <3>1 DEF Step, Return, Abort, Confirmed, Failed
    <3>2. ASSUME NEW from, from \in {"akRead", "akWrite"} /\ Abort(t, from, [op[t] EXCEPT !.made = @ \ Receipt]) /\ sshDir' = sshDir \ {s}
          PROVE  KeyInv'
      BY <3>0, <3>2 DEF Step, Return, Abort, Confirmed, Failed
    <3>3. ASSUME NEW from, from \in {"akRead", "akWrite"} /\ Abort(t, from, [[op[t] EXCEPT !.made = @ \ Receipt] EXCEPT !.undo = "failed"]) /\ UNCHANGED sshDir
          PROVE  KeyInv'
      BY <3>0, <3>3 DEF Step, Return, Abort, Confirmed, Failed
    <3> QED
      BY <2>20, <3>1, <3>2, <3>3 DEF InstallFails
  <2>21. CASE WriteKeysLost(t)
    BY <2>21 DEF WriteKeysLost, Step, Return, Abort, Confirmed, Failed
  <2>22. CASE RollbackRead(t)
    <3> DEFINE s == op[t].server
    <3>0. UNCHANGED <<hostKey, known, keyFiles, akFile, authorized, profile, historyVars>>
      BY <2>22 DEF RollbackRead
    <3>1. CASE Step(t, "rbLine", "rbKey", op[t]) /\ UNCHANGED sshDir
      BY <3>0, <3>1 DEF Step, Return, Abort, Confirmed, Failed
    <3>2. CASE Step(t, "rbLine", "rbFile", op[t]) /\ UNCHANGED sshDir
      BY <3>0, <3>2 DEF Step, Return, Abort, Confirmed, Failed
    <3>3. CASE sshDir' = sshDir \cup {s} /\ op[t].key \in authorized[s] /\ Step(t, "rbLine", "rbWrite", [op[t] EXCEPT !.lines = authorized[s]])
      BY <3>0, <3>3 DEF Step, Return, Abort, Confirmed, Failed
    <3>4. CASE sshDir' = sshDir \cup {s} /\ Step(t, "rbLine", "rbKey", Failed(op[t]))
      BY <3>0, <3>4 DEF Step, Return, Abort, Confirmed, Failed
    <3> QED
      BY <2>22, <3>1, <3>2, <3>3, <3>4 DEF RollbackRead
  <2>23. CASE RollbackWrite(t)
    BY <2>23 DEF RollbackWrite, Step, Return, Abort, Confirmed, Failed
  <2>24. CASE RollbackWriteLost(t)
    BY <2>24 DEF RollbackWriteLost, Step, Return, Abort, Confirmed, Failed
  <2>25. CASE RollbackFile(t)
    <3>0. UNCHANGED <<worldVars, historyVars>>
      BY <2>25 DEF RollbackFile
    <3>1. CASE Step(t, "rbFile", "rbDir", op[t])
      BY <3>0, <3>1 DEF Step, Return, Abort, Confirmed, Failed
    <3>2. CASE "file" \in op[t].made /\ Step(t, "rbFile", "rbUnlink", op[t])
      BY <3>0, <3>2 DEF Step, Return, Abort, Confirmed, Failed
    <3>3. CASE Step(t, "rbFile", "rbKey", Failed(op[t]))
      BY <3>0, <3>3 DEF Step, Return, Abort, Confirmed, Failed
    <3> QED
      BY <2>25, <3>1, <3>2, <3>3 DEF RollbackFile
  <2>26. CASE RollbackUnlink(t)
    BY <2>26 DEF RollbackUnlink, Step, Return, Abort, Confirmed, Failed
  <2>27. CASE RollbackDirectory(t)
    <3> DEFINE s == op[t].server
    <3>0. UNCHANGED <<hostKey, known, keyFiles, akFile, authorized, profile, historyVars>>
      BY <2>27 DEF RollbackDirectory
    <3>1. CASE Step(t, "rbDir", "rbKey", op[t]) /\ UNCHANGED sshDir
      BY <3>0, <3>1 DEF Step, Return, Abort, Confirmed, Failed
    <3>2. CASE Step(t, "rbDir", "rbKey", op[t]) /\ sshDir' = sshDir \ {s}
      BY <3>0, <3>2 DEF Step, Return, Abort, Confirmed, Failed
    <3> QED
      BY <2>27, <3>1, <3>2 DEF RollbackDirectory
  <2>28. CASE RollbackRemoteFails(t)
    <3>0. UNCHANGED <<worldVars, historyVars>>
      BY <2>28 DEF RollbackRemoteFails
    <3>1. ASSUME NEW from, from \in {"rbLine", "rbWrite", "rbFile", "rbUnlink", "rbDir"} /\ Step(t, from, "rbKey", Failed(op[t]))
          PROVE  KeyInv'
      BY <3>0, <3>1 DEF Step, Return, Abort, Confirmed, Failed
    <3> QED
      BY <2>28, <3>1 DEF RollbackRemoteFails
  <2>29. CASE RollbackKey(t)
    <3>0. UNCHANGED <<hostKey, known, sshDir, akFile, authorized, profile, historyVars>>
      BY <2>29 DEF RollbackKey
    <3>1. CASE Step(t, "rbKey", "rbHost", op[t]) /\ UNCHANGED keyFiles
      BY <3>0, <3>1 DEF Step, Return, Abort, Confirmed, Failed
    <3>2. CASE "key" \in op[t].made /\ Step(t, "rbKey", "rbHost", op[t]) /\ keyFiles' = [keyFiles EXCEPT ![op[t].key] = "gone"]
      BY <3>0, <3>2 DEF Step, Return, Abort, Confirmed, Failed
    <3>3. CASE "key" \in op[t].made /\ Step(t, "rbKey", "rbHost", Failed(op[t])) /\ keyFiles' = [keyFiles EXCEPT ![op[t].key] = "left"]
      BY <3>0, <3>3 DEF Step, Return, Abort, Confirmed, Failed
    <3> QED
      BY <2>29, <3>1, <3>2, <3>3 DEF RollbackKey
  <2>30. CASE RollbackHostRead(t)
    <3>0. UNCHANGED <<worldVars, historyVars>>
      BY <2>30 DEF RollbackHostRead
    <3>1. CASE Step(t, "rbHost", "end", op[t])
      BY <3>0, <3>1 DEF Step, Return, Abort, Confirmed, Failed
    <3>2. CASE "host" \in op[t].made /\ known[Entry(t)] > 0 /\ Step(t, "rbHost", "rbHostWrite", [op[t] EXCEPT !.hosts = known])
      BY <3>0, <3>2 DEF Step, Return, Abort, Confirmed, Failed
    <3>3. CASE Step(t, "rbHost", "end", Failed(op[t]))
      BY <3>0, <3>3 DEF Step, Return, Abort, Confirmed, Failed
    <3> QED
      BY <2>30, <3>1, <3>2, <3>3 DEF RollbackHostRead
  <2>31. CASE RollbackHostWrite(t)
    <3>0. UNCHANGED <<hostKey, keyFiles, sshDir, akFile, authorized, profile, historyVars>>
      BY <2>31 DEF RollbackHostWrite
    <3>1. CASE Step(t, "rbHostWrite", "end", [op[t] EXCEPT !.hosts = NoEntries]) /\ known' = [op[t].hosts EXCEPT ![Entry(t)] = @ - 1]
      BY <3>0, <3>1 DEF Step, Return, Abort, Confirmed, Failed
    <3>2. CASE Step(t, "rbHostWrite", "end", Failed(op[t])) /\ UNCHANGED known
      BY <3>0, <3>2 DEF Step, Return, Abort, Confirmed, Failed
    <3> QED
      BY <2>31, <3>1, <3>2 DEF RollbackHostWrite
  <2>32. CASE RaiseFailure(t)
    BY <2>32 DEF RaiseFailure, Step, Return, Abort, Confirmed, Failed
  <2>33. CASE Crash(t)
    BY <2>33 DEF Crash, Step, Return, Abort, Confirmed, Failed
  <2> QED
    BY <1>3, <2>1, <2>2, <2>3, <2>4, <2>5, <2>6, <2>7, <2>8, <2>9, <2>10, <2>11, <2>12, <2>13, <2>14, <2>15, <2>16, <2>17, <2>18, <2>19, <2>20, <2>21, <2>22, <2>23, <2>24, <2>25, <2>26, <2>27, <2>28, <2>29, <2>30, <2>31, <2>32, <2>33 DEF Forward, Failure, Rollback
<1>4. CASE OwnerEdits
  BY <1>4, OwnerKeeps
<1> QED
  BY <1>1, <1>2, <1>3, <1>4 DEF Next

\* A step after which the thread holds no copy of authorized_keys, and which leaves
\* the file alone.
Settles(t) ==
    /\ pc'[t] \notin CopyPcs /\ op'[t].lines = {} /\ op'[t].behind = FALSE
    /\ \A u \in Setups : u # t => pc'[u] = pc[u] /\ op'[u] = op[u]
    /\ UNCHANGED <<authorized, intent>>

\* A thread outside the copying states holds no lines and is not behind.
LEMMA NoCopy ==
    ASSUME SetupInv, NEW t \in Setups, pc[t] \notin {"akWrite", "rbWrite"}
    PROVE  op[t].lines = {} /\ (pc[t] # "rbUnlink" => op[t].behind = FALSE)
  BY DEF SetupInv, TypeOK, LineInv, CopyPcs, Operations

\* Such a step says nothing new about the owner's line.
LEMMA SettledLines ==
    ASSUME SetupInv, NEW t \in Setups, Settles(t)
    PROVE  LineInv'
  BY DEF SetupInv, LineInv, UserLinesKept, Settles, CopyPcs

\* So does the step to such a state with a record that holds no lines.
LEMMA SettledStep ==
    ASSUME SetupInv, NEW t \in Setups, NEW from, NEW to, NEW o, Step(t, from, to, o),
           to \notin CopyPcs, o.lines = {}, o.behind = FALSE, UNCHANGED <<authorized, intent>>
    PROVE  LineInv'
<1>1. Settles(t)
  BY DEF SetupInv, TypeOK, Settles, Step
<1> QED
  BY <1>1, SettledLines

\* And the step between two such states whose record has the lines it had.
LEMMA KeptStep ==
    ASSUME SetupInv, NEW t \in Setups, NEW from, NEW to, NEW o, Step(t, from, to, o),
           from \notin CopyPcs, to \notin CopyPcs, o.lines = op[t].lines, o.behind = op[t].behind,
           UNCHANGED <<authorized, intent>>
    PROVE  LineInv'
<1>1. pc[t] = from
  BY DEF Step
<1>2. o.lines = {} /\ o.behind = FALSE
  BY <1>1, NoCopy DEF CopyPcs
<1> QED
  BY <1>2, SettledStep

\* A failed rollback step drops its copy.
LEMMA FailedClears ==
    ASSUME NEW o \in Operations
    PROVE  Failed(o).lines = {} /\ Failed(o).behind = FALSE
  BY DEF Failed, Operations

LEMMA FailedStep ==
    ASSUME SetupInv, NEW t \in Setups, NEW from, NEW to, to \notin CopyPcs,
           Step(t, from, to, Failed(op[t])), UNCHANGED <<authorized, intent>>
    PROVE  LineInv'
<1> DEFINE o == Failed(op[t])
<1>1. o.lines = {} /\ o.behind = FALSE
  BY FailedClears DEF SetupInv, TypeOK
<1>2. Step(t, from, to, o)
  OBVIOUS
<1> HIDE DEF o
<1> QED
  BY <1>1, <1>2, SettledStep

\* Reading the file takes the owner's line as it stands.
LEMMA ReadLines ==
    ASSUME SetupInv, NEW t \in Setups, pc[t] \notin CopyPcs, op[t].server \in Servers,
           pc'[t] \in CopyPcs, op'[t].lines = authorized[op[t].server],
           pc'[t] = "rbUnlink" => op'[t].lines = {},
           op'[t].server = op[t].server, op'[t].behind = FALSE,
           \A u \in Setups : u # t => pc'[u] = pc[u] /\ op'[u] = op[u],
           UNCHANGED <<authorized, intent>>
    PROVE  LineInv'
  BY DEF SetupInv, LineInv, UserLinesKept, CopyPcs

\* Replacing or removing the file leaves the owner's line as the copy has it, and a
\* copy that is behind overtakes what the owner did.
LEMMA WriteLines ==
    ASSUME SetupInv, NEW t \in Setups, pc[t] \in CopyPcs, NEW l,
           UserLine \in l <=> UserLine \in op[t].lines,
           authorized' = [authorized EXCEPT ![op[t].server] = l], Overtakes(t),
           pc'[t] \notin CopyPcs, op'[t].lines = {}, op'[t].behind = FALSE,
           \A u \in Setups : u # t => pc'[u] = pc[u] /\ op'[u] = op[u]
    PROVE  LineInv'
<1> DEFINE s == op[t].server
<1> USE DEF SetupInv, TypeOK, LineInv, UserLinesKept, CopyPcs
<1>0. s \in Servers /\ op[t].behind \in BOOLEAN
  BY SetupConstants DEF ControlInv, Operations
<1>1. ASSUME NEW x \in Servers, intent'[x] # "overtaken"
      PROVE  intent'[x] = intent[x] /\ (x = s => ~ op[t].behind)
             /\ (UserLine \in authorized'[x] <=> intent[x] = "line")
  <2>1. CASE op[t].behind
    <3>1. intent' = [intent EXCEPT ![s] = "overtaken"]
      BY <2>1 DEF Overtakes
    <3>2. x # s /\ intent'[x] = intent[x] /\ authorized'[x] = authorized[x]
      BY <1>0, <1>1, <3>1
    <3> QED
      BY <1>1, <3>2
  <2>2. CASE ~ op[t].behind
    <3>1. intent' = intent
      BY <2>2 DEF Overtakes
    <3>2. CASE x = s
      BY <1>0, <1>1, <2>2, <3>1, <3>2
    <3>3. CASE x # s
      BY <1>0, <1>1, <2>2, <3>1, <3>3
    <3> QED
      BY <3>2, <3>3
  <2> QED
    BY <2>1, <2>2
<1>2. UserLinesKept'
  BY <1>1
<1>3. ASSUME NEW u \in Setups
      PROVE  /\ op'[u].behind => pc'[u] \in CopyPcs
             /\ pc'[u] \in CopyPcs /\ ~ op'[u].behind /\ intent'[op'[u].server] # "overtaken" =>
                  (intent'[op'[u].server] = "line" <=> UserLine \in op'[u].lines)
             /\ pc'[u] \notin {"akWrite", "rbWrite"} => op'[u].lines = {}
  <2>1. CASE u = t
    BY <2>1
  <2>2. CASE u # t
    <3>1. pc'[u] = pc[u] /\ op'[u] = op[u]
      BY <2>2
    <3>2. pc[u] \in CopyPcs => op[u].server \in Servers
      BY SetupConstants DEF ControlInv, Operations
    <3> QED
      BY <1>1, <3>1, <3>2
  <2> QED
    BY <2>1, <2>2
<1> QED
  BY <1>2, <1>3

LEMMA WriteStep ==
    ASSUME SetupInv, NEW t \in Setups, NEW from \in CopyPcs, NEW to, to \notin CopyPcs, NEW o,
           Step(t, from, to, o), o.lines = {}, o.behind = FALSE, NEW l,
           UserLine \in l <=> UserLine \in op[t].lines,
           authorized' = [authorized EXCEPT ![op[t].server] = l], Overtakes(t)
    PROVE  LineInv'
<1>1. /\ pc[t] = from /\ pc'[t] = to /\ op'[t] = o
      /\ \A u \in Setups : u # t => pc'[u] = pc[u] /\ op'[u] = op[u]
  BY DEF SetupInv, TypeOK, Step
<1> QED
  BY <1>1, WriteLines

\* Every copy of authorized_keys has the owner's line as the owner left it, unless
\* the owner has edited the file since it was read.
LEMMA LineStep == SetupInv /\ [Next]_vars => LineInv'
<1> SUFFICES ASSUME SetupInv, [Next]_vars PROVE LineInv'
  OBVIOUS
<1>0. /\ pc \in [Setups -> Pcs] /\ op \in [Setups -> Operations]
      /\ authorized \in [Servers -> SUBSET Lines] /\ intent \in [Servers -> {"line", "none", "overtaken"}]
  BY DEF SetupInv, TypeOK
<1>1. CASE UNCHANGED vars
  BY <1>1 DEF vars, SetupInv, LineInv, UserLinesKept
<1>2. CASE Rotate
  BY <1>2 DEF Rotate, SetupInv, LineInv, UserLinesKept
<1>3. ASSUME NEW t \in Setups, Begin(t) \/ Forward(t) \/ Failure(t) \/ Rollback(t) \/ Crash(t)
      PROVE  LineInv'
  <2>0. /\ pc[t] \notin {"akWrite", "rbWrite"} => op[t].lines = {}
        /\ pc[t] \notin CopyPcs => op[t].behind = FALSE
        /\ NoOperation.lines = {} /\ NoOperation.behind = FALSE
    BY NoCopy DEF CopyPcs, NoOperation
  <2>1. CASE Begin(t)
    <3>1. PICK m \in {"confirm", "bootstrap", "managed"}, n \in Names \cup {None}, s \in Servers,
               f \in HostKeys \cup {None}, r \in issued \cup {None} :
            /\ m = "managed" <=> n # None
            /\ m = "managed" => profile[n] = None
            /\ m = "confirm" => f # None /\ r = None
            /\ Step(t, "idle", "handshake", Called(m, n, s, f, r))
            /\ accepted' = IF f = None THEN accepted ELSE accepted \cup {<<s, f>>}
            /\ UNCHANGED <<worldVars, issued, quiet, intent>>
      BY <2>1, BeginCalls, Zenon
    <3>2. Called(m, n, s, f, r).lines = {} /\ Called(m, n, s, f, r).behind = FALSE
      BY DEF NoOperation
    <3> QED
      BY <1>0, <3>1, <3>2, SettledLines DEF Settles, Step, CopyPcs
  <2>2. CASE Handshake(t)
    <3> DEFINE o == [op[t] EXCEPT !.host = hostKey[op[t].server]]
    <3>1. \E to \in {"confirm", "status"} : Step(t, "handshake", to, o)
      BY <2>2 DEF Handshake
    <3>2. o.lines = op[t].lines /\ o.behind = op[t].behind
      BY <1>0 DEF Operations
    <3>3. UNCHANGED <<authorized, intent>>
      BY <2>2 DEF Handshake, worldVars, historyVars
    <3> HIDE DEF o
    <3> QED
      BY <3>1, <3>2, <3>3, KeptStep DEF CopyPcs
  <2>3. CASE Status(t) \/ Authenticate(t) \/ OpenSftp(t)
    <3>1. \E from \in {"status", "auth", "sftp"}, to \in {"confirm", "auth", "key", "dir"} :
            Step(t, from, to, op[t])
      BY <2>3 DEF Status, Authenticate, OpenSftp
    <3>2. UNCHANGED <<authorized, intent>>
      BY <2>3 DEF Status, Authenticate, OpenSftp, worldVars, historyVars
    <3> QED
      BY <3>1, <3>2, KeptStep DEF CopyPcs
  <2>14. CASE LoadKey(t)
    <3> DEFINE o == [op[t] EXCEPT !.key = op[t].reuse]
    <3>1. Step(t, "key", "sftp", o)
      BY <2>14 DEF LoadKey
    <3>2. o.lines = op[t].lines /\ o.behind = op[t].behind
      BY <1>0 DEF Operations
    <3>3. UNCHANGED <<authorized, intent>>
      BY <2>14 DEF LoadKey, worldVars, historyVars
    <3> HIDE DEF o
    <3> QED
      BY <3>1, <3>2, <3>3, KeptStep DEF CopyPcs
  <2>15. CASE GenerateKey(t)
    <3> DEFINE o(k) == [op[t] EXCEPT !.key = k, !.made = @ \cup {"key"}]
    <3>1. PICK k : Step(t, "key", "sftp", o(k))
      BY <2>15 DEF GenerateKey
    <3>2. UNCHANGED <<authorized, intent>>
      BY <2>15 DEF GenerateKey
    <3>3. o(k).lines = op[t].lines /\ o(k).behind = op[t].behind
      BY <1>0 DEF Operations
    <3> HIDE DEF o
    <3> QED
      BY <3>1, <3>2, <3>3, KeptStep DEF CopyPcs
  <2>16. CASE EnsureDirectory(t)
    <3> DEFINE o(m) == [op[t] EXCEPT !.made = @ \cup m]
    <3>1. PICK m : Step(t, "dir", "akRead", o(m))
      BY <2>16 DEF EnsureDirectory
    <3>2. UNCHANGED <<authorized, intent>>
      BY <2>16 DEF EnsureDirectory
    <3>3. o(m).lines = op[t].lines /\ o(m).behind = op[t].behind
      BY <1>0 DEF Operations
    <3> HIDE DEF o
    <3> QED
      BY <3>1, <3>2, <3>3, KeptStep DEF CopyPcs
  <2>17. CASE ConfirmStatus(t) \/ VerifyLogin(t) \/ CreateProfile(t)
    <3>1. \E from \in {"confirm", "verify", "complete"} :
            \/ Step(t, from, "idle", NoOperation)
            \/ \E to \in {"auth", "hostRead", "complete"} : Step(t, from, to, op[t])
      BY <2>17 DEF ConfirmStatus, VerifyLogin, CreateProfile, Confirmed, Return
    <3>2. UNCHANGED <<authorized, intent>>
      BY <2>17 DEF ConfirmStatus, VerifyLogin, CreateProfile, worldVars, historyVars
    <3>3. ASSUME NEW from, Step(t, from, "idle", NoOperation)
          PROVE  LineInv'
      BY <2>0, <3>2, <3>3, SettledStep DEF CopyPcs
    <3> QED
      BY <3>1, <3>2, <3>3, KeptStep DEF CopyPcs
  <2>18. CASE HostRead(t)
    <3> DEFINE o == [op[t] EXCEPT !.hosts = known]
    <3>1. Step(t, "hostRead", "hostWrite", o)
      BY <2>18 DEF HostRead
    <3>2. o.lines = op[t].lines /\ o.behind = op[t].behind
      BY <1>0 DEF Operations
    <3>3. UNCHANGED <<authorized, intent>>
      BY <2>18 DEF HostRead, worldVars, historyVars
    <3> HIDE DEF o
    <3> QED
      BY <3>1, <3>2, <3>3, KeptStep DEF CopyPcs
  <2>19. CASE HostWrite(t)
    <3>1. \/ Step(t, "hostWrite", "idle", NoOperation)
          \/ Step(t, "hostWrite", "auth", [op[t] EXCEPT !.hosts = NoEntries, !.made = @ \cup {"host"}])
      BY <2>19 DEF HostWrite, Confirmed, Return
    <3>2. UNCHANGED <<authorized, intent>>
      BY <2>19 DEF HostWrite, worldVars, historyVars
    <3> DEFINE o == [op[t] EXCEPT !.hosts = NoEntries, !.made = @ \cup {"host"}]
    <3>3. o.lines = op[t].lines /\ o.behind = op[t].behind
      BY <1>0 DEF Operations
    <3>4. CASE Step(t, "hostWrite", "idle", NoOperation)
      BY <2>0, <3>2, <3>4, SettledStep DEF CopyPcs
    <3>5. CASE Step(t, "hostWrite", "auth", o)
      <4> HIDE DEF o
      <4> QED BY <3>2, <3>3, <3>5, KeptStep DEF CopyPcs
    <3> QED
      BY <3>1, <3>4, <3>5
  <2>4. CASE ReadKeys(t)
    <3> DEFINE s == op[t].server
               o(m) == [op[t] EXCEPT !.lines = authorized[s], !.made = @ \cup m]
    <3>1. \/ Step(t, "akRead", "verify", op[t])
          \/ \E m \in SUBSET {"file"} : Step(t, "akRead", "akWrite", o(m))
      BY <2>4 DEF ReadKeys
    <3>2. UNCHANGED <<authorized, intent>>
      BY <2>4 DEF ReadKeys
    <3>3. CASE Step(t, "akRead", "verify", op[t])
      BY <1>0, <2>0, <3>2, <3>3, SettledLines DEF Settles, Step, CopyPcs
    <3>4. ASSUME NEW m \in SUBSET {"file"}, Step(t, "akRead", "akWrite", o(m)) PROVE LineInv'
      <4>1. o(m).lines = authorized[s] /\ o(m).server = s /\ o(m).behind = FALSE
        BY <1>0, <2>0, <3>4 DEF Operations, Step, CopyPcs
      <4>2. s \in Servers
        BY <1>0, <3>4, SetupConstants DEF SetupInv, ControlInv, Operations, Step
      <4> QED
        BY <1>0, <3>2, <3>4, <4>1, <4>2, ReadLines DEF Step, CopyPcs
    <3> QED
      BY <3>1, <3>3, <3>4
  <2>5. CASE WriteKeys(t)
    <3> DEFINE o == [op[t] EXCEPT !.lines = {}, !.behind = FALSE, !.made = @ \cup {"line"}]
    <3>1. /\ Step(t, "akWrite", "verify", o)
          /\ authorized' = [authorized EXCEPT ![op[t].server] = Installed(t)] /\ Overtakes(t)
      BY <2>5 DEF WriteKeys
    <3>2. o.lines = {} /\ o.behind = FALSE
      BY <1>0 DEF Operations
    <3> HIDE DEF o
    <3>3. UserLine \in Installed(t) <=> UserLine \in op[t].lines
      BY <1>0, <3>1, SetupConstants DEF SetupInv, ControlInv, Operations, Step
    <3> QED
      BY <3>1, <3>2, <3>3, WriteStep DEF CopyPcs
  <2>6. CASE WriteKeysLost(t)
    <3> DEFINE o(u) == [op[t] EXCEPT !.made = @ \ Receipt, !.undo = u]
               p(u) == [o(u) EXCEPT !.hosts = NoEntries, !.lines = {}, !.behind = FALSE]
    <3>1. PICK u : /\ Step(t, "akWrite", "rbLine", p(u))
                   /\ authorized' = [authorized EXCEPT ![op[t].server] = Installed(t)] /\ Overtakes(t)
      BY <2>6 DEF WriteKeysLost, Abort
    <3>2. p(u).lines = {} /\ p(u).behind = FALSE
      BY <1>0 DEF Operations
    <3> HIDE DEF p
    <3>3. UserLine \in Installed(t) <=> UserLine \in op[t].lines
      BY <1>0, <3>1, SetupConstants DEF SetupInv, ControlInv, Operations, Step
    <3> QED
      BY <3>1, <3>2, <3>3, WriteStep DEF CopyPcs
  <2>7. CASE Failure(t) /\ ~ WriteKeysLost(t)
    <3>1. ASSUME NEW from, NEW o, Abort(t, from, o),
                 \/ o = op[t] \/ o = [op[t] EXCEPT !.made = @ \ Receipt]
                 \/ o = [[op[t] EXCEPT !.made = @ \ Receipt] EXCEPT !.undo = "failed"],
                 UNCHANGED <<authorized, intent>>
          PROVE  LineInv'
      <4> DEFINE p == [o EXCEPT !.hosts = NoEntries, !.lines = {}, !.behind = FALSE]
      <4>1. p.lines = {} /\ p.behind = FALSE
        BY <1>0, <3>1 DEF Operations
      <4>2. Step(t, from, "rbLine", p)
        BY <3>1 DEF Abort
      <4> HIDE DEF p
      <4> QED
        BY <3>1, <4>1, <4>2, SettledStep DEF CopyPcs
    <3>2. CASE StepFails(t)
      BY <3>1, <3>2 DEF StepFails
    <3>3. CASE GenerateFails(t) \/ EnsureDirectoryFails(t)
      BY <3>1, <3>3 DEF GenerateFails, EnsureDirectoryFails
    <3>4. CASE PermissionsFail(t)
      BY <3>1, <3>4 DEF PermissionsFail
    <3>5. CASE InstallFails(t)
      <4>1. UNCHANGED <<authorized, intent>>
        BY <3>5 DEF InstallFails
      <4>2. \E from : \/ Abort(t, from, [op[t] EXCEPT !.made = @ \ Receipt])
                      \/ Abort(t, from, [[op[t] EXCEPT !.made = @ \ Receipt] EXCEPT !.undo = "failed"])
        BY <3>5 DEF InstallFails
      <4> QED
        BY <3>1, <4>1, <4>2
    <3> QED
      BY <2>7, <3>2, <3>3, <3>4, <3>5 DEF Failure
  <2>8. CASE RollbackRead(t)
    <3> DEFINE s == op[t].server
               o == [op[t] EXCEPT !.lines = authorized[s]]
    <3>1. \/ \E to \in {"rbKey", "rbFile"} : Step(t, "rbLine", to, op[t])
          \/ Step(t, "rbLine", "rbWrite", o)
          \/ Step(t, "rbLine", "rbKey", Failed(op[t]))
      BY <2>8 DEF RollbackRead
    <3>2. UNCHANGED <<authorized, intent>>
      BY <2>8 DEF RollbackRead
    <3>3. CASE Step(t, "rbLine", "rbWrite", o)
      <4>1. o.lines = authorized[s] /\ o.server = s /\ o.behind = FALSE
        BY <1>0, <2>0, <3>3 DEF Operations, Step, CopyPcs
      <4>2. s \in Servers
        BY <1>0, <3>3, SetupConstants DEF SetupInv, ControlInv, Operations, Step
      <4> QED
        BY <1>0, <3>2, <3>3, <4>1, <4>2, ReadLines DEF Step, CopyPcs
    <3>4. CASE Step(t, "rbLine", "rbKey", Failed(op[t]))
      BY <3>2, <3>4, FailedStep DEF CopyPcs
    <3>5. ASSUME NEW to \in {"rbKey", "rbFile"}, Step(t, "rbLine", to, op[t])
          PROVE  LineInv'
      BY <3>2, <3>5, KeptStep DEF CopyPcs
    <3> QED
      BY <3>1, <3>3, <3>4, <3>5
  <2>9. CASE RollbackWrite(t) \/ RollbackWriteLost(t)
    <3> DEFINE o == [op[t] EXCEPT !.lines = {}, !.behind = FALSE]
               f == Failed(op[t])
    <3>1. /\ Step(t, "rbWrite", "rbFile", o) \/ Step(t, "rbWrite", "rbKey", f)
          /\ authorized' = [authorized EXCEPT ![op[t].server] = op[t].lines \ {op[t].key}]
          /\ Overtakes(t)
      BY <2>9 DEF RollbackWrite, RollbackWriteLost
    <3>2. o.lines = {} /\ o.behind = FALSE
      BY <1>0 DEF Operations
    <3>3. f.lines = {} /\ f.behind = FALSE
      BY <1>0, FailedClears
    <3> HIDE DEF o, f
    <3>4. UserLine \in op[t].lines \ {op[t].key} <=> UserLine \in op[t].lines
      BY <1>0, <3>1, SetupConstants DEF SetupInv, ControlInv, Operations, Step
    <3>5. CASE Step(t, "rbWrite", "rbFile", o)
      BY <3>1, <3>2, <3>4, <3>5, WriteStep DEF CopyPcs
    <3>6. CASE Step(t, "rbWrite", "rbKey", f)
      BY <3>1, <3>3, <3>4, <3>6, WriteStep DEF CopyPcs
    <3> QED
      BY <3>1, <3>5, <3>6
  <2>10. CASE RollbackFile(t)
    <3> DEFINE s == op[t].server
    <3>1. \/ Step(t, "rbFile", "rbDir", op[t])
          \/ authorized[s] = {} /\ Step(t, "rbFile", "rbUnlink", op[t])
          \/ Step(t, "rbFile", "rbKey", Failed(op[t]))
      BY <2>10 DEF RollbackFile
    <3>2. UNCHANGED <<authorized, intent>>
      BY <2>10 DEF RollbackFile
    <3>3. CASE authorized[s] = {} /\ Step(t, "rbFile", "rbUnlink", op[t])
      <4>1. s \in Servers
        BY <1>0, <3>3, SetupConstants DEF SetupInv, ControlInv, Operations, Step
      <4> QED
        BY <1>0, <2>0, <3>2, <3>3, <4>1, ReadLines DEF Step, CopyPcs
    <3>4. CASE Step(t, "rbFile", "rbKey", Failed(op[t]))
      BY <3>2, <3>4, FailedStep DEF CopyPcs
    <3>5. CASE Step(t, "rbFile", "rbDir", op[t])
      BY <3>2, <3>5, KeptStep DEF CopyPcs
    <3> QED
      BY <3>1, <3>3, <3>4, <3>5
  <2>11. CASE RollbackUnlink(t)
    <3> DEFINE o == [op[t] EXCEPT !.behind = FALSE]
    <3>1. /\ Step(t, "rbUnlink", "rbDir", o)
          /\ authorized' = [authorized EXCEPT ![op[t].server] = {}] /\ Overtakes(t)
      BY <2>11 DEF RollbackUnlink
    <3>2. op[t].lines = {}
      BY <2>0, <3>1 DEF Step
    <3>3. o.lines = {} /\ o.behind = FALSE
      BY <1>0, <3>2 DEF Operations
    <3> HIDE DEF o
    <3> QED
      BY <3>1, <3>2, <3>3, WriteStep DEF CopyPcs
  <2>12. CASE RollbackDirectory(t) \/ RollbackRemoteFails(t) \/ RollbackKey(t) \/ RollbackHostRead(t)
    <3>1. \E from \in RollbackPcs, to \in {"rbKey", "rbHost", "rbHostWrite", "end"} :
            \/ from \notin CopyPcs /\ Step(t, from, to, op[t])
            \/ Step(t, from, to, Failed(op[t]))
            \/ from \notin CopyPcs /\ Step(t, from, to, [op[t] EXCEPT !.hosts = known])
      BY <2>12 DEF RollbackDirectory, RollbackRemoteFails, RollbackKey, RollbackHostRead, RollbackPcs, CopyPcs
    <3>2. UNCHANGED <<authorized, intent>>
      BY <2>12 DEF RollbackDirectory, RollbackRemoteFails, RollbackKey, RollbackHostRead, worldVars, historyVars
    <3>3. /\ [op[t] EXCEPT !.hosts = known].lines = op[t].lines
          /\ [op[t] EXCEPT !.hosts = known].behind = op[t].behind
      BY <1>0 DEF Operations
    <3>5. ASSUME NEW from, NEW to \in {"rbKey", "rbHost", "rbHostWrite", "end"},
                 \/ from \notin CopyPcs /\ Step(t, from, to, op[t])
                 \/ Step(t, from, to, Failed(op[t]))
                 \/ from \notin CopyPcs /\ Step(t, from, to, [op[t] EXCEPT !.hosts = known])
          PROVE  LineInv'
      <4>1. to \notin CopyPcs
        BY DEF CopyPcs
      <4>2. CASE from \notin CopyPcs /\ Step(t, from, to, op[t])
        BY <3>2, <4>1, <4>2, KeptStep
      <4>3. CASE Step(t, from, to, Failed(op[t]))
        BY <3>2, <4>1, <4>3, FailedStep
      <4>4. CASE from \notin CopyPcs /\ Step(t, from, to, [op[t] EXCEPT !.hosts = known])
        BY <3>2, <3>3, <4>1, <4>4, KeptStep
      <4> QED
        BY <3>5, <4>2, <4>3, <4>4
    <3> QED
      BY <3>1, <3>5
  <2>20. CASE RollbackHostWrite(t)
    <3> DEFINE o == [op[t] EXCEPT !.hosts = NoEntries]
    <3>1. \/ Step(t, "rbHostWrite", "end", o)
          \/ Step(t, "rbHostWrite", "end", Failed(op[t]))
      BY <2>20 DEF RollbackHostWrite
    <3>2. UNCHANGED <<authorized, intent>>
      BY <2>20 DEF RollbackHostWrite, worldVars, historyVars
    <3>3. o.lines = op[t].lines /\ o.behind = op[t].behind
      BY <1>0 DEF Operations
    <3>4. CASE Step(t, "rbHostWrite", "end", Failed(op[t]))
      BY <3>2, <3>4, FailedStep DEF CopyPcs
    <3> HIDE DEF o
    <3>5. CASE Step(t, "rbHostWrite", "end", o)
      BY <3>2, <3>3, <3>5, KeptStep DEF CopyPcs
    <3> QED
      BY <3>1, <3>4, <3>5
  <2>13. CASE RaiseFailure(t) \/ Crash(t)
    <3>1. PICK from : Step(t, from, "idle", NoOperation) /\ UNCHANGED <<authorized, intent>>
      BY <2>13 DEF RaiseFailure, Crash, Return, worldVars, historyVars
    <3> QED
      BY <2>0, <3>1, SettledStep DEF CopyPcs
  <2> QED
    BY <1>3, <2>1, <2>2, <2>3, <2>4, <2>5, <2>6, <2>7, <2>8, <2>9, <2>10, <2>11, <2>12, <2>13,
       <2>14, <2>15, <2>16, <2>17, <2>18, <2>19, <2>20
    DEF Forward, Failure, Rollback
<1>4. CASE OwnerEdits
  <2>1. PICK s \in Servers :
          LET line == UserLine \notin authorized[s]
          IN  /\ authorized' = [authorized EXCEPT ![s] =
                                  IF line THEN @ \cup {UserLine} ELSE @ \ {UserLine}]
              /\ intent' = [intent EXCEPT ![s] = IF line THEN "line" ELSE "none"]
              /\ op' = [t \in Setups |-> IF op[t].server = s /\ pc[t] \in CopyPcs
                                         THEN [op[t] EXCEPT !.behind = TRUE] ELSE op[t]]
              /\ pc' = pc
    BY <1>4 DEF OwnerEdits
  <2>2. UserLine \in authorized'[s] <=> intent'[s] = "line"
    BY <1>0, <2>1
  <2>3. \A x \in Servers : x # s => authorized'[x] = authorized[x] /\ intent'[x] = intent[x]
    BY <1>0, <2>1
  <2>4. UserLinesKept'
    BY <2>2, <2>3 DEF SetupInv, LineInv, UserLinesKept
  <2>5. ASSUME NEW t \in Setups
        PROVE  /\ op'[t].behind => pc'[t] \in CopyPcs
               /\ pc'[t] \in CopyPcs /\ ~ op'[t].behind /\ intent'[op'[t].server] # "overtaken" =>
                    (intent'[op'[t].server] = "line" <=> UserLine \in op'[t].lines)
               /\ pc'[t] \notin {"akWrite", "rbWrite"} => op'[t].lines = {}
    <3>1. CASE op[t].server = s /\ pc[t] \in CopyPcs
      BY <1>0, <2>1, <3>1, OwnerKeeps, <1>4 DEF Operations, SetupInv, LineInv
    <3>2. CASE ~ (op[t].server = s /\ pc[t] \in CopyPcs)
      <4>1. op'[t] = op[t] /\ pc'[t] = pc[t]
        BY <2>1, <3>2
      <4>2. pc[t] \in CopyPcs => op[t].server \in Servers /\ op[t].server # s
        BY <1>0, <3>2, SetupConstants DEF SetupInv, ControlInv, CopyPcs, Operations
      <4> QED
        BY <2>3, <4>1, <4>2 DEF SetupInv, LineInv
    <3> QED
      BY <3>1, <3>2
  <2> QED
    BY <2>4, <2>5 DEF LineInv
<1> QED
  BY <1>1, <1>2, <1>3, <1>4 DEF Next

-----------------------------------------------------------------------------
\* A fresh state directory satisfies the inductive invariant.
LEMMA InitSetupInv == Init => SetupInv
<1> SUFFICES ASSUME Init PROVE SetupInv
  OBVIOUS
<1> USE SetupConstants DEF Init
<1>1. TypeOK
  <2>1. authorized \in [Servers -> SUBSET Lines]
    BY DEF Lines
  <2>2. op \in [Setups -> Operations] /\ known \in [Entries -> Nat]
    BY NoOperationType, NoEntriesType
  <2> QED
    BY <2>1, <2>2 DEF TypeOK, Pcs
<1>2. ControlInv /\ EntryInv
  BY DEF ControlInv, EntryInv, NoOperation
<1>3. HostInv
  BY DEF HostInv, NoOperation, NoEntries
<1>4. KeyInv
  BY DEF KeyInv, NoOperation
<1>5. LineInv
  BY DEF LineInv, UserLinesKept, NoOperation, CopyPcs
<1> QED
  BY <1>1, <1>2, <1>3, <1>4, <1>5 DEF SetupInv

\* Every behaviour of concurrent setups keeps the inductive invariant.
THEOREM Invariance == Spec => []SetupInv
<1>1. SetupInv /\ [Next]_vars => SetupInv'
  BY LocalsStep, WorldStep, ControlStep, HostStep, EntryStep, KeyStep, LineStep
  DEF SetupInv, TypeOK, LocalsType, WorldType
<1> QED
  BY <1>1, InitSetupInv, PTL DEF Spec

\* Files, accounts and thread records always have their types.
THEOREM TypeCorrectness == Spec => []TypeOK
<1>1. SetupInv => TypeOK
  BY DEF SetupInv
<1> QED
  BY <1>1, Invariance, PTL

\* No setup sends a password to a server whose host key nobody confirmed
\* (setup_service.py 219-239).
THEOREM PasswordSafe == Spec => []PasswordAfterConfirmation
<1>1. SetupInv => PasswordAfterConfirmation
  BY DEF SetupInv, HostInv, PasswordAfterConfirmation
<1> QED
  BY <1>1, Invariance, PTL

\* No rollback removes the key pair of a setup that succeeded
\* (setup_service.py 329, ssh_key_store.py 91-109).
THEOREM KeysKept == Spec => []IssuedKeysKept
<1>1. SetupInv => IssuedKeysKept
  BY DEF SetupInv, KeyInv, IssuedKeysKept
<1> QED
  BY <1>1, Invariance, PTL

\* The owner's line is in authorized_keys as the owner left it, through every
\* installation and rollback, unless a setup had read the file before the owner's last
\* edit and replaced or removed it after (ssh_bootstrap.py 134-207).
THEOREM LinesKept == Spec => []UserLinesKept
<1>1. SetupInv => UserLinesKept
  BY DEF SetupInv, LineInv
<1> QED
  BY <1>1, Invariance, PTL
=============================================================================
