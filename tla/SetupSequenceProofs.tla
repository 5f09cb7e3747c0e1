------------------------- MODULE SetupSequenceProofs -------------------------
(***************************************************************************)
(* Setups that do not overlap, for any number of them, one after another   *)
(* in any threads: profiles stay usable, and a failure that reports no     *)
(* residue leaves none.  SetupInv says too little for this, because it     *)
(* holds for concurrent setups, which may overwrite each other's work.     *)
(***************************************************************************)
EXTENDS ManagedSetupProofs

USE DEF worldVars, historyVars, HostPcs, InstallPcs, ForwardPcs, FailingPcs, RollbackPcs, Receipt,
        Called, Artifacts, Replace, Installed, Succeed, HasRemoteArtifacts, Entry

-----------------------------------------------------------------------------
\* A step of the setup in thread t.
SetupStep(t) == Begin(t) \/ Forward(t) \/ Failure(t) \/ Rollback(t) \/ Crash(t)

\* A setup that makes a step while no other is under way leaves the others idle.
LEMMA LoneStep ==
    ASSUME SetupInv, Alone, Alone', NEW t \in Setups,
           SetupStep(t),
           NEW u \in Setups, u # t
    PROVE  pc'[u] = "idle" /\ op'[u] = NoOperation
<1>1. \E from, to, o : Step(t, from, to, o) /\ (from # "idle" \/ to # "idle")
  <2>1. CASE Begin(t)
    <3>1. PICK m \in {"confirm", "bootstrap", "managed"}, n \in Names \cup {None}, s \in Servers,
               f \in HostKeys \cup {None}, r \in issued \cup {None} :
            /\ m = "managed" <=> n # None
            /\ m = "managed" => profile[n] = None
            /\ m = "confirm" => f # None /\ r = None
            /\ Step(t, "idle", "handshake", Called(m, n, s, f, r))
            /\ accepted' = IF f = None THEN accepted ELSE accepted \cup {<<s, f>>}
            /\ UNCHANGED <<worldVars, issued, quiet, intent>>
      BY <2>1, BeginCalls, Zenon
    <3>2. "handshake" # "idle"
      OBVIOUS
    <3> QED
      BY <3>1, <3>2, Zenon
  <2>2. CASE Handshake(t)
    BY <2>2 DEF Handshake, Return, Abort, Confirmed
  <2>3. CASE Status(t)
    BY <2>3 DEF Status, Return, Abort, Confirmed
  <2>4. CASE ConfirmStatus(t)
    BY <2>4 DEF ConfirmStatus, Return, Abort, Confirmed
  <2>5. CASE HostRead(t)
    BY <2>5 DEF HostRead, Return, Abort, Confirmed
  <2>6. CASE HostWrite(t)
    BY <2>6 DEF HostWrite, Return, Abort, Confirmed
  <2>7. CASE Authenticate(t)
    BY <2>7 DEF Authenticate, Return, Abort, Confirmed
  <2>8. CASE LoadKey(t)
    BY <2>8 DEF LoadKey, Return, Abort, Confirmed
  <2>9. CASE GenerateKey(t)
    BY <2>9 DEF GenerateKey, Return, Abort, Confirmed
  <2>10. CASE OpenSftp(t)
    BY <2>10 DEF OpenSftp, Return, Abort, Confirmed
  <2>11. CASE EnsureDirectory(t)
    BY <2>11 DEF EnsureDirectory, Return, Abort, Confirmed
  <2>12. CASE ReadKeys(t)
    BY <2>12 DEF ReadKeys, Return, Abort, Confirmed
  <2>13. CASE WriteKeys(t)
    BY <2>13 DEF WriteKeys, Return, Abort, Confirmed
  <2>14. CASE VerifyLogin(t)
    BY <2>14 DEF VerifyLogin, Return, Abort, Confirmed
  <2>15. CASE CreateProfile(t)
    BY <2>15 DEF CreateProfile, Return, Abort, Confirmed
  <2>16. CASE StepFails(t)
    BY <2>16 DEF StepFails, Return, Abort, Confirmed
  <2>17. CASE GenerateFails(t)
    BY <2>17 DEF GenerateFails, Return, Abort, Confirmed
  <2>18. CASE EnsureDirectoryFails(t)
    BY <2>18 DEF EnsureDirectoryFails, Return, Abort, Confirmed
  <2>19. CASE PermissionsFail(t)
    BY <2>19 DEF PermissionsFail, Return, Abort, Confirmed
  <2>20. CASE InstallFails(t)
    BY <2>20 DEF InstallFails, Return, Abort, Confirmed
  <2>21. CASE WriteKeysLost(t)
    BY <2>21 DEF WriteKeysLost, Return, Abort, Confirmed
  <2>22. CASE RollbackRead(t)
    BY <2>22 DEF RollbackRead, Return, Abort, Confirmed
  <2>23. CASE RollbackWrite(t)
    BY <2>23 DEF RollbackWrite, Return, Abort, Confirmed
  <2>24. CASE RollbackWriteLost(t)
    BY <2>24 DEF RollbackWriteLost, Return, Abort, Confirmed
  <2>25. CASE RollbackFile(t)
    BY <2>25 DEF RollbackFile, Return, Abort, Confirmed
  <2>26. CASE RollbackUnlink(t)
    BY <2>26 DEF RollbackUnlink, Return, Abort, Confirmed
  <2>27. CASE RollbackDirectory(t)
    BY <2>27 DEF RollbackDirectory, Return, Abort, Confirmed
  <2>28. CASE RollbackRemoteFails(t)
    BY <2>28 DEF RollbackRemoteFails, Return, Abort, Confirmed
  <2>29. CASE RollbackKey(t)
    BY <2>29 DEF RollbackKey, Return, Abort, Confirmed
  <2>30. CASE RollbackHostRead(t)
    BY <2>30 DEF RollbackHostRead, Return, Abort, Confirmed
  <2>31. CASE RollbackHostWrite(t)
    BY <2>31 DEF RollbackHostWrite, Return, Abort, Confirmed
  <2>32. CASE RaiseFailure(t)
    BY <2>32 DEF RaiseFailure, Return, Abort, Confirmed
  <2>33. CASE Crash(t)
    BY <2>33 DEF Crash, Return, Abort, Confirmed
  <2> QED
    BY <2>1, <2>2, <2>3, <2>4, <2>5, <2>6, <2>7, <2>8, <2>9, <2>10, <2>11, <2>12, <2>13,
       <2>14, <2>15, <2>16, <2>17, <2>18, <2>19, <2>20, <2>21, <2>22, <2>23, <2>24, <2>25,
       <2>26, <2>27, <2>28, <2>29, <2>30, <2>31, <2>32, <2>33
    DEF SetupStep, Forward, Failure, Rollback
<1>2. PICK from, to, o : Step(t, from, to, o) /\ (from # "idle" \/ to # "idle")
  BY <1>1
<1>3. pc[u] = "idle" /\ pc'[u] = pc[u] /\ op'[u] = op[u]
  BY <1>2 DEF Step, Alone, SetupInv, TypeOK
<1> QED
  BY <1>3 DEF SetupInv, ControlInv

\* A step that fails or undoes keeps to the server, the host key and the key of its
\* setup, and claims no more artifacts than before.
Unwinds(t) ==
    /\ pc'[t] \in RollbackPcs
    /\ op'[t].server = op[t].server /\ op'[t].host = op[t].host /\ op'[t].key = op[t].key
    /\ op'[t].made \subseteq op[t].made
    /\ op'[t].undo = "clean" => op[t].undo = "clean" \/ "lost" \in Faults
    /\ pc'[t] = "rbWrite" => RollbackRead(t)
    /\ pc'[t] = "rbUnlink" => RollbackFile(t)
    /\ pc'[t] = "rbHostWrite" => RollbackHostRead(t)

\* A record with the same server and keys and no more artifacts.
Lesser(o, p) ==
    /\ o.server = p.server /\ o.host = p.host /\ o.key = p.key
    /\ o.made \subseteq p.made
    /\ o.undo = "clean" => p.undo = "clean" \/ "lost" \in Faults

\* The records a failing or undoing step writes are of that kind.
LEMMA LesserRecords ==
    ASSUME NEW p \in Operations
    PROVE  /\ Lesser(p, p) /\ Lesser(Failed(p), p)
           /\ \A l : Lesser([p EXCEPT !.lines = l], p)
           /\ \A h : Lesser([p EXCEPT !.hosts = h], p)
           /\ Lesser([p EXCEPT !.behind = FALSE], p)
           /\ Lesser([p EXCEPT !.lines = {}, !.behind = FALSE], p)
           /\ Lesser([p EXCEPT !.hosts = NoEntries, !.lines = {}, !.behind = FALSE], p)
  BY DEF Lesser, Failed, Operations

\* So are those of an installation that returned no receipt.
LEMMA LesserReceipt ==
    ASSUME NEW p \in Operations, NEW u, u = "failed" \/ "lost" \in Faults
    PROVE  /\ Lesser([[p EXCEPT !.made = @ \ Receipt] EXCEPT !.hosts = NoEntries, !.lines = {}, !.behind = FALSE], p)
           /\ Lesser([[p EXCEPT !.made = @ \ Receipt, !.undo = u]
                        EXCEPT !.hosts = NoEntries, !.lines = {}, !.behind = FALSE], p)
           /\ Lesser([[[p EXCEPT !.made = @ \ Receipt] EXCEPT !.undo = u]
                        EXCEPT !.hosts = NoEntries, !.lines = {}, !.behind = FALSE], p)
  BY DEF Lesser, Operations

\* A step of the rollback that writes such a record unwinds.
LEMMA UnwindsTo ==
    ASSUME SetupInv, NEW t \in Setups, NEW from, NEW to \in RollbackPcs, NEW o, Lesser(o, op[t]),
           Step(t, from, to, o), to = "rbWrite" => RollbackRead(t),
           to = "rbUnlink" => RollbackFile(t),
           to = "rbHostWrite" => RollbackHostRead(t)
    PROVE  Unwinds(t)
  BY DEF Unwinds, Lesser, Step, SetupInv, TypeOK

\* Every step of a failing setup but its last is one of these.
LEMMA UnwindStep ==
    ASSUME SetupInv, NEW t \in Setups, Failure(t) \/ Rollback(t)
    PROVE  Unwinds(t) \/ RaiseFailure(t)
<1>1. op[t] \in Operations
  BY DEF SetupInv, TypeOK
<1>2. CASE StepFails(t)
  <2>1. PICK from : Step(t, from, "rbLine", [op[t] EXCEPT !.hosts = NoEntries, !.lines = {}, !.behind = FALSE])
    BY <1>2 DEF StepFails, Abort
  <2> QED
    BY <1>1, <1>2, <2>1, LesserRecords, UnwindsTo
<1>3. CASE GenerateFails(t)
  <2>1. Step(t, "key", "rbLine", [op[t] EXCEPT !.hosts = NoEntries, !.lines = {}, !.behind = FALSE])
    BY <1>3 DEF GenerateFails, Abort
  <2> QED
    BY <1>1, <1>3, <2>1, LesserRecords, UnwindsTo
<1>4. CASE EnsureDirectoryFails(t)
  <2>1. Step(t, "dir", "rbLine", [op[t] EXCEPT !.hosts = NoEntries, !.lines = {}, !.behind = FALSE])
    BY <1>4 DEF EnsureDirectoryFails, Abort
  <2> QED
    BY <1>1, <1>4, <2>1, LesserRecords, UnwindsTo
<1>5. CASE PermissionsFail(t)
  <2>1. Step(t, "akRead", "rbLine", [[op[t] EXCEPT !.made = @ \ Receipt] EXCEPT !.hosts = NoEntries, !.lines = {}, !.behind = FALSE])
    BY <1>5 DEF PermissionsFail, Abort
  <2> QED
    BY <1>1, <1>5, <2>1, LesserReceipt, UnwindsTo
<1>6. CASE InstallFails(t)
  <2>1. PICK from : \/ Step(t, from, "rbLine", [[op[t] EXCEPT !.made = @ \ Receipt] EXCEPT !.hosts = NoEntries, !.lines = {}, !.behind = FALSE])
                    \/ Step(t, from, "rbLine", [[[op[t] EXCEPT !.made = @ \ Receipt] EXCEPT !.undo = "failed"]
                                                  EXCEPT !.hosts = NoEntries, !.lines = {}, !.behind = FALSE])
    BY <1>6 DEF InstallFails, Abort
  <2> QED
    BY <1>1, <2>1, LesserReceipt, UnwindsTo
<1>7. CASE WriteKeysLost(t)
  <2> DEFINE u == IF "dir" \in op[t].made THEN "failed" ELSE "clean"
  <2>1. Step(t, "akWrite", "rbLine", [[op[t] EXCEPT !.made = @ \ Receipt, !.undo = u]
                                        EXCEPT !.hosts = NoEntries, !.lines = {}, !.behind = FALSE])
    BY <1>7 DEF WriteKeysLost, Abort
  <2>2. "lost" \in Faults
    BY <1>7 DEF WriteKeysLost
  <2> QED
    BY <1>1, <2>1, <2>2, LesserReceipt, UnwindsTo
<1>8. CASE RollbackRead(t)
  <2>1. \/ Step(t, "rbLine", "rbKey", op[t])
        \/ Step(t, "rbLine", "rbFile", op[t])
        \/ Step(t, "rbLine", "rbKey", Failed(op[t]))
        \/ Step(t, "rbLine", "rbWrite", [op[t] EXCEPT !.lines = authorized[op[t].server]])
    BY <1>8 DEF RollbackRead
  <2> QED
    BY <1>1, <1>8, <2>1, LesserRecords, UnwindsTo
<1>9. CASE RollbackWrite(t)
  <2>1. Step(t, "rbWrite", "rbFile", [op[t] EXCEPT !.lines = {}, !.behind = FALSE])
    BY <1>9 DEF RollbackWrite
  <2> QED
    BY <1>1, <1>9, <2>1, LesserRecords, UnwindsTo
<1>10. CASE RollbackWriteLost(t)
  <2>1. Step(t, "rbWrite", "rbKey", Failed(op[t]))
    BY <1>10 DEF RollbackWriteLost
  <2> QED
    BY <1>1, <1>10, <2>1, LesserRecords, UnwindsTo
<1>11. CASE RollbackFile(t)
  <2>1. \/ Step(t, "rbFile", "rbDir", op[t])
        \/ Step(t, "rbFile", "rbUnlink", op[t])
        \/ Step(t, "rbFile", "rbKey", Failed(op[t]))
    BY <1>11 DEF RollbackFile
  <2> QED
    BY <1>1, <1>11, <2>1, LesserRecords, UnwindsTo
<1>12. CASE RollbackUnlink(t)
  <2>1. Step(t, "rbUnlink", "rbDir", [op[t] EXCEPT !.behind = FALSE])
    BY <1>12 DEF RollbackUnlink
  <2> QED
    BY <1>1, <1>12, <2>1, LesserRecords, UnwindsTo
<1>13. CASE RollbackDirectory(t)
  <2>1. Step(t, "rbDir", "rbKey", op[t])
    BY <1>13 DEF RollbackDirectory
  <2> QED
    BY <1>1, <1>13, <2>1, LesserRecords, UnwindsTo
<1>14. CASE RollbackRemoteFails(t)
  <2>1. PICK from : Step(t, from, "rbKey", Failed(op[t]))
    BY <1>14 DEF RollbackRemoteFails
  <2> QED
    BY <1>1, <1>14, <2>1, LesserRecords, UnwindsTo
<1>15. CASE RollbackKey(t)
  <2>1. \/ Step(t, "rbKey", "rbHost", op[t])
        \/ Step(t, "rbKey", "rbHost", Failed(op[t]))
    BY <1>15 DEF RollbackKey
  <2> QED
    BY <1>1, <1>15, <2>1, LesserRecords, UnwindsTo
<1>16. CASE RollbackHostRead(t)
  <2>1. \/ Step(t, "rbHost", "end", op[t])
        \/ Step(t, "rbHost", "end", Failed(op[t]))
        \/ Step(t, "rbHost", "rbHostWrite", [op[t] EXCEPT !.hosts = known])
    BY <1>16 DEF RollbackHostRead
  <2> QED
    BY <1>1, <1>16, <2>1, LesserRecords, UnwindsTo
<1>17. CASE RollbackHostWrite(t)
  <2>1. \/ Step(t, "rbHostWrite", "end", Failed(op[t]))
        \/ Step(t, "rbHostWrite", "end", [op[t] EXCEPT !.hosts = NoEntries])
    BY <1>17 DEF RollbackHostWrite
  <2> QED
    BY <1>1, <1>17, <2>1, LesserRecords, UnwindsTo
<1> QED
  BY <1>2, <1>3, <1>4, <1>5, <1>6, <1>7, <1>8, <1>9, <1>10, <1>11, <1>12, <1>13, <1>14,
     <1>15, <1>16, <1>17
  DEF Failure, Rollback

\* What each step leaves alone: the files are written by few actions.
Footprint(t) ==
    /\ UNCHANGED known \/ HostWrite(t) \/ RollbackHostWrite(t)
    /\ \/ UNCHANGED <<authorized, akFile>>
       \/ WriteKeys(t) \/ WriteKeysLost(t)
       \/ RollbackWrite(t) \/ RollbackWriteLost(t) \/ RollbackUnlink(t)
    /\ UNCHANGED keyFiles \/ GenerateKey(t) \/ GenerateFails(t) \/ RollbackKey(t)
    /\ UNCHANGED profile \/ CreateProfile(t)
    /\ UNCHANGED issued \/ VerifyLogin(t) \/ CreateProfile(t)
    /\ UNCHANGED quiet \/ RaiseFailure(t)

\* So it is.
LEMMA FootprintStep == ASSUME NEW t \in Setups, SetupStep(t) PROVE Footprint(t)
<1> USE DEF Footprint
<1>1. CASE Begin(t)
  BY <1>1 DEF Begin
<1>2. CASE Handshake(t)
  BY <1>2 DEF Handshake
<1>3. CASE Status(t)
  BY <1>3 DEF Status
<1>4. CASE ConfirmStatus(t)
  BY <1>4 DEF ConfirmStatus
<1>5. CASE HostRead(t)
  BY <1>5 DEF HostRead
<1>6. CASE HostWrite(t)
  BY <1>6 DEF HostWrite
<1>7. CASE Authenticate(t)
  BY <1>7 DEF Authenticate
<1>8. CASE LoadKey(t)
  BY <1>8 DEF LoadKey
<1>9. CASE GenerateKey(t)
  BY <1>9 DEF GenerateKey
<1>10. CASE OpenSftp(t)
  BY <1>10 DEF OpenSftp
<1>11. CASE EnsureDirectory(t)
  BY <1>11 DEF EnsureDirectory
<1>12. CASE ReadKeys(t)
  BY <1>12 DEF ReadKeys
<1>13. CASE WriteKeys(t)
  BY <1>13 DEF WriteKeys
<1>14. CASE VerifyLogin(t)
  BY <1>14 DEF VerifyLogin
<1>15. CASE CreateProfile(t)
  BY <1>15 DEF CreateProfile
<1>16. CASE StepFails(t)
  BY <1>16 DEF StepFails
<1>17. CASE GenerateFails(t)
  BY <1>17 DEF GenerateFails
<1>18. CASE EnsureDirectoryFails(t)
  BY <1>18 DEF EnsureDirectoryFails
<1>19. CASE PermissionsFail(t)
  BY <1>19 DEF PermissionsFail
<1>20. CASE InstallFails(t)
  BY <1>20 DEF InstallFails
<1>21. CASE WriteKeysLost(t)
  BY <1>21 DEF WriteKeysLost
<1>22. CASE RollbackRead(t)
  BY <1>22 DEF RollbackRead
<1>23. CASE RollbackWrite(t)
  BY <1>23 DEF RollbackWrite
<1>24. CASE RollbackWriteLost(t)
  BY <1>24 DEF RollbackWriteLost
<1>25. CASE RollbackFile(t)
  BY <1>25 DEF RollbackFile
<1>26. CASE RollbackUnlink(t)
  BY <1>26 DEF RollbackUnlink
<1>27. CASE RollbackDirectory(t)
  BY <1>27 DEF RollbackDirectory
<1>28. CASE RollbackRemoteFails(t)
  BY <1>28 DEF RollbackRemoteFails
<1>29. CASE RollbackKey(t)
  BY <1>29 DEF RollbackKey
<1>30. CASE RollbackHostRead(t)
  BY <1>30 DEF RollbackHostRead
<1>31. CASE RollbackHostWrite(t)
  BY <1>31 DEF RollbackHostWrite
<1>32. CASE RaiseFailure(t)
  BY <1>32 DEF RaiseFailure
<1>33. CASE Crash(t)
  BY <1>33 DEF Crash
<1> QED
  BY <1>1, <1>2, <1>3, <1>4, <1>5, <1>6, <1>7, <1>8, <1>9, <1>10, <1>11, <1>12, <1>13,
     <1>14, <1>15, <1>16, <1>17, <1>18, <1>19, <1>20, <1>21, <1>22, <1>23, <1>24, <1>25,
     <1>26, <1>27, <1>28, <1>29, <1>30, <1>31, <1>32, <1>33
  DEF SetupStep, Forward, Failure, Rollback

\* A call starts with nothing made and no key.
LEMMA BeginStep ==
    ASSUME SetupInv, NEW t \in Setups, Begin(t)
    PROVE  /\ pc'[t] = "handshake" /\ op'[t].made = {} /\ op'[t].key = None
           /\ UNCHANGED <<worldVars, issued, quiet, intent>>
<1>1. PICK m \in {"confirm", "bootstrap", "managed"}, n \in Names \cup {None}, s \in Servers,
           f \in HostKeys \cup {None}, r \in issued \cup {None} :
        /\ m = "managed" <=> n # None
        /\ m = "managed" => profile[n] = None
        /\ m = "confirm" => f # None /\ r = None
        /\ Step(t, "idle", "handshake", Called(m, n, s, f, r))
        /\ accepted' = IF f = None THEN accepted ELSE accepted \cup {<<s, f>>}
        /\ UNCHANGED <<worldVars, issued, quiet, intent>>
  BY BeginCalls, Zenon
<1>2. pc'[t] = "handshake" /\ op'[t] = Called(m, n, s, f, r)
  BY <1>1 DEF Step, SetupInv, TypeOK
<1>3. Called(m, n, s, f, r).made = {} /\ Called(m, n, s, f, r).key = None
  BY DEF NoOperation
<1> QED
  BY <1>1, <1>2, <1>3, Zenon

-----------------------------------------------------------------------------
\* The key of a setup is one of a returned setup or its own, and has files.
LEMMA KeyInUse ==
    ASSUME SetupInv, NEW t \in Setups, op[t].key # None
    PROVE  op[t].key \in Keys /\ keyFiles[op[t].key] # "unused"
<1>1. op[t] \in Operations
  BY DEF SetupInv, TypeOK
<1>2. op[t].key \in Keys
  BY <1>1 DEF Operations
<1> QED
  BY <1>2 DEF SetupInv, KeyInv

\* The owner touches no line of RAB's.
LEMMA OwnerLines ==
    ASSUME SetupInv, OwnerEdits, NEW s \in Servers
    PROVE  authorized'[s] \cap Keys = authorized[s] \cap Keys
  BY SetupConstants DEF SetupInv, TypeOK, OwnerEdits

\* Only a file that is there has lines.
LEMMA FileStep ==
    ASSUME SetupInv, FreshInv, NEW t \in Setups, SetupStep(t), NEW s \in Servers, authorized'[s] # {}
    PROVE  s \in akFile'
<1> USE DEF SetupInv, TypeOK
<1>1. CASE UNCHANGED <<authorized, akFile>>
  BY <1>1 DEF FreshInv
<1>2. ASSUME NEW l, Replace(t, l) PROVE s \in akFile'
  BY <1>2 DEF FreshInv
<1>3. CASE WriteKeys(t) \/ WriteKeysLost(t) \/ RollbackWrite(t) \/ RollbackWriteLost(t)
  <2> HIDE DEF Replace
  <2>1. \E l : Replace(t, l)
    BY <1>3, Zenon DEF WriteKeys, WriteKeysLost, RollbackWrite, RollbackWriteLost
  <2> QED
    BY <1>2, <2>1
<1>4. CASE RollbackUnlink(t)
  BY <1>4 DEF FreshInv, RollbackUnlink
<1> QED
  BY <1>1, <1>3, <1>4, FootprintStep DEF Footprint

\* What a lone setup has read stays true.
LEMMA FreshStep == SetupInv /\ FreshInv /\ Alone /\ Alone' /\ [Next]_vars => FreshInv'
<1> SUFFICES ASSUME SetupInv, FreshInv, Alone, Alone', [Next]_vars PROVE FreshInv'
  OBVIOUS
<1>1. CASE UNCHANGED vars
  BY <1>1 DEF vars, FreshInv, Fresh
<1>2. CASE Rotate
  BY <1>2 DEF Rotate, FreshInv, Fresh
<1>3. ASSUME NEW t \in Setups, SetupStep(t) PROVE FreshInv'
  <2>0. ASSUME Fresh(t)' PROVE FreshInv'
    <3>1. \A u \in Setups : u # t => Fresh(u)'
      BY <1>3, LoneStep DEF Fresh, NoOperation
    <3>2. \A s \in Servers : authorized'[s] # {} => s \in akFile'
      BY <1>3, FileStep
    <3> QED
      BY <2>0, <3>1, <3>2 DEF FreshInv
  <2>a. /\ op[t] \in Operations /\ op \in [Setups -> Operations] /\ pc \in [Setups -> Pcs]
        /\ known \in [Entries -> Nat] /\ Fresh(t)
        /\ pc[t] # "idle" => op[t].server \in Servers
        /\ pc[t] \in ForwardPcs \ {"handshake"} => op[t].host \in HostKeys
        /\ pc[t] \in InstallPcs \cup {"sftp", "verify", "complete", "rbWrite"} => op[t].key # None
    <3>1. op[t] \in Operations
      BY DEF SetupInv, TypeOK
    <3> QED
      BY <3>1 DEF SetupInv, TypeOK, FreshInv, ControlInv, Operations
  <2>b. pc[t] \in HostPcs \cup {"handshake", "status", "auth", "key"} => op[t].key = None
    BY DEF SetupInv, KeyInv
  <2>1. CASE Begin(t) \/ Crash(t)
    <3>1. pc'[t] \in {"idle", "handshake"} /\ op'[t].made = {}
      BY <2>1, <2>a, BeginStep DEF Crash, Step, Return, NoOperation
    <3> QED
      BY <2>0, <3>1 DEF Fresh
  <2>2. CASE Handshake(t)
    BY <2>0, <2>a, <2>2 DEF Handshake, Step, Fresh, Operations
  <2>3. CASE Status(t)
    <3>1. UNCHANGED known
      BY <2>3 DEF Status
    <3>2. CASE op[t].host \in KnownKeys(op[t].server) /\ Step(t, "status", "auth", op[t])
      <4>1. known[Entry(t)] > 0
        BY <3>2 DEF KnownKeys
      <4> QED
        BY <2>0, <2>a, <2>b, <3>1, <3>2, <4>1 DEF Step, Fresh
    <3>3. CASE Step(t, "status", "confirm", op[t])
      BY <2>0, <2>a, <3>3 DEF Step, Fresh
    <3> QED
      BY <2>3, <3>2, <3>3 DEF Status
  <2>4. CASE ConfirmStatus(t)
    <3>1. UNCHANGED known
      BY <2>4 DEF ConfirmStatus
    <3>2. CASE op[t].host \in KnownKeys(op[t].server) /\ Step(t, "confirm", "auth", op[t])
      <4>1. known[Entry(t)] > 0
        BY <3>2 DEF KnownKeys
      <4> QED
        BY <2>0, <2>a, <2>b, <3>1, <3>2, <4>1 DEF Step, Fresh
    <3>3. CASE Return(t, "confirm") \/ Step(t, "confirm", "hostRead", op[t])
      BY <2>0, <2>a, <3>3 DEF Return, Step, Fresh, NoOperation
    <3> QED
      BY <2>4, <3>2, <3>3 DEF ConfirmStatus, Confirmed
  <2>5. CASE HostRead(t)
    BY <2>0, <2>a, <2>5 DEF HostRead, Step, Fresh, Operations
  <2>6. CASE HostWrite(t)
    <3>1. known' = [op[t].hosts EXCEPT ![Entry(t)] = @ + 1]
      BY <2>6 DEF HostWrite
    <3>2. CASE Return(t, "hostWrite")
      BY <2>0, <2>a, <3>2 DEF Return, Step, Fresh, NoOperation
    <3>3. CASE Step(t, "hostWrite", "auth", [op[t] EXCEPT !.hosts = NoEntries, !.made = @ \cup {"host"}])
      <4>1. /\ pc'[t] = "auth" /\ op'[t].server = op[t].server /\ op'[t].host = op[t].host
            /\ op'[t].made = op[t].made \cup {"host"}
        BY <2>a, <3>3 DEF Step, Operations
      <4>2. Entry(t) \in Entries /\ op[t].hosts \in [Entries -> Nat] /\ "line" \notin op[t].made
        BY <2>a, <2>b, <3>3 DEF Step, Entries, Operations, Fresh
      <4>3. known'[Entry(t)] > 0
        BY <3>1, <4>2
      <4> QED
        BY <2>0, <4>1, <4>2, <4>3 DEF Fresh
    <3> QED
      BY <2>6, <3>2, <3>3 DEF HostWrite, Confirmed
  <2>7. CASE Authenticate(t) \/ OpenSftp(t)
    BY <2>0, <2>a, <2>7 DEF Authenticate, OpenSftp, Step, Fresh
  <2>8. CASE LoadKey(t)
    BY <2>0, <2>a, <2>b, <2>8 DEF LoadKey, Step, Fresh, Operations
  <2>9. CASE GenerateKey(t)
    <3>1. PICK k \in Keys : Step(t, "key", "sftp", [op[t] EXCEPT !.key = k, !.made = @ \cup {"key"}])
      BY <2>9 DEF GenerateKey
    <3>2. /\ pc[t] = "key" /\ pc'[t] = "sftp" /\ op'[t].server = op[t].server /\ op'[t].host = op[t].host
          /\ op'[t].made = op[t].made \cup {"key"}
      BY <2>a, <3>1 DEF Step, Operations
    <3>3. UNCHANGED known
      BY <2>9 DEF GenerateKey
    <3> QED
      BY <2>0, <2>a, <2>b, <3>2, <3>3 DEF Fresh
  <2>10. CASE EnsureDirectory(t)
    BY <2>0, <2>a, <2>10 DEF EnsureDirectory, Step, Fresh, Operations
  <2>11. CASE ReadKeys(t)
    <3> DEFINE made == IF op[t].server \in akFile THEN {} ELSE {"file"}
    <3>1. UNCHANGED <<known, authorized>>
      BY <2>11 DEF ReadKeys
    <3>2. CASE Step(t, "akRead", "verify", op[t])
      BY <2>0, <2>a, <3>1, <3>2 DEF Step, Fresh
    <3>3. CASE Step(t, "akRead", "akWrite",
                    [op[t] EXCEPT !.lines = authorized[op[t].server], !.made = @ \cup made])
      <4>1. /\ pc[t] = "akRead" /\ pc'[t] = "akWrite" /\ op'[t].lines = authorized[op[t].server]
            /\ op'[t].server = op[t].server /\ op'[t].host = op[t].host /\ op'[t].key = op[t].key
        BY <2>a, <3>3 DEF Step, Operations
      <4> QED
        BY <2>0, <2>a, <3>1, <4>1 DEF Fresh
    <3> QED
      BY <2>11, <3>2, <3>3 DEF ReadKeys
  <2>12. CASE WriteKeys(t)
    <3>1. /\ pc[t] = "akWrite" /\ pc'[t] = "verify" /\ op'[t].server = op[t].server
          /\ op'[t].host = op[t].host /\ op'[t].key = op[t].key /\ UNCHANGED known
      BY <2>a, <2>12 DEF WriteKeys, Step, Operations
    <3> QED
      BY <2>0, <2>a, <3>1 DEF Fresh
  <2>13. CASE VerifyLogin(t)
    BY <2>0, <2>a, <2>13 DEF VerifyLogin, Return, Step, Fresh, NoOperation
  <2>14. CASE CreateProfile(t) \/ RaiseFailure(t)
    BY <2>0, <2>a, <2>14 DEF CreateProfile, RaiseFailure, Return, Step, Fresh, NoOperation
  <2>15. CASE RollbackRead(t) /\ pc'[t] = "rbWrite"
    <3>1. /\ "line" \in op[t].made /\ UNCHANGED authorized
          /\ Step(t, "rbLine", "rbWrite", [op[t] EXCEPT !.lines = authorized[op[t].server]])
      BY <2>a, <2>15 DEF RollbackRead, Step
    <3>2. /\ op'[t].server = op[t].server /\ op'[t].lines = authorized[op[t].server]
          /\ op'[t].made = op[t].made /\ op'[t].key = op[t].key
      BY <2>a, <3>1 DEF Step, Operations
    <3> QED
      BY <2>0, <2>a, <2>15, <3>1, <3>2 DEF Fresh
  <2>16. CASE RollbackHostRead(t) /\ pc'[t] = "rbHostWrite"
    <3>1. /\ "host" \in op[t].made /\ UNCHANGED known
          /\ Step(t, "rbHost", "rbHostWrite", [op[t] EXCEPT !.hosts = known])
      BY <2>a, <2>16 DEF RollbackHostRead, Step
    <3>2. op'[t].hosts = known /\ op'[t].made = op[t].made /\ op'[t].key = op[t].key
      BY <2>a, <3>1 DEF Step, Operations
    <3> QED
      BY <2>0, <2>a, <2>16, <3>1, <3>2 DEF Fresh
  <2>17. CASE Unwinds(t) /\ pc'[t] \notin {"rbWrite", "rbHostWrite", "rbUnlink"}
    BY <2>0, <2>a, <2>17 DEF Unwinds, Fresh
  <2>18. CASE RollbackFile(t) /\ pc'[t] = "rbUnlink"
    <3>1. "file" \in op[t].made /\ op'[t] = op[t]
      BY <2>a, <2>18 DEF RollbackFile, Step
    <3> QED
      BY <2>0, <2>a, <2>18, <3>1 DEF Fresh
  <2>19. CASE Failure(t) \/ Rollback(t)
    BY <2>14, <2>15, <2>16, <2>17, <2>18, <2>19, UnwindStep DEF Unwinds
  <2> QED
    BY <1>3, <2>1, <2>2, <2>3, <2>4, <2>5, <2>6, <2>7, <2>8, <2>9, <2>10, <2>11, <2>12, <2>13,
       <2>14, <2>19
    DEF SetupStep, Forward
<1>4. CASE OwnerEdits
  <2>1. /\ UNCHANGED <<known, pc>>
        /\ \A u \in Setups : /\ op'[u].server = op[u].server /\ op'[u].host = op[u].host
                             /\ op'[u].key = op[u].key /\ op'[u].made = op[u].made
                             /\ op'[u].hosts = op[u].hosts /\ op'[u].lines = op[u].lines
    BY <1>4, OwnerKeeps DEF SetupInv, TypeOK
  <2>2. \A s \in Servers : authorized'[s] \cap Keys = authorized[s] \cap Keys
    BY <1>4, OwnerLines
  <2>3. \A s \in Servers : authorized'[s] # {} => s \in akFile'
    BY <1>4 DEF OwnerEdits, SetupInv, TypeOK, FreshInv
  <2>4. ASSUME NEW u \in Setups PROVE Fresh(u)'
    <3>1. pc[u] # "idle" => op[u].server \in Servers
      BY DEF SetupInv, TypeOK, ControlInv, Operations
    <3>2. op[u].key # None => op[u].key \in Keys
      BY KeyInUse
    <3>3. pc[u] = "complete" => op[u].key \in authorized'[op[u].server]
      BY <2>2, <3>1, <3>2 DEF FreshInv, Fresh, SetupInv, ControlInv
    <3> QED
      BY <2>1, <2>2, <3>1, <3>3 DEF FreshInv, Fresh
  <2> QED
    BY <2>3, <2>4 DEF FreshInv
<1> QED
  BY <1>1, <1>2, <1>3, <1>4 DEF Next, SetupStep

-----------------------------------------------------------------------------
\* What a profile relies on is still there after the step.
Relied(n) ==
    /\ profile'[n] = profile[n]
    /\ profile[n] # None =>
         /\ profile[n].key \in authorized'[profile[n].server]
         /\ known'[<<profile[n].server, profile[n].host>>] > 0
         /\ profile[n].key \in issued'

\* No step but the creation of a profile touches what profiles rely on.
LEMMA ReliedStep ==
    ASSUME SetupInv, FreshInv, UsableInv, NEW t \in Setups, SetupStep(t), ~ CreateProfile(t),
           NEW n \in Names
    PROVE  Relied(n)
<1> SUFFICES ASSUME profile[n] # None PROVE Relied(n)
  BY FootprintStep DEF Relied, Footprint
<1> DEFINE p == profile[n]
<1>0. /\ p.server \in Servers /\ p.key \in issued /\ p.key \in Keys
      /\ <<p.server, p.host>> \in Entries
      /\ p.key \in authorized[p.server] /\ known[<<p.server, p.host>>] > 0 /\ Spares(t, n)
      /\ known \in [Entries -> Nat] /\ authorized \in [Servers -> SUBSET Lines] /\ Fresh(t)
      /\ op[t] \in Operations
  BY DEF SetupInv, TypeOK, Profiles, Entries, UsableInv, ProfileUsable, FreshInv
<1>1. profile' = profile
  BY FootprintStep DEF Footprint
<1>2. p.key \in issued'
  BY <1>0, FootprintStep DEF Footprint, VerifyLogin
<1>3. known'[<<p.server, p.host>>] > 0
  <2>1. CASE UNCHANGED known
    BY <1>0, <2>1
  <2>2. CASE HostWrite(t)
    <3>1. pc[t] = "hostWrite" /\ known' = [op[t].hosts EXCEPT ![Entry(t)] = @ + 1]
      BY <2>2 DEF HostWrite, Confirmed, Return, Step
    <3>2. op[t].hosts = known /\ p.server # op[t].server
      BY <1>0, <3>1 DEF Fresh, Spares
    <3> QED
      BY <1>0, <3>1, <3>2
  <2>3. CASE RollbackHostWrite(t)
    <3>1. /\ pc[t] = "rbHostWrite"
          /\ known' = [op[t].hosts EXCEPT ![Entry(t)] = @ - 1] \/ UNCHANGED known
      BY <2>3 DEF RollbackHostWrite, Step
    <3>2. op[t].hosts = known /\ p.server # op[t].server
      BY <1>0, <3>1 DEF Fresh, Spares
    <3> QED
      BY <1>0, <3>1, <3>2
  <2> QED
    BY <2>1, <2>2, <2>3, FootprintStep DEF Footprint
<1>4. p.key \in authorized'[p.server]
  <2>1. CASE UNCHANGED authorized
    BY <1>0, <2>1
  <2>2. CASE WriteKeys(t) \/ WriteKeysLost(t)
    <3>1. pc[t] = "akWrite" /\ authorized' = [authorized EXCEPT ![op[t].server] = Installed(t)]
      BY <2>2 DEF WriteKeys, WriteKeysLost, Abort, Step
    <3>2. op[t].lines \cap Keys = authorized[op[t].server] \cap Keys
      BY <1>0, <3>1 DEF Fresh
    <3> QED
      BY <1>0, <3>1, <3>2
  <2>3. CASE RollbackWrite(t) \/ RollbackWriteLost(t)
    <3>1. /\ pc[t] = "rbWrite"
          /\ authorized' = [authorized EXCEPT ![op[t].server] = op[t].lines \ {op[t].key}]
      BY <2>3 DEF RollbackWrite, RollbackWriteLost, Step
    <3>2. /\ op[t].lines \cap Keys = authorized[op[t].server] \cap Keys
          /\ p.server = op[t].server => op[t].key # p.key
      BY <1>0, <3>1 DEF Fresh, Spares
    <3> QED
      BY <1>0, <3>1, <3>2
  <2>4. CASE RollbackUnlink(t)
    <3>1. "file" \in op[t].made /\ authorized' = [authorized EXCEPT ![op[t].server] = {}]
      BY <1>0, <2>4 DEF RollbackUnlink, Fresh
    <3>2. p.server # op[t].server
      BY <1>0, <3>1 DEF Spares
    <3> QED
      BY <1>0, <3>1, <3>2
  <2> QED
    BY <2>1, <2>2, <2>3, <2>4, FootprintStep DEF Footprint
<1> QED
  BY <1>1, <1>2, <1>3, <1>4 DEF Relied

\* A lone setup takes no host entry, file or line of a profile for its own.
LEMMA SparesStep ==
    ASSUME SetupInv, FreshInv, UsableInv, NEW t \in Setups, SetupStep(t), ~ CreateProfile(t),
           NEW n \in Names
    PROVE  Spares(t, n)'
<1> SUFFICES ASSUME profile[n] # None PROVE Spares(t, n)'
  BY FootprintStep DEF Spares, Footprint
<1> DEFINE p == profile[n]
<1>0. /\ op[t] \in Operations /\ op \in [Setups -> Operations] /\ pc \in [Setups -> Pcs]
      /\ p.server \in Servers /\ p.host \in HostKeys
      /\ p.key \in authorized[p.server] /\ known[<<p.server, p.host>>] > 0
      /\ Spares(t, n) /\ Fresh(t) /\ profile' = profile
  BY FootprintStep DEF SetupInv, TypeOK, Profiles, UsableInv, ProfileUsable, FreshInv, Footprint
<1>1. CASE Begin(t) \/ Crash(t)
  <2>1. pc'[t] \in {"idle", "handshake"} /\ op'[t].made = {}
    BY <1>0, <1>1, BeginStep DEF Crash, Step, Return, NoOperation
  <2> QED
    BY <2>1 DEF Spares
<1>2. CASE Handshake(t) \/ Authenticate(t) \/ OpenSftp(t) \/ EnsureDirectory(t) \/ VerifyLogin(t)
  <2>1. CASE Handshake(t)
    BY <1>0, <2>1 DEF Handshake, Step, Spares, Operations
  <2>2. CASE EnsureDirectory(t)
    BY <1>0, <2>2 DEF EnsureDirectory, Step, Spares, Operations
  <2>3. CASE Authenticate(t) \/ OpenSftp(t)
    BY <1>0, <2>3 DEF Authenticate, OpenSftp, Step, Spares
  <2>4. CASE VerifyLogin(t)
    BY <1>0, <2>4 DEF VerifyLogin, Return, Step, Spares, NoOperation
  <2> QED
    BY <1>2, <2>1, <2>2, <2>3, <2>4
<1>3. CASE Status(t)
  BY <1>0, <1>3 DEF Status, Step, Spares
<1>4. CASE ConfirmStatus(t)
  <2>1. CASE KnownKeys(op[t].server) = {} /\ Step(t, "confirm", "hostRead", op[t])
    <3>1. p.server # op[t].server
      BY <1>0, <2>1 DEF KnownKeys
    <3>2. op'[t] = op[t]
      BY <1>0, <2>1 DEF Step
    <3> QED
      BY <1>0, <3>1, <3>2 DEF Spares
  <2>2. CASE Return(t, "confirm") \/ Step(t, "confirm", "auth", op[t])
    BY <1>0, <2>2 DEF Return, Step, Spares, NoOperation
  <2> QED
    BY <1>4, <2>1, <2>2 DEF ConfirmStatus, Confirmed
<1>5. CASE HostRead(t)
  BY <1>0, <1>5 DEF HostRead, Step, Spares, Operations
<1>6. CASE HostWrite(t)
  <2>1. CASE Return(t, "hostWrite")
    BY <1>0, <2>1 DEF Return, Step, Spares, NoOperation
  <2>2. CASE Step(t, "hostWrite", "auth", [op[t] EXCEPT !.hosts = NoEntries, !.made = @ \cup {"host"}])
    <3>1. pc[t] = "hostWrite" /\ op'[t].server = op[t].server
      BY <1>0, <2>2 DEF Step, Operations
    <3> QED
      BY <1>0, <3>1 DEF Spares
  <2> QED
    BY <1>6, <2>1, <2>2 DEF HostWrite, Confirmed
<1>7. CASE LoadKey(t) \/ GenerateKey(t)
  <2>1. pc[t] = "key" /\ op[t].key = None
    BY <1>7 DEF LoadKey, GenerateKey, Step, SetupInv, KeyInv
  <2>2. /\ pc'[t] = "sftp" /\ op'[t].server = op[t].server
        /\ op'[t].made \in {op[t].made, op[t].made \cup {"key"}}
    <3>1. CASE LoadKey(t)
      BY <1>0, <3>1 DEF LoadKey, Step, Operations
    <3>2. CASE GenerateKey(t)
      BY <1>0, <3>2 DEF GenerateKey, Step, Operations
    <3> QED
      BY <1>7, <3>1, <3>2
  <2> QED
    BY <1>0, <2>1, <2>2 DEF Spares, Fresh
<1>8. CASE ReadKeys(t)
  <2> DEFINE made == IF op[t].server \in akFile THEN {} ELSE {"file"}
  <2>1. CASE Step(t, "akRead", "verify", op[t])
    BY <1>0, <2>1 DEF Step, Spares
  <2>2. CASE /\ op[t].key \notin authorized[op[t].server]
             /\ Step(t, "akRead", "akWrite",
                     [op[t] EXCEPT !.lines = authorized[op[t].server], !.made = @ \cup made])
    <3>1. op'[t].server = op[t].server /\ op'[t].key = op[t].key /\ op'[t].made = op[t].made \cup made
      BY <1>0, <2>2 DEF Step, Operations
    <3>2. p.server = op[t].server => made = {} /\ op[t].key # p.key
      BY <1>0, <2>2 DEF FreshInv
    <3>3. pc'[t] = "akWrite"
      BY <1>0, <2>2 DEF Step
    <3> QED
      BY <1>0, <3>1, <3>2, <3>3 DEF Spares
  <2> QED
    BY <1>8, <2>1, <2>2 DEF ReadKeys
<1>9. CASE WriteKeys(t)
  <2>1. /\ pc[t] = "akWrite" /\ pc'[t] = "verify" /\ op'[t].server = op[t].server
        /\ op'[t].key = op[t].key /\ op'[t].made = op[t].made \cup {"line"}
    BY <1>0, <1>9 DEF WriteKeys, Step, Operations
  <2> QED
    BY <1>0, <2>1 DEF Spares
<1>10. CASE Unwinds(t)
  BY <1>0, <1>10 DEF Unwinds, Spares
<1>11. CASE RaiseFailure(t)
  BY <1>0, <1>11 DEF RaiseFailure, Return, Step, Spares, NoOperation
<1> QED
  BY <1>1, <1>2, <1>3, <1>4, <1>5, <1>6, <1>7, <1>8, <1>9, <1>10, <1>11, UnwindStep
  DEF SetupStep, Forward

\* Profiles stay usable, and no setup under way holds what one of them needs.
LEMMA UsableStep ==
    SetupInv /\ SetupInv' /\ FreshInv /\ UsableInv /\ Alone /\ Alone' /\ [Next]_vars => UsableInv'
<1> SUFFICES ASSUME SetupInv, SetupInv', FreshInv, UsableInv, Alone, Alone', [Next]_vars PROVE UsableInv'
  OBVIOUS
<1>1. CASE UNCHANGED vars
  BY <1>1 DEF vars, UsableInv, ProfileUsable, Spares
<1>2. CASE Rotate
  BY <1>2 DEF Rotate, UsableInv, ProfileUsable, Spares
<1>3. ASSUME NEW t \in Setups, SetupStep(t) PROVE UsableInv'
  <2>1. ASSUME NEW u \in Setups, u # t, NEW n \in Names PROVE Spares(u, n)'
    <3>1. op'[u].server = None
      BY <1>3, <2>1, LoneStep DEF NoOperation
    <3>2. profile'[n] # None => profile'[n].server # None
      BY SetupConstants DEF SetupInv, TypeOK, Profiles
    <3> QED
      BY <3>1, <3>2 DEF Spares
  <2>2. \A k \in issued' : keyFiles'[k] = "pair"
    BY DEF SetupInv, KeyInv
  <2>3. CASE ~ CreateProfile(t)
    <3>1. \A n \in Names : Relied(n)
      BY <1>3, <2>3, ReliedStep
    <3>2. \A n \in Names : Spares(t, n)'
      BY <1>3, <2>3, SparesStep
    <3> QED
      BY <2>1, <2>2, <3>1, <3>2 DEF UsableInv, ProfileUsable, Relied
  <2>4. CASE CreateProfile(t)
    <3> DEFINE m == op[t].name
               q == [server |-> op[t].server, key |-> op[t].key, host |-> op[t].host]
    <3>1. /\ pc[t] = "complete" /\ profile' = [profile EXCEPT ![m] = q]
          /\ issued' = issued \cup {op[t].key} /\ UNCHANGED <<known, authorized>>
          /\ op'[t] = NoOperation
      BY <2>4 DEF CreateProfile, Return, Step, SetupInv, TypeOK
    <3>2. q.key \in authorized[q.server] /\ known[<<q.server, q.host>>] > 0
      BY <3>1 DEF FreshInv, Fresh
    <3>3. \A n \in Names : profile'[n] = q \/ profile'[n] = profile[n]
      BY <3>1 DEF SetupInv, TypeOK
    <3>4. ASSUME NEW n \in Names, profile'[n] # None
          PROVE  /\ profile'[n].key \in issued' /\ profile'[n].key \in authorized'[profile'[n].server]
                 /\ known'[<<profile'[n].server, profile'[n].host>>] > 0
      <4>1. CASE profile'[n] = q
        BY <3>1, <3>2, <4>1
      <4>2. CASE profile'[n] = profile[n]
        BY <3>1, <3>4, <4>2 DEF UsableInv, ProfileUsable
      <4> QED
        BY <3>3, <4>1, <4>2
    <3>5. ASSUME NEW n \in Names PROVE Spares(t, n)'
      <4>1. op'[t].server = None
        BY <3>1 DEF NoOperation
      <4>2. profile'[n] # None => profile'[n].server # None
        BY SetupConstants DEF SetupInv, TypeOK, Profiles
      <4> QED
        BY <4>1, <4>2 DEF Spares
    <3> QED
      BY <2>1, <2>2, <3>4, <3>5 DEF UsableInv, ProfileUsable
  <2> QED
    BY <2>3, <2>4
<1>4. CASE OwnerEdits
  <2>1. /\ UNCHANGED <<known, profile, pc, issued, keyFiles>>
        /\ \A u \in Setups : /\ op'[u].server = op[u].server /\ op'[u].key = op[u].key
                             /\ op'[u].made = op[u].made
    BY <1>4, OwnerKeeps DEF SetupInv, TypeOK
  <2>2. ASSUME NEW n \in Names, profile[n] # None
        PROVE  profile[n].key \in authorized'[profile[n].server]
    <3>1. profile[n].server \in Servers /\ profile[n].key \in Keys
      BY <2>2 DEF SetupInv, TypeOK, Profiles
    <3>2. profile[n].key \in authorized[profile[n].server]
      BY <2>2 DEF UsableInv, ProfileUsable
    <3> QED
      BY <1>4, <3>1, <3>2, OwnerLines
  <2>3. ProfileUsable'
    BY <2>1, <2>2 DEF UsableInv, ProfileUsable
  <2> QED
    BY <2>1, <2>3 DEF UsableInv, Spares
<1> QED
  BY <1>1, <1>2, <1>3, <1>4 DEF Next, SetupStep

-----------------------------------------------------------------------------
\* Without lost answers, an installation is the only step that adds a line of RAB's, its key's.
LEMMA LineGain ==
    ASSUME SetupInv, FreshInv, NEW t \in Setups, SetupStep(t), "lost" \notin Faults,
           NEW s \in Servers, NEW k \in Keys, k \in authorized'[s], k \notin authorized[s]
    PROVE  WriteKeys(t) /\ s = op[t].server /\ k = op[t].key
<1>0. authorized \in [Servers -> SUBSET Lines] /\ Fresh(t)
  BY DEF SetupInv, TypeOK, FreshInv
<1>1. CASE UNCHANGED authorized
  BY <1>1
<1>2. CASE WriteKeys(t)
  BY <1>0, <1>2 DEF WriteKeys, Step, Fresh
<1>3. CASE RollbackWrite(t)
  BY <1>0, <1>3 DEF RollbackWrite, Step, Fresh
<1>4. CASE RollbackUnlink(t)
  BY <1>0, <1>4 DEF RollbackUnlink
<1> QED
  BY <1>1, <1>2, <1>3, <1>4, FootprintStep DEF Footprint, WriteKeysLost, RollbackWriteLost

\* Keys that had been generated stay so, and only the setup that made them ends them.
LEMMA KeyFilesStep ==
    ASSUME SetupInv, NEW t \in Setups, SetupStep(t), NEW k \in Keys, keyFiles[k] # "unused"
    PROVE  keyFiles'[k] = keyFiles[k] \/ (k = op[t].key /\ keyFiles'[k] # "unused")
<1>0. keyFiles \in [Keys -> {"unused", "pair", "left", "gone"}]
  BY DEF SetupInv, TypeOK
<1>1. CASE UNCHANGED keyFiles
  BY <1>1
<1>2. CASE GenerateKey(t) \/ GenerateFails(t)
  BY <1>0, <1>2 DEF GenerateKey, GenerateFails
<1>3. CASE RollbackKey(t)
  BY <1>0, <1>3 DEF RollbackKey
<1> QED
  BY <1>1, <1>2, <1>3, FootprintStep DEF Footprint

\* A setup comes by a key from a returned setup or by generating it.
LEMMA KeyGain ==
    ASSUME SetupInv, NEW t \in Setups, SetupStep(t)
    PROVE  \/ op'[t].key = op[t].key \/ op'[t].key = None
           \/ LoadKey(t) /\ op'[t].key \in issued
           \/ GenerateKey(t) /\ op'[t].key \in Keys /\ keyFiles[op'[t].key] = "unused"
<1>0. op[t] \in Operations /\ op \in [Setups -> Operations]
  BY DEF SetupInv, TypeOK
<1>1. CASE Begin(t)
  BY <1>1, BeginStep
<1>2. CASE Failure(t) \/ Rollback(t) \/ Crash(t)
  BY <1>0, <1>2, UnwindStep DEF Unwinds, RaiseFailure, Crash, Return, Step, NoOperation
<1>3. CASE LoadKey(t)
  BY <1>0, <1>3 DEF LoadKey, Step, Operations, SetupInv, KeyInv
<1>4. CASE GenerateKey(t)
  <2>1. PICK k \in Keys : /\ keyFiles[k] = "unused"
                          /\ Step(t, "key", "sftp", [op[t] EXCEPT !.key = k, !.made = @ \cup {"key"}])
    BY <1>4 DEF GenerateKey
  <2>2. op'[t].key = k
    BY <1>0, <2>1 DEF Step, Operations
  <2> QED
    BY <1>4, <2>1, <2>2
<1>5. CASE Handshake(t)
  BY <1>0, <1>5 DEF Handshake, Step, Operations
<1>6. CASE Status(t) \/ Authenticate(t) \/ OpenSftp(t)
  BY <1>0, <1>6 DEF Status, Authenticate, OpenSftp, Step
<1>7. CASE ConfirmStatus(t) \/ VerifyLogin(t) \/ CreateProfile(t)
  BY <1>0, <1>7 DEF ConfirmStatus, Confirmed, VerifyLogin, CreateProfile, Return, Step, NoOperation
<1>8. CASE HostRead(t)
  BY <1>0, <1>8 DEF HostRead, Step, Operations
<1>9. CASE HostWrite(t)
  <2>1. CASE Return(t, "hostWrite")
    BY <1>0, <2>1 DEF Return, Step, NoOperation
  <2>2. CASE Step(t, "hostWrite", "auth", [op[t] EXCEPT !.hosts = NoEntries, !.made = @ \cup {"host"}])
    BY <1>0, <2>2 DEF Step, Operations
  <2> QED
    BY <1>9, <2>1, <2>2 DEF HostWrite, Confirmed
<1>10. CASE EnsureDirectory(t)
  BY <1>0, <1>10 DEF EnsureDirectory, Step, Operations
<1>11. CASE ReadKeys(t)
  <2> DEFINE made == IF op[t].server \in akFile THEN {} ELSE {"file"}
  <2>1. CASE Step(t, "akRead", "verify", op[t])
    BY <1>0, <2>1 DEF Step
  <2>2. CASE Step(t, "akRead", "akWrite",
                  [op[t] EXCEPT !.lines = authorized[op[t].server], !.made = @ \cup made])
    BY <1>0, <2>2 DEF Step, Operations
  <2> QED
    BY <1>11, <2>1, <2>2 DEF ReadKeys
<1>12. CASE WriteKeys(t)
  BY <1>0, <1>12 DEF WriteKeys, Step, Operations
<1> QED
  BY <1>1, <1>2, <1>3, <1>4, <1>5, <1>6, <1>7, <1>8, <1>9, <1>10, <1>11, <1>12
  DEF SetupStep, Forward


\* A clean rollback that has a line to take out does take it out.
LEMMA UnwindLine ==
    ASSUME SetupInv, FreshInv, "lost" \notin Faults, NEW t \in Setups, Failure(t) \/ Rollback(t),
           pc[t] \in {"verify", "complete", "rbLine", "rbWrite"}, "line" \in op[t].made,
           op'[t].undo = "clean"
    PROVE  \/ pc'[t] \in {"rbLine", "rbWrite"} /\ op'[t].made = op[t].made
           \/ op[t].key \notin authorized'[op[t].server]
<1>0. /\ op[t] \in Operations /\ op \in [Setups -> Operations] /\ pc \in [Setups -> Pcs]
      /\ authorized \in [Servers -> SUBSET Lines] /\ sshDir \in SUBSET Servers
  BY DEF SetupInv, TypeOK
<1>1. CASE StepFails(t)
  <2>1. PICK from \in FailingPcs : Abort(t, from, op[t])
    BY <1>1 DEF StepFails
  <2> QED
    BY <1>0, <2>1 DEF Abort, Step, Operations
<1>2. CASE RollbackRead(t)
  <2>1. \/ Step(t, "rbLine", "rbKey", Failed(op[t]))
        \/ Step(t, "rbLine", "rbWrite", [op[t] EXCEPT !.lines = authorized[op[t].server]])
    BY <1>2 DEF RollbackRead
  <2>2. CASE Step(t, "rbLine", "rbKey", Failed(op[t]))
    BY <1>0, <2>2 DEF Step, Failed, Operations
  <2>3. CASE Step(t, "rbLine", "rbWrite", [op[t] EXCEPT !.lines = authorized[op[t].server]])
    BY <1>0, <2>3 DEF Step, Operations
  <2> QED
    BY <2>1, <2>2, <2>3
<1>3. CASE RollbackWrite(t)
  BY <1>0, <1>3 DEF RollbackWrite
<1>4. CASE RollbackRemoteFails(t)
  <2>1. PICK from : Step(t, from, "rbKey", Failed(op[t]))
    BY <1>4 DEF RollbackRemoteFails
  <2> QED
    BY <1>0, <2>1 DEF Step, Failed, Operations
<1>5. ~ GenerateFails(t) /\ ~ EnsureDirectoryFails(t) /\ ~ PermissionsFail(t) /\ ~ WriteKeysLost(t)
  BY DEF GenerateFails, EnsureDirectoryFails, PermissionsFail, WriteKeysLost, Abort, Step
<1>6. ~ InstallFails(t)
  BY DEF InstallFails, Abort, Step
<1>7. ~ RollbackWriteLost(t) /\ ~ RollbackFile(t) /\ ~ RollbackUnlink(t) /\ ~ RollbackDirectory(t)
  BY DEF RollbackWriteLost, RollbackFile, RollbackUnlink, RollbackDirectory
<1>8. /\ ~ RollbackKey(t) /\ ~ RollbackHostRead(t) /\ ~ RollbackHostWrite(t) /\ ~ RaiseFailure(t)
  BY DEF RollbackKey, RollbackHostRead, RollbackHostWrite, RaiseFailure, Return, Step
<1> QED
  BY <1>1, <1>2, <1>3, <1>4, <1>5, <1>6, <1>7, <1>8 DEF Failure, Rollback

\* A clean rollback is past the key files only once they are gone.
LEMMA UnwindKey ==
    ASSUME SetupInv, NEW t \in Setups, Failure(t) \/ Rollback(t), Unwinds(t),
           pc'[t] \in {"rbHost", "rbHostWrite", "end"}, "key" \in op[t].made,
           op'[t].undo = "clean",
           pc[t] \in {"rbHost", "rbHostWrite", "end"} => keyFiles[op[t].key] = "gone"
    PROVE  keyFiles'[op[t].key] = "gone"
<1>0. /\ op[t] \in Operations /\ op \in [Setups -> Operations] /\ pc \in [Setups -> Pcs]
      /\ keyFiles \in [Keys -> {"unused", "pair", "left", "gone"}] /\ op[t].key \in Keys
  BY DEF SetupInv, TypeOK, KeyInv, Operations
<1>1. CASE RollbackKey(t)
  <2>1. CASE keyFiles' = [keyFiles EXCEPT ![op[t].key] = "gone"]
    BY <1>0, <2>1
  <2>2. CASE Step(t, "rbKey", "rbHost", Failed(op[t]))
    BY <1>0, <2>2 DEF Step, Failed, Operations
  <2> QED
    BY <1>1, <2>1, <2>2 DEF RollbackKey
<1>2. CASE RollbackHostRead(t)
  BY <1>2 DEF RollbackHostRead
<1>3. CASE RollbackHostWrite(t)
  BY <1>3 DEF RollbackHostWrite, Step
<1>4. CASE Failure(t)
  BY <1>0, <1>4
  DEF Failure, StepFails, GenerateFails, EnsureDirectoryFails, PermissionsFail, InstallFails,
      WriteKeysLost, Abort, Step
<1>5. CASE \/ RollbackRead(t) \/ RollbackWrite(t) \/ RollbackWriteLost(t) \/ RollbackFile(t)
           \/ RollbackUnlink(t) \/ RollbackDirectory(t) \/ RollbackRemoteFails(t)
  BY <1>0, <1>5
  DEF RollbackRead, RollbackWrite, RollbackWriteLost, RollbackFile, RollbackUnlink,
      RollbackDirectory, RollbackRemoteFails, Step
<1>6. CASE RaiseFailure(t)
  BY <1>0, <1>6 DEF RaiseFailure, Return, Step
<1> QED
  BY <1>1, <1>2, <1>3, <1>4, <1>5, <1>6 DEF Rollback

\* Forward steps other than those that take a key or install it keep the key and
\* whether the setup made it.
KeepsKey(t) ==
    /\ op'[t].key = op[t].key /\ op'[t].undo = op[t].undo /\ op'[t].server = op[t].server
    /\ "key" \in op'[t].made => "key" \in op[t].made
    /\ "line" \in op[t].made => "line" \in op'[t].made
    /\ pc'[t] \in ForwardPcs
    /\ pc[t] \in {"verify", "complete", "rbLine", "rbWrite"} => pc'[t] = "complete"

\* Each of them does, unless the setup is over.
LEMMA ForwardKey ==
    ASSUME SetupInv, NEW t \in Setups, Forward(t), ~ GenerateKey(t), ~ LoadKey(t)
    PROVE  KeepsKey(t) \/ op'[t].made = {}
<1>0. op[t] \in Operations /\ op \in [Setups -> Operations] /\ pc \in [Setups -> Pcs]
  BY DEF SetupInv, TypeOK
<1> USE DEF KeepsKey
<1>5. CASE Handshake(t)
  BY <1>0, <1>5 DEF Handshake, Step, Operations
<1>6. CASE Status(t) \/ Authenticate(t) \/ OpenSftp(t)
  BY <1>0, <1>6 DEF Status, Authenticate, OpenSftp, Step
<1>7. CASE ConfirmStatus(t) \/ VerifyLogin(t) \/ CreateProfile(t)
  BY <1>0, <1>7 DEF ConfirmStatus, Confirmed, VerifyLogin, CreateProfile, Return, Step, NoOperation
<1>8. CASE HostRead(t)
  BY <1>0, <1>8 DEF HostRead, Step, Operations
<1>9. CASE HostWrite(t)
  <2>1. CASE Return(t, "hostWrite")
    BY <1>0, <2>1 DEF Return, Step, NoOperation
  <2>2. CASE Step(t, "hostWrite", "auth", [op[t] EXCEPT !.hosts = NoEntries, !.made = @ \cup {"host"}])
    BY <1>0, <2>2 DEF Step, Operations
  <2> QED
    BY <1>9, <2>1, <2>2 DEF HostWrite, Confirmed
<1>10. CASE EnsureDirectory(t)
  <2> DEFINE made == IF op[t].server \in sshDir THEN {} ELSE {"dir"}
  <2>1. Step(t, "dir", "akRead", [op[t] EXCEPT !.made = @ \cup made])
    BY <1>10 DEF EnsureDirectory
  <2> QED
    BY <1>0, <2>1 DEF Step, Operations
<1>11. CASE ReadKeys(t)
  <2> DEFINE made == IF op[t].server \in akFile THEN {} ELSE {"file"}
  <2>1. CASE Step(t, "akRead", "verify", op[t])
    BY <1>0, <2>1 DEF Step
  <2>2. CASE Step(t, "akRead", "akWrite",
                  [op[t] EXCEPT !.lines = authorized[op[t].server], !.made = @ \cup made])
    BY <1>0, <2>2 DEF Step, Operations
  <2> QED
    BY <1>11, <2>1, <2>2 DEF ReadKeys
<1>12. CASE WriteKeys(t)
  BY <1>0, <1>12 DEF WriteKeys, Step, Operations
<1> QED
  BY <1>5, <1>6, <1>7, <1>8, <1>9, <1>10, <1>11, <1>12 DEF Forward

\* The generated key of a setup goes where its receipt and its rollback say.
LEMMA TracelessStep ==
    ASSUME SetupInv, FreshInv, QuietInv, "lost" \notin Faults, NEW t \in Setups, SetupStep(t)
    PROVE  Traceless(t)'
<1> SUFFICES ASSUME "key" \in op'[t].made, op'[t].undo = "clean" PROVE Traceless(t)'
  BY DEF Traceless
<1>0. /\ op[t] \in Operations /\ op \in [Setups -> Operations] /\ pc \in [Setups -> Pcs]
      /\ Traceless(t)
  BY DEF SetupInv, TypeOK, QuietInv
<1>k. "key" \in op[t].made => op[t].key \in Keys
  BY KeyInUse DEF SetupInv, KeyInv
<1>1. CASE GenerateKey(t)
  <2>1. PICK k \in Keys : /\ keyFiles[k] = "unused"
                          /\ Step(t, "key", "sftp", [op[t] EXCEPT !.key = k, !.made = @ \cup {"key"}])
                          /\ UNCHANGED authorized
    BY <1>1 DEF GenerateKey
  <2>2. op'[t].key = k /\ pc'[t] = "sftp"
    BY <1>0, <2>1 DEF Step, Operations
  <2>3. \A s \in Servers : k \notin authorized'[s]
    BY <2>1 DEF QuietInv
  <2> QED
    BY <2>2, <2>3 DEF Traceless
<1>2. ~ LoadKey(t)
  <2>1. SUFFICES ASSUME LoadKey(t) PROVE FALSE
    OBVIOUS
  <2>2. pc[t] = "key" /\ op'[t].made = op[t].made
    BY <1>0, <2>1 DEF LoadKey, Step, Operations
  <2> QED
    BY <2>2 DEF SetupInv, KeyInv
<1>3. CASE Forward(t) /\ ~ GenerateKey(t)
  <2>1. KeepsKey(t)
    BY <1>2, <1>3, ForwardKey
  <2>2. ASSUME NEW s \in Servers, op'[t].key \in authorized'[s]
        PROVE  s = op'[t].server /\ "line" \in op'[t].made /\ pc'[t] \in {"verify", "complete"}
    <3>1. CASE op[t].key \in authorized[s]
      BY <1>0, <2>1, <3>1 DEF KeepsKey, Traceless
    <3>2. CASE op[t].key \notin authorized[s]
      <4>1. WriteKeys(t) /\ s = op[t].server
        BY <1>k, <2>1, <2>2, <3>2, LineGain DEF KeepsKey
      <4>2. pc'[t] = "verify" /\ "line" \in op'[t].made
        BY <1>0, <4>1 DEF WriteKeys, Step, Operations
      <4> QED
        BY <2>1, <4>1, <4>2 DEF KeepsKey
    <3> QED
      BY <3>1, <3>2
  <2> QED
    BY <2>1, <2>2 DEF Traceless, KeepsKey
<1>4. CASE (Failure(t) \/ Rollback(t)) /\ Unwinds(t)
  <2>1. "key" \in op[t].made /\ op[t].undo = "clean" /\ op'[t].key = op[t].key
    BY <1>4 DEF Unwinds
  <2>2. ASSUME NEW s \in Servers, op'[t].key \in authorized'[s]
        PROVE  /\ s = op'[t].server /\ "line" \in op'[t].made
               /\ pc'[t] \in {"verify", "complete", "rbLine", "rbWrite"}
    <3>1. ~ WriteKeys(t)
      BY <1>0, <1>4 DEF Unwinds, WriteKeys, Step
    <3>2. op[t].key \in authorized[s]
      BY <1>k, <2>1, <2>2, <3>1, LineGain
    <3>3. /\ s = op[t].server /\ "line" \in op[t].made
          /\ pc[t] \in {"verify", "complete", "rbLine", "rbWrite"}
      BY <1>0, <2>1, <3>2 DEF Traceless
    <3>4. pc'[t] \in {"rbLine", "rbWrite"} /\ op'[t].made = op[t].made
      BY <1>4, <2>1, <2>2, <3>3, UnwindLine
    <3> QED
      BY <1>4, <3>3, <3>4 DEF Unwinds
  <2>3. pc'[t] \in {"rbHost", "rbHostWrite", "end"} => keyFiles'[op'[t].key] = "gone"
    <3>1. pc[t] \in {"rbHost", "rbHostWrite", "end"} => keyFiles[op[t].key] = "gone"
      BY <1>0, <2>1 DEF Traceless
    <3> QED
      BY <1>4, <2>1, <3>1, UnwindKey
  <2> QED
    BY <2>2, <2>3 DEF Traceless
<1>5. ~ Begin(t)
  BY BeginStep
<1>6. ~ RaiseFailure(t) /\ ~ Crash(t)
  BY <1>0 DEF RaiseFailure, Crash, Return, Step, NoOperation
<1> QED
  BY <1>1, <1>3, <1>4, <1>5, <1>6, UnwindStep DEF SetupStep

\* Without lost answers, a key whose setup failed quietly never comes back.
LEMMA QuietStep ==
    ASSUME "lost" \notin Faults
    PROVE  SetupInv /\ SetupInv' /\ FreshInv /\ QuietInv /\ Alone /\ Alone' /\ [Next]_vars => QuietInv'
<1> SUFFICES ASSUME SetupInv, SetupInv', FreshInv, QuietInv, Alone, Alone', [Next]_vars PROVE QuietInv'
  OBVIOUS
<1>1. CASE UNCHANGED vars
  BY <1>1 DEF vars, QuietInv, QuietFailureLeavesNothing, Traceless
<1>2. CASE Rotate
  BY <1>2 DEF Rotate, QuietInv, QuietFailureLeavesNothing, Traceless
<1>3. ASSUME NEW t \in Setups, SetupStep(t) PROVE QuietInv'
  <2>0. /\ quiet \subseteq Keys /\ op[t].key \notin quiet
        /\ \A k \in quiet : keyFiles[k] = "gone" /\ \A s \in Servers : k \notin authorized[s]
        /\ \A k \in issued : keyFiles[k] = "pair"
    BY DEF SetupInv, TypeOK, KeyInv, QuietInv, QuietFailureLeavesNothing
  <2>1. ASSUME NEW k \in quiet
        PROVE  keyFiles'[k] = "gone" /\ \A s \in Servers : k \notin authorized'[s]
    <3>1. keyFiles'[k] = "gone"
      BY <1>3, <2>0, KeyFilesStep
    <3>2. \A s \in Servers : k \notin authorized'[s]
      BY <1>3, <2>0, LineGain
    <3> QED
      BY <3>1, <3>2
  <2>2. ASSUME RaiseFailure(t), "key" \in op[t].made, op[t].undo = "clean"
        PROVE  keyFiles'[op[t].key] = "gone" /\ \A s \in Servers : op[t].key \notin authorized'[s]
    <3>1. pc[t] = "end" /\ UNCHANGED <<keyFiles, authorized>>
      BY <2>2 DEF RaiseFailure, Return, Step
    <3> QED
      BY <2>2, <3>1 DEF QuietInv, Traceless
  <2>3. QuietFailureLeavesNothing'
    BY <1>3, <2>1, <2>2, FootprintStep DEF QuietFailureLeavesNothing, Footprint, RaiseFailure
  <2>4. ASSUME NEW s \in Servers, NEW k \in Keys, k \in authorized'[s] PROVE keyFiles'[k] # "unused"
    <3>1. keyFiles[k] # "unused"
      <4>1. CASE k \in authorized[s]
        BY <4>1 DEF QuietInv
      <4>2. CASE k \notin authorized[s]
        BY <1>3, <2>4, <4>2, LineGain, KeyInUse, SetupConstants DEF Lines
      <4> QED
        BY <4>1, <4>2
    <3> QED
      BY <1>3, <3>1, KeyFilesStep
  <2>5. ASSUME NEW u \in Setups, u # t PROVE op'[u].key \notin quiet' /\ Traceless(u)'
    <3>1. op'[u] = NoOperation
      BY <1>3, <2>5, LoneStep
    <3>2. quiet' \subseteq Keys
      BY DEF SetupInv, TypeOK
    <3> QED
      BY <3>1, <3>2, SetupConstants DEF NoOperation, Traceless, Lines
  <2>6. op'[t].key \notin quiet'
    <3>1. CASE RaiseFailure(t)
      <4>1. op'[t].key = None
        BY <3>1 DEF RaiseFailure, Return, Step, NoOperation, SetupInv, TypeOK
      <4> QED
        BY <4>1, SetupConstants DEF SetupInv, TypeOK, Lines
    <3>2. CASE UNCHANGED quiet
      <4>1. None \notin quiet
        BY <2>0, SetupConstants DEF Lines
      <4> QED
        BY <1>3, <2>0, <3>2, <4>1, KeyGain
    <3> QED
      BY <1>3, <3>1, <3>2, FootprintStep DEF Footprint
  <2>7. Traceless(t)'
    BY <1>3, TracelessStep
  <2> QED
    BY <2>3, <2>4, <2>5, <2>6, <2>7 DEF QuietInv
<1>4. CASE OwnerEdits
  <2>1. /\ UNCHANGED <<quiet, pc, keyFiles>>
        /\ \A u \in Setups : /\ op'[u].server = op[u].server /\ op'[u].key = op[u].key
                             /\ op'[u].made = op[u].made /\ op'[u].undo = op[u].undo
    BY <1>4, OwnerKeeps DEF SetupInv, TypeOK
  <2>2. \A s \in Servers, k \in Keys : k \in authorized'[s] <=> k \in authorized[s]
    BY <1>4, OwnerLines
  <2>3. quiet \subseteq Keys /\ \A u \in Setups : "key" \in op[u].made => op[u].key \in Keys
    BY KeyInUse DEF SetupInv, TypeOK, KeyInv
  <2>4. QuietFailureLeavesNothing'
    BY <2>1, <2>2, <2>3 DEF QuietInv, QuietFailureLeavesNothing
  <2>5. \A s \in Servers, k \in Keys : k \in authorized'[s] => keyFiles'[k] # "unused"
    BY <2>1, <2>2 DEF QuietInv
  <2>6. ASSUME NEW u \in Setups PROVE op'[u].key \notin quiet' /\ Traceless(u)'
    BY <2>1, <2>2, <2>3 DEF QuietInv, Traceless
  <2> QED
    BY <2>4, <2>5, <2>6 DEF QuietInv
<1> QED
  BY <1>1, <1>2, <1>3, <1>4 DEF Next, SetupStep

-----------------------------------------------------------------------------
\* Nothing is under way, made or returned at first.
LEMMA InitSequence == Init => FreshInv /\ UsableInv /\ QuietInv
<1> SUFFICES ASSUME Init PROVE FreshInv /\ UsableInv /\ QuietInv
  OBVIOUS
<1>1. /\ \A t \in Setups : pc[t] = "idle" /\ op[t] = NoOperation
      /\ \A n \in Names : profile[n] = None
      /\ quiet = {}
  BY DEF Init
<1>2. FreshInv
  BY <1>1 DEF Init, FreshInv, Fresh, NoOperation
<1>3. UsableInv
  BY <1>1 DEF UsableInv, ProfileUsable, Spares
<1>4. QuietInv
  BY <1>1, SetupConstants DEF Init, QuietInv, QuietFailureLeavesNothing, Traceless, NoOperation
<1> QED
  BY <1>2, <1>3, <1>4

\* As long as setups do not overlap, every profile can log in, whichever setups
\* before and after its own fail, crash or lose an answer: a rollback takes out only the
\* host entry, file and line that no profile needs (setup_service.py 309-343,
\* ssh_bootstrap.py 134-207).
THEOREM UsableProfiles == Spec /\ []Alone => []ProfileUsable
<1>1. UsableInv => ProfileUsable
  BY DEF UsableInv
<1> QED
  BY <1>1, Invariance, InitSequence, FreshStep, UsableStep, PTL DEF Spec

\* As long as setups do not overlap and no rename takes effect that reports an error, a
\* setup that fails and does not raise SETUP_ROLLBACK_FAILED leaves neither the
\* files nor a line of the key it generated, and no later setup brings them back
\* (setup_service.py 284-343, ssh_key_store.py 91-109).
THEOREM QuietFailures ==
    ASSUME "lost" \notin Faults
    PROVE  Spec /\ []Alone => []QuietFailureLeavesNothing
<1>1. QuietInv => QuietFailureLeavesNothing
  BY DEF QuietInv
<1>2. SetupInv /\ SetupInv' /\ FreshInv /\ QuietInv /\ Alone /\ Alone' /\ [Next]_vars => QuietInv'
  BY QuietStep
<1> QED
  BY <1>1, <1>2, Invariance, InitSequence, FreshStep, PTL DEF Spec
=============================================================================
