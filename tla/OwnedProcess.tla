---------------------------- MODULE OwnedProcess ----------------------------
(***************************************************************************)
(* How RAB makes sure that it signals its own process and no other, on a   *)
(* host that reuses pids and reboots.  The other modules identify a        *)
(* process by the tunnel it was started for; here it has a pid, a start    *)
(* time and a boot, and every check and the signal are separate steps.     *)
(*                                                                         *)
(* `side` says which host this is: the user's machine, where               *)
(* ProcessInspector.terminate_owned stops the ssh process on record, or    *)
(* the remote one, where the identity script writes a marker and the       *)
(* validation script verifies or ends the sshd session on record.          *)
(*                                                                         *)
(* Taken for granted: the kernel does not give a pid away again within the *)
(* resolution of its start times (0.1 s locally, a clock tick remotely),   *)
(* the wall clock is not set back, and ss, stat and awk work.              *)
(***************************************************************************)
EXTENDS Naturals

CONSTANTS
    Pids,
    MaxBirths,  \* BOUND: processes started
    MaxBoots,   \* BOUND: boots of the host
    None

ASSUME OwnedConstants ==
    /\ MaxBirths \in Nat \ {0} /\ MaxBoots \in Nat \ {0}
    /\ None \notin Pids /\ None \notin Nat

VARIABLES
    side,       \* "local" or "remote"
    \* the host
    table,      \* the process with each pid, or None
    births,     \* number of processes started so far
    clock,      \* start time of the youngest process of this boot
    boot,       \* boot id
    port,       \* serial of the process that listens on the remote port, or None
    writer,     \* the script that holds the tunnel open runs (remote)
    marker,     \* the identity marker, or None
    \* RAB
    ownPid,     \* pid of RAB's own process
    record,     \* the saved identity, or None
    pc, terminate, answer,
    \* history of the call
    mark,       \* births when the start time was last compared
    victim,     \* serial of the process that got the signal
    began       \* RAB's process was alive when the call began

hostVars == <<table, births, clock, boot, port>>
ownVars  == <<side, ownPid>>
callVars == <<pc, terminate, answer, mark, victim, began>>
vars     == <<hostVars, ownVars, callVars, writer, marker, record>>

\* RAB's own process is the first one of the first boot.
Own      == 1   \* its serial
OwnTicks == 1   \* its start time
OwnBoot  == 1

Processes == [serial : Nat, ticks : Nat, tool : BOOLEAN, mine : BOOLEAN]
Identity  == [pid |-> ownPid, ticks |-> OwnTicks, boot |-> OwnBoot]

LocalPcs  == {"match", "signal", "poll"}
ScriptPcs == {"marker", "process", "ticks", "boot", "comm", "listener", "again", "recheck",
              "kill", "release"}
Answers   == {"none", "no", "error", "yes", "failed", "verified", "cleaned"}

TypeOK ==
    /\ side \in {"local", "remote"}
    /\ table \in [Pids -> Processes \cup {None}]
    /\ births \in Nat /\ clock \in Nat /\ boot \in Nat
    /\ port \in Nat \cup {None}
    /\ writer \in BOOLEAN
    /\ marker \in {Identity, None} /\ record \in {Identity, None}
    /\ ownPid \in Pids
    /\ pc \in {"idle"} \cup LocalPcs \cup ScriptPcs
    /\ terminate \in BOOLEAN
    /\ answer \in Answers
    /\ mark \in Nat /\ victim \in Nat \cup {None}
    /\ began \in BOOLEAN

Alive(s) == \E p \in Pids : table[p] # None /\ table[p].serial = s

\* RAB's process has just been started.  acquire records a local process at once;
\* the remote one is recorded from its marker.
Init ==
    /\ side \in {"local", "remote"}
    /\ ownPid \in Pids
    /\ table = [p \in Pids |-> IF p = ownPid
                  THEN [serial |-> Own, ticks |-> OwnTicks, tool |-> TRUE, mine |-> TRUE] ELSE None]
    /\ births = Own /\ clock = OwnTicks /\ boot = OwnBoot
    /\ port = None
    /\ writer = (side = "remote") /\ marker = None
    /\ record = IF side = "local" THEN Identity ELSE None
    /\ pc = "idle" /\ terminate = FALSE /\ answer = "none"
    /\ mark = 0 /\ victim = None /\ began = FALSE

-----------------------------------------------------------------------------
(* The host *)

\* A process starts, with a pid that is free.
Spawn(p, tool, mine) ==
    /\ table[p] = None /\ births < MaxBirths
    /\ births' = births + 1 /\ clock' = clock + 1
    /\ table' = [table EXCEPT ![p] =
                   [serial |-> births + 1, ticks |-> clock + 1, tool |-> tool, mine |-> mine]]
    /\ UNCHANGED <<boot, port, ownVars, callVars, writer, marker, record>>

\* A process ends, because of a signal or not; its listener goes with it.
Exit(p) ==
    /\ table[p] # None
    /\ table' = [table EXCEPT ![p] = None]
    /\ port' = IF port = table[p].serial THEN None ELSE port
    /\ UNCHANGED <<births, clock, boot, ownVars, callVars, writer, marker, record>>

\* A process takes the remote port.  RAB's session does so before its marker is
\* written, others at any time.
Listen(p) ==
    /\ side = "remote" /\ port = None /\ table[p] # None
    /\ table[p].serial = Own => writer /\ marker = None /\ record = None
    /\ port' = table[p].serial
    /\ UNCHANGED <<table, births, clock, boot, ownVars, callVars, writer, marker, record>>

\* The host reboots.  Files survive; a call in progress does not.
Reboot ==
    /\ boot < MaxBoots
    /\ boot' = boot + 1 /\ clock' = 0
    /\ table' = [p \in Pids |-> None] /\ port' = None
    /\ writer' = FALSE /\ pc' = "idle"
    /\ answer' = IF side = "remote" /\ pc # "idle" /\ answer = "none" THEN "failed" ELSE answer
    /\ UNCHANGED <<births, ownVars, terminate, mark, victim, began, marker, record>>

\* build_remote_identity_command: once something listens on the port, the marker
\* is written with what the script has read of its parent process.
WriteMarker ==
    /\ side = "remote" /\ writer /\ marker = None /\ record = None
    /\ Alive(Own) /\ port # None
    /\ marker' = Identity
    /\ UNCHANGED <<hostVars, ownVars, callVars, writer, record>>

\* The script ends, at the latest some time after its session, and its trap
\* removes the marker; if it is killed, the marker stays.
WriterEnds ==
    /\ writer /\ writer' = FALSE
    /\ marker' \in {marker, None}
    /\ UNCHANGED <<hostVars, ownVars, callVars, record>>

\* read_tunnel_identity, at the end of acquire
ReadIdentity ==
    /\ side = "remote" /\ pc = "idle" /\ record = None /\ marker # None
    /\ record' = marker
    /\ UNCHANGED <<hostVars, ownVars, callVars, writer, marker>>

-----------------------------------------------------------------------------
(* ProcessInspector.terminate_owned *)

Goto(label) == pc' = label /\ UNCHANGED answer

\* A call returns; an answer that RAB no longer waits for is lost.
Return(a) == pc' = "idle" /\ answer' = IF answer = "none" THEN a ELSE answer

Unhosted == UNCHANGED <<hostVars, ownVars, writer, marker, record>>

BeginCall(label) ==
    /\ pc = "idle" /\ record # None
    /\ pc' = label /\ answer' = "none"
    /\ mark' = 0 /\ victim' = None /\ began' = Alive(Own)
    /\ Unhosted

TerminateOwned == side = "local" /\ BeginCall("match") /\ UNCHANGED terminate

\* The process with the recorded pid, and whether it may be inspected and signalled
Target  == table[record.pid]
Present == Target # None /\ Target.mine

\* Mutant: the executable alone identifies a process.
MatchesExecutable == Target # None /\ Target.tool

\* Creation time (boot time and start ticks) and executable agree.
Matches == Target # None /\ Target.ticks = record.ticks /\ boot = record.boot /\ Target.tool

Match ==
    /\ pc = "match"
    /\ IF Matches THEN Goto("signal") ELSE Return("no")
    /\ mark' = births
    /\ Unhosted /\ UNCHANGED <<terminate, victim, began>>

\* os.kill or TerminateProcess.  A pid that is gone or another user's raises on
\* POSIX and answers False on Windows.
Signal ==
    /\ pc = "signal"
    /\ IF Present
         THEN victim' = Target.serial /\ Goto("poll")
         ELSE (Return("no") \/ Return("error")) /\ UNCHANGED victim
    /\ Unhosted /\ UNCHANGED <<terminate, mark, began>>

\* Mutant: the process is taken for gone when the time is up.
PollHopeful ==
    /\ pc = "poll"
    /\ Return("yes")
    /\ Unhosted /\ UNCHANGED <<terminate, mark, victim, began>>

\* The pid has no readable process any more, or the time is up.
Poll ==
    /\ pc = "poll"
    /\ \/ ~ Present /\ Return("yes")
       \/ Return("no")
    /\ Unhosted /\ UNCHANGED <<terminate, mark, victim, began>>

-----------------------------------------------------------------------------
(* The remote validation script *)

\* verify_stale_session_ownership and terminate_verified_stale_session
IdentityAction(t) == side = "remote" /\ BeginCall("marker") /\ terminate' = t

\* One command of the script: a test that fails ends it.
Test(here, ok, next) ==
    /\ pc = here
    /\ IF ok THEN Goto(next) ELSE Return("failed")
    /\ Unhosted /\ UNCHANGED <<terminate, victim, began>>

\* What awk and sed print; nothing if the file is missing.
StartTicks == IF Target = None THEN None ELSE Target.ticks
FieldTicks == IF marker = None THEN None ELSE marker.ticks
FieldBoot  == IF marker = None THEN None ELSE marker.boot

TestMarker  == Test("marker", marker = record, "process") /\ UNCHANGED mark
TestProcess == Test("process", Present, "ticks") /\ UNCHANGED mark
TestTicks   == Test("ticks", StartTicks = FieldTicks, "boot") /\ mark' = births

\* Mutant: the boot id is not compared.
TestBootSkipped == Test("boot", TRUE, "comm") /\ UNCHANGED mark

TestBoot == Test("boot", boot = FieldBoot, "comm") /\ UNCHANGED mark

TestComm == Test("comm", Target # None /\ Target.tool, "listener") /\ UNCHANGED mark

\* Any listener on the loopback port will do.
TestListener ==
    /\ pc = "listener"
    /\ IF port = None THEN Return("failed")
       ELSE IF terminate THEN Goto("again") ELSE Return("verified")
    /\ Unhosted /\ UNCHANGED <<terminate, mark, victim, began>>

TestAgain   == Test("again", marker # None, "recheck") /\ UNCHANGED mark
TestRecheck == Test("recheck", StartTicks = FieldTicks, "kill") /\ mark' = births

\* kill fails on a pid that is gone or another user's.
Kill ==
    /\ pc = "kill"
    /\ IF Present
         THEN victim' = Target.serial /\ Goto("release")
         ELSE Return("failed") /\ UNCHANGED victim
    /\ Unhosted /\ UNCHANGED <<terminate, mark, began>>

\* Nothing listens on the port any more, or the attempts are used up.
Release ==
    /\ pc = "release"
    /\ \/ port = None /\ marker' = None /\ Return("cleaned")
       \/ Return("failed") /\ UNCHANGED marker
    /\ UNCHANGED <<hostVars, ownVars, writer, record, terminate, mark, victim, began>>

\* The connection is lost or times out: RAB has its answer, the script goes on.
AnswerLost ==
    /\ pc \in ScriptPcs /\ answer = "none"
    /\ answer' = "failed"
    /\ Unhosted /\ UNCHANGED <<pc, terminate, mark, victim, began>>

-----------------------------------------------------------------------------

Host ==
    \/ \E p \in Pids : Exit(p) \/ Listen(p) \/ \E tool, mine \in BOOLEAN : Spawn(p, tool, mine)
    \/ Reboot \/ WriteMarker \/ WriterEnds

Call ==
    \/ TerminateOwned \/ Match \/ Signal \/ Poll
    \/ ReadIdentity \/ \E t \in BOOLEAN : IdentityAction(t)
    \/ TestMarker \/ TestProcess \/ TestTicks \/ TestBoot \/ TestComm \/ TestListener
    \/ TestAgain \/ TestRecheck \/ Kill \/ Release \/ AnswerLost

Next == Host \/ Call

Spec == Init /\ [][Next]_vars

-----------------------------------------------------------------------------
(* Properties *)

\* The signal goes to RAB's own process, or to one that started after the last
\* comparison of start times: no process that existed when RAB last looked is
\* taken for its own, whatever pids were reused and however often the host
\* rebooted (process_identity.py 38-44, remote_probe.py 303-306).
OnlyOwnSignalled == victim # None => victim = Own \/ victim > mark

\* RAB is told that the session is its own, or that it ended the process, only
\* if that process was alive when the call began: a pid that had changed hands
\* before is never verified (process_identity.py 27-39, remote_probe.py 275-302).
AnswerMeansOwn == answer \in {"yes", "verified", "cleaned"} => began

\* After True the local process is gone, after CLEANED the session no longer
\* listens on the port, even if pid and port went to others meanwhile
\* (process_identity.py 45-51, remote_probe.py 307-314).
StoppedMeansReleased ==
    /\ answer = "yes" => ~ Alive(Own)
    /\ answer = "cleaned" => port # Own

-----------------------------------------------------------------------------
(* The inductive invariant *)

\* Serials and start times never run ahead of their counters, and RAB's process
\* is the first of its boot.
HostInv ==
    /\ births >= Own /\ boot >= OwnBoot
    /\ boot = OwnBoot => clock >= OwnTicks
    /\ \A p \in Pids : table[p] # None =>
         /\ table[p].serial >= 1 /\ table[p].serial <= births /\ table[p].ticks <= clock
         /\ table[p].serial = Own => p = ownPid /\ table[p].mine /\ boot = OwnBoot
         /\ boot = OwnBoot /\ table[p].ticks = OwnTicks => table[p].serial = Own

\* A call has a record, and RAB's process does not come back during it.
CallInv ==
    /\ pc # "idle" => record # None
    /\ pc \in LocalPcs => side = "local"
    /\ pc \in ScriptPcs => side = "remote"
    /\ pc # "idle" /\ Alive(Own) => began
    /\ mark <= births

\* What the checks of a call have established.
CheckedInv ==
    /\ pc \in (LocalPcs \cup ScriptPcs) \ {"poll", "release"} => victim = None
    /\ pc = "boot" => marker = None \/ boot # OwnBoot \/ began
    /\ pc \in {"signal", "poll", "comm", "listener", "again", "recheck", "kill", "release"} =>
         began /\ boot = OwnBoot
    /\ pc \in {"signal", "kill"} =>
         table[ownPid] = None \/ table[ownPid].serial = Own \/ table[ownPid].serial > mark

\* What an answer says stays true.
AnswerInv ==
    /\ answer # "none" => record # None
    /\ answer \in {"yes", "verified", "cleaned"} => began
    /\ answer = "yes" => ~ Alive(Own)
    /\ answer = "cleaned" => port # Own

\* The properties above follow from this invariant, which every step preserves.
OInv == TypeOK /\ HostInv /\ CallInv /\ CheckedInv /\ AnswerInv /\ OnlyOwnSignalled
=============================================================================
