---------------------------- MODULE ManagedSetup ----------------------------
(***************************************************************************)
(* The setup of managed profiles (app/services/setup_service.py): a        *)
(* transaction over RAB's known_hosts and key files and over the .ssh      *)
(* directory of a remote account, undone step by step when a step fails.   *)
(* Request threads run several at once.  known_hosts and authorized_keys   *)
(* are read, changed and written back without a lock, so that reading and  *)
(* writing are separate steps here, between which other setups and the     *)
(* owner of the account may write too.                                     *)
(***************************************************************************)
EXTENDS Naturals

CONSTANTS
    Setups,     \* request threads
    Servers,    \* remote accounts, each with its SSH server
    HostKeys,   \* host keys; a fingerprint stands for its key
    Keys,       \* BOUND: key ids (uuid4), one per ssh-keygen run
    Names,      \* profile names
    UserLine,   \* a line of the account's owner in authorized_keys
    Faults,     \* which of SetupFaults can happen
    None        \* absence of a value

\* crash: its process dies; lost: a rename takes effect although SFTP reports an error
SetupFaults == {"crash", "lost"}

Entries == Servers \X HostKeys
Lines   == Keys \cup {UserLine}

\* A profile as far as setup decides it.
Profiles == [server : Servers, key : Keys, host : HostKeys]

ASSUME SetupConstants ==
    /\ None \notin Servers \cup HostKeys \cup Lines \cup Names
    /\ None \notin Profiles
    /\ UserLine \notin Keys
    /\ Faults \subseteq SetupFaults

VARIABLES
    hostKey,    \* the key each server presents
    known,      \* known_hosts: how many lines there are of each entry
    keyFiles,   \* key files of an id: "unused", "pair", "left" (one or both), "gone"
    sshDir,     \* servers where the account has a .ssh directory
    akFile,     \* servers where it holds a file authorized_keys
    authorized, \* the lines of that file, none when there is no file
    profile,    \* profile files
    pc,         \* control state of a thread
    op,         \* its inputs, locals and _SetupArtifacts
    accepted,   \* history: entries whose fingerprint a user has confirmed
    issued,     \* history: key ids a setup returned to its caller
    quiet,      \* history: keys made by setups that failed and reported no residue
    intent      \* history: what the owner last did about the line, until it is overtaken

worldVars   == <<hostKey, known, keyFiles, sshDir, akFile, authorized, profile>>
historyVars == <<accepted, issued, quiet, intent>>
vars        == <<worldVars, pc, op, historyVars>>

-----------------------------------------------------------------------------
HostPcs     == {"confirm", "hostRead", "hostWrite"}
InstallPcs  == {"dir", "akRead", "akWrite"}
ForwardPcs  == HostPcs \cup InstallPcs \cup
               {"handshake", "status", "auth", "key", "sftp", "verify", "complete"}
RollbackPcs == {"rbLine", "rbWrite", "rbFile", "rbUnlink", "rbDir", "rbKey",
                "rbHost", "rbHostWrite", "end"}
Pcs         == {"idle"} \cup ForwardPcs \cup RollbackPcs

\* _SetupArtifacts: "host" is known_host_added, "key" a generated pair; "line",
\* "dir" and "file" are the receipt of install_public_key.
Receipt   == {"line", "dir", "file"}
Artifacts == Receipt \cup {"host", "key"}

Operations ==
    [ mode   : {"none", "confirm", "bootstrap", "managed"},
      name   : Names \cup {None},
      server : Servers \cup {None},
      fp     : HostKeys \cup {None},       \* confirmed_fingerprint
      reuse  : Keys \cup {None},           \* existing_key_id
      host   : HostKeys \cup {None},       \* the key of this session
      key    : Keys \cup {None},           \* key_pair
      made   : SUBSET Artifacts,
      hosts  : [Entries -> Nat],           \* known_hosts as read
      lines  : SUBSET Lines,               \* authorized_keys as read
      behind : BOOLEAN,                    \* history: the owner has edited it since
      undo   : {"clean", "failed"} ]       \* rollback_failed

NoEntries == [e \in Entries |-> 0]

NoOperation == [mode |-> "none", name |-> None, server |-> None, fp |-> None, reuse |-> None,
                host |-> None, key |-> None, made |-> {}, hosts |-> NoEntries, lines |-> {},
                behind |-> FALSE, undo |-> "clean"]

TypeOK ==
    /\ hostKey \in [Servers -> HostKeys]
    /\ known \in [Entries -> Nat]
    /\ keyFiles \in [Keys -> {"unused", "pair", "left", "gone"}]
    /\ sshDir \in SUBSET Servers
    /\ akFile \in SUBSET Servers
    /\ authorized \in [Servers -> SUBSET Lines]
    /\ profile \in [Names -> Profiles \cup {None}]
    /\ pc \in [Setups -> Pcs]
    /\ op \in [Setups -> Operations]
    /\ accepted \in SUBSET Entries
    /\ issued \in SUBSET Keys
    /\ quiet \in SUBSET Keys
    /\ intent \in [Servers -> {"line", "none", "overtaken"}]

\* A fresh state directory and accounts that may have a .ssh directory, a file
\* in it and a line in that.
Init ==
    /\ hostKey \in [Servers -> HostKeys]
    /\ known = NoEntries
    /\ keyFiles = [k \in Keys |-> "unused"]
    /\ sshDir \in SUBSET Servers
    /\ akFile \in SUBSET sshDir
    /\ authorized \in [Servers -> {{}, {UserLine}}]
    /\ \A s \in Servers \ akFile : authorized[s] = {}
    /\ profile = [n \in Names |-> None]
    /\ pc = [t \in Setups |-> "idle"]
    /\ op = [t \in Setups |-> NoOperation]
    /\ accepted = {} /\ issued = {} /\ quiet = {}
    /\ intent = [s \in Servers |-> IF UserLine \in authorized[s] THEN "line" ELSE "none"]

-----------------------------------------------------------------------------
(* Control *)

Step(t, from, to, o) ==
    /\ pc[t] = from
    /\ pc' = [pc EXCEPT ![t] = to]
    /\ op' = [op EXCEPT ![t] = o]

\* The operation returns.  Its password, session and locals are gone.
Return(t, from) == Step(t, from, "idle", NoOperation)

\* The except branches of _run_bootstrap: on to the rollback.  A failing
\* confirm_host_key has made nothing, and finds nothing to undo.
Abort(t, from, o) == Step(t, from, "rbLine", [o EXCEPT !.hosts = NoEntries, !.lines = {}, !.behind = FALSE])

\* The arguments of a call
Called(m, n, s, f, r) ==
    [NoOperation EXCEPT !.mode = m, !.name = n, !.server = s, !.fp = f, !.reuse = r]

\* Call with the inputs of a user.  A call that is refused before the handshake
\* (validation, an existing profile, failed proxy discovery) or only compares (the
\* user rejects the key) leaves no trace and is no step.
\* A key id is known to users once a setup has returned it.
Begin(t) ==
    \E m \in {"confirm", "bootstrap", "managed"}, n \in Names \cup {None}, s \in Servers,
       f \in HostKeys \cup {None}, r \in issued \cup {None} :
        /\ m = "managed" <=> n # None
        /\ m = "managed" => profile[n] = None
        /\ m = "confirm" => f # None /\ r = None
        /\ Step(t, "idle", "handshake", Called(m, n, s, f, r))
        /\ accepted' = IF f = None THEN accepted ELSE accepted \cup {<<s, f>>}
        /\ UNCHANGED <<worldVars, issued, quiet, intent>>

\* Each of these steps may raise, for a reason of its own or of the network.
FailingPcs == ForwardPcs \ {"akRead", "akWrite"}
StepFails(t) ==
    /\ \E from \in FailingPcs : Abort(t, from, op[t])
    /\ UNCHANGED <<worldVars, historyVars>>

-----------------------------------------------------------------------------
(* Host key: HostKeyStore *)

KnownKeys(s) == {h \in HostKeys : known[<<s, h>>] > 0}
Entry(t)     == <<op[t].server, op[t].host>>

\* confirm_host_key compares the fingerprint right after the handshake,
\* _run_bootstrap looks at known_hosts first.
Handshake(t) ==
    LET h == hostKey[op[t].server]
        next == IF op[t].mode = "confirm" THEN "confirm" ELSE "status"
    IN  /\ op[t].mode = "confirm" => op[t].fp = h
        /\ Step(t, "handshake", next, [op[t] EXCEPT !.host = h])
        /\ UNCHANGED <<worldVars, historyVars>>

\* Mutant: the fingerprint is not compared
StatusTrusting(t) ==
    /\ pc[t] = "status"
    /\ \/ /\ KnownKeys(op[t].server) = {}
          /\ op[t].fp # None
          /\ Step(t, "status", "confirm", op[t])
       \/ /\ op[t].host \in KnownKeys(op[t].server)
          /\ Step(t, "status", "auth", op[t])
    /\ UNCHANGED <<worldVars, historyVars>>

\* An unknown key needs the user's fingerprint, a known one must not contradict
\* it.  Every other case raises (StepFails).
Status(t) ==
    /\ pc[t] = "status"
    /\ \/ /\ KnownKeys(op[t].server) = {}
          /\ op[t].fp = op[t].host
          /\ Step(t, "status", "confirm", op[t])
       \/ /\ op[t].host \in KnownKeys(op[t].server)
          /\ op[t].fp \in {None, op[t].host}
          /\ Step(t, "status", "auth", op[t])
    /\ UNCHANGED <<worldVars, historyVars>>

\* The host key is on record: back to the caller of confirm.
Confirmed(t, from, o) ==
    IF op[t].mode = "confirm" THEN Return(t, from) ELSE Step(t, from, "auth", o)

\* confirm asks for the status again, then reads the lines, then replaces the file.
ConfirmStatus(t) ==
    /\ pc[t] = "confirm"
    /\ \/ op[t].host \in KnownKeys(op[t].server) /\ Confirmed(t, "confirm", op[t])
       \/ KnownKeys(op[t].server) = {} /\ Step(t, "confirm", "hostRead", op[t])
    /\ UNCHANGED <<worldVars, historyVars>>

HostRead(t) ==
    /\ Step(t, "hostRead", "hostWrite", [op[t] EXCEPT !.hosts = known])
    /\ UNCHANGED <<worldVars, historyVars>>

HostWrite(t) ==
    /\ Confirmed(t, "hostWrite", [op[t] EXCEPT !.hosts = NoEntries, !.made = @ \cup {"host"}])
    /\ known' = [op[t].hosts EXCEPT ![Entry(t)] = @ + 1]
    /\ UNCHANGED <<hostKey, keyFiles, sshDir, akFile, authorized, profile, historyVars>>

-----------------------------------------------------------------------------
(* Credentials: authenticate_password, SSHKeyStore *)

\* The password goes to the server of this session.
Authenticate(t) ==
    /\ Step(t, "auth", "key", op[t])
    /\ UNCHANGED <<worldVars, historyVars>>

LoadKey(t) ==
    /\ pc[t] = "key"
    /\ op[t].reuse # None /\ keyFiles[op[t].reuse] = "pair"
    /\ Step(t, "key", "sftp", [op[t] EXCEPT !.key = op[t].reuse])
    /\ UNCHANGED <<worldVars, historyVars>>

GenerateKey(t) ==
    /\ op[t].reuse = None
    /\ \E k \in Keys :
        /\ keyFiles[k] = "unused"
        /\ keyFiles' = [keyFiles EXCEPT ![k] = "pair"]
        /\ Step(t, "key", "sftp", [op[t] EXCEPT !.key = k, !.made = @ \cup {"key"}])
    /\ UNCHANGED <<hostKey, known, sshDir, akFile, authorized, profile, historyVars>>

\* ssh-keygen, the check or the chmod failed.  _remove_paths ignores errors, so
\* files may stay, known to nobody.
GenerateFails(t) ==
    /\ op[t].reuse = None
    /\ \E k \in Keys, left \in {"gone", "left"} :
        /\ keyFiles[k] = "unused"
        /\ keyFiles' = [keyFiles EXCEPT ![k] = left]
    /\ Abort(t, "key", op[t])
    /\ UNCHANGED <<hostKey, known, sshDir, akFile, authorized, profile, historyVars>>

-----------------------------------------------------------------------------
(* The remote account: install_public_key *)

OpenSftp(t) ==
    /\ Step(t, "sftp", "dir", op[t])
    /\ UNCHANGED <<worldVars, historyVars>>

EnsureDirectory(t) ==
    LET s == op[t].server
        made == IF s \in sshDir THEN {} ELSE {"dir"}
    IN  /\ Step(t, "dir", "akRead", [op[t] EXCEPT !.made = @ \cup made])
        /\ sshDir' = sshDir \cup {s}
        /\ UNCHANGED <<hostKey, known, keyFiles, akFile, authorized, profile, historyVars>>

\* mkdir succeeded and chmod raised: nobody remembers the new directory.
EnsureDirectoryFails(t) ==
    /\ Abort(t, "dir", op[t])
    /\ sshDir' = sshDir \cup {op[t].server}
    /\ UNCHANGED <<hostKey, known, keyFiles, akFile, authorized, profile, historyVars>>

\* Mutant: a line found there counts as added
ReadKeysClaiming(t) ==
    LET s == op[t].server
        made == IF s \in akFile THEN {} ELSE {"file"}
    IN  /\ pc[t] = "akRead"
        /\ IF op[t].key \in authorized[s]
           THEN Step(t, "akRead", "verify", [op[t] EXCEPT !.made = @ \cup {"line"}])
           ELSE Step(t, "akRead", "akWrite",
                     [op[t] EXCEPT !.lines = authorized[s], !.made = @ \cup made])
        /\ UNCHANGED <<worldVars, historyVars>>

ReadKeys(t) ==
    LET s == op[t].server
        made == IF s \in akFile THEN {} ELSE {"file"}
    IN  /\ pc[t] = "akRead"
        /\ IF op[t].key \in authorized[s]
           THEN Step(t, "akRead", "verify", op[t])
           ELSE Step(t, "akRead", "akWrite",
                     [op[t] EXCEPT !.lines = authorized[s], !.made = @ \cup made])
        /\ UNCHANGED <<worldVars, historyVars>>

\* The permissions could not be set: no receipt, and a new directory stays.
PermissionsFail(t) ==
    /\ pc[t] = "akRead"
    /\ op[t].key \in authorized[op[t].server]
    /\ Abort(t, "akRead", [op[t] EXCEPT !.made = @ \ Receipt])
    /\ UNCHANGED <<worldVars, historyVars>>

\* A setup has read authorized_keys and is going to replace it, or has found it
\* empty and is going to remove it.
CopyPcs == {"akWrite", "rbWrite", "rbUnlink"}

\* History: what the owner did since the setup read the file is lost from now on.
Overtakes(t) ==
    intent' = IF op[t].behind THEN [intent EXCEPT ![op[t].server] = "overtaken"] ELSE intent

\* _replace_authorized_keys: a rename over the file, which needs the directory.
Replace(t, lines) ==
    LET s == op[t].server
    IN  /\ s \in sshDir
        /\ akFile' = akFile \cup {s}
        /\ authorized' = [authorized EXCEPT ![s] = lines]
        /\ Overtakes(t)
        /\ UNCHANGED <<hostKey, known, keyFiles, sshDir, profile, accepted, issued, quiet>>

Installed(t) == op[t].lines \cup {op[t].key}

WriteKeys(t) ==
    /\ Step(t, "akWrite", "verify",
            [op[t] EXCEPT !.lines = {}, !.behind = FALSE, !.made = @ \cup {"line"}])
    /\ Replace(t, Installed(t))

\* Reading or replacing raised.  There is no receipt then; a directory that was
\* just made is removed if it is empty, or the failure is SETUP_ROLLBACK_FAILED.
\* An error of lstat that is no OSError leaves it there unreported.
InstallFails(t) ==
    LET s == op[t].server
        o == [op[t] EXCEPT !.made = @ \ Receipt]
    IN  /\ \E from \in {"akRead", "akWrite"} :
            \/ /\ "dir" \notin op[t].made \/ from = "akRead"
               /\ Abort(t, from, o)
               /\ UNCHANGED sshDir
            \/ /\ "dir" \in op[t].made /\ s \in sshDir \ akFile
               /\ Abort(t, from, o)
               /\ sshDir' = sshDir \ {s}
            \/ /\ "dir" \in op[t].made
               /\ Abort(t, from, [o EXCEPT !.undo = "failed"])
               /\ UNCHANGED sshDir
        /\ UNCHANGED <<hostKey, known, keyFiles, akFile, authorized, profile, historyVars>>

\* The rename took effect, its answer is an error: the line is there, the receipt
\* is not.  A directory just made is not empty now.
WriteKeysLost(t) ==
    LET undo == IF "dir" \in op[t].made THEN "failed" ELSE "clean"
    IN  /\ "lost" \in Faults
        /\ Abort(t, "akWrite", [op[t] EXCEPT !.made = @ \ Receipt, !.undo = undo])
        /\ Replace(t, Installed(t))

-----------------------------------------------------------------------------
(* Verification and completion *)

Succeed(t, from) ==
    /\ Return(t, from)
    /\ issued' = issued \cup {op[t].key}
    /\ UNCHANGED <<accepted, quiet, intent>>

\* ssh in batch mode with strict host key checking: needs the host entry, the
\* private key and the line.
VerifyLogin(t) ==
    LET s == op[t].server
    IN  /\ pc[t] = "verify"
        /\ hostKey[s] \in KnownKeys(s)
        /\ keyFiles[op[t].key] = "pair"
        /\ op[t].key \in authorized[s]
        /\ IF op[t].mode = "bootstrap"
           THEN Succeed(t, "verify")
           ELSE Step(t, "verify", "complete", op[t]) /\ UNCHANGED historyVars
        /\ UNCHANGED worldVars

\* Proxy and port were found; create finds the lock free and no such profile.
CreateProfile(t) ==
    LET n == op[t].name
    IN  /\ pc[t] = "complete"
        /\ profile[n] = None
        /\ profile' = [profile EXCEPT ![n] =
                         [server |-> op[t].server, key |-> op[t].key, host |-> op[t].host]]
        /\ Succeed(t, "complete")
        /\ UNCHANGED <<hostKey, known, keyFiles, sshDir, akFile, authorized>>

-----------------------------------------------------------------------------
(* _rollback: the remote account, then the key files, then known_hosts.  A     *)
(* step that fails is remembered and the next part is undone all the same.     *)

Failed(o) == [o EXCEPT !.undo = "failed", !.lines = {}, !.behind = FALSE, !.hosts = NoEntries]

\* Mutant: a line in an old file is not undone
HasNewRemotePaths(t) == op[t].made \cap {"dir", "file"} # {}

HasRemoteArtifacts(t) == op[t].made \cap Receipt # {}

\* remove_public_key makes a missing directory, reads, and looks for the line.
RollbackRead(t) ==
    LET s == op[t].server
    IN  /\ pc[t] = "rbLine"
        /\ \/ /\ ~ HasRemoteArtifacts(t)
              /\ Step(t, "rbLine", "rbKey", op[t])
              /\ UNCHANGED sshDir
           \/ /\ HasRemoteArtifacts(t) /\ "line" \notin op[t].made
              /\ Step(t, "rbLine", "rbFile", op[t])
              /\ UNCHANGED sshDir
           \/ /\ HasRemoteArtifacts(t) /\ "line" \in op[t].made
              /\ sshDir' = sshDir \cup {s}
              /\ IF op[t].key \in authorized[s]
                 THEN Step(t, "rbLine", "rbWrite", [op[t] EXCEPT !.lines = authorized[s]])
                 ELSE Step(t, "rbLine", "rbKey", Failed(op[t]))
        /\ UNCHANGED <<hostKey, known, keyFiles, akFile, authorized, profile, historyVars>>

RollbackWrite(t) ==
    /\ Step(t, "rbWrite", "rbFile", [op[t] EXCEPT !.lines = {}, !.behind = FALSE])
    /\ Replace(t, op[t].lines \ {op[t].key})

RollbackWriteLost(t) ==
    /\ "lost" \in Faults
    /\ Step(t, "rbWrite", "rbKey", Failed(op[t]))
    /\ Replace(t, op[t].lines \ {op[t].key})

\* Mutant: what has come into a file this setup made is not looked at
RollbackFileUnread(t) ==
    LET s == op[t].server
    IN  /\ pc[t] = "rbFile"
        /\ \/ /\ "file" \notin op[t].made \/ s \notin akFile
              /\ Step(t, "rbFile", "rbDir", op[t])
           \/ /\ "file" \in op[t].made /\ s \in akFile
              /\ Step(t, "rbFile", "rbUnlink", op[t])
        /\ UNCHANGED <<worldVars, historyVars>>

\* A file this setup made is removed if it is empty; whether it is, is read first.
RollbackFile(t) ==
    LET s == op[t].server
    IN  /\ pc[t] = "rbFile"
        /\ \/ /\ "file" \notin op[t].made \/ s \notin akFile
              /\ Step(t, "rbFile", "rbDir", op[t])
           \/ /\ "file" \in op[t].made /\ s \in akFile /\ authorized[s] = {}
              /\ Step(t, "rbFile", "rbUnlink", op[t])
           \/ /\ "file" \in op[t].made /\ authorized[s] # {}
              /\ Step(t, "rbFile", "rbKey", Failed(op[t]))
        /\ UNCHANGED <<worldVars, historyVars>>

RollbackUnlink(t) ==
    /\ pc[t] = "rbUnlink"
    /\ op[t].server \in akFile
    /\ Step(t, "rbUnlink", "rbDir", [op[t] EXCEPT !.behind = FALSE])
    /\ akFile' = akFile \ {op[t].server}
    /\ authorized' = [authorized EXCEPT ![op[t].server] = {}]
    /\ Overtakes(t)
    /\ UNCHANGED <<hostKey, known, keyFiles, sshDir, profile, accepted, issued, quiet>>

\* rmdir refuses a directory that is not empty.
RollbackDirectory(t) ==
    LET s == op[t].server
    IN  /\ pc[t] = "rbDir"
        /\ \/ /\ "dir" \notin op[t].made
              /\ Step(t, "rbDir", "rbKey", op[t])
              /\ UNCHANGED sshDir
           \/ /\ "dir" \in op[t].made /\ s \in sshDir \ akFile
              /\ Step(t, "rbDir", "rbKey", op[t])
              /\ sshDir' = sshDir \ {s}
        /\ UNCHANGED <<hostKey, known, keyFiles, akFile, authorized, profile, historyVars>>

\* The SFTP session is gone, or a call on it raised or was refused.
RollbackRemoteFails(t) ==
    /\ \/ HasRemoteArtifacts(t) /\ Step(t, "rbLine", "rbKey", Failed(op[t]))
       \/ "file" \in op[t].made /\ Step(t, "rbFile", "rbKey", Failed(op[t]))
       \/ "dir" \in op[t].made /\ Step(t, "rbDir", "rbKey", Failed(op[t]))
       \/ \E from \in {"rbWrite", "rbUnlink"} : Step(t, from, "rbKey", Failed(op[t]))
    /\ UNCHANGED <<worldVars, historyVars>>

\* Mutant: a reused key is removed too
RollbackAnyKey(t) ==
    LET k == op[t].key
    IN  /\ \/ /\ k = None
              /\ Step(t, "rbKey", "rbHost", op[t])
              /\ UNCHANGED keyFiles
           \/ /\ k # None
              /\ Step(t, "rbKey", "rbHost", op[t])
              /\ keyFiles' = [keyFiles EXCEPT ![k] = "gone"]
        /\ UNCHANGED <<hostKey, known, sshDir, akFile, authorized, profile, historyVars>>

\* remove_generated: the public file first, then the private one.
RollbackKey(t) ==
    LET k == op[t].key
    IN  /\ \/ /\ "key" \notin op[t].made
              /\ Step(t, "rbKey", "rbHost", op[t])
              /\ UNCHANGED keyFiles
           \/ /\ "key" \in op[t].made
              /\ Step(t, "rbKey", "rbHost", op[t])
              /\ keyFiles' = [keyFiles EXCEPT ![k] = "gone"]
           \/ /\ "key" \in op[t].made
              /\ Step(t, "rbKey", "rbHost", Failed(op[t]))
              /\ keyFiles' = [keyFiles EXCEPT ![k] = "left"]
        /\ UNCHANGED <<hostKey, known, sshDir, akFile, authorized, profile, historyVars>>

\* remove_if_matches, or an error of its own
RollbackHostRead(t) ==
    /\ pc[t] = "rbHost"
    /\ \/ /\ "host" \notin op[t].made
          /\ Step(t, "rbHost", "end", op[t])
       \/ /\ "host" \in op[t].made /\ known[Entry(t)] > 0
          /\ Step(t, "rbHost", "rbHostWrite", [op[t] EXCEPT !.hosts = known])
       \/ /\ "host" \in op[t].made
          /\ Step(t, "rbHost", "end", Failed(op[t]))
    /\ UNCHANGED <<worldVars, historyVars>>

RollbackHostWrite(t) ==
    /\ \/ /\ Step(t, "rbHostWrite", "end", [op[t] EXCEPT !.hosts = NoEntries])
          /\ known' = [op[t].hosts EXCEPT ![Entry(t)] = @ - 1]
       \/ /\ Step(t, "rbHostWrite", "end", Failed(op[t]))
          /\ UNCHANGED known
    /\ UNCHANGED <<hostKey, keyFiles, sshDir, akFile, authorized, profile, historyVars>>

\* Raises SETUP_ROLLBACK_FAILED, or the original failure when all was undone.
RaiseFailure(t) ==
    /\ Return(t, "end")
    /\ quiet' = IF "key" \in op[t].made /\ op[t].undo = "clean"
                THEN quiet \cup {op[t].key} ELSE quiet
    /\ UNCHANGED <<worldVars, accepted, issued, intent>>

-----------------------------------------------------------------------------
(* The process of a setup dies in its middle, servers get new host keys, and   *)
(* the owner of an account edits authorized_keys.                              *)

Crash(t) ==
    /\ "crash" \in Faults
    /\ \E from \in Pcs \ {"idle"} : Return(t, from)
    /\ UNCHANGED <<worldVars, historyVars>>

Rotate ==
    /\ \E s \in Servers, h \in HostKeys : h # hostKey[s] /\ hostKey' = [hostKey EXCEPT ![s] = h]
    /\ UNCHANGED <<known, keyFiles, sshDir, akFile, authorized, profile, pc, op, historyVars>>

\* The owner adds the line, making directory and file where there are none, or
\* takes it out.  Setups that have read the file know nothing of it.
OwnerEdits ==
    \E s \in Servers :
        LET line == UserLine \notin authorized[s]
        IN  /\ sshDir' = sshDir \cup {s} /\ akFile' = akFile \cup {s}
            /\ authorized' = [authorized EXCEPT ![s] =
                                IF line THEN @ \cup {UserLine} ELSE @ \ {UserLine}]
            /\ intent' = [intent EXCEPT ![s] = IF line THEN "line" ELSE "none"]
            /\ op' = [t \in Setups |-> IF op[t].server = s /\ pc[t] \in CopyPcs
                                       THEN [op[t] EXCEPT !.behind = TRUE] ELSE op[t]]
            /\ UNCHANGED <<hostKey, known, keyFiles, profile, pc, accepted, issued, quiet>>

Forward(t) ==
    \/ Handshake(t) \/ Status(t) \/ ConfirmStatus(t) \/ HostRead(t) \/ HostWrite(t)
    \/ Authenticate(t) \/ LoadKey(t) \/ GenerateKey(t) \/ OpenSftp(t)
    \/ EnsureDirectory(t) \/ ReadKeys(t) \/ WriteKeys(t) \/ VerifyLogin(t) \/ CreateProfile(t)

Failure(t) ==
    \/ StepFails(t) \/ GenerateFails(t) \/ EnsureDirectoryFails(t) \/ PermissionsFail(t)
    \/ InstallFails(t) \/ WriteKeysLost(t)

Rollback(t) ==
    \/ RollbackRead(t) \/ RollbackWrite(t) \/ RollbackWriteLost(t) \/ RollbackFile(t)
    \/ RollbackUnlink(t) \/ RollbackDirectory(t) \/ RollbackRemoteFails(t) \/ RollbackKey(t)
    \/ RollbackHostRead(t) \/ RollbackHostWrite(t) \/ RaiseFailure(t)

Next ==
    \/ \E t \in Setups : Begin(t) \/ Forward(t) \/ Failure(t) \/ Rollback(t) \/ Crash(t)
    \/ Rotate
    \/ OwnerEdits

Spec == Init /\ [][Next]_vars

-----------------------------------------------------------------------------
(* Properties *)

\* A password is sent only to a server whose host key the user has confirmed for
\* that server, whatever other setups add to known_hosts, lose or roll back and
\* whenever the server changes its key (setup_service.py 219-239).
PasswordAfterConfirmation ==
    \A t \in Setups : pc[t] = "auth" => Entry(t) \in accepted

\* The key pair of a returned setup survives every later setup: no rollback touches a key
\* it did not generate, even when it reuses one (setup_service.py 329,
\* ssh_key_store.py 91-109).
IssuedKeysKept == \A k \in issued : keyFiles[k] = "pair"

\* The owner's line is in authorized_keys exactly when the owner last put it there,
\* through every installation and rollback, concurrent ones too: only a setup that
\* read the file before the owner's edit and replaces or removes it afterwards can
\* undo the edit.  An edit that falls between installation and rollback counts, also
\* one in a file the setup made (ssh_bootstrap.py 142-155, 168-179, 192-197).
UserLinesKept ==
    \A s \in Servers : intent[s] # "overtaken" => (intent[s] = "line" <=> UserLine \in authorized[s])

\* A profile can log in: its key pair, its line on the server and its host entry
\* are there, after any sequence of successful, failed and interrupted setups
\* that do not overlap.
ProfileUsable ==
    \A n \in Names : profile[n] # None =>
        LET p == profile[n] IN
        /\ keyFiles[p.key] = "pair"
        /\ p.key \in authorized[p.server]
        /\ known[<<p.server, p.host>>] > 0

\* A setup that fails without SETUP_ROLLBACK_FAILED leaves nothing of the key it
\* generated, neither here nor on a server (setup_service.py 284-294,
\* tests/test_setup_service.py 319).
QuietFailureLeavesNothing ==
    \A k \in quiet : keyFiles[k] = "gone" /\ \A s \in Servers : k \notin authorized[s]

-----------------------------------------------------------------------------
(* The inductive invariant behind the properties of concurrent setups *)

\* Everything in known_hosts, or about to be written there, was confirmed.
HostInv ==
    /\ \A e \in Entries : known[e] > 0 => e \in accepted
    /\ \A t \in Setups :
         /\ \A e \in Entries : op[t].hosts[e] > 0 => e \in accepted
         /\ op[t].fp # None => <<op[t].server, op[t].fp>> \in accepted
         /\ pc[t] \in HostPcs => op[t].host # None /\ op[t].fp = op[t].host
         /\ pc[t] = "auth" => Entry(t) \in accepted

\* A rollback has found the host entry it is about to take out.
EntryInv ==
    \A t \in Setups : pc[t] = "rbHostWrite" => op[t].host # None /\ op[t].hosts[Entry(t)] > 0

\* A generated key belongs to one thread until it is issued; a thread has files
\* for it until its rollback gets to them; other keys in use are issued ones.
KeyInv ==
    /\ \A k \in issued : keyFiles[k] = "pair"
    /\ \A t \in Setups :
         /\ op[t].reuse # None => op[t].reuse \in issued
         /\ op[t].key = None => "key" \notin op[t].made
         /\ pc[t] \in HostPcs \cup {"handshake", "status", "auth", "key"} => op[t].key = None
         /\ op[t].key # None /\ "key" \notin op[t].made => op[t].key \in issued
         /\ "key" \in op[t].made => op[t].key \notin issued /\ keyFiles[op[t].key] # "unused"
         /\ "key" \in op[t].made /\ pc[t] \in ForwardPcs => keyFiles[op[t].key] = "pair"
    /\ \A t, u \in Setups :
         t # u /\ "key" \in op[t].made => op[u].key # op[t].key

\* A copy of authorized_keys has the owner's line as the owner left it, or the owner
\* has edited the file since; a file about to be removed had no such line.
LineInv ==
    /\ UserLinesKept
    /\ \A t \in Setups :
         /\ op[t].behind => pc[t] \in CopyPcs
         /\ pc[t] \in CopyPcs /\ ~ op[t].behind /\ intent[op[t].server] # "overtaken" =>
              (intent[op[t].server] = "line" <=> UserLine \in op[t].lines)
         /\ pc[t] \notin {"akWrite", "rbWrite"} => op[t].lines = {}

\* A thread outside an operation has none, one inside has a server.
ControlInv ==
    \A t \in Setups :
        /\ pc[t] = "idle" => op[t] = NoOperation
        /\ pc[t] # "idle" => op[t].mode # "none" /\ op[t].server # None
        /\ pc[t] \in ForwardPcs \ (HostPcs \cup {"handshake"}) => op[t].mode # "confirm"
        /\ pc[t] \in ForwardPcs \ {"handshake"} => op[t].host # None
        /\ pc[t] \in InstallPcs \cup {"sftp", "verify", "complete", "rbWrite"} => op[t].key # None
        /\ "host" \in op[t].made => op[t].host # None
        /\ pc[t] = "complete" => op[t].name # None
        /\ op[t].mode = "managed" <=> op[t].name # None

SetupInv == TypeOK /\ ControlInv /\ HostInv /\ EntryInv /\ KeyInv /\ LineInv

-----------------------------------------------------------------------------
(* The inductive invariant behind the properties of setups that do not overlap *)

Alone == \A t, u \in Setups : pc[t] # "idle" /\ pc[u] # "idle" => t = u

\* What a lone setup has read of a file is what the file still holds, the lines of
\* the owner apart; the host entry and the line it has found or made are still there.
Fresh(t) ==
    /\ pc[t] \in {"hostWrite", "rbHostWrite"} => op[t].hosts = known
    /\ pc[t] = "rbHostWrite" => "host" \in op[t].made
    /\ pc[t] \in {"akWrite", "rbWrite"} => op[t].lines \cap Keys = authorized[op[t].server] \cap Keys
    /\ pc[t] = "rbWrite" => "line" \in op[t].made
    /\ pc[t] = "rbUnlink" => "file" \in op[t].made
    /\ "line" \in op[t].made => op[t].key # None
    /\ pc[t] \in InstallPcs \cup {"auth", "key", "sftp", "verify", "complete"} => known[Entry(t)] > 0
    /\ pc[t] = "complete" => op[t].key \in authorized[op[t].server]

FreshInv ==
    /\ \A s \in Servers : authorized[s] # {} => s \in akFile
    /\ \A t \in Setups : Fresh(t)

\* A setup that added the host entry, the file or the line, or is about to, found
\* no profile that needs it: its rollback takes nothing away from one.
Spares(t, n) ==
    profile[n] # None /\ profile[n].server = op[t].server =>
        /\ "host" \notin op[t].made /\ pc[t] \notin {"hostRead", "hostWrite"}
        /\ "file" \notin op[t].made
        /\ "line" \in op[t].made \/ pc[t] = "akWrite" => op[t].key # profile[n].key

UsableInv ==
    /\ ProfileUsable
    /\ \A n \in Names : profile[n] # None => profile[n].key \in issued
    /\ \A t \in Setups, n \in Names : Spares(t, n)

\* The generated key of a setup that may still fail quietly is authorized nowhere
\* but where its receipt says, until the rollback has been there, and its files are
\* gone once the rollback has been there.
Traceless(t) ==
    "key" \in op[t].made /\ op[t].undo = "clean" =>
        /\ \A s \in Servers : op[t].key \in authorized[s] =>
             /\ s = op[t].server /\ "line" \in op[t].made
             /\ pc[t] \in {"verify", "complete", "rbLine", "rbWrite"}
        /\ pc[t] \in {"rbHost", "rbHostWrite", "end"} => keyFiles[op[t].key] = "gone"

QuietInv ==
    /\ QuietFailureLeavesNothing
    /\ \A s \in Servers, k \in Keys : k \in authorized[s] => keyFiles[k] # "unused"
    /\ \A t \in Setups : op[t].key \notin quiet /\ Traceless(t)
=============================================================================
