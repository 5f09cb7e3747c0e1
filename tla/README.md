# Remote AI Bridge in TLA+

A formal model of Remote AI Bridge (RAB), kept beside the code: what is
modelled, what TLC checks on small instances, and what TLAPS proves for every
value of the constants. Paths below are relative to the repository root.

## 1. The system

RAB gives a remote host access to a local HTTP proxy through an SSH reverse
tunnel. A *profile* describes one such bridge. For each profile RAB keeps three
files: the profile, the *runtime evidence* (which ssh process, started when, for
which tunnel id and port, with which remote sshd session) and a lock file.

| Part | State | Operations | Hard behaviour |
|---|---|---|---|
| Runtime manager, `app/services/runtime_manager.py` | registry of workers, set of profiles being stopped, closed flag | `start`, `stop`, `shutdown`, `status`, `wait` | request threads, worker threads and shutdown interleave between registry-lock blocks; waits time out while the worker goes on |
| Tunnel supervisor, `app/services/tunnel_supervisor.py` | active tunnel, published snapshot | `run`: inspect, acquire, verify, wait, clean up | stop events at any moment; processes and sessions that die between two checks |
| Tunnel manager, `app/services/tunnel.py` | evidence file, ssh process | `acquire`, `verify`, `disconnect` | a started process is recorded only after several remote checks; stale sessions are terminated after verification |
| Remote probe, `app/services/remote_probe.py` | remote marker files and sshd sessions | listener, endpoint, identity and ownership checks, termination | every remote command may fail, time out, or act although its answer is lost |
| Profile service, `app/services/profile_service.py` | profile file | `create`, `update`, `delete` | runs against supervisors of the same or other RAB processes |
| Profile store, `app/infrastructure/profile_store.py` | profile, evidence and lock files | load, save, clear, `supervisor_lock` | crash between two writes; the lock never blocks |
| Process identity, `app/infrastructure/process_identity.py` | none | `matches`, `terminate_owned` | pids are reused and hosts reboot between the check and the signal |
| Managed setup, `app/services/setup_service.py`, `app/infrastructure/ssh_bootstrap.py`, `ssh_key_store.py`, `host_key_store.py` | keys, known_hosts, remote authorized_keys | `prepare`, `confirm_host_key`, `setup_managed_profile`, rollback | a transaction over local and remote state with partial failures; files edited without a lock |
| Port selection, `app/services/remote_port.py` | none | `select` | edge of the port range; listeners that come and go during the scan |
| Local proxy, `app/services/local_proxy.py` | none | `inspect`, `discover` | proxies that start and stop between two probes |
| Doctor, `app/services/doctor.py` | none | `run` | checks that are skipped after a failure |
| API and CLI, `app/api`, `app/cli.py` | none of their own | map requests and commands to the services | two RAB processes on one state directory |
| Web console, `web/src` | view state | polling, setup wizard | answers that come back out of order |

Interaction: API and CLI call the runtime manager and the profile service. The
runtime manager runs one supervisor thread per profile, told to stop by an event
and observed through its snapshot. Supervisors, profile operations and
unsupervised stops, in any RAB process, exclude one another with the profile
lock and share the profile and evidence files. The supervisor drives the tunnel
manager, which starts local ssh processes and inspects the remote host. Managed
setup runs in request threads before there is a profile, under no lock: it edits
known_hosts and the key directory here and `.ssh` on the server, and ends with
`ProfileService.create`.

What makes it correct:

- the manager never runs two workers for a profile, never leaks its "stopping"
  mark, and reports only what is true;
- evidence never disappears while the process it records runs, and always fits
  the profile on disk;
- a running process is always on record, so that it can be found and stopped;
- only sessions proven to be RAB's own, and stale, are terminated, and no other
  process is signalled because it has inherited a pid;
- the proxy and the port of a new profile are justified by what was probed;
- a password is sent only to a server whose host key the user confirmed;
- a setup that fails takes back what it made and nothing else, and says so when it
  cannot; finished profiles keep their credentials;
- a stop is always obeyed, and shutdown always ends.

## 2. Modules

| Module | Models | Uses |
|---|---|---|
| `RuntimeManager` | the registry, its callers, shutdown and an abstraction of the workers | `ProfileFiles` |
| `ProfileFiles` | what `ProfileStore` and `supervisor_lock` promise about the files of one profile: the abstract specification | - |
| `BridgeState` | processes, sessions, markers and listeners; profile, evidence and lock; crashes | - |
| `TunnelManager` | `acquire`, `verify`, `disconnect` | `BridgeState` |
| `TunnelSupervisor` | `run`, `_stop`, `_cleanup_active` | `TunnelManager` |
| `ProfileOperations` | `_stop_unsupervised`, `create`, `update`, `delete` | `TunnelManager` |
| `Bridge` | the composition, for one profile and several actors; properties and `BInv` | the two above, `ProfileFiles` |
| `OwnedProcess` | `terminate_owned` and the remote identity scripts, on one host with pids, start times and boots; properties and `OInv` | - |
| `Discovery` | proxy discovery, port selection, `profile add`, `find_free_port`, `doctor`; properties and `DInv` | - |
| `ManagedSetup` | `confirm_host_key`, `bootstrap`, `setup_managed_profile` and their rollback, for several setups at once; properties and `SetupInv` | - |
| `RuntimeManagerProofs`, `BridgeProofs`, `OwnedProcessProofs`, `DiscoveryProofs`, `ManagedSetupProofs`, `SetupSequenceProofs` | theorems | the module of that name |
| `MCRuntimeManager`, `MCBridge`, `MCOwnedProcess`, `MCDiscovery`, `MCManagedSetup` | instances for TLC | the module of that name |

### Registry (`RuntimeManager`)

One action per `with self._registry_lock` block and one for what lies between
two blocks. `start` is `StartCheck` (74-75), `StartGet` (76) and one of
`StartRefused`, `StartAttach`, `StartCreate` (77-95). `stop` is `StopBegin`, then
either the wait (`StopExited`, `StopTimeout`, `StopRelease`) or the unsupervised
path (`UnsupGet` to `UnsupRelease`), which shutdown uses too; any call on that path may
raise ("error"), a RABError or not, and the `finally` block is passed all the same.
`shutdown` is `ShutdownBegin`, a visit per worker and `ShutdownReturn`, or
`ShutdownRaise` when a visit ends with an exception other than RABError. A worker is reduced to
what the registry can tell: waiting for the lock, looping, cleaning up, out of
the lock, finished; its effect on the evidence file is a choice over "none",
"live" and "stale". `OtherLock`, `OtherWork` and `OtherUnlock` are profile
operations and other RAB processes, which use the same lock.

### The contract between them (`ProfileFiles`)

`RuntimeManager` assumes of its workers what `Bridge` has in detail. What the two
have in common is stated once: for each profile a lock holder, how far its operation
is, whether the profile file exists, and whether there is evidence and of a live
process. Files change only in the hands of the lock holder; evidence appears only
for an existing profile, a profile goes only when there is no evidence, STOPPED is
answered only when none is left, and nothing changes between an answer and the
release of the lock; a live process may turn stale at any time. Both modules
implement it (`ImplementsProfileFiles`): `Bridge` with `EvidenceKind` computed from
the evidence and the process table, `RuntimeManager` with `runtime[n]` as it is, for
every profile at once.

### Bridge

An actor is a RAB process or worker thread that runs one operation on the profile
at a time; `pc` says where it is. Each remote command, process call and file
write is an action. A remote command may fail whatever the state of the world,
and the world may change before every step: ssh gets its forward or exits,
sessions end or outlive their process, other programs bind and release ports.
A process identity is represented by the tunnel id it was started for; that the
code's identities are as good as that is what `OwnedProcess` is about.

A cleanup whose `stop` raises is followed by a second one in the `except` branch of
`_run_locked` (247-266), which may stop the process and drop its evidence after all; the
outcomes of the two together are the disjuncts of `CleanupActive`.

Left out because no property depends on it: delays and attempt counters, messages
and error codes other than the port conflict (`"CONFLICT"` is FAILED with
REMOTE_PORT_CONFLICT), the time of the last successful probe, `suggested_port`.
A terminate followed by a kill, and a file removal after it, are one step where
splitting it gives states that a process exit just before the step gives anyway.

`Faults` selects what may go wrong besides the remote side: "crash" (the RAB
process dies: its lock is dropped by the system, its ssh processes and files
stay), "disk" (`save_runtime` raises after the process was started), "wedge" (a
process survives `terminate` and `kill`).

### Process identity (`OwnedProcess`)

One host, either the user's machine or the remote one, on which RAB has started one
process: ssh here, the sshd session there. The host starts and ends other processes,
gives their pids away again, and reboots, which restarts the clock that start ticks
count. `serial` tells processes apart for the properties and is invisible to the
code. Locally `TerminateOwned`, `Match`, `Signal` and `Poll` are the steps of
`terminate_owned`. Remotely `WriteMarker` and `WriterEnds` are the script that holds
the tunnel open, and each test of the validation script is an action
(`TestMarker` to `TestRecheck`, then `Kill` and `Release`); `AnswerLost` is RAB
giving up on it while it runs on. Taken for granted: a pid is not given away again
within the resolution of its start time, the wall clock is not set back, and the
tools the script calls work.

### Discovery

Four operations that probe before they decide, one probe per action, while `World`
moves. A candidate has a level, the number of its three probes it would answer now;
a port is taken or not. `SetupBegin` to `Create` is the part of
`setup_managed_profile` around `_run_bootstrap` (which may fail here, and is
`ManagedSetup` there): the preflight scan, the second look at the chosen proxy, the
port scan. A refused call ends at once. `wasUp`, `wasDown`, `wasFree` and `wasTaken`
record what has been true since the scan in progress began; the properties compare
the decision with them, since with a moving world no decision can be right about
one moment. Ports are `1 .. LastPort`, so that the end of the range is reached.
`ssh -G`, `process_check` and the remote checks of `doctor` pass or fail freely.

### Managed setup

A thread runs one of the three operations at a time. `op[t]` holds its inputs, its
session's host key, its key pair and `_SetupArtifacts` (`made`), and the copies of
known_hosts and authorized_keys between reading and writing them back. Going
forward there is an action per call of `_run_bootstrap` that touches shared state;
`StepFails` is the exception any of them may raise, and the failures that leave
something behind are actions of their own: a key generation whose files are not
removed, a directory made and not recorded, an installation whose answer is lost.
`Abort` enters `_rollback`, whose parts (line, file, directory, key pair, host
entry) are undone in the code's order; a part that fails sets `undo` and the next
one is tried all the same. `RaiseFailure` answers.

A known_hosts file is a count per entry, because the rollback removes one line of
possibly several equal ones; authorized_keys is a set of lines, one of which stands
for all its owner has there. The owner is a writer like the setups: `OwnerEdits` adds the
line (and directory and file where they are missing) or takes it out, in one step,
whenever it likes. `intent` records what the owner did last, `op[t].behind` that a setup
holds a copy, or the finding that the file is empty, from before that (`CopyPcs`: between
the reads at `ssh_bootstrap.py` 142, 168 and 192 and the rename at 347 or the removal at
197). A setup that is behind loses the owner's edit when it writes (`Overtakes`, `intent`
becomes "overtaken"): the code does that, and nothing in it could tell. The owner touches
no line of RAB's, removes neither file nor directory, and does not save an old copy over
what a setup has written meanwhile. A fingerprint stands for its key. One account per
server is enough, since two accounts of one server share only the host entry, as
two setups of one account do. Left out: permissions, temporary files, the proxy and
port searches (they may fail), and calls refused before the first handshake.
`Rotate` lets a server change its key at any time. `Faults` selects "crash" (the
process of a setup dies) and "lost" (a rename takes effect although SFTP reports an
error). `accepted`, `issued`, `quiet` and `intent` are history variables, and `behind` is
a history field.

## 3. What TLC checks

| Run | Instance | Shows |
|---|---|---|
| `registry` | 1 profile, 2 request threads, Main, 3 workers | `OneLiveWorker`, `StopIsAlone`, `StopMarkOwned`, `ExitedMeansExited`, `OwnLockNeverBlocks`, `ShutdownAccountsForAll`, the refinement `ImplementsProfileFiles`, and the inductive `IInv` |
| `registry_live` | 1 profile, 1 request thread, Main, 2 workers, fair | `StopIsObeyed`, `StopMarkDropped`, `ShutdownDrains` |
| `bridge` | 2 actors, 3 tunnels, 2 ports, no faults | `SupervisorProfileFresh`, `ProcessOnRecord`, `OneProcess`, `StoppedMeansStopped`, `DeletedLeavesNoProcess` |
| `bridge_faults` | 2 actors, 2 tunnels, 2 ports, all faults | `EvidenceFitsProfile`, `EvidenceOutlivesProcess`, `OnlyStaleSessionsEnded`, `DeleteConfirmsRelease`, the refinement `ImplementsProfileFiles`, and the inductive `BInv` |
| `bridge_live` | 2 actors, 1 tunnel, 1 port, crash and wedge, fair | `StopEnds` |
| `setup` | 2 setups, the owner, 1 server, 1 host key, 2 key ids, no names, "lost" | `IssuedKeysKept`, `UserLinesKept`, and the inductive `SetupInv` |
| `setup_seq` | 1 setup at a time, 1 server, 2 host keys, 3 key ids, 2 names, "crash" | `ProfileUsable`, `QuietFailureLeavesNothing`, `PasswordAfterConfirmation` |
| `identity` | 2 pids, 5 processes, 2 boots, local or remote | `OnlyOwnSignalled`, `AnswerMeansOwn`, `StoppedMeansReleased`, and the inductive `OInv` |
| `discovery` | 2 candidate proxies, 3 ports, scans of up to 2 | `ChoiceUnambiguous`, `HealthyAfterBootstrap`, `PortJustified`, `SuggestionJustified`, `FirstHealthySaved`, `DoctorZeroMeansAll`, and the inductive `DInv` |
| `orphan`, `session` | 1 actor, 1 tunnel, 1 port | statements of the documents the code does not meet (section 5) |
| `setup_lost` | 1 setup, 1 server, "lost" | the same, for managed setup |

The type invariant `TypeOK` of a module is a conjunct of its inductive invariant
(`IInv`, `BInv`, `SetupInv`, `OInv`, `DInv`) and is checked with it.

Bounds. Workers and Tids bound how many worker threads and ssh processes a
behaviour may create. Three workers give a predecessor, a current worker and a
racing successor; three tunnels give a legacy one, its replacement and a further
reconnect. Two actors are a holder of the lock and a competitor; two ports let an
update move the profile. When the tunnels are used up, `start_managed` only fails,
which it may do anyway. Keys bounds the key generations of a behaviour: two let two
setups race with keys of their own or one reuse the other's, three let a profile be
followed by a failure and a further setup; when they are used up, generation fails.
`setup` has no profile names, so its setups are bootstraps and confirmations: the steps
beyond do not touch what it is about. It takes states as equal (`VIEW UpToOutcome`) when
they differ only in what no later action and none of its properties asks for: how a setup
will answer, which files a lost key pair left, the kind of call, the fingerprint and the key
to reuse once they are settled, the receipt once the account is rolled back, and `behind`
once the edit is overtaken. Five processes on two pids let both pids change
hands twice during one call; two boots let a marker outlive its boot. In `discovery`
the range ends within reach of every scan. An operation of `OwnedProcess` and
`Discovery` that is over is the end of a behaviour, so these runs do not look for
deadlocks. The theorems of section 4 do not depend on any bound.

`ProfileUsable` and `QuietFailureLeavesNothing` are claimed of setups that do not
overlap. Concurrent ones can take each other's host entries and lines: known_hosts
(`host_key_store.py` 48-50, 55-60) and authorized_keys (`ssh_bootstrap.py` 142-155,
168-179) are read, changed and replaced without a lock, and TLC finds a returned
profile without its host entry as soon as there are two setups.

`DeleteConfirmsRelease` belongs to the run with faults: a live tunnel with a remote
identity and no supervisor, the case in which `delete` stops a process and confirms
the release, is what a crash leaves behind.

`Managed` is FALSE in every run: a managed profile cannot be deleted, which only
removes behaviours.

Fairness. In `RuntimeManager`, every call in progress and every worker keeps
running: their waits have timeouts and the threads are ordinary ones. In `Bridge`,
an actor inside an operation goes on, because every command it runs has a timeout.
Nothing is assumed of users, the network, the remote host or other listeners; in
particular nothing obliges a remote command to succeed, so that a bridge becomes
READY is not claimed.

Every property is also run against a mutated definition (the operators marked
`Mutant`), which has to violate it: dropped second check, dropped `finally`,
snapshot taken for the finished event, evidence dropped after a timeout, update
without the lock, and so on.

## 4. What is proved

The proof modules follow the same argument: an inductive invariant, one lemma per
conjunct with one step per action or group of actions, and the properties as
consequences.

**Registry** (`RuntimeManagerProofs`), for any sets of profiles, threads and
workers, assuming only that the names of threads, workers and the two tokens
differ (`ConstantsDisjoint`). `IInv` says that a live worker is the registered one
of its profile, that a stop mark has exactly one owner, that a lock holder is
inside its locked block, and that shutdown has reported, waits for or still has
on its list every live worker. `OneLiveWorker` alone is not inductive: it needs
the registry to know every live worker; `ShutdownAccountsForAll` needs the last
part. Theorems: `Invariance`, `TypeCorrectness`, `SingleWorker`, `StopExclusion`,
`NoLeakedStopMark`, `TruthfulStop`, `NoSelfBlocking`, `ShutdownAccounts`.

Of the liveness of the registry, the part that needs no fairness is proved too:
`WorkersFinish`, `StopsFinish` and `ShutdownFinishes` give each worker that was told to
stop, each stop call and each visit of shutdown a number of steps it has left
(`WorkerStepsLeft`, `CallStepsLeft`), which every own step lowers and no other step
raises; shutdown takes each worker off its list once. With threads that are scheduled,
`StopIsObeyed`, `StopMarkDropped` and `ShutdownDrains` follow when no step is blocked,
which is what TLC checks.

**Bridge** (`BridgeProofs`), for any sets of actors, tunnels and ports, assuming
`BridgeConstants`. `BInv` says that the lock is held exactly inside a locked block,
that a supervisor's profile and tunnel are the ones on disk, that `acquire` has an
unrecorded process exactly between start and save, with no evidence on disk, and
that what it is about to drop matches no running process. For every combination of
faults: `Invariance`, `TypeCorrectness`, `EvidenceFits`, `FreshProfile`, and the
action properties `EvidenceOutlives`, `OnlyStale`, `ConfirmedRelease`.

`EvidenceOutlives` also says how a running process can get lost, whatever fails: in one
place only, when the `acquire` that started it ends before it has recorded it
(`LeftBehind`: a crash there, a failed write, a process that survives the kill). It is
inductive relative to `BInv`, and from it follow `OnRecord`, `SingleProcess`,
`TruthfulStop` and `CleanDelete` for every behaviour in which no running process is left
behind there (`NoneLeftBehind`), with crashes and failures anywhere else. The run
`orphan` shows that this hypothesis is needed. `FaultFree` shows that it always holds
when `Faults = {}`, which is the case the run `bridge` checks.

`StopsSoon` is the part of `StopEnds` that needs no fairness: a supervisor that was asked
to stop has `StepsLeft` steps to go, every step of its own lowers that number, and nothing
else moves it or takes the request back. It was model-checked on the instance of
`bridge_faults` first, and its registry counterparts on two profiles and two workers.

**Managed setup** (`ManagedSetupProofs`), for any sets of threads, servers, host keys,
key ids and names and all faults, assuming `SetupConstants`. `SetupInv` says that
every host entry on disk or in a thread's copy was confirmed, that a generated key has
one owner until it is issued, and that every copy of authorized_keys about to be
written has the owner's line as the owner left it, or is marked as behind (`LineInv`).
`UserLinesKept` is not inductive without that, because it says nothing of the copies.
Theorems: `Invariance`, `TypeCorrectness`, `PasswordSafe`, `KeysKept` and `LinesKept`.

`LinesKept` does not say that the owner's edits are safe: authorized_keys is replaced
without a lock, and an edit made between a setup's read and its rename or removal is lost.
It says that this is the only way. Nothing else a setup does, alone or among others, undoes
an edit: neither an installation or rollback that fails half way, nor the removal of a file
that a setup made and the owner has used since.

**Setups that do not overlap** (`SetupSequenceProofs`). `ProfileUsable` and
`QuietFailureLeavesNothing` fail when two setups rewrite known_hosts or authorized_keys at
once, so they are proved for behaviours with `[]Alone`: at most one setup under way at a
time, in any threads, on any servers. The instance of `setup_seq` has one thread,
where `Alone` always holds. `SetupInv` says too little for them, because it also holds for
concurrent setups. Three more invariants are inductive together with it:

- `FreshInv`: what a setup has read of a file is what the file still holds, the owner's
  lines in authorized_keys apart, since the owner may edit the file during a setup; the
  host entry and the line it has found or made are still there.
- `UsableInv`: besides `ProfileUsable`, a setup that has made a host entry, a file or a
  line, or is about to, found no profile that needs it (`Spares`); so its rollback takes
  nothing away from one. This holds under all faults: `UsableProfiles`.
- `QuietInv`: the generated key of a setup that may still fail quietly is authorized
  nowhere but where its receipt says, until the rollback has been there, and its files are
  gone once the rollback has been there (`Traceless`). `QuietFailures` needs that no
  answer is lost; the run `setup_lost` shows why.

TLC checked the three on two threads, two servers and two keys, restricted to states with
`Alone`, before they were proved.

**Refinement** (`FilesRefinement` in `RuntimeManagerProofs` and `BridgeProofs`): both
specifications implement `ProfileFiles`. Every action is shown to be a `Take`, `Work`,
`Give` or `Exit` of the contract or to leave it alone. For this `IInv` also says that
whoever is inside its locked block holds the lock and that there is no evidence
without a profile (`HoldInv`).

**Process identity** (`OwnedProcessProofs`), for any set of pids and any bounds,
assuming `OwnedConstants`. `OnlyOwnSignalled` is not inductive by itself: `OInv` adds
that start times within a boot are never given twice, that RAB's process does not come
back during a call, and what each passed test has established about the process that
has the pid now: RAB's, none, or one younger than the test. Theorems: `Invariance`,
`SignalsOwn`, `TruthfulOwner`, `TruthfulStop`.

**Discovery** (`DiscoveryProofs`), for any number of candidates, any port range and any
scan length, assuming `DiscoveryConstants`. `DInv` says that what a scan has left behind
either passed or was down, that every port behind the search was taken, and that a
doctor report so far is all passed or has a failure. Theorems: `Invariance`,
`UnambiguousChoice`, `FreshProxy`, `FirstFreePort`, `NextFreePort`, `FirstHealthy`,
`HonestDoctor`.

Only model-checked: the liveness properties `StopIsObeyed`, `StopMarkDropped`,
`ShutdownDrains` and `StopEnds`, because fairness and ENABLED are beyond the prover.

## 5. Where code and documents disagree

- `orphan`: `acquire` starts ssh (`tunnel.py` 145) and records it only after the
  identity checks (189). If RAB dies in between, the process runs on without
  evidence, and a later disconnect answers STOPPED. The PRD (234) says every
  started tunnel can be disconnected.
- `session`: a supervised stop drops the evidence once the local process is gone
  (`tunnel_supervisor.py` 314) without asking whether the remote session released
  the port, as `delete` does. README.md (51) promises to preserve unresolved
  remote-session evidence.
- `setup_lost`: the rename over authorized_keys takes effect and SFTP reports an error.
  `install_public_key` returns no receipt, the rollback skips the account, and the key
  stays there without SETUP_ROLLBACK_FAILED (`setup_service.py` 284-294).

## 6. Not modelled, and the plan

Not modelled: the web console. Its polling can be composed with `RuntimeManager`, but
one client, one request thread and two workers already give three million states, out
of reach for the liveness that matters there (every action ends), and smaller instances
have no restarted worker to tell from the old one. Races known there: a list requested
before an action and received after it overwrites the newer state (`DashboardView.vue`
73); a connect that attaches to a worker about to stop sees no final state and polls
until its time is over (`useRuntimeControls.js` 41); a late answer to `prepare` shows
the fingerprint of a host that was edited away (`useManagedSetup.js` 62), which the
server then refuses. Also left out: a profile deleted while `list_status` runs, which
fails that list (`runtime_manager.py` 162); failing thread creation; clock changes and
replaced executables (`process_identity.py` 122, 131); failing remote tools
(`remote_probe.py` 310); the read-only `status`, `list_status` and `wait`. Out of scope:
routing, schemas, printing, redaction, `HealthReport` (unused), validation tools.

Modelled, but without a property: a `.ssh` directory or the files of a failed key
generation that stay behind unreported (`ssh_bootstrap.py` 143 and 305, `ssh_key_store.py`
178); workers that `shutdown` does not report when it ends with an exception.

A failed ownership check, for instance a timed-out ssh, is reported as a port "owned by
an unknown process" (`tunnel.py` 27, 135) and ends supervision: in `TunnelManager` this
is the conflict outcome of `AcqVerify`, and no property is about its wording.

Further work:

1. How old a published READY may be, once the documents say so.
2. `Bridge` over `OwnedProcess`: the ownership test of `BridgeState` (`Verifiable`) as
   a refinement of the validation script.
