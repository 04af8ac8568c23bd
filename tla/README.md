# TLA+ models of Shaurma Launcher

Shaurma Launcher is a Minecraft launcher: a small Go executable (`shell/`) that
loads two Go libraries, the updater (`updater-backend/`) and the backend
(`backend/`), and a Svelte frontend. This directory models its core logic in
TLA+: how the launcher replaces its own files and survives doing so, how it keeps
control of the game servers it runs, what a friend may do to such a server from
afar, how a build received from a friend becomes an installed one, and how an
official build is kept equal to the manifest of its server. The modules
are checked on small instances with TLC and proved for all instances with TLAPS.

Source references are relative to the root of the repository without the leading
`src/`; `install.go` is `updater-backend/internal/install/install.go`,
`engine.go` and `state.go` are in `updater-backend/internal/newupdate/`,
`newflow.go` and `core.go` in `updater-backend/internal/core/`, `process.go`,
`recover.go` and `api.go` in `backend/internal/servers/`, `host.go` and `client.go`
in `backend/internal/remotehost/`, `store.go` is `backend/internal/remotectl/store.go`;
`share_shaurma.go`, `app_shaurma_full.go`, `app.go` and `builds.go` are in `backend/`,
`share/` is `backend/internal/share/`, and `runner.go`, `plan.go`, `state.go` and
`manager.go` are in `backend/internal/sync/` (the `state.go` of the updater is called
so where the update is the subject).

## 1. Inventory

| Component | State it keeps | Operations | Talks to | What is hard | Correct when |
|---|---|---|---|---|---|
| File replacement (`install.go`) | a file, its `.previous`, `.new`, temporary names | Apply, replaceFileRoot, copyFileRoot, Rollback | the file system | a call fails because a handle is held; a crash between two renames | never half-written, never lost, reports are true |
| Two-phase update (`engine.go`, `state.go`, `newflow.go`, `manifest.go`) | `update-state.json`, `launcher-version.json` and its `.previous` | Open (commit, count, roll back), Check, Apply, AfterApply | file replacement, the health report, GitHub | every file is written separately and a crash may fall between any two | a bad version is left and stays out; the way back exists during a trial |
| Shell update phase (`shell/updater_phase.go`, `bootstrap.go`) | installed and staged files | apply `.new`, swap itself, repair, load the libraries, hand over | updater, backend, itself after a restart | the running exe and loaded libraries cannot be replaced; several restarts per update | the launcher opens as one whole version |
| Health report (`backend/update_health.go`) | `update-health.json` | write the version after 20 s | the updater of the next start | stale reports | only a version that ran is confirmed |
| Release policy (`updater-backend/trust`) | keysets, floor, failed version | CheckUpdate, Required | the updater | several rules at once | no failed or older version unless required |
| Supervisor (`shell/supervisor.go`) | recent short runs | restart, pause, safe mode | the shell process | a restart for an update must not look like a crash | crash loops end in safe mode |
| Update lock (`engine.go` Lock) | `.update.lock` | take, remove after 30 min, release | a second updater | a slow holder is taken for a dead one | one updater at a time |
| Downloader (`internal/download`) | partial files | download, resume, switch mirror | network | resume of the wrong bytes | only whole, verified files |
| Game servers (`process.go`, `recover.go`) | `Manager.running`, `server_runtime.json`, one java process each | Start, Stop, killProcess, watchProcess, adoption | the API, java, the next launcher | goroutines overlap; the launcher dies while java lives on | no live server is forgotten; stops end |
| Worlds, backups, networks of servers (`api.go`, `worlds.go`, `network_api.go`, `autobackup.go`) | world folders, archives | back up, restore, change the core, rename, start a network in order | game servers | work on the files of a live server | files change only at rest |
| Remote control channel (`host.go`, `client.go`, `remotechan`, `remotepipe`) | `Host.seenIDs`, `Host.sessions`, `Client.chs`, lines on their way | send over the channel or the relay, recognise repeats, start, stop, console, flush | rights, game servers, the VPS | repeats and reordering by the VPS; a channel replaced while the older one ends; handlers and flushers overlap | a command acts at most once; the console stream is in order and without silent gaps |
| Remote control rights (`store.go`, `remote_control_shaurma.go`) | grants, pause | give, pause, purge, authorize | the list of friends | rights change while commands and lines are on their way; the list and the book of rights are two files | no line of the console after the right to it is gone |
| Peer-to-peer sessions (`p2p/`) | tickets, lobby, connections | host, join, reject, gate | signalling, game | a ticket used twice or after it was revoked | one live session per ticket |
| Sharing of builds (`share/`, `share_shaurma.go`) | stage folder, `journal.json`, `manifest.json`, `install.json` | offer, fetch, resume, install, recover, discard | peers, the lists of builds and servers | the journal ahead of the bytes; a crash at any call of an installation that moves folders | what is registered is whole; what was received is never lost or installed twice |
| Synchronisation of builds (`sync/`, `app_shaurma_full.go`) | the folder of the build, `install-state/<pack>.json`, archives, `Manager.active` | plan, download in two queues, unpack, remove orphans, pause, cancel, delete, launch after it | the manifest on the server, the user, the game | sessions overlap and share one state file; a crash between a file and its record; the user changes files | records never say more than the disk; a complete build has what its manifest names; what is the user's stays |
| Friends, chat, presence (`social/`) | outbox, friend list | send, retry, poll | service | a timeout after the service accepted | no message twice or lost |
| Accounts (`shaurmaid/`, `access/`) | tokens | refresh, sign out | service | two refreshes at once | one valid token |
| Content, Java, packs, game launch (`store/`, ...) | installed content | install, repair, launch | network, disk | long I/O | out of scope here: one request at a time |
| Windows and frontend | user interface | | the backend | | out of scope |

The first four rows, the policy, the game servers, remote control, the receiving
side of sharing and the synchronisation are modelled.
`PROJECT.json` lists every component with its status and every hazard with the
properties that cover it.

## 2. Modules

```
FileOutcomes  <- FileContract  <= InstalledFile <- MCInstalledFile
     ^                               ^------------ InstalledFile_proofs
     +--------- LauncherUpdate <- MCLauncherUpdate
                   |     ^-------- LauncherUpdate_proofs <- LauncherFiles_proofs
TrialLedger <=-----+
     ^------- MCTrialLedger, TrialLedger_proofs

ServerProcess <- MCServerProcess, ServerProcess_proofs
RemoteControl <- MCRemoteControl, RemoteControl_proofs
SharedBuild   <- MCSharedBuild,   SharedBuild_proofs
PackSync      <- MCPackSync,      PackSync_proofs
```

`<-` is EXTENDS, `<=` is "is implemented by", shown by an INSTANCE with a
refinement mapping.

**FileOutcomes** says, as sets of pairs (file, backup), what a replacement, a
rollback and the completion of a staged file may leave behind, finished or cut
short. It is the interface between the next two models: `InstalledFile` is shown
to produce nothing else, `LauncherUpdate` uses these sets for its steps.

**InstalledFile** is one file under the code that moves bytes into it, one
file-system call per step. `fs` maps slots to contents: `dest` the real name,
`previous` `.previous`, `src` the downloaded file, `tmp` the temporary name of
copyFileRoot, `aside` `.rollback-tmp`, `new` `.new`. `pc` is the next call of the
operation in progress. `Fresh`, `Expire`, `Clear`, `Backup`, `Place`, `Restore`
are the steps of replaceFileRoot, `Copy*` of copyFileRoot, `Rollback*` of
Rollback, `Stage*` of the locked branch of Apply, `Complete*` of
applyPendingUpdates in the shell. Every call may fail, as the code expects from
an antivirus, and the process may die before any call. `faults` counts failing
calls; `was` and `incoming` remember what the operation found and brings.

**FileContract** is the same file seen only between operations.
`ImplementsContract` maps its `file` to `dest` when no operation runs and to what
the operation found while it runs.

**LauncherUpdate** is the whole update over any number of starts. `disk`,
`backup`, `staged`, `manifest`, `manifestPrev`, `ledger` (`update-state.json`) and
`health` survive a crash; `proc` is the memory of the running process and `pc`
the function it is in:

| `pc` | code | actions |
|---|---|---|
| off | no process | Launch |
| libs, shell, entry | applyPendingUpdates, applyShellSelfUpdate, launcherIncomplete | ApplyPending, ApplyShell, Enter |
| bootstrap | bootstrapAll | BootstrapDone, BootstrapFails |
| updater | core.Run, newupdate.Open | OpenQuiet, OpenCommit, OpenCount, OpenGiveUp |
| forget, commit | the rest of a commit: the previous manifest goes, the state is saved | ForgetManifest, SaveCommit |
| rollback, restore, giveup | the rollback branch of finishPreviousUpdate, and the save after it | RollBack, RestoreManifest, SaveGiveUp |
| check | Check, Diff, BeforeApply | Accept, Decline |
| apply | install.Apply, one component per step, the manifest last | ApplyOne, ApplyFails, WriteManifest |
| record | AfterApply | Record |
| failed | the error page of the updater | Retry, CloseUpdater |
| handover, loading, backend | transitionToBackend, loadBackendAndShowMain, the 20-second report | HandOver, HandOverLoaded, LoadBackend, MarkHealthy, ManualUpdate, Quit |
| fatal | the shell cannot go on | Quit |

A version is a number, a component's content is the image `Build[v][c]`. Archives
(the frontend) are one step: unpacked or failed. Signatures, keysets and roll-out
fractions are reduced to `Acceptable` (is the version newer, or required, and not
the failed one) and to the outcome "no valid keyset".

**TrialLedger** is the abstract promise of `update-state.json`: a version on trial
is confirmed, given up after `Limit` starts, or replaced by one at least as high.
`LedgerPromise` says LauncherUpdate implements it.

**ServerProcess** is one game server. `java` is what each of its processes does, `entry`
is `Manager.running[id]` (0: absent), `status` the status in the processInfo, `closed`
the runs whose channel `exited` is closed, `record` the run `server_runtime.json` names.
Each goroutine has its place: `start` (Ask: the IsRunning check of the API; Begin: the
first lock of Start; Register: the second lock; Spawn: cmd.Start; Announce: status,
record, watcher), `stop` (AskStop, StopWaited, Kill, StopWoken, StopGivesUp), `watch`
(Notice: the lock of watchProcess or finalizeAdopted; Mistake: an adopted process that
lives but cannot be looked at; Bury: the rest, record and channel), `timers` (the
three-second timer of killProcess outside Windows). A step runs from one lock to the
next, because what happens between is visible only through the lock. `Crash` ends the
launcher and all goroutines but no java; `Boot` is AdoptOrphanedServers when it takes
the recorded process over, `BootAlone` when it takes nothing over: because the record is
stale, or because it cannot be read or its live process not be recognised
(`recover.go:132-156`). Announce writes the record, or fails to, which the code ignores
(`Recorded`). `BeginFileWork` is the check by which RestoreWorldBackup, ChangeServerCore
and RenameServerFolder begin, and by which DeleteServerWithFiles decides that there is
nothing to stop. A Stop that finds nothing to do returns without a step. The port check
of StartServer is left out because startAutoMembers starts servers without it.

**RemoteControl** is a friend and one server of the owner, seen from both
launchers. The owner's rights are `isFriend`, `since` (Friend.Since), `rights`,
`added` (Grant.Added), `paused`; `purging` and `ending` are second halves of an
operation that are still to come (RemoveFriend of the book after Remove of the
list, EndAll after a change). A command is in `relayed` when the VPS has it, which
may deliver it any number of times, at any time and in any order, or in
`toHost[g]` of a direct channel, which delivers in order until it ends. `current`
is `Client.chs`, `reading` and `serving` are the loops at the two ends of the
channels. `seen` is `Host.seenIDs`; `task` is how far the handler of a command has
come, one step per lock it takes. A session in `sess` carries the tag of the route
it was opened over, its expiry and its pending lines; `held` is what a flusher took
under the lock of the Host and sends without it; `due` are lines in the server's
buffer whose OnLine call is still to come. A line is the place at which it was printed;
`number` is the number it has in its own buffer, by which the friend tells new from old,
and `base` how many lines went to earlier buffers (a start that fails replaces the buffer,
`process.go:207-216`, StartFails).

| Part | code | actions |
|---|---|---|
| rights | SetGrantFull, SetPaused, Remove and RemoveFriend, the friend's removal, Add | SetGrant, SetPaused, RemoveFriend, PurgeRights, FriendLeaves, Befriend, EndAll |
| channels | remoteConnectSecure, UseChannel, ServeChannel, dropChannel, dropByTag | Dial, Connect, ReadingEnds, ServingEnds |
| commands | call, do; handle, fresh, remember | SendDirect, SendRelayed, Receive |
| handlers | Authorize, doStart and doStop, doOpen, doExec, doClose | Authorize, StartOrStop, OpenConsole, Execute, CloseConsole |
| stream | the server's buffer, notifyLine, OnLine, flushOne, sendLines, applyOut | PrintLine, StartFails, OnLine, Expel, Take, Put, FlushDone |
| VPS | the session it relays ends | RelayEnds |

The variable `limit` never changes. It is chosen at the beginning from `Limits`, and
says how far this behaviour may go (clock, lines, changes of the rights, channels,
requests). One run thus covers several small instances, each with room for another
part of the system; the proofs do not use it.

**SharedBuild** is one transfer of a build or of a server, on the receiving side.
On the disk: `tree[p]` is the folder `p` with its complete files (`Stage`, or a
folder it may be installed in), `part` the `.part` files, `journal`, `manifest`,
`card`, `marker` the four files of the stage, `book` what the lists of builds and
servers know. In memory: `mem`, `dirty`, `fails` of the Downloader, `gone` (nobody
answers any more), and `pc`, the next call of the goroutine of the transfer or of
shareBoot. The files in `Big` are fetched one by one (fetchBig), the others in bundles.

| Part | code | actions |
|---|---|---|
| RecoverInstall (`share/install.go`) | read the marker; remove a half copy; move back; remove the marker | RecoverNothing, RecoverDone, Recover, Wipe, Back, Clear, RecoverFails |
| shareBoot, runShareIn | look at the stage, fetch or install at once | BootKeeps, BootRemoves, InstallOffline, NoTransfer |
| Downloader.Run (`share/client.go`, `share/journal.go`) | re-hash, fetch, verify, drop, persist | Prepare, NoRoom, Grow, Finish, Reject, Lose, FriendGoes, GiveUp, StopFetching, Persist, Complete |
| finalizeShareIn | marker, MoveTree, register, mark, remove the stage; undo | Begin, Move, Save, MarkInstalled, Clean; BeginFails, MoveFails, SaveFails, Undo, UndoFails, WipePack, Drop |
| user | start the launcher, accept, discard | Boot, Accept, Discard, DiscardUnderway |
| the end of the process | at any call, or inside one that is not atomic | Kill, PowerCut, PowerCutAfter, WipeCut, BackCut, PrepareCut, FinishCut, MoveDies, UndoCut, WipePackCut, CleanCut |

MoveTree is a rename, or across disks a copy followed by a removal: `Half` gives
every state it may be interrupted in. `Less` gives what an interrupted removal
leaves. The contents of a file are only "good" or "bad", and a `.part` is "good"
when it is a right beginning. What comes for a file may be right, wrong (`Reject`, counted
by `maxHashFails`) or lost without being counted (`Lose`: too many bytes, a bundle that
breaks off, other bytes from the CDN). `GiveUp` is the end that `retry` finds by itself
when nothing comes any more, `StopFetching` an end that somebody or a full disk asks for.

**PackSync** is the synchronisation of one official build. `disk` is the folder of the
build, path by path, each whole or half of one content; `zip` the archives that
wait in `.override-archives`; `saved` is `install-state/<pack>.json` (stage,
manifest, records); `run[i]` is what a goroutine of DownloadPack holds: the manifest
and the records it read, its place `at`, its queues, the archives and gifts still to
come, the folders it made and the flags of Pause and Cancel. `active` is
`Manager.active`, `launch` where LaunchInstance is. Files that are installed only
when missing are called gifts. A record is the stamp of its entry, so `recs[k] >=
m[k].at` is "not newer" of isNewer. `Listing` gives the files of a folder's content with
their sizes, all that the unpacking asks of a folder it finds (`Found`, `Fits`): when every
file of the archive is there with its size, whatever else is there, nothing is unpacked.

| Part | code | actions |
|---|---|---|
| DownloadPack | manifest, records, WaitFor, Manager.Start | Ask, Fetch, FetchFails, Load, WaitFor, Refused, Start |
| plan (`plan.go`) | what to fetch, what to give, what is an orphan | operators Tasks, Gifts, Gone, Foreign, Protected, Orphans, used by Start |
| queues | downloadTask, markTaskComplete; the end of both | Land, TaskFails, Note, QueuesHalt, QueuesFail, QueuesEnd |
| gifts | the loop over OnMissingTasks | GiftLand, GiftsHalt, GiftFails, GiftsEnd |
| archives | extractOverrideFolder | Unpack, UnpackFails, ArchiveGone, PacksHalt, PacksEnd |
| end | removeOrphans, StageComplete | Removes, Leaves, Completes |
| others | Pause, Cancel, DeletePack, LaunchInstance; the user, the server, a crash | Stop, DeleteFiles, DeleteState, Play, PollSees, PollGivesUp, PollTimesOut, GameEnds; Touch, Publish, Crash |

`story` never changes: it is a case from `Cases`, which says which manifests appear,
what the user touches, whether the game is started and how many sessions are asked
for. One run thus covers several small histories; the proofs hold for all of them.

Operators marked `mutant` are not part of the models. Each is the
mapped definition that follows it with one mistake (a dropped check, a swapped
order); replacing the definition by it makes TLC report the property that is
listed with it in `PROJECT.json`.

## 3. Ghosts and exclusions

A property that says "unless" names the trouble it excludes, and a ghost variable
records that trouble when it happens, so the exclusion is no wider than the
cause. The excluded cases are real behaviour of the code (section 7).

* InstalledFile: `faults < 3` in CopySurvives and ReplaceReports. With rename,
  copy and restore all failing in one round, the next round of the retry loop
  deletes the only copy.
* LauncherUpdate: `harm` has one word per kind of trouble (`cut`, `died`, `lost`,
  `stuck`, `unsaved`, `keyset`, `bootstrap`, `overlap`, `stale`), defined above
  `Harm`; `proved` holds the versions whose own backend ran 20 seconds, `banned`
  every version recorded as failed. `died` is the end of the process outside an
  installation and a rollback, a commit in progress included. RollbackReady speaks of a
  trial that no report has confirmed: a process that dies in the middle of a commit leaves
  the trial on record without `.previous`, or without both parts of the way back, but the
  report is still there, and the next start commits again.
* RemoteControl: `acted` counts how often a command took effect, `mark` is how many
  lines had been printed when the console was taken from the friend, `lost` the
  lines the friend does not get for one of five reasons: older than the backlog, pushed
  out of a full queue, too long for a chunk (`host.go:570-573`: a row of such lines at the
  head of a flush goes without a trace), lost because sending failed, or taken for old by
  their number after a new buffer (`client.go:270`). Lines too long and lines
  taken for old go silently, neither side counts them as skipped: NoGap says that there
  is no further reason. `givenNow` says that the owner gave the rights in the present
  friendship; without it, a grant counts only within the tolerance `StaleSkew` that
  the code itself allows. That the memory of commands is never emptied for its size is
  an assumption on the constants (`MemoryIsLargeEnough`, section 7).
* SharedBuild: `owed` is true from the moment a transfer is complete until it is
  registered. `trouble` collects `torn` (the stage holds part of the tree while the
  rest is only elsewhere: a crash or an error in the removal that ends a MoveTree
  across disks), `stuck` (a recovery, an undo or a removal failed), `swept` (the
  removal of the stage was cut short), `power` (the power failed while the journal
  was complete or a marker present, or harmed a registered folder or the lists, which
  nothing flushes), `discarded` (the stage was erased under a
  transfer that had not stopped after three seconds), `unasked` (a recovery met a
  server that is registered while its marker says it is not). Each property names
  the words it excludes or tolerates. TransferEnds excludes by name what `retry` never
  ends: a friend who is gone while a big file is still to come (section 7). After a power
  cut that harmed what was complete nothing further goes wrong in the run (part of the
  bound `MaxHarm`).
* PackSync: `excused` holds the paths the synchronisation does not answer for: the user
  wrote there, a folder was cut short while a record or the on_missing rule keeps the
  next plan from looking into it, an orphan was in use. A path leaves the set when it
  is written anew or looked into, or when a plan finds it missing. `seen` is the newest
  manifest a session has begun with and `overtaken` says that one began with an older
  manifest than that; RecordsBacked and CompleteIsCurrent speak of histories without
  `overtaken`. What both say of a folder is what the code sees to, that every file of
  the archive is there with its size (`Holds`); that the folder is the one of the manifest
  is CompleteIsManifest, which fails.
* ServerProcess: `raced` (a start registered over another), `unrecorded` (a live process
  may have no record of use: the launcher died before it wrote one, could not write it,
  or wrote it while the watcher of an older run was still to remove the file; or a
  launcher at start could not read it or not recognise the process), `mistaken` (a live
  adopted process was taken for dead because it could not be looked at). No document
  promises that a record survives these, so they are exclusions and not findings:
  AliveIsKnown and AliveIsRecorded say that there is no other way. ClosedOnce,
  DeadIsNoticed and StopReturns exclude nothing.

## 4. Runs

| Run | Shows |
|---|---|
| `installed_file` | One file through all operations with crashes anywhere and up to three failing calls: NeverTorn, CopySurvives, ReplaceReports, the refinement ImplementsContract, and CallEnds |
| `launcher_update` | Three releases over any number of starts: RollbackReady (the way back exists during a trial), BackendIsManifests and WholeVersion (what opens is what the manifest says), FailedStaysOut, CommitEarned, the refinement LedgerPromise, and the liveness TrialEnds and BadBackendLeaves |
| `trial_ledger` | The abstract ledger with five versions: one failed and one highest version cover every version that ever failed |
| `server_process` | Two starters, one stopper, two java runs, any number of launcher restarts: AliveIsKnown, AliveIsRecorded, WokenAfterTheEnd, ClosedOnce, and the liveness DeadIsNoticed and StopReturns |
| `remote_control` | One friend and one server, commands by channel and by a VPS that loses, repeats and reorders: ActsOnce, NothingAfterLoss, ShownInOrder, NoGap, NoOrphanSession, ChannelKept, and the liveness ConsoleCloses |
| `shared_build` | One build or server through fetch, installation, recovery and discard, with the process or the power failing at any call and a friend who sends wrong bytes, loses answers or goes: RegisteredWhole, FilesSurvive, NoLeftovers, InstalledOnce, and the liveness TransferEnds |
| `pack_sync` | Seven histories of an official build with two sessions, manifests published at any time, pause, cancel, removal, a crash or failure and a change by the user: RecordsBacked, CompleteIsCurrent, GiftsKept, and the liveness RunEnds and LaunchEnds |
| `stale_folder`, `stale_plan`, `restore_live`, `kill_timer`, `server_taken_back` | one statement of a comment each that the code does not keep (section 7) |

### Bounds

* `MaxFaults = 3`: the smallest number with which a file can be lost, so
  CopySurvives and ReplaceReports are checked on both sides of their bound. Two
  images are enough to tell old bytes from new; contents are only compared.
* `Newest = 3`, the second release bad: a trial, its failure, and a version after
  it. Release 3 is required, so both branches of the policy occur. `MaxTrouble = 1`
  puts one crash, one failing call, one missing keyset or one lost file anywhere;
  the same properties also hold with 2 (1.67 million states instead of 129,000).
  Closing the launcher, repairs at start, overlapping trials and stale plans are
  not bounded.
* TrialLedger with five versions: enough for a failed version to be followed by
  several others that fail. Deadlock is not checked there because after the last
  version nothing can begin.
* `MaxRuns = 2`, two starters, one stopper: two runs are enough for a stop, a timer
  or a watcher of one to meet the other, and two starts for an overlap. Launcher
  restarts are unbounded (521,000 states).
* RemoteControl: `Window = 1`, `ReplayTTL = 2`, `Drift = 1`, `StaleSkew = 1`,
  `SessionMax = 2` keep the order of the windows in the code (a command is remembered
  twice as long as it is fresh) on a clock of at most 3, so a command can age, be
  forgotten and come again. `MaxPending = 2` and `Backlog = 2` with up to three lines
  make both overflow; `MaxSessions = 1` with two consoles makes the limit bind. Two
  direct channels: one can replace the other while the older loop ends. Eleven
  instances in `MCLimits` (821,000 states together), one of them with starts that fail.
  `SeenCap` equals the number of requests, so it never binds here.
* SharedBuild: two files (one done, one missing; a copy half done), two folders (a
  second installation has somewhere to go), `maxHashFails = 2` instead of 3,
  `MaxHarm = 2`: a failure and another one during its recovery (1.66 million states). One
  file is big and one comes in a bundle, so a friend who goes is met in both.
  Starts of the launcher, accepts, discards and right, wrong or lost bytes are not
  bounded.
* PackSync: a mod, a folder, `options.txt` and a mod of the user's own; two manifests,
  two sessions, `MaxHarm = 1` (a crash, a failed unpacking or a locked file anywhere)
  and `MaxTouch = 1`. Two manifests give an update, a dropped entry and an entry that
  becomes a gift; a second session gives the wait, the refusal, the pause followed by a
  resumption, and a session that is overtaken. Contents of the folder differ in a size
  or in a file, both ways. Seven cases, 317,000 states together. Fetches, pauses,
  cancels and restarts are not bounded. Deadlock is not checked: when every session has
  ended and the histories are used up nothing need happen.
* The type invariants of InstalledFile, LauncherUpdate, TrialLedger, ServerProcess and
  PackSync are proved (section 5) and not listed again in their runs.
* Runs of the `violation` kind use the smallest constants that show the case.

### Fairness

* InstalledFile: `WF(Step)`, a call in progress goes on; `SF(Expire)`, the retry
  loop of replaceFileRoot has a 15-second deadline, so a loop that keeps coming to
  the check finds it passed in the end. A crash is never owed.
* LauncherUpdate: `WF(Proceed)`, the process runs on; `WF(Launch)` and `WF(Quit)`, the
  user opens the launcher again and closes it in the end (no trial can end for
  somebody who never starts the program again); `SF(BootstrapDone)`, the network is
  not away each time a repair needs it. That the backend reports, that a release
  appears, or that anything fails is not assumed.
* RemoteControl: `WF(Ticker)`, the ticker of Flush comes every 400 ms
  (`backend/remote_control_shaurma.go:104-110`) and its sending returns. No handler,
  channel or owner is assumed to do anything, and ConsoleCloses holds without them.
* SharedBuild: `WF(GoesOn)`: the goroutine goes on to its next call; while the friend or
  the CDN is there bytes come; and when nobody is, and no big file is missing, the clock
  of `retry` runs out (StallTimeout, SenderGone, `client.go:409-414`). `SF(Answer)`: while
  somebody is there, the bytes of some file come to their end again and again, right or
  wrong. The code does not guarantee this, because it counts no answer that is cut short;
  it is an assumption about the friend. He may go at any time, and nothing is assumed
  about right bytes. That anybody stops the transfer (`StopFetching`) is not assumed
  either: no fairness supplies an end that the code does not find by itself. Pauses, of
  either side, are left out: nobody is taken to leave a transfer paused for ever.
* PackSync: `WF` for each session, from the request to the end of Run: requests and
  bodies have time-outs (`pauseStallReader`), retries are counted, and WaitFor ends
  because the session it waits for does. `WF(Polls)`: the poll of
  waitForSyncStartThenFinish has a deadline of 20 seconds. That a download succeeds is
  not assumed.
* ServerProcess: `WF` for each starter, each stopper (its timeouts are clocks) and
  each watcher. Nobody has to start or stop the server, java need not end or
  become ready, and the launcher need not come back.

## 5. Proofs

Checked by `tlapm`, for every value of the constants that satisfies the named
assumptions (`ContentsDiffer`, `MaxFaultsNat`; `NewestNat`, `BuildType`,
`NoneIsNoImage`, `HealthyType`, `MaxTroubleNat`; `VersionNat`, `LimitNat`;
`MaxRunsNat`; `RequestsAreGiven`, `BoundsAreNumbers`, `LimitsAreLimits`,
`MemoryOutlivesFreshness`, `MemoryIsLargeEnough`; `ConstantsAreGiven`;
`SyncAssumption`, `ManifestAssumption`).

* **InstalledFile_proofs**: TypeCorrect, NoTornFile, ACopySurvives, ReportsTruly,
  Implements. NeverTorn alone is not inductive: TornInv adds what each `pc` knows
  of the temporary file. ProgressInv adds, per `pc`, where the old bytes are and
  how many faults brought the call there; CopySurvives, ReplaceReports and the
  step simulation of FileContract all follow from it.
* **LauncherUpdate_proofs**: TypeCorrect, NeverAgain (FailedStaysOut) and KeepsLedger
  (LedgerPromise). Type correctness is not inductive alone: `attempts + 1` stays
  below the limit only because `rollback` is entered at the limit (InHand). That
  one failed version suffices is Covered: every banned version is the failed one
  or strictly below the highest seen, and Check installs neither.
* **LauncherFiles_proofs**: CanRollBack (RollbackReady), OpensItsBackend
  (BackendIsManifests), OpensOneVersion (WholeVersion) and CommitsAreEarned
  (CommitEarned), for any versions, contents and bounds. One invariant CInv serves the
  four and claims nothing once an installation or a rollback was cut short or a write
  lost or skipped (Calm). It says, at each `pc`, which backend is installed (DiskState),
  how far the way back is laid while a version is put in place (Installing), and that a
  watched version has its way back (TrialOn) unless a commit was cut short (TrialOver:
  part of the way back is gone, but the report is there) or a decision about it could
  not be saved: then the next start finds the trial on again though it was confirmed
  (TrialOver) or given up (TrialLost). That last part is what makes a failed save
  harmless: a trial given up and not saved is at its last attempt, so the next start
  gives it up again. Running adds which library the process has loaded, Whole the
  components that are staged or installed one by one. Two more theorems say that a bad
  release is never left in place unwatched (`engine.go:93-128`), the safety core of
  BadBackendLeaves: NeverUnwatched (the version that opens ran its own backend for 20
  seconds, is the first one, or is on trial) and RollbackIsSafe (whoever goes back
  arrives at such a version). Trust adds what is known between the two records that an
  install writes: from the check to the record the manifest before is one that can be
  relied on. Both are stated for `harm` within `keyset` and `died`. TLC finds a
  counterexample to NeverUnwatched with each of the other troubles added: a trial
  replaced by another (`overlap`), a decision that was not saved (`unsaved`), a crash
  between the manifest and its record (`cut`), a new process that does not start
  (`stuck`), a plan from an outdated manifest (`stale`), a backend removed before its
  replacement while a later release returns to the backend before it (`lost`), and,
  after a file was lost, a repair at start (`bootstrap`).
* **TrialLedger_proofs**: LedgerSafe and FailedNeverTriedAgain, the same argument
  without the launcher. KeepsLedger carries it over to any history of
  `update-state.json` the launcher produces.
* **ServerProcess_proofs**: TypeCorrect, NoneForgotten (AliveIsKnown), AllRecorded
  (AliveIsRecorded), WokenLate (WokenAfterTheEnd), NoDoubleClose (ClosedOnce), all
  from IInv. It adds: runs are numbered in the order of their beginning
  (Numbered), a launcher that is gone holds nothing (Gone), a start owns the run
  it registered and, as long as starts did not overlap, the place in the table
  (Starts), and two watchers never close the books of the same run (Watchers).
  Watchers is needed even for type correctness: a watcher that closes books closes
  those of a run. AliveIsKnown and
  AliveIsRecorded need each other: the record is right when a run is announced
  because that run is the only one alive and no watcher of an older run is still to remove
  the file, and the run is known after a restart because the record was right. Every
  ignored error that breaks this chain is a step of the model and a word of `harm`.
  A second invariant, Table, follows `Manager.running` over the life of a run: what is
  listed has not been written off (Listed), has a watcher or a start about to set one
  (Tended), and is the run that every Stop with a live process aims at (Aimed). From it:
  OneProcess (never two live java processes of one server, the times without a launcher
  included), AlwaysTended (the safety core of DeadIsNoticed: all that is missing is a
  fair scheduler), StopsAreAimed (killProcess looks the process up by the server's id,
  and finds the one it was called for as long as that one lives) and FileWorkMeetsStopping,
  which is what remains of the violated FilesAtRest: file work begins beside a live
  process only if that process has been told to stop.

* **RemoteControl_proofs**: TypeCorrect, CommandsActOnce (ActsOnce), NothingLeaks
  (NothingAfterLoss), LinesInOrder (ShownInOrder), NoLineIsMissed (NoGap),
  SessionsHaveAChannel (NoOrphanSession), ChannelIsKept (ChannelKept), for any number of
  requests, channels, lines and changes. A command acts once because its memory is
  younger than its envelope as long as a copy can pass as fresh: the argument needs
  `ReplayTTL >= 2 * Window` (a clock may be ahead by Window when the command is
  remembered and behind by Window when the copy comes) and that the memory is never
  emptied for its size. NothingAfterLoss rests on what is still on its way: every line a
  session or a flusher holds was printed before the console was taken, and Expel, which
  asks for the right again, is the only way to flush a session that lost it. NoGap is
  followed line by line (Followed): each step that moves lines, from the backlog to the
  session, to a flusher, to the wire and to the window, takes every line it leaves
  behind along or names it as lost (TakeKnown, PutKnown, OnLineKnown). Lines are
  followed by place, not by number, so that a buffer that was replaced in between is
  covered. What a friend can make the owner's launcher keep is bounded: SessionsAreFew
  (`maxSessionsPerFriend`, whatever he sends over however many channels) and
  QueuesAreShort (no session or flush holds more lines than the larger of `backlogLines`
  and `maxPending`, `host.go:66-69`, however long the flushers are kept from it). The
  first counts: only doOpen adds a session, and only below the limit. The second follows
  each queue through Append, the cut at its head and the flush.
* **SharedBuild_proofs**: TypeCorrect, RegisteredIsWhole (RegisteredWhole),
  CompleteSurvives (FilesSurvive), LeavesNothing (NoLeftovers), OneInstallation
  (InstalledOnce), for any files, folders and bound on the failures. One inductive
  invariant serves all: which folder each `pc` works on and what the marker says
  there (Hands), what the journal and `mem` promise about the stage (Kept), that
  whatever lies in an unregistered folder is under the marker (Tidy, Marked), that
  the folders in the book are whole (Sound), and that a complete transfer is owed
  exactly until it is registered (Owing).

* **PackSync_proofs**: TypeCorrect, GiftsKeptHolds (GiftsKept), RecordsBackedHolds
  (RecordsBacked) and CompleteIsCurrentHolds (CompleteIsCurrent), for any keys, paths,
  manifests, sessions and faults. ManifestAssumption says what the Pack Manager, which
  is not in this repository, sees to: stamps grow with each change. RecordsBacked needs
  nothing else, CompleteIsCurrent one hypothesis, `KeysKeepPaths` (a path stays under
  its key; section 7 shows what the code does without it). Both name within the
  statement what they leave out: a session that begins with an older manifest than one
  before it (`overtaken`) and the `excused` paths. RecordsBacked is not inductive:
  RecordsOK adds that the session that works has the newest manifest any session began
  with (Newer), that what has landed and is not yet noted is there (LandedOK), and that
  records are honest (Honest): each bears a stamp that some manifest up to that one gave
  its key, and where none of them is later the path holds what the stamp stands for,
  unless it is missing or excused. CompleteInv adds what is left to do while a session
  works: a key of the manifest is on the disk, or among its tasks, archives or landed
  files, and a foreign mod is among its orphans (WorksOK); and the stage never says
  complete while somebody works (StageOK). GiftsKept needs only that what is kept is out
  of the reach of the session's tasks, archives, orphans and cancel (KeptOK). Two
  theorems are about the sessions themselves. NoWakeupIsLost: whoever waits, a second
  DownloadPack or a launch, waits for a session that works, and its last step wakes all
  of them, the safety core of RunEnds and LaunchEnds. StateGoesForward: with manifests
  published at any time, the state of the build returns to an older manifest only when
  the build is removed or in the first lines of a Runner; the second is the behaviour
  section 7 describes, and the theorem says that there is no other place. Its invariant
  OwnsState: what is saved while a session works is not newer than what it holds.

Ten theorems state definitions that no run lists, because the runs are used for the
properties above: NeverUnwatched, RollbackIsSafe, OneProcess, AlwaysTended, StopsAreAimed,
FileWorkMeetsStopping, SessionsAreFew, QueuesAreShort, NoWakeupIsLost and
StateGoesForward. TLC found no counterexample to any of them on the instances of section
4 (with `MaxTrouble = 2` and two stoppers in the modules they concern)
before they were proved.

Only model-checked: every liveness property (CallEnds, TrialEnds, BadBackendLeaves,
DeadIsNoticed, StopReturns, ConsoleCloses, TransferEnds, RunEnds, LaunchEnds), because
fairness and ENABLED are outside the provers' reach. Every invariant and action property
of the passing runs is proved.
Induction over data and RECURSIVE operators cannot be used in proofs; no module uses
them.

## 6. Not modelled

The old CDN source of updates (RecordInstalled; it does not consult FailedVersion),
Flatpak builds, the certificate gate, `.update.lock`, `updater.dll.previous`, the moment
between the two renames of the exe, single entries of an archive, signatures and
keysets, pages and windows. For servers: SendCommand and the text of the console,
statistics and players, backups, the port check, restores cut short, and reuse of a PID:
the record compares creation times, and where these cannot be read (macOS,
`procident_other.go:25-27`) `matches` accepts any process with the PID. For remote
control: the encryption and numbering inside `remotechan` and `remotepipe` (a channel is
assumed to give each frame once and in order, as they promise), the mandate and its
signatures, networks and what their members inherit, restarts of either launcher, the
table of calls that wait for an answer, and ForgetAll and Reset after a change of the
account; limits on rates and the state of the server appear as refusals that may come at
any time; lines without a printable character, which sanitizeLine drops. `Buffer.Clear`
is called only for the consoles of game builds, so the numbers of a server's lines begin
again only after a failed start. For sharing: the sending side, pause and resume, the
choice between the CDN and the friend, what the windows show, bundles of several builds,
the single clock `lastProg` that parallel fetches share (progress of one keeps the
others from giving up, which only delays the end), a failing removal of the marker
(`share/install.go:60`) and the folder of a pack that holds nothing after an undo, both
outside NoLeftovers, a journal of another manifest, errors of writing `manifest.json`,
and a second attempt that begins while an earlier one is still ending after its five
seconds. For synchronisation: `.part` files and their resumption, retries and mirrors,
the hash cache, spelling and case of paths, the mod id behind the whitelist, failing
saves of the state, a power cut that loses a file after its rename, CleanupOrphaned, and
what DownloadPack writes after a complete session (default options, the official
server). A folder is one path with one content, so a file of the user inside a delivered
folder is part of "the user changed the folder". Components without a module are listed
in `PROJECT.json` with the reason.

## 7. What the models found

Statements of comments that the code does not keep, each with a run:

* **ManifestDescribes** (`install.go:216-220`): the plan of an update is made from the
  manifest read before Open rolled back and rewrote it, so a backend may be
  skipped that is no longer installed, and later diffs never notice.
* **FilesAtRest** (`api.go:1240-1243`): IsRunning is false while the status is
  "stopping", so a world can be restored, a core changed or a folder renamed
  under a live java process for up to 40 seconds, or longer if it ignores the
  stop.
* **TimerKills** (`process.go:384`): outside Windows the kill after an ignored interrupt
  never comes, because the timer asks the same IsRunning after Stop set
  "stopping"; a second Stop returns at once.
* **RegisteredIsKept** (`share/install.go:63-66`): a server is registered before its
  marker says so, and the marker has no id by which anybody could be asked; a crash
  between the two makes RecoverInstall move a registered server back.
* **CompleteIsManifest** (`runner.go:1020`, `state.go:24`): a folder counts as unpacked
  already when every file of the new archive is there with its size. An update that only
  drops files of the folder, or keeps names and sizes, is downloaded, thrown away and
  recorded as installed, and the build is called complete with the old folder.

Behaviours seen while modelling and excluded by a ghost or a guard: three failing calls
in one replacement lose the file; after a crash between the two renames of a replacement
Rollback fails at its first rename, because nothing lies under the real name, although
`install.go:16-20` counts on it; a crash between `launcher-version.json` and
`update-state.json` leaves a new version installed without a trial, although
`state.go:17-18` of the updater promises a continuation or a rollback; the error of a
rollback is ignored and the manifest restored all the same; a crash in Apply and a retry
overwrite `.previous` with the new file; a rollback returns the backend only; repair at
start reads no `update-state.json` and does not replace the running shell; starts that
never reached the backend (restarts for a new shell) count as failed attempts; a newer
release found while one is on trial replaces the trial, so that a later rollback returns
to an unproved version, although `engine.go:403-404` says that the next start either
confirms a version or rolls it back; when the restart after a manual update fails, the
old backend reports the new version as healthy; a backend that is missing when its
replacement is put in place leaves no `.previous`, so that giving the new version up
returns the manifest alone, and a later version that keeps the backend of that manifest
installs none and is committed with the wrong one (why CommitEarned leaves lost files
out); a commit removes the way back before its decision is saved (`engine.go:94-98`,
77), so that a crash in between leaves a trial on record that only the report, still
there, settles; overlapping starts of one server leave the first java process out of
control; a watcher that is late removes the record of the next run; writeRuntimeRecord
ignores that it could not write, and a launcher at start drops the record of a live
process it cannot look at (`recover.go:53-63`, 132-156), after which nothing controls
it; killProcess may hit a newer run than the one its Stop was asked about; Announce
overwrites a "stopping" set while cmd.Start ran; StopServer makes its "consistent"
backup also when the graceful stop timed out.

Remote control: two flushers send outside the lock, so a later line may overtake and the
client then drops the earlier one; a stale grant keeps its old time when it is given
again and is deleted by the next command; a grant younger than the tolerance before the
friendship was renewed counts again; a session dropped with its channel leaves the
friend's window open; two consoles opened at once replace each other's channel; the
memory of commands is emptied above 2048 entries and by a restart; a console opened
while a pause is being carried out is closed by the next flush only; lines too long for
a chunk go without being counted as skipped, a whole row of them in one flush; after a
start that fails the new buffer numbers its lines from the beginning, and the friend's
launcher takes them for old ones until they pass the number it has seen. The memory is
bounded by nothing else: `seen` (`host.go:238`) remembers a command before any limit on
rates is asked, so `MemoryIsLargeEnough` is an assumption about the friend, not a fact
of the code.

Sharing: a crash or an error in the removal that ends a move across disks makes the
next recovery delete the complete copy, and the rest is then installed without being
hashed again; a removal of the stage that is cut short may leave a complete journal
without files, and the next accept installs an empty build; the error of the move in
an undo is ignored and the folder removed; a discard erases the stage three seconds
after it asked the transfer to stop, whether it has or not; answers that are longer than
the file or break off are fetched again without being counted; neither the files nor the
lists of builds are flushed to the disk after a registration, so a power cut may harm what
is registered. A transfer whose sender is gone for good never ends by itself while a big file is
still to come: each attempt of fetchBig begins with setCounted (`client.go:967`), which
stores the time of the last progress (449-455), so the retry loop takes every attempt for
progress, sets its clock back (394-396) and reaches neither StallTimeout (409) nor
SenderGone (412), although `client.go:82-83` promises «здаємося одразу». The only test of it
(TestSenderGoneFailsFast) ends at the manifest, before any file is asked for. No run of its
own shows this: TransferEnds names the case.

Synchronisation: a file that moves from one list of the manifest to the other, and so to
another key, is removed as an orphan of the old key after it was downloaded, and the
next start downloads it again; a session that waited for another one starts from the
manifest and the records it read before the wait, so that after a release in between,
and a session that installed it, it installs the older manifest over the newer one and
its records call current what is not; DeletePack does not wait for the session it
cancels, which brings the state back with its next save; a half unpacked on_missing
folder, or one under a record that a later manifest does not renew, is never looked into
again; the flag of a failed start is cleared only by a launch that finds a session, so
after one failure later launches do not wait for theirs; a cancel or a pause in the
middle of an on_missing file ends the session as an error, without the removal of what
it made.

## 8. Plan

Order: what loses the user's data first.

1. Candidates, composed into the runs above where possible: UpdateLock (two updaters
   and a stale lock), Supervisor (crash loop against restarts for updates), P2PGate
   (tickets), ChatOutbox (retries).
2. In the modules there are: several entries of an archive as paths of their own in
   PackSync; resumption of `.part` files with their hashes.
