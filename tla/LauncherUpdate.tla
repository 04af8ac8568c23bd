---------------------------- MODULE LauncherUpdate ----------------------------
(***************************************************************************)
(* The two-phase update of the launcher, over many starts of the program:  *)
(*                                                                         *)
(*   shell    applies what waits as ".new", repairs an incomplete          *)
(*            installation, loads updater.dll and then backend.dll         *)
(*   updater  closes the previous update (commit, one more attempt, or     *)
(*            roll back), looks for a newer version, installs it and       *)
(*            records it as a trial ("swapped") in update-state.json       *)
(*   backend  writes update-health.json once it has run for 20 seconds     *)
(*                                                                         *)
(* Everything the disk holds survives a crash; proc is the memory of the   *)
(* running process.  Files change by the outcomes of FileOutcomes.         *)
(***************************************************************************)
EXTENDS Naturals, FileOutcomes

CONSTANTS
  Newest,      \* versions are 1..Newest, 1 is installed
  Build,       \* Build[v][c]: the image of component c in version v
  Healthy,     \* backend images that survive 20 seconds
  Required,    \* versions whose manifest says security or min_version
  MaxTrouble   \* bound: crashes mid-write, failed calls, files removed

Version == 1..Newest
Component == {"backend", "frontend", "updater", "shell"}
Locked == {"updater", "shell"}      \* IsLockedComponent
Image == {Build[v][c] : v \in Version, c \in Component}

ASSUME NewestNat == Newest \in Nat \ {0}
ASSUME BuildType == Build \in [Version -> [Component -> Image]]
ASSUME NoneIsNoImage == None \notin Image
ASSUME HealthyType == Healthy \subseteq Image /\ Required \subseteq Version
ASSUME MaxTroubleNat == MaxTrouble \in Nat

maxHealthAttempts == 3

VARIABLES
  disk,          \* component -> image installed
  backup,        \* backend.dll.previous
  staged,        \* locked component -> its ".new" file
  manifest,      \* launcher-version.json
  manifestPrev,  \* launcher-version.json.previous (0: no file)
  ledger,        \* update-state.json
  health,        \* update-health.json
  released,      \* the newest version published
  pc,            \* what the process is doing, "off" when there is none
  proc,          \* memory of the process
  trouble,       \* bounded troubles so far
  harm,          \* ghost: kinds of trouble met (Harm)
  proved,        \* ghost: versions whose own backend ran for 20 seconds
  banned         \* ghost: versions ever recorded as failed

files == <<disk, backup, staged>>
records == <<manifest, manifestPrev, ledger, health>>
ghosts == <<harm, proved, banned>>
vars == <<files, records, released, pc, proc, trouble, ghosts>>

Phase == {"none", "swapped", "committed"}
Content == Image \union {None}

(* cut        a write failed or was cut short by a crash                   *)
(* died       the process ended outside an installation and a rollback     *)
(* lost       an installed file was removed                                *)
(* stuck      a new process could not be started                           *)
(* unsaved    update-state.json could not be written                       *)
(* keyset     no valid keyset: what Open decided was not saved             *)
(* bootstrap  the shell reinstalled components by itself                   *)
(* overlap    a version was installed over one still on trial              *)
(* stale      the plan was made from a manifest Open had just replaced     *)
Harm == {"cut", "died", "lost", "stuck", "unsaved", "keyset", "bootstrap",
         "overlap", "stale"}

FilesOK ==
  /\ disk \in [Component -> Content]
  /\ backup \in Content
  /\ staged \in [Locked -> Content]

Ledger == [phase : Phase, pending : 0..Newest, swaps : BOOLEAN,
           attempts : 0..(maxHealthAttempts - 1),
           highest : 0..Newest, failed : 0..Newest]

RecordsOK ==
  /\ manifest \in Version
  /\ manifestPrev \in Version \union {0}
  /\ ledger \in Ledger
  /\ health \in [version : 0..Newest, fresh : BOOLEAN]
  /\ released \in Version

Memory == [local : 0..Newest, target : 0..Newest, todo : SUBSET Component,
           swaps : BOOLEAN, loaded : Content, runs : 0..Newest,
           before : 0..Newest]

ProcessOK ==
  /\ pc \in {"off", "libs", "shell", "entry", "bootstrap", "updater", "forget",
             "commit", "rollback", "restore", "giveup", "check", "apply", "record", "failed", "handover",
             "loading", "backend", "fatal"}
  /\ proc \in Memory

GhostsOK ==
  /\ trouble \in 0..MaxTrouble
  /\ harm \subseteq Harm
  /\ proved \subseteq Version
  /\ banned \subseteq Version

TypeOK == FilesOK /\ RecordsOK /\ ProcessOK /\ GhostsOK

FreshProcess == [local |-> 0, target |-> 0, todo |-> {}, swaps |-> FALSE,
                 loaded |-> None, runs |-> 0, before |-> 0]

Init ==
  /\ disk = [c \in Component |-> Build[1][c]]
  /\ backup = None
  /\ staged = [c \in Locked |-> None]
  /\ manifest = 1 /\ manifestPrev = 0
  /\ ledger = [phase |-> "none", pending |-> 0, swaps |-> FALSE,
               attempts |-> 0, highest |-> 0, failed |-> 0]
  /\ health = [version |-> 0, fresh |-> FALSE]
  /\ released = 1
  /\ pc = "off" /\ proc = FreshProcess
  /\ trouble = 0 /\ harm = {} /\ proved = {} /\ banned = {}

-------------------------------------------------------------------------------
Quiet == UNCHANGED <<trouble, harm>>

Trouble(kind) ==
  /\ trouble < MaxTrouble
  /\ trouble' = trouble + 1
  /\ harm' = harm \union {kind}

Backend(S) ==
  \E pair \in S : /\ disk' = [disk EXCEPT !["backend"] = pair[1]]
                  /\ backup' = pair[2]

(* relaunchExe: a new process, which waits for this one to end.            *)
Relaunch == pc' = "libs" /\ proc' = FreshProcess

-------------------------------------------------------------------------------
(* The shell at start.                                                     *)

Launch ==
  /\ pc = "off"
  /\ Relaunch
  /\ Quiet
  /\ UNCHANGED <<files, records, released, proved, banned>>

(* applyPendingUpdates: updater.dll.new into its place, or left for the    *)
(* next start.  Nothing reads updater.dll.previous.                        *)
ApplyPending ==
  /\ pc = "libs"
  /\ pc' = "shell"
  /\ \/ staged["updater"] = None /\ UNCHANGED <<disk, staged>> /\ Quiet
     \/ /\ staged["updater"] # None
        /\ disk' = [disk EXCEPT !["updater"] = staged["updater"]]
        /\ staged' = [staged EXCEPT !["updater"] = None]
        /\ Quiet
     \/ /\ staged["updater"] # None /\ Trouble("cut")
        /\ UNCHANGED <<disk, staged>>
  /\ UNCHANGED <<backup, records, released, proc, proved, banned>>

(* applyShellSelfUpdate: the running exe aside, <exe>.new into its place.  *)
SwapShell ==
  /\ staged["shell"] # None
  /\ disk' = [disk EXCEPT !["shell"] = staged["shell"]]
  /\ staged' = [staged EXCEPT !["shell"] = None]

KeepShell ==
  /\ \/ staged["shell"] = None /\ Quiet
     \/ staged["shell"] # None /\ Trouble("cut")
  /\ UNCHANGED <<disk, staged>>

(* Swapped and relaunched; or the new exe did not start, or there is none, *)
(* and this process goes on.                                               *)
ApplyShell ==
  /\ pc = "shell"
  /\ \/ SwapShell /\ Relaunch /\ Quiet
     \/ SwapShell /\ Trouble("stuck") /\ pc' = "entry" /\ UNCHANGED proc
     \/ KeepShell /\ pc' = "entry" /\ UNCHANGED proc
  /\ UNCHANGED <<backup, records, released, proved, banned>>

launcherIncomplete ==
  \E c \in {"updater", "backend", "frontend"} : disk[c] = None

Enter ==
  /\ pc = "entry"
  /\ pc' = IF launcherIncomplete THEN "bootstrap" ELSE "updater"
  /\ Quiet
  /\ UNCHANGED <<files, records, released, proc, proved, banned>>

(* bootstrapAll: every component but the running exe from the newest       *)
(* release, then its manifest, whatever update-state.json says.            *)
BootstrapDone ==
  /\ pc = "bootstrap"
  /\ disk' = [c \in Component |->
                IF c = "shell" THEN disk[c] ELSE Build[released][c]]
  /\ manifest' = released
  /\ harm' = harm \union {"bootstrap"}
  /\ \/ Relaunch /\ UNCHANGED trouble
     \/ /\ trouble < MaxTrouble /\ trouble' = trouble + 1
        /\ pc' = "updater" /\ UNCHANGED proc
  /\ UNCHANGED <<backup, staged, manifestPrev, ledger, health, released,
                 proved, banned>>

(* Offline, or stopped after some of the components: the launcher opens    *)
(* when there is a backend to open.                                        *)
BootstrapFails ==
  /\ pc = "bootstrap"
  /\ \E done \in SUBSET {"updater", "backend", "frontend"} :
       /\ disk' = [c \in Component |->
                     IF c \in done THEN Build[released][c] ELSE disk[c]]
       /\ harm' = IF done = {} THEN harm ELSE harm \union {"bootstrap"}
  /\ pc' = IF disk'["backend"] = None THEN "fatal" ELSE "loading"
  /\ UNCHANGED <<backup, staged, records, released, proc, trouble, proved,
                 banned>>

-------------------------------------------------------------------------------
(* The updater closes the previous update: newupdate.Open.                 *)

(* loadKeyset fails: nothing of what Open decided is saved.                *)
KeysetFails ==
  Trouble("keyset") /\ pc' = "handover" /\ UNCHANGED ledger

Saved(entry) == ledger' = entry /\ pc' = "check" /\ Quiet

Saves(entry) == Saved(entry) \/ KeysetFails

Watched == ledger.phase = "swapped"

(* mutant: any report after the swap confirms                              *)
ConfirmedByAny == health.fresh

(* The backend of the pending version reported, after the swap.            *)
Confirmed == health.version = ledger.pending /\ health.fresh

(* core.Run reads the local manifest before Open may roll it back.         *)
ReadsLocal == proc' = [proc EXCEPT !.local = manifest]

OpenQuiet ==
  /\ pc = "updater" /\ ~Watched
  /\ ReadsLocal
  /\ Saves(ledger)
  /\ UNCHANGED <<files, manifest, manifestPrev, health, released, proved, banned>>

(* The trial is over: the way back is removed, file by file, and at last   *)
(* the decision saved.                                                     *)
OpenCommit ==
  /\ pc = "updater" /\ Watched /\ Confirmed
  /\ ReadsLocal
  /\ \/ backup' = (IF ledger.swaps THEN None ELSE backup) /\ Quiet
     \/ UNCHANGED backup /\ Trouble("cut")
  /\ pc' = "forget"
  /\ UNCHANGED <<disk, staged, records, released, proved, banned>>

ForgetManifest ==
  /\ pc = "forget"
  /\ \/ manifestPrev' = 0 /\ Quiet
     \/ UNCHANGED manifestPrev /\ Trouble("cut")
  /\ pc' = "commit"
  /\ UNCHANGED <<files, manifest, ledger, health, released, proc, proved, banned>>

SaveCommit ==
  /\ pc = "commit"
  /\ Saves([ledger EXCEPT !.phase = "committed", !.attempts = 0])
  /\ UNCHANGED <<files, manifest, manifestPrev, health, released, proc, proved,
                 banned>>

(* mutant: the attempt is counted in memory only                           *)
OpenCountUnsaved ==
  /\ pc = "updater" /\ Watched /\ ~Confirmed
  /\ ledger.attempts + 1 < maxHealthAttempts
  /\ ReadsLocal
  /\ Saves(ledger)
  /\ UNCHANGED <<files, manifest, manifestPrev, health, released, proved, banned>>

OpenCount ==
  /\ pc = "updater" /\ Watched /\ ~Confirmed
  /\ ledger.attempts + 1 < maxHealthAttempts
  /\ ReadsLocal
  /\ Saves([ledger EXCEPT !.attempts = @ + 1])
  /\ UNCHANGED <<files, manifest, manifestPrev, health, released, proved, banned>>

(* mutant: given up one start early                                        *)
OpenGiveUpEarly ==
  /\ pc = "updater" /\ Watched /\ ~Confirmed
  /\ ledger.attempts + 2 >= maxHealthAttempts
  /\ ReadsLocal
  /\ pc' = "rollback"
  /\ Quiet
  /\ UNCHANGED <<files, records, released, proved, banned>>

OpenGiveUp ==
  /\ pc = "updater" /\ Watched /\ ~Confirmed
  /\ ledger.attempts + 1 >= maxHealthAttempts
  /\ ReadsLocal
  /\ pc' = "rollback"
  /\ Quiet
  /\ UNCHANGED <<files, records, released, proved, banned>>

(* Rollback of each swapped path; its error is ignored.                    *)
RollBack ==
  /\ pc = "rollback"
  /\ pc' = "restore"
  /\ \/ ~ledger.swaps /\ UNCHANGED <<disk, backup>> /\ Quiet
     \/ ledger.swaps /\ Backend(RollbackDone(disk["backend"], backup)) /\ Quiet
     \/ ledger.swaps /\ UNCHANGED <<disk, backup>> /\ Trouble("cut")
  /\ UNCHANGED <<staged, records, released, proc, proved, banned>>

(* mutant: the files go back, the manifest does not                        *)
RestoreNoManifest ==
  /\ pc = "restore"
  /\ pc' = "giveup"
  /\ Quiet
  /\ UNCHANGED <<files, records, released, proc, proved, banned>>

(* The previous manifest is copied back, when there is one.                *)
RestoreManifest ==
  /\ pc = "restore"
  /\ \/ manifest' = (IF manifestPrev = 0 THEN manifest ELSE manifestPrev) /\ Quiet
     \/ UNCHANGED manifest /\ Trouble("cut")
  /\ pc' = "giveup"
  /\ UNCHANGED <<files, manifestPrev, ledger, health, released, proc, proved,
                 banned>>

SaveGiveUp ==
  /\ pc = "giveup"
  /\ \/ /\ Saved([ledger EXCEPT !.phase = "none", !.attempts = 0,
                                !.failed = ledger.pending])
        /\ banned' = banned \union {ledger.pending}
     \/ KeysetFails /\ UNCHANGED banned
  /\ UNCHANGED <<files, manifest, manifestPrev, health, released, proc, proved>>

-------------------------------------------------------------------------------
(* The updater looks for a version and installs it.                        *)

(* mutant: the version that failed is taken again                          *)
AcceptableAgain(v) ==
  v <= released /\ v > proc.local /\ v >= ledger.highest

(* CheckUpdate and the failed-version guard of Check.                      *)
Acceptable(v) ==
  /\ v <= released
  /\ v > proc.local
  /\ v >= ledger.highest
  /\ v = ledger.failed => v \in Required

(* mutant: components of the running process are passed over               *)
DiffUnlocked(old, new) ==
  {c \in Component \ Locked : Build[old][c] # Build[new][c]}

(* Diff: by the manifests, never by the files.                             *)
Diff(old, new) == {c \in Component : Build[old][c] # Build[new][c]}

(* missingRequiredComponents; skipped when automatic updates are off.      *)
Missing == {c \in Component \ {"shell"} : disk[c] = None}

(* mutant: the manifest is not copied before the install                   *)
AcceptNoCopy(v) ==
  /\ pc = "check"
  /\ Acceptable(v)
  /\ \E extra \in {Missing, {}} :
       LET todo == Diff(proc.local, v) \union extra IN
       /\ todo # {}
       /\ proc' = [proc EXCEPT !.target = v, !.todo = todo,
                               !.swaps = "backend" \in todo]
  /\ pc' = "apply"
  /\ harm' = IF proc.local = manifest THEN harm ELSE harm \union {"stale"}
  /\ UNCHANGED <<files, records, released, trouble, proved, banned>>

(* A plan, the lock, the space, the downloads, and BeforeApply's copy of   *)
(* the manifest.                                                           *)
Accept(v) ==
  /\ pc = "check"
  /\ Acceptable(v)
  /\ \E extra \in {Missing, {}} :
       LET todo == Diff(proc.local, v) \union extra IN
       /\ extra = Missing \/ v \in Required
       /\ todo # {}
       /\ proc' = [proc EXCEPT !.target = v, !.todo = todo,
                               !.swaps = "backend" \in todo]
  /\ pc' = "apply"
  /\ manifestPrev' = manifest
  /\ harm' = IF proc.local = manifest THEN harm ELSE harm \union {"stale"}
  /\ UNCHANGED <<files, manifest, ledger, health, released, trouble, proved,
                 banned>>

(* Nothing newer, or nothing to be had now: offline, deferred, switched    *)
(* off, locked by another update, no space, a failed download.             *)
Decline ==
  /\ pc = "check"
  /\ pc' = "handover"
  /\ Quiet
  /\ UNCHANGED <<files, records, released, proc, proved, banned>>

(* Apply, one component: replaced, unpacked, or put beside as ".new".      *)
ApplyOne(c) ==
  /\ pc = "apply"
  /\ c \in proc.todo
  /\ LET new == Build[proc.target][c] IN
     \/ /\ c = "backend"
        /\ Backend(ReplaceDone(disk[c], backup, new)) /\ UNCHANGED staged
     \/ /\ c = "frontend"
        /\ disk' = [disk EXCEPT ![c] = new] /\ UNCHANGED <<backup, staged>>
     \/ /\ c \in Locked
        /\ staged' = [staged EXCEPT ![c] = new] /\ UNCHANGED <<disk, backup>>
  /\ proc' = [proc EXCEPT !.todo = @ \ {c}]
  /\ Quiet
  /\ UNCHANGED <<records, released, pc, proved, banned>>

(* What one component may look like when its replacement did not finish.   *)
LeftBehind(c, S) ==
  \/ c = "backend" /\ Backend(S) /\ UNCHANGED staged
  \/ c = "frontend" /\ UNCHANGED files
  \/ /\ c \in Locked
     /\ staged' \in {staged, [staged EXCEPT ![c] = None]}
     /\ UNCHANGED <<disk, backup>>

(* A component, or the manifest, could not be written: the error screen.   *)
ApplyFails ==
  /\ pc = "apply"
  /\ \/ \E c \in proc.todo : LeftBehind(c, ReplaceKept(disk["backend"], backup))
     \/ proc.todo = {} /\ UNCHANGED files
  /\ Trouble("cut")
  /\ pc' = "failed"
  /\ UNCHANGED <<records, released, proc, proved, banned>>

WriteManifest ==
  /\ pc = "apply" /\ proc.todo = {}
  /\ manifest' = proc.target
  /\ pc' = "record"
  /\ Quiet
  /\ UNCHANGED <<files, manifestPrev, ledger, health, released, proc, proved,
                 banned>>

(* AfterApply: the installed version is on trial.  A report written in the *)
(* minute before the swap still counts as written after it.  Neither       *)
(* AfterApply nor Close could save: the error is ignored.                  *)
Record ==
  /\ pc = "record"
  /\ \/ /\ ledger' = [ledger EXCEPT
                        !.phase = "swapped", !.pending = proc.target,
                        !.swaps = proc.swaps, !.attempts = 0,
                        !.highest = IF proc.target > @ THEN proc.target ELSE @]
        /\ health' \in {health, [health EXCEPT !.fresh = FALSE]}
        /\ harm' = IF Watched THEN harm \union {"overlap"} ELSE harm
        /\ UNCHANGED trouble
     \/ Trouble("unsaved") /\ UNCHANGED <<ledger, health>>
  /\ pc' = "handover"
  /\ UNCHANGED <<files, manifest, manifestPrev, released, proc, proved, banned>>

(* The error screen's buttons: run it all again, or go to the backend.     *)
Retry ==
  /\ pc = "failed"
  /\ pc' = "updater"
  /\ Quiet
  /\ UNCHANGED <<files, records, released, proc, proved, banned>>

CloseUpdater ==
  /\ pc = "failed"
  /\ pc' = "handover"
  /\ Quiet
  /\ UNCHANGED <<files, records, released, proc, proved, banned>>

-------------------------------------------------------------------------------
(* transitionToBackend.                                                    *)
HandOver ==
  /\ pc = "handover"
  /\ \/ SwapShell /\ Relaunch /\ Quiet
     \/ SwapShell /\ Trouble("stuck") /\ pc' = "loading" /\ UNCHANGED proc
     \/ /\ KeepShell
        /\ proc.loaded = None \/ manifest = proc.before
        /\ pc' = "loading" /\ UNCHANGED proc
  /\ UNCHANGED <<backup, records, released, proved, banned>>

(* A manual update changed the manifest: the loaded backend cannot be      *)
(* replaced in this process.                                               *)
HandOverLoaded ==
  /\ pc = "handover"
  /\ proc.loaded # None /\ manifest # proc.before
  /\ staged["shell"] = None
  /\ \/ Relaunch /\ Quiet
     \/ Trouble("stuck") /\ pc' = "loading" /\ UNCHANGED proc
  /\ UNCHANGED <<files, records, released, proved, banned>>

(* loadBackendAndShowMain: the library once per process, initialised with  *)
(* the version the manifest names.                                         *)
LoadBackend ==
  /\ pc = "loading"
  /\ LET image == IF proc.loaded = None THEN disk["backend"] ELSE proc.loaded IN
     /\ proc' = [proc EXCEPT !.loaded = image, !.runs = manifest, !.todo = {}]
     /\ pc' = IF image = None THEN "fatal" ELSE "backend"
  /\ Quiet
  /\ UNCHANGED <<files, records, released, proved, banned>>

-------------------------------------------------------------------------------
(* The backend.                                                            *)

(* mutant: the report is written at the start                              *)
MarkAtStart ==
  /\ pc = "backend"
  /\ health' = [version |-> proc.runs, fresh |-> TRUE]
  /\ Quiet
  /\ UNCHANGED <<files, manifest, manifestPrev, ledger, released, pc, proc,
                 proved, banned>>

(* markUpdateHealthy, 20 seconds after the start.                          *)
MarkHealthy ==
  /\ pc = "backend"
  /\ proc.loaded \in Healthy
  /\ health' = [version |-> proc.runs, fresh |-> TRUE]
  /\ proved' = IF proc.loaded = Build[proc.runs]["backend"]
                 THEN proved \union {proc.runs} ELSE proved
  /\ Quiet
  /\ UNCHANGED <<files, manifest, manifestPrev, ledger, released, pc, proc, banned>>

(* transitionToUpdater: the update button.                                 *)
ManualUpdate ==
  /\ pc = "backend"
  /\ pc' = "updater"
  /\ proc' = [proc EXCEPT !.before = manifest]
  /\ Quiet
  /\ UNCHANGED <<files, records, released, proved, banned>>

-------------------------------------------------------------------------------
(* The world.                                                              *)

(* Waiting for the user, for the network or for the backend to end.        *)
Waiting == {"backend", "failed", "fatal", "check", "bootstrap"}

(* The user closes it, it crashes, or the PC goes down meanwhile.          *)
Quit ==
  /\ pc \in Waiting
  /\ pc' = "off" /\ proc' = FreshProcess
  /\ Quiet
  /\ UNCHANGED <<files, records, released, proved, banned>>

(* It dies in one of the short steps between them, before the next write   *)
(* or in the middle of one.                                                *)
Crash ==
  /\ pc \notin Waiting \union {"off"}
  /\ pc' = "off" /\ proc' = FreshProcess
  /\ Trouble(IF pc \in {"entry", "updater", "forget", "commit", "loading"} THEN "died" ELSE "cut")
  /\ \/ UNCHANGED files
     \/ /\ pc = "libs" /\ staged["updater"] # None
        /\ disk' = [disk EXCEPT !["updater"] = None]
        /\ UNCHANGED <<backup, staged>>
     \/ /\ pc = "rollback" /\ ledger.swaps
        /\ Backend(RollbackCut(disk["backend"], backup)) /\ UNCHANGED staged
     \/ /\ pc = "apply"
        /\ \E c \in proc.todo :
             LeftBehind(c, ReplaceCut(disk["backend"], backup,
                                      Build[proc.target]["backend"]))
  /\ UNCHANGED <<records, released, proved, banned>>

(* An antivirus, or the user, removes an installed file.                   *)
Remove(c) ==
  /\ c # "shell" /\ disk[c] # None
  /\ disk' = [disk EXCEPT ![c] = None]
  /\ Trouble("lost")
  /\ UNCHANGED <<backup, staged, records, released, pc, proc, proved, banned>>

Publish ==
  /\ released < Newest
  /\ released' = released + 1
  /\ Quiet
  /\ UNCHANGED <<files, records, pc, proc, proved, banned>>

-------------------------------------------------------------------------------
Shell == ApplyPending \/ ApplyShell \/ Enter \/ BootstrapFails
         \/ HandOver \/ HandOverLoaded \/ LoadBackend

Open == OpenQuiet \/ OpenCommit \/ ForgetManifest \/ SaveCommit \/ OpenCount
        \/ OpenGiveUp \/ RollBack \/ RestoreManifest \/ SaveGiveUp

Install == (\E v \in Version : Accept(v)) \/ Decline
           \/ (\E c \in Component : ApplyOne(c)) \/ ApplyFails
           \/ WriteManifest \/ Record

Proceed == Shell \/ Open \/ Install

Next ==
  \/ Proceed \/ BootstrapDone
  \/ Launch \/ Retry \/ CloseUpdater \/ MarkHealthy \/ ManualUpdate
  \/ Quit \/ Crash \/ Publish
  \/ \E c \in Component : Remove(c)

(* The process runs on, the user closes the launcher and opens it again,   *)
(* and the network is not always away when a repair needs it.              *)
Spec == /\ Init /\ [][Next]_vars
        /\ WF_vars(Proceed) /\ WF_vars(Launch) /\ WF_vars(Quit)
        /\ SF_vars(BootstrapDone)
-------------------------------------------------------------------------------
OnTrial(v) == Watched /\ ledger.pending = v

InstallsVersion(v) == pc = "check" /\ pc' = "apply" /\ proc'.target = v

(* The updater never installs again a version it once rolled back from,    *)
(* whatever came in between: one FailedVersion and HighestSeen have to     *)
(* cover all of them (state.go:37, engine.go:288, trust.CheckUpdate).      *)
FailedStaysOut ==
  [][\A v \in banned \ Required : ~InstallsVersion(v)]_vars

(* While the installed version is on trial and has not reported itself,    *)
(* the backend it replaced lies under .previous, next to the manifest that *)
(* describes it, until a rollback uses it (engine.go:107-113); unless an   *)
(* install was cut short or files were lost or reinstalled.  A commit that *)
(* the process did not survive has removed both with the trial still on    *)
(* record (engine.go:95): then the report is there to confirm it again.    *)
RollbackReady ==
  OnTrial(manifest) /\ ledger.swaps /\ ~Confirmed
    /\ pc \notin {"apply", "record", "restore"}
    /\ harm \subseteq {"stuck", "overlap", "died", "keyset"}
  => manifestPrev # 0 /\ backup = Build[manifestPrev]["backend"]

(* A version is committed, its way back deleted, only after its own        *)
(* backend ran for 20 seconds (update_health.go, engine.go:93). Files must *)
(* not be lost: a backend that is missing when its replacement is put in   *)
(* place (install.go:265) leaves no .previous to roll back to, and the     *)
(* manifest goes back alone (engine.go:108).                               *)
CommitEarned ==
  [][ledger.phase = "swapped" /\ ledger'.phase = "committed"
       /\ harm \subseteq {"keyset", "overlap", "died"}
     => ledger.pending \in proved]_vars

(* The backend that opens is the one the manifest describes, after any     *)
(* updates, trials and rollbacks: Diff never looks at the files, so a      *)
(* difference would last (manifest.go:109).                                *)
BackendIsManifests ==
  pc = "backend" /\ harm \subseteq {"overlap", "keyset", "died"}
    => proc.loaded = Build[manifest]["backend"]

(* The launcher opens as one version: each component is installed, or      *)
(* staged for the next start, as the manifest says (install.go:66-68); as  *)
(* long as no version was rolled back, which returns the backend only.     *)
Stands(c) ==
  \/ disk[c] = Build[manifest][c]
  \/ c \in Locked /\ staged[c] = Build[manifest][c]

WholeVersion ==
  pc = "backend" /\ harm \subseteq {"overlap", "keyset", "died"}
    /\ banned = {} /\ manifest >= ledger.highest
  => \A c \in Component : Stands(c)

(* install.go:216-220 says the local manifest describes the full current   *)
(* delivery.                                                               *)
ManifestDescribes ==
  pc = "backend" /\ harm \subseteq {"stale"}
    => proc.loaded = Build[manifest]["backend"]

(* What the disk remembers of the trials is a history TrialLedger allows,  *)
(* through every crash, failed save and reinstallation.                    *)
Trial == INSTANCE TrialLedger WITH
  Limit    <- maxHealthAttempts,
  phase    <- ledger.phase,
  pending  <- ledger.pending,
  attempts <- ledger.attempts,
  highest  <- ledger.highest,
  failed   <- ledger.failed

LedgerPromise == Trial!LedgerSpec

(* A trial ends, with a commit, a rollback or a newer trial, however often *)
(* the launcher is closed early.                                           *)
TrialEnds == \A v \in Version : OnTrial(v) ~> ~OnTrial(v)

(* A backend that does not survive 20 seconds is not what the launcher     *)
(* opens for ever: as long as no call failed, in the end it opens only     *)
(* backends that do (unless two bad releases follow each other).           *)
BadBackendLeaves ==
  <>[](pc = "backend" /\ harm \subseteq {"keyset", "died"} => proc.loaded \in Healthy)
===============================================================================
